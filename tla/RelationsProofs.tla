-------------------------- MODULE RelationsProofs --------------------------
(***************************************************************************)
(* Proofs about Relations, for every number of sources, targets, keys and  *)
(* links.                                                                  *)
(***************************************************************************)
EXTENDS Relations, FiniteSetTheorems, TLAPS

-----------------------------------------------------------------------------
(* Helpers. *)

\* A window of the rows that a queryset joins is a number of rows.
LEMMA WindowType ==
  ASSUME NEW q, q.limit \in Nat, q.offset \in Nat, q.only \subseteq Keys
  PROVE  Window(q) \in Nat
<1> DEFINE K == Matching(q)
           R == {r \in K \X (1 .. MaxDup) : r[2] <= links[<<q.src, r[1]>>]}
<1>1. IsFiniteSet(K)
  BY KeysAssumption, FS_Subset DEF Matching
<1>2. IsFiniteSet(1 .. MaxDup)
  BY LimitAssumption, FS_Interval
<1>3. IsFiniteSet(K \X (1 .. MaxDup))
  BY <1>1, <1>2, FS_Product
<1>4. IsFiniteSet(R)
  BY <1>3, FS_Subset
<1>5. Cardinality(R) \in Nat
  BY <1>4, FS_CardinalityType
<1>6. Count(q, K) \in Nat
  BY <1>5 DEF Count
<1> HIDE DEF K
<1> QED
  <2> DEFINE left == Count(q, K) - q.offset
  <2>1. Window(q) = IF left < 0 THEN 0
                    ELSE IF q.limit = 0 \/ left < q.limit THEN left ELSE q.limit
    BY DEF Window, K
  <2> QED
    BY <1>6, <2>1
\* The queryset of a relation is one after setup, whatever it was before.
LEMMA SetUpType ==
  ASSUME TypeOK, NEW o \in Source
  PROVE  SetUp(o) \in QuerySets
BY LimitAssumption DEF TypeOK, SetUp, NewQuerySet, QuerySets

\* Keys given to new targets by an injection into the unused keys.
LEMMA GivenKeys ==
  ASSUME TypeOK, NEW o \in Source, NEW f \in [Fresh(o) -> Unused], NEW fault,
         \A t, u \in Fresh(o) : f[t] = f[u] => t = u
  PROVE  /\ KeysSet(f, fault) \in [Target -> Keys \union {0}]
         /\ \A t \in Target : pk[t] # 0 => KeysSet(f, fault)[t] = pk[t]
         /\ \A t \in Target \ Fresh(o) : KeysSet(f, fault)[t] = pk[t]
         /\ fault # "statement" => \A t \in Fresh(o) : KeysSet(f, fault)[t] = f[t]
         /\ RowsMade(f, fault) \in [Keys -> Target \union {None}]
         /\ fault # "none" => RowsMade(f, fault) = rowOf
         /\ fault = "none" => \A t \in Fresh(o) : RowsMade(f, fault)[f[t]] = t
         /\ \A k \in Keys : /\ Rows(k) => RowsMade(f, fault)[k] = rowOf[k]
                            /\ RowsMade(f, fault)[k] = rowOf[k]
                                  \/ \E t \in Fresh(o) : f[t] = k
<1>1. f \in [Fresh(o) -> Keys] /\ DOMAIN f = Fresh(o)
  BY DEF Unused
<1>2. Fresh(o) \subseteq Target /\ \A t \in Fresh(o) : pk[t] = 0
  BY DEF Fresh, TypeOK, Calls
<1>3. \A t \in Fresh(o) : /\ \E u \in DOMAIN f : f[u] = f[t]
                          /\ (CHOOSE u \in DOMAIN f : f[u] = f[t]) = t
  BY <1>1
<1>4. \A k \in Keys : (\E t \in DOMAIN f : f[t] = k) =>
          (CHOOSE t \in DOMAIN f : f[t] = k) \in Fresh(o)
  BY <1>1
<1>5. \A t \in Fresh(o) : ~ Rows(f[t])
  BY DEF Unused, Rows
<1>6. /\ KeysSet(f, fault) \in [Target -> Keys \union {0}]
      /\ \A t \in Target : pk[t] # 0 => KeysSet(f, fault)[t] = pk[t]
      /\ \A t \in Target \ Fresh(o) : KeysSet(f, fault)[t] = pk[t]
      /\ fault # "statement" => \A t \in Fresh(o) : KeysSet(f, fault)[t] = f[t]
  BY <1>1, <1>2 DEF KeysSet, TypeOK
<1>7. RowsMade(f, fault) \in [Keys -> Target \union {None}]
  BY <1>2, <1>4 DEF RowsMade, TypeOK
<1>8. fault = "none" => \A t \in Fresh(o) : RowsMade(f, fault)[f[t]] = t
  BY <1>1, <1>3 DEF RowsMade
<1>9. \A k \in Keys : /\ Rows(k) => RowsMade(f, fault)[k] = rowOf[k]
                      /\ RowsMade(f, fault)[k] = rowOf[k]
                            \/ \E t \in Fresh(o) : f[t] = k
  BY <1>1, <1>5 DEF RowsMade
<1>10. fault # "none" => RowsMade(f, fault) = rowOf
  BY DEF RowsMade
<1> QED
  BY <1>6, <1>7, <1>8, <1>9, <1>10

-----------------------------------------------------------------------------
(* The inductive invariant. *)

\* When the links are written, each target of the call has a key.
Keyed ==
    \A o \in Source : call[o].at = "through" =>
        \A t \in call[o].targets : pk[t] # 0

(* The properties hold together: the links name rows because the keys do,  *)
(* and the targets of a call have keys because none is taken back.         *)
IInv ==
    /\ TypeOK
    /\ Keyed
    /\ TargetsKnowTheirRows
    /\ LinksAreStored
    /\ CacheIsLinked

LEMMA InitInv == Init => IInv
<1> SUFFICES ASSUME Init PROVE IInv
  OBVIOUS
<1>1. \A k \in Keys : (\E t \in Target : pk[t] = k) =>
          /\ (CHOOSE t \in Target : pk[t] = k) \in Target
          /\ pk[CHOOSE t \in Target : pk[t] = k] = k
  OBVIOUS
<1>2. TypeOK
  <2>1. rowOf \in [Keys -> Target \union {None}]
    BY <1>1 DEF Init
  <2>2. NoCall \in Calls
    BY DEF NoCall, Calls, Ops, Rest
  <2>3. links \in [Pairs -> Nat]
    BY DEF Init
  <2> QED
    BY <2>1, <2>2, <2>3 DEF Init, TypeOK
<1>3. Keyed
  BY DEF Init, Keyed, NoCall
<1>4. TargetsKnowTheirRows
  <2>1. ASSUME NEW t \in Target, pk[t] # 0 PROVE rowOf[pk[t]] = t
    <3>1. pk[t] \in Keys
      BY <2>1 DEF Init
    <3>2. \A u \in Target : pk[u] = pk[t] => u = t
      BY <2>1 DEF Init
    <3>3. (CHOOSE u \in Target : pk[u] = pk[t]) = t
      BY <3>1, <3>2, <1>1
    <3> QED
      BY <3>1, <3>3 DEF Init
  <2>2. \A k \in Keys : Rows(k) => pk[rowOf[k]] = k
    BY <1>1 DEF Init, Rows
  <2> QED
    BY <2>1, <2>2 DEF TargetsKnowTheirRows
<1>5. LinksAreStored /\ CacheIsLinked
  BY DEF Init, LinksAreStored, CacheIsLinked
<1> QED
  BY <1>2, <1>3, <1>4, <1>5 DEF IInv

\* Steps that leave the database, the keys and the cache alone.
LEMMA QuietInv ==
  ASSUME IInv, NEW o \in Source, UNCHANGED <<database, key, pk, cache, lost, foreign>>,
         qs' \in [Source -> QuerySets \union {None}], met' \subseteq Source,
         call' \in [Source -> Calls],
         \A p \in Source : call'[p].at = "through" => call'[p] = call[p]
  PROVE  IInv'
<1>1. TypeOK'
  BY DEF IInv, TypeOK, database
<1>2. Keyed'
  BY DEF IInv, Keyed
<1>3. TargetsKnowTheirRows'
  BY DEF IInv, TargetsKnowTheirRows, Rows, database
<1>4. LinksAreStored'
  BY DEF IInv, LinksAreStored, Rows, database
<1>5. CacheIsLinked'
  BY DEF IInv, CacheIsLinked, Linked, database
<1> QED
  BY <1>1, <1>2, <1>3, <1>4, <1>5 DEF IInv

\* A step of a call that only moves it on, or ends it.
LEMMA GoType ==
  ASSUME TypeOK, NEW o \in Source, NEW at \in Rest \union Stages, Go(o, at)
  PROVE  /\ call' \in [Source -> Calls]
         /\ call'[o] = [call[o] EXCEPT !.at = at]
         /\ \A p \in Source \ {o} : call'[p] = call[p]
BY ZenonT(60) DEF TypeOK, Go, Calls

LEMMA AnswerInv ==
  ASSUME IInv, NEW o \in Source, NEW at, Answer(o, at)
  PROVE  IInv'
<1>1. at \in Rest /\ at # "through" /\ Go(o, at)
  BY DEF Answer, Rest
<1>2. /\ call' \in [Source -> Calls]
      /\ \A p \in Source : call'[p].at = "through" => call'[p] = call[p]
  <2>1. /\ call' \in [Source -> Calls]
        /\ call'[o] = [call[o] EXCEPT !.at = at]
        /\ \A p \in Source \ {o} : call'[p] = call[p]
    BY <1>1, GoType DEF IInv
  <2>2. call'[o].at = at
    BY <2>1 DEF IInv, TypeOK, Calls
  <2> QED
    BY <1>1, <2>1, <2>2
<1> QED
  BY <1>2, QuietInv DEF Answer, IInv, TypeOK, memory, history

-----------------------------------------------------------------------------
(* Each action keeps the invariant. *)

LEMMA SaveInv == ASSUME IInv, NEW o \in Source, Save(o) PROVE IInv'
<1>1. PICK s \in SourceKeys \ stored :
        key' = [key EXCEPT ![o] = s] /\ stored' = stored \union {s}
  BY DEF Save
<1>2. foreign' = IF cache[o] = None THEN foreign ELSE foreign \union {o}
  BY DEF Save
<1>3. TypeOK'
  BY <1>1, <1>2 DEF IInv, TypeOK, Save
<1>4. Keyed' /\ TargetsKnowTheirRows' /\ LinksAreStored'
  BY DEF IInv, Keyed, TargetsKnowTheirRows, LinksAreStored, Rows, Save
<1>5. CacheIsLinked'
  <2> SUFFICES ASSUME NEW p \in Source \ foreign', cache[p] # None, NEW k \in cache[p]
               PROVE  k \in Keys /\ links[<<key'[p], k>>] > 0
    BY DEF CacheIsLinked, Linked, Save
  <2>1. p # o /\ p \in Source \ foreign
    BY <1>2
  <2>2. key'[p] = key[p]
    BY <1>1, <2>1 DEF IInv, TypeOK
  <2> QED
    BY <2>1, <2>2 DEF IInv, CacheIsLinked, Linked, Save
<1> QED
  BY <1>3, <1>4, <1>5 DEF IInv

LEMMA LoadInv == ASSUME IInv, NEW o \in Source, Load(o) PROVE IInv'
<1>0. PICK s \in stored :
        /\ key' = [key EXCEPT ![o] = s]
        /\ \E c \in {None, {k \in Linked(s) : Rows(k)}} :
              cache' = [cache EXCEPT ![o] = c]
  BY DEF Load
<1>1. PICK c \in {None, {k \in Linked(s) : Rows(k)}} :
        key' = [key EXCEPT ![o] = s] /\ cache' = [cache EXCEPT ![o] = c]
  BY <1>0
<1>2. NoCall \in Calls /\ NoCall.at = "idle"
  BY DEF NoCall, Calls, Ops, Rest
<1>3. c = None \/ c \subseteq Linked(s)
  BY <1>1
<1>4. TypeOK'
  <2>1. c \in (SUBSET Keys) \union {None} /\ s \in SourceKeys
    BY <1>3 DEF Linked, IInv, TypeOK
  <2> QED
    BY <1>1, <1>2, <2>1 DEF IInv, TypeOK, Load, database
<1>5. Keyed' /\ TargetsKnowTheirRows' /\ LinksAreStored'
  BY <1>2 DEF IInv, TypeOK, Keyed, TargetsKnowTheirRows, LinksAreStored, Rows,
              Load, database
<1>6. CacheIsLinked'
  <2> SUFFICES ASSUME NEW p \in Source \ foreign', cache'[p] # None, NEW k \in cache'[p]
               PROVE  k \in Keys /\ links[<<key'[p], k>>] > 0
    BY DEF CacheIsLinked, Linked, Load, database
  <2>2. CASE p = o
    BY <1>1, <1>3, <2>2 DEF IInv, TypeOK, Linked
  <2>3. CASE p # o
    <3>1. key'[p] = key[p] /\ cache'[p] = cache[p] /\ p \in Source \ foreign
      BY <1>1, <2>3 DEF IInv, TypeOK, Load
    <3> QED
      BY <3>1 DEF IInv, CacheIsLinked, Linked
  <2> QED
    BY <2>2, <2>3
<1> QED
  BY <1>4, <1>5, <1>6 DEF IInv

LEMMA NarrowInv ==
  ASSUME IInv, NEW o \in Source, Filter(o) \/ Limit(o) \/ Offset(o)
  PROVE  IInv'
<1>1. SetUp(o) \in QuerySets
  BY SetUpType DEF IInv
<1>2. PICK q \in QuerySets : Narrow(o, q)
  BY <1>1, LimitAssumption DEF Filter, Limit, Offset, QuerySets
<1>3. [q EXCEPT !.got = None] \in QuerySets
  BY DEF QuerySets
<1> QED
  BY <1>2, <1>3, QuietInv DEF Narrow, IInv, TypeOK, history

LEMMA ReadInv ==
  ASSUME IInv, NEW o \in Source, Get(o) \/ All(o)
  PROVE  IInv'
<1>1. SetUp(o) \in QuerySets
  BY SetUpType DEF IInv
<1>2. qs' \in [Source -> QuerySets \union {None}]
  <2>1. CASE All(o)
    BY <1>1, <2>1 DEF All, IInv, TypeOK
  <2>2. CASE Get(o)
    <3>1. ASSUME NEW K \in Selections([SetUp(o) EXCEPT !.limit = GetLimit])
          PROVE  K \subseteq Keys
      BY <1>1, <3>1 DEF Selections, Matching, QuerySets
    <3>2. CASE UNCHANGED qs
      BY <3>2 DEF IInv, TypeOK
    <3>3. CASE \E K \in Selections([SetUp(o) EXCEPT !.limit = GetLimit]) :
             qs' = [qs EXCEPT ![o] = [[SetUp(o) EXCEPT !.limit = GetLimit] EXCEPT !.got =
                        IF \E k \in K : K = {k} THEN CHOOSE k \in K : TRUE ELSE None]]
      <4>1. PICK K \in Selections([SetUp(o) EXCEPT !.limit = GetLimit]) :
             qs' = [qs EXCEPT ![o] = [[SetUp(o) EXCEPT !.limit = GetLimit] EXCEPT !.got =
                        IF \E k \in K : K = {k} THEN CHOOSE k \in K : TRUE ELSE None]]
        BY <3>3
      <4>2. (IF \E k \in K : K = {k} THEN CHOOSE k \in K : TRUE ELSE None)
              \in Keys \union {None}
        BY <3>1
      <4> QED
        BY <1>1, <4>1, <4>2, LimitAssumption DEF QuerySets, IInv, TypeOK
    <3> QED
      BY <2>2, <3>2, <3>3 DEF Get
  <2> QED
    BY <2>1, <2>2
<1>3. /\ call' \in [Source -> Calls]
      /\ \A p \in Source : call'[p].at = "through" => call'[p] = call[p]
  <2>1. \A at \in {"ok", "panic"} : /\ [NoCall EXCEPT !.at = at] \in Calls
                                    /\ [NoCall EXCEPT !.at = at].at = at
    <3>1. NoCall \in Calls
      BY DEF NoCall, Calls, Ops, Rest
    <3> QED
      BY <3>1 DEF Calls, Rest
  <2>2. CASE Get(o)
    BY <2>2 DEF Get, IInv, TypeOK
  <2>3. CASE All(o)
    <3>1. PICK at \in {"ok", "panic"} :
            call' = [call EXCEPT ![o] = [NoCall EXCEPT !.at = at]]
      BY <2>3 DEF All
    <3> QED
      BY <2>1, <3>1 DEF IInv, TypeOK
  <2> QED
    BY <2>2, <2>3
<1> QED
  BY <1>2, <1>3, QuietInv DEF Get, All, IInv, TypeOK, history

LEMMA BeginInv ==
  ASSUME IInv, NEW o \in Source, NEW op \in Ops, NEW T \in SUBSET Target, Begin(o, op, T)
  PROVE  IInv'
<1>1. FirstStage(op) \in Stages /\ FirstStage(op) # "through"
  BY DEF FirstStage, Stages
<1> DEFINE c == [op |-> op, at |-> FirstStage(op), targets |-> T, ids |-> {}, rows |-> 0]
<1>2. c \in Calls /\ c.at # "through"
  BY <1>1 DEF Calls
<1>3. call' = [call EXCEPT ![o] = c]
  BY DEF Begin
<1>4. /\ call' \in [Source -> Calls]
      /\ \A p \in Source : call'[p].at = "through" => call'[p] = call[p]
  BY <1>2, <1>3 DEF IInv, TypeOK
<1> QED
  BY <1>4, QuietInv DEF Begin, IInv, TypeOK, memory

LEMMA SelectInv ==
  ASSUME IInv, NEW o \in Source, NEW fault, Select(o, fault)
  PROVE  IInv'
<1>1. CASE \E at : Answer(o, at)
  BY <1>1, AnswerInv
<1>2. ASSUME NEW K \in Selections(qs[o]), qs[o] # None,
             call' = [call EXCEPT ![o] =
                 [@ EXCEPT !.at = "delete", !.ids = K, !.rows = Window(qs[o])]],
             UNCHANGED <<database, memory, history>>
      PROVE  IInv'
  <2>1. qs[o] \in QuerySets
    BY <1>2 DEF IInv, TypeOK
  <2>2. K \subseteq Keys
    BY <1>2, <2>1 DEF Selections, Matching, QuerySets
  <2>3. Window(qs[o]) \in Nat
    BY <2>1, WindowType DEF QuerySets
  <2>4. /\ call' \in [Source -> Calls]
        /\ call'[o].at = "delete"
        /\ \A p \in Source \ {o} : call'[p] = call[p]
    <3> DEFINE c == [call[o] EXCEPT !.at = "delete", !.ids = K, !.rows = Window(qs[o])]
    <3>1. c \in Calls /\ c.at = "delete"
      BY <2>2, <2>3 DEF IInv, TypeOK, Calls, Stages
    <3>2. call' = [call EXCEPT ![o] = c]
      BY <1>2
    <3> HIDE DEF c
    <3> QED
      BY <3>1, <3>2 DEF IInv, TypeOK
  <2> QED
    BY <1>2, <2>4, QuietInv DEF IInv, TypeOK, memory, history
<1> QED
  BY <1>1, <1>2 DEF Select

\* A deletion takes the links of its source, and the cache follows.
LEMMA DeleteInv ==
  ASSUME IInv, NEW o \in Source, NEW fault, Delete(o, fault)
  PROVE  IInv'
<1>1. CASE \E at : Answer(o, at)
  BY <1>1, AnswerInv
<1>2. ASSUME links' = [p \in Pairs |-> IF p \in Gone(o) THEN 0 ELSE links[p]],
             cache' = [cache EXCEPT ![o] = Remaining(o)],
             Go(o, IF call[o].op = "set" THEN "targets" ELSE "ok"),
             Disturb(o),
             UNCHANGED <<stored, rowOf, key, pk, qs, lost>>
      PROVE  IInv'
  <2>1. \A p \in Pairs : links'[p] > 0 => links'[p] = links[p] /\ p \notin Gone(o)
    BY <1>2
  <2>2. Remaining(o) \in (SUBSET Keys) \union {None}
    BY DEF Remaining, IInv, TypeOK
  <2>3. PICK at \in {"targets", "ok"} : Go(o, at)
    BY <1>2
  <2>4. /\ call' \in [Source -> Calls]
        /\ call'[o] = [call[o] EXCEPT !.at = at]
        /\ \A p \in Source \ {o} : call'[p] = call[p]
    BY <2>3, GoType DEF IInv, Rest, Stages
  <2>5. call'[o].at # "through"
    BY <2>4 DEF IInv, TypeOK, Calls
  <2>6. TypeOK'
    <3>1. links' \in [Pairs -> Nat]
      BY <1>2 DEF IInv, TypeOK
    <3>2. foreign' \subseteq Source /\ met' \subseteq Source
      BY <1>2 DEF Disturb, Others, IInv, TypeOK
    <3> QED
      BY <1>2, <2>2, <2>4, <3>1, <3>2 DEF IInv, TypeOK
  <2>7. Keyed'
    BY <1>2, <2>4, <2>5 DEF IInv, Keyed
  <2>8. TargetsKnowTheirRows' /\ LinksAreStored'
    BY <1>2, <2>1 DEF IInv, TargetsKnowTheirRows, LinksAreStored, Rows
  <2>9. CacheIsLinked'
    <3> SUFFICES ASSUME NEW p \in Source \ foreign', cache'[p] # None, NEW k \in cache'[p]
                 PROVE  k \in Keys /\ links'[<<key[p], k>>] > 0
      BY <1>2 DEF CacheIsLinked, Linked
    <3>1. p \in Source \ foreign /\ p \notin Others(o)
      BY <1>2 DEF Disturb
    <3>2. cache[p] # None /\ k \in cache[p]
      <4>1. CASE p = o
        BY <1>2, <4>1 DEF Remaining, IInv, TypeOK
      <4>2. CASE p # o
        BY <1>2, <4>2 DEF IInv, TypeOK
      <4> QED
        BY <4>1, <4>2
    <3>3. k \in Keys /\ links[<<key[p], k>>] > 0
      BY <3>1, <3>2 DEF IInv, CacheIsLinked, Linked
    <3>4. <<key[p], k>> \in Pairs
      BY <3>3 DEF IInv, TypeOK, Pairs
    <3>5. <<key[p], k>> \notin Gone(o)
      <4>1. CASE p = o
        <5>1. call[o].op = "remove" /\ k \notin Asked(o)
          BY <1>2, <4>1, <3>2 DEF Remaining, IInv, TypeOK
        <5> QED
          BY <4>1, <5>1 DEF Gone
      <4>2. CASE p # o
        BY <4>2, <3>1 DEF Gone, Others
      <4> QED
        BY <4>1, <4>2
    <3> QED
      BY <1>2, <3>3, <3>4, <3>5
  <2> QED
    BY <2>6, <2>7, <2>8, <2>9 DEF IInv
<1> QED
  BY <1>1, <1>2 DEF Delete

\* Rows and keys are made together, or the commit that failed is recorded.
LEMMA CreateTargetsInv ==
  ASSUME IInv, NEW o \in Source, NEW fault \in Faults, CreateTargets(o, fault)
  PROVE  IInv'
<1>1. PICK f \in [Fresh(o) -> Unused] :
        /\ \A t, u \in Fresh(o) : f[t] = f[u] => t = u
        /\ pk' = KeysSet(f, fault)
        /\ rowOf' = RowsMade(f, fault)
  BY DEF CreateTargets
<1>2. /\ pk' \in [Target -> Keys \union {0}]
      /\ \A t \in Target : pk[t] # 0 => pk'[t] = pk[t]
      /\ \A t \in Target \ Fresh(o) : pk'[t] = pk[t]
      /\ fault # "statement" => \A t \in Fresh(o) : pk'[t] = f[t]
      /\ rowOf' \in [Keys -> Target \union {None}]
      /\ fault # "none" => rowOf' = rowOf
      /\ fault = "none" => \A t \in Fresh(o) : rowOf'[f[t]] = t
      /\ \A k \in Keys : /\ Rows(k) => rowOf'[k] = rowOf[k]
                         /\ rowOf'[k] = rowOf[k] \/ \E t \in Fresh(o) : f[t] = k
  BY <1>1, GivenKeys DEF IInv
<1>3. Fresh(o) \subseteq Target /\ \A t \in Fresh(o) : pk[t] = 0 /\ f[t] \in Keys
  BY DEF Fresh, IInv, TypeOK, Calls, Unused
<1>4. SetUp(o) \in QuerySets
  BY SetUpType DEF IInv
<1>5. PICK at \in {"through", "error"} : Go(o, at) /\ (at = "through" <=> fault = "none")
  BY DEF CreateTargets
<1>6. /\ call' \in [Source -> Calls]
      /\ call'[o] = [call[o] EXCEPT !.at = at]
      /\ \A p \in Source \ {o} : call'[p] = call[p]
  BY <1>5, GoType DEF IInv, Rest, Stages
<1>7. call'[o].at = at /\ call'[o].targets = call[o].targets
  BY <1>6 DEF IInv, TypeOK, Calls
<1>8. lost' = IF fault = "commit" THEN lost \union Fresh(o) ELSE lost
  BY DEF CreateTargets
<1>9. TypeOK'
  BY <1>2, <1>3, <1>4, <1>6, <1>8 DEF IInv, TypeOK, CreateTargets
<1>10. Keyed'
  <2> SUFFICES ASSUME NEW p \in Source, call'[p].at = "through", NEW t \in call'[p].targets
               PROVE  pk'[t] # 0
    BY DEF Keyed
  <2>1. t \in Target
    BY <1>6 DEF Calls
  <2>2. CASE p = o
    <3>1. fault = "none" /\ t \in call[o].targets
      BY <2>2, <1>5, <1>7
    <3>2. CASE t \in Fresh(o)
      BY <3>1, <3>2, <1>2, <1>3, KeysAssumption
    <3>3. CASE t \notin Fresh(o)
      BY <2>1, <3>1, <3>3, <1>2 DEF Fresh
    <3> QED
      BY <3>2, <3>3
  <2>3. CASE p # o
    <3>1. call'[p] = call[p]
      BY <2>3, <1>6
    <3>2. pk[t] # 0
      BY <3>1 DEF IInv, Keyed
    <3> QED
      BY <2>1, <3>2, <1>2
  <2> QED
    BY <2>2, <2>3
<1>11. TargetsKnowTheirRows'
  <2>1. ASSUME NEW t \in Target \ lost', pk'[t] # 0
        PROVE  rowOf'[pk'[t]] = t
    <3>1. CASE t \in Fresh(o)
      <4>1. fault = "none"
        BY <3>1, <2>1, <1>8, <1>1, <1>3 DEF Faults, KeysSet
      <4> QED
        BY <3>1, <4>1, <1>2
    <3>2. CASE t \notin Fresh(o)
      <4>1. pk'[t] = pk[t] /\ t \notin lost
        BY <3>2, <2>1, <1>2, <1>8
      <4>2. rowOf[pk[t]] = t /\ pk[t] \in Keys
        BY <4>1, <2>1 DEF IInv, TypeOK, TargetsKnowTheirRows
      <4>3. Rows(pk[t])
        BY <4>2, NoneAssumption DEF Rows
      <4> QED
        BY <4>1, <4>2, <4>3, <1>2
    <3> QED
      BY <3>1, <3>2
  <2>2. ASSUME NEW k \in Keys, rowOf'[k] # None
        PROVE  pk'[rowOf'[k]] = k
    <3>1. CASE Rows(k)
      <4>1. rowOf'[k] = rowOf[k] /\ pk[rowOf[k]] = k /\ rowOf[k] \in Target
        BY <3>1, <1>2 DEF IInv, TypeOK, TargetsKnowTheirRows, Rows
      <4>2. k # 0
        BY KeysAssumption
      <4> QED
        BY <4>1, <4>2, <1>2
    <3>2. CASE ~ Rows(k)
      <4>1. PICK t \in Fresh(o) : f[t] = k
        BY <3>2, <2>2, <1>2 DEF Rows
      <4>2. fault = "none"
        BY <3>2, <2>2, <1>2 DEF Rows
      <4> QED
        BY <4>1, <4>2, <1>2
    <3> QED
      BY <3>1, <3>2
  <2> QED
    BY <2>1, <2>2 DEF TargetsKnowTheirRows, Rows
<1>12. LinksAreStored'
  <2> SUFFICES ASSUME NEW p \in Pairs, links[p] > 0
               PROVE  rowOf'[p[2]] # None \/ \E t \in lost' : pk'[t] = p[2]
    BY DEF LinksAreStored, Rows, CreateTargets
  <2>1. p[2] \in Keys /\ p[2] # 0
    BY KeysAssumption DEF Pairs
  <2>2. CASE Rows(p[2])
    BY <2>1, <2>2, <1>2 DEF Rows
  <2>3. CASE \E t \in lost : pk[t] = p[2]
    BY <2>1, <2>3, <1>2, <1>8 DEF IInv, TypeOK
  <2> QED
    BY <2>2, <2>3 DEF IInv, LinksAreStored
<1>13. CacheIsLinked'
  BY DEF IInv, CacheIsLinked, Linked, CreateTargets
<1> QED
  BY <1>9, <1>10, <1>11, <1>12, <1>13 DEF IInv

\* The links that are written name rows, or keys of a failed commit.
LEMMA CreateThroughInv ==
  ASSUME IInv, NEW o \in Source, NEW fault, CreateThrough(o, fault)
  PROVE  IInv'
<1>1. CASE \E at : Answer(o, at)
  BY <1>1, AnswerInv
<1> DEFINE T == call[o].targets
           new == {<<key[o], pk[t]>> : t \in T}
<1>2. ASSUME links' = [p \in Pairs |-> IF p \in new THEN links[p] + 1 ELSE links[p]],
             cache' = [cache EXCEPT ![o] =
                IF call[o].op = "add" /\ @ # None THEN @ \union PksOf(T) ELSE PksOf(T)],
             Go(o, "ok"),
             Disturb(o),
             UNCHANGED <<stored, rowOf, key, pk, qs, lost>>,
             call[o].at = "through"
      PROVE  IInv'
  <2>1. T \subseteq Target /\ \A t \in T : pk[t] \in Keys
    BY <1>2 DEF IInv, TypeOK, Calls, Keyed
  <2>2. new \subseteq Pairs
    BY <2>1 DEF Pairs, IInv, TypeOK
  <2>3. links' \in [Pairs -> Nat] /\ \A p \in Pairs : links[p] > 0 => links'[p] > 0
    BY <1>2 DEF IInv, TypeOK
  <2>4. \A p \in new : links'[p] > 0
    BY <1>2, <2>2 DEF IInv, TypeOK
  <2>5. \A p \in Pairs : links'[p] > 0 => links[p] > 0 \/ p \in new
    BY <1>2
  <2>6. PksOf(T) \subseteq Keys
    BY <2>1 DEF PksOf
  <2>7. /\ call' \in [Source -> Calls]
        /\ call'[o] = [call[o] EXCEPT !.at = "ok"]
        /\ \A p \in Source \ {o} : call'[p] = call[p]
    BY <1>2, GoType DEF IInv, Rest
  <2>8. call'[o].at # "through"
    BY <2>7 DEF IInv, TypeOK, Calls
  <2>9. TypeOK'
    <3>1. cache' \in [Source -> (SUBSET Keys) \union {None}]
      BY <1>2, <2>6 DEF IInv, TypeOK
    <3>2. foreign' \subseteq Source /\ met' \subseteq Source
      BY <1>2 DEF Disturb, Others, IInv, TypeOK
    <3> QED
      BY <1>2, <2>3, <2>7, <3>1, <3>2 DEF IInv, TypeOK
  <2>10. Keyed'
    BY <1>2, <2>7, <2>8 DEF IInv, Keyed
  <2>11. TargetsKnowTheirRows'
    BY <1>2 DEF IInv, TargetsKnowTheirRows, Rows
  <2>12. LinksAreStored'
    <3> SUFFICES ASSUME NEW p \in Pairs, links'[p] > 0
                 PROVE  Rows(p[2]) \/ \E t \in lost : pk[t] = p[2]
      BY <1>2 DEF LinksAreStored, Rows
    <3>1. CASE links[p] > 0
      BY <3>1 DEF IInv, LinksAreStored
    <3>2. CASE p \in new
      <4>1. PICK t \in T : p = <<key[o], pk[t]>>
        BY <3>2
      <4>2. pk[t] # 0 /\ t \in Target /\ p[2] = pk[t]
        BY <4>1, <2>1, KeysAssumption
      <4>3. CASE t \in lost
        BY <4>2, <4>3
      <4>4. CASE t \notin lost
        BY <4>2, <4>4, NoneAssumption DEF IInv, TargetsKnowTheirRows, Rows
      <4> QED
        BY <4>3, <4>4
    <3> QED
      BY <3>1, <3>2, <2>5
  <2>13. CacheIsLinked'
    <3> SUFFICES ASSUME NEW p \in Source \ foreign', cache'[p] # None, NEW k \in cache'[p]
                 PROVE  k \in Keys /\ links'[<<key[p], k>>] > 0
      BY <1>2 DEF CacheIsLinked, Linked
    <3>1. p \in Source \ foreign
      BY <1>2 DEF Disturb
    <3>2. CASE cache[p] # None /\ k \in cache[p]
      <4>1. k \in Keys /\ links[<<key[p], k>>] > 0
        BY <3>1, <3>2 DEF IInv, CacheIsLinked, Linked
      <4>2. <<key[p], k>> \in Pairs
        BY <4>1 DEF IInv, TypeOK, Pairs
      <4> QED
        BY <4>1, <4>2, <2>3
    <3>3. CASE p = o /\ k \in PksOf(T)
      <4>1. <<key[o], k>> \in new
        BY <3>3 DEF PksOf
      <4> QED
        BY <3>3, <4>1, <2>4, <2>6
    <3>4. (cache[p] # None /\ k \in cache[p]) \/ (p = o /\ k \in PksOf(T))
      BY <1>2 DEF IInv, TypeOK
    <3> QED
      BY <3>2, <3>3, <3>4
  <2> QED
    BY <2>9, <2>10, <2>11, <2>12, <2>13 DEF IInv
<1> QED
  BY <1>1, <1>2 DEF CreateThrough

-----------------------------------------------------------------------------
(* The invariant holds. *)

LEMMA NextInv == IInv /\ [Next]_vars => IInv'
<1> SUFFICES ASSUME IInv, [Next]_vars PROVE IInv'
  OBVIOUS
<1>1. CASE UNCHANGED vars
  BY <1>1 DEF IInv, TypeOK, Keyed, TargetsKnowTheirRows, LinksAreStored,
              CacheIsLinked, Rows, Linked, vars, database, memory, history
<1>2. ASSUME NEW o \in Source, NEW T \in SUBSET Target,
             \/ AddTargets(o, T) \/ SetTargets(o, T)
             \/ RemoveTargets(o, T) \/ ClearTargets(o)
      PROVE  IInv'
  BY <1>2, BeginInv DEF AddTargets, SetTargets, RemoveTargets, ClearTargets, Ops
<1>3. ASSUME NEW o \in Source, Step(o) PROVE IInv'
  BY <1>3, SelectInv, DeleteInv, CreateTargetsInv, CreateThroughInv DEF Step
<1>4. ASSUME NEW o \in Source,
             Save(o) \/ Load(o) \/ Filter(o) \/ Limit(o) \/ Offset(o) \/ Get(o) \/ All(o)
      PROVE  IInv'
  BY <1>4, SaveInv, LoadInv, NarrowInv, ReadInv
<1> QED
  BY <1>1, <1>2, <1>3, <1>4 DEF Next

LEMMA Invariant == Spec => []IInv
BY InitInv, NextInv, PTL DEF Spec

\* The relation's state is always well typed (the types of
\* queryset_relations.go).
THEOREM TypeCorrect == Spec => []TypeOK
<1>1. IInv => TypeOK
  BY DEF IInv
<1> QED
  BY <1>1, Invariant, PTL

\* However calls of different sources interleave and fail, a stored target
\* knows its row, and is stored once (createThroughObjects, BulkCreate).
THEOREM TargetsAlwaysKnowTheirRows == Spec => []TargetsKnowTheirRows
<1>1. IInv => TargetsKnowTheirRows
  BY DEF IInv
<1> QED
  BY <1>1, Invariant, PTL

\* No link names a row that was never made, except by the key of a target
\* whose commit failed (createThroughObjects).
THEOREM LinksAlwaysStored == Spec => []LinksAreStored
<1>1. IInv => LinksAreStored
  BY DEF IInv
<1> QED
  BY <1>1, Invariant, PTL

\* The related objects in memory are linked in the database unless another
\* object changed the links of the row (AddTargets, SetTargets,
\* RemoveTargets and ClearTargets on the values of RelM2M).
THEOREM CacheAlwaysLinked == Spec => []CacheIsLinked
<1>1. IInv => CacheIsLinked
  BY DEF IInv
<1> QED
  BY <1>1, Invariant, PTL

-----------------------------------------------------------------------------
(* The calls implement Links. *)

\* The stages that each call goes through.
Staged ==
    \A o \in Source :
        /\ call[o].at = "select" => call[o].op \in {"clear", "set"}
        /\ call[o].at = "delete" => call[o].op \in {"remove", "clear", "set"}
        /\ call[o].at \in {"targets", "through"} => call[o].op \in {"add", "set"}

\* A step of a call changes the call of its source only.
CallOf(o) ==
    /\ call' \in [Source -> Calls]
    /\ \A p \in Source \ {o} : call'[p] = call[p]

LEMMA AnswerCall ==
  ASSUME TypeOK, NEW o \in Source, NEW at, Answer(o, at)
  PROVE  /\ CallOf(o) /\ call'[o].at \in {"error", "panic"}
         /\ call'[o].op = call[o].op /\ call'[o].targets = call[o].targets
<1>1. at \in {"error", "panic"} /\ at \in Rest /\ Go(o, at)
  BY DEF Answer, Rest
<1>2. CallOf(o) /\ call'[o] = [call[o] EXCEPT !.at = at]
  BY <1>1, GoType DEF CallOf
<1> QED
  BY <1>1, <1>2 DEF TypeOK, Calls

LEMMA MovedCall ==
  ASSUME TypeOK, NEW o \in Source, NEW at \in Rest \union Stages, Go(o, at)
  PROVE  /\ CallOf(o) /\ call'[o].at = at
         /\ call'[o].op = call[o].op /\ call'[o].targets = call[o].targets
<1>1. CallOf(o) /\ call'[o] = [call[o] EXCEPT !.at = at]
  BY GoType DEF CallOf
<1> QED
  BY <1>1 DEF TypeOK, Calls

LEMMA BegunCall ==
  ASSUME TypeOK, NEW o \in Source, NEW op \in Ops, NEW T \in SUBSET Target, Begin(o, op, T)
  PROVE  /\ CallOf(o) /\ call'[o].at = FirstStage(op)
         /\ call'[o].op = op /\ call'[o].targets = T
<1> DEFINE c == [op |-> op, at |-> FirstStage(op), targets |-> T, ids |-> {}, rows |-> 0]
<1>1. c \in Calls
  BY DEF Calls, FirstStage, Stages
<1>2. call' = [call EXCEPT ![o] = c]
  BY DEF Begin
<1>3. c.at = FirstStage(op) /\ c.op = op /\ c.targets = T
  OBVIOUS
<1> HIDE DEF c
<1> QED
  BY <1>1, <1>2, <1>3 DEF CallOf, TypeOK

LEMMA SelectedCall ==
  ASSUME TypeOK, NEW o \in Source, NEW K \in Selections(qs[o]), qs[o] # None,
         call' = [call EXCEPT ![o] =
             [@ EXCEPT !.at = "delete", !.ids = K, !.rows = Window(qs[o])]]
  PROVE  /\ CallOf(o) /\ call'[o].at = "delete"
         /\ call'[o].op = call[o].op /\ call'[o].targets = call[o].targets
<1> DEFINE c == [call[o] EXCEPT !.at = "delete", !.ids = K, !.rows = Window(qs[o])]
<1>1. qs[o] \in QuerySets
  BY DEF TypeOK
<1>2. K \subseteq Keys /\ Window(qs[o]) \in Nat
  BY <1>1, WindowType DEF Selections, Matching, QuerySets
<1>3. c \in Calls /\ c.at = "delete" /\ c.op = call[o].op /\ c.targets = call[o].targets
  BY <1>2 DEF TypeOK, Calls, Stages
<1>4. call' = [call EXCEPT ![o] = c]
  OBVIOUS
<1> HIDE DEF c
<1> QED
  BY <1>3, <1>4 DEF CallOf, TypeOK

LEMMA ForgottenCall ==
  ASSUME TypeOK, NEW o \in Source, NEW at \in Rest,
         call' = [call EXCEPT ![o] = [NoCall EXCEPT !.at = at]]
  PROVE  /\ CallOf(o) /\ call'[o].at = at
         /\ call'[o].op = "none" /\ call'[o].targets = {}
<1> DEFINE c == [NoCall EXCEPT !.at = at]
<1>1. NoCall \in Calls /\ NoCall.op = "none" /\ NoCall.targets = {}
  BY DEF NoCall, Calls, Ops, Rest
<1>2. c \in Calls /\ c.at = at /\ c.op = "none" /\ c.targets = {}
  BY <1>1 DEF Calls
<1>3. call' = [call EXCEPT ![o] = c]
  OBVIOUS
<1> HIDE DEF c
<1> QED
  BY ZenonT(60), <1>2, <1>3 DEF CallOf, TypeOK

\* The two functions of calls that Links sees.
Asks == [o \in Source |-> [op |-> call[o].op, targets |-> call[o].targets]]
Phases == [o \in Source |-> Phase(o)]
Pairings == {p \in Pairs : links[p] > 0}

LEMMA PhaseOf ==
  ASSUME NEW o \in Source
  PROVE  /\ call[o].at \in {"idle", "ok"} => Phase(o) = call[o].at
         /\ call[o].at \in {"error", "panic"} => Phase(o) = "failed"
         /\ call[o].at \in {"select", "delete"} => Phase(o) = "asked"
         /\ call[o].at \in {"targets", "through"} =>
               Phase(o) = IF call[o].op = "set" THEN "unlinked" ELSE "asked"
BY DEF Phase

\* A step of the call of o changes the functions at o.
LEMMA SeenStep ==
  ASSUME NEW o \in Source, CallOf(o)
  PROVE  /\ Asks' = [Asks EXCEPT ![o] = [op |-> call'[o].op, targets |-> call'[o].targets]]
         /\ Phases' = [Phases EXCEPT ![o] = Phase(o)']
         /\ call'[o].op = call[o].op /\ call'[o].targets = call[o].targets => Asks' = Asks
         /\ Phase(o)' = Phase(o) => Phases' = Phases
BY ZenonT(60) DEF CallOf, Asks, Phases, Phase

LEMMA StagedStep ==
  ASSUME Staged, NEW o \in Source, CallOf(o),
         call'[o].at = "select" => call'[o].op \in {"clear", "set"},
         call'[o].at = "delete" => call'[o].op \in {"remove", "clear", "set"},
         call'[o].at \in {"targets", "through"} => call'[o].op \in {"add", "set"}
  PROVE  Staged'
BY DEF Staged, CallOf

\* The next-state relation of Links over the mapped variables.
Seen == Staged' /\ (Abstract!Next \/ UNCHANGED <<key, pk, Pairings, Asks, Phases>>)

LEMMA FailSeen ==
  ASSUME TypeOK, Staged, NEW o \in Source, NEW at, ~ Idle(o), Answer(o, at)
  PROVE  Seen
<1>1. /\ CallOf(o) /\ call'[o].at \in {"error", "panic"}
      /\ call'[o].op = call[o].op /\ call'[o].targets = call[o].targets
  BY AnswerCall
<1>2. Phase(o)' = "failed"
  BY <1>1 DEF Phase
<1>3. Phases[o] \notin {"idle", "ok", "failed"}
  BY DEF Idle, Rest, TypeOK, Calls, Phases, Phase
<1>4. Asks' = Asks /\ Phases' = [Phases EXCEPT ![o] = "failed"]
  BY <1>1, <1>2, SeenStep
<1>5. Abstract!Fail(o)
  BY <1>3, <1>4 DEF Abstract!Fail, Abstract!Rest, Answer, database, memory,
                    Asks, Phases
<1>6. Staged'
  BY <1>1, StagedStep
<1> QED
  BY <1>5, <1>6 DEF Seen, Abstract!Next

LEMMA SaveSeen ==
  ASSUME TypeOK, Staged, NEW o \in Source, Save(o)
  PROVE  Seen
<1>1. Phases[o] \in {"idle", "ok", "failed"}
  BY DEF Save, Idle, Rest, Phases, Phase
<1>2. UNCHANGED <<pk, Pairings, Asks, Phases>> /\ Staged'
  BY DEF Save, Pairings, Asks, Phases, Phase, Staged
<1>3. Abstract!Store(o)
  BY <1>1, <1>2 DEF Abstract!Store, Abstract!Rest, Save, Pairings, Asks, Phases
<1> QED
  BY <1>2, <1>3 DEF Seen, Abstract!Next

LEMMA ForgetSeen ==
  ASSUME TypeOK, Staged, NEW o \in Source, NEW at \in Rest, Idle(o),
         call' = [call EXCEPT ![o] = [NoCall EXCEPT !.at = at]],
         UNCHANGED <<links, pk>>,
         key' = key \/ \E k \in SourceKeys : key' = [key EXCEPT ![o] = k]
  PROVE  Seen
<1>1. /\ CallOf(o) /\ call'[o].at = at
      /\ call'[o].op = "none" /\ call'[o].targets = {}
  BY ForgottenCall
<1>2. Phases[o] \in {"idle", "ok", "failed"} /\ Phase(o)' \in {"idle", "ok", "failed"}
  BY <1>1 DEF Idle, Rest, Phases, Phase
<1>3. /\ Asks' = [Asks EXCEPT ![o] = [op |-> "none", targets |-> {}]]
      /\ Phases' = [Phases EXCEPT ![o] = Phase(o)']
  BY <1>1, SeenStep
<1>4. Abstract!Forget(o)
  BY <1>2, <1>3 DEF Abstract!Forget, Abstract!Rest, Abstract!NoCall, Asks, Phases
<1>5. Staged'
  BY <1>1, StagedStep DEF Rest
<1> QED
  BY <1>4, <1>5 DEF Seen, Abstract!Next

LEMMA LoadSeen ==
  ASSUME TypeOK, Staged, NEW o \in Source, Load(o)
  PROVE  Seen
<1>1. NoCall = [NoCall EXCEPT !.at = "idle"]
  BY DEF NoCall
<1>2. \E k \in SourceKeys : key' = [key EXCEPT ![o] = k]
  BY DEF Load, TypeOK
<1>3. call' = [call EXCEPT ![o] = NoCall]
  BY DEF Load
<1> QED
  BY <1>1, <1>2, <1>3, ForgetSeen DEF Load, Rest, database

LEMMA AllSeen ==
  ASSUME TypeOK, Staged, NEW o \in Source, All(o)
  PROVE  Seen
<1>1. PICK at \in {"ok", "panic"} :
        call' = [call EXCEPT ![o] = [NoCall EXCEPT !.at = at]]
  BY DEF All
<1> QED
  BY <1>1, ForgetSeen DEF All, Rest, database

LEMMA BeginSeen ==
  ASSUME TypeOK, Staged, NEW o \in Source, NEW op \in Ops \ {"none"},
         NEW T \in SUBSET Target, Begin(o, op, T)
  PROVE  Seen
<1>1. /\ CallOf(o) /\ call'[o].at = FirstStage(op)
      /\ call'[o].op = op /\ call'[o].targets = T
  BY BegunCall
<1>2. Phases[o] \in {"idle", "ok", "failed"}
  BY DEF Begin, Idle, Rest, Phases, Phase
<1>3. Phase(o)' = "asked"
  BY <1>1 DEF FirstStage, Phase, Ops
<1>4. /\ Asks' = [Asks EXCEPT ![o] = [op |-> op, targets |-> T]]
      /\ Phases' = [Phases EXCEPT ![o] = "asked"]
  BY <1>1, <1>3, SeenStep
<1>5. Abstract!Ask(o)
  BY <1>2, <1>4 DEF Abstract!Ask, Abstract!Rest, Abstract!Ops, Begin, Ops,
                    database, memory, Asks, Phases
<1>6. Staged'
  BY <1>1, StagedStep DEF FirstStage, Ops
<1> QED
  BY <1>5, <1>6 DEF Seen, Abstract!Next

LEMMA SelectSeen ==
  ASSUME TypeOK, Staged, NEW o \in Source, NEW fault, Select(o, fault)
  PROVE  Seen
<1>1. call[o].at = "select" /\ ~ Idle(o)
  BY DEF Select, Idle, Rest
<1>2. CASE \E at : Answer(o, at)
  BY <1>1, <1>2, FailSeen
<1>3. ASSUME NEW K \in Selections(qs[o]), qs[o] # None,
             call' = [call EXCEPT ![o] =
                 [@ EXCEPT !.at = "delete", !.ids = K, !.rows = Window(qs[o])]],
             UNCHANGED <<database, memory, history>>
      PROVE  Seen
  <2>1. /\ CallOf(o) /\ call'[o].at = "delete"
        /\ call'[o].op = call[o].op /\ call'[o].targets = call[o].targets
    BY <1>3, SelectedCall
  <2>2. Phase(o)' = Phase(o)
    BY <1>1, <2>1 DEF Phase
  <2>3. UNCHANGED <<key, pk, Pairings, Asks, Phases>>
    BY <1>3, <2>1, <2>2, SeenStep DEF database, memory, Pairings
  <2>4. Staged'
    BY <1>1, <2>1, StagedStep DEF Staged
  <2> QED
    BY <2>3, <2>4 DEF Seen
<1> QED
  BY <1>2, <1>3 DEF Select

LEMMA DeleteSeen ==
  ASSUME TypeOK, Staged, NEW o \in Source, NEW fault, Delete(o, fault)
  PROVE  Seen
<1>1. call[o].at = "delete" /\ ~ Idle(o) /\ call[o].op \in {"remove", "clear", "set"}
  BY DEF Delete, Idle, Rest, Staged
<1>2. CASE \E at : Answer(o, at)
  BY <1>1, <1>2, FailSeen
<1>3. ASSUME 0 \notin Asked(o),
             call[o].op = "remove" => Asked(o) \intersect Linked(key[o]) # {},
             links' = [p \in Pairs |-> IF p \in Gone(o) THEN 0 ELSE links[p]],
             Go(o, IF call[o].op = "set" THEN "targets" ELSE "ok"),
             UNCHANGED <<stored, rowOf, key, pk, qs, lost>>
      PROVE  Seen
  <2> DEFINE at == IF call[o].op = "set" THEN "targets" ELSE "ok"
  <2>1. /\ CallOf(o) /\ call'[o].at = at
        /\ call'[o].op = call[o].op /\ call'[o].targets = call[o].targets
    BY <1>3, MovedCall DEF Rest, Stages
  <2>2. Asked(o) \subseteq Keys
    BY <1>3, <1>1 DEF Asked, PksOf, TypeOK, Calls
  <2>3. Pairings' = Pairings \ ({key[o]} \X Asked(o))
    <3>1. Gone(o) = {key[o]} \X Asked(o)
      BY DEF Gone
    <3> QED
      BY <3>1, <1>3 DEF Pairings, TypeOK
  <2>4. /\ Phases[o] = "asked" /\ Asks[o] = [op |-> call[o].op, targets |-> call[o].targets]
        /\ Phase(o)' = IF call[o].op = "set" THEN "unlinked" ELSE "ok"
    BY <1>1, <2>1 DEF Phases, Asks, Phase
  <2>5. /\ Asks' = Asks
        /\ Phases' = [Phases EXCEPT ![o] = IF call[o].op = "set" THEN "unlinked" ELSE "ok"]
    BY <2>1, <2>4, SeenStep
  <2>6. call[o].op = "remove" =>
          /\ Asked(o) = {pk[t] : t \in call[o].targets}
          /\ \E k \in Asked(o) : <<key[o], k>> \in Pairings
    BY <1>3 DEF Asked, PksOf, Linked, Pairings, Pairs, TypeOK
  <2>7. Abstract!Unlink(o)
    BY <1>1, <1>3, <2>2, <2>3, <2>4, <2>5, <2>6
       DEF Abstract!Unlink, Asks, Phases, Pairings
  <2>8. Staged'
    BY <1>1, <2>1, StagedStep
  <2> QED
    BY <2>7, <2>8 DEF Seen, Abstract!Next
<1> QED
  BY <1>2, <1>3 DEF Delete

LEMMA CreateTargetsSeen ==
  ASSUME TypeOK, Staged, NEW o \in Source, NEW fault, CreateTargets(o, fault)
  PROVE  Seen
<1>1. call[o].at = "targets" /\ call[o].op \in {"add", "set"}
  BY DEF CreateTargets, Staged
<1>2. /\ pk' \in [Target -> Keys \union {0}]
      /\ \A t \in Target : pk[t] # 0 \/ t \notin call[o].targets => pk'[t] = pk[t]
  <2>1. PICK f \in [Fresh(o) -> Unused] :
          /\ \A t, u \in Fresh(o) : f[t] = f[u] => t = u
          /\ pk' = KeysSet(f, fault)
    BY DEF CreateTargets
  <2> QED
    BY <2>1, GivenKeys DEF Fresh
<1>3. PICK at \in {"through", "error"} : Go(o, at)
  BY DEF CreateTargets
<1>4. /\ CallOf(o) /\ call'[o].at = at
      /\ call'[o].op = call[o].op /\ call'[o].targets = call[o].targets
  BY <1>3, MovedCall DEF Rest, Stages
<1>5. /\ Phases[o] \in {"asked", "unlinked"}
      /\ Phase(o)' \in {Phase(o), "failed"}
      /\ Asks[o] = [op |-> call[o].op, targets |-> call[o].targets]
  BY <1>1, <1>4 DEF Phase, Phases, Asks
<1>6. Asks' = Asks /\ Phases' \in {Phases, [Phases EXCEPT ![o] = "failed"]}
  BY <1>4, <1>5, SeenStep
<1>7. Abstract!StoreTargets(o)
  BY <1>1, <1>2, <1>5, <1>6
     DEF Abstract!StoreTargets, CreateTargets, Asks, Phases
<1>8. Staged'
  BY <1>1, <1>4, StagedStep
<1> QED
  BY <1>7, <1>8 DEF Seen, Abstract!Next

LEMMA CreateThroughSeen ==
  ASSUME TypeOK, Staged, Keyed, NEW o \in Source, NEW fault, CreateThrough(o, fault)
  PROVE  Seen
<1>1. call[o].at = "through" /\ ~ Idle(o) /\ call[o].op \in {"add", "set"}
  BY DEF CreateThrough, Idle, Rest, Staged
<1>2. CASE \E at : Answer(o, at)
  BY <1>1, <1>2, FailSeen
<1> DEFINE T == call[o].targets
           new == {<<key[o], pk[t]>> : t \in T}
<1>3. ASSUME T # {},
             links' = [p \in Pairs |-> IF p \in new THEN links[p] + 1 ELSE links[p]],
             Go(o, "ok"),
             UNCHANGED <<stored, rowOf, key, pk, qs, lost>>
      PROVE  Seen
  <2>1. /\ CallOf(o) /\ call'[o].at = "ok"
        /\ call'[o].op = call[o].op /\ call'[o].targets = call[o].targets
    BY <1>3, MovedCall DEF Rest
  <2>2. \A t \in T : pk[t] # 0 /\ pk[t] \in Keys
    BY <1>1 DEF Keyed, TypeOK, Calls
  <2>3. new \subseteq Pairs
    BY <2>2 DEF Pairs, TypeOK
  <2>4. Pairings' = Pairings \union new
    BY <1>3, <2>3 DEF Pairings, TypeOK
  <2>5. /\ Phases[o] = IF call[o].op = "set" THEN "unlinked" ELSE "asked"
        /\ Asks[o] = [op |-> call[o].op, targets |-> T]
        /\ Phase(o)' = "ok"
    BY <1>1, <2>1 DEF Phases, Asks, Phase
  <2>6. Asks' = Asks /\ Phases' = [Phases EXCEPT ![o] = "ok"]
    BY <2>1, <2>5, SeenStep
  <2>7. Abstract!Link(o)
    BY <1>1, <1>3, <2>2, <2>4, <2>5, <2>6 DEF Abstract!Link, Asks, Phases, Pairings
  <2>8. Staged'
    BY <2>1, StagedStep
  <2> QED
    BY <2>7, <2>8 DEF Seen, Abstract!Next
<1> QED
  BY <1>2, <1>3 DEF CreateThrough

LEMMA QuietSeen ==
  ASSUME Staged, UNCHANGED <<key, pk, links, call>>
  PROVE  Seen
BY DEF Seen, Staged, Pairings, Asks, Phases, Phase

LEMMA NextSeen ==
  ASSUME TypeOK, Staged, Keyed, [Next]_vars
  PROVE  Seen
<1>1. CASE UNCHANGED vars
  BY <1>1, QuietSeen DEF vars, database, memory
<1>2. ASSUME NEW o \in Source, NEW T \in SUBSET Target,
             \/ AddTargets(o, T) \/ SetTargets(o, T)
             \/ RemoveTargets(o, T) \/ ClearTargets(o)
      PROVE  Seen
  BY <1>2, BeginSeen DEF AddTargets, SetTargets, RemoveTargets, ClearTargets, Ops
<1>3. ASSUME NEW o \in Source, Step(o) PROVE Seen
  BY <1>3, SelectSeen, DeleteSeen, CreateTargetsSeen, CreateThroughSeen DEF Step
<1>4. ASSUME NEW o \in Source, Filter(o) \/ Limit(o) \/ Offset(o) \/ Get(o)
      PROVE  Seen
  BY <1>4, QuietSeen DEF Filter, Limit, Offset, Narrow, Get, database
<1>5. ASSUME NEW o \in Source, Save(o) \/ Load(o) \/ All(o)
      PROVE  Seen
  BY <1>5, SaveSeen, LoadSeen, AllSeen
<1> QED
  BY <1>1, <1>2, <1>3, <1>4, <1>5 DEF Next

LEMMA InitSeen == Init => Staged /\ Abstract!Init
<1> SUFFICES ASSUME Init PROVE Staged /\ Abstract!Init
  OBVIOUS
<1>1. Staged
  BY DEF Init, Staged, NoCall
<1>2. Pairings = {}
  BY DEF Init, Pairings
<1>3. /\ Asks = [o \in Source |-> [op |-> "none", targets |-> {}]]
      /\ Phases = [o \in Source |-> "idle"]
  BY DEF Init, Asks, Phases, Phase, NoCall
<1>4. Abstract!Init
  BY <1>2, <1>3 DEF Abstract!Init, Abstract!NoCall, Abstract!Pairs, Init,
                    Pairings, Asks, Phases
<1> QED
  BY <1>1, <1>4

\* Whatever other sources do and wherever a statement fails, a call links
\* all of its targets in the step in which it answers or none, touches the
\* links of its own row only, and never renames a stored target
\* (AddTargets, SetTargets, RemoveTargets, ClearTargets).
THEOREM Implementation == Spec => ImplementsLinks
<1>1. Spec => []TypeOK /\ []Keyed
  <2>1. IInv => TypeOK /\ Keyed
    BY DEF IInv
  <2> QED
    BY <2>1, Invariant, PTL
<1>2. Init => Staged /\ Abstract!Init
  BY InitSeen
<1>3. TypeOK /\ Keyed /\ Staged /\ [Next]_vars
        => Staged' /\ [Abstract!Next]_(Abstract!vars)
  BY NextSeen DEF Seen, Abstract!vars, Asks, Phases, Pairings
<1> QED
  BY <1>1, <1>2, <1>3, PTL DEF Spec, ImplementsLinks, Abstract!Spec
=============================================================================
