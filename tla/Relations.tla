----------------------------- MODULE Relations -----------------------------
(***************************************************************************)
(* The many-to-many relation of an object (queryset_relations.go,          *)
(* queryset_relations_values.go).                                          *)
(*                                                                         *)
(* A source is a Go object with a RelM2M field; two of them may stand for  *)
(* one row.  The field keeps the related objects that were loaded or added *)
(* (the cache) and one queryset, made at its first use and narrowed in     *)
(* place by every Filter, Limit and Offset after that.  The calls that     *)
(* change the relation are several statements, each in a transaction of    *)
(* its own, so that the calls of two sources interleave between them.      *)
(* Rows of targets are created by the calls and never deleted.             *)
(***************************************************************************)
EXTENDS Integers, FiniteSets

CONSTANTS Source,       \* the Go objects that own the relation
          Target,       \* the Go objects that are passed to its calls
          SourceKeys,   \* bound: the keys of the rows of sources
          Keys,         \* bound: the keys of the rows of targets
          DefaultLimit, \* MAX_DEFAULT_RESULTS
          GetLimit,     \* MAX_GET_RESULTS
          Limits,       \* the limits and offsets that a program passes
          MaxDup,       \* bound: the times one link is stored
          None          \* nil

ASSUME KeysAssumption ==
    /\ SourceKeys \subseteq Nat \ {0}
    /\ Keys \subseteq Nat \ {0} /\ IsFiniteSet(Keys)
ASSUME NoneAssumption == None \notin Keys \union Target
ASSUME LimitAssumption ==
    /\ DefaultLimit \in Nat /\ GetLimit \in Nat /\ MaxDup \in Nat
    /\ Limits \subseteq Nat

VARIABLES key,    \* key[o]: the primary key of source o, 0 before it is stored
          stored, \* the keys of the rows of sources
          pk,     \* pk[t]: the primary key of target t, 0 before it is stored
          rowOf,  \* rowOf[k]: the target whose row has key k
          links,  \* links[<<s, k>>]: how often the through table links s and k
          qs,     \* qs[o]: the queryset of the relation, None before setup
          cache,  \* cache[o]: the keys of the related objects in memory
          call,   \* call[o]: the last call, and where it is
          lost,   \* history: targets whose key is that of a failed commit
          foreign,\* history: sources whose links changed behind the cache
          met     \* history: sources whose links another changed in the call

database == <<stored, rowOf, links>>
memory == <<key, pk, qs, cache>>
history == <<lost, foreign, met>>
vars == <<database, memory, call, history>>

Ops == {"none", "add", "set", "remove", "clear"}
Rest == {"idle", "ok", "error", "panic"}
Stages == {"select", "delete", "targets", "through"}
Pairs == (SourceKeys \union {0}) \X Keys

QuerySets == [src : SourceKeys \union {0}, only : SUBSET Keys,
              limit : Nat, offset : Nat, got : Keys \union {None}]
Calls == [op : Ops, at : Rest \union Stages, targets : SUBSET Target,
          ids : SUBSET Keys, rows : Nat]

TypeOK ==
    /\ key \in [Source -> SourceKeys \union {0}]
    /\ stored \subseteq SourceKeys
    /\ pk \in [Target -> Keys \union {0}]
    /\ rowOf \in [Keys -> Target \union {None}]
    /\ links \in [Pairs -> Nat]
    /\ qs \in [Source -> QuerySets \union {None}]
    /\ cache \in [Source -> (SUBSET Keys) \union {None}]
    /\ call \in [Source -> Calls]
    /\ lost \subseteq Target /\ foreign \subseteq Source /\ met \subseteq Source

-----------------------------------------------------------------------------
Linked(s) == {k \in Keys : links[<<s, k>>] > 0}
PksOf(T) == {pk[t] : t \in T}
Rows(k) == rowOf[k] # None

(* The queryset that setup makes: it takes the key its source has now. *)
NewQuerySet(o) ==
    [src |-> key[o], only |-> Keys, limit |-> DefaultLimit, offset |-> 0,
     got |-> None]
SetUp(o) == IF qs[o] = None THEN NewQuerySet(o) ELSE qs[o]

(* The rows that a queryset joins, and the keys in a window of them. *)
(* Nothing orders the rows, so that any window of them is possible.  *)
Matching(q) == {k \in q.only : links[<<q.src, k>>] > 0 /\ Rows(k)}
Count(q, K) ==
    Cardinality({r \in K \X (1 .. MaxDup) : r[2] <= links[<<q.src, r[1]>>]})
Window(q) ==
    LET left == Count(q, Matching(q)) - q.offset
    IN  IF left < 0 THEN 0
        ELSE IF q.limit = 0 \/ left < q.limit THEN left ELSE q.limit
Selections(q) ==
    {K \in SUBSET Matching(q) :
        Cardinality(K) <= Window(q) /\ Window(q) <= Count(q, K)}

(* The sources that another object's write to its row leaves behind. *)
Others(o) == {p \in Source \ {o} : key[p] = key[o]}
Disturb(o) ==
    /\ foreign' = foreign \union Others(o)
    /\ met' = met \union Others(o)

Idle(o) == call[o].at \in Rest
Go(o, at) == call' = [call EXCEPT ![o].at = at]
(* A statement that fails, or what the code refuses, changes nothing. *)
Answer(o, at) ==
    /\ at \in {"error", "panic"}
    /\ Go(o, at)
    /\ UNCHANGED <<database, memory, history>>

-----------------------------------------------------------------------------
(* Targets in use by a call are not given to another. *)
Busy == UNION {call[o].targets : o \in {p \in Source : ~ Idle(p)}}
NoCall == [op |-> "none", at |-> "idle", targets |-> {}, ids |-> {}, rows |-> 0]

Init ==
    /\ key \in [Source -> SourceKeys \union {0}]
    /\ stored = {key[o] : o \in Source} \ {0}
    /\ pk \in [Target -> Keys \union {0}]
    /\ \A t, u \in Target : pk[t] = pk[u] /\ pk[t] # 0 => t = u
    /\ rowOf = [k \in Keys |-> IF \E t \in Target : pk[t] = k
                                THEN CHOOSE t \in Target : pk[t] = k ELSE None]
    /\ links = [p \in Pairs |-> 0]
    /\ qs = [o \in Source |-> None]
    /\ cache = [o \in Source |-> None]
    /\ call = [o \in Source |-> NoCall]
    /\ lost = {} /\ foreign = {} /\ met = {}

(* CreateObject stores the source; its relation keeps queryset and cache. *)
Save(o) ==
    /\ Idle(o) /\ key[o] = 0
    /\ \E s \in SourceKeys \ stored :
          /\ key' = [key EXCEPT ![o] = s]
          /\ stored' = stored \union {s}
    /\ foreign' = IF cache[o] = None THEN foreign ELSE foreign \union {o}
    /\ UNCHANGED <<rowOf, links, pk, qs, cache, call, lost, met>>

(* A query reads a row into a new object, with its related objects or not. *)
Load(o) ==
    /\ Idle(o)
    /\ \E s \in stored :
          /\ key' = [key EXCEPT ![o] = s]
          /\ \E c \in {None, {k \in Linked(s) : Rows(k)}} :
                cache' = [cache EXCEPT ![o] = c]
    /\ qs' = [qs EXCEPT ![o] = None]
    /\ call' = [call EXCEPT ![o] = NoCall]
    /\ foreign' = foreign \ {o}
    /\ UNCHANGED <<database, pk, lost, met>>

-----------------------------------------------------------------------------
(* The methods that read.  Those that return a queryset narrow the one the *)
(* relation keeps; a clone starts without the cached result of Get.        *)
Narrow(o, q) ==
    /\ Idle(o)
    /\ qs' = [qs EXCEPT ![o] = [q EXCEPT !.got = None]]
    /\ UNCHANGED <<database, key, pk, cache, call, history>>

Filter(o) == \E K \in SUBSET Keys :
    Narrow(o, [SetUp(o) EXCEPT !.only = @ \intersect K])
Limit(o) == \E n \in Limits : Narrow(o, [SetUp(o) EXCEPT !.limit = n])
Offset(o) == \E n \in Limits : Narrow(o, [SetUp(o) EXCEPT !.offset = n])

(* Get limits the kept queryset in place, and keeps the row it found. *)
Get(o) ==
    /\ Idle(o)
    /\ LET q == [SetUp(o) EXCEPT !.limit = GetLimit]
       IN  \/ qs[o] # None /\ qs[o].got # None /\ UNCHANGED qs
           \/ /\ SetUp(o).got = None
              /\ \E K \in Selections(q) :
                    qs' = [qs EXCEPT ![o] = [q EXCEPT !.got =
                              IF \E k \in K : K = {k} THEN CHOOSE k \in K : TRUE
                                                      ELSE None]]
    /\ UNCHANGED <<database, key, pk, cache, call, history>>

(* All reads the database again unless Get kept its row: All takes that    *)
(* for rows of its own and panics.                                         *)
All(o) ==
    /\ Idle(o)
    /\ qs' = [qs EXCEPT ![o] = SetUp(o)]
    /\ call' = [call EXCEPT ![o] =
          [NoCall EXCEPT !.at = IF SetUp(o).got = None THEN "ok" ELSE "panic"]]
    /\ UNCHANGED <<database, key, pk, cache, history>>

(* Mutant: SetTargets does not clear. *)
FirstStageNoClear(op) == IF op = "remove" THEN "delete"
    ELSE IF op = "clear" THEN "select" ELSE "targets"

-----------------------------------------------------------------------------
(* The methods that change the relation. *)
FirstStage(op) ==
    CASE op = "add" -> "targets" [] op = "remove" -> "delete"
      [] OTHER -> "select"

Begin(o, op, T) ==
    /\ Idle(o)
    /\ T \intersect Busy = {}
    /\ op = "clear" => T = {}
    /\ call' = [call EXCEPT ![o] = [op |-> op, at |-> FirstStage(op),
                                    targets |-> T, ids |-> {}, rows |-> 0]]
    /\ met' = met \ {o}
    /\ UNCHANGED <<database, memory, lost, foreign>>

AddTargets(o, T) == Begin(o, "add", T)
SetTargets(o, T) == Begin(o, "set", T)
RemoveTargets(o, T) == Begin(o, "remove", T)
ClearTargets(o) == Begin(o, "clear", {})

(* ClearTargets reads the keys to unlink from the kept queryset, which it  *)
(* does not make.                                                          *)
Select(o, fault) ==
    /\ call[o].at = "select"
    /\ \/ qs[o] = None /\ Answer(o, "panic")
       \/ qs[o] # None /\ fault # "none" /\ Answer(o, "error")
       \/ /\ qs[o] # None /\ fault = "none"
          /\ \E K \in Selections(qs[o]) :
                call' = [call EXCEPT ![o] =
                    [@ EXCEPT !.at = "delete", !.ids = K, !.rows = Window(qs[o])]]
          /\ UNCHANGED <<database, memory, history>>

(* What RemoveTargets unlinks are the keys of its targets. *)
Asked(o) == IF call[o].op = "remove" THEN PksOf(call[o].targets) ELSE call[o].ids

(* Mutant: the deletion is not restricted to the source. *)
GoneAnywhere(o) == SourceKeys \X Asked(o)
Gone(o) == {<<key[o], k>> : k \in Asked(o)}

(* Mutant: the related objects in memory are left as they were. *)
Kept(o) == cache[o]

(* ClearTargets empties the cache even when its queryset is narrowed. *)
Remaining(o) ==
    IF call[o].op # "remove" THEN {}
    ELSE IF cache[o] = None THEN None ELSE cache[o] \ Asked(o)

(* An IN without values panics.  RemoveTargets needs the key of each       *)
(* target, and answers an error when nothing was deleted.                  *)
Delete(o, fault) ==
    /\ call[o].at = "delete"
    /\ \/ 0 \in Asked(o) /\ Answer(o, "error")
       \/ Asked(o) = {} /\ Answer(o, "panic")
       \/ /\ Asked(o) # {} /\ 0 \notin Asked(o)
          /\ \/ fault # "none"
             \/ call[o].op = "remove" /\ Asked(o) \intersect Linked(key[o]) = {}
          /\ Answer(o, "error")
       \/ /\ Asked(o) # {} /\ 0 \notin Asked(o) /\ fault = "none"
          /\ call[o].op = "remove" => Asked(o) \intersect Linked(key[o]) # {}
          /\ links' = [p \in Pairs |-> IF p \in Gone(o) THEN 0 ELSE links[p]]
          /\ cache' = [cache EXCEPT ![o] = Remaining(o)]
          /\ Go(o, IF call[o].op = "set" THEN "targets" ELSE "ok")
          /\ Disturb(o)
          /\ UNCHANGED <<stored, rowOf, key, pk, qs, lost>>

(* Mutant: each target is stored, also those that are. *)
FreshAll(o) == call[o].targets

(* The targets without a key are stored first, in a transaction of their   *)
(* own.  A commit that fails leaves them the keys of rows that are gone.   *)
Fresh(o) == {t \in call[o].targets : pk[t] = 0}
Unused == {k \in Keys : rowOf[k] = None}

(* Mutant: no key comes back from the insert. *)
NoKeysSet(f, fault) == pk
KeysSet(f, fault) ==
    IF fault = "statement" THEN pk
    ELSE [t \in Target |-> IF t \in DOMAIN f THEN f[t] ELSE pk[t]]

(* Mutant: the transaction is not committed. *)
NoRowsMade(f, fault) == rowOf
RowsMade(f, fault) ==
    IF fault # "none" THEN rowOf
    ELSE [k \in Keys |-> IF \E t \in DOMAIN f : f[t] = k
                         THEN CHOOSE t \in DOMAIN f : f[t] = k ELSE rowOf[k]]

CreateTargets(o, fault) ==
    /\ call[o].at = "targets"
    /\ Fresh(o) = {} => fault = "none"
    /\ qs' = [qs EXCEPT ![o] = SetUp(o)]
    /\ \E f \in [Fresh(o) -> Unused] :
          /\ \A t, u \in Fresh(o) : f[t] = f[u] => t = u
          /\ pk' = KeysSet(f, fault)
          /\ rowOf' = RowsMade(f, fault)
    /\ lost' = IF fault = "commit" THEN lost \union Fresh(o) ELSE lost
    /\ Go(o, IF fault = "none" THEN "through" ELSE "error")
    /\ UNCHANGED <<stored, links, key, cache, foreign, met>>

(* Then their links.  A source without a key is refused, or linked by the  *)
(* key 0.                                                                  *)
CreateThrough(o, fault) ==
    /\ call[o].at = "through"
    /\ LET T == call[o].targets
           new == {<<key[o], pk[t]>> : t \in T}
       IN  \/ T = {} /\ Answer(o, "error")
           \/ T # {} /\ (fault # "none" \/ key[o] = 0) /\ Answer(o, "error")
           \/ /\ T # {} /\ fault = "none"
              /\ \A p \in Pairs : p \in new => links[p] < MaxDup
              /\ links' = [p \in Pairs |-> IF p \in new THEN links[p] + 1 ELSE links[p]]
              /\ cache' = [cache EXCEPT ![o] =
                    IF call[o].op = "add" /\ @ # None THEN @ \union PksOf(T)
                                                      ELSE PksOf(T)]
              /\ Go(o, "ok")
              /\ Disturb(o)
              /\ UNCHANGED <<stored, rowOf, key, pk, qs, lost>>

Faults == {"none", "statement", "commit"}

Step(o) == \E fault \in Faults :
    Select(o, fault) \/ Delete(o, fault) \/ CreateTargets(o, fault)
        \/ CreateThrough(o, fault)

Next == \E o \in Source :
    \/ Save(o) \/ Load(o)
    \/ Filter(o) \/ Limit(o) \/ Offset(o) \/ Get(o) \/ All(o)
    \/ \E T \in SUBSET Target :
          AddTargets(o, T) \/ SetTargets(o, T) \/ RemoveTargets(o, T)
    \/ ClearTargets(o)
    \/ Step(o)

Spec == Init /\ [][Next]_vars

-----------------------------------------------------------------------------
(* Properties. *)

\* A target that was stored knows its row, whatever failed or was repeated
\* since, and no row was made twice of one object: a call that is repeated
\* after its links failed links the rows that the first one made.  Only a
\* commit that failed leaves keys that are wrong.
TargetsKnowTheirRows ==
    /\ \A t \in Target \ lost : pk[t] # 0 => rowOf[pk[t]] = t
    /\ \A k \in Keys : Rows(k) => pk[rowOf[k]] = k

\* A link names a row that exists, or the key of a target whose commit
\* failed: the rows come before the links.
LinksAreStored ==
    \A p \in Pairs : links[p] > 0 =>
        Rows(p[2]) \/ \E t \in lost : pk[t] = p[2]

\* The related objects in memory are all linked, as long as no other object
\* of the same row changed its links: between two calls, inside one, and
\* after one that failed.
CacheIsLinked ==
    \A o \in Source \ foreign :
        cache[o] # None => cache[o] \subseteq Linked(key[o])

\* SetTargets leaves its targets linked and nothing else, when the kept
\* queryset was not narrowed, nobody else wrote, and fewer rows were linked
\* than the limit of a queryset.
Whole(o) ==
    /\ qs[o].src = key[o] /\ qs[o].only = Keys
    /\ qs[o].offset = 0 /\ call[o].rows < qs[o].limit
SetIsExact == [][\A o \in Source \ met :
    /\ call[o].op = "set" /\ call[o].at = "through" /\ call'[o].at = "ok"
    /\ Whole(o) /\ lost = {}
    => Linked(key[o])' = PksOf(call[o].targets)]_vars

(* What a client sees of the calls. *)
Phase(o) ==
    CASE call[o].at \in {"idle", "ok"} -> call[o].at
      [] call[o].at \in {"error", "panic"} -> "failed"
      [] call[o].op = "set" /\ call[o].at \in {"targets", "through"} -> "unlinked"
      [] OTHER -> "asked"

Abstract == INSTANCE Links WITH
    linked <- {p \in Pairs : links[p] > 0},
    asked <- [o \in Source |-> [op |-> call[o].op, targets |-> call[o].targets]],
    phase <- [o \in Source |-> Phase(o)]

\* The calls keep what Links promises: a call links all its targets in the
\* step in which it answers, one that fails has linked nothing, and none
\* touches the links of another row.
ImplementsLinks == Abstract!Spec
=============================================================================
