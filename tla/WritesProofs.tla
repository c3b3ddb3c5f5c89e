---------------------------- MODULE WritesProofs ----------------------------
(***************************************************************************)
(* Proofs about Writes, for every number of objects, rows and batches.     *)
(***************************************************************************)
EXTENDS Writes, QuerySetsProofs, WellFoundedInduction

-----------------------------------------------------------------------------
(* Loops. *)

\* The objects before batch i, and the keys that it is given.
Before(batches, i) == FoldLeft(LAMBDA x, b : x + Len(b), 0, SubSeq(batches, 1, i - 1))
Given(batches, ks, i) ==
    SubSeq(ks, Before(batches, i) + 1, Before(batches, i) + Len(batches[i]))

\* One turn of each of the loops that Writes folds.
Turn(loop, p, x, c) ==
    CASE loop = "objects" -> UpdateRow(x, p.r, c, p.e)
      [] loop = "updates" -> UpdateAll(Failing(x, c, p.n), p.r, p.batches[c], p.e)
      [] loop = "inserts" -> Inserted([p.s EXCEPT !.rows = x], <<p.os[c]>>, <<p.ks[c]>>)
      [] loop = "keys" -> [x EXCEPT ![p.os[c]].key = p.ks[c]]
      [] loop = "creates" -> CreateAll(Failing(x, c, p.n), p.batches[c],
                                       Given(p.batches, p.ks, c))
      [] loop = "lengths" -> x + Len(c)
      [] loop = "counts" -> x + c
      [] loop = "joins" -> IF c.at = None \/ c.at \in ToSet(x) THEN x ELSE Append(x, c.at)
      [] loop = "joined" -> Join(p, x, c)
      [] loop = "chains" -> IF x.status = "rows" /\ c.at # None /\ Kind[c.at] # "fk"
                            THEN AddRelationChain(x, p.items, p.row, p.u, c.at) ELSE x
      [] loop = "scans" -> IF x.status = "rows" THEN ScanRow(x, p.items, p.rows[c], c) ELSE x

LEMMA Least ==
  ASSUME NEW S, S \subseteq Nat, S # {}
  PROVE  \E n \in S : \A m \in S : n <= m
<1> DEFINE R == OpToRel(<, Nat)
<1>1. IsWellFoundedOn(R, Nat)
  BY NatLessThanWellFounded
<1>2. \A x, y \in Nat : <<y, x>> \in R <=> y < x
  BY DEF OpToRel
<1> HIDE DEF R
<1>3. PICK x \in S : \A y \in S : ~(<<y, x>> \in R)
  BY <1>1, WFMin
<1>4. ASSUME NEW y \in S
      PROVE  x <= y
  <2>1. x \in Nat /\ y \in Nat
    OBVIOUS
  <2>2. ~(<<y, x>> \in R)
    BY <1>3
  <2>3. ~(y < x)
    BY <1>2, <2>1, <2>2
  <2> QED
    BY <2>1, <2>3
<1> QED
  BY <1>4

LEMMA Induction ==
  ASSUME NEW S, 0 \in S, \A n \in Nat : n \in S => n + 1 \in S
  PROVE  Nat \subseteq S
<1> DEFINE T == Nat \ S
<1> SUFFICES ASSUME T # {}
             PROVE  FALSE
  OBVIOUS
<1>1. PICK n \in T : \A m \in T : n <= m
  BY Least
<1>2. n \in Nat /\ n # 0
  OBVIOUS
<1>3. n - 1 \in Nat /\ ~(n <= n - 1) /\ (n - 1) + 1 = n
  BY <1>2
<1>4. n - 1 \in S
  BY <1>1, <1>3
<1>5. n \in S
  BY <1>3, <1>4
<1> QED
  BY <1>5

\* The largest of a set that has it.
LEMMA LargestIs ==
  ASSUME NEW n \in Nat, NEW s \in SUBSET (1 .. n), n \in s
  PROVE  Max(s) = n
<1>1. \A y \in s : n >= y
  OBVIOUS
<1>2. \A x \in s : (\A y \in s : x >= y) => x = n
  <2> SUFFICES ASSUME NEW x \in s, \A y \in s : x >= y
               PROVE  x = n
    OBVIOUS
  <2>1. x >= n /\ n >= x /\ x \in Nat
    BY <1>1
  <2> QED
    BY <2>1
<1> QED
  BY <1>1, <1>2 DEF Max

\* The fold over the subsets of a domain that FoldLeft stands for: it exists,
\* whatever the turns do.
Runs(loop, p, base, seq, m, g) ==
    g = [s \in SUBSET (1 .. m) |->
           IF s = {} THEN base ELSE Turn(loop, p, g[s \ {Max(s)}], seq[Max(s)])]

LEMMA LoopRuns ==
  ASSUME NEW loop, NEW p, NEW base, NEW seq, NEW n \in Nat
  PROVE  \E g : Runs(loop, p, base, seq, n, g)
<1> DEFINE S == {m \in Nat : \E g : Runs(loop, p, base, seq, m, g)}
<1>1. 0 \in S
  <2> DEFINE g == [s \in {{}} |-> base]
  <2>1. SUBSET (1 .. 0) = {{}}
    OBVIOUS
  <2>2. Runs(loop, p, base, seq, 0, g)
    BY <2>1 DEF Runs
  <2> QED
    BY <2>2
<1>2. ASSUME NEW m \in Nat, m \in S
      PROVE  m + 1 \in S
  <2>1. PICK g : Runs(loop, p, base, seq, m, g)
    BY <1>2
  <2> DEFINE next(s) == Turn(loop, p, g[s \ {m + 1}], seq[m + 1])
             h == [s \in SUBSET (1 .. (m + 1)) |-> IF m + 1 \in s THEN next(s) ELSE g[s]]
             turn(s) == IF s = {} THEN base ELSE Turn(loop, p, h[s \ {Max(s)}], seq[Max(s)])
  <2>2. ASSUME NEW s \in SUBSET (1 .. (m + 1))
        PROVE  h[s] = turn(s)
    <3>1. CASE m + 1 \in s
      <4>1. Max(s) = m + 1
        BY <3>1, LargestIs
      <4>2. s \ {m + 1} \in SUBSET (1 .. (m + 1)) /\ m + 1 \notin s \ {m + 1}
        OBVIOUS
      <4>3. h[s \ {m + 1}] = g[s \ {m + 1}]
        BY <4>2
      <4>4. h[s] = next(s) /\ s # {}
        BY <3>1
      <4> QED
        BY <4>1, <4>3, <4>4
    <3>2. CASE m + 1 \notin s
      <4>1. \A i \in 1 .. (m + 1) : i # m + 1 => i \in 1 .. m
        OBVIOUS
      <4>2. s \in SUBSET (1 .. m) /\ s \ {Max(s)} \in SUBSET (1 .. m)
        BY <3>2, <4>1
      <4>3. g[s] = IF s = {} THEN base ELSE Turn(loop, p, g[s \ {Max(s)}], seq[Max(s)])
        BY <2>1, <4>2 DEF Runs
      <4>4. s \ {Max(s)} \in SUBSET (1 .. (m + 1)) /\ m + 1 \notin s \ {Max(s)}
        BY <3>2
      <4>5. h[s] = g[s] /\ h[s \ {Max(s)}] = g[s \ {Max(s)}]
        BY <3>2, <4>4
      <4> QED
        BY <4>3, <4>5
    <3> QED
      BY <3>1, <3>2
  <2>3. h = [s \in SUBSET (1 .. (m + 1)) |-> turn(s)]
    BY <2>2
  <2>4. Runs(loop, p, base, seq, m + 1, h)
    BY <2>3 DEF Runs
  <2> HIDE DEF h
  <2> QED
    BY <2>4
<1> HIDE DEF S
<1>3. n \in S
  BY <1>1, <1>2, Induction
<1> QED
  BY <1>3 DEF S

\* Its turns one after another.
Turns(loop, p, base, seq, n, it) ==
    /\ it[{}] = base
    /\ \A k \in 1 .. n : it[1 .. k] = Turn(loop, p, it[1 .. (k - 1)], seq[k])

LEMMA TurnsOf ==
  ASSUME NEW loop, NEW p, NEW base, NEW seq, NEW n \in Nat, NEW it,
         Runs(loop, p, base, seq, n, it)
  PROVE  Turns(loop, p, base, seq, n, it)
<1> DEFINE turn(s) == IF s = {} THEN base ELSE Turn(loop, p, it[s \ {Max(s)}], seq[Max(s)])
<1>1. \A s \in SUBSET (1 .. n) : it[s] = turn(s)
  BY DEF Runs
<1>2. it[{}] = base
  BY <1>1
<1>3. ASSUME NEW k \in 1 .. n
      PROVE  it[1 .. k] = Turn(loop, p, it[1 .. (k - 1)], seq[k])
  <2>1. (1 .. k) \in SUBSET (1 .. n) /\ k \in 1 .. k /\ 1 .. k # {}
    OBVIOUS
  <2>2. Max(1 .. k) = k
    BY LargestIs
  <2>3. (1 .. k) \ {k} = 1 .. (k - 1)
    OBVIOUS
  <2> QED
    BY <1>1, <2>1, <2>2, <2>3
<1> QED
  BY <1>2, <1>3 DEF Turns

\* What the turns end with.
Loops(loop, p, base, seq, n, result) ==
    \E it : Turns(loop, p, base, seq, n, it) /\ result = it[1 .. n]

\* The objects of one BulkUpdate.
EachUpdated(s, r, os, e) == FoldLeft(LAMBDA x, o : UpdateRow(x, r, o, e), s, os)

LEMMA ObjectsLoop ==
  ASSUME NEW r, NEW e, NEW base, NEW os, NEW n \in Nat, DOMAIN os = 1 .. n
  PROVE  Loops("objects", [r |-> r, e |-> e], base, os, n, EachUpdated(base, r, os, e))
<1> DEFINE D == DOMAIN os
           p == [r |-> r, e |-> e]
           it == CHOOSE g : g = [s \in SUBSET D |->
                    IF s = {} THEN base ELSE UpdateRow(g[s \ {Max(s)}], r, os[Max(s)], e)]
<1>1. EachUpdated(base, r, os, e) = it[D]
  BY DEF EachUpdated, FoldLeft, MapThenFoldSet
<1>2. \A x, c : Turn("objects", p, x, c) = UpdateRow(x, r, c, e)
  BY DEF Turn
<1>3. PICK g : Runs("objects", p, base, os, n, g)
  BY LoopRuns
<1>4. g = [s \in SUBSET D |->
             IF s = {} THEN base ELSE UpdateRow(g[s \ {Max(s)}], r, os[Max(s)], e)]
  BY <1>2, <1>3 DEF Runs
<1>5. it = [s \in SUBSET D |->
             IF s = {} THEN base ELSE UpdateRow(it[s \ {Max(s)}], r, os[Max(s)], e)]
  BY <1>4
<1> HIDE DEF it
<1>6. Runs("objects", p, base, os, n, it)
  BY <1>2, <1>5 DEF Runs
<1>7. Turns("objects", p, base, os, n, it)
  BY <1>6, TurnsOf
<1> QED
  BY <1>1, <1>7 DEF Loops

-----------------------------------------------------------------------------
(* The calls of module QuerySets. *)

\* What they answer, and what they do to the database.
Ops == {"make", "scope", "all", "get", "first", "last", "values", "list", "map", "count",
        "exists", "delete", "get or create"}

LEMMA CallsAnswer ==
  ASSUME Next
  PROVE  /\ answer'.op \in Ops
         /\ \/ db' = db
            \/ \E gone : db' = [db EXCEPT !.roots = @ \ gone]
            \/ \E k \in Keys \ db.roots : db' = [db EXCEPT !.roots = @ \union {k}]
<1> DEFINE Says == answer'.op \in Ops
<1>1. ASSUME NEW q, NEW op \in Ops, NEW status, NEW tree, NEW value,
             Answered(op, q, status, tree, value)
      PROVE  Says
  BY <1>1 DEF Answered
<1>0. {"all", "get", "first", "last", "values", "list", "map", "count", "exists", "delete",
       "get or create"} \subseteq Ops
  BY DEF Ops
<1>2. ASSUME NEW q \in QS, NEW d \in QS, Makes(q, d)
      PROVE  Says /\ db' = db
  <2>1. Answered("make", q, "ok", None, 0) /\ db' = db
    BY <1>2 DEF Makes, Limit, Offset, OrderBy, Backwards, Select, Annotate, Filter, Make
  <2> QED
    BY <2>1 DEF Answered, Ops
<1>3. ASSUME NEW q \in QS, NEW c, Scope(q, c)
      PROVE  Says /\ db' = db
  BY <1>3 DEF Scope, Answered, Ops
<1>4. ASSUME NEW q, NEW op \in Ops, NEW kind, FromCache(op, q, kind)
      PROVE  Says /\ db' = db
  BY <1>4 DEF FromCache
<1>5. ASSUME NEW q \in QS, Reads(q)
      PROVE  Says /\ db' = db
  <2> HIDE DEF Says
  <2>1. All(q) => Says /\ db' = db
    BY <1>0, <1>1 DEF All
  <2>2. Get(q) => Says /\ db' = db
    BY <1>0, <1>1 DEF Get
  <2>3. ASSUME NEW kind \in {"values", "list"}, NEW items, Values(q, kind, items)
        PROVE  Says /\ db' = db
    BY <1>0, <1>1, <2>3 DEF Values
  <2>4. Aggregate(q) => Says /\ db' = db
    BY <1>0, <1>1 DEF Aggregate
  <2>5. GetFirst(q) \/ GetLast(q) => Says /\ db' = db
    BY <1>0, <1>1 DEF GetFirst, GetLast, FirstOf
  <2>6. Count(q) \/ Exists(q) => Says /\ db' = db
    BY <1>0, <1>1 DEF Count, Exists, Counts
  <2> QED
    BY <1>0, <1>4, <1>5, <2>1, <2>2, <2>3, <2>4, <2>5, <2>6 DEF Reads, Cachings
<1>6. ASSUME NEW q \in QS, NEW objs, Delete(q, objs)
      PROVE  Says /\ (db' = db \/ \E gone : db' = [db EXCEPT !.roots = @ \ gone])
  BY <1>6 DEF Delete, Answered, Ops
<1>7. ASSUME NEW q \in QS, NEW k \in Keys, GetOrCreate(q, k)
      PROVE  /\ Says
             /\ \/ db' = db
                \/ k \notin db.roots /\ db' = [db EXCEPT !.roots = @ \union {k}]
  <2>1. Says
    <3> HIDE DEF Says
    <3> QED
      BY <1>0, <1>1, <1>7 DEF GetOrCreate
  <2>2. db' = db \/ (k \notin db.roots /\ db' = [db EXCEPT !.roots = @ \union {k}])
    BY <1>7 DEF GetOrCreate
  <2> QED
    BY <2>1, <2>2
<1> HIDE DEF Says
<1>8. PICK q \in QS : (\E d \in QS : Makes(q, d)) \/ (\E c \in Conditions : Scope(q, c))
                         \/ Reads(q) \/ Writes(q)
  BY Zenon DEF Next
<1>9. CASE \E objs : Delete(q, objs)
  BY <1>6, <1>9 DEF Says
<1>10. CASE \E k \in Keys : GetOrCreate(q, k)
  BY <1>7, <1>10 DEF Says
<1> QED
  BY <1>2, <1>3, <1>5, <1>8, <1>9, <1>10 DEF Writes, Says

-----------------------------------------------------------------------------
(* Updates. *)

\* A property of the turns up to n.
LEMMA UpTo ==
  ASSUME NEW n \in Nat, NEW S, 0 \in S, \A k \in 1 .. n : k - 1 \in S => k \in S
  PROVE  n \in S
<1> DEFINE T == {k \in Nat : k <= n => k \in S}
<1>1. ASSUME NEW k \in Nat, k \in T
      PROVE  k + 1 \in T
  <2> SUFFICES ASSUME k + 1 <= n
               PROVE  k + 1 \in S
    OBVIOUS
  <2>1. k \in S /\ k + 1 \in 1 .. n /\ (k + 1) - 1 = k
    BY <1>1
  <2> QED
    BY <2>1
<1>2. 0 \in T
  OBVIOUS
<1> HIDE DEF T
<1>3. n \in T
  BY <1>1, <1>2, Induction
<1> QED
  BY <1>3 DEF T

\* What a call has done so far keeps the types.
Sound(s) ==
    /\ DOMAIN s = {"status", "rows", "obj", "counts", "value"}
    /\ s.status \in Statuses
    /\ s.rows \in [DOMAIN s.rows -> Row]
    /\ DOMAIN s.rows \subseteq Keys
    /\ Distinct(s.rows)
    /\ s.obj \in [Object -> Struct]

\* From s to t only the columns C of the rows K have changed.
Touches(s, t, K, C) ==
    /\ DOMAIN t.rows = DOMAIN s.rows
    /\ t.obj = s.obj
    /\ \A k \in DOMAIN s.rows, f \in Columns :
          t.rows[k][f] # s.rows[k][f] => k \in K /\ f \in C

\* The columns that a queryset may write, and the rows, given the objects.
Writable(r) == IF r.items = <<>> THEN Columns ELSE UNION {Named(i) : i \in ToSet(r.items)}
Reach(r, os) ==
    IF Cells(heap, r.where) = <<>> THEN {obj[o].key : o \in ToSet(os)} ELSE Matching(heap, r)

LEMMA SetIsRow ==
  ASSUME RowsOK, NEW row \in Row, NEW o \in Object, NEW columns, NEW e
  PROVE  /\ Set(row, o, columns, e) \in Row
         /\ \A f \in Columns : Set(row, o, columns, e)[f] # row[f] => f \in columns
<1>1. \A f \in Columns : obj[o][f] \in Val
  BY DEF RowsOK, Struct, Columns
<1>2. \A v : Evaluated(v) \in Val
  BY WritesAssumption DEF Evaluated
<1>3. \A f \in Columns : row[f] \in Val
  BY DEF Row
<1> QED
  BY <1>1, <1>2, <1>3 DEF Set, Row

LEMMA UpdateRowSound ==
  ASSUME RowsOK, NEW s, Sound(s), NEW r, NEW o \in Object, NEW e
  PROVE  LET t == UpdateRow(s, r, o, e)
         IN  Sound(t) /\ Touches(s, t, Hit(r, o), Chosen(r, o))
<1> DEFINE columns == Chosen(r, o)
           hit == Hit(r, o)
           new == [k \in DOMAIN s.rows |->
                      IF k \in hit THEN Set(s.rows[k], o, columns, e) ELSE s.rows[k]]
           t == UpdateRow(s, r, o, e)
<1>1. Touches(s, s, hit, columns)
  BY DEF Touches
<1>2. t = s => Sound(t) /\ Touches(s, t, hit, columns)
  BY <1>1
<1>3. ASSUME t = [s EXCEPT !.status = "error"]
      PROVE  Sound(t) /\ Touches(s, t, hit, columns)
  <2>1. /\ DOMAIN t = DOMAIN s
        /\ t.rows = s.rows /\ t.obj = s.obj /\ t.status \in Statuses
    BY <1>3 DEF Sound, Statuses
  <2> QED
    BY <1>1, <2>1 DEF Sound, Touches
<1>4. ASSUME NEW count, Distinct(new),
             t = [s EXCEPT !.rows = new, !.counts = Append(@, count)]
      PROVE  Sound(t) /\ Touches(s, t, hit, columns)
  <2>1. /\ DOMAIN t = DOMAIN s
        /\ t.rows = new /\ t.obj = s.obj /\ t.status \in Statuses
    BY <1>4 DEF Sound
  <2>2. ASSUME NEW k \in DOMAIN s.rows
        PROVE  /\ new[k] \in Row
               /\ \A f \in Columns : new[k][f] # s.rows[k][f] => k \in hit /\ f \in columns
    <3>1. s.rows[k] \in Row
      BY DEF Sound
    <3> HIDE DEF columns, hit
    <3> QED
      BY <3>1, SetIsRow
  <2>3. new \in [DOMAIN new -> Row] /\ DOMAIN new = DOMAIN s.rows
    BY <2>2
  <2> HIDE DEF new, t, columns, hit
  <2> QED
    BY <1>4, <2>1, <2>2, <2>3 DEF Sound, Touches
<1>5. \/ t = s
      \/ t = [s EXCEPT !.status = "error"]
      \/ Distinct(new) /\ \E count : t = [s EXCEPT !.rows = new, !.counts = Append(@, count)]
  <2> DEFINE changed == {k \in hit : new[k] # s.rows[k]}
             count == Cardinality(IF driver = "mysql" THEN changed ELSE hit)
             set == [s EXCEPT !.rows = new, !.counts = Append(@, count)]
  <2>1. t = IF s.status # "ok" THEN s
            ELSE IF columns = {} \/ r.joins # <<>> \/ ~Distinct(new)
            THEN [s EXCEPT !.status = "error"]
            ELSE set
    BY DEF UpdateRow
  <2>2. \E c : set = [s EXCEPT !.rows = new, !.counts = Append(@, c)]
    OBVIOUS
  <2> HIDE DEF t, new, set
  <2> QED
    BY <2>1, <2>2
<1> HIDE DEF t, new, hit, columns
<1>6. Sound(t) /\ Touches(s, t, hit, columns)
  BY <1>2, <1>3, <1>4, <1>5
<1> QED
  BY <1>6 DEF t, hit, columns

LEMMA TouchesFar ==
  ASSUME NEW s, NEW t, NEW u, NEW K, NEW C, NEW L, NEW D,
         Touches(s, t, K, C), Touches(t, u, L, D), L \subseteq K, D \subseteq C
  PROVE  Touches(s, u, K, C)
BY DEF Touches

\* One BulkUpdate.
LEMMA UpdateAllSound ==
  ASSUME RowsOK, NEW s, Sound(s), NEW r, NEW os \in Seq(Object), NEW e
  PROVE  LET t == UpdateAll(s, r, os, e)
         IN  Sound(t) /\ Touches(s, t, Reach(r, os), Writable(r))
<1> DEFINE base == [s EXCEPT !.counts = <<>>]
           p == [r |-> r, e |-> e]
           n == Len(os)
           K == Reach(r, os)
           C == Writable(r)
           last == EachUpdated(base, r, os, e)
<1>1. Sound(base) /\ Touches(s, base, K, C)
  <2>1. DOMAIN base = DOMAIN s /\ base.rows = s.rows /\ base.obj = s.obj
    BY DEF Sound
  <2> HIDE DEF K, C
  <2> QED
    BY <2>1 DEF Sound, Touches
<1>2. n \in Nat /\ DOMAIN os = 1 .. n /\ \A k \in 1 .. n : os[k] \in Object
  BY LenProperties, ElementOfSeq
<1> HIDE DEF base, n
<1>3. PICK it : Turns("objects", p, base, os, n, it) /\ last = it[1 .. n]
  <2>1. Loops("objects", p, base, os, n, last)
    BY <1>2, ObjectsLoop
  <2> QED
    BY <2>1 DEF Loops
<1> HIDE DEF last, K, C
<1> DEFINE P == {k \in 0 .. n : Sound(it[1 .. k]) /\ Touches(s, it[1 .. k], K, C)}
<1>4. 0 \in P
  <2>1. 1 .. 0 = {} /\ 0 \in 0 .. n
    BY <1>2
  <2> QED
    BY <1>1, <1>3, <2>1 DEF Turns
<1>5. ASSUME NEW k \in 1 .. n, k - 1 \in P
      PROVE  k \in P
  <2> DEFINE x == it[1 .. (k - 1)]
             y == it[1 .. k]
             o == os[k]
  <2>1. y = UpdateRow(x, r, o, e)
    BY <1>3 DEF Turns, Turn
  <2>2. Sound(x) /\ Touches(s, x, K, C) /\ o \in Object
    BY <1>2, <1>5
  <2> HIDE DEF x, y
  <2>3. Sound(y) /\ Touches(x, y, Hit(r, o), Chosen(r, o))
    BY <2>1, <2>2, UpdateRowSound
  <2>4. Hit(r, o) \subseteq K /\ Chosen(r, o) \subseteq C
    <3>1. o \in ToSet(os)
      BY <1>2 DEF ToSet
    <3>2. Hit(r, o) \subseteq K
      BY <3>1 DEF Hit, K, Reach
    <3>3. Chosen(r, o) \subseteq C
      BY DEF Chosen, C, Writable
    <3> QED
      BY <3>2, <3>3
  <2>5. Touches(s, y, K, C)
    BY <2>2, <2>3, <2>4, TouchesFar
  <2>6. k \in 0 .. n
    BY <1>2
  <2> QED
    BY <2>3, <2>5, <2>6 DEF y
<1> HIDE DEF P
<1>6. n \in P
  BY <1>2, <1>4, <1>5, UpTo
<1>7. Sound(last) /\ Touches(s, last, K, C)
  BY <1>3, <1>6 DEF P
<1> DEFINE t == UpdateAll(s, r, os, e)
<1>8. \/ t = s
      \/ t = last
      \/ t = [last EXCEPT !.status = "no rows"]
      \/ \E v : t = [last EXCEPT !.value = v]
  BY Zenon DEF UpdateAll, EachUpdated, last, base
<1> HIDE DEF t
<1>9. CASE t = s
  BY <1>9 DEF t, K, C, Touches
<1>10. CASE t # s
  <2>1. DOMAIN t = DOMAIN last /\ t.rows = last.rows /\ t.obj = last.obj
    BY <1>7, <1>8, <1>10 DEF Sound
  <2>0. t.status \in Statuses
    BY <1>7, <1>8, <1>10 DEF Sound, Statuses
  <2>2. Sound(t) /\ Touches(s, t, K, C)
    BY <1>7, <2>0, <2>1 DEF Sound, Touches
  <2> QED
    BY <2>2 DEF t, K, C
<1> QED
  BY <1>9, <1>10

-----------------------------------------------------------------------------
(* Batches. *)

LEMMA Divide ==
  ASSUME NEW a \in Nat, NEW b \in Nat \ {0}
  PROVE  (a \div b) \in Nat /\ (a \div b) * b <= a /\ a < (a \div b) * b + b
OBVIOUS

LEMMA CountOf ==
  ASSUME NEW n \in Nat, NEW size \in Nat \ {0}, NEW m, m = (n + size - 1) \div size
  PROVE  /\ m \in Nat /\ n <= m * size
         /\ \A i \in 1 .. m : /\ (i - 1) * size \in Nat /\ (i - 1) * size < n
                              /\ i * size = (i - 1) * size + size
<1>1. n + size - 1 \in Nat
  OBVIOUS
<1>2. m \in Nat /\ m * size <= n + size - 1 /\ n + size - 1 < m * size + size
  BY <1>1, Divide
<1>3. n <= m * size
  <2>1. m * size \in Nat
    BY <1>2
  <2> QED
    BY <1>2, <2>1
<1>4. ASSUME NEW i \in 1 .. m
      PROVE  /\ (i - 1) * size \in Nat /\ (i - 1) * size < n
             /\ i * size = (i - 1) * size + size
  <2>1. i \in Nat /\ i - 1 \in Nat /\ i - 1 < m
    BY <1>2
  <2>2. /\ (i - 1) * size \in Nat /\ i * size = (i - 1) * size + size
        /\ i * size \in Nat /\ m * size \in Nat
    BY <1>2, <2>1
  <2>3. i * size <= m * size
    BY <1>2, <2>1
  <2> QED
    BY <1>2, <2>2, <2>3
<1> QED
  BY <1>2, <1>3, <1>4

\* Batch i holds the objects from at[i - 1] to at[i].
Splits(batches, os, at) ==
    /\ batches \in Seq(Seq(Object)) /\ os \in Seq(Object)
    /\ at \in [0 .. Len(batches) -> 0 .. Len(os)]
    /\ at[0] = 0 /\ at[Len(batches)] = Len(os)
    /\ \A i \in 1 .. Len(batches) :
          /\ at[i] = at[i - 1] + Len(batches[i])
          /\ \A j \in 1 .. Len(batches[i]) : batches[i][j] = os[at[i - 1] + j]

LEMMA OneBatch ==
  ASSUME NEW os \in Seq(Object)
  PROVE  \E at : Splits(<<os>>, os, at)
<1> DEFINE at == [k \in 0 .. 1 |-> IF k = 0 THEN 0 ELSE Len(os)]
<1>1. Len(os) \in Nat /\ \A j \in 1 .. Len(os) : os[j] = os[0 + j]
  BY LenProperties
<1>2. <<os>> \in Seq(Seq(Object)) /\ Len(<<os>>) = 1 /\ <<os>>[1] = os
  OBVIOUS
<1>3. at \in [0 .. 1 -> 0 .. Len(os)] /\ at[0] = 0 /\ at[1] = Len(os)
  BY <1>1
<1> HIDE DEF at
<1>4. Splits(<<os>>, os, at)
  BY <1>1, <1>2, <1>3 DEF Splits
<1> QED
  BY <1>4

LEMMA BatchesSplit ==
  ASSUME NEW os \in Seq(Object), NEW size \in Nat \ {0}
  PROVE  \E at : Splits(Batches(os, size), os, at)
<1> DEFINE n == Len(os)
           m == (n + size - 1) \div size
           end(i) == IF i * size < n THEN i * size ELSE n
           batches == Batches(os, size)
           at == [i \in 0 .. m |-> IF i = 0 THEN 0 ELSE end(i)]
<1>1. n \in Nat /\ \A j \in 1 .. n : os[j] \in Object
  BY LenProperties, ElementOfSeq
<1>2. batches = [i \in 1 .. m |-> SubSeq(os, (i - 1) * size + 1, end(i))]
  BY DEF Batches
<1> HIDE DEF n
<1> DEFINE M == m
<1>3. /\ M \in Nat /\ n <= M * size
      /\ \A i \in 1 .. M : /\ (i - 1) * size \in Nat /\ (i - 1) * size < n
                           /\ i * size = (i - 1) * size + size
  BY <1>1, CountOf
<1> HIDE DEF m, batches
<1>4. ASSUME NEW i \in 1 .. M
      PROVE  /\ batches[i] \in Seq(Object)
             /\ end(i) \in 0 .. n
             /\ end(i) = at[i - 1] + Len(batches[i])
             /\ at[i] = end(i)
             /\ \A j \in 1 .. Len(batches[i]) : batches[i][j] = os[at[i - 1] + j]
  <2> DEFINE start == (i - 1) * size
  <2>1. start \in Nat /\ start < n /\ i * size = start + size /\ i \in Nat
    BY <1>3
  <2>2. end(i) \in 0 .. n /\ start + 1 <= end(i)
    BY <1>1, <2>1
  <2>3. at[i - 1] = start
    <3>1. i - 1 \in 0 .. M /\ (i - 1 # 0 => i - 1 \in 1 .. M)
      BY <1>3
    <3>2. (i - 1) * size < n
      BY <2>1
    <3>3. i - 1 = 0 => start = 0
      OBVIOUS
    <3> QED
      BY <3>1, <3>2, <3>3 DEF M
  <2>4. at[i] = end(i)
    <3>1. i \in 0 .. M /\ i # 0
      BY <1>3
    <3> QED
      BY <3>1 DEF M
  <2> DEFINE e == end(i)
             b == SubSeq(os, start + 1, e)
  <2>5. batches[i] = b
    BY <1>2 DEF M
  <2> HIDE DEF e, start
  <2>6. start + 1 \in Int /\ e \in Int /\ \A j \in start + 1 .. e : os[j] \in Object
    BY <1>1, <2>1, <2>2 DEF e
  <2>7. /\ b \in Seq(Object)
        /\ Len(b) = (IF start + 1 <= e THEN e - (start + 1) + 1 ELSE 0)
        /\ \A j \in 1 .. e - (start + 1) + 1 : b[j] = os[start + 1 + j - 1]
    <3> HIDE DEF M
    <3> QED
      BY <2>6, SubSeqProperties
  <2>8. start \in Nat /\ e \in Nat /\ start + 1 <= e
    BY <1>1, <2>1, <2>2 DEF e
  <2> HIDE DEF b, end
  <2>9. Len(b) = e - start /\ \A j \in 1 .. Len(b) : b[j] = os[start + j]
    <3>1. Len(b) = e - start /\ e - (start + 1) + 1 = e - start
      BY <2>7, <2>8
    <3>2. ASSUME NEW j \in 1 .. Len(b)
          PROVE  b[j] = os[start + j]
      <4>1. start + 1 + j - 1 = start + j /\ j \in 1 .. e - (start + 1) + 1
        BY <2>8, <3>1
      <4> QED
        BY <2>7, <4>1
    <3> QED
      BY <3>1, <3>2
  <2>10. e = start + Len(b)
    BY <2>8, <2>9
  <2> HIDE DEF at
  <2> QED
    BY <2>2, <2>3, <2>4, <2>5, <2>7, <2>9, <2>10 DEF e
<1>5. batches \in Seq(Seq(Object)) /\ Len(batches) = M
  <2>1. batches = [i \in 1 .. M |-> batches[i]]
    BY <1>2 DEF M
  <2>2. \A i \in 1 .. M : batches[i] \in Seq(Object)
    BY <1>4
  <2>3. M \in Nat
    BY <1>3
  <2> HIDE DEF M
  <2>4. /\ [i \in 1 .. M |-> batches[i]] \in Seq(Seq(Object))
        /\ Len([i \in 1 .. M |-> batches[i]]) = M
    BY <2>2, <2>3
  <2> QED
    BY <2>1, <2>4
<1>6. at \in [0 .. M -> 0 .. n] /\ at[0] = 0
  <2>1. \A i \in 0 .. M : i # 0 => i \in 1 .. M
    BY <1>3
  <2>2. \A i \in 0 .. M : (IF i = 0 THEN 0 ELSE end(i)) \in 0 .. n
    BY <1>1, <1>4, <2>1
  <2>3. 0 \in 0 .. M
    BY <1>3
  <2> HIDE DEF end
  <2> QED
    BY <2>2, <2>3 DEF M
<1>7. at[M] = n
  <2>1. M \in 0 .. M
    BY <1>3
  <2>2. CASE M = 0
    BY <1>1, <1>3, <2>1, <2>2 DEF M
  <2>3. CASE M # 0
    <3>1. end(M) = n /\ M \in 1 .. M
      BY <1>1, <1>3, <2>3
    <3> QED
      BY <1>4, <3>1
  <2> QED
    BY <2>2, <2>3
<1>8. Splits(batches, os, at)
  <2> HIDE DEF at, M, end
  <2> QED
    BY <1>4, <1>5, <1>6, <1>7 DEF Splits, n
<1> QED
  BY <1>8 DEF batches

\* The batches of the objects os.
Batched(batches, os) ==
    /\ batches \in Seq(Seq(Object))
    /\ \A i \in 1 .. Len(batches) : ToSet(batches[i]) \subseteq ToSet(os)

\* A place in the part of length l after a is a place in the whole.
LEMMA InLast ==
  ASSUME NEW a \in Nat, NEW l \in Nat, NEW n \in Nat, NEW j \in Nat,
         1 <= j, j <= l, a + l <= n
  PROVE  a + j \in 1 .. n
OBVIOUS

LEMMA SplitBatched ==
  ASSUME NEW batches, NEW os, NEW at, Splits(batches, os, at)
  PROVE  Batched(batches, os)
<1> SUFFICES ASSUME NEW i \in 1 .. Len(batches), NEW o \in ToSet(batches[i])
             PROVE  o \in ToSet(os)
  BY DEF Batched, Splits
<1>1. /\ Len(batches) \in Nat /\ Len(os) \in Nat
      /\ batches[i] \in Seq(Object) /\ DOMAIN os = 1 .. Len(os)
  BY LenProperties, ElementOfSeq DEF Splits
<1>2. /\ DOMAIN batches[i] = 1 .. Len(batches[i]) /\ Len(batches[i]) \in Nat
      /\ i \in 0 .. Len(batches) /\ i - 1 \in 0 .. Len(batches)
  BY <1>1, LenProperties
<1>3. PICK j \in 1 .. Len(batches[i]) : o = batches[i][j]
  BY <1>2 DEF ToSet
<1>4. /\ at[i] <= Len(os) /\ at[i] = at[i - 1] + Len(batches[i])
      /\ at[i - 1] \in Nat
  <2>1. at[i] \in 0 .. Len(os) /\ at[i - 1] \in 0 .. Len(os)
    BY <1>2 DEF Splits
  <2>2. at[i] = at[i - 1] + Len(batches[i])
    BY DEF Splits
  <2> QED
    BY <1>1, <2>1, <2>2
<1>5. at[i - 1] + j \in 1 .. Len(os)
  <2>1. j \in Nat /\ 1 <= j /\ j <= Len(batches[i])
    BY <1>2
  <2>2. at[i - 1] + Len(batches[i]) <= Len(os)
    BY <1>4
  <2>3. Len(batches[i]) \in Nat /\ Len(os) \in Nat /\ at[i - 1] \in Nat
    BY <1>1, <1>2, <1>4
  <2> QED
    BY <2>1, <2>2, <2>3, InLast
<1> QED
  BY <1>1, <1>3, <1>5 DEF Splits, ToSet

\* The batches of one update.
EachBatchUpdated(s, n, r, batches, e) ==
    LET step(x, i) == UpdateAll(Failing(x, i, n), r, batches[i], e)
    IN  FoldLeftDomain(step, s, batches)

LEMMA UpdatesLoop ==
  ASSUME NEW n, NEW r, NEW e, NEW base, NEW batches, NEW m \in Nat, DOMAIN batches = 1 .. m
  PROVE  Loops("updates", [r |-> r, e |-> e, n |-> n, batches |-> batches], base,
               [i \in 1 .. m |-> i], m, EachBatchUpdated(base, n, r, batches, e))
<1> DEFINE D == 1 .. m
           p == [r |-> r, e |-> e, n |-> n, batches |-> batches]
           seq == [i \in D |-> i]
           turn(x, c) == UpdateAll(Failing(x, c, n), r, batches[c], e)
           it == CHOOSE g : g = [s \in SUBSET D |->
                      IF s = {} THEN base ELSE turn(g[s \ {Max(s)}], seq[Max(s)])]
<1>1. EachBatchUpdated(base, n, r, batches, e) = it[D]
  BY DEF EachBatchUpdated, FoldLeftDomain, FoldLeft, MapThenFoldSet
<1>2. \A x, c : Turn("updates", p, x, c) = turn(x, c)
  BY DEF Turn
<1>3. PICK g : Runs("updates", p, base, seq, m, g)
  BY LoopRuns
<1> HIDE DEF turn, seq
<1>4. g = [s \in SUBSET D |->
             IF s = {} THEN base ELSE turn(g[s \ {Max(s)}], seq[Max(s)])]
  BY <1>2, <1>3 DEF Runs
<1>5. it = [s \in SUBSET D |->
             IF s = {} THEN base ELSE turn(it[s \ {Max(s)}], seq[Max(s)])]
  BY <1>4
<1> HIDE DEF it
<1>6. Runs("updates", p, base, seq, m, it)
  BY ZenonT(60), <1>2, <1>5 DEF Runs
<1>7. Turns("updates", p, base, seq, m, it)
  BY <1>6, TurnsOf
<1> QED
  BY <1>1, <1>7 DEF Loops, seq

LEMMA FailingSound ==
  ASSUME NEW s, Sound(s), NEW i, NEW n, NEW K, NEW C
  PROVE  Sound(Failing(s, i, n)) /\ Touches(s, Failing(s, i, n), K, C)
<1> DEFINE t == [s EXCEPT !.status = "error"]
<1>1. Failing(s, i, n) = s \/ Failing(s, i, n) = t
  BY DEF Failing
<1>2. DOMAIN t = DOMAIN s /\ t.rows = s.rows /\ t.obj = s.obj /\ t.status \in Statuses
  BY DEF Sound, Statuses
<1> HIDE DEF t
<1> QED
  BY <1>1, <1>2 DEF Sound, Touches

\* One update, in batches or not.
LEMMA UpdatesSound ==
  ASSUME RowsOK, NEW s, Sound(s), NEW n, NEW r, NEW os, NEW batches, Batched(batches, os), NEW e
  PROVE  LET t == EachBatchUpdated(s, n, r, batches, e)
         IN  Sound(t) /\ Touches(s, t, Reach(r, os), Writable(r))
<1> DEFINE p == [r |-> r, e |-> e, n |-> n, batches |-> batches]
           m == Len(batches)
           K == Reach(r, os)
           C == Writable(r)
           seq == [i \in 1 .. m |-> i]
           last == EachBatchUpdated(s, n, r, batches, e)
<1>1. /\ m \in Nat /\ DOMAIN batches = 1 .. m
      /\ \A k \in 1 .. m : batches[k] \in Seq(Object) /\ ToSet(batches[k]) \subseteq ToSet(os)
  BY LenProperties, ElementOfSeq DEF Batched
<1>2. Touches(s, s, K, C)
  BY DEF Touches
<1> HIDE DEF m
<1>3. PICK it : Turns("updates", p, s, seq, m, it) /\ last = it[1 .. m]
  <2>1. Loops("updates", p, s, seq, m, last)
    BY <1>1, UpdatesLoop
  <2> QED
    BY <2>1 DEF Loops
<1> HIDE DEF last, K, C
<1> DEFINE P == {k \in 0 .. m : Sound(it[1 .. k]) /\ Touches(s, it[1 .. k], K, C)}
<1>4. 0 \in P
  <2>1. 1 .. 0 = {} /\ 0 \in 0 .. m
    BY <1>1
  <2> QED
    BY <1>2, <1>3, <2>1 DEF Turns
<1>5. ASSUME NEW k \in 1 .. m, k - 1 \in P
      PROVE  k \in P
  <2> DEFINE x == it[1 .. (k - 1)]
             f == Failing(x, k, n)
             y == it[1 .. k]
  <2>1. y = UpdateAll(f, r, batches[k], e)
    BY <1>3 DEF Turns, Turn
  <2>2. Sound(x) /\ Touches(s, x, K, C) /\ batches[k] \in Seq(Object)
    BY <1>1, <1>5
  <2> HIDE DEF x, y
  <2>3. Sound(f) /\ Touches(x, f, K, C)
    BY <2>2, FailingSound
  <2> HIDE DEF f
  <2>4. Sound(y) /\ Touches(f, y, Reach(r, batches[k]), Writable(r))
    BY <2>1, <2>2, <2>3, UpdateAllSound
  <2>5. Reach(r, batches[k]) \subseteq K /\ Writable(r) \subseteq C
    BY <1>1 DEF Reach, K, C
  <2>6. Touches(s, f, K, C)
    BY <2>2, <2>3, TouchesFar
  <2>7. Touches(s, y, K, C)
    BY <2>4, <2>5, <2>6, TouchesFar
  <2>8. k \in 0 .. m
    BY <1>1
  <2> QED
    BY <2>4, <2>7, <2>8 DEF y
<1> HIDE DEF P
<1>6. m \in P
  BY <1>1, <1>4, <1>5, UpTo
<1>7. Sound(last) /\ Touches(s, last, K, C)
  BY <1>3, <1>6 DEF P
<1> QED
  BY <1>7 DEF last, K, C

-----------------------------------------------------------------------------
(* Creates. *)

LEMMA InsertsLoop ==
  ASSUME NEW s, NEW os, NEW ks, NEW m \in Nat, DOMAIN os = 1 .. m
  PROVE  Loops("inserts", [s |-> s, os |-> os, ks |-> ks], s.rows, [i \in 1 .. m |-> i], m,
               InsertedOneByOne(s, os, ks))
<1> DEFINE D == 1 .. m
           p == [s |-> s, os |-> os, ks |-> ks]
           seq == [i \in D |-> i]
           turn(x, c) == Inserted([s EXCEPT !.rows = x], <<os[c]>>, <<ks[c]>>)
           it == CHOOSE g : g = [a \in SUBSET D |->
                      IF a = {} THEN s.rows ELSE turn(g[a \ {Max(a)}], seq[Max(a)])]
<1>1. InsertedOneByOne(s, os, ks) = it[D]
  BY DEF InsertedOneByOne, FoldLeftDomain, FoldLeft, MapThenFoldSet
<1>2. \A x, c : Turn("inserts", p, x, c) = turn(x, c)
  BY DEF Turn
<1>3. PICK g : Runs("inserts", p, s.rows, seq, m, g)
  BY LoopRuns
<1> HIDE DEF turn, seq
<1>4. g = [a \in SUBSET D |->
             IF a = {} THEN s.rows ELSE turn(g[a \ {Max(a)}], seq[Max(a)])]
  BY <1>2, <1>3 DEF Runs
<1>5. it = [a \in SUBSET D |->
             IF a = {} THEN s.rows ELSE turn(it[a \ {Max(a)}], seq[Max(a)])]
  BY <1>4
<1> HIDE DEF it
<1>6. Runs("inserts", p, s.rows, seq, m, it)
  BY ZenonT(60), <1>2, <1>5 DEF Runs
<1>7. Turns("inserts", p, s.rows, seq, m, it)
  BY <1>6, TurnsOf
<1> QED
  BY <1>1, <1>7 DEF Loops, seq

LEMMA KeysLoop ==
  ASSUME NEW s, NEW os, NEW ks, NEW m \in Nat, DOMAIN os = 1 .. m
  PROVE  Loops("keys", [os |-> os, ks |-> ks], s.obj, [i \in 1 .. m |-> i], m,
               Keyed(s, os, ks))
<1> DEFINE D == 1 .. m
           p == [os |-> os, ks |-> ks]
           seq == [i \in D |-> i]
           turn(x, c) == [x EXCEPT ![os[c]].key = ks[c]]
           it == CHOOSE g : g = [a \in SUBSET D |->
                      IF a = {} THEN s.obj ELSE turn(g[a \ {Max(a)}], seq[Max(a)])]
<1>1. Keyed(s, os, ks) = it[D]
  BY DEF Keyed, FoldLeftDomain, FoldLeft, MapThenFoldSet
<1>2. \A x, c : Turn("keys", p, x, c) = turn(x, c)
  BY DEF Turn
<1>3. PICK g : Runs("keys", p, s.obj, seq, m, g)
  BY LoopRuns
<1> HIDE DEF turn, seq
<1>4. g = [a \in SUBSET D |->
             IF a = {} THEN s.obj ELSE turn(g[a \ {Max(a)}], seq[Max(a)])]
  BY <1>2, <1>3 DEF Runs
<1>5. it = [a \in SUBSET D |->
             IF a = {} THEN s.obj ELSE turn(it[a \ {Max(a)}], seq[Max(a)])]
  BY <1>4
<1> HIDE DEF it
<1>6. Runs("keys", p, s.obj, seq, m, it)
  BY ZenonT(60), <1>2, <1>5 DEF Runs
<1>7. Turns("keys", p, s.obj, seq, m, it)
  BY <1>6, TurnsOf
<1> QED
  BY <1>1, <1>7 DEF Loops, seq

LEMMA LengthsLoop ==
  ASSUME NEW batches, NEW i, NEW m \in Nat, DOMAIN SubSeq(batches, 1, i - 1) = 1 .. m
  PROVE  Loops("lengths", <<>>, 0, SubSeq(batches, 1, i - 1), m,
               Before(batches, i))
<1> DEFINE seq == SubSeq(batches, 1, i - 1)
           D == DOMAIN seq
           turn(x, c) == x + Len(c)
           it == CHOOSE g : g = [a \in SUBSET D |->
                      IF a = {} THEN 0 ELSE turn(g[a \ {Max(a)}], seq[Max(a)])]
<1>1. Before(batches, i) = it[D]
  BY DEF Before, FoldLeft, MapThenFoldSet
<1>2. \A x, c : Turn("lengths", <<>>, x, c) = turn(x, c)
  BY DEF Turn
<1> HIDE DEF turn, seq
<1>3. PICK g : Runs("lengths", <<>>, 0, seq, m, g)
  BY LoopRuns
<1>0. D = 1 .. m
  BY DEF seq
<1>4. g = [a \in SUBSET D |->
             IF a = {} THEN 0 ELSE turn(g[a \ {Max(a)}], seq[Max(a)])]
  BY <1>0, <1>2, <1>3 DEF Runs
<1>5. it = [a \in SUBSET D |->
             IF a = {} THEN 0 ELSE turn(it[a \ {Max(a)}], seq[Max(a)])]
  BY <1>4
<1> HIDE DEF it
<1>6. Runs("lengths", <<>>, 0, seq, m, it)
  BY <1>0, <1>2, <1>5 DEF Runs
<1>7. Turns("lengths", <<>>, 0, seq, m, it)
  BY <1>6, TurnsOf
<1> QED
  BY <1>0, <1>1, <1>7 DEF Loops, seq

\* The batches of one create.
EachBatchCreated(s, n, batches, ks) ==
    LET step(x, i) == CreateAll(Failing(x, i, n), batches[i], Given(batches, ks, i))
    IN  FoldLeftDomain(step, s, batches)

LEMMA CreatesLoop ==
  ASSUME NEW n, NEW base, NEW batches, NEW ks, NEW m \in Nat, DOMAIN batches = 1 .. m
  PROVE  Loops("creates", [n |-> n, batches |-> batches, ks |-> ks], base, [i \in 1 .. m |-> i], m,
               EachBatchCreated(base, n, batches, ks))
<1> DEFINE D == 1 .. m
           p == [n |-> n, batches |-> batches, ks |-> ks]
           seq == [i \in D |-> i]
           turn(x, c) == CreateAll(Failing(x, c, n), batches[c], Given(batches, ks, c))
           it == CHOOSE g : g = [a \in SUBSET D |->
                      IF a = {} THEN base ELSE turn(g[a \ {Max(a)}], seq[Max(a)])]
<1>1. EachBatchCreated(base, n, batches, ks) = it[D]
  BY DEF EachBatchCreated, FoldLeftDomain, FoldLeft, MapThenFoldSet
<1>2. \A x, c : Turn("creates", p, x, c) = turn(x, c)
  BY DEF Turn
<1>3. PICK g : Runs("creates", p, base, seq, m, g)
  BY LoopRuns
<1> HIDE DEF turn, seq
<1>4. g = [a \in SUBSET D |->
             IF a = {} THEN base ELSE turn(g[a \ {Max(a)}], seq[Max(a)])]
  BY <1>2, <1>3 DEF Runs
<1>5. it = [a \in SUBSET D |->
             IF a = {} THEN base ELSE turn(it[a \ {Max(a)}], seq[Max(a)])]
  BY <1>4
<1> HIDE DEF it
<1>6. Runs("creates", p, base, seq, m, it)
  BY ZenonT(60), <1>2, <1>5 DEF Runs
<1>7. Turns("creates", p, base, seq, m, it)
  BY <1>6, TurnsOf
<1> QED
  BY <1>1, <1>7 DEF Loops, seq

\* The fields of an object that a row stores.
Copy(objs, o) == [f \in Columns |-> objs[o][f]]

\* The keys ks are new, and each is given once.
Fresh(ks, n, old) ==
    /\ ks \in Seq(Keys) /\ Len(ks) = n
    /\ \A i \in 1 .. n : ks[i] \notin old
    /\ \A i, j \in 1 .. n : ks[i] = ks[j] => i = j

\* Rows new are rows old and those of the first n objects of os.
Function(rs) == rs = [k \in DOMAIN rs |-> rs[k]]
Adds(old, new, objs, os, ks, n) ==
    /\ Function(new)
    /\ DOMAIN new = DOMAIN old \union {ks[i] : i \in 1 .. n}
    /\ \A k \in DOMAIN old : new[k] = old[k]
    /\ \A i \in 1 .. n : new[ks[i]] = Copy(objs, os[i])

LEMMA InsertedAdds ==
  ASSUME NEW s, NEW os \in Seq(Object), NEW ks, Fresh(ks, Len(os), DOMAIN s.rows)
  PROVE  Adds(s.rows, Inserted(s, os, ks), s.obj, os, ks, Len(os))
<1> DEFINE n == Len(os)
           object(k) == os[CHOOSE i \in DOMAIN ks : ks[i] = k]
           new == Inserted(s, os, ks)
<1>1. n \in Nat /\ DOMAIN ks = 1 .. n
  BY LenProperties DEF Fresh
<1>2. ToSet(ks) = {ks[i] : i \in 1 .. n}
  BY <1>1 DEF ToSet
<1>3. new = [k \in (DOMAIN s.rows) \union ToSet(ks) |->
                IF k \in DOMAIN s.rows THEN s.rows[k]
                ELSE [f \in Columns |-> s.obj[object(k)][f]]]
  BY DEF Inserted
<1> HIDE DEF n, new
<1>4. ASSUME NEW i \in 1 .. n
      PROVE  new[ks[i]] = Copy(s.obj, os[i])
  <2>1. ks[i] \in ToSet(ks) /\ ks[i] \notin DOMAIN s.rows
    BY <1>2 DEF Fresh, n
  <2>2. (CHOOSE j \in DOMAIN ks : ks[j] = ks[i]) = i
    BY <1>1 DEF Fresh, n
  <2>3. object(ks[i]) = os[i]
    BY <2>2
  <2> HIDE DEF object
  <2> QED
    BY <1>3, <2>1, <2>3 DEF Copy
<1>5. DOMAIN new = DOMAIN s.rows \union {ks[i] : i \in 1 .. n}
  BY <1>2, <1>3
<1>6. \A k \in DOMAIN s.rows : new[k] = s.rows[k]
  BY <1>3
<1>7. Function(new)
  BY <1>3 DEF Function
<1> QED
  BY <1>4, <1>5, <1>6, <1>7 DEF Adds, n, new

LEMMA AddsMore ==
  ASSUME NEW old, NEW rs, NEW new, NEW objs, NEW os, NEW ks, NEW n \in Nat,
         Adds(old, rs, objs, os, ks, n), Adds(rs, new, objs, <<os[n + 1]>>, <<ks[n + 1]>>, 1)
  PROVE  Adds(old, new, objs, os, ks, n + 1)
<1>1. <<ks[n + 1]>>[1] = ks[n + 1] /\ <<os[n + 1]>>[1] = os[n + 1]
  OBVIOUS
<1>2. DOMAIN new = DOMAIN rs \union {ks[n + 1]} /\ new[ks[n + 1]] = Copy(objs, os[n + 1])
  BY <1>1 DEF Adds
<1>3. \A k \in DOMAIN rs : new[k] = rs[k]
  BY DEF Adds
<1>4. \A i \in 1 .. (n + 1) : i \in 1 .. n \/ i = n + 1
  OBVIOUS
<1>5. n + 1 \in 1 .. (n + 1) /\ \A i \in 1 .. n : i \in 1 .. (n + 1)
  OBVIOUS
<1>6. {ks[i] : i \in 1 .. (n + 1)} = {ks[i] : i \in 1 .. n} \union {ks[n + 1]}
  BY <1>4, <1>5
<1>7. \A i \in 1 .. n : ks[i] \in DOMAIN rs /\ rs[ks[i]] = Copy(objs, os[i])
  BY DEF Adds
<1>8. DOMAIN new = DOMAIN old \union {ks[i] : i \in 1 .. (n + 1)}
  BY <1>2, <1>6 DEF Adds
<1>9. \A k \in DOMAIN old : new[k] = old[k]
  BY <1>3 DEF Adds
<1>10. \A i \in 1 .. (n + 1) : new[ks[i]] = Copy(objs, os[i])
  BY <1>2, <1>3, <1>4, <1>7
<1> QED
  BY <1>8, <1>9, <1>10 DEF Adds

LEMMA OneByOneAdds ==
  ASSUME NEW s, "rows" \in DOMAIN s, Function(s.rows), NEW os \in Seq(Object), NEW ks,
         Fresh(ks, Len(os), DOMAIN s.rows)
  PROVE  Adds(s.rows, InsertedOneByOne(s, os, ks), s.obj, os, ks, Len(os))
<1> DEFINE n == Len(os)
           p == [s |-> s, os |-> os, ks |-> ks]
           seq == [i \in 1 .. n |-> i]
<1>1. n \in Nat /\ DOMAIN os = 1 .. n /\ (\A i \in 1 .. n : os[i] \in Object)
      /\ \A i \in 1 .. n : ks[i] \in Keys
  <2>1. Len(ks) = n /\ ks \in Seq(Keys)
    BY DEF Fresh
  <2> QED
    BY <2>1, LenProperties, ElementOfSeq
<1>2. PICK it : Turns("inserts", p, s.rows, seq, n, it) /\ InsertedOneByOne(s, os, ks) = it[1 .. n]
  <2>1. Loops("inserts", p, s.rows, seq, n, InsertedOneByOne(s, os, ks))
    BY <1>1, InsertsLoop
  <2> QED
    BY <2>1 DEF Loops
<1> DEFINE P == {k \in 0 .. n : Adds(s.rows, it[1 .. k], s.obj, os, ks, k)}
<1> HIDE DEF n
<1>3. 0 \in P
  <2>1. 1 .. 0 = {} /\ 0 \in 0 .. n
    BY <1>1
  <2>2. it[1 .. 0] = s.rows
    BY <1>2, <2>1 DEF Turns
  <2>3. Adds(s.rows, s.rows, s.obj, os, ks, 0)
    BY <2>1 DEF Adds
  <2> QED
    BY <2>1, <2>2, <2>3
<1>4. ASSUME NEW k \in 1 .. n, k - 1 \in P
      PROVE  k \in P
  <2> DEFINE x == it[1 .. (k - 1)]
             y == it[1 .. k]
             t == [s EXCEPT !.rows = x]
             o == <<os[k]>>
             c == <<ks[k]>>
  <2>1. y = Inserted(t, o, c)
    BY <1>2 DEF Turns, Turn
  <2>2. Adds(s.rows, x, s.obj, os, ks, k - 1) /\ k - 1 \in Nat /\ (k - 1) + 1 = k /\ k \in Nat
    BY <1>1, <1>4
  <2>3. t.rows = x /\ t.obj = s.obj
    OBVIOUS
  <2>4. o \in Seq(Object) /\ Len(o) = 1 /\ c \in Seq(Keys) /\ Len(c) = 1 /\ c[1] = ks[k]
    BY <1>1
  <2>5. ks[k] \notin DOMAIN x
    <3>1. \A i \in 1 .. (k - 1) : i \in 1 .. n /\ i # k
      BY <1>1
    <3>2. ks[k] \notin DOMAIN s.rows /\ \A i \in 1 .. (k - 1) : ks[i] # ks[k]
      BY <3>1 DEF Fresh, n
    <3> QED
      BY <2>2, <3>2 DEF Adds
  <2>6. Fresh(c, Len(o), DOMAIN t.rows)
    BY <2>3, <2>4, <2>5 DEF Fresh
  <2> HIDE DEF x, y, t, o, c
  <2>7. Adds(t.rows, y, t.obj, o, c, 1)
    BY <2>1, <2>4, <2>6, InsertedAdds
  <2> HIDE DEF P
  <2>8. Adds(x, y, s.obj, <<os[(k - 1) + 1]>>, <<ks[(k - 1) + 1]>>, 1)
    BY <2>2, <2>3, <2>7 DEF o, c
  <2>9. Adds(s.rows, y, s.obj, os, ks, (k - 1) + 1)
    BY <2>2, <2>8, AddsMore
  <2>10. k \in 0 .. n
    BY <1>1
  <2> QED
    BY <2>2, <2>9, <2>10 DEF P, y
<1> HIDE DEF P
<1>5. n \in P
  BY <1>1, <1>3, <1>4, UpTo
<1> QED
  BY <1>2, <1>5 DEF P, n

\* The first n objects of os have keys of ks, and nothing else has changed.
Gives(old, new, os, ks, n) ==
    /\ new \in [Object -> Struct]
    /\ \A o \in Object, f \in Columns : new[o][f] = old[o][f]
    /\ \A i \in 1 .. n : \E j \in 1 .. n : os[j] = os[i] /\ new[os[i]].key = ks[j]
    /\ \A o \in Object : (\A i \in 1 .. n : os[i] # o) => new[o] = old[o]

LEMMA KeyedGives ==
  ASSUME NEW s, NEW os \in Seq(Object), NEW ks
  PROVE  (s.obj \in [Object -> Struct] /\ ks \in Seq(Keys) /\ Len(ks) = Len(os))
            => Gives(s.obj, Keyed(s, os, ks), os, ks, Len(os))
<1> DEFINE n == Len(os)
           p == [os |-> os, ks |-> ks]
           seq == [i \in 1 .. n |-> i]
<1>0. n \in Nat /\ DOMAIN os = 1 .. n /\ \A i \in 1 .. n : os[i] \in Object
  BY LenProperties, ElementOfSeq
<1>2. PICK it : Turns("keys", p, s.obj, seq, n, it) /\ Keyed(s, os, ks) = it[1 .. n]
  <2>1. Loops("keys", p, s.obj, seq, n, Keyed(s, os, ks))
    BY <1>0, KeysLoop
  <2> QED
    BY <2>1 DEF Loops
<1> SUFFICES ASSUME s.obj \in [Object -> Struct], ks \in Seq(Keys), Len(ks) = Len(os)
             PROVE  Gives(s.obj, Keyed(s, os, ks), os, ks, Len(os))
  OBVIOUS
<1>1. n \in Nat /\ (\A i \in 1 .. n : os[i] \in Object) /\ \A i \in 1 .. n : ks[i] \in Keys
  BY <1>0, LenProperties, ElementOfSeq
<1> DEFINE P == {k \in 0 .. n : Gives(s.obj, it[1 .. k], os, ks, k)}
<1> HIDE DEF n
<1>3. 0 \in P
  <2>1. 1 .. 0 = {} /\ 0 \in 0 .. n
    BY <1>1
  <2>2. it[1 .. 0] = s.obj
    BY <1>2, <2>1 DEF Turns
  <2>3. Gives(s.obj, s.obj, os, ks, 0)
    BY <2>1 DEF Gives
  <2> QED
    BY <2>1, <2>2, <2>3
<1>4. ASSUME NEW k \in 1 .. n, k - 1 \in P
      PROVE  k \in P
  <2> DEFINE x == it[1 .. (k - 1)]
             y == it[1 .. k]
             o == os[k]
  <2>1. y = [x EXCEPT ![o].key = ks[k]]
    BY <1>2 DEF Turns, Turn
  <2>2. Gives(s.obj, x, os, ks, k - 1)
    BY <1>4
  <2>3. o \in Object /\ ks[k] \in Keys /\ x \in [Object -> Struct] /\ k \in Nat
    BY <1>1, <2>2 DEF Gives
  <2>4. /\ y \in [Object -> Struct] /\ y[o].key = ks[k]
        /\ \A f \in Columns : y[o][f] = x[o][f]
        /\ \A u \in Object : u # o => y[u] = x[u]
    <3> HIDE DEF x, y, o
    <3> QED
      BY <2>1, <2>3 DEF Struct, Columns
  <2>5. k \in 1 .. k /\ \A i \in 1 .. k : i \in 1 .. (k - 1) \/ i = k
    BY <2>3
  <2>6. \A i \in 1 .. (k - 1) : i \in 1 .. k /\ i \in 1 .. n
    BY <1>1, <2>3
  <2> HIDE DEF x, y, P
  <2>7. \A u \in Object, f \in Columns : y[u][f] = s.obj[u][f]
    <3>1. \A u \in Object, f \in Columns : x[u][f] = s.obj[u][f]
      BY <2>2 DEF Gives
    <3>2. \A u \in Object, f \in Columns : y[u][f] = x[u][f]
      BY <2>4
    <3> QED
      BY <3>1, <3>2
  <2>8. ASSUME NEW i \in 1 .. k
        PROVE  \E j \in 1 .. k : os[j] = os[i] /\ y[os[i]].key = ks[j]
    <3>1. CASE os[i] = o
      BY <2>4, <2>5, <3>1
    <3>2. CASE os[i] # o
      <4>1. i \in 1 .. (k - 1) /\ os[i] \in Object
        BY <1>1, <2>5, <2>6, <3>2
      <4>2. PICK j \in 1 .. (k - 1) : os[j] = os[i] /\ x[os[i]].key = ks[j]
        BY <2>2, <4>1 DEF Gives
      <4> QED
        BY <2>4, <2>6, <3>2, <4>1, <4>2
    <3> QED
      BY <3>1, <3>2
  <2>9. \A u \in Object : (\A i \in 1 .. k : os[i] # u) => y[u] = s.obj[u]
    BY <2>2, <2>3, <2>4, <2>5, <2>6 DEF Gives
  <2>10. k \in 0 .. n
    BY <1>1
  <2> QED
    BY <2>4, <2>7, <2>8, <2>9, <2>10 DEF P, Gives, y
<1> HIDE DEF P
<1>5. n \in P
  BY <1>1, <1>3, <1>4, UpTo
<1> QED
  BY <1>2, <1>5 DEF P, n

\* One BulkCreate.
LEMMA CreateAllAdds ==
  ASSUME NEW s, Sound(s), NEW os \in Seq(Object), NEW ks, Fresh(ks, Len(os), DOMAIN s.rows)
  PROVE  LET t == CreateAll(s, os, ks)
         IN  /\ Sound(t)
             /\ t.status # "ok" => t.rows = s.rows /\ t.obj = s.obj
             /\ t.status = "ok" =>
                   /\ s.status = "ok" /\ t.value = s.value + Len(os)
                   /\ Adds(s.rows, t.rows, s.obj, os, ks, Len(os))
                   /\ Gives(s.obj, t.obj, os, ks, Len(os))
<1> DEFINE new == IF driver = "mysql" THEN InsertedOneByOne(s, os, ks)
                                      ELSE Inserted(s, os, ks)
           objs == Keyed(s, os, ks)
           v == s.value + Len(os)
           n == Len(os)
           t == CreateAll(s, os, ks)
           failed == [s EXCEPT !.status = "error"]
           done == [s EXCEPT !.rows = new, !.obj = objs, !.value = v]
<1>1. Adds(s.rows, new, s.obj, os, ks, n)
  <2>1. "rows" \in DOMAIN s /\ Function(s.rows)
    BY DEF Sound, Function
  <2> QED
    BY <2>1, InsertedAdds, OneByOneAdds
<1>2. Gives(s.obj, objs, os, ks, n)
  BY KeyedGives DEF Sound, Fresh
<1>3. t = IF s.status # "ok" THEN s ELSE IF ~Distinct(new) THEN failed ELSE done
  BY DEF CreateAll
<1> HIDE DEF new, objs, t, n, v
<1>4. n \in Nat /\ (\A i \in 1 .. n : os[i] \in Object /\ ks[i] \in Keys)
  <2>1. Len(ks) = n /\ ks \in Seq(Keys)
    BY DEF Fresh, n
  <2> QED
    BY <2>1, LenProperties, ElementOfSeq DEF n
<1>5. DOMAIN new \subseteq Keys /\ \A k \in DOMAIN new : new[k] \in Row
  <2>1. ASSUME NEW i \in 1 .. n
        PROVE  new[ks[i]] \in Row
    <3>1. s.obj[os[i]] \in Struct /\ new[ks[i]] = Copy(s.obj, os[i])
      BY <1>1, <1>4 DEF Adds, Sound
    <3> QED
      BY <3>1 DEF Copy, Row, Struct, Columns
  <2>2. ASSUME NEW k \in DOMAIN s.rows
        PROVE  new[k] \in Row /\ k \in Keys
    BY <1>1 DEF Adds, Sound
  <2>3. DOMAIN new = DOMAIN s.rows \union {ks[i] : i \in 1 .. n}
    BY <1>1 DEF Adds
  <2> QED
    BY <1>4, <2>1, <2>2, <2>3
<1>6. ASSUME s.status # "ok"
      PROVE  t = s
  BY <1>3, <1>6
<1>7. CASE s.status = "ok" /\ ~Distinct(new)
  <2>1. t = failed
    BY <1>3, <1>7
  <2>2. /\ DOMAIN failed = DOMAIN s /\ failed.rows = s.rows /\ failed.obj = s.obj
        /\ failed.status = "error"
    BY DEF Sound
  <2> HIDE DEF failed
  <2>3. Sound(t)
    BY <2>1, <2>2 DEF Sound, Statuses
  <2> QED
    BY <2>1, <2>2, <2>3 DEF t
<1>8. CASE s.status = "ok" /\ Distinct(new)
  <2>1. t = done
    BY <1>3, <1>8
  <2>2. /\ DOMAIN done = DOMAIN s /\ done.rows = new /\ done.obj = objs
        /\ done.status = "ok" /\ done.value = v
    BY <1>8 DEF Sound
  <2> HIDE DEF done
  <2>3. new \in [DOMAIN new -> Row]
    <3>1. new = [k \in DOMAIN new |-> new[k]]
      BY <1>1 DEF Adds, Function
    <3> QED
      BY <1>5, <3>1
  <2>4. Sound(t)
    BY <1>2, <1>5, <1>8, <2>1, <2>2, <2>3 DEF Sound, Gives
  <2> QED
    BY <1>1, <1>2, <1>8, <2>1, <2>2, <2>4 DEF t, v, n
<1>9. CASE s.status # "ok"
  BY <1>6, <1>9 DEF t
<1> QED
  BY <1>7, <1>8, <1>9

LEMMA BeforeIs ==
  ASSUME NEW batches, NEW os, NEW at, Splits(batches, os, at), NEW i \in 1 .. Len(batches)
  PROVE  Before(batches, i) = at[i - 1]
<1> DEFINE m == i - 1
           seq == SubSeq(batches, 1, m)
<1>1. Len(batches) \in Nat /\ \A k \in 1 .. Len(batches) : batches[k] \in Seq(Object)
  BY LenProperties, ElementOfSeq DEF Splits
<1>2. m \in Nat /\ \A k \in 1 .. m : k \in 1 .. Len(batches)
  BY <1>1
<1>3. \A k \in 1 .. m : batches[k] \in Seq(Object)
  BY <1>1, <1>2
<1> HIDE DEF m
<1>4. seq \in Seq(Seq(Object)) /\ Len(seq) = m /\ \A k \in 1 .. m : seq[k] = batches[k]
  BY <1>2, <1>3, Beginning
<1>5. DOMAIN seq = 1 .. m
  BY <1>4, LenProperties
<1>6. PICK it : Turns("lengths", <<>>, 0, seq, m, it) /\ Before(batches, i) = it[1 .. m]
  <2>1. Loops("lengths", <<>>, 0, seq, m, Before(batches, i))
    BY <1>2, <1>5, LengthsLoop DEF m
  <2> QED
    BY <2>1 DEF Loops
<1> DEFINE P == {k \in 0 .. m : it[1 .. k] = at[k]}
<1> HIDE DEF seq
<1>7. 0 \in P
  <2>1. 1 .. 0 = {} /\ 0 \in 0 .. m
    BY <1>2
  <2>2. it[1 .. 0] = 0 /\ at[0] = 0
    BY <1>6, <2>1 DEF Turns, Splits
  <2> QED
    BY <2>1, <2>2
<1>8. ASSUME NEW k \in 1 .. m, k - 1 \in P
      PROVE  k \in P
  <2>1. it[1 .. k] = it[1 .. (k - 1)] + Len(seq[k])
    BY <1>6 DEF Turns, Turn
  <2>2. it[1 .. (k - 1)] = at[k - 1]
    BY <1>8
  <2>3. k \in 1 .. Len(batches) /\ k \in 0 .. m
    BY <1>2
  <2>4. at[k] = at[k - 1] + Len(batches[k])
    BY <2>3 DEF Splits
  <2> QED
    BY <1>4, <2>1, <2>2, <2>3, <2>4
<1> HIDE DEF P
<1>9. m \in P
  BY <1>2, <1>7, <1>8, UpTo
<1> QED
  BY <1>6, <1>9 DEF P, m

LEMMA SplitBounds ==
  ASSUME NEW batches, NEW os, NEW at, Splits(batches, os, at), NEW i \in 1 .. Len(batches)
  PROVE  /\ batches[i] \in Seq(Object) /\ Len(batches[i]) \in Nat /\ Len(os) \in Nat
         /\ at[i - 1] \in Nat /\ at[i] \in Nat
         /\ at[i] = at[i - 1] + Len(batches[i]) /\ at[i] <= Len(os)
<1>1. Len(batches) \in Nat /\ batches[i] \in Seq(Object) /\ Len(os) \in Nat
  BY LenProperties, ElementOfSeq DEF Splits
<1>2. i - 1 \in 0 .. Len(batches) /\ i \in 0 .. Len(batches)
  BY <1>1
<1>3. at[i] \in 0 .. Len(os) /\ at[i - 1] \in 0 .. Len(os)
  BY <1>2 DEF Splits
<1>4. at[i] = at[i - 1] + Len(batches[i]) /\ Len(batches[i]) \in Nat
  BY <1>1, LenProperties DEF Splits
<1> QED
  BY <1>1, <1>3, <1>4

LEMMA GivenAre ==
  ASSUME NEW batches, NEW os, NEW at, Splits(batches, os, at), NEW i \in 1 .. Len(batches),
         NEW ks \in Seq(Keys), Len(ks) = Len(os)
  PROVE  LET given == Given(batches, ks, i)
         IN  /\ given \in Seq(Keys) /\ Len(given) = Len(batches[i])
             /\ \A j \in 1 .. Len(batches[i]) : given[j] = ks[at[i - 1] + j]
<1> DEFINE b == at[i - 1]
           n == Len(batches[i])
           given == Given(batches, ks, i)
<1>1. b \in Nat /\ n \in Nat /\ b + n <= Len(os) /\ Len(os) \in Nat
  BY SplitBounds
<1>2. given = SubSeq(ks, b + 1, b + n)
  BY BeforeIs DEF Given
<1> HIDE DEF b, n, given
<1>3. b + 1 \in Int /\ b + n \in Int
  BY <1>1
<1>4. \A j \in b + 1 .. b + n : ks[j] \in Keys
  <2>1. \A j \in 1 .. Len(ks) : ks[j] \in Keys
    BY ElementOfSeq
  <2> QED
    BY <1>1, <2>1
<1>5. /\ given \in Seq(Keys)
      /\ Len(given) = IF b + 1 <= b + n THEN (b + n) - (b + 1) + 1 ELSE 0
      /\ \A j \in 1 .. (b + n) - (b + 1) + 1 : given[j] = ks[b + 1 + j - 1]
  BY SMTT(60), <1>2, <1>3, <1>4, SubSeqProperties
<1>6. Len(given) = n
  BY <1>1, <1>5
<1>7. ASSUME NEW j \in 1 .. n
      PROVE  given[j] = ks[b + j]
  <2>1. b + 1 + j - 1 = b + j /\ j \in 1 .. (b + n) - (b + 1) + 1
    BY <1>1
  <2> QED
    BY <1>5, <2>1
<1> QED
  BY <1>5, <1>6, <1>7 DEF b, n, given

\* The n objects of a batch are those of os behind the first b, with their keys.
Portion(os, ks, b, batch, given, n) ==
    \A i \in 1 .. n : batch[i] = os[b + i] /\ given[i] = ks[b + i]
Alike(mid, objs, batch, n) == \A i \in 1 .. n : Copy(mid, batch[i]) = Copy(objs, batch[i])
Objects(os, n) == \A i \in 1 .. n : os[i] \in Object

\* Two batches after one another are one.
LEMMA AddsBatch ==
  ASSUME NEW old, NEW rs, NEW new, NEW objs, NEW mid, NEW os, NEW ks,
         NEW batch, NEW given, NEW b \in Nat, NEW n \in Nat,
         Portion(os, ks, b, batch, given, n),
         Alike(mid, objs, batch, n),
         Adds(old, rs, objs, os, ks, b), Adds(rs, new, mid, batch, given, n)
  PROVE  Adds(old, new, objs, os, ks, b + n)
<1> USE DEF Portion, Alike
<1>1. \A i \in 1 .. (b + n) : i \in 1 .. b \/ (i - b \in 1 .. n /\ b + (i - b) = i)
  OBVIOUS
<1>2. (\A i \in 1 .. b : i \in 1 .. (b + n)) /\ \A i \in 1 .. n : b + i \in 1 .. (b + n)
  OBVIOUS
<1>3. DOMAIN rs = DOMAIN old \union {ks[i] : i \in 1 .. b}
  BY DEF Adds
<1>4. DOMAIN new = DOMAIN rs \union {given[i] : i \in 1 .. n}
  BY DEF Adds
<1>5. DOMAIN new = DOMAIN old \union {ks[i] : i \in 1 .. (b + n)}
  <2>1. {given[i] : i \in 1 .. n} \subseteq {ks[i] : i \in 1 .. (b + n)}
    BY <1>2
  <2>2. {ks[i] : i \in 1 .. b} \subseteq {ks[i] : i \in 1 .. (b + n)}
    BY <1>2
  <2>3. ASSUME NEW i \in 1 .. (b + n)
        PROVE  ks[i] \in {ks[j] : j \in 1 .. b} \union {given[j] : j \in 1 .. n}
    <3>1. CASE i \in 1 .. b
      BY <3>1
    <3>2. CASE i - b \in 1 .. n /\ b + (i - b) = i
      <4>1. given[i - b] = ks[i]
        BY <3>2
      <4> QED
        BY <3>2, <4>1
    <3> QED
      BY <1>1, <3>1, <3>2
  <2> QED
    BY <1>3, <1>4, <2>1, <2>2, <2>3
<1>6. \A k \in DOMAIN old : new[k] = old[k]
  BY <1>3 DEF Adds
<1>7. ASSUME NEW i \in 1 .. (b + n)
      PROVE  new[ks[i]] = Copy(objs, os[i])
  <2>1. CASE i \in 1 .. b
    BY <1>3, <2>1 DEF Adds
  <2>2. CASE i - b \in 1 .. n /\ b + (i - b) = i
    <3>1. given[i - b] = ks[i] /\ batch[i - b] = os[i]
      BY <2>2
    <3>2. new[given[i - b]] = Copy(mid, batch[i - b])
      BY <2>2 DEF Adds
    <3> QED
      BY <2>2, <3>1, <3>2
  <2> QED
    BY <1>1, <2>1, <2>2
<1>8. Function(new)
  BY DEF Adds
<1> QED
  BY <1>5, <1>6, <1>7, <1>8 DEF Adds

LEMMA GivesBatch ==
  ASSUME NEW old, NEW mid, NEW new, NEW os, NEW ks,
         NEW batch, NEW given, NEW b \in Nat, NEW n \in Nat,
         Portion(os, ks, b, batch, given, n),
         Objects(os, b + n),
         Gives(old, mid, os, ks, b), Gives(mid, new, batch, given, n)
  PROVE  Gives(old, new, os, ks, b + n)
<1> USE DEF Portion, Objects
<1>1. \A i \in 1 .. (b + n) : i \in 1 .. b \/ (i - b \in 1 .. n /\ b + (i - b) = i)
  OBVIOUS
<1>2. (\A i \in 1 .. b : i \in 1 .. (b + n)) /\ \A i \in 1 .. n : b + i \in 1 .. (b + n)
  OBVIOUS
<1>3. \A o \in Object, f \in Columns : new[o][f] = old[o][f]
  <2>1. \A o \in Object, f \in Columns : mid[o][f] = old[o][f]
    BY DEF Gives
  <2>2. \A o \in Object, f \in Columns : new[o][f] = mid[o][f]
    BY DEF Gives
  <2> QED
    BY <2>1, <2>2
<1>4. ASSUME NEW i \in 1 .. (b + n)
      PROVE  \E j \in 1 .. (b + n) : os[j] = os[i] /\ new[os[i]].key = ks[j]
  <2>1. CASE \E j \in 1 .. n : batch[j] = os[i]
    <3>1. PICK j \in 1 .. n : batch[j] = os[i]
      BY <2>1
    <3>2. PICK h \in 1 .. n : batch[h] = batch[j] /\ new[batch[j]].key = given[h]
      BY DEF Gives
    <3>3. b + h \in 1 .. (b + n) /\ os[b + h] = os[i] /\ new[os[i]].key = ks[b + h]
      BY <1>2, <3>1, <3>2
    <3> QED
      BY <3>3
  <2>2. CASE ~ \E j \in 1 .. n : batch[j] = os[i]
    <3>1. new[os[i]] = mid[os[i]]
      BY <2>2 DEF Gives
    <3>2. i \in 1 .. b
      <4>1. CASE i - b \in 1 .. n /\ b + (i - b) = i
        BY <2>2, <4>1
      <4> QED
        BY <1>1, <4>1
    <3>3. PICK j \in 1 .. b : os[j] = os[i] /\ mid[os[i]].key = ks[j]
      BY <3>2 DEF Gives
    <3> QED
      BY <1>2, <3>1, <3>3
  <2> QED
    BY <2>1, <2>2
<1>5. ASSUME NEW o \in Object, \A i \in 1 .. (b + n) : os[i] # o
      PROVE  new[o] = old[o]
  <2>1. mid[o] = old[o]
    BY <1>2, <1>5 DEF Gives
  <2>2. \A i \in 1 .. n : batch[i] # o
    BY <1>2, <1>5
  <2>3. new[o] = mid[o]
    BY <2>2 DEF Gives
  <2> QED
    BY <2>1, <2>3
<1>6. new \in [Object -> Struct]
  BY DEF Gives
<1> QED
  BY <1>3, <1>4, <1>5, <1>6 DEF Gives

\* What a create has done when it has made b rows.
Made(s, b, os, ks) ==
    /\ Sound(s)
    /\ s.status = "ok" =>
          /\ s.value = b
          /\ Adds(rows, s.rows, obj, os, ks, b)
          /\ Gives(obj, s.obj, os, ks, b)

LEMMA MoreMade ==
  ASSUME NEW batches, NEW os, NEW at, Splits(batches, os, at), NEW k \in 1 .. Len(batches),
         NEW ks, Fresh(ks, Len(os), DOMAIN rows), NEW x, Made(x, at[k - 1], os, ks), NEW n
  PROVE  Made(CreateAll(Failing(x, k, n), batches[k], Given(batches, ks, k)), at[k], os, ks)
<1> DEFINE f == Failing(x, k, n)
           batch == batches[k]
           given == Given(batches, ks, k)
           y == CreateAll(f, batch, given)
           b == at[k - 1]
           l == Len(batch)
<1>1. /\ batch \in Seq(Object) /\ l \in Nat /\ Len(os) \in Nat /\ b \in Nat
      /\ at[k] = b + l /\ at[k] <= Len(os) /\ os \in Seq(Object)
  BY SplitBounds DEF Splits
<1>2. /\ \A j \in 1 .. l : batch[j] = os[b + j]
      /\ \A i \in 1 .. Len(os) : os[i] \in Object
      /\ \A j \in 1 .. l : batch[j] \in Object
  BY <1>1, ElementOfSeq DEF Splits
<1>3. given \in Seq(Keys) /\ Len(given) = l /\ \A j \in 1 .. l : given[j] = ks[b + j]
  BY GivenAre DEF Fresh
<1>4. Sound(f) /\ (f.status = "ok" => f = x)
  <2>1. Sound(x)
    BY DEF Made
  <2>2. f = x \/ f = [x EXCEPT !.status = "error"]
    BY DEF Failing
  <2>3. [x EXCEPT !.status = "error"].status = "error"
    BY <2>1 DEF Sound
  <2>4. Sound(f)
    BY <2>1, FailingSound
  <2> HIDE DEF f
  <2> QED
    BY <2>2, <2>3, <2>4
<1> HIDE DEF f, batch, given, y, b, l
<1>5. ASSUME f.status # "ok"
      PROVE  Made(y, at[k], os, ks)
  <2>1. y = f
    BY <1>5 DEF y, CreateAll
  <2> QED
    BY <1>4, <1>5, <2>1 DEF Made
<1>6. ASSUME f.status = "ok"
      PROVE  Made(y, at[k], os, ks)
  <2>1. f = x /\ x.value = b /\ Adds(rows, x.rows, obj, os, ks, b) /\ Gives(obj, x.obj, os, ks, b)
    BY <1>4, <1>6 DEF Made, b
  <2>2. Fresh(given, Len(batch), DOMAIN f.rows)
    <3>1. DOMAIN f.rows = DOMAIN rows \union {ks[i] : i \in 1 .. b}
      BY <2>1 DEF Adds
    <3>2. ASSUME NEW j \in 1 .. l
          PROVE  given[j] \notin DOMAIN f.rows
      <4>1. b + j \in 1 .. Len(os) /\ \A i \in 1 .. b : i \in 1 .. Len(os) /\ i # b + j
        BY <1>1
      <4>2. ks[b + j] \notin DOMAIN rows /\ \A i \in 1 .. b : ks[i] # ks[b + j]
        BY <4>1 DEF Fresh
      <4> QED
        BY <1>3, <3>1, <4>2
    <3>3. ASSUME NEW i \in 1 .. l, NEW j \in 1 .. l, given[i] = given[j]
          PROVE  i = j
      <4>1. b + i \in 1 .. Len(os) /\ b + j \in 1 .. Len(os)
        BY <1>1
      <4>2. ks[b + i] = ks[b + j]
        BY <1>3, <3>3
      <4>3. b + i = b + j
        BY <4>1, <4>2 DEF Fresh
      <4> QED
        BY <1>1, <4>3
    <3> QED
      BY <1>3, <3>2, <3>3 DEF Fresh, l
  <2>3. /\ Sound(y)
        /\ y.status = "ok" =>
              /\ y.value = f.value + l
              /\ Adds(f.rows, y.rows, f.obj, batch, given, l)
              /\ Gives(f.obj, y.obj, batch, given, l)
    BY <1>1, <1>4, <2>2, CreateAllAdds DEF y, l
  <2>4. ASSUME y.status = "ok"
        PROVE  /\ y.value = at[k] /\ Adds(rows, y.rows, obj, os, ks, b + l)
               /\ Gives(obj, y.obj, os, ks, b + l)
    <3>1. Alike(x.obj, obj, batch, l)
      BY <1>2, <2>1 DEF Copy, Gives, Alike
    <3>2. Adds(x.rows, y.rows, x.obj, batch, given, l) /\ Gives(x.obj, y.obj, batch, given, l)
      BY <2>1, <2>3, <2>4
    <3>3. Portion(os, ks, b, batch, given, l)
      BY <1>2, <1>3 DEF Portion
    <3>4. Adds(rows, y.rows, obj, os, ks, b + l)
      BY <1>1, <2>1, <3>1, <3>2, <3>3, AddsBatch
    <3>5. Objects(os, b + l)
      BY <1>1, <1>2 DEF Objects
    <3>6. Gives(obj, y.obj, os, ks, b + l)
      BY <1>1, <2>1, <3>2, <3>3, <3>5, GivesBatch
    <3>7. y.value = at[k]
      BY <1>1, <2>1, <2>3, <2>4
    <3> QED
      BY <3>4, <3>6, <3>7
  <2> QED
    BY <1>1, <2>3, <2>4 DEF Made
<1> QED
  BY <1>5, <1>6 DEF y, f, batch, given

\* Nothing has been done yet.
Starts(s) == Sound(s) /\ s.rows = rows /\ s.obj = obj /\ s.value = 0 /\ Function(rows)

\* One create, in batches or not.
LEMMA CreatesMake ==
  ASSUME NEW s, NEW n, NEW batches, NEW os, NEW at, Splits(batches, os, at), NEW ks
  PROVE  (Starts(s) /\ Fresh(ks, Len(os), DOMAIN rows))
            => Made(EachBatchCreated(s, n, batches, ks), Len(os), os, ks)
<1> DEFINE m == Len(batches)
           p == [n |-> n, batches |-> batches, ks |-> ks]
           seq == [i \in 1 .. m |-> i]
           last == EachBatchCreated(s, n, batches, ks)
<1>1. m \in Nat /\ DOMAIN batches = 1 .. m
  BY LenProperties DEF Splits
<1> HIDE DEF m
<1>3. PICK it : Turns("creates", p, s, seq, m, it) /\ last = it[1 .. m]
  <2>1. Loops("creates", p, s, seq, m, last)
    BY <1>1, CreatesLoop
  <2> QED
    BY <2>1 DEF Loops
<1> HIDE DEF last
<1> SUFFICES ASSUME Starts(s), Fresh(ks, Len(os), DOMAIN rows)
             PROVE  Made(last, Len(os), os, ks)
  BY DEF last
<1>2. Made(s, 0, os, ks)
  <2>1. 1 .. 0 = {}
    OBVIOUS
  <2>2. Adds(rows, s.rows, obj, os, ks, 0)
    BY <2>1 DEF Adds, Starts
  <2>3. Gives(obj, s.obj, os, ks, 0)
    BY <2>1 DEF Gives, Starts, Sound
  <2> QED
    BY <2>2, <2>3 DEF Made, Starts
<1> DEFINE P == {k \in 0 .. m : Made(it[1 .. k], at[k], os, ks)}
<1>4. 0 \in P
  <2>1. 1 .. 0 = {} /\ 0 \in 0 .. m
    BY <1>1
  <2>2. at[0] = 0
    BY DEF Splits
  <2> QED
    BY <1>2, <1>3, <2>1, <2>2 DEF Turns
<1>5. ASSUME NEW k \in 1 .. m, k - 1 \in P
      PROVE  k \in P
  <2> DEFINE x == it[1 .. (k - 1)]
             y == it[1 .. k]
  <2>1. y = CreateAll(Failing(x, k, n), batches[k], Given(batches, ks, k))
    BY <1>3 DEF Turns, Turn
  <2>2. Made(x, at[k - 1], os, ks) /\ k \in 1 .. Len(batches) /\ k \in 0 .. m
    BY <1>1, <1>5 DEF m
  <2> HIDE DEF x, y
  <2>3. Made(y, at[k], os, ks)
    BY <2>1, <2>2, MoreMade
  <2> QED
    BY <2>2, <2>3 DEF y
<1> HIDE DEF P
<1>6. m \in P
  BY <1>1, <1>4, <1>5, UpTo
<1>7. at[m] = Len(os)
  BY DEF Splits, m
<1> QED
  BY <1>3, <1>6, <1>7 DEF P

-----------------------------------------------------------------------------
(* The types of querysets. *)

Shaped(r) ==
    /\ DOMAIN r = Fields
    /\ r.limit \in Nat /\ r.offset \in Nat /\ r.order \in Orders
    /\ r.items \in Seq(Item) /\ r.joins \in Seq(Relation)
    /\ r.annotated \in BOOLEAN /\ r.holder \in BOOLEAN /\ r.useCache \in BOOLEAN
    /\ r.cached = None \/ r.cached.kind \in Cached
AllShaped == \A q \in QS : Assigned(q) => Shaped(qs[q])

\* Batches are never empty.
LEMMA SizeIs ==
  ASSUME NEW r, Shaped(r)
  PROVE  Size(r) \in Nat \ {0}
BY QueriesAssumption DEF Size, Shaped

LEMMA JoinsLoop ==
  ASSUME NEW joins, NEW items, NEW n \in Nat, DOMAIN items = 1 .. n
  PROVE  Loops("joins", <<>>, joins, items, n, AddJoins(joins, items))
<1> DEFINE D == DOMAIN items
           turn(x, c) == IF c.at = None \/ c.at \in ToSet(x) THEN x ELSE Append(x, c.at)
           it == CHOOSE g : g = [a \in SUBSET D |->
                      IF a = {} THEN joins ELSE turn(g[a \ {Max(a)}], items[Max(a)])]
<1>1. AddJoins(joins, items) = it[D]
  BY DEF AddJoins, FoldLeft, MapThenFoldSet
<1>2. \A x, c : Turn("joins", <<>>, x, c) = turn(x, c)
  BY DEF Turn
<1>3. PICK g : Runs("joins", <<>>, joins, items, n, g)
  BY LoopRuns
<1> HIDE DEF turn
<1>4. g = [a \in SUBSET D |->
             IF a = {} THEN joins ELSE turn(g[a \ {Max(a)}], items[Max(a)])]
  BY <1>2, <1>3 DEF Runs
<1>5. it = [a \in SUBSET D |->
             IF a = {} THEN joins ELSE turn(it[a \ {Max(a)}], items[Max(a)])]
  BY <1>4
<1> HIDE DEF it
<1>6. Runs("joins", <<>>, joins, items, n, it)
  BY <1>2, <1>5 DEF Runs
<1>7. Turns("joins", <<>>, joins, items, n, it)
  BY <1>6, TurnsOf
<1> QED
  BY <1>1, <1>7 DEF Loops

LEMMA JoinsAre ==
  ASSUME NEW joins \in Seq(Relation), NEW items \in Seq(Item)
  PROVE  AddJoins(joins, items) \in Seq(Relation)
<1> DEFINE n == Len(items)
<1>1. n \in Nat /\ DOMAIN items = 1 .. n /\ \A i \in 1 .. n : items[i] \in Item
  BY LenProperties, ElementOfSeq
<1> HIDE DEF n
<1>2. PICK it : Turns("joins", <<>>, joins, items, n, it) /\ AddJoins(joins, items) = it[1 .. n]
  <2>1. Loops("joins", <<>>, joins, items, n, AddJoins(joins, items))
    BY <1>1, JoinsLoop
  <2> QED
    BY <2>1 DEF Loops
<1> DEFINE P == {k \in 0 .. n : it[1 .. k] \in Seq(Relation)}
<1>3. 0 \in P
  <2>1. 1 .. 0 = {} /\ 0 \in 0 .. n
    BY <1>1
  <2> QED
    BY <1>2, <2>1 DEF Turns
<1>4. ASSUME NEW k \in 1 .. n, k - 1 \in P
      PROVE  k \in P
  <2> DEFINE x == it[1 .. (k - 1)]
             c == items[k]
  <2>1. /\ it[1 .. k] = IF c.at = None \/ c.at \in ToSet(x) THEN x ELSE Append(x, c.at)
        /\ x \in Seq(Relation) /\ k \in 0 .. n
    BY <1>1, <1>2, <1>4 DEF Turns, Turn
  <2>2. c.at \in Relation \/ c.at = None
    BY <1>1 DEF Item, Place
  <2> HIDE DEF x, c
  <2>3. c.at \in Relation => Append(x, c.at) \in Seq(Relation)
    BY <2>1, AppendProperties
  <2>4. it[1 .. k] \in Seq(Relation)
    BY <2>1, <2>2, <2>3
  <2> QED
    BY <2>1, <2>4
<1> HIDE DEF P
<1>5. n \in P
  BY <1>1, <1>3, <1>4, UpTo
<1> QED
  BY <1>2, <1>5 DEF P

LEMMA SelectShaped ==
  ASSUME NEW r, NEW items \in Seq(Item), Shaped(r)
  PROVE  Shaped(SelectOn(r, items))
<1> DEFINE is == IF r.annotated /\ Everything \in ToSet(items)
                 THEN Append(items, Computed) ELSE items
           js == AddJoins(r.joins, items)
<1>1. Computed \in Item
  BY DEF Computed, Item, Place
<1>2. is \in Seq(Item)
  BY <1>1, AppendProperties
<1>3. js \in Seq(Relation)
  BY JoinsAre DEF Shaped
<1>4. SelectOn(r, items) = [r EXCEPT !.items = is, !.joins = js]
  BY DEF SelectOn
<1> HIDE DEF is, js
<1> QED
  BY <1>2, <1>3, <1>4 DEF Shaped, Fields

LEMMA AnnotateShaped ==
  ASSUME NEW r, Shaped(r)
  PROVE  Shaped(AnnotateOn(r))
<1> DEFINE is == IF r.holder THEN r.items ELSE Append(r.items, Computed)
<1>1. Computed \in Item /\ r.items \in Seq(Item)
  BY DEF Computed, Item, Place, Shaped
<1>2. is \in Seq(Item)
  BY <1>1, AppendProperties
<1>3. AnnotateOn(r) = [r EXCEPT !.annotated = TRUE, !.holder = TRUE, !.items = is]
  BY DEF AnnotateOn
<1> HIDE DEF is
<1> QED
  BY <1>2, <1>3 DEF Shaped, Fields

LEMMA KeptShaped ==
  ASSUME NEW h, NEW r, NEW kind \in Cached, NEW value, Shaped(r)
  PROVE  Shaped(Kept(h, r, kind, value))
<1> DEFINE c == [kind |-> kind, value |-> value, asked |-> Asked(h, r)]
<1>1. Kept(h, r, kind, value) = r \/ Kept(h, r, kind, value) = [r EXCEPT !.cached = c]
  BY DEF Kept
<1>2. c.kind = kind
  OBVIOUS
<1> HIDE DEF c
<1> QED
  BY <1>1, <1>2 DEF Shaped, Fields

LEMMA CloneShaped ==
  ASSUME AllShaped, NEW q \in QS, Assigned(q)
  PROVE  Shaped(Clone(q).set)
<1> DEFINE w == Copied(heap, qs[q].where)
           r == [qs[q] EXCEPT !.where = w.where, !.cached = None, !.holder = FALSE]
<1>1. Clone(q).set = r
  BY DEF Clone
<1> HIDE DEF w
<1> QED
  BY <1>1 DEF AllShaped, Shaped, Fields

LEMMA EverythingIs == <<Everything>> \in Seq(Item)
BY DEF Everything, Item, Place

LEMMA NoItems == <<>> \in Seq(Item)
OBVIOUS

LEMMA PreparedShaped ==
  ASSUME AllShaped, NEW q \in QS, Assigned(q), NEW items \in Seq(Item)
  PROVE  Shaped(Prepared(q, items).set)
<1> DEFINE k == Clone(q)
           is == IF items # <<>> THEN items ELSE <<Everything>>
           s == SelectOn(k.set, is)
           p == Prepared(q, items)
<1>1. Shaped(s) /\ Shaped(qs[q])
  BY CloneShaped, SelectShaped, EverythingIs DEF AllShaped
<1>2. p = [heap |-> k.heap, set |-> s] \/ p = [heap |-> heap, set |-> qs[q]]
  BY DEF Prepared, Clone
<1> HIDE DEF k, s, p
<1>3. p.set = s \/ p.set = qs[q]
  BY <1>2
<1> QED
  BY <1>1, <1>3 DEF p

LEMMA LimitedShaped ==
  ASSUME AllShaped, NEW q \in QS, Assigned(q), NEW n \in Nat, NEW order \in Orders
  PROVE  Shaped(Limited(q, n, order).set)
<1> DEFINE k == Clone(q)
           r == [k.set EXCEPT !.limit = n, !.order = order]
           s == SelectOn(r, <<Everything>>)
<1>1. Shaped(k.set)
  BY CloneShaped
<1> HIDE DEF k
<1>2. Shaped(r)
  BY <1>1 DEF Shaped, Fields
<1> HIDE DEF r
<1>3. Shaped(s)
  BY <1>2, SelectShaped, EverythingIs
<1>4. Limited(q, n, order).set = IF r.items = <<>> THEN s ELSE r
  BY DEF Limited, k, r
<1> QED
  BY <1>2, <1>3, <1>4

LEMMA AssignShaped ==
  ASSUME DOMAIN qs = QS, AllShaped, NEW q \in QS, NEW r, NEW h, Shaped(r), Assign(q, r, h)
  PROVE  AllShaped'
<1>1. qs'[q] = r /\ \A p \in QS : p # q => qs'[p] = qs[p]
  BY DEF Assign
<1>2. ASSUME NEW p \in QS, qs'[p] # None PROVE Shaped(qs'[p])
  BY <1>1, <1>2 DEF AllShaped, Assigned
<1> QED
  BY <1>2 DEF AllShaped, Assigned, Shaped

LEMMA MakesShaped ==
  ASSUME DOMAIN qs = QS, AllShaped, NEW q \in QS, NEW d \in QS, Makes(q, d)
  PROVE  AllShaped'
<1> DEFINE s == Clone(q).set
<1>0. Assigned(q)
  BY DEF Makes, Limit, Offset, OrderBy, Backwards, Select, Annotate, Filter, Make, Assigned
<1>1. Shaped(s)
  BY <1>0, CloneShaped
<1>2. ASSUME NEW r, Shaped(r), Make(q, d, r) PROVE AllShaped'
  BY <1>2, AssignShaped DEF Make
<1> HIDE DEF s
<1>3. /\ \A n \in Nat : Shaped([s EXCEPT !.limit = n])
      /\ \A n \in Nat : Shaped([s EXCEPT !.offset = n])
      /\ \A o \in Orders : Shaped([s EXCEPT !.order = o])
      /\ \A w : Shaped([s EXCEPT !.where = w])
  BY <1>1 DEF Shaped, Fields
<1>4. ASSUME NEW n \in Limits, Limit(q, d, n) \/ Offset(q, d, n) PROVE AllShaped'
  BY <1>2, <1>3, <1>4, QueriesAssumption DEF Limit, Offset, s
<1>5. ASSUME NEW o \in {"asc", "desc"}, OrderBy(q, d, o) PROVE AllShaped'
  BY <1>2, <1>3, <1>5 DEF OrderBy, s, Orders
<1>6. ASSUME Backwards(q, d) PROVE AllShaped'
  <2>1. s.order \in Orders /\ Flipped(s.order) \in Orders
    BY <1>1 DEF Shaped, Flipped, Orders
  <2>2. [s EXCEPT !.order = Flipped(@)] = [s EXCEPT !.order = Flipped(s.order)]
    OBVIOUS
  <2>3. Make(q, d, [s EXCEPT !.order = Flipped(@)])
    BY <1>6 DEF Backwards, s
  <2> QED
    BY <1>2, <1>3, <2>1, <2>2, <2>3
<1>7. ASSUME NEW items \in Selections, Select(q, d, items) PROVE AllShaped'
  BY <1>1, <1>2, <1>7, SelectShaped, QueriesAssumption DEF Select, s
<1>8. ASSUME Annotate(q, d) PROVE AllShaped'
  BY <1>1, <1>2, <1>8, AnnotateShaped DEF Annotate, s
<1>9. ASSUME NEW c, Filter(q, d, c) PROVE AllShaped'
  <2> DEFINE w == Push(heap, qs[q].where, c)
             r == [s EXCEPT !.where = w.where]
  <2>1. Assign(d, r, w.heap)
    BY <1>9 DEF Filter, s
  <2> HIDE DEF w
  <2>2. Shaped(r)
    BY <1>3
  <2> QED
    BY <2>1, <2>2, AssignShaped
<1> QED
  BY <1>4, <1>5, <1>6, <1>7, <1>8, <1>9 DEF Makes

LEMMA ScopeShaped ==
  ASSUME DOMAIN qs = QS, AllShaped, NEW q \in QS, NEW c, Scope(q, c)
  PROVE  AllShaped'
<1> DEFINE k == Clone(q)
           w == Push(k.heap, k.set.where, c)
           r == [k.set EXCEPT !.where = w.where]
<1>1. Shaped(k.set)
  BY CloneShaped DEF Scope, Assigned
<1>2. Assign(q, r, w.heap)
  BY DEF Scope
<1> HIDE DEF k, w
<1>3. Shaped(r)
  BY <1>1 DEF Shaped, Fields
<1> QED
  BY <1>2, <1>3, AssignShaped

LEMMA NothingShaped ==
  ASSUME AllShaped, UNCHANGED qs
  PROVE  AllShaped'
BY DEF AllShaped, Assigned, Shaped

LEMMA ReadsShaped ==
  ASSUME DOMAIN qs = QS, AllShaped, NEW q \in QS, Reads(q)
  PROVE  AllShaped'
<1>1. ASSUME NEW op, NEW kind, FromCache(op, q, kind) PROVE AllShaped'
  BY <1>1, NothingShaped DEF FromCache
<1>2. ASSUME All(q) PROVE AllShaped'
  <2> DEFINE p == Prepared(q, <<>>)
  <2>1. Assigned(q) /\ Assign(q, p.set, p.heap)
    BY <1>2 DEF All, Assigned
  <2>2. Shaped(p.set)
    BY <2>1, NoItems, PreparedShaped
  <2> QED
    BY <2>1, <2>2, AssignShaped
<1>3. ASSUME Get(q) PROVE AllShaped'
  <2> DEFINE p == Limited(q, GetLimit, qs[q].order)
  <2>1. Assigned(q)
    BY <1>3 DEF Get, Assigned
  <2>2. Shaped(p.set)
    BY <2>1, LimitedShaped, QueriesAssumption DEF AllShaped, Shaped
  <2>3. \E r : /\ Assign(q, r, p.heap)
               /\ r = p.set \/ \E v : r = Kept(p.heap, p.set, "row", v)
    BY <1>3 DEF Get
  <2> HIDE DEF p
  <2> QED
    BY <2>2, <2>3, KeptShaped, AssignShaped DEF Cached
<1>4. ASSUME NEW op, NEW order \in Orders, FirstOf(op, q, order) PROVE AllShaped'
  <2> DEFINE p == Limited(q, 1, order)
  <2>1. Assigned(q) /\ Assign(q, p.set, p.heap)
    BY <1>4 DEF FirstOf, Assigned
  <2>2. Shaped(p.set)
    BY <2>1, LimitedShaped
  <2> QED
    BY <2>1, <2>2, AssignShaped
<1>5. ASSUME NEW kind \in {"values", "list"}, NEW items \in Selections \union {<<>>},
             Values(q, kind, items) PROVE AllShaped'
  <2> DEFINE p == Prepared(q, items)
  <2>1. Assigned(q)
    BY <1>5 DEF Values, Assigned
  <2>2. Shaped(p.set)
    BY <2>1, NoItems, PreparedShaped, QueriesAssumption
  <2>3. \E r : /\ Assign(q, r, p.heap)
               /\ r = p.set \/ \E v : r = Kept(p.heap, p.set, kind, v)
    BY <1>5 DEF Values
  <2> HIDE DEF p
  <2> QED
    BY <2>2, <2>3, KeptShaped, AssignShaped DEF Cached
<1>6. ASSUME Aggregate(q) PROVE AllShaped'
  <2> DEFINE e == [qs[q] EXCEPT !.items = <<>>]
             s == AnnotateOn(e)
  <2>1. Shaped(qs[q])
    BY <1>6 DEF Aggregate, AllShaped, Assigned
  <2>2. Shaped(e)
    BY <2>1, NoItems DEF Shaped, Fields
  <2>3. Shaped(s)
    BY <2>2, AnnotateShaped
  <2>4. \E r : /\ Assign(q, r, heap)
               /\ r = s \/ \E v : r = Kept(heap, s, "map", v)
    BY <1>6 DEF Aggregate
  <2> HIDE DEF e, s
  <2> QED
    BY <2>3, <2>4, KeptShaped, AssignShaped DEF Cached
<1>7. ASSUME Count(q) \/ Exists(q) PROVE AllShaped'
  BY <1>7, NothingShaped DEF Count, Exists, Counts
<1>8. ASSUME GetFirst(q) \/ GetLast(q) PROVE AllShaped'
  <2>1. qs[q].order \in Orders /\ Flipped(qs[q].order) \in Orders
    BY <1>8 DEF GetFirst, GetLast, AllShaped, Assigned, Shaped, Flipped, Orders
  <2> QED
    BY <1>4, <1>8, <2>1 DEF GetFirst, GetLast
<1> QED
  BY <1>1, <1>2, <1>3, <1>5, <1>6, <1>7, <1>8 DEF Reads, Cachings

LEMMA DeletesShaped ==
  ASSUME DOMAIN qs = QS, AllShaped, NEW q \in QS, Writes(q)
  PROVE  AllShaped'
<1>1. ASSUME NEW objs, Delete(q, objs) PROVE AllShaped'
  <2> DEFINE w == Narrowed(q, objs)
             r == [qs[q] EXCEPT !.where = w.where]
  <2>1. Assign(q, r, w.heap) /\ Shaped(qs[q])
    BY <1>1 DEF Delete, AllShaped, Assigned
  <2> HIDE DEF w
  <2>2. Shaped(r)
    BY <2>1 DEF Shaped, Fields
  <2> QED
    BY <2>1, <2>2, AssignShaped
<1>2. ASSUME NEW k \in Keys, GetOrCreate(q, k) PROVE AllShaped'
  <2>1. CASE UNCHANGED qs
    BY <2>1, NothingShaped
  <2>2. CASE ~UNCHANGED qs
    <3> DEFINE l == Limited(q, GetLimit, qs[q].order)
               r == [l.set EXCEPT !.useCache = FALSE]
               p == [l EXCEPT !.set.useCache = FALSE]
    <3>1. Assigned(q)
      BY <1>2 DEF GetOrCreate, Assigned
    <3>2. Shaped(l.set)
      BY <3>1, LimitedShaped, QueriesAssumption DEF AllShaped, Shaped
    <3>3. l = [heap |-> l.heap, set |-> l.set]
      BY DEF Limited
    <3>4. p.set = r
      BY <3>3
    <3>5. Assign(q, p.set, p.heap)
      BY <1>2, <2>2 DEF GetOrCreate
    <3> HIDE DEF p, l
    <3>6. Shaped(r)
      BY <3>2 DEF Shaped, Fields
    <3> QED
      BY <3>4, <3>5, <3>6, AssignShaped
  <2> QED
    BY <2>1, <2>2
<1> QED
  BY <1>1, <1>2 DEF Writes

LEMMA CallsShaped ==
  ASSUME DOMAIN qs = QS, AllShaped, Next
  PROVE  AllShaped'
BY MakesShaped, ScopeShaped, ReadsShaped, DeletesShaped DEF Next

-----------------------------------------------------------------------------
(* The inductive invariant: the querysets' own, the types of what else is   *)
(* in a queryset (its limit is the size of its batches), and those of the   *)
(* rows and of the objects.                                                 *)

WInv ==
    /\ IInv
    /\ AllShaped
    /\ RowsOK
    /\ db = [roots |-> db.roots, link |-> db.link]

\* A unique column of no row has a value left.
LEMMA ValueLeft ==
  ASSUME RowsOK, NEW k \in Keys \ db.roots
  PROVE  \E v \in Val : \A j \in db.roots : rows[j].unique # v
<1> DEFINE f == [j \in db.roots |-> rows[j].unique]
           S == {rows[j].unique : j \in db.roots}
<1>1. IsFiniteSet(Keys) /\ db.roots \in SUBSET Keys /\ db.roots # Keys
  BY WritesAssumption DEF RowsOK
<1>2. IsFiniteSet(db.roots) /\ Cardinality(db.roots) < Cardinality(Keys)
  <2>1. /\ IsFiniteSet(db.roots) /\ Cardinality(db.roots) <= Cardinality(Keys)
        /\ Cardinality(Keys) = Cardinality(db.roots) => Keys = db.roots
    BY <1>1, FS_Subset
  <2>2. Cardinality(db.roots) \in Nat /\ Cardinality(Keys) \in Nat
    BY <1>1, <2>1, FS_CardinalityType
  <2> QED
    BY <1>1, <2>1, <2>2
<1>3. f \in Surjection(db.roots, S)
  BY DEF Surjection
<1>4. IsFiniteSet(S) /\ Cardinality(S) <= Cardinality(db.roots)
  BY <1>2, <1>3, FS_Surjection
<1>5. S \in SUBSET Val
  BY DEF RowsOK, Row, Columns
<1>6. Cardinality(S) < Cardinality(Keys)
  <2>1. /\ Cardinality(S) \in Nat /\ Cardinality(db.roots) \in Nat
        /\ Cardinality(Keys) \in Nat
    BY <1>1, <1>2, <1>4, FS_CardinalityType
  <2> QED
    BY <1>2, <1>4, <2>1
<1>7. S # Val
  BY <1>4, <1>5, <1>6, WritesAssumption
<1> QED
  BY <1>5, <1>7

\* The rows follow the calls of module QuerySets.
LEMMA FollowKeeps ==
  ASSUME WInv, Next, Follow
  PROVE  WInv'
<1> DEFINE made == [unique |-> CHOOSE v \in Val : \A j \in db.roots : rows[j].unique # v,
                    plain |-> 0]
           new == [k \in db'.roots |-> IF k \in db.roots THEN rows[k] ELSE made]
<1>1. IInv' /\ AllShaped'
  BY StepKeeps, CallsShaped DEF WInv, IInv
<1>2. rows' = new /\ obj' = obj /\ driver' = driver
  BY DEF Follow
<1>3. /\ db' = [roots |-> db'.roots, link |-> db'.link]
      /\ \/ db'.roots \subseteq db.roots
         \/ \E k \in Keys \ db.roots : db'.roots = db.roots \union {k}
  <2>1. \/ db' = db
        \/ \E gone : db' = [db EXCEPT !.roots = @ \ gone]
        \/ \E k \in Keys \ db.roots : db' = [db EXCEPT !.roots = @ \union {k}]
    BY CallsAnswer
  <2>2. db = [roots |-> db.roots, link |-> db.link]
    BY DEF WInv
  <2>3. CASE db' = db
    BY <2>2, <2>3
  <2>4. ASSUME NEW gone, db' = [db EXCEPT !.roots = @ \ gone]
        PROVE  /\ db' = [roots |-> db'.roots, link |-> db'.link]
               /\ db'.roots \subseteq db.roots
    BY <2>2, <2>4
  <2>5. ASSUME NEW k \in Keys \ db.roots, db' = [db EXCEPT !.roots = @ \union {k}]
        PROVE  /\ db' = [roots |-> db'.roots, link |-> db'.link]
               /\ db'.roots = db.roots \union {k}
    BY <2>2, <2>5
  <2> QED
    BY <2>1, <2>3, <2>4, <2>5
<1>4. /\ DOMAIN rows = db.roots /\ db.roots \subseteq Keys
      /\ \A k \in DOMAIN rows : rows[k] \in Row
      /\ Distinct(rows) /\ driver \in Drivers /\ obj \in [Object -> Struct]
  BY DEF WInv, RowsOK
<1>5. ASSUME NEW k \in Keys \ db.roots
      PROVE  made \in Row /\ \A j \in db.roots : rows[j].unique # made.unique
  <2> DEFINE v == CHOOSE x \in Val : \A j \in db.roots : rows[j].unique # x
  <2>1. v \in Val /\ \A j \in db.roots : rows[j].unique # v
    BY ValueLeft DEF WInv
  <2>2. made = [unique |-> v, plain |-> 0]
    OBVIOUS
  <2> HIDE DEF made, v
  <2>3. made \in Row /\ made.unique = v
    BY <2>1, <2>2, WritesAssumption DEF Row, Columns
  <2> QED
    BY <2>1, <2>3
<1> HIDE DEF made
<1>6. RowsOK'
  <2>1. CASE db'.roots \subseteq db.roots
    <3>1. \A k \in db'.roots : new[k] = rows[k]
      BY <2>1
    <3>2. new \in [db'.roots -> Row]
      BY <1>4, <2>1, <3>1
    <3> HIDE DEF new
    <3> QED
      BY <1>2, <1>4, <2>1, <3>1, <3>2 DEF RowsOK, Distinct, Row, Struct
  <2>2. ASSUME NEW k \in Keys \ db.roots, db'.roots = db.roots \union {k}
        PROVE  RowsOK'
    <3>1. /\ DOMAIN new = db.roots \union {k} /\ new[k] = made
          /\ \A j \in db.roots : new[j] = rows[j]
      BY <2>2
    <3>2. made \in Row /\ \A j \in db.roots : rows[j].unique # made.unique
      BY <1>5
    <3> HIDE DEF new
    <3>3. new \in [db'.roots -> Row]
      <4>1. \A j \in DOMAIN new : new[j] \in Row
        BY <1>4, <3>1, <3>2
      <4> QED
        BY <2>2, <3>1, <4>1 DEF new
    <3>4. Distinct(new)
      BY <1>4, <3>1, <3>2 DEF Distinct
    <3> QED
      BY <1>2, <1>4, <2>2, <3>1, <3>3, <3>4 DEF RowsOK, Distinct, Row, Struct
  <2> QED
    BY <1>3, <2>1, <2>2
<1> QED
  BY <1>1, <1>3, <1>6 DEF WInv

\* What a call tells after sound work.
LEMMA ToldKeeps ==
  ASSUME WInv, NEW s, Sound(s), NEW op, NEW q, NEW status, NEW os, NEW e,
         Told(op, q, s, status, os, e)
  PROVE  WInv'
<1>1. IInv' /\ AllShaped'
  BY NothingKeeps, NothingShaped DEF WInv, Told
<1>2. db' = [roots |-> DOMAIN rows', link |-> db.link]
  BY DEF Told, WInv
<1>3. /\ rows' = s.rows \/ rows' = rows
      /\ obj' = s.obj /\ driver' = driver
  BY DEF Told, Committed
<1>4. RowsOK'
  <2>1. DOMAIN rows' = db'.roots
    BY <1>2
  <2>2. /\ DOMAIN rows' \subseteq Keys /\ rows' \in [DOMAIN rows' -> Row]
        /\ Distinct(rows')
    BY <1>3 DEF Sound, WInv, RowsOK
  <2>3. driver' \in Drivers /\ obj' \in [Object -> Struct]
    BY <1>3 DEF Sound, WInv, RowsOK
  <2> QED
    BY <2>1, <2>2, <2>3 DEF RowsOK, Distinct, Row, Struct
<1> QED
  BY <1>1, <1>2, <1>4 DEF WInv

LEMMA BegunSound ==
  ASSUME RowsOK
  PROVE  /\ Starts(Begun) /\ Begun.status = "ok"
         /\ \A v \in Statuses : Sound([Begun EXCEPT !.status = v])
<1>1. rows \in [DOMAIN rows -> Row] /\ DOMAIN rows \subseteq Keys
  BY DEF RowsOK
<1>2. "ok" \in Statuses
  BY DEF Statuses
<1> QED
  BY <1>1, <1>2 DEF Begun, Sound, RowsOK, Starts, Function

-----------------------------------------------------------------------------
(* What an update without conditions stores. *)

Put(row, o, r, e, f) ==
    IF f \notin Chosen(r, o) THEN row[f]
    ELSE IF f = e THEN Evaluated(row[f]) ELSE obj[o][f]

\* From rows old to rows new the first n objects of os have been put, those
\* whose key no other has at least, and nothing else has changed.
Puts(old, new, r, e, os, n) ==
    /\ DOMAIN new = DOMAIN old
    /\ \A k \in DOMAIN old : (\A j \in 1 .. n : obj[os[j]].key # k) => new[k] = old[k]
    /\ \A i \in 1 .. n :
          (/\ obj[os[i]].key \in DOMAIN old
           /\ \A j \in 1 .. n : obj[os[j]].key = obj[os[i]].key => j = i)
              => \A f \in Columns :
                    new[obj[os[i]].key][f] = Put(old[obj[os[i]].key], os[i], r, e, f)

\* The n objects of a batch are those of os behind the first b.
Comes(os, b, batch, n) == \A i \in 1 .. n : batch[i] = os[b + i]

LEMMA PutsBatch ==
  ASSUME NEW old, NEW mid, NEW new, NEW r, NEW e, NEW os, NEW batch,
         NEW b \in Nat, NEW n \in Nat, Comes(os, b, batch, n),
         Puts(old, mid, r, e, os, b), Puts(mid, new, r, e, batch, n)
  PROVE  Puts(old, new, r, e, os, b + n)
<1> DEFINE key(i) == obj[os[i]].key
<1>1. \A i \in 1 .. (b + n) : i \in 1 .. b \/ (i - b \in 1 .. n /\ b + (i - b) = i)
  OBVIOUS
<1>2. /\ \A i \in 1 .. b : i \in 1 .. (b + n)
      /\ \A i \in 1 .. n : /\ b + i \in 1 .. (b + n) /\ b + i \notin 1 .. b
                           /\ batch[i] = os[b + i]
  BY DEF Comes
<1>3. DOMAIN mid = DOMAIN old /\ DOMAIN new = DOMAIN old
  BY DEF Puts
<1>4. ASSUME NEW k \in DOMAIN old, \A j \in 1 .. (b + n) : key(j) # k
      PROVE  new[k] = old[k]
  <2>1. mid[k] = old[k]
    BY <1>2, <1>4 DEF Puts
  <2>2. \A j \in 1 .. n : obj[batch[j]].key # k
    BY <1>2, <1>4
  <2> QED
    BY <1>3, <2>1, <2>2 DEF Puts
<1>5. ASSUME NEW i \in 1 .. (b + n), key(i) \in DOMAIN old,
             \A j \in 1 .. (b + n) : key(j) = key(i) => j = i,
             NEW f \in Columns
      PROVE  new[key(i)][f] = Put(old[key(i)], os[i], r, e, f)
  <2>1. CASE i \in 1 .. b
    <3>1. mid[key(i)][f] = Put(old[key(i)], os[i], r, e, f)
      BY <1>2, <1>5, <2>1 DEF Puts
    <3>2. \A j \in 1 .. n : obj[batch[j]].key # key(i)
      BY <1>2, <1>5, <2>1
    <3>3. new[key(i)] = mid[key(i)]
      BY <1>3, <1>5, <3>2 DEF Puts
    <3> QED
      BY <3>1, <3>3
  <2>2. CASE i \notin 1 .. b
    <3> DEFINE h == i - b
    <3>1. h \in 1 .. n /\ batch[h] = os[i] /\ b + h = i
      BY <1>1, <1>2, <2>2
    <3> HIDE DEF h
    <3>2. \A j \in 1 .. b : key(j) # key(i)
      BY <1>2, <1>5, <2>2
    <3>3. mid[key(i)] = old[key(i)]
      BY <1>5, <3>2 DEF Puts
    <3>4. \A j \in 1 .. n : obj[batch[j]].key = obj[batch[h]].key => j = h
      <4>1. ASSUME NEW j \in 1 .. n, obj[batch[j]].key = obj[batch[h]].key
            PROVE  j = h
        <5>1. b + j = i
          BY <1>2, <1>5, <3>1, <4>1
        <5> QED
          BY <3>1, <5>1
      <4> QED
        BY <4>1
    <3>5. new[obj[batch[h]].key][f] = Put(mid[obj[batch[h]].key], batch[h], r, e, f)
      BY <1>3, <1>5, <3>1, <3>4 DEF Puts
    <3> QED
      BY <3>1, <3>3, <3>5
  <2> QED
    BY <2>1, <2>2
<1> QED
  BY <1>3, <1>4, <1>5 DEF Puts

\* The counts of the statements for the first n objects.
Tells(counts, os, n) ==
    /\ counts \in Seq(Nat) /\ Len(counts) = n
    /\ \A i \in 1 .. n : counts[i] # 0 => obj[os[i]].key \in db.roots

LEMMA UpdateRowPuts ==
  ASSUME RowsOK, NEW s, Sound(s), DOMAIN s.rows = db.roots, NEW r, NEW o \in Object, NEW e,
         Cells(heap, r.where) = <<>>, Writable(r) \subseteq Columns
  PROVE  LET t == UpdateRow(s, r, o, e)
         IN  t.status = "ok" =>
                /\ s.status = "ok" /\ Puts(s.rows, t.rows, r, e, <<o>>, 1)
                /\ \E c \in Nat : /\ t.counts = Append(s.counts, c)
                                  /\ c # 0 => obj[o].key \in db.roots
<1> DEFINE columns == Chosen(r, o)
           hit == Hit(r, o)
           new == [k \in DOMAIN s.rows |->
                      IF k \in hit THEN Set(s.rows[k], o, columns, e) ELSE s.rows[k]]
           changed == {k \in hit : new[k] # s.rows[k]}
           count == Cardinality(IF driver = "mysql" THEN changed ELSE hit)
           t == UpdateRow(s, r, o, e)
           os == <<o>>
<1>1. hit = {obj[o].key} \intersect db.roots
  BY DEF Hit
<1>2. t = IF s.status # "ok" THEN s
          ELSE IF columns = {} \/ r.joins # <<>> \/ ~Distinct(new)
          THEN [s EXCEPT !.status = "error"]
          ELSE [s EXCEPT !.rows = new, !.counts = Append(@, count)]
  BY DEF UpdateRow
<1>3. count \in Nat /\ (count # 0 => obj[o].key \in db.roots)
  <2> DEFINE S == IF driver = "mysql" THEN changed ELSE hit
  <2>0. changed \subseteq hit
    OBVIOUS
  <2> HIDE DEF changed, hit
  <2>1. S \subseteq {obj[o].key} /\ S \subseteq db.roots
    BY <1>1, <2>0
  <2> HIDE DEF S
  <2>2. IsFiniteSet(S) /\ Cardinality(S) \in Nat
    <3> DEFINE one == {obj[o].key}
    <3>1. IsFiniteSet(one)
      BY FS_Singleton
    <3>2. S \subseteq one
      BY <2>1
    <3> HIDE DEF one
    <3> QED
      BY <3>1, <3>2, FS_Subset, FS_CardinalityType
  <2>3. Cardinality(S) # 0 => S # {}
    BY FS_EmptySet
  <2> QED
    BY <2>1, <2>2, <2>3 DEF S
<1>4. Puts(s.rows, new, r, e, os, 1)
  <2>1. /\ \A k \in DOMAIN s.rows : obj[o].key # k => new[k] = s.rows[k]
        /\ obj[o].key \in DOMAIN s.rows =>
              new[obj[o].key] = Set(s.rows[obj[o].key], o, columns, e)
        /\ DOMAIN new = DOMAIN s.rows
    BY <1>1
  <2>3. \A row, f : f \in Columns => Set(row, o, columns, e)[f] = Put(row, o, r, e, f)
    BY DEF Set, Put
  <2>4. os[1] = o /\ 1 \in 1 .. 1 /\ \A i \in 1 .. 1 : i = 1
    OBVIOUS
  <2> HIDE DEF new, os
  <2> QED
    BY <2>1, <2>3, <2>4 DEF Puts
<1> HIDE DEF new, count, os, columns
<1>5. SUFFICES ASSUME t.status = "ok"
               PROVE  /\ s.status = "ok" /\ Puts(s.rows, t.rows, r, e, os, 1)
                      /\ \E c \in Nat : /\ t.counts = Append(s.counts, c)
                                        /\ c # 0 => obj[o].key \in db.roots
  BY DEF t, os
<1> HIDE DEF t
<1>6. s.status = "ok" /\ t = [s EXCEPT !.rows = new, !.counts = Append(@, count)]
  BY <1>2, <1>5 DEF Sound
<1>7. t.rows = new /\ t.counts = Append(s.counts, count)
  BY <1>6 DEF Sound
<1> QED
  BY <1>3, <1>4, <1>6, <1>7

LEMMA CountsLoop ==
  ASSUME NEW counts, NEW n \in Nat, DOMAIN counts = 1 .. n
  PROVE  Loops("counts", <<>>, 0, counts, n, OfAll(counts))
<1> DEFINE D == DOMAIN counts
           turn(x, c) == x + c
           it == CHOOSE g : g = [a \in SUBSET D |->
                      IF a = {} THEN 0 ELSE turn(g[a \ {Max(a)}], counts[Max(a)])]
<1>1. OfAll(counts) = it[D]
  BY DEF OfAll, FoldLeft, MapThenFoldSet
<1>2. \A x, c : Turn("counts", <<>>, x, c) = turn(x, c)
  BY DEF Turn
<1> HIDE DEF turn
<1>3. PICK g : Runs("counts", <<>>, 0, counts, n, g)
  BY LoopRuns
<1>4. g = [a \in SUBSET D |->
             IF a = {} THEN 0 ELSE turn(g[a \ {Max(a)}], counts[Max(a)])]
  BY <1>2, <1>3 DEF Runs
<1>5. it = [a \in SUBSET D |->
             IF a = {} THEN 0 ELSE turn(it[a \ {Max(a)}], counts[Max(a)])]
  BY <1>4
<1> HIDE DEF it
<1>6. Runs("counts", <<>>, 0, counts, n, it)
  BY <1>2, <1>5 DEF Runs
<1>7. Turns("counts", <<>>, 0, counts, n, it)
  BY <1>6, TurnsOf
<1> QED
  BY <1>1, <1>7 DEF Loops

LEMMA ZeroSum ==
  ASSUME NEW counts \in Seq(Nat), \A i \in 1 .. Len(counts) : counts[i] = 0
  PROVE  OfAll(counts) = 0
<1> DEFINE n == Len(counts)
<1>1. n \in Nat /\ DOMAIN counts = 1 .. n
  BY LenProperties
<1>2. \A i \in 1 .. n : counts[i] = 0
  OBVIOUS
<1> HIDE DEF n
<1>3. PICK it : Turns("counts", <<>>, 0, counts, n, it) /\ OfAll(counts) = it[1 .. n]
  <2>1. Loops("counts", <<>>, 0, counts, n, OfAll(counts))
    BY <1>1, CountsLoop
  <2> QED
    BY <2>1 DEF Loops
<1> DEFINE P == {k \in 0 .. n : it[1 .. k] = 0}
<1>4. 0 \in P
  <2>1. 1 .. 0 = {} /\ 0 \in 0 .. n
    BY <1>1
  <2> QED
    BY <1>3, <2>1 DEF Turns
<1>5. ASSUME NEW k \in 1 .. n, k - 1 \in P
      PROVE  k \in P
  <2>1. it[1 .. k] = it[1 .. (k - 1)] + counts[k] /\ k \in 0 .. n
    BY <1>1, <1>3 DEF Turns, Turn
  <2> QED
    BY <1>2, <1>5, <2>1
<1> HIDE DEF P
<1>6. n \in P
  BY <1>1, <1>4, <1>5, UpTo
<1> QED
  BY <1>3, <1>6 DEF P

\* One of the first n objects has a row.
Hits(os, n) == \E i \in 1 .. n : obj[os[i]].key \in db.roots

\* However a driver counts the rows, it counts none when there were none.
LEMMA CountedHits ==
  ASSUME NEW counts, NEW os, NEW n \in Nat, n # 0, Tells(counts, os, n),
         Affected(counts) # 0
  PROVE  Hits(os, n)
<1>1. /\ counts \in Seq(Nat) /\ Len(counts) = n /\ counts # <<>>
      /\ \A i \in 1 .. n : counts[i] # 0 => obj[os[i]].key \in db.roots
  BY DEF Tells
<1>2. 1 \in 1 .. n /\ n \in 1 .. n
  OBVIOUS
<1>3. \E i \in 1 .. n : counts[i] # 0
  <2>1. CASE driver = "postgres"
    BY <1>1, <1>2, <2>1 DEF Affected, OfBatch
  <2>2. CASE driver = "mysql"
    BY <1>1, <2>2, ZeroSum DEF Affected
  <2>3. CASE driver \notin {"postgres", "mysql"}
    BY <1>1, <1>2, <2>3 DEF Affected
  <2> QED
    BY <2>1, <2>2, <2>3
<1> QED
  BY <1>1, <1>3 DEF Hits

\* One BulkUpdate so far.
Goes(base, x, r, e, os, k) ==
    /\ Sound(x) /\ DOMAIN x.rows = db.roots
    /\ x.status = "ok" => /\ base.status = "ok"
                          /\ Puts(base.rows, x.rows, r, e, os, k)
                          /\ Tells(x.counts, os, k)

LEMMA MoreGoes ==
  ASSUME RowsOK, NEW base, NEW x, NEW r, NEW e, NEW os \in Seq(Object),
         NEW k \in 1 .. Len(os), Goes(base, x, r, e, os, k - 1),
         Cells(heap, r.where) = <<>>, Writable(r) \subseteq Columns
  PROVE  Goes(base, UpdateRow(x, r, os[k], e), r, e, os, k)
<1> DEFINE o == os[k]
           y == UpdateRow(x, r, o, e)
           one == <<o>>
<1>1. o \in Object /\ Len(os) \in Nat /\ k - 1 \in Nat /\ k \in Nat /\ (k - 1) + 1 = k
  BY LenProperties, ElementOfSeq
<1>2. Comes(os, k - 1, one, 1)
  <2>1. \A i \in 1 .. 1 : i = 1
    OBVIOUS
  <2>2. one[1] = os[(k - 1) + 1]
    BY <1>1
  <2> HIDE DEF one
  <2> QED
    BY <2>1, <2>2 DEF Comes
<1>3. Sound(x) /\ DOMAIN x.rows = db.roots
  BY DEF Goes
<1>4. Sound(y) /\ Touches(x, y, Hit(r, o), Chosen(r, o))
  BY <1>1, <1>3, UpdateRowSound
<1>5. y.status = "ok" =>
         /\ x.status = "ok" /\ Puts(x.rows, y.rows, r, e, one, 1)
         /\ \E c \in Nat : /\ y.counts = Append(x.counts, c)
                           /\ c # 0 => obj[o].key \in db.roots
  BY <1>1, <1>3, UpdateRowPuts
<1> HIDE DEF y, one
<1>6. ASSUME y.status = "ok"
      PROVE  /\ base.status = "ok" /\ Puts(base.rows, y.rows, r, e, os, k)
             /\ Tells(y.counts, os, k)
  <2>1. /\ base.status = "ok" /\ Puts(base.rows, x.rows, r, e, os, k - 1)
        /\ Tells(x.counts, os, k - 1) /\ Puts(x.rows, y.rows, r, e, one, 1)
    BY <1>5, <1>6 DEF Goes
  <2>2. Puts(base.rows, y.rows, r, e, os, (k - 1) + 1)
    BY <1>1, <1>2, <2>1, PutsBatch
  <2>3. PICK c \in Nat : y.counts = Append(x.counts, c) /\ (c # 0 => obj[o].key \in db.roots)
    BY <1>5, <1>6
  <2>4. x.counts \in Seq(Nat) /\ Len(x.counts) = k - 1
    BY <2>1 DEF Tells
  <2>5. /\ y.counts \in Seq(Nat) /\ Len(y.counts) = k
        /\ \A i \in 1 .. (k - 1) : y.counts[i] = x.counts[i]
        /\ y.counts[k] = c
    BY <1>1, <2>3, <2>4, AppendProperties
  <2>6. \A i \in 1 .. k : i \in 1 .. (k - 1) \/ i = k
    BY <1>1
  <2>7. Tells(y.counts, os, k)
    BY <2>1, <2>3, <2>5, <2>6 DEF Tells
  <2> QED
    BY <1>1, <2>1, <2>2, <2>7
<1>7. Goes(base, y, r, e, os, k)
  BY <1>3, <1>4, <1>6 DEF Goes, Touches
<1> QED
  BY <1>7 DEF y

LEMMA UpdateAllPuts ==
  ASSUME RowsOK, NEW s, Sound(s), DOMAIN s.rows = db.roots, NEW r, NEW os \in Seq(Object), NEW e,
         Cells(heap, r.where) = <<>>, Writable(r) \subseteq Columns,
         UpdateAll(s, r, os, e).status = "ok"
  PROVE  /\ s.status = "ok"
         /\ Puts(s.rows, UpdateAll(s, r, os, e).rows, r, e, os, Len(os))
         /\ Len(os) # 0 => Hits(os, Len(os))
<1> DEFINE base == [s EXCEPT !.counts = <<>>]
           p == [r |-> r, e |-> e]
           n == Len(os)
           last == EachUpdated(base, r, os, e)
           t == UpdateAll(s, r, os, e)
<1>1. Goes(base, base, r, e, os, 0) /\ base.rows = s.rows /\ base.status = s.status
  <2>1. DOMAIN base = DOMAIN s /\ base.rows = s.rows /\ base.obj = s.obj
        /\ base.status = s.status /\ base.counts = <<>>
    BY DEF Sound
  <2>2. 1 .. 0 = {} /\ <<>> \in Seq(Nat) /\ Len(<<>>) = 0
    OBVIOUS
  <2> HIDE DEF base
  <2> QED
    BY <2>1, <2>2 DEF Sound, Goes, Puts, Tells
<1>2. n \in Nat /\ DOMAIN os = 1 .. n
  BY LenProperties
<1>3. t = IF s.status # "ok" THEN s
          ELSE IF (last.counts # <<>> /\ Affected(last.counts) = 0)
                    /\ (last.status = "ok" \/ driver = "postgres")
          THEN [last EXCEPT !.status = "no rows"]
          ELSE IF last.status # "ok" THEN last
          ELSE [last EXCEPT !.value = @ + Affected(last.counts)]
  BY DEF UpdateAll, EachUpdated
<1> HIDE DEF base, n
<1>4. PICK it : Turns("objects", p, base, os, n, it) /\ last = it[1 .. n]
  <2>1. Loops("objects", p, base, os, n, last)
    BY <1>2, ObjectsLoop
  <2> QED
    BY <2>1 DEF Loops
<1> HIDE DEF last
<1> DEFINE P == {k \in 0 .. n : Goes(base, it[1 .. k], r, e, os, k)}
<1>5. 0 \in P
  <2>1. 1 .. 0 = {} /\ 0 \in 0 .. n
    BY <1>2
  <2> QED
    BY <1>1, <1>4, <2>1 DEF Turns
<1>6. ASSUME NEW k \in 1 .. n, k - 1 \in P
      PROVE  k \in P
  <2> DEFINE x == it[1 .. (k - 1)]
             y == it[1 .. k]
  <2>1. y = UpdateRow(x, r, os[k], e)
    BY <1>4 DEF Turns, Turn
  <2>2. Goes(base, x, r, e, os, k - 1) /\ k \in 1 .. Len(os) /\ k \in 0 .. n
    BY <1>2, <1>6 DEF n
  <2> HIDE DEF x, y
  <2>3. Goes(base, y, r, e, os, k)
    BY <2>1, <2>2, MoreGoes
  <2> QED
    BY <2>2, <2>3 DEF y
<1> HIDE DEF P
<1>7. n \in P
  BY <1>2, <1>5, <1>6, UpTo
<1>8. Goes(base, last, r, e, os, n)
  BY <1>4, <1>7 DEF P
<1>9. t.status = "ok" /\ DOMAIN last = {"status", "rows", "obj", "counts", "value"}
  BY <1>8 DEF Goes, Sound
<1> HIDE DEF t
<1>10. /\ s.status = "ok" /\ last.status = "ok" /\ t.rows = last.rows
       /\ last.counts = <<>> \/ Affected(last.counts) # 0
  BY <1>3, <1>9
<1>11. Puts(base.rows, last.rows, r, e, os, n) /\ Tells(last.counts, os, n)
  BY <1>8, <1>10 DEF Goes
<1>12. n # 0 => last.counts # <<>>
  BY <1>11 DEF Tells
<1>13. n # 0 => Hits(os, n)
  BY <1>2, <1>10, <1>11, <1>12, CountedHits
<1> QED
  BY <1>1, <1>10, <1>11, <1>13 DEF t, n

\* One update so far.
Does(x, r, e, os, n) ==
    /\ Sound(x) /\ DOMAIN x.rows = db.roots
    /\ x.status = "ok" => Puts(rows, x.rows, r, e, os, n) /\ (n # 0 => Hits(os, n))

LEMMA MoreDone ==
  ASSUME RowsOK, NEW batches, NEW os, NEW at, Splits(batches, os, at),
         NEW k \in 1 .. Len(batches), NEW x, NEW r, NEW e, NEW n,
         Does(x, r, e, os, at[k - 1]),
         Cells(heap, r.where) = <<>>, Writable(r) \subseteq Columns
  PROVE  Does(UpdateAll(Failing(x, k, n), r, batches[k], e), r, e, os, at[k])
<1> DEFINE f == Failing(x, k, n)
           batch == batches[k]
           y == UpdateAll(f, r, batch, e)
           b == at[k - 1]
           l == Len(batch)
<1>1. /\ batch \in Seq(Object) /\ l \in Nat /\ at[k] = b + l /\ Comes(os, b, batch, l)
      /\ b \in Nat
  <2>1. batch \in Seq(Object) /\ l \in Nat /\ Len(batches) \in Nat
    BY LenProperties, ElementOfSeq DEF Splits
  <2>2. at[k] = b + l /\ \A j \in 1 .. l : batch[j] = os[b + j]
    BY DEF Splits
  <2>3. k - 1 \in 0 .. Len(batches)
    BY <2>1
  <2>4. b \in 0 .. Len(os) /\ Len(os) \in Nat
    BY <2>3, LenProperties DEF Splits
  <2> QED
    BY <2>1, <2>2, <2>4 DEF Comes
<1>2. Sound(x) /\ DOMAIN x.rows = db.roots
  BY DEF Does
<1>3. Sound(f) /\ DOMAIN f.rows = db.roots
  BY <1>2, FailingSound DEF Touches
<1>4. f.status = "ok" => f = x
  BY <1>2 DEF Failing, Sound
<1> HIDE DEF f, batch, b, l
<1>5. Sound(y) /\ Touches(f, y, Reach(r, batch), Writable(r))
  BY <1>1, <1>3, UpdateAllSound
<1>6. y.status = "ok" =>
         /\ f.status = "ok" /\ Puts(f.rows, y.rows, r, e, batch, l)
         /\ l # 0 => Hits(batch, l)
  BY <1>1, <1>3, UpdateAllPuts DEF l
<1> HIDE DEF y
<1>7. ASSUME y.status = "ok"
      PROVE  Puts(rows, y.rows, r, e, os, b + l) /\ (b + l # 0 => Hits(os, b + l))
  <2>1. /\ Puts(rows, x.rows, r, e, os, b) /\ (b # 0 => Hits(os, b))
        /\ Puts(x.rows, y.rows, r, e, batch, l) /\ (l # 0 => Hits(batch, l))
    BY <1>4, <1>6, <1>7 DEF Does, b
  <2>2. Puts(rows, y.rows, r, e, os, b + l)
    BY <1>1, <2>1, PutsBatch
  <2>3. CASE b # 0
    <3>1. \A i \in 1 .. b : i \in 1 .. (b + l)
      BY <1>1
    <3> QED
      BY <2>1, <2>2, <2>3, <3>1 DEF Hits
  <2>4. CASE b = 0
    <3>1. \A i \in 1 .. l : b + i = i /\ b + l = l
      BY <1>1, <2>4
    <3>2. \A i \in 1 .. l : batch[i] = os[i]
      BY <1>1, <3>1 DEF Comes
    <3>3. b + l = l
      BY <1>1, <2>4
    <3> QED
      BY <2>1, <2>2, <3>2, <3>3 DEF Hits
  <2> QED
    BY <2>3, <2>4
<1>8. Does(y, r, e, os, b + l)
  BY <1>3, <1>5, <1>7 DEF Does, Touches
<1> QED
  BY <1>1, <1>8 DEF y, f, batch

LEMMA UpdatesDo ==
  ASSUME RowsOK, NEW batches, NEW os, NEW at, Splits(batches, os, at), NEW r, NEW e, NEW n,
         Cells(heap, r.where) = <<>>, Writable(r) \subseteq Columns
  PROVE  Does(EachBatchUpdated(Begun, n, r, batches, e), r, e, os, Len(os))
<1> DEFINE p == [r |-> r, e |-> e, n |-> n, batches |-> batches]
           m == Len(batches)
           seq == [i \in 1 .. m |-> i]
           last == EachBatchUpdated(Begun, n, r, batches, e)
<1>1. m \in Nat /\ DOMAIN batches = 1 .. m
  BY LenProperties DEF Splits
<1>2. Does(Begun, r, e, os, 0)
  <2>1. Sound(Begun) /\ Begun.rows = rows /\ DOMAIN rows = db.roots
    BY BegunSound DEF Starts, RowsOK
  <2>2. 1 .. 0 = {}
    OBVIOUS
  <2> QED
    BY <2>1, <2>2 DEF Does, Puts
<1> HIDE DEF m
<1>3. PICK it : Turns("updates", p, Begun, seq, m, it) /\ last = it[1 .. m]
  <2>1. Loops("updates", p, Begun, seq, m, last)
    BY <1>1, UpdatesLoop
  <2> QED
    BY <2>1 DEF Loops
<1> HIDE DEF last
<1> DEFINE P == {k \in 0 .. m : Does(it[1 .. k], r, e, os, at[k])}
<1>4. 0 \in P
  <2>1. 1 .. 0 = {} /\ 0 \in 0 .. m
    BY <1>1
  <2>2. at[0] = 0
    BY DEF Splits
  <2> QED
    BY <1>2, <1>3, <2>1, <2>2 DEF Turns
<1>5. ASSUME NEW k \in 1 .. m, k - 1 \in P
      PROVE  k \in P
  <2> DEFINE x == it[1 .. (k - 1)]
             y == it[1 .. k]
  <2>1. y = UpdateAll(Failing(x, k, n), r, batches[k], e)
    BY <1>3 DEF Turns, Turn
  <2>2. Does(x, r, e, os, at[k - 1]) /\ k \in 1 .. Len(batches) /\ k \in 0 .. m
    BY <1>1, <1>5 DEF m
  <2> HIDE DEF x, y
  <2>3. Does(y, r, e, os, at[k])
    BY <2>1, <2>2, MoreDone
  <2> QED
    BY <2>2, <2>3 DEF y
<1> HIDE DEF P
<1>6. m \in P
  BY <1>1, <1>4, <1>5, UpTo
<1>7. at[m] = Len(os)
  BY DEF Splits, m
<1> QED
  BY <1>3, <1>6, <1>7 DEF P, last

\* What does not panic writes columns only.
LEMMA ColumnsOnly ==
  ASSUME NEW r, Shaped(r), ~Panics(r)
  PROVE  Writable(r) \subseteq Columns
<1>1. \A i \in ToSet(r.items) : i \in Item /\ i.what # "annotation"
  BY ElementOfSeq, LenProperties DEF Shaped, Panics, IsField, ToSet
<1>2. \A i \in Item : i.what # "annotation" => Named(i) \subseteq Columns
  BY DEF Item, Named, Columns
<1> QED
  BY <1>1, <1>2 DEF Writable

\* All objects are stored, and there was one to store.
Stores(s, r, e, os) == Puts(rows, s.rows, r, e, os, Len(os)) /\ Hits(os, Len(os))

-----------------------------------------------------------------------------
(* The steps. *)

\* An update of the objects os by queryset q ends in s.
Updated(q, os, e, s) ==
    /\ q \in QS /\ Assigned(q) /\ os \in Seq(Object)
    /\ Sound(s) /\ Touches(Begun, s, Reach(qs[q], os), Writable(qs[q]))
    /\ (s.status = "ok" /\ Cells(heap, qs[q].where) = <<>>) => Stores(s, qs[q], e, os)
    /\ Written("update", q, s, os, e)

\* A create of the objects os, which were given the keys ks, ends in s.
Created(q, os, ks, s) ==
    /\ os \in Seq(Object)
    /\ Fresh(ks, Len(os), DOMAIN rows) /\ Made(s, Len(os), os, ks)
    /\ Written("create", q, s, os, "none")

LEMMA UpdatesTell ==
  ASSUME WInv, NEW q \in QS, NEW batches, NEW os, os # <<>>, NEW at,
         Splits(batches, os, at), NEW e,
         Updates("update", q, batches, os, e)
  PROVE  \E s : Updated(q, os, e, s)
<1>1. RowsOK /\ Batched(batches, os) /\ Assigned(q) /\ os \in Seq(Object)
  BY SplitBatched DEF WInv, Updates, Assigned, Splits
<1>2. Starts(Begun) /\ Sound(Begun) /\ Sound([Begun EXCEPT !.status = "panic"])
  BY <1>1, BegunSound DEF Starts, Statuses
<1>3. CASE Panics(qs[q])
  <2> DEFINE s == [Begun EXCEPT !.status = "panic"]
             K == Reach(qs[q], os)
             C == Writable(qs[q])
  <2>1. Written("update", q, s, os, e)
    BY <1>3 DEF Updates
  <2>2. s.rows = Begun.rows /\ s.obj = Begun.obj /\ s.status = "panic"
    BY DEF Begun
  <2>3. Touches(Begun, s, K, C)
    BY <2>2 DEF Touches
  <2> HIDE DEF s
  <2> QED
    BY <1>1, <1>2, <2>1, <2>2, <2>3 DEF Updated, s
<1>4. CASE ~Panics(qs[q])
  <2>1. PICK n \in 0 .. Len(batches) :
           Written("update", q, EachBatchUpdated(Begun, n, qs[q], batches, e), os, e)
    BY <1>4 DEF Updates, EachBatchUpdated
  <2> DEFINE s == EachBatchUpdated(Begun, n, qs[q], batches, e)
  <2>2. Sound(s) /\ Touches(Begun, s, Reach(qs[q], os), Writable(qs[q]))
    BY <1>1, <1>2, UpdatesSound
  <2>3. Writable(qs[q]) \subseteq Columns
    BY <1>1, <1>4, ColumnsOnly DEF WInv, AllShaped
  <2>4. Cells(heap, qs[q].where) = <<>> => Does(s, qs[q], e, os, Len(os))
    BY <1>1, <2>3, UpdatesDo
  <2>5. Len(os) # 0
    BY <1>1
  <2> HIDE DEF s
  <2>6. (s.status = "ok" /\ Cells(heap, qs[q].where) = <<>>) => Stores(s, qs[q], e, os)
    BY <2>4, <2>5 DEF Does, Stores
  <2> QED
    BY <1>1, <2>1, <2>2, <2>6 DEF Updated, s
<1> QED
  BY <1>3, <1>4

LEMMA KeysFresh ==
  ASSUME NEW os \in Seq(Object), NEW old, NEW ks \in [DOMAIN os -> Keys \ old],
         IsInjective(ks)
  PROVE  Fresh(ks, Len(os), old)
<1> DEFINE n == Len(os)
<1>1. n \in Nat /\ DOMAIN os = 1 .. n
  BY LenProperties
<1> HIDE DEF n
<1>2. ks \in [1 .. n -> Keys]
  BY <1>1
<1>3. ks \in Seq(Keys) /\ Len(ks) = n
  BY <1>1, <1>2
<1> QED
  BY <1>1, <1>3 DEF Fresh, IsInjective, n

LEMMA CreatesTell ==
  ASSUME WInv, NEW q \in QS, NEW batches, NEW os, NEW at, Splits(batches, os, at),
         Creates(q, batches, os)
  PROVE  \E s, ks : Created(q, os, ks, s)
<1>1. RowsOK /\ os \in Seq(Object) /\ DOMAIN rows = db.roots
  BY DEF WInv, Splits, RowsOK
<1>2. Starts(Begun)
  BY <1>1, BegunSound
<1>3. PICK n \in 0 .. Len(batches), ks \in {t \in [DOMAIN os -> Keys \ db.roots] : IsInjective(t)} :
         Written("create", q, EachBatchCreated(Begun, n, batches, ks), os, "none")
  BY DEF Creates, EachBatchCreated, Given, Before
<1>4. Fresh(ks, Len(os), DOMAIN rows)
  BY <1>1, KeysFresh
<1>5. Made(EachBatchCreated(Begun, n, batches, ks), Len(os), os, ks)
  BY <1>2, <1>4, CreatesMake
<1> QED
  BY <1>1, <1>3, <1>4, <1>5 DEF Created

\* Each of the calls splits its objects into batches.
LEMMA WritesTell ==
  ASSUME WInv, NEW q \in QS, WritesOf(q)
  PROVE  \/ \E os, e, s : Updated(q, os, e, s)
         \/ \E os, ks, s : Created(q, os, ks, s)
<1>1. ASSUME NEW os \in Seq(Object) \ {<<>>}
      PROVE  /\ \A e : Updates("update", q, <<os>>, os, e) => \E s : Updated(q, os, e, s)
             /\ Creates(q, <<os>>, os) => \E s, ks : Created(q, os, ks, s)
  <2>1. PICK at : Splits(<<os>>, os, at)
    BY OneBatch
  <2> QED
    BY <2>1, UpdatesTell, CreatesTell
<1>2. ASSUME NEW os \in Seq(Object) \ {<<>>}, Assigned(q)
      PROVE  LET batches == Batches(os, Size(qs[q]))
             IN  /\ \A e : Updates("update", q, batches, os, e) => \E s : Updated(q, os, e, s)
                 /\ Creates(q, batches, os) => \E s, ks : Created(q, os, ks, s)
  <2> DEFINE batches == Batches(os, Size(qs[q]))
  <2>1. Size(qs[q]) \in Nat \ {0}
    BY <1>2, SizeIs DEF WInv, AllShaped
  <2>2. PICK at : Splits(batches, os, at)
    BY <2>1, BatchesSplit
  <2> HIDE DEF batches
  <2>3. /\ \A e : Updates("update", q, batches, os, e) => \E s : Updated(q, os, e, s)
        /\ Creates(q, batches, os) => \E s, ks : Created(q, os, ks, s)
    BY <2>2, UpdatesTell, CreatesTell
  <2> QED
    BY <2>3 DEF batches
<1>3. \A o \in Object : <<o>> \in Seq(Object) \ {<<>>}
  OBVIOUS
<1>4. Passes \subseteq Seq(Object) \ {<<>>}
  BY WritesAssumption
<1>5. ASSUME NEW o \in Object, Create(q, o) \/ \E e \in {"none", "plain"} : Update(q, o, e)
      PROVE  \/ \E os, e, s : Updated(q, os, e, s)
             \/ \E os, ks, s : Created(q, os, ks, s)
  BY <1>1, <1>3, <1>5 DEF Create, Update
<1>6. ASSUME NEW os \in Passes,
             \/ BulkCreate(q, os) \/ BatchCreate(q, os)
             \/ \E e \in {"none", "plain"} : BulkUpdate(q, os, e) \/ BatchUpdate(q, os, e)
      PROVE  \/ \E ps, e, s : Updated(q, ps, e, s)
             \/ \E ps, ks, s : Created(q, ps, ks, s)
  BY <1>1, <1>2, <1>4, <1>6 DEF BulkCreate, BatchCreate, BulkUpdate, BatchUpdate, Assigned
<1> QED
  BY <1>5, <1>6 DEF WritesOf

\* A helper writes the row of one object, or does nothing.
SavedNew(o, k, s) ==
    /\ obj[o].key = 0
    /\ Fresh(<<k>>, 1, DOMAIN rows) /\ Made(s, 1, <<o>>, <<k>>)
    /\ Told("save", answer.on, s, s.status, <<o>>, "none")
Saved(o, s, status) ==
    /\ obj[o].key # 0
    /\ \/ s = Begun /\ status = "error"
       \/ s = UpdateAll(Begun, Alone, <<o>>, "none") /\ status \in {s.status, "error"}
    /\ Told("save", answer.on, s, status, <<o>>, "none")
Left(o) == [k \in DOMAIN rows \ ({obj[o].key} \intersect db.roots) |-> rows[k]]
Removed(o, s, status) ==
    /\ s = Begun \/ \E n : s = [Begun EXCEPT !.rows = Left(o), !.value = n]
    /\ status = "error" \/ (status = "ok" /\ s.rows = Left(o))
    /\ Told("remove", answer.on, s, status, <<o>>, "none")

LEMMA SaveNewTells ==
  ASSUME WInv, NEW o \in Object, obj[o].key = 0, CreateObject(o)
  PROVE  \E k, s : SavedNew(o, k, s)
<1>1. RowsOK /\ DOMAIN rows = db.roots
  BY DEF WInv, RowsOK
<1>2. Starts(Begun)
  BY <1>1, BegunSound
<1>3. PICK k \in Keys \ db.roots :
         Written("save", answer.on, CreateAll(Begun, <<o>>, <<k>>), <<o>>, "none")
  BY DEF CreateObject
<1> DEFINE os == <<o>>
           ks == <<k>>
           s == CreateAll(Begun, os, ks)
<1>4. /\ os \in Seq(Object) /\ Len(os) = 1 /\ ks \in Seq(Keys) /\ Len(ks) = 1
      /\ ks[1] = k
  OBVIOUS
<1> HIDE DEF os, ks
<1>5. Fresh(ks, Len(os), DOMAIN rows)
  BY <1>1, <1>4 DEF Fresh
<1>6. /\ Sound(Begun) /\ Begun.rows = rows /\ Begun.obj = obj /\ Begun.value = 0
  BY <1>2 DEF Starts
<1>7. /\ Sound(s)
      /\ s.status = "ok" => /\ s.value = Begun.value + Len(os)
                            /\ Adds(Begun.rows, s.rows, Begun.obj, os, ks, Len(os))
                            /\ Gives(Begun.obj, s.obj, os, ks, Len(os))
  BY <1>4, <1>5, <1>6, CreateAllAdds
<1> HIDE DEF s
<1>8. Made(s, 1, os, ks)
  BY <1>4, <1>6, <1>7 DEF Made
<1>9. Told("save", answer.on, s, s.status, os, "none")
  BY <1>3 DEF Written, s, os, ks
<1> QED
  BY <1>4, <1>5, <1>8, <1>9 DEF SavedNew, os, ks

LEMMA HelpersTell ==
  ASSUME WInv, NEW o \in Object, Helpers(o)
  PROVE  \/ \E k, s : SavedNew(o, k, s)
         \/ \E s, status : Saved(o, s, status) \/ Removed(o, s, status)
<1>1. ASSUME NEW op, NEW s, NEW signal \in Signals, Signalled(op, s, signal, <<o>>)
      PROVE  \E t, status :
                /\ Told(op, answer.on, t, status, <<o>>, "none")
                /\ \/ t = Begun /\ status = "error"
                   \/ t = s /\ status \in {s.status, "error"}
  <2>1. CASE signal = "refused before"
    BY <1>1, <2>1 DEF Signalled
  <2>2. CASE signal # "refused before"
    BY <1>1, <2>2 DEF Signalled
  <2> QED
    BY <2>1, <2>2
<1>2. CASE SaveObject(o) /\ obj[o].key = 0
  BY <1>2, SaveNewTells DEF SaveObject
<1>3. CASE SaveObject(o) /\ obj[o].key # 0
  <2> DEFINE s == UpdateAll(Begun, Alone, <<o>>, "none")
  <2>1. PICK signal \in Signals : Signalled("save", s, signal, <<o>>)
    BY <1>3 DEF SaveObject, UpdateObject
  <2>2. PICK t, status : /\ Told("save", answer.on, t, status, <<o>>, "none")
                         /\ \/ t = Begun /\ status = "error"
                            \/ t = s /\ status \in {s.status, "error"}
    BY <1>1, <2>1
  <2>3. Saved(o, t, status)
    <3> HIDE DEF s
    <3> QED
      BY <1>3, <2>2 DEF Saved, s
  <2> QED
    BY <2>3
<1>4. CASE DeleteObject(o)
  <2> DEFINE gone == {obj[o].key} \intersect db.roots
             s == [Begun EXCEPT !.rows = [k \in DOMAIN rows \ gone |-> rows[k]],
                                !.value = Cardinality(gone)]
  <2>1. PICK signal \in Signals : Signalled("remove", s, signal, <<o>>)
    BY <1>4 DEF DeleteObject
  <2>2. s = [Begun EXCEPT !.rows = Left(o), !.value = Cardinality(gone)]
    BY DEF Left
  <2>3. s.status = "ok" /\ s.rows = Left(o)
    BY DEF Begun, Left
  <2> HIDE DEF s
  <2>4. PICK t, status : /\ Told("remove", answer.on, t, status, <<o>>, "none")
                         /\ \/ t = Begun /\ status = "error"
                            \/ t = s /\ status \in {s.status, "error"}
    BY <1>1, <2>1
  <2>5. Removed(o, t, status)
    BY <2>2, <2>3, <2>4 DEF Removed
  <2> QED
    BY <2>5
<1> QED
  BY <1>2, <1>3, <1>4 DEF Helpers

\* What a queryset of its own is to a helper.
LEMMA AloneReaches ==
  ASSUME IInv
  PROVE  Cells(heap, Alone.where) = <<>> /\ Alone.items = <<>> /\ Alone.joins = <<>>
<1> DEFINE a == CHOOSE a \in Array : TRUE
<1>1. Array # {}
  BY ArrayAssumption, FS_EmptySet, FS_CardinalityType
<1>2. a \in Array /\ Alone = New(a)
  BY <1>1 DEF Alone
<1> HIDE DEF a
<1>3. Alone.where = [arr |-> a, len |-> 0] /\ Alone.items = <<>> /\ Alone.joins = <<>>
  BY <1>2 DEF New
<1>4. heap \in Heaps /\ Len(heap[a]) \in Nat /\ Alone.where \in Slices
  BY <1>2, <1>3, LenProperties DEF IInv, Heaps, Slices
<1>5. Cells(heap, Alone.where) \in Seq(Cond) /\ Len(Cells(heap, Alone.where)) = 0
  BY <1>3, <1>4, CellsOf
<1> QED
  BY <1>3, <1>5

LEMMA SavedSound ==
  ASSUME WInv, NEW o \in Object, NEW s, NEW status, Saved(o, s, status)
  PROVE  Sound(s) /\ Touches(Begun, s, {obj[o].key}, Columns)
<1>1. RowsOK /\ IInv
  BY DEF WInv
<1>2. Sound(Begun)
  BY <1>1, BegunSound DEF Starts
<1>3. CASE s = Begun
  BY <1>2, <1>3 DEF Touches
<1>4. CASE s = UpdateAll(Begun, Alone, <<o>>, "none")
  <2>1. <<o>> \in Seq(Object) /\ ToSet(<<o>>) = {o}
    BY DEF ToSet
  <2>2. Sound(s) /\ Touches(Begun, s, Reach(Alone, <<o>>), Writable(Alone))
    BY <1>1, <1>2, <1>4, <2>1, UpdateAllSound
  <2>3. Reach(Alone, <<o>>) = {obj[o].key} /\ Writable(Alone) = Columns
    BY <1>1, <2>1, AloneReaches DEF Reach, Writable
  <2> QED
    BY <2>2, <2>3
<1> QED
  BY <1>3, <1>4 DEF Saved

LEMMA RemovedSound ==
  ASSUME WInv, NEW o \in Object, NEW s, NEW status, Removed(o, s, status)
  PROVE  Sound(s) /\ (s = Begun \/ s.rows = Left(o)) /\ s.obj = obj /\ s.status = "ok"
<1>1. RowsOK
  BY DEF WInv
<1>2. Sound(Begun) /\ Begun.obj = obj /\ Begun.status = "ok" /\ Begun.rows = rows
  BY <1>1, BegunSound DEF Starts
<1>3. CASE s = Begun
  BY <1>2, <1>3
<1>4. ASSUME NEW n, s = [Begun EXCEPT !.rows = Left(o), !.value = n]
      PROVE  Sound(s) /\ s.rows = Left(o) /\ s.obj = obj /\ s.status = "ok"
  <2>1. /\ DOMAIN s = DOMAIN Begun /\ s.rows = Left(o) /\ s.obj = obj
        /\ s.status = "ok"
    BY <1>2, <1>4 DEF Begun
  <2>2. DOMAIN Left(o) \subseteq DOMAIN rows /\ \A k \in DOMAIN Left(o) : Left(o)[k] = rows[k]
    BY DEF Left
  <2>3. Left(o) = [k \in DOMAIN Left(o) |-> Left(o)[k]]
    BY DEF Left
  <2>4. Left(o) \in [DOMAIN Left(o) -> Row]
    BY <1>1, <2>2, <2>3 DEF RowsOK
  <2>5. Distinct(Left(o))
    BY <1>1, <2>2 DEF RowsOK, Distinct
  <2> QED
    BY <1>1, <1>2, <2>1, <2>2, <2>4, <2>5 DEF Sound, RowsOK
<1> QED
  BY <1>3, <1>4 DEF Removed

LEMMA ChangeKeeps ==
  ASSUME WInv, NEW o \in Object, NEW f \in Columns, NEW v \in Val, Change(o, f, v)
  PROVE  WInv'
<1>1. IInv' /\ AllShaped'
  BY NothingKeeps, NothingShaped DEF WInv, Change
<1>2. obj \in [Object -> Struct] /\ obj' = [obj EXCEPT ![o] = [@ EXCEPT ![f] = v]]
  BY DEF WInv, RowsOK, Change
<1>3. [obj[o] EXCEPT ![f] = v] \in Struct
  BY <1>2 DEF Struct, Columns
<1>4. obj' \in [Object -> Struct]
  BY <1>2, <1>3
<1>5. rows' = rows /\ db' = db /\ driver' = driver
  BY DEF Change
<1>6. RowsOK'
  BY <1>4, <1>5 DEF WInv, RowsOK, Distinct, Row, Struct
<1> QED
  BY <1>1, <1>5, <1>6 DEF WInv

LEMMA WritesStep == WInv /\ [WritesNext]_<<vars, stored>> => WInv'
<1> SUFFICES ASSUME WInv, [WritesNext]_<<vars, stored>>
             PROVE  WInv'
  OBVIOUS
<1>1. CASE UNCHANGED <<vars, stored>>
  <2>1. UNCHANGED <<db, heap, qs, meant, rows, obj, driver>>
    BY <1>1 DEF vars, stored
  <2>2. IInv' /\ AllShaped'
    BY <2>1, NothingKeeps, NothingShaped DEF WInv
  <2> QED
    BY <2>1, <2>2 DEF WInv, RowsOK, Distinct, Row, Struct
<1>2. CASE Next /\ Follow
  BY <1>2, FollowKeeps
<1>3. ASSUME NEW q \in QS, WritesOf(q)
      PROVE  WInv'
  BY <1>3, WritesTell, ToldKeeps DEF Updated, Created, Made, Written
<1>4. ASSUME NEW o \in Object, Helpers(o)
      PROVE  WInv'
  <2>1. ASSUME NEW k, NEW s, SavedNew(o, k, s)
        PROVE  WInv'
    BY <2>1, ToldKeeps DEF SavedNew, Made
  <2>2. ASSUME NEW s, NEW status, Saved(o, s, status)
        PROVE  WInv'
    BY <2>2, SavedSound, ToldKeeps DEF Saved
  <2>3. ASSUME NEW s, NEW status, Removed(o, s, status)
        PROVE  WInv'
    BY <2>3, RemovedSound, ToldKeeps DEF Removed
  <2> QED
    BY <1>4, <2>1, <2>2, <2>3, HelpersTell
<1>5. ASSUME NEW o \in Object, NEW f \in Columns, NEW v \in Val, Change(o, f, v)
      PROVE  WInv'
  BY <1>5, ChangeKeeps
<1> QED
  BY <1>1, <1>2, <1>3, <1>4, <1>5 DEF WritesNext

LEMMA WritesBegin == WritesInit => WInv
<1> SUFFICES ASSUME WritesInit
             PROVE  WInv
  OBVIOUS
<1>1. Init /\ rows \in [db.roots -> Row] /\ Distinct(rows) /\ driver \in Drivers /\ obj \in [Object -> Struct]
  BY DEF WritesInit
<1>2. IInv
  BY <1>1, InitHolds
<1>3. AllShaped
  <2>1. PICK a \in Array, q \in QS : qs = [x \in QS |-> IF x = q THEN New(a) ELSE None]
    BY <1>1 DEF Init
  <2>2. Shaped(New(a))
    BY NoItems, QueriesAssumption DEF Shaped, New, Fields, Orders
  <2> HIDE DEF Init
  <2> QED
    BY <2>1, <2>2 DEF AllShaped, Assigned
<1>4. db = [roots |-> db.roots, link |-> db.link] /\ db.roots \subseteq Keys
  BY <1>1 DEF Init, Database
<1> QED
  BY <1>1, <1>2, <1>3, <1>4 DEF WInv, RowsOK

LEMMA WritesInvariant == WritesSpec => []WInv
<1> QED
  BY WritesBegin, WritesStep, PTL DEF WritesSpec

-----------------------------------------------------------------------------
(* Results. *)

\* Every row is of a root that is there and has a value of each column, no
\* two have the same value of the unique column, and every object has a key
\* that the database gave or none, whatever the program writes and whatever
\* fails (BulkCreate, BulkUpdate and the helpers).
THEOREM RowsAlwaysOK == WritesSpec => []RowsOK
<1>1. WInv => RowsOK
  BY DEF WInv
<1> QED
  BY <1>1, WritesInvariant, PTL

\* What a call has told.
LEMMA ToldIs ==
  ASSUME NEW op, NEW q, NEW s, NEW status, NEW os, NEW e, Told(op, q, s, status, os, e)
  PROVE  /\ answer'.op = op /\ answer'.on = q /\ answer'.status = status
         /\ status = "ok" => answer'.value = s.value
         /\ call'.objs = os /\ call'.expr = e
         /\ rows' = Committed(s) /\ obj' = s.obj
         /\ db' = [db EXCEPT !.roots = DOMAIN rows']
BY DEF Told, Answered

LEMMA OthersAnswer ==
  ASSUME WInv, WritesNext, ~Next
  PROVE  \/ answer'.op = "set"
         \/ answer'.op = "update" /\ \E q \in QS : \E os, e, s : Updated(q, os, e, s)
         \/ answer'.op = "create" /\ \E q \in QS : \E os, ks, s : Created(q, os, ks, s)
         \/ answer'.op = "save" /\ \E o \in Object :
               (\E k, s : SavedNew(o, k, s)) \/ (\E s, status : Saved(o, s, status))
         \/ answer'.op = "remove" /\ \E o \in Object : \E s, status : Removed(o, s, status)
<1>1. ASSUME NEW q \in QS, WritesOf(q)
      PROVE  \/ answer'.op = "update" /\ \E os, e, s : Updated(q, os, e, s)
             \/ answer'.op = "create" /\ \E os, ks, s : Created(q, os, ks, s)
  <2>1. ASSUME NEW os, NEW e, NEW s, Updated(q, os, e, s)
        PROVE  answer'.op = "update"
    BY <2>1, ToldIs DEF Updated, Written
  <2>2. ASSUME NEW os, NEW ks, NEW s, Created(q, os, ks, s)
        PROVE  answer'.op = "create"
    BY <2>2, ToldIs DEF Created, Written
  <2> QED
    BY <1>1, <2>1, <2>2, WritesTell
<1>2. ASSUME NEW o \in Object, Helpers(o)
      PROVE  \/ /\ answer'.op = "save"
                /\ (\E k, s : SavedNew(o, k, s)) \/ (\E s, status : Saved(o, s, status))
             \/ answer'.op = "remove" /\ \E s, status : Removed(o, s, status)
  <2>1. ASSUME NEW k, NEW s, SavedNew(o, k, s)
        PROVE  answer'.op = "save"
    BY <2>1, ToldIs DEF SavedNew
  <2>2. ASSUME NEW s, NEW status, Saved(o, s, status)
        PROVE  answer'.op = "save"
    BY <2>2, ToldIs DEF Saved
  <2>3. ASSUME NEW s, NEW status, Removed(o, s, status)
        PROVE  answer'.op = "remove"
    BY <2>3, ToldIs DEF Removed
  <2> QED
    BY <1>2, <2>1, <2>2, <2>3, HelpersTell
<1>3. ASSUME NEW o \in Object, NEW f \in Columns, NEW v \in Val, Change(o, f, v)
      PROVE  answer'.op = "set"
  BY <1>3 DEF Change, Answered
<1> QED
  BY <1>1, <1>2, <1>3 DEF WritesNext

LEMMA StepsAnswer ==
  ASSUME WInv, WritesNext
  PROVE  \/ answer'.op \in Ops \union {"set"}
         \/ answer'.op = "update" /\ \E q \in QS : \E os, e, s : Updated(q, os, e, s)
         \/ answer'.op = "create" /\ \E q \in QS : \E os, ks, s : Created(q, os, ks, s)
         \/ answer'.op = "save" /\ \E o \in Object :
               (\E k, s : SavedNew(o, k, s)) \/ (\E s, status : Saved(o, s, status))
         \/ answer'.op = "remove" /\ \E o \in Object : \E s, status : Removed(o, s, status)
<1>1. CASE Next
  BY <1>1, CallsAnswer
<1>2. CASE ~Next
  BY <1>2, OthersAnswer
<1> QED
  BY <1>1, <1>2

\* A create or an update that answers anything but success leaves every row
\* as it was, whichever of its batches and statements had run (BatchCreate,
\* BatchUpdate and the deferred Rollback of their transaction).
THEOREM WritesAlwaysWhole == WritesSpec => WritesAreWhole
<1> DEFINE Undone(op, status) ==
             (op \in {"create", "update"} /\ status # "ok") => (rows' = rows /\ db' = db)
<1>1. ASSUME WInv, WritesNext
      PROVE  Undone(answer'.op, answer'.status)
  <2>1. ASSUME NEW op, NEW q, NEW s, NEW os, NEW e, Written(op, q, s, os, e),
               answer'.status # "ok"
        PROVE  rows' = rows /\ db' = db
    <3>1. s.status # "ok" /\ rows' = Committed(s) /\ db' = [db EXCEPT !.roots = DOMAIN rows']
      BY <2>1, ToldIs DEF Written
    <3>2. rows' = rows /\ DOMAIN rows = db.roots /\ db = [roots |-> db.roots, link |-> db.link]
      BY <1>1, <3>1 DEF Committed, WInv, RowsOK
    <3> QED
      BY <3>1, <3>2
  <2>2. CASE answer'.op \in Ops \union {"set"}
    BY <2>2 DEF Ops
  <2>3. CASE answer'.op = "update" /\ \E q \in QS : \E os, e, s : Updated(q, os, e, s)
    BY <2>1, <2>3 DEF Updated
  <2>4. CASE answer'.op = "create" /\ \E q \in QS : \E os, ks, s : Created(q, os, ks, s)
    BY <2>1, <2>4 DEF Created
  <2>5. CASE answer'.op \in {"save", "remove"}
    BY <2>5
  <2> QED
    BY <1>1, <2>2, <2>3, <2>4, <2>5, StepsAnswer
<1>2. WInv /\ [WritesNext]_<<vars, stored>>
        => [(answer'.op \in {"create", "update"} /\ answer'.status # "ok")
              => (rows' = rows /\ db' = db)]_<<vars, stored>>
  BY <1>1
<1> QED
  BY <1>2, WritesInvariant, PTL DEF WritesSpec, WritesAreWhole

\* UpdatesOnlyMatching of one update.
OnlyMatching ==
    LET q == answer'.on
        changed == {k \in DOMAIN rows : rows'[k] # rows[k]}
        fit == {k \in DOMAIN rows :
                   \A i \in DOMAIN meant[q] : i <= Own => k \in meant[q][i]}
        items == ToSet(qs[q].items)
    IN  /\ DOMAIN rows' = DOMAIN rows
        /\ changed \subseteq
              (IF meant[q] = <<>> THEN {obj[o].key : o \in ToSet(call'.objs)} ELSE fit)
        /\ \A k \in changed, f \in Columns : rows'[k][f] # rows[k][f] =>
              items = {} \/ \E i \in items : i.what \in {f, "all"}

LEMMA UpdatedMatches ==
  ASSUME WInv, NEW q \in QS, NEW os, NEW e, NEW s, Updated(q, os, e, s)
  PROVE  OnlyMatching
<1> DEFINE r == qs[q]
           m == meant[q]
           changed == {k \in DOMAIN rows : rows'[k] # rows[k]}
           fit == {k \in DOMAIN rows : \A i \in DOMAIN m : i <= Own => k \in m[i]}
           items == ToSet(r.items)
<1>1. answer'.on = q /\ call'.objs = os /\ rows' = Committed(s)
  BY ToldIs DEF Updated, Written
<1>2. /\ IInv /\ RowsOK /\ Assigned(q)
      /\ Sound(s) /\ Touches(Begun, s, Reach(r, os), Writable(r))
  BY DEF WInv, Updated
<1>3. DOMAIN rows = db.roots /\ Begun.rows = rows /\ rows \in [DOMAIN rows -> Row]
  BY <1>2 DEF RowsOK, Begun
<1>4. /\ DOMAIN rows' = DOMAIN rows
      /\ \A k \in DOMAIN rows : rows[k] \in Row /\ rows'[k] \in Row
      /\ \A k \in DOMAIN rows, f \in Columns :
            rows'[k][f] # rows[k][f] => k \in Reach(r, os) /\ f \in Writable(r)
  <2>1. CASE rows' = rows
    BY <1>3, <2>1
  <2>2. CASE rows' = s.rows
    BY <1>2, <1>3, <2>2 DEF Sound, Touches
  <2> QED
    BY <1>1, <2>1, <2>2 DEF Committed
<1>5. ASSUME NEW k \in changed
      PROVE  k \in Reach(r, os)
  <2>1. PICK f \in Columns : rows'[k][f] # rows[k][f]
    BY <1>4 DEF Row
  <2> QED
    BY <1>4, <2>1
<1>6. changed \subseteq IF m = <<>> THEN {obj[o].key : o \in ToSet(os)} ELSE fit
  <2> DEFINE c == Conds(q)
  <2>1. Len(c) = Len(m) /\ \A i \in DOMAIN m : i <= Own => c[i] = m[i]
    BY <1>2, CondsOf
  <2>2. c = Cells(heap, r.where) /\ c \in Seq(Cond) /\ m \in Seq(SUBSET Keys)
    <3>1. Good(heap, r.where, m) /\ heap \in Heaps /\ m \in Seq(SUBSET Keys)
      BY <1>2 DEF IInv, AllGood
    <3> QED
      BY <3>1, CellsOf DEF Conds, Good
  <2> HIDE DEF c
  <2>3. CASE m = <<>>
    <3>1. c = <<>>
      BY <2>1, <2>2, <2>3
    <3>2. Reach(r, os) = {obj[o].key : o \in ToSet(os)}
      BY <2>2, <3>1 DEF Reach
    <3> QED
      BY <1>5, <2>3, <3>2
  <2>4. CASE m # <<>>
    <3>1. c # <<>> /\ DOMAIN c = DOMAIN m
      BY <2>1, <2>2, <2>4, LenProperties
    <3>2. Reach(r, os) = Matching(heap, r)
      BY <2>2, <3>1 DEF Reach
    <3>3. \A k \in Matching(heap, r) : \A i \in DOMAIN c : k \in c[i]
      BY <2>2 DEF Matching
    <3> QED
      BY <1>5, <2>1, <2>4, <3>1, <3>2, <3>3
  <2> QED
    BY <2>3, <2>4
<1>7. ASSUME NEW k \in changed, NEW f \in Columns, rows'[k][f] # rows[k][f]
      PROVE  items = {} \/ \E i \in items : i.what \in {f, "all"}
  <2>1. f \in Writable(r)
    BY <1>4, <1>7
  <2>2. CASE r.items = <<>>
    BY <2>2 DEF ToSet
  <2>3. CASE r.items # <<>>
    BY <2>1, <2>3 DEF Writable, Named
  <2> QED
    BY <2>2, <2>3
<1> HIDE DEF r, m, items
<1> QED
  BY <1>1, <1>4, <1>6, <1>7 DEF OnlyMatching, r, m, items

\* An update changes rows that match the conditions of its queryset alone
\* or, without conditions, those of the objects that were passed, and only
\* columns that were selected, if any were; it makes and removes no row
\* (BulkUpdate and BatchUpdate).
THEOREM UpdatesAlwaysMatch == WritesSpec => UpdatesOnlyMatching
<1>1. ASSUME WInv, WritesNext
      PROVE  answer'.op = "update" => OnlyMatching
  BY <1>1, StepsAnswer, UpdatedMatches DEF Ops
<1>2. WInv /\ [WritesNext]_<<vars, stored>>
        => [answer'.op = "update" => OnlyMatching]_<<vars, stored>>
  BY <1>1
<1> QED
  BY <1>2, WritesInvariant, PTL DEF WritesSpec, UpdatesOnlyMatching, OnlyMatching

\* CreatesAreStored of one create.
AreStored ==
    LET os == call'.objs
        new == DOMAIN rows' \ DOMAIN rows
    IN  /\ new = {obj'[o].key : o \in ToSet(os)}
        /\ Cardinality(new) = Len(os) /\ answer'.value = Len(os)
        /\ \A o \in ToSet(os), f \in Columns : rows'[obj'[o].key][f] = obj[o][f]
        /\ \A k \in DOMAIN rows : rows'[k] = rows[k]

\* As the unique column is unique, no object can be stored twice.
LEMMA StoredOnce ==
  ASSUME NEW rs, Distinct(rs), NEW n, NEW os, NEW ks,
         Adds(rows, rs, obj, os, ks, n), NEW i \in 1 .. n, NEW j \in 1 .. n,
         os[i] = os[j]
  PROVE  ks[i] = ks[j]
<1>1. /\ ks[i] \in DOMAIN rs /\ rs[ks[i]] = Copy(obj, os[i])
      /\ ks[j] \in DOMAIN rs /\ rs[ks[j]] = Copy(obj, os[j])
  BY DEF Adds
<1>2. rs[ks[i]].unique = rs[ks[j]].unique
  BY <1>1
<1> QED
  BY <1>1, <1>2 DEF Distinct

LEMMA CreatedIsStored ==
  ASSUME WInv, NEW q, NEW os, NEW ks, NEW s, Created(q, os, ks, s), answer'.status = "ok"
  PROVE  AreStored
<1> DEFINE n == Len(os)
           new == DOMAIN rows' \ DOMAIN rows
<1>1. /\ call'.objs = os /\ s.status = "ok" /\ answer'.value = s.value
      /\ rows' = s.rows /\ obj' = s.obj
  BY ToldIs DEF Created, Written, Committed
<1>2. /\ n \in Nat /\ DOMAIN os = 1 .. n
      /\ \A i \in 1 .. n : os[i] \in Object
  BY LenProperties, ElementOfSeq DEF Created
<1>3. /\ s.value = n /\ Distinct(s.rows)
      /\ Adds(rows, s.rows, obj, os, ks, n) /\ Gives(obj, s.obj, os, ks, n)
  BY <1>1 DEF Created, Made, Sound
<1>4. /\ \A i \in 1 .. n : ks[i] \notin DOMAIN rows
      /\ \A i, j \in 1 .. n : ks[i] = ks[j] => i = j
  BY DEF Created, Fresh
<1> HIDE DEF n
<1>5. \A i, j \in 1 .. n : os[i] = os[j] => ks[i] = ks[j]
  BY <1>3, StoredOnce
<1>6. ASSUME NEW i \in 1 .. n
      PROVE  obj'[os[i]].key = ks[i]
  <2>1. PICK j \in 1 .. n : os[j] = os[i] /\ s.obj[os[i]].key = ks[j]
    BY <1>3 DEF Gives
  <2> QED
    BY <1>1, <1>5, <2>1
<1>7. new = {ks[i] : i \in 1 .. n}
  BY <1>1, <1>3, <1>4 DEF Adds
<1>8. ToSet(os) = {os[i] : i \in 1 .. n}
  BY <1>2 DEF ToSet
<1>9. new = {obj'[o].key : o \in ToSet(os)}
  BY <1>6, <1>7, <1>8
<1>10. Cardinality(new) = n
  <2> DEFINE f == [i \in 1 .. n |-> ks[i]]
  <2>1. f \in Bijection(1 .. n, new)
    BY <1>4, <1>7 DEF Bijection, Injection, Surjection, IsInjective
  <2>2. IsFiniteSet(1 .. n) /\ Cardinality(1 .. n) = n
    BY <1>2, FS_Interval
  <2> HIDE DEF f, new
  <2>3. ExistsBijection(1 .. n, new)
    BY <2>1 DEF ExistsBijection
  <2> QED
    BY <2>2, <2>3, FS_Bijection
<1>11. ASSUME NEW i \in 1 .. n, NEW f \in Columns
       PROVE  rows'[obj'[os[i]].key][f] = obj[os[i]][f]
  <2>1. s.rows[ks[i]] = Copy(obj, os[i])
    BY <1>3 DEF Adds
  <2>2. Copy(obj, os[i])[f] = obj[os[i]][f]
    BY DEF Copy
  <2> QED
    BY <1>1, <1>6, <2>1, <2>2
<1>12. \A k \in DOMAIN rows : rows'[k] = rows[k]
  BY <1>1, <1>3 DEF Adds
<1> HIDE DEF new
<1>13. \A o \in ToSet(os), f \in Columns : rows'[obj'[o].key][f] = obj[o][f]
  BY <1>8, <1>11
<1> QED
  BY <1>1, <1>3, <1>9, <1>10, <1>12, <1>13 DEF AreStored, n, new

\* After a create that answers success every object that was passed has the
\* key of a new row with its fields, there are no other new rows, and the old
\* ones are as they were, in batches or not (BulkCreate and BatchCreate).
THEOREM CreatesAlwaysStored == WritesSpec => CreatesAreStored
<1>1. ASSUME WInv, WritesNext
      PROVE  (answer'.op = "create" /\ answer'.status = "ok") => AreStored
  BY <1>1, StepsAnswer, CreatedIsStored DEF Ops
<1>2. WInv /\ [WritesNext]_<<vars, stored>>
        => [(answer'.op = "create" /\ answer'.status = "ok") => AreStored]_<<vars, stored>>
  BY <1>1
<1> QED
  BY <1>2, WritesInvariant, PTL DEF WritesSpec, CreatesAreStored, AreStored

\* ObjectsAreWhole of one call.
IsWhole ==
    LET o == Head(call'.objs)
        k == obj'[o].key
        made == obj[o].key = 0
        others(rs) == [j \in DOMAIN rs \ {k} |-> rs[j]]
        whole == k \in DOMAIN rows' /\ \A f \in Columns :
                    (made \/ obj[o][f] # 0) => rows'[k][f] = obj[o][f]
    IN  /\ others(rows') = others(rows)
        /\ k \in DOMAIN rows' \ DOMAIN rows => made
        /\ (answer'.op = "save" /\ (answer'.status = "ok" \/ rows' # rows)) => whole
        /\ answer'.op = "remove" =>
              /\ obj' = obj /\ (k \in DOMAIN rows' => rows' = rows)
              /\ answer'.status = "ok" => k \notin DOMAIN rows'

LEMMA NewIsWhole ==
  ASSUME WInv, NEW o \in Object, NEW k, NEW s, SavedNew(o, k, s)
  PROVE  IsWhole
<1> DEFINE os == <<o>>
           ks == <<k>>
           others(rs, j) == [i \in DOMAIN rs \ {j} |-> rs[i]]
<1>1. /\ call'.objs = os /\ Head(os) = o /\ answer'.op = "save" /\ answer'.status = s.status
      /\ rows' = Committed(s) /\ obj' = s.obj /\ obj[o].key = 0
  BY ToldIs DEF SavedNew
<1>2. os[1] = o /\ ks[1] = k /\ 1 \in 1 .. 1 /\ \A i \in 1 .. 1 : i = 1
  OBVIOUS
<1>3. CASE s.status # "ok"
  BY <1>1, <1>3 DEF IsWhole, Committed
<1>4. CASE s.status = "ok"
  <2>1. rows' = s.rows
    BY <1>1, <1>4 DEF Committed
  <2>2. Adds(rows, s.rows, obj, os, ks, 1) /\ Gives(obj, s.obj, os, ks, 1)
    BY <1>4 DEF SavedNew, Made
  <2>3. k \notin DOMAIN rows
    BY <1>2 DEF SavedNew, Fresh
  <2> HIDE DEF os, ks
  <2>4. obj'[o].key = k
    BY <1>1, <1>2, <2>2 DEF Gives
  <2>5. DOMAIN s.rows = DOMAIN rows \union {k} /\ s.rows[k] = Copy(obj, o)
    BY <1>2, <2>2 DEF Adds
  <2>6. others(s.rows, k) = others(rows, k)
    BY <2>2, <2>3, <2>5 DEF Adds
  <2>7. \A f \in Columns : s.rows[k][f] = obj[o][f]
    BY <2>5 DEF Copy
  <2> QED
    BY <1>1, <2>1, <2>4, <2>5, <2>6, <2>7 DEF IsWhole
<1> QED
  BY <1>3, <1>4

LEMMA RemovedIsWhole ==
  ASSUME WInv, NEW o \in Object, NEW s, NEW status, Removed(o, s, status)
  PROVE  IsWhole
<1> DEFINE k == obj[o].key
           others(rs) == [j \in DOMAIN rs \ {k} |-> rs[j]]
<1> DEFINE os == <<o>>
<1>8. Told("remove", answer.on, s, status, os, "none")
  BY Zenon DEF Removed
<1>9. Head(os) = o
  OBVIOUS
<1> HIDE DEF os
<1>1. /\ call'.objs = os /\ Head(os) = o /\ answer'.op = "remove"
      /\ answer'.status = status /\ rows' = Committed(s) /\ obj' = s.obj
  BY <1>8, <1>9, ToldIs
<1>2. (s = Begun \/ s.rows = Left(o)) /\ s.obj = obj /\ s.status = "ok"
  BY RemovedSound
<1>3. DOMAIN rows = db.roots /\ Begun.rows = rows
  BY DEF WInv, RowsOK, Begun
<1>4. rows' = s.rows /\ (status = "ok" => s.rows = Left(o))
  BY <1>1, <1>2 DEF Committed, Removed
<1>5. /\ DOMAIN Left(o) = DOMAIN rows \ {k}
      /\ \A j \in DOMAIN Left(o) : Left(o)[j] = rows[j]
  BY <1>3 DEF Left
<1>6. others(Left(o)) = others(rows)
  BY <1>5
<1>7. rows' = rows \/ rows' = Left(o)
  BY <1>2, <1>3, <1>4
<1> QED
  BY <1>1, <1>2, <1>4, <1>5, <1>6, <1>7 DEF IsWhole

LEMMA SavedIsWhole ==
  ASSUME WInv, NEW o \in Object, NEW s, NEW status, Saved(o, s, status)
  PROVE  IsWhole
<1> DEFINE k == obj[o].key
           others(rs) == [j \in DOMAIN rs \ {k} |-> rs[j]]
           os == <<o>>
<1>1. Told("save", answer.on, s, status, os, "none") /\ k # 0
  BY Zenon DEF Saved
<1>2. Sound(s) /\ Touches(Begun, s, {k}, Columns)
  BY SavedSound
<1>3. /\ RowsOK /\ IInv /\ DOMAIN rows = db.roots /\ Begun.rows = rows /\ Begun.obj = obj
      /\ rows \in [DOMAIN rows -> Row]
  BY DEF WInv, RowsOK, Begun
<1>4. /\ Head(os) = o /\ os[1] = o /\ Len(os) = 1 /\ os \in Seq(Object)
      /\ \A i \in 1 .. 1 : i = 1
  OBVIOUS
<1> HIDE DEF os
<1>5. /\ call'.objs = os /\ answer'.op = "save" /\ answer'.status = status
      /\ rows' = Committed(s) /\ obj' = s.obj
  BY <1>1, ToldIs
<1>6. obj' = obj /\ DOMAIN s.rows = DOMAIN rows
  BY <1>2, <1>3, <1>5 DEF Touches
<1>7. \A j \in DOMAIN rows \ {k} : s.rows[j] = rows[j]
  <2> SUFFICES ASSUME NEW j \in DOMAIN rows \ {k}
               PROVE  s.rows[j] = rows[j]
    OBVIOUS
  <2>1. \A f \in Columns : s.rows[j][f] = rows[j][f]
    BY <1>2, <1>3 DEF Touches
  <2>2. s.rows[j] \in Row /\ rows[j] \in Row
    BY <1>2, <1>3, <1>6 DEF Sound
  <2> QED
    BY <2>1, <2>2 DEF Row
<1>8. others(s.rows) = others(rows)
  BY <1>6, <1>7
<1>9. CASE rows' = rows /\ status # "ok"
  BY <1>4, <1>5, <1>6, <1>9 DEF IsWhole
<1>10. CASE ~(rows' = rows /\ status # "ok")
  <2> DEFINE t == UpdateAll(Begun, Alone, os, "none")
  <2>1. s.status = "ok" /\ rows' = s.rows /\ s = t
    <3>1. s = Begun => rows' = rows
      BY <1>3, <1>5 DEF Committed
    <3>2. s.status # "ok" => rows' = rows
      BY <1>5 DEF Committed
    <3>3. \/ s = Begun /\ status = "error"
          \/ s = t /\ status \in {s.status, "error"}
      BY Zenon DEF Saved, os
    <3> QED
      BY <1>5, <1>10, <3>1, <3>2, <3>3 DEF Committed
  <2>2. /\ Cells(heap, Alone.where) = <<>> /\ Alone.items = <<>>
        /\ Writable(Alone) \subseteq Columns
    BY <1>3, AloneReaches DEF Writable
  <2>3. Sound(Begun) /\ DOMAIN Begun.rows = db.roots
    BY <1>3, BegunSound DEF Starts
  <2>4. /\ Puts(Begun.rows, t.rows, Alone, "none", os, Len(os))
        /\ Len(os) # 0 => Hits(os, Len(os))
    BY <1>3, <1>4, <2>1, <2>2, <2>3, UpdateAllPuts
  <2> HIDE DEF t
  <2>5. k \in DOMAIN rows
    BY <1>3, <1>4, <2>4 DEF Hits
  <2>6. \A f \in Columns : s.rows[k][f] = Put(rows[k], o, Alone, "none", f)
    <3>1. 1 \in 1 .. 1
      OBVIOUS
    <3> QED
      BY <1>3, <1>4, <2>1, <2>4, <2>5, <3>1 DEF Puts
  <2>7. \A f \in Columns : obj[o][f] # 0 => s.rows[k][f] = obj[o][f]
    <3>1. Chosen(Alone, o) = {f \in Columns : obj[o][f] # 0}
      BY <2>2 DEF Chosen
    <3>2. "none" \notin Columns
      BY DEF Columns
    <3> QED
      BY <2>6, <3>1, <3>2 DEF Put
  <2> QED
    BY <1>1, <1>4, <1>5, <1>6, <1>8, <2>1, <2>5, <2>7 DEF IsWhole
<1> QED
  BY <1>9, <1>10

\* SaveObject and DeleteObject touch the row with the key of their object
\* alone, and SaveObject makes a row for an object without a key only.  What
\* has changed is whole, also when a receiver of a signal failed: the row
\* holds every field that is not zero, and after success there is one
\* (queries_helpers.go).
THEOREM ObjectsAlwaysWhole == WritesSpec => ObjectsAreWhole
<1>1. ASSUME WInv, WritesNext
      PROVE  answer'.op \in {"save", "remove"} => IsWhole
  BY <1>1, StepsAnswer, NewIsWhole, SavedIsWhole, RemovedIsWhole DEF Ops
<1>2. WInv /\ [WritesNext]_<<vars, stored>>
        => [answer'.op \in {"save", "remove"} => IsWhole]_<<vars, stored>>
  BY <1>1
<1> QED
  BY <1>2, WritesInvariant, PTL DEF WritesSpec, ObjectsAreWhole, IsWhole

\* UpdatesAreStored of one update.
AllStored ==
    LET os == call'.objs
        keys == {obj[o].key : o \in ToSet(os)}
        items == qs[answer'.on].items
        once(i) == \A j \in DOMAIN os : obj[os[j]].key = obj[os[i]].key => i = j
        asked(o, f) == IF items = <<>> THEN obj[o][f] # 0
                       ELSE \E i \in ToSet(items) : i.what \in {f, "all"}
    IN  /\ keys \intersect DOMAIN rows # {}
        /\ \A i \in DOMAIN os :
              LET o == os[i]
                  k == obj[o].key
              IN  (k \in DOMAIN rows /\ once(i)) =>
                    \A f \in Columns :
                        rows'[k][f] = IF ~asked(o, f) THEN rows[k][f]
                                      ELSE IF f = call'.expr THEN Evaluated(rows[k][f])
                                      ELSE obj[o][f]

LEMMA UpdatedIsStored ==
  ASSUME WInv, NEW q \in QS, NEW os, NEW e, NEW s, Updated(q, os, e, s),
         answer'.status = "ok", meant[answer'.on] = <<>>
  PROVE  AllStored
<1> DEFINE r == qs[q]
           n == Len(os)
<1>1. /\ answer'.on = q /\ call'.objs = os /\ call'.expr = e
      /\ s.status = "ok" /\ rows' = s.rows
  BY ToldIs DEF Updated, Written, Committed
<1>2. Cells(heap, r.where) = <<>>
  <2> DEFINE c == Conds(q)
  <2>1. IInv /\ Assigned(q) /\ meant[q] = <<>>
    BY <1>1 DEF WInv, Updated
  <2>2. Len(c) = Len(meant[q])
    BY <2>1, CondsOf
  <2>3. c = Cells(heap, r.where) /\ c \in Seq(Cond)
    <3>1. Good(heap, r.where, meant[q]) /\ heap \in Heaps
      BY <2>1 DEF IInv, AllGood
    <3> QED
      BY <3>1, CellsOf DEF Conds, Good
  <2> HIDE DEF c
  <2> QED
    BY <2>1, <2>2, <2>3
<1>3. Puts(rows, s.rows, r, e, os, n) /\ Hits(os, n)
  BY <1>1, <1>2 DEF Updated, Stores
<1>4. n \in Nat /\ DOMAIN os = 1 .. n /\ DOMAIN rows = db.roots
  BY LenProperties DEF Updated, WInv, RowsOK
<1> HIDE DEF n, r
<1>5. \E o \in ToSet(os) : obj[o].key \in DOMAIN rows
  BY <1>3, <1>4 DEF Hits, ToSet
<1>6. ASSUME NEW i \in DOMAIN os, obj[os[i]].key \in DOMAIN rows,
             \A j \in DOMAIN os : obj[os[j]].key = obj[os[i]].key => i = j,
             NEW f \in Columns
      PROVE  rows'[obj[os[i]].key][f] = Put(rows[obj[os[i]].key], os[i], r, e, f)
  BY <1>1, <1>3, <1>4, <1>6 DEF Puts
<1>7. ASSUME NEW o, NEW f \in Columns
      PROVE  f \in Chosen(r, o) <=> IF r.items = <<>> THEN obj[o][f] # 0
                                    ELSE \E i \in ToSet(r.items) : i.what \in {f, "all"}
  BY DEF Chosen, Named, Columns
<1> QED
  BY <1>1, <1>5, <1>6, <1>7 DEF AllStored, Put, r

\* After an update without conditions that answers success, in batches or
\* not, one row at least was there, and every object that was passed once and
\* whose row is there is stored, each column that was selected, or is not zero
\* when none was, with the object's value or with that of the expression, and
\* the others as they were (BulkUpdate and BatchUpdate).
THEOREM UpdatesAlwaysStored == WritesSpec => UpdatesAreStored
<1>1. ASSUME WInv, WritesNext
      PROVE  (answer'.op = "update" /\ answer'.status = "ok" /\ meant[answer'.on] = <<>>)
                => AllStored
  BY <1>1, StepsAnswer, UpdatedIsStored DEF Ops
<1>2. WInv /\ [WritesNext]_<<vars, stored>>
        => [(answer'.op = "update" /\ answer'.status = "ok" /\ meant[answer'.on] = <<>>)
              => AllStored]_<<vars, stored>>
  BY <1>1
<1> QED
  BY <1>2, WritesInvariant, PTL DEF WritesSpec, UpdatesAreStored, AllStored

-----------------------------------------------------------------------------
(* What is true of the querysets stays true with writes in between. *)

\* No write changes the querysets, and none but a removal takes a row away.
LEMMA WritesLeave ==
  ASSUME WInv, WritesNext, ~Next
  PROVE  UNCHANGED <<heap, qs, meant>> /\ OnlyMatchingGo
<1>1. ASSUME NEW op, NEW q, NEW s, NEW status, NEW os, NEW e,
             Told(op, q, s, status, os, e), DOMAIN rows \subseteq DOMAIN s.rows \/ op = "remove"
      PROVE  UNCHANGED <<heap, qs, meant>> /\ OnlyMatchingGo
  <2>1. UNCHANGED <<heap, qs, meant>>
    BY <1>1 DEF Told
  <2>2. /\ answer'.op = op /\ rows' = Committed(s)
        /\ db' = [db EXCEPT !.roots = DOMAIN rows']
    BY <1>1, ToldIs
  <2>3. DOMAIN rows = db.roots /\ db'.roots = DOMAIN rows'
    BY <2>2 DEF WInv, RowsOK
  <2>4. op # "remove" => db.roots \subseteq db'.roots
    BY <1>1, <2>2, <2>3 DEF Committed
  <2> QED
    BY <2>1, <2>2, <2>4 DEF OnlyMatchingGo
<1>2. Begun.rows = rows
  BY DEF Begun
<1>3. ASSUME NEW q \in QS, WritesOf(q)
      PROVE  UNCHANGED <<heap, qs, meant>> /\ OnlyMatchingGo
  <2>1. ASSUME NEW os, NEW e, NEW s, Updated(q, os, e, s)
        PROVE  UNCHANGED <<heap, qs, meant>> /\ OnlyMatchingGo
    BY <1>1, <1>2, <2>1 DEF Updated, Touches, Written
  <2>2. ASSUME NEW os, NEW ks, NEW s, Created(q, os, ks, s)
        PROVE  UNCHANGED <<heap, qs, meant>> /\ OnlyMatchingGo
    <3>1. CASE s.status = "ok"
      <4>1. DOMAIN rows \subseteq DOMAIN s.rows
        BY <2>2, <3>1 DEF Created, Made, Adds
      <4> QED
        BY <1>1, <2>2, <4>1 DEF Created, Written
    <3>2. CASE s.status # "ok"
      <4>1. /\ UNCHANGED <<heap, qs, meant>> /\ db' = [db EXCEPT !.roots = DOMAIN rows']
            /\ rows' = rows
        BY <2>2, <3>2 DEF Created, Written, Told, Committed
      <4> QED
        BY <4>1 DEF OnlyMatchingGo, WInv, RowsOK
    <3> QED
      BY <3>1, <3>2
  <2> QED
    BY <1>3, <2>1, <2>2, WritesTell
<1>4. ASSUME NEW o \in Object, Helpers(o)
      PROVE  UNCHANGED <<heap, qs, meant>> /\ OnlyMatchingGo
  <2>1. ASSUME NEW k, NEW s, SavedNew(o, k, s)
        PROVE  UNCHANGED <<heap, qs, meant>> /\ OnlyMatchingGo
    <3>1. CASE s.status = "ok"
      <4>1. DOMAIN rows \subseteq DOMAIN s.rows
        BY <2>1, <3>1 DEF SavedNew, Made, Adds
      <4> QED
        BY <1>1, <2>1, <4>1 DEF SavedNew
    <3>2. CASE s.status # "ok"
      <4>1. /\ UNCHANGED <<heap, qs, meant>> /\ db' = [db EXCEPT !.roots = DOMAIN rows']
            /\ rows' = rows
        BY <2>1, <3>2 DEF SavedNew, Told, Committed
      <4> QED
        BY <4>1 DEF OnlyMatchingGo, WInv, RowsOK
    <3> QED
      BY <3>1, <3>2
  <2>2. ASSUME NEW s, NEW status, Saved(o, s, status)
        PROVE  UNCHANGED <<heap, qs, meant>> /\ OnlyMatchingGo
    <3>1. DOMAIN rows \subseteq DOMAIN s.rows
      BY <1>2, <2>2, SavedSound DEF Touches
    <3> QED
      BY <1>1, <2>2, <3>1 DEF Saved
  <2>3. ASSUME NEW s, NEW status, Removed(o, s, status)
        PROVE  UNCHANGED <<heap, qs, meant>> /\ OnlyMatchingGo
    BY <1>1, <2>3 DEF Removed
  <2> QED
    BY <1>4, <2>1, <2>2, <2>3, HelpersTell
<1>5. ASSUME NEW o \in Object, NEW f \in Columns, NEW v \in Val, Change(o, f, v)
      PROVE  UNCHANGED <<heap, qs, meant>> /\ OnlyMatchingGo
  BY <1>5 DEF Change, OnlyMatchingGo
<1> QED
  BY <1>3, <1>4, <1>5 DEF WritesNext

LEMMA WritesOrNothing ==
  ASSUME WInv, [WritesNext]_<<vars, stored>>, ~Next
  PROVE  UNCHANGED <<heap, qs, meant>> /\ OnlyMatchingGo
<1>1. CASE UNCHANGED <<vars, stored>>
  BY <1>1 DEF vars, OnlyMatchingGo
<1>2. CASE WritesNext
  BY <1>2, WritesLeave
<1> QED
  BY <1>1, <1>2

\* As ConditionsAlwaysOwn, with writes between the calls of querysets.
THEOREM ConditionsStayOwn == WritesSpec => []ConditionsAreOwn
<1>1. WInv => ConditionsAreOwn
  BY CondsOf DEF WInv, ConditionsAreOwn, Assigned
<1> QED
  BY <1>1, WritesInvariant, PTL

\* As CacheIsAlwaysAsked, with writes between the calls of querysets: a kept
\* answer is that of the queryset as it is, though the rows may be others.
THEOREM CacheStaysAsked == WritesSpec => []CacheIsAsked
<1>1. WInv /\ CacheInv => CacheIsAsked
  BY CacheAsked DEF WInv
<1>2. WritesInit => CacheInv
  BY CacheInit DEF WritesInit
<1>3. WInv /\ CacheInv /\ [WritesNext]_<<vars, stored>> => CacheInv'
  <2> SUFFICES ASSUME WInv, CacheInv, [WritesNext]_<<vars, stored>>
               PROVE  CacheInv'
    OBVIOUS
  <2>1. CASE Next
    BY <2>1, CacheStep DEF WInv
  <2>2. CASE ~Next
    BY <2>2, WritesOrNothing, NothingCaches
  <2> QED
    BY <2>1, <2>2
<1> QED
  BY <1>1, <1>2, <1>3, WritesInvariant, PTL DEF WritesSpec

\* As DeletesAlwaysMatch, with writes between the calls of querysets: rows
\* go by a Delete and match its conditions, or by a DeleteObject.
THEOREM DeletesStillMatch == WritesSpec => DeletesOnlyMatching
<1>1. WInv /\ [WritesNext]_<<vars, stored>> => [OnlyMatchingGo]_vars
  <2> SUFFICES ASSUME WInv, [WritesNext]_<<vars, stored>>
               PROVE  OnlyMatchingGo
    OBVIOUS
  <2>1. HasRoots /\ IInv
    BY DEF WInv, HasRoots
  <2>2. CASE Next
    <3>1. CASE Deleting
      BY <2>1, <3>1, DeleteMatches DEF Deleting
    <3>2. CASE db.roots \subseteq db'.roots
      BY <3>2 DEF OnlyMatchingGo
    <3> QED
      BY <2>1, <2>2, <3>1, <3>2, RootsStay
  <2>3. CASE ~Next
    BY <2>3, WritesOrNothing
  <2> QED
    BY <2>2, <2>3
<1> QED
  BY <1>1, WritesInvariant, PTL DEF WritesSpec, DeletesOnlyMatching

-----------------------------------------------------------------------------
(* The answers. *)

\* The rows of a SELECT are finitely many.
Linked == \A r \in Relation : IsFiniteSet(db.link[r])

LEMMA JoinIsFinite ==
  ASSUME Linked, NEW from, IsFiniteSet(from), NEW r \in Relation
  PROVE  IsFiniteSet(Join(db, from, r))
<1> DEFINE linked(row) == {x \in db.link[r] : x.from = row[Of[r]].key}
           matches(row) == {[key |-> l.to, via |-> l.via] : l \in linked(row)}
           cells(row) == IF matches(row) = {} /\ IsLeftJoin(r) THEN {Null} ELSE matches(row)
           with(row, c) == [p \in DOMAIN row \union {r} |->
                               IF p \in DOMAIN row THEN row[p] ELSE c]
           joined(row) == {with(row, c) : c \in cells(row)}
           all == {joined(row) : row \in from}
<1>1. Join(db, from, r) = UNION all
  BY Zenon DEF Join
<1>2. ASSUME NEW row
      PROVE  IsFiniteSet(joined(row))
  <2>1. IsFiniteSet(linked(row))
    <3>1. linked(row) \subseteq db.link[r] /\ IsFiniteSet(db.link[r])
      BY DEF Linked
    <3> HIDE DEF linked
    <3> QED
      BY <3>1, FS_Subset
  <2> HIDE DEF linked
  <2>2. IsFiniteSet(matches(row))
    <3> DEFINE f == [l \in linked(row) |-> [key |-> l.to, via |-> l.via]]
    <3>1. f \in Surjection(linked(row), matches(row))
      BY DEF Surjection
    <3> HIDE DEF f, matches
    <3> QED
      BY <2>1, <3>1, FS_Surjection
  <2> HIDE DEF matches
  <2>3. IsFiniteSet(cells(row))
    BY <2>2, FS_Singleton
  <2> HIDE DEF cells
  <2> DEFINE g == [c \in cells(row) |-> with(row, c)]
  <2> HIDE DEF with
  <2>4. g \in Surjection(cells(row), joined(row))
    BY DEF Surjection
  <2> HIDE DEF g, joined
  <2> QED
    BY <2>3, <2>4, FS_Surjection
<1> HIDE DEF joined
<1>3. IsFiniteSet(all)
  <2> DEFINE f == [row \in from |-> joined(row)]
  <2>1. f \in Surjection(from, all)
    BY DEF Surjection
  <2> HIDE DEF f, all
  <2> QED
    BY <2>1, FS_Surjection
<1>4. \A T \in all : IsFiniteSet(T)
  BY <1>2
<1> HIDE DEF all
<1> QED
  BY <1>1, <1>3, <1>4, FS_UNION

EachJoined(base, joins) == FoldLeft(LAMBDA rs, r : Join(db, rs, r), base, joins)

LEMMA JoinedLoop ==
  ASSUME NEW base, NEW joins, NEW n \in Nat, DOMAIN joins = 1 .. n
  PROVE  Loops("joined", db, base, joins, n, EachJoined(base, joins))
<1> DEFINE D == DOMAIN joins
           turn(x, c) == Join(db, x, c)
           it == CHOOSE g : g = [a \in SUBSET D |->
                      IF a = {} THEN base ELSE turn(g[a \ {Max(a)}], joins[Max(a)])]
<1>1. EachJoined(base, joins) = it[D]
  BY DEF EachJoined, FoldLeft, MapThenFoldSet
<1>2. \A x, c : Turn("joined", db, x, c) = turn(x, c)
  BY DEF Turn
<1> HIDE DEF turn
<1>3. PICK g : Runs("joined", db, base, joins, n, g)
  BY LoopRuns
<1>4. g = [a \in SUBSET D |->
             IF a = {} THEN base ELSE turn(g[a \ {Max(a)}], joins[Max(a)])]
  BY <1>2, <1>3 DEF Runs
<1>5. it = [a \in SUBSET D |->
             IF a = {} THEN base ELSE turn(it[a \ {Max(a)}], joins[Max(a)])]
  BY <1>4
<1> HIDE DEF it
<1>6. Runs("joined", db, base, joins, n, it)
  BY <1>2, <1>5 DEF Runs
<1>7. Turns("joined", db, base, joins, n, it)
  BY <1>6, TurnsOf
<1> QED
  BY <1>1, <1>7 DEF Loops

LEMMA FoundIsFinite ==
  ASSUME Linked, RowsOK, NEW h, NEW r, Shaped(r)
  PROVE  IsFiniteSet(Found(h, r))
<1> DEFINE joins == r.joins
           n == Len(joins)
           K == Matching(h, r)
           root(k) == [p \in {None} |-> [key |-> k, via |-> 0]]
           base == {root(k) : k \in K}
<1>1. n \in Nat /\ DOMAIN joins = 1 .. n /\ \A i \in 1 .. n : joins[i] \in Relation
  BY LenProperties, ElementOfSeq DEF Shaped
<1>2. Found(h, r) = EachJoined(base, joins)
  BY Zenon DEF Found, JoinedRows, EachJoined
<1>3. IsFiniteSet(base)
  <2>1. K \subseteq Keys /\ IsFiniteSet(Keys)
    BY WritesAssumption DEF Matching, RowsOK
  <2> HIDE DEF K
  <2>2. IsFiniteSet(K)
    BY <2>1, FS_Subset
  <2> DEFINE f == [k \in K |-> root(k)]
  <2> HIDE DEF root
  <2>3. f \in Surjection(K, base)
    BY DEF Surjection
  <2> HIDE DEF f, base
  <2> QED
    BY <2>2, <2>3, FS_Surjection
<1> HIDE DEF base, n, joins
<1>4. PICK it : Turns("joined", db, base, joins, n, it) /\ Found(h, r) = it[1 .. n]
  <2>1. Loops("joined", db, base, joins, n, EachJoined(base, joins))
    BY <1>1, JoinedLoop
  <2> QED
    BY <1>2, <2>1 DEF Loops
<1> DEFINE P == {k \in 0 .. n : IsFiniteSet(it[1 .. k])}
<1>5. 0 \in P
  <2>1. 1 .. 0 = {} /\ 0 \in 0 .. n
    BY <1>1
  <2> QED
    BY <1>3, <1>4, <2>1 DEF Turns
<1>6. ASSUME NEW k \in 1 .. n, k - 1 \in P
      PROVE  k \in P
  <2> DEFINE x == it[1 .. (k - 1)]
  <2>1. it[1 .. k] = Join(db, x, joins[k])
    BY <1>4 DEF Turns, Turn
  <2>2. IsFiniteSet(x) /\ joins[k] \in Relation /\ k \in 0 .. n
    BY <1>1, <1>6
  <2> HIDE DEF x
  <2>3. IsFiniteSet(it[1 .. k])
    BY <2>1, <2>2, JoinIsFinite
  <2> QED
    BY <2>2, <2>3
<1> HIDE DEF P
<1>7. n \in P
  BY <1>1, <1>5, <1>6, UpTo
<1> QED
  BY <1>4, <1>7 DEF P

\* The trees that All makes of rows.
Treelike(t) ==
    DOMAIN t = {"status", "roots", "nodes"} /\ t.status \in {"rows", "error", "panic"}

LEMMA TreesAre ==
  Treelike(EmptyTree) /\ Treelike(Failed("error")) /\ Treelike(Failed("panic"))
BY DEF Treelike, EmptyTree, Failed

LEMMA ChainIsTree ==
  ASSUME NEW t, Treelike(t), NEW items, NEW row, NEW u, NEW r
  PROVE  Treelike(AddRelationChain(t, items, row, u, r))
<1>1. \/ AddRelationChain(t, items, row, u, r) = Failed("panic")
      \/ AddRelationChain(t, items, row, u, r) = t
      \/ \E ns : AddRelationChain(t, items, row, u, r) = [t EXCEPT !.nodes = ns]
  BY Zenon DEF AddRelationChain
<1>2. CASE \E ns : AddRelationChain(t, items, row, u, r) = [t EXCEPT !.nodes = ns]
  <2>1. PICK ns : AddRelationChain(t, items, row, u, r) = [t EXCEPT !.nodes = ns]
    BY <1>2
  <2>2. Treelike([t EXCEPT !.nodes = ns])
    BY DEF Treelike
  <2> QED
    BY <2>1, <2>2
<1> QED
  BY <1>1, <1>2, TreesAre

LEMMA RootIsTree ==
  ASSUME NEW t, Treelike(t), NEW items, NEW row, NEW u
  PROVE  Treelike(AddRoot(t, items, row, u))
<1>1. \/ AddRoot(t, items, row, u) = t
      \/ \E rs, ns : AddRoot(t, items, row, u) = [t EXCEPT !.roots = rs, !.nodes = ns]
  BY Zenon DEF AddRoot
<1>2. CASE \E rs, ns : AddRoot(t, items, row, u) = [t EXCEPT !.roots = rs, !.nodes = ns]
  <2>1. PICK rs, ns :
           AddRoot(t, items, row, u) = [t EXCEPT !.roots = rs, !.nodes = ns]
    BY <1>2
  <2>2. Treelike([t EXCEPT !.roots = rs, !.nodes = ns])
    BY DEF Treelike
  <2> QED
    BY <2>1, <2>2
<1> QED
  BY <1>1, <1>2

\* The relations of one row.
EachChained(t, items, row, u) ==
    LET chain(x, item) ==
            IF x.status = "rows" /\ item.at # None /\ Kind[item.at] # "fk"
            THEN AddRelationChain(x, items, row, u, item.at) ELSE x
    IN  FoldLeft(chain, t, items)

LEMMA ChainsLoop ==
  ASSUME NEW base, NEW items, NEW row, NEW u, NEW n \in Nat, DOMAIN items = 1 .. n
  PROVE  Loops("chains", [items |-> items, row |-> row, u |-> u], base, items, n,
               EachChained(base, items, row, u))
<1> DEFINE D == DOMAIN items
           p == [items |-> items, row |-> row, u |-> u]
           turn(x, c) == IF x.status = "rows" /\ c.at # None /\ Kind[c.at] # "fk"
                         THEN AddRelationChain(x, items, row, u, c.at) ELSE x
           it == CHOOSE g : g = [a \in SUBSET D |->
                      IF a = {} THEN base ELSE turn(g[a \ {Max(a)}], items[Max(a)])]
<1>1. EachChained(base, items, row, u) = it[D]
  BY DEF EachChained, FoldLeft, MapThenFoldSet
<1>2. \A x, c : Turn("chains", p, x, c) = turn(x, c)
  BY DEF Turn
<1> HIDE DEF turn
<1>3. PICK g : Runs("chains", p, base, items, n, g)
  BY LoopRuns
<1>4. g = [a \in SUBSET D |->
             IF a = {} THEN base ELSE turn(g[a \ {Max(a)}], items[Max(a)])]
  BY <1>2, <1>3 DEF Runs
<1>5. it = [a \in SUBSET D |->
             IF a = {} THEN base ELSE turn(it[a \ {Max(a)}], items[Max(a)])]
  BY <1>4
<1> HIDE DEF it
<1>6. Runs("chains", p, base, items, n, it)
  BY <1>2, <1>5 DEF Runs
<1>7. Turns("chains", p, base, items, n, it)
  BY <1>6, TurnsOf
<1> QED
  BY <1>1, <1>7 DEF Loops

LEMMA RowIsTree ==
  ASSUME NEW t, Treelike(t), NEW items \in Seq(Item), NEW row, NEW i
  PROVE  Treelike(ScanRow(t, items, row, i))
<1> DEFINE key == IF HasRoot(items) THEN UniqueKey(items, row, None) ELSE Zero
           u == IF key = Zero THEN <<"row", i>> ELSE key
           p == [items |-> items, row |-> row, u |-> u]
           base == AddRoot(t, items, row, u)
           last == EachChained(base, items, row, u)
           n == Len(items)
<1>1. ScanRow(t, items, row, i) = Failed("error") \/ ScanRow(t, items, row, i) = last
  BY Zenon DEF ScanRow, EachChained
<1> HIDE DEF u, key
<1>2. n \in Nat /\ DOMAIN items = 1 .. n
  BY LenProperties
<1>3. Treelike(base)
  BY RootIsTree
<1> HIDE DEF n, base
<1>4. PICK it : Turns("chains", p, base, items, n, it) /\ last = it[1 .. n]
  <2>1. Loops("chains", p, base, items, n, last)
    BY <1>2, ChainsLoop
  <2> QED
    BY <2>1 DEF Loops
<1> HIDE DEF last
<1> DEFINE P == {k \in 0 .. n : Treelike(it[1 .. k])}
<1>5. 0 \in P
  <2>1. 1 .. 0 = {} /\ 0 \in 0 .. n
    BY <1>2
  <2> QED
    BY <1>3, <1>4, <2>1 DEF Turns
<1>6. ASSUME NEW k \in 1 .. n, k - 1 \in P
      PROVE  k \in P
  <2> DEFINE x == it[1 .. (k - 1)]
             y == it[1 .. k]
             r == items[k].at
  <2>1. y = x \/ y = AddRelationChain(x, items, row, u, r)
    BY <1>4 DEF Turns, Turn
  <2>2. Treelike(x) /\ k \in 0 .. n
    BY <1>2, <1>6
  <2> HIDE DEF x, y, r
  <2>3. Treelike(y)
    BY <2>1, <2>2, ChainIsTree
  <2> QED
    BY <2>2, <2>3 DEF y
<1> HIDE DEF P
<1>7. n \in P
  BY <1>2, <1>5, <1>6, UpTo
<1>8. Treelike(last)
  BY <1>4, <1>7 DEF P
<1> QED
  BY <1>1, <1>8, TreesAre

\* The rows of one answer.
EachScanned(from, items) ==
    LET scan(t, i) == IF t.status = "rows" THEN ScanRow(t, items, from[i], i) ELSE t
    IN  FoldLeftDomain(scan, EmptyTree, from)

LEMMA ScansLoop ==
  ASSUME NEW from, NEW items, NEW m \in Nat, DOMAIN from = 1 .. m
  PROVE  Loops("scans", [items |-> items, rows |-> from], EmptyTree, [i \in 1 .. m |-> i], m,
               EachScanned(from, items))
<1> DEFINE D == 1 .. m
           p == [items |-> items, rows |-> from]
           seq == [i \in D |-> i]
           turn(x, c) == IF x.status = "rows" THEN ScanRow(x, items, from[c], c) ELSE x
           it == CHOOSE g : g = [s \in SUBSET D |->
                      IF s = {} THEN EmptyTree ELSE turn(g[s \ {Max(s)}], seq[Max(s)])]
<1>1. EachScanned(from, items) = it[D]
  BY DEF EachScanned, FoldLeftDomain, FoldLeft, MapThenFoldSet
<1>2. \A x, c : Turn("scans", p, x, c) = turn(x, c)
  BY DEF Turn
<1>3. PICK g : Runs("scans", p, EmptyTree, seq, m, g)
  BY LoopRuns
<1> HIDE DEF turn, seq
<1>4. g = [s \in SUBSET D |->
             IF s = {} THEN EmptyTree ELSE turn(g[s \ {Max(s)}], seq[Max(s)])]
  BY <1>2, <1>3 DEF Runs
<1>5. it = [s \in SUBSET D |->
             IF s = {} THEN EmptyTree ELSE turn(it[s \ {Max(s)}], seq[Max(s)])]
  BY <1>4
<1> HIDE DEF it
<1>6. Runs("scans", p, EmptyTree, seq, m, it)
  BY <1>2, <1>5 DEF Runs
<1>7. Turns("scans", p, EmptyTree, seq, m, it)
  BY <1>6, TurnsOf
<1> QED
  BY <1>1, <1>7 DEF Loops, seq

LEMMA DedupeIsTree ==
  ASSUME NEW from, NEW m \in Nat, DOMAIN from = 1 .. m, NEW items \in Seq(Item)
  PROVE  Treelike(Dedupe(from, items))
<1> DEFINE p == [items |-> items, rows |-> from]
           seq == [i \in 1 .. m |-> i]
           last == EachScanned(from, items)
<1>1. Dedupe(from, items) = Failed("error") \/ Dedupe(from, items) = last
  BY Zenon DEF Dedupe, EachScanned
<1>2. PICK it : Turns("scans", p, EmptyTree, seq, m, it) /\ last = it[1 .. m]
  <2>1. Loops("scans", p, EmptyTree, seq, m, last)
    BY ScansLoop
  <2> QED
    BY <2>1 DEF Loops
<1> HIDE DEF last
<1> DEFINE P == {k \in 0 .. m : Treelike(it[1 .. k])}
<1>3. 0 \in P
  <2>1. 1 .. 0 = {} /\ 0 \in 0 .. m
    OBVIOUS
  <2> QED
    BY <1>2, <2>1, TreesAre DEF Turns
<1>4. ASSUME NEW k \in 1 .. m, k - 1 \in P
      PROVE  k \in P
  <2> DEFINE x == it[1 .. (k - 1)]
             y == it[1 .. k]
  <2>1. y = x \/ y = ScanRow(x, items, from[k], k)
    BY <1>2 DEF Turns, Turn
  <2>2. Treelike(x) /\ k \in 0 .. m
    BY <1>4
  <2> HIDE DEF x, y
  <2>3. Treelike(y)
    BY <2>1, <2>2, RowIsTree
  <2> QED
    BY <2>2, <2>3 DEF y
<1> HIDE DEF P
<1>5. m \in P
  BY <1>3, <1>4, UpTo
<1>6. Treelike(last)
  BY <1>2, <1>5 DEF P
<1> QED
  BY <1>1, <1>6, TreesAre

LEMMA TreesAreTrees ==
  ASSUME Linked, RowsOK, NEW h, NEW r, Shaped(r), NEW t \in Trees(h, r)
  PROVE  Treelike(t)
<1> DEFINE S == Found(h, r)
<1>1. IsFiniteSet(S)
  BY FoundIsFinite
<1>2. CASE t = Failed("error")
  BY <1>2, TreesAre
<1>3. CASE t # Failed("error")
  <2>1. PICK s \in Arrangements(S, r.order) :
           t = Dedupe(Slice(s, r.limit, r.offset), r.items)
    BY <1>3 DEF Trees
  <2>2. s \in [1 .. Cardinality(S) -> S] /\ Cardinality(S) \in Nat
    BY <1>1, <2>1, FS_CardinalityType DEF Arrangements, SetToSeqs
  <2> HIDE DEF S
  <2>3. s \in Seq(S) /\ Len(s) \in Nat
    BY <2>2
  <2> DEFINE end == IF r.limit > 0 /\ r.offset + r.limit < Len(s) THEN r.offset + r.limit
                                                                  ELSE Len(s)
             from == SubSeq(s, r.offset + 1, end)
  <2>4. Slice(s, r.limit, r.offset) = from
    BY DEF Slice
  <2>5. r.offset \in Nat /\ r.limit \in Nat /\ r.items \in Seq(Item)
    BY DEF Shaped
  <2>6. r.offset + 1 \in Int /\ end \in Int /\ \A i \in r.offset + 1 .. end : s[i] \in S
    <3>1. end \in Nat /\ end <= Len(s)
      BY <2>3, <2>5
    <3>2. \A i \in 1 .. Len(s) : s[i] \in S
      BY <2>3, ElementOfSeq
    <3> HIDE DEF end
    <3> QED
      BY <2>3, <2>5, <3>1, <3>2
  <2> HIDE DEF end
  <2>7. from \in Seq(S)
    BY <2>6, SubSeqProperties
  <2> HIDE DEF from
  <2>8. Len(from) \in Nat /\ DOMAIN from = 1 .. Len(from)
    BY <2>7, LenProperties
  <2> QED
    BY <2>1, <2>4, <2>5, <2>8, DedupeIsTree
<1> QED
  BY <1>2, <1>3

\* The status and the queryset of an answer.
Says == answer.status \in Statuses /\ answer.on \in QS

LEMMA AnsweredSays ==
  ASSUME NEW op, NEW q \in QS, NEW status \in Statuses, NEW tree, NEW value,
         Answered(op, q, status, tree, value)
  PROVE  Says'
<1>1. answer'.status = status /\ answer'.on = q
  BY DEF Answered
<1> QED
  BY <1>1 DEF Says, Statuses

LEMMA StatusesAre ==
  /\ "ok" \in Statuses /\ "error" \in Statuses /\ "panic" \in Statuses
  /\ "no rows" \in Statuses /\ "multiple" \in Statuses
BY DEF Statuses

\* What the calls make of the status of a tree.
LEMMA TreesTell ==
  ASSUME NEW t, Treelike(t)
  PROVE  StatusOf(t) \in Statuses /\ (t.status # "rows" => t.status \in Statuses)
BY DEF Treelike, StatusOf, Statuses

LEMMA ReadsSay ==
  ASSUME WInv, Linked, NEW q \in QS, Reads(q)
  PROVE  Says'
<1>1. AllShaped /\ RowsOK
  BY DEF WInv
<1>2. ASSUME NEW op, NEW kind, FromCache(op, q, kind)
      PROVE  Says'
  <2>1. answer'.on = q /\ answer'.status \in {"ok", "panic"}
    BY <1>2 DEF FromCache
  <2> QED
    BY <2>1 DEF Says, Statuses
<1>3. ASSUME All(q)
      PROVE  Says'
  <2> DEFINE p == Prepared(q, <<>>)
  <2>1. Shaped(p.set)
    BY <1>1, <1>3, NoItems, PreparedShaped DEF All, Assigned
  <2>2. PICK t \in Trees(p.heap, p.set) : Answered("all", q, StatusOf(t), t, Len(t.roots))
    BY <1>3 DEF All
  <2> HIDE DEF p
  <2> QED
    BY <1>1, <2>1, <2>2, TreesAreTrees, TreesTell, AnsweredSays
<1>4. ASSUME Get(q)
      PROVE  Says'
  <2> DEFINE p == Limited(q, GetLimit, qs[q].order)
  <2>1. Assigned(q) /\ qs[q].order \in Orders
    BY <1>1, <1>4 DEF Get, Assigned, AllShaped, Shaped
  <2>2. Shaped(p.set)
    BY <1>1, <2>1, LimitedShaped, QueriesAssumption
  <2>3. PICK t \in Trees(p.heap, p.set) : \E status, n :
           /\ Answered("get", q, status, t, n)
           /\ \/ t.status # "rows" /\ status = t.status
              \/ status \in {"no rows", "multiple", "ok"}
    BY <1>4 DEF Get
  <2> HIDE DEF p
  <2>4. Treelike(t)
    BY <1>1, <2>2, <2>3, TreesAreTrees
  <2> QED
    BY <2>3, <2>4, TreesTell, AnsweredSays, StatusesAre
<1>5. ASSUME NEW op, NEW order \in Orders, FirstOf(op, q, order)
      PROVE  Says'
  <2> DEFINE p == Limited(q, 1, order)
  <2>1. Assigned(q)
    BY <1>5 DEF FirstOf, Assigned
  <2>2. Shaped(p.set)
    BY <1>1, <2>1, LimitedShaped
  <2>3. PICK t \in Trees(p.heap, p.set) : \E status, n :
           Answered(op, q, status, t, n) /\ status \in {"no rows", StatusOf(t)}
    BY <1>5 DEF FirstOf
  <2> HIDE DEF p
  <2>4. Treelike(t)
    BY <1>1, <2>2, <2>3, TreesAreTrees
  <2> QED
    BY <2>3, <2>4, TreesTell, AnsweredSays, StatusesAre
<1>6. ASSUME NEW kind, NEW items, Values(q, kind, items)
      PROVE  Says'
  BY <1>6, AnsweredSays, StatusesAre DEF Values
<1>7. ASSUME Aggregate(q)
      PROVE  Says'
  BY <1>7, AnsweredSays, StatusesAre DEF Aggregate
<1>8. ASSUME Count(q) \/ Exists(q)
      PROVE  Says'
  BY <1>8, AnsweredSays, StatusesAre DEF Count, Exists, Counts
<1>9. ASSUME GetFirst(q) \/ GetLast(q)
      PROVE  Says'
  <2>1. qs[q].order \in Orders /\ Flipped(qs[q].order) \in Orders
    BY <1>1, <1>9 DEF GetFirst, GetLast, AllShaped, Assigned, Shaped, Flipped, Orders
  <2> QED
    BY <1>5, <1>9, <2>1 DEF GetFirst, GetLast
<1> QED
  BY <1>2, <1>3, <1>4, <1>6, <1>7, <1>8, <1>9 DEF Reads, Cachings

LEMMA GetOrCreateSays ==
  ASSUME WInv, Linked, NEW q \in QS, NEW k, GetOrCreate(q, k)
  PROVE  Says'
<1> DEFINE l == Limited(q, GetLimit, qs[q].order)
           r == [l.set EXCEPT !.useCache = FALSE]
           p == [l EXCEPT !.set.useCache = FALSE]
<1>1. AllShaped /\ RowsOK
  BY DEF WInv
<1>2. Assigned(q) /\ qs[q].order \in Orders
  BY <1>1 DEF GetOrCreate, Assigned, AllShaped, Shaped
<1>3. Shaped(l.set)
  BY <1>1, <1>2, LimitedShaped, QueriesAssumption
<1>4. p.set = r
  <2>1. l = [heap |-> l.heap, set |-> l.set]
    BY DEF Limited
  <2> QED
    BY <2>1
<1>5. CASE Conds(q) = <<>>
  <2>1. Answered("get or create", q, "panic", None, 0)
    BY <1>5 DEF GetOrCreate
  <2> QED
    BY <2>1, AnsweredSays, StatusesAre
<1>6. CASE Conds(q) # <<>>
  <2>1. PICK t \in Trees(p.heap, p.set) : \E status, tree, n :
           /\ Answered("get or create", q, status, tree, n)
           /\ \/ t.status # "rows" /\ status = t.status
              \/ status \in {"ok", "multiple"}
    BY <1>6 DEF GetOrCreate
  <2> HIDE DEF p, l
  <2>2. Shaped(r)
    BY <1>3 DEF Shaped, Fields
  <2> HIDE DEF r
  <2>3. Treelike(t)
    BY <1>1, <1>4, <2>1, <2>2, TreesAreTrees
  <2> QED
    BY <2>1, <2>3, TreesTell, AnsweredSays, StatusesAre
<1> QED
  BY <1>5, <1>6

LEMMA CallsSay ==
  ASSUME WInv, Linked, Next
  PROVE  Says'
<1>1. ASSUME NEW q \in QS, NEW d \in QS, Makes(q, d)
      PROVE  Says'
  <2>1. Answered("make", q, "ok", None, 0)
    BY <1>1 DEF Makes, Limit, Offset, OrderBy, Backwards, Select, Annotate, Filter, Make
  <2> QED
    BY <2>1, AnsweredSays, StatusesAre
<1>2. ASSUME NEW q \in QS, NEW c, Scope(q, c)
      PROVE  Says'
  BY <1>2, AnsweredSays, StatusesAre DEF Scope
<1>3. ASSUME NEW q \in QS, NEW objs, Delete(q, objs)
      PROVE  Says'
  BY <1>3, AnsweredSays, StatusesAre DEF Delete
<1>4. ASSUME NEW q \in QS, Writes(q)
      PROVE  Says'
  BY <1>3, <1>4, GetOrCreateSays DEF Writes
<1> QED
  BY <1>1, <1>2, <1>4, ReadsSay DEF Next

LEMMA ToldSays ==
  ASSUME NEW op, NEW q \in QS, NEW s, NEW status \in Statuses, NEW os, NEW e,
         Told(op, q, s, status, os, e)
  PROVE  Says'
BY AnsweredSays DEF Told

LEMMA WritesSay ==
  ASSUME WInv, Linked, Says, WritesNext
  PROVE  Says'
<1>1. CASE Next /\ Follow
  BY <1>1, CallsSay
<1>2. ASSUME NEW q \in QS, WritesOf(q)
      PROVE  Says'
  <2>1. ASSUME NEW os, NEW e, NEW s, Updated(q, os, e, s)
        PROVE  Says'
    BY <2>1, ToldSays DEF Updated, Written, Sound
  <2>2. ASSUME NEW os, NEW ks, NEW s, Created(q, os, ks, s)
        PROVE  Says'
    BY <2>2, ToldSays DEF Created, Written, Made, Sound
  <2> QED
    BY <1>2, <2>1, <2>2, WritesTell
<1>3. ASSUME NEW o \in Object, Helpers(o)
      PROVE  Says'
  <2>0. answer.on \in QS
    BY DEF Says
  <2>1. ASSUME NEW k, NEW s, SavedNew(o, k, s)
        PROVE  Says'
    BY <2>0, <2>1, ToldSays DEF SavedNew, Made, Sound
  <2>2. ASSUME NEW s, NEW status, Saved(o, s, status)
        PROVE  Says'
    <3>1. s.status \in Statuses
      BY <2>2, SavedSound DEF Sound
    <3>2. status \in Statuses
      BY <2>2, <3>1, StatusesAre DEF Saved
    <3> QED
      BY <2>0, <2>2, <3>2, ToldSays DEF Saved
  <2>3. ASSUME NEW s, NEW status, Removed(o, s, status)
        PROVE  Says'
    <3>1. status \in Statuses
      BY <2>3, StatusesAre DEF Removed
    <3> QED
      BY <2>0, <2>3, <3>1, ToldSays DEF Removed
  <2> QED
    BY <1>3, <2>1, <2>2, <2>3, HelpersTell
<1>4. ASSUME NEW o \in Object, NEW f \in Columns, NEW v \in Val, Change(o, f, v)
      PROVE  Says'
  <2>1. Answered("set", answer.on, "ok", None, 0) /\ answer.on \in QS
    BY <1>4 DEF Change, Says
  <2> QED
    BY <2>1, AnsweredSays, StatusesAre
<1> QED
  BY <1>1, <1>2, <1>3, <1>4 DEF WritesNext

\* No call makes a link.
LEMMA LinksStay ==
  ASSUME WInv, WritesNext
  PROVE  db'.link = db.link
<1>1. db = [roots |-> db.roots, link |-> db.link]
  BY DEF WInv
<1>2. ASSUME NEW R, db' = [db EXCEPT !.roots = R]
      PROVE  db'.link = db.link
  BY <1>1, <1>2
<1>3. CASE Next
  <2>1. ASSUME NEW gone, db' = [db EXCEPT !.roots = @ \ gone]
        PROVE  db'.link = db.link
    BY <1>1, <2>1
  <2>2. ASSUME NEW k, db' = [db EXCEPT !.roots = @ \union {k}]
        PROVE  db'.link = db.link
    BY <1>1, <2>2
  <2> QED
    BY <1>3, <2>1, <2>2, CallsAnswer
<1>4. ASSUME NEW op, NEW q, NEW s, NEW status, NEW os, NEW e, Told(op, q, s, status, os, e)
      PROVE  db'.link = db.link
  BY <1>2, <1>4, ToldIs
<1>5. ASSUME NEW q \in QS, WritesOf(q)
      PROVE  db'.link = db.link
  BY <1>4, <1>5, WritesTell DEF Updated, Created, Written
<1>6. ASSUME NEW o \in Object, Helpers(o)
      PROVE  db'.link = db.link
  BY <1>4, <1>6, HelpersTell DEF SavedNew, Saved, Removed
<1>7. ASSUME NEW o, NEW f, NEW v, Change(o, f, v)
      PROVE  db'.link = db.link
  BY <1>7 DEF Change
<1> QED
  BY <1>3, <1>5, <1>6, <1>7 DEF WritesNext

LEMMA TypesFollow == WInv /\ Says => TypeOK
<1> SUFFICES ASSUME WInv, Says
             PROVE  TypeOK
  OBVIOUS
<1>1. IInv /\ AllShaped /\ db.roots \subseteq Keys
  BY DEF WInv, RowsOK
<1>2. \A a \in Array : heap[a] \in Seq((SUBSET Keys) \union {None})
  BY <1>1 DEF IInv, Heaps, Cond
<1>3. ASSUME NEW q \in QS
      PROVE  meant[q] \in Seq(SUBSET Keys) /\ (qs[q] = None \/ QuerySetOf(qs[q]))
  <2>1. qs[q] # None =>
           qs[q].where \in Slices /\ qs[q].where.len <= Len(heap[qs[q].where.arr])
    BY <1>1 DEF IInv, AllGood, Assigned, Good
  <2>2. meant[q] \in Seq(SUBSET Keys)
    BY <1>1 DEF IInv
  <2>3. qs[q] # None => Shaped(qs[q])
    BY <1>1 DEF AllShaped, Assigned
  <2> QED
    BY <2>1, <2>2, <2>3 DEF Shaped, QuerySetOf
<1> QED
  BY <1>1, <1>2, <1>3 DEF TypeOK, Says

\* Every slice of conditions lies within its array, every queryset has a
\* limit, an offset, an order and lists of fields and joins, whichever calls
\* have changed it in place, and every call answers one of the known
\* statuses, for any database, any rows and any answer of the database
\* (QuerySet and its methods).
THEOREM TypesHold == WritesSpec => []TypeOK
<1> DEFINE TInv == Linked /\ Says
<1>1. WritesInit => TInv
  <2> SUFFICES ASSUME WritesInit
               PROVE  TInv
    OBVIOUS
  <2>1. Linked
    BY DEF WritesInit, Init, Linked
  <2>2. answer.status = "ok" /\ answer.on \in QS
    BY DEF WritesInit, Init
  <2> QED
    BY <2>1, <2>2, StatusesAre DEF Says
<1>2. WInv /\ TInv /\ [WritesNext]_<<vars, stored>> => TInv'
  <2> SUFFICES ASSUME WInv, TInv, [WritesNext]_<<vars, stored>>
               PROVE  TInv'
    OBVIOUS
  <2>1. CASE WritesNext
    <3>1. Says'
      BY <2>1, WritesSay
    <3>2. db'.link = db.link
      BY <2>1, LinksStay
    <3> QED
      BY <3>1, <3>2 DEF Linked
  <2>2. CASE UNCHANGED <<vars, stored>>
    <3>1. answer' = answer /\ db' = db
      BY <2>2 DEF vars
    <3> QED
      BY <3>1 DEF Says, Linked
  <2> QED
    BY <2>1, <2>2
<1>3. WInv /\ TInv => TypeOK
  BY TypesFollow
<1> HIDE DEF TInv
<1> QED
  BY <1>1, <1>2, <1>3, WritesInvariant, PTL DEF WritesSpec

-----------------------------------------------------------------------------
(* The rows of a SELECT and the objects that it should find. *)

\* What the recursion of Stays equates, for the database d.
StayKeys(d) == {0} \union d.roots \union UNION {{l.to : l \in d.link[r]} : r \in Relation}
Below(joins, p) == {r \in ToSet(joins) : Of[r] = p}
StaysAt(d, joins, s, x) ==
    \A r \in Below(joins, x[1]) :
        \/ \E t \in Targets(d, r, x[2]) : s[<<r, t>>]
        \/ Targets(d, r, x[2]) = {} /\ IsLeftJoin(r) /\ s[<<r, 0>>]
IsStays(d, joins, s) == s = [x \in Place \X StayKeys(d) |-> StaysAt(d, joins, s, x)]

\* There is a function like that: it holds of what every set of places and
\* keys that support each other holds of.
LEMMA StaysIsOne ==
  ASSUME NEW d, NEW joins, NEW s, IsStays(d, joins, s)
  PROVE  IsStays(d, joins, Stays(d, joins))
BY Zenon DEF IsStays, StaysAt, StayKeys, Below, Stays

\* The keys x of X that hold as far as those of W do.
Holding(X, W) == [x \in X |-> x \in W]

LEMMA MoreHold ==
  ASSUME NEW d, NEW joins, NEW X, NEW V \in SUBSET X, NEW W \in SUBSET X, V \subseteq W,
         NEW x, StaysAt(d, joins, Holding(X, V), x),
         \A r \in Below(joins, x[1]) :
            <<r, 0>> \in X /\ \A t \in Targets(d, r, x[2]) : <<r, t>> \in X
  PROVE  StaysAt(d, joins, Holding(X, W), x)
<1> DEFINE v == Holding(X, V)
           w == Holding(X, W)
<1>1. \A y \in X : v[y] => w[y]
  BY DEF Holding
<1> HIDE DEF v, w
<1> QED
  BY <1>1 DEF StaysAt, v, w

\* The largest set of places and keys that support each other.
Supports(d, joins, X, W) == \A y \in W : StaysAt(d, joins, Holding(X, W), y)

LEMMA LargestSupports ==
  ASSUME NEW d, NEW joins, NEW X,
         \A x \in X : \A r \in Below(joins, x[1]) :
            <<r, 0>> \in X /\ \A t \in Targets(d, r, x[2]) : <<r, t>> \in X
  PROVE  \E G \in SUBSET X : \A x \in X : (x \in G) <=> StaysAt(d, joins, Holding(X, G), x)
<1> DEFINE At(W, x) == StaysAt(d, joins, Holding(X, W), x)
           Holders == {W \in SUBSET X : Supports(d, joins, X, W)}
           G == UNION Holders
<1>1. ASSUME NEW V \in SUBSET X, NEW W \in SUBSET X, V \subseteq W, NEW x \in X, At(V, x)
      PROVE  At(W, x)
  BY <1>1, MoreHold
<1>2. G \in SUBSET X /\ \A W \in Holders : W \in SUBSET X /\ W \subseteq G
  OBVIOUS
<1>3. \A W \in Holders : \A y \in W : At(W, y)
  BY DEF Supports
<1>4. \A W \in SUBSET X : (\A y \in W : At(W, y)) => W \in Holders
  BY DEF Supports
<1>5. \A x \in G : \E W \in Holders : x \in W
  OBVIOUS
<1> HIDE DEF At, Holders, G
<1>6. ASSUME NEW x \in G
      PROVE  At(G, x)
  BY <1>1, <1>2, <1>3, <1>5
<1>7. ASSUME NEW x \in X, At(G, x)
      PROVE  x \in G
  <2> DEFINE V == G \union {x}
  <2>1. V \in SUBSET X /\ G \subseteq V /\ x \in V
    BY <1>2
  <2>2. ASSUME NEW y \in V
        PROVE  At(V, y)
    <3>1. At(G, y) /\ y \in X
      BY <1>2, <1>6, <1>7
    <3> QED
      BY <1>1, <1>2, <2>1, <3>1
  <2>3. V \in Holders
    BY <1>4, <2>1, <2>2
  <2> QED
    BY <1>2, <2>1, <2>3
<1> QED
  BY <1>2, <1>6, <1>7 DEF At

LEMMA StaysIs ==
  ASSUME NEW d, NEW joins, ToSet(joins) \subseteq Relation
  PROVE  IsStays(d, joins, Stays(d, joins))
<1> DEFINE X == Place \X StayKeys(d)
<1>1. ASSUME NEW x \in X, NEW r \in Below(joins, x[1])
      PROVE  <<r, 0>> \in X /\ \A t \in Targets(d, r, x[2]) : <<r, t>> \in X
  <2>1. r \in Relation /\ r \in Place
    BY DEF Below, Place
  <2>2. 0 \in StayKeys(d) /\ \A t \in Targets(d, r, x[2]) : t \in StayKeys(d)
    BY <2>1 DEF Targets, StayKeys
  <2> QED
    BY <2>1, <2>2
<1> HIDE DEF X
<1>2. PICK G \in SUBSET X : \A x \in X : (x \in G) <=> StaysAt(d, joins, Holding(X, G), x)
  BY <1>1, LargestSupports
<1> DEFINE h == Holding(X, G)
<1>3. h = [x \in X |-> StaysAt(d, joins, h, x)]
  <2>1. \A x \in X : (x \in G) = StaysAt(d, joins, h, x)
    <3>1. \A x : StaysAt(d, joins, h, x) \in BOOLEAN
      BY DEF StaysAt
    <3> QED
      BY <1>2, <3>1
  <2> QED
    BY <2>1 DEF Holding
<1>4. IsStays(d, joins, h)
  BY <1>3 DEF IsStays, X
<1> QED
  BY <1>4, StaysIsOne

\* Whether an object stays, one place further.
Supported(d, joins, s, p, k) ==
    \A r \in Below(joins, p) :
        \/ \E t \in Targets(d, r, k) : s[<<r, t>>]
        \/ Targets(d, r, k) = {} /\ IsLeftJoin(r) /\ s[<<r, 0>>]

LEMMA StaysBelow ==
  ASSUME NEW d, NEW joins, ToSet(joins) \subseteq Relation,
         NEW p \in Place, NEW k \in StayKeys(d)
  PROVE  Stays(d, joins)[<<p, k>>] <=> Supported(d, joins, Stays(d, joins), p, k)
<1> DEFINE s == Stays(d, joins)
           x == <<p, k>>
<1>1. IsStays(d, joins, s)
  BY StaysIs
<1> HIDE DEF s
<1>2. x \in Place \X StayKeys(d) /\ x[1] = p /\ x[2] = k
  OBVIOUS
<1> HIDE DEF x
<1>3. s[x] = StaysAt(d, joins, s, x)
  BY <1>1, <1>2 DEF IsStays
<1>4. s[x] <=> StaysAt(d, joins, s, x)
  BY <1>3
<1> QED
  BY <1>2, <1>4 DEF StaysAt, Supported, s, x

\* What holds of a place when it holds of those joined below it holds of all.
LEMMA FromBelow ==
  ASSUME NEW joins \in Seq(Relation), Joinable(joins), NEW S,
         \A p \in Place : (\A r \in Below(joins, p) : r \in S) => p \in S
  PROVE  Place \subseteq S
<1> DEFINE n == Len(joins)
<1>1. n \in Nat /\ DOMAIN joins = 1 .. n /\ \A i \in 1 .. n : joins[i] \in Relation
  BY LenProperties, ElementOfSeq
<1>2. ToSet(joins) = {joins[i] : i \in 1 .. n}
  BY <1>1 DEF ToSet
<1>0. \A r \in ToSet(joins) : r \in Place /\ r # None
  BY <1>1, <1>2, RelationsAssumption DEF Place
<1> HIDE DEF n
<1> DEFINE Late(r, k) == \A j \in 1 .. n : joins[j] = r => j > n - k
           P == {k \in 0 .. n : \A r \in ToSet(joins) : Late(r, k) => r \in S}
<1>3. 0 \in P
  BY <1>1, <1>2
<1>4. ASSUME NEW k \in 1 .. n, k - 1 \in P
      PROVE  k \in P
  <2> SUFFICES ASSUME NEW r \in ToSet(joins), Late(r, k)
               PROVE  r \in S
    BY <1>4
  <2>1. ASSUME NEW q \in Below(joins, r)
        PROVE  q \in S
    <3>1. q \in ToSet(joins) /\ Of[q] = r /\ r # None
      BY <1>0, <2>1 DEF Below
    <3>2. ASSUME NEW j \in 1 .. n, joins[j] = q
          PROVE  j > n - (k - 1)
      <4>1. PICK i \in 1 .. (j - 1) : joins[i] = r
        BY <1>1, <3>1, <3>2 DEF Joinable
      <4>2. i > n - k /\ i < j
        BY <1>1, <4>1
      <4> QED
        BY <1>1, <4>1, <4>2
    <3>3. Late(q, k - 1)
      BY <3>2
    <3> QED
      BY <1>4, <3>1, <3>3
  <2> QED
    <3>1. r \in Place /\ \A q \in Below(joins, r) : q \in S
      BY <1>0, <2>1
    <3> QED
      BY <3>1
<1> HIDE DEF P
<1>5. n \in P
  BY <1>1, <1>3, <1>4, UpTo
<1>6. \A r \in ToSet(joins) : r \in S
  BY <1>1, <1>5 DEF P
<1> QED
  BY <1>6 DEF Below
\* What relation r puts in a row next to the key of the place before it.
IsCell(r, k, c) ==
    \/ \E l \in db.link[r] : l.from = k /\ c = [key |-> l.to, via |-> l.via]
    \/ Targets(db, r, k) = {} /\ IsLeftJoin(r) /\ c = Null
With(row, r, c) ==
    [p \in DOMAIN row \union {r} |-> IF p \in DOMAIN row THEN row[p] ELSE c]

LEMMA JoinGives ==
  ASSUME NEW from, NEW r, NEW row
  PROVE  row \in Join(db, from, r) <=>
            \E x \in from : \E c : IsCell(r, x[Of[r]].key, c) /\ row = With(x, r, c)
<1> DEFINE matches(x) == {[key |-> l.to, via |-> l.via] :
                             l \in {y \in db.link[r] : y.from = x[Of[r]].key}}
           cells(x) == IF matches(x) = {} /\ IsLeftJoin(r) THEN {Null} ELSE matches(x)
           with(x, c) == [p \in DOMAIN x \union {r} |-> IF p \in DOMAIN x THEN x[p] ELSE c]
           joined(x) == {with(x, c) : c \in cells(x)}
<1>1. Join(db, from, r) = UNION {joined(x) : x \in from}
  BY Zenon DEF Join
<1>2. ASSUME NEW x
      PROVE  \A c : c \in cells(x) <=> IsCell(r, x[Of[r]].key, c)
  <2> DEFINE k == x[Of[r]].key
             f(l) == [key |-> l.to, via |-> l.via]
  <2>1. matches(x) = {f(l) : l \in {y \in db.link[r] : y.from = k}}
    OBVIOUS
  <2>2. Targets(db, r, k) = {} <=> matches(x) = {}
    <3>1. Targets(db, r, k) = {} <=> ~\E l \in db.link[r] : l.from = k
      BY DEF Targets
    <3>2. matches(x) = {} <=> ~\E l \in db.link[r] : l.from = k
      BY <2>1
    <3> QED
      BY <3>1, <3>2
  <2>3. \A c : c \in matches(x) <=> \E l \in db.link[r] : l.from = k /\ c = f(l)
    BY <2>1
  <2> HIDE DEF matches, f
  <2> QED
    BY <2>2, <2>3 DEF IsCell, f
<1>3. \A x, c : with(x, c) = With(x, r, c)
  BY DEF With
<1> HIDE DEF with, cells
<1>4. \A x : row \in joined(x) <=> \E c : IsCell(r, x[Of[r]].key, c) /\ row = With(x, r, c)
  BY <1>2, <1>3
<1> HIDE DEF joined
<1> QED
  BY <1>1, <1>4

\* The places of the first i joins, and a row of those places.
Placed(joins, i) == {None} \union {joins[j] : j \in 1 .. i}
FitsAt(row, S, r) == Of[r] \in S /\ IsCell(r, row[Of[r]].key, row[r])
Fits(row, S) ==
    /\ row = [p \in S |-> row[p]] /\ None \in S
    /\ \A r \in S \ {None} : FitsAt(row, S, r)
RootRow(k) == [p \in {None} |-> [key |-> k, via |-> 0]]
Begins(row, K) == \E k \in K : row[None] = [key |-> k, via |-> 0]

Continues(x, row, S, r) == Fits(x, S \union {r}) /\ \A p \in S : x[p] = row[p]

LEMMA WithFits ==
  ASSUME NEW row, NEW S, NEW r \in Relation, NEW c, Fits(row, S), Of[r] \in S,
         IsCell(r, row[Of[r]].key, c)
  PROVE  Continues(With(row, r, c), row, S, r)
<1> DEFINE x == With(row, r, c)
           T == S \union {r}
<1>1. DOMAIN row = S /\ None \in S
  BY DEF Fits
<1>5. x = [p \in T |-> x[p]]
  BY <1>1 DEF With
<1>2. DOMAIN x = T /\ (\A p \in S : x[p] = row[p]) /\ (r \notin S => x[r] = c)
  BY <1>1 DEF With
<1> HIDE DEF x
<1>3. ASSUME NEW q \in T \ {None}
      PROVE  FitsAt(x, T, q)
  <2>1. CASE q \in S
    <3>1. FitsAt(row, S, q)
      BY <1>3, <2>1 DEF Fits
    <3> QED
      BY <1>2, <2>1, <3>1 DEF FitsAt
  <2>2. CASE q \notin S
    <3>1. q = r /\ x[q] = c /\ x[Of[r]] = row[Of[r]]
      BY <1>2, <1>3, <2>2
    <3> QED
      BY <3>1 DEF FitsAt
  <2> QED
    BY <2>1, <2>2
<1>4. Fits(x, T)
  BY <1>1, <1>3, <1>5 DEF Fits
<1> QED
  BY <1>2, <1>4 DEF Continues, x

LEMMA PlacedNext ==
  ASSUME NEW joins \in Seq(Relation), Joinable(joins)
  PROVE  /\ Placed(joins, 0) = {None}
         /\ Placed(joins, Len(joins)) = {None} \union ToSet(joins)
         /\ \A i \in 1 .. Len(joins) :
               /\ joins[i] \in Relation /\ Of[joins[i]] \in Placed(joins, i - 1)
               /\ Placed(joins, i) = Placed(joins, i - 1) \union {joins[i]}
<1> DEFINE n == Len(joins)
<1>1. n \in Nat /\ DOMAIN joins = 1 .. n /\ \A i \in 1 .. n : joins[i] \in Relation
  BY LenProperties, ElementOfSeq
<1>2. ToSet(joins) = {joins[i] : i \in 1 .. n}
  BY <1>1 DEF ToSet
<1> HIDE DEF n
<1>3. ASSUME NEW i \in 1 .. n
      PROVE  Of[joins[i]] \in Placed(joins, i - 1)
  <2>1. CASE Of[joins[i]] = None
    BY <2>1 DEF Placed
  <2>2. CASE Of[joins[i]] # None
    <3>1. PICK j \in 1 .. (i - 1) : joins[j] = Of[joins[i]]
      BY <1>1, <2>2 DEF Joinable
    <3> QED
      BY <3>1 DEF Placed
  <2> QED
    BY <2>1, <2>2
<1>4. ASSUME NEW i \in 1 .. n
      PROVE  Placed(joins, i) = Placed(joins, i - 1) \union {joins[i]}
  <2>1. 1 .. i = (1 .. (i - 1)) \union {i}
    BY <1>1
  <2> QED
    BY <2>1 DEF Placed
<1>5. Placed(joins, 0) = {None}
  <2>1. 1 .. 0 = {}
    OBVIOUS
  <2> QED
    BY <2>1 DEF Placed
<1>6. Placed(joins, n) = {None} \union ToSet(joins)
  BY <1>2 DEF Placed
<1> QED
  BY <1>1, <1>3, <1>4, <1>5, <1>6 DEF n

\* The rows of the roots K, join after join.
Rowing(it, K, joins) ==
    Turns("joined", db, {RootRow(k) : k \in K}, joins, Len(joins), it)

RowsOf(it, K, joins, n) ==
    /\ it[1 .. 0] = {RootRow(k) : k \in K}
    /\ \A i \in 1 .. n : it[1 .. i] = Join(db, it[1 .. (i - 1)], joins[i])

LEMMA RowingNext ==
  ASSUME NEW K, NEW joins \in Seq(Relation), NEW it, Rowing(it, K, joins)
  PROVE  RowsOf(it, K, joins, Len(joins))
<1>1. 1 .. 0 = {}
  OBVIOUS
<1>2. \A x, c : Turn("joined", db, x, c) = Join(db, x, c)
  BY DEF Turn
<1> QED
  BY <1>1, <1>2 DEF Rowing, Turns, RowsOf

\* A row has what the links give at each place, and a root of its own.
LEMMA RowsFit ==
  ASSUME NEW K, NEW joins \in Seq(Relation), Joinable(joins), NEW it, Rowing(it, K, joins)
  PROVE  \A i \in 0 .. Len(joins) : \A row \in it[1 .. i] :
            Fits(row, Placed(joins, i)) /\ Begins(row, K)
<1> DEFINE n == Len(joins)
           F(row, i) == Fits(row, Placed(joins, i)) /\ Begins(row, K)
<1>1. n \in Nat
  BY LenProperties
<1>5. RowsOf(it, K, joins, n)
  BY RowingNext
<1>6. /\ Placed(joins, 0) = {None}
      /\ \A i \in 1 .. n :
            /\ joins[i] \in Relation /\ Of[joins[i]] \in Placed(joins, i - 1)
            /\ Placed(joins, i) = Placed(joins, i - 1) \union {joins[i]}
  BY PlacedNext
<1> HIDE DEF n
<1> DEFINE P == {i \in 0 .. n : \A row \in it[1 .. i] : F(row, i)}
<1>2. 0 \in P
  <2>1. ASSUME NEW row \in it[1 .. 0]
        PROVE  F(row, 0)
    <3>1. PICK k \in K : row = RootRow(k)
      BY <1>5, <2>1 DEF RowsOf
    <3>2. row = [p \in {None} |-> row[p]] /\ row[None] = [key |-> k, via |-> 0]
      BY <3>1 DEF RootRow
    <3>3. Fits(row, {None})
      BY <3>2 DEF Fits
    <3> QED
      BY <1>6, <3>2, <3>3 DEF Begins
  <2> HIDE DEF F
  <2> QED
    BY <1>1, <2>1
<1>3. ASSUME NEW i \in 1 .. n, i - 1 \in P
      PROVE  i \in P
  <2> DEFINE r == joins[i]
             S == Placed(joins, i - 1)
  <2>1. r \in Relation /\ Of[r] \in S /\ Placed(joins, i) = S \union {r}
    BY <1>6
  <2>2. it[1 .. i] = Join(db, it[1 .. (i - 1)], r)
    BY <1>5 DEF RowsOf
  <2>0. \A x \in it[1 .. (i - 1)] : Fits(x, S) /\ Begins(x, K)
    BY <1>3
  <2> HIDE DEF r, S
  <2>3. ASSUME NEW row \in it[1 .. i]
        PROVE  F(row, i)
    <3>0. PICK x \in it[1 .. (i - 1)] : \E c : IsCell(r, x[Of[r]].key, c) /\ row = With(x, r, c)
      BY <2>2, <2>3, JoinGives
    <3>1. PICK c : IsCell(r, x[Of[r]].key, c) /\ row = With(x, r, c)
      BY <3>0
    <3>2. Fits(x, S) /\ Begins(x, K)
      BY <2>0
    <3>3. Fits(row, S \union {r}) /\ \A p \in S : row[p] = x[p]
      <4>1. Continues(With(x, r, c), x, S, r)
        BY <2>1, <3>1, <3>2, WithFits
      <4> QED
        BY <3>1, <4>1 DEF Continues
    <3>4. None \in S
      BY <3>2 DEF Fits
    <3> QED
      BY <2>1, <3>2, <3>3, <3>4 DEF Begins
  <2> HIDE DEF F
  <2>4. i \in 0 .. n
    BY <1>1
  <2> QED
    BY <2>3, <2>4
<1>4. ASSUME NEW i \in 0 .. n
      PROVE  i \in P
  <2>1. \A k \in 1 .. i : k \in 1 .. n
    BY <1>1
  <2> HIDE DEF P
  <2> QED
    BY <1>1, <1>2, <1>3, <2>1, UpTo
<1> QED
  BY <1>4 DEF n

\* The keys of a row are among those that Stays is about.
LEMMA RowKeys ==
  ASSUME NEW K, K \subseteq db.roots, NEW S, S \subseteq Place, NEW row,
         Fits(row, S), Begins(row, K), NEW p \in S
  PROVE  row[p].key \in StayKeys(db)
<1>1. CASE p = None
  BY <1>1 DEF Begins, StayKeys
<1>2. CASE p # None
  <2>1. p \in Relation /\ IsCell(p, row[Of[p]].key, row[p])
    BY <1>2 DEF Fits, FitsAt, Place
  <2>2. ASSUME NEW l \in db.link[p], row[p] = [key |-> l.to, via |-> l.via]
        PROVE  row[p].key \in StayKeys(db)
    BY <2>1, <2>2 DEF StayKeys
  <2>3. row[p] = Null => row[p].key \in StayKeys(db)
    BY DEF Null, StayKeys
  <2> QED
    BY <2>1, <2>2, <2>3 DEF IsCell
<1> QED
  BY <1>1, <1>2

\* Each object of a row that the joins return stays.
LEMMA RowStays ==
  ASSUME NEW K, K \subseteq db.roots, NEW joins \in Seq(Relation), Joinable(joins), NEW row,
         Fits(row, {None} \union ToSet(joins)), Begins(row, K)
  PROVE  \A p \in {None} \union ToSet(joins) : Stays(db, joins)[<<p, row[p].key>>]
<1> DEFINE S == {None} \union ToSet(joins)
           s == Stays(db, joins)
           T == {p \in Place : p \in S => s[<<p, row[p].key>>]}
<1>1. ToSet(joins) \subseteq Relation /\ S \subseteq Place
  BY LenProperties, ElementOfSeq DEF ToSet, Place
<1>2. ASSUME NEW p \in Place, \A r \in Below(joins, p) : r \in T
      PROVE  p \in T
  <2> SUFFICES ASSUME p \in S
               PROVE  s[<<p, row[p].key>>]
    OBVIOUS
  <2> DEFINE k == row[p].key
  <2>1. k \in StayKeys(db)
    BY <1>1, RowKeys
  <2>2. ASSUME NEW r \in Below(joins, p)
        PROVE  \/ \E t \in Targets(db, r, k) : s[<<r, t>>]
               \/ Targets(db, r, k) = {} /\ IsLeftJoin(r) /\ s[<<r, 0>>]
    <3>1. r \in S \ {None} /\ Of[r] = p /\ s[<<r, row[r].key>>]
      <4>1. r \in ToSet(joins) /\ Of[r] = p /\ r # None
        BY <1>1, RelationsAssumption DEF Below
      <4> QED
        BY <1>2, <4>1
    <3>2. IsCell(r, k, row[r])
      BY <3>1 DEF Fits, FitsAt
    <3> HIDE DEF s, S, k, T
    <3>3. ASSUME NEW l \in db.link[r], l.from = k, row[r] = [key |-> l.to, via |-> l.via]
          PROVE  \E t \in Targets(db, r, k) : s[<<r, t>>]
      <4>1. l.to \in Targets(db, r, k)
        BY <3>3 DEF Targets
      <4>2. s[<<r, l.to>>]
        BY <3>1, <3>3
      <4> QED
        BY <4>1, <4>2
    <3>4. row[r] = Null => row[r].key = 0
      BY DEF Null
    <3> QED
      BY <3>1, <3>2, <3>3, <3>4 DEF IsCell
  <2> HIDE DEF k
  <2>3. s[<<p, k>>]
    <3>1. Supported(db, joins, s, p, k)
      BY <2>2 DEF Supported
    <3> QED
      BY <1>1, <2>1, <3>1, StaysBelow
  <2> QED
    BY <2>3 DEF k
<1> HIDE DEF T
<1>3. Place \subseteq T
  BY <1>2, FromBelow
<1> QED
  BY <1>1, <1>3 DEF T

\* A root that stays is in a row.
HasRow(found, k) == \E row \in found : row[None].key = k

LEMMA RootIsFound ==
  ASSUME NEW K, K \subseteq db.roots, NEW joins \in Seq(Relation), Joinable(joins),
         NEW it, Rowing(it, K, joins), NEW k \in K, Stays(db, joins)[<<None, k>>]
  PROVE  HasRow(it[1 .. Len(joins)], k)
<1> DEFINE n == Len(joins)
           s == Stays(db, joins)
           Staying(row, S) == \A p \in S : s[<<p, row[p].key>>]
           R(i) == {row \in it[1 .. i] : row[None].key = k /\ Staying(row, Placed(joins, i))}
<1>1. n \in Nat /\ ToSet(joins) \subseteq Relation /\ DOMAIN joins = 1 .. n
  BY LenProperties, ElementOfSeq DEF ToSet
<1>5. RowsOf(it, K, joins, n)
  BY RowingNext
<1>6. /\ Placed(joins, 0) = {None}
      /\ \A i \in 1 .. n :
            /\ joins[i] \in Relation /\ Of[joins[i]] \in Placed(joins, i - 1)
            /\ Placed(joins, i) = Placed(joins, i - 1) \union {joins[i]}
  BY PlacedNext
<1>7. \A i \in 0 .. n : \A row \in it[1 .. i] :
         Fits(row, Placed(joins, i)) /\ Begins(row, K)
  BY RowsFit
<1> HIDE DEF n
<1> DEFINE P == {i \in 0 .. n : R(i) # {}}
<1>2. 0 \in P
  <2>1. RootRow(k) \in it[1 .. 0] /\ RootRow(k)[None].key = k
    BY <1>5 DEF RowsOf, RootRow
  <2>2. Placed(joins, 0) = {None}
    BY <1>6
  <2>3. Staying(RootRow(k), {None})
    BY <2>1
  <2>4. RootRow(k) \in R(0)
    BY <2>1, <2>2, <2>3
  <2> QED
    BY <1>1, <2>4
<1>3. ASSUME NEW i \in 1 .. n, i - 1 \in P
      PROVE  i \in P
  <2> DEFINE r == joins[i]
             S == Placed(joins, i - 1)
  <2>1. r \in Relation /\ Of[r] \in S /\ Placed(joins, i) = S \union {r}
    BY <1>6
  <2>2. it[1 .. i] = Join(db, it[1 .. (i - 1)], r)
    BY <1>5 DEF RowsOf
  <2>3. PICK x \in it[1 .. (i - 1)] : x[None].key = k /\ Staying(x, S)
    BY <1>3
  <2>4. i - 1 \in 0 .. n /\ i \in 0 .. n /\ i \in DOMAIN joins
    BY <1>1
  <2>5. Fits(x, S) /\ Begins(x, K)
    BY <1>7, <2>4
  <2>6. r \in Below(joins, Of[r])
    BY <2>4 DEF Below, ToSet
  <2>7. S \subseteq Place
    <3>1. \A j \in 1 .. (i - 1) : joins[j] \in Relation
      BY <1>1, <1>6
    <3> QED
      BY <3>1 DEF Placed, Place
  <2> DEFINE h == x[Of[r]].key
  <2>8. h \in StayKeys(db)
    BY <2>1, <2>5, <2>7, RowKeys
  <2>9. s[<<Of[r], h>>]
    BY <2>1, <2>3
  <2> HIDE DEF r, S, R, s
  <2>10. \E c : IsCell(r, h, c) /\ s[<<r, c.key>>]
    <3>1. \/ \E t \in Targets(db, r, h) : s[<<r, t>>]
          \/ Targets(db, r, h) = {} /\ IsLeftJoin(r) /\ s[<<r, 0>>]
      <4>1. Of[r] \in Place
        BY <2>1, <2>7
      <4> HIDE DEF h
      <4>2. s[<<Of[r], h>>] <=> Supported(db, joins, s, Of[r], h)
        BY <1>1, <2>8, <4>1, StaysBelow DEF s
      <4> QED
        BY <2>6, <2>9, <4>2 DEF Supported
    <3>2. ASSUME NEW t \in Targets(db, r, h), s[<<r, t>>]
          PROVE  \E c : IsCell(r, h, c) /\ s[<<r, c.key>>]
      <4>1. PICK l \in db.link[r] : l.from = h /\ l.to = t
        BY <3>2 DEF Targets
      <4> DEFINE c == [key |-> l.to, via |-> l.via]
      <4>2. IsCell(r, h, c)
        BY <4>1 DEF IsCell
      <4>3. s[<<r, c.key>>]
        BY <3>2, <4>1
      <4> QED
        BY <4>2, <4>3
    <3>3. ASSUME Targets(db, r, h) = {}, IsLeftJoin(r), s[<<r, 0>>]
          PROVE  IsCell(r, h, Null) /\ s[<<r, Null.key>>]
      <4>1. Null.key = 0
        BY DEF Null
      <4> QED
        BY <3>3, <4>1 DEF IsCell
    <3> QED
      BY <3>1, <3>2, <3>3
  <2>11. PICK c : IsCell(r, h, c) /\ s[<<r, c.key>>]
    BY <2>10
  <2> DEFINE y == With(x, r, c)
  <2>12. y \in it[1 .. i]
    BY <2>2, <2>11, JoinGives
  <2>13. \A p \in S : y[p] = x[p]
    <3>1. IsCell(r, x[Of[r]].key, c)
      BY <2>11
    <3> HIDE DEF h
    <3>2. Continues(y, x, S, r)
      BY <2>1, <2>5, <3>1, WithFits
    <3> QED
      BY <3>2 DEF Continues
  <2>14. r \notin S => y[r] = c
    BY <2>5 DEF Fits, With
  <2>15. None \in S
    BY <2>5 DEF Fits
  <2> HIDE DEF y, h
  <2>16. Staying(y, S \union {r})
    BY <2>3, <2>11, <2>13, <2>14
  <2>17. y \in R(i)
    BY <2>1, <2>3, <2>12, <2>13, <2>15, <2>16 DEF R
  <2> QED
    BY <2>4, <2>17
<1> HIDE DEF P
<1>4. n \in P
  BY <1>1, <1>2, <1>3, UpTo
<1> QED
  BY <1>4 DEF HasRow, P, n

\* Two rows of the same root are the same, when no relation links a key twice.
LEMMA RowIsOne ==
  ASSUME NEW joins \in Seq(Relation), Joinable(joins),
         \A r \in ToSet(joins) : OneEach(db.link[r]),
         NEW x, NEW y, Fits(x, {None} \union ToSet(joins)), Fits(y, {None} \union ToSet(joins)),
         x[None] = y[None]
  PROVE  x = y
<1> DEFINE n == Len(joins)
           S == {None} \union ToSet(joins)
           P == {i \in 0 .. n : \A p \in Placed(joins, i) : x[p] = y[p]}
<1>1. n \in Nat /\ \A i \in 1 .. n : joins[i] \in ToSet(joins)
  BY LenProperties DEF ToSet
<1>2. 0 \in P
  BY <1>1, PlacedNext
<1>3. ASSUME NEW i \in 1 .. n, i - 1 \in P
      PROVE  i \in P
  <2> DEFINE r == joins[i]
  <2>1. r \in Relation /\ Of[r] \in Placed(joins, i - 1)
        /\ Placed(joins, i) = Placed(joins, i - 1) \union {r}
    BY PlacedNext
  <2>2. x[Of[r]] = y[Of[r]] /\ r \in ToSet(joins)
    BY <1>1, <1>3, <2>1
  <2> HIDE DEF r
  <2>3. r \in S \ {None} /\ OneEach(db.link[r])
    BY <2>1, <2>2, RelationsAssumption
  <2> DEFINE k == x[Of[r]].key
  <2>4. IsCell(r, k, x[r]) /\ IsCell(r, k, y[r])
    BY <2>2, <2>3 DEF Fits, FitsAt
  <2> HIDE DEF k
  <2>5. x[r] = y[r]
    <3>1. \A l \in db.link[r] : l.from = k => Targets(db, r, k) # {}
      BY DEF Targets
    <3>2. \A l, m \in db.link[r] : l.from = k /\ m.from = k => l = m
      BY <2>3 DEF OneEach
    <3> QED
      BY <2>4, <3>1, <3>2 DEF IsCell
  <2>6. i \in 0 .. n
    BY <1>1
  <2> QED
    BY <1>3, <2>1, <2>5, <2>6
<1> HIDE DEF P
<1>4. n \in P
  BY <1>1, <1>2, <1>3, UpTo
<1>5. \A p \in S : x[p] = y[p]
  BY <1>4, PlacedNext DEF P
<1> QED
  BY <1>5 DEF Fits

-----------------------------------------------------------------------------
(* What Count counts. *)

\* The rows are those of the roots that the links leave.
Rooted(found, roots) ==
    /\ \A row \in found : /\ row[None].key \in roots
                          /\ row[None] = [key |-> row[None].key, via |-> 0]
    /\ \A k \in roots : HasRow(found, k)

LEMMA RowsRooted ==
  ASSUME NEW K, K \subseteq db.roots, NEW joins \in Seq(Relation), Joinable(joins)
  PROVE  /\ Rooted(JoinedRows(db, K, joins), RootsOf(db, K, joins))
         /\ \A row \in JoinedRows(db, K, joins) : Fits(row, {None} \union ToSet(joins))
<1> DEFINE n == Len(joins)
           found == JoinedRows(db, K, joins)
           roots == RootsOf(db, K, joins)
           all == {None} \union ToSet(joins)
           base == {RootRow(k) : k \in K}
<1>1. n \in Nat /\ DOMAIN joins = 1 .. n
  BY LenProperties
<1>2. found = EachJoined(base, joins)
  BY Zenon DEF JoinedRows, EachJoined, RootRow
<1>3. PICK it : Rowing(it, K, joins) /\ found = it[1 .. n]
  <2>1. Loops("joined", db, base, joins, n, EachJoined(base, joins))
    BY <1>1, JoinedLoop
  <2> HIDE DEF base
  <2> QED
    BY <1>2, <2>1 DEF Loops, Rowing, base
<1>4. ASSUME NEW row \in found
      PROVE  Fits(row, all) /\ Begins(row, K)
  <2>1. n \in 0 .. n /\ Placed(joins, n) = all
    BY <1>1, PlacedNext
  <2>2. row \in it[1 .. n]
    BY <1>3
  <2> HIDE DEF found, all, n
  <2> QED
    BY <1>3, <2>1, <2>2, RowsFit DEF n
<1> HIDE DEF found
<1>5. ASSUME NEW row \in found
      PROVE  row[None].key \in roots /\ row[None] = [key |-> row[None].key, via |-> 0]
  <2>1. Stays(db, joins)[<<None, row[None].key>>]
    <3>1. None \in all
      OBVIOUS
    <3>2. \A p \in all : Stays(db, joins)[<<p, row[p].key>>]
      BY <1>4, RowStays
    <3> QED
      BY <3>1, <3>2
  <2>2. row[None].key \in K /\ row[None] = [key |-> row[None].key, via |-> 0]
    <3>1. Begins(row, K)
      BY <1>4
    <3>2. PICK k \in K : row[None] = [key |-> k, via |-> 0]
      BY <3>1 DEF Begins
    <3>3. row[None].key = k
      BY <3>2
    <3> QED
      BY <3>2, <3>3
  <2> QED
    BY <2>1, <2>2 DEF RootsOf
<1>6. ASSUME NEW k \in roots
      PROVE  HasRow(found, k)
  <2>1. k \in K /\ Stays(db, joins)[<<None, k>>]
    BY DEF RootsOf
  <2> HIDE DEF roots, all, base
  <2>2. HasRow(it[1 .. n], k)
    BY <1>3, <2>1, RootIsFound
  <2> QED
    BY <1>3, <2>2
<1> QED
  BY <1>4, <1>5, <1>6 DEF Rooted, found

\* The rows of a SELECT are as many as the roots that the links leave it, or
\* more, and as many when no relation links a key twice.
Tallied(roots, found, each) ==
    LET n == Cardinality(roots)
        c == Cardinality(found)
    IN  n \in Nat /\ c \in Nat /\ c >= n /\ (n = 0 => c = 0) /\ (each => c = n)

LEMMA OntoIs ==
  ASSUME NEW S, NEW T, NEW f \in [S -> T], \A t \in T : \E x \in S : f[x] = t
  PROVE  f \in Surjection(S, T)
BY DEF Surjection

LEMMA OneToOneIs ==
  ASSUME NEW S, NEW T, NEW f \in [S -> T], \A x, y \in S : f[x] = f[y] => x = y
  PROVE  f \in Injection(S, T)
BY DEF Injection, IsInjective

LEMMA RowsTally ==
  ASSUME NEW K, K \subseteq db.roots, NEW joins \in Seq(Relation), Joinable(joins),
         IsFiniteSet(JoinedRows(db, K, joins))
  PROVE  Tallied(RootsOf(db, K, joins), JoinedRows(db, K, joins),
                 \A p \in ToSet(joins) : OneEach(db.link[p]))
<1> DEFINE found == JoinedRows(db, K, joins)
           roots == RootsOf(db, K, joins)
           each == \A p \in ToSet(joins) : OneEach(db.link[p])
           all == {None} \union ToSet(joins)
           f == [row \in found |-> row[None].key]
<1>1. ASSUME NEW row \in found
      PROVE  Fits(row, all)
  BY RowsRooted
<1>2. Rooted(found, roots)
  BY RowsRooted
<1> HIDE DEF found
<1>3. ASSUME NEW row \in found
      PROVE  row[None].key \in roots /\ row[None] = [key |-> row[None].key, via |-> 0]
  BY <1>2 DEF Rooted
<1>4. ASSUME NEW k \in roots
      PROVE  \E row \in found : row[None].key = k
  BY <1>2 DEF Rooted, HasRow
<1>5. each => \A x, y \in found : x[None].key = y[None].key => x = y
  <2> SUFFICES ASSUME each, NEW x \in found, NEW y \in found, x[None].key = y[None].key
               PROVE  x = y
    OBVIOUS
  <2>1. Fits(x, all) /\ Fits(y, all)
    BY <1>1
  <2>2. x[None] = y[None]
    BY <1>3
  <2> QED
    BY <2>1, <2>2, RowIsOne
<1> HIDE DEF roots, each, all
<1>6. f \in Surjection(found, roots)
  <2>1. f \in [found -> roots]
    BY <1>3
  <2>2. ASSUME NEW k \in roots
        PROVE  \E row \in found : f[row] = k
    BY <1>4
  <2> HIDE DEF f
  <2> QED
    BY <2>1, <2>2, OntoIs
<1>7. each => f \in Injection(found, roots)
  <2>1. f \in [found -> roots]
    BY <1>3
  <2>2. each => \A x, y \in found : f[x] = f[y] => x = y
    BY <1>5
  <2> HIDE DEF f
  <2> QED
    BY <2>1, <2>2, OneToOneIs
<1>8. IsFiniteSet(found)
  BY DEF found
<1> HIDE DEF f
<1>9. /\ IsFiniteSet(roots) /\ Cardinality(roots) <= Cardinality(found)
      /\ f \in Injection(found, roots) => Cardinality(roots) = Cardinality(found)
  BY <1>6, <1>8, FS_Surjection
<1>10. Cardinality(roots) \in Nat /\ Cardinality(found) \in Nat
  BY <1>8, <1>9, FS_CardinalityType
<1>11. Cardinality(roots) = 0 => Cardinality(found) = 0
  <2>1. Cardinality(roots) = 0 => roots = {}
    BY <1>9, FS_EmptySet
  <2>2. roots = {} => found = {}
    BY <1>3
  <2> QED
    BY <2>1, <2>2, FS_EmptySet
<1>12. Tallied(roots, found, each)
  BY <1>7, <1>9, <1>10, <1>11 DEF Tallied
<1> QED
  BY <1>12 DEF roots, found, each

\* Only Count and Exists answer a count.
CountedBy(q) == Count(q) \/ Exists(q)

LEMMA CallsCount ==
  ASSUME Next, answer'.op \in {"count", "exists"}
  PROVE  \E q \in QS : CountedBy(q)
<1> DEFINE Uncounted == answer'.op \notin {"count", "exists"}
           Others == Ops \ {"count", "exists"}
<1>1. ASSUME NEW q, NEW op \in Others, NEW status, NEW tree, NEW value,
             Answered(op, q, status, tree, value)
      PROVE  Uncounted
  BY <1>1 DEF Answered, Others
<1>0. {"make", "all", "get", "first", "last", "values", "list", "map", "delete",
       "get or create"} \subseteq Others
  BY DEF Ops
<1> HIDE DEF Others
<1>2. ASSUME NEW q \in QS, NEW d \in QS, Makes(q, d)
      PROVE  Uncounted
  <2>1. Answered("make", q, "ok", None, 0)
    BY <1>2 DEF Makes, Limit, Offset, OrderBy, Backwards, Select, Annotate, Filter, Make
  <2> QED
    BY <1>0, <1>1, <2>1
<1>3. ASSUME NEW q \in QS, NEW c, Scope(q, c)
      PROVE  Uncounted
  BY <1>3 DEF Scope, Answered
<1>4. ASSUME NEW q, NEW op \in Others, NEW kind, FromCache(op, q, kind)
      PROVE  Uncounted
  BY <1>4 DEF FromCache, Others
<1>5. ASSUME NEW q \in QS, Reads(q), ~CountedBy(q)
      PROVE  Uncounted
  <2> HIDE DEF Uncounted
  <2>1. All(q) => Uncounted
    BY <1>0, <1>1 DEF All
  <2>2. Get(q) => Uncounted
    BY <1>0, <1>1 DEF Get
  <2>3. ASSUME NEW kind \in {"values", "list"}, NEW items, Values(q, kind, items)
        PROVE  Uncounted
    BY <1>0, <1>1, <2>3 DEF Values
  <2>4. Aggregate(q) => Uncounted
    BY <1>0, <1>1 DEF Aggregate
  <2>5. GetFirst(q) \/ GetLast(q) => Uncounted
    BY <1>0, <1>1 DEF GetFirst, GetLast, FirstOf
  <2> QED
    BY <1>0, <1>4, <1>5, <2>1, <2>2, <2>3, <2>4, <2>5 DEF Reads, Cachings, CountedBy
<1>6. ASSUME NEW q \in QS, NEW objs, Delete(q, objs)
      PROVE  Uncounted
  BY <1>6 DEF Delete, Answered
<1>7. ASSUME NEW q \in QS, NEW k \in Keys, GetOrCreate(q, k)
      PROVE  Uncounted
  <2> HIDE DEF Uncounted
  <2> QED
    BY <1>0, <1>1, <1>7 DEF GetOrCreate
<1>8. PICK q \in QS : (\E d \in QS : Makes(q, d)) \/ (\E c \in Conditions : Scope(q, c))
                         \/ Reads(q) \/ Writes(q)
  BY Zenon DEF Next
<1>9. (\E objs : Delete(q, objs)) \/ (\E k \in Keys : GetOrCreate(q, k)) => Uncounted
  <2> HIDE DEF Uncounted
  <2> QED
    BY <1>6, <1>7
<1>10. Writes(q) => Uncounted
  <2> HIDE DEF Uncounted
  <2> QED
    BY <1>9 DEF Writes
<1> HIDE DEF Uncounted
<1>11. ~Uncounted
  BY DEF Uncounted
<1> QED
  BY <1>2, <1>3, <1>5, <1>8, <1>10, <1>11

LEMMA StepsCount ==
  ASSUME WInv, WritesNext, answer'.op \in {"count", "exists"}
  PROVE  \E q \in QS : CountedBy(q)
BY OthersAnswer, CallsCount

\* What such a call answers.
LEMMA CountsAnswer ==
  ASSUME WInv, Linked, NEW q \in QS, CountedBy(q)
  PROVE  CountsMatch'
<1> DEFINE r == qs[q]
           K == Matching(heap, r)
           roots == RootsOf(db, K, r.joins)
           found == Found(heap, r)
           each == \A p \in ToSet(r.joins) : OneEach(db.link[p])
           n == Cardinality(roots)
           c == Cardinality(found)
<1>1. Shaped(r) /\ RowsOK /\ r.joins \in Seq(Relation) /\ K \subseteq db.roots
  BY DEF CountedBy, Count, Exists, WInv, AllShaped, Assigned, Shaped, Matching
<1>2. UNCHANGED <<db, heap, qs, meant>>
  BY DEF CountedBy, Count, Exists, Counts
<1>3. answer'.on = q /\ answer'.op \in {"count", "exists"}
  BY DEF CountedBy, Count, Exists, Counts, Answered
<1>4. answer'.status = "ok" =>
        /\ Joinable(r.joins)
        /\ answer'.op = "exists" => answer'.value = IF c > 0 THEN 1 ELSE 0
        /\ answer'.op = "count" /\ r.offset = 0 => answer'.value = c
  BY DEF CountedBy, Count, Exists, Counts, Counted, Answered
<1>5. Joinable(r.joins) => Tallied(roots, found, each)
  <2>1. IsFiniteSet(found) /\ found = JoinedRows(db, K, r.joins)
    BY <1>1, FoundIsFinite DEF Found
  <2> HIDE DEF r, K, found
  <2> QED
    BY <1>1, <2>1, RowsTally
<1> HIDE DEF roots, found, each
<1>6. answer'.status = "ok" =>
        /\ answer'.op = "exists" => (answer'.value = 1 <=> n > 0)
        /\ answer'.op = "count" /\ r.offset = 0 =>
              answer'.value >= n /\ (each => answer'.value = n)
  BY <1>4, <1>5 DEF Tallied
<1>7. (Matching(heap, qs[answer.on]))' = K
  BY <1>2, <1>3 DEF Matching
<1> HIDE DEF K
<1> QED
  BY <1>2, <1>3, <1>6, <1>7 DEF CountsMatch, roots, each

\* Count answers the number of objects that match, whatever was joined, when
\* no relation that was joined links a key twice, and never less; Exists says
\* whether there are any.  The rows that are counted are those of the joins,
\* which multiply the objects and drop those without a match: for any tree of
\* relations, any links and any number of rows (QuerySet.Count, Exists).
THEOREM CountsAlwaysMatch == WritesSpec => []CountsMatch
<1> DEFINE CInv == Linked /\ CountsMatch
<1>1. WritesInit => CInv
  <2> SUFFICES ASSUME WritesInit
               PROVE  CInv
    OBVIOUS
  <2>1. Linked
    BY DEF WritesInit, Init, Linked
  <2>2. answer.op = "make"
    BY DEF WritesInit, Init
  <2> QED
    BY <2>1, <2>2 DEF CountsMatch
<1>2. WInv /\ CInv /\ [WritesNext]_<<vars, stored>> => CInv'
  <2> SUFFICES ASSUME WInv, CInv, [WritesNext]_<<vars, stored>>
               PROVE  CInv'
    OBVIOUS
  <2>1. CASE WritesNext
    <3>1. Linked'
      BY <2>1, LinksStay DEF Linked
    <3>2. CASE answer'.op \in {"count", "exists"}
      <4>1. PICK q \in QS : CountedBy(q)
        BY <2>1, <3>2, StepsCount
      <4> QED
        BY <3>1, <4>1, CountsAnswer
    <3>3. CASE answer'.op \notin {"count", "exists"}
      <4>1. CountsMatch'
        BY <3>3 DEF CountsMatch
      <4> QED
        BY <3>1, <4>1
    <3> QED
      BY <3>2, <3>3
  <2>2. CASE UNCHANGED <<vars, stored>>
    <3>1. answer' = answer /\ db' = db /\ heap' = heap /\ qs' = qs
      BY <2>2 DEF vars
    <3>2. Linked'
      BY <3>1 DEF Linked
    <3>3. CountsMatch'
      BY <3>1 DEF CountsMatch, Matching
    <3> QED
      BY <3>2, <3>3
  <2> QED
    BY <2>1, <2>2
<1>3. CInv => CountsMatch
  OBVIOUS
<1> HIDE DEF CInv
<1> QED
  BY <1>1, <1>2, <1>3, WritesInvariant, PTL DEF WritesSpec

-----------------------------------------------------------------------------
(* The roots of a tree. *)

\* The elements of S in some order, each once.
Listed(s, S) ==
    /\ s \in Seq(S) /\ S \subseteq ToSet(s)
    /\ \A i, j \in DOMAIN s : s[i] = s[j] => i = j

LEMMA ListedMore ==
  ASSUME NEW S, NEW s, Listed(s, S), NEW a
  PROVE  Listed(IF a \in ToSet(s) THEN s ELSE Append(s, a), S \union {a})
<1> DEFINE n == Len(s)
           T == S \union {a}
           x == Append(s, a)
<1>1. n \in Nat /\ DOMAIN s = 1 .. n /\ \A i \in 1 .. n : s[i] \in S
  BY LenProperties, ElementOfSeq DEF Listed
<1>2. ToSet(s) = {s[i] : i \in 1 .. n}
  BY <1>1 DEF ToSet
<1>3. s \in Seq(T) /\ a \in T
  BY SeqMonotonic DEF Listed
<1>4. CASE a \in ToSet(s)
  <2>1. T = S
    BY <1>1, <1>2, <1>4
  <2> QED
    BY <1>4, <2>1
<1>5. CASE a \notin ToSet(s)
  <2>1. x \in Seq(T) /\ Len(x) = n + 1 /\ (\A i \in 1 .. n : x[i] = s[i]) /\ x[n + 1] = a
    BY <1>3, AppendProperties
  <2>2. DOMAIN x = 1 .. (n + 1)
    BY <1>1, <2>1, LenProperties
  <2> HIDE DEF x, n, T
  <2>3. ToSet(x) = {x[i] : i \in 1 .. (n + 1)}
    BY <2>2 DEF ToSet
  <2>4. \A i \in 1 .. (n + 1) : i = n + 1 \/ i \in 1 .. n
    BY <1>1
  <2>5. S \subseteq {s[i] : i \in 1 .. n}
    BY <1>2 DEF Listed
  <2>6. T \subseteq ToSet(x)
    <3>1. a \in ToSet(x)
      BY <1>1, <2>1, <2>3
    <3>2. \A i \in 1 .. n : s[i] \in ToSet(x)
      BY <1>1, <2>1, <2>3
    <3> QED
      BY <2>5, <3>1, <3>2 DEF T
  <2>7. \A i \in 1 .. n : s[i] # a
    BY <1>2, <1>5
  <2>8. ASSUME NEW i \in 1 .. (n + 1), NEW j \in 1 .. (n + 1), x[i] = x[j]
        PROVE  i = j
    <3>1. CASE i \in 1 .. n /\ j \in 1 .. n
      BY <1>1, <2>1, <2>8, <3>1 DEF Listed
    <3>2. CASE i = n + 1 \/ j = n + 1
      BY <2>1, <2>4, <2>7, <2>8, <3>2
    <3> QED
      BY <2>4, <3>1, <3>2
  <2>9. Listed(x, T)
    BY <2>1, <2>2, <2>6, <2>8 DEF Listed
  <2> QED
    BY <1>5, <2>9 DEF x, T
<1> QED
  BY <1>4, <1>5

LEMMA ListedSize ==
  ASSUME NEW S, NEW s, Listed(s, S)
  PROVE  IsFiniteSet(S) /\ Cardinality(S) = Len(s) /\ Len(s) \in Nat /\ ToSet(s) = S
<1> DEFINE n == Len(s)
<1>1. n \in Nat /\ DOMAIN s = 1 .. n /\ s \in [1 .. n -> S]
  BY LenProperties, ElementOfSeq DEF Listed
<1>2. ToSet(s) = S
  BY <1>1 DEF ToSet, Listed
<1>3. \A a \in S : \E i \in 1 .. n : s[i] = a
  BY <1>1, <1>2 DEF ToSet
<1> HIDE DEF n
<1>4. s \in Surjection(1 .. n, S)
  BY <1>1, <1>3, OntoIs
<1>5. s \in Injection(1 .. n, S)
  BY <1>1, OneToOneIs DEF Listed
<1>6. IsFiniteSet(1 .. n) /\ Cardinality(1 .. n) = n
  BY <1>1, FS_Interval
<1>7. IsFiniteSet(S) /\ Cardinality(S) = Cardinality(1 .. n)
  BY <1>4, <1>5, <1>6, FS_Surjection
<1> QED
  BY <1>1, <1>2, <1>6, <1>7 DEF n

\* The relations of a row leave the roots as they are.
LEMMA ChainLeavesRoots ==
  ASSUME NEW t, Treelike(t), NEW items, NEW row, NEW u, NEW r,
         AddRelationChain(t, items, row, u, r).status = "rows"
  PROVE  AddRelationChain(t, items, row, u, r).roots = t.roots /\ t.status = "rows"
<1>1. \/ AddRelationChain(t, items, row, u, r) = Failed("panic")
      \/ AddRelationChain(t, items, row, u, r) = t
      \/ \E ns : AddRelationChain(t, items, row, u, r) = [t EXCEPT !.nodes = ns]
  BY Zenon DEF AddRelationChain
<1>2. Failed("panic").status = "panic"
  BY DEF Failed, EmptyTree
<1>3. ASSUME NEW ns, AddRelationChain(t, items, row, u, r) = [t EXCEPT !.nodes = ns]
      PROVE  AddRelationChain(t, items, row, u, r).roots = t.roots /\ t.status = "rows"
  BY <1>3 DEF Treelike
<1> QED
  BY <1>1, <1>2, <1>3

\* A selection that has the key of the root, in a row that has one.
Numbered(items, row) ==
    /\ items \in Seq(Item) /\ items # <<>> /\ Head(items) = [at |-> None, what |-> "all"]
    /\ row[None].key \in Nat \ {0}

LEMMA NumberedIs ==
  ASSUME NEW items, NEW row, Numbered(items, row)
  PROVE  /\ HasRoot(items) /\ UniqueKey(items, row, None) = <<row[None].key>>
         /\ <<row[None].key>> # Zero
<1>1. [at |-> None, what |-> "all"] \in ToSet(items)
  <2>1. Len(items) \in Nat \ {0} /\ DOMAIN items = 1 .. Len(items) /\ Head(items) = items[1]
    BY LenProperties, EmptySeq DEF Numbered
  <2>2. 1 \in DOMAIN items
    BY <2>1
  <2> QED
    BY <2>1, <2>2 DEF Numbered, ToSet
<1>2. HasRoot(items)
  BY <1>1 DEF HasRoot
<1>3. UniqueKey(items, row, None) = <<row[None].key>>
  BY <1>1 DEF UniqueKey, Selected, Numbered
<1>4. <<row[None].key>> # Zero
  BY DEF Zero, Numbered
<1> QED
  BY <1>2, <1>3, <1>4

LEMMA RowAddsRoot ==
  ASSUME NEW t, Treelike(t), t.status = "rows", NEW items, NEW row, Numbered(items, row), NEW i,
         ScanRow(t, items, row, i).status = "rows"
  PROVE  ScanRow(t, items, row, i).roots =
            IF <<row[None].key>> \in ToSet(t.roots) THEN t.roots
            ELSE Append(t.roots, <<row[None].key>>)
<1> DEFINE u == <<row[None].key>>
           p == [items |-> items, row |-> row, u |-> u]
           base == AddRoot(t, items, row, u)
           last == EachChained(base, items, row, u)
           n == Len(items)
<1>1. ScanRow(t, items, row, i) = last
  <2>1. HasRoot(items) /\ UniqueKey(items, row, None) = u /\ u # Zero
    BY NumberedIs
  <2> DEFINE key == IF HasRoot(items) THEN UniqueKey(items, row, None) ELSE Zero
             v == IF key = Zero THEN <<"row", i>> ELSE key
  <2>2. ScanRow(t, items, row, i) =
           IF key = Zero /\ HasRoot(items) /\ HasMulti(items) THEN Failed("error")
           ELSE EachChained(AddRoot(t, items, row, v), items, row, v)
    BY Zenon DEF ScanRow, EachChained
  <2>3. key = u /\ v = u /\ key # Zero
    BY <2>1
  <2> HIDE DEF u, key, v
  <2> QED
    BY <2>2, <2>3
<1>2. base.roots = IF u \in ToSet(t.roots) THEN t.roots ELSE Append(t.roots, u)
  BY DEF AddRoot, Treelike
<1> HIDE DEF u
<1>3. n \in Nat /\ DOMAIN items = 1 .. n
  BY LenProperties DEF Numbered
<1>4. Treelike(base)
  BY RootIsTree
<1> HIDE DEF n, base
<1>5. PICK it : Turns("chains", p, base, items, n, it) /\ last = it[1 .. n]
  <2>1. Loops("chains", p, base, items, n, last)
    BY <1>3, ChainsLoop
  <2> QED
    BY <2>1 DEF Loops
<1> HIDE DEF last
<1> DEFINE Keeps(x) == Treelike(x) /\ (x.status = "rows" => x.roots = base.roots)
           P == {k \in 0 .. n : Keeps(it[1 .. k])}
<1>6. 0 \in P
  <2>1. 1 .. 0 = {} /\ 0 \in 0 .. n
    BY <1>3
  <2> QED
    BY <1>4, <1>5, <2>1 DEF Turns
<1>7. ASSUME NEW k \in 1 .. n, k - 1 \in P
      PROVE  k \in P
  <2> DEFINE x == it[1 .. (k - 1)]
             y == it[1 .. k]
             r == items[k].at
  <2>1. y = x \/ y = AddRelationChain(x, items, row, u, r)
    BY <1>5 DEF Turns, Turn
  <2>2. Keeps(x) /\ k \in 0 .. n
    BY <1>3, <1>7
  <2> HIDE DEF x, y, r
  <2>3. Keeps(y)
    BY <2>1, <2>2, ChainIsTree, ChainLeavesRoots
  <2> QED
    BY <2>2, <2>3 DEF y
<1> HIDE DEF P
<1>8. n \in P
  BY <1>3, <1>6, <1>7, UpTo
<1>9. Keeps(last)
  BY <1>5, <1>8 DEF P
<1> QED
  BY <1>1, <1>2, <1>9 DEF u

\* The order of the keys of the roots.
Ascends(order, s) ==
    \A i, j \in DOMAIN s : i < j =>
        /\ order = "asc" => s[i][1] < s[j][1]
        /\ order = "desc" => s[i][1] > s[j][1]

\* The keys of the first k rows, as unique keys.
KeysTo(from, k) == {<<from[i][None].key>> : i \in 1 .. k}

LEMMA AscendsMore ==
  ASSUME NEW from, NEW m \in Nat, DOMAIN from = 1 .. m, NEW order, Sorted(from, order),
         \A i \in 1 .. m : from[i][None].key \in Nat,
         NEW k \in 1 .. m, NEW s, Listed(s, KeysTo(from, k - 1)), Ascends(order, s),
         NEW a, a = <<from[k][None].key>>
  PROVE  Ascends(order, IF a \in ToSet(s) THEN s ELSE Append(s, a))
<1> DEFINE n == Len(s)
           S == KeysTo(from, k - 1)
           T == S \union {a}
           x == Append(s, a)
<1> SUFFICES ASSUME a \notin ToSet(s)
             PROVE  Ascends(order, x)
  OBVIOUS
<1>1. n \in Nat /\ DOMAIN s = 1 .. n /\ \A i \in 1 .. n : s[i] \in S
  BY LenProperties, ElementOfSeq DEF Listed
<1>2. \A i \in 1 .. n : s[i] # a
  BY <1>1 DEF ToSet
<1>3. s \in Seq(T) /\ a \in T
  BY SeqMonotonic DEF Listed
<1>4. Len(x) = n + 1 /\ (\A i \in 1 .. n : x[i] = s[i]) /\ x[n + 1] = a /\ x \in Seq(T)
  BY <1>3, AppendProperties
<1>5. DOMAIN x = 1 .. (n + 1)
  BY <1>4, LenProperties
<1> HIDE DEF x, n, T
<1>6. ASSUME NEW i \in 1 .. n
      PROVE  /\ order = "asc" => s[i][1] < a[1]
             /\ order = "desc" => s[i][1] > a[1]
  <2>1. PICK j \in 1 .. (k - 1) : s[i] = <<from[j][None].key>>
    BY <1>1, <1>6 DEF KeysTo
  <2>2. j \in DOMAIN from /\ k \in DOMAIN from /\ j < k
    BY <2>1
  <2>3. /\ order = "asc" => from[j][None].key <= from[k][None].key
        /\ order = "desc" => from[j][None].key >= from[k][None].key
    BY <2>2 DEF Sorted
  <2>4. s[i][1] = from[j][None].key /\ a[1] = from[k][None].key
    BY <2>1
  <2>5. from[j][None].key # from[k][None].key
    BY <1>2, <2>1
  <2>6. from[j][None].key \in Nat /\ from[k][None].key \in Nat
    BY <2>2
  <2> QED
    BY <2>3, <2>4, <2>5, <2>6
<1>7. ASSUME NEW i \in 1 .. (n + 1), NEW j \in 1 .. (n + 1), i < j
      PROVE  /\ order = "asc" => x[i][1] < x[j][1]
             /\ order = "desc" => x[i][1] > x[j][1]
  <2>1. i \in 1 .. n
    BY <1>1, <1>7
  <2>2. CASE j = n + 1
    BY <1>4, <1>6, <2>1, <2>2
  <2>3. CASE j # n + 1
    <3>1. j \in 1 .. n
      BY <1>1, <2>3
    <3>2. x[i] = s[i] /\ x[j] = s[j]
      BY <1>4, <2>1, <3>1
    <3> QED
      BY <1>1, <1>7, <2>1, <3>1, <3>2 DEF Ascends
  <2> QED
    BY <2>2, <2>3
<1>8. Ascends(order, x)
  BY <1>5, <1>7 DEF Ascends
<1> QED
  BY <1>8

\* The rows give the keys that they have, each once and in their order.
LEMMA DedupeRoots ==
  ASSUME NEW from, NEW m \in Nat, DOMAIN from = 1 .. m, NEW items,
         \A i \in 1 .. m : Numbered(items, from[i]), items \in Seq(Item), HasRoot(items),
         NEW order, Sorted(from, order), Dedupe(from, items).status = "rows"
  PROVE  /\ Listed(Dedupe(from, items).roots, KeysTo(from, m))
         /\ Ascends(order, Dedupe(from, items).roots)
<1> DEFINE p == [items |-> items, rows |-> from]
           seq == [i \in 1 .. m |-> i]
           last == EachScanned(from, items)
           S(k) == KeysTo(from, k)
           Right(x, k) == Treelike(x) /\ (x.status = "rows" =>
                              Listed(x.roots, S(k)) /\ Ascends(order, x.roots))
<1>1. Dedupe(from, items) = last
  BY Zenon DEF Dedupe, EachScanned
<1>2. PICK it : Turns("scans", p, EmptyTree, seq, m, it) /\ last = it[1 .. m]
  <2>1. Loops("scans", p, EmptyTree, seq, m, last)
    BY ScansLoop
  <2> QED
    BY <2>1 DEF Loops
<1> HIDE DEF last
<1> DEFINE P == {k \in 0 .. m : Right(it[1 .. k], k)}
<1>3. 0 \in P
  <2>1. 1 .. 0 = {} /\ 0 \in 0 .. m
    OBVIOUS
  <2>2. it[1 .. 0] = EmptyTree
    BY <1>2, <2>1 DEF Turns
  <2>3. EmptyTree.roots = <<>>
    BY DEF EmptyTree
  <2>4. S(0) = {}
    BY <2>1 DEF KeysTo
  <2>5. Listed(<<>>, {}) /\ Ascends(order, <<>>)
    BY DEF Listed, Ascends, ToSet
  <2>6. Right(EmptyTree, 0)
    BY <2>3, <2>4, <2>5, TreesAre
  <2> HIDE DEF Right
  <2> QED
    BY <2>1, <2>2, <2>6
<1>4. ASSUME NEW k \in 1 .. m, k - 1 \in P
      PROVE  k \in P
  <2> DEFINE x == it[1 .. (k - 1)]
             y == it[1 .. k]
             row == from[k]
             a == <<row[None].key>>
  <2>1. y = IF x.status = "rows" THEN ScanRow(x, items, row, k) ELSE x
    <3>1. seq[k] = k
      OBVIOUS
    <3> HIDE DEF seq
    <3> QED
      BY <1>2, <3>1 DEF Turns, Turn
  <2>2. Right(x, k - 1) /\ k \in 0 .. m
    BY <1>4
  <2>3. S(k) = S(k - 1) \union {a}
    <3>1. 1 .. k = (1 .. (k - 1)) \union {k}
      OBVIOUS
    <3> QED
      BY <3>1 DEF KeysTo
  <2>4. Numbered(items, row)
    OBVIOUS
  <2>5. \A i \in 1 .. m : from[i][None].key \in Nat
    BY DEF Numbered
  <2> HIDE DEF x, y, row
  <2>6. Treelike(y)
    BY <2>1, <2>2, RowIsTree
  <2>7. ASSUME y.status = "rows"
        PROVE  Listed(y.roots, S(k)) /\ Ascends(order, y.roots)
    <3>1. x.status = "rows" /\ y = ScanRow(x, items, row, k)
      BY <2>1, <2>7
    <3>2. y.roots = IF a \in ToSet(x.roots) THEN x.roots ELSE Append(x.roots, a)
      BY <2>2, <2>4, <2>7, <3>1, RowAddsRoot
    <3>3. Listed(x.roots, S(k - 1)) /\ Ascends(order, x.roots)
      BY <2>2, <3>1
    <3>4. a = <<from[k][None].key>>
      BY DEF row
    <3> HIDE DEF a, Right
    <3>5. Listed(y.roots, S(k))
      <4> DEFINE R == S(k - 1)
      <4>1. S(k) = R \union {a} /\ Listed(x.roots, R)
        BY <2>3, <3>3
      <4> HIDE DEF R
      <4>2. Listed(IF a \in ToSet(x.roots) THEN x.roots ELSE Append(x.roots, a), R \union {a})
        BY <4>1, ListedMore
      <4> QED
        BY <3>2, <4>1, <4>2
    <3>6. Ascends(order, y.roots)
      BY <2>5, <3>2, <3>3, <3>4, AscendsMore
    <3> QED
      BY <3>5, <3>6
  <2>8. Right(y, k)
    BY <2>6, <2>7
  <2> HIDE DEF Right
  <2> QED
    BY <2>2, <2>8 DEF y
<1> HIDE DEF P
<1>5. m \in P
  BY <1>3, <1>4, UpTo
<1>6. Right(last, m)
  BY <1>2, <1>5 DEF P
<1> QED
  BY <1>1, <1>6

\* What the roots of a tree are, for the roots K that match.
RootsExact(s, K, order, whole) ==
    /\ \A i, j \in DOMAIN s : s[i] = s[j] => i = j
    /\ ToSet(s) \subseteq {<<k>> : k \in K}
    /\ Ascends(order, s) /\ Len(s) \in Nat
    /\ whole => ToSet(s) = {<<k>> : k \in K} /\ Cardinality(K) = Len(s)

\* Slices of rows are rows, in the same order.
LEMMA SliceIs ==
  ASSUME NEW S, NEW s \in Seq(S), NEW limit \in Nat, NEW offset \in Nat, NEW order,
         Sorted(s, order)
  PROVE  /\ Slice(s, limit, offset) \in Seq(S) /\ Sorted(Slice(s, limit, offset), order)
         /\ (offset = 0 /\ (limit = 0 \/ Len(s) <= limit)) => Slice(s, limit, offset) = s
<1> DEFINE end == IF limit > 0 /\ offset + limit < Len(s) THEN offset + limit ELSE Len(s)
           m == offset + 1
           from == SubSeq(s, m, end)
<1>1. Slice(s, limit, offset) = from
  BY DEF Slice
<1>2. Len(s) \in Nat /\ DOMAIN s = 1 .. Len(s) /\ \A i \in 1 .. Len(s) : s[i] \in S
  BY LenProperties, ElementOfSeq
<1>3. end \in Nat /\ end <= Len(s) /\ m \in Nat /\ m >= 1
  BY <1>2
<1>4. CASE offset = 0 /\ (limit = 0 \/ Len(s) <= limit)
  <2>1. end = Len(s) /\ m = 1
    <3> DEFINE l == Len(s)
    <3>1. l \in Nat
      BY <1>2
    <3> HIDE DEF l
    <3>2. (IF limit > 0 /\ offset + limit < l THEN offset + limit ELSE l) = l
      BY <1>4, <3>1 DEF l
    <3> QED
      BY <1>4, <3>2 DEF l
  <2> HIDE DEF end, m
  <2>2. from = s
    <3>1. SubSeq(s, 1, Len(s)) = s
      BY SubSeqFull
    <3> QED
      BY <2>1, <3>1
  <2> QED
    BY <1>1, <2>2
<1>5. from \in Seq(S) /\ Sorted(from, order)
  <2> HIDE DEF end, m
  <2>1. \A i \in m .. end : s[i] \in S
    BY <1>2, <1>3
  <2>2. /\ from \in Seq(S)
        /\ Len(from) = IF m <= end THEN end - m + 1 ELSE 0
        /\ \A i \in 1 .. end - m + 1 : from[i] = s[m + i - 1]
    BY <1>3, <2>1, SubSeqProperties
  <2>3. DOMAIN from = 1 .. Len(from)
    BY <2>2, LenProperties
  <2> HIDE DEF from
  <2>4. ASSUME NEW i \in DOMAIN from, NEW j \in DOMAIN from, i < j
        PROVE  \/ order = "asc" /\ from[i][None].key <= from[j][None].key
               \/ order = "desc" /\ from[i][None].key >= from[j][None].key
               \/ order = "none"
    <3>1. i \in 1 .. end - m + 1 /\ j \in 1 .. end - m + 1
      BY <1>3, <2>2, <2>3
    <3>2. m + i - 1 \in 1 .. Len(s) /\ m + j - 1 \in 1 .. Len(s) /\ m + i - 1 < m + j - 1
      BY <1>2, <1>3, <2>4, <3>1
    <3>3. from[i] = s[m + i - 1] /\ from[j] = s[m + j - 1]
      BY <2>2, <3>1
    <3> QED
      BY <1>2, <3>2, <3>3 DEF Sorted
  <2>5. Sorted(from, order)
    BY <2>4 DEF Sorted
  <2> QED
    BY <2>2, <2>5
<1> QED
  BY <1>1, <1>4, <1>5

\* An arrangement of a finite set has all its elements.
LEMMA ArrangementIs ==
  ASSUME NEW S, IsFiniteSet(S), NEW order, NEW s \in Arrangements(S, order)
  PROVE  s \in Seq(S) /\ ToSet(s) = S /\ Sorted(s, order) /\ Len(s) = Cardinality(S)
<1> DEFINE n == Cardinality(S)
           T == ToSet(s)
<1>1. /\ n \in Nat /\ s \in [1 .. n -> S] /\ Sorted(s, order)
      /\ \A i, j \in 1 .. n : i # j => s[i] # s[j]
  BY FS_CardinalityType DEF Arrangements, SetToSeqs
<1>2. s \in Seq(S) /\ Len(s) = n /\ DOMAIN s = 1 .. n
  BY <1>1
<1>3. T = {s[i] : i \in 1 .. n}
  BY <1>2 DEF ToSet
<1> HIDE DEF n
<1>4. T \in SUBSET S
  BY <1>1, <1>3
<1>5. s \in [1 .. n -> T] /\ \A t \in T : \E i \in 1 .. n : s[i] = t
  BY <1>1, <1>3
<1> HIDE DEF T
<1>6. s \in Surjection(1 .. n, T)
  BY <1>5, OntoIs
<1>7. s \in Injection(1 .. n, T)
  BY <1>1, <1>5, OneToOneIs
<1>8. IsFiniteSet(1 .. n) /\ Cardinality(1 .. n) = n
  BY <1>1, FS_Interval
<1>9. Cardinality(T) = Cardinality(1 .. n)
  BY <1>6, <1>7, <1>8, FS_Surjection
<1>10. T = S
  BY <1>4, <1>8, <1>9, FS_Subset DEF n
<1> QED
  BY <1>1, <1>2, <1>10 DEF T, n

WholeIn(h, r) == r.offset = 0 /\ (r.limit = 0 \/ Cardinality(Found(h, r)) <= r.limit)

\* The keys of an arrangement are those of the roots, those of a slice are some.
LEMMA KeysAreRoots ==
  ASSUME NEW found, NEW roots, Rooted(found, roots), NEW from \in Seq(found)
  PROVE  /\ KeysTo(from, Len(from)) \subseteq {<<k>> : k \in roots}
         /\ ToSet(from) = found => KeysTo(from, Len(from)) = {<<k>> : k \in roots}
<1> DEFINE n == Len(from)
<1>1. n \in Nat /\ DOMAIN from = 1 .. n /\ \A i \in 1 .. n : from[i] \in found
  BY LenProperties, ElementOfSeq
<1>2. ToSet(from) = {from[i] : i \in 1 .. n}
  BY <1>1 DEF ToSet
<1> HIDE DEF n
<1>3. \A i \in 1 .. n : from[i][None].key \in roots
  BY <1>1 DEF Rooted
<1>4. ASSUME ToSet(from) = found, NEW k \in roots
      PROVE  \E i \in 1 .. n : from[i][None].key = k
  <2>1. PICK row \in found : row[None].key = k
    BY DEF Rooted, HasRow
  <2>2. PICK i \in 1 .. n : from[i] = row
    BY <1>2, <1>4, <2>1
  <2> QED
    BY <2>1, <2>2
<1> QED
  BY <1>3, <1>4 DEF KeysTo, n

\* Unique keys of roots are as many as the roots.
LEMMA NamesSize ==
  ASSUME NEW K, NEW s, Listed(s, {<<k>> : k \in K})
  PROVE  Cardinality(K) = Len(s)
<1> DEFINE T == {<<k>> : k \in K}
           f == [t \in T |-> t[1]]
<1>1. IsFiniteSet(T) /\ Cardinality(T) = Len(s)
  BY ListedSize
<1>2. f \in [T -> K] /\ \A k \in K : \E t \in T : f[t] = k
  <2>1. \A k \in K : <<k>> \in T /\ f[<<k>>] = k
    OBVIOUS
  <2>2. \A t \in T : f[t] \in K
    OBVIOUS
  <2> QED
    BY <2>1, <2>2
<1>3. \A a, b \in T : f[a] = f[b] => a = b
  OBVIOUS
<1> HIDE DEF T, f
<1>4. f \in Surjection(T, K) /\ f \in Injection(T, K)
  BY <1>2, <1>3, OntoIs, OneToOneIs
<1>5. Cardinality(K) = Cardinality(T)
  BY <1>1, <1>4, FS_Surjection
<1> QED
  BY <1>1, <1>5

\* The roots of the tree that is made of the rows of a queryset.
LEMMA TreeRoots ==
  ASSUME Linked, RowsOK, NEW h, NEW r, Shaped(r), IsStatement(r), StartsWithKey(r.items),
         NEW t \in Trees(h, r), t.status = "rows"
  PROVE  RootsExact(t.roots, RootsOf(db, Matching(h, r), r.joins), r.order, WholeIn(h, r))
<1> DEFINE K == Matching(h, r)
           found == Found(h, r)
           roots == RootsOf(db, K, r.joins)
           names == {<<k>> : k \in roots}
           items == r.items
<1>1. r.joins \in Seq(Relation) /\ Joinable(r.joins) /\ K \subseteq db.roots
      /\ r.limit \in Nat /\ r.offset \in Nat
  BY DEF Shaped, IsStatement, Matching
<1>2. Rooted(found, roots)
  <2>1. found = JoinedRows(db, K, r.joins)
    BY DEF Found
  <2> HIDE DEF K, found
  <2> QED
    BY <1>1, <2>1, RowsRooted
<1>3. IsFiniteSet(found)
  BY FoundIsFinite
<1>4. items \in Seq(Item) /\ items # <<>> /\ Head(items) = [at |-> None, what |-> "all"]
  BY DEF Shaped, StartsWithKey
<1>5. roots \subseteq Nat \ {0}
  BY <1>1, WritesAssumption DEF RootsOf, RowsOK
<1>6. PICK s \in Arrangements(found, r.order) : t = Dedupe(Slice(s, r.limit, r.offset), items)
  BY DEF Trees
<1> HIDE DEF found, roots, items, K
<1>7. s \in Seq(found) /\ ToSet(s) = found /\ Sorted(s, r.order) /\ Len(s) = Cardinality(found)
  BY <1>3, ArrangementIs
<1> DEFINE from == Slice(s, r.limit, r.offset)
           m == Len(from)
<1>8. from \in Seq(found) /\ Sorted(from, r.order)
  BY <1>1, <1>7, SliceIs
<1>9. WholeIn(h, r) => from = s
  BY <1>1, <1>7, SliceIs DEF WholeIn, found
<1> HIDE DEF from
<1>10. m \in Nat /\ DOMAIN from = 1 .. m /\ \A i \in 1 .. m : from[i] \in found
  BY <1>8, LenProperties, ElementOfSeq
<1> HIDE DEF m
<1>11. ASSUME NEW i \in 1 .. m
       PROVE  Numbered(items, from[i])
  <2>1. from[i][None].key \in roots
    BY <1>2, <1>10 DEF Rooted
  <2> QED
    BY <1>4, <1>5, <2>1 DEF Numbered
<1>12. HasRoot(items)
  <2>1. Len(items) \in Nat \ {0} /\ DOMAIN items = 1 .. Len(items) /\ Head(items) = items[1]
    BY <1>4, LenProperties, EmptySeq
  <2>2. items[1] \in ToSet(items)
    BY <2>1 DEF ToSet
  <2>3. items[1].at = None /\ items[1].what = "all"
    BY <1>4, <2>1
  <2> QED
    BY <2>2, <2>3 DEF HasRoot
<1>13. Listed(t.roots, KeysTo(from, m)) /\ Ascends(r.order, t.roots)
  <2>1. t = Dedupe(from, items)
    BY <1>6 DEF from
  <2> QED
    BY <1>4, <1>8, <1>10, <1>11, <1>12, <2>1, DedupeRoots
<1>14. /\ KeysTo(from, m) \subseteq names
       /\ WholeIn(h, r) => KeysTo(from, m) = names
  BY <1>2, <1>7, <1>8, <1>9, KeysAreRoots DEF m
<1>15. ToSet(t.roots) = KeysTo(from, m) /\ Len(t.roots) \in Nat
  BY <1>13, ListedSize
<1>16. KeysTo(from, m) = names => Cardinality(roots) = Len(t.roots)
  BY <1>13, NamesSize
<1>17. \A i, j \in DOMAIN t.roots : t.roots[i] = t.roots[j] => i = j
  BY <1>13 DEF Listed
<1>18. RootsExact(t.roots, roots, r.order, WholeIn(h, r))
  BY <1>13, <1>14, <1>15, <1>16, <1>17 DEF RootsExact
<1> QED
  BY <1>18 DEF roots, K

-----------------------------------------------------------------------------
(* The trees that the calls answer. *)

\* The same query, apart from what is cached.
SameQuery(r, s) ==
    /\ "where" \in DOMAIN r /\ r.where = s.where /\ r.items = s.items /\ r.joins = s.joins
    /\ r.limit = s.limit /\ r.offset = s.offset /\ r.order = s.order

\* What Get makes of a tree.
GetStatus(t) ==
    IF t.status # "rows" THEN t.status
    ELSE IF Len(t.roots) = 0 THEN "no rows"
    ELSE IF Len(t.roots) > 1 THEN "multiple" ELSE "ok"

\* Queryset q runs as p.set, which answers tree t, and becomes r.
Plants(q, p, r, t) ==
    /\ Assigned(q) /\ Prepares(q, p) /\ Shaped(p.set) /\ t \in Trees(p.heap, p.set)
    /\ SameQuery(r, p.set) /\ Assign(q, r, p.heap) /\ UNCHANGED <<db, meant>>
    /\ answer'.on = q /\ answer'.tree = t
    /\ answer'.op = "get" => answer'.status = GetStatus(t)
Planted == \E q \in QS : \E p, r, t : Plants(q, p, r, t)
Bare == answer'.tree = None /\ (answer'.op = "get" => ~answer'.fresh)

LEMMA BareIs ==
  ASSUME NEW op, op # "get", NEW q, NEW status, NEW value,
         Answered(op, q, status, None, value)
  PROVE  Bare
BY DEF Answered, Bare

LEMMA SameIs ==
  ASSUME NEW s, Shaped(s)
  PROVE  /\ SameQuery(s, s)
         /\ \A h, kind, value : SameQuery(Kept(h, s, kind, value), s)
         /\ SameQuery([s EXCEPT !.useCache = FALSE], s)
<1>1. SameQuery(s, s) /\ DOMAIN s = Fields
  BY DEF Shaped, Fields, SameQuery
<1>2. ASSUME NEW c
      PROVE  SameQuery([s EXCEPT !.cached = c], s)
  BY <1>1 DEF Fields, SameQuery
<1>3. ASSUME NEW h, NEW kind, NEW value
      PROVE  SameQuery(Kept(h, s, kind, value), s)
  <2> DEFINE c == [kind |-> kind, value |-> value, asked |-> Asked(h, s)]
  <2>1. Kept(h, s, kind, value) = s \/ Kept(h, s, kind, value) = [s EXCEPT !.cached = c]
    BY DEF Kept
  <2> HIDE DEF c
  <2> QED
    BY <1>1, <1>2, <2>1
<1>4. SameQuery([s EXCEPT !.useCache = FALSE], s)
  BY <1>1 DEF Fields, SameQuery
<1> QED
  BY <1>1, <1>3, <1>4

\* The calls that answer a tree.
LEMMA AllPlants ==
  ASSUME WInv, NEW q \in QS, All(q)
  PROVE  Planted
<1> DEFINE p == Prepared(q, <<>>)
<1>1. Assigned(q) /\ Assign(q, p.set, p.heap) /\ UNCHANGED <<db, meant>>
  BY DEF All, Assigned
<1>2. Shaped(p.set) /\ Prepares(q, p)
  BY <1>1, NoItems, PreparedShaped, PreparedPrepares DEF WInv
<1>3. PICK t \in Trees(p.heap, p.set) : Answered("all", q, StatusOf(t), t, Len(t.roots))
  BY DEF All
<1> HIDE DEF p
<1>4. SameQuery(p.set, p.set)
  BY <1>2, SameIs
<1>5. answer'.on = q /\ answer'.tree = t /\ answer'.op # "get"
  BY <1>3 DEF Answered
<1>6. Plants(q, p, p.set, t)
  BY <1>1, <1>2, <1>3, <1>4, <1>5 DEF Plants
<1> QED
  BY <1>6 DEF Planted

LEMMA GetPlants ==
  ASSUME WInv, NEW q \in QS, Get(q)
  PROVE  Planted
<1> DEFINE p == Limited(q, GetLimit, qs[q].order)
<1>1. Assigned(q) /\ qs[q].order \in Orders /\ UNCHANGED <<db, meant>>
  BY DEF Get, Assigned, WInv, AllShaped, Shaped
<1>2. Shaped(p.set) /\ Prepares(q, p)
  BY <1>1, LimitedShaped, LimitedPrepares, QueriesAssumption DEF WInv
<1>3. PICK t \in Trees(p.heap, p.set) : \E r :
         /\ Answered("get", q, GetStatus(t), t, Len(t.roots))
         /\ Assign(q, r, p.heap) /\ (r = p.set \/ r = Kept(p.heap, p.set, "row", t.roots))
  BY DEF Get, GetStatus
<1> HIDE DEF p
<1>4. PICK r : Assign(q, r, p.heap) /\ (r = p.set \/ r = Kept(p.heap, p.set, "row", t.roots))
  BY <1>3
<1>5. SameQuery(r, p.set)
  BY <1>2, <1>4, SameIs
<1>6. answer'.on = q /\ answer'.tree = t /\ answer'.status = GetStatus(t)
  BY <1>3 DEF Answered
<1>7. Plants(q, p, r, t)
  BY <1>1, <1>2, <1>4, <1>5, <1>6 DEF Plants
<1> QED
  BY <1>7 DEF Planted

LEMMA FirstPlants ==
  ASSUME WInv, NEW q \in QS, NEW op, op # "get", NEW order \in Orders, FirstOf(op, q, order)
  PROVE  Planted
<1> DEFINE p == Limited(q, 1, order)
<1>1. Assigned(q) /\ Assign(q, p.set, p.heap) /\ UNCHANGED <<db, meant>>
  BY DEF FirstOf, Assigned
<1>2. Shaped(p.set) /\ Prepares(q, p)
  BY <1>1, LimitedShaped, LimitedPrepares DEF WInv
<1>3. PICK t \in Trees(p.heap, p.set) : \E status : Answered(op, q, status, t, Len(t.roots))
  BY DEF FirstOf
<1> HIDE DEF p
<1>4. SameQuery(p.set, p.set)
  BY <1>2, SameIs
<1>5. answer'.on = q /\ answer'.tree = t /\ answer'.op # "get"
  BY <1>3 DEF Answered
<1>6. Plants(q, p, p.set, t)
  BY <1>1, <1>2, <1>3, <1>4, <1>5 DEF Plants
<1> QED
  BY <1>6 DEF Planted

LEMMA GetOrCreatePlants ==
  ASSUME WInv, NEW q \in QS, NEW k, GetOrCreate(q, k)
  PROVE  Planted \/ Bare
<1> DEFINE l == Limited(q, GetLimit, qs[q].order)
           r == [l.set EXCEPT !.useCache = FALSE]
           p == [l EXCEPT !.set.useCache = FALSE]
<1>1. Assigned(q) /\ qs[q].order \in Orders /\ UNCHANGED meant
  BY DEF GetOrCreate, Assigned, WInv, AllShaped, Shaped
<1>2. Shaped(l.set) /\ Prepares(q, l)
  BY <1>1, LimitedShaped, LimitedPrepares, QueriesAssumption DEF WInv
<1>3. p.set = r /\ p.heap = l.heap
  <2>1. l = [heap |-> l.heap, set |-> l.set]
    BY DEF Limited
  <2> QED
    BY <2>1
<1>4. CASE Conds(q) = <<>>
  BY <1>4, BareIs DEF GetOrCreate
<1>5. CASE Conds(q) # <<>>
  <2>1. Assign(q, p.set, p.heap)
    BY <1>5 DEF GetOrCreate
  <2>2. PICK t \in Trees(p.heap, p.set) :
           \/ \E status : Answered("get or create", q, status, None, k)
           \/ /\ \E status : Answered("get or create", q, status, t, Len(t.roots))
              /\ UNCHANGED db
    BY <1>5 DEF GetOrCreate
  <2> HIDE DEF p, l
  <2>3. Shaped(r) /\ SameQuery(r, l.set)
    BY <1>2, SameIs DEF Shaped, Fields
  <2> HIDE DEF r
  <2>4. Prepares(q, p) /\ Shaped(p.set) /\ SameQuery(p.set, p.set)
    BY <1>2, <1>3, <2>3, SameIs DEF Prepares, SameQuery
  <2>5. CASE \E status : Answered("get or create", q, status, None, k)
    <3>1. PICK status : Answered("get or create", q, status, None, k)
      BY <2>5
    <3> QED
      BY <3>1 DEF Answered, Bare
  <2>6. CASE /\ \E status : Answered("get or create", q, status, t, Len(t.roots))
             /\ UNCHANGED db
    <3>1. PICK status : Answered("get or create", q, status, t, Len(t.roots))
      BY <2>6
    <3>2. answer'.on = q /\ answer'.tree = t /\ answer'.op # "get"
      BY <3>1 DEF Answered
    <3>3. Plants(q, p, p.set, t)
      BY <1>1, <2>1, <2>2, <2>4, <2>6, <3>2 DEF Plants
    <3> QED
      BY <3>3 DEF Planted
  <2> QED
    BY <2>2, <2>5, <2>6
<1> QED
  BY <1>4, <1>5

LEMMA CallsPlant ==
  ASSUME WInv, Next
  PROVE  Planted \/ Bare
<1>1. ASSUME NEW q \in QS, NEW d \in QS, Makes(q, d)
      PROVE  Bare
  <2>1. Answered("make", q, "ok", None, 0)
    BY <1>1 DEF Makes, Limit, Offset, OrderBy, Backwards, Select, Annotate, Filter, Make
  <2> QED
    BY <2>1, BareIs
<1>2. ASSUME NEW q \in QS, NEW c, Scope(q, c)
      PROVE  Bare
  BY <1>2, BareIs DEF Scope
<1>3. ASSUME NEW q \in QS, NEW op, NEW kind, FromCache(op, q, kind)
      PROVE  Bare
  BY <1>3 DEF FromCache, Bare
<1>4. ASSUME NEW q \in QS, NEW kind \in {"values", "list"}, NEW items, Values(q, kind, items)
      PROVE  Bare
  <2>1. kind # "get" /\ \E status, value : Answered(kind, q, status, None, value)
    BY <1>4 DEF Values
  <2> QED
    BY <2>1, BareIs
<1>5. ASSUME NEW q \in QS, Aggregate(q)
      PROVE  Bare
  <2>1. \E status, value : Answered("map", q, status, None, value)
    BY <1>5 DEF Aggregate
  <2> QED
    BY <2>1, BareIs
<1>6. ASSUME NEW q \in QS, Count(q) \/ Exists(q)
      PROVE  Bare
  BY <1>6, BareIs DEF Count, Exists, Counts
<1>7. ASSUME NEW q \in QS, GetFirst(q) \/ GetLast(q)
      PROVE  Planted
  <2>1. qs[q].order \in Orders /\ Flipped(qs[q].order) \in Orders
    BY <1>7 DEF GetFirst, GetLast, WInv, AllShaped, Assigned, Shaped, Flipped, Orders
  <2> QED
    BY <1>7, <2>1, FirstPlants DEF GetFirst, GetLast
<1>8. ASSUME NEW q \in QS, Reads(q)
      PROVE  Planted \/ Bare
  BY <1>3, <1>4, <1>5, <1>6, <1>7, <1>8, AllPlants, GetPlants DEF Reads, Cachings
<1>9. ASSUME NEW q \in QS, NEW objs, Delete(q, objs)
      PROVE  Bare
  BY <1>9, BareIs DEF Delete
<1>10. ASSUME NEW q \in QS, Writes(q)
       PROVE  Planted \/ Bare
  BY <1>9, <1>10, GetOrCreatePlants DEF Writes
<1> QED
  BY <1>1, <1>2, <1>8, <1>10 DEF Next

LEMMA OthersAreBare ==
  ASSUME WInv, WritesNext, ~Next
  PROVE  Bare
<1>1. ASSUME NEW op, op # "get", NEW q, NEW s, NEW status, NEW os, NEW e,
             Told(op, q, s, status, os, e)
      PROVE  Bare
  BY <1>1, BareIs DEF Told
<1>2. ASSUME NEW q \in QS, WritesOf(q)
      PROVE  Bare
  BY <1>1, <1>2, WritesTell DEF Updated, Created, Written
<1>3. ASSUME NEW o \in Object, Helpers(o)
      PROVE  Bare
  BY <1>1, <1>3, HelpersTell DEF SavedNew, Saved, Removed
<1>4. ASSUME NEW o, NEW f, NEW v, Change(o, f, v)
      PROVE  Bare
  BY <1>4, BareIs DEF Change
<1> QED
  BY <1>2, <1>3, <1>4 DEF WritesNext

\* What such a call answers: the conditions and the rows of a queryset that
\* has run are those of the queryset that it has become.
LEMMA PlantsExact ==
  ASSUME WInv, Linked, Planted
  PROVE  RootsAreExact' /\ GetIsOnly'
<1>1. PICK q \in QS : \E p, r, t : Plants(q, p, r, t)
  BY DEF Planted
<1>2. PICK p, r, t : Plants(q, p, r, t)
  BY <1>1
<1> DEFINE s == p.set
           K == Matching(p.heap, s)
           roots == RootsOf(db, K, s.joins)
           whole == WholeIn(p.heap, s)
<1>3. IInv /\ RowsOK /\ Assigned(q) /\ Prepares(q, p) /\ Assign(q, r, p.heap)
      /\ UNCHANGED meant /\ db' = db
  BY <1>2 DEF WInv, Plants
<1>4. Shaped(s) /\ SameQuery(r, s) /\ t \in Trees(p.heap, s)
  BY <1>2 DEF Plants
<1>5. answer'.on = q /\ answer'.tree = t /\ (answer'.op = "get" => answer'.status = GetStatus(t))
  BY <1>2 DEF Plants
<1>6. IInv'
  BY <1>3, <1>4, RunKeeps DEF SameQuery
<1>7. qs'[q] = r /\ heap' = [a \in Array |-> IF a \in Held(qs') THEN p.heap[a] ELSE <<>>]
  BY <1>3 DEF Assign, IInv
<1> SUFFICES ASSUME r # None
             PROVE  RootsAreExact' /\ GetIsOnly'
  BY <1>5, <1>7 DEF RootsAreExact, GetIsOnly
<1>8. r.where.arr \in Array /\ r.where.arr \in Held(qs')
  <2>1. Assigned(q)' /\ AllGood(heap)'
    BY <1>6, <1>7 DEF Assigned, IInv
  <2>2. Good(heap, qs[q].where, meant[q])'
    BY <2>1 DEF AllGood
  <2> QED
    BY <1>7, <2>2 DEF Good, Slices, Held
<1>9. Cells(heap', r.where) = Cells(p.heap, s.where)
  BY <1>4, <1>7, <1>8 DEF Cells, SameQuery
<1>10. Matching(heap, qs[answer.on])' = K
  BY <1>3, <1>5, <1>7, <1>9 DEF Matching
<1>11. Found(heap, qs[answer.on])' = Found(p.heap, s)
  BY <1>3, <1>4, <1>5, <1>7, <1>10 DEF Found, SameQuery
<1>12. Whole(qs[answer.on])' = whole
  BY <1>4, <1>5, <1>7, <1>11 DEF Whole, WholeIn, SameQuery
<1>13. RootsOf(db, Matching(heap, qs[answer.on]), qs[answer.on].joins)' = roots
  BY <1>3, <1>4, <1>5, <1>7, <1>10 DEF SameQuery, RootsOf
<1> DEFINE asked == IsStatement(s) /\ StartsWithKey(s.items)
<1>14. (IsStatement(qs[answer.on]) /\ StartsWithKey(qs[answer.on].items))' = asked
  BY <1>4, <1>5, <1>7 DEF IsStatement, SameQuery
<1>15. asked /\ t.status = "rows" => RootsExact(t.roots, roots, s.order, whole)
  BY <1>3, <1>4, TreeRoots
<1>16. Treelike(t)
  BY <1>3, <1>4, TreesAreTrees
<1> HIDE DEF s, K, roots, whole, asked
<1>17. RootsAreExact'
  <2> SUFFICES ASSUME asked, t.status = "rows"
               PROVE  /\ IsInjective(t.roots) /\ ToSet(t.roots) \subseteq {<<k>> : k \in roots}
                      /\ \A i, j \in DOMAIN t.roots : i < j =>
                            /\ r.order = "asc" => t.roots[i][1] < t.roots[j][1]
                            /\ r.order = "desc" => t.roots[i][1] > t.roots[j][1]
                      /\ whole => ToSet(t.roots) = {<<k>> : k \in roots}
    BY <1>5, <1>7, <1>12, <1>13, <1>14 DEF RootsAreExact
  <2>1. RootsExact(t.roots, roots, s.order, whole)
    BY <1>15
  <2> QED
    BY <1>4, <2>1 DEF RootsExact, Ascends, IsInjective, SameQuery
<1>18. GetIsOnly'
  <2> SUFFICES ASSUME answer'.op = "get", asked, whole
               PROVE  /\ answer'.status = "ok" => Cardinality(roots) = 1
                      /\ answer'.status = "no rows" => Cardinality(roots) = 0
                      /\ answer'.status = "multiple" => Cardinality(roots) > 1
    BY <1>12, <1>13, <1>14 DEF GetIsOnly
  <2>1. CASE t.status = "rows"
    <3> DEFINE n == Len(t.roots)
    <3>1. Cardinality(roots) = n /\ n \in Nat
      BY <1>15, <2>1 DEF RootsExact
    <3>2. answer'.status = IF n = 0 THEN "no rows" ELSE IF n > 1 THEN "multiple" ELSE "ok"
      BY <1>5, <2>1 DEF GetStatus
    <3> HIDE DEF n
    <3>3. n = 0 \/ n = 1 \/ n > 1
      BY <3>1
    <3>4. /\ answer'.status = "ok" => n = 1
          /\ answer'.status = "no rows" => n = 0
          /\ answer'.status = "multiple" => n > 1
      BY <3>2, <3>3
    <3> QED
      BY <3>1, <3>4
  <2>2. CASE t.status # "rows"
    BY <1>5, <1>16, <2>2 DEF GetStatus, Treelike
  <2> QED
    BY <2>1, <2>2
<1> QED
  BY <1>17, <1>18

\* A step that answers a tree, or one that answers none.
LEMMA StepsPlant ==
  ASSUME WInv, WritesNext
  PROVE  Planted \/ Bare
<1>1. CASE Next
  BY <1>1, CallsPlant
<1>2. CASE ~Next
  BY <1>2, OthersAreBare
<1> QED
  BY <1>1, <1>2

LEMMA RootsBegin == WritesInit => Linked /\ RootsAreExact /\ GetIsOnly
<1> SUFFICES ASSUME WritesInit
             PROVE  Linked /\ RootsAreExact /\ GetIsOnly
  OBVIOUS
<1>1. Linked
  BY DEF WritesInit, Init, Linked
<1>2. answer.tree = None /\ answer.op # "get"
  BY DEF WritesInit, Init
<1> QED
  BY <1>1, <1>2 DEF RootsAreExact, GetIsOnly

LEMMA LinkedStays ==
  ASSUME WInv, Linked, [WritesNext]_<<vars, stored>>
  PROVE  Linked'
<1>1. CASE WritesNext
  BY <1>1, LinksStay DEF Linked
<1>2. CASE UNCHANGED <<vars, stored>>
  BY <1>2 DEF vars, Linked
<1> QED
  BY <1>1, <1>2

LEMMA RootsStep ==
  ASSUME WInv, Linked, RootsAreExact, GetIsOnly, [WritesNext]_<<vars, stored>>
  PROVE  RootsAreExact' /\ GetIsOnly'
<1>1. CASE WritesNext
  <2>1. CASE Planted
    BY <2>1, PlantsExact
  <2>2. CASE Bare
    BY <2>2 DEF Bare, RootsAreExact, GetIsOnly
  <2> QED
    BY <1>1, <2>1, <2>2, StepsPlant
<1>2. CASE UNCHANGED <<vars, stored>>
  <2>1. answer' = answer /\ db' = db /\ heap' = heap /\ qs' = qs
    BY <1>2 DEF vars
  <2>2. RootsAreExact'
    BY <2>1 DEF RootsAreExact, Matching, Whole, Found
  <2>3. GetIsOnly'
    BY <2>1 DEF GetIsOnly, Matching, Whole, Found
  <2> QED
    BY <2>2, <2>3
<1> QED
  BY <1>1, <1>2

\* The objects that a call answers are those that match and that no join
\* drops, each once, in the order of the query, and all of them unless the
\* limit or the offset cuts the joined rows: for any tree of relations, any
\* links, any selection that starts with the key of the root, and any order
\* in which the database returns the rows (QuerySet.All, Get, First, Last).
THEOREM RootsAlwaysExact == WritesSpec => []RootsAreExact
<1> DEFINE RInv == Linked /\ RootsAreExact /\ GetIsOnly
<1>1. WritesInit => RInv
  BY RootsBegin
<1>2. WInv /\ RInv /\ [WritesNext]_<<vars, stored>> => RInv'
  BY RootsStep, LinkedStays
<1>3. RInv => RootsAreExact
  OBVIOUS
<1> HIDE DEF RInv
<1> QED
  BY <1>1, <1>2, <1>3, WritesInvariant, PTL DEF WritesSpec

\* Get answers an object only if exactly one matches, no rows only if none
\* does and several only if there are more, as long as the joined rows are
\* within its limit: the limit of 21 rows that Get sets tells one object
\* with many joined rows from two objects (QuerySet.Get).
THEOREM GetIsAlwaysOnly == WritesSpec => []GetIsOnly
<1> DEFINE RInv == Linked /\ RootsAreExact /\ GetIsOnly
<1>1. WritesInit => RInv
  BY RootsBegin
<1>2. WInv /\ RInv /\ [WritesNext]_<<vars, stored>> => RInv'
  BY RootsStep, LinkedStays
<1>3. RInv => GetIsOnly
  OBVIOUS
<1> HIDE DEF RInv
<1> QED
  BY <1>1, <1>2, <1>3, WritesInvariant, PTL DEF WritesSpec
=============================================================================
