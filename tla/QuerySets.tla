----------------------------- MODULE QuerySets -----------------------------
(***************************************************************************)
(* A program that derives querysets from one another and runs them         *)
(* (queryset.go).                                                          *)
(*                                                                         *)
(* A queryset is a pointer that the program keeps in a variable.  Filter,  *)
(* Limit, Select and the like make a new one from it; All, Get, First,     *)
(* Values, Aggregate and Delete read it, and change it in place.  The      *)
(* conditions are a Go slice, so that two querysets may share the array    *)
(* beneath; answers other than those of All are kept in the queryset.      *)
(* What the rows of an answer become is module Rows.                       *)
(*                                                                         *)
(* A condition is the set of keys of the root that it admits.              *)
(***************************************************************************)
EXTENDS Rows, FiniteSets

CONSTANTS QS,           \* the variables of the program that hold querysets
          Array,        \* bound: the arrays that slices of conditions share
          Conditions,   \* the conditions that a program passes to Filter
          Selections,   \* the paths that a program passes to Select
          Limits,       \* the limits and offsets that a program passes
          Keys,         \* bound: the keys of the root
          DefaultLimit, \* MAX_DEFAULT_RESULTS
          GetLimit      \* MAX_GET_RESULTS

(* There is always an array that nothing uses. *)
ASSUME ArrayAssumption ==
    /\ IsFiniteSet(QS)
    /\ \A S \in SUBSET Array :
          (IsFiniteSet(S) /\ Cardinality(S) <= Cardinality(QS) + 1) => S # Array
ASSUME ConditionsAssumption == Conditions \subseteq SUBSET Keys
ASSUME QueriesAssumption ==
    /\ Selections \subseteq Seq(Item) /\ Limits \subseteq Nat
    /\ GetLimit \in Nat /\ DefaultLimit \in Nat \ {0}

VARIABLES db,     \* the database
          heap,   \* heap[a]: the cells of array a, <<>> when it is unused
          qs,     \* qs[q]: the queryset in q, None before it is assigned
          answer, \* what the last call answered
          meant   \* history: meant[q]: the conditions that q was given

vars == <<db, heap, qs, answer, meant>>

Link == [from : Nat, via : Nat, to : Nat]
Database == [roots : SUBSET Keys, link : [Relation -> SUBSET Link]]

Slices == [arr : Array, len : Nat]
Orders == {"none", "asc", "desc"}
Cached == {"values", "list", "row", "map"}
QuerySetOf(r) ==
    /\ r.where \in Slices /\ r.where.len <= Len(heap[r.where.arr])
    /\ r.limit \in Nat /\ r.offset \in Nat /\ r.order \in Orders
    /\ r.items \in Seq(Item) /\ r.joins \in Seq(Relation)
    /\ {r.annotated, r.holder, r.useCache} \subseteq BOOLEAN
    /\ r.cached = None \/ r.cached.kind \in Cached

Statuses == {"ok", "error", "panic", "no rows", "multiple"}
TypeOK ==
    /\ db.roots \subseteq Keys
    /\ \A a \in Array : heap[a] \in Seq((SUBSET Keys) \union {None})
    /\ \A q \in QS : qs[q] = None \/ QuerySetOf(qs[q])
    /\ answer.status \in Statuses /\ answer.on \in QS
    /\ \A q \in QS : meant[q] \in Seq(SUBSET Keys)

---------------------------------------------------------------------------
(* Slices of conditions.                                                   *)

Held(Q) == {Q[q].where.arr : q \in {x \in QS : Q[x] # None}}
Free(h) == CHOOSE a \in Array : h[a] = <<>> /\ a \notin Held(qs)
Cells(h, w) == SubSeq(h[w.arr], 1, w.len)
Conds(q) == Cells(heap, qs[q].where)

(* append: into the array while it has room, else into one of twice the    *)
(* capacity.                                                               *)
PushInPlace(h, w, c) == \* mutant: the slice that append returns has no new array
    [heap |-> h, where |-> [w EXCEPT !.len = @ + 1]]
Push(h, w, c) ==
    LET n == w.len + 1
        old == Len(h[w.arr])
        grown == [i \in 1..(IF 2 * old > n THEN 2 * old ELSE n) |->
                    IF i <= w.len THEN h[w.arr][i] ELSE IF i = n THEN c ELSE None]
    IN  IF n <= old
        THEN [heap |-> [h EXCEPT ![w.arr][n] = c],
              where |-> [w EXCEPT !.len = n]]
        ELSE [heap |-> [h EXCEPT ![Free(h)] = grown],
              where |-> [arr |-> Free(h), len |-> n]]

(* slices.Clone: an array of its own, without room. *)
Copied(h, w) == [heap |-> [h EXCEPT ![Free(h)] = Cells(h, w)],
                 where |-> [arr |-> Free(h), len |-> w.len]]

(* Variable q takes a queryset; what nothing points to is collected. *)
Assign(q, r, h) ==
    /\ qs' = [qs EXCEPT ![q] = r]
    /\ heap' = [a \in Array |-> IF a \in Held(qs') THEN h[a] ELSE <<>>]

---------------------------------------------------------------------------
(* Making querysets.                                                       *)

(* Clone: all but the cached answer and the field that collects the        *)
(* annotations.                                                            *)
CloneWithCache(q) == \* mutant: the cached answer is copied
    LET w == Copied(heap, qs[q].where)
    IN  [heap |-> w.heap,
         set |-> [qs[q] EXCEPT !.where = w.where, !.holder = FALSE]]
Clone(q) ==
    LET w == Copied(heap, qs[q].where)
    IN  [heap |-> w.heap,
         set |-> [qs[q] EXCEPT !.where = w.where,
                               !.cached = None, !.holder = FALSE]]

Answered(op, q, status, tree, value) ==
    answer' = [op |-> op, on |-> q, status |-> status, tree |-> tree,
               value |-> value, fresh |-> TRUE]

(* d := q.Method(...), where the method changes its clone. *)
Make(q, d, r) ==
    /\ qs[q] # None
    /\ Assign(d, r, Clone(q).heap)
    /\ meant' = [meant EXCEPT ![d] = meant[q]]
    /\ Answered("make", q, "ok", None, 0)
    /\ UNCHANGED db

Limit(q, d, n) == Make(q, d, [Clone(q).set EXCEPT !.limit = n])
Offset(q, d, n) == Make(q, d, [Clone(q).set EXCEPT !.offset = n])
OrderBy(q, d, order) == Make(q, d, [Clone(q).set EXCEPT !.order = order])

Flipped(order) ==
    IF order = "asc" THEN "desc" ELSE IF order = "desc" THEN "asc" ELSE order
Backwards(q, d) == Make(q, d, [Clone(q).set EXCEPT !.order = Flipped(@)])

(* Select replaces the fields and keeps the joins; selecting all fields    *)
(* selects the annotations again.                                          *)
Everything == [at |-> None, what |-> "all"]
Computed == [at |-> None, what |-> "annotation"]
SelectOn(r, items) ==
    [r EXCEPT !.items = IF r.annotated /\ Everything \in ToSet(items)
                        THEN Append(items, Computed) ELSE items,
              !.joins = AddJoins(@, items)]
Select(q, d, items) == Make(q, d, SelectOn(Clone(q).set, items))

(* Annotate selects nothing but its annotation when nothing was selected. *)
AnnotateOn(r) ==
    [r EXCEPT !.annotated = TRUE, !.holder = TRUE,
              !.items = IF r.holder THEN @ ELSE Append(@, Computed)]
Annotate(q, d) == Make(q, d, AnnotateOn(Clone(q).set))

(* Filter appends to the slice of the queryset that it is called on, not   *)
(* to the one that it has cloned.                                          *)
FilterOnly(q, d, c) == \* mutant: the conditions before it are not kept
    /\ qs[q] # None
    /\ LET w == Push(heap, [qs[q].where EXCEPT !.len = 0], c)
       IN  Assign(d, [Clone(q).set EXCEPT !.where = w.where], w.heap)
    /\ meant' = [meant EXCEPT ![d] = Append(meant[q], c)]
    /\ Answered("make", q, "ok", None, 0)
    /\ UNCHANGED db
Filter(q, d, c) ==
    /\ qs[q] # None
    /\ LET w == Push(heap, qs[q].where, c)
       IN  Assign(d, [Clone(q).set EXCEPT !.where = w.where], w.heap)
    /\ meant' = [meant EXCEPT ![d] = Append(meant[q], c)]
    /\ Answered("make", q, "ok", None, 0)
    /\ UNCHANGED db

(* q.Scope(f), where f filters its clone: q becomes what f returns. *)
Scope(q, c) ==
    /\ qs[q] # None
    /\ LET k == Clone(q)
           w == Push(k.heap, k.set.where, c)
       IN  Assign(q, [k.set EXCEPT !.where = w.where], w.heap)
    /\ meant' = [meant EXCEPT ![q] = Append(@, c)]
    /\ Answered("scope", q, "ok", None, 0)
    /\ UNCHANGED db

---------------------------------------------------------------------------
(* Running queries.                                                        *)

Matching(h, r) ==
    {k \in db.roots : \A i \in DOMAIN Cells(h, r.where) : k \in Cells(h, r.where)[i]}
Found(h, r) == JoinedRows(db, Matching(h, r), r.joins)

(* A statement with a join to a table that is not there is an error of the *)
(* database, and one without columns is for SQLite and MySQL.              *)
IsStatement(r) == r.items # <<>> /\ Joinable(r.joins)

(* queryAll: the paths that are passed are selected, without any all       *)
(* fields if none were before; the queryset becomes the clone that Select  *)
(* returns.                                                                *)
Prepared(q, items) ==
    LET k == Clone(q)
    IN  IF items # <<>> \/ qs[q].items = <<>>
        THEN [k EXCEPT !.set = SelectOn(@, IF items # <<>> THEN items
                                           ELSE <<Everything>>)]
        ELSE [heap |-> heap, set |-> qs[q]]

(* What All makes of the rows, in each order the database may choose. *)
Trees(h, r) ==
    IF ~IsStatement(r) THEN {Failed("error")}
    ELSE {Dedupe(Slice(s, r.limit, r.offset), r.items) :
             s \in Arrangements(Found(h, r), r.order)}

UsesCache(q) == qs[q] # None /\ qs[q].cached # None /\ qs[q].useCache

(* The queryset as it is when its answer is kept. *)
Asked(h, r) == [conds |-> Cells(h, r.where), limit |-> r.limit,
                offset |-> r.offset, order |-> r.order,
                items |-> r.items, joins |-> r.joins]
Kept(h, r, kind, value) ==
    IF r.useCache
    THEN [r EXCEPT !.cached = [kind |-> kind, value |-> value,
                               asked |-> Asked(h, r)]]
    ELSE r

(* The answer is taken from the cache: a type assertion, which panics when *)
(* another method has put it there.                                        *)
FromCache(op, q, kind) ==
    /\ UsesCache(q)
    /\ LET c == qs[q].cached
           ok == c.kind = kind
       IN  answer' = [op |-> op, on |-> q,
                      status |-> IF ok THEN "ok" ELSE "panic", tree |-> None,
                      value |-> IF ok THEN c.value ELSE 0, fresh |-> FALSE]
    /\ UNCHANGED <<db, heap, qs, meant>>

StatusOf(tree) == IF tree.status = "rows" THEN "ok" ELSE tree.status

(* All does not keep its answer. *)
All(q) ==
    /\ qs[q] # None /\ ~UsesCache(q)
    /\ LET p == Prepared(q, <<>>)
       IN  /\ \E t \in Trees(p.heap, p.set) :
                  Answered("all", q, StatusOf(t), t, Len(t.roots))
           /\ Assign(q, p.set, p.heap)
    /\ UNCHANGED <<db, meant>>

(* Get and First limit the queryset in place, Last reverses it first. *)
Limited(q, n, order) ==
    LET k == Clone(q)
        r == [k.set EXCEPT !.limit = n, !.order = order]
    IN  [heap |-> k.heap,
         set |-> IF r.items = <<>> THEN SelectOn(r, <<Everything>>) ELSE r]

Get(q) ==
    /\ qs[q] # None /\ ~UsesCache(q)
    /\ LET p == Limited(q, GetLimit, qs[q].order)
       IN  \E t \in Trees(p.heap, p.set) :
              LET n == Len(t.roots)
                  status == IF t.status # "rows" THEN t.status
                            ELSE IF n = 0 THEN "no rows"
                            ELSE IF n > 1 THEN "multiple" ELSE "ok"
              IN  /\ Answered("get", q, status, t, n)
                  /\ Assign(q, IF status = "ok" THEN Kept(p.heap, p.set, "row", t.roots)
                               ELSE p.set, p.heap)
    /\ UNCHANGED <<db, meant>>

FirstOf(op, q, order) ==
    /\ qs[q] # None
    /\ LET p == Limited(q, 1, order)
       IN  /\ \E t \in Trees(p.heap, p.set) :
                  Answered(op, q, IF t.status = "rows" /\ t.roots = <<>>
                                  THEN "no rows" ELSE StatusOf(t),
                           t, Len(t.roots))
           /\ Assign(q, p.set, p.heap)
    /\ UNCHANGED <<db, meant>>
GetFirst(q) == qs[q] # None /\ FirstOf("first", q, qs[q].order)
GetLast(q) == qs[q] # None /\ FirstOf("last", q, Flipped(qs[q].order))

(* The keys of the maps that Values makes: the path and name of a field,   *)
(* the alias of an annotation, the name alone of a column of a through     *)
(* table.  The first are told apart by the selection; whether the others   *)
(* meet a name of the root or of each other is up to the names.            *)
Repeats(items) ==
    \E i, j \in DOMAIN items :
        LET kinds == {items[i].what, items[j].what}
        IN  /\ i # j /\ items[i].at = items[j].at /\ "annotation" \notin kinds
            /\ "all" \in kinds \/ Cardinality(kinds) = 1
Pathless(item) == item.what = "annotation" \/ (item.at # None /\ Kind[item.at] = "m2m")
MayRepeat(items) ==
    \E i, j \in DOMAIN items :
        /\ i # j /\ Pathless(items[i])
        /\ items[j].at = None \/ Pathless(items[j])

(* Values and ValuesList: the rows as they come, and kept.  Values fails   *)
(* on a row in which two fields have one key.                              *)
Values(q, kind, items) ==
    /\ qs[q] # None /\ ~UsesCache(q)
    /\ LET p == Prepared(q, items)
           n == Len(Slice(SetToSeq(Found(p.heap, p.set)), p.set.limit, p.set.offset))
           maps == kind = "values" /\ n > 0
           repeats == Repeats(p.set.items)
       IN  \/ /\ IsStatement(p.set) /\ ~(maps /\ repeats)
              /\ Assign(q, Kept(p.heap, p.set, kind, n), p.heap)
              /\ Answered(kind, q, "ok", None, n)
           \/ /\ IsStatement(p.set) => maps /\ (repeats \/ MayRepeat(p.set.items))
              /\ Assign(q, p.set, p.heap)
              /\ Answered(kind, q, "error", None, 0)
    /\ UNCHANGED <<db, meant>>

(* Aggregate replaces the fields in place; an annotation that the queryset *)
(* collects already is not among the new ones, so that there may be none:  *)
(* only PostgreSQL takes a statement without columns.  An answer without   *)
(* rows, which an expression that aggregates nothing may have, is not kept.*)
Aggregate(q) ==
    /\ qs[q] # None /\ ~UsesCache(q)
    /\ LET r == AnnotateOn([qs[q] EXCEPT !.items = <<>>])
           n == Cardinality(Found(heap, r))
       IN  \/ /\ Joinable(r.joins)
              /\ \E s \in {Kept(heap, r, "map", n)} \union (IF n = 0 THEN {r} ELSE {}) :
                    Assign(q, s, heap)
              /\ Answered("map", q, "ok", None, n)
           \/ /\ ~IsStatement(r)
              /\ Assign(q, r, heap)
              /\ Answered("map", q, "error", None, 0)
    /\ UNCHANGED <<db, meant>>

(* The answer of COUNT is one row, which any OFFSET leaves out. *)
CountedFromOffset(q, offset) == \* mutant: the offset is not taken off
    IF qs[q].offset > 0 THEN 0 ELSE Cardinality(Found(heap, qs[q]))
Counted(q, offset) ==
    IF offset > 0 THEN 0 ELSE Cardinality(Found(heap, qs[q]))
Counts(op, q, n) ==
    /\ IF Joinable(qs[q].joins) THEN Answered(op, q, "ok", None, n)
                                ELSE Answered(op, q, "error", None, 0)
    /\ UNCHANGED <<db, heap, qs, meant>>
Count(q) == qs[q] # None /\ Counts("count", q, Counted(q, qs[q].offset))
Exists(q) ==
    qs[q] # None /\ Counts("exists", q, IF Counted(q, 0) > 0 THEN 1 ELSE 0)

---------------------------------------------------------------------------
(* Changing rows.                                                          *)

(* Delete adds the objects to the conditions of the queryset itself, keeps *)
(* its cache and its limit, and takes no joins.                            *)
NotNarrowed(q, objs) == \* mutant: the objects are not added
    [heap |-> heap, where |-> qs[q].where]
Narrowed(q, objs) ==
    IF objs = {} THEN [heap |-> heap, where |-> qs[q].where]
    ELSE Push(heap, qs[q].where, objs)
Delete(q, objs) ==
    /\ qs[q] # None
    /\ LET w == Narrowed(q, objs)
           r == [qs[q] EXCEPT !.where = w.where]
           gone == Matching(w.heap, r)
           ok == r.joins = <<>>
       IN  /\ Assign(q, r, w.heap)
           /\ Answered("delete", q, IF ok THEN "ok" ELSE "error", None,
                       IF ok THEN Cardinality(gone) ELSE 0)
           /\ db' = IF ok THEN [db EXCEPT !.roots = @ \ gone] ELSE db
    /\ meant' = IF objs = {} THEN meant ELSE [meant EXCEPT ![q] = Append(@, objs)]

(* GetOrCreate turns the cache off for good, gets, and creates when there  *)
(* are no rows; k is the key that the database gives.                      *)
GetOrCreate(q, k) ==
    /\ qs[q] # None
    /\ IF Conds(q) = <<>>
       THEN /\ Answered("get or create", q, "panic", None, 0)
            /\ UNCHANGED <<db, heap, qs>>
       ELSE LET l == Limited(q, GetLimit, qs[q].order)
                p == [l EXCEPT !.set.useCache = FALSE]
            IN  /\ Assign(q, p.set, p.heap)
                /\ \E t \in Trees(p.heap, p.set) :
                      LET n == Len(t.roots)
                      IN  IF t.status = "rows" /\ n = 0
                          THEN /\ k \notin db.roots
                               /\ db' = [db EXCEPT !.roots = @ \union {k}]
                               /\ Answered("get or create", q, "ok", None, k)
                          ELSE /\ Answered("get or create", q,
                                    IF t.status # "rows" THEN t.status
                                    ELSE IF n > 1 THEN "multiple" ELSE "ok", t, n)
                               /\ UNCHANGED db
    /\ UNCHANGED meant

---------------------------------------------------------------------------
(* Objects: no conditions, no order, the default limit, no fields.  The    *)
(* program finds the rows and the links of others.                         *)
New(a) == [where |-> [arr |-> a, len |-> 0], limit |-> DefaultLimit,
           offset |-> 0, order |-> "none", items |-> <<>>, joins |-> <<>>,
           annotated |-> FALSE, holder |-> FALSE, cached |-> None, useCache |-> TRUE]

Init ==
    /\ \E a \in Array, q \in QS :
          /\ qs = [x \in QS |-> IF x = q THEN New(a) ELSE None]
          /\ answer = [op |-> "make", on |-> q, status |-> "ok", tree |-> None,
                       value |-> 0, fresh |-> TRUE]
    /\ heap = [a \in Array |-> <<>>]
    /\ db \in Database /\ \A r \in Relation : IsFiniteSet(db.link[r])
    /\ meant = [q \in QS |-> <<>>]

Makes(q, d) ==
    \/ \E n \in Limits : Limit(q, d, n) \/ Offset(q, d, n)
    \/ \E o \in {"asc", "desc"} : OrderBy(q, d, o)
    \/ Backwards(q, d)
    \/ \E s \in Selections : Select(q, d, s)
    \/ Annotate(q, d)
    \/ \E c \in Conditions : Filter(q, d, c)
Cachings(q) ==
    \/ FromCache("all", q, "rows") \/ All(q)
    \/ FromCache("get", q, "row") \/ Get(q)
    \/ \E kind \in {"values", "list"}, s \in Selections \union {<<>>} :
          FromCache(kind, q, kind) \/ Values(q, kind, s)
    \/ FromCache("map", q, "map") \/ Aggregate(q)
Reads(q) == Cachings(q) \/ GetFirst(q) \/ GetLast(q) \/ Count(q) \/ Exists(q)
Writes(q) ==
    \/ \E objs \in {{}} \union {{k} : k \in Keys} : Delete(q, objs)
    \/ \E k \in Keys : GetOrCreate(q, k)
Next ==
    \E q \in QS :
        \/ \E d \in QS : Makes(q, d)
        \/ \E c \in Conditions : Scope(q, c)
        \/ Reads(q) \/ Writes(q)
Spec == Init /\ [][Next]_vars

---------------------------------------------------------------------------
(* Properties.                                                             *)

(* The growth of an array leaves room only from the fourth condition on. *)
Own == 3

(* ConditionsAreOwn: whatever is done with querysets that were derived     *)
(* from it or that it was derived from, a queryset has as many conditions  *)
(* as it was given, and the first three are those it was given.            *)
ConditionsAreOwn ==
    \A q \in QS : qs[q] # None =>
        /\ Len(Conds(q)) = Len(meant[q])
        /\ \A i \in DOMAIN meant[q] : i <= Own => Conds(q)[i] = meant[q][i]

(* CacheIsAsked: a cached answer is that of the queryset as it is: a call  *)
(* that changes it drops the answer.  Delete alone does not; it adds       *)
(* conditions.                                                             *)
CacheIsAsked ==
    \A q \in QS : (qs[q] # None /\ qs[q].cached # None) =>
        LET asked == qs[q].cached.asked
            conds == IF Len(asked.conds) > Own THEN SubSeq(asked.conds, 1, Own)
                     ELSE asked.conds
        IN  /\ IsPrefix(conds, Conds(q))
            /\ [asked EXCEPT !.conds = <<>>]
                  = [Asked(heap, qs[q]) EXCEPT !.conds = <<>>]

HasEmptySet(r) ==
    \E row \in Found(heap, r), p \in Shown(r.items) :
        Kind[p] = "o2m" /\ row[p].key = 0
Whole(r) ==
    r.offset = 0 /\ (r.limit = 0 \/ Cardinality(Found(heap, r)) <= r.limit)

LinkedBy(n, via, items) ==
    LET r == Last(n)[1]
        name(p, k) == IF p = None THEN <<k>> ELSE Name(items, p, k)
        above == IF Len(n) = 2 THEN n[1] ELSE n[Len(n) - 1][2]
    IN  via # 0 => \E l \in db.link[r] :
            /\ l.via = via /\ name(r, l.to) = Last(n)[2]
            /\ name(Of[r], l.from) = above

(* The path to r comes before the paths that go through it. *)
NamedFirst(items, r) ==
    \E i \in DOMAIN items : /\ items[i].at = r
        /\ \A j \in 1..(i - 1) : items[j].at # None => r \notin ToSet(Chain[items[j].at])

(* RootsAreExact: the objects that All, Get, First and Last answer, when    *)
(* the selection starts with the key of the root.  Each matches and is     *)
(* there once, whatever rows the joins made of it, in the order of the     *)
(* query; and none is missing unless LIMIT or OFFSET cut the joined rows.  *)
RootsAreExact ==
    (answer.tree # None /\ qs[answer.on] # None) =>
        LET r == qs[answer.on]
            s == answer.tree.roots
            roots == {<<k>> : k \in RootsOf(db, Matching(heap, r), r.joins)}
        IN  (IsStatement(r) /\ StartsWithKey(r.items) /\ answer.tree.status = "rows") =>
              /\ IsInjective(s) /\ ToSet(s) \subseteq roots
              /\ \A i, j \in DOMAIN s : i < j =>
                    /\ r.order = "asc" => s[i][1] < s[j][1]
                    /\ r.order = "desc" => s[i][1] > s[j][1]
              /\ Whole(r) => ToSet(s) = roots

(* RowsAreExact: what hangs below these objects.  When the selection names *)
(* its objects and no one-to-many of an answered row is empty, there is a  *)
(* tree; every related object hangs below the object that the database     *)
(* links it to, with the row of the through table that links them; and     *)
(* nothing is missing unless LIMIT or OFFSET cut the joined rows.  The row *)
(* of the through table is kept if the path to the relation is selected    *)
(* before the paths through it.                                            *)
RowsAreExact ==
    answer.tree # None =>
        LET r == qs[answer.on]
            t == answer.tree
            K == Matching(heap, r)
            exact == ExactNodes(db, K, r.joins, r.items)
        IN  (IsStatement(r) /\ WellSelected(r.items) /\ ~HasEmptySet(r)) =>
              /\ t.status = "rows"
              /\ DOMAIN t.nodes \subseteq exact
              /\ \A n \in DOMAIN t.nodes : LinkedBy(n, t.nodes[n], r.items)
              /\ Whole(r) => /\ DOMAIN t.nodes = exact
                            /\ \A n \in DOMAIN t.nodes :
                                  (/\ Kind[Last(n)[1]] = "m2m"
                                   /\ NamedFirst(r.items, Last(n)[1])) =>
                                      t.nodes[n] # 0

(* GetIsOnly: what Get answers without an error is the one object that     *)
(* matches, as long as the joined rows of the others are within the limit  *)
(* of Get; no rows and several rows are told apart the same way.           *)
GetIsOnly ==
    (answer.op = "get" /\ answer.fresh /\ qs[answer.on] # None) =>
        LET r == qs[answer.on]
            n == Cardinality(RootsOf(db, Matching(heap, r), r.joins))
        IN  (IsStatement(r) /\ StartsWithKey(r.items) /\ Whole(r)) =>
              /\ answer.status = "ok" => n = 1
              /\ answer.status = "no rows" => n = 0
              /\ answer.status = "multiple" => n > 1

(* CountsMatch: without an offset Count is the number of matching objects  *)
(* if no relation that was ever selected links a key twice, as a foreign   *)
(* key never does, and never less; Exists says whether there are any,      *)
(* whatever the limit and the offset.                                      *)
OneEach(links) == \A l, m \in links : l.from = m.from => l = m
CountsMatch ==
    LET r == qs[answer.on]
        n == Cardinality(RootsOf(db, Matching(heap, r), r.joins))
    IN  answer.status = "ok" =>
          /\ answer.op = "exists" => (answer.value = 1 <=> n > 0)
          /\ (answer.op = "count" /\ r.offset = 0) =>
                /\ answer.value >= n
                /\ (\A p \in ToSet(r.joins) : OneEach(db.link[p])) =>
                      answer.value = n

(* DeletesOnlyMatching: rows go only by a Delete, and then those that      *)
(* match all the conditions the queryset was given, the passed object      *)
(* included; the fourth condition on may be that of a sibling.  Only       *)
(* DeleteObject (module Writes) removes rows otherwise.                    *)
OnlyMatchingGo ==
    db.roots \subseteq db'.roots \/ answer'.op = "remove" \/
        LET q == answer'.on
            gone == db.roots \ db'.roots
            fit(n) == {k \in db.roots :
                \A i \in DOMAIN meant'[q] : i <= n => k \in meant'[q][i]}
        IN  /\ answer'.op = "delete" /\ gone \subseteq fit(Own)
            /\ Len(meant'[q]) <= Own => gone = fit(Own)
DeletesOnlyMatching == [][OnlyMatchingGo]_vars
=============================================================================
