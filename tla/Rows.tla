------------------------------- MODULE Rows -------------------------------
(***************************************************************************)
(* From a selection to a tree of objects: the joins that Select adds       *)
(* (queryset.go), the rows that the database returns for them, and the     *)
(* objects that All makes of those rows (queryset.go,                      *)
(* queryset_dedupe.go).                                                    *)
(*                                                                         *)
(* One model, the root, and relations that lead from it to other models    *)
(* and onwards.  A place is the root, written None, or a relation; the     *)
(* relations form a tree.  Each place has a model of its own.              *)
(***************************************************************************)
EXTENDS Integers, Sequences, SequencesExt

CONSTANTS Relation, \* the relations, each at one place of the tree
          Of,       \* Of[r]: the relation whose model has the field r
          Kind,     \* Kind[r]: attrs.RelationType
          Nullable, \* the foreign keys and one-to-ones that may be NULL
          None      \* the root

Kinds == {"fk", "o2o", "o2m", "m2m"}
Multiple == {"o2m", "m2m"}

ASSUME RelationsAssumption ==
    /\ None \notin Relation
    /\ Of \in [Relation -> Relation \union {None}]
    /\ Kind \in [Relation -> Kinds]
    /\ Nullable \subseteq Relation

Place == Relation \union {None}

(* What a selected path asks for at its place: all fields with the key,    *)
(* one field that is unique in its model, or one that is not.  An          *)
(* annotation is a computed column of the root.                            *)
Item == [at : Place, what : {"all", "unique", "plain", "annotation"}]

(* A database: the keys of the root's rows, and for each relation what its *)
(* foreign keys, or the rows of its through table, say.  via is the key of *)
(* the row of the through table, 0 where there is none.                    *)
EmptyDatabase == [roots |-> {}, link |-> [r \in Relation |-> {}]]

(* The chain of relations that leads to r (FieldInfo.Chain). *)
Chain[r \in Relation] ==
    IF Of[r] = None THEN <<r>> ELSE Append(Chain[Of[r]], r)

---------------------------------------------------------------------------
(* The joins of a selection.                                               *)

(* Select adds the join of the relation that a path ends at, once; it does *)
(* not add those of the relations on the way there.                        *)
AddJoins(joins, items) ==
    LET add(js, i) == IF i.at = None \/ i.at \in ToSet(js)
                      THEN js ELSE Append(js, i.at)
    IN  FoldLeft(add, joins, items)

(* A join names the table of the relation before it, which must be there. *)
Joinable(joins) ==
    \A i \in DOMAIN joins :
        \/ Of[joins[i]] = None
        \/ \E j \in 1..(i - 1) : joins[j] = Of[joins[i]]

(* calcJoinType: the rows without a match stay. *)
IsLeftJoin(r) ==
    Kind[r] = "o2m" \/ (Kind[r] \in {"fk", "o2o"} /\ r \in Nullable)

Null == [key |-> 0, via |-> 0]

Join(db, rows, r) ==
    LET matches(row) ==
            {[key |-> l.to, via |-> l.via] :
                l \in {x \in db.link[r] : x.from = row[Of[r]].key}}
        cells(row) == IF matches(row) = {} /\ IsLeftJoin(r)
                      THEN {Null} ELSE matches(row)
        with(row, c) == [p \in DOMAIN row \union {r} |->
                            IF p \in DOMAIN row THEN row[p] ELSE c]
    IN  UNION {{with(row, c) : c \in cells(row)} : row \in rows}

(* The rows of a SELECT over the roots K. *)
JoinedRows(db, K, joins) ==
    FoldLeft(LAMBDA rows, r : Join(db, rows, r),
             {[p \in {None} |-> [key |-> k, via |-> 0]] : k \in K}, joins)

(* The orders in which a database may return them: "asc" and "desc" order  *)
(* by the root's key, "none" is a query without ORDER BY.                  *)
Sorted(s, order) ==
    \A i, j \in DOMAIN s : i < j =>
        \/ order = "asc" /\ s[i][None].key <= s[j][None].key
        \/ order = "desc" /\ s[i][None].key >= s[j][None].key
        \/ order = "none"
Arrangements(rows, order) == {s \in SetToSeqs(rows) : Sorted(s, order)}

(* LIMIT and OFFSET apply to the joined rows, 0 is no limit. *)
Slice(s, limit, offset) ==
    SubSeq(s, offset + 1,
           IF limit > 0 /\ offset + limit < Len(s) THEN offset + limit
                                                    ELSE Len(s))

---------------------------------------------------------------------------
(* The objects of one row.                                                 *)

Selected(items, p, what) == [at |-> p, what |-> what] \in ToSet(items)

(* GetUniqueKey of the object that a row fills at place p: its primary key *)
(* or the value of a unique field.  A unique field of one model is never   *)
(* taken for a key of another.                                             *)
Zero == <<0>>
UniqueKey(items, row, p) ==
    IF row[p].key # 0 /\ Selected(items, p, "all") THEN <<row[p].key>>
    ELSE IF row[p].key # 0 /\ Selected(items, p, "unique")
         THEN <<p, row[p].key>>
         ELSE Zero

(* The places that the selection makes objects for. *)
Shown(items) ==
    UNION {ToSet(Chain[i.at]) : i \in {x \in ToSet(items) : x.at # None}}

Part(items, row, r) == <<r, UniqueKey(items, row, r)>>
Parts(items, row, chain) ==
    [i \in DOMAIN chain |-> Part(items, row, chain[i])]

(* getScannableFields attaches the object of a foreign key to the object   *)
(* of its own row.  The nodes below the node that stands at chain.         *)
Attached(items, row, node, chain) ==
    LET below == {r \in Shown(items) :
                     /\ Len(Chain[r]) > Len(chain)
                     /\ IsPrefix(chain, Chain[r])
                     /\ \A i \in (Len(chain) + 1)..Len(Chain[r]) :
                           Kind[Chain[r][i]] = "fk"}
        rest(r) == SubSeq(Chain[r], Len(chain) + 1, Len(Chain[r]))
    IN  {node \o Parts(items, row, rest(r)) : r \in below}

---------------------------------------------------------------------------
(* The tree (type rows).  A node is named by the unique key of its root    *)
(* and the parts that lead to it; nodes gives the row of the through table *)
(* that it was found by.                                                   *)
EmptyTree == [status |-> "rows", roots |-> <<>>, nodes |-> <<>>]
Failed(status) == [EmptyTree EXCEPT !.status = status]

Add(nodes, new, via) == nodes @@ [n \in new |-> via]

(* newRows: a selection of several objects needs a field of the root. *)
HasMulti(items) == \E i \in ToSet(items) :
    i.at # None /\ Kind[i.at] \in Multiple
HasRoot(items) == \E i \in ToSet(items) :
    i.at = None /\ i.what # "annotation"

(* addRoot: the object of the first row with this unique key stays. *)
AddRootAgain(tree, items, row, u) == \* mutant: each row has a root of its own
    [tree EXCEPT !.roots = Append(@, u),
                 !.nodes = Add(@, Attached(items, row, <<u>>, <<>>), 0)]
AddRootFirst(tree, items, row, u) == \* mutant: a new root is put before the others
    IF u \in ToSet(tree.roots) THEN tree
    ELSE [tree EXCEPT
            !.roots = <<u>> \o @,
            !.nodes = Add(@, Attached(items, row, <<u>>, <<>>), 0)]
AddRoot(tree, items, row, u) ==
    IF u \in ToSet(tree.roots) THEN tree
    ELSE [tree EXCEPT
            !.roots = Append(@, u),
            !.nodes = Add(@, Attached(items, row, <<u>>, <<>>), 0)]

(* The chain of a relation starts at the root only if the root's primary   *)
(* key is selected before the first path through the chain's first         *)
(* relation (parentFields in getScannableFields).                          *)
Anchored(items, r) ==
    LET through(i) == items[i].at # None /\ Chain[items[i].at][1] = Chain[r][1]
    IN  \E i \in DOMAIN items :
            /\ items[i] = [at |-> None, what |-> "all"]
            /\ \A j \in 1..i : ~through(j)

(* buildChainParts and addRelationChain for the item that selects r. *)
AddToRoot(tree, items, row, u, r) == \* mutant: the chain is not followed
    [tree EXCEPT !.nodes = Add(@, {<<u, Part(items, row, r)>>}, row[r].via)]
AddRelationChain(tree, items, row, u, r) ==
    LET chain == Chain[r]
        ps == Parts(items, row, chain)
        node(i) == <<u>> \o SubSeq(ps, 1, i)
        add(nodes, i) ==
            Add(Add(nodes, {node(i)}, IF chain[i] = r THEN row[r].via ELSE 0),
                Attached(items, row, node(i), SubSeq(chain, 1, i)), 0)
    IN  IF \E i \in DOMAIN chain :
              Kind[chain[i]] \in Multiple /\ ps[i][2] = Zero
        THEN Failed("panic")  \* no part with a zero key
        ELSE IF Anchored(items, r)
        THEN [tree EXCEPT !.nodes = FoldLeftDomain(LAMBDA ns, i : add(ns, i),
                                                   @, ps)]
        ELSE IF Len(chain) = 1 /\ ps[1][2] \in ToSet(tree.roots)
        THEN tree             \* taken for a root of the same key, and lost
        ELSE Failed("panic")  \* the root is not found

(* One turn of the loop of All. *)
ScanRow(tree, items, row, i) ==
    LET key == IF HasRoot(items) THEN UniqueKey(items, row, None) ELSE Zero
        u == IF key = Zero THEN <<"row", i>> ELSE key
        chain(t, item) ==
            IF t.status = "rows" /\ item.at # None /\ Kind[item.at] # "fk"
            THEN AddRelationChain(t, items, row, u, item.at) ELSE t
    IN  IF key = Zero /\ HasRoot(items) /\ HasMulti(items)
        THEN Failed("error")  \* ErrNoUniqueKey
        ELSE FoldLeft(chain, AddRoot(tree, items, row, u), items)

Dedupe(rows, items) ==
    LET scan(t, i) == IF t.status = "rows"
                      THEN ScanRow(t, items, rows[i], i) ELSE t
    IN  IF HasMulti(items) /\ ~HasRoot(items) THEN Failed("error")
        ELSE FoldLeftDomain(scan, EmptyTree, rows)

---------------------------------------------------------------------------
(* What the tree should be, from the links alone.                          *)

(* A selection that names its objects: the root first and with its key,    *)
(* and a key or a unique field at every place on the way to a field.       *)
StartsWithKey(items) == items # <<>> /\ Head(items) = [at |-> None, what |-> "all"]
WellSelected(items) ==
    /\ StartsWithKey(items)
    /\ \A r \in Shown(items) :
          Selected(items, r, "all") \/ Selected(items, r, "unique")

Name(items, r, k) ==
    IF k = 0 THEN Zero ELSE IF Selected(items, r, "all") THEN <<k>> ELSE <<r, k>>

Targets(db, r, k) == {l.to : l \in {x \in db.link[r] : x.from = k}}

(* Whether an inner join drops the object with key k at place p, 0 being   *)
(* no object: each relation that is joined below it must find a row that   *)
(* stays, or be one that may find none.                                    *)
Stays(db, joins) ==
    LET below(p) == {r \in ToSet(joins) : Of[r] = p}
        keys == {0} \union db.roots
                \union UNION {{l.to : l \in db.link[r]} : r \in Relation}
        stays[x \in Place \X keys] ==
            \A r \in below(x[1]) :
                \/ \E t \in Targets(db, r, x[2]) : stays[<<r, t>>]
                \/ Targets(db, r, x[2]) = {} /\ IsLeftJoin(r) /\ stays[<<r, 0>>]
    IN  stays
RootsOf(db, K, joins) == {k \in K : Stays(db, joins)[<<None, k>>]}

(* The keys that relation r leads to from key k.  The object of a NULL     *)
(* foreign key is one with a zero key.                                     *)
Related(db, joins, r, k) ==
    LET keys == IF Targets(db, r, k) = {} /\ Kind[r] \notin Multiple
                THEN {0} ELSE Targets(db, r, k)
    IN  {t \in keys : Stays(db, joins)[<<r, t>>]}

(* The sequences of keys along a chain from the roots K. *)
Trails(db, K, joins, chain) ==
    LET step(S, r) ==
            UNION {{Append(t, k) : k \in Related(db, joins, r, Last(t))} : t \in S}
    IN  FoldLeft(step, {<<k>> : k \in RootsOf(db, K, joins)}, chain)

ExactNodes(db, K, joins, items) ==
    LET node(t, c) == <<<<t[1]>>>> \o
            [i \in DOMAIN c |-> <<c[i], Name(items, c[i], t[i + 1])>>]
    IN  UNION {{node(t, Chain[r]) : t \in Trails(db, K, joins, Chain[r])}
               : r \in Shown(items)}
=============================================================================
