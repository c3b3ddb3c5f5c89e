---------------------------- MODULE MCQuerySets ----------------------------
(* Two variables of a program.  The first starts with a queryset without   *)
(* conditions, or with one that was filtered three times.  The model has a *)
(* nullable foreign key, a reverse one, a nullable one-to-one, and a       *)
(* many-to-many relation to a model that has one of its own.  MaxEvents    *)
(* calls at most.                                                          *)
EXTENDS Writes

CONSTANTS a, b, owner, parts, page, tags, notes, x, y, MaxEvents

VARIABLES events, writing

MCOf == (owner :> None) @@ (parts :> None) @@ (page :> None)
        @@ (tags :> None) @@ (notes :> tags)
MCKind == (owner :> "fk") @@ (parts :> "o2m") @@ (page :> "o2o")
          @@ (tags :> "m2m") @@ (notes :> "m2m")

L(from, via, to) == [from |-> from, via |-> via, to |-> to]

(* Every root has relations, and shares some; one tag has no note. *)
Full == [roots |-> {1, 2}, link |->
    (owner :> {L(1, 0, 1), L(2, 0, 1)}) @@ (parts :> {L(1, 0, 1), L(2, 0, 2)})
    @@ (page :> {L(1, 0, 1), L(2, 0, 2)})
    @@ (tags :> {L(1, 1, 1), L(1, 2, 2), L(2, 3, 2)})
    @@ (notes :> {L(1, 1, 1), L(1, 2, 2)})]
(* The second root has none; the link of the first is stored twice. *)
Sparse == [roots |-> {1, 2}, link |->
    (owner :> {L(1, 0, 2)}) @@ (parts :> {L(1, 0, 1), L(1, 0, 2)})
    @@ (page :> {L(1, 0, 2)})
    @@ (tags :> {L(1, 1, 1), L(1, 2, 1)})
    @@ (notes :> {L(1, 1, 1)})]

At(p, what) == [at |-> p, what |-> what]
MCSelections ==
    {<<At(None, "all"), At(tags, "all")>>,
     <<At(None, "all"), At(tags, "all"), At(notes, "unique")>>,
     <<At(None, "all"), At(notes, "all"), At(tags, "unique")>>,
     <<At(tags, "all"), At(None, "all")>>,
     <<At(None, "unique"), At(tags, "unique")>>,
     <<At(None, "all"), At(owner, "all"), At(parts, "all")>>,
     <<At(None, "plain"), At(parts, "plain")>>,
     <<At(None, "all"), At(page, "all"), At(owner, "unique")>>,
     <<At(owner, "all")>>}

(* Half of the program's runs write objects instead. *)
MCPasses == {<<x, y>>, <<y, x>>}
Plain == [EmptyDatabase EXCEPT !.roots = {1, 2}]
MCRows == (1 :> [unique |-> 1, plain |-> 1]) @@ (2 :> [unique |-> 2, plain |-> 1])
MCObjects ==
    {(x :> [key |-> 1, unique |-> 3, plain |-> 0]) @@ (y :> [key |-> 2, unique |-> 0, plain |-> 3]),
     (x :> [key |-> 0, unique |-> 1, plain |-> 1]) @@ (y :> [key |-> 0, unique |-> 3, plain |-> 0])}

MCInit ==
    /\ writing \in BOOLEAN
    /\ db \in IF writing THEN {Plain} ELSE {Full, Sparse}
    /\ rows = MCRows /\ obj \in IF writing THEN MCObjects ELSE {CHOOSE o \in MCObjects : TRUE}
    /\ call = NoCall /\ driver \in IF writing THEN Drivers ELSE {"sqlite3"}
    /\ \E n \in IF writing THEN {0} ELSE {0, Own},
          limit \in IF writing THEN {1, DefaultLimit} ELSE {DefaultLimit} :
          /\ heap = [i \in Array |->
                IF i = 1 /\ n > 0 THEN [j \in 1..(n + 1) |-> IF j > n THEN None ELSE Keys]
                ELSE <<>>]
          /\ qs = [q \in QS |-> IF q = a THEN [New(1) EXCEPT !.where.len = n, !.limit = limit]
                                ELSE None]
          /\ meant = [q \in QS |-> IF q = a THEN [i \in 1..n |-> Keys] ELSE <<>>]
    /\ answer = [op |-> "make", on |-> a, status |-> "ok", tree |-> None,
                 value |-> 0, fresh |-> TRUE]
    /\ events = 0

(* The second variable takes what is derived from the first. *)
Queries ==
    \/ Makes(a, a) \/ Makes(b, b)
    \/ \E c \in Conditions : Filter(a, b, c)
    \/ \E n \in Limits : Limit(a, b, n)
    \/ \E q \in QS :
         \/ \E c \in Conditions : Scope(q, c)
         \/ Reads(q) \/ Writes(q)

MCNext ==
    /\ events < MaxEvents /\ events' = events + 1 /\ UNCHANGED writing
    /\ \/ ~writing /\ Queries /\ Follow
       \/ /\ writing
          /\ \/ /\ \/ \E s \in {<<At(None, "plain")>>, <<At(None, "all"), At(owner, "all")>>} : Select(a, a, s)
                   \/ \E q \in QS, c \in Conditions : Filter(a, q, c)
                   \/ \E q \in QS, k \in Keys : Delete(q, {k})
                   \/ Annotate(a, a)
                /\ Follow
             \/ \E q \in QS : WritesOf(q)
             \/ \E o \in Object : Helpers(o)
             \/ \E o \in Object, f \in Columns, v \in {0, 2} : Change(o, f, v)

MCSpec == MCInit /\ [][MCNext]_<<vars, stored, events, writing>>
=============================================================================
