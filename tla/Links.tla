------------------------------- MODULE Links -------------------------------
(***************************************************************************)
(* What the calls on a many-to-many relation promise about the links in    *)
(* the database (queryset_relations.go).  An object of the program asks    *)
(* for its row to be linked to the rows of target objects, or unlinked     *)
(* from them.  A call links in one step all the targets it was given, and  *)
(* answers in that step; a call that fails has linked nothing; no call     *)
(* touches the links of another row than its object's, and none gives a    *)
(* target a new key.  Relations implements this.                           *)
(***************************************************************************)
EXTENDS Naturals

CONSTANTS Source,      \* the objects of the program that own a relation
          Target,      \* the objects a program passes to the calls
          SourceKeys,  \* the keys of the rows of sources
          Keys         \* the keys of the rows of targets

VARIABLES key,     \* key[o]: the key of the row of o, 0 before it is stored
          pk,      \* pk[t]: the key that t carries, 0 before it is stored
          linked,  \* the pairs of keys that the table of links holds
          asked,   \* asked[o]: the last call of o
          phase    \* phase[o]: how far that call is

vars == <<key, pk, linked, asked, phase>>

Ops == {"none", "add", "set", "remove", "clear"}
Rest == {"idle", "ok", "failed"}
Phases == Rest \union {"asked", "unlinked"}

NoCall == [op |-> "none", targets |-> {}]
Pairs == (SourceKeys \union {0}) \X Keys

Init ==
    /\ key \in [Source -> SourceKeys \union {0}]
    /\ pk \in [Target -> Keys \union {0}]
    /\ linked \in SUBSET Pairs
    /\ asked = [o \in Source |-> NoCall]
    /\ phase = [o \in Source |-> "idle"]

(* Between two calls an object is stored, or another takes its place. *)
Store(o) ==
    /\ phase[o] \in Rest
    /\ \E k \in SourceKeys : key' = [key EXCEPT ![o] = k]
    /\ UNCHANGED <<pk, linked, asked, phase>>

Forget(o) ==
    /\ phase[o] \in Rest
    /\ key' = key \/ \E k \in SourceKeys : key' = [key EXCEPT ![o] = k]
    /\ asked' = [asked EXCEPT ![o] = NoCall]
    /\ \E r \in Rest : phase' = [phase EXCEPT ![o] = r]
    /\ UNCHANGED <<pk, linked>>

Ask(o) ==
    /\ phase[o] \in Rest
    /\ \E op \in Ops \ {"none"}, T \in SUBSET Target :
          asked' = [asked EXCEPT ![o] = [op |-> op, targets |-> T]]
    /\ phase' = [phase EXCEPT ![o] = "asked"]
    /\ UNCHANGED <<key, pk, linked>>

(* Targets without a key get one, whether or not their rows are stored. *)
StoreTargets(o) ==
    /\ phase[o] \in {"asked", "unlinked"}
    /\ asked[o].op \in {"add", "set"}
    /\ pk' \in [Target -> Keys \union {0}]
    /\ \A t \in Target : pk[t] # 0 \/ t \notin asked[o].targets => pk'[t] = pk[t]
    /\ phase' \in {phase, [phase EXCEPT ![o] = "failed"]}
    /\ UNCHANGED <<key, linked, asked>>

Link(o) ==
    /\ \/ asked[o].op = "add" /\ phase[o] = "asked"
       \/ asked[o].op = "set" /\ phase[o] = "unlinked"
    /\ asked[o].targets # {}
    /\ \A t \in asked[o].targets : pk[t] # 0
    /\ linked' = linked \union {<<key[o], pk[t]>> : t \in asked[o].targets}
    /\ phase' = [phase EXCEPT ![o] = "ok"]
    /\ UNCHANGED <<key, pk, asked>>

(* RemoveTargets unlinks the targets it was given, if one of them is       *)
(* linked; ClearTargets, and SetTargets first, what they selected.         *)
Unlink(o) ==
    /\ phase[o] = "asked"
    /\ asked[o].op \in {"remove", "clear", "set"}
    /\ \E K \in SUBSET Keys :
          /\ linked' = linked \ ({key[o]} \X K)
          /\ asked[o].op = "remove" =>
                /\ K = {pk[t] : t \in asked[o].targets}
                /\ \E k \in K : <<key[o], k>> \in linked
    /\ phase' = [phase EXCEPT ![o] = IF asked[o].op = "set" THEN "unlinked" ELSE "ok"]
    /\ UNCHANGED <<key, pk, asked>>

Fail(o) ==
    /\ phase[o] \notin Rest
    /\ phase' = [phase EXCEPT ![o] = "failed"]
    /\ UNCHANGED <<key, pk, linked, asked>>

Next == \E o \in Source :
    \/ Store(o) \/ Forget(o) \/ Ask(o)
    \/ StoreTargets(o) \/ Link(o) \/ Unlink(o) \/ Fail(o)

Spec == Init /\ [][Next]_vars
=============================================================================
