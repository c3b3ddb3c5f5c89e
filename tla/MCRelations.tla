---------------------------- MODULE MCRelations ----------------------------
(* Two objects that may stand for one row, two targets, one of which may   *)
(* be stored at first.  What the program begins and the statements that    *)
(* fail are MaxEvents at most.                                             *)
EXTENDS Relations

CONSTANTS a, b, t, u, MaxEvents

VARIABLE events

MCInit ==
    /\ Init
    /\ key[a] = 1 /\ key[b] \in {0, 1}
    /\ pk[t] \in {0, 1} /\ pk[u] = 0
    /\ events = 0

Event == events < MaxEvents /\ events' = events + 1

Reads(o) == Filter(o) \/ Limit(o) \/ Offset(o) \/ Get(o)
Writes(o) ==
    \/ \E T \in (SUBSET Target) \ {{}} :
          AddTargets(o, T) \/ SetTargets(o, T) \/ RemoveTargets(o, T)
    \/ ClearTargets(o)
Run(o, fault) ==
    \/ Select(o, fault) \/ Delete(o, fault)
    \/ CreateTargets(o, fault) \/ CreateThrough(o, fault)

(* Only the first object narrows its queryset or passes no target, only    *)
(* the second is stored or loaded.                                         *)
MCNext ==
    \/ Event /\ (Reads(a) \/ Writes(a) \/ Writes(b) \/ Save(b) \/ Load(b))
    \/ Event /\ (AddTargets(a, {}) \/ SetTargets(a, {}) \/ RemoveTargets(a, {}))
    \/ Event /\ \E o \in Source, fault \in Faults \ {"none"} : Run(o, fault)
    \/ UNCHANGED events /\ (All(a) \/ \E o \in Source : Run(o, "none"))

MCSpec == MCInit /\ [][MCNext]_<<vars, events>>
=============================================================================
