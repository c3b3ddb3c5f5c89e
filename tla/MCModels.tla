------------------------------ MODULE MCModels ------------------------------
(* A blog whose foreign key points to an author and whose proxy is a page, *)
(* and a second object of the author's row.  The program's own actions,    *)
(* the failures and the deletions are MaxEvents at most; Saves that do not *)
(* fail are not counted.                                                   *)
EXTENDS Models

CONSTANTS author, author2, blog, page, f, g, MaxEvents

VARIABLE events

MCTableOf == [o \in Objects |-> CASE o \in {author, author2} -> "authors"
                                  [] o = blog -> "blogs" [] OTHER -> "pages"]
MCRefOf == [o \in Objects |-> IF o = blog THEN author ELSE None]
MCProxyOf == [o \in Objects |-> IF o = blog THEN page ELSE None]
MCEditable == {<<author, f>>, <<author2, f>>} \cap (Objects \X Fields)
MCSignalled == {<<author2, g>>} \cap (Objects \X Fields)
MCConfigs == {Plain, [fields |-> {f}, force |-> FALSE]}

Event == events < MaxEvents /\ events' = events + 1

MCInit == Init /\ events = 0

MCNext ==
    \/ Event /\ \E o \in Objects :
          \/ \E c \in Configs, fault \in Faults \ {"none"} : Save(o, c, fault)
          \/ \E x \in Fields, v \in Values : Assign(o, x, v) \/ Set(o, x, v)
          \/ \E k \in Keys : Load(o, k)
          \/ \E c \in Objects : Copy(o, c)
    \/ Event /\ \E t \in Tables, k \in Keys : Delete(t, k)
    \/ Event /\ Begin
    \/ /\ UNCHANGED events
       /\ \/ Commit \/ Rollback
          \/ \E o \in Objects :
                \/ \E c \in Configs : Save(o, c, "none") \/ SaveUninitialized(o, c)
                \/ FieldDefs(o)

MCSpec == MCInit /\ [][MCNext]_<<vars, events>>
=============================================================================
