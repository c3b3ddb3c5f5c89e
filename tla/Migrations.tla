----------------------------- MODULE Migrations -----------------------------
(***************************************************************************)
(* The migration engine: MakeMigrations writes files that lead from the    *)
(* last migration of each model to its present fields, and Migrate applies *)
(* the files that the database does not record, through the schema editor  *)
(* of SQLite. The database and the file system are external.               *)
(***************************************************************************)
EXTENDS Naturals, Sequences, SequencesExt, Functions, TLC

CONSTANTS
    Model,       \* models whose migrations are enabled
    Field,       \* names of their fields
    Type,        \* definitions a field may have
    Target,      \* of each field: the model it relates to, or None
    Tables,      \* of each model: the tables its code may define
    Proc,        \* processes that call Migrate
    None,        \* no model, field or migration
    NoTable,     \* the table of a model that the database does not have
    MaxOrder,    \* bound: migrations of one model
    Prompt,      \* migrations are made only when none is left to apply
    Cycles,      \* models may relate to each other in a cycle
    LookupFails  \* HasMigration may fail while Migrate is at work

(* An index is named by the field it is on. *)
Columns == UNION {[S -> Type] : S \in SUBSET Field}
Table == {t \in [fields : Columns, indexes : SUBSET Field] :
             t.indexes \subseteq DOMAIN t.fields}

ASSUME FieldsAssumption == IsFiniteSet(Field)
ASSUME NoneAssumption == None \notin Model \union Field /\ NoTable \notin Columns \union Table
ASSUME TablesAssumption ==
    /\ Target \in [Field -> Model \union {None}]
    /\ Tables \in [Model -> SUBSET Table]
ASSUME BoundsAssumption ==
    MaxOrder \in Nat /\ {Prompt, Cycles, LookupFails} \subseteq BOOLEAN

VARIABLES
    code,      \* the table that each model defines
    files,     \* the migration files
    pending,   \* migrations that MakeMigrations has yet to write
    schema,    \* the columns of each model's table in the database
    recorded,  \* file names in the table of applied migrations
    run,       \* the progress of Migrate in each process
    broken,    \* history: models with a migration that stopped half way
    torn       \* history: MakeMigrations stopped before its last file

maker == <<code, files, pending, torn>>
migrator == <<schema, recorded, run, broken>>
vars == <<maker, migrator>>

ActionTypes == {"create", "add", "remove", "alter", "dropIndex", "addIndex"}
Action == [type : ActionTypes, field : Field \union {None}]

(* A file is known by its name: the order, the first action and how many   *)
(* there are.                                                              *)
FileName == [model : Model, order : 1..MaxOrder, first : Action, size : Nat]
Migration == [model : Model, order : 1..MaxOrder, table : Table,
              actions : Seq(Action), deps : SUBSET FileName]

Name(mig) == [model |-> mig.model, order |-> mig.order,
              first |-> mig.actions[1], size |-> Len(mig.actions)]
Names(migs) == {Name(mig) : mig \in migs}
Of(model, migs) == {mig \in migs : mig.model = model}

Latest(model, migs) ==
    CHOOSE mig \in Of(model, migs) :
        \A other \in Of(model, migs) : other.order <= mig.order

Targets(table) == {Target[f] : f \in DOMAIN table.fields} \ {None}
Layered(c) ==
    Cycles \/ \A S \in (SUBSET Model) \ {{}} :
                 {m \in S : Targets(c[m]) \intersect S = {}} # {}

Idle(result) == [working |-> FALSE, todo |-> {}, mig |-> None, next |-> 0,
                 result |-> result]

Init ==
    /\ code \in [Model -> UNION {Tables[m] : m \in Model}]
    /\ \A m \in Model : code[m] \in Tables[m]
    /\ Layered(code)
    /\ files = {}
    /\ pending = {}
    /\ schema = [m \in Model |-> NoTable]
    /\ recorded = {}
    /\ run = [p \in Proc |-> Idle("none")]
    /\ broken = {}
    /\ torn = FALSE

AllIdle == \A p \in Proc : ~run[p].working

(* The developer changes a model. The program that holds it is built anew, *)
(* so neither command is at work.                                          *)
EditModel(m, table) ==
    /\ pending = {} /\ AllIdle
    /\ table \in Tables[m] \ {code[m]}
    /\ code' = [code EXCEPT ![m] = table]
    /\ Layered(code')
    /\ UNCHANGED <<files, pending, torn, migrator>>

-----------------------------------------------------------------------------
(* MakeMigrations. *)

Each(type, fields) ==
    [i \in DOMAIN SetToSeq(fields) |->
        [type |-> type, field |-> SetToSeq(fields)[i]]]

(* makeMigrationDiff. A model without migrations takes one action, whatever *)
(* it defines. An index is there or not, and is never found to be renamed: *)
(* the code asks for two that differ in name and have one name.            *)
Diff(old, new) ==
    IF old = NoTable THEN <<[type |-> "create", field |-> None]>>
    ELSE LET was == DOMAIN old.fields
             is == DOMAIN new.fields
         IN  Each("add", is \ was)
             \o Each("remove", was \ is)
             \o Each("alter",
                     {f \in is \intersect was : old.fields[f] # new.fields[f]})
             \o Each("dropIndex", old.indexes \ new.indexes)
             \o Each("addIndex", new.indexes \ old.indexes)

LastTable(m) ==
    IF Of(m, files) = {} THEN NoTable ELSE Latest(m, files).table
\* Mutant: a model without files begins at order 0.
NextOrderFromZero(m) ==
    IF Of(m, files) = {} THEN 0 ELSE Latest(m, files).order + 1

NextOrder(m) ==
    IF Of(m, files) = {} THEN 1 ELSE Latest(m, files).order + 1

NewMigration(m) ==
    [model |-> m, order |-> NextOrder(m), table |-> code[m],
     actions |-> Diff(LastTable(m), code[m]), deps |-> {}]

Drafts == {mig \in {NewMigration(m) : m \in Model} : mig.actions # <<>>}

\* Mutant: a migration depends on those of every model that is registered.
DependenciesOnAll(mig) ==
    LET known == files \union Drafts
    IN  {Name(Latest(m, known)) :
            m \in {t \in Model \ {mig.model} : Of(t, known) # {}}}

(* The last migration of every model that this one relates to, those of    *)
(* this very call included, unless an older migration depends on it.       *)
Dependencies(mig) ==
    LET known == files \union Drafts
    IN  {Name(Latest(m, known)) :
            m \in {t \in Targets(mig.table) : Of(t, known) # {}}}
        \ UNION {older.deps : older \in Of(mig.model, files)}

(* A migration that would begin by dropping an index is not made: its name *)
(* is taken from a table that the action does not have, which panics.      *)
MakeMigrations ==
    /\ pending = {}
    /\ Prompt => AllIdle /\ Names(files) \subseteq recorded
    /\ Drafts # {}
    /\ \A mig \in Drafts :
          mig.order <= MaxOrder /\ mig.actions[1].type # "dropIndex"
    /\ pending' = {[mig EXCEPT !.deps = Dependencies(mig)] : mig \in Drafts}
    /\ UNCHANGED <<code, files, torn, migrator>>

\* Mutant: the name of a file leaves out its order, so the older one is lost.
WriteOverOlder(mig) ==
    /\ mig \in pending
    /\ files' = (files \ Of(mig.model, files)) \union {mig}
    /\ pending' = pending \ {mig}
    /\ UNCHANGED <<code, torn, migrator>>

(* The files are written in the order in which the models are registered.  *)
WriteMigration(mig) ==
    /\ mig \in pending
    /\ files' = files \union {mig}
    /\ pending' = pending \ {mig}
    /\ UNCHANGED <<code, torn, migrator>>

(* A file cannot be written, or the process dies. *)
MakerStops ==
    /\ pending # {}
    /\ pending' = {}
    /\ torn' = TRUE
    /\ UNCHANGED <<code, files, migrator>>

-----------------------------------------------------------------------------
(* Migrate. *)

Unapplied == {mig \in files : Name(mig) \notin recorded}

Acyclic(migs) ==
    \A S \in (SUBSET migs) \ {{}} :
        {mig \in S : mig.deps \intersect Names(S) = {}} # {}

(* buildDependencyGraph knows the unapplied migrations, and no others. *)
Missing(migs) == (UNION {mig.deps : mig \in migs}) \ Names(migs)

\* Mutant: a dependency that is not found is passed over.
MigrateIgnoringMissing(p) ==
    /\ ~run[p].working
    /\ Unapplied # {}
    /\ run' = [run EXCEPT ![p] = [Idle("none") EXCEPT !.working = TRUE,
                                                    !.todo = Unapplied]]
    /\ UNCHANGED <<maker, schema, recorded, broken>>

Migrate(p) ==
    /\ ~run[p].working
    /\ Unapplied # {}
    /\ LET begun == [Idle("none") EXCEPT !.working = TRUE, !.todo = Unapplied]
       IN  \/ /\ Missing(Unapplied) # {}
              /\ run' = [run EXCEPT ![p] = Idle("missing")]
           \/ /\ Missing(Unapplied) = {}
              /\ ~Acyclic(Unapplied)
              /\ run' = [run EXCEPT ![p] = Idle("cyclic")]
           \/ /\ Missing(Unapplied) = {}
              /\ Acyclic(Unapplied)
              /\ run' = [run EXCEPT ![p] = begun]
    /\ UNCHANGED <<maker, schema, recorded, broken>>

\* Mutant: the migrations are visited as the map gives them, unsorted.
VisitUnsorted(p, mig) ==
    /\ run[p].working /\ run[p].mig = None
    /\ mig \in run[p].todo
    /\ Name(mig) \notin recorded
    /\ run' = [run EXCEPT ![p].todo = @ \ {mig}, ![p].mig = mig, ![p].next = 1]
    /\ UNCHANGED <<maker, schema, recorded, broken>>

(* The graph is sorted from a map, which Go visits in any order: any order *)
(* of the migrations that respects their dependencies may come out. A      *)
(* migration that is recorded by now, or cannot be looked up, is skipped.  *)
Visit(p, mig) ==
    /\ run[p].working /\ run[p].mig = None
    /\ mig \in run[p].todo
    /\ mig.deps \intersect Names(run[p].todo) = {}
    /\ \E next \in {mig, None} :
          /\ next = mig => Name(mig) \notin recorded
          /\ next = None => Name(mig) \in recorded \/ LookupFails
          /\ run' = [run EXCEPT ![p].todo = @ \ {mig}, ![p].mig = next,
                                ![p].next = 1]
    /\ UNCHANGED <<maker, schema, recorded, broken>>

(* To alter a field the editor copies the table into a new one, drops it    *)
(* and renames the copy, each with a statement of its own.                  *)
Rebuilt(mig) == {NoTable, mig.table.fields}

(* What the database accepts, and what the schema editor can write: the     *)
(* definition of a column that the model no longer has is lost. No index    *)
(* comes to be: CreateTable writes none, and the index of an action that    *)
(* was read from a file has lost its table, so that adding it panics.       *)
Accepts(action, mig) ==
    LET columns == schema[mig.model]
        f == action.field
        snapshot == DOMAIN mig.table.fields
        defined == DOMAIN code[mig.model].fields
    IN  \/ action.type = "create" /\ columns = NoTable /\ snapshot \subseteq defined
        \/ /\ columns # NoTable
           /\ \/ action.type = "add" /\ f \in defined \ DOMAIN columns
              \/ action.type = "remove" /\ f \in DOMAIN columns
              \/ /\ action.type = "alter"
                 /\ snapshot \subseteq defined
                 /\ snapshot \ {f} \subseteq DOMAIN columns

Result(action, mig) ==
    LET columns == schema[mig.model]
        f == action.field
    IN  CASE action.type \in {"create", "alter"} -> mig.table.fields
          [] action.type = "add" ->
                [g \in DOMAIN columns \union {f} |->
                    IF g \in DOMAIN columns THEN columns[g]
                    ELSE mig.table.fields[g]]
          [] action.type = "remove" -> Restrict(columns, DOMAIN columns \ {f})

AtAction(p) == run[p].mig # None /\ run[p].next \in DOMAIN run[p].mig.actions

ApplyAction(p) ==
    /\ AtAction(p)
    /\ LET mig == run[p].mig
           action == mig.actions[run[p].next]
       IN  /\ Accepts(action, mig)
           /\ schema' = [schema EXCEPT ![mig.model] = Result(action, mig)]
    /\ run' = [run EXCEPT ![p].next = @ + 1]
    /\ UNCHANGED <<maker, recorded, broken>>

\* Mutant: an action that fails ends the loop, and the migration is recorded.
StoreAfterFailure(p) ==
    /\ run[p].mig # None
    /\ AtAction(p) => ~Accepts(run[p].mig.actions[run[p].next], run[p].mig)
    /\ recorded' = recorded \union {Name(run[p].mig)}
    /\ run' = [run EXCEPT ![p].mig = None]
    /\ UNCHANGED <<maker, schema, broken>>

StoreMigration(p) ==
    /\ run[p].mig # None /\ ~AtAction(p)
    /\ Name(run[p].mig) \notin recorded
    /\ recorded' = recorded \union {Name(run[p].mig)}
    /\ run' = [run EXCEPT ![p].mig = None]
    /\ UNCHANGED <<maker, schema, broken>>

(* An action or the record of the migration is refused, or the process     *)
(* dies, perhaps between the statements that alter a field.                *)
MigrateStops(p) ==
    /\ run[p].working
    /\ LET mig == run[p].mig
       IN  \/ /\ mig = None
              /\ UNCHANGED <<schema, broken>>
           \/ /\ mig # None
              /\ \/ UNCHANGED schema
                 \/ /\ AtAction(p)
                    /\ mig.actions[run[p].next].type = "alter"
                    /\ Accepts(mig.actions[run[p].next], mig)
                    /\ \E columns \in Rebuilt(mig) :
                          schema' = [schema EXCEPT ![mig.model] = columns]
              /\ broken' = IF \/ schema' # schema
                              \/ run[p].next > 1 /\ Name(mig) \notin recorded
                           THEN broken \union {mig.model} ELSE broken
    /\ run' = [run EXCEPT ![p] = Idle("failed")]
    /\ UNCHANGED <<maker, recorded>>

MigrateEnds(p) ==
    /\ run[p].working /\ run[p].mig = None /\ run[p].todo = {}
    /\ run' = [run EXCEPT ![p] = Idle("ok")]
    /\ UNCHANGED <<maker, schema, recorded, broken>>

-----------------------------------------------------------------------------
Next ==
    \/ \E m \in Model : \E table \in Tables[m] : EditModel(m, table)
    \/ MakeMigrations
    \/ \E mig \in pending : WriteMigration(mig)
    \/ MakerStops
    \/ \E p \in Proc :
        \/ Migrate(p)
        \/ \E mig \in run[p].todo : Visit(p, mig)
        \/ ApplyAction(p)
        \/ StoreMigration(p)
        \/ MigrateStops(p)
        \/ MigrateEnds(p)

Spec == Init /\ [][Next]_vars

-----------------------------------------------------------------------------
(* Properties. *)

Runs ==
    [working : BOOLEAN, todo : SUBSET files, mig : files \union {None},
     next : Nat, result : {"none", "missing", "cyclic", "failed", "ok"}]

\* Every variable has its type, and Migrate works on files that exist.
TypeOK ==
    /\ \A m \in Model : code[m] \in Tables[m]
    /\ files \union pending \subseteq Migration
    /\ schema \in [Model -> Columns \union {NoTable}]
    /\ recorded \subseteq Names(files)
    /\ run \in [Proc -> Runs]
    /\ broken \subseteq Model
    /\ torn \in BOOLEAN

\* The fields of a model's table are those of its last applied migration, as
\* long as none is at work on it and none was left half applied: no interleaving
\* of two Migrate calls, no retry and no refused action makes them differ.
SchemaIsRecorded ==
    \A m \in Model \ broken :
       (\A p \in Proc : run[p].mig = None \/ run[p].mig.model # m) =>
          LET done == {mig \in Of(m, files) : Name(mig) \in recorded}
          IN  schema[m] = IF done = {} THEN NoTable
                          ELSE Latest(m, done).table.fields

\* A migration is recorded as applied only after all of its dependencies.
DependenciesFirst ==
    \A mig \in files : Name(mig) \in recorded => mig.deps \subseteq recorded

\* What MakeMigrations writes depends only on files that are written as well,
\* unless one of its calls stopped half way.
DependenciesWritten ==
    torn \/ \A mig \in files \union pending :
               mig.deps \subseteq Names(files \union pending)

\* Models that never relate in a cycle have migrations that can be ordered, also
\* when relations are turned round and files are made anew after a failure.
AcyclicFiles == Acyclic(files \union pending)

\* Migrate misses a dependency only if there is no migration of that name: one
\* that was applied before is not missing.
AppliedIsNotMissing ==
    \A p \in Proc :
       run[p].result = "missing" /\ Missing(Unapplied) # {} =>
          ~(Missing(Unapplied) \subseteq recorded)

\* The migrations of a model are applied in their order, whatever the order in
\* which Go visits the map of unapplied migrations.
InOrder ==
    \A a, b \in files :
       /\ a.model = b.model /\ a.model \notin broken
       /\ a.order < b.order /\ Name(b) \in recorded
       => Name(a) \in recorded
=============================================================================
