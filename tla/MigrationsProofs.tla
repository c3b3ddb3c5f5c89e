-------------------------- MODULE MigrationsProofs --------------------------
(***************************************************************************)
(* Migrations are applied after their dependencies, for all models, files  *)
(* and processes: what the loop of Migrate has still to visit depends only *)
(* on what is recorded, at work, or visited before it; and a name in the   *)
(* record belongs to one file.                                             *)
(***************************************************************************)
EXTENDS Migrations, FiniteSetTheorems, SequenceTheorems, TLAPS

\* Files of a model have different orders, of which there is a last, and those
\* to be written have higher ones.
Numbered ==
    /\ \A mig \in files \union pending : mig.model \in Model /\ mig.order \in Nat
    /\ \A a, b \in files : a.model = b.model /\ a.order = b.order => a = b
    /\ \A a, b \in pending : a.model = b.model => a = b
    /\ \A m \in Model : Of(m, files) # {} =>
          \E last \in Of(m, files) :
             \A other \in Of(m, files) : other.order <= last.order
    /\ \A mig \in pending : \A older \in Of(mig.model, files) :
          older.order < mig.order

InHand(p) == IF run[p].mig = None THEN {} ELSE {Name(run[p].mig)}

\* What a process has in hand, and what it has left, will find its dependencies.
Prepared(p) ==
    /\ run[p].mig # None => run[p].mig.deps \subseteq recorded
    /\ \A mig \in run[p].todo :
          mig.deps \subseteq
             recorded \union Names(run[p].todo) \union InHand(p)

OrderInv ==
    /\ run \in [Proc -> Runs]
    /\ recorded \subseteq Names(files)
    /\ Numbered
    /\ \A p \in Proc : Prepared(p)
    /\ DependenciesFirst

-----------------------------------------------------------------------------
\* The name of a file tells its model and its order.
LEMMA NameTells ==
  ASSUME NEW a, NEW b, Name(a) = Name(b)
  PROVE  a.model = b.model /\ a.order = b.order
BY DEF Name

\* The names of a union are those of its parts.
LEMMA NamesOfUnion ==
  ASSUME NEW S, NEW x
  PROVE  /\ Names(S \union {x}) = Names(S) \union {Name(x)}
         /\ Names(S) \subseteq Names(S \ {x}) \union {Name(x)}
         /\ \A T : S \subseteq T => Names(S) \subseteq Names(T)
BY DEF Names

\* In the files of an invariant state a name belongs to one file.
LEMMA OneFilePerName ==
  ASSUME Numbered, NEW a \in files, NEW b \in files, Name(a) = Name(b)
  PROVE  a = b
BY NameTells DEF Numbered

\* A process at rest needs nothing.
LEMMA IdlePrepared ==
  ASSUME NEW result \in {"none", "missing", "cyclic", "failed", "ok"}
  PROVE  /\ Idle(result) \in Runs
         /\ Idle(result).todo = {} /\ Idle(result).mig = None
BY DEF Idle, Runs

-----------------------------------------------------------------------------
LEMMA OrderInit == Init => OrderInv
<1> SUFFICES ASSUME Init
             PROVE  OrderInv
  OBVIOUS
<1>1. run \in [Proc -> Runs]
  BY IdlePrepared DEF Init
<1>2. recorded \subseteq Names(files) /\ DependenciesFirst
  BY DEF Init, DependenciesFirst
<1>3. Numbered
  BY DEF Init, Numbered, Of
<1>4. \A p \in Proc : Prepared(p)
  BY IdlePrepared DEF Init, Prepared
<1> QED
  BY <1>1, <1>2, <1>3, <1>4 DEF OrderInv

\* The maker's steps. A step that leaves files, record and processes alone
\* leaves all but the numbers of pending files alone.
LEMMA MakerFrame ==
  ASSUME OrderInv, UNCHANGED <<files, migrator>>, Numbered'
  PROVE  OrderInv'
<1>1. (run \in [Proc -> Runs])' /\ (recorded \subseteq Names(files))'
  BY DEF OrderInv, migrator, Runs, Names, Name
<1>2. \A p \in Proc : Prepared(p)'
  BY DEF OrderInv, migrator, Prepared, InHand, Names, Name
<1>3. DependenciesFirst'
  BY DEF OrderInv, migrator, DependenciesFirst, Name
<1> QED
  BY <1>1, <1>2, <1>3 DEF OrderInv

\* The next order of a model is above that of all of its files.
LEMMA NextOrderIsNew ==
  ASSUME Numbered, NEW m \in Model
  PROVE  /\ NextOrder(m) \in Nat
         /\ \A older \in Of(m, files) : older.order < NextOrder(m)
<1>1. CASE Of(m, files) = {}
  BY <1>1 DEF NextOrder
<1>2. CASE Of(m, files) # {}
  <2>1. /\ Latest(m, files) \in Of(m, files)
        /\ \A other \in Of(m, files) : other.order <= Latest(m, files).order
    BY <1>2 DEF Numbered, Latest
  <2>2. \A other \in Of(m, files) : other.order \in Nat
    BY DEF Numbered, Of
  <2> QED
    BY <1>2, <2>1, <2>2 DEF NextOrder
<1> QED
  BY <1>1, <1>2

\* MakeMigrations numbers the files of each model in sequence.
LEMMA MakeNumbered ==
  ASSUME Numbered, MakeMigrations
  PROVE  Numbered'
<1>1. \A new \in pending' :
         /\ new.model \in Model
         /\ new.order = NextOrder(new.model)
         /\ \A other \in pending' : other.model = new.model => other = new
  <2>1. \A mig \in Drafts : \E m \in Model : mig = NewMigration(m)
    BY DEF Drafts
  <2>2. pending' = {[mig EXCEPT !.deps = Dependencies(mig)] : mig \in Drafts}
    BY DEF MakeMigrations
  <2>3. ASSUME NEW new \in pending'
        PROVE  \E m \in Model :
                  /\ new = [NewMigration(m) EXCEPT
                               !.deps = Dependencies(NewMigration(m))]
                  /\ new.model = m
                  /\ new.order = NextOrder(m)
    <3>1. PICK m \in Model :
             new = [NewMigration(m) EXCEPT !.deps = Dependencies(NewMigration(m))]
      BY <2>1, <2>2
    <3>2. new.model = m /\ new.order = NextOrder(m)
      BY <3>1 DEF NewMigration
    <3> QED
      BY <3>1, <3>2
  <2> QED
    BY <2>3
<1>2. files' = files
  BY DEF MakeMigrations
<1>3. \A mig \in files' \union pending' :
         mig.model \in Model /\ mig.order \in Nat
  BY <1>1, <1>2, NextOrderIsNew DEF Numbered
<1>4. \A mig \in pending' : \A older \in Of(mig.model, files') :
         older.order < mig.order
  BY <1>1, <1>2, NextOrderIsNew
<1>5. \A m : Of(m, files') = Of(m, files)
  BY <1>2
<1> QED
  BY <1>1, <1>2, <1>3, <1>4, <1>5 DEF Numbered, Of

\* The file that is written becomes the last of its model.
LEMMA WriteNumbered ==
  ASSUME Numbered, NEW mig \in pending, WriteMigration(mig)
  PROVE  Numbered'
<1> USE DEF WriteMigration
<1>1. \A f \in files' \union pending' : f.model \in Model /\ f.order \in Nat
  BY DEF Numbered
<1>2. \A a, b \in files' : a.model = b.model /\ a.order = b.order => a = b
  <2>1. \A old \in files : old.model = mig.model => old.order # mig.order
    BY DEF Numbered, Of
  <2> QED
    BY <2>1 DEF Numbered
<1>3. \A a, b \in pending' : a.model = b.model => a = b
  BY DEF Numbered
<1>4. ASSUME NEW m \in Model, Of(m, files') # {}
      PROVE  \E last \in Of(m, files') :
                \A other \in Of(m, files') : other.order <= last.order
  <2>1. CASE mig.model = m
    <3>1. mig \in Of(m, files') /\ mig.order \in Nat
      BY <2>1 DEF Of, Numbered
    <3>2. \A other \in Of(m, files') : other = mig \/ other \in Of(m, files)
      BY DEF Of
    <3>3. \A other \in Of(m, files) :
             other.order \in Nat /\ other.order < mig.order
      BY <2>1 DEF Of, Numbered
    <3>4. \A other \in Of(m, files') : other.order <= mig.order
      <4>1. mig.order <= mig.order
        BY <3>1
      <4>2. \A other \in Of(m, files) : other.order <= mig.order
        BY <3>1, <3>3
      <4> QED
        BY <3>2, <4>1, <4>2
    <3> QED
      BY <3>1, <3>4
  <2>2. CASE mig.model # m
    <3>1. Of(m, files') = Of(m, files)
      BY <2>2 DEF Of
    <3> QED
      BY <3>1, <1>4 DEF Numbered
  <2> QED
    BY <2>1, <2>2
<1>5. ASSUME NEW new \in pending', NEW older \in Of(new.model, files')
      PROVE  older.order < new.order
  <2>1. new \in pending /\ new.model # mig.model
    BY DEF Numbered
  <2>2. older \in Of(new.model, files)
    BY <1>5, <2>1 DEF Of
  <2> QED
    BY <2>1, <2>2 DEF Numbered
<1> QED
  BY <1>1, <1>2, <1>3, <1>4, <1>5 DEF Numbered

LEMMA NumberedStep ==
  ASSUME Numbered, [Next]_vars
  PROVE  Numbered'
<1>1. CASE UNCHANGED <<files, pending>>
  BY <1>1 DEF Numbered, Of
<1>2. CASE MakerStops
  BY <1>2 DEF MakerStops, Numbered, Of
<1>3. \/ UNCHANGED <<files, pending>>
      \/ MakeMigrations
      \/ \E mig \in pending : WriteMigration(mig)
      \/ MakerStops
  BY ZenonT(60)
    DEF Next, vars, maker, EditModel, Migrate, Visit, ApplyAction, StoreMigration,
         MigrateStops, MigrateEnds
<1> QED
  BY <1>1, <1>2, <1>3, MakeNumbered, WriteNumbered

LEMMA WriteStep ==
  ASSUME OrderInv, NEW mig \in pending, WriteMigration(mig)
  PROVE  OrderInv'
<1> USE DEF WriteMigration
<1>1. Numbered'
  BY WriteNumbered DEF OrderInv
<1>2. (run \in [Proc -> Runs])'
  BY DEF OrderInv, migrator, Runs
<1>3. (recorded \subseteq Names(files))'
  BY DEF OrderInv, migrator, Names, Name
<1>4. \A p \in Proc : Prepared(p)'
  BY DEF OrderInv, migrator, Prepared, InHand, Names, Name
<1>5. Name(mig) \notin recorded
  <2>1. \A old \in files : Name(old) # Name(mig)
    <3>1. \A old \in files : old.model = mig.model => old.order # mig.order
      BY DEF OrderInv, Numbered, Of
    <3> QED
      BY <3>1, NameTells
  <2> QED
    BY <2>1 DEF OrderInv, Names
<1>6. DependenciesFirst'
  BY <1>5 DEF OrderInv, migrator, DependenciesFirst, Name
<1> QED
  BY <1>1, <1>2, <1>3, <1>4, <1>6 DEF OrderInv

-----------------------------------------------------------------------------
(* The steps of Migrate. *)

\* Files and record stay, one process moves, and is prepared again.
LEMMA MigratorFrame ==
  ASSUME OrderInv, NEW p \in Proc, UNCHANGED <<files, pending, recorded>>,
         NEW r \in Runs, run' = [run EXCEPT ![p] = r],
         r.mig # None => r.mig.deps \subseteq recorded,
         \A mig \in r.todo :
            mig.deps \subseteq recorded \union Names(r.todo)
               \union (IF r.mig = None THEN {} ELSE {Name(r.mig)})
  PROVE  OrderInv'
<1>1. (run \in [Proc -> Runs])' /\ run'[p] = r
  BY DEF OrderInv, Runs
<1>2. (recorded \subseteq Names(files))' /\ DependenciesFirst' /\ Numbered'
  BY DEF OrderInv, DependenciesFirst, Numbered, Names, Name, Of
<1>3. Prepared(p)'
  BY <1>1 DEF Prepared, InHand, Names, Name
<1>4. \A q \in Proc \ {p} : Prepared(q)'
  BY DEF OrderInv, Prepared, InHand, Names, Name
<1> QED
  BY <1>1, <1>2, <1>3, <1>4 DEF OrderInv

LEMMA IdleStep ==
  ASSUME OrderInv, NEW p \in Proc, UNCHANGED <<files, pending, recorded>>,
         NEW result \in {"none", "missing", "cyclic", "failed", "ok"},
         run' = [run EXCEPT ![p] = Idle(result)]
  PROVE  OrderInv'
BY IdlePrepared, MigratorFrame

LEMMA MigrateStep ==
  ASSUME OrderInv, NEW p \in Proc, Migrate(p)
  PROVE  OrderInv'
<1>1. UNCHANGED <<files, pending, recorded>>
  BY DEF Migrate, maker
<1> DEFINE begun == [Idle("none") EXCEPT !.working = TRUE, !.todo = Unapplied]
<1>2. \/ run' = [run EXCEPT ![p] = Idle("missing")]
      \/ run' = [run EXCEPT ![p] = Idle("cyclic")]
      \/ Missing(Unapplied) = {} /\ run' = [run EXCEPT ![p] = begun]
  BY DEF Migrate
<1>3. CASE Missing(Unapplied) = {} /\ run' = [run EXCEPT ![p] = begun]
  <2>1. begun \in Runs /\ begun.mig = None /\ begun.todo = Unapplied
    BY DEF Runs, Idle, Unapplied
  <2>2. \A mig \in Unapplied : mig.deps \subseteq Names(Unapplied)
    BY <1>3 DEF Missing
  <2> HIDE DEF begun
  <2> QED
    BY <1>1, <1>3, <2>1, <2>2, MigratorFrame
<1> QED
  BY <1>1, <1>2, <1>3, IdleStep

LEMMA VisitStep ==
  ASSUME ~LookupFails, OrderInv, NEW p \in Proc, NEW mig \in run[p].todo,
         Visit(p, mig)
  PROVE  OrderInv'
<1>1. UNCHANGED <<files, pending, recorded>>
  BY DEF Visit, maker
<1>2. PICK next \in {mig, None} :
         /\ next = mig => Name(mig) \notin recorded
         /\ next = None => Name(mig) \in recorded
         /\ run' = [run EXCEPT ![p].todo = @ \ {mig}, ![p].mig = next,
                               ![p].next = 1]
  BY DEF Visit
<1> DEFINE r == [run[p] EXCEPT !.todo = @ \ {mig}, !.mig = next, !.next = 1]
<1>3. run[p] \in Runs /\ run[p].mig = None /\ mig \in files
  BY DEF OrderInv, Visit, Runs
<1>4. r \in Runs /\ r.todo = run[p].todo \ {mig} /\ r.mig = next
  BY <1>3 DEF Runs
<1>5. run' = [run EXCEPT ![p] = r]
  BY <1>2 DEF OrderInv
<1>6. \A m \in run[p].todo : m.deps \subseteq recorded \union Names(run[p].todo)
  BY <1>3 DEF OrderInv, Prepared, InHand
<1>7. next # None => next.deps \subseteq recorded
  BY <1>2, <1>6 DEF Visit
<1>8. ASSUME NEW m \in r.todo
      PROVE  m.deps \subseteq recorded \union Names(r.todo)
                \union (IF next = None THEN {} ELSE {Name(next)})
  <2>1. m.deps \subseteq recorded \union Names(run[p].todo \ {mig})
                            \union {Name(mig)}
    BY <1>4, <1>6, <1>8, NamesOfUnion
  <2> QED
    BY <1>2, <1>4, <2>1
<1> HIDE DEF r
<1> QED
  BY <1>1, <1>4, <1>5, <1>7, <1>8, MigratorFrame

LEMMA ApplyStep ==
  ASSUME OrderInv, NEW p \in Proc, ApplyAction(p)
  PROVE  OrderInv'
<1> DEFINE r == [run[p] EXCEPT !.next = @ + 1]
<1>1. UNCHANGED <<files, pending, recorded>>
  BY DEF ApplyAction, maker
<1>2. run[p] \in Runs /\ Prepared(p)
  BY DEF OrderInv
<1>3. r \in Runs /\ r.todo = run[p].todo /\ r.mig = run[p].mig
  BY <1>2 DEF Runs
<1>4. run' = [run EXCEPT ![p] = r]
  BY DEF OrderInv, ApplyAction
<1> HIDE DEF r
<1> QED
  BY <1>1, <1>2, <1>3, <1>4, MigratorFrame DEF Prepared, InHand

LEMMA StoreStep ==
  ASSUME OrderInv, NEW p \in Proc, StoreMigration(p)
  PROVE  OrderInv'
<1> DEFINE mig == run[p].mig
           r == [run[p] EXCEPT !.mig = None]
<1>1. /\ UNCHANGED <<files, pending>>
      /\ recorded' = recorded \union {Name(mig)}
      /\ mig # None
  BY DEF StoreMigration, maker
<1>2. run[p] \in Runs /\ Prepared(p) /\ mig \in files
  BY <1>1 DEF OrderInv, Runs
<1>3. r \in Runs /\ r.todo = run[p].todo /\ r.mig = None
  BY <1>2 DEF Runs
<1>4. run' \in [Proc -> Runs] /\ run'[p] = r
      /\ \A q \in Proc \ {p} : run'[q] = run[q]
  BY <1>3 DEF OrderInv, StoreMigration
<1>5. (run \in [Proc -> Runs])' /\ Numbered' /\ (recorded \subseteq Names(files))'
  BY <1>1, <1>2, <1>4 DEF OrderInv, Runs, Numbered, Of, Names, Name
<1> HIDE DEF r
<1>6. DependenciesFirst'
  <2> SUFFICES ASSUME NEW f \in files, Name(f) \in recorded \union {Name(mig)}
               PROVE  f.deps \subseteq recorded
    BY <1>1 DEF DependenciesFirst, Name
  <2>1. CASE Name(f) \in recorded
    BY <2>1 DEF OrderInv, DependenciesFirst
  <2>2. CASE Name(f) = Name(mig)
    <3>1. f = mig
      BY <1>2, <2>2, OneFilePerName DEF OrderInv
    <3> QED
      BY <1>1, <1>2, <3>1 DEF Prepared
  <2> QED
    BY <2>1, <2>2
<1>7. Prepared(p)'
  BY <1>1, <1>2, <1>3, <1>4 DEF Prepared, InHand, Names, Name
<1>8. \A q \in Proc \ {p} : Prepared(q)'
  BY <1>1, <1>4 DEF OrderInv, Prepared, InHand, Names, Name
<1> QED
  BY <1>5, <1>6, <1>7, <1>8 DEF OrderInv

-----------------------------------------------------------------------------
LEMMA OrderStep ==
  ASSUME ~LookupFails, OrderInv, [Next]_vars
  PROVE  OrderInv'
<1>0. Numbered'
  BY NumberedStep DEF OrderInv
<1>1. CASE UNCHANGED vars
  BY <1>0, <1>1, MakerFrame DEF vars, maker
<1>2. ASSUME NEW m \in Model, NEW table \in Tables[m], EditModel(m, table)
      PROVE  OrderInv'
  BY <1>0, <1>2, MakerFrame DEF EditModel
<1>3. CASE MakerStops
  BY <1>0, <1>3, MakerFrame DEF MakerStops
<1>4. ASSUME NEW p \in Proc, MigrateStops(p)
      PROVE  OrderInv'
  BY <1>4, IdleStep DEF MigrateStops, maker
<1>5. ASSUME NEW p \in Proc, MigrateEnds(p)
      PROVE  OrderInv'
  BY <1>5, IdleStep DEF MigrateEnds, maker
<1>6. CASE MakeMigrations
  BY <1>0, <1>6, MakerFrame DEF MakeMigrations
<1> QED
  BY <1>1, <1>2, <1>3, <1>4, <1>5, <1>6, WriteStep, MigrateStep, VisitStep,
     ApplyStep, StoreStep
  DEF Next

\* Whatever fails, stops or is repeated, and however many processes migrate one
\* database, no migration is recorded as applied before its dependencies, as
\* long as the record can be read.
THEOREM DependenciesAlwaysFirst == ~LookupFails => (Spec => []DependenciesFirst)
<1> SUFFICES ASSUME ~LookupFails
             PROVE  Spec => []DependenciesFirst
  OBVIOUS
<1>1. OrderInv /\ [Next]_vars => OrderInv'
  BY OrderStep
<1>2. OrderInv => DependenciesFirst
  BY DEF OrderInv
<1> QED
  BY <1>1, <1>2, OrderInit, PTL DEF Spec

-----------------------------------------------------------------------------
(* What is written. *)

\* The files and drafts of a model have a last one.
LEMMA LatestKnown ==
  ASSUME Numbered, NEW m, Of(m, files \union Drafts) # {}
  PROVE  Latest(m, files \union Drafts) \in Of(m, files \union Drafts)
<1> DEFINE known == files \union Drafts
<1>1. \A d \in Drafts : d.model \in Model /\ d = NewMigration(d.model)
  BY DEF Drafts, NewMigration
<1>0. m \in Model
  BY <1>1 DEF Of, Numbered
<1>2. \E last \in Of(m, known) :
         \A other \in Of(m, known) : other.order <= last.order
  <2>1. CASE \E d \in Drafts : d.model = m
    <3>1. PICK d \in Drafts : d.model = m
      BY <2>1
    <3>2. d = NewMigration(m) /\ d.order = NextOrder(m)
      BY <1>1, <3>1 DEF NewMigration
    <3>3. \A other \in Of(m, known) : other = d \/ other \in Of(m, files)
      BY <1>1, <3>2 DEF Of
    <3>4. \A other \in Of(m, files) : other.order \in Nat
      BY DEF Of, Numbered
    <3>5. d.order \in Nat /\ \A other \in Of(m, files) : other.order < d.order
      BY <1>0, <3>2, NextOrderIsNew
    <3>6. ASSUME NEW other \in Of(m, known)
          PROVE  other.order <= d.order
      <4>1. CASE other = d
        BY <3>5, <4>1
      <4>2. CASE other \in Of(m, files)
        <5>1. other.order \in Nat /\ other.order < d.order
          BY <3>4, <3>5, <4>2
        <5> QED
          BY <3>5, <5>1
      <4> QED
        BY <3>3, <4>1, <4>2
    <3>7. d \in Of(m, known)
      BY <3>1 DEF Of
    <3> QED
      BY <3>6, <3>7
  <2>2. CASE ~ \E d \in Drafts : d.model = m
    <3>1. Of(m, known) = Of(m, files)
      BY <2>2 DEF Of
    <3> QED
      BY <1>0, <3>1 DEF Numbered
  <2> QED
    BY <2>1, <2>2
<1> QED
  BY <1>2 DEF Latest

\* Only names of files and drafts become dependencies, and a draft keeps its
\* name when it is given its dependencies.
LEMMA MakeWrites ==
  ASSUME Numbered, DependenciesWritten, MakeMigrations
  PROVE  DependenciesWritten'
<1>1. /\ pending' = {[mig EXCEPT !.deps = Dependencies(mig)] : mig \in Drafts}
      /\ UNCHANGED <<files, torn>>
  BY DEF MakeMigrations
<1>2. \A d \in Drafts : \E m \in Model : d = NewMigration(m)
  BY DEF Drafts
<1>3. \A d \in Drafts :
         /\ Name([d EXCEPT !.deps = Dependencies(d)]) = Name(d)
         /\ [d EXCEPT !.deps = Dependencies(d)].deps = Dependencies(d)
  BY <1>2 DEF Name, NewMigration
<1>4. Names(files \union Drafts) \subseteq Names(files' \union pending')
  BY <1>1, <1>3 DEF Names
<1>5. ASSUME NEW d \in Drafts
      PROVE  Dependencies(d) \subseteq Names(files \union Drafts)
  <2>1. \A m \in Targets(d.table) : Of(m, files \union Drafts) # {} =>
           Latest(m, files \union Drafts) \in files \union Drafts
    BY LatestKnown DEF Of
  <2> QED
    BY <2>1 DEF Dependencies, Names
<1>6. ASSUME ~torn, NEW mig \in files' \union pending'
      PROVE  mig.deps \subseteq Names(files' \union pending')
  <2>1. CASE mig \in files
    <3>1. mig.deps \subseteq Names(files)
      BY <1>6, <2>1 DEF DependenciesWritten, MakeMigrations
    <3> QED
      BY <1>1, <3>1 DEF Names
  <2>2. CASE mig \in pending'
    <3>1. PICK d \in Drafts : mig = [d EXCEPT !.deps = Dependencies(d)]
      BY <1>1, <2>2
    <3>2. mig.deps = Dependencies(d)
      BY <1>3, <3>1
    <3> QED
      BY <1>4, <1>5, <3>2
  <2> QED
    BY <1>1, <1>6, <2>1, <2>2
<1>7. DependenciesWritten' <=>
         torn' \/ \A mig \in files' \union pending' :
                     mig.deps \subseteq Names(files' \union pending')
  BY DEF DependenciesWritten, Names, Name
<1> QED
  BY <1>1, <1>6, <1>7
\* No other step adds a file or a name, and writing a file only moves it.
LEMMA WrittenStep ==
  ASSUME Numbered, DependenciesWritten, [Next]_vars
  PROVE  DependenciesWritten'
<1>1. CASE UNCHANGED <<files, pending, torn>>
  BY <1>1 DEF DependenciesWritten, Names, Name
<1>2. ASSUME NEW mig \in pending, WriteMigration(mig)
      PROVE  DependenciesWritten'
  <2>1. files' \union pending' = files \union pending /\ torn' = torn
    BY <1>2 DEF WriteMigration
  <2> QED
    BY <2>1 DEF DependenciesWritten, Names, Name
<1>3. CASE MakerStops
  BY <1>3 DEF MakerStops, DependenciesWritten
<1>4. CASE MakeMigrations
  BY <1>4, MakeWrites
<1>5. \/ UNCHANGED <<files, pending, torn>>
      \/ MakeMigrations
      \/ \E mig \in pending : WriteMigration(mig)
      \/ MakerStops
  BY ZenonT(60)
    DEF Next, vars, maker, EditModel, Migrate, Visit, ApplyAction, StoreMigration,
         MigrateStops, MigrateEnds
<1> QED
  BY <1>1, <1>2, <1>3, <1>4, <1>5

\* As long as no call of MakeMigrations stopped half way, every dependency that
\* a file names is a file or about to be one, whatever models relate to what.
THEOREM DependenciesAlwaysWritten == Spec => []DependenciesWritten
<1>1. Init => Numbered /\ DependenciesWritten
  BY OrderInit DEF Init, OrderInv, DependenciesWritten
<1>2. Numbered /\ DependenciesWritten /\ [Next]_vars
         => Numbered' /\ DependenciesWritten'
  BY NumberedStep, WrittenStep
<1> QED
  BY <1>1, <1>2, PTL DEF Spec
-----------------------------------------------------------------------------
(* Files that depend on each other in a circle. *)

\* The files of one call are ordered as the models that they come from, and
\* depend on older files, none of which depends on them.
LEMMA MakeAcyclic ==
  ASSUME ~Cycles, Layered(code), Numbered, AcyclicFiles, MakeMigrations,
         \A old \in files : old.deps \subseteq Names(files)
  PROVE  AcyclicFiles'
<1>1. /\ pending' = {[mig EXCEPT !.deps = Dependencies(mig)] : mig \in Drafts}
      /\ pending = {} /\ files' = files
  BY DEF MakeMigrations
<1>2. ASSUME NEW new \in pending'
      PROVE  /\ new.model \in Model
             /\ \A x \in new.deps : x.model \in Targets(code[new.model])
  <2>1. PICK d \in Drafts : new = [d EXCEPT !.deps = Dependencies(d)]
    BY <1>1, <1>2
  <2>2. PICK m \in Model : d = NewMigration(m)
    BY DEF Drafts
  <2>3. new.model = m /\ d.table = code[m] /\ new.deps = Dependencies(d)
    BY <2>1, <2>2 DEF NewMigration
  <2>4. \A t : Of(t, files \union Drafts) # {} =>
                 Name(Latest(t, files \union Drafts)).model = t
    BY LatestKnown DEF Of, Name
  <2>5. \A x \in Dependencies(d) : x.model \in Targets(d.table)
    BY <2>4 DEF Dependencies
  <2> QED
    BY <2>3, <2>5
<1>3. ASSUME NEW S \in SUBSET (files \union pending'), S # {}
      PROVE  \E mig \in S : mig.deps \intersect Names(S) = {}
  <2>1. CASE S \intersect files # {}
    <3>1. S \intersect files \in (SUBSET (files \union pending)) \ {{}}
      BY <2>1
    <3>2. PICK mig \in S \intersect files :
             mig.deps \intersect Names(S \intersect files) = {}
      BY <3>1 DEF AcyclicFiles, Acyclic
    <3>3. ASSUME NEW s \in S, Name(s) \in mig.deps
          PROVE  FALSE
      <4>1. PICK f \in files : Name(f) = Name(s)
        BY <3>2, <3>3 DEF Names
      <4>2. CASE s \in files
        BY <3>2, <3>3, <4>2 DEF Names
      <4>3. CASE s \in pending'
        <5>1. f.model = s.model /\ f.order = s.order
          BY <4>1, NameTells
        <5>2. f.order < s.order /\ f.order \in Nat
          BY <1>1, <4>3, <5>1, MakeNumbered DEF Numbered, Of
        <5> QED
          BY <5>1, <5>2
      <4> QED
        BY <4>2, <4>3
    <3> QED
      BY <3>2, <3>3 DEF Names
  <2>2. CASE S \intersect files = {}
    <3> DEFINE M == {s.model : s \in S}
    <3>1. S \subseteq pending'
      BY <2>2
    <3>2. M \in (SUBSET Model) \ {{}}
      BY <1>2, <1>3, <3>1
    <3>3. PICK m \in M : Targets(code[m]) \intersect M = {}
      <4> HIDE DEF M
      <4> QED
        BY <3>2 DEF Layered
    <3>4. PICK s \in S : s.model = m
      BY DEF M
    <3>5. \A x \in s.deps : x.model \notin M
      BY <1>2, <3>1, <3>3, <3>4
    <3>6. \A x \in Names(S) : x.model \in M
      BY DEF Names, Name
    <3> HIDE DEF M
    <3> QED
      BY <3>4, <3>5, <3>6
  <2> QED
    BY <2>1, <2>2
<1>4. \A S \in (SUBSET (files \union pending')) \ {{}} :
         {mig \in S : mig.deps \intersect Names(S) = {}} # {}
  BY <1>3
<1> QED
  BY <1>1, <1>4 DEF AcyclicFiles, Acyclic, Names, Name

\* The other steps make no files; a model never comes to relate in a cycle.
LEMMA AcyclicStep ==
  ASSUME ~Cycles, Layered(code), AcyclicFiles, [Next]_vars,
         MakeMigrations => AcyclicFiles'
  PROVE  Layered(code') /\ AcyclicFiles'
<1>0. ASSUME files' \union pending' = files \union pending
      PROVE  AcyclicFiles'
  BY <1>0 DEF AcyclicFiles
<1>1. ASSUME UNCHANGED <<files, pending>>
      PROVE  AcyclicFiles'
  BY <1>0, <1>1
<1>2. ASSUME NEW mig \in pending, WriteMigration(mig)
      PROVE  AcyclicFiles'
  BY <1>0, <1>2 DEF WriteMigration
<1>3. ASSUME MakerStops
      PROVE  AcyclicFiles'
  BY <1>3 DEF MakerStops, AcyclicFiles, Acyclic, Names, Name
<1>4. \/ UNCHANGED <<files, pending>>
      \/ MakeMigrations
      \/ \E mig \in pending : WriteMigration(mig)
      \/ MakerStops
  BY ZenonT(60)
    DEF Next, vars, maker, EditModel, Migrate, Visit, ApplyAction, StoreMigration,
         MigrateStops, MigrateEnds
<1>5. code' = code \/ \E m \in Model : \E table \in Tables[m] : EditModel(m, table)
  BY DEF Next, vars, maker, MakeMigrations, WriteMigration, MakerStops, Migrate,
         Visit, ApplyAction, StoreMigration, MigrateStops, MigrateEnds
<1>6. Layered(code')
  BY <1>5 DEF EditModel, Layered
<1> QED
  BY <1>1, <1>2, <1>3, <1>4, <1>6

\* When migrations are made only once all others are applied, and models relate
\* without a cycle at any one time, their files can always be ordered, also after
\* calls that stopped half way.
THEOREM FilesStayAcyclic ==
  ~Cycles /\ Prompt /\ ~LookupFails => (Spec => []AcyclicFiles)
<1> SUFFICES ASSUME ~Cycles, Prompt, ~LookupFails
             PROVE  Spec => []AcyclicFiles
  OBVIOUS
<1> DEFINE Inv == OrderInv /\ Layered(code) /\ AcyclicFiles
<1>1. Init => Inv
  BY OrderInit DEF Init, AcyclicFiles, Acyclic
<1>2. Inv /\ [Next]_vars => Inv'
  <2> SUFFICES ASSUME Inv, [Next]_vars
               PROVE  Inv'
    OBVIOUS
  <2>1. MakeMigrations => AcyclicFiles'
    <3> SUFFICES ASSUME MakeMigrations
                 PROVE  AcyclicFiles'
      OBVIOUS
    <3>1. \A old \in files : old.deps \subseteq Names(files)
      BY DEF MakeMigrations, OrderInv, DependenciesFirst, Names
    <3> QED
      BY <3>1, MakeAcyclic DEF OrderInv
  <2>2. OrderInv'
    BY OrderStep
  <2>3. Layered(code') /\ AcyclicFiles'
    BY <2>1, AcyclicStep
  <2>4. Layered(code)' <=> Layered(code')
    BY DEF Layered
  <2> QED
    BY <2>2, <2>3, <2>4
<1>3. Inv => AcyclicFiles
  OBVIOUS
<1> HIDE DEF Inv
<1> QED
  BY <1>1, <1>2, <1>3, PTL DEF Spec
-----------------------------------------------------------------------------
(* Types. *)

\* The actions that fit a table: what an action adds is a field of it, and what
\* it removes is none.
Fit(table) == {a \in Action : /\ a.type = "add" => a.field \in DOMAIN table.fields
                              /\ a.type = "remove" => a.field \notin DOMAIN table.fields}

\* A migration has actions, and they fit its table.
WellMade(mig) ==
    /\ mig \in Migration
    /\ mig.actions \in Seq(Fit(mig.table)) \ {<<>>}

TypeInv ==
    /\ TypeOK /\ Numbered
    /\ code \in [Model -> Table]
    /\ \A mig \in files \union pending : WellMade(mig)

\* The sequence of a finite set.
LEMMA SequenceOfSet ==
  ASSUME NEW S, IsFiniteSet(S)
  PROVE  SetToSeq(S) \in [1 .. Cardinality(S) -> S] /\ Cardinality(S) \in Nat
<1>1. Cardinality(S) \in Nat /\ ExistsBijection(1 .. Cardinality(S), S)
  BY FS_CardinalityType
<1>2. \E f \in [1 .. Cardinality(S) -> S] : IsInjective(f)
  BY <1>1 DEF ExistsBijection, Bijection, Injection
<1> QED
  BY <1>1, <1>2 DEF SetToSeq

\* One action for each field of a set.
LEMMA EachFits ==
  ASSUME NEW table, NEW type \in ActionTypes, NEW S \in SUBSET Field,
         type = "add" => S \subseteq DOMAIN table.fields,
         type = "remove" => S \intersect DOMAIN table.fields = {}
  PROVE  Each(type, S) \in Seq(Fit(table))
<1> DEFINE s == SetToSeq(S)
           n == Cardinality(S)
<1>1. s \in [1 .. n -> S] /\ n \in Nat
  BY FieldsAssumption, FS_Subset, SequenceOfSet
<1>2. \A i \in 1 .. n : [type |-> type, field |-> s[i]] \in Fit(table)
  <2> HIDE DEF s, n
  <2> QED
    BY <1>1 DEF Fit, Action
<1>3. Each(type, S) = [i \in 1 .. n |-> [type |-> type, field |-> s[i]]]
  BY <1>1 DEF Each
<1> HIDE DEF s, n
<1> QED
  BY <1>1, <1>2, <1>3

\* The difference of two tables is a sequence of actions that fit the new one.
LEMMA DiffFits ==
  ASSUME NEW old \in Table \union {NoTable}, NEW new \in Table
  PROVE  Diff(old, new) \in Seq(Fit(new))
<1>1. CASE old = NoTable
  <2>1. [type |-> "create", field |-> None] \in Fit(new)
    BY DEF Fit, Action, ActionTypes
  <2> QED
    BY <1>1, <2>1 DEF Diff
<1>2. CASE old # NoTable
  <2> DEFINE was == DOMAIN old.fields
             is == DOMAIN new.fields
  <2>1. /\ was \subseteq Field /\ is \subseteq Field
        /\ old.indexes \subseteq Field /\ new.indexes \subseteq Field
    BY <1>2 DEF Table, Columns
  <2>2. {"add", "remove", "alter", "dropIndex", "addIndex"} \subseteq ActionTypes
    BY DEF ActionTypes
  <2>3. Each("add", is \ was) \in Seq(Fit(new))
    BY <2>1, <2>2, EachFits
  <2>4. Each("remove", was \ is) \in Seq(Fit(new))
    BY <2>1, <2>2, EachFits
  <2>5. Each("alter", {f \in is \intersect was : old.fields[f] # new.fields[f]})
           \in Seq(Fit(new))
    BY <2>1, <2>2, EachFits
  <2>6. Each("dropIndex", old.indexes \ new.indexes) \in Seq(Fit(new))
    BY <2>1, <2>2, EachFits
  <2>7. Each("addIndex", new.indexes \ old.indexes) \in Seq(Fit(new))
    BY <2>1, <2>2, EachFits
  <2> HIDE DEF was, is
  <2>8. Diff(old, new) =
           Each("add", is \ was) \o Each("remove", was \ is)
           \o Each("alter", {f \in is \intersect was : old.fields[f] # new.fields[f]})
           \o Each("dropIndex", old.indexes \ new.indexes)
           \o Each("addIndex", new.indexes \ old.indexes)
    BY <1>2 DEF Diff, was, is
  <2> QED
    BY <2>3, <2>4, <2>5, <2>6, <2>7, <2>8, ConcatProperties
<1> QED
  BY <1>1, <1>2

\* The name of a well-made migration is a file name.
LEMMA NameTyped ==
  ASSUME NEW mig, WellMade(mig)
  PROVE  Name(mig) \in FileName
<1>1. mig.actions \in Seq(Action) /\ mig.actions # <<>>
  BY DEF WellMade, Migration
<1>2. mig.actions[1] \in Action /\ Len(mig.actions) \in Nat
  BY <1>1
<1> QED
  BY <1>2 DEF Name, FileName, WellMade, Migration

\* The table of the last file of a model.
LEMMA LastTableTyped ==
  ASSUME TypeInv, NEW m \in Model
  PROVE  LastTable(m) \in Table \union {NoTable}
<1>1. CASE Of(m, files) = {}
  BY <1>1 DEF LastTable
<1>2. CASE Of(m, files) # {}
  <2>1. Latest(m, files) \in Of(m, files)
    BY <1>2 DEF TypeInv, Numbered, Latest
  <2>2. Latest(m, files) \in Migration
    BY <2>1 DEF Of, TypeInv, TypeOK
  <2> QED
    BY <1>2, <2>2 DEF LastTable, Migration
<1> QED
  BY <1>1, <1>2

LEMMA MakeTypes ==
  ASSUME TypeInv, MakeMigrations
  PROVE  TypeInv'
<1>1. /\ pending' = {[mig EXCEPT !.deps = Dependencies(mig)] : mig \in Drafts}
      /\ UNCHANGED <<code, files, torn, schema, recorded, run, broken>>
  BY DEF MakeMigrations, migrator
<1>2. ASSUME NEW d \in Drafts
      PROVE  /\ WellMade(d)
             /\ Dependencies(d) \subseteq FileName => WellMade([d EXCEPT !.deps = Dependencies(d)])
  <2>1. PICK m \in Model : d = NewMigration(m)
    BY DEF Drafts
  <2>2. code[m] \in Table
    BY DEF TypeInv
  <2>3. Diff(LastTable(m), code[m]) \in Seq(Fit(code[m]))
    BY <2>2, LastTableTyped, DiffFits
  <2>4. /\ d = [model |-> m, order |-> NextOrder(m), table |-> code[m],
                actions |-> Diff(LastTable(m), code[m]), deps |-> {}]
        /\ d.actions # <<>>
    BY <2>1 DEF NewMigration, Drafts
  <2>5. NextOrder(m) \in 1 .. MaxOrder
    <3>1. NextOrder(m) \in Nat /\ NextOrder(m) <= MaxOrder
      BY <2>4, NextOrderIsNew DEF TypeInv, MakeMigrations
    <3>2. NextOrder(m) # 0
      <4>1. CASE Of(m, files) = {}
        BY <4>1 DEF NextOrder
      <4>2. CASE Of(m, files) # {}
        <5>1. Latest(m, files) \in Of(m, files)
          BY <4>2 DEF TypeInv, Numbered, Latest
        <5>2. Latest(m, files).order \in Nat
          BY <5>1 DEF Of, TypeInv, Numbered
        <5> QED
          BY <4>2, <5>2 DEF NextOrder
      <4> QED
        BY <4>1, <4>2
    <3> QED
      BY <3>1, <3>2, BoundsAssumption
  <2>6. Fit(code[m]) \subseteq Action
    BY DEF Fit
  <2>7. d.actions \in Seq(Fit(code[m])) /\ d.actions \in Seq(Action)
    <3>1. \A s \in Seq(Fit(code[m])) : s \in Seq(Action)
      BY <2>6
    <3> QED
      BY <2>3, <2>4, <3>1
  <2> QED
    BY <2>2, <2>4, <2>5, <2>7 DEF WellMade, Migration
<1>3. ASSUME NEW d \in Drafts
      PROVE  Dependencies(d) \subseteq FileName
  <2>1. \A m : Of(m, files \union Drafts) # {} =>
           Latest(m, files \union Drafts) \in files \union Drafts
    BY LatestKnown DEF TypeInv, Of
  <2>2. \A m : Of(m, files \union Drafts) # {} =>
           Name(Latest(m, files \union Drafts)) \in FileName
    BY <1>2, <2>1, NameTyped DEF TypeInv
  <2> QED
    BY <2>2 DEF Dependencies
<1>4. \A mig \in pending' : WellMade(mig)
  BY <1>1, <1>2, <1>3
<1>5. Numbered'
  BY MakeNumbered DEF TypeInv
<1>6. \A mig \in files' \union pending' : WellMade(mig)
  BY <1>1, <1>4 DEF TypeInv
<1>7. TypeOK'
  <2>1. (files \union pending)' \subseteq Migration
    BY <1>6 DEF WellMade
  <2> QED
    BY <1>1, <2>1 DEF TypeInv, TypeOK, Runs, Names, Name
<1> QED
  BY <1>1, <1>5, <1>6, <1>7 DEF TypeInv

\* Steps of the maker that write no new migration.
LEMMA MakerTypes ==
  ASSUME TypeInv, Numbered', UNCHANGED migrator, code' \in [Model -> Table],
         \A m \in Model : code'[m] \in Tables[m],
         files \subseteq files', files' \union pending' \subseteq files \union pending,
         torn' \in BOOLEAN
  PROVE  TypeInv'
<1>1. \A mig \in files' \union pending' : WellMade(mig)
  BY DEF TypeInv
<1>2. (run \in [Proc -> Runs])'
  BY DEF TypeInv, TypeOK, Runs, migrator
<1>3. (recorded \subseteq Names(files))'
  BY DEF TypeInv, TypeOK, Names, Name, migrator
<1>4. TypeOK'
  BY <1>1, <1>2, <1>3 DEF TypeInv, TypeOK, migrator, WellMade
<1> QED
  BY <1>1, <1>4 DEF TypeInv

\* Steps of Migrate: one process moves, and what it executes leaves columns.
LEMMA MigratorTypes ==
  ASSUME TypeInv, NEW p \in Proc, UNCHANGED maker, NEW r \in Runs,
         run' = [run EXCEPT ![p] = r],
         schema' \in [Model -> Columns \union {NoTable}],
         recorded' \subseteq Names(files), broken' \subseteq Model
  PROVE  TypeInv'
<1>1. (run \in [Proc -> Runs])'
  BY DEF TypeInv, TypeOK, Runs, maker
<1>2. Numbered'
  BY DEF TypeInv, Numbered, Of, maker
<1>3. TypeOK'
  BY <1>1 DEF TypeInv, TypeOK, maker, Names, Name
<1> QED
  BY <1>2, <1>3 DEF TypeInv, maker

LEMMA VisitTypes ==
  ASSUME TypeInv, NEW p \in Proc, NEW mig \in run[p].todo, Visit(p, mig)
  PROVE  TypeInv'
<1>1. PICK next \in {mig, None} :
         run' = [run EXCEPT ![p].todo = @ \ {mig}, ![p].mig = next, ![p].next = 1]
  BY DEF Visit
<1> DEFINE r == [run[p] EXCEPT !.todo = @ \ {mig}, !.mig = next, !.next = 1]
<1>2. run[p] \in Runs /\ run \in [Proc -> Runs]
  BY DEF TypeInv, TypeOK
<1>3. r \in Runs /\ run' = [run EXCEPT ![p] = r]
  BY <1>1, <1>2 DEF Runs
<1> HIDE DEF r
<1> QED
  BY <1>3, MigratorTypes DEF Visit, TypeInv, TypeOK

LEMMA MigrateTypes ==
  ASSUME TypeInv, NEW p \in Proc, Migrate(p)
  PROVE  TypeInv'
<1> DEFINE begun == [Idle("none") EXCEPT !.working = TRUE, !.todo = Unapplied]
<1>1. PICK r \in {Idle("missing"), Idle("cyclic"), begun} : run' = [run EXCEPT ![p] = r]
  BY DEF Migrate
<1>2. begun \in Runs
  BY DEF Runs, Idle, Unapplied
<1>3. r \in Runs
  BY <1>1, <1>2, IdlePrepared
<1> HIDE DEF begun
<1> QED
  BY <1>1, <1>3, MigratorTypes DEF Migrate, TypeInv, TypeOK

\* What an accepted action leaves of a table.
LEMMA ResultTyped ==
  ASSUME TypeInv, NEW mig \in files, NEW i \in DOMAIN mig.actions,
         Accepts(mig.actions[i], mig)
  PROVE  mig.model \in Model /\ Result(mig.actions[i], mig) \in Columns
<1> DEFINE a == mig.actions[i]
           columns == schema[mig.model]
<1>1. WellMade(mig) /\ mig.model \in Model /\ mig.table \in Table
  BY DEF TypeInv, WellMade, Migration
<1>2. a \in Fit(mig.table)
  BY <1>1 DEF WellMade
<1>3. mig.table.fields \in Columns
  BY <1>1 DEF Table
<1>4. columns \in Columns \union {NoTable}
  BY <1>1 DEF TypeInv, TypeOK
<1>5. CASE a.type \in {"create", "alter"}
  BY <1>1, <1>3, <1>5 DEF Result
<1>6. CASE a.type = "add"
  <2>1. columns \in Columns /\ a.field \in DOMAIN mig.table.fields
    BY <1>2, <1>4, <1>6 DEF Accepts, Fit
  <2>2. PICK S \in SUBSET Field : mig.table.fields \in [S -> Type]
    BY <1>3 DEF Columns
  <2>3. PICK R \in SUBSET Field : columns \in [R -> Type]
    BY <2>1 DEF Columns
  <2>4. Result(a, mig) = [g \in DOMAIN columns \union {a.field} |->
                            IF g \in DOMAIN columns THEN columns[g]
                            ELSE mig.table.fields[g]]
    BY <1>6 DEF Result
  <2> HIDE DEF columns, a
  <2>5. Result(a, mig) \in [R \union {a.field} -> Type]
    BY <2>1, <2>2, <2>3, <2>4
  <2>6. mig.table.fields \in [S -> Type] /\ a.field \in Field
    BY <2>1, <2>2
  <2> QED
    BY <1>1, <2>5, <2>6 DEF Columns, a
<1>7. CASE a.type = "remove"
  <2>1. columns \in Columns
    BY <1>4, <1>7 DEF Accepts
  <2>2. PICK R \in SUBSET Field : columns \in [R -> Type]
    BY <2>1 DEF Columns
  <2>3. Result(a, mig) = Restrict(columns, R \ {a.field})
    BY <1>7, <2>2 DEF Result
  <2> HIDE DEF columns
  <2>4. Result(a, mig) \in [R \ {a.field} -> Type]
    BY <2>2, <2>3 DEF Restrict
  <2> QED
    BY <1>1, <2>2, <2>4 DEF Columns
<1> QED
  BY <1>5, <1>6, <1>7 DEF Accepts

LEMMA ApplyTypes ==
  ASSUME TypeInv, NEW p \in Proc, ApplyAction(p)
  PROVE  TypeInv'
<1> DEFINE r == [run[p] EXCEPT !.next = @ + 1]
           mig == run[p].mig
<1>1. run[p] \in Runs /\ run \in [Proc -> Runs]
  BY DEF TypeInv, TypeOK
<1>2. r \in Runs /\ run' = [run EXCEPT ![p] = r]
  BY <1>1 DEF Runs, ApplyAction
<1>3. mig \in files
  BY <1>1 DEF Runs, ApplyAction, AtAction
<1>4. /\ mig.model \in Model
      /\ schema' = [schema EXCEPT ![mig.model] = Result(mig.actions[run[p].next], mig)]
      /\ Result(mig.actions[run[p].next], mig) \in Columns
  BY <1>3, ResultTyped DEF ApplyAction, AtAction
<1>5. schema' \in [Model -> Columns \union {NoTable}]
  BY <1>4 DEF TypeInv, TypeOK
<1> HIDE DEF r, mig
<1> QED
  BY <1>2, <1>5, MigratorTypes DEF ApplyAction, TypeInv, TypeOK

LEMMA StoreTypes ==
  ASSUME TypeInv, NEW p \in Proc, StoreMigration(p)
  PROVE  TypeInv'
<1> DEFINE r == [run[p] EXCEPT !.mig = None]
<1>1. run[p] \in Runs /\ run \in [Proc -> Runs]
  BY DEF TypeInv, TypeOK
<1>2. r \in Runs /\ run' = [run EXCEPT ![p] = r]
  BY <1>1 DEF Runs, StoreMigration
<1>3. run[p].mig \in files
  BY <1>1 DEF Runs, StoreMigration
<1>4. recorded' \subseteq Names(files)
  BY <1>3 DEF StoreMigration, TypeInv, TypeOK, Names
<1> HIDE DEF r
<1> QED
  BY <1>2, <1>4, MigratorTypes DEF StoreMigration, TypeInv, TypeOK

LEMMA StopTypes ==
  ASSUME TypeInv, NEW p \in Proc, MigrateStops(p)
  PROVE  TypeInv'
<1> DEFINE mig == run[p].mig
<1>1. run[p] \in Runs /\ mig \in files \union {None}
  BY DEF TypeInv, TypeOK, Runs
<1>2. mig # None => mig.model \in Model /\ mig.table.fields \in Columns
  BY <1>1 DEF TypeInv, TypeOK, Migration, Table
<1>3. broken' \subseteq Model
  BY <1>2 DEF MigrateStops, TypeInv, TypeOK
<1>4. schema' \in [Model -> Columns \union {NoTable}]
  <2>1. \/ schema' = schema
        \/ /\ mig # None
           /\ \E columns \in Rebuilt(mig) : schema' = [schema EXCEPT ![mig.model] = columns]
    BY DEF MigrateStops
  <2> QED
    BY <1>2, <2>1 DEF Rebuilt, TypeInv, TypeOK
<1>5. run' = [run EXCEPT ![p] = Idle("failed")] /\ Idle("failed") \in Runs
  BY IdlePrepared DEF MigrateStops
<1> QED
  BY <1>3, <1>4, <1>5, MigratorTypes DEF MigrateStops, TypeInv, TypeOK

LEMMA TypeInit == Init => TypeInv
<1> SUFFICES ASSUME Init
             PROVE  TypeInv
  OBVIOUS
<1>1. code \in [Model -> Table] /\ \A m \in Model : code[m] \in Tables[m]
  BY TablesAssumption DEF Init
<1>2. Numbered
  BY OrderInit DEF OrderInv
<1>3. run \in [Proc -> Runs]
  BY OrderInit DEF OrderInv
<1> QED
  BY <1>1, <1>2, <1>3 DEF Init, TypeInv, TypeOK, Names

LEMMA TypeStep == TypeInv /\ [Next]_vars => TypeInv'
<1> SUFFICES ASSUME TypeInv, [Next]_vars
             PROVE  TypeInv'
  OBVIOUS
<1>0. Numbered'
  BY NumberedStep DEF TypeInv
<1>1. CASE UNCHANGED vars
  BY <1>0, <1>1, MakerTypes DEF vars, maker, TypeInv, TypeOK
<1>2. ASSUME NEW m \in Model, NEW table \in Tables[m], EditModel(m, table)
      PROVE  TypeInv'
  <2>1. code' \in [Model -> Table] /\ \A n \in Model : code'[n] \in Tables[n]
    BY <1>2, TablesAssumption DEF EditModel, TypeInv, TypeOK
  <2> QED
    BY <1>0, <1>2, <2>1, MakerTypes DEF EditModel, TypeInv, TypeOK
<1>3. ASSUME NEW mig \in pending, WriteMigration(mig)
      PROVE  TypeInv'
  BY <1>0, <1>3, MakerTypes DEF WriteMigration, TypeInv, TypeOK
<1>4. CASE MakerStops
  BY <1>0, <1>4, MakerTypes DEF MakerStops, TypeInv, TypeOK
<1>5. ASSUME NEW p \in Proc, MigrateEnds(p)
      PROVE  TypeInv'
  <2>1. Idle("ok") \in Runs
    BY IdlePrepared
  <2> QED
    BY <1>5, <2>1, MigratorTypes DEF MigrateEnds, TypeInv, TypeOK
<1> QED
  BY <1>1, <1>2, <1>3, <1>4, <1>5, MakeTypes, MigrateTypes, VisitTypes, ApplyTypes,
     StoreTypes, StopTypes
  DEF Next

\* Whatever models, designs, processes and bounds there are, every variable keeps
\* its type: migrations have actions, what is recorded has a file, and a process
\* is at work on files that exist.
THEOREM TypeCorrect == Spec => []TypeOK
<1>1. TypeInv => TypeOK
  BY DEF TypeInv
<1> QED
  BY <1>1, TypeInit, TypeStep, PTL DEF Spec
=============================================================================
