---------------------------- MODULE ModelsProofs ----------------------------
(***************************************************************************)
(* Proofs about Models, for every number of objects, fields and tables and *)
(* every choice of what the program does with them.                        *)
(*                                                                         *)
(* The invariant is one of the record that the steps of a call work on     *)
(* (Valid), which each of the operators keeps.                             *)
(***************************************************************************)
EXTENDS Models, FiniteSetTheorems, TLAPS

\* The records.
Dbs == [Tables -> [Keys -> Row \cup {None}]]

Worlds == [obj : [Objects -> Struct], opt : [Objects -> Objects \cup {None}],
           options : [Objects -> Options], db : Dbs, seq : [Tables -> 0..MaxKey],
           wrote : [Objects -> SUBSET Fields], ran : SUBSET Objects]

\* Internals belong to the one object that points to them, or to none.
Owns(w) ==
    \A o \in Objects : w.opt[o] # None =>
        /\ w.options[w.opt[o]].object \in {None, o}
        /\ \A p \in Objects \ {o} : w.opt[p] # w.opt[o]

\* An object from the database has a state.  For a field that is not lost it
\* holds what the row holds, and after a statement of this call what the
\* object holds.
FromDBIn(w, o) == IsSetUp(w, o) /\ Opt(w, o).fromDB
Remembers(w, o, state) ==
    /\ state # None
    /\ \A f \in Fields : IF o \in w.ran THEN state.initial.val[f] = w.obj[o].val[f]
                         ELSE f \notin lost[o] => state.initial.val[f] = synced[o][f]
Knows(w, o) == FromDBIn(w, o) => Remembers(w, o, Opt(w, o).state)

\* Every key was given before there was a row.
Given(rows, largest) ==
    \A t \in Tables, k \in Keys : rows[t][k] # None => k <= largest[t]

\* Valid but for what an object knows, and valid.
Sound(w) ==
    /\ w \in Worlds
    /\ Owns(w)
    /\ Given(w.db, w.seq)
    /\ \A o \in Objects \ w.ran : w.wrote[o] = {}
Valid(w) == Sound(w) /\ \A o \in Objects : Knows(w, o)

\* What a rollback restores differs only in what it makes lost.
Outers == [db : Dbs, seq : [Tables -> 0..MaxKey],
           synced : [Objects -> [Fields -> Values \cup {None}]],
           wrote : [Objects -> SUBSET Fields]]
OuterKnows ==
    outer # None =>
        /\ outer \in Outers
        /\ Given(outer.db, outer.seq)
        /\ \A o \in Objects : \A f \in Fields \ outer.wrote[o] :
              synced[o][f] = outer.synced[o][f]

ModelsInv == TypeOK /\ Valid(World) /\ OuterKnows

\* What happens to one object: the others stay as they are, and it goes on to
\* be from the database if it was.
SameOf(w, v, p) ==
    /\ v.obj[p] = w.obj[p] /\ v.opt[p] = w.opt[p] /\ v.wrote[p] = w.wrote[p]
    /\ p \in v.ran <=> p \in w.ran
    /\ w.opt[p] # None => Opt(v, p) = Opt(w, p)
Alone(w, v, o) ==
    /\ \A p \in Objects \ {o} : SameOf(w, v, p)
    /\ \A t \in Tables \ {TableOf[o]} : v.db[t] = w.db[t] /\ v.seq[t] = w.seq[t]
    /\ v.obj[o].val = w.obj[o].val
    /\ FromDBIn(w, o) => FromDBIn(v, o)

-----------------------------------------------------------------------------
(* The internals of an object. *)

\* There are internals which no other object points to.
LEMMA UnusedIs ==
  ASSUME NEW w, w.opt \in [Objects -> Objects \cup {None}], NEW o \in Objects
  PROVE  /\ Unused(w, o) \in Objects
         /\ \A p \in Objects \ {o} : w.opt[p] # Unused(w, o)
<1>1. SUFFICES ASSUME \A i \in Objects : \E p \in Objects \ {o} : w.opt[p] = i
               PROVE  FALSE
  BY DEF Unused
<1> DEFINE others == Objects \ {o}
           holder == [i \in Objects |-> CHOOSE p \in others : w.opt[p] = i]
<1>2. \A i \in Objects : holder[i] \in others /\ w.opt[holder[i]] = i
  BY <1>1
<1>3. IsFiniteSet(Objects)
  BY ModelsAssumption
<1>4. IsFiniteSet(others) /\ Cardinality(others) < Cardinality(Objects)
  <2>1. Cardinality(others) = Cardinality(Objects) - 1 /\ IsFiniteSet(others)
    BY <1>3, FS_RemoveElement
  <2>2. Cardinality(Objects) \in Nat
    BY <1>3, FS_CardinalityType
  <2> QED
    BY <2>1, <2>2
<1>5. holder \in [Objects -> others]
  BY <1>2
<1> HIDE DEF holder, others
<1>6. \E x, y \in Objects : x # y /\ holder[x] = holder[y]
  BY <1>3, <1>4, <1>5, FS_PigeonHole
<1> QED
  BY <1>2, <1>6

\* Nothing but internals.
Inner(w, v) == /\ v.obj = w.obj /\ v.opt = w.opt /\ v.db = w.db /\ v.seq = w.seq
               /\ v.wrote = w.wrote /\ v.ran = w.ran

\* Other internals of the same object.
Put(w, o, i) == [w EXCEPT !.options[w.opt[o]] = i]

\* Nothing else of the record changes.
LEMMA PutIs ==
  ASSUME NEW w \in Worlds, NEW o \in Objects, IsSetUp(w, o), NEW i \in Options
  PROVE  /\ Put(w, o, i) \in Worlds
         /\ Put(w, o, i).obj = w.obj /\ Put(w, o, i).opt = w.opt
         /\ Put(w, o, i).options = [w.options EXCEPT ![w.opt[o]] = i]
         /\ Put(w, o, i).db = w.db /\ Put(w, o, i).seq = w.seq
         /\ Put(w, o, i).wrote = w.wrote /\ Put(w, o, i).ran = w.ran
         /\ Opt(w, o) \in Options /\ w.opt[o] \in Objects
         /\ Opt(Put(w, o, i), o) = i
<1>1. w.opt[o] \in Objects
  BY DEF Worlds, IsSetUp
<1>2. w.options \in [Objects -> Options]
  BY DEF Worlds
<1>3. [w.options EXCEPT ![w.opt[o]] = i] \in [Objects -> Options]
  BY <1>1, <1>2
<1>4. Put(w, o, i) = [w EXCEPT !.options = [w.options EXCEPT ![w.opt[o]] = i]]
  BY DEF Put, Worlds
<1>5. /\ Put(w, o, i) \in Worlds
      /\ Put(w, o, i).obj = w.obj /\ Put(w, o, i).opt = w.opt
      /\ Put(w, o, i).options = [w.options EXCEPT ![w.opt[o]] = i]
      /\ Put(w, o, i).db = w.db /\ Put(w, o, i).seq = w.seq
      /\ Put(w, o, i).wrote = w.wrote /\ Put(w, o, i).ran = w.ran
  BY <1>3, <1>4 DEF Worlds
<1> QED
  BY <1>1, <1>2, <1>5 DEF Opt

\* Internals that know the row keep the record valid.
LEMMA PutKeeps ==
  ASSUME NEW w, Sound(w), NEW o \in Objects, IsSetUp(w, o), NEW i \in Options,
         \A p \in Objects \ {o} : Knows(w, p),
         i.object = o, i.fromDB => Remembers(w, o, i.state),
         Opt(w, o).fromDB => i.fromDB
  PROVE  /\ Valid(Put(w, o, i))
         /\ Alone(w, Put(w, o, i), o)
         /\ Opt(Put(w, o, i), o) = i
         /\ IsSetUp(Put(w, o, i), o)
         /\ Inner(w, Put(w, o, i))
<1> DEFINE v == Put(w, o, i)
<1>1. /\ v \in Worlds /\ v.obj = w.obj /\ v.opt = w.opt
      /\ v.options = [w.options EXCEPT ![w.opt[o]] = i]
      /\ v.db = w.db /\ v.seq = w.seq /\ v.wrote = w.wrote /\ v.ran = w.ran
      /\ w.opt[o] \in Objects /\ Opt(v, o) = i
  BY PutIs DEF Sound
<1>2. w.options \in [Objects -> Options] /\ w.opt \in [Objects -> Objects \cup {None}]
  BY DEF Sound, Worlds
<1> HIDE DEF v
<1>3. \A p \in Objects \ {o} : w.opt[p] # None => Opt(v, p) = Opt(w, p)
  BY <1>1, <1>2 DEF Opt, Sound, Owns
<1>4. None \notin Objects
  BY ModelsAssumption
<1>5. IsSetUp(v, o)
  BY <1>1, <1>4 DEF IsSetUp
<1>6. Owns(v)
  <2>1. \A p \in Objects : v.opt[p] # None => v.options[v.opt[p]].object \in {None, p}
    BY <1>1, <1>3 DEF Opt, Sound, Owns
  <2> QED
    BY <1>1, <2>1 DEF Sound, Owns
<1>7. \A p \in Objects \ {o} : SameOf(w, v, p)
  BY <1>1, <1>3 DEF SameOf
<1>8. \A p \in Objects \ {o} : Knows(v, p)
  BY <1>1, <1>3 DEF Knows, FromDBIn, IsSetUp, Remembers
<1>9. Knows(v, o)
  BY <1>1 DEF Knows, FromDBIn, Remembers
<1>10. Sound(v)
  BY <1>1, <1>6 DEF Sound
<1>11. Alone(w, v, o)
  BY <1>1, <1>5, <1>7 DEF Alone, FromDBIn
<1>12. Inner(w, v)
  BY <1>1 DEF Inner
<1> QED
  BY <1>1, <1>5, <1>8, <1>9, <1>10, <1>11, <1>12 DEF Valid, v

\* Setup gives new internals to an object that has none and leaves others be.
LEMMA SetupKeeps ==
  ASSUME NEW w, Valid(w), NEW o \in Objects
  PROVE  /\ Valid(Setup(w, o))
         /\ Alone(w, Setup(w, o), o)
         /\ IsSetUp(Setup(w, o), o)
         /\ IsSetUp(w, o) => Setup(w, o) = w
         /\ ~IsSetUp(w, o) => ~Opt(Setup(w, o), o).fromDB
<1> DEFINE j == Unused(w, o)
           v == [w EXCEPT !.opt[o] = j, !.options = [w.options EXCEPT ![j] = NewOptions(o)]]
<1>1. /\ w \in Worlds
      /\ w.options \in [Objects -> Options] /\ w.opt \in [Objects -> Objects \cup {None}]
      /\ Owns(w) /\ None \notin Objects
  BY ModelsAssumption DEF Valid, Sound, Worlds
<1>2. CASE IsSetUp(w, o)
  <2>1. Setup(w, o) = w
    BY <1>1, <1>2 DEF Setup, Owns, IsSetUp, Opt
  <2> QED
    BY <1>2, <2>1 DEF Alone, SameOf
<1>3. CASE ~IsSetUp(w, o)
  <2>1. Setup(w, o) = v
    <3>1. w.opt[o] # None => w.options[w.opt[o]].object = None
      BY <1>3 DEF IsSetUp, Opt
    <3> QED
      BY <3>1 DEF Setup
  <2>2. j \in Objects /\ \A p \in Objects \ {o} : w.opt[p] # j
    BY <1>1, UnusedIs
  <2>3. NewOptions(o) \in Options
    BY DEF NewOptions, Options
  <2> HIDE DEF j
  <2>4. /\ v \in Worlds /\ v.obj = w.obj /\ v.db = w.db /\ v.seq = w.seq
        /\ v.wrote = w.wrote /\ v.ran = w.ran
        /\ v.opt = [w.opt EXCEPT ![o] = j]
        /\ v.options = [w.options EXCEPT ![j] = NewOptions(o)]
    <3>1. /\ [w.options EXCEPT ![j] = NewOptions(o)] \in [Objects -> Options]
          /\ [w.opt EXCEPT ![o] = j] \in [Objects -> Objects \cup {None}]
      BY <1>1, <2>2, <2>3
    <3> QED
      BY <1>1, <3>1 DEF Worlds
  <2> HIDE DEF v
  <2>5. \A p \in Objects \ {o} : v.opt[p] = w.opt[p]
    BY <1>1, <2>4
  <2>6. \A p \in Objects \ {o} : w.opt[p] # None => Opt(v, p) = Opt(w, p)
    BY <1>1, <2>2, <2>4, <2>5 DEF Opt
  <2>7. v.opt[o] = j /\ Opt(v, o) = NewOptions(o) /\ IsSetUp(v, o)
    BY <1>1, <2>2, <2>4 DEF Opt, IsSetUp, NewOptions
  <2>8. Owns(v)
    <3>1. \A p \in Objects : v.opt[p] # None => v.options[v.opt[p]].object \in {None, p}
      BY <1>1, <2>5, <2>6, <2>7 DEF Opt, Owns, NewOptions
    <3> QED
      BY <1>1, <2>2, <2>5, <2>7, <3>1 DEF Owns
  <2>9. Sound(v)
    BY <2>4, <2>8 DEF Valid, Sound
  <2>10. \A p \in Objects \ {o} : SameOf(w, v, p)
    BY <2>4, <2>5, <2>6 DEF SameOf
  <2>11. \A p \in Objects \ {o} : Knows(v, p)
    BY <2>4, <2>5, <2>6 DEF Valid, Knows, FromDBIn, IsSetUp, Remembers
  <2>12. ~Opt(v, o).fromDB
    BY <2>7 DEF NewOptions
  <2>13. Alone(w, v, o)
    BY <1>3, <2>4, <2>10 DEF Alone, FromDBIn
  <2>14. Valid(v)
    BY <2>9, <2>11, <2>12 DEF Valid, Knows, FromDBIn
  <2> QED
    BY <1>3, <2>1, <2>7, <2>12, <2>13, <2>14
<1> QED
  BY <1>2, <1>3

\* One object after another step of the same one.
LEMMA AloneTwice ==
  ASSUME NEW u, NEW v, NEW w, NEW o \in Objects, Alone(u, v, o), Alone(v, w, o)
  PROVE  Alone(u, w, o)
BY DEF Alone, SameOf

\* An object that is set up has its own internals.
LEMMA OwnOptions ==
  ASSUME NEW w, Sound(w), NEW o \in Objects, IsSetUp(w, o)
  PROVE  /\ w.opt[o] \in Objects
         /\ Opt(w, o) \in Options
         /\ Opt(w, o).object = o
         /\ Opt(w, o) = [object |-> o, defs |-> Opt(w, o).defs,
                         state |-> Opt(w, o).state, fromDB |-> Opt(w, o).fromDB]
<1>1. w.opt[o] \in Objects /\ Opt(w, o) \in Options
  BY DEF Sound, Worlds, IsSetUp, Opt
<1>2. Opt(w, o).object = o
  BY DEF Sound, Owns, IsSetUp, Opt
<1> QED
  BY <1>1, <1>2 DEF Options

\* Binding the definitions sets the object up, and is no statement.
LEMMA DefineKeeps ==
  ASSUME NEW w, Valid(w), NEW o \in Objects
  PROVE  /\ Valid(Define(w, o))
         /\ Alone(w, Define(w, o), o)
         /\ IsSetUp(Define(w, o), o)
         /\ Opt(Define(w, o), o).defs
         /\ Define(w, o).obj[o] = w.obj[o]
         /\ Define(w, o).db = w.db /\ Define(w, o).seq = w.seq
         /\ Define(w, o).wrote = w.wrote /\ Define(w, o).ran = w.ran
<1> DEFINE s == Setup(w, o)
           i == [Opt(s, o) EXCEPT !.defs = TRUE]
<1>1. /\ Valid(s) /\ Alone(w, s, o) /\ IsSetUp(s, o)
  BY SetupKeeps
<1>2. s.obj = w.obj /\ s.db = w.db /\ s.seq = w.seq /\ s.wrote = w.wrote /\ s.ran = w.ran
  BY DEF Setup, Valid, Sound, Worlds
<1> HIDE DEF s
<1>3. s.opt[o] \in Objects /\ Opt(s, o) \in Options /\ Opt(s, o).object = o
  BY <1>1, OwnOptions DEF Valid
<1>4. /\ i \in Options /\ i.object = o /\ i.defs
      /\ i.fromDB = Opt(s, o).fromDB /\ i.state = Opt(s, o).state
  BY <1>3 DEF Options
<1>5. Define(w, o) = Put(s, o, i)
  BY <1>1, <1>3 DEF Define, Put, Opt, s, Valid, Sound, Worlds
<1> HIDE DEF i
<1>6. i.fromDB => Remembers(s, o, i.state)
  BY <1>1, <1>4 DEF Valid, Knows, FromDBIn
<1>7. /\ Valid(Put(s, o, i)) /\ Alone(s, Put(s, o, i), o) /\ Opt(Put(s, o, i), o) = i
      /\ IsSetUp(Put(s, o, i), o) /\ Inner(s, Put(s, o, i))
  BY <1>1, <1>4, <1>6, PutKeeps DEF Valid
<1> QED
  BY <1>1, <1>2, <1>4, <1>5, <1>7, AloneTwice DEF Inner

\* The state is one of the fields as they are.
LEMMA ResetType ==
  ASSUME NEW w \in Worlds, NEW o \in Objects
  PROVE  /\ Reset(w, o) \in State
         /\ Reset(w, o).initial.val = w.obj[o].val
BY DEF Reset, State, Worlds

\* A state that is reset, after a statement of this call or when there was none.
LEMMA AfterSaveKeeps ==
  ASSUME NEW w, Sound(w), NEW o \in Objects, IsSetUp(w, o), Opt(w, o).defs,
         \A p \in Objects \ {o} : Knows(w, p), o \in w.ran
  PROVE  /\ Valid(AfterSave(w, o))
         /\ Alone(w, AfterSave(w, o), o)
         /\ IsSetUp(AfterSave(w, o), o)
         /\ Opt(AfterSave(w, o), o).defs
         /\ Opt(AfterSave(w, o), o).state # None
         /\ Inner(w, AfterSave(w, o))
<1> DEFINE i == [Opt(w, o) EXCEPT !.state = Reset(w, o), !.fromDB = TRUE]
<1>1. w \in Worlds /\ w.opt[o] \in Objects /\ Opt(w, o) \in Options /\ Opt(w, o).object = o
  BY OwnOptions DEF Sound
<1>2. Reset(w, o) \in State /\ Reset(w, o).initial.val = w.obj[o].val
  BY <1>1, ResetType
<1>3. /\ i \in Options /\ i.object = o /\ i.defs = Opt(w, o).defs
      /\ i.fromDB /\ i.state = Reset(w, o)
  BY <1>1, <1>2 DEF Options
<1>4. AfterSave(w, o) = Put(w, o, i)
  BY ZenonT(60), <1>1 DEF AfterSave, AfterQuery, SetupInitialState, Put, Opt, Worlds
<1> HIDE DEF i
<1>5. Reset(w, o) # None
  BY <1>2, ModelsAssumption
<1>6. Remembers(w, o, i.state)
  BY <1>2, <1>3, <1>5 DEF Remembers
<1>7. /\ Valid(Put(w, o, i)) /\ Alone(w, Put(w, o, i), o) /\ Opt(Put(w, o, i), o) = i
      /\ IsSetUp(Put(w, o, i), o) /\ Inner(w, Put(w, o, i))
  BY <1>3, <1>6, PutKeeps
<1> QED
  BY <1>3, <1>4, <1>5, <1>7

\* The fields marked as changed are those that differ.
LEMMA CheckStateKeeps ==
  ASSUME NEW w, Valid(w), NEW o \in Objects, IsSetUp(w, o)
  PROVE  /\ Valid(CheckState(w, o))
         /\ Alone(w, CheckState(w, o), o)
         /\ IsSetUp(CheckState(w, o), o)
         /\ Opt(CheckState(w, o), o).defs = Opt(w, o).defs
         /\ Opt(CheckState(w, o), o).fromDB = Opt(w, o).fromDB
         /\ Opt(CheckState(w, o), o).state # None =>
               /\ Opt(w, o).state # None
               /\ Opt(CheckState(w, o), o).state.initial = Opt(w, o).state.initial
               /\ Opt(CheckState(w, o), o).state.changed = Differing(w, o)
         /\ Inner(w, CheckState(w, o))
<1>1. w \in Worlds /\ w.opt[o] \in Objects /\ Opt(w, o) \in Options /\ Opt(w, o).object = o
  BY OwnOptions DEF Valid, Sound
<1>2. CASE Opt(w, o).state = None
  BY <1>2 DEF CheckState, Inner, Alone, SameOf
<1>3. CASE Opt(w, o).state # None
  <2> DEFINE i == [Opt(w, o) EXCEPT !.state.changed = Differing(w, o)]
  <2>1. Differing(w, o) \subseteq Names
    BY DEF Differing, Names
  <2>2. Opt(w, o).state \in State
    BY <1>1, <1>3 DEF Options
  <2>3. /\ i \in Options /\ i.object = o /\ i.defs = Opt(w, o).defs
        /\ i.fromDB = Opt(w, o).fromDB /\ i.state \in State
        /\ i.state.initial = Opt(w, o).state.initial
        /\ i.state.changed = Differing(w, o)
    BY <1>1, <2>1, <2>2 DEF Options, State
  <2>4. CheckState(w, o) = Put(w, o, i)
    <3>1. CheckState(w, o) = [w EXCEPT !.options[w.opt[o]].state.changed = Differing(w, o)]
      BY <1>3 DEF CheckState
    <3> HIDE DEF i
    <3>2. i = [w.options[w.opt[o]] EXCEPT !.state.changed = Differing(w, o)]
      BY DEF i, Opt
    <3> QED
      BY <1>1, <3>1, <3>2 DEF Put, Worlds
  <2> HIDE DEF i
  <2>5. i.fromDB => Remembers(w, o, i.state)
    <3>1. i.state # None
      BY <2>3, ModelsAssumption
    <3>2. Knows(w, o)
      BY DEF Valid
    <3> QED
      BY <2>3, <3>1, <3>2 DEF Knows, FromDBIn, Remembers
  <2>6. /\ Valid(Put(w, o, i)) /\ Alone(w, Put(w, o, i), o) /\ Opt(Put(w, o, i), o) = i
        /\ IsSetUp(Put(w, o, i), o) /\ Inner(w, Put(w, o, i))
    BY <2>3, <2>5, PutKeeps DEF Valid
  <2> QED
    BY <1>3, <2>3, <2>4, <2>6
<1> QED
  BY <1>2, <1>3

\* A signal marks a field, of a state that is made if there is none.
LEMMA OnChangeKeeps ==
  ASSUME NEW w, Valid(w), NEW o \in Objects, IsSetUp(w, o), NEW name \in Names
  PROVE  /\ Valid(OnChange(w, o, name))
         /\ Alone(w, OnChange(w, o, name), o)
         /\ Inner(w, OnChange(w, o, name))
<1>1. w \in Worlds /\ w.opt[o] \in Objects /\ Opt(w, o) \in Options /\ Opt(w, o).object = o
  BY OwnOptions DEF Valid, Sound
<1> DEFINE state == IF Opt(w, o).state = None THEN Reset(w, o) ELSE Opt(w, o).state
           i == [Opt(w, o) EXCEPT !.state = [state EXCEPT !.changed = @ \cup {name}]]
<1>2. CASE Opt(w, o).state = None /\ ~Opt(w, o).defs
  <2>1. OnChange(w, o, name) = w
    <3>1. SetupInitialState(w, o) = w
      BY <1>2 DEF SetupInitialState
    <3> QED
      BY <1>2, <3>1 DEF OnChange
  <2> QED
    BY <2>1 DEF Inner, Alone, SameOf
<1>3. CASE Opt(w, o).state # None \/ Opt(w, o).defs
  <2>1. state \in State /\ state # None
    BY <1>1, ResetType, ModelsAssumption DEF Options
  <2>2. /\ i \in Options /\ i.object = o /\ i.fromDB = Opt(w, o).fromDB
        /\ i.state \in State /\ i.state.initial = state.initial
    <3> HIDE DEF state
    <3> QED
      BY <1>1, <2>1 DEF Options, State
  <2>3. OnChange(w, o, name) = Put(w, o, i)
    <3>1. CASE Opt(w, o).state # None
      BY <1>1, <3>1 DEF OnChange, Put, Opt, Worlds
    <3>2. CASE Opt(w, o).state = None /\ Opt(w, o).defs
      <4> DEFINE s == [w EXCEPT !.options[w.opt[o]].state = Reset(w, o)]
      <4>1. SetupInitialState(w, o) = s
        BY <3>2 DEF SetupInitialState
      <4>2. /\ s.opt = w.opt /\ s \in Worlds /\ Opt(s, o) = [Opt(w, o) EXCEPT !.state = Reset(w, o)]
        BY <1>1, ResetType DEF Opt, Worlds, Options
      <4>3. Opt(s, o).state = Reset(w, o)
        BY <1>1, <4>2 DEF Options
      <4>4. OnChange(w, o, name) = [s EXCEPT !.options[s.opt[o]].state.changed = @ \cup {name}]
        BY <2>1, <3>2, <4>1, <4>3 DEF OnChange
      <4>5. [s EXCEPT !.options[s.opt[o]].state.changed = @ \cup {name}]
              = Put(w, o, [Opt(w, o) EXCEPT !.state = [Reset(w, o) EXCEPT !.changed = @ \cup {name}]])
        <5> DEFINE k == w.opt[o]
                   x == [Opt(w, o) EXCEPT !.state = Reset(w, o)]
                   y == [x EXCEPT !.state = [x.state EXCEPT !.changed = @ \cup {name}]]
        <5>1. s.options = [w.options EXCEPT ![k] = x] /\ s.options[k] = x
          BY <1>1 DEF Opt, Worlds
        <5>2. [s EXCEPT !.options[k].state.changed = @ \cup {name}] = [s EXCEPT !.options[k] = y]
          BY <4>2, <5>1
        <5>3. [s EXCEPT !.options[k] = y] = [w EXCEPT !.options[k] = y]
          <6> HIDE DEF y, x
          <6> QED
            BY ZenonT(60), <1>1, <5>1 DEF Worlds, Opt
        <5>4. y = [Opt(w, o) EXCEPT !.state = [Reset(w, o) EXCEPT !.changed = @ \cup {name}]]
          BY <1>1, ResetType DEF Options, State
        <5> QED
          BY <4>2, <5>2, <5>3, <5>4 DEF Put
      <4> QED
        BY <3>2, <4>4, <4>5
    <3> QED
      BY <1>3, <3>1, <3>2
  <2> HIDE DEF i
  <2>4. i.fromDB => Remembers(w, o, i.state)
    <3>1. i.state # None
      BY <2>2, ModelsAssumption
    <3>2. Knows(w, o)
      BY DEF Valid
    <3>3. i.fromDB => Opt(w, o).state # None
      BY <2>2, <3>2 DEF Knows, FromDBIn, Remembers
    <3> QED
      BY <2>2, <3>1, <3>2, <3>3 DEF Knows, FromDBIn, Remembers
  <2>5. /\ Valid(Put(w, o, i)) /\ Alone(w, Put(w, o, i), o) /\ Inner(w, Put(w, o, i))
    BY <2>2, <2>4, PutKeeps DEF Valid
  <2> QED
    BY <2>3, <2>5
<1> QED
  BY <1>2, <1>3

-----------------------------------------------------------------------------
(* The statements. *)

\* What a statement of the object did: the row of its key has the fields that
\* it wrote, and is otherwise as it was; a key of its own is a new one.
Written(w, v, o, written) ==
    LET t == TableOf[o]
        k == v.obj[o].pk
    IN  /\ Valid(v) /\ Alone(w, v, o)
        /\ IsSetUp(v, o) /\ Opt(v, o).defs /\ Opt(v, o).state # None
        /\ v.ran = w.ran \cup {o}
        /\ v.wrote[o] = w.wrote[o] \cup written
        /\ k \in Keys /\ v.db[t][k] # None
        /\ \A l \in Keys \ {k} : v.db[t][l] = w.db[t][l]
        /\ \A f \in written : v.db[t][k].val[f] = w.obj[o].val[f]
        /\ \A f \in Fields \ written :
              w.db[t][k] # None => v.db[t][k].val[f] = w.db[t][k].val[f]
        /\ IF w.obj[o].pk # 0
           THEN v.obj[o].pk = w.obj[o].pk /\ v.seq = w.seq /\ w.db[t][k] # None
           ELSE /\ v.obj[o].pk = w.seq[t] + 1
                /\ v.seq = [w.seq EXCEPT ![t] = w.seq[t] + 1]
                /\ w.db[t][k] = None

\* What is written of an object is a row.
LEMMA RowTypes ==
  ASSUME NEW w \in Worlds, NEW o \in Objects, NEW sel
  PROVE  /\ RowOf(w, o) \in Row /\ RowOf(w, o).val = w.obj[o].val
         /\ RowAt(w, o) # None =>
               /\ UpdatedRow(w, o, sel) \in Row
               /\ \A f \in Fields : UpdatedRow(w, o, sel).val[f] =
                     IF f \in sel THEN w.obj[o].val[f] ELSE RowAt(w, o).val[f]
               /\ w.obj[o].pk \in Keys
               /\ RowAt(w, o) = w.db[TableOf[o]][w.obj[o].pk]
<1>1. w.obj \in [Objects -> Struct] /\ w.db \in Dbs
  BY DEF Worlds
<1>2. w.obj[o].val \in [Fields -> Values] /\ w.obj[o].pk \in 0..MaxKey /\ w.obj[o].owner \in 0..MaxKey
  BY <1>1 DEF Struct
<1>3. RefKey(w, o) \in 0..MaxKey
  BY <1>1, ModelsAssumption DEF RefKey, Struct
<1>4. RowOf(w, o) \in Row /\ RowOf(w, o).val = w.obj[o].val
  BY <1>2, <1>3 DEF RowOf, Row
<1>5. ASSUME RowAt(w, o) # None
      PROVE  /\ RowAt(w, o) \in Row /\ w.obj[o].pk \in Keys
             /\ RowAt(w, o) = w.db[TableOf[o]][w.obj[o].pk]
  <2>1. w.obj[o].pk # 0 /\ RowAt(w, o) = w.db[TableOf[o]][w.obj[o].pk]
    BY <1>5 DEF RowAt
  <2>2. w.obj[o].pk \in Keys
    BY <1>2, <2>1, ModelsAssumption DEF Keys
  <2>3. TableOf[o] \in Tables
    BY ModelsAssumption
  <2>4. w.db[TableOf[o]][w.obj[o].pk] \in Row \cup {None}
    BY <1>1, <2>2, <2>3 DEF Dbs
  <2> QED
    BY <1>5, <2>1, <2>2, <2>4
<1>6. ASSUME RowAt(w, o) # None
      PROVE  /\ UpdatedRow(w, o, sel) \in Row
             /\ \A f \in Fields : UpdatedRow(w, o, sel).val[f] =
                   IF f \in sel THEN w.obj[o].val[f] ELSE RowAt(w, o).val[f]
  <2> DEFINE old == RowAt(w, o)
             new == RowOf(w, o)
  <2>1. old \in Row /\ new \in Row /\ new.val = w.obj[o].val
    BY <1>4, <1>5, <1>6
  <2>2. UpdatedRow(w, o, sel) =
          [val |-> [f \in Fields |-> IF f \in sel THEN new.val[f] ELSE old.val[f]],
           ref |-> IF "ref" \in sel THEN new.ref ELSE old.ref,
           owner |-> IF "owner" \in sel THEN new.owner ELSE old.owner]
    BY DEF UpdatedRow
  <2> HIDE DEF old, new
  <2>3. /\ UpdatedRow(w, o, sel) \in Row
        /\ UpdatedRow(w, o, sel).val = [f \in Fields |-> IF f \in sel THEN new.val[f] ELSE old.val[f]]
    BY <2>1, <2>2 DEF Row
  <2> QED
    BY <2>1, <2>3 DEF old
<1> QED
  BY <1>4, <1>5, <1>6

\* An update that found its row wrote the selected fields of it.
LEMMA UpdateKeeps ==
  ASSUME NEW w, Valid(w), NEW o \in Objects, IsSetUp(w, o), Opt(w, o).defs,
         NEW sel \in SUBSET Names
  PROVE  LET r == Update(w, o, sel)
         IN  IF r.ok THEN w.obj[o].pk # 0 /\ Written(w, r.w, o, sel \cap Fields) ELSE r.w = w
<1>1. CASE RowAt(w, o) = None
  BY <1>1 DEF Update, Result
<1>2. CASE RowAt(w, o) # None
  <2> DEFINE t == TableOf[o]
             k == w.obj[o].pk
             row == UpdatedRow(w, o, sel)
             written == sel \cap Fields
             u == [w EXCEPT !.db[t][k] = row, !.wrote[o] = @ \cup written, !.ran = @ \cup {o}]
             v == AfterSave(u, o)
  <2>1. Update(w, o, sel) = Result(v, TRUE)
    BY <1>2 DEF Update
  <2>2. w \in Worlds /\ Sound(w)
    BY DEF Valid, Sound
  <2>3. /\ row \in Row /\ k \in Keys /\ w.db[t][k] # None
        /\ \A f \in Fields : row.val[f] =
              IF f \in sel THEN w.obj[o].val[f] ELSE w.db[t][k].val[f]
    <3>1. RowAt(w, o) # None /\ w \in Worlds
      BY <1>2, <2>2
    <3>2. /\ row \in Row /\ k \in Keys /\ RowAt(w, o) = w.db[t][k]
          /\ \A f \in Fields : row.val[f] =
                IF f \in sel THEN w.obj[o].val[f] ELSE RowAt(w, o).val[f]
      BY <3>1, RowTypes
    <3> QED
      BY <3>1, <3>2
  <2>4. t \in Tables /\ row # None
    BY <2>3, ModelsAssumption
  <2> HIDE DEF row, t, k, written
  <2>5. /\ w.db \in Dbs /\ w.wrote \in [Objects -> SUBSET Fields] /\ w.ran \subseteq Objects
    BY <2>2 DEF Worlds
  <2>6. written \subseteq Fields
    BY DEF written
  <2>7. /\ [w.db EXCEPT ![t][k] = row] \in Dbs
        /\ [w.wrote EXCEPT ![o] = @ \cup written] \in [Objects -> SUBSET Fields]
        /\ w.ran \cup {o} \in SUBSET Objects
    BY <2>3, <2>4, <2>5, <2>6 DEF Dbs
  <2>8. /\ u \in Worlds /\ u.obj = w.obj /\ u.opt = w.opt /\ u.options = w.options
        /\ u.seq = w.seq /\ u.ran = w.ran \cup {o}
        /\ u.db = [w.db EXCEPT ![t][k] = row]
        /\ u.wrote = [w.wrote EXCEPT ![o] = @ \cup written]
    BY <2>2, <2>7 DEF Worlds
  <2> HIDE DEF u
  <2>9. /\ u.db[t][k] = row
        /\ \A l \in Keys \ {k} : u.db[t][l] = w.db[t][l]
        /\ \A s \in Tables \ {t} : u.db[s] = w.db[s]
    BY <2>3, <2>4, <2>5, <2>8 DEF Dbs
  <2>10. /\ u.wrote[o] = w.wrote[o] \cup written
         /\ \A p \in Objects \ {o} : u.wrote[p] = w.wrote[p]
    BY <2>5, <2>8
  <2>11. Sound(u)
    <3>1. Owns(u)
      BY <2>2, <2>8 DEF Sound, Owns
    <3>2. Given(u.db, u.seq)
      BY <2>2, <2>3, <2>4, <2>8, <2>9 DEF Sound, Given
    <3>3. \A p \in Objects \ u.ran : u.wrote[p] = {}
      BY <2>2, <2>8, <2>10 DEF Sound
    <3> QED
      BY <2>8, <3>1, <3>2, <3>3 DEF Sound
  <2>12. /\ IsSetUp(u, o) /\ Opt(u, o).defs /\ o \in u.ran
         /\ \A p \in Objects : Opt(u, p) = Opt(w, p) /\ (IsSetUp(u, p) <=> IsSetUp(w, p))
    BY <2>8 DEF IsSetUp, Opt
  <2>13. \A p \in Objects \ {o} : Knows(u, p)
    BY <2>8, <2>12 DEF Knows, FromDBIn, Remembers, Valid
  <2>14. Alone(w, u, o)
    BY <2>8, <2>9, <2>10, <2>12 DEF Alone, SameOf, FromDBIn, t
  <2>15. /\ Valid(v) /\ Alone(u, v, o) /\ IsSetUp(v, o) /\ Opt(v, o).defs
         /\ Opt(v, o).state # None /\ Inner(u, v)
    BY <2>11, <2>12, <2>13, AfterSaveKeeps
  <2> HIDE DEF v
  <2>16. Alone(w, v, o)
    BY <2>14, <2>15, AloneTwice
  <2>17. Written(w, v, o, written)
    <3>1. k # 0
      BY <2>3 DEF Keys
    <3>2. v.obj[o].pk = k
      BY <2>8, <2>15 DEF Inner, k
    <3>3. \A f \in written : v.db[t][k].val[f] = w.obj[o].val[f]
      BY <2>3, <2>9, <2>15 DEF Inner, written
    <3>4. \A f \in Fields \ written : v.db[t][k].val[f] = w.db[t][k].val[f]
      BY <2>3, <2>9, <2>15 DEF Inner, written
    <3>5. v.db[t][k] # None /\ \A l \in Keys \ {k} : v.db[t][l] = w.db[t][l]
      BY <2>4, <2>9, <2>15 DEF Inner
    <3>6. v.ran = w.ran \cup {o} /\ v.wrote[o] = w.wrote[o] \cup written /\ v.seq = w.seq
      BY <2>8, <2>10, <2>15 DEF Inner
    <3> QED
      BY ZenonT(60), <2>3, <2>15, <2>16, <3>1, <3>2, <3>3, <3>4, <3>5, <3>6
        DEF Written, t, k
  <2>18. w.obj[o].pk # 0
    <3>1. k # 0
      BY <2>3 DEF Keys
    <3> QED
      BY <3>1 DEF k
  <2>19. Update(w, o, sel).ok /\ Update(w, o, sel).w = v
    BY <2>1 DEF Result
  <2> QED
    BY <2>17, <2>18, <2>19 DEF written
<1> QED
  BY <1>1, <1>2

\* A new row holds every field and has a key that no row had.
LEMMA CreateKeeps ==
  ASSUME NEW w, Valid(w), NEW o \in Objects, IsSetUp(w, o), Opt(w, o).defs,
         w.obj[o].pk = 0, w.seq[TableOf[o]] < MaxKey
  PROVE  Create(w, o).ok /\ Written(w, Create(w, o).w, o, Fields)
<1> DEFINE t == TableOf[o]
           k == w.seq[t] + 1
           row == RowOf(w, o)
           u == [w EXCEPT !.db[t][k] = row, !.seq[t] = k, !.obj[o].pk = k,
                          !.wrote[o] = Fields, !.ran = @ \cup {o}]
           v == AfterSave(u, o)
<1>1. Create(w, o) = Result(v, TRUE)
  BY DEF Create
<1>2. w \in Worlds /\ Sound(w)
  BY DEF Valid, Sound
<1>3. row \in Row /\ row.val = w.obj[o].val
  BY <1>2, RowTypes
<1>4. t \in Tables /\ row # None
  BY <1>3, ModelsAssumption
<1>5. /\ w.db \in Dbs /\ w.wrote \in [Objects -> SUBSET Fields] /\ w.ran \subseteq Objects
      /\ w.seq \in [Tables -> 0..MaxKey] /\ w.obj \in [Objects -> Struct]
  BY <1>2 DEF Worlds
<1>6. k \in Keys /\ k \in 0..MaxKey /\ k # 0
  BY <1>4, <1>5, ModelsAssumption DEF Keys
<1>7. w.db[t][k] = None
  BY <1>2, <1>4, <1>5, <1>6 DEF Sound, Given
<1> HIDE DEF row, t
<1>8. w.seq[t] \in Nat
  BY <1>4, <1>5
<1> HIDE DEF k
<1>9. /\ [w.db EXCEPT ![t][k] = row] \in Dbs
      /\ [w.wrote EXCEPT ![o] = Fields] \in [Objects -> SUBSET Fields]
      /\ w.ran \cup {o} \in SUBSET Objects
      /\ [w.seq EXCEPT ![t] = k] \in [Tables -> 0..MaxKey]
      /\ [w.obj EXCEPT ![o].pk = k] \in [Objects -> Struct]
  BY <1>3, <1>4, <1>5, <1>6 DEF Dbs, Struct
<1>10. /\ u \in Worlds /\ u.opt = w.opt /\ u.options = w.options
       /\ u.obj = [w.obj EXCEPT ![o].pk = k] /\ u.seq = [w.seq EXCEPT ![t] = k]
       /\ u.db = [w.db EXCEPT ![t][k] = row] /\ u.ran = w.ran \cup {o}
       /\ u.wrote = [w.wrote EXCEPT ![o] = Fields]
  BY <1>2, <1>9 DEF Worlds
<1> HIDE DEF u
<1>11. /\ u.db[t][k] = row
       /\ \A l \in Keys \ {k} : u.db[t][l] = w.db[t][l]
       /\ \A s \in Tables \ {t} : u.db[s] = w.db[s] /\ u.seq[s] = w.seq[s]
       /\ u.seq[t] = k
  BY <1>4, <1>5, <1>6, <1>10 DEF Dbs
<1>12. /\ u.wrote[o] = Fields
       /\ \A p \in Objects \ {o} : u.wrote[p] = w.wrote[p] /\ u.obj[p] = w.obj[p]
       /\ u.obj[o].val = w.obj[o].val /\ u.obj[o].pk = k
  BY <1>5, <1>10 DEF Struct
<1>13. Sound(u)
  <2>1. Owns(u)
    BY <1>2, <1>10 DEF Sound, Owns
  <2>2. Given(u.db, u.seq)
    <3> SUFFICES ASSUME NEW s \in Tables, NEW l \in Keys, u.db[s][l] # None
                 PROVE  l <= u.seq[s]
      BY DEF Given
    <3>1. CASE s # t
      BY <1>2, <1>11, <3>1 DEF Sound, Given
    <3>2. CASE s = t /\ l = k
      BY <1>6, <1>11, <3>2 DEF Keys
    <3>3. CASE s = t /\ l # k
      <4>1. l <= w.seq[t]
        BY <1>2, <1>4, <1>11, <3>3 DEF Sound, Given
      <4> QED
        BY <1>8, <1>11, <3>3, <4>1 DEF k, Keys
    <3> QED
      BY <3>1, <3>2, <3>3
  <2>3. \A p \in Objects \ u.ran : u.wrote[p] = {}
    BY <1>2, <1>10, <1>12 DEF Sound
  <2> QED
    BY <1>10, <2>1, <2>2, <2>3 DEF Sound
<1>14. /\ IsSetUp(u, o) /\ Opt(u, o).defs /\ o \in u.ran
       /\ \A p \in Objects : Opt(u, p) = Opt(w, p) /\ (IsSetUp(u, p) <=> IsSetUp(w, p))
  BY <1>10 DEF IsSetUp, Opt
<1>15. \A p \in Objects \ {o} : Knows(u, p)
  BY <1>10, <1>12, <1>14 DEF Knows, FromDBIn, Remembers, Valid
<1>16. Alone(w, u, o)
  BY <1>10, <1>11, <1>12, <1>14 DEF Alone, SameOf, FromDBIn, t
<1>17. /\ Valid(v) /\ Alone(u, v, o) /\ IsSetUp(v, o) /\ Opt(v, o).defs
       /\ Opt(v, o).state # None /\ Inner(u, v)
  BY <1>13, <1>14, <1>15, AfterSaveKeeps
<1> HIDE DEF v
<1>18. Alone(w, v, o)
  BY <1>16, <1>17, AloneTwice
<1>19. Written(w, v, o, Fields)
  <2>1. v.obj[o].pk = k
    BY <1>12, <1>17 DEF Inner
  <2>2. \A f \in Fields : v.db[t][k].val[f] = w.obj[o].val[f]
    BY <1>3, <1>11, <1>17 DEF Inner
  <2>3. v.db[t][k] # None /\ \A l \in Keys \ {k} : v.db[t][l] = w.db[t][l]
    BY <1>4, <1>11, <1>17 DEF Inner
  <2>4. /\ v.ran = w.ran \cup {o} /\ v.wrote[o] = w.wrote[o] \cup Fields
        /\ v.seq = [w.seq EXCEPT ![t] = k]
    BY <1>5, <1>10, <1>12, <1>17 DEF Inner
  <2> QED
    BY ZenonT(60), <1>6, <1>7, <1>17, <1>18, <2>1, <2>2, <2>3, <2>4 DEF Written, t, k
<1> QED
  BY <1>1, <1>19 DEF Result, t

\* Of an object that is from the database, or has a key, the fields that are
\* selected are written, of another all.
LEMMA WriteKeeps ==
  ASSUME NEW w, Valid(w), NEW o \in Objects, IsSetUp(w, o), Opt(w, o).defs,
         NEW sel \in SUBSET Names, NEW fails,
         w.obj[o].pk = 0 => w.seq[TableOf[o]] < MaxKey
  PROVE  LET r == Write(w, o, sel, fails)
         IN  IF r.ok THEN Written(w, r.w, o, IF Saved(w, o) THEN sel \cap Fields ELSE Fields)
             ELSE r.w = w
<1>1. CASE fails
  BY <1>1 DEF Write, Result
<1>2. CASE ~fails /\ Saved(w, o)
  BY <1>2, UpdateKeeps DEF Write
<1>3. CASE ~fails /\ ~Saved(w, o)
  <2>1. w.obj[o].pk = 0 /\ Write(w, o, sel, fails) = Create(w, o)
    BY <1>3 DEF Saved, Write
  <2> QED
    BY <1>3, <2>1, CreateKeeps
<1> QED
  BY <1>1, <1>2, <1>3

-----------------------------------------------------------------------------
(* The keys of the tables. *)

Room(w, objects) ==
    \A t \in Tables :
        w.seq[t] + Cardinality({o \in objects : TableOf[o] = t /\ w.obj[o].pk = 0}) <= MaxKey

\* As many keys are left when no object lost its own.
LEMMA RoomSame ==
  ASSUME NEW w, NEW v, NEW objects, Room(w, objects), v.seq = w.seq,
         \A o \in objects : v.obj[o].pk = w.obj[o].pk
  PROVE  Room(v, objects)
<1> SUFFICES ASSUME NEW t \in Tables
             PROVE  v.seq[t] + Cardinality({o \in objects : TableOf[o] = t /\ v.obj[o].pk = 0}) <= MaxKey
  BY DEF Room
<1>1. {o \in objects : TableOf[o] = t /\ v.obj[o].pk = 0}
        = {o \in objects : TableOf[o] = t /\ w.obj[o].pk = 0}
  OBVIOUS
<1> QED
  BY <1>1 DEF Room

\* An object without a key finds one.
LEMMA RoomForOne ==
  ASSUME NEW w \in Worlds, NEW objects \in SUBSET Objects, Room(w, objects),
         NEW o \in objects, w.obj[o].pk = 0
  PROVE  w.seq[TableOf[o]] < MaxKey
<1> DEFINE t == TableOf[o]
           S == {p \in objects : TableOf[p] = t /\ w.obj[p].pk = 0}
<1>1. t \in Tables /\ w.seq[t] \in Nat /\ MaxKey \in Nat
  BY ModelsAssumption DEF Worlds
<1>2. IsFiniteSet(S)
  BY ModelsAssumption, FS_Subset
<1>3. Cardinality(S) \in Nat /\ Cardinality(S) # 0
  BY <1>2, FS_CardinalityType, FS_EmptySet
<1>4. w.seq[t] + Cardinality(S) <= MaxKey
  BY <1>1 DEF Room
<1> HIDE DEF S, t
<1> QED
  BY <1>1, <1>3, <1>4 DEF t

\* The key it is given counts for it no longer.
LEMMA RoomAfter ==
  ASSUME NEW w, NEW v, NEW objects \in SUBSET Objects, Room(w, objects), w \in Worlds,
         NEW o \in objects, NEW written, Written(w, v, o, written)
  PROVE  Room(v, objects)
<1>1. \A p \in objects \ {o} : v.obj[p] = w.obj[p]
  BY DEF Written, Alone, SameOf
<1>2. CASE w.obj[o].pk # 0
  <2>1. v.seq = w.seq /\ \A p \in objects : v.obj[p].pk = w.obj[p].pk
    BY <1>1, <1>2 DEF Written
  <2> QED
    BY <2>1, RoomSame
<1>3. CASE w.obj[o].pk = 0
  <2> SUFFICES ASSUME NEW t \in Tables
               PROVE  v.seq[t] + Cardinality({p \in objects : TableOf[p] = t /\ v.obj[p].pk = 0}) <= MaxKey
    BY DEF Room
  <2> DEFINE S == {p \in objects : TableOf[p] = t /\ w.obj[p].pk = 0}
             T == {p \in objects : TableOf[p] = t /\ v.obj[p].pk = 0}
  <2>1. v.obj[o].pk # 0 /\ v.seq = [w.seq EXCEPT ![TableOf[o]] = w.seq[TableOf[o]] + 1]
    <3>1. v.obj[o].pk \in Keys
      BY DEF Written
    <3>2. v.seq = [w.seq EXCEPT ![TableOf[o]] = w.seq[TableOf[o]] + 1]
      BY <1>3 DEF Written
    <3> QED
      BY <3>1, <3>2 DEF Keys
  <2>2. T = S \ {o}
    BY <1>1, <2>1
  <2>3. IsFiniteSet(S)
    BY ModelsAssumption, FS_Subset
  <2>4. Cardinality(S) \in Nat /\ Cardinality(S \ {o}) = IF o \in S THEN Cardinality(S) - 1 ELSE Cardinality(S)
    BY <2>3, FS_CardinalityType, FS_RemoveElement
  <2>5. w.seq \in [Tables -> 0..MaxKey] /\ MaxKey \in Nat
    BY ModelsAssumption DEF Worlds
  <2>6. w.seq[t] + Cardinality(S) <= MaxKey
    BY DEF Room
  <2>7. o \in S <=> t = TableOf[o]
    BY <1>3
  <2>8. w.seq[t] \in Nat /\ v.seq[t] = IF t = TableOf[o] THEN w.seq[t] + 1 ELSE w.seq[t]
    BY <2>1, <2>5
  <2> HIDE DEF S, T
  <2>9. v.seq[t] + Cardinality(T) <= MaxKey
    BY <2>2, <2>4, <2>5, <2>6, <2>7, <2>8
  <2> QED
    BY <2>9 DEF T
<1> QED
  BY <1>2, <1>3

-----------------------------------------------------------------------------
(* Save. *)

\* The fields of a row that one of the objects may write: those that are due,
\* lost or listed, and all if the object is not from the database.
MayWrite(o, f, listed) == f \in Due(o) \cup lost[o] \cup listed \/ ~FromDB(o)

Blamed(w, objects, listed) ==
    \A t \in Tables, k \in Keys, f \in Fields :
        /\ db[t][k] # None /\ w.db[t][k] # None
        /\ w.db[t][k].val[f] # db[t][k].val[f]
        => \E o \in objects : TableOf[o] = t /\ w.obj[o].pk = k /\ MayWrite(o, f, listed)

\* Where a Save of the objects may have come to.
Saving(w, objects, listed) ==
    /\ Valid(w) /\ Room(w, objects) /\ Blamed(w, objects, listed)
    /\ \A o \in Objects : /\ w.obj[o].val = obj[o].val
                          /\ obj[o].pk # 0 => w.obj[o].pk = obj[o].pk
                          /\ FromDB(o) => FromDBIn(w, o)
    /\ \A t \in Tables : seq[t] <= w.seq[t]

\* No statement.
LEMMA QuietSaves ==
  ASSUME NEW w, NEW v, NEW objects \in SUBSET Objects, NEW listed,
         Saving(w, objects, listed), Valid(v), v.db = w.db, v.seq = w.seq,
         \A o \in Objects : /\ v.obj[o].val = w.obj[o].val /\ v.obj[o].pk = w.obj[o].pk
                            /\ FromDBIn(w, o) => FromDBIn(v, o)
  PROVE  Saving(v, objects, listed)
<1>1. Room(v, objects)
  BY RoomSame DEF Saving
<1>2. Blamed(v, objects, listed)
  BY DEF Saving, Blamed
<1> QED
  BY <1>1, <1>2 DEF Saving

\* Who changed alone and without a statement.
LEMMA InnerSaves ==
  ASSUME NEW w, NEW v, NEW objects \in SUBSET Objects, NEW listed, NEW o \in Objects,
         Saving(w, objects, listed), Valid(v), Alone(w, v, o), v.obj[o].pk = w.obj[o].pk,
         v.db = w.db, v.seq = w.seq
  PROVE  Saving(v, objects, listed)
<1>1. \A p \in Objects : /\ v.obj[p].val = w.obj[p].val /\ v.obj[p].pk = w.obj[p].pk
                         /\ FromDBIn(w, p) => FromDBIn(v, p)
  BY DEF Alone, SameOf, FromDBIn, IsSetUp
<1> QED
  BY <1>1, QuietSaves

\* A key after the largest one given is none of those given before.
LEMMA KeyIsNew ==
  ASSUME NEW k \in Nat, NEW m \in Nat, NEW n \in Nat, k = n + 1, k <= m, m <= n
  PROVE  FALSE
OBVIOUS

\* A statement that writes what the object may write.
LEMMA WrittenSaves ==
  ASSUME NEW w, NEW v, NEW objects \in SUBSET Objects, NEW listed, NEW o \in objects,
         NEW written, Saving(w, objects, listed), Written(w, v, o, written),
         w.obj[o].pk # 0 => \A f \in written : MayWrite(o, f, listed),
         TypeOK, Given(db, seq)
  PROVE  Saving(v, objects, listed)
<1>1. Valid(v) /\ Room(v, objects)
  <2>1. w \in Worlds /\ Room(w, objects)
    BY DEF Saving, Valid, Sound
  <2>2. Valid(v)
    BY DEF Written
  <2> QED
    BY <2>1, <2>2, RoomAfter
<1> DEFINE s == TableOf[o]
           l == v.obj[o].pk
<1>2. w.seq \in [Tables -> 0..MaxKey] /\ seq \in [Tables -> 0..MaxKey] /\ s \in Tables
  BY ModelsAssumption DEF TypeOK, Saving, Valid, Sound, Worlds
<1>3. \A p \in Objects \ {o} : SameOf(w, v, p)
  BY DEF Written, Alone
<1>4. \A p \in Objects : /\ v.obj[p].val = w.obj[p].val
                         /\ w.obj[p].pk # 0 => v.obj[p].pk = w.obj[p].pk
                         /\ FromDBIn(w, p) => FromDBIn(v, p)
  <2>1. /\ v.obj[o].val = w.obj[o].val
        /\ w.obj[o].pk # 0 => v.obj[o].pk = w.obj[o].pk
        /\ FromDBIn(w, o) => FromDBIn(v, o)
    BY DEF Written, Alone
  <2> QED
    BY <1>3, <2>1 DEF SameOf, FromDBIn, IsSetUp
<1>5. \A t \in Tables : w.seq[t] <= v.seq[t]
  <2>1. v.seq = w.seq \/ v.seq = [w.seq EXCEPT ![s] = w.seq[s] + 1]
    BY DEF Written
  <2> QED
    BY <1>2, <2>1
<1>6. \A t \in Tables : seq[t] <= v.seq[t]
  <2>1. v.seq \in [Tables -> 0..MaxKey]
    BY <1>1 DEF Valid, Sound, Worlds
  <2> QED
    BY <1>2, <1>5, <2>1 DEF Saving
<1>7. Blamed(v, objects, listed)
  <2> SUFFICES ASSUME NEW t \in Tables, NEW k \in Keys, NEW f \in Fields,
                      db[t][k] # None, v.db[t][k] # None,
                      v.db[t][k].val[f] # db[t][k].val[f]
               PROVE  \E p \in objects : TableOf[p] = t /\ v.obj[p].pk = k /\ MayWrite(p, f, listed)
    BY DEF Blamed
  <2>1. CASE w.db[t][k] # None /\ w.db[t][k].val[f] # db[t][k].val[f]
    <3>1. PICK p \in objects : TableOf[p] = t /\ w.obj[p].pk = k /\ MayWrite(p, f, listed)
      BY <2>1 DEF Saving, Blamed
    <3>2. k # 0
      BY DEF Keys
    <3> QED
      BY <1>4, <3>1, <3>2
  <2>2. CASE t = s /\ k = l /\ w.db[t][k] # None /\ w.db[t][k].val[f] = db[t][k].val[f]
    <3>1. w.obj[o].pk # 0
      BY <2>2 DEF Written
    <3>2. f \in written
      BY <2>2 DEF Written
    <3> QED
      BY <2>2, <3>1, <3>2
  <2>3. CASE t = s /\ k = l /\ w.db[t][k] = None
    <3>1. CASE w.obj[o].pk # 0
      BY <2>3, <3>1 DEF Written
    <3>2. CASE w.obj[o].pk = 0
      <4>1. k = w.seq[t] + 1
        BY <2>3, <3>2 DEF Written
      <4>2. k <= seq[t]
        BY DEF Given
      <4>3. seq[t] <= w.seq[t]
        BY DEF Saving
      <4>4. seq[t] \in Nat /\ w.seq[t] \in Nat /\ k \in Nat
        BY <1>2 DEF Keys
      <4> QED
        BY <4>1, <4>2, <4>3, <4>4, KeyIsNew
    <3> QED
      BY <3>1, <3>2
  <2>4. CASE ~(t = s /\ k = l)
    <3>1. v.db[t][k] = w.db[t][k]
      BY ZenonT(60), <2>4 DEF Written, Alone
    <3> QED
      BY <2>1, <3>1
  <2> QED
    BY <2>1, <2>2, <2>3, <2>4
<1> QED
  BY <1>1, <1>4, <1>6, <1>7 DEF Saving

\* What an object selects by itself are fields that it may write.
LEMMA SelectedMayWrite ==
  ASSUME NEW w, NEW objects, NEW listed, NEW o \in Objects, NEW config \in Config,
         Saving(w, objects, listed), IsSetUp(w, o), config.fields \subseteq listed,
         config.force => Fields \subseteq listed,
         Opt(w, o).state # None => Opt(w, o).state.changed = Differing(w, o)
  PROVE  /\ Selected(w, o, config) \in SUBSET Names
         /\ \A f \in Selected(w, o, config) \cap Fields : MayWrite(o, f, listed)
<1>1. Selected(w, o, config) \subseteq Names
  BY DEF Selected, NamesOf, Names
<1>2. ASSUME NEW f \in Selected(w, o, config) \cap Fields, ~MayWrite(o, f, listed)
      PROVE  FALSE
  <2>1. FromDBIn(w, o) /\ f \notin lost[o] /\ f \notin listed /\ f \notin Due(o)
    BY <1>2 DEF MayWrite, Saving
  <2>2. HasChanged(w, o, f)
    BY <1>2, <2>1 DEF Selected, FromDBIn
  <2>3. Remembers(w, o, Opt(w, o).state)
    BY <2>1 DEF Saving, Valid, Knows
  <2>4. f \in Differing(w, o)
    BY <2>2, <2>3 DEF HasChanged, Remembers
  <2>5. w.obj[o].val[f] # Opt(w, o).state.initial.val[f]
    BY <1>2, <2>4, ModelsAssumption DEF Differing
  <2>6. w.obj[o].val = obj[o].val /\ obj[o].val[f] = synced[o][f]
    BY <2>1 DEF Due, Saving
  <2> QED
    BY <2>1, <2>3, <2>5, <2>6 DEF Remembers
<1> QED
  BY <1>1, <1>2

\* What a statement of a Save has done when it is over.
Over(w, r, objects, listed, o, sel) ==
    /\ r.ok => /\ Saving(r.w, objects, listed)
               /\ Written(w, r.w, o, IF Saved(w, o) THEN sel \cap Fields ELSE Fields)
    /\ ~r.ok => r.w = w

\* The statement of one of the objects, which may fail.
LEMMA StatementSaves ==
  ASSUME NEW w, NEW objects \in SUBSET Objects, NEW listed, NEW o \in objects,
         Saving(w, objects, listed), IsSetUp(w, o), Opt(w, o).defs,
         NEW sel \in SUBSET Names, \A f \in sel \cap Fields : MayWrite(o, f, listed),
         NEW fails, TypeOK, Given(db, seq)
  PROVE  Over(w, Write(w, o, sel, fails), objects, listed, o, sel)
<1> DEFINE r == Write(w, o, sel, fails)
           written == IF Saved(w, o) THEN sel \cap Fields ELSE Fields
<1>1. Valid(w) /\ w \in Worlds /\ Room(w, objects)
  BY DEF Saving, Valid, Sound
<1>2. w.obj[o].pk = 0 => w.seq[TableOf[o]] < MaxKey
  BY <1>1, RoomForOne
<1>3. IF r.ok THEN Written(w, r.w, o, written) ELSE r.w = w
  <2>1. o \in Objects
    OBVIOUS
  <2> QED
    BY ZenonT(60), <1>1, <1>2, <2>1, WriteKeeps
<1>4. w.obj[o].pk # 0 => \A f \in written : MayWrite(o, f, listed)
  BY DEF Saved
<1> HIDE DEF r, written
<1>5. r.ok => Saving(r.w, objects, listed)
  BY <1>3, <1>4, WrittenSaves
<1> QED
  BY <1>3, <1>5 DEF r, written, Over

\* The end of a Save that wrote the row.
LEMMA FinishKeeps ==
  ASSUME NEW w, Valid(w), NEW o \in Objects, IsSetUp(w, o), Opt(w, o).defs,
         Opt(w, o).state # None, o \in w.ran
  PROVE  /\ Valid(Finish(w, o)) /\ Alone(w, Finish(w, o), o)
         /\ IsSetUp(Finish(w, o), o) /\ Inner(w, Finish(w, o))
<1> DEFINE i == [Opt(w, o) EXCEPT !.state = Reset(w, o), !.fromDB = TRUE]
<1>1. w \in Worlds /\ w.opt[o] \in Objects /\ Opt(w, o) \in Options /\ Opt(w, o).object = o
  BY OwnOptions DEF Valid, Sound
<1>2. Reset(w, o) \in State /\ Reset(w, o).initial.val = w.obj[o].val
  BY <1>1, ResetType
<1>3. /\ i \in Options /\ i.object = o /\ i.fromDB /\ i.state = Reset(w, o)
  BY <1>1, <1>2 DEF Options
<1>4. Finish(w, o) = Put(w, o, i)
  BY <1>1 DEF Finish, Put, Opt, Worlds
<1> HIDE DEF i
<1>5. Remembers(w, o, i.state)
  BY <1>2, <1>3, ModelsAssumption DEF Remembers
<1> QED
  BY <1>3, <1>4, <1>5, PutKeeps DEF Valid

\* checkState is no statement; what is selected after it may be written.
LEMMA CheckedSaves ==
  ASSUME NEW w, NEW objects \in SUBSET Objects, NEW listed, NEW o \in Objects,
         Saving(w, objects, listed), IsSetUp(w, o), Opt(w, o).defs,
         NEW config \in Config, config.fields \subseteq listed,
         config.force => Fields \subseteq listed
  PROVE  LET v == CheckState(w, o)
         IN  /\ Saving(v, objects, listed) /\ Alone(w, v, o) /\ Inner(w, v)
             /\ IsSetUp(v, o) /\ Opt(v, o).defs
             /\ Opt(v, o).state # None => Opt(v, o).state.changed = Differing(v, o)
             /\ Selected(v, o, config) \in SUBSET Names
             /\ \A f \in Selected(v, o, config) \cap Fields : MayWrite(o, f, listed)
<1> DEFINE v == CheckState(w, o)
<1>1. Valid(w)
  BY DEF Saving
<1>2. /\ Valid(v) /\ Alone(w, v, o) /\ Inner(w, v) /\ IsSetUp(v, o) /\ Opt(v, o).defs
      /\ Opt(v, o).state # None => /\ Opt(v, o).state.initial = Opt(w, o).state.initial
                                   /\ Opt(v, o).state.changed = Differing(w, o)
  BY <1>1, CheckStateKeeps
<1> HIDE DEF v
<1>3. Saving(v, objects, listed)
  BY <1>2, InnerSaves DEF Inner
<1>4. Opt(v, o).state # None => Opt(v, o).state.changed = Differing(v, o)
  BY <1>2 DEF Differing, Inner
<1>5. /\ Selected(v, o, config) \in SUBSET Names
      /\ \A f \in Selected(v, o, config) \cap Fields : MayWrite(o, f, listed)
  BY <1>2, <1>3, <1>4, SelectedMayWrite
<1> QED
  BY <1>2, <1>3, <1>4, <1>5 DEF v

\* A target or a proxy that is saved.
LEMMA LeafSaves ==
  ASSUME NEW w, NEW objects \in SUBSET Objects, NEW listed, NEW o \in objects,
         Saving(w, objects, listed), IsSetUp(w, o), Opt(w, o).defs, NEW fails,
         TypeOK, Given(db, seq)
  PROVE  LET r == SaveLeaf(w, o, Plain, fails)
         IN  Saving(r.w, objects, listed) /\ Alone(w, r.w, o)
<1> DEFINE v == CheckState(w, o)
           sel == Selected(v, o, Plain)
           r == Write(v, o, sel, fails)
<1>1. Plain \in Config /\ Plain.fields \subseteq listed /\ ~Plain.force
  BY DEF Plain, Config
<1>2. /\ Saving(v, objects, listed) /\ Alone(w, v, o) /\ IsSetUp(v, o) /\ Opt(v, o).defs
      /\ sel \in SUBSET Names /\ \A f \in sel \cap Fields : MayWrite(o, f, listed)
  BY <1>1, CheckedSaves
<1> HIDE DEF v, sel
<1> DEFINE written == IF Saved(v, o) THEN sel \cap Fields ELSE Fields
<1>3. /\ r.ok => Saving(r.w, objects, listed) /\ Written(v, r.w, o, written)
      /\ ~r.ok => r.w = v
  <2>1. /\ Saving(v, objects, listed) /\ IsSetUp(v, o) /\ Opt(v, o).defs
        /\ sel \in SUBSET Names /\ \A f \in sel \cap Fields : MayWrite(o, f, listed)
        /\ TypeOK /\ Given(db, seq)
    BY <1>2
  <2>2. Over(v, r, objects, listed, o, sel)
    BY <2>1, StatementSaves
  <2> QED
    BY <2>2 DEF Over
<1>4. SaveLeaf(w, o, Plain, fails) = IF Skips(v, o, Plain) THEN Result(v, TRUE)
                                     ELSE IF r.ok THEN Result(Finish(r.w, o), TRUE) ELSE r
  BY DEF SaveLeaf, v, sel
<1> HIDE DEF r, written
<1>5. CASE r.ok
  <2>1. /\ Valid(r.w) /\ Alone(v, r.w, o) /\ IsSetUp(r.w, o) /\ Opt(r.w, o).defs
        /\ Opt(r.w, o).state # None /\ o \in r.w.ran
    BY <1>3, <1>5 DEF Written
  <2>2. /\ Valid(Finish(r.w, o)) /\ Alone(r.w, Finish(r.w, o), o) /\ Inner(r.w, Finish(r.w, o))
    BY <2>1, FinishKeeps
  <2>3. Saving(Finish(r.w, o), objects, listed)
    BY <1>3, <1>5, <2>2, InnerSaves DEF Inner
  <2>4. Alone(w, Finish(r.w, o), o)
    BY <1>2, <2>1, <2>2, AloneTwice
  <2> QED
    BY <1>2, <1>4, <1>5, <2>3, <2>4 DEF Result
<1>6. CASE ~r.ok
  BY <1>2, <1>3, <1>4, <1>6 DEF Result
<1> QED
  BY <1>5, <1>6

\* The definitions are bound where they are used.
LEMMA DefineSaves ==
  ASSUME NEW w, NEW objects \in SUBSET Objects, NEW listed, NEW o \in Objects,
         Saving(w, objects, listed)
  PROVE  /\ Saving(Define(w, o), objects, listed) /\ Alone(w, Define(w, o), o)
         /\ IsSetUp(Define(w, o), o) /\ Opt(Define(w, o), o).defs
         /\ Define(w, o).ran = w.ran
<1>1. Valid(w)
  BY DEF Saving
<1>2. /\ Valid(Define(w, o)) /\ Alone(w, Define(w, o), o) /\ Define(w, o).obj[o] = w.obj[o]
      /\ IsSetUp(Define(w, o), o) /\ Opt(Define(w, o), o).defs
      /\ Define(w, o).db = w.db /\ Define(w, o).seq = w.seq /\ Define(w, o).ran = w.ran
  BY <1>1, DefineKeeps
<1> QED
  BY <1>2, InnerSaves

\* Binding the definitions at the start of a Save.
LEMMA ReadySaves ==
  ASSUME NEW w, NEW objects \in SUBSET Objects, NEW listed, NEW o \in Objects,
         Saving(w, objects, listed), IsSetUp(w, o)
  PROVE  /\ Saving(Ready(w, o), objects, listed) /\ Alone(w, Ready(w, o), o)
         /\ IsSetUp(Ready(w, o), o) /\ Opt(Ready(w, o), o).defs
         /\ Ready(w, o).ran = w.ran
<1>1. CASE Opt(w, o).defs
  <2>1. Ready(w, o) = w
    BY <1>1 DEF Ready
  <2> QED
    BY <1>1, <2>1 DEF Alone, SameOf
<1>2. CASE ~Opt(w, o).defs
  <2>1. Ready(w, o) = Define(w, o)
    BY <1>2 DEF Ready
  <2> QED
    BY <2>1, DefineSaves
<1> QED
  BY <1>1, <1>2

\* The target of the foreign key.
LEMMA RefSaves ==
  ASSUME NEW w, NEW objects \in SUBSET Objects, NEW listed, NEW o \in Objects,
         Saving(w, objects, listed), RefOf[o] \in objects, NEW sel, NEW fails,
         TypeOK, Given(db, seq)
  PROVE  LET r == SaveRef(w, o, sel, fails)
         IN  Saving(r.w, objects, listed) /\ Alone(w, r.w, RefOf[o])
<1> DEFINE p == RefOf[o]
           s == Setup(w, p)
           v == Ready(s, p)
           r == SaveLeaf(v, p, Plain, fails)
<1>1. CASE "ref" \notin sel
  BY <1>1 DEF SaveRef, Result, Alone, SameOf
<1>2. CASE "ref" \in sel
  <2>1. SaveRef(w, o, sel, fails) = r
    BY <1>2 DEF SaveRef
  <2>2. p \in objects /\ p \in Objects /\ Valid(w)
    BY DEF Saving
  <2> HIDE DEF p
  <2>3. /\ Valid(s) /\ Alone(w, s, p) /\ IsSetUp(s, p)
    BY <2>2, SetupKeeps
  <2>4. s.obj = w.obj /\ s.db = w.db /\ s.seq = w.seq
    BY <2>2 DEF Setup, Valid, Sound, Worlds
  <2> HIDE DEF s
  <2>5. Saving(s, objects, listed)
    BY <2>2, <2>3, <2>4, InnerSaves
  <2>6. Saving(v, objects, listed) /\ Alone(s, v, p) /\ IsSetUp(v, p) /\ Opt(v, p).defs
    BY <2>2, <2>3, <2>5, ReadySaves
  <2> HIDE DEF v
  <2>7. Saving(r.w, objects, listed) /\ Alone(v, r.w, p)
    BY <2>2, <2>6, LeafSaves
  <2> HIDE DEF r
  <2>8. Alone(w, r.w, p)
    BY <2>2, <2>3, <2>6, <2>7, AloneTwice
  <2> QED
    BY <2>1, <2>7, <2>8 DEF p
<1> QED
  BY <1>1, <1>2

\* The key of the owner is the only thing of an object that changes.
LEMMA OwnerSaves ==
  ASSUME NEW w, NEW objects \in SUBSET Objects, NEW listed, NEW p \in Objects,
         Saving(w, objects, listed), IsSetUp(w, p), NEW k \in 0..MaxKey
  PROVE  LET v == [w EXCEPT !.obj[p].owner = k]
         IN  /\ Saving(v, objects, listed) /\ Alone(w, v, p)
             /\ IsSetUp(v, p) /\ Opt(v, p) = Opt(w, p)
<1> DEFINE v == [w EXCEPT !.obj[p].owner = k]
<1>1. Valid(w) /\ w \in Worlds /\ Sound(w)
  BY DEF Saving, Valid, Sound
<1>2. w.obj \in [Objects -> Struct]
  BY <1>1 DEF Worlds
<1>3. [w.obj EXCEPT ![p].owner = k] \in [Objects -> Struct]
  BY <1>2 DEF Struct
<1>4. /\ v \in Worlds /\ v.obj = [w.obj EXCEPT ![p].owner = k] /\ v.opt = w.opt
      /\ v.options = w.options /\ v.db = w.db /\ v.seq = w.seq /\ v.wrote = w.wrote
      /\ v.ran = w.ran
  BY <1>1, <1>3 DEF Worlds
<1> HIDE DEF v
<1>5. /\ \A o \in Objects : v.obj[o].val = w.obj[o].val /\ v.obj[o].pk = w.obj[o].pk
      /\ \A o \in Objects \ {p} : v.obj[o] = w.obj[o]
  BY <1>2, <1>4 DEF Struct
<1>6. \A o \in Objects : Opt(v, o) = Opt(w, o) /\ (IsSetUp(v, o) <=> IsSetUp(w, o))
  BY <1>4 DEF Opt, IsSetUp
<1>7. Sound(v)
  BY <1>1, <1>4 DEF Sound, Owns
<1>8. \A o \in Objects : Knows(v, o)
  BY <1>1, <1>4, <1>5, <1>6 DEF Valid, Knows, FromDBIn, Remembers
<1>9. Alone(w, v, p)
  BY <1>4, <1>5, <1>6 DEF Alone, SameOf, FromDBIn
<1>10. Valid(v)
  BY <1>7, <1>8 DEF Valid
<1>11. Saving(v, objects, listed)
  BY <1>4, <1>5, <1>9, <1>10, InnerSaves
<1> QED
  BY <1>6, <1>9, <1>11 DEF v

\* The proxy, after it got the key of its owner.
LEMMA ProxySaves ==
  ASSUME NEW w, NEW objects \in SUBSET Objects, NEW listed, NEW o \in Objects,
         Saving(w, objects, listed), ProxyOf[o] \in objects, NEW sel, NEW fails,
         TypeOK, Given(db, seq)
  PROVE  LET r == SaveProxy(w, o, sel, fails)
         IN  Saving(r.w, objects, listed) /\ Alone(w, r.w, ProxyOf[o])
<1> DEFINE p == ProxyOf[o]
           d == Define(w, p)
           v == [d EXCEPT !.obj[p].owner = d.obj[o].pk]
           r == SaveLeaf(v, p, Plain, fails)
<1>1. CASE "proxy" \notin sel
  BY <1>1 DEF SaveProxy, Result, Alone, SameOf
<1>2. CASE "proxy" \in sel
  <2>1. SaveProxy(w, o, sel, fails) = r
    BY <1>2 DEF SaveProxy
  <2>2. p \in objects /\ p \in Objects
    OBVIOUS
  <2> HIDE DEF p
  <2>3. Saving(d, objects, listed) /\ Alone(w, d, p) /\ IsSetUp(d, p) /\ Opt(d, p).defs
    BY <2>2, DefineSaves
  <2> HIDE DEF d
  <2>4. d.obj[o].pk \in 0..MaxKey
    BY <2>3 DEF Saving, Valid, Sound, Worlds, Struct
  <2>5. Saving(v, objects, listed) /\ Alone(d, v, p) /\ IsSetUp(v, p) /\ Opt(v, p).defs
    BY ZenonT(60), <2>2, <2>3, <2>4, OwnerSaves
  <2> HIDE DEF v
  <2>6. Saving(r.w, objects, listed) /\ Alone(v, r.w, p)
    BY <2>2, <2>5, LeafSaves
  <2> HIDE DEF r
  <2>7. Alone(w, r.w, p)
    BY <2>2, <2>3, <2>5, <2>6, AloneTwice
  <2> QED
    BY <2>1, <2>6, <2>7 DEF p
<1> QED
  BY <1>1, <1>2

\* The objects of a Save, and the fields that it writes whether or not they
\* changed.
Of(o) == {o, RefOf[o], ProxyOf[o]} \ {None}
Listed(config) == config.fields \cup (IF config.force THEN Fields ELSE {})

\* An object that another did not touch.
LEMMA Untouched ==
  ASSUME NEW w, NEW v, NEW p \in Objects, NEW o \in Objects \ {p}, IsSetUp(w, o), Alone(w, v, p)
  PROVE  /\ SameOf(w, v, o) /\ IsSetUp(v, o) /\ Opt(v, o) = Opt(w, o)
BY DEF Alone, SameOf, IsSetUp

\* A Save keeps to its objects.  When it returns nil, what it wrote of the
\* object is in its row, or it found nothing due but what is lost.
LEMMA ObjectSaves ==
  ASSUME NEW w0, NEW o \in Objects, NEW config \in Config, NEW fault,
         Saving(w0, Of(o), Listed(config)), IsSetUp(w0, o), Opt(w0, o).defs, w0.ran = {},
         TypeOK, Given(db, seq)
  PROVE  LET r == SaveObject(w0, o, config, fault)
         IN  /\ Saving(r.w, Of(o), Listed(config))
             /\ r.ok =>
                   IF o \in r.w.ran
                   THEN /\ r.w.db[TableOf[o]][r.w.obj[o].pk] # None
                        /\ r.w.obj[o].pk # 0
                        /\ \A f \in r.w.wrote[o] :
                              r.w.db[TableOf[o]][r.w.obj[o].pk].val[f] = obj[o].val[f]
                   ELSE Due(o) \subseteq lost[o]
<1> DEFINE w == CheckState(w0, o)
           sel == Selected(w, o, config)
           before == SaveRef(w, o, sel, fault = "before")
           self == Write(before.w, o, sel, fault = "self")
           after == SaveProxy(self.w, o, sel, fault = "after")
           t == TableOf[o]
<1>1. SaveObject(w0, o, config, fault) =
        IF Skips(w, o, config) THEN Result(w, TRUE)
        ELSE IF ~before.ok THEN before
        ELSE IF ~self.ok THEN self
        ELSE IF ~after.ok THEN after
        ELSE Result(Finish(after.w, o), fault # "commit")
  BY DEF SaveObject
<1>2. /\ Of(o) \in SUBSET Objects /\ o \in Of(o) /\ None \notin Objects
      /\ RefOf[o] # None => RefOf[o] \in Of(o) /\ RefOf[o] # o
      /\ ProxyOf[o] # None => /\ ProxyOf[o] \in Of(o) /\ ProxyOf[o] # o
                             /\ TableOf[ProxyOf[o]] # t
  BY ModelsAssumption DEF Of
<1>3. config.fields \subseteq Listed(config) /\ (config.force => Fields \subseteq Listed(config))
  BY DEF Listed
<1>4. /\ Saving(w, Of(o), Listed(config)) /\ Inner(w0, w)
      /\ IsSetUp(w, o) /\ Opt(w, o).defs
      /\ Opt(w, o).state # None => Opt(w, o).state.changed = Differing(w, o)
      /\ sel \in SUBSET Names
      /\ \A f \in sel \cap Fields : MayWrite(o, f, Listed(config))
  <2>1. /\ Of(o) \in SUBSET Objects /\ o \in Of(o) /\ config \in Config
        /\ Saving(w0, Of(o), Listed(config)) /\ IsSetUp(w0, o) /\ Opt(w0, o).defs
        /\ config.fields \subseteq Listed(config)
        /\ (config.force => Fields \subseteq Listed(config))
    BY <1>2, <1>3
  <2> DEFINE L == Listed(config)
             S == Of(o)
  <2> HIDE DEF L, S
  <2>2. /\ Saving(w, S, L) /\ Inner(w0, w)
        /\ IsSetUp(w, o) /\ Opt(w, o).defs
        /\ (Opt(w, o).state # None => Opt(w, o).state.changed = Differing(w, o))
        /\ sel \in SUBSET Names
        /\ \A f \in sel \cap Fields : MayWrite(o, f, L)
    <3>1. /\ S \in SUBSET Objects /\ o \in S /\ config \in Config
          /\ Saving(w0, S, L) /\ IsSetUp(w0, o) /\ Opt(w0, o).defs
          /\ config.fields \subseteq L /\ (config.force => Fields \subseteq L)
      BY <2>1 DEF S, L
    <3> QED
      BY <3>1, CheckedSaves
  <2> QED
    BY <2>2 DEF S, L
<1>5. w.ran = {} /\ w.wrote[o] = {}
  BY <1>4 DEF Inner, Saving, Valid, Sound
<1>6. /\ RefOf[o] = None => "ref" \notin sel
      /\ ProxyOf[o] = None => "proxy" \notin sel
  BY ModelsAssumption DEF Selected, NamesOf
<1> HIDE DEF w, sel
<1>7. /\ Saving(before.w, Of(o), Listed(config))
      /\ IsSetUp(before.w, o) /\ Opt(before.w, o).defs
      /\ o \notin before.w.ran /\ before.w.wrote[o] = {}
  <2>1. CASE RefOf[o] = None
    <3>1. before.w = w
      BY <1>6, <2>1 DEF SaveRef, Result
    <3> QED
      BY <1>4, <1>5, <3>1
  <2>2. CASE RefOf[o] # None
    <3>1. Saving(before.w, Of(o), Listed(config)) /\ Alone(w, before.w, RefOf[o])
      BY <1>2, <1>4, <2>2, RefSaves
    <3>2. RefOf[o] \in Objects /\ o \in Objects \ {RefOf[o]}
      BY <1>2, <2>2
    <3>3. SameOf(w, before.w, o) /\ IsSetUp(before.w, o) /\ Opt(before.w, o) = Opt(w, o)
      BY <1>4, <3>1, <3>2, Untouched
    <3> QED
      BY <1>4, <1>5, <3>1, <3>3 DEF SameOf
  <2> QED
    BY <2>1, <2>2
<1> HIDE DEF before
<1> DEFINE written == IF Saved(before.w, o) THEN sel \cap Fields ELSE Fields
<1>8. /\ self.ok => Saving(self.w, Of(o), Listed(config)) /\ Written(before.w, self.w, o, written)
      /\ ~self.ok => self.w = before.w
  <2>1. /\ Saving(before.w, Of(o), Listed(config)) /\ IsSetUp(before.w, o)
        /\ Opt(before.w, o).defs /\ o \in Of(o) /\ Of(o) \in SUBSET Objects
        /\ sel \in SUBSET Names /\ \A f \in sel \cap Fields : MayWrite(o, f, Listed(config))
        /\ TypeOK /\ Given(db, seq)
    BY <1>2, <1>4, <1>7
  <2> DEFINE L == Listed(config)
             S == Of(o)
             b == before.w
  <2> HIDE DEF L, S, b
  <2>2. /\ Saving(b, S, L) /\ IsSetUp(b, o) /\ Opt(b, o).defs /\ o \in S /\ S \in SUBSET Objects
        /\ sel \in SUBSET Names /\ \A f \in sel \cap Fields : MayWrite(o, f, L)
        /\ TypeOK /\ Given(db, seq)
    BY <2>1 DEF L, S, b
  <2>3. ASSUME NEW fails
        PROVE  Over(b, Write(b, o, sel, fails), S, L, o, sel)
    BY <2>2, StatementSaves
  <2>4. Over(b, self, S, L, o, sel)
    BY <2>3 DEF b
  <2> QED
    BY <2>4 DEF Over, L, S, b
<1> HIDE DEF self, written
<1> DEFINE StoredIn(v) == /\ IsSetUp(v, o) /\ Opt(v, o).defs /\ Opt(v, o).state # None
                          /\ o \in v.ran
                          /\ v.obj[o].pk # 0 /\ v.db[t][v.obj[o].pk] # None
                          /\ \A f \in v.wrote[o] : v.db[t][v.obj[o].pk].val[f] = obj[o].val[f]
<1>9. self.ok => StoredIn(self.w)
  <2> SUFFICES ASSUME self.ok
               PROVE  StoredIn(self.w)
    OBVIOUS
  <2> DEFINE k == self.w.obj[o].pk
  <2>1. Written(before.w, self.w, o, written)
    BY <1>8
  <2>2. /\ IsSetUp(self.w, o) /\ Opt(self.w, o).defs /\ Opt(self.w, o).state # None
        /\ o \in self.w.ran /\ self.w.wrote[o] = written
        /\ k \in Keys /\ self.w.db[t][k] # None
        /\ \A f \in written : self.w.db[t][k].val[f] = before.w.obj[o].val[f]
    BY <1>7, <2>1 DEF Written
  <2>3. before.w.obj[o].val = obj[o].val
    BY <1>7 DEF Saving
  <2>4. k # 0
    <3>1. k \in Keys
      BY <2>2
    <3> QED
      BY <3>1 DEF Keys
  <2> QED
    BY <2>2, <2>3, <2>4
<1>10. self.ok => Saving(after.w, Of(o), Listed(config)) /\ StoredIn(after.w)
  <2> SUFFICES ASSUME self.ok
               PROVE  Saving(after.w, Of(o), Listed(config)) /\ StoredIn(after.w)
    OBVIOUS
  <2>1. CASE ProxyOf[o] = None
    <3>1. after.w = self.w
      BY <1>6, <2>1 DEF SaveProxy, Result
    <3> QED
      BY ZenonT(60), <1>8, <1>9, <3>1
  <2>2. CASE ProxyOf[o] # None
    <3>1. Saving(after.w, Of(o), Listed(config)) /\ Alone(self.w, after.w, ProxyOf[o])
      BY <1>2, <1>8, <2>2, ProxySaves
    <3>2. ProxyOf[o] \in Objects /\ o \in Objects \ {ProxyOf[o]}
      BY <1>2, <2>2
    <3>3. /\ SameOf(self.w, after.w, o) /\ IsSetUp(after.w, o)
          /\ Opt(after.w, o) = Opt(self.w, o)
      <4>1. IsSetUp(self.w, o)
        BY <1>9
      <4> QED
        BY <3>1, <3>2, <4>1, Untouched
    <3>4. after.w.db[t] = self.w.db[t]
      BY <1>2, <2>2, <3>1, ModelsAssumption DEF Alone
    <3>5. /\ after.w.obj[o] = self.w.obj[o] /\ after.w.wrote[o] = self.w.wrote[o]
          /\ o \in after.w.ran <=> o \in self.w.ran
      BY <3>3 DEF SameOf
    <3> HIDE DEF after
    <3>6. StoredIn(self.w)
      BY <1>9
    <3>7. StoredIn(after.w)
      BY ZenonT(60), <3>3, <3>4, <3>5, <3>6
    <3> QED
      BY <3>1, <3>7
  <2> QED
    BY <2>1, <2>2
<1> HIDE DEF after
<1>11. CASE Skips(w, o, config)
  <2>1. SaveObject(w0, o, config, fault) = Result(w, TRUE)
    BY <1>1, <1>11
  <2>2. Due(o) \subseteq lost[o]
    <3>1. FromDBIn(w, o) /\ Opt(w, o).state # None /\ Differing(w, o) = {}
      BY <1>4, <1>11 DEF Skips, Changed, FromDBIn
    <3>2. \A f \in Fields : f \notin lost[o] => Opt(w, o).state.initial.val[f] = synced[o][f]
      BY <1>4, <1>5, <3>1 DEF Saving, Valid, Knows, Remembers
    <3>3. \A f \in Fields : Opt(w, o).state.initial.val[f] = w.obj[o].val[f]
      BY <3>1 DEF Differing
    <3>4. w.obj[o].val = obj[o].val
      BY <1>4 DEF Saving
    <3> QED
      BY <3>2, <3>3, <3>4 DEF Due
  <2> QED
    <3>1. SaveObject(w0, o, config, fault).w = w /\ o \notin w.ran
      BY <1>5, <2>1 DEF Result
    <3> QED
      BY <1>4, <2>2, <3>1
<1>12. CASE ~Skips(w, o, config) /\ before.ok /\ self.ok /\ after.ok
  <2> DEFINE v == Finish(after.w, o)
  <2>1. SaveObject(w0, o, config, fault) = Result(v, fault # "commit")
    BY <1>1, <1>12
  <2>2. Valid(after.w) /\ Saving(after.w, Of(o), Listed(config)) /\ StoredIn(after.w)
    BY <1>10, <1>12 DEF Saving
  <2>3. Valid(v) /\ Alone(after.w, v, o) /\ Inner(after.w, v)
    BY <2>2, FinishKeeps
  <2>4. Saving(v, Of(o), Listed(config))
    BY ZenonT(60), <1>2, <2>2, <2>3, InnerSaves DEF Inner
  <2> HIDE DEF v
  <2>5. /\ v.obj = after.w.obj /\ v.db = after.w.db /\ v.wrote = after.w.wrote
        /\ v.ran = after.w.ran
    BY <2>3 DEF Inner
  <2> DEFINE r == SaveObject(w0, o, config, fault)
  <2>6. r.w = v
    BY <2>1 DEF Result
  <2> HIDE DEF r
  <2>7. /\ o \in v.ran /\ v.obj[o].pk # 0 /\ v.db[t][v.obj[o].pk] # None
        /\ \A f \in v.wrote[o] : v.db[t][v.obj[o].pk].val[f] = obj[o].val[f]
    BY <2>2, <2>5
  <2> QED
    BY <2>4, <2>6, <2>7 DEF r
<1>13. CASE ~Skips(w, o, config) /\ ~(before.ok /\ self.ok /\ after.ok)
  BY <1>1, <1>7, <1>8, <1>10, <1>13
<1> QED
  BY <1>11, <1>12, <1>13

-----------------------------------------------------------------------------
(* The steps. *)

\* The record of a step is the state after it.
LEMMA NextValid ==
  ASSUME NEW v, Valid(v), obj' = v.obj, opt' = v.opt, options' = v.options,
         db' \in Dbs, seq' \in [Tables -> 0..MaxKey], Given(db', seq'),
         \A o \in Objects : FromDBIn(v, o) => \A f \in Fields \ lost'[o] :
            IF o \in v.ran THEN synced'[o][f] = v.obj[o].val[f]
            ELSE f \notin lost[o] /\ synced'[o][f] = synced[o][f]
  PROVE  /\ Valid(World)'
         /\ obj' \in [Objects -> Struct] /\ opt' \in [Objects -> Objects \cup {None}]
         /\ options' \in [Objects -> Options]
<1> DEFINE u == World'
<1>1. /\ u.obj = v.obj /\ u.opt = v.opt /\ u.options = v.options /\ u.db = db' /\ u.seq = seq'
      /\ u.ran = {} /\ u.wrote = [o \in Objects |-> {}]
      /\ u = [obj |-> v.obj, opt |-> v.opt, options |-> v.options, db |-> db', seq |-> seq',
              wrote |-> [o \in Objects |-> {}], ran |-> {}]
  BY DEF World
<1>2. /\ v.obj \in [Objects -> Struct] /\ v.opt \in [Objects -> Objects \cup {None}]
      /\ v.options \in [Objects -> Options]
  BY DEF Valid, Sound, Worlds
<1>3. u \in Worlds
  BY <1>1, <1>2 DEF Worlds
<1> HIDE DEF u
<1>4. Owns(u) /\ Given(u.db, u.seq) /\ \A o \in Objects \ u.ran : u.wrote[o] = {}
  BY <1>1 DEF Valid, Sound, Owns
<1>5. \A o \in Objects : Opt(u, o) = Opt(v, o) /\ (FromDBIn(u, o) <=> FromDBIn(v, o))
  BY <1>1 DEF Opt, FromDBIn, IsSetUp
<1>6. ASSUME NEW o \in Objects, FromDBIn(u, o)
      PROVE  /\ Opt(u, o).state # None
             /\ \A f \in Fields \ lost'[o] : Opt(u, o).state.initial.val[f] = synced'[o][f]
  <2>1. Remembers(v, o, Opt(v, o).state)
    BY <1>5, <1>6 DEF Valid, Knows
  <2>2. \A f \in Fields \ lost'[o] :
            IF o \in v.ran THEN synced'[o][f] = v.obj[o].val[f]
            ELSE f \notin lost[o] /\ synced'[o][f] = synced[o][f]
    BY <1>5, <1>6
  <2> QED
    BY <1>5, <2>1, <2>2 DEF Remembers
<1>7. Valid(World)'
  <2>1. u = World'
    BY DEF u
  <2>2. Sound(World)'
    BY <1>3, <1>4, <2>1 DEF Sound
  <2>3. \A o \in Objects : Knows(World, o)'
    <3> SUFFICES ASSUME NEW o \in Objects, FromDBIn(World, o)'
                 PROVE  Remembers(World, o, Opt(World, o).state)'
      BY DEF Knows
    <3>1. FromDBIn(u, o) /\ Opt(u, o).state = Opt(World, o).state'
      BY <2>1 DEF FromDBIn, Opt, IsSetUp
    <3>2. o \notin World.ran'
      BY <1>1, <2>1
    <3> QED
      BY <1>6, <3>1, <3>2 DEF Remembers
  <2> QED
    BY <2>2, <2>3 DEF Valid
<1> QED
  BY <1>2, <1>7

\* Nothing that a rollback restores is known better.
LEMMA OuterStays ==
  ASSUME OuterKnows, outer' = outer, synced' = synced
  PROVE  OuterKnows'
BY DEF OuterKnows, Given, Outers, Dbs

\* A Save begins with the state of the program.
LEMMA SaveBegins ==
  ASSUME TypeOK, Valid(World), NEW o \in Objects, NEW config, HasRoom(Of(o)), IsSetUp(World, o)
  PROVE  LET w == Ready(World, o)
         IN  /\ Saving(w, Of(o), Listed(config)) /\ IsSetUp(w, o) /\ Opt(w, o).defs
             /\ w.ran = {}
<1>1. World.obj = obj /\ World.db = db /\ World.seq = seq /\ World.ran = {}
  BY DEF World
<1>2. Of(o) \in SUBSET Objects
  BY ModelsAssumption DEF Of
<1>3. Room(World, Of(o))
  BY <1>1 DEF HasRoom, Room
<1>4. Blamed(World, Of(o), Listed(config))
  BY <1>1 DEF Blamed
<1>5. \A p \in Objects : FromDB(p) => FromDBIn(World, p)
  BY DEF FromDB, FromDBIn
<1>6. \A t \in Tables : seq[t] <= seq[t]
  BY DEF TypeOK
<1>7. Saving(World, Of(o), Listed(config))
  BY <1>1, <1>3, <1>4, <1>5, <1>6 DEF Saving
<1> QED
  BY <1>1, <1>2, <1>7, ReadySaves

\* A whole Save, kept or rolled back, and its history.
LEMMA SaveKeepsInv ==
  ASSUME ModelsInv, NEW o \in Objects, NEW config \in Configs, NEW fault, Save(o, config, fault)
  PROVE  ModelsInv'
<1> DEFINE r == SaveObject(Ready(World, o), o, config, fault)
           v == r.w
           kept == r.ok \/ outer # None
<1>1. /\ IsSetUp(World, o) /\ HasRoom(Of(o))
      /\ obj' = v.obj /\ opt' = v.opt /\ options' = v.options
      /\ db' = IF kept THEN v.db ELSE db
      /\ seq' = IF kept THEN v.seq ELSE seq
      /\ Record(r, kept)
      /\ outer' = IF outer = None THEN None
                  ELSE [outer EXCEPT !.wrote = [p \in Objects |->
                          @[p] \cup (v.wrote[p] \cap Due(p)) \cup (lost'[p] \ lost[p])]]
      /\ last' \in {o, None}
  BY DEF Save, Of
<1>2. TypeOK /\ Valid(World) /\ OuterKnows /\ config \in Config
  BY ModelsAssumption DEF ModelsInv
<1>3. Given(db, seq)
  BY <1>2 DEF Valid, Sound, World
<1>4. Saving(v, Of(o), Listed(config))
  <2>1. LET w == Ready(World, o)
        IN  /\ Saving(w, Of(o), Listed(config)) /\ IsSetUp(w, o) /\ Opt(w, o).defs /\ w.ran = {}
    BY <1>1, <1>2, SaveBegins
  <2> QED
    BY <1>2, <1>3, <2>1, ObjectSaves
<1> HIDE DEF r
<1>5. Valid(v) /\ \A p \in Objects : v.obj[p].val = obj[p].val
  BY <1>4 DEF Saving
<1>6. /\ v \in Worlds /\ Given(v.db, v.seq) /\ \A p \in Objects \ v.ran : v.wrote[p] = {}
  BY <1>5 DEF Valid, Sound
<1>7. /\ synced' = [p \in Objects |-> [f \in Fields |->
                     IF kept /\ f \in v.wrote[p] THEN obj[p].val[f] ELSE synced[p][f]]]
      /\ lost' = [p \in Objects |->
                    IF p \notin v.ran THEN lost[p]
                    ELSE IF kept THEN (lost[p] \cup Due(p)) \ v.wrote[p]
                    ELSE lost[p] \cup Due(p)]
  BY <1>1 DEF Record
<1>8. v.db \in Dbs /\ v.seq \in [Tables -> 0..MaxKey] /\ v.wrote \in [Objects -> SUBSET Fields]
  BY <1>6 DEF Worlds
<1> HIDE DEF v, kept
<1>9. db' \in Dbs /\ seq' \in [Tables -> 0..MaxKey] /\ Given(db', seq')
  <2>1. db \in Dbs /\ seq \in [Tables -> 0..MaxKey]
    BY <1>2 DEF TypeOK, Dbs
  <2>2. (db' = v.db /\ seq' = v.seq) \/ (db' = db /\ seq' = seq)
    BY <1>1
  <2> QED
    BY <1>3, <1>6, <1>8, <2>1, <2>2
<1>10. \A p \in Objects : \A f \in Fields \ lost'[p] :
          IF p \in v.ran THEN synced'[p][f] = v.obj[p].val[f]
          ELSE f \notin lost[p] /\ synced'[p][f] = synced[p][f]
  <2> SUFFICES ASSUME NEW p \in Objects, NEW f \in Fields \ lost'[p]
               PROVE  IF p \in v.ran THEN synced'[p][f] = v.obj[p].val[f]
                      ELSE f \notin lost[p] /\ synced'[p][f] = synced[p][f]
    OBVIOUS
  <2>1. synced'[p][f] = IF kept /\ f \in v.wrote[p] THEN obj[p].val[f] ELSE synced[p][f]
    BY <1>7
  <2>2. f \notin Due(p) => obj[p].val[f] = synced[p][f]
    BY DEF Due
  <2>3. lost'[p] = IF p \notin v.ran THEN lost[p]
                   ELSE IF kept THEN (lost[p] \cup Due(p)) \ v.wrote[p]
                   ELSE lost[p] \cup Due(p)
    BY <1>7
  <2>4. p \notin v.ran => v.wrote[p] = {}
    BY <1>6
  <2>5. v.obj[p].val = obj[p].val
    BY <1>5
  <2> QED
    BY <2>1, <2>2, <2>3, <2>4, <2>5
<1>11. /\ Valid(World)'
       /\ obj' \in [Objects -> Struct] /\ opt' \in [Objects -> Objects \cup {None}]
       /\ options' \in [Objects -> Options]
  BY <1>1, <1>5, <1>9, <1>10, NextValid
<1>12. /\ synced' \in [Objects -> [Fields -> Values \cup {None}]]
       /\ lost' \in [Objects -> SUBSET Fields]
  <2>1. \A p \in Objects, f \in Fields : obj[p].val[f] \in Values /\ synced[p][f] \in Values \cup {None}
    BY <1>2 DEF TypeOK, Struct
  <2>2. \A p \in Objects : lost[p] \subseteq Fields /\ Due(p) \subseteq Fields
    BY <1>2 DEF TypeOK, Due
  <2> QED
    BY <1>7, <2>1, <2>2
<1>13. OuterKnows'
  <2>1. CASE outer = None
    BY <1>1, <2>1 DEF OuterKnows
  <2>2. CASE outer # None
    <3> DEFINE more == [p \in Objects |->
                          outer.wrote[p] \cup (v.wrote[p] \cap Due(p)) \cup (lost'[p] \ lost[p])]
    <3>1. outer \in Outers /\ Given(outer.db, outer.seq)
      BY <1>2, <2>2 DEF OuterKnows
    <3>2. outer' = [outer EXCEPT !.wrote = more]
      BY <1>1, <2>2
    <3>3. more \in [Objects -> SUBSET Fields]
      BY <1>8, <1>12, <3>1 DEF Outers
    <3> HIDE DEF more
    <3>4. /\ outer' \in Outers /\ outer'.db = outer.db /\ outer'.seq = outer.seq
          /\ outer'.synced = outer.synced /\ outer'.wrote = more
      BY <3>1, <3>2, <3>3 DEF Outers
    <3>5. \A p \in Objects : \A f \in Fields \ more[p] : synced'[p][f] = outer.synced[p][f]
      <4> SUFFICES ASSUME NEW p \in Objects, NEW f \in Fields \ more[p]
                   PROVE  synced'[p][f] = outer.synced[p][f]
        OBVIOUS
      <4>1. f \notin outer.wrote[p] /\ ~(f \in v.wrote[p] /\ f \in Due(p))
        BY DEF more
      <4>2. synced[p][f] = outer.synced[p][f]
        BY <1>2, <2>2, <4>1 DEF OuterKnows
      <4>3. synced'[p][f] = IF kept /\ f \in v.wrote[p] THEN obj[p].val[f] ELSE synced[p][f]
        BY <1>7
      <4>4. f \notin Due(p) => obj[p].val[f] = synced[p][f]
        BY DEF Due
      <4> QED
        BY <4>1, <4>2, <4>3, <4>4
    <3> QED
      BY <3>1, <3>4, <3>5 DEF OuterKnows, Given, Outers, Dbs
  <2> QED
    BY <2>1, <2>2
<1>14. TypeOK'
  <2>1. outer' # None => outer' \in Outers
    BY <1>13 DEF OuterKnows, Outers, Dbs
  <2> QED
    BY <1>1, <1>9, <1>11, <1>12, <2>1 DEF TypeOK, Dbs, Outers
<1> QED
  BY <1>11, <1>13, <1>14 DEF ModelsInv

\* The record that a call begins with.
LEMMA WorldIs ==
  /\ World.obj = obj /\ World.opt = opt /\ World.options = options /\ World.db = db
  /\ World.seq = seq /\ World.ran = {} /\ World.wrote = [o \in Objects |-> {}]
BY DEF World

\* A step in the memory of the program, and one in the database.
LEMMA MemoryStep ==
  ASSUME ModelsInv, NEW v, Valid(v), v.ran = {}, obj' = v.obj, opt' = v.opt, options' = v.options,
         last' = None, UNCHANGED <<db, seq, outer, synced, lost>>
  PROVE  ModelsInv'
<1>1. TypeOK /\ Given(db, seq) /\ OuterKnows
  BY WorldIs DEF ModelsInv, Valid, Sound
<1>2. db' \in Dbs /\ seq' \in [Tables -> 0..MaxKey] /\ Given(db', seq')
  BY <1>1 DEF TypeOK, Dbs
<1>3. /\ Valid(World)'
      /\ obj' \in [Objects -> Struct] /\ opt' \in [Objects -> Objects \cup {None}]
      /\ options' \in [Objects -> Options]
  BY <1>2, NextValid
<1>4. OuterKnows'
  BY <1>1, OuterStays
<1>5. TypeOK'
  BY <1>1, <1>3 DEF TypeOK
<1> QED
  BY <1>3, <1>4, <1>5 DEF ModelsInv

\* A call that changes nothing.
LEMMA StillKeeps ==
  ASSUME ModelsInv, last' = None, UNCHANGED <<obj, opt, options, db, seq, outer, synced, lost>>
  PROVE  ModelsInv'
BY MemoryStep, WorldIs DEF ModelsInv

\* A step that changes rows and no struct.
LEMMA RowsStep ==
  ASSUME ModelsInv, UNCHANGED <<obj, opt, options>>, last' = None,
         db' \in Dbs, seq' \in [Tables -> 0..MaxKey], Given(db', seq'), OuterKnows',
         synced' \in [Objects -> [Fields -> Values \cup {None}]], lost' \in [Objects -> SUBSET Fields],
         \A o \in Objects : \A f \in Fields \ lost'[o] :
            f \notin lost[o] /\ synced'[o][f] = synced[o][f]
  PROVE  ModelsInv'
<1>1. Valid(World)
  BY DEF ModelsInv
<1>2. Valid(World)'
  BY <1>1, WorldIs, NextValid
<1>3. TypeOK'
  BY DEF ModelsInv, TypeOK, OuterKnows, Outers, Dbs
<1> QED
  BY <1>2, <1>3 DEF ModelsInv

\* The value of a field is nobody's business before a Save.
LEMMA ValueKeeps ==
  ASSUME NEW w, Valid(w), w.ran = {}, NEW o \in Objects, NEW f \in Fields, NEW x \in Values
  PROVE  LET v == [w EXCEPT !.obj[o].val[f] = x]
         IN  /\ Valid(v) /\ v.ran = {}
             /\ v.obj = [w.obj EXCEPT ![o].val[f] = x]
             /\ v.opt = w.opt /\ v.options = w.options
<1> DEFINE v == [w EXCEPT !.obj[o].val[f] = x]
<1>1. w \in Worlds /\ Sound(w)
  BY DEF Valid, Sound
<1>2. w.obj \in [Objects -> Struct]
  BY <1>1 DEF Worlds
<1>3. [w.obj EXCEPT ![o].val[f] = x] \in [Objects -> Struct]
  BY <1>2 DEF Struct
<1>4. /\ v \in Worlds /\ v.obj = [w.obj EXCEPT ![o].val[f] = x] /\ v.opt = w.opt
      /\ v.options = w.options /\ v.db = w.db /\ v.seq = w.seq /\ v.wrote = w.wrote
      /\ v.ran = w.ran
  BY <1>1, <1>3 DEF Worlds
<1> HIDE DEF v
<1>5. Sound(v)
  BY <1>1, <1>4 DEF Sound, Owns
<1>6. \A p \in Objects : Knows(v, p)
  <2>1. \A p \in Objects : Knows(w, p) /\ (FromDBIn(v, p) <=> FromDBIn(w, p))
                          /\ Opt(v, p) = Opt(w, p)
    BY <1>4 DEF Valid, FromDBIn, IsSetUp, Opt
  <2> QED
    BY <1>4, <2>1 DEF Knows, Remembers
<1> QED
  BY <1>4, <1>5, <1>6 DEF Valid, v

\* An assignment.
LEMMA AssignKeeps ==
  ASSUME ModelsInv, NEW o \in Objects, NEW f \in Fields, NEW x \in Values, Assign(o, f, x)
  PROVE  ModelsInv'
<1> DEFINE v == [World EXCEPT !.obj[o].val[f] = x]
<1>1. Valid(World) /\ World.ran = {}
  BY WorldIs DEF ModelsInv
<1>2. /\ Valid(v) /\ v.ran = {} /\ v.obj = [World.obj EXCEPT ![o].val[f] = x]
      /\ v.opt = World.opt /\ v.options = World.options
  BY <1>1, ValueKeeps
<1> HIDE DEF v
<1>3. obj' = v.obj /\ opt' = v.opt /\ options' = v.options
  BY <1>2, WorldIs DEF Assign
<1>4. last' = None /\ UNCHANGED <<db, seq, outer, synced, lost>>
  BY DEF Assign
<1> QED
  BY <1>2, <1>3, <1>4, MemoryStep

\* FieldDefs.
LEMMA FieldDefsKeeps ==
  ASSUME ModelsInv, NEW o \in Objects, FieldDefs(o)
  PROVE  ModelsInv'
<1> DEFINE v == Define(World, o)
<1>1. Valid(v) /\ v.ran = {}
  BY WorldIs, DefineKeeps DEF ModelsInv
<1> HIDE DEF v
<1>2. obj' = v.obj /\ opt' = v.opt /\ options' = v.options
  BY DEF FieldDefs, Becomes, v
<1>3. last' = None /\ UNCHANGED <<db, seq, outer, synced, lost>>
  BY DEF FieldDefs
<1> QED
  BY <1>1, <1>2, <1>3, MemoryStep

\* A field set by its definition, with the signal to the owners of a proxy.
LEMMA SetKeeps ==
  ASSUME ModelsInv, NEW o \in Objects, NEW f \in Fields, NEW x \in Values, Set(o, f, x)
  PROVE  ModelsInv'
<1> DEFINE d == Define(World, o)
           w == OnChange(d, o, f)
           s == IF OwnersOf(o) = {} THEN w
                ELSE OnChange(w, CHOOSE p \in OwnersOf(o) : TRUE, "proxy")
           v == [s EXCEPT !.obj[o].val[f] = x]
<1>1. /\ obj' = v.obj /\ opt' = v.opt /\ options' = v.options
      /\ last' = None /\ UNCHANGED <<db, seq, outer, synced, lost>>
  BY DEF Set, Becomes
<1>2. /\ Valid(World) /\ Valid(d) /\ d.ran = {} /\ IsSetUp(d, o) /\ Alone(World, d, o)
  BY WorldIs, DefineKeeps DEF ModelsInv
<1> HIDE DEF d
<1>3. Valid(w) /\ w.ran = {} /\ Alone(d, w, o)
  <2>1. f \in Names
    BY DEF Names
  <2>2. Valid(w) /\ Alone(d, w, o) /\ Inner(d, w)
    BY <1>2, <2>1, OnChangeKeeps
  <2> QED
    BY <1>2, <2>2 DEF Inner
<1> HIDE DEF w
<1>4. Valid(s) /\ s.ran = {}
  <2>1. CASE OwnersOf(o) = {}
    BY <1>3, <2>1
  <2>2. CASE OwnersOf(o) # {}
    <3> DEFINE p == CHOOSE p \in OwnersOf(o) : TRUE
    <3>1. p \in OwnersOf(o)
      BY <2>2
    <3> HIDE DEF p
    <3>2. p \in Objects /\ ProxyOf[p] = o /\ IsSetUp(World, p)
      BY <3>1 DEF OwnersOf
    <3>3. p # o
      BY <3>2, ModelsAssumption
    <3>4. IsSetUp(d, p)
      BY <1>2, <3>2, <3>3, Untouched
    <3>5. IsSetUp(w, p)
      BY <1>3, <3>2, <3>3, <3>4, Untouched
    <3>6. "proxy" \in Names
      BY DEF Names
    <3>7. Valid(OnChange(w, p, "proxy")) /\ Inner(w, OnChange(w, p, "proxy"))
      BY <1>3, <3>2, <3>5, <3>6, OnChangeKeeps
    <3> QED
      BY <1>3, <2>2, <3>7 DEF Inner, p
  <2> QED
    BY <2>1, <2>2
<1> HIDE DEF s
<1>5. Valid(v) /\ v.ran = {}
  BY <1>4, ValueKeeps
<1> QED
  BY <1>1, <1>5, MemoryStep

\* A struct that a query makes knows the row it was made from.
LEMMA LoadKeeps ==
  ASSUME ModelsInv, NEW o \in Objects, NEW k \in Keys, Load(o, k)
  PROVE  ModelsInv'
<1> DEFINE row == db[TableOf[o]][k]
           struct == [val |-> row.val, pk |-> k, owner |-> row.owner]
           i == Unused(World, o)
           new == [NewOptions(o) EXCEPT !.defs = TRUE]
           w == [World EXCEPT !.obj[o] = struct, !.opt[o] = i, !.options[i] = new]
           u == [w EXCEPT !.ran = {o}]
           v == AfterSave(u, o)
<1>1. /\ row # None /\ outer = None /\ outer' = None /\ last' = None
      /\ LET q == AfterQuery(w, o) IN obj' = q.obj /\ opt' = q.opt /\ options' = q.options
      /\ synced' = [synced EXCEPT ![o] = row.val] /\ lost' = [lost EXCEPT ![o] = {}]
      /\ UNCHANGED <<db, seq>>
  BY DEF Load, Becomes
<1>2. /\ TypeOK /\ Valid(World) /\ Sound(World) /\ World \in Worlds /\ Given(db, seq)
  BY WorldIs DEF ModelsInv, Valid, Sound
<1>3. struct \in Struct /\ row.val \in [Fields -> Values]
  <2>1. row \in Row
    BY <1>1, <1>2, ModelsAssumption DEF TypeOK
  <2>2. k \in 0..MaxKey
    BY ModelsAssumption DEF Keys
  <2> QED
    BY <2>1, <2>2 DEF Row, Struct
<1> HIDE DEF struct, row
<1>4. i \in Objects /\ \A p \in Objects \ {o} : opt[p] # i
  BY <1>2, WorldIs, UnusedIs DEF TypeOK
<1>5. /\ new \in Options /\ new.object = o /\ new.defs /\ ~new.fromDB
  BY DEF NewOptions, Options
<1> HIDE DEF i, new
<1>6. /\ [obj EXCEPT ![o] = struct] \in [Objects -> Struct]
      /\ [opt EXCEPT ![o] = i] \in [Objects -> Objects \cup {None}]
      /\ [options EXCEPT ![i] = new] \in [Objects -> Options]
  BY <1>2, <1>3, <1>4, <1>5 DEF TypeOK
<1>7. /\ w \in Worlds /\ w.obj = [obj EXCEPT ![o] = struct] /\ w.opt = [opt EXCEPT ![o] = i]
      /\ w.options = [options EXCEPT ![i] = new] /\ w.db = db /\ w.seq = seq
      /\ w.wrote = World.wrote /\ w.ran = {}
  BY <1>2, <1>6, WorldIs DEF Worlds
<1> HIDE DEF w
<1>8. /\ u \in Worlds /\ u.obj = w.obj /\ u.opt = w.opt /\ u.options = w.options
      /\ u.db = w.db /\ u.seq = w.seq /\ u.wrote = w.wrote /\ u.ran = {o}
  BY <1>7 DEF Worlds
<1> HIDE DEF u
<1>9. obj \in [Objects -> Struct] /\ opt \in [Objects -> Objects \cup {None}]
      /\ options \in [Objects -> Options]
  BY <1>2 DEF TypeOK
<1>10. /\ u.opt[o] = i /\ u.options[i] = new /\ u.obj[o] = struct
       /\ \A p \in Objects \ {o} : /\ u.opt[p] = opt[p] /\ u.obj[p] = obj[p]
                                   /\ opt[p] # None => u.options[opt[p]] = options[opt[p]]
  BY <1>4, <1>7, <1>8, <1>9
<1>11. Owns(u)
  <2>1. \A p \in Objects : u.opt[p] # None => u.options[u.opt[p]].object \in {None, p}
    BY <1>2, <1>5, <1>10, WorldIs DEF Sound, Owns
  <2>2. \A p \in Objects : u.opt[p] # None => \A q \in Objects \ {p} : u.opt[q] # u.opt[p]
    BY <1>2, <1>4, <1>10, WorldIs DEF Sound, Owns
  <2> QED
    BY <2>1, <2>2 DEF Owns
<1>12. Sound(u)
  BY <1>2, <1>7, <1>8, <1>11, WorldIs DEF Sound
<1>13. /\ IsSetUp(u, o) /\ Opt(u, o) = new /\ o \in u.ran
  BY <1>4, <1>5, <1>8, <1>10, ModelsAssumption DEF IsSetUp, Opt
<1>14. \A p \in Objects \ {o} : Knows(u, p)
  <2> SUFFICES ASSUME NEW p \in Objects \ {o}, FromDBIn(u, p)
               PROVE  Remembers(u, p, Opt(u, p).state)
    BY DEF Knows
  <2>1. IsSetUp(World, p) /\ Opt(u, p) = Opt(World, p) /\ FromDBIn(World, p)
    BY <1>10, WorldIs DEF FromDBIn, IsSetUp, Opt
  <2>2. Remembers(World, p, Opt(World, p).state)
    BY <1>2, <2>1 DEF Valid, Knows
  <2> QED
    BY <1>8, <2>1, <2>2, WorldIs DEF Remembers
<1>15. Valid(v) /\ Inner(u, v)
  BY <1>5, <1>12, <1>13, <1>14, AfterSaveKeeps
<1>16. obj' = v.obj /\ opt' = v.opt /\ options' = v.options
  <2>1. Opt(w, o) = Opt(u, o) /\ Reset(w, o) = Reset(u, o)
    BY <1>8 DEF Opt, Reset
  <2>2. w.opt[o] = i /\ Opt(w, o).defs
    BY <1>5, <1>8, <1>10, <1>13, <2>1
  <2> DEFINE more == [w.options EXCEPT ![i].state = Reset(w, o)]
             s == [w EXCEPT !.options[i].state = Reset(w, o)]
  <2>8. SetupInitialState(w, o) = s
    BY <2>2 DEF SetupInitialState
  <2>9. Opt(w, o) = new /\ w.options[i] = new /\ w.options \in [Objects -> Options]
    BY <1>7, <1>8, <1>10, <2>1, <1>13 DEF Worlds
  <2>10. s = [w EXCEPT !.options = more] /\ s.options = more /\ s.opt = w.opt
    BY <1>7 DEF Worlds
  <2>11. more = [w.options EXCEPT ![i] = [w.options[i] EXCEPT !.state = Reset(w, o)]]
    OBVIOUS
  <2> HIDE DEF s
  <2>12. AfterQuery(w, o) = [s EXCEPT !.options[i].fromDB = TRUE]
    BY <2>2, <2>8, <2>10 DEF AfterQuery
  <2>13. AfterQuery(w, o) = [s EXCEPT !.options = [more EXCEPT ![i].fromDB = TRUE]]
    BY <2>10, <2>12
  <2>14. [more EXCEPT ![i].fromDB = TRUE] =
            [w.options EXCEPT ![i] = [w.options[i] EXCEPT !.state = Reset(w, o), !.fromDB = TRUE]]
    BY <1>4, <2>9, <2>11
  <2> HIDE DEF more
  <2>3. AfterQuery(w, o) = [w EXCEPT !.options = [w.options EXCEPT ![i] =
                              [w.options[i] EXCEPT !.state = Reset(w, o), !.fromDB = TRUE]]]
    BY <1>7, <2>10, <2>13, <2>14 DEF Worlds
  <2>4. v = [u EXCEPT !.options = [u.options EXCEPT ![i] =
                              [u.options[i] EXCEPT !.state = Reset(u, o), !.fromDB = TRUE]]]
    BY <1>4, <1>8, <1>10, <1>5, <1>13 DEF AfterSave, AfterQuery, SetupInitialState, Worlds
  <2>5. AfterQuery(w, o).obj = w.obj /\ AfterQuery(w, o).opt = w.opt
    BY <1>7, <2>3 DEF Worlds
  <2>6. v.obj = u.obj /\ v.opt = u.opt
    BY <1>15 DEF Inner
  <2>7. AfterQuery(w, o).options = v.options
    BY <1>7, <1>8, <2>1, <2>3, <2>4 DEF Worlds
  <2> QED
    BY <1>1, <1>8, <2>5, <2>6, <2>7
<1> HIDE DEF v
<1>17. \A p \in Objects : \A f \in Fields \ lost'[p] :
          IF p \in v.ran THEN synced'[p][f] = v.obj[p].val[f]
          ELSE f \notin lost[p] /\ synced'[p][f] = synced[p][f]
  <2>1. v.ran = {o} /\ v.obj[o] = struct
    BY <1>8, <1>10, <1>15 DEF Inner
  <2>2. struct.val = row.val
    BY DEF struct
  <2> QED
    BY <1>1, <1>2, <2>1, <2>2 DEF TypeOK
<1>18. db' \in Dbs /\ seq' \in [Tables -> 0..MaxKey] /\ Given(db', seq')
  BY <1>1, <1>2 DEF TypeOK, Dbs
<1>19. /\ Valid(World)'
       /\ obj' \in [Objects -> Struct] /\ opt' \in [Objects -> Objects \cup {None}]
       /\ options' \in [Objects -> Options]
  BY <1>15, <1>16, <1>17, <1>18, NextValid
<1>20. /\ synced' \in [Objects -> [Fields -> Values \cup {None}]]
       /\ lost' \in [Objects -> SUBSET Fields]
  BY <1>1, <1>2, <1>3 DEF TypeOK
<1>21. TypeOK' /\ OuterKnows'
  BY <1>1, <1>18, <1>19, <1>20 DEF TypeOK, OuterKnows, Dbs
<1> QED
  BY <1>19, <1>21 DEF ModelsInv

\* A struct that is copied takes the internals from the one it is a copy of.
LEMMA CopyKeeps ==
  ASSUME ModelsInv, NEW src \in Objects, NEW c \in Objects, Copy(src, c)
  PROVE  ModelsInv'
<1> DEFINE w == [World EXCEPT !.obj[c] = obj[src], !.opt[c] = opt[src]]
           i == opt[src]
           cleared == [options EXCEPT ![i].object = None, ![i].defs = FALSE]
           j == Unused(w, c)
           v == [World EXCEPT !.obj[c] = obj[src], !.opt[c] = j,
                              !.options = [cleared EXCEPT ![j] = NewOptions(c)]]
           q == Setup(w, c)
<1>1. /\ c # src /\ IsSetUp(World, src) /\ Opt(World, src).defs
      /\ outer = None /\ outer' = None /\ last' = None
      /\ obj' = q.obj /\ opt' = q.opt /\ options' = q.options
      /\ synced' = [synced EXCEPT ![c] = synced[src]] /\ lost' = [lost EXCEPT ![c] = lost[src]]
      /\ UNCHANGED <<db, seq>>
  BY DEF Copy, Becomes
<1>2. /\ TypeOK /\ Valid(World) /\ Sound(World) /\ World \in Worlds /\ Given(db, seq)
  BY WorldIs DEF ModelsInv, Valid, Sound
<1>3. /\ obj \in [Objects -> Struct] /\ opt \in [Objects -> Objects \cup {None}]
      /\ options \in [Objects -> Options] /\ None \notin Objects
  BY <1>2, ModelsAssumption DEF TypeOK
<1>4. i \in Objects /\ options[i].object = src /\ options[i].defs
  BY ZenonT(60), <1>1, <1>2, OwnOptions, WorldIs DEF Opt
<1>5. \A p \in Objects \ {src} : opt[p] # i
  BY <1>2, <1>3, <1>4, WorldIs DEF Sound, Owns
<1>6. /\ w.obj = [obj EXCEPT ![c] = obj[src]] /\ w.opt = [opt EXCEPT ![c] = i]
      /\ w.options = options /\ w \in Worlds
  <2>1. /\ [obj EXCEPT ![c] = obj[src]] \in [Objects -> Struct]
        /\ [opt EXCEPT ![c] = i] \in [Objects -> Objects \cup {None}]
    BY <1>3, <1>4
  <2> QED
    BY <1>2, <2>1, WorldIs DEF Worlds
<1>7. w.opt[c] = i /\ \A p \in Objects \ {c} : w.opt[p] = opt[p]
  BY <1>3, <1>6
<1>8. j \in Objects /\ \A p \in Objects \ {c} : opt[p] # j
  <2>1. w.opt \in [Objects -> Objects \cup {None}]
    BY ZenonT(60), <1>3, <1>4, <1>6
  <2> HIDE DEF w
  <2> QED
    BY <1>7, <2>1, UnusedIs
<1>9. i # j
  BY <1>1, <1>8
<1>10. cleared[i].object = None /\ ~cleared[i].defs /\ cleared \in [Objects -> Options]
       /\ \A l \in Objects \ {i} : cleared[l] = options[l]
  BY ZenonT(60), <1>3, <1>4 DEF Options
<1>11. q = [w EXCEPT !.opt[c] = j, !.options = [cleared EXCEPT ![j] = NewOptions(c)]]
  <2> HIDE DEF w
  <2>1. w.opt[c] # None /\ w.options[w.opt[c]].defs /\ w.options[w.opt[c]].object \notin {None, c}
    BY <1>1, <1>3, <1>4, <1>6, <1>7
  <2>2. [w.options EXCEPT ![w.opt[c]].object = None, ![w.opt[c]].defs = FALSE] = cleared
    BY <1>6, <1>7
  <2> HIDE DEF cleared
  <2> QED
    BY <1>7, <1>10, <2>1, <2>2 DEF Setup
<1>12. NewOptions(c) \in Options /\ NewOptions(c).object = c /\ ~NewOptions(c).fromDB
  BY DEF NewOptions, Options
<1> HIDE DEF cleared, i, j, q, w
<1>13. /\ q.obj = [obj EXCEPT ![c] = obj[src]] /\ q.opt = [opt EXCEPT ![c] = j]
       /\ q.options = [cleared EXCEPT ![j] = NewOptions(c)]
  <2>1. [w.opt EXCEPT ![c] = j] = [opt EXCEPT ![c] = j]
    BY <1>3, <1>6
  <2>2. q = [w EXCEPT !.opt = [w.opt EXCEPT ![c] = j],
                      !.options = [cleared EXCEPT ![j] = NewOptions(c)]]
    BY <1>6, <1>11 DEF Worlds
  <2> QED
    BY <1>6, <2>1, <2>2 DEF Worlds
<1>14. /\ [obj EXCEPT ![c] = obj[src]] \in [Objects -> Struct]
       /\ [opt EXCEPT ![c] = j] \in [Objects -> Objects \cup {None}]
       /\ [cleared EXCEPT ![j] = NewOptions(c)] \in [Objects -> Options]
  BY <1>3, <1>8, <1>10, <1>12
<1>15. /\ v \in Worlds /\ v.obj = [obj EXCEPT ![c] = obj[src]] /\ v.opt = [opt EXCEPT ![c] = j]
       /\ v.options = [cleared EXCEPT ![j] = NewOptions(c)] /\ v.db = db /\ v.seq = seq
       /\ v.wrote = World.wrote /\ v.ran = {}
  BY <1>2, <1>14, WorldIs DEF Worlds
<1> HIDE DEF v
<1>16. /\ v.opt[c] = j /\ v.options[j] = NewOptions(c)
       /\ v.options[i].object = None
       /\ \A p \in Objects \ {c} : v.opt[p] = opt[p] /\ v.obj[p] = obj[p]
       /\ \A p \in Objects \ {c, src} : opt[p] # None => v.options[opt[p]] = options[opt[p]]
  BY <1>3, <1>4, <1>5, <1>8, <1>9, <1>10, <1>14, <1>15
<1>17. Owns(v)
  <2>1. \A p \in Objects : v.opt[p] # None => v.options[v.opt[p]].object \in {None, p}
    BY <1>1, <1>2, <1>12, <1>16, WorldIs DEF Sound, Owns, i
  <2>2. \A p \in Objects : v.opt[p] # None => \A r \in Objects \ {p} : v.opt[r] # v.opt[p]
    BY <1>2, <1>8, <1>16, WorldIs DEF Sound, Owns
  <2> QED
    BY <2>1, <2>2 DEF Owns
<1>18. Sound(v)
  BY <1>2, <1>15, <1>17, WorldIs DEF Sound
<1>19. \A p \in Objects \ {c, src} : Knows(v, p)
  <2> SUFFICES ASSUME NEW p \in Objects \ {c, src}, FromDBIn(v, p)
               PROVE  Remembers(v, p, Opt(v, p).state)
    BY DEF Knows
  <2>1. IsSetUp(World, p) /\ Opt(v, p) = Opt(World, p) /\ FromDBIn(World, p)
    BY <1>16, WorldIs DEF FromDBIn, IsSetUp, Opt
  <2>2. Remembers(World, p, Opt(World, p).state)
    BY <1>2, <2>1 DEF Valid, Knows
  <2> QED
    BY <1>15, <2>1, <2>2, WorldIs DEF Remembers
<1>20. ~FromDBIn(v, c) /\ ~FromDBIn(v, src)
  BY <1>1, <1>12, <1>16 DEF FromDBIn, IsSetUp, Opt, i
<1>21. Valid(v)
  BY <1>18, <1>19, <1>20 DEF Valid, Knows
<1>22. db' \in Dbs /\ seq' \in [Tables -> 0..MaxKey] /\ Given(db', seq')
  BY <1>1, <1>2 DEF TypeOK, Dbs
\* The copy is given another history, which is no matter: it has no state.
<1>23. \A p \in Objects : FromDBIn(v, p) => \A f \in Fields \ lost'[p] :
          IF p \in v.ran THEN synced'[p][f] = v.obj[p].val[f]
          ELSE f \notin lost[p] /\ synced'[p][f] = synced[p][f]
  BY <1>1, <1>2, <1>15, <1>20 DEF TypeOK
<1>24. obj' = v.obj /\ opt' = v.opt /\ options' = v.options
  BY <1>1, <1>13, <1>15
<1>25. /\ Valid(World)'
       /\ obj' \in [Objects -> Struct] /\ opt' \in [Objects -> Objects \cup {None}]
       /\ options' \in [Objects -> Options]
  BY <1>21, <1>22, <1>23, <1>24, NextValid
<1>26. /\ synced' \in [Objects -> [Fields -> Values \cup {None}]]
       /\ lost' \in [Objects -> SUBSET Fields]
  BY <1>1, <1>2 DEF TypeOK
<1>27. TypeOK' /\ OuterKnows'
  BY <1>1, <1>22, <1>25, <1>26 DEF TypeOK, OuterKnows, Dbs
<1> QED
  BY <1>25, <1>27 DEF ModelsInv

\* An object whose internals are lost only reports it.
LEMMA UninitializedKeeps ==
  ASSUME ModelsInv, NEW o \in Objects, NEW config, SaveUninitialized(o, config)
  PROVE  ModelsInv'
<1>1. UNCHANGED <<obj, opt, options, db, seq, outer, synced, lost>> /\ last' = None
  BY DEF SaveUninitialized
<1> QED
  BY <1>1, StillKeeps

\* A row that another actor deletes.
LEMMA DeleteKeeps ==
  ASSUME ModelsInv, NEW t \in Tables, NEW k \in Keys, Delete(t, k)
  PROVE  ModelsInv'
<1>1. /\ outer' = None /\ db' = [db EXCEPT ![t][k] = None]
      /\ UNCHANGED <<obj, opt, options>> /\ last' = None
      /\ UNCHANGED <<seq, synced, lost>>
  BY DEF Delete
<1>2. TypeOK /\ Given(db, seq)
  BY WorldIs DEF ModelsInv, Valid, Sound
<1>3. db' \in Dbs /\ seq' \in [Tables -> 0..MaxKey]
  BY <1>1, <1>2 DEF TypeOK, Dbs
<1>4. \A s \in Tables, l \in Keys : db'[s][l] # None => db[s][l] # None
  BY <1>1, <1>2 DEF TypeOK
<1>5. Given(db', seq')
  BY <1>1, <1>2, <1>4 DEF Given
<1>6. OuterKnows'
  BY <1>1 DEF OuterKnows
<1>7. /\ synced' \in [Objects -> [Fields -> Values \cup {None}]]
      /\ lost' \in [Objects -> SUBSET Fields]
  BY <1>1, <1>2 DEF TypeOK
<1> QED
  BY <1>1, <1>3, <1>5, <1>6, <1>7, RowsStep

\* A transaction keeps what a rollback of it restores.
LEMMA BeginKeeps ==
  ASSUME ModelsInv, Begin
  PROVE  ModelsInv'
<1> DEFINE none == [o \in Objects |-> {}]
<1>1. /\ outer' = [db |-> db, seq |-> seq, synced |-> synced, wrote |-> none]
      /\ UNCHANGED <<obj, opt, options>> /\ last' = None
      /\ UNCHANGED <<db, seq, synced, lost>>
  BY DEF Begin
<1>2. TypeOK /\ Given(db, seq)
  BY WorldIs DEF ModelsInv, Valid, Sound
<1>3. /\ db \in Dbs /\ seq \in [Tables -> 0..MaxKey]
      /\ synced \in [Objects -> [Fields -> Values \cup {None}]]
      /\ lost \in [Objects -> SUBSET Fields]
  BY <1>2 DEF TypeOK, Dbs
<1>4. none \in [Objects -> SUBSET Fields]
  OBVIOUS
<1> HIDE DEF none
<1>5. outer' \in Outers
  BY <1>1, <1>3, <1>4 DEF Outers
<1>6. OuterKnows'
  <2>1. Given(outer'.db, outer'.seq) /\ outer'.synced = synced
    BY <1>1, <1>2
  <2> QED
    BY <1>1, <1>5, <2>1 DEF OuterKnows, Given, Outers, Dbs
<1> QED
  BY <1>1, <1>2, <1>3, <1>6, RowsStep

\* A commit of the caller.
LEMMA CommitKeeps ==
  ASSUME ModelsInv, Commit
  PROVE  ModelsInv'
<1>1. /\ outer' = None /\ UNCHANGED <<obj, opt, options>> /\ last' = None
      /\ UNCHANGED <<db, seq, synced, lost>>
  BY DEF Commit
<1>2. TypeOK /\ Given(db, seq)
  BY WorldIs DEF ModelsInv, Valid, Sound
<1>3. OuterKnows'
  BY <1>1 DEF OuterKnows
<1> QED
  BY <1>1, <1>2, <1>3, RowsStep DEF TypeOK, Dbs

\* The rows and what is known of them go back together, but for what the
\* objects wrote: that is lost.
LEMMA RollbackKeeps ==
  ASSUME ModelsInv, Rollback
  PROVE  ModelsInv'
<1>1. /\ outer # None /\ outer' = None /\ db' = outer.db /\ seq' = outer.seq
      /\ synced' = outer.synced
      /\ lost' = [o \in Objects |-> lost[o] \cup outer.wrote[o]]
      /\ UNCHANGED <<obj, opt, options>> /\ last' = None
  BY DEF Rollback
<1>2. TypeOK /\ OuterKnows
  BY DEF ModelsInv
<1>3. /\ outer \in Outers /\ Given(outer.db, outer.seq)
      /\ \A o \in Objects : \A f \in Fields \ outer.wrote[o] :
            synced[o][f] = outer.synced[o][f]
  BY <1>1, <1>2 DEF OuterKnows
<1>4. /\ outer.db \in Dbs /\ outer.seq \in [Tables -> 0..MaxKey]
      /\ outer.synced \in [Objects -> [Fields -> Values \cup {None}]]
      /\ outer.wrote \in [Objects -> SUBSET Fields]
  BY <1>3 DEF Outers
<1>5. lost' \in [Objects -> SUBSET Fields]
  BY <1>1, <1>2, <1>4 DEF TypeOK
<1>6. OuterKnows'
  BY <1>1 DEF OuterKnows
<1>7. \A o \in Objects : \A f \in Fields \ lost'[o] :
         f \notin lost[o] /\ synced'[o][f] = synced[o][f]
  BY <1>1, <1>3
<1> QED
  BY <1>1, <1>3, <1>4, <1>5, <1>6, <1>7, RowsStep

\* The invariant holds initially.
LEMMA InitKnows ==
  ASSUME Init
  PROVE  ModelsInv
<1>1. World.obj = obj /\ World.opt = opt /\ World.options = options /\ World.db = db
      /\ World.seq = seq /\ World.ran = {} /\ World.wrote = [o \in Objects |-> {}]
  BY WorldIs
<1>2. MaxKey \in Nat /\ Default \in Values /\ None \notin Objects
  BY ModelsAssumption
<1>3. ASSUME NEW o \in Objects
      PROVE  /\ [NewOptions(o) EXCEPT !.defs = TRUE] \in Options
             /\ [NewOptions(o) EXCEPT !.defs = TRUE].object = o
             /\ [NewOptions(o) EXCEPT !.defs = TRUE].fromDB = FALSE
  BY DEF NewOptions, Options
<1>4. obj \in [Objects -> Struct]
  BY <1>2 DEF Init, Struct
<1>5. opt \in [Objects -> Objects \cup {None}] /\ options \in [Objects -> Options]
  BY <1>3 DEF Init
<1>6. /\ db \in [Tables -> [Keys -> Row \cup {None}]] /\ seq \in [Tables -> 0..MaxKey]
      /\ synced \in [Objects -> [Fields -> Values \cup {None}]]
      /\ lost \in [Objects -> SUBSET Fields]
  BY <1>2 DEF Init
<1>7. TypeOK
  BY <1>4, <1>5, <1>6 DEF TypeOK, Init
<1>8. World \in Worlds
  BY <1>4, <1>5, <1>6 DEF World, Worlds, Dbs
<1>9. Owns(World)
  <2>1. \A o \in Objects : opt[o] # None => opt[o] = o
    BY DEF Init
  <2>2. \A o \in Objects : options[o].object = o
    BY <1>3 DEF Init
  <2> QED
    BY <1>1, <2>1, <2>2 DEF Owns
<1>10. Given(World.db, World.seq)
  BY <1>1 DEF Given, Init
<1>11. Sound(World)
  BY <1>1, <1>8, <1>9, <1>10 DEF Sound
<1>12. \A o \in Objects : Knows(World, o)
  <2>1. \A o \in Objects : opt[o] # None => opt[o] = o
    BY DEF Init
  <2>2. \A o \in Objects : ~options[o].fromDB
    BY <1>3 DEF Init
  <2> QED
    BY <1>1, <2>1, <2>2 DEF Knows, FromDBIn, IsSetUp, Opt
<1>13. OuterKnows
  BY DEF OuterKnows, Init
<1> QED
  BY <1>7, <1>11, <1>12, <1>13 DEF ModelsInv, Valid

\* Every step keeps it.
LEMMA StepKnows ==
  ASSUME ModelsInv, [Next]_vars
  PROVE  ModelsInv'
<1>1. CASE UNCHANGED vars
  <2>1. World' = World
    BY <1>1 DEF vars, World
  <2>2. Valid(World)'
    <3>1. lost' = lost /\ synced' = synced
      BY <1>1 DEF vars
    <3> QED
      BY <2>1, <3>1 DEF ModelsInv, Valid, Knows, Remembers
  <2>3. TypeOK' /\ OuterKnows'
    BY <1>1, OuterStays DEF ModelsInv, vars, TypeOK
  <2> QED
    BY <2>2, <2>3 DEF ModelsInv
<1>2. CASE \E o \in Objects, c \in Configs, fault \in Faults : Save(o, c, fault)
  BY <1>2, SaveKeepsInv
<1>3. CASE \E o \in Objects, c \in Configs : SaveUninitialized(o, c)
  BY <1>3, UninitializedKeeps
<1>4. CASE \E o \in Objects, f \in Fields, v \in Values : Assign(o, f, v)
  BY <1>4, AssignKeeps
<1>5. CASE \E o \in Objects, f \in Fields, v \in Values : Set(o, f, v)
  BY <1>5, SetKeeps
<1>6. CASE \E o \in Objects : FieldDefs(o)
  BY <1>6, FieldDefsKeeps
<1>7. CASE \E o \in Objects, k \in Keys : Load(o, k)
  BY <1>7, LoadKeeps
<1>8. CASE \E o, c \in Objects : Copy(o, c)
  BY <1>8, CopyKeeps
<1>9. CASE \E t \in Tables, k \in Keys : Delete(t, k)
  BY <1>9, DeleteKeeps
<1>10. CASE Begin
  BY <1>10, BeginKeeps
<1>11. CASE Commit
  BY <1>11, CommitKeeps
<1>12. CASE Rollback
  BY <1>12, RollbackKeeps
<1> QED
  BY <1>1, <1>2, <1>3, <1>4, <1>5, <1>6, <1>7, <1>8, <1>9, <1>10, <1>11, <1>12 DEF Next

-----------------------------------------------------------------------------
(* What a Save does. *)

\* Only a Save that returned nil is the last call.  It is one of the objects it
\* may write, and its rows are those of the program.
Returned(v, o) ==
    /\ o \in Objects /\ last' = o
    /\ Saving(v, Of(o), {}) /\ obj' = v.obj /\ db' = v.db
    /\ IF o \in v.ran
         THEN /\ lost'[o] = (lost[o] \cup Due(o)) \ v.wrote[o]
              /\ v.db[TableOf[o]][v.obj[o].pk] # None /\ v.obj[o].pk # 0
              /\ \A f \in v.wrote[o] :
                    v.db[TableOf[o]][v.obj[o].pk].val[f] = obj[o].val[f]
         ELSE lost'[o] = lost[o] /\ Due(o) \subseteq lost[o]

\* A Save that is recorded as the last call returned nil.
LEMMA SaveReturns ==
  ASSUME ModelsInv, NEW o \in Objects, NEW config \in Configs, NEW fault,
         Save(o, config, fault), last' # None
  PROVE  \E v : Returned(v, o)
<1> DEFINE r == SaveObject(Ready(World, o), o, config, fault)
           v == r.w
           kept == r.ok \/ outer # None
<1>1. /\ IsSetUp(World, o) /\ HasRoom(Of(o))
      /\ obj' = v.obj /\ db' = IF kept THEN v.db ELSE db
      /\ Record(r, kept)
      /\ last' = IF r.ok /\ config = Plain THEN o ELSE None
  BY DEF Save, Of
<1>2. TypeOK /\ Valid(World) /\ config \in Config
  BY ModelsAssumption DEF ModelsInv
<1>3. Given(db, seq)
  BY <1>2 DEF Valid, Sound, World
<1>4. r.ok /\ kept /\ config = Plain /\ last' = o
  BY <1>1
<1>5. Listed(config) = {}
  BY <1>4 DEF Listed, Plain
<1>6. /\ Saving(v, Of(o), Listed(config))
      /\ r.ok => IF o \in v.ran
                 THEN /\ v.db[TableOf[o]][v.obj[o].pk] # None
                      /\ v.obj[o].pk # 0
                      /\ \A f \in v.wrote[o] :
                            v.db[TableOf[o]][v.obj[o].pk].val[f] = obj[o].val[f]
                 ELSE Due(o) \subseteq lost[o]
  <2>1. LET w == Ready(World, o)
        IN  /\ Saving(w, Of(o), Listed(config)) /\ IsSetUp(w, o) /\ Opt(w, o).defs /\ w.ran = {}
    BY <1>1, <1>2, SaveBegins
  <2> QED
    BY <1>2, <1>3, <2>1, ObjectSaves
<1> HIDE DEF r
<1>7. lost'[o] = IF o \notin v.ran THEN lost[o] ELSE (lost[o] \cup Due(o)) \ v.wrote[o]
  BY <1>1, <1>4 DEF Record
<1>8. obj' = v.obj /\ db' = v.db
  BY <1>1, <1>4
<1> HIDE DEF v
<1>9. Returned(v, o)
  BY <1>4, <1>5, <1>6, <1>7, <1>8 DEF Returned
<1> QED
  BY <1>9

\* No other step is.
LEMMA StepReturns ==
  ASSUME ModelsInv, Next, last' # None
  PROVE  \E v : Returned(v, last')
<1>1. \A o \in Objects :
         /\ \A config \in Configs : ~SaveUninitialized(o, config)
         /\ \A f \in Fields, v \in Values : ~Assign(o, f, v) /\ ~Set(o, f, v)
         /\ ~FieldDefs(o)
  BY DEF SaveUninitialized, Assign, Set, FieldDefs
<1>2. /\ \A o \in Objects : /\ \A k \in Keys : ~Load(o, k)
                           /\ \A c \in Objects : ~Copy(o, c)
      /\ \A t \in Tables, k \in Keys : ~Delete(t, k)
      /\ ~Begin /\ ~Commit /\ ~Rollback
  BY DEF Load, Copy, Delete, Begin, Commit, Rollback
<1>3. PICK o \in Objects, config \in Configs, fault \in Faults : Save(o, config, fault)
  BY <1>1, <1>2 DEF Next
<1>4. \E v : Returned(v, o)
  BY <1>3, SaveReturns
<1>5. last' = o
  BY <1>4 DEF Returned
<1> QED
  BY <1>4, <1>5

\* In the row, or lost.
LEMMA ReturnedStores ==
  ASSUME NEW o \in Objects, NEW v, Returned(v, o), NEW f \in Due(o) \ lost'[o]
  PROVE  /\ Stored(o)' # None
         /\ Stored(o)'.val[f] = obj'[o].val[f]
<1>1. o \in v.ran /\ f \in v.wrote[o]
  BY DEF Returned
<1>2. /\ v.db[TableOf[o]][v.obj[o].pk] # None /\ v.obj[o].pk # 0
      /\ v.db[TableOf[o]][v.obj[o].pk].val[f] = obj[o].val[f]
  BY <1>1 DEF Returned
<1>3. v.obj[o].val = obj[o].val /\ obj' = v.obj /\ db' = v.db
  BY DEF Returned, Saving
<1>4. Stored(o)' = db'[TableOf[o]][obj'[o].pk]
  BY <1>2, <1>3 DEF Stored, RowAt, World
<1> QED
  BY <1>2, <1>3, <1>4

-----------------------------------------------------------------------------
(* The theorems. *)

\* The objects, their internals and the rows are what they should be.
THEOREM TypeCorrect == Spec => []TypeOK
<1>1. Init => ModelsInv
  BY InitKnows
<1>2. ModelsInv /\ [Next]_vars => ModelsInv'
  BY StepKnows
<1>3. ModelsInv => TypeOK
  BY DEF ModelsInv
<1> QED
  BY <1>1, <1>2, <1>3, PTL DEF Spec

\* An object from the database holds, in its state, what its row was last
\* known to hold (the comparison that checkState makes, model.go): whatever
\* the program did, and whichever calls failed, but for what a rollback or a
\* Save of other fields made it lose.
THEOREM ObjectsKnowTheirRows == Spec => []KnowsItsRow
<1>1. Init => ModelsInv
  BY InitKnows
<1>2. ModelsInv /\ [Next]_vars => ModelsInv'
  BY StepKnows
<1>3. ModelsInv => KnowsItsRow
  <2>1. ModelsInv => Valid(World) /\ World.ran = {}
    BY WorldIs DEF ModelsInv
  <2> QED
    BY <2>1 DEF Valid, Knows, Remembers, FromDBIn, FromDB, KnowsItsRow
<1> QED
  BY <1>1, <1>2, <1>3, PTL DEF Spec

\* A Save that returns nil leaves every field that was due in the object's row
\* (SaveObject: the fields that checkState finds changed, the statement, the
\* state that is reset after it), unless the object takes it for stored.
THEOREM SavesStore == Spec => SaveStores
<1>1. Init => ModelsInv
  BY InitKnows
<1>2. ModelsInv /\ [Next]_vars => ModelsInv'
  BY StepKnows
<1>3. ModelsInv /\ Next =>
        \A o \in Objects :
          last' = o => \A f \in Due(o) \ lost'[o] :
                         /\ Stored(o)' # None
                         /\ Stored(o)'.val[f] = obj'[o].val[f]
  <2> SUFFICES ASSUME ModelsInv, Next, NEW o \in Objects, last' = o, NEW f \in Due(o) \ lost'[o]
               PROVE  Stored(o)' # None /\ Stored(o)'.val[f] = obj'[o].val[f]
    OBVIOUS
  <2>1. last' # None
    BY ModelsAssumption
  <2>2. PICK v : Returned(v, o)
    BY <2>1, StepReturns
  <2> QED
    BY <2>2, ReturnedStores
<1> QED
  BY <1>1, <1>2, <1>3, PTL DEF Spec, SaveStores

\* Two structs of one row do not undo each other: of a row that exists before
\* and after, a Save changes only the fields that were due to or lost by its
\* object, the target of its foreign key or its proxy, or all if that object is
\* not from the database (the fields SaveObject selects).
THEOREM SavesKeepToTheirChanges == Spec => SavesOnlyItsChanges
<1>1. Init => ModelsInv
  BY InitKnows
<1>2. ModelsInv /\ [Next]_vars => ModelsInv'
  BY StepKnows
<1>3. ModelsInv /\ Next =>
        \A t \in Tables, k \in Keys, f \in Fields :
          /\ last' # None
          /\ db[t][k] # None /\ db'[t][k] # None
          /\ db'[t][k].val[f] # db[t][k].val[f]
          => \E o \in {last', RefOf[last'], ProxyOf[last']} \ {None} :
                /\ TableOf[o] = t /\ obj'[o].pk = k
                /\ f \in Due(o) \cup lost[o] \/ ~FromDB(o)
  <2> SUFFICES ASSUME ModelsInv, Next, NEW t \in Tables, NEW k \in Keys, NEW f \in Fields,
                      last' # None, db[t][k] # None, db'[t][k] # None,
                      db'[t][k].val[f] # db[t][k].val[f]
               PROVE  \E o \in {last', RefOf[last'], ProxyOf[last']} \ {None} :
                         /\ TableOf[o] = t /\ obj'[o].pk = k
                         /\ f \in Due(o) \cup lost[o] \/ ~FromDB(o)
    OBVIOUS
  <2>1. PICK v : Returned(v, last')
    BY StepReturns
  <2>2. Blamed(v, Of(last'), {}) /\ obj' = v.obj /\ db' = v.db
    BY <2>1 DEF Returned, Saving
  <2>3. \E o \in Of(last') : TableOf[o] = t /\ v.obj[o].pk = k /\ MayWrite(o, f, {})
    BY <2>2 DEF Blamed
  <2> QED
    BY <2>2, <2>3 DEF MayWrite, Of
<1> QED
  BY <1>1, <1>2, <1>3, PTL DEF Spec, SavesOnlyItsChanges
=============================================================================
