------------------------------- MODULE Models -------------------------------
(***************************************************************************)
(* What an object that embeds models.Model knows of its own row, and what  *)
(* Save does with it (src/models).                                         *)
(*                                                                         *)
(* An object is a Go struct.  The Model embedded in it points to its       *)
(* internals (modelOptions): the object they belong to, whether the field  *)
(* definitions are bound, the state (the values the fields had when the    *)
(* state was last reset, and the fields marked as changed) and fromDB.     *)
(* Save compares the fields with the state, skips an object that did not   *)
(* change, and otherwise writes, in one transaction: the object a foreign  *)
(* key points to, the row of the object, and the object's proxy.           *)
(*                                                                         *)
(* The database is one row store.  A Save outside of an outer transaction  *)
(* is atomic in it; inside of one every Save joins it.  A Save may fail at *)
(* each of its statements and at its commit (Faults).  Objects refer to    *)
(* one another at depth one: neither the target of a foreign key nor a     *)
(* proxy has targets or proxies of its own.                                *)
(***************************************************************************)
EXTENDS Naturals, FiniteSets

CONSTANTS
    Objects,    \* the Go structs
    Spares,     \* those that come to be by a query or by copying another
    Tables,
    TableOf,    \* the table of each object
    RefOf,      \* the object the foreign key of each points to, or None
    ProxyOf,    \* the proxy each embeds, or None
    Fields,     \* the plain fields of every object
    Editable,   \* the <<object, field>> pairs the program assigns directly,
    Signalled,  \* and those it sets by their definition
    Values,
    Default,    \* the value of a field of a new struct
    MaxKey,     \* bound: keys of a table
    Configs,    \* the SaveConfigs the program calls SaveObject with
    Deletable,  \* the tables another actor deletes rows of
    None

Keys == 1..MaxKey

(* The names of the fields in the definitions of an object, the key aside. *)
Names == Fields \cup {"ref", "owner", "proxy"}

Struct == [val : [Fields -> Values], pk : 0..MaxKey, owner : 0..MaxKey]
Row == [val : [Fields -> Values], ref : 0..MaxKey, owner : 0..MaxKey]
State == [changed : SUBSET Names, initial : Struct]
Options == [object : Objects \cup {None}, defs : BOOLEAN,
            state : State \cup {None}, fromDB : BOOLEAN]

Config == [fields : SUBSET Names, force : BOOLEAN]
Plain == [fields |-> {}, force |-> FALSE]

(* Where a Save fails: at the statement of the foreign key's target, at    *)
(* its own, at the one of the proxy, or at the commit.                     *)
Faults == {"none", "before", "self", "after", "commit"}

ASSUME ModelsAssumption ==
    /\ IsFiniteSet(Objects)
    /\ Spares \subseteq Objects
    /\ TableOf \in [Objects -> Tables]
    /\ RefOf \in [Objects -> Objects \cup {None}]
    /\ ProxyOf \in [Objects -> Objects \cup {None}]
    /\ None \notin Objects /\ None \notin State /\ None \notin Row
    /\ \A o \in Objects : \A r \in {RefOf[o], ProxyOf[o]} \ {None} :
           RefOf[r] = None /\ ProxyOf[r] = None
    /\ \A o \in Objects : ProxyOf[o] # None => TableOf[ProxyOf[o]] # TableOf[o]
    /\ Editable \cup Signalled \subseteq Objects \X Fields
    /\ Fields \cap {"ref", "owner", "proxy"} = {}
    /\ Default \in Values
    /\ MaxKey \in Nat
    /\ Configs \subseteq Config
    /\ Deletable \subseteq Tables

VARIABLES
    obj,        \* the structs
    opt,        \* the internals each struct's Model points to
    options,    \* the internals
    db,         \* the rows, as the open transaction sees them if there is one
    seq,        \* the largest key each table ever gave (AUTOINCREMENT)
    outer,      \* the transaction of the caller's context, or None
    synced,     \* history: the values of each object its row was last known
                \* to hold, None for a field that was never stored
    lost,       \* history: the fields an object takes for stored, though no
                \* row holds them: the transaction was rolled back, or a
                \* Save of other fields reset the state
    last        \* history: the object whose Save of all that changed was
                \* the last call, and returned nil, or None

vars == <<obj, opt, options, db, seq, outer, synced, lost, last>>

TypeOK ==
    /\ obj \in [Objects -> Struct]
    /\ opt \in [Objects -> Objects \cup {None}]
    /\ options \in [Objects -> Options]
    /\ db \in [Tables -> [Keys -> Row \cup {None}]]
    /\ seq \in [Tables -> 0..MaxKey]
    /\ synced \in [Objects -> [Fields -> Values \cup {None}]]
    /\ lost \in [Objects -> SUBSET Fields]
    /\ outer # None =>
           /\ outer.db \in [Tables -> [Keys -> Row \cup {None}]]
           /\ outer.seq \in [Tables -> 0..MaxKey]
           /\ outer.synced \in [Objects -> [Fields -> Values \cup {None}]]
           /\ outer.wrote \in [Objects -> SUBSET Fields]
    /\ last \in Objects \cup {None}

-----------------------------------------------------------------------------
(* The state of the program a call reads and writes: a record, so that the *)
(* steps of one Save compose.  "wrote" collects the fields of each object  *)
(* the call's statements wrote, "ran" the objects they were about.         *)

World == [obj |-> obj, opt |-> opt, options |-> options, db |-> db,
          seq |-> seq, wrote |-> [o \in Objects |-> {}], ran |-> {}]

Opt(w, o) == w.options[w.opt[o]]

IsSetUp(w, o) == w.opt[o] # None /\ Opt(w, o).object # None

NewOptions(o) ==
    [object |-> o, defs |-> FALSE, state |-> None, fromDB |-> FALSE]

(* Internals no other object points to. *)
Unused(w, o) ==
    CHOOSE i \in Objects : \A p \in Objects \ {o} : w.opt[p] # i

(* The object is the one the internals belong to: nothing to do.  A struct *)
(* copied from another shares its internals: they lose their object and    *)
(* definitions, for both, and this one gets new internals.                 *)
Setup(w, o) ==
    LET i == w.opt[o]
        foreign == /\ i # None
                   /\ w.options[i].defs
                   /\ w.options[i].object \notin {None, o}
        cleared == IF foreign
                     THEN [w.options EXCEPT ![i].object = None,
                                            ![i].defs = FALSE]
                     ELSE w.options
        j == Unused(w, o)
    IN  IF i # None /\ cleared[i].object # None THEN w
        ELSE [w EXCEPT !.opt[o] = j, !.options = [cleared EXCEPT ![j] = NewOptions(o)]]

(* FieldDefs of the object. *)
Define(w, o) ==
    LET s == Setup(w, o)
    IN  [s EXCEPT !.options[s.opt[o]].defs = TRUE]

(* Mutant of Reset: a second reset keeps the values of the first. *)
ResetKeepsInitial(w, o) ==
    [changed |-> {},
     initial |-> IF Opt(w, o).state = None THEN w.obj[o] ELSE Opt(w, o).state.initial]

(* ModelState.Reset: the fields as they are now, none of them changed. *)
Reset(w, o) == [changed |-> {}, initial |-> w.obj[o]]

SetupInitialState(w, o) ==
    IF Opt(w, o).defs
      THEN [w EXCEPT !.options[w.opt[o]].state = Reset(w, o)]
      ELSE w

AfterQuery(w, o) ==
    LET s == SetupInitialState(w, o)
    IN  [s EXCEPT !.options[s.opt[o]].fromDB = TRUE]

AfterSave(w, o) == AfterQuery(w, o)

(* The signal of a field: onChange marks it as changed. *)
OnChange(w, o, name) ==
    LET s == IF Opt(w, o).state = None THEN SetupInitialState(w, o) ELSE w
    IN  IF Opt(s, o).state = None THEN s
        ELSE [s EXCEPT !.options[s.opt[o]].state.changed = @ \cup {name}]

(* Where the value of a field is not the one of the state.  The field of a *)
(* proxy holds a pointer, which a change of what it points to leaves as it *)
(* was.                                                                    *)
Differing(w, o) ==
    LET initial == Opt(w, o).state.initial
    IN  {f \in Fields : w.obj[o].val[f] # initial.val[f]}
          \cup (IF w.obj[o].owner # initial.owner THEN {"owner"} ELSE {})

(* Mutant of CheckState: only fields set by their definition are changed. *)
CheckStateTrustsSignals(w, o) == w

(* checkState: the fields marked as changed are those that differ. *)
CheckState(w, o) ==
    IF Opt(w, o).state = None THEN w
    ELSE [w EXCEPT !.options[w.opt[o]].state.changed = Differing(w, o)]

Changed(w, o) == Opt(w, o).state = None \/ Opt(w, o).state.changed # {}

HasChanged(w, o, name) ==
    \/ Opt(w, o).state = None
    \/ name \in Opt(w, o).state.changed \cup Differing(w, o)

NamesOf(o) ==
    Fields \cup {"owner"}
           \cup (IF RefOf[o] # None THEN {"ref"} ELSE {})
           \cup (IF ProxyOf[o] # None THEN {"proxy"} ELSE {})

Saved(w, o) == Opt(w, o).fromDB \/ w.obj[o].pk # 0

(* The fields SaveObject selects. *)
Selected(w, o, config) ==
    {n \in NamesOf(o) :
        \/ ~Opt(w, o).fromDB
        \/ config.force
        \/ n \in config.fields
        \/ config.fields = {} /\ HasChanged(w, o, n)}

-----------------------------------------------------------------------------
(* The statements.  A key is never given twice, except that a rollback     *)
(* takes back the keys it gave.                                            *)

RowAt(w, o) == IF w.obj[o].pk = 0 THEN None ELSE w.db[TableOf[o]][w.obj[o].pk]

(* The tables have a key for each of the objects that has none. *)
HasRoom(objects) ==
    \A t \in Tables :
        seq[t] + Cardinality({o \in objects : TableOf[o] = t /\ obj[o].pk = 0}) <= MaxKey

RefKey(w, o) == IF RefOf[o] = None THEN 0 ELSE w.obj[RefOf[o]].pk

RowOf(w, o) ==
    [val |-> w.obj[o].val, ref |-> RefKey(w, o), owner |-> w.obj[o].owner]

(* BulkUpdate of one object: the selected columns of the row with its key. *)
UpdatedRow(w, o, sel) ==
    LET old == RowAt(w, o)
        new == RowOf(w, o)
    IN  [val |-> [f \in Fields |-> IF f \in sel THEN new.val[f] ELSE old.val[f]],
         ref |-> IF "ref" \in sel THEN new.ref ELSE old.ref,
         owner |-> IF "owner" \in sel THEN new.owner ELSE old.owner]

Result(w, ok) == [w |-> w, ok |-> ok]

Update(w, o, sel) ==
    IF RowAt(w, o) = None THEN Result(w, FALSE)
    ELSE Result(AfterSave([w EXCEPT !.db[TableOf[o]][w.obj[o].pk] = UpdatedRow(w, o, sel),
                                    !.wrote[o] = @ \cup (sel \cap Fields),
                                    !.ran = @ \cup {o}], o), TRUE)

(* Mutant of Create: the object gets the key after the row's. *)
CreateOffByOne(w, o) ==
    LET k == w.seq[TableOf[o]] + 1
    IN  Result(AfterSave([w EXCEPT !.db[TableOf[o]][k] = RowOf(w, o),
                                   !.seq[TableOf[o]] = k,
                                   !.obj[o].pk = k + 1,
                                   !.wrote[o] = Fields,
                                   !.ran = @ \cup {o}], o), TRUE)

(* BulkCreate of one object: every column, whatever is selected; the key   *)
(* of the new row becomes the object's.                                    *)
Create(w, o) ==
    LET k == w.seq[TableOf[o]] + 1
    IN  Result(AfterSave([w EXCEPT !.db[TableOf[o]][k] = RowOf(w, o),
                                   !.seq[TableOf[o]] = k,
                                   !.obj[o].pk = k,
                                   !.wrote[o] = Fields,
                                   !.ran = @ \cup {o}], o), TRUE)

(* Mutant of Write: the state is reset before the statement. *)
WriteResetsFirst(w0, o, sel, fails) ==
    LET w == AfterSave(w0, o)
    IN  IF fails THEN Result(w, FALSE)
        ELSE IF Saved(w0, o) THEN Update(w, o, sel) ELSE Create(w, o)

Write(w, o, sel, fails) ==
    IF fails THEN Result(w, FALSE)
    ELSE IF Saved(w, o) THEN Update(w, o, sel) ELSE Create(w, o)

(* The end of SaveObject. *)
Finish(w, o) ==
    [w EXCEPT !.options[w.opt[o]].state = IF @ = None THEN None ELSE Reset(w, o),
              !.options[w.opt[o]].fromDB = TRUE]

-----------------------------------------------------------------------------
(* Save.                                                                   *)

(* Model.Save binds the definitions if they are not. *)
Ready(w, o) == IF IsSetUp(w, o) /\ ~Opt(w, o).defs THEN Define(w, o) ELSE w

Skips(w, o, config) == ~Changed(w, o) /\ Opt(w, o).fromDB /\ ~config.force

(* SaveObject of an object with neither target nor proxy. *)
SaveLeaf(w0, o, config, fails) ==
    LET w == CheckState(w0, o)
        r == Write(w, o, Selected(w, o, config), fails)
    IN  IF Skips(w, o, config) THEN Result(w, TRUE)
        ELSE IF r.ok THEN Result(Finish(r.w, o), TRUE) ELSE r

(* RelationField.Save: the target is set up, then saved. *)
SaveRef(w, o, sel, fails) ==
    IF "ref" \notin sel THEN Result(w, TRUE)
    ELSE SaveLeaf(Ready(Setup(w, RefOf[o]), RefOf[o]), RefOf[o], Plain, fails)

(* proxyField.Save: the proxy gets the key of its owner, then is saved. *)
SaveProxy(w, o, sel, fails) ==
    LET p == ProxyOf[o]
        d == Define(w, p)
    IN  IF "proxy" \notin sel THEN Result(w, TRUE)
        ELSE SaveLeaf([d EXCEPT !.obj[p].owner = d.obj[o].pk], p, Plain, fails)

(* Mutant of SaveObject: the proxy is saved before the row it refers to. *)
SaveObjectProxyFirst(w0, o, config, fault) ==
    LET w == CheckState(w0, o)
        sel == Selected(w, o, config)
        before == SaveRef(w, o, sel, fault = "before")
        proxy == SaveProxy(before.w, o, sel, fault = "after")
        self == Write(proxy.w, o, sel, fault = "self")
    IN  IF Skips(w, o, config) THEN Result(w, TRUE)
        ELSE IF ~before.ok THEN before
        ELSE IF ~proxy.ok THEN proxy
        ELSE IF ~self.ok THEN self
        ELSE Result(Finish(self.w, o), fault # "commit")

(* SaveObject: the target before, the row, the proxy after. *)
SaveObject(w0, o, config, fault) ==
    LET w == CheckState(w0, o)
        sel == Selected(w, o, config)
        before == SaveRef(w, o, sel, fault = "before")
        self == Write(before.w, o, sel, fault = "self")
        after == SaveProxy(self.w, o, sel, fault = "after")
    IN  IF Skips(w, o, config) THEN Result(w, TRUE)
        ELSE IF ~before.ok THEN before
        ELSE IF ~self.ok THEN self
        ELSE IF ~after.ok THEN after
        ELSE Result(Finish(after.w, o), fault # "commit")

(* The fields of an object its row was not known to hold. *)
Due(o) == {f \in Fields : obj[o].val[f] # synced[o][f]}

(* The history of a Save: r.w.wrote reached the database, or was undone.   *)
(* Its statements reset the state of every object they wrote, whichever    *)
(* fields they wrote and whether they are kept.                            *)
Record(r, kept) ==
    /\ synced' = [o \in Objects |-> [f \in Fields |->
                     IF kept /\ f \in r.w.wrote[o] THEN obj[o].val[f] ELSE synced[o][f]]]
    /\ lost' = [o \in Objects |->
                  IF o \notin r.w.ran THEN lost[o]
                  ELSE IF kept THEN (lost[o] \cup Due(o)) \ r.w.wrote[o]
                  ELSE lost[o] \cup Due(o)]

FaultsOf(o) ==
    {"none", "self"} \cup (IF outer = None THEN {"commit"} ELSE {})
                    \cup (IF RefOf[o] # None THEN {"before"} ELSE {})
                    \cup (IF ProxyOf[o] # None THEN {"after"} ELSE {})

(* Save, which calls SaveObject with the Plain config, or SaveObject with  *)
(* another, which binds no definitions.  A transaction of its own is       *)
(* rolled back when the call fails; in an outer one its Commit and         *)
(* Rollback do nothing.                                                    *)
Save(o, config, fault) ==
    LET r == SaveObject(Ready(World, o), o, config, fault)
        kept == r.ok \/ outer # None
    IN  /\ IsSetUp(World, o)
        /\ config = Plain \/ Opt(World, o).defs
        /\ HasRoom({o, RefOf[o], ProxyOf[o]} \ {None})
        /\ fault \in FaultsOf(o)
        /\ obj' = r.w.obj
        /\ opt' = r.w.opt
        /\ options' = r.w.options
        /\ db' = IF kept THEN r.w.db ELSE db
        /\ seq' = IF kept THEN r.w.seq ELSE seq
        /\ Record(r, kept)
        /\ outer' = IF outer = None THEN None
                    ELSE [outer EXCEPT !.wrote = [p \in Objects |->
                            @[p] \cup (r.w.wrote[p] \cap Due(p)) \cup (lost'[p] \ lost[p])]]
        /\ last' = IF r.ok /\ config = Plain THEN o ELSE None

(* An object whose internals lost their object reports that its model is   *)
(* not initialized; called directly, SaveObject reports the same when no   *)
(* definitions are bound.                                                  *)
SaveUninitialized(o, config) ==
    /\ IsSetUp(World, o) => ~Opt(World, o).defs
    /\ o \notin Spares \/ opt[o] # None
    /\ last' = None
    /\ UNCHANGED <<obj, opt, options, db, seq, outer, synced, lost>>

-----------------------------------------------------------------------------
(* What a program does with its objects.                                   *)

(* The object exists. *)
Made(o) == opt[o] # None

Becomes(w) == obj' = w.obj /\ opt' = w.opt /\ options' = w.options

(* A field of the struct is assigned: no signal. *)
Assign(o, f, v) ==
    /\ Made(o) /\ <<o, f>> \in Editable
    /\ obj[o].val[f] # v
    /\ obj' = [obj EXCEPT ![o].val[f] = v]
    /\ last' = None
    /\ UNCHANGED <<opt, options, db, seq, outer, synced, lost>>

(* The objects whose proxy it is: their Models listen to its signal. *)
OwnersOf(o) == {p \in Objects : ProxyOf[p] = o /\ IsSetUp(World, p)}

(* FieldDefs().Set: the signal of the field, then the value. *)
Set(o, f, v) ==
    LET w == OnChange(Define(World, o), o, f)
        s == IF OwnersOf(o) = {} THEN w
             ELSE OnChange(w, CHOOSE p \in OwnersOf(o) : TRUE, "proxy")
    IN  /\ Made(o) /\ <<o, f>> \in Signalled
        /\ obj[o].val[f] # v
        /\ Becomes([s EXCEPT !.obj[o].val[f] = v])
        /\ last' = None
        /\ UNCHANGED <<db, seq, outer, synced, lost>>

(* FieldDefs sets the object up again when it has lost its internals. *)
FieldDefs(o) ==
    /\ Made(o)
    /\ IsSetUp(World, o) => ~Opt(World, o).defs
    /\ Becomes(Define(World, o))
    /\ last' = None
    /\ UNCHANGED <<db, seq, outer, synced, lost>>

(* A query makes the object from a row; the struct the name stood for is   *)
(* dropped.  Outside of the outer transaction only.                        *)
Load(o, k) ==
    LET row == db[TableOf[o]][k]
        i == Unused(World, o)
        w == [World EXCEPT !.obj[o] = [val |-> row.val, pk |-> k, owner |-> row.owner],
                           !.opt[o] = i,
                           !.options[i] = [NewOptions(o) EXCEPT !.defs = TRUE]]
    IN  /\ o \in Spares
        /\ row # None
        /\ outer = None
        /\ Becomes(AfterQuery(w, o))
        /\ synced' = [synced EXCEPT ![o] = row.val]
        /\ lost' = [lost EXCEPT ![o] = {}]
        /\ last' = None
        /\ UNCHANGED <<db, seq, outer>>

(* c := *src; Setup(&c). *)
Copy(src, c) ==
    LET w == [World EXCEPT !.obj[c] = obj[src], !.opt[c] = opt[src]]
    IN  /\ c \in Spares \ {src} /\ TableOf[c] = TableOf[src]
        /\ Made(src) /\ IsSetUp(World, src) /\ Opt(World, src).defs
        /\ outer = None
        /\ Becomes(Setup(w, c))
        /\ synced' = [synced EXCEPT ![c] = synced[src]]
        /\ lost' = [lost EXCEPT ![c] = lost[src]]
        /\ last' = None
        /\ UNCHANGED <<db, seq, outer>>

(* Another actor deletes a row. *)
Delete(t, k) ==
    /\ t \in Deletable
    /\ db[t][k] # None
    /\ outer = None
    /\ db' = [db EXCEPT ![t][k] = None]
    /\ last' = None
    /\ UNCHANGED <<obj, opt, options, seq, outer, synced, lost>>

(* The caller's transaction, in the context of every call until it ends. *)
Begin ==
    /\ outer = None
    /\ outer' = [db |-> db, seq |-> seq, synced |-> synced, wrote |-> [o \in Objects |-> {}]]
    /\ last' = None
    /\ UNCHANGED <<obj, opt, options, db, seq, synced, lost>>

Commit ==
    /\ outer # None
    /\ outer' = None
    /\ last' = None
    /\ UNCHANGED <<obj, opt, options, db, seq, synced, lost>>

Rollback ==
    /\ outer # None
    /\ outer' = None
    /\ db' = outer.db
    /\ seq' = outer.seq
    /\ synced' = outer.synced
    /\ lost' = [o \in Objects |-> lost[o] \cup outer.wrote[o]]
    /\ last' = None
    /\ UNCHANGED <<obj, opt, options>>

Init ==
    /\ obj = [o \in Objects |-> [val |-> [f \in Fields |-> Default], pk |-> 0, owner |-> 0]]
    /\ opt = [o \in Objects |-> IF o \in Spares THEN None ELSE o]
    /\ options = [o \in Objects |-> [NewOptions(o) EXCEPT !.defs = TRUE]]
    /\ db = [t \in Tables |-> [k \in Keys |-> None]]
    /\ seq = [t \in Tables |-> 0]
    /\ outer = None
    /\ synced = [o \in Objects |-> [f \in Fields |-> None]]
    /\ lost = [o \in Objects |-> {}]
    /\ last = None

Next ==
    \/ \E o \in Objects :
          \/ \E c \in Configs :
                \/ \E fault \in Faults : Save(o, c, fault)
                \/ SaveUninitialized(o, c)
          \/ \E f \in Fields, v \in Values : Assign(o, f, v) \/ Set(o, f, v)
          \/ FieldDefs(o)
          \/ \E k \in Keys : Load(o, k)
          \/ \E c \in Objects : Copy(o, c)
    \/ \E t \in Tables, k \in Keys : Delete(t, k)
    \/ Begin \/ Commit \/ Rollback

Spec == Init /\ [][Next]_vars

-----------------------------------------------------------------------------
(* Properties.                                                             *)

Stored(o) == RowAt(World, o)

FromDB(o) == IsSetUp(World, o) /\ Opt(World, o).fromDB

(* A Save that returned nil left every field that differed from what the   *)
(* row was last known to hold in the object's row, unless a rollback or a  *)
(* Save of other fields had made the object take it for stored.            *)
SaveStores ==
    [][\A o \in Objects :
          last' = o =>
              \A f \in Due(o) \ lost'[o] :
                 /\ Stored(o)' # None
                 /\ Stored(o)'.val[f] = obj'[o].val[f]]_vars

(* docs/models/model.md:205: the Save method "will save the model to the   *)
(* database": SaveStores without its exception, so also when an earlier    *)
(* Save of the object failed after its statement.                          *)
RetryStores ==
    [][\A o \in Objects :
          last' = o => \A f \in Due(o) : /\ Stored(o)' # None
                                        /\ Stored(o)'.val[f] = obj'[o].val[f]]_vars

(* Two objects of one row do not undo each other's changes: a Save changes *)
(* of a row only the fields that its object changed since it was last in   *)
(* step with the row.  An object that is not from the database (it is new, *)
(* or a copied struct) writes all of its fields.                           *)
SavesOnlyItsChanges ==
    [][\A t \in Tables, k \in Keys, f \in Fields :
          /\ last' # None
          /\ db[t][k] # None /\ db'[t][k] # None
          /\ db'[t][k].val[f] # db[t][k].val[f]
          => \E o \in {last', RefOf[last'], ProxyOf[last']} \ {None} :
                /\ TableOf[o] = t /\ obj'[o].pk = k
                /\ f \in Due(o) \cup lost[o] \/ ~FromDB(o)]_vars

(* After the first Save of an object that returned nil, its row refers to  *)
(* a row of its foreign key's target, and the row of its proxy to it,      *)
(* unless the target or the proxy take for stored what is not.             *)
Linked ==
    [][\A o \in Objects, p \in Objects :
          last' = o /\ ~FromDB(o) /\ lost'[p] = {} =>
              /\ p = RefOf[o] =>
                    /\ Stored(p)' # None
                    /\ Stored(o)'.ref = obj'[p].pk
              /\ p = ProxyOf[o] =>
                    /\ Stored(p)' # None
                    /\ Stored(p)'.owner = obj'[o].pk]_vars

(* What the state of an object from the database holds for a field is what *)
(* its row was last known to hold, whatever calls failed in between.       *)
KnowsItsRow ==
    \A o \in Objects :
        FromDB(o) =>
            /\ Opt(World, o).state # None
            /\ \A f \in Fields \ lost[o] :
                  Opt(World, o).state.initial.val[f] = synced[o][f]
=============================================================================
