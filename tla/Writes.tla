------------------------------- MODULE Writes -------------------------------
(***************************************************************************)
(* Objects written to rows: Create and Update, their Bulk and Batch forms  *)
(* (queryset.go), and the statements that the compilers of the drivers     *)
(* make of them (queryset_compiler_generic.go).                            *)
(*                                                                         *)
(* An object has a key and two columns, a unique one and a plain one, and  *)
(* 0 is their zero value.  The querysets are those of module QuerySets.    *)
(* A call runs its statements in one transaction: module Transactions      *)
(* shows that an error rolls all of them back.                             *)
(***************************************************************************)
EXTENDS QuerySets

CONSTANTS Object, \* the objects of the program
          Val,    \* the values of a column
          Passes  \* the sequences of objects that the program passes

(* There is always a value that the unique column of no row has, and a     *)
(* call is never without objects.                                          *)
ASSUME WritesAssumption ==
    /\ IsFiniteSet(Keys) /\ Keys \subseteq Nat \ {0}
    /\ 0 \in Val
    /\ \A S \in SUBSET Val :
          (IsFiniteSet(S) /\ Cardinality(S) < Cardinality(Keys)) => S # Val
    /\ Passes \subseteq Seq(Object) \ {<<>>}

VARIABLES rows, \* rows[k]: the columns of the root with key k
          obj,  \* obj[o]: the fields of object o
          call, \* history: the objects and the expression of the last write
          driver \* the driver of the database

Drivers == {"sqlite3", "postgres", "mysql"}  \* "mysql" is MariaDB's, too
stored == <<rows, obj, call, driver>>

Columns == {"unique", "plain"}
Row == [Columns -> Val]
Struct == [key : {0} \union Keys, unique : Val, plain : Val]
NoCall == [objs |-> <<>>, expr |-> "none"]

Distinct(rs) == \A j, k \in DOMAIN rs : rs[j].unique = rs[k].unique => j = k

(* The types.  The rows are those of the database, and the database keeps  *)
(* the unique column unique (QuerySet.BulkCreate and BulkUpdate).          *)
RowsOK ==
    /\ rows \in [db.roots -> Row] /\ db.roots \subseteq Keys
    /\ Distinct(rows) /\ driver \in Drivers
    /\ obj \in [Object -> Struct]

---------------------------------------------------------------------------
(* Update.                                                                 *)

(* updateFields: what was selected, or the fields that are not zero.  A    *)
(* name of another model, or of an annotation, is not a field.             *)
Named(item) == IF item.what = "all" THEN Columns ELSE {item.what}
Chosen(r, o) ==
    IF r.items = <<>> THEN {f \in Columns : obj[o][f] # 0}
    ELSE UNION {Named(i) : i \in ToSet(r.items)}

(* An expression that the database evaluates takes the place of a field's  *)
(* value, where that field is written at all.                              *)
Evaluated(v) == IF v + 1 \in Val THEN v + 1 ELSE 0
Set(row, o, columns, e) ==
    [f \in Columns |-> IF f \notin columns THEN row[f]
                       ELSE IF f = e THEN Evaluated(row[f]) ELSE obj[o][f]]

(* The rows of one UPDATE: those of the conditions of the queryset, or the *)
(* one that has the object's key when it has none.                         *)
HitByKey(r, o) == {obj[o].key} \intersect db.roots \* mutant: without conditions
Hit(r, o) == IF Cells(heap, r.where) = <<>> THEN {obj[o].key} \intersect db.roots
             ELSE Matching(heap, r)

(* One UPDATE per object, one after another.  An UPDATE without columns or *)
(* with a join is no statement.  The MySQL drivers count the rows that it  *)
(* changed, the others those that it found.                                *)
UpdateRow(s, r, o, e) ==
    LET columns == Chosen(r, o)
        hit == Hit(r, o)
        new == [k \in DOMAIN s.rows |->
                   IF k \in hit THEN Set(s.rows[k], o, columns, e) ELSE s.rows[k]]
        changed == {k \in hit : new[k] # s.rows[k]}
        count == Cardinality(IF driver = "mysql" THEN changed ELSE hit)
    IN  IF s.status # "ok" THEN s
        ELSE IF columns = {} \/ r.joins # <<>> \/ ~Distinct(new)
        THEN [s EXCEPT !.status = "error"]
        ELSE [s EXCEPT !.rows = new, !.counts = Append(@, count)]

(* RowsAffected of several statements. *)
OfBatch(counts) == Head(counts)  \* pgx: the first result of the batch
OfAll(counts) == FoldLeft(LAMBDA i, j : i + j, 0, counts)
Affected(counts) ==
    IF driver = "postgres" THEN OfBatch(counts)
    ELSE IF driver = "mysql" THEN OfAll(counts) ELSE counts[Len(counts)]

(* BulkUpdate in the transaction of its caller.  What fails behind the     *)
(* first statement of a pgx batch is seen by Commit only.                  *)
UpdateAll(s, r, os, e) ==
    LET t == FoldLeft(LAMBDA x, o : UpdateRow(x, r, o, e),
                      [s EXCEPT !.counts = <<>>], os)
        none == t.counts # <<>> /\ Affected(t.counts) = 0
    IN  IF s.status # "ok" THEN s
        ELSE IF none /\ (t.status = "ok" \/ driver = "postgres")
        THEN [t EXCEPT !.status = "no rows"]
        ELSE IF t.status # "ok" THEN t
        ELSE [t EXCEPT !.value = @ + Affected(t.counts)]

---------------------------------------------------------------------------
(* Create.                                                                 *)

(* One INSERT of all columns, which answers the keys ks that the database  *)
(* gives to the rows.                                                      *)
InsertedWithKeys(s, os, ks) == \* mutant: the key of the object is inserted
    s.rows @@ [k \in {s.obj[o].key : o \in ToSet(os)} |-> [f \in Columns |-> 0]]
Inserted(s, os, ks) ==
    LET object(k) == os[CHOOSE i \in DOMAIN ks : ks[i] = k]
    IN  [k \in (DOMAIN s.rows) \union ToSet(ks) |->
            IF k \in DOMAIN s.rows THEN s.rows[k]
            ELSE [f \in Columns |-> s.obj[object(k)][f]]]

(* The keys are set in the objects as soon as the INSERT has run. *)
KeyedInReverse(s, os, ks) == \* mutant: the keys are given in reverse
    LET set(objs, i) == [objs EXCEPT ![os[Len(os) + 1 - i]].key = ks[i]]
    IN  FoldLeftDomain(set, s.obj, os)
Keyed(s, os, ks) ==
    LET set(objs, i) == [objs EXCEPT ![os[i]].key = ks[i]]
    IN  FoldLeftDomain(set, s.obj, os)

(* Without RETURNING an INSERT for each row, as only then MySQL tells each *)
(* key.  All of them must have run before a key is set.                    *)
InsertedOneByOne(s, os, ks) ==
    LET insert(rs, i) == Inserted([s EXCEPT !.rows = rs], <<os[i]>>, <<ks[i]>>)
    IN  FoldLeftDomain(insert, s.rows, os)

(* BulkCreate in the transaction of its caller. *)
CreateAll(s, os, ks) ==
    LET new == IF driver = "mysql" THEN InsertedOneByOne(s, os, ks)
                                   ELSE Inserted(s, os, ks)
    IN  IF s.status # "ok" THEN s
        ELSE IF ~Distinct(new) THEN [s EXCEPT !.status = "error"]
        ELSE [s EXCEPT !.rows = new, !.obj = Keyed(s, os, ks), !.value = @ + Len(os)]

---------------------------------------------------------------------------
(* Batches.                                                                *)

Size(r) == IF r.limit <= 0 THEN DefaultLimit ELSE r.limit
FullBatches(os, size) == \* mutant: the rest after the full batches is left out
    [i \in 1..(Len(os) \div size) |-> SubSeq(os, (i - 1) * size + 1, i * size)]
Batches(os, size) ==
    [i \in 1..((Len(os) + size - 1) \div size) |->
        SubSeq(os, (i - 1) * size + 1,
               IF i * size < Len(os) THEN i * size ELSE Len(os))]

Begun == [status |-> "ok", rows |-> rows, obj |-> obj, counts |-> <<>>, value |-> 0]

(* Commit, or the deferred Rollback: the objects keep what they were given. *)
CommittedInPart(s) == s.rows \* mutant: each batch commits for itself
Committed(s) == IF s.status = "ok" THEN s.rows ELSE rows

Told(op, q, s, status, os, e) ==
    /\ rows' = Committed(s)
    /\ obj' = s.obj
    /\ db' = [db EXCEPT !.roots = DOMAIN rows']
    /\ call' = [objs |-> os, expr |-> e]
    /\ Answered(op, q, status, None, IF status = "ok" THEN s.value ELSE 0)
    /\ UNCHANGED <<heap, qs, meant, driver>>
Written(op, q, s, os, e) == Told(op, q, s, s.status, os, e)

(* The database fails before batch n; 0 is never. *)
Failing(s, i, n) == IF i = n /\ s.status = "ok" THEN [s EXCEPT !.status = "error"] ELSE s

IsField(item) == item.at = None /\ item.what # "annotation"
Panics(r) == \E i \in ToSet(r.items) : ~IsField(i)

Updates(op, q, batches, os, e) ==
    /\ qs[q] # None
    /\ IF Panics(qs[q])
       THEN Written(op, q, [Begun EXCEPT !.status = "panic"], os, e)
       ELSE \E n \in 0..Len(batches) :
              LET step(s, i) == UpdateAll(Failing(s, i, n), qs[q], batches[i], e)
              IN  Written(op, q, FoldLeftDomain(step, Begun, batches), os, e)

Update(q, o, e) == Updates("update", q, <<<<o>>>>, <<o>>, e)
BulkUpdate(q, os, e) == Updates("update", q, <<os>>, os, e)
BatchUpdate(q, os, e) == qs[q] # None /\ Updates("update", q, Batches(os, Size(qs[q])), os, e)

Creates(q, batches, os) ==
    /\ qs[q] # None
    /\ \E n \in 0..Len(batches),
          ks \in {t \in [DOMAIN os -> Keys \ db.roots] : IsInjective(t)} :
        LET before(i) == FoldLeft(LAMBDA x, b : x + Len(b), 0, SubSeq(batches, 1, i - 1))
            given(i) == SubSeq(ks, before(i) + 1, before(i) + Len(batches[i]))
            step(s, i) == CreateAll(Failing(s, i, n), batches[i], given(i))
        IN  Written("create", q, FoldLeftDomain(step, Begun, batches), os, "none")

Create(q, o) == Creates(q, <<<<o>>>>, <<o>>)
BulkCreate(q, os) == Creates(q, <<os>>, os)
BatchCreate(q, os) == qs[q] # None /\ Creates(q, Batches(os, Size(qs[q])), os)

---------------------------------------------------------------------------
(* SaveObject, CreateObject, UpdateObject and DeleteObject of an object    *)
(* without a Save and a Delete of its own, with a queryset made for the    *)
(* call.  The signals are sent outside of the transaction, and not for a   *)
(* new object; a receiver may fail.                                        *)
Alone == New(CHOOSE a \in Array : TRUE)
Signals == {"sent", "refused before", "refused after"}
Signalled(op, s, signal, os) ==
    IF signal = "refused before"
    THEN Told(op, answer.on, Begun, "error", os, "none")
    ELSE Told(op, answer.on, s, IF signal = "sent" THEN s.status ELSE "error", os, "none")

CreateObject(o) ==
    \E k \in Keys \ db.roots :
        Written("save", answer.on, CreateAll(Begun, <<o>>, <<k>>), <<o>>, "none")
UpdateObject(o) ==
    \E signal \in Signals :
        Signalled("save", UpdateAll(Begun, Alone, <<o>>, "none"), signal, <<o>>)
SaveNew(o) == CreateObject(o) \* mutant: an object is always taken for a new one
SaveObject(o) == IF obj[o].key = 0 THEN CreateObject(o) ELSE UpdateObject(o)

DeleteObject(o) ==
    \E signal \in Signals :
        LET gone == {obj[o].key} \intersect db.roots
        IN  Signalled("remove",
                      [Begun EXCEPT !.rows = [k \in DOMAIN rows \ gone |-> rows[k]],
                                    !.value = Cardinality(gone)], signal, <<o>>)

(* The program sets a field of an object. *)
Change(o, f, v) ==
    /\ obj' = [obj EXCEPT ![o][f] = v]
    /\ call' = NoCall
    /\ Answered("set", answer.on, "ok", None, 0)
    /\ UNCHANGED <<db, heap, qs, meant, rows, driver>>

(* The calls of module QuerySets.  The row that GetOrCreate makes is of an *)
(* object whose unique field no row has.                                   *)
Follow ==
    /\ rows' = [k \in db'.roots |->
                  IF k \in db.roots THEN rows[k]
                  ELSE [unique |-> CHOOSE v \in Val : \A j \in db.roots : rows[j].unique # v,
                        plain |-> 0]]
    /\ call' = NoCall /\ UNCHANGED <<obj, driver>>

WritesOf(q) ==
    \/ \E o \in Object : Create(q, o) \/ \E e \in {"none", "plain"} : Update(q, o, e)
    \/ \E os \in Passes :
          \/ BulkCreate(q, os) \/ BatchCreate(q, os)
          \/ \E e \in {"none", "plain"} : BulkUpdate(q, os, e) \/ BatchUpdate(q, os, e)
Helpers(o) == SaveObject(o) \/ DeleteObject(o)

(* A program that begins with any rows, and with objects whose keys it     *)
(* sets or leaves to the database.                                         *)
WritesInit ==
    /\ Init /\ rows \in [db.roots -> Row] /\ Distinct(rows)
    /\ driver \in Drivers /\ call = NoCall
    /\ obj \in [Object -> Struct]
WritesNext ==
    \/ Next /\ Follow
    \/ \E q \in QS : WritesOf(q)
    \/ \E o \in Object : Helpers(o) \/ \E f \in Columns, v \in Val : Change(o, f, v)
WritesSpec == WritesInit /\ [][WritesNext]_<<vars, stored>>

---------------------------------------------------------------------------
(* Properties.                                                             *)

(* WritesAreWhole: a create or an update that answers anything but success *)
(* leaves every row as it was, however many batches and statements had run *)
(* (the deferred Rollback of BatchCreate and BatchUpdate).                 *)
WritesAreWhole ==
    [][(answer'.op \in {"create", "update"} /\ answer'.status # "ok")
            => (rows' = rows /\ db' = db)]_<<vars, stored>>

(* UpdatesOnlyMatching: an update neither makes nor removes rows; it       *)
(* changes those that match all the conditions of its queryset or, when    *)
(* that has none, those of the objects passed; and only selected columns,  *)
(* if any were selected (QuerySet.BulkUpdate).                             *)
UpdatesOnlyMatching ==
    [][answer'.op = "update" =>
        LET q == answer'.on
            changed == {k \in DOMAIN rows : rows'[k] # rows[k]}
            fit == {k \in DOMAIN rows :
                       \A i \in DOMAIN meant[q] : i <= Own => k \in meant[q][i]}
            items == ToSet(qs[q].items)
        IN  /\ DOMAIN rows' = DOMAIN rows
            /\ changed \subseteq
                  (IF meant[q] = <<>> THEN {obj[o].key : o \in ToSet(call'.objs)} ELSE fit)
            /\ \A k \in changed, f \in Columns : rows'[k][f] # rows[k][f] =>
                  items = {} \/ \E i \in items : i.what \in {f, "all"}]_<<vars, stored>>

(* UpdatesAreStored: after an update without conditions that answers       *)
(* success, in batches or not, one row at least was there, and every       *)
(* object that was passed once and whose row is there is stored: each      *)
(* selected column, or each that is not zero when none were selected, has  *)
(* the object's value or what the expression makes of its own; the other   *)
(* columns are as they were, also where the object's value is zero and an  *)
(* expression was given (QuerySet.BatchUpdate).                            *)
UpdatesAreStored ==
    [][(answer'.op = "update" /\ answer'.status = "ok" /\ meant[answer'.on] = <<>>) =>
        LET os == call'.objs
            items == qs[answer'.on].items
            keys == {obj[o].key : o \in ToSet(os)}
            once(i) == \A j \in DOMAIN os : obj[os[j]].key = obj[os[i]].key => i = j
            asked(o, f) == IF items = <<>> THEN obj[o][f] # 0
                           ELSE \E i \in ToSet(items) : i.what \in {f, "all"}
        IN  /\ keys \intersect DOMAIN rows # {}
            /\ \A i \in DOMAIN os :
                  LET o == os[i]
                      k == obj[o].key
                  IN  (k \in DOMAIN rows /\ once(i)) =>
                        \A f \in Columns :
                            rows'[k][f] = IF ~asked(o, f) THEN rows[k][f]
                                          ELSE IF f = call'.expr THEN Evaluated(rows[k][f])
                                          ELSE obj[o][f]]_<<vars, stored>>

(* CreatesAreStored: after a create that answers success every object that *)
(* was passed has the key of a new row, which holds the object's fields;   *)
(* there are no other new rows, and the old ones are as they were          *)
(* (QuerySet.BulkCreate).                                                  *)
CreatesAreStored ==
    [][(answer'.op = "create" /\ answer'.status = "ok") =>
        LET os == call'.objs
            new == DOMAIN rows' \ DOMAIN rows
        IN  /\ new = {obj'[o].key : o \in ToSet(os)}
            /\ Cardinality(new) = Len(os) /\ answer'.value = Len(os)
            /\ \A o \in ToSet(os), f \in Columns : rows'[obj'[o].key][f] = obj[o][f]
            /\ \A k \in DOMAIN rows : rows'[k] = rows[k]]_<<vars, stored>>

(* ObjectsAreWhole: SaveObject and DeleteObject touch the row with the     *)
(* object's key alone, and SaveObject makes a row for an object without a  *)
(* key only.  What has changed is whole, also when a receiver of a signal  *)
(* made the answer an error: after SaveObject the row holds every field    *)
(* that is not zero, and after success there is such a row                 *)
(* (queries_helpers.go).                                                   *)
ObjectsAreWhole ==
    [][answer'.op \in {"save", "remove"} =>
        LET o == Head(call'.objs)
            k == obj'[o].key
            made == obj[o].key = 0
            others(rs) == [j \in DOMAIN rs \ {k} |-> rs[j]]
            whole == k \in DOMAIN rows' /\ \A f \in Columns :
                        (made \/ obj[o][f] # 0) => rows'[k][f] = obj[o][f]
        IN  /\ others(rows') = others(rows)
            /\ k \in DOMAIN rows' \ DOMAIN rows => made
            /\ (answer'.op = "save" /\ (answer'.status = "ok" \/ rows' # rows)) => whole
            /\ answer'.op = "remove" =>
                  /\ obj' = obj /\ (k \in DOMAIN rows' => rows' = rows)
                  /\ answer'.status = "ok" => k \notin DOMAIN rows']_<<vars, stored>>
=============================================================================
