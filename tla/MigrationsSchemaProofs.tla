---------------------- MODULE MigrationsSchemaProofs ----------------------
(***************************************************************************)
(* The schema is the one that is recorded, for all models, fields, designs *)
(* and processes, when migrations are made only after all the others are   *)
(* applied: what a migration has yet to do leads from the columns of the   *)
(* table to those of the migration, whatever other processes do to it.     *)
(***************************************************************************)
EXTENDS MigrationsProofs

\* From action k on, the actions lead from the columns to the fields.
Leads(columns, fields, actions, k) ==
    IF columns = NoTable
    THEN \E i \in DOMAIN actions : i > k /\ actions[i].type = "create"
    ELSE LET left(type, f) ==
                \E i \in DOMAIN actions :
                   i > k /\ actions[i].type = type /\ actions[i].field = f
         IN  /\ \A f \in DOMAIN fields \ DOMAIN columns : left("add", f)
             /\ \A f \in DOMAIN columns \ DOMAIN fields : left("remove", f)
             /\ \A f \in DOMAIN fields \intersect DOMAIN columns :
                   columns[f] # fields[f] => left("alter", f)
Covers(columns, mig, k) == Leads(columns, mig.table.fields, mig.actions, k)

\* The last migration of its model, the fields of the last that is recorded,
\* and a process that has begun with one that is not.
IsLast(mig) ==
    \A other \in files \union pending :
       other.model = mig.model => other.order <= mig.order
Done(m) == {mig \in Of(m, files) : Name(mig) \in recorded}
DoneFields(m) == IF Done(m) = {} THEN NoTable ELSE Latest(m, Done(m)).table.fields
OnIt(p, m) == run[p].mig # None /\ run[p].mig.model = m
Changing(p, m) ==
    OnIt(p, m) /\ run[p].next > 1 /\ Name(run[p].mig) \notin recorded

\* Only the last migration of a model may be left to apply, it leads from what
\* is recorded to its own fields, and no process works on another.
NewIsLast ==
    \A mig \in files \union pending : Name(mig) \notin recorded =>
       IsLast(mig) /\ Covers(DoneFields(mig.model), mig, 0)
Works(p) ==
    /\ ~run[p].working => run[p].todo = {} /\ run[p].mig = None
    /\ \A mig \in run[p].todo : IsLast(mig)
    /\ run[p].mig # None => IsLast(run[p].mig) /\ run[p].next >= 1

\* A table is as recorded until a process has begun to change it, and then the
\* actions that this process has left lead to the new fields.
Between ==
    \A m \in Model \ broken :
       (\A p \in Proc : ~Changing(p, m)) => schema[m] = DoneFields(m)
Halfway ==
    \A m \in Model \ broken, p \in Proc :
       Changing(p, m) => Covers(schema[m], run[p].mig, run[p].next - 1)

SchemaInv ==
    /\ TypeInv
    /\ NewIsLast
    /\ \A p \in Proc : Works(p)
    /\ Between
    /\ Halfway

-----------------------------------------------------------------------------
(* The difference of two tables. *)

\* Every element of a finite set is in its sequence.
LEMMA AllInSequence ==
  ASSUME NEW S, IsFiniteSet(S), NEW x \in S
  PROVE  \E i \in DOMAIN SetToSeq(S) : SetToSeq(S)[i] = x
<1> DEFINE n == Cardinality(S)
           s == SetToSeq(S)
<1>1. n \in Nat /\ ExistsBijection(1 .. n, S)
  BY FS_CardinalityType
<1>2. \E f \in [1 .. n -> S] : IsInjective(f)
  BY <1>1 DEF ExistsBijection, Bijection, Injection
<1>3. s \in [1 .. n -> S] /\ IsInjective(s)
  BY <1>2 DEF SetToSeq
<1>4. s \in Injection(1 .. n, S)
  BY <1>3 DEF Injection, IsInjective
<1>5. Cardinality(1 .. n) = n
  BY <1>1, FS_Interval
<1> HIDE DEF s, n
<1>6. s \in Surjection(1 .. n, S)
  BY <1>4, <1>5, FS_Injection DEF n
<1> QED
  BY <1>3, <1>6 DEF Surjection, s

\* An action of a sequence, and of what it is a part of.
Has(s, a) == \E i \in DOMAIN s : s[i] = a

LEMMA ConcatHas ==
  ASSUME NEW S, NEW s \in Seq(S), NEW t \in Seq(S), NEW a
  PROVE  Has(s, a) \/ Has(t, a) => Has(s \o t, a)
<1>1. /\ Len(s) \in Nat /\ Len(t) \in Nat
      /\ DOMAIN s = 1 .. Len(s) /\ DOMAIN t = 1 .. Len(t)
  BY LenProperties
<1>2. /\ s \o t \in Seq(S) /\ Len(s \o t) = Len(s) + Len(t)
      /\ \A i \in 1 .. Len(s) + Len(t) :
            (s \o t)[i] = IF i <= Len(s) THEN s[i] ELSE t[i - Len(s)]
  BY ConcatProperties
<1>3. DOMAIN (s \o t) = 1 .. Len(s) + Len(t)
  BY <1>2, LenProperties
<1> DEFINE u == s \o t
<1> HIDE DEF u
<1>4. ASSUME NEW i \in 1 .. Len(s), s[i] = a PROVE Has(s \o t, a)
  <2>1. i \in DOMAIN u /\ u[i] = s[i]
    BY <1>1, <1>2, <1>3 DEF u
  <2> QED
    BY <1>4, <2>1 DEF Has, u
<1>5. ASSUME NEW i \in 1 .. Len(t), t[i] = a PROVE Has(s \o t, a)
  <2> DEFINE j == i + Len(s)
  <2>1. j \in 1 .. Len(s) + Len(t) /\ ~(j <= Len(s)) /\ j - Len(s) = i
    BY <1>1
  <2> HIDE DEF j
  <2>2. j \in DOMAIN u /\ u[j] = t[i]
    BY <1>2, <1>3, <2>1 DEF u
  <2> QED
    BY <1>5, <2>2 DEF Has, u
<1> QED
  BY <1>1, <1>4, <1>5 DEF Has

LEMMA EachHas ==
  ASSUME NEW type, NEW S \in SUBSET Field, NEW f \in S
  PROVE  Has(Each(type, S), [type |-> type, field |-> f])
<1>1. IsFiniteSet(S)
  BY FieldsAssumption, FS_Subset
<1>2. PICK i \in DOMAIN SetToSeq(S) : SetToSeq(S)[i] = f
  BY <1>1, AllInSequence
<1>3. i \in DOMAIN Each(type, S) /\ Each(type, S)[i] = [type |-> type, field |-> f]
  BY <1>2 DEF Each
<1> QED
  BY <1>3 DEF Has

\* The difference leads from the old columns to the new ones.
LEMMA DiffLeads ==
  ASSUME NEW old \in Table \union {NoTable}, NEW new \in Table
  PROVE  Leads(IF old = NoTable THEN NoTable ELSE old.fields,
               new.fields, Diff(old, new), 0)
<1>1. CASE old = NoTable
  <2>1. Diff(old, new) = <<[type |-> "create", field |-> None]>>
    BY <1>1 DEF Diff
  <2>2. DOMAIN Diff(old, new) = {1} /\ Diff(old, new)[1].type = "create"
    BY <2>1
  <2> QED
    BY <1>1, <2>2 DEF Leads
<1>2. CASE old # NoTable
  <2> DEFINE was == DOMAIN old.fields
             is == DOMAIN new.fields
             d == Diff(old, new)
             both == {f \in is \intersect was : old.fields[f] # new.fields[f]}
             s1 == Each("add", is \ was)
             s2 == Each("remove", was \ is)
             s3 == Each("alter", both)
             s4 == Each("dropIndex", old.indexes \ new.indexes)
             s5 == Each("addIndex", new.indexes \ old.indexes)
             F == Fit(new)
  <2>1. /\ was \subseteq Field /\ is \subseteq Field
        /\ old.indexes \subseteq Field /\ new.indexes \subseteq Field
        /\ old.fields \in Columns
    BY <1>2 DEF Table, Columns
  <2>2. old.fields # NoTable
    BY <2>1, NoneAssumption
  <2>3. {"add", "remove", "alter", "dropIndex", "addIndex"} \subseteq ActionTypes
    BY DEF ActionTypes
  <2>4. s1 \in Seq(F) /\ s2 \in Seq(F) /\ s3 \in Seq(F) /\ s4 \in Seq(F) /\ s5 \in Seq(F)
    <3>1. s1 \in Seq(F)
      BY <2>1, <2>3, EachFits
    <3>2. s2 \in Seq(F)
      BY <2>1, <2>3, EachFits
    <3>3. s3 \in Seq(F)
      BY <2>1, <2>3, EachFits
    <3>4. s4 \in Seq(F)
      BY <2>1, <2>3, EachFits
    <3>5. s5 \in Seq(F)
      BY <2>1, <2>3, EachFits
    <3> QED
      BY <3>1, <3>2, <3>3, <3>4, <3>5
  <2>5. d = s1 \o s2 \o s3 \o s4 \o s5
    BY <1>2 DEF Diff
  <2>6. d \in Seq(F)
    BY DiffFits
  <2> HIDE DEF d, s1, s2, s3, s4, s5, F
  <2>7. ASSUME NEW a, Has(s1, a) \/ Has(s2, a) \/ Has(s3, a)
        PROVE  \E i \in DOMAIN d : i > 0 /\ d[i] = a
    <3>1. s1 \o s2 \in Seq(F) /\ s1 \o s2 \o s3 \in Seq(F) /\ s1 \o s2 \o s3 \o s4 \in Seq(F)
      BY <2>4, ConcatProperties
    <3>2. Has(s1 \o s2 \o s3, a)
      BY <2>4, <2>7, <3>1, ConcatHas
    <3>3. Has(s1 \o s2 \o s3 \o s4, a)
      BY <2>4, <3>1, <3>2, ConcatHas
    <3>4. Has(d, a)
      BY <2>4, <2>5, <3>1, <3>3, ConcatHas
    <3>5. DOMAIN d = 1 .. Len(d) /\ Len(d) \in Nat
      BY <2>6, LenProperties
    <3> QED
      BY <3>4, <3>5 DEF Has
  <2>8. ASSUME NEW type, NEW f,
               Has(s1, [type |-> type, field |-> f]) \/ Has(s2, [type |-> type, field |-> f])
               \/ Has(s3, [type |-> type, field |-> f])
        PROVE  \E i \in DOMAIN d : i > 0 /\ d[i].type = type /\ d[i].field = f
    <3>1. PICK i \in DOMAIN d : i > 0 /\ d[i] = [type |-> type, field |-> f]
      BY <2>7, <2>8
    <3> QED
      BY <3>1
  <2>9. \A f \in is \ was : Has(s1, [type |-> "add", field |-> f])
    BY <2>1, EachHas DEF s1
  <2>10. \A f \in was \ is : Has(s2, [type |-> "remove", field |-> f])
    BY <2>1, EachHas DEF s2
  <2>11. \A f \in both : Has(s3, [type |-> "alter", field |-> f])
    BY <2>1, EachHas DEF s3
  <2>12. \A f \in is \intersect was : old.fields[f] # new.fields[f] => f \in both
    OBVIOUS
  <2> HIDE DEF both
  <2> DEFINE left(type, f) ==
                \E i \in DOMAIN d : i > 0 /\ d[i].type = type /\ d[i].field = f
  <2>13. \A f \in is \ was : left("add", f)
    <3> SUFFICES ASSUME NEW f \in is \ was PROVE left("add", f)
      OBVIOUS
    <3>1. Has(s1, [type |-> "add", field |-> f])
      BY <2>9
    <3> QED
      BY <2>8, <3>1
  <2>14. \A f \in was \ is : left("remove", f)
    <3> SUFFICES ASSUME NEW f \in was \ is PROVE left("remove", f)
      OBVIOUS
    <3>1. Has(s2, [type |-> "remove", field |-> f])
      BY <2>10
    <3> QED
      BY <2>8, <3>1
  <2>15. \A f \in is \intersect was : old.fields[f] # new.fields[f] => left("alter", f)
    <3> SUFFICES ASSUME NEW f \in is \intersect was, old.fields[f] # new.fields[f]
                 PROVE  left("alter", f)
      OBVIOUS
    <3>1. Has(s3, [type |-> "alter", field |-> f])
      BY <2>11, <2>12
    <3> QED
      BY <2>8, <3>1
  <2>16. Leads(old.fields, new.fields, d, 0)
    BY <2>2, <2>13, <2>14, <2>15 DEF Leads
  <2> QED
    BY <1>2, <2>16 DEF d
<1> QED
  BY <1>1, <1>2

-----------------------------------------------------------------------------
(* What an action does to a table. *)

\* Nothing leads from fields to themselves; what is left of the actions after
\* the last of them leads from nothing but the new fields.
LEMMA LeadsItself ==
  ASSUME NEW fields \in Columns, NEW actions, NEW k
  PROVE  Leads(fields, fields, actions, k)
BY NoneAssumption DEF Leads

LEMMA LeadsFromEnd ==
  ASSUME NEW columns \in Columns \union {NoTable}, NEW fields \in Columns,
         NEW actions, NEW k, \A i \in DOMAIN actions : ~(i > k),
         Leads(columns, fields, actions, k)
  PROVE  columns = fields
<1>1. columns # NoTable
  BY DEF Leads
<1>2. /\ DOMAIN fields \subseteq DOMAIN columns /\ DOMAIN columns \subseteq DOMAIN fields
      /\ \A f \in DOMAIN fields \intersect DOMAIN columns : columns[f] = fields[f]
  BY <1>1 DEF Leads
<1>3. /\ columns = [f \in DOMAIN columns |-> columns[f]]
      /\ fields = [f \in DOMAIN fields |-> fields[f]]
  BY <1>1 DEF Columns
<1>4. DOMAIN columns = DOMAIN fields
  BY <1>2
<1> QED
  BY <1>2, <1>3, <1>4

LEMMA LeadsFewer ==
  ASSUME NEW columns, NEW fields, NEW actions, NEW k \in Nat, NEW j \in Nat, j <= k,
         DOMAIN actions \subseteq Nat, Leads(columns, fields, actions, k)
  PROVE  Leads(columns, fields, actions, j)
<1>1. \A i \in DOMAIN actions : i > k => i > j
  OBVIOUS
<1> QED
  BY <1>1 DEF Leads

\* An action that the database accepts leaves what the others lead to, and is
\* no longer needed itself.
LEMMA ResultCovers ==
  ASSUME TypeInv, NEW mig \in files, NEW i \in DOMAIN mig.actions,
         Accepts(mig.actions[i], mig), NEW k, NEW j,
         \A x \in DOMAIN mig.actions : x > k => x > j \/ x = i,
         Covers(schema[mig.model], mig, k)
  PROVE  Covers(Result(mig.actions[i], mig), mig, j)
<1> DEFINE a == mig.actions[i]
           f == a.field
           c == schema[mig.model]
           new == mig.table.fields
           acts == mig.actions
           r == Result(a, mig)
<1>1. WellMade(mig) /\ mig.model \in Model /\ mig.table \in Table
  BY DEF TypeInv, WellMade, Migration
<1>2. a \in Fit(mig.table) /\ new \in Columns /\ c \in Columns \union {NoTable}
  BY <1>1 DEF WellMade, Table, TypeInv, TypeOK
<1>3. r \in Columns /\ r # NoTable
  BY ResultTyped, NoneAssumption
<1>4. CASE a.type \in {"create", "alter"}
  <2>1. r = new
    BY <1>4 DEF Result
  <2> QED
    BY <1>2, <2>1, LeadsItself DEF Covers
<1> DEFINE left(l, type, g) ==
             \E x \in DOMAIN acts : x > l /\ acts[x].type = type /\ acts[x].field = g
<1>5. ASSUME c # NoTable
      PROVE  /\ \A g \in DOMAIN new \ DOMAIN c : left(k, "add", g)
             /\ \A g \in DOMAIN c \ DOMAIN new : left(k, "remove", g)
             /\ \A g \in DOMAIN new \intersect DOMAIN c : c[g] # new[g] => left(k, "alter", g)
  BY <1>5 DEF Covers, Leads
<1>6. ASSUME NEW type, NEW g, left(k, type, g), type # a.type \/ g # f
      PROVE  left(j, type, g)
  BY <1>6
<1>7. ASSUME /\ \A g \in DOMAIN new \ DOMAIN r : left(j, "add", g)
             /\ \A g \in DOMAIN r \ DOMAIN new : left(j, "remove", g)
             /\ \A g \in DOMAIN new \intersect DOMAIN r : r[g] # new[g] => left(j, "alter", g)
      PROVE  Covers(r, mig, j)
  BY <1>3, <1>7 DEF Covers, Leads
<1>8. CASE a.type = "add"
  <2>1. c # NoTable /\ f \in DOMAIN new /\ f \notin DOMAIN c
    BY <1>2, <1>8 DEF Accepts, Fit
  <2>2. r = [g \in DOMAIN c \union {f} |-> IF g \in DOMAIN c THEN c[g] ELSE new[g]]
    BY <1>8 DEF Result
  <2> HIDE DEF c, a, r, new, acts, f, left
  <2>3. /\ DOMAIN r = DOMAIN c \union {f} /\ r[f] = new[f]
        /\ \A g \in DOMAIN c : r[g] = c[g]
    BY <2>1, <2>2
  <2>4. \A g \in DOMAIN new \ DOMAIN r : left(j, "add", g)
    BY <1>5, <1>6, <2>1, <2>3
  <2>5. \A g \in DOMAIN r \ DOMAIN new : left(j, "remove", g)
    BY <1>5, <1>6, <1>8, <2>1, <2>3
  <2>6. \A g \in DOMAIN new \intersect DOMAIN r : r[g] # new[g] => left(j, "alter", g)
    BY <1>5, <1>6, <1>8, <2>1, <2>3
  <2> QED
    BY <1>7, <2>4, <2>5, <2>6 DEF r, a
<1>9. CASE a.type = "remove"
  <2>1. c # NoTable /\ f \notin DOMAIN new
    BY <1>2, <1>9 DEF Accepts, Fit
  <2>2. r = Restrict(c, DOMAIN c \ {f})
    BY <1>9 DEF Result
  <2> HIDE DEF c, a, r, new, acts, f, left
  <2>3. DOMAIN r = DOMAIN c \ {f} /\ \A g \in DOMAIN r : r[g] = c[g]
    BY <2>2 DEF Restrict
  <2>4. \A g \in DOMAIN new \ DOMAIN r : left(j, "add", g)
    BY <1>5, <1>6, <1>9, <2>1, <2>3
  <2>5. \A g \in DOMAIN r \ DOMAIN new : left(j, "remove", g)
    BY <1>5, <1>6, <2>1, <2>3
  <2>6. \A g \in DOMAIN new \intersect DOMAIN r : r[g] # new[g] => left(j, "alter", g)
    BY <1>5, <1>6, <1>9, <2>1, <2>3
  <2> QED
    BY <1>7, <2>4, <2>5, <2>6 DEF r, a
<1> QED
  BY <1>4, <1>8, <1>9 DEF Accepts

-----------------------------------------------------------------------------
(* The last migration. *)

\* The latest migration of a set of one model.
LEMMA LatestIs ==
  ASSUME NEW m, NEW S, NEW u \in S, \A a \in S : a.model = m,
         \A a \in S : a.order \in Nat /\ a.order <= u.order,
         \A a \in S : a.order = u.order => a = u
  PROVE  Latest(m, S) = u
<1>1. Of(m, S) = S
  BY DEF Of
<1>2. \A a \in S : (\A other \in S : other.order <= a.order) => a = u
  <2> SUFFICES ASSUME NEW a \in S, u.order <= a.order PROVE a = u
    OBVIOUS
  <2>1. a.order \in Nat /\ u.order \in Nat /\ a.order <= u.order
    OBVIOUS
  <2>2. a.order = u.order
    BY <2>1
  <2> QED
    BY <2>2
<1>3. Latest(m, S) = CHOOSE a \in S : \A other \in S : other.order <= a.order
  BY <1>1 DEF Latest
<1> QED
  BY <1>2, <1>3

LEMMA OneLast ==
  ASSUME TypeInv, NEW a \in files, NEW b \in files, IsLast(a), IsLast(b),
         a.model = b.model
  PROVE  a = b
<1>1. a.order <= b.order /\ b.order <= a.order
  BY DEF IsLast
<1>2. a.order \in Nat /\ b.order \in Nat
  BY DEF TypeInv, Numbered
<1>3. a.order = b.order
  BY <1>1, <1>2
<1> QED
  BY <1>3 DEF TypeInv, Numbered

LEMMA LastDone ==
  ASSUME TypeInv, NEW u \in files, IsLast(u), Name(u) \in recorded
  PROVE  DoneFields(u.model) = u.table.fields
<1> DEFINE S == Done(u.model)
<1>1. u \in S /\ \A a \in S : a \in files /\ a.model = u.model
  BY DEF Done, Of
<1>2. \A a \in S : a.order \in Nat /\ a.order <= u.order /\ (a.order = u.order => a = u)
  BY <1>1 DEF IsLast, TypeInv, Numbered
<1> HIDE DEF S
<1>3. Latest(u.model, S) = u
  BY <1>1, <1>2, LatestIs
<1> QED
  BY <1>1, <1>3 DEF DoneFields, S

\* What is recorded of a model stays when files that are not recorded are added.
LEMMA DoneStays ==
  ASSUME UNCHANGED recorded, files \subseteq files',
         \A mig \in files' \ files : Name(mig) \notin recorded, NEW m
  PROVE  Done(m)' = Done(m) /\ DoneFields(m)' = DoneFields(m)
<1>1. Done(m)' = Done(m)
  BY DEF Done, Of, Name
<1> QED
  BY <1>1 DEF DoneFields

-----------------------------------------------------------------------------
(* Steps of the maker. *)

LEMMA MakerFrameSchema ==
  ASSUME SchemaInv, TypeInv', UNCHANGED migrator, files \subseteq files',
         \A mig \in files' \ files : Name(mig) \notin recorded,
         NewIsLast', \A p \in Proc : Works(p)'
  PROVE  SchemaInv'
<1>1. \A m : DoneFields(m)' = DoneFields(m)
  BY DoneStays DEF migrator
<1>2. \A m, p : Changing(p, m)' <=> Changing(p, m)
  BY DEF migrator, Changing, OnIt, Name
<1>3. Between'
  BY <1>1, <1>2 DEF SchemaInv, Between, migrator
<1>4. Halfway'
  BY <1>2 DEF SchemaInv, Halfway, migrator
<1> QED
  BY <1>3, <1>4 DEF SchemaInv

\* Without a new migration.
LEMMA MakerKeepsSchema ==
  ASSUME SchemaInv, TypeInv', UNCHANGED migrator, files \subseteq files',
         files' \union pending' \subseteq files \union pending,
         \A mig \in files' \ files : Name(mig) \notin recorded
  PROVE  SchemaInv'
<1>1. \A m : DoneFields(m)' = DoneFields(m)
  BY DoneStays DEF migrator
<1>2. ASSUME NEW mig, IsLast(mig) PROVE IsLast(mig)'
  BY <1>2 DEF IsLast
<1>3. NewIsLast'
  BY <1>1, <1>2 DEF SchemaInv, NewIsLast, migrator, Name
<1>4. \A p \in Proc : Works(p)'
  BY <1>2 DEF SchemaInv, Works, migrator
<1> QED
  BY <1>3, <1>4, MakerFrameSchema

LEMMA WriteKeepsSchema ==
  ASSUME SchemaInv, TypeInv', NEW mig \in pending, WriteMigration(mig)
  PROVE  SchemaInv'
<1>1. Name(mig) \notin recorded
  <2>1. \A old \in files : Name(old) # Name(mig)
    <3>1. \A old \in files : old.model = mig.model => old.order # mig.order
      BY DEF SchemaInv, TypeInv, Numbered, Of
    <3> QED
      BY <3>1, NameTells
  <2> QED
    BY <2>1 DEF SchemaInv, TypeInv, TypeOK, Names
<1> QED
  BY <1>1, MakerKeepsSchema DEF WriteMigration

\* The new migrations lead from the recorded tables to the tables of the code.
LEMMA MakeKeepsSchema ==
  ASSUME Prompt, SchemaInv, TypeInv', MakeMigrations
  PROVE  SchemaInv'
<1>1. /\ UNCHANGED migrator /\ files' = files
      /\ pending' = {[mig EXCEPT !.deps = Dependencies(mig)] : mig \in Drafts}
      /\ AllIdle /\ Names(files) \subseteq recorded
  BY DEF MakeMigrations
<1>2. \A p \in Proc : Works(p)'
  BY <1>1 DEF SchemaInv, Works, AllIdle, migrator
<1>3. ASSUME NEW mig \in files' \union pending', Name(mig) \notin recorded
      PROVE  IsLast(mig)' /\ Covers(DoneFields(mig.model), mig, 0)
  <2>1. mig \in pending'
    BY <1>1, <1>3 DEF Names
  <2>2. PICK m \in Model : mig = [NewMigration(m) EXCEPT !.deps = Dependencies(NewMigration(m))]
    BY <1>1, <2>1 DEF Drafts
  <2>3. /\ mig.model = m /\ mig.table = code[m]
        /\ mig.actions = Diff(LastTable(m), code[m])
    BY <2>2 DEF NewMigration
  <2>4. IsLast(mig)'
    <3>1. \A other \in pending' : other.model = mig.model => other = mig
      BY <2>1 DEF TypeInv, Numbered
    <3>2. \A other \in files' : other.model = mig.model => other.order < mig.order
      BY <2>1 DEF TypeInv, Numbered, Of
    <3>3. \A other \in files' \union pending' : other.order \in Nat
      BY DEF TypeInv, Numbered
    <3> QED
      BY <2>1, <3>1, <3>2, <3>3 DEF IsLast
  <2>5. Done(m) = Of(m, files) /\ Of(m, Of(m, files)) = Of(m, files)
    BY <1>1 DEF Done, Of, Names
  <2>6. code[m] \in Table
    BY DEF SchemaInv, TypeInv
  <2>7. DoneFields(m) = IF LastTable(m) = NoTable THEN NoTable ELSE LastTable(m).fields
    <3>1. CASE Of(m, files) = {}
      BY <2>5, <3>1 DEF DoneFields, LastTable
    <3>2. CASE Of(m, files) # {}
      <4>1. Latest(m, Of(m, files)) = Latest(m, files)
        BY <2>5 DEF Latest
      <4>2. Latest(m, files) \in Of(m, files)
        BY <3>2 DEF SchemaInv, TypeInv, Numbered, Latest
      <4>3. Latest(m, files).table \in Table
        BY <4>2 DEF Of, SchemaInv, TypeInv, TypeOK, Migration
      <4> QED
        BY <2>5, <3>2, <4>1, <4>3, NoneAssumption DEF DoneFields, LastTable
    <3> QED
      BY <3>1, <3>2
  <2>8. LastTable(m) \in Table \union {NoTable}
    BY LastTableTyped DEF SchemaInv
  <2>9. Leads(DoneFields(m), code[m].fields, Diff(LastTable(m), code[m]), 0)
    BY <2>6, <2>7, <2>8, DiffLeads
  <2> QED
    BY <2>3, <2>4, <2>9 DEF Covers
<1>4. \A m : DoneFields(m)' = DoneFields(m)
  BY <1>1, DoneStays DEF migrator
<1>5. NewIsLast'
  BY <1>1, <1>3, <1>4 DEF NewIsLast, migrator, Name
<1> QED
  BY <1>1, <1>2, <1>5, MakerFrameSchema

-----------------------------------------------------------------------------
(* Steps of Migrate. *)

\* One process moves, and changes no table beside broken ones.
LEMMA RunFrame ==
  ASSUME SchemaInv, TypeInv', NEW p \in Proc, NEW r,
         UNCHANGED <<files, pending, recorded>>, run' = [run EXCEPT ![p] = r],
         broken \subseteq broken', Works(p)',
         \A m \in Model \ broken' : /\ schema'[m] = schema[m]
                                    /\ ~Changing(p, m) /\ ~Changing(p, m)'
  PROVE  SchemaInv'
<1>1. \A m : DoneFields(m)' = DoneFields(m)
  BY DoneStays
<1>2. ASSUME NEW mig PROVE IsLast(mig)' <=> IsLast(mig)
  BY DEF IsLast
<1>3. NewIsLast'
  BY <1>1, <1>2 DEF SchemaInv, NewIsLast, Name
<1>4. run'[p] = r /\ \A q \in Proc : q # p => run'[q] = run[q]
  BY DEF SchemaInv, TypeInv, TypeOK
<1>5. \A q \in Proc : Works(q)'
  BY <1>2, <1>4 DEF SchemaInv, Works
<1>6. \A m \in Model \ broken', q \in Proc : Changing(q, m)' <=> Changing(q, m)
  BY <1>4 DEF Changing, OnIt, Name
<1>7. Between'
  BY <1>1, <1>6 DEF SchemaInv, Between
<1>8. Halfway'
  <2> SUFFICES ASSUME NEW m \in Model \ broken', NEW q \in Proc, Changing(q, m)
               PROVE  Covers(schema'[m], run'[q].mig, run'[q].next - 1)
    BY <1>6 DEF Halfway
  <2>1. q # p /\ m \in Model \ broken
    OBVIOUS
  <2> QED
    BY <1>4, <2>1 DEF SchemaInv, Halfway
<1> QED
  BY <1>3, <1>5, <1>7, <1>8 DEF SchemaInv

LEMMA IdleSchema ==
  ASSUME NEW result
  PROVE  Idle(result).todo = {} /\ Idle(result).mig = None
BY DEF Idle

LEMMA MigrateKeepsSchema ==
  ASSUME SchemaInv, TypeInv', NEW p \in Proc, Migrate(p)
  PROVE  SchemaInv'
<1> DEFINE begun == [Idle("none") EXCEPT !.working = TRUE, !.todo = Unapplied]
<1>1. PICK r \in {Idle("missing"), Idle("cyclic"), begun} : run' = [run EXCEPT ![p] = r]
  BY DEF Migrate
<1>2. run'[p] = r /\ UNCHANGED <<files, pending, schema, recorded, broken>>
  BY <1>1 DEF Migrate, maker, SchemaInv, TypeInv, TypeOK
<1>3. r.mig = None /\ (r.todo = {} \/ r = begun)
  BY <1>1, IdleSchema DEF Idle
<1>4. begun.todo = Unapplied /\ begun.working
  BY DEF Idle
<1> HIDE DEF begun
<1>5. \A mig \in Unapplied : IsLast(mig)
  BY DEF Unapplied, SchemaInv, NewIsLast
<1>6. \A mig \in Unapplied : IsLast(mig)'
  BY <1>2, <1>5 DEF IsLast
<1>7. Works(p)'
  BY <1>2, <1>3, <1>4, <1>6 DEF Works
<1>8. \A m : ~Changing(p, m) /\ ~Changing(p, m)'
  BY <1>2, <1>3 DEF Changing, OnIt, Migrate, SchemaInv, Works
<1> QED
  BY <1>1, <1>2, <1>7, <1>8, RunFrame

LEMMA VisitKeepsSchema ==
  ASSUME SchemaInv, TypeInv', NEW p \in Proc, NEW mig \in run[p].todo, Visit(p, mig)
  PROVE  SchemaInv'
<1>1. PICK next \in {mig, None} :
         run' = [run EXCEPT ![p].todo = @ \ {mig}, ![p].mig = next, ![p].next = 1]
  BY DEF Visit
<1> DEFINE r == [run[p] EXCEPT !.todo = @ \ {mig}, !.mig = next, !.next = 1]
<1>2. run[p] \in Runs /\ run \in [Proc -> Runs]
  BY DEF SchemaInv, TypeInv, TypeOK
<1>3. /\ run' = [run EXCEPT ![p] = r] /\ run'[p] = r
      /\ r.working = run[p].working /\ r.todo = run[p].todo \ {mig}
      /\ r.mig = next /\ r.next = 1
  BY <1>1, <1>2 DEF Runs
<1> HIDE DEF r
<1>4. UNCHANGED <<files, pending, schema, recorded, broken>> /\ run[p].mig = None
      /\ run[p].working
  BY DEF Visit, maker
<1>5. \A t \in run[p].todo : IsLast(t)
  BY DEF SchemaInv, Works
<1>6. \A t \in run[p].todo : IsLast(t)'
  BY <1>4, <1>5 DEF IsLast
<1>7. Works(p)'
  <2>1. run'[p].working /\ \A t \in run'[p].todo : IsLast(t)'
    BY <1>3, <1>4, <1>6
  <2>2. (run[p].mig # None => IsLast(run[p].mig) /\ run[p].next >= 1)'
    <3>1. (next # None => IsLast(next))'
      BY <1>1, <1>6
    <3> QED
      BY <1>3, <3>1
  <2> QED
    BY <2>1, <2>2 DEF Works
<1>8. \A m : ~Changing(p, m) /\ ~Changing(p, m)'
  BY <1>3, <1>4 DEF Changing, OnIt
<1> QED
  BY <1>3, <1>4, <1>7, <1>8, RunFrame

LEMMA EndKeepsSchema ==
  ASSUME SchemaInv, TypeInv', NEW p \in Proc, MigrateEnds(p)
  PROVE  SchemaInv'
<1>1. /\ run' = [run EXCEPT ![p] = Idle("ok")] /\ run[p].mig = None
      /\ UNCHANGED <<files, pending, schema, recorded, broken>>
  BY DEF MigrateEnds, maker
<1>2. run'[p] = Idle("ok")
  BY <1>1 DEF SchemaInv, TypeInv, TypeOK
<1>3. Works(p)' /\ \A m : ~Changing(p, m) /\ ~Changing(p, m)'
  BY <1>1, <1>2, IdleSchema DEF Works, Changing, OnIt
<1> QED
  BY <1>1, <1>3, RunFrame

LEMMA StopKeepsSchema ==
  ASSUME SchemaInv, TypeInv', NEW p \in Proc, MigrateStops(p)
  PROVE  SchemaInv'
<1> DEFINE mig == run[p].mig
<1>1. /\ run' = [run EXCEPT ![p] = Idle("failed")]
      /\ UNCHANGED <<files, pending, recorded>>
  BY DEF MigrateStops, maker
<1>2. run'[p] = Idle("failed")
  BY <1>1 DEF SchemaInv, TypeInv, TypeOK
<1>3. Works(p)' /\ \A m : ~Changing(p, m)'
  BY <1>2, IdleSchema DEF Works, Changing, OnIt
<1>4. CASE mig = None
  <2>1. UNCHANGED <<schema, broken>> /\ \A m : ~Changing(p, m)
    BY <1>4 DEF MigrateStops, Changing, OnIt
  <2> QED
    BY <1>1, <1>3, <2>1, RunFrame
<1>5. CASE mig # None
  <2>1. schema' = schema \/ \E columns : schema' = [schema EXCEPT ![mig.model] = columns]
    BY <1>5 DEF MigrateStops
  <2>2. broken' = IF schema' # schema \/ (run[p].next > 1 /\ Name(mig) \notin recorded)
                  THEN broken \union {mig.model} ELSE broken
    BY <1>5 DEF MigrateStops
  <2>3. broken \subseteq broken'
    BY <2>2
  <2>4. ASSUME NEW m \in Model \ broken'
        PROVE  schema'[m] = schema[m] /\ ~Changing(p, m)
    <3>1. CASE m = mig.model
      <4>1. schema' = schema /\ ~(run[p].next > 1 /\ Name(mig) \notin recorded)
        BY <2>2, <2>4, <3>1
      <4> QED
        BY <4>1 DEF Changing
    <3>2. CASE m # mig.model
      BY <2>1, <3>2 DEF SchemaInv, TypeInv, TypeOK, Changing, OnIt
    <3> QED
      BY <3>1, <3>2
  <2> QED
    BY <1>1, <1>3, <2>3, <2>4, RunFrame
<1> QED
  BY <1>4, <1>5

\* What a process works on, and the others on the same model.
LEMMA AtWork ==
  ASSUME SchemaInv, NEW p \in Proc, run[p].mig # None
  PROVE  LET u == run[p].mig
         IN  /\ u \in files /\ IsLast(u) /\ u.model \in Model
             /\ u.table.fields \in Columns /\ Len(u.actions) \in Nat \ {0}
             /\ DOMAIN u.actions = 1 .. Len(u.actions)
             /\ run[p].next \in Nat /\ run[p].next >= 1
             /\ \A q \in Proc : OnIt(q, u.model) => run[q].mig = u
<1> DEFINE u == run[p].mig
<1>1. u \in files /\ IsLast(u) /\ run[p].next \in Nat /\ run[p].next >= 1
  BY DEF SchemaInv, TypeInv, TypeOK, Runs, Works
<1>2. WellMade(u)
  BY <1>1 DEF SchemaInv, TypeInv
<1>3. u.model \in Model /\ u.table.fields \in Columns
  BY <1>2 DEF WellMade, Migration, Table
<1>4. u.actions \in Seq(Fit(u.table)) /\ u.actions # <<>>
  BY <1>2 DEF WellMade
<1>5. Len(u.actions) \in Nat \ {0} /\ DOMAIN u.actions = 1 .. Len(u.actions)
  BY <1>4, LenProperties, EmptySeq
<1>6. ASSUME NEW q \in Proc, OnIt(q, u.model) PROVE run[q].mig = u
  <2>1. run[q].mig \in files /\ IsLast(run[q].mig) /\ run[q].mig.model = u.model
    BY <1>6 DEF OnIt, SchemaInv, TypeInv, TypeOK, Runs, Works
  <2> QED
    BY <1>1, <2>1, OneLast DEF SchemaInv
<1> QED
  BY <1>1, <1>3, <1>5, <1>6

\* While a process works on a migration, all of it that is not done leads from
\* the table to its fields, and what is recorded is done.
LEMMA WorkCovers ==
  ASSUME SchemaInv, NEW p \in Proc, run[p].mig # None,
         run[p].mig.model \notin broken
  PROVE  LET u == run[p].mig
         IN  /\ Name(u) \notin recorded => Covers(schema[u.model], u, run[p].next - 1)
             /\ Name(u) \in recorded => schema[u.model] = u.table.fields
<1> DEFINE u == run[p].mig
           m == u.model
           c == schema[m]
<1>1. /\ u \in files /\ IsLast(u) /\ m \in Model /\ run[p].next \in Nat /\ run[p].next >= 1
      /\ DOMAIN u.actions = 1 .. Len(u.actions) /\ Len(u.actions) \in Nat
      /\ \A q \in Proc : OnIt(q, m) => run[q].mig = u
  BY AtWork
<1> HIDE DEF u, m
<1>2. CASE Name(u) \in recorded
  <2>1. \A q \in Proc : ~Changing(q, m)
    BY <1>1, <1>2 DEF Changing
  <2>2. c = DoneFields(m)
    BY <1>1, <2>1 DEF SchemaInv, Between, m, u
  <2>3. DoneFields(m) = u.table.fields
    BY <1>1, <1>2, LastDone DEF SchemaInv, m
  <2> QED
    BY <1>2, <2>2, <2>3 DEF u, m
<1>3. CASE Name(u) \notin recorded
  <2>1. CASE run[p].next > 1
    <3>1. Changing(p, m)
      BY <1>3, <2>1 DEF Changing, OnIt, u, m
    <3> QED
      BY <1>1, <1>3, <3>1 DEF SchemaInv, Halfway, u, m
  <2>2. CASE ~(run[p].next > 1)
    <3>1. run[p].next - 1 = 0
      BY <1>1, <2>2
    <3>2. CASE \A q \in Proc : ~Changing(q, m)
      <4>1. c = DoneFields(m)
        BY <1>1, <3>2 DEF SchemaInv, Between, m, u
      <4>2. Covers(DoneFields(m), u, 0)
        BY <1>1, <1>3 DEF SchemaInv, NewIsLast, m
      <4> QED
        BY <1>3, <3>1, <4>1, <4>2 DEF m, u
    <3>3. ASSUME NEW q \in Proc, Changing(q, m)
          PROVE  Covers(c, u, 0)
      <4>1. run[q].mig = u /\ run[q].next > 1 /\ run[q].next \in Nat
        BY <1>1, <3>3 DEF Changing, SchemaInv, TypeInv, TypeOK, Runs
      <4>2. Covers(c, u, run[q].next - 1)
        BY <1>1, <3>3, <4>1 DEF SchemaInv, Halfway, m, u
      <4>3. run[q].next - 1 \in Nat /\ 0 <= run[q].next - 1 /\ DOMAIN u.actions \subseteq Nat
        BY <1>1, <4>1
      <4> QED
        BY <4>2, <4>3, LeadsFewer DEF Covers
    <3> QED
      BY <1>3, <3>1, <3>2, <3>3 DEF u, m
  <2> QED
    BY <2>1, <2>2
<1> QED
  BY <1>2, <1>3 DEF u

LEMMA ApplyKeepsSchema ==
  ASSUME SchemaInv, TypeInv', NEW p \in Proc, ApplyAction(p),
         NEW u, u = run[p].mig, NEW m, m = u.model
  PROVE  SchemaInv'
<1> DEFINE i == run[p].next
           c == schema[m]
           r == Result(u.actions[i], u)
<1>1. /\ u # None /\ i \in DOMAIN u.actions /\ Accepts(u.actions[i], u)
      /\ schema' = [schema EXCEPT ![m] = r]
      /\ run' = [run EXCEPT ![p].next = @ + 1]
      /\ UNCHANGED <<files, pending, recorded, broken>>
  BY DEF ApplyAction, AtAction, maker
<1>2. /\ u \in files /\ IsLast(u) /\ m \in Model /\ i \in Nat /\ i >= 1
      /\ u.table.fields \in Columns
      /\ DOMAIN u.actions = 1 .. Len(u.actions) /\ Len(u.actions) \in Nat
      /\ \A q \in Proc : OnIt(q, m) => run[q].mig = u
  BY <1>1, AtWork
<1>3. /\ run[p] \in Runs /\ run \in [Proc -> Runs]
  BY DEF SchemaInv, TypeInv, TypeOK
<1>4. /\ run'[p].mig = u /\ run'[p].next = i + 1
      /\ run'[p].todo = run[p].todo /\ run'[p].working = run[p].working
      /\ \A q \in Proc : q # p => run'[q] = run[q]
  BY <1>1, <1>3 DEF Runs
<1>5. r \in Columns /\ schema'[m] = r /\ \A n \in Model : n # m => schema'[n] = schema[n]
  BY <1>1, <1>2, ResultTyped DEF SchemaInv, TypeInv, TypeOK
<1>6. ASSUME NEW k, NEW j, \A x \in DOMAIN u.actions : x > k => x > j \/ x = i,
             Covers(c, u, k)
      PROVE  Covers(r, u, j)
  BY <1>1, <1>2, <1>6, ResultCovers DEF SchemaInv
<1> HIDE DEF i, r
<1>7. \A q \in Proc : run'[q].mig = run[q].mig /\ OnIt(q, m)' = OnIt(q, m)
  BY <1>4 DEF OnIt
<1>8. \A n : DoneFields(n)' = DoneFields(n)
  BY <1>1, DoneStays
<1>9. ASSUME NEW mig PROVE IsLast(mig)' <=> IsLast(mig)
  BY <1>1 DEF IsLast
<1>10. NewIsLast'
  BY <1>1, <1>8, <1>9 DEF SchemaInv, NewIsLast, Name
<1>11. \A q \in Proc : Works(q)'
  <2>1. \A q \in Proc : q # p => Works(q)'
    BY <1>4, <1>9 DEF SchemaInv, Works
  <2>2. Works(p)'
    BY <1>2, <1>4, <1>9 DEF SchemaInv, Works
  <2> QED
    BY <2>1, <2>2
<1>12. ASSUME NEW n \in Model, n # m, NEW q \in Proc
       PROVE  Changing(q, n)' <=> Changing(q, n)
  BY <1>1, <1>4, <1>12 DEF Changing, OnIt, Name
<1>13. CASE Name(u) \in recorded
  <2>1. m \notin broken => r = u.table.fields
    <3> SUFFICES ASSUME m \notin broken PROVE r = u.table.fields
      OBVIOUS
    <3>1. c = u.table.fields
      BY <1>1, <1>13, WorkCovers
    <3>2. Covers(c, u, Len(u.actions))
      BY <1>2, <3>1, LeadsItself DEF Covers
    <3>3. Covers(r, u, Len(u.actions))
      BY <1>6, <3>2
    <3> QED
      BY <1>2, <1>5, <3>3, LeadsFromEnd DEF Covers
  <2>2. m \notin broken => DoneFields(m) = u.table.fields
    BY <1>2, <1>13, LastDone DEF SchemaInv
  <2>3. \A q \in Proc : ~Changing(q, m)'
    <3> SUFFICES ASSUME NEW q \in Proc, Changing(q, m)' PROVE FALSE
      OBVIOUS
    <3>1. run'[q].mig = u
      BY <1>2, <1>7 DEF Changing
    <3>2. recorded' = recorded /\ Name(run'[q].mig) \notin recorded'
      BY <1>1 DEF Changing
    <3> QED
      BY <1>13, <3>1, <3>2
  <2>4. Between'
    BY <1>1, <1>5, <1>8, <1>12, <2>1, <2>2 DEF SchemaInv, Between
  <2>5. Halfway'
    <3> SUFFICES ASSUME NEW n \in Model \ broken', NEW q \in Proc, Changing(q, n)'
                 PROVE  Covers(schema'[n], run'[q].mig, run'[q].next - 1)
      BY DEF Halfway
    <3>1. n # m
      BY <2>3
    <3>2. Changing(q, n) /\ n \in Model \ broken /\ schema'[n] = schema[n]
      BY <1>1, <1>5, <1>12, <3>1
    <3>3. q # p
      BY <3>1, <3>2 DEF Changing, OnIt
    <3> QED
      BY <1>4, <3>2, <3>3 DEF SchemaInv, Halfway
  <2> QED
    BY <1>10, <1>11, <2>4, <2>5 DEF SchemaInv
<1>14. CASE Name(u) \notin recorded
  <2>1. Changing(p, m)'
    BY <1>1, <1>2, <1>4, <1>14 DEF Changing, OnIt, Name
  <2>2. Between'
    BY <1>1, <1>5, <1>8, <1>12, <2>1 DEF SchemaInv, Between
  <2>3. ASSUME m \notin broken, NEW q \in Proc, Changing(q, m)'
        PROVE  Covers(r, u, run'[q].next - 1) /\ run'[q].mig = u
    <3>1. run'[q].mig = u
      BY <1>2, <1>7, <2>3 DEF Changing
    <3>2. CASE q = p
      <4>1. Covers(c, u, i - 1)
        BY <1>1, <1>14, <2>3, WorkCovers DEF i
      <4>2. \A x \in DOMAIN u.actions : x > i - 1 => x > i \/ x = i
        BY <1>2
      <4>3. Covers(r, u, i)
        BY <1>6, <4>1, <4>2
      <4>4. run'[q].next - 1 = i
        BY <1>2, <1>4, <3>2
      <4> QED
        BY <3>1, <4>3, <4>4
    <3>3. CASE q # p
      <4>1. run'[q] = run[q] /\ run[q].mig = u /\ run[q].mig # None
        BY <1>1, <1>4, <3>1, <3>3
      <4>2. Covers(c, u, run[q].next - 1)
        BY <1>14, <2>3, <4>1, WorkCovers
      <4>3. Covers(r, u, run[q].next - 1)
        BY <1>6, <4>2
      <4> QED
        BY <3>1, <4>1, <4>3
    <3> QED
      BY <3>2, <3>3
  <2>4. Halfway'
    <3> SUFFICES ASSUME NEW n \in Model \ broken', NEW q \in Proc, Changing(q, n)'
                 PROVE  Covers(schema'[n], run'[q].mig, run'[q].next - 1)
      BY DEF Halfway
    <3>1. CASE n = m
      BY <1>1, <1>5, <2>3, <3>1
    <3>2. CASE n # m
      <4>1. Changing(q, n) /\ n \in Model \ broken /\ schema'[n] = schema[n]
        BY <1>1, <1>5, <1>12, <3>2
      <4>2. q # p
        BY <3>2, <4>1 DEF Changing, OnIt
      <4> QED
        BY <1>4, <4>1, <4>2 DEF SchemaInv, Halfway
    <3> QED
      BY <3>1, <3>2
  <2> QED
    BY <1>10, <1>11, <2>2, <2>4 DEF SchemaInv
<1> QED
  BY <1>13, <1>14

\* A migration is recorded when none of its actions is left.
LEMMA StoreKeepsSchema ==
  ASSUME SchemaInv, TypeInv', NEW p \in Proc, StoreMigration(p),
         NEW u, u = run[p].mig, NEW m, m = u.model
  PROVE  SchemaInv'
<1> DEFINE c == schema[m]
<1>1. /\ u # None /\ ~(run[p].next \in DOMAIN u.actions) /\ Name(u) \notin recorded
      /\ recorded' = recorded \union {Name(u)}
      /\ run' = [run EXCEPT ![p].mig = None]
      /\ UNCHANGED <<files, pending, schema, broken>>
  BY DEF StoreMigration, AtAction, maker
<1>2. /\ u \in files /\ IsLast(u) /\ m \in Model /\ run[p].next \in Nat /\ run[p].next >= 1
      /\ u.table.fields \in Columns /\ Len(u.actions) \in Nat \ {0}
      /\ DOMAIN u.actions = 1 .. Len(u.actions)
      /\ \A q \in Proc : OnIt(q, m) => run[q].mig = u
  BY <1>1, AtWork
<1>3. run[p] \in Runs /\ run \in [Proc -> Runs] /\ c \in Columns \union {NoTable}
  BY <1>2 DEF SchemaInv, TypeInv, TypeOK
<1>4. /\ run'[p].mig = None /\ run'[p].todo = run[p].todo
      /\ run'[p].working = run[p].working
      /\ \A q \in Proc : q # p => run'[q] = run[q]
  BY <1>1, <1>3 DEF Runs
<1>5. m \notin broken => c = u.table.fields
  <2> SUFFICES ASSUME m \notin broken PROVE c = u.table.fields
    OBVIOUS
  <2>1. Covers(c, u, run[p].next - 1)
    BY <1>1, WorkCovers
  <2>2. \A i \in DOMAIN u.actions : ~(i > run[p].next - 1)
    BY <1>1, <1>2
  <2> QED
    BY <1>2, <1>3, <2>1, <2>2, LeadsFromEnd DEF Covers
<1>6. ASSUME NEW mig PROVE IsLast(mig)' <=> IsLast(mig)
  BY <1>1 DEF IsLast
<1>7. \A a \in files : Name(a) = Name(u) => a = u
  BY <1>2, OneFilePerName DEF SchemaInv, TypeInv
<1>8. DoneFields(m)' = u.table.fields
  <2> DEFINE S == {mig \in Of(m, files) : Name(mig) \in recorded \union {Name(u)}}
  <2>1. Done(m)' = S
    BY <1>1 DEF Done, Of, Name
  <2>2. u \in S /\ \A a \in S : a \in files /\ a.model = m
    BY <1>2 DEF Of
  <2>3. \A a \in S : a.order \in Nat /\ a.order <= u.order /\ (a.order = u.order => a = u)
    BY <1>2, <2>2 DEF IsLast, SchemaInv, TypeInv, Numbered
  <2> HIDE DEF S
  <2>4. Latest(m, S) = u
    BY <2>2, <2>3, LatestIs
  <2> QED
    BY <2>1, <2>2, <2>4 DEF DoneFields
<1>9. ASSUME NEW n, n # m PROVE DoneFields(n)' = DoneFields(n)
  <2>1. Done(n)' = Done(n)
    <3>1. \A a \in files : a.model = n => Name(a) # Name(u)
      BY <1>7, <1>9
    <3> QED
      BY <1>1, <3>1 DEF Done, Of, Name
  <2> QED
    BY <2>1 DEF DoneFields
<1>10. NewIsLast'
  <2> SUFFICES ASSUME NEW mig \in files \union pending, Name(mig) \notin recorded'
               PROVE  IsLast(mig)' /\ Covers(DoneFields(mig.model)', mig, 0)
    BY <1>1 DEF NewIsLast, Name
  <2>1. IsLast(mig) /\ Covers(DoneFields(mig.model), mig, 0) /\ Name(mig) # Name(u)
    BY <1>1 DEF SchemaInv, NewIsLast
  <2>2. mig.model # m
    <3>1. CASE mig \in files
      BY <1>2, <2>1, <3>1, OneLast DEF SchemaInv
    <3>2. CASE mig \in pending
      <4>1. mig.model = m => u.order < mig.order
        BY <1>2, <3>2 DEF SchemaInv, TypeInv, Numbered, Of
      <4>2. mig.model = m => mig.order <= u.order
        BY <1>2, <3>2 DEF IsLast
      <4>3. mig.order \in Nat /\ u.order \in Nat
        BY <1>2, <3>2 DEF SchemaInv, TypeInv, Numbered
      <4> QED
        BY <4>1, <4>2, <4>3
    <3> QED
      BY <3>1, <3>2
  <2> QED
    BY <1>6, <1>9, <2>1, <2>2
<1>11. \A q \in Proc : Works(q)'
  <2>1. \A q \in Proc : q # p => Works(q)'
    BY <1>4, <1>6 DEF SchemaInv, Works
  <2>2. Works(p)'
    BY <1>4, <1>6, <1>1 DEF SchemaInv, Works
  <2> QED
    BY <2>1, <2>2
<1>12. ASSUME NEW q \in Proc, NEW n, Changing(q, n)' PROVE Changing(q, n) /\ q # p
  BY <1>1, <1>4, <1>12 DEF Changing, OnIt, Name
<1>13. \A q \in Proc : ~Changing(q, m)'
  <2> SUFFICES ASSUME NEW q \in Proc, Changing(q, m)' PROVE FALSE
    OBVIOUS
  <2>1. Changing(q, m) /\ q # p
    BY <1>12
  <2>2. run[q].mig = u /\ run'[q] = run[q]
    BY <1>2, <1>4, <2>1 DEF Changing
  <2>3. Name(run[q].mig)' = Name(u) /\ Name(run[q].mig)' \notin recorded'
    BY <2>2 DEF Changing, Name
  <2> QED
    BY <1>1, <2>3
<1>14. Halfway'
  <2> SUFFICES ASSUME NEW n \in Model \ broken', NEW q \in Proc, Changing(q, n)'
               PROVE  Covers(schema'[n], run'[q].mig, run'[q].next - 1)
    BY DEF Halfway
  <2>1. Changing(q, n) /\ q # p
    BY <1>12
  <2> QED
    BY <1>1, <1>4, <2>1 DEF SchemaInv, Halfway
<1>15. Between'
  <2> SUFFICES ASSUME NEW n \in Model \ broken', \A q \in Proc : ~Changing(q, n)'
               PROVE  schema'[n] = DoneFields(n)'
    BY DEF Between
  <2>1. CASE n = m
    BY <1>1, <1>5, <1>8, <2>1
  <2>2. CASE n # m
    <3>1. \A q \in Proc : ~Changing(q, n)
      <4> SUFFICES ASSUME NEW q \in Proc, Changing(q, n) PROVE FALSE
        OBVIOUS
      <4>1. q # p
        BY <2>2 DEF Changing, OnIt
      <4>2. run'[q] = run[q] /\ Name(run[q].mig) # Name(u)
        <5>1. run[q].mig \in files /\ run[q].mig.model = n
          BY DEF Changing, OnIt, SchemaInv, TypeInv, TypeOK, Runs
        <5> QED
          BY <1>4, <1>7, <2>2, <4>1, <5>1
      <4>3. Changing(q, n)'
        <5>1. /\ run'[q].mig # None /\ run'[q].mig.model = n /\ run'[q].next > 1
              /\ Name(run'[q].mig) \notin recorded /\ Name(run'[q].mig) # Name(u)
          BY <4>2 DEF Changing, OnIt
        <5>2. recorded' = recorded \cup {Name(u)}
          BY <1>1
        <5>3. Name(run'[q].mig) \notin recorded'
          BY <5>1, <5>2
        <5> QED
          BY <5>1, <5>3 DEF Changing, OnIt
      <4> QED
        BY <4>3
    <3> QED
      BY <1>1, <1>9, <2>2, <3>1 DEF SchemaInv, Between
  <2> QED
    BY <2>1, <2>2
<1> QED
  BY <1>10, <1>11, <1>14, <1>15 DEF SchemaInv

-----------------------------------------------------------------------------
LEMMA SchemaInit == Init => SchemaInv
<1> SUFFICES ASSUME Init PROVE SchemaInv
  OBVIOUS
<1>1. TypeInv
  BY TypeInit
<1>2. \A p \in Proc : run[p] = Idle("none")
  BY DEF Init
<1>3. \A p \in Proc : Works(p) /\ \A m : ~Changing(p, m)
  BY <1>2, IdleSchema DEF Works, Changing, OnIt
<1>4. \A m : Done(m) = {}
  BY DEF Init, Done, Of
<1>5. NewIsLast /\ Between /\ Halfway
  BY <1>3, <1>4 DEF Init, NewIsLast, Between, Halfway, DoneFields
<1> QED
  BY <1>1, <1>3, <1>5 DEF SchemaInv

LEMMA SchemaStep == Prompt /\ SchemaInv /\ [Next]_vars => SchemaInv'
<1> SUFFICES ASSUME Prompt, SchemaInv, [Next]_vars PROVE SchemaInv'
  OBVIOUS
<1>0. TypeInv'
  BY TypeStep DEF SchemaInv
<1>1. CASE UNCHANGED vars
  BY <1>0, <1>1, MakerKeepsSchema DEF vars, maker
<1>2. ASSUME NEW m, NEW table, EditModel(m, table) PROVE SchemaInv'
  BY <1>0, <1>2, MakerKeepsSchema DEF EditModel
<1>3. CASE MakerStops
  BY <1>0, <1>3, MakerKeepsSchema DEF MakerStops
<1> QED
  BY <1>0, <1>1, <1>2, <1>3, MakeKeepsSchema, WriteKeepsSchema, MigrateKeepsSchema,
     VisitKeepsSchema, ApplyKeepsSchema, StoreKeepsSchema, StopKeepsSchema, EndKeepsSchema
  DEF Next

\* When migrations are made only after all the others are applied (the prompt
\* of MakeMigrations), the fields of every table are those of the last migration
\* that is recorded for it, whenever no process is at work on one and none was
\* left half applied: whatever the tables, the fields that were added, removed
\* or altered, the number of processes that call Migrate, the order in which
\* they visit migrations, and where they fail (Migrate, and the actions of the
\* schema editor).
THEOREM SchemaIsAlwaysRecorded == Prompt => (Spec => []SchemaIsRecorded)
<1> SUFFICES ASSUME Prompt
             PROVE  Spec => []SchemaIsRecorded
  OBVIOUS
<1>1. SchemaInv => SchemaIsRecorded
  <2> SUFFICES ASSUME SchemaInv, NEW m \in Model \ broken,
                      \A p \in Proc : run[p].mig = None \/ run[p].mig.model # m
               PROVE  schema[m] = DoneFields(m)
    BY DEF SchemaIsRecorded, DoneFields, Done
  <2>1. \A p \in Proc : ~Changing(p, m)
    BY DEF Changing, OnIt
  <2> QED
    BY <2>1 DEF SchemaInv, Between
<1>2. SchemaInv /\ [Next]_vars => SchemaInv'
  BY SchemaStep
<1> QED
  BY <1>1, <1>2, SchemaInit, PTL DEF Spec
\* Under the same condition the migrations of a model are applied in their
\* order, although nothing in Migrate orders them: when more than one of them
\* may be left to apply, they are not (run migrations_order).
THEOREM MigrationsAreInOrder == Prompt => (Spec => []InOrder)
<1> SUFFICES ASSUME Prompt
             PROVE  Spec => []InOrder
  OBVIOUS
<1>1. SchemaInv => InOrder
  <2> SUFFICES ASSUME SchemaInv, NEW a \in files, NEW b \in files,
                      a.model = b.model, a.order < b.order, Name(a) \notin recorded
               PROVE  FALSE
    BY DEF InOrder
  <2>1. b.order <= a.order
    BY DEF SchemaInv, NewIsLast, IsLast
  <2>2. a.order \in Nat /\ b.order \in Nat
    BY DEF SchemaInv, TypeInv, Numbered
  <2> QED
    BY <2>1, <2>2
<1>2. SchemaInv /\ [Next]_vars => SchemaInv'
  BY SchemaStep
<1> QED
  BY <1>1, <1>2, SchemaInit, PTL DEF Spec
===========================================================================
