# Formal model of go-django-queries

`go-django-queries` is an object-relational mapper for Go in the style of
Django: querysets that build and execute SQL, models that save themselves,
relations, transactions, and a migration engine. This directory holds TLA+
modules of the parts whose correctness depends on the order of steps, their TLC
configurations, and proofs checked by TLAPS. Paths below are relative to the
repository.

## 1. Inventory

| component | source | state it keeps | operations | how it interacts |
|---|---|---|---|---|
| transactions | `src/queryset_transactions*.go`, `src/queryset_compiler_generic.go:402-453`, `src/queryset.go:335-385` | a compiler's `transaction` pointer; the transaction in a `context.Context`; the wrappers around a SQL transaction | `RunInTransaction`, `StartTransaction`, `WithTransaction`, `GetOrCreateTransaction`, `Commit`, `Rollback` | every write of a queryset goes through it; models and relations receive its context |
| querysets | `src/queryset.go` | `QuerySetInternals` (where, having, joins, ordering, annotations), the result cache, the shared compiler | `Filter`, `Exclude`, `Annotate`, `Clone`, `All`, `Get`, `First`, `Last`, `Count` ... | share a compiler and slices with the querysets they are derived from |
| writes | `src/queryset.go:2024-2856` | none of their own | `Create`, `Update`, `BulkCreate`, `BulkUpdate`, `BatchCreate`, `BatchUpdate`, `Delete`, `GetOrCreate` | call the model's `Save`, the actors and the signal receivers inside their transaction |
| joins and select | `src/queryset.go`, `src/alias` | alias counter, `joinsMap`, `proxyMap` | `Select`, `WalkField`, the alias generator | read by SQL generation |
| row deduplication | `src/queryset_dedupe.go`, `src/queryset_rows.go` | the ordered tree of objects seen so far | `addRoot`, `addRelationChain`, `compile` | fed by `All`, hands rows to relations |
| relations | `src/queryset_relations*.go` | the cached targets of an object, the through table | `AddTarget(s)`, `SetTargets`, `RemoveTargets`, `ClearTargets` | nest querysets, and so transactions |
| signals, actors, helpers | `src/queries_helpers.go`, `src/queries_signals.go`, `src/queryset_actors.go` | none | `CreateObject`, `UpdateObject`, `DeleteObject` | call back into application code |
| unique keys | `src/queries_models.go` | none (pure) | `GetUniqueKey`, `GenerateObjectsWhereClause` | deduplication and deletion rely on them |
| models | `src/models` | the state of changed fields (`model_state.go`), `fromDB`, proxies | `Setup`, `Save`, `State().Reset` | `Save` begins a transaction and writes through a queryset |
| SQL generation | `src/queryset_compiler_generic.go` | the transaction pointer (above) | `BuildSelectQuery`, `BuildCreateQuery`, ... | executes on `DB()` |
| expressions | `src/expr` | registries of lookups and functions | `Resolve`, `SQL` | used by SQL generation |
| fields | `src/fields` | the value of a struct field | `SetValue`, `GetValue`, `Scan`, `Value` | reflection on models |
| migration engine | `src/migrator/engine*.go` | migration files, the table of applied migrations, the schema | `Migrate`, `MakeMigrations`, `NeedsToMigrate` | drives a schema editor |
| schema editors | `src/migrator/sql` | none | `CreateTable`, `AddField`, ... | DDL on the database |
| drivers | `src/drivers` | registered drivers | `Open`, `Begin` | `database/sql`, `pgx` |
| test helpers | `src/quest` | none | table creation for tests | schema editors |

What is hard in it:

* *Ordering and ownership of transactions.* A wrapper clears the pointer of its
  compiler whatever the pointer holds, every write defers a `Rollback` that runs
  after its own `Commit`, and a compiler is shared by all clones of a queryset.
* *Interleaving.* Nothing is locked: two goroutines that use one queryset meet
  between `InTransaction`, `Begin` and `WithTransaction`; two objects of one row
  meet between the statements of a relation's calls.
* *Failure between steps.* Statements, receivers and the model's `Save` may fail
  inside a write; a context may be cancelled at any time; the engine may stop
  between the actions of a migration and the record of it. What Go objects were
  told (keys, "not changed") is not undone by a rollback.
* *Aliasing.* The slices of conditions of querysets share arrays, copied models
  share their internals, and the methods that run a query change their receiver.
* *Many rows for one object.* A selection with relations returns an object once
  per related row, in any order, cut by LIMIT.

What makes each part correct:

* transactions: a row written in a transaction is visible exactly when that
  transaction committed; Commit reports what happened; no transaction is left
  open;
* querysets: deriving a queryset does not change another; a cached result is
  the result of the query it is asked for; `Delete` removes what matches;
* deduplication and unique keys: two rows are one object exactly when they have
  the same key, and every child is under its own parent;
* writes: either all rows of a write are stored or none, each object in its own
  row, with every driver; success means stored;
* models: after `Save` the row holds the changes of the object; after a failed
  `Save` the object still knows its changes (it does not always, section 9);
* relations: the through table and the related objects in memory agree after
  every call, also one that failed half way;
* migrations: a recorded migration was executed, its dependencies before it,
  and the schema equals the models when nothing is pending.

## 2. Plan

| order | module | what it covers | abstract specification, composition | theorems |
|---|---|---|---|---|
| 1 | `Transactions` | done, section 3 | every write of the other modules is one of its calls | types, atomicity of `RunInTransaction` and of every write, honest commits, no leaks |
| 2 | `Migrations` | done, section 4: `MakeMigrations`, `Migrate`, crashes, two migrators | "schema = what the applied migrations build" is an invariant | types, dependencies first, files acyclic, schema recorded, in order |
| 3 | `Models` | done, section 5: copies, state, `Save`, failed commits | - | types, objects know their rows, saves store, saves keep to their changes; open: `Linked` |
| 4 | `Relations` | done, section 6: the many-to-many relation | refines `Links` | types, three invariants, the refinement |
| 5 | `Rows`, `QuerySets` | done, section 7: joins, deduplication, slices, cache, reads, `Delete` | `Rows` against a reference; `QuerySets` extends `Rows` | conditions are own, deletes match, cached answers are asked, roots are exact, `Get` is only, counts match (the last three over `WritesSpec`); open: `RowsAreExact` |
| 6 | `Writes` | done, section 8: create and update, batches, drivers, helpers with signals | extends `QuerySets` | types, rows OK, writes whole, updates match and are stored, creates are stored, helpers whole; the theorems of `QuerySets` again with writes in between |
| 7 | - | not begun: concurrent get-or-create, `Save` of a model inside `Create`, actors, registries of expressions | over `Transactions`' isolation | - |

## 3. Module `Transactions`

### State

| variable | code |
|---|---|
| `status`, `rows`, `db`, `cancelled` | the SQL database: state of each `sql.Tx`, its uncommitted rows, the committed rows, the transactions that `database/sql` rolled back because the context of `BeginTx` was done. External |
| `transaction` | `genericQueryBuilder.transaction`. A value `[sql, chain]` is a SQL transaction with the `wrappedTransaction`s around it, named by their compilers, innermost first. `Null` is the nil pointer, and the `nullTransaction` in a frame |
| `made` | compilers that exist |
| `qs` | QuerySet objects: `compiler`, the transaction in `context`, and the goroutine that uses it |
| `stack` | the calls in progress of each goroutine: the function given to `RunInTransaction` (`run`), a write method (`write`), `QuerySet.StartTransaction` (`start`), each with the `tx` its deferred function will end |
| `handles` | transactions that `QuerySet.StartTransaction` returned to a caller |
| `scopes`, `home`, `via`, `confirmed` | history, read by properties only |

### Actions

| action | code |
|---|---|
| `RunInTransaction`, `RunCommits`, `RunRollsBack` | `StartTransaction` and `RunInTransaction` (`src/queryset_transactions.go:54-149`). The deferred function is part of both endings |
| `GetQuerySet` | `GetQuerySet`, `GetQuerySetWithContext`, the constructor given to the function of `RunInTransaction` |
| `WithContext` | `QuerySet.WithContext`; the error of `WithTransaction` is ignored as in the code |
| `Clone` | `QuerySet.Clone` and the methods built on it: the compiler is shared |
| `StartTransaction`, `BindTransaction` | `QuerySet.StartTransaction`: `InTransaction`, `Begin`, then `WithTransaction`. Two steps, because another goroutine may bind in between |
| `EndTransaction` | the caller's `Commit` or `Rollback` on what it got |
| `StartWrite`, `BindTransaction`, `Execute`, `WriteFails`, `WriteCommits`, `WriteReturns` | the skeleton of `Create`, `Update`, `BulkCreate`, `BulkUpdate`, `BatchCreate`, `BatchUpdate`, `Delete`, `GetOrCreate` and, on a context, `models.Save`: `GetOrCreateTransaction`, `defer tx.Rollback()`, statements or errors, `tx.Commit()`, the deferred call |
| `Cancel` | `database/sql` rolls back a transaction whose context is done |

`Commit(w, err)` and `Rollback(w)` follow the chain of wrappers as the code
does: each checks that its compiler is in some transaction, clears the pointer
and goes on to what it wraps. A wrapper whose compiler is in no transaction
stops the walk with `ErrNoTransaction`, and what it wraps is not ended.

The caller's code runs outside every call, in the function of
`RunInTransaction`, and inside a write (`Save`, signal receivers, actors); there
it may make any further call. Everything it may do is a disjunct of `Next`.

Abstractions: one database (calls across two databases end in a panic the code
raises itself); a row is written by one statement; statements that the code
sends around the transaction (MySQL inserts without a primary key) are not
modelled, see section 11.

### How the querysets are used

Four flags widen what callers do. The properties do not hold for every use of
the interface, and the flags say exactly which use breaks which property:

| flag | use | effect on the properties |
|---|---|---|
| `Rebound` | `WithContext` on a queryset that is in no transaction | all hold |
| `Cloned` | clones share the compiler | `RunIsAtomic`, `HonestUnlessCancelled` and `NoLeak` hold; `AllOrNothing` does not: a clone made during a write is in its transaction, and out of it when the write ends |
| `Shared` | goroutines share querysets | `RunIsAtomic` and `HonestUnlessCancelled` hold; `AllOrNothing` and `NoLeak` do not: the race between check and binding |
| `Nested` | a queryset in a transaction is told to enter another (`StartTransaction` twice, `WithContext` in a transaction) | transactions are still ended (`CallsEndTransactions`); `AllOrNothing`, `HonestUnlessCancelled` and `NoLeak` fail: both handles end the same transaction |

### Runs

| run | instance | shows |
|---|---|---|
| `transactions` | 1 goroutine, 2 querysets, 3 compilers, 3 SQL transactions, 1 row, nesting 2, chains up to 3, `Rebound` | `TypeOK`, `AllOrNothing`, `HonestUnlessCancelled`, `NoLeak` |
| `transactions_shared` | 2 goroutines, 2 querysets, 2 compilers, 2 SQL transactions, 1 row, nesting 1, chains up to 2, `Cloned`, `Shared` | `RunIsAtomic` |
| `transactions_fair` | 1 goroutine, 1 queryset, 2 compilers, 2 SQL transactions, nesting 2, `Nested` | `CallsEndTransactions` |
| `transactions_commit` | the same without `Nested` | `HonestCommit` is violated: a finding |

Bounds. The hazards need one transaction around a queryset's own, one nested in
it, and a third that the compiler enters after a deferred rollback: three SQL
transactions and three compilers. A row is written once and its fate is judged
alone, so one row sees every case (atomicity of two rows of a transaction
follows: the property ties each row to the same status). Symmetry permutes all
sets of model values; it is used for safety only. `CHECK_DEADLOCK FALSE`
everywhere: transactions are used up, so a run comes to its end.

Fairness (`FairSpec`): strong fairness of "the innermost call of this goroutine,
at this depth, takes its next step or ends". It says that the functions given to
`RunInTransaction`, the models' `Save` and the signal receivers return. Nothing
is assumed of callers that hold a handle, nor of `Cancel`. Strong, because a
call at one depth is suspended whenever it makes another.

### Proofs (`TransactionsProofs`, `TransactionsHoldersProofs`)

In `TransactionsProofs`:

* `TypeCorrect`: `Spec => []TypeOK`, with no assumption but those on the
  constants. The invariant is strengthened (`TypeInv`) by what the frames of a
  goroutine look like, so that the innermost frame exists when it is used.
* `RunAtomicity`: `~Nested /\ ~Rebound => (Spec => []RunIsAtomic)`, for any
  number of goroutines that share and clone querysets. `RunIsAtomic` is not
  inductive: it says nothing of the compiler that the next statement will use.
  The inductive invariant `AtomicInv` adds that a compiler bound to the
  transaction of a `RunInTransaction` stays bound to it until that transaction
  is over. This holds although late deferred Rollbacks clear pointers, because
  such a binding is "tenured": its chain holds the compiler that began the
  transaction and the queryset's own, while everything that a write still has to
  end is wrapped once, by a compiler that was in no transaction. TLC checked
  `AtomicInv` on the instance of `transactions_shared` before it was proved.

In `TransactionsHoldersProofs`, for any number of goroutines, querysets,
compilers, transactions and rows, any depth of calls, `Rebound` or not:

* `CommitIsHonest`: `~Nested => (Spec => []HonestUnlessCancelled)`, querysets shared
  and cloned or not. `HolderInv` is inductive: every SQL transaction that was
  begun is held by at most one call in progress or handle (`OneHolder`), and
  what is held, and not about to be given up by a deferred `Rollback`, is open
  or was ended by its context (`HeldRuns`). So a `Commit` which finds the
  transaction over finds one that was cancelled.
* `NoTransactionIsLost`: `~Nested /\ ~Shared => (Spec => []NoLeak)`, clones included.
  `PointerInv` adds that the compiler of each call or handle points to what it
  holds, or to nothing once it was ended (`CallsPoint`, `HandlesPoint`); that no
  two calls or handles bind one compiler (`CallsApart`, `HandlesApart`); that a
  write which joined its compiler's transaction is inside the call that began it
  (`JoinsInside`), or else its deferred `Rollback` would come too late; and that
  querysets of one compiler have one user (`UsedAlone`).
* `WritesAreAllOrNothing`: `~Nested /\ ~Shared /\ ~Cloned => (Spec => []AllOrNothing)`.
  `WholeInv` adds that a queryset's home is where its compiler points, but for the
  moment between the `Commit` of its own write and the write's return
  (`HomesPoint`), and that the database holds the rows of the committed
  transactions, each written for the one it was meant for (`RowsOwned`).

The hypotheses are the uses of the interface named above: TLC refutes each of the
three without them. It checked the three inductive invariants on the instance of
`transactions`, `HolderInv` on one with two goroutines that share and clone, and
`PointerInv` with two that clone, before they were proved.

Only model-checked: `CallsEndTransactions` (liveness is out of the prover's reach).

## 4. Module `Migrations`

### State and actions

| variable | code |
|---|---|
| `code` | what `FieldDefs()` and `DatabaseIndexes()` of each model say: columns and indexes. External |
| `files` | the migration files; a file is known to others by its name (order, first action, number of actions), as `generateMigrationFileName` forms it |
| `pending` | the rest of `migrationList` of a `MakeMigrations` at work |
| `schema` | the columns of each table. External |
| `recorded` | the rows of the table `migrations` |
| `run` | each process in `Migrate`: the migrations left of the sorted graph, the current one and its next action, the result |
| `broken`, `torn` | history: models left half migrated, a `MakeMigrations` that did not finish |

| action | code |
|---|---|
| `EditModel` | a developer changes a model and builds the program anew; no command is at work |
| `MakeMigrations`, `WriteMigration`, `MakerStops` | `MakeMigrations`: diff of each model with its last file, dependencies, one file after another; it may stop at any of them |
| `Migrate` | the beginning of `Migrate`: unapplied files, `buildDependencyGraph` with its two errors |
| `Visit` | the loop over the sorted graph, with the second `HasMigration` |
| `ApplyAction`, `StoreMigration` | one statement (or one `AlterField`) each |
| `MigrateStops`, `MigrateEnds` | an error, a panic or a crash; the end of the loop |

The graph is sorted from a Go map, so `Visit` may take any migration all of
whose dependencies among the unapplied ones were visited. `Accepts` says which
actions the database and the SQLite editor can execute. It never lets an index
be added: the `Index` of an action that was read from a file has no table, and
`AddIndex` panics on it (`src/migrator/engine_table.go:86`); `CreateTable` writes
none either. A migration with an index action is therefore never recorded.

Flags: `Prompt` (files are made only when all others are applied), `Cycles`
(models may relate in a cycle) and `LookupFails` (the second `HasMigration` may
fail, upon which the migration is skipped). With `LookupFails` TLC refutes
`DependenciesFirst`: what depends on a skipped migration is applied. On the
instance of `migrations_order` it also refutes `SchemaIsRecorded`: the third
migration is applied, then the second, all three are recorded, and the column has
the older definition.

Abstractions: a column's definition is a number; an index covers one field; a
model never changes its table's name and is never removed; rows of tables are
left out (`AlterField` discards the altered column's data, see the hazards); one
developer makes migrations at a time, and files are shared by all processes.

### Runs

| run | instance | shows |
|---|---|---|
| `migrations` | 2 processes, 2 models that relate one way or the other, up to 2 migrations each, `Prompt` | `TypeOK`, `SchemaIsRecorded`, `DependenciesFirst`, `DependenciesWritten`, `AcyclicFiles` |
| `migrations_ahead` | 1 process, neither `Prompt` nor acyclic relations | `DependenciesFirst`, `DependenciesWritten` |
| `migrations_missing` | 1 process, `Prompt` | `AppliedIsNotMissing` is violated: a finding |
| `migrations_order` | 1 process, up to 3 migrations of a Book whose one column has three definitions | `InOrder` is violated: a finding |

Bounds. Author and Book have two and four designs: with and without a relation
(to each other), with an index, with a column of another definition. Two
migrations of each let a table be created and altered, and its relation be
turned round; the violated order needs a third, since nothing can come before
the creation of a table. Its run has designs of its own (`OrderTables`, without
indexes), so that migrations 2 and 3 of Book are plain alters, which the database
accepts in any order. Two processes are the least that interleave. Files and
records only grow, so the bound on orders ends a run: `CHECK_DEADLOCK FALSE`.

All of this is safety; no fairness is assumed.

### Proofs (`MigrationsProofs`, `MigrationsSchemaProofs`)

For all models, designs, bounds and numbers of processes:

* `DependenciesAlwaysFirst`: `~LookupFails => (Spec => []DependenciesFirst)`. The
  inductive invariant `OrderInv` says what the loop of `Migrate` relies on
  (`Prepared`): the migration in hand has its dependencies in the record, and
  those still to visit have theirs in the record, in hand or among themselves;
  and that a name belongs to one file (`Numbered`: the files of a model have
  different orders, those to be written have higher ones), without which
  recording one file might record another. TLC checked `OrderInv` on the
  instances of the two passing runs first.
* `DependenciesAlwaysWritten`: `Spec => []DependenciesWritten`, with `Numbered`
  only: the last migration of a model, of those written and those drafted,
  exists, so every dependency names one of them.
* `FilesStayAcyclic`: `~Cycles /\ Prompt /\ ~LookupFails => (Spec =>
  []AcyclicFiles)`. A set of files has a member without dependencies in it:
  among its older files by induction, or else, if all of it is of one
  `MakeMigrations`, that of a model which relates to none of the others. `Prompt`
  rules out that a file depends on a name which is only made later.

* `TypeCorrect`: `Spec => []TypeOK`, for a finite set of fields
  (`FieldsAssumption`: a model has finitely many). `TypeOK` is not inductive: adding
  a column reads its type from the migration's table, which has the column only
  if the migration is one that `MakeMigrations` made. `TypeInv` adds that every
  migration written or to be written is `WellMade` (it has actions, and they add
  only fields of its table), that the models in the code are well typed, and
  `Numbered`. TLC checked `TypeInv` on the instance of `migrations` first.

* `SchemaIsAlwaysRecorded`: `Prompt => (Spec => []SchemaIsRecorded)`, with crashes,
  failing statements and any number of migrators. The inductive invariant is
  `SchemaInv`. `NewIsLast`: only the last migration of a model can be unapplied,
  and its actions lead (`Leads`) from the recorded table to its own. `Works`: no
  process has any other in hand or to do. `Between` and `Halfway`: while nobody
  changes a table it is as recorded, and while one process does, the actions it
  has left lead from the table as it is to the new one. The step that costs most:
  the loop of `Migrate` begins a migration again that another process has half
  applied; an action the database accepts then changes the same field in the
  same way for both (`ResultCovers`, `WorkCovers`), and one it does not accept breaks the model or ends the
  process. The first half is about `MakeMigrations`: that the actions it writes
  for two tables lead from one to the other (`DiffLeads`). The hypothesis
  `Prompt` is needed, not convenient: see above for the instance that refutes
  the property without it.
* `MigrationsAreInOrder`: `Prompt => (Spec => []InOrder)`, a part of `NewIsLast`. The
  finding `InOrder` of section 9 therefore needs a developer who writes a
  migration while an older one of the same model is unapplied.

TLC checked `SchemaInv` on the instance of `migrations` first.

## 5. Module `Models`

What a struct that embeds `models.Model` knows of its own row, and what `Save`
does with it (`src/models`, the relation and proxy fields).

| variable | code |
|---|---|
| `obj` | the structs: plain fields, primary key, for a proxy the key of its owner |
| `opt`, `options` | the pointer to the internals (`modelOptions`) and the internals: the object they belong to, whether definitions are bound, the state (`model_state.go`), `fromDB` |
| `db`, `seq` | rows as the open transaction sees them, the last key each table gave. External |
| `outer` | the transaction of the caller's context, with what its rollback restores |
| `synced`, `lost`, `last` | history: what the row of an object was last known to hold; fields an object wrongly takes for stored; the object whose `Save` just returned nil |

Actions: `Save` (the whole of `Model.Save` and `SaveObject`: state check, the
foreign key's target, the row, the proxy, the commit, with a failure at any of
them; with listed fields or forced it is `SaveObject`, which the program calls
directly), `SaveUninitialized` (the internals or, in such a call, the definitions
are not bound: `src/models/model.go:794`), `Assign` (a Go assignment, no signal), `Set`
(`FieldDefs().Set`, which signals), `FieldDefs`, `Load` (a query's `AfterQuery`),
`Copy` (`c := *src; Setup(&c)`), `Delete` by someone else, `Begin`, `Commit`,
`Rollback` of the caller. A `Save` is one step because its statements are one
transaction of its own, or part of the caller's; what interleaves is whole calls.

`lost` makes the properties say exactly what the code keeps. A rollback, and a
`Save` of listed fields, leave an object believing that a field is stored which
is not (`AfterSave` and `Finish` reset the whole state); `KnowsItsRow`,
`SaveStores` and `Linked` hold for all that is not lost in one of these two ways.

| run | instance | shows |
|---|---|---|
| `models` | a blog with a foreign key to an author and a page as proxy, a second object of the author's row, two fields, 3 events | `TypeOK`, `KnowsItsRow`, `SaveStores`, `SavesOnlyItsChanges`, `Linked` |
| `models_retry` | blog, page and author, one failure | `RetryStores` is violated: a finding |

Bounds. An event is a change, a failure, a copy, a load, a deletion or a
`Begin`; Saves that succeed, `Commit` and `Rollback` are free. Three events are
a change, a failure and an outer transaction around both. One key per table is
enough, since a rolled-back key is given again; a `Save` needs a free key for
each of its objects that has none (`HasRoom`).

### Proofs (`ModelsProofs`)

For all objects, tables, fields, values, keys and configurations, from
`ModelsAssumption`: there are finitely many structs (else `Setup` might find no
unused internals), references go one level deep, an object and its proxy are in
different tables, `None` is no object, state or row, and no plain field bears
the name of a reference. Proved are `TypeCorrect`, `ObjectsKnowTheirRows`
(`KnowsItsRow`), `SavesStore` (`SaveStores`) and `SavesKeepToTheirChanges`
(`SavesOnlyItsChanges`).

A `Save` is one step of the model but a composition of a dozen operators, so the
invariant is one of the record these work on (`World`), and there is a lemma for
each operator. `Valid(w)` says of a record: it is typed; internals belong to the
one object that points to them, or to none (`Owns`: this is what makes a change
of one object's state no change of another's, and why `Setup` takes the
internals away from both when a struct was copied); rows have keys that were
given (`Given`: an insert meets no row); and an object from the database holds in
its state what the row holds, or, if a statement of this call was about it (`ran`),
what the object holds (`Remembers`). At the beginning and at the end of a call
nothing is in `ran`, and `Valid(World)` implies `KnowsItsRow`. `OuterKnows` adds
what a rollback needs: what it restores differs from what is known only in the
fields that it makes lost. TLC checked `ModelsInv == TypeOK /\ Valid(World) /\
OuterKnows` first, also with `Save` of a listed reference, with a forced one, with
two keys and with an object in the table of its target.

For the two action properties `Saving(w, objects, listed)` says where a `Save` may
have come to: valid, with room for the keys still to be given, and every stored
field that differs from before is one that one of its objects may write
(`Blamed`). `ObjectSaves` carries it through `SaveObject` and adds, for a call
that returned nil, that what was written of the object is in its row, or that
nothing was due but what is lost: a state that is equal to the fields means that
the row was known to hold them. `Linked` is only model-checked: it holds as long
as nobody deletes the targets or the proxies.

References go one level deep. Not modelled: replacing one proxy by another,
values changed in place (slices, maps), many-to-many fields in `Save`
(`ErrNotImplemented`), the data store of annotations.

## 6. Modules `Links` and `Relations`

`Relations` is the many-to-many relation of an object
(`src/queryset_relations.go`). `Links` is what its calls promise of the links in
the database.

| variable of `Relations` | code |
|---|---|
| `key`, `stored` | the key of each source object (two may be of one row), the rows of sources |
| `pk`, `rowOf` | the key each target object carries, the target whose row has a key |
| `links` | the through table, as a bag: nothing keeps a link from being stored twice |
| `qs` | the one queryset a relation keeps: made at its first use with the key the source has then, narrowed in place by every `Filter`, `Limit`, `Offset`, `Get` |
| `cache` | the related objects in memory |
| `call` | the call at work and the statement it is at |
| `lost`, `foreign`, `met` | history: targets with the key of a failed commit; sources whose links changed behind the cache, or during their call |

`AddTargets`, `SetTargets`, `RemoveTargets` and `ClearTargets` begin a call, its
statements are `Select`, `Delete`, `CreateTargets` and `CreateThrough`, each in a
transaction of its own and each with the faults "none", "statement" and
"commit". Between two statements the other source may take any step. `Filter`,
`Limit`, `Offset`, `Get`, `All`, `Save` and `Load` run between the calls of their
source. A relation's queryset has no order, so `Selections` is any window of the
matching links.

Refinement (`ImplementsLinks`): a call links all of its targets in one step, in
which it answers success; a call that fails has linked nothing; a removal that
answers success unlinked what was linked; no call touches the links of another
row or renames a target's key. `Phase` maps the stages of a call; `SetTargets` is
two steps of `Links`, since the code commits its clearing apart.

| run | instance | shows |
|---|---|---|
| `relations` | 2 sources of one or of two rows, 2 targets, keys 1 and 2, links up to twice, default limit 3, limit of `Get` 2, 4 events | `TypeOK`, `TargetsKnowTheirRows`, `LinksAreStored`, `CacheIsLinked`, `SetIsExact`, `ImplementsLinks` |

Bounds. Only source `a` narrows its queryset or passes no target, only `b` is
saved or loaded: what matters is that one is narrowed and the other changes the
links behind it. Four events are two calls, a failure and a repetition. Default
limit 3 is below the four links that can be stored, so the limit does cut a
clearing. Some calls panic (`ClearTargets` on a relation never used before, or
without links): the model answers "panic" and the links stay. `CHECK_DEADLOCK
FALSE`: events are used up.

### Proofs (`RelationsProofs`)

For all sources, targets, keys, limits and bounds, from `KeysAssumption` (keys
are positive, finitely many), `NoneAssumption` and `LimitAssumption`: `TypeCorrect`,
`TargetsAlwaysKnowTheirRows`, `LinksAlwaysStored`, `CacheAlwaysLinked` and
`Implementation` (`Spec => ImplementsLinks`). The inductive invariant `IInv`
joins the four invariants with `Keyed` (what a call at work has done to its
targets so far); TLC checked it on the run's instance first. The refinement adds
`Staged`: at the stage where links are made, every target has a key, as `Link`
demands. `SetIsExact` is only model-checked: its counting of links in a window is
induction over a finite set.

Not modelled: reads of the one-to-many relation, `OrderBy` on a relation,
deletion of targets or sources.

## 7. Modules `Rows` and `QuerySets`

`Rows` is pure: the joins that `Select` adds, the rows that the database returns
for them, and the tree of objects that `All` makes of those rows
(`src/queryset_dedupe.go`), folded row by row as the loop does. A model is a root
with a tree of relations of the four kinds; a selection is a sequence of items
`[at, what]`: all fields with the key, a unique field, a plain one, or an
annotation, at the root or at a relation. `Arrangements` are all orders the
database may choose, `Slice` is LIMIT and OFFSET on the *joined* rows, `UniqueKey` is
`GetUniqueKey`, and `AddRoot`, `AddRelationChain`, `ScanRow`, `Dedupe` follow the code, with its
panics and errors. The reference is defined from the links alone, without rows:
`RootsOf` (which roots the inner joins leave) and `ExactNodes` (every chain of links).

`QuerySets` is a program with variables that hold querysets.

| variable | code |
|---|---|
| `db` | keys of the root's rows, links of each relation. External |
| `heap` | the arrays under slices of conditions, with their capacity |
| `qs` | each queryset: the slice `where`, limit, offset, order, fields, joins, annotations, the cached result and `useCache` |
| `answer` | what the last call returned |
| `meant` | history: the conditions each variable was given |

Actions: `Limit`, `Offset`, `OrderBy`, `Backwards` (`Reverse`), `Select`, `Annotate`, `Filter`, `Scope`,
`All`, `Get`, `GetFirst`, `GetLast`, `Values` (and `ValuesList`), `Aggregate`, `FromCache`, `Count`, `Exists`,
`Delete`, `GetOrCreate`. `Filter` is `append(qs.internals.Where, ...)` on the slice of its
*receiver*, after a clone; `Push` gives an array twice the capacity as Go does for
small slices.

What the properties say, and what they leave out:

* `ConditionsAreOwn`: the first three conditions of a queryset are those it was
  given. The bound is the code's: appends to slices of length 0, 1 and 2 always
  find a full array, the third leaves a free fourth cell, and two querysets
  filtered from one with three conditions share it. From the fourth condition on,
  a sibling's condition may replace one's own.
* `RootsAreExact`: when the selection starts with the key of the root
  (`StartsWithKey`), a tree that is answered has the objects that match and that no inner join drops
  (`RootsOf`, from the links alone), each once and in the order of the query, all of
  them unless LIMIT or OFFSET cut the joined rows. Excluded: a root that comes after
  or without its key (a panic, or the relation is lost).
* `RowsAreExact`: what hangs below them. For a selection that names its objects
  (`WellSelected`: in addition a key or a unique field at each place on the way) there
  is a tree, its nodes equal the reference, whole unless LIMIT or OFFSET cut the rows;
  and nothing wrong is ever in it. Excluded, because the code does not hold it: a
  one-to-many without children (a zero key, upon which `buildChainParts` panics), and the
  row of the through table when a path *through* a relation is selected before it.
* `GetIsOnly`: exact while the limit of `Get` does not cut joined rows.
  `CountsMatch`: exact while no relation that was ever selected links a key twice (a
  foreign key never does, a relation of many does as soon as there are two), and never less;
  `Count` with an offset answers 0.
* `CacheIsAsked`: what is cached was asked of the queryset as it is now, except that
  `Delete` narrows it. Not covered: the fields of `Values`. `Values(f2)` after
  `Values(f1)` answers with those of `f1`, and a cached result of another kind panics.
  `Values` also fails when two of its columns have one key (`Repeats`); the columns of
  a through table have no path in the rows, so that it may (`MayRepeat`).
* `DeletesOnlyMatching`: a `Delete` takes exactly the rows that meet all conditions,
  if there are three at most; its limit is ignored.

Other behaviour the model has and no property blames: the joins of an earlier
`Select` stay after the next and may drop roots; a NULL foreign key makes an object
with a zero key; `First`, `Last` and `Get` change their receiver; `Last` without an order is
`First`; `Annotate` without `Select` selects nothing but the annotation; `Aggregate` after
`Annotate` has no columns, which SQLite and MySQL refuse; PostgreSQL answers, with no
value in it. The comment of `Get` (`src/queryset.go:1969`) says that it panics without a where
clause; the code and its tests do not, and the model follows the code.

| run | instance | shows |
|---|---|---|
| `querysets`, reading | 2 variables, 5 relations (nullable foreign key, one-to-many, nullable one-to-one, many-to-many and one behind it), 2 databases, 9 selections, 2 conditions, limits 1 and 5, limit of `Get` 3, 3 calls | `TypeOK`, `ConditionsAreOwn`, `CacheIsAsked`, `RootsAreExact`, `RowsAreExact`, `GetIsOnly`, `CountsMatch`, `DeletesOnlyMatching` |
| `querysets`, writing | see section 8 | the properties of `Writes` |

Bounds. One database has every link, with shared children; the other has a root
without relations and a link stored twice. Three calls are two that derive and
one that runs; so that the fourth condition is met, half of the reading runs begin
with a queryset of three conditions. A run of four calls was followed through 1.7
million states without a violation. Four arrays are one more than two querysets
and a clone need.

### Proofs (`QuerySetsProofs`)

`ConditionsAlwaysOwn`: `Spec => []ConditionsAreOwn`, and `DeletesAlwaysMatch`: `Spec =>
DeletesOnlyMatching`, for any number of variables and keys, any conditions,
selections, relations and databases. `ConditionsAreOwn` is not inductive: it does
not say why an append leaves others alone. `IInv` adds `Good` for the slice of every
queryset: its length is within its array, there is room in the array only from
the third condition on, and the first three cells are the conditions meant. An
append within the capacity therefore writes behind the third cell of everyone
who shares the array (`PushIsGood`, `AssignKeeps`), and one beyond it goes to an array that
nobody holds (`FreeIsFree`). TLC checked `IInv` on the run's instance first.

`CacheIsAlwaysAsked`: `Spec => []CacheIsAsked`. `CacheInv` adds to `IInv` that a kept
answer was asked with the limit, offset, order, selection and joins that the
queryset has, and with a beginning of the conditions meant (`Keeping`): every
method that clones drops the answer (`UncachedKeeps`), and what changes a
queryset in place keeps the rest (`MoreConditions`). TLC checked `CacheInv` on
the run's instance first.

Assumptions: `ArrayAssumption` (there is always an array
that nothing uses, which a garbage collector gives) and `ConditionsAssumption`.

`TypeOK`, `RootsAreExact`, `GetIsOnly` and `CountsMatch` are proved in `WritesProofs` (section 8),
for a program that also writes objects.

Only model-checked: `RowsAreExact`. It compares the nodes below the roots with a
reference that follows the chains of relations; a proof would be an induction over the
rows and, in each, over the recursive `Chain`, with the names and the anchors of a
half-built tree as its invariant.

Not modelled: `Having`, `GroupBy`, `Distinct`, `ForUpdate`, joins of proxies, composite unique
keys, actors, custom target clauses, an iteration of rows that breaks off
(`rows.Err()` is not read after the last row), two variables that hold one pointer.

## 8. Module `Writes`

Extends `QuerySets` with Go objects (a key, a unique and a plain column, 0 is their
zero value) and the rows they are written to.

| variable | code |
|---|---|
| `rows` | the columns of each root's row. External |
| `obj` | the fields of each object |
| `driver` | `sqlite3`, `postgres` or `mysql` (MariaDB too): which compiler is used |
| `call` | history: objects and expression of the last write |

| action or operator | code |
|---|---|
| `Update`, `BulkUpdate`, `BatchUpdate` | `updateFields` (`Chosen`: what is selected, else what is not zero), one UPDATE per object (`UpdateRow`), with the conditions of the queryset or the object's key (`Hit`), the answered number per driver (`Affected`: of the last statement, of the first, or of all changed rows) |
| `Create`, `BulkCreate`, `BatchCreate` | one INSERT (`Inserted`), or one each on MySQL (`InsertedOneByOne`); then the keys are set in the objects (`Keyed`) |
| `Batches` | `QuerySet.batch`, by the queryset's limit |
| `Told`, `Committed` | the end: commit or the deferred rollback, after which the objects keep what they were given |
| `CreateObject`, `UpdateObject`, `SaveObject`, `DeleteObject` | `src/queries_helpers.go`, with signals that are outside of the transaction and may be refused before or after |
| `Follow` | what the calls of `QuerySets` do to `rows` |

A write is one step: its statements run in one transaction, whose atomicity is
the subject of `Transactions`. The database may fail before each batch, refuses a
duplicate of the unique column and an UPDATE without columns or with a join. pgx
reports a failure behind the first statement of a batch only at Commit; the
batch runs on the connection of the transaction, so it is rolled back with it.

Properties: `RowsOK` (types, and uniqueness under any sequence of writes);
`WritesAreWhole` (no success, no change, however many batches were executed);
`UpdatesOnlyMatching`; `UpdatesAreStored` (success means that every object whose row
is there is stored, in batches of any size, with the expression evaluated on the
row's own value, and that the columns which were not asked for are as they were, also
that of a zero field without `Select`); `CreatesAreStored`; `ObjectsAreWhole` (the helpers touch the object's
row alone, and what changed is whole even when a late receiver makes the answer an
error). What they cannot say, because the code does otherwise: with conditions
and several objects every matching row takes the values of the last one; zero
fields are not stored without `Select`; success does not say that *every* object had
a row, and on MySQL `ErrNoRows` may mean that nothing had to change; after a failed
batch the objects of the earlier ones keep keys of rows that are gone.

Instance (run `querysets`, writing): rows 1 and 2, two objects that are stored ones
or new ones with a clash of the unique column, both orders of passing them, the
three drivers, batch sizes 1 and 5, values 0 to 3, 3 calls, among them `Select`,
`Filter`, `Annotate`, `Delete` and changes of fields. Reading and writing do not share runs:
what a read answers depends on rows only through the keys in `db`, which both have.

All of sections 5 to 8 is safety; no fairness is assumed there.

### Proofs (`WritesProofs`)

The theorems are about `WritesSpec`: any database and any rows with a unique
column, any objects, selections, conditions, limits and drivers, any number of
variables, objects, keys and batches. What the run starts from is a state of it
(writing), or one that it reaches by filtering (the three conditions of the reading
runs), and `MCNext` takes some of its steps (when it
writes, with two selections of its own).

* `RowsAlwaysOK`: `WritesSpec => []RowsOK`.
* `WritesAlwaysWhole`, `UpdatesAlwaysMatch`, `UpdatesAlwaysStored`, `CreatesAlwaysStored`,
  `ObjectsAlwaysWhole`: the five action properties above.
* `TypesHold`: `WritesSpec => []TypeOK`, the statuses of all answers included.
* `ConditionsStayOwn`, `CacheStaysAsked`, `DeletesStillMatch`: what section 7 proves of querysets
  alone also holds when objects are written between their calls.

* `CountsAlwaysMatch`, `RootsAlwaysExact`, `GetIsAlwaysOnly`: what is counted and
  answered is what matches, for any tree of relations, any links, any rows and any order
  in which the database returns them.

The inductive invariant `WInv` is `IInv` of section 7, the types of the other fields of
every queryset (`AllShaped`; without it the size of a batch might be 0), `RowsOK`,
and that `db` has roots and links and nothing else. For `TypesHold` it is joined by `Linked` (links are
finitely many, so that the joined rows have an order) and `Says` (the status and the
queryset of the last answer). TLC checked the whole of it on the run's instance first.

The loops of the code are folds of the community modules, which are recursive
functions over sets of indexes. `Least` and `Induction` derive induction over `Nat` from the
well-foundedness of `<`, `LoopRuns` and `TurnsOf` derive from it that such a function has a
value after every turn, and each loop then has an invariant of its turns: `Touches` and
`Puts` for the UPDATE of each object, `Goes` and `Does` for the batches of an update, `Adds` and `Gives`
for inserted rows and given keys, `Made` for the batches of a create, `Treelike` for the
rows that `All` makes into a tree. `BatchesSplit` says that `QuerySet.batch` cuts the objects into
consecutive portions without a rest.

The joined rows are the other long argument. `JoinedRows` multiplies and drops rows join
by join, while `RootsOf` asks the links, from the leaves of the tree of relations upward (`Stays`,
a recursion that the tree makes end but that no prover can follow into it). The proof
takes `Stays` as a largest fixpoint: the union of all sets of places and keys that support
each other satisfies its equation, so there is a function that does (`StaysIsOne`,
`StaysIs`), and whatever supports itself is within it as long as a join comes after that
of the place it starts from (`Joinable`; `Supported`, `FromBelow`). Each row of the database is then a
choice of one match per relation (`Fits`; `RowingNext` is the step of one join,
`WithFits` the row that it makes), a root
has a row exactly if it stays (`RootIsFound`, `HasRow`), and has one row if no
relation links a key twice (`RowIsOne`): `RowsTally`. For the
answered objects, `DedupeRoots` follows the scan of the rows: after row k the roots are the keys of
the first k rows, each once (`Listed`), ascending or descending as the rows are
(`Ascends`); `SliceIs` and `ArrangementIs` say what LIMIT, OFFSET and ORDER BY leave of the rows, and
`TreeRoots` puts both together. `PlantsExact` carries it to the state after the call: the queryset that ran,
a clone with an array of its own or the receiver, has the conditions of the queryset
that the variable holds now. `None` is only assumed to be no relation, so the two
properties about trees are stated of a queryset that is assigned.

Assumptions: those of section 7; `QueriesAssumption` (what the program selects are
items, and limits are not negative, as SQL wants them; the two default limits of the code are positive) and `WritesAssumption`:
keys are positive and finitely many, there are more values of the unique column than keys (so that a
new row can have one of its own), and a call is never without objects (an empty
list is not modelled).

Not modelled: models with a `Save` of their own (section 5) inside `Create` and
`Update`, actors, primary keys that are not integers, null checks, empty lists of
objects, the reading helpers (`GetObject`, `ListObjects`, `CountObjects`: one call each).

## 9. Findings

* `HonestCommit`: `wrappedTransaction.Commit` reports success for a transaction
  that was rolled back because its context was cancelled
  (`src/queryset_transactions_types.go:70`).
* `AppliedIsNotMissing`: `Migrate` fails with "dependency not found" when a
  migration depends on one that is applied already
  (`src/migrator/engine.go:594`). A migration that failed after its dependency
  was applied can never be applied, nor one that adds a relation to a model that
  was migrated before.
* `InOrder`: two unapplied migrations of one model are applied in any order
  (`src/migrator/engine.go:624`). In the trace the third is applied and recorded before
  the second; the same call then applies the second, which undoes the third.
* `RetryStores`: after a `Save` that failed behind its statement, the next `Save` of
  the object returns nil and stores nothing (`src/models/model.go:703`).

## 10. Running

    tlc -config MCTransactions.cfg MCTransactions.tla
    tlc -config MCMigrations.cfg MCMigrations.tla
    tlc -config MCModels.cfg MCModels.tla
    tlc -config MCRelations.cfg MCRelations.tla
    tlc -config MCQuerySets.cfg MCQuerySets.tla
    tlapm TransactionsProofs.tla
    tlapm TransactionsHoldersProofs.tla
    tlapm MigrationsProofs.tla
    tlapm MigrationsSchemaProofs.tla
    tlapm ModelsProofs.tla
    tlapm RelationsProofs.tla
    tlapm QuerySetsProofs.tla
    tlapm WritesProofs.tla

## 11. Not modelled

The text of SQL, expressions, field conversions, drivers' connections and the
test helpers are formatting, reflection or I/O. What each module leaves out is at
the end of its section. Left out of `Transactions`: statements that leave the
transaction (`src/queryset_compiler_generic.go:1361` executes on the database for a
MySQL model without primary key); the return value of `RunInTransaction` after a
panic; `pgx.ErrTxClosed`, which is not `sql.ErrTxDone`. A read whose context is
cancelled in the middle has no property. The map that caches walked fields
(`internal/utils.go:106`) is neither read nor written as long as the constant
`CACHE_TRAVERSAL_RESULTS` is false (`internal/utils.go:21`).
