---------------------------- MODULE Transactions ----------------------------
(***************************************************************************)
(* The transaction machinery of the queryset library: the compiler's       *)
(* `transaction` pointer, the wrapped and null transactions, the           *)
(* transaction carried by a context.Context, RunInTransaction, and the     *)
(* skeleton shared by every write method of a QuerySet                     *)
(* (GetOrCreateTransaction; defer Rollback; statements; Commit).           *)
(*                                                                         *)
(* The SQL database is external: a transaction keeps its rows to itself    *)
(* until it is committed, and database/sql rolls an open transaction back  *)
(* when the context it was begun with is cancelled.                        *)
(***************************************************************************)
EXTENDS Naturals, Sequences

CONSTANTS
    Proc,      \* goroutines
    QuerySet,  \* QuerySet objects that may be made
    Compiler,  \* genericQueryBuilder objects that may be made
    Tx,        \* SQL transactions that may be begun
    Row,       \* rows that may be written, each by one statement
    None,      \* no goroutine, queryset, compiler or transaction
    MaxDepth,  \* bound: nested calls of one goroutine
    MaxChain,  \* bound: wrappers around one SQL transaction
    Nested,    \* a queryset in a transaction may be told to enter another
    Rebound,   \* a queryset may be given another context
    Cloned,    \* querysets may be cloned
    Shared     \* a queryset may be used by every goroutine

ASSUME NoneAssumption == None \notin Proc \union QuerySet \union Compiler \union Tx
ASSUME BoundsAssumption == MaxDepth \in Nat /\ MaxChain \in Nat \ {0}
ASSUME FlagsAssumption == {Nested, Rebound, Cloned, Shared} \subseteq BOOLEAN

VARIABLES
    status,       \* of each SQL transaction, in the database
    rows,         \* rows written in each SQL transaction
    db,           \* committed rows
    cancelled,    \* transactions whose context was cancelled while open
    transaction,  \* of each compiler: the wrapped transaction it points to
    made,         \* compilers that exist
    qs,           \* the QuerySet objects
    stack,        \* the calls of each goroutine, outermost first
    handles,      \* transactions returned by QuerySet.StartTransaction
    scopes,       \* history: transactions begun by RunInTransaction
    home,         \* history: the transaction a queryset was told to use
    via,          \* history: home of the queryset each row was written with
    confirmed     \* history: transactions whose Commit returned nil

database == <<status, rows, db, cancelled>>
history == <<scopes, home, via, confirmed>>
vars == <<database, transaction, made, qs, stack, handles, history>>

(***************************************************************************)
(* A transaction value is the SQL transaction inside the wrappedTransaction*)
(* structures around it, listed by their compilers, innermost first. Null  *)
(* is the nullTransaction, and the nil pointer of a compiler.              *)
(***************************************************************************)
Null == [sql |-> None, chain |-> <<>>]
Wrapped == [sql : Tx, chain : Seq(Compiler)] \union {Null}
Begun == [sql : Tx, chain : {<<>>}]
Bare(t) == [sql |-> t, chain |-> <<>>]
Wrap(w, c) == [sql |-> w.sql, chain |-> Append(w.chain, c)]

QuerySets == [compiler : Compiler \union {None}, context : Wrapped,
              user : Proc \union {None}]

Handles == [tx : Wrapped, began : BOOLEAN, user : Proc]

RunFrames == [call : {"run"}, pc : {"body"}, qs : {None}, tx : Wrapped,
              context : Wrapped]
BindFrames == [call : {"write", "start"}, pc : {"bind"}, qs : QuerySet,
               tx : Begun, context : {Null}]
WriteFrames == [call : {"write"}, pc : {"body", "return"}, qs : QuerySet,
                tx : Wrapped, context : {Null}]
Frames == RunFrames \union BindFrames \union WriteFrames

Init ==
    /\ status = [t \in Tx |-> "unused"]
    /\ rows = [t \in Tx |-> {}]
    /\ db = {}
    /\ cancelled = {}
    /\ transaction = [c \in Compiler |-> Null]
    /\ made = {}
    /\ qs = [q \in QuerySet |->
               [compiler |-> None, context |-> Null, user |-> None]]
    /\ stack = [p \in Proc |-> <<>>]
    /\ handles = {}
    /\ scopes = {}
    /\ home = [q \in QuerySet |-> None]
    /\ via = [r \in Row |-> None]
    /\ confirmed = {}

-----------------------------------------------------------------------------
(* Calls in progress. *)

InTransaction(c) == transaction[c].sql # None

NewFrame(call, pc, q, w, context) ==
    [call |-> call, pc |-> pc, qs |-> q, tx |-> w, context |-> context]

Top(p) == stack[p][Len(stack[p])]
Push(p, f) == stack' = [stack EXCEPT ![p] = Append(@, f)]
Pop(p) == stack' = [stack EXCEPT ![p] = SubSeq(@, 1, Len(@) - 1)]
SetTop(p, f) == stack' = [stack EXCEPT ![p] = [@ EXCEPT ![Len(@)] = f]]

InCall(p, call, pc) ==
    stack[p] # <<>> /\ Top(p).call = call /\ Top(p).pc = pc

(* Some write is in progress on a queryset of this compiler. *)
Writing(c) ==
    \E p \in Proc : \E i \in DOMAIN stack[p] :
        stack[p][i].call = "write" /\ qs[stack[p][i].qs].compiler = c

(* The caller's own code runs outside every call, in the function given to *)
(* RunInTransaction, and inside a write: the model's Save and the signal   *)
(* receivers.                                                              *)
CallerRuns(p) == stack[p] # <<>> => Top(p).pc = "body"
MayCall(p) == CallerRuns(p) /\ Len(stack[p]) < MaxDepth

Usable(p, q) == qs[q].compiler # None /\ (Shared \/ qs[q].user = p)

(* The context a call hands to the caller's code: a write puts the         *)
(* transaction of its compiler into the context it gives to Save.          *)
CallContext(f) ==
    IF f.call = "run" THEN f.context
    ELSE LET c == qs[f.qs].compiler
         IN  IF InTransaction(c) THEN transaction[c] ELSE qs[f.qs].context

Contexts(p) ==
    {Null} \union {CallContext(stack[p][i]) : i \in DOMAIN stack[p]}
           \union {qs[q].context : q \in {x \in QuerySet : Usable(p, x)}}

-----------------------------------------------------------------------------
(* Ending a transaction. Each wrapper in turn, outermost first, fails if   *)
(* its compiler is in no transaction, and otherwise clears the compiler's  *)
(* pointer, whatever it points to, before it ends what it wraps.           *)

Reached(w) ==
    {i \in DOMAIN w.chain :
        \A j \in i..Len(w.chain) :
            /\ InTransaction(w.chain[j])
            /\ \A k \in (j + 1)..Len(w.chain) : w.chain[k] # w.chain[j]}

Unbound(w) == {w.chain[i] : i \in Reached(w)}

UnbindEmptied(w) ==  \* mutant: empties the wrapper instead of dropping it
    transaction' = [c \in Compiler |->
                      IF c \in Unbound(w)
                      THEN [transaction[c] EXCEPT !.sql = None]
                      ELSE transaction[c]]

Unbind(w) ==
    transaction' = [c \in Compiler |->
                      IF c \in Unbound(w) THEN Null ELSE transaction[c]]

ReachesOpen(w) ==
    w.sql # None /\ Reached(w) = DOMAIN w.chain /\ status[w.sql] = "open"

(* `err` is what Commit returns: the database may refuse, a wrapper may    *)
(* find no transaction; one that is already over (sql.ErrTxDone) is not an *)
(* error.                                                                  *)
CommitUnchecked(w, err) ==  \* mutant: the driver's error is dropped
    /\ Unbind(w)
    /\ err => ReachesOpen(w)
    /\ IF ReachesOpen(w)
       THEN /\ status' = [status EXCEPT
                 ![w.sql] = IF err THEN "rolledback" ELSE "committed"]
            /\ db' = IF err THEN db ELSE db \union rows[w.sql]
       ELSE UNCHANGED <<status, db>>
    /\ confirmed' = confirmed \union ({w.sql} \ {None})
    /\ UNCHANGED <<rows, cancelled>>

Commit(w, err) ==
    /\ Unbind(w)
    /\ IF ReachesOpen(w)
       THEN /\ status' = [status EXCEPT
                 ![w.sql] = IF err THEN "rolledback" ELSE "committed"]
            /\ db' = IF err THEN db ELSE db \union rows[w.sql]
       ELSE /\ err = (Reached(w) # DOMAIN w.chain)
            /\ UNCHANGED <<status, db>>
    /\ confirmed' = IF err \/ w = Null THEN confirmed
                    ELSE confirmed \union {w.sql}
    /\ UNCHANGED <<rows, cancelled>>

Rollback(w) ==
    /\ Unbind(w)
    /\ status' = IF ReachesOpen(w)
                 THEN [status EXCEPT ![w.sql] = "rolledback"] ELSE status
    /\ UNCHANGED <<rows, db, cancelled, confirmed>>

Begin(t) ==
    /\ status[t] = "unused"
    /\ status' = [status EXCEPT ![t] = "open"]
    /\ UNCHANGED <<rows, db, cancelled>>

(* database/sql watches the context of an open transaction. *)
Cancel(t) ==
    /\ status[t] = "open"
    /\ status' = [status EXCEPT ![t] = "rolledback"]
    /\ cancelled' = cancelled \union {t}
    /\ UNCHANGED <<rows, db, transaction, made, qs, stack, handles, history>>

-----------------------------------------------------------------------------
(* RunInTransaction. *)

(* A transaction found in the context makes this call's own a null one.    *)
(* Otherwise a compiler made for the purpose begins one.                   *)
RunInTransaction(p, context) ==
    /\ MayCall(p)
    /\ context \in Contexts(p)
    /\ \/ /\ context # Null
          /\ Push(p, NewFrame("run", "body", None, Null, context))
          /\ UNCHANGED <<database, transaction, made, scopes>>
       \/ /\ context = Null
          /\ \E t \in Tx, c \in Compiler \ made :
                LET w == Wrap(Bare(t), c)
                IN  /\ Begin(t)
                    /\ made' = made \union {c}
                    /\ transaction' = [transaction EXCEPT ![c] = w]
                    /\ scopes' = scopes \union {t}
                    /\ Push(p, NewFrame("run", "body", None, w, w))
    /\ UNCHANGED <<qs, handles, home, via, confirmed>>

(* The function asks for a commit. The deferred Rollback after a Commit    *)
(* that failed finds a compiler in no transaction and changes nothing.     *)
RunCommits(p) ==
    /\ InCall(p, "run", "body")
    /\ \E err \in BOOLEAN : Commit(Top(p).tx, err)
    /\ Pop(p)
    /\ UNCHANGED <<made, qs, handles, scopes, home, via>>

(* The function asks for no commit, returns an error or panics. *)
RunRollsBack(p) ==
    /\ InCall(p, "run", "body")
    /\ Rollback(Top(p).tx)
    /\ Pop(p)
    /\ UNCHANGED <<made, qs, handles, scopes, home, via>>

-----------------------------------------------------------------------------
(* Querysets. *)

(* WithContext: the error of a compiler already in a transaction is        *)
(* ignored, the context is replaced all the same.                          *)
BindContextOnly(q, c, context) ==  \* mutant: the compiler is not told
    /\ Len(context.chain) < MaxChain
    /\ home' = [home EXCEPT ![q] = IF context # Null THEN context.sql ELSE @]
    /\ UNCHANGED transaction

BindContext(q, c, context) ==
    /\ Len(context.chain) < MaxChain
    /\ transaction' = IF context # Null /\ ~InTransaction(c)
                      THEN [transaction EXCEPT ![c] = Wrap(context, c)]
                      ELSE transaction
    /\ home' = [home EXCEPT ![q] = IF context # Null THEN context.sql ELSE @]

(* GetQuerySet, GetQuerySetWithContext, and the constructor RunInTransaction *)
(* gives to its function.                                                  *)
GetQuerySet(p, q, context) ==
    /\ CallerRuns(p)
    /\ qs[q].compiler = None
    /\ context \in Contexts(p)
    /\ \E c \in Compiler \ made :
          /\ made' = made \union {c}
          /\ BindContext(q, c, context)
          /\ qs' = [qs EXCEPT ![q] =
                      [compiler |-> c, context |-> context, user |-> p]]
    /\ UNCHANGED <<database, stack, handles, scopes, via, confirmed>>

WithContext(p, q, context) ==
    /\ Rebound
    /\ CallerRuns(p)
    /\ Usable(p, q)
    /\ context \in Contexts(p) \ {qs[q].context}
    /\ Nested \/ ~InTransaction(qs[q].compiler)
    /\ BindContext(q, qs[q].compiler, context)
    /\ qs' = [qs EXCEPT ![q].context = context]
    /\ UNCHANGED <<database, made, stack, handles, scopes, via, confirmed>>

(* Clone, and every method that builds on it: the compiler is shared. *)
Clone(p, q, n) ==
    /\ Cloned
    /\ CallerRuns(p)
    /\ Usable(p, q)
    /\ qs[n].compiler = None
    /\ qs' = [qs EXCEPT ![n] = [qs[q] EXCEPT !.user = p]]
    /\ home' = [home EXCEPT ![n] = home[q]]
    /\ UNCHANGED <<database, transaction, made, stack, handles, scopes,
                   via, confirmed>>

(* QuerySet.StartTransaction, first half: the transaction the compiler is  *)
(* in already, or a new one from the database.                             *)
StartTransaction(p, q) ==
    /\ MayCall(p)
    /\ Usable(p, q)
    /\ LET w == transaction[qs[q].compiler]
       IN  \/ /\ Nested
              /\ InTransaction(qs[q].compiler)
              /\ handles' = handles \union
                              {[tx |-> w, began |-> FALSE, user |-> p]}
              /\ qs' = [qs EXCEPT ![q].context = w]
              /\ UNCHANGED <<database, stack>>
           \/ /\ ~InTransaction(qs[q].compiler)
              /\ \E t \in Tx :
                    /\ Begin(t)
                    /\ Push(p, NewFrame("start", "bind", q, Bare(t), Null))
              /\ UNCHANGED <<handles, qs>>
    /\ UNCHANGED <<transaction, made, history>>

(* GetOrCreateTransaction, first half, at the start of every write. *)
StartWriteOwning(p, q) ==  \* mutant: no null transaction in a transaction
    /\ MayCall(p)
    /\ Usable(p, q)
    /\ LET w == transaction[qs[q].compiler]
       IN  \/ /\ w # Null
              /\ Push(p, NewFrame("write", "body", q, w, Null))
              /\ UNCHANGED database
           \/ /\ w = Null
              /\ \E t \in Tx :
                    /\ Begin(t)
                    /\ Push(p, NewFrame("write", "bind", q, Bare(t), Null))
    /\ UNCHANGED <<transaction, made, qs, handles, history>>

StartWrite(p, q) ==
    /\ MayCall(p)
    /\ Usable(p, q)
    /\ \/ /\ InTransaction(qs[q].compiler)
          /\ Push(p, NewFrame("write", "body", q, Null, Null))
          /\ UNCHANGED database
       \/ /\ ~InTransaction(qs[q].compiler)
          /\ \E t \in Tx :
                /\ Begin(t)
                /\ Push(p, NewFrame("write", "bind", q, Bare(t), Null))
    /\ UNCHANGED <<transaction, made, qs, handles, history>>

(* Second half of both: WithTransaction binds the new transaction to the   *)
(* compiler, and the queryset's context carries it. A compiler that        *)
(* entered a transaction in the meantime makes the call fail.              *)
BindTransaction(p) ==
    /\ stack[p] # <<>> /\ Top(p).pc = "bind"
    /\ LET f == Top(p)
           c == qs[f.qs].compiler
           w == Wrap(f.tx, c)
       IN  \/ /\ InTransaction(c)
              /\ Pop(p)
              /\ UNCHANGED <<transaction, qs, handles, home>>
           \/ /\ ~InTransaction(c)
              /\ transaction' = [transaction EXCEPT ![c] = w]
              /\ qs' = [qs EXCEPT ![f.qs].context = w]
              /\ home' = [home EXCEPT ![f.qs] = IF @ = None THEN w.sql ELSE @]
              /\ \/ /\ f.call = "write"
                    /\ SetTop(p, [f EXCEPT !.pc = "body", !.tx = w])
                    /\ UNCHANGED handles
                 \/ /\ f.call = "start"
                    /\ Pop(p)
                    /\ handles' = handles \union
                                    {[tx |-> w, began |-> TRUE, user |-> p]}
    /\ UNCHANGED <<database, made, scopes, via, confirmed>>

(* The caller ends a transaction it started on a queryset: once, and, if   *)
(* the queryset is its own, not from inside a write on that queryset.      *)
EndTransaction(p, h) ==
    /\ CallerRuns(p)
    /\ h.user = p
    /\ Shared \/ \A c \in Unbound(h.tx) : ~Writing(c)
    /\ Rollback(h.tx) \/ \E err \in BOOLEAN : Commit(h.tx, err)
    /\ handles' = handles \ {h}
    /\ home' = [q \in QuerySet |->
                  IF h.began /\ qs[q].compiler \in Unbound(h.tx)
                  THEN None ELSE home[q]]
    /\ UNCHANGED <<made, qs, stack, scopes, via>>

-----------------------------------------------------------------------------
(* The body and the end of a write. *)

Written == db \union UNION {rows[t] : t \in Tx}

(* One statement, on what DB() returns: the compiler's transaction, else   *)
(* the database itself, which commits at once. A transaction that is over  *)
(* accepts no statement.                                                   *)
Execute(p, r) ==
    /\ InCall(p, "write", "body")
    /\ r \notin Written
    /\ LET f == Top(p)
           c == qs[f.qs].compiler
           t == transaction[c].sql
       IN  /\ \/ /\ InTransaction(c)
                 /\ status[t] = "open"
                 /\ rows' = [rows EXCEPT ![t] = @ \union {r}]
                 /\ UNCHANGED db
              \/ /\ ~InTransaction(c)
                 /\ db' = db \union {r}
                 /\ UNCHANGED rows
           /\ via' = [via EXCEPT ![r] = home[f.qs]]
    /\ UNCHANGED <<status, cancelled, transaction, made, qs, stack, handles,
                   scopes, home, confirmed>>

(* A statement, the model's Save or a signal receiver returns an error. *)
WriteFails(p) ==
    /\ InCall(p, "write", "body")
    /\ SetTop(p, [Top(p) EXCEPT !.pc = "return"])
    /\ UNCHANGED <<database, transaction, made, qs, handles, history>>

WriteCommits(p) ==
    /\ InCall(p, "write", "body")
    /\ \E err \in BOOLEAN :
          /\ Commit(Top(p).tx, err)
          /\ SetTop(p, [Top(p) EXCEPT !.pc = "return"])
    /\ UNCHANGED <<made, qs, handles, scopes, home, via>>

(* The deferred Rollback, which runs after a successful Commit as well. *)
WriteReturnsOnly(p) ==  \* mutant: no deferred Rollback
    /\ InCall(p, "write", "return")
    /\ Pop(p)
    /\ UNCHANGED <<database, transaction, made, qs, handles, history>>

WriteReturns(p) ==
    /\ InCall(p, "write", "return")
    /\ Rollback(Top(p).tx)
    /\ home' = [home EXCEPT ![Top(p).qs] =
                   IF Top(p).tx # Null /\ @ = Top(p).tx.sql THEN None ELSE @]
    /\ Pop(p)
    /\ UNCHANGED <<made, qs, handles, scopes, via>>

-----------------------------------------------------------------------------
WriteStep(p) ==
    BindTransaction(p) \/ WriteFails(p) \/ WriteCommits(p) \/ WriteReturns(p)

Next ==
    \/ \E p \in Proc :
        \/ \E context \in Contexts(p) :
            \/ RunInTransaction(p, context)
            \/ \E q \in QuerySet :
                 GetQuerySet(p, q, context) \/ WithContext(p, q, context)
        \/ RunCommits(p)
        \/ RunRollsBack(p)
        \/ \E q, n \in QuerySet : Clone(p, q, n)
        \/ \E q \in QuerySet : StartTransaction(p, q) \/ StartWrite(p, q)
        \/ \E h \in handles : EndTransaction(p, h)
        \/ \E r \in Row : Execute(p, r)
        \/ WriteStep(p)
    \/ \E t \in Tx : Cancel(t)

Spec == Init /\ [][Next]_vars

(* A call that was made ends, at every depth of nesting: the function      *)
(* given to RunInTransaction, the model's Save and the signal receivers do *)
(* not run for ever.                                                       *)
RunEnds(p) == RunCommits(p) \/ RunRollsBack(p)
CallProceeds(p, depth) ==
    Len(stack[p]) = depth /\ (WriteStep(p) \/ RunEnds(p))

FairSpec ==
    /\ Spec
    /\ \A p \in Proc, depth \in 1..MaxDepth : SF_vars(CallProceeds(p, depth))

-----------------------------------------------------------------------------
(* Properties. *)

\* Every variable has its type.
TypeOK ==
    /\ status \in [Tx -> {"unused", "open", "committed", "rolledback"}]
    /\ rows \in [Tx -> SUBSET Row]
    /\ db \subseteq Row
    /\ cancelled \subseteq Tx
    /\ transaction \in [Compiler -> Wrapped]
    /\ made \subseteq Compiler
    /\ qs \in [QuerySet -> QuerySets]
    /\ stack \in [Proc -> Seq(Frames)]
    /\ handles \subseteq Handles
    /\ scopes \subseteq Tx
    /\ home \in [QuerySet -> Tx \union {None}]
    /\ via \in [Row -> Tx \union {None}]
    /\ confirmed \subseteq Tx

\* The rows written with a queryset while it was in a transaction, given to it
\* by its context, by QuerySet.StartTransaction or by its own write, are in the
\* database when that transaction is committed, and only then: all or none of
\* them are visible, whatever was nested, retried or failed meanwhile.
AllOrNothing ==
    \A r \in Written :
       r \in db <=> \E t \in Tx : via[r] = t /\ status[t] = "committed"

\* The same for the rows written with querysets that were made for the context
\* of a RunInTransaction. It holds for querysets shared by goroutines as well.
RunIsAtomic ==
    \A r \in Written :
       via[r] \in scopes => (r \in db <=> status[via[r]] = "committed")

\* What Commit reports is what happened: it returns nil for every transaction
\* that was committed, and for no other.
HonestCommit == confirmed = {t \in Tx : status[t] = "committed"}

\* The same, but for transactions whose context was cancelled.
HonestUnlessCancelled ==
    /\ {t \in Tx : status[t] = "committed"} \subseteq confirmed
    /\ \A t \in confirmed \ cancelled : status[t] = "committed"

\* Every open transaction can still be ended: some call or some caller holds it
\* and the compilers it is wrapped for all point to a transaction.
NoLeak ==
    \A t \in Tx : status[t] = "open" =>
       \/ \E p \in Proc : \E i \in DOMAIN stack[p] :
             stack[p][i].tx.sql = t /\ ReachesOpen(stack[p][i].tx)
       \/ \E h \in handles : h.tx.sql = t /\ ReachesOpen(h.tx)

\* A transaction that a write or a RunInTransaction began for itself does not
\* stay open, whatever fails on the way.
CallsEndTransactions ==
    \A t \in Tx :
       (\E p \in Proc : \E i \in DOMAIN stack[p] :
           stack[p][i].call # "start" /\ stack[p][i].tx.sql = t)
          ~> status[t] # "open"
=============================================================================
