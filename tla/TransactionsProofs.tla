------------------------- MODULE TransactionsProofs -------------------------
(***************************************************************************)
(* Proofs about Transactions, for every number of goroutines, querysets,   *)
(* compilers, transactions and rows.                                       *)
(***************************************************************************)
EXTENDS Transactions, SequenceTheorems, TLAPS

-----------------------------------------------------------------------------
(* Stacks of calls. *)

\* The top of a stack of frames is one of its frames; pushing, popping and
\* replacing the top keep a stack of frames a stack of frames.
LEMMA StackSteps ==
  ASSUME NEW S, NEW p \in Proc, stack \in [Proc -> Seq(S)]
  PROVE  /\ stack[p] # <<>> => Top(p) \in S
         /\ \A f \in S : Push(p, f) => stack' \in [Proc -> Seq(S)]
         /\ stack[p] # <<>> /\ Pop(p) => stack' \in [Proc -> Seq(S)]
         /\ \A f \in S : stack[p] # <<>> /\ SetTop(p, f)
                            => stack' \in [Proc -> Seq(S)]
<1>1. stack[p] \in Seq(S)
  OBVIOUS
<1>2. /\ Len(stack[p]) \in Nat
      /\ stack[p] # <<>> => Len(stack[p]) \in 1..Len(stack[p])
  BY <1>1, EmptySeq, LenProperties
<1>3. stack[p] # <<>> => Top(p) \in S
  BY <1>1, <1>2, ElementOfSeq DEF Top
<1>4. \A f \in S : Push(p, f) => stack' \in [Proc -> Seq(S)]
  BY <1>1, AppendProperties DEF Push
<1>5. ASSUME stack[p] # <<>>, Pop(p)
      PROVE  stack' \in [Proc -> Seq(S)]
  <2>1. SubSeq(stack[p], 1, Len(stack[p]) - 1) \in Seq(S)
    BY <1>1, <1>2, <1>5, SubSeqProperties
  <2> QED
    BY <2>1, <1>5 DEF Pop
<1>6. ASSUME NEW f \in S, stack[p] # <<>>, SetTop(p, f)
      PROVE  stack' \in [Proc -> Seq(S)]
  <2>1. [stack[p] EXCEPT ![Len(stack[p])] = f] \in Seq(S)
    BY <1>1, <1>2, <1>6, ExceptSeq
  <2> QED
    BY <2>1, <1>6 DEF SetTop
<1> QED
  BY <1>3, <1>4, <1>5, <1>6

\* A wrapper around a transaction value is a transaction value.
LEMMA WrapType ==
  ASSUME NEW w \in Wrapped, w # Null \/ w.sql \in Tx, NEW c \in Compiler
  PROVE  /\ Wrap(w, c) \in Wrapped
         /\ Wrap(w, c).sql = w.sql
         /\ Wrap(w, c).sql \in Tx
BY NoneAssumption, AppendProperties DEF Wrapped, Wrap, Null

\* A transaction just begun has no wrapper, and its first one makes it a chain
\* of one compiler.
LEMMA BegunType ==
  ASSUME NEW w \in Begun, NEW c \in Compiler
  PROVE  /\ w \in Wrapped /\ w.sql \in Tx
         /\ Wrap(w, c) \in Wrapped
         /\ Wrap(w, c).sql = w.sql
         /\ Wrap(w, c).chain = <<c>>
<1>1. w \in Wrapped /\ w.sql \in Tx /\ w.chain = <<>>
  BY EmptySeq DEF Begun, Wrapped
<1>2. /\ Wrap(w, c) \in Wrapped
      /\ Wrap(w, c).sql = w.sql
  BY <1>1, WrapType
<1>3. Wrap(w, c).chain = <<c>>
  BY <1>1 DEF Wrap
<1> QED
  BY <1>1, <1>2, <1>3

\* The kinds of frames, told apart by their call and their pc.
LEMMA FrameKinds ==
  ASSUME NEW f \in Frames
  PROVE  /\ f.tx \in Wrapped
         /\ f.pc = "bind" => f \in BindFrames
         /\ f.call = "write" /\ f.pc # "bind" => f \in WriteFrames
         /\ f.call # "run" => f.qs \in QuerySet
<1>1. CASE f \in RunFrames
  BY <1>1 DEF RunFrames
<1>2. CASE f \in BindFrames
  <2>1. f.tx \in Begun
    BY <1>2 DEF BindFrames
  <2>2. f.tx \in Wrapped
    BY <2>1, EmptySeq DEF Begun, Wrapped
  <2> QED
    BY <1>2, <2>2 DEF BindFrames
<1>3. CASE f \in WriteFrames
  BY <1>3 DEF WriteFrames
<1> QED
  BY <1>1, <1>2, <1>3 DEF Frames

-----------------------------------------------------------------------------
(* Types. *)

\* The fields a method assigns leave a queryset a queryset, with its compiler.
LEMMA QuerySetUpdate ==
  ASSUME NEW x \in QuerySets
  PROVE  /\ \A p \in Proc : /\ [x EXCEPT !.user = p] \in QuerySets
                            /\ [x EXCEPT !.user = p].compiler = x.compiler
         /\ \A w \in Wrapped : /\ [x EXCEPT !.context = w] \in QuerySets
                               /\ [x EXCEPT !.context = w].compiler = x.compiler
BY DEF QuerySets

(* The frames whose queryset has been made. *)
LiveFrames == {f \in Frames : f.call # "run" => qs[f.qs].compiler \in made}

\* The inductive form of TypeOK: a queryset in use has a compiler that exists.
TypeInv ==
    /\ TypeOK
    /\ \A q \in QuerySet : qs[q].compiler \in made \union {None}
    /\ stack \in [Proc -> Seq(LiveFrames)]

LEMMA TypeInvInit == Init => TypeInv
<1> SUFFICES ASSUME Init PROVE TypeInv
  OBVIOUS
<1>1. Null \in Wrapped
  BY DEF Null, Wrapped
<1>2. stack \in [Proc -> Seq(LiveFrames)] /\ stack \in [Proc -> Seq(Frames)]
  BY EmptySeq DEF Init
<1> QED
  BY <1>1, <1>2 DEF Init, TypeInv, TypeOK, QuerySets

\* What ending a transaction leaves well typed.
LEMMA EndingTypes ==
  ASSUME TypeOK, NEW w \in Wrapped,
         (\E err \in BOOLEAN : Commit(w, err)) \/ Rollback(w)
  PROVE  /\ status' \in [Tx -> {"unused", "open", "committed", "rolledback"}]
         /\ rows' = rows
         /\ db' \subseteq Row
         /\ cancelled' = cancelled
         /\ transaction' \in [Compiler -> Wrapped]
         /\ confirmed' \subseteq Tx
<1>1. Null \in Wrapped /\ w \in [sql : Tx, chain : Seq(Compiler)] \union {Null}
  BY DEF Wrapped
<1>2. w # Null => w.sql \in Tx
  BY <1>1
<1>3. Unbind(w) => transaction' \in [Compiler -> Wrapped]
  BY <1>1 DEF Unbind, TypeOK
<1>4. ReachesOpen(w) => w.sql \in Tx
  BY <1>2 DEF ReachesOpen, Null
<1>5. CASE Rollback(w)
  BY <1>3, <1>4, <1>5 DEF Rollback, TypeOK
<1>6. ASSUME NEW err \in BOOLEAN, Commit(w, err)
      PROVE  /\ status' \in [Tx -> {"unused", "open", "committed", "rolledback"}]
             /\ rows' = rows
             /\ db' \subseteq Row
             /\ cancelled' = cancelled
             /\ transaction' \in [Compiler -> Wrapped]
             /\ confirmed' \subseteq Tx
  <2>1. confirmed' \subseteq Tx
    BY <1>2, <1>6 DEF Commit, TypeOK
  <2>2. /\ status' \in [Tx -> {"unused", "open", "committed", "rolledback"}]
        /\ db' \subseteq Row
    BY <1>4, <1>6 DEF Commit, TypeOK
  <2> QED
    BY <2>1, <2>2, <1>3, <1>6 DEF Commit, TypeOK
<1> QED
  BY <1>5, <1>6

\* Frames stay live when compilers are made and querysets keep theirs.
LEMMA LiveFramesGrow ==
  ASSUME made \subseteq made',
         \A q \in QuerySet : qs[q].compiler \in made => qs'[q].compiler \in made'
  PROVE  /\ LiveFrames \subseteq LiveFrames'
         /\ [Proc -> Seq(LiveFrames)] \subseteq [Proc -> Seq(LiveFrames')]
<1>1. LiveFrames \subseteq LiveFrames'
  BY DEF LiveFrames, Frames, RunFrames, BindFrames, WriteFrames
<1>2. Seq(LiveFrames) \subseteq Seq(LiveFrames')
  BY <1>1, SeqMonotonic
<1> QED
  BY <1>1, <1>2

\* Live frames are frames; a stack of the ones is a stack of the others.
LEMMA LiveStacks ==
  /\ LiveFrames \subseteq Frames
  /\ [Proc -> Seq(LiveFrames)] \subseteq [Proc -> Seq(Frames)]
<1>1. LiveFrames \subseteq Frames
  BY DEF LiveFrames
<1>2. Seq(LiveFrames) \subseteq Seq(Frames)
  BY <1>1, SeqMonotonic
<1> QED
  BY <1>1, <1>2

\* What a call can find in a context is a transaction value.
LEMMA ContextsType ==
  ASSUME TypeInv, NEW p \in Proc
  PROVE  Contexts(p) \subseteq Wrapped
<1>1. Null \in Wrapped
  BY DEF Wrapped
<1>2. ASSUME NEW i \in DOMAIN stack[p]
      PROVE  CallContext(stack[p][i]) \in Wrapped
  <2>1. stack[p][i] \in LiveFrames
    BY ElementOfSeq, LenProperties DEF TypeInv
  <2>2. CASE stack[p][i].call = "run"
    BY <2>1, <2>2 DEF LiveFrames, Frames, RunFrames, BindFrames, WriteFrames, CallContext
  <2>3. CASE stack[p][i].call # "run"
    <3>1. /\ stack[p][i].qs \in QuerySet
          /\ qs[stack[p][i].qs].compiler \in Compiler
      BY <2>1, <2>3 DEF LiveFrames, Frames, RunFrames, BindFrames, WriteFrames, TypeInv, TypeOK
    <3> QED
      BY <3>1, <2>3 DEF CallContext, TypeInv, TypeOK, QuerySets
  <2> QED
    BY <2>2, <2>3
<1>3. \A q \in QuerySet : qs[q].context \in Wrapped
  BY DEF TypeInv, TypeOK, QuerySets
<1> QED
  BY <1>1, <1>2, <1>3 DEF Contexts

LEMMA TypeInvNext == TypeInv /\ [Next]_vars => TypeInv'
<1> SUFFICES ASSUME TypeInv, [Next]_vars PROVE TypeInv'
  OBVIOUS
<1> USE DEF TypeInv
<1>n. Null \in Wrapped /\ None \notin Compiler /\ None \notin Tx
  BY NoneAssumption DEF Wrapped
<1>1. ASSUME NEW p \in Proc, NEW context \in Contexts(p),
             RunInTransaction(p, context)
      PROVE  TypeInv'
  <2>1. context \in Wrapped
    BY ContextsType
  <2>2. /\ \A q \in QuerySet : qs[q].compiler \in made => qs'[q].compiler \in made'
        /\ made \subseteq made'
    BY <1>1 DEF RunInTransaction
  <2>3. CASE context # Null /\ Push(p, NewFrame("run", "body", None, Null, context))
             /\ UNCHANGED <<database, transaction, made, scopes>>
    <3>1. NewFrame("run", "body", None, Null, context) \in LiveFrames
      BY <1>n, <2>1 DEF NewFrame, LiveFrames, Frames, RunFrames
    <3>2. stack' \in [Proc -> Seq(LiveFrames)]
      BY <3>1, <2>3, StackSteps
    <3>3. stack' \in [Proc -> Seq(LiveFrames')] /\ stack' \in [Proc -> Seq(Frames)]
      BY <3>2, <2>2, LiveFramesGrow, LiveStacks
    <3> QED
      BY <1>1, <2>3, <3>3 DEF RunInTransaction, TypeOK, database
  <2>4. ASSUME NEW t \in Tx, NEW c \in Compiler \ made,
               Begin(t),
               made' = made \union {c},
               transaction' = [transaction EXCEPT
                                 ![c] = Wrap(Bare(t), c)],
               scopes' = scopes \union {t},
               LET w == Wrap(Bare(t), c)
               IN  Push(p, NewFrame("run", "body", None, w, w))
        PROVE  TypeInv'
    <3> DEFINE w == Wrap(Bare(t), c)
    <3>1. Bare(t) \in Wrapped /\ Bare(t).sql \in Tx
      BY EmptySeq DEF Wrapped, Bare
    <3>2. w \in Wrapped
      BY <3>1, WrapType
    <3>3. NewFrame("run", "body", None, w, w) \in LiveFrames
      BY <3>2 DEF NewFrame, LiveFrames, Frames, RunFrames
    <3>4. stack' \in [Proc -> Seq(LiveFrames)]
      BY <3>3, <2>4, StackSteps
    <3>5. stack' \in [Proc -> Seq(LiveFrames')] /\ stack' \in [Proc -> Seq(Frames)]
      BY <3>4, <2>2, LiveFramesGrow, LiveStacks
    <3>6. transaction' \in [Compiler -> Wrapped]
      BY <3>2, <2>4 DEF TypeOK
    <3> QED
      BY <1>1, <2>4, <3>5, <3>6 DEF RunInTransaction, TypeOK, Begin
  <2> QED
    BY <1>1, <2>3, <2>4 DEF RunInTransaction
<1>2. ASSUME NEW p \in Proc, RunCommits(p) \/ RunRollsBack(p)
      PROVE  TypeInv'
  <2>1. stack[p] # <<>> /\ Pop(p) /\ UNCHANGED <<made, qs, handles, scopes, home, via>>
    BY <1>2 DEF RunCommits, RunRollsBack, InCall
  <2>2. Top(p) \in LiveFrames /\ stack' \in [Proc -> Seq(LiveFrames)]
    BY <2>1, StackSteps
  <2>3. Top(p).tx \in Wrapped
    BY <2>2, FrameKinds, LiveStacks
  <2>4. (\E err \in BOOLEAN : Commit(Top(p).tx, err)) \/ Rollback(Top(p).tx)
    BY <1>2 DEF RunCommits, RunRollsBack
  <2>5. stack' \in [Proc -> Seq(LiveFrames')] /\ stack' \in [Proc -> Seq(Frames)]
    BY <2>1, <2>2, LiveFramesGrow, LiveStacks
  <2> QED
    BY <2>1, <2>3, <2>4, <2>5, EndingTypes DEF TypeOK
<1>3. ASSUME NEW p \in Proc, NEW context \in Contexts(p), NEW q \in QuerySet,
             GetQuerySet(p, q, context)
      PROVE  TypeInv'
  <2>1. context \in Wrapped
    BY ContextsType
  <2>2. PICK c \in Compiler \ made :
           /\ made' = made \union {c}
           /\ BindContext(q, c, context)
           /\ qs' = [qs EXCEPT ![q] =
                        [compiler |-> c, context |-> context, user |-> p]]
    BY <1>3 DEF GetQuerySet
  <2>3. transaction' \in [Compiler -> Wrapped] /\ home' \in [QuerySet -> Tx \union {None}]
    BY <2>1, <2>2, <1>n, WrapType DEF BindContext, TypeOK, Wrapped
  <2>4. qs' \in [QuerySet -> QuerySets]
    BY <2>1, <2>2 DEF TypeOK, QuerySets
  <2>5. stack' \in [Proc -> Seq(LiveFrames')] /\ stack' \in [Proc -> Seq(Frames)]
    BY <1>3, <2>2, LiveFramesGrow, LiveStacks DEF GetQuerySet, TypeOK
  <2> QED
    BY <1>3, <2>2, <2>3, <2>4, <2>5 DEF GetQuerySet, TypeOK, database
<1>4. ASSUME NEW p \in Proc, NEW context \in Contexts(p), NEW q \in QuerySet,
             WithContext(p, q, context)
      PROVE  TypeInv'
  <2>1. context \in Wrapped
    BY ContextsType
  <2>2. qs[q].compiler \in Compiler
    BY <1>4 DEF WithContext, Usable, TypeOK
  <2>3. transaction' \in [Compiler -> Wrapped] /\ home' \in [QuerySet -> Tx \union {None}]
    BY <1>4, <2>1, <2>2, <1>n, WrapType DEF WithContext, BindContext, TypeOK, Wrapped
  <2>4. /\ qs' \in [QuerySet -> QuerySets]
        /\ \A x \in QuerySet : qs'[x].compiler = qs[x].compiler
    BY ZenonT(60), <1>4, <2>1 DEF WithContext, TypeOK, QuerySets
  <2>5. stack' \in [Proc -> Seq(LiveFrames')] /\ stack' \in [Proc -> Seq(Frames)]
    BY <1>4, <2>4, LiveFramesGrow, LiveStacks DEF WithContext
  <2> QED
    BY <1>4, <2>3, <2>4, <2>5 DEF WithContext, TypeOK, database
<1>5. ASSUME NEW p \in Proc, NEW q \in QuerySet, NEW n \in QuerySet, Clone(p, q, n)
      PROVE  TypeInv'
  <2>1. /\ qs' \in [QuerySet -> QuerySets]
        /\ \A x \in QuerySet : qs'[x].compiler \in {qs[x].compiler, qs[q].compiler}
        /\ qs[q].compiler \in made
    <3>1. /\ qs' = [qs EXCEPT ![n] = [qs[q] EXCEPT !.user = p]]
          /\ qs[q] \in QuerySets /\ qs[q].compiler \in made
      BY <1>5 DEF Clone, TypeOK, Usable
    <3>2. /\ [qs[q] EXCEPT !.user = p] \in QuerySets
          /\ [qs[q] EXCEPT !.user = p].compiler = qs[q].compiler
      BY <3>1, QuerySetUpdate
    <3> QED
      BY <3>1, <3>2 DEF TypeOK
  <2>2. stack' \in [Proc -> Seq(LiveFrames')] /\ stack' \in [Proc -> Seq(Frames)]
    BY <1>5, <2>1, LiveFramesGrow, LiveStacks DEF Clone
  <2> QED
    BY <1>5, <2>1, <2>2 DEF Clone, TypeOK, database
<1>6. ASSUME NEW p \in Proc, NEW q \in QuerySet, StartTransaction(p, q)
      PROVE  TypeInv'
  <2>1. qs[q].compiler \in Compiler /\ qs[q].compiler \in made
    BY <1>6 DEF StartTransaction, Usable, TypeOK
  <2>2. CASE /\ handles' = handles \union
                   {[tx |-> transaction[qs[q].compiler], began |-> FALSE, user |-> p]}
             /\ qs' = [qs EXCEPT ![q].context = transaction[qs[q].compiler]]
             /\ UNCHANGED <<database, stack>>
    <3>1. /\ qs' \in [QuerySet -> QuerySets]
          /\ \A x \in QuerySet : qs'[x].compiler = qs[x].compiler
      BY <2>1, <2>2, QuerySetUpdate DEF TypeOK
    <3>h. handles' \subseteq Handles
      <4>1. transaction[qs[q].compiler] \in Wrapped
        BY <2>1 DEF TypeOK
      <4>2. [tx |-> transaction[qs[q].compiler], began |-> FALSE, user |-> p] \in Handles
        BY <4>1 DEF Handles
      <4> QED
        BY <4>2, <2>2 DEF TypeOK
    <3>2. stack' \in [Proc -> Seq(LiveFrames')] /\ stack' \in [Proc -> Seq(Frames)]
      BY <1>6, <2>2, <3>1, LiveFramesGrow, LiveStacks DEF StartTransaction
    <3> QED
      BY <1>6, <2>2, <3>1, <3>h, <3>2 DEF StartTransaction, TypeOK, database, history
  <2>3. ASSUME NEW t \in Tx, Begin(t), UNCHANGED <<handles, qs>>,
               Push(p, NewFrame("start", "bind", q, Bare(t), Null))
        PROVE  TypeInv'
    <3>1. NewFrame("start", "bind", q, Bare(t), Null) \in LiveFrames
      BY <2>1, <1>n, EmptySeq
      DEF NewFrame, LiveFrames, Frames, BindFrames, Begun, Bare
    <3>2. stack' \in [Proc -> Seq(LiveFrames)]
      BY <3>1, <2>3, StackSteps
    <3>3. stack' \in [Proc -> Seq(LiveFrames')] /\ stack' \in [Proc -> Seq(Frames)]
      BY <1>6, <2>3, <3>2, LiveFramesGrow, LiveStacks DEF StartTransaction
    <3> QED
      BY <1>6, <2>3, <3>3 DEF StartTransaction, TypeOK, Begin, history
  <2> QED
    BY <1>6, <2>2, <2>3 DEF StartTransaction
<1>7. ASSUME NEW p \in Proc, NEW q \in QuerySet, StartWrite(p, q)
      PROVE  TypeInv'
  <2>1. qs[q].compiler \in Compiler /\ qs[q].compiler \in made
    BY <1>7 DEF StartWrite, Usable, TypeOK
  <2>2. PICK f \in LiveFrames : Push(p, f)
    <3>1. NewFrame("write", "body", q, Null, Null) \in LiveFrames
      BY <2>1, <1>n DEF NewFrame, LiveFrames, Frames, BindFrames, WriteFrames
    <3>2. \A t \in Tx :
             NewFrame("write", "bind", q, Bare(t), Null) \in LiveFrames
      BY <2>1, <1>n, EmptySeq
      DEF NewFrame, LiveFrames, Frames, BindFrames, Begun, Bare
    <3> QED
      BY <1>7, <3>1, <3>2 DEF StartWrite
  <2>3. stack' \in [Proc -> Seq(LiveFrames)]
    BY <2>2, StackSteps
  <2>4. stack' \in [Proc -> Seq(LiveFrames')] /\ stack' \in [Proc -> Seq(Frames)]
    BY <1>7, <2>3, LiveFramesGrow, LiveStacks DEF StartWrite
  <2> QED
    BY <1>7, <2>4 DEF StartWrite, TypeOK, Begin, database, history
<1>8. ASSUME NEW p \in Proc, BindTransaction(p)
      PROVE  TypeInv'
  <2> DEFINE f == Top(p)
             c == qs[f.qs].compiler
             w == Wrap(f.tx, c)
  <2>1. stack[p] # <<>> /\ f.pc = "bind"
    BY <1>8 DEF BindTransaction
  <2>2. f \in LiveFrames /\ f \in BindFrames
    BY <2>1, StackSteps, FrameKinds, LiveStacks
  <2>3. f.qs \in QuerySet /\ c \in Compiler /\ c \in made
    BY <2>2 DEF LiveFrames, BindFrames, TypeOK
  <2>4. CASE InTransaction(c) /\ Pop(p) /\ UNCHANGED <<transaction, qs, handles, home>>
    <3>1. stack' \in [Proc -> Seq(LiveFrames)]
      BY <2>1, <2>4, StackSteps
    <3>2. stack' \in [Proc -> Seq(LiveFrames')] /\ stack' \in [Proc -> Seq(Frames)]
      BY <1>8, <2>4, <3>1, LiveFramesGrow, LiveStacks DEF BindTransaction
    <3> QED
      BY <1>8, <2>4, <3>2 DEF BindTransaction, TypeOK, database
  <2>5. ASSUME transaction' = [transaction EXCEPT ![c] = w],
               qs' = [qs EXCEPT ![f.qs].context = w],
               home' = [home EXCEPT ![f.qs] = IF @ = None THEN w.sql ELSE @],
               \/ /\ f.call = "write"
                  /\ SetTop(p, [f EXCEPT !.pc = "body", !.tx = w])
                  /\ UNCHANGED handles
               \/ /\ f.call = "start"
                  /\ Pop(p)
                  /\ handles' = handles \union
                                  {[tx |-> w, began |-> TRUE, user |-> p]}
        PROVE  TypeInv'
    <3>1. w \in Wrapped /\ w.sql \in Tx
      BY <2>2, <2>3, BegunType DEF BindFrames
    <3>2. transaction' \in [Compiler -> Wrapped] /\ home' \in [QuerySet -> Tx \union {None}]
      BY <3>1, <2>5 DEF TypeOK
    <3>3. /\ qs' \in [QuerySet -> QuerySets]
          /\ \A x \in QuerySet : qs'[x].compiler = qs[x].compiler
      BY <3>1, <2>3, <2>5, QuerySetUpdate DEF TypeOK
    <3>4. stack' \in [Proc -> Seq(LiveFrames)] /\ handles' \subseteq Handles
      <4>1. CASE f.call = "write" /\ UNCHANGED handles
                 /\ SetTop(p, [f EXCEPT !.pc = "body", !.tx = w])
        <5>1. [f EXCEPT !.pc = "body", !.tx = w] \in LiveFrames
          BY <2>2, <2>3, <3>1, <4>1 DEF LiveFrames, Frames, BindFrames, WriteFrames
        <5> QED
          BY <2>1, <4>1, <5>1, StackSteps DEF TypeOK
      <4>2. CASE f.call = "start" /\ Pop(p)
                 /\ handles' = handles \union {[tx |-> w, began |-> TRUE, user |-> p]}
        <5>1. [tx |-> w, began |-> TRUE, user |-> p] \in Handles
          BY <3>1 DEF Handles
        <5> QED
          BY <2>1, <4>2, <5>1, StackSteps DEF TypeOK
      <4> QED
        BY <2>5, <4>1, <4>2
    <3>5. stack' \in [Proc -> Seq(LiveFrames')] /\ stack' \in [Proc -> Seq(Frames)]
      BY <1>8, <3>3, <3>4, LiveFramesGrow, LiveStacks DEF BindTransaction
    <3> QED
      BY <1>8, <3>2, <3>3, <3>4, <3>5 DEF BindTransaction, TypeOK, database
  <2> QED
    BY <1>8, <2>4, <2>5 DEF BindTransaction
<1>9. ASSUME NEW p \in Proc, NEW h \in handles, EndTransaction(p, h)
      PROVE  TypeInv'
  <2>1. h.tx \in Wrapped
    BY DEF TypeOK, Handles
  <2>2. (\E err \in BOOLEAN : Commit(h.tx, err)) \/ Rollback(h.tx)
    BY <1>9 DEF EndTransaction
  <2>3. home' \in [QuerySet -> Tx \union {None}]
    BY <1>9 DEF EndTransaction, TypeOK
  <2>4. stack' \in [Proc -> Seq(LiveFrames')]
    BY <1>9, LiveFramesGrow DEF EndTransaction
  <2> QED
    BY <1>9, <2>1, <2>2, <2>3, <2>4, EndingTypes DEF EndTransaction, TypeOK
<1>10. ASSUME NEW p \in Proc, NEW r \in Row, Execute(p, r)
       PROVE  TypeInv'
  <2>1. Top(p) \in LiveFrames /\ Top(p).call = "write"
    BY <1>10, StackSteps DEF Execute, InCall
  <2>2. Top(p).qs \in QuerySet
    BY <2>1, FrameKinds, LiveStacks
  <2>3. rows' \in [Tx -> SUBSET Row] /\ db' \subseteq Row
    <3> DEFINE t == transaction[qs[Top(p).qs].compiler].sql
    <3>1. \/ rows' = [rows EXCEPT ![t] = @ \union {r}] /\ db' = db
          \/ db' = db \union {r} /\ rows' = rows
      BY <1>10 DEF Execute
    <3>2. rows \in [Tx -> SUBSET Row] /\ db \subseteq Row
      BY DEF TypeOK
    <3> HIDE DEF t
    <3> QED
      BY <1>10, <3>1, <3>2
  <2>4. via' \in [Row -> Tx \union {None}]
    BY <1>10, <2>2 DEF Execute, TypeOK
  <2>5. stack' \in [Proc -> Seq(LiveFrames')]
    BY <1>10, LiveFramesGrow DEF Execute
  <2> QED
    BY <1>10, <2>3, <2>4, <2>5 DEF Execute, TypeOK
<1>11. ASSUME NEW p \in Proc, WriteFails(p) \/ WriteCommits(p)
       PROVE  TypeInv'
  <2> DEFINE f == Top(p)
  <2>1. /\ stack[p] # <<>> /\ f.call = "write" /\ f.pc = "body"
        /\ SetTop(p, [f EXCEPT !.pc = "return"])
        /\ UNCHANGED <<made, qs, handles, scopes, home, via>>
    BY <1>11 DEF WriteFails, WriteCommits, InCall, history
  <2>2. f \in LiveFrames /\ f \in WriteFrames
    BY <2>1, StackSteps, FrameKinds, LiveStacks
  <2>3. [f EXCEPT !.pc = "return"] \in LiveFrames
    BY <2>2 DEF LiveFrames, Frames, WriteFrames
  <2>4. stack' \in [Proc -> Seq(LiveFrames)]
    BY <2>1, <2>3, StackSteps
  <2>5. stack' \in [Proc -> Seq(LiveFrames')] /\ stack' \in [Proc -> Seq(Frames)]
    BY <2>1, <2>4, LiveFramesGrow, LiveStacks
  <2>6. CASE WriteFails(p)
    BY <2>1, <2>5, <2>6 DEF WriteFails, TypeOK, database, history
  <2>7. CASE WriteCommits(p)
    <3>1. f.tx \in Wrapped /\ \E err \in BOOLEAN : Commit(f.tx, err)
      BY <2>2, <2>7 DEF WriteFrames, WriteCommits
    <3> QED
      BY <2>1, <2>5, <3>1, EndingTypes DEF TypeOK
  <2> QED
    BY <1>11, <2>6, <2>7
<1>12. ASSUME NEW p \in Proc, WriteReturns(p)
       PROVE  TypeInv'
  <2>1. /\ stack[p] # <<>> /\ Pop(p) /\ Rollback(Top(p).tx)
        /\ UNCHANGED <<made, qs, handles, scopes, via>>
    BY <1>12 DEF WriteReturns, InCall
  <2>2. Top(p) \in LiveFrames /\ stack' \in [Proc -> Seq(LiveFrames)]
    BY <2>1, StackSteps
  <2>3. Top(p).tx \in Wrapped
    BY <2>2, FrameKinds, LiveStacks
  <2>4. stack' \in [Proc -> Seq(LiveFrames')] /\ stack' \in [Proc -> Seq(Frames)]
    BY <2>1, <2>2, LiveFramesGrow, LiveStacks
  <2>5. home' \in [QuerySet -> Tx \union {None}]
    BY <1>12 DEF WriteReturns, TypeOK
  <2> QED
    BY <2>1, <2>3, <2>4, <2>5, EndingTypes DEF TypeOK
<1>13. ASSUME NEW t \in Tx, Cancel(t)
       PROVE  TypeInv'
  <2>1. stack' \in [Proc -> Seq(LiveFrames')]
    BY <1>13, LiveFramesGrow DEF Cancel
  <2> QED
    BY <1>13, <2>1 DEF Cancel, TypeOK, history
<1>14. CASE UNCHANGED vars
  <2>1. stack' \in [Proc -> Seq(LiveFrames')]
    BY <1>14, LiveFramesGrow DEF vars
  <2> QED
    BY <1>14, <2>1 DEF vars, TypeOK, database, history
<1> QED
  BY <1>1, <1>2, <1>3, <1>4, <1>5, <1>6, <1>7, <1>8, <1>9, <1>10, <1>11, <1>12,
     <1>13, <1>14 DEF Next, WriteStep

\* Every reachable state is well typed, however many calls are nested and
\* interleaved.
THEOREM TypeCorrect == Spec => []TypeOK
<1>1. TypeInv => TypeOK
  BY DEF TypeInv
<1> QED
  BY <1>1, TypeInvInit, TypeInvNext, PTL DEF Spec

-----------------------------------------------------------------------------
(* Atomicity of RunInTransaction. A compiler bound to the transaction of a *)
(* context has wrapped it at least twice, and nothing that is still to be  *)
(* ended is wrapped that often: so the binding lasts. What a Rollback that *)
(* comes late can clear is only the binding of a write's own transaction.  *)

Used == {t \in Tx : status[t] # "unused"}
Tenured(c) == Len(transaction[c].chain) > 1

(* What contexts and compilers hold, and what is still to be ended. *)
Carried == {w \in Wrapped : w # Null => w.sql \in Used /\ w.chain # <<>>}
Endable ==
    {w \in Wrapped : w # Null => /\ w.sql \in Used
                                 /\ \E c \in made : w.chain = <<c>> /\ ~Tenured(c)}

OwnFrames ==
    {f \in LiveFrames :
        /\ f.context \in Carried
        /\ f.pc = "bind" => f.tx.sql \in Used \ scopes
        /\ f.pc # "bind" => f.tx \in Endable}

CallsOwn ==
    /\ stack \in [Proc -> Seq(OwnFrames)]
    /\ \A h \in handles : h.tx \in Endable

CompilersCarry ==
    /\ \A c \in Compiler : /\ transaction[c] \in Carried
                           /\ c \notin made => transaction[c] = Null
    /\ \A q \in QuerySet : qs[q].context \in Carried

(* A queryset told to use the transaction of a RunInTransaction still does. *)
HomesHold ==
    \A q \in QuerySet : home[q] \in scopes =>
       /\ qs[q].compiler \in Compiler
       /\ transaction[qs[q].compiler].sql = home[q]
       /\ Tenured(qs[q].compiler)

HistoryUsed ==
    /\ scopes \subseteq Used
    /\ \A q \in QuerySet : home[q] \in Used \union {None}
    /\ \A r \in Row : via[r] \in Used \union {None}

RowsHold ==
    /\ \A r \in Written : via[r] \in scopes =>
          /\ \A t \in Tx : r \in rows[t] <=> t = via[r]
          /\ r \in db => status[via[r]] = "committed"
    /\ \A t \in Tx : status[t] = "committed" => rows[t] \subseteq db

AtomicInv == CallsOwn /\ CompilersCarry /\ HomesHold /\ HistoryUsed /\ RowsHold

(* What most steps leave alone. *)
Settled ==
    /\ Used \subseteq Used' /\ made \subseteq made'
    /\ scopes \subseteq scopes' /\ (scopes' \ scopes) \intersect Used = {}
    /\ \A q \in QuerySet : qs[q].compiler \in made => qs'[q].compiler \in made'
    /\ \A c \in made : Tenured(c)' => Tenured(c)

\* A settled step leaves a value to be carried, ended or owned what it was.
LEMMA SettledOwn ==
  ASSUME TypeInv, Settled
  PROVE  /\ Carried \subseteq Carried'
         /\ Endable \subseteq Endable'
         /\ OwnFrames \subseteq OwnFrames'
         /\ [Proc -> Seq(OwnFrames)] \subseteq [Proc -> Seq(OwnFrames')]
<1>1. Carried \subseteq Carried'
  BY DEF Settled, Carried
<1>2. Endable \subseteq Endable'
  BY DEF Settled, Endable
<1>3. OwnFrames \subseteq OwnFrames'
  <2>1. LiveFrames \subseteq LiveFrames'
    BY LiveFramesGrow DEF Settled
  <2> QED
    BY <1>1, <1>2, <2>1 DEF OwnFrames, Settled
<1>4. Seq(OwnFrames) \subseteq Seq(OwnFrames')
  BY <1>3, SeqMonotonic
<1> QED
  BY <1>1, <1>2, <1>3, <1>4

\* The rows written for a RunInTransaction are as the step found them when
\* neither they nor the committed transactions change.
LEMMA RowsSame ==
  ASSUME TypeInv, TypeInv', HistoryUsed, RowsHold, Settled,
         UNCHANGED <<rows, db, via>>,
         \A t \in Tx : status'[t] = "committed" <=> status[t] = "committed"
  PROVE  RowsHold'
<1>1. Written' = Written /\ Written \subseteq Row
  BY DEF Written, TypeInv, TypeOK
<1>2. \A r \in Written : via[r] \in scopes' => via[r] \in scopes /\ via[r] \in Tx
  BY <1>1, NoneAssumption DEF HistoryUsed, Settled, TypeInv, TypeOK, Used
<1> QED
  BY <1>1, <1>2 DEF RowsHold

\* A queryset keeps using the transaction it was told to use when no lasting
\* binding changes.
LEMMA HomesSame ==
  ASSUME TypeInv, TypeInv', HistoryUsed, HomesHold, Settled,
         \A q \in QuerySet : /\ home'[q] = home[q] \/ home'[q] \notin scopes'
                             /\ qs'[q].compiler = qs[q].compiler,
         \A c \in Compiler : Tenured(c) => transaction'[c] = transaction[c]
  PROVE  HomesHold'
<1> SUFFICES ASSUME NEW q \in QuerySet, home'[q] \in scopes'
             PROVE  /\ qs'[q].compiler \in Compiler
                    /\ transaction'[qs'[q].compiler].sql = home'[q]
                    /\ Len(transaction'[qs'[q].compiler].chain) > 1
  BY DEF HomesHold, Tenured
<1>1. home'[q] = home[q] /\ home[q] \in scopes
  BY NoneAssumption DEF HistoryUsed, Settled, TypeInv, TypeOK
<1>2. /\ qs[q].compiler \in Compiler
      /\ transaction[qs[q].compiler].sql = home[q]
      /\ Tenured(qs[q].compiler)
  BY <1>1 DEF HomesHold
<1> QED
  BY <1>1, <1>2 DEF Tenured

\* Ending what may be ended clears no lasting binding, and settles.
LEMMA EndingSettled ==
  ASSUME TypeInv, TypeInv', CompilersCarry, HistoryUsed, RowsHold,
         NEW w \in Endable,
         (\E err \in BOOLEAN : Commit(w, err)) \/ Rollback(w),
         UNCHANGED <<made, scopes, via>>,
         \A q \in QuerySet : qs'[q].compiler = qs[q].compiler
  PROVE  /\ Settled
         /\ \A c \in Compiler : Tenured(c) => transaction'[c] = transaction[c]
         /\ \A c \in Compiler : /\ transaction'[c] \in Carried'
                                /\ c \notin made' => transaction'[c] = Null
         /\ Used' = Used
         /\ RowsHold'
<1>1. Unbind(w) /\ rows' = rows
  BY DEF Commit, Rollback
<1>2. \A c \in Unbound(w) : ~Tenured(c)
  BY DEF Unbound, Reached, Endable, Null
<1>3. \A c \in Compiler : transaction'[c] = IF c \in Unbound(w) THEN Null ELSE transaction[c]
  BY <1>1 DEF Unbind
<1>4. \A c \in Compiler : Tenured(c) => transaction'[c] = transaction[c]
  BY <1>2, <1>3
<1>5. \A c \in Compiler : Tenured(c)' => Tenured(c)
  BY <1>3 DEF Tenured, Null
<1>6. ReachesOpen(w) => w.sql \in Tx /\ status[w.sql] = "open"
  BY DEF ReachesOpen, Endable, Used, Null
<1>7. Used' = Used
  BY <1>6 DEF Used, Commit, Rollback, TypeInv, TypeOK
<1>8. Settled
  BY <1>5, <1>7 DEF Settled, TypeInv, TypeOK
<1>9. \A c \in Compiler : /\ transaction'[c] \in Carried'
                          /\ c \notin made' => transaction'[c] = Null
  <2>1. Null \in Carried
    BY DEF Carried, Wrapped
  <2> QED
    BY <1>3, <1>8, <2>1, SettledOwn DEF CompilersCarry
<1>10. RowsHold'
  <2>1. CASE \/ Rollback(w) \/ ~ReachesOpen(w)
             \/ \E err \in BOOLEAN : Commit(w, err) /\ err
    <3>1. \A t \in Tx : status'[t] = "committed" <=> status[t] = "committed"
      BY <1>6, <2>1 DEF Commit, Rollback, TypeInv, TypeOK
    <3>2. db' = db
      BY <2>1 DEF Commit, Rollback
    <3> QED
      BY <1>1, <1>8, <3>1, <3>2, RowsSame
  <2>2. CASE ReachesOpen(w) /\ Commit(w, FALSE)
    <3> DEFINE t == w.sql
    <3>1. /\ t \in Tx /\ status[t] = "open"
          /\ status' = [status EXCEPT ![t] = "committed"]
          /\ db' = db \union rows[t]
      BY <1>6, <2>2 DEF Commit
    <3>2. Written' = Written /\ Written \subseteq Row
      BY <1>1, <3>1 DEF Written, TypeInv, TypeOK
    <3>3. ASSUME NEW r \in Written', via'[r] \in scopes'
          PROVE  /\ \A u \in Tx : r \in rows'[u] <=> u = via'[r]
                 /\ r \in db' => status'[via'[r]] = "committed"
      BY <1>1, <3>1, <3>2, <3>3 DEF RowsHold, TypeInv, TypeOK
    <3>4. \A u \in Tx : status'[u] = "committed" => rows'[u] \subseteq db'
      BY <1>1, <3>1 DEF RowsHold, TypeInv, TypeOK
    <3> QED
      BY <3>3, <3>4 DEF RowsHold
  <2> QED
    BY <2>1, <2>2
<1> QED
  BY <1>4, <1>7, <1>8, <1>9, <1>10

\* Every context a call can use carries no transaction, or one in use.
LEMMA ContextsCarried ==
  ASSUME TypeInv, CallsOwn, CompilersCarry, NEW p \in Proc
  PROVE  Contexts(p) \subseteq Carried
<1>1. Null \in Carried
  BY DEF Carried, Wrapped
<1>2. ASSUME NEW i \in DOMAIN stack[p]
      PROVE  CallContext(stack[p][i]) \in Carried
  <2>1. stack[p][i] \in OwnFrames
    BY ElementOfSeq, LenProperties DEF CallsOwn
  <2>2. CASE stack[p][i].call = "run"
    BY <2>1, <2>2 DEF OwnFrames, CallContext
  <2>3. CASE stack[p][i].call # "run"
    <3>1. stack[p][i] \in LiveFrames /\ stack[p][i] \in Frames
      BY <2>1, LiveStacks DEF OwnFrames
    <3>2. /\ stack[p][i].qs \in QuerySet
          /\ qs[stack[p][i].qs].compiler \in Compiler
      BY <3>1, <2>3, FrameKinds DEF LiveFrames, TypeInv, TypeOK
    <3> QED
      BY <3>2, <2>3 DEF CallContext, CompilersCarry
  <2> QED
    BY <2>2, <2>3
<1> QED
  BY <1>1, <1>2 DEF Contexts, CompilersCarry

\* A transaction that is begun was not in use, and no row or commit changes.
LEMMA BeginUses ==
  ASSUME TypeInv, HistoryUsed, NEW t \in Tx, Begin(t)
  PROVE  /\ t \notin Used /\ t \notin scopes
         /\ Used' = Used \union {t}
         /\ UNCHANGED <<rows, db>>
         /\ \A u \in Tx : status'[u] = "committed" <=> status[u] = "committed"
BY DEF Begin, Used, HistoryUsed, TypeInv, TypeOK

\* The stacks and handles after a settled step that neither calls nor returns.
LEMMA CallsSame ==
  ASSUME TypeInv, CallsOwn, Settled, UNCHANGED <<stack, handles>>
  PROVE  CallsOwn'
BY SettledOwn DEF CallsOwn

\* Each step keeps the invariant; a step is a lemma of its own where the
\* argument differs from that of the other calls.
LEMMA RunInTransactionAtomic ==
  ASSUME TypeInv, TypeInv', AtomicInv,
         NEW p \in Proc, NEW context \in Contexts(p), RunInTransaction(p, context)
  PROVE  AtomicInv'
<1> USE DEF AtomicInv
<1>1. context \in Carried /\ Null \in Endable /\ Null \in Wrapped
  BY ContextsCarried DEF Endable, Wrapped
<1>2. UNCHANGED <<qs, handles, home, via, confirmed>>
  BY DEF RunInTransaction
<1>3. CASE /\ Push(p, NewFrame("run", "body", None, Null, context))
           /\ UNCHANGED <<database, transaction, made, scopes>>
  <2>1. Settled /\ Used' = Used /\ UNCHANGED <<rows, db, via, status>>
    BY <1>2, <1>3 DEF Settled, Used, Tenured, database
  <2>2. NewFrame("run", "body", None, Null, context) \in OwnFrames
    BY <1>1 DEF NewFrame, OwnFrames, LiveFrames, Frames, RunFrames, Carried
  <2>3. stack' \in [Proc -> Seq(OwnFrames)]
    BY <2>2, <1>3, StackSteps DEF CallsOwn
  <2>4. CallsOwn'
    BY <2>1, <2>3, <1>2, SettledOwn DEF CallsOwn
  <2>5. CompilersCarry'
    BY <2>1, <1>2, <1>3, SettledOwn DEF CompilersCarry
  <2>6. HomesHold' /\ RowsHold'
    BY <2>1, <1>2, <1>3, HomesSame, RowsSame
  <2>7. HistoryUsed'
    BY <2>1, <1>2, <1>3 DEF HistoryUsed
  <2> QED
    BY <2>4, <2>5, <2>6, <2>7
<1>4. ASSUME NEW t \in Tx, NEW c \in Compiler \ made,
             Begin(t),
             made' = made \union {c},
             transaction' = [transaction EXCEPT ![c] = Wrap(Bare(t), c)],
             scopes' = scopes \union {t},
             LET w == Wrap(Bare(t), c)
             IN  Push(p, NewFrame("run", "body", None, w, w))
      PROVE  AtomicInv'
  <2> DEFINE w == Wrap(Bare(t), c)
  <2>1. /\ t \notin Used /\ t \notin scopes
        /\ Used' = Used \union {t}
        /\ UNCHANGED <<rows, db>>
        /\ \A u \in Tx : status'[u] = "committed" <=> status[u] = "committed"
    BY <1>4, BeginUses
  <2>2. w \in Wrapped /\ w.sql = t /\ w.chain = <<c>>
    BY BegunType DEF Begun, Bare
  <2>3. transaction[c] = Null /\ transaction'[c] = w
    BY <1>4 DEF CompilersCarry, TypeInv, TypeOK
  <2>4. ~Tenured(c) /\ ~Tenured(c)'
    <3>1. Len(Null.chain) = 0 /\ Len(w.chain) = 1
      BY <2>2 DEF Null
    <3> QED
      BY <2>3, <3>1 DEF Tenured
  <2>5. \A d \in Compiler \ {c} : transaction'[d] = transaction[d]
    BY <1>4 DEF TypeInv, TypeOK
  <2>6. Settled
    BY <2>1, <2>5, <1>2, <1>4 DEF Settled, Tenured, TypeInv, TypeOK
  <2>7. w \in Carried' /\ w \in Endable'
    BY <2>1, <2>2, <2>4, <1>4 DEF Carried, Endable
  <2>8. CallsOwn'
    <3>1. NewFrame("run", "body", None, w, w) \in OwnFrames'
      BY <2>2, <2>7 DEF NewFrame, OwnFrames, LiveFrames, Frames, RunFrames
    <3>2. stack \in [Proc -> Seq(OwnFrames')]
      BY <2>6, SettledOwn DEF CallsOwn
    <3>3. stack' \in [Proc -> Seq(OwnFrames')]
      BY <3>1, <3>2, <1>4, StackSteps
    <3> QED
      BY <3>3, <2>6, <1>2, SettledOwn DEF CallsOwn
  <2>9. CompilersCarry'
    BY <2>3, <2>5, <2>6, <2>7, <1>2, <1>4, SettledOwn DEF CompilersCarry
  <2>10. HomesHold'
    BY <2>4, <2>5, <2>6, <1>2, HomesSame
  <2>11. HistoryUsed' /\ RowsHold'
    BY <2>1, <2>6, <1>2, <1>4, RowsSame DEF HistoryUsed
  <2> QED
    BY <2>8, <2>9, <2>10, <2>11
<1> QED
  BY <1>3, <1>4 DEF RunInTransaction

LEMMA GetQuerySetAtomic ==
  ASSUME TypeInv, TypeInv', AtomicInv, NEW p \in Proc,
         NEW context \in Contexts(p), NEW q \in QuerySet, GetQuerySet(p, q, context)
  PROVE  AtomicInv'
<1> USE DEF AtomicInv
<1>1. PICK c \in Compiler \ made :
         /\ made' = made \union {c}
         /\ BindContext(q, c, context)
         /\ qs' = [qs EXCEPT ![q] =
                      [compiler |-> c, context |-> context, user |-> p]]
  BY DEF GetQuerySet
<1>2. qs[q].compiler = None /\ UNCHANGED <<database, stack, handles, scopes, via, confirmed>>
  BY DEF GetQuerySet
<1>3. context \in Carried /\ context \in Wrapped
  BY ContextsCarried DEF Carried
<1>4. transaction[c] = Null /\ ~InTransaction(c) /\ ~Tenured(c)
  BY DEF CompilersCarry, InTransaction, Tenured, Null
<1>5. \A d \in Compiler \ {c} : transaction'[d] = transaction[d]
  BY <1>1 DEF BindContext, TypeInv, TypeOK
<1>6. context # Null => /\ transaction'[c] = Wrap(context, c)
                        /\ home'[q] = context.sql
                        /\ transaction'[c].sql = context.sql
                        /\ Len(transaction'[c].chain) > 1
                        /\ Wrap(context, c) \in Wrapped
  <2>1. ASSUME context # Null
        PROVE  /\ context.chain \in Seq(Compiler) /\ context.chain # <<>>
               /\ Len(context.chain) \in Nat /\ Len(context.chain) > 0
    BY <2>1, <1>3, EmptySeq, LenProperties DEF Carried, Wrapped
  <2>2. ASSUME context # Null
        PROVE  /\ Wrap(context, c) \in Wrapped
               /\ Wrap(context, c).sql = context.sql
               /\ Len(Wrap(context, c).chain) = Len(context.chain) + 1
    BY <2>1, <2>2, <1>3, WrapType, AppendProperties DEF Wrap
  <2> QED
    BY <2>1, <2>2, <1>1, <1>4 DEF BindContext, TypeInv, TypeOK
<1>7. context = Null => transaction' = transaction /\ home'[q] = home[q]
  BY <1>1 DEF BindContext, TypeInv, TypeOK
<1>8. Settled /\ Used' = Used
  BY <1>1, <1>2, <1>5, NoneAssumption DEF Settled, Used, Tenured, database, TypeInv, TypeOK
<1>9. CallsOwn'
  BY <1>2, <1>8, CallsSame
<1>10. CompilersCarry'
  <2>1. transaction'[c] \in Carried'
    <3>1. CASE context = Null
      BY <3>1, <1>4, <1>7 DEF Carried, Wrapped
    <3>2. CASE context # Null
      BY <3>2, <1>3, <1>6, <1>8, EmptySeq DEF Carried, Null
    <3> QED
      BY <3>1, <3>2
  <2>2. \A d \in Compiler : /\ transaction'[d] \in Carried'
                            /\ d \notin made' => transaction'[d] = Null
    BY <2>1, <1>1, <1>5, <1>8, SettledOwn DEF CompilersCarry
  <2>3. \A x \in QuerySet : qs'[x].context \in Carried'
    BY <1>1, <1>3, <1>8, SettledOwn DEF CompilersCarry, TypeInv, TypeOK
  <2> QED
    BY <2>2, <2>3 DEF CompilersCarry
<1>11. HomesHold'
  <2>1. ASSUME NEW x \in QuerySet \ {q}, home'[x] \in scopes'
        PROVE  /\ qs'[x].compiler \in Compiler
               /\ transaction'[qs'[x].compiler].sql = home'[x]
               /\ Len(transaction'[qs'[x].compiler].chain) > 1
    <3>1. home'[x] = home[x] /\ qs'[x] = qs[x] /\ scopes' = scopes
      BY <1>1, <1>2 DEF BindContext, TypeInv, TypeOK
    <3>2. qs[x].compiler # c /\ qs[x].compiler \in Compiler
      BY <3>1, <2>1, <1>4 DEF HomesHold
    <3> QED
      BY <3>1, <3>2, <2>1, <1>5 DEF HomesHold, Tenured
  <2>2. ASSUME home'[q] \in scopes'
        PROVE  /\ qs'[q].compiler \in Compiler
               /\ transaction'[qs'[q].compiler].sql = home'[q]
               /\ Len(transaction'[qs'[q].compiler].chain) > 1
    <3>1. qs'[q].compiler = c
      BY <1>1 DEF TypeInv, TypeOK
    <3>2. context # Null
      BY <2>2, <1>2, <1>7, NoneAssumption DEF HomesHold
    <3> QED
      BY <3>1, <3>2, <1>6
  <2> QED
    BY <2>1, <2>2 DEF HomesHold, Tenured
<1>12. HistoryUsed' /\ RowsHold'
  <2>1. \A x \in QuerySet : home'[x] \in Used \union {None}
    BY <1>1, <1>3 DEF BindContext, HistoryUsed, Carried, TypeInv, TypeOK
  <2>2. RowsHold'
    BY <1>2, <1>8, RowsSame DEF database
  <2> QED
    BY <2>1, <2>2, <1>2, <1>8 DEF HistoryUsed
<1> QED
  BY <1>9, <1>10, <1>11, <1>12

LEMMA CloneAtomic ==
  ASSUME TypeInv, TypeInv', AtomicInv, NEW p \in Proc,
         NEW q \in QuerySet, NEW n \in QuerySet, Clone(p, q, n)
  PROVE  AtomicInv'
<1> USE DEF AtomicInv
<1>1. /\ qs' = [qs EXCEPT ![n] = [qs[q] EXCEPT !.user = p]]
      /\ home' = [home EXCEPT ![n] = home[q]]
      /\ UNCHANGED <<database, transaction, made, stack, handles, scopes, via, confirmed>>
      /\ qs[q] \in QuerySets /\ qs[q].compiler \in made
  BY DEF Clone, Usable, TypeInv, TypeOK
<1>2. /\ qs'[n].compiler = qs[q].compiler /\ qs'[n].context = qs[q].context
      /\ home'[n] = home[q]
      /\ \A x \in QuerySet \ {n} : qs'[x] = qs[x] /\ home'[x] = home[x]
  BY <1>1 DEF QuerySets, TypeInv, TypeOK
<1>3. Settled /\ Used' = Used
  BY <1>1, <1>2 DEF Settled, Used, Tenured, database
<1>4. CallsOwn'
  BY <1>1, <1>3, CallsSame
<1>5. CompilersCarry'
  BY <1>1, <1>2, <1>3, SettledOwn DEF CompilersCarry
<1>6. HomesHold'
  BY <1>1, <1>2 DEF HomesHold, Tenured
<1>7. HistoryUsed' /\ RowsHold'
  BY <1>1, <1>2, <1>3, RowsSame DEF HistoryUsed, database
<1> QED
  BY <1>4, <1>5, <1>6, <1>7

\* The first half of a write or of StartTransaction.
LEMMA StartsAtomic ==
  ASSUME ~Nested, TypeInv, TypeInv', AtomicInv, NEW p \in Proc,
         NEW q \in QuerySet, StartTransaction(p, q) \/ StartWrite(p, q)
  PROVE  AtomicInv'
<1> USE DEF AtomicInv
<1>1. qs[q].compiler \in made /\ UNCHANGED <<transaction, made, qs, handles, history>>
  BY NoneAssumption DEF StartTransaction, StartWrite, Usable, TypeInv
<1>2. CASE Push(p, NewFrame("write", "body", q, Null, Null)) /\ UNCHANGED database
  <2>1. Settled /\ Used' = Used /\ UNCHANGED <<rows, db, via, status, scopes, home>>
    BY <1>1, <1>2 DEF Settled, Used, Tenured, database, history
  <2>2. NewFrame("write", "body", q, Null, Null) \in OwnFrames
    BY <1>1 DEF NewFrame, OwnFrames, LiveFrames, Frames, WriteFrames, Carried,
                Endable, Wrapped
  <2>3. CallsOwn'
    <3>1. stack' \in [Proc -> Seq(OwnFrames)]
      BY <2>2, <1>2, StackSteps DEF CallsOwn
    <3> QED
      BY <2>1, <3>1, <1>1, SettledOwn DEF CallsOwn
  <2> QED
    BY <2>1, <2>3, <1>1, SettledOwn, HomesSame, RowsSame
    DEF CompilersCarry, HistoryUsed
<1>3. ASSUME NEW t \in Tx, NEW call \in {"write", "start"}, Begin(t),
             Push(p, NewFrame(call, "bind", q, Bare(t), Null))
      PROVE  AtomicInv'
  <2>1. /\ t \notin Used /\ t \notin scopes
        /\ Used' = Used \union {t}
        /\ UNCHANGED <<rows, db>>
        /\ \A u \in Tx : status'[u] = "committed" <=> status[u] = "committed"
    BY <1>3, BeginUses
  <2>2. Settled /\ UNCHANGED <<via, scopes, home>>
    BY <2>1, <1>1 DEF Settled, Tenured, history
  <2>3. CallsOwn'
    <3>1. NewFrame(call, "bind", q, Bare(t), Null) \in OwnFrames'
      BY <2>1, <2>2, <1>1
      DEF NewFrame, OwnFrames, LiveFrames, Frames, BindFrames, Begun, Bare,
          Carried, Wrapped
    <3>2. stack \in [Proc -> Seq(OwnFrames')]
      BY <2>2, SettledOwn DEF CallsOwn
    <3>3. stack' \in [Proc -> Seq(OwnFrames')]
      BY <3>1, <3>2, <1>3, StackSteps
    <3> QED
      BY <3>3, <2>2, <1>1, SettledOwn DEF CallsOwn
  <2> QED
    BY <2>1, <2>2, <2>3, <1>1, SettledOwn, HomesSame, RowsSame
    DEF CompilersCarry, HistoryUsed
<1> QED
  BY <1>2, <1>3 DEF StartTransaction, StartWrite

LEMMA BindTransactionAtomic ==
  ASSUME TypeInv, TypeInv', AtomicInv, NEW p \in Proc, BindTransaction(p)
  PROVE  AtomicInv'
<1> USE DEF AtomicInv
<1>1. /\ stack[p] # <<>> /\ Top(p).pc = "bind"
      /\ UNCHANGED <<database, made, scopes, via, confirmed>>
  BY DEF BindTransaction
<1>2. PICK f \in OwnFrames : f = Top(p) /\ f \in LiveFrames /\ f \in BindFrames
  BY <1>1, StackSteps, FrameKinds, LiveStacks DEF CallsOwn, OwnFrames
<1>3. PICK c \in Compiler : /\ c = qs[f.qs].compiler /\ c \in made
                            /\ f.qs \in QuerySet
                            /\ f.tx.sql \in Used /\ f.tx.sql \notin scopes
  BY <1>1, <1>2 DEF OwnFrames, LiveFrames, BindFrames, TypeInv, TypeOK
<1>w. PICK w \in Wrapped : /\ w = Wrap(f.tx, c) /\ w.sql = f.tx.sql
                           /\ w.chain = <<c>> /\ w.sql \in Tx
  BY <1>2, <1>3, BegunType DEF BindFrames
<1>4. CASE InTransaction(c) /\ Pop(p) /\ UNCHANGED <<transaction, qs, handles, home>>
  <2>1. Settled /\ Used' = Used /\ UNCHANGED <<rows, db, status>>
    BY <1>1, <1>4 DEF Settled, Used, Tenured, database
  <2>2. CallsOwn'
    <3>1. stack' \in [Proc -> Seq(OwnFrames)]
      BY <1>1, <1>4, StackSteps DEF CallsOwn
    <3> QED
      BY <2>1, <3>1, <1>4, SettledOwn DEF CallsOwn
  <2> QED
    BY <2>1, <2>2, <1>1, <1>4, SettledOwn, HomesSame, RowsSame
    DEF CompilersCarry, HistoryUsed
<1>5. ASSUME ~InTransaction(c),
             transaction' = [transaction EXCEPT ![c] = w],
             qs' = [qs EXCEPT ![f.qs].context = w],
             home' = [home EXCEPT ![f.qs] = IF @ = None THEN w.sql ELSE @],
             \/ /\ f.call = "write"
                /\ SetTop(p, [f EXCEPT !.pc = "body", !.tx = w])
                /\ UNCHANGED handles
             \/ /\ f.call = "start"
                /\ Pop(p)
                /\ handles' = handles \union
                                {[tx |-> w, began |-> TRUE, user |-> p]}
      PROVE  AtomicInv'
  <2>1. w \in Wrapped /\ w.sql = f.tx.sql /\ w.chain = <<c>> /\ w.sql \in Tx
    BY <1>w
  <2>2. Used' = Used /\ UNCHANGED <<rows, db, status>>
    BY <1>1 DEF Used, database
  <2>3. ~Tenured(c) /\ ~Tenured(c)'
    <3>1. transaction[c] = Null
      BY <1>5, NoneAssumption DEF TypeInv, TypeOK, InTransaction, Wrapped
    <3>2. Len(Null.chain) = 0 /\ Len(w.chain) = 1
      BY <2>1 DEF Null
    <3>3. transaction'[c] = w
      BY <1>3, <1>5 DEF TypeInv, TypeOK
    <3>4. ~Tenured(c)
      BY <3>1, <3>2 DEF Tenured
    <3>5. Len(transaction'[c].chain) = 1
      BY <3>2, <3>3
    <3>6. ~(Len(transaction'[c].chain) > 1)
      BY <3>5
    <3>7. ~Tenured(c)'
      BY <3>6 DEF Tenured
    <3> QED
      BY <3>4, <3>7
  <2>4. /\ \A d \in Compiler \ {c} : transaction'[d] = transaction[d]
        /\ transaction'[c] = w
    BY <1>3, <1>5 DEF TypeInv, TypeOK
  <2>5. \A x \in QuerySet : /\ qs'[x].compiler = qs[x].compiler
                           /\ qs'[x].context \in {qs[x].context, w}
    <3>1. qs[f.qs] \in QuerySets
      BY <1>3 DEF TypeInv, TypeOK
    <3> QED
      BY <3>1, <1>3, <1>5 DEF QuerySets, TypeInv, TypeOK
  <2>6. Settled
    BY <2>2, <2>3, <2>4, <2>5, <1>1 DEF Settled, Tenured, TypeInv, TypeOK
  <2>7. w \in Carried' /\ w \in Endable'
    <3>1. w.sql \in Used' /\ c \in made' /\ w.chain # <<>>
      BY <2>1, <2>2, <1>1, <1>3
    <3>2. w \in Carried'
      BY <3>1, <2>1 DEF Carried
    <3>3. w \in Endable'
      BY <3>1, <2>1, <2>3 DEF Endable
    <3> QED
      BY <3>2, <3>3
  <2>8. stack' \in [Proc -> Seq(OwnFrames')] /\ \A h \in handles' : h.tx \in Endable'
    <3>1. stack \in [Proc -> Seq(OwnFrames')] /\ \A h \in handles : h.tx \in Endable'
      BY <2>6, SettledOwn DEF CallsOwn
    <3>2. CASE f.call = "write" /\ UNCHANGED handles
               /\ SetTop(p, [f EXCEPT !.pc = "body", !.tx = w])
      <4>1. f \in OwnFrames'
        BY <1>2, <2>6, SettledOwn
      <4>2. [f EXCEPT !.pc = "body", !.tx = w] \in LiveFrames'
        BY <1>2, <2>1, <3>2, <4>1 DEF OwnFrames, LiveFrames, Frames, BindFrames, WriteFrames
      <4>3. [f EXCEPT !.pc = "body", !.tx = w] \in OwnFrames'
        BY <1>2, <2>7, <4>1, <4>2 DEF OwnFrames, BindFrames
      <4> QED
        BY <3>1, <3>2, <4>3, <1>1, StackSteps
    <3>3. CASE f.call = "start" /\ Pop(p)
               /\ handles' = handles \union {[tx |-> w, began |-> TRUE, user |-> p]}
      <4>1. stack' \in [Proc -> Seq(OwnFrames')]
        BY <3>1, <3>3, <1>1, StackSteps
      <4>2. \A h \in handles' : h \in handles \/ h.tx = w
        BY <3>3
      <4> QED
        BY <4>1, <4>2, <3>1, <2>7
    <3> QED
      BY <1>5, <3>2, <3>3
  <2>9. CallsOwn'
    BY <2>8 DEF CallsOwn
  <2>10. CompilersCarry'
    BY <2>4, <2>5, <2>6, <2>7, <1>1, <1>3, SettledOwn DEF CompilersCarry
  <2>11. HomesHold'
    <3>1. \A x \in QuerySet : home'[x] = home[x] \/ home'[x] \notin scopes'
      BY <1>1, <1>3, <1>5, <2>1 DEF TypeInv, TypeOK
    <3>2. \A d \in Compiler : Tenured(d) => transaction'[d] = transaction[d]
      BY <2>3, <2>4
    <3> QED
      BY <3>1, <3>2, <2>5, <2>6, HomesSame
  <2>12. HistoryUsed' /\ RowsHold'
    <3>1. \A x \in QuerySet : home'[x] \in Used \union {None}
      BY <1>3, <1>5, <2>1 DEF HistoryUsed, TypeInv, TypeOK
    <3>2. RowsHold'
      BY <2>2, <2>6, <1>1, RowsSame
    <3> QED
      BY <3>1, <3>2, <2>2, <1>1 DEF HistoryUsed
  <2> QED
    BY <2>9, <2>10, <2>11, <2>12
<1> QED
  BY <1>1, <1>2, <1>3, <1>w, <1>4, <1>5 DEF BindTransaction

\* The calls that end a transaction: whatever else they change, they end a
\* value that is theirs to end, keep the compilers of the querysets, and tell
\* no queryset to use a transaction.
LEMMA EndsAtomic ==
  ASSUME TypeInv, TypeInv', AtomicInv, NEW w \in Endable,
         (\E err \in BOOLEAN : Commit(w, err)) \/ Rollback(w),
         UNCHANGED <<made, qs, scopes, via>>,
         stack' \in [Proc -> Seq(OwnFrames)], handles' \subseteq handles,
         \A q \in QuerySet : home'[q] \in {home[q], None}
  PROVE  AtomicInv'
<1> USE DEF AtomicInv
<1>1. /\ Settled
      /\ \A c \in Compiler : Tenured(c) => transaction'[c] = transaction[c]
      /\ \A c \in Compiler : /\ transaction'[c] \in Carried'
                             /\ c \notin made' => transaction'[c] = Null
      /\ Used' = Used
      /\ RowsHold'
  BY EndingSettled
<1>2. CallsOwn'
  BY <1>1, SettledOwn DEF CallsOwn
<1>3. CompilersCarry'
  BY <1>1, SettledOwn DEF CompilersCarry
<1>4. HomesHold'
  <2>1. None \notin scopes'
    BY NoneAssumption DEF TypeInv, TypeOK
  <2> QED
    BY <1>1, <2>1, HomesSame
<1>5. HistoryUsed'
  BY <1>1 DEF HistoryUsed
<1> QED
  BY <1>1, <1>2, <1>3, <1>4, <1>5

LEMMA ExecuteAtomic ==
  ASSUME TypeInv, TypeInv', AtomicInv, NEW p \in Proc, NEW r \in Row, Execute(p, r)
  PROVE  AtomicInv'
<1> USE DEF AtomicInv
<1>1. /\ stack[p] # <<>> /\ Top(p).call = "write" /\ r \notin Written
      /\ UNCHANGED <<status, cancelled, transaction, made, qs, stack, handles,
                     scopes, home, confirmed>>
  BY DEF Execute, InCall
<1>2. PICK q \in QuerySet : q = Top(p).qs /\ qs[q].compiler \in Compiler
  <2>1. Top(p) \in LiveFrames /\ Top(p) \in Frames
    BY <1>1, StackSteps, LiveStacks DEF TypeInv
  <2> QED
    BY <2>1, <1>1, FrameKinds DEF LiveFrames, TypeInv, TypeOK
<1>3. PICK c \in Compiler : c = qs[q].compiler
  BY <1>2
<1>4. via' = [via EXCEPT ![r] = home[q]]
  BY <1>2 DEF Execute
<1>5. Settled /\ Used' = Used
  BY <1>1 DEF Settled, Used, Tenured
<1>6. CallsOwn' /\ CompilersCarry' /\ HomesHold'
  BY <1>1, <1>5, CallsSame, SettledOwn, HomesSame DEF CompilersCarry
<1>7. HistoryUsed'
  BY <1>1, <1>4, <1>5 DEF HistoryUsed, TypeInv, TypeOK
<1>8. \A x \in Written : via'[x] = via[x] /\ x # r
  BY <1>1, <1>4 DEF Written, TypeInv, TypeOK
<1>9. \A t \in Tx : r \notin rows[t]
  BY <1>1 DEF Written
<1>10. via'[r] = home[q] /\ r \notin db
  BY <1>1, <1>4 DEF Written, TypeInv, TypeOK
<1>11. RowsHold'
  <2>1. CASE /\ InTransaction(c)
             /\ status[transaction[c].sql] = "open"
             /\ rows' = [rows EXCEPT ![transaction[c].sql] = @ \union {r}]
             /\ db' = db
    <3>1. PICK t \in Tx : t = transaction[c].sql
      BY <2>1 DEF InTransaction, TypeInv, TypeOK, Wrapped, Null
    <3>2. /\ rows'[t] = rows[t] \union {r}
          /\ \A u \in Tx \ {t} : rows'[u] = rows[u]
      BY <2>1, <3>1 DEF TypeInv, TypeOK
    <3>3. Written' = Written \union {r}
      BY <2>1, <3>1, <3>2 DEF Written
    <3>4. ASSUME NEW x \in Written, via'[x] \in scopes'
          PROVE  /\ \A u \in Tx : x \in rows'[u] <=> u = via'[x]
                 /\ x \in db' => status'[via'[x]] = "committed"
      <4>1. /\ \A u \in Tx : x \in rows[u] <=> u = via[x]
            /\ x \in db => status[via[x]] = "committed"
        BY <1>1, <1>8, <3>4 DEF RowsHold
      <4>2. \A u \in Tx : x \in rows'[u] <=> x \in rows[u]
        BY <1>8, <3>2
      <4> QED
        BY <4>1, <4>2, <1>1, <1>8, <2>1
    <3>5. ASSUME via'[r] \in scopes'
          PROVE  /\ \A u \in Tx : r \in rows'[u] <=> u = via'[r]
                 /\ r \in db' => status'[via'[r]] = "committed"
      <4>1. t = home[q]
        BY <1>1, <1>2, <1>3, <1>10, <3>1, <3>5 DEF HomesHold
      <4> QED
        BY <4>1, <1>9, <1>10, <2>1, <3>2
    <3>6. \A u \in Tx : status'[u] = "committed" => rows'[u] \subseteq db'
      BY <1>1, <2>1, <3>1, <3>2 DEF RowsHold
    <3> QED
      BY <3>3, <3>4, <3>5, <3>6 DEF RowsHold
  <2>2. CASE ~InTransaction(c) /\ db' = db \union {r} /\ rows' = rows
    <3>1. Written' = Written \union {r}
      BY <2>2 DEF Written
    <3>2. via'[r] \notin scopes'
      BY <1>1, <1>2, <1>3, <1>10, <2>2, NoneAssumption
      DEF HomesHold, InTransaction, TypeInv, TypeOK
    <3>3. ASSUME NEW x \in Written, via'[x] \in scopes'
          PROVE  /\ \A u \in Tx : x \in rows'[u] <=> u = via'[x]
                 /\ x \in db' => status'[via'[x]] = "committed"
      BY <1>1, <1>8, <2>2, <3>3 DEF RowsHold
    <3>4. \A u \in Tx : status'[u] = "committed" => rows'[u] \subseteq db'
      BY <1>1, <2>2 DEF RowsHold
    <3> QED
      BY <3>1, <3>2, <3>3, <3>4 DEF RowsHold
  <2> QED
    BY <2>1, <2>2, <1>2, <1>3 DEF Execute
<1> QED
  BY <1>6, <1>7, <1>11

\* A step that leaves the calls, the compilers and the querysets alone.
LEMMA QuietAtomic ==
  ASSUME TypeInv, TypeInv', AtomicInv,
         UNCHANGED <<rows, db, transaction, made, qs, stack, handles, scopes, home, via>>,
         Used' = Used,
         \A t \in Tx : status'[t] = "committed" <=> status[t] = "committed"
  PROVE  AtomicInv'
<1> USE DEF AtomicInv
<1>1. Settled
  BY DEF Settled, Tenured
<1>2. CallsOwn' /\ HomesHold' /\ RowsHold'
  BY <1>1, CallsSame, HomesSame, RowsSame
<1>3. CompilersCarry' /\ HistoryUsed'
  BY <1>1, SettledOwn DEF CompilersCarry, HistoryUsed
<1> QED
  BY <1>2, <1>3

LEMMA AtomicInvInit == Init => AtomicInv
<1> SUFFICES ASSUME Init PROVE AtomicInv
  OBVIOUS
<1>1. Null \in Carried
  BY DEF Carried, Wrapped
<1>2. CallsOwn
  BY EmptySeq DEF Init, CallsOwn
<1>3. CompilersCarry /\ HomesHold /\ HistoryUsed
  BY <1>1 DEF Init, CompilersCarry, HomesHold, HistoryUsed
<1>4. RowsHold
  BY DEF Init, RowsHold, Written
<1> QED
  BY <1>2, <1>3, <1>4 DEF AtomicInv

LEMMA AtomicInvNext ==
  ASSUME ~Nested, ~Rebound, TypeInv, AtomicInv, [Next]_vars
  PROVE  AtomicInv'
<1>t. TypeInv'
  BY TypeInvNext
<1>s. CallsOwn
  BY DEF AtomicInv
<1>1. ASSUME NEW p \in Proc, RunCommits(p) \/ RunRollsBack(p)
      PROVE  AtomicInv'
  <2>1. /\ stack[p] # <<>> /\ Top(p).pc = "body" /\ Pop(p)
        /\ UNCHANGED <<made, qs, handles, scopes, home, via>>
        /\ (\E err \in BOOLEAN : Commit(Top(p).tx, err)) \/ Rollback(Top(p).tx)
    BY <1>1 DEF RunCommits, RunRollsBack, InCall
  <2>2. Top(p) \in OwnFrames /\ stack' \in [Proc -> Seq(OwnFrames)]
    BY <2>1, <1>s, StackSteps DEF CallsOwn
  <2>3. Top(p).tx \in Endable
    BY <2>1, <2>2 DEF OwnFrames
  <2> QED
    BY <1>t, <2>1, <2>2, <2>3, EndsAtomic
<1>2. ASSUME NEW p \in Proc, NEW h \in handles, EndTransaction(p, h)
      PROVE  AtomicInv'
  <2>1. /\ UNCHANGED <<made, qs, stack, scopes, via>> /\ handles' \subseteq handles
        /\ (\E err \in BOOLEAN : Commit(h.tx, err)) \/ Rollback(h.tx)
        /\ \A q \in QuerySet : home'[q] \in {home[q], None}
    BY <1>2 DEF EndTransaction
  <2>2. h.tx \in Endable /\ stack' \in [Proc -> Seq(OwnFrames)]
    BY <1>s, <2>1 DEF CallsOwn
  <2> QED
    BY <1>t, <2>1, <2>2, EndsAtomic
<1>3. ASSUME NEW p \in Proc, WriteReturns(p)
      PROVE  AtomicInv'
  <2>1. /\ stack[p] # <<>> /\ Top(p).pc = "return" /\ Pop(p)
        /\ Rollback(Top(p).tx) /\ UNCHANGED <<made, qs, handles, scopes, via>>
        /\ \A q \in QuerySet : home'[q] \in {home[q], None}
    BY <1>3 DEF WriteReturns, InCall, TypeInv, TypeOK
  <2>2. Top(p) \in OwnFrames /\ stack' \in [Proc -> Seq(OwnFrames)]
    BY <2>1, <1>s, StackSteps DEF CallsOwn
  <2>3. Top(p).tx \in Endable
    BY <2>1, <2>2 DEF OwnFrames
  <2> QED
    BY <1>t, <2>1, <2>2, <2>3, EndsAtomic
<1>4. ASSUME NEW p \in Proc, WriteFails(p) \/ WriteCommits(p)
      PROVE  AtomicInv'
  <2>1. /\ stack[p] # <<>> /\ Top(p).pc = "body" /\ Top(p).call = "write"
        /\ SetTop(p, [Top(p) EXCEPT !.pc = "return"])
        /\ UNCHANGED <<made, qs, handles, scopes, home, via>>
    BY <1>4 DEF WriteFails, WriteCommits, InCall, history
  <2>2. PICK f \in OwnFrames : f = Top(p) /\ f \in LiveFrames /\ f \in WriteFrames
    BY <2>1, <1>s, StackSteps, FrameKinds, LiveStacks DEF CallsOwn, OwnFrames
  <2>3. [f EXCEPT !.pc = "return"] \in OwnFrames
    <3>1. [f EXCEPT !.pc = "return"] \in LiveFrames
      BY <2>2 DEF LiveFrames, Frames, WriteFrames
    <3> QED
      BY <2>1, <2>2, <3>1 DEF OwnFrames, WriteFrames
  <2>4. stack' \in [Proc -> Seq(OwnFrames)]
    BY <2>1, <2>2, <2>3, <1>s, StackSteps DEF CallsOwn
  <2>5. CASE WriteCommits(p)
    <3>1. f.tx \in Endable /\ \E err \in BOOLEAN : Commit(f.tx, err)
      BY <2>1, <2>2, <2>5 DEF OwnFrames, WriteCommits
    <3> QED
      BY <1>t, <2>1, <2>4, <3>1, EndsAtomic
  <2>6. CASE WriteFails(p)
    <3>1. UNCHANGED <<database, transaction, made, qs, handles, history>>
      BY <2>6 DEF WriteFails
    <3>2. Rollback(Null)
      BY <3>1 DEF Rollback, Unbind, Unbound, Reached, ReachesOpen, Null,
                  database, history, TypeInv, TypeOK
    <3>3. Null \in Endable
      BY DEF Endable, Wrapped
    <3> QED
      BY <1>t, <2>1, <2>4, <3>2, <3>3, EndsAtomic
  <2> QED
    BY <1>4, <2>5, <2>6
<1>5. ASSUME NEW t \in Tx, Cancel(t)
      PROVE  AtomicInv'
  <2>1. /\ Used' = Used
        /\ \A u \in Tx : status'[u] = "committed" <=> status[u] = "committed"
    BY <1>5 DEF Cancel, Used, TypeInv, TypeOK
  <2> QED
    BY <1>t, <1>5, <2>1, QuietAtomic DEF Cancel, history
<1>6. CASE UNCHANGED vars
  BY <1>t, <1>6, QuietAtomic DEF vars, database, history, Used
<1>7. ASSUME NEW p \in Proc, NEW context \in Contexts(p), NEW q \in QuerySet,
             WithContext(p, q, context)
      PROVE  FALSE
  BY <1>7 DEF WithContext
<1> QED
  BY <1>t, <1>1, <1>2, <1>3, <1>4, <1>5, <1>6, <1>7, RunInTransactionAtomic,
     GetQuerySetAtomic, CloneAtomic, StartsAtomic, BindTransactionAtomic,
     ExecuteAtomic
  DEF Next, WriteStep

\* A RunInTransaction is atomic, for any number of goroutines that share and
\* clone querysets and at any depth of nested calls: the rows written with the
\* querysets made for its context are in the database if and only if its
\* transaction is committed. The querysets are used the way the documentation
\* shows: in a transaction they are neither given another context nor told to
\* start one more.
THEOREM RunAtomicity == ~Nested /\ ~Rebound => (Spec => []RunIsAtomic)
<1> SUFFICES ASSUME ~Nested, ~Rebound PROVE Spec => []RunIsAtomic
  OBVIOUS
<1>1. Init => TypeInv /\ AtomicInv
  BY TypeInvInit, AtomicInvInit
<1>2. TypeInv /\ AtomicInv /\ [Next]_vars => TypeInv' /\ AtomicInv'
  BY TypeInvNext, AtomicInvNext
<1>3. TypeInv /\ AtomicInv => RunIsAtomic
  BY DEF AtomicInv, RowsHold, RunIsAtomic, TypeInv, TypeOK
<1> QED
  BY <1>1, <1>2, <1>3, PTL DEF Spec
=============================================================================
