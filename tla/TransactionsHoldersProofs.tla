----------------------- MODULE TransactionsHoldersProofs -----------------------
(***************************************************************************)
(* Who holds an open transaction: more proofs about Transactions.  The     *)
(* holder of a SQL transaction is the call in progress, or the handle of a *)
(* caller, that is to end it.  As long as no queryset in a transaction is  *)
(* told to enter another (~Nested), each transaction has one holder, which *)
(* is why Commit reports the truth; as long as goroutines do not share     *)
(* querysets (~Shared), the compiler of a holder points to what it holds,  *)
(* which is why no transaction is lost.                                    *)
(***************************************************************************)
EXTENDS TransactionsProofs

-----------------------------------------------------------------------------
(* Positions in stacks of calls.                                           *)

\* The calls of a goroutine before and after one more is made.
LEMMA PushAt ==
  ASSUME NEW S, NEW p \in Proc, stack \in [Proc -> Seq(S)], NEW f \in S, Push(p, f)
  PROVE  /\ Len(stack[p]) \in Nat
         /\ DOMAIN stack[p] = 1..Len(stack[p])
         /\ Len(stack'[p]) = Len(stack[p]) + 1
         /\ DOMAIN stack'[p] = 1..(Len(stack[p]) + 1)
         /\ \A i \in DOMAIN stack[p] : stack'[p][i] = stack[p][i]
         /\ stack'[p][Len(stack[p]) + 1] = f
         /\ \A q \in Proc \ {p} : stack'[q] = stack[q]
<1>1. stack[p] \in Seq(S) /\ stack'[p] = Append(stack[p], f)
  BY DEF Push
<1>2. \A q \in Proc \ {p} : stack'[q] = stack[q]
  BY DEF Push
<1> QED
  BY <1>1, <1>2, AppendProperties, LenProperties

\* The same when its last one ends.
LEMMA PopAt ==
  ASSUME NEW S, NEW p \in Proc, stack \in [Proc -> Seq(S)], stack[p] # <<>>, Pop(p)
  PROVE  /\ Len(stack[p]) \in Nat \ {0}
         /\ DOMAIN stack[p] = 1..Len(stack[p])
         /\ Len(stack'[p]) = Len(stack[p]) - 1
         /\ DOMAIN stack'[p] = 1..(Len(stack[p]) - 1)
         /\ \A i \in DOMAIN stack'[p] : stack'[p][i] = stack[p][i]
         /\ \A q \in Proc \ {p} : stack'[q] = stack[q]
<1>1. stack[p] \in Seq(S) /\ stack'[p] = SubSeq(stack[p], 1, Len(stack[p]) - 1)
  BY DEF Pop
<1>2. Len(stack[p]) \in Nat \ {0} /\ DOMAIN stack[p] = 1..Len(stack[p])
  BY <1>1, EmptySeq, LenProperties
<1>3. \A q \in Proc \ {p} : stack'[q] = stack[q]
  BY DEF Pop
<1>4. /\ Len(stack'[p]) = Len(stack[p]) - 1
      /\ DOMAIN stack'[p] = 1..(Len(stack[p]) - 1)
      /\ \A i \in 1..(Len(stack[p]) - 1) : stack'[p][i] = stack[p][i]
  BY <1>1, <1>2, SubSeqProperties, LenProperties
<1> QED
  BY <1>2, <1>3, <1>4

\* The same when its last one goes on.
LEMMA SetTopAt ==
  ASSUME NEW S, NEW p \in Proc, stack \in [Proc -> Seq(S)], stack[p] # <<>>,
         NEW f, SetTop(p, f)
  PROVE  /\ Len(stack[p]) \in Nat \ {0}
         /\ DOMAIN stack[p] = 1..Len(stack[p])
         /\ Len(stack'[p]) = Len(stack[p])
         /\ DOMAIN stack'[p] = DOMAIN stack[p]
         /\ Len(stack[p]) \in DOMAIN stack[p]
         /\ \A i \in DOMAIN stack[p] \ {Len(stack[p])} : stack'[p][i] = stack[p][i]
         /\ stack'[p][Len(stack[p])] = f
         /\ \A q \in Proc \ {p} : stack'[q] = stack[q]
<1>1. stack[p] \in Seq(S) /\ stack'[p] = [stack[p] EXCEPT ![Len(stack[p])] = f]
  BY DEF SetTop
<1>2. Len(stack[p]) \in Nat \ {0} /\ DOMAIN stack[p] = 1..Len(stack[p])
  BY <1>1, EmptySeq, LenProperties
<1>3. \A q \in Proc \ {p} : stack'[q] = stack[q]
  BY DEF SetTop
<1>4. stack[p] \in Seq(S \union {f})
  BY <1>1, SeqMonotonic
<1>5. Len(stack'[p]) = Len(stack[p]) /\ DOMAIN stack'[p] = DOMAIN stack[p]
  <2>1. Len(stack[p]) \in 1..Len(stack[p]) /\ f \in S \union {f}
    BY <1>2
  <2>2. stack'[p] \in Seq(S \union {f}) /\ Len(stack'[p]) = Len(stack[p])
    BY <1>1, <1>4, <2>1, ExceptSeq
  <2> QED
    BY <1>2, <2>2, LenProperties
<1>6. \A i \in DOMAIN stack[p] :
         stack'[p][i] = IF i = Len(stack[p]) THEN f ELSE stack[p][i]
  BY <1>1
<1>7. Len(stack[p]) \in DOMAIN stack[p]
  BY <1>2
<1> QED
  BY <1>2, <1>3, <1>5, <1>6, <1>7

\* The calls in progress are frames, and the last of them is the top.
LEMMA CallsAt ==
  ASSUME TypeInv, NEW p \in Proc
  PROVE  /\ Len(stack[p]) \in Nat
         /\ DOMAIN stack[p] = 1..Len(stack[p])
         /\ \A i \in DOMAIN stack[p] : /\ stack[p][i] \in LiveFrames
                                       /\ stack[p][i] \in Frames
                                       /\ stack[p][i].tx \in Wrapped
         /\ stack[p] # <<>> => /\ Len(stack[p]) \in DOMAIN stack[p]
                               /\ Top(p) = stack[p][Len(stack[p])]
<1>1. stack[p] \in Seq(LiveFrames)
  BY DEF TypeInv
<1>2. Len(stack[p]) \in Nat /\ DOMAIN stack[p] = 1..Len(stack[p])
  BY <1>1, LenProperties
<1>3. \A i \in DOMAIN stack[p] : stack[p][i] \in LiveFrames
  BY <1>1, <1>2, ElementOfSeq
<1>4. \A i \in DOMAIN stack[p] : stack[p][i].tx \in Wrapped /\ stack[p][i] \in Frames
  BY <1>3, LiveStacks, FrameKinds
<1>5. stack[p] # <<>> => Len(stack[p]) # 0
  BY <1>1, EmptySeq
<1> QED
  BY <1>2, <1>3, <1>4, <1>5 DEF Top

\* A transaction value that is not Null has a SQL transaction.
LEMMA SqlOf ==
  ASSUME NEW w \in Wrapped
  PROVE  /\ w # Null => w.sql \in Tx
         /\ w.sql \in Tx => w # Null
         /\ w.sql = None <=> w = Null
BY NoneAssumption DEF Wrapped, Null

-----------------------------------------------------------------------------
(* One holder.                                                             *)

(* A call or a handle holds a transaction. *)
Holds(f, t) == f.tx.sql = t

OneHolder ==
    \A t \in Tx :
       /\ \A p, q \in Proc : \A i \in DOMAIN stack[p], j \in DOMAIN stack[q] :
             Holds(stack[p][i], t) /\ Holds(stack[q][j], t) => p = q /\ i = j
       /\ \A g, h \in handles : Holds(g, t) /\ Holds(h, t) => g = h
       /\ \A p \in Proc : \A i \in DOMAIN stack[p], h \in handles :
             ~(Holds(stack[p][i], t) /\ Holds(h, t))

(* A transaction that was begun, and that only its context can have ended. *)
Running(t) == status[t] = "open" \/ t \in cancelled

HeldRuns ==
    /\ \A p \in Proc : \A i \in DOMAIN stack[p] :
          stack[p][i].tx # Null =>
             /\ status[stack[p][i].tx.sql] # "unused"
             /\ stack[p][i].pc # "return" => Running(stack[p][i].tx.sql)
    /\ \A h \in handles : h.tx # Null /\ Running(h.tx.sql)

CancelledIsOver == \A t \in cancelled : status[t] = "rolledback"

HolderInv == OneHolder /\ HeldRuns /\ CancelledIsOver /\ HonestUnlessCancelled

\* A call begins a transaction and holds it from then on.
LEMMA BeginHolds ==
  ASSUME TypeInv, HolderInv, NEW p \in Proc, NEW t \in Tx, Begin(t),
         NEW f \in LiveFrames, f.tx.sql = t, f.tx # Null, f.pc # "return", Push(p, f),
         UNCHANGED <<handles, confirmed>>
  PROVE  HolderInv'
<1> USE DEF HolderInv
<1>1. stack \in [Proc -> Seq(LiveFrames)]
  BY DEF TypeInv
<1>2. /\ DOMAIN stack[p] = 1..Len(stack[p]) /\ Len(stack[p]) \in Nat
      /\ DOMAIN stack'[p] = 1..(Len(stack[p]) + 1)
      /\ \A i \in DOMAIN stack[p] : stack'[p][i] = stack[p][i]
      /\ stack'[p][Len(stack[p]) + 1] = f
      /\ \A q \in Proc \ {p} : stack'[q] = stack[q]
  BY <1>1, PushAt
<1>3. \A q \in Proc : \A i \in DOMAIN stack'[q] :
         \/ q = p /\ i = Len(stack[p]) + 1 /\ stack'[q][i] = f
         \/ i \in DOMAIN stack[q] /\ stack'[q][i] = stack[q][i]
  BY <1>2
<1>4. /\ status[t] = "unused" /\ status'[t] = "open" /\ cancelled' = cancelled
      /\ \A u \in Tx \ {t} : status'[u] = status[u]
  BY DEF Begin, TypeInv, TypeOK
<1>5. /\ \A q \in Proc : \A i \in DOMAIN stack[q] : ~Holds(stack[q][i], t)
      /\ \A g \in handles : ~Holds(g, t)
  <2>1. t \notin cancelled
    BY <1>4 DEF CancelledIsOver
  <2>2. \A q \in Proc : \A i \in DOMAIN stack[q] : stack[q][i].tx \in Wrapped
    BY CallsAt
  <2>3. \A g \in handles : g.tx \in Wrapped
    BY DEF TypeInv, TypeOK, Handles
  <2> QED
    BY <1>4, <2>1, <2>2, <2>3, SqlOf DEF HeldRuns, Holds, Running
<1>6. OneHolder'
  <2>1. \A u \in Tx : \A q, r \in Proc :
           \A i \in DOMAIN stack'[q], j \in DOMAIN stack'[r] :
              Holds(stack'[q][i], u) /\ Holds(stack'[r][j], u) => q = r /\ i = j
    BY <1>3, <1>5 DEF OneHolder, Holds
  <2>2. \A u \in Tx : \A q \in Proc : \A i \in DOMAIN stack'[q], g \in handles' :
              ~(Holds(stack'[q][i], u) /\ Holds(g, u))
    BY <1>3, <1>5 DEF OneHolder, Holds
  <2> QED
    BY <2>1, <2>2 DEF OneHolder, Holds
<1>7. HeldRuns'
  <2>1. ASSUME NEW q \in Proc, NEW i \in DOMAIN stack'[q], stack'[q][i].tx # Null
        PROVE  /\ status'[stack'[q][i].tx.sql] # "unused"
               /\ stack'[q][i].pc # "return" => Running(stack[q][i].tx.sql)'
    <3>1. CASE stack'[q][i] = f
      BY <1>4, <3>1 DEF Running
    <3>2. CASE i \in DOMAIN stack[q] /\ stack'[q][i] = stack[q][i]
      <4>1. stack[q][i].tx.sql \in Tx \ {t}
        BY <1>5, <2>1, <3>2, CallsAt, SqlOf DEF Holds
      <4> QED
        BY <1>4, <2>1, <3>2, <4>1 DEF HeldRuns, Running
    <3> QED
      BY <1>3, <3>1, <3>2
  <2>2. ASSUME NEW g \in handles'
        PROVE  g.tx # Null /\ Running(g.tx.sql)'
    <3>1. g.tx # Null /\ g.tx.sql \in Tx \ {t}
      BY <1>5, SqlOf DEF HeldRuns, Holds, TypeInv, TypeOK, Handles
    <3> QED
      BY <1>4, <3>1 DEF HeldRuns, Running
  <2> QED
    BY <2>1, <2>2 DEF HeldRuns, Running
<1>8. CancelledIsOver' /\ HonestUnlessCancelled'
  BY <1>4 DEF CancelledIsOver, HonestUnlessCancelled, TypeInv, TypeOK
<1> QED
  BY <1>6, <1>7, <1>8

\* A transaction is ended by its holder, which then holds it no more or is about
\* to return: nobody else held it.
LEMMA EndHolds ==
  ASSUME TypeInv, TypeInv', HolderInv, NEW w \in Wrapped,
         \/ Rollback(w)
         \/ (w # Null => Running(w.sql)) /\ \E err \in BOOLEAN : Commit(w, err),
         \A p \in Proc : \A i \in DOMAIN stack'[p] :
            /\ i \in DOMAIN stack[p] /\ stack'[p][i].tx = stack[p][i].tx
            /\ stack'[p][i].pc # "return" =>
                  /\ stack[p][i].pc # "return"
                  /\ stack[p][i].tx # Null => stack[p][i].tx.sql # w.sql,
         handles' \subseteq handles, \A h \in handles' : h.tx.sql # w.sql
  PROVE  HolderInv'
<1> USE DEF HolderInv
<1>1. /\ cancelled' = cancelled
      /\ \A t \in Tx : t # w.sql => status'[t] = status[t]
      /\ \A t \in Tx : status[t] # "unused" => status'[t] # "unused"
      /\ \A t \in Tx : status[t] # "open" => status'[t] = status[t]
  BY DEF Commit, Rollback, ReachesOpen, TypeInv, TypeOK
<1>2. OneHolder'
  BY DEF OneHolder, Holds
<1>3. HeldRuns'
  <2>1. ASSUME NEW p \in Proc, NEW i \in DOMAIN stack'[p], stack'[p][i].tx # Null
        PROVE  /\ status'[stack'[p][i].tx.sql] # "unused"
               /\ stack'[p][i].pc # "return" => Running(stack[p][i].tx.sql)'
    <3>1. i \in DOMAIN stack[p] /\ stack'[p][i].tx = stack[p][i].tx
      OBVIOUS
    <3>2. stack[p][i].tx.sql \in Tx
      BY <2>1, <3>1, CallsAt, SqlOf
    <3> QED
      BY <1>1, <2>1, <3>1, <3>2 DEF HeldRuns, Running
  <2>2. ASSUME NEW h \in handles'
        PROVE  h.tx # Null /\ Running(h.tx.sql)'
    <3>1. h.tx # Null /\ h.tx.sql \in Tx
      BY SqlOf DEF HeldRuns, TypeInv, TypeOK, Handles
    <3> QED
      BY <1>1, <3>1 DEF HeldRuns, Running
  <2> QED
    BY <2>1, <2>2 DEF HeldRuns, Running
<1>4. CancelledIsOver'
  BY <1>1 DEF CancelledIsOver, TypeInv, TypeOK
<1>5. HonestUnlessCancelled'
  <2>1. CASE Rollback(w)
    <3>1. /\ confirmed' = confirmed
          /\ \A t \in Tx : status'[t] = "committed" <=> status[t] = "committed"
      BY <2>1 DEF Rollback, ReachesOpen, TypeInv, TypeOK
    <3> QED
      BY <1>1, <3>1 DEF HonestUnlessCancelled, TypeInv, TypeOK
  <2>2. ASSUME NEW err \in BOOLEAN, Commit(w, err), w # Null => Running(w.sql)
        PROVE  HonestUnlessCancelled'
    <3>1. w # Null => w.sql \in Tx
      BY SqlOf
    <3>2. CASE ReachesOpen(w)
      <4>1. /\ w # Null /\ w.sql \in Tx
            /\ status'[w.sql] = IF err THEN "rolledback" ELSE "committed"
            /\ status[w.sql] = "open"
            /\ confirmed' = IF err THEN confirmed ELSE confirmed \union {w.sql}
        BY <2>2, <3>1, <3>2 DEF Commit, ReachesOpen, Null, TypeInv, TypeOK
      <4> QED
        BY <1>1, <4>1 DEF HonestUnlessCancelled, TypeInv, TypeOK
    <3>3. CASE ~ReachesOpen(w)
      <4>1. /\ status' = status /\ err = (Reached(w) # DOMAIN w.chain)
            /\ confirmed' = IF err \/ w = Null THEN confirmed
                            ELSE confirmed \union {w.sql}
        BY <2>2, <3>3 DEF Commit
      <4>2. ~err /\ w # Null => w.sql \in cancelled
        BY <2>2, <3>1, <3>3, <4>1, NoneAssumption DEF ReachesOpen, Running
      <4> QED
        BY <1>1, <4>1, <4>2 DEF HonestUnlessCancelled
    <3> QED
      BY <3>2, <3>3
  <2> QED
    BY <2>1, <2>2
<1> QED
  BY <1>2, <1>3, <1>4, <1>5

\* A step in which nobody begins or ends a transaction.
LEMMA SameHolders ==
  ASSUME TypeInv, HolderInv, UNCHANGED <<status, cancelled, stack, handles, confirmed>>
  PROVE  HolderInv'
BY DEF HolderInv, OneHolder, Holds, HeldRuns, Running, CancelledIsOver,
       HonestUnlessCancelled

\* A transaction just begun is bound: its holder stays the call, or becomes the
\* handle that the call returns.
LEMMA BindTransactionHolds ==
  ASSUME TypeInv, TypeInv', HolderInv, NEW p \in Proc, BindTransaction(p)
  PROVE  HolderInv'
<1> USE DEF HolderInv
<1> DEFINE n == Len(stack[p])
           f == stack[p][n]
           w == Wrap(f.tx, qs[f.qs].compiler)
<1>1. /\ stack[p] # <<>> /\ Top(p) = f /\ n \in DOMAIN stack[p] /\ f.pc = "bind"
      /\ UNCHANGED <<status, rows, db, cancelled, confirmed>>
  BY CallsAt DEF BindTransaction, database
<1>2. f \in BindFrames /\ f.qs \in QuerySet /\ qs[f.qs].compiler \in Compiler
  <2>1. f \in LiveFrames /\ f \in BindFrames
    BY <1>1, CallsAt, FrameKinds
  <2> QED
    BY <2>1 DEF LiveFrames, BindFrames, TypeInv, TypeOK
<1>3. w.sql = f.tx.sql /\ f.tx.sql \in Tx /\ w \in Wrapped
  BY <1>2, BegunType DEF BindFrames
<1>4. f.tx # Null /\ w # Null /\ Running(f.tx.sql)
  BY <1>1, <1>3, SqlOf, CallsAt DEF HeldRuns
<1>5. stack \in [Proc -> Seq(LiveFrames)]
  BY DEF TypeInv
<1> HIDE DEF w
<1>6. CASE Pop(p) /\ UNCHANGED handles
  <2>1. \A q \in Proc : \A i \in DOMAIN stack'[q] :
           i \in DOMAIN stack[q] /\ stack'[q][i] = stack[q][i]
    BY <1>1, <1>5, <1>6, PopAt
  <2>2. OneHolder'
    BY <1>6, <2>1 DEF OneHolder
  <2>3. HeldRuns'
    BY <1>1, <1>6, <2>1 DEF HeldRuns, Running
  <2> QED
    BY <1>1, <2>2, <2>3 DEF CancelledIsOver, HonestUnlessCancelled
<1>7. CASE SetTop(p, [f EXCEPT !.pc = "body", !.tx = w]) /\ UNCHANGED handles
  <2> DEFINE g == [f EXCEPT !.pc = "body", !.tx = w]
  <2>1. g.tx = w /\ g.pc = "body"
    BY <1>2 DEF BindFrames
  <2>2. /\ DOMAIN stack'[p] = DOMAIN stack[p] /\ stack'[p][n] = g
        /\ \A i \in DOMAIN stack[p] \ {n} : stack'[p][i] = stack[p][i]
        /\ \A q \in Proc \ {p} : stack'[q] = stack[q]
    BY <1>1, <1>5, <1>7, SetTopAt
  <2> HIDE DEF g
  <2>3. \A q \in Proc : \A i \in DOMAIN stack'[q] :
           /\ i \in DOMAIN stack[q] /\ stack'[q][i].tx.sql = stack[q][i].tx.sql
           /\ \/ stack'[q][i] = stack[q][i]
              \/ stack'[q][i].tx = w /\ Running(stack[q][i].tx.sql)
    BY <1>3, <1>4, <2>1, <2>2
  <2>4. OneHolder'
    BY <1>7, <2>3 DEF OneHolder, Holds
  <2>5. Running(w.sql) /\ status[w.sql] # "unused"
    BY <1>1, <1>3, <1>4 DEF HeldRuns
  <2>6. HeldRuns'
    <3>1. ASSUME NEW q \in Proc, NEW i \in DOMAIN stack'[q], stack'[q][i].tx # Null
          PROVE  /\ status[stack'[q][i].tx.sql] # "unused"
                 /\ stack'[q][i].pc # "return" => Running(stack'[q][i].tx.sql)
      <4>1. CASE stack'[q][i] = stack[q][i]
        BY <2>3, <3>1, <4>1 DEF HeldRuns
      <4>2. CASE stack'[q][i].tx = w /\ Running(stack[q][i].tx.sql)
        BY <2>3, <2>5, <3>1, <4>2
      <4> QED
        BY <2>3, <3>1, <4>1, <4>2
    <3>2. \A h \in handles' : h.tx # Null /\ Running(h.tx.sql)
      BY <1>7 DEF HeldRuns
    <3> QED
      BY <1>1, <3>1, <3>2 DEF HeldRuns, Running
  <2> QED
    BY <1>1, <2>4, <2>6 DEF CancelledIsOver, HonestUnlessCancelled
<1>8. CASE /\ Pop(p)
           /\ handles' = handles \union {[tx |-> w, began |-> TRUE, user |-> p]}
  <2> DEFINE h == [tx |-> w, began |-> TRUE, user |-> p]
  <2>1. \A q \in Proc : \A i \in DOMAIN stack'[q] :
           /\ i \in DOMAIN stack[q] /\ stack'[q][i] = stack[q][i]
           /\ ~(q = p /\ i = n)
    BY <1>1, <1>5, <1>8, PopAt
  <2>2. /\ \A q \in Proc : \A i \in DOMAIN stack'[q] : ~Holds(stack[q][i], w.sql)
        /\ \A g \in handles : ~Holds(g, w.sql)
    BY <1>1, <1>3, <2>1 DEF OneHolder, Holds
  <2>3. h.tx = w
    OBVIOUS
  <2> HIDE DEF h
  <2>4. \A g \in handles' : g \in handles \/ g = h
    BY <1>8 DEF h
  <2>5. OneHolder'
    <3>1. \A t \in Tx : \A g, k \in handles' : Holds(g, t) /\ Holds(k, t) => g = k
      BY <2>2, <2>3, <2>4 DEF OneHolder, Holds
    <3>2. \A t \in Tx : \A q \in Proc : \A i \in DOMAIN stack'[q], g \in handles' :
             ~(Holds(stack'[q][i], t) /\ Holds(g, t))
      BY <2>1, <2>2, <2>3, <2>4 DEF OneHolder, Holds
    <3>3. \A t \in Tx : \A q, r \in Proc :
             \A i \in DOMAIN stack'[q], j \in DOMAIN stack'[r] :
                Holds(stack'[q][i], t) /\ Holds(stack'[r][j], t) => q = r /\ i = j
      BY <2>1 DEF OneHolder, Holds
    <3> QED
      BY <3>1, <3>2, <3>3 DEF OneHolder, Holds
  <2>6. HeldRuns'
    <3>1. \A q \in Proc : \A i \in DOMAIN stack'[q] :
             stack'[q][i].tx # Null =>
                /\ status[stack'[q][i].tx.sql] # "unused"
                /\ stack'[q][i].pc # "return" => Running(stack'[q][i].tx.sql)
      BY <2>1 DEF HeldRuns
    <3>2. h.tx # Null /\ Running(h.tx.sql)
      BY <1>3, <1>4, <2>3
    <3>3. \A g \in handles' : g.tx # Null /\ Running(g.tx.sql)
      BY <2>4, <3>2 DEF HeldRuns
    <3> QED
      BY <1>1, <3>1, <3>3 DEF HeldRuns, Running
  <2> QED
    BY <1>1, <2>5, <2>6 DEF CancelledIsOver, HonestUnlessCancelled
<1> QED
  BY <1>1, <1>6, <1>7, <1>8 DEF BindTransaction, w

LEMMA HolderInvInit == Init => HolderInv
<1> SUFFICES ASSUME Init PROVE HolderInv
  OBVIOUS
<1>1. \A p \in Proc : DOMAIN stack[p] = {}
  <2>1. \A p \in Proc : stack[p] = <<>>
    BY DEF Init
  <2>2. DOMAIN <<>> = {}
    OBVIOUS
  <2> QED
    BY <2>1, <2>2
<1>2. OneHolder /\ HeldRuns
  BY <1>1 DEF Init, OneHolder, HeldRuns
<1>3. CancelledIsOver /\ HonestUnlessCancelled
  BY DEF Init, CancelledIsOver, HonestUnlessCancelled
<1> QED
  BY <1>2, <1>3 DEF HolderInv

LEMMA HolderInvNext ==
  ASSUME ~Nested, TypeInv, HolderInv, [Next]_vars
  PROVE  HolderInv'
<1>t. TypeInv'
  BY TypeInvNext
<1>s. stack \in [Proc -> Seq(LiveFrames)]
  BY DEF TypeInv
<1>n. Null \in Wrapped
  BY DEF Wrapped
<1> USE DEF HolderInv
<1>j. ASSUME NEW p \in Proc, NEW f \in Frames, f.tx = Null, Push(p, f),
             UNCHANGED <<status, cancelled, handles, confirmed>>
      PROVE  HolderInv'
  <2>1. \A q \in Proc : \A i \in DOMAIN stack'[q] :
           \/ i \in DOMAIN stack[q] /\ stack'[q][i] = stack[q][i]
           \/ stack'[q][i] = f
    <3>1. stack \in [Proc -> Seq(Frames)]
      BY DEF TypeInv, TypeOK
    <3> QED
      BY <1>j, <3>1, PushAt
  <2>2. \A t \in Tx : ~Holds(f, t)
    BY <1>j, NoneAssumption DEF Holds, Null
  <2>3. OneHolder'
    <3>1. \A t \in Tx : \A q, r \in Proc :
             \A i \in DOMAIN stack'[q], j \in DOMAIN stack'[r] :
                Holds(stack'[q][i], t) /\ Holds(stack'[r][j], t) => q = r /\ i = j
      BY <2>1, <2>2 DEF OneHolder
    <3>2. \A t \in Tx : \A q \in Proc : \A i \in DOMAIN stack'[q], g \in handles' :
             ~(Holds(stack'[q][i], t) /\ Holds(g, t))
      BY <1>j, <2>1, <2>2 DEF OneHolder
    <3> QED
      BY <1>j, <3>1, <3>2 DEF OneHolder, Holds
  <2>4. HeldRuns'
    BY <1>j, <2>1 DEF HeldRuns, Running
  <2> QED
    BY <1>j, <2>3, <2>4 DEF CancelledIsOver, HonestUnlessCancelled
<1>1. ASSUME NEW p \in Proc, NEW context \in Contexts(p),
             RunInTransaction(p, context)
      PROVE  HolderInv'
  <2>1. CASE Push(p, NewFrame("run", "body", None, Null, context))
             /\ UNCHANGED database
    <3> DEFINE f == NewFrame("run", "body", None, Null, context)
    <3>1. f \in Frames /\ f.tx = Null
      BY <1>n, ContextsType DEF NewFrame, Frames, RunFrames
    <3> QED
      BY <1>1, <1>j, <2>1, <3>1 DEF RunInTransaction, database
  <2>2. ASSUME NEW t \in Tx, NEW c \in Compiler, Begin(t),
               Push(p, NewFrame("run", "body", None, Wrap(Bare(t), c), Wrap(Bare(t), c)))
        PROVE  HolderInv'
    <3> DEFINE w == Wrap(Bare(t), c)
               f == NewFrame("run", "body", None, w, w)
    <3>1. w \in Wrapped /\ w.sql = t /\ w # Null
      <4>1. Bare(t) \in Begun /\ Bare(t).sql = t
        BY EmptySeq DEF Begun, Bare
      <4> QED
        BY <4>1, BegunType, SqlOf
    <3>2. f \in LiveFrames /\ f.tx = w /\ f.pc # "return"
      BY <3>1 DEF NewFrame, LiveFrames, Frames, RunFrames
    <3> HIDE DEF w, f
    <3> QED
      BY <1>1, <2>2, <3>1, <3>2, BeginHolds DEF RunInTransaction, w, f
  <2> QED
    BY <1>1, <2>1, <2>2 DEF RunInTransaction
<1>2. ASSUME NEW p \in Proc, NEW q \in QuerySet, StartTransaction(p, q) \/ StartWrite(p, q)
      PROVE  HolderInv'
  <2>1. /\ UNCHANGED <<handles, confirmed>>
        /\ \/ /\ Push(p, NewFrame("write", "body", q, Null, Null))
              /\ UNCHANGED database
           \/ \E t \in Tx, call \in {"write", "start"} :
                 /\ Begin(t)
                 /\ Push(p, NewFrame(call, "bind", q, Bare(t), Null))
    BY <1>2 DEF StartTransaction, StartWrite, history
  <2>2. qs[q].compiler \in made
    BY <1>2 DEF StartTransaction, StartWrite, Usable, TypeInv, TypeOK
  <2>3. CASE Push(p, NewFrame("write", "body", q, Null, Null)) /\ UNCHANGED database
    <3>1. NewFrame("write", "body", q, Null, Null) \in Frames
      BY <1>n DEF NewFrame, Frames, WriteFrames
    <3> QED
      BY <1>j, <2>1, <2>3, <3>1 DEF NewFrame, database
  <2>4. ASSUME NEW t \in Tx, NEW call \in {"write", "start"}, Begin(t),
               Push(p, NewFrame(call, "bind", q, Bare(t), Null))
        PROVE  HolderInv'
    <3> DEFINE f == NewFrame(call, "bind", q, Bare(t), Null)
    <3>1. Bare(t) \in Begun /\ Bare(t).sql = t /\ Bare(t) \in Wrapped /\ Bare(t) # Null
      <4>1. Bare(t) \in Begun /\ Bare(t).sql = t
        BY EmptySeq DEF Begun, Bare
      <4>2. Bare(t) \in Wrapped
        BY EmptySeq DEF Wrapped, Bare
      <4> QED
        BY <4>1, <4>2, SqlOf
    <3>2. f \in LiveFrames /\ f.tx = Bare(t) /\ f.pc # "return"
      BY <2>2, <3>1 DEF NewFrame, LiveFrames, Frames, BindFrames
    <3> HIDE DEF f
    <3> QED
      BY <2>1, <2>4, <3>1, <3>2, BeginHolds DEF f
  <2> QED
    BY <2>1, <2>3, <2>4
<1>3. ASSUME NEW p \in Proc, RunCommits(p) \/ RunRollsBack(p) \/ WriteReturns(p)
      PROVE  HolderInv'
  <2> DEFINE n == Len(stack[p])
             f == stack[p][n]
  <2>1. /\ stack[p] # <<>> /\ n \in DOMAIN stack[p] /\ f = Top(p) /\ f.tx \in Wrapped
        /\ Pop(p) /\ UNCHANGED handles
        /\ \/ Rollback(f.tx)
           \/ f.pc # "return" /\ \E err \in BOOLEAN : Commit(f.tx, err)
    BY <1>3, CallsAt DEF RunCommits, RunRollsBack, WriteReturns, InCall
  <2>2. \A q \in Proc : \A i \in DOMAIN stack'[q] :
           /\ i \in DOMAIN stack[q] /\ stack'[q][i] = stack[q][i]
           /\ ~(q = p /\ i = n)
    BY <1>s, <2>1, PopAt
  <2>3. \A q \in Proc : \A i \in DOMAIN stack'[q] :
           stack[q][i].tx # Null => stack[q][i].tx.sql # f.tx.sql
    BY <2>1, <2>2, CallsAt, SqlOf DEF OneHolder, Holds
  <2>4. \A h \in handles : h.tx.sql # f.tx.sql
    BY <2>1, SqlOf DEF OneHolder, HeldRuns, Holds, TypeInv, TypeOK, Handles
  <2>5. f.pc # "return" /\ f.tx # Null => Running(f.tx.sql)
    BY <2>1 DEF HeldRuns
  <2> HIDE DEF f
  <2> QED
    BY <1>t, <2>1, <2>2, <2>3, <2>4, <2>5, EndHolds
<1>4. ASSUME NEW p \in Proc, WriteFails(p) \/ WriteCommits(p)
      PROVE  HolderInv'
  <2> DEFINE n == Len(stack[p])
             f == stack[p][n]
             g == [f EXCEPT !.pc = "return"]
  <2>1. /\ stack[p] # <<>> /\ n \in DOMAIN stack[p] /\ f = Top(p)
        /\ f.tx \in Wrapped /\ f \in Frames
        /\ f.pc = "body" /\ SetTop(p, g) /\ UNCHANGED handles
    BY <1>4, CallsAt DEF WriteFails, WriteCommits, InCall
  <2>2. g.tx = f.tx /\ g.pc = "return"
    BY <2>1 DEF Frames, RunFrames, BindFrames, WriteFrames
  <2>3. /\ DOMAIN stack'[p] = DOMAIN stack[p] /\ stack'[p][n] = g
        /\ \A i \in DOMAIN stack[p] \ {n} : stack'[p][i] = stack[p][i]
        /\ \A q \in Proc \ {p} : stack'[q] = stack[q]
    BY <1>s, <2>1, SetTopAt
  <2> HIDE DEF g
  <2>4. \A q \in Proc : \A i \in DOMAIN stack'[q] :
           /\ i \in DOMAIN stack[q] /\ stack'[q][i].tx = stack[q][i].tx
           /\ stack'[q][i].pc # "return" =>
                 stack[q][i].pc # "return" /\ ~(q = p /\ i = n)
    BY <2>2, <2>3
  <2>5. CASE WriteFails(p)
    <3>1. UNCHANGED <<status, cancelled, confirmed>>
      BY <2>5 DEF WriteFails, database, history
    <3>2. OneHolder' /\ HeldRuns'
      BY SMTT(60), <2>1, <2>4, <3>1 DEF OneHolder, Holds, HeldRuns, Running
    <3> QED
      BY <3>1, <3>2 DEF CancelledIsOver, HonestUnlessCancelled
  <2>6. CASE WriteCommits(p)
    <3>1. \E err \in BOOLEAN : Commit(f.tx, err)
      BY <2>1, <2>6 DEF WriteCommits
    <3>2. \A q \in Proc : \A i \in DOMAIN stack[q] :
             stack[q][i].tx # Null /\ ~(q = p /\ i = n)
                => stack[q][i].tx.sql # f.tx.sql
      BY <2>1, CallsAt, SqlOf DEF OneHolder, Holds
    <3>3. \A h \in handles : h.tx.sql # f.tx.sql
      BY <2>1, SqlOf DEF OneHolder, HeldRuns, Holds, TypeInv, TypeOK, Handles
    <3>4. f.tx # Null => Running(f.tx.sql)
      BY <2>1 DEF HeldRuns
    <3> HIDE DEF f
    <3> QED
      BY <1>t, <2>1, <2>4, <3>1, <3>2, <3>3, <3>4, EndHolds
  <2> QED
    BY <1>4, <2>5, <2>6
<1>5. ASSUME NEW p \in Proc, NEW h \in handles, EndTransaction(p, h)
      PROVE  HolderInv'
  <2>1. /\ h.tx \in Wrapped /\ h.tx # Null /\ Running(h.tx.sql) /\ h.tx.sql \in Tx
        /\ handles' = handles \ {h} /\ stack' = stack
        /\ Rollback(h.tx) \/ \E err \in BOOLEAN : Commit(h.tx, err)
    BY <1>5, SqlOf DEF EndTransaction, HeldRuns, TypeInv, TypeOK, Handles
  <2>2. /\ \A q \in Proc : \A i \in DOMAIN stack[q] : stack[q][i].tx.sql # h.tx.sql
        /\ \A g \in handles' : g.tx.sql # h.tx.sql
    BY <2>1 DEF OneHolder, Holds
  <2> QED
    BY <1>t, <2>1, <2>2, EndHolds
<1>6. ASSUME NEW t \in Tx, Cancel(t)
      PROVE  HolderInv'
  <2>1. /\ UNCHANGED <<stack, handles, confirmed>> /\ status[t] = "open"
        /\ status' = [status EXCEPT ![t] = "rolledback"]
        /\ cancelled' = cancelled \union {t}
    BY <1>6 DEF Cancel, history
  <2>2. OneHolder'
    BY <2>1 DEF OneHolder, Holds
  <2>3. \A u \in Tx : /\ status[u] # "unused" => status'[u] # "unused"
                      /\ Running(u) => Running(u)'
    BY <2>1 DEF Running, TypeInv, TypeOK
  <2>4. /\ \A p \in Proc : \A i \in DOMAIN stack[p] :
              stack[p][i].tx # Null => stack[p][i].tx.sql \in Tx
        /\ \A h \in handles : h.tx # Null => h.tx.sql \in Tx
    BY CallsAt, SqlOf DEF TypeInv, TypeOK, Handles
  <2>5. HeldRuns'
    BY <2>1, <2>3, <2>4 DEF HeldRuns, Running
  <2>6. CancelledIsOver' /\ HonestUnlessCancelled'
    BY <2>1 DEF CancelledIsOver, HonestUnlessCancelled, TypeInv, TypeOK
  <2> QED
    BY <2>2, <2>5, <2>6
<1>7. ASSUME NEW p \in Proc, NEW q \in QuerySet,
             \/ \E context \in Contexts(p) :
                   GetQuerySet(p, q, context) \/ WithContext(p, q, context)
             \/ \E x \in QuerySet : Clone(p, x, q)
      PROVE  HolderInv'
  <2>1. UNCHANGED <<status, cancelled, stack, handles, confirmed>>
    BY <1>7 DEF GetQuerySet, WithContext, Clone, database
  <2> QED
    BY <2>1, SameHolders
<1>8. ASSUME NEW p \in Proc, NEW r \in Row, Execute(p, r)
      PROVE  HolderInv'
  BY <1>8, SameHolders DEF Execute
<1>9. CASE UNCHANGED vars
  BY <1>9, SameHolders DEF vars, database, history
<1> QED
  BY <1>t, <1>1, <1>2, <1>3, <1>4, <1>5, <1>6, <1>7, <1>8, <1>9,
     BindTransactionHolds DEF Next, WriteStep

\* Commit reports the truth, for any number of goroutines that share querysets,
\* move them between contexts and cancel what they like: a transaction was
\* committed if a Commit returned nil, unless its context was cancelled, and
\* only if one did.  A queryset in a transaction is not told to start another.
THEOREM CommitIsHonest == ~Nested => (Spec => []HonestUnlessCancelled)
<1> SUFFICES ASSUME ~Nested PROVE Spec => []HonestUnlessCancelled
  OBVIOUS
<1>1. Init => TypeInv /\ HolderInv
  BY TypeInvInit, HolderInvInit
<1>2. TypeInv /\ HolderInv /\ [Next]_vars => TypeInv' /\ HolderInv'
  BY TypeInvNext, HolderInvNext
<1>3. HolderInv => HonestUnlessCancelled
  BY DEF HolderInv
<1> QED
  BY <1>1, <1>2, <1>3, PTL DEF Spec

-----------------------------------------------------------------------------
(* Compilers.                                                              *)

(* The compiler of what a handle holds, and the one a call works with. *)
Bound(x) == x.tx.chain[1]
CompilerOf(f) == IF f.call = "run" THEN Bound(f) ELSE qs[f.qs].compiler

(* A call that bound the transaction it holds to its compiler, and a write *)
(* inside a transaction that others hold.                                  *)
Binds(f) == f.pc # "bind" /\ f.tx # Null
Joins(f) == f.call = "write" /\ f.pc = "body" /\ f.tx = Null

(* Querysets of one compiler are used by one goroutine, its calls too. *)
UsedAlone ==
    /\ \A x, y \in QuerySet :
          qs[x].compiler # None /\ qs[x].compiler = qs[y].compiler
             => qs[x].user = qs[y].user
    /\ \A p \in Proc : \A i \in DOMAIN stack[p] :
          stack[p][i].call # "run" => qs[stack[p][i].qs].user = p
    /\ \A c \in Compiler \ made : transaction[c] = Null

(* What a call in progress holds, and where its compiler points.  Only the *)
(* innermost call is between two statements of the library.                *)
CallPoints(p, i, f) ==
    LET c == CompilerOf(f)
    IN  /\ f.pc # "body" => i = Len(stack[p])
        /\ f.pc = "bind" => ~InTransaction(c)
        /\ f.call = "write" /\ f.pc = "body" => InTransaction(c)
        /\ Binds(f) =>
              /\ c \in made /\ f.tx.chain = <<c>>
              /\ f.call = "run" => \A q \in QuerySet : qs[q].compiler # c
              /\ transaction[c] \in {f.tx, Null}
              /\ f.pc = "body" \/ status[f.tx.sql] = "open"
                    => transaction[c] = f.tx

CallsPoint ==
    \A p \in Proc : \A i \in DOMAIN stack[p] : CallPoints(p, i, stack[p][i])

HandlesPoint ==
    \A h \in handles :
       /\ h.tx # Null /\ Bound(h) \in made /\ h.tx.chain = <<Bound(h)>>
       /\ transaction[Bound(h)] = h.tx
       /\ \E q \in QuerySet : qs[q].compiler = Bound(h) /\ qs[q].user = h.user

CallsApart ==
    \A p, q \in Proc : \A i \in DOMAIN stack[p], j \in DOMAIN stack[q] :
       /\ Binds(stack[p][i]) /\ Binds(stack[q][j])
       /\ CompilerOf(stack[p][i]) = CompilerOf(stack[q][j])
       => p = q /\ i = j

HandlesApart ==
    /\ \A p \in Proc : \A i \in DOMAIN stack[p], h \in handles :
          Binds(stack[p][i]) => CompilerOf(stack[p][i]) # Bound(h)
    /\ \A g, h \in handles : Bound(g) = Bound(h) => g = h

(* A write that joined the transaction of its compiler is inside the call  *)
(* that began it.                                                          *)
JoinsInside ==
    \A p \in Proc : \A i, j \in DOMAIN stack[p] :
       /\ Joins(stack[p][i]) /\ Binds(stack[p][j])
       /\ CompilerOf(stack[p][i]) = CompilerOf(stack[p][j])
       => j < i

OpenIsHeld ==
    \A t \in Tx : status[t] = "open" =>
       \/ \E p \in Proc : \E i \in DOMAIN stack[p] : Holds(stack[p][i], t)
       \/ \E h \in handles : Holds(h, t)

PointerInv ==
    /\ UsedAlone /\ CallsPoint /\ HandlesPoint
    /\ CallsApart /\ HandlesApart /\ JoinsInside /\ OpenIsHeld

(* The querysets in use keep their compilers, and others get one of theirs *)
(* or a new one.                                                           *)
CompilersKept ==
    /\ made \subseteq made'
    /\ \A q \in QuerySet : qs[q].compiler # None => qs'[q].compiler = qs[q].compiler
    /\ \A q \in QuerySet : \/ qs'[q].compiler \in Compiler \ made
                          \/ \E x \in QuerySet : qs'[q].compiler = qs[x].compiler

\* A call other than RunInTransaction works with the compiler of its queryset.
LEMMA CallCompiler ==
  ASSUME TypeInv, NEW f \in LiveFrames, f.call # "run"
  PROVE  /\ f.qs \in QuerySet /\ CompilerOf(f) = qs[f.qs].compiler
         /\ CompilerOf(f) \in made /\ CompilerOf(f) \in Compiler /\ CompilerOf(f) # None
<1>1. f.qs \in QuerySet /\ qs[f.qs].compiler \in made
  BY FrameKinds DEF LiveFrames
<1> QED
  BY <1>1, NoneAssumption DEF CompilerOf, TypeInv, TypeOK

\* A compiler that is in no transaction has no transaction value.
LEMMA NotInTransaction ==
  ASSUME TypeInv, NEW c \in Compiler
  PROVE  transaction[c] \in Wrapped /\ (~InTransaction(c) <=> transaction[c] = Null)
BY SqlOf DEF InTransaction, TypeInv, TypeOK

\* Ending a value wrapped once clears its compiler, and the transaction is over
\* if the compiler pointed to anything.
LEMMA EndPoints ==
  ASSUME TypeInv, NEW w \in Wrapped, (\E err \in BOOLEAN : Commit(w, err)) \/ Rollback(w),
         NEW c \in Compiler, w = Null \/ w.chain = <<c>>
  PROVE  /\ \A d \in Compiler :
               transaction'[d] = IF w # Null /\ d = c THEN Null ELSE transaction[d]
         /\ \A t \in Tx : t # w.sql => status'[t] = status[t]
         /\ \A t \in Tx : status'[t] = "open" => status[t] = "open"
         /\ w # Null /\ transaction[c] # Null => status'[w.sql] # "open"
<1>1. \A d \in Compiler :
         transaction'[d] = IF d \in Unbound(w) THEN Null ELSE transaction[d]
  BY DEF Commit, Rollback, Unbind
<1>2. CASE w = Null
  <2>1. Unbound(w) = {} /\ w.sql = None
    BY <1>2 DEF Null, Unbound, Reached
  <2>2. status' = status
    BY <2>1 DEF Commit, Rollback, ReachesOpen
  <2> QED
    BY <1>1, <1>2, <2>1, <2>2
<1>3. CASE w # Null
  <2>1. w.chain = <<c>> /\ w.sql \in Tx /\ w.sql # None
    BY <1>3, SqlOf, NoneAssumption
  <2>2. Reached(w) = IF InTransaction(c) THEN {1} ELSE {}
    BY <2>1 DEF Reached
  <2>3. Unbound(w) = IF InTransaction(c) THEN {c} ELSE {}
    BY <2>1, <2>2 DEF Unbound
  <2>4. transaction[c] = Null <=> ~InTransaction(c)
    BY NotInTransaction
  <2>5. ReachesOpen(w) <=> InTransaction(c) /\ status[w.sql] = "open"
    BY <2>1, <2>2 DEF ReachesOpen
  <2>6. /\ \A t \in Tx : t # w.sql \/ ~ReachesOpen(w) => status'[t] = status[t]
        /\ ReachesOpen(w) => status'[w.sql] \in {"committed", "rolledback"}
    BY <2>1 DEF Commit, Rollback, TypeInv, TypeOK
  <2> QED
    BY <1>1, <1>3, <2>1, <2>3, <2>4, <2>5, <2>6
<1> QED
  BY <1>2, <1>3

\* A call whose compiler stays in its transaction points where it did.
LEMMA CallKeeps ==
  ASSUME TypeInv, HolderInv, PointerInv, CompilersKept,
         NEW p \in Proc, NEW i \in DOMAIN stack[p], NEW f, f = stack[p][i],
         f.pc # "body" => Len(stack'[p]) = Len(stack[p]),
         \A t \in Tx : status[t] # "unused" /\ status'[t] = "open" => status[t] = "open",
         Binds(f) \/ (f.call = "write" /\ f.pc = "body")
            => transaction'[CompilerOf(f)] = transaction[CompilerOf(f)],
         f.pc = "bind" /\ transaction'[CompilerOf(f)].sql # None
            => InTransaction(CompilerOf(f))
  PROVE  /\ CallPoints(p, i, f)'
         /\ f.call # "run" \/ Binds(f) => CompilerOf(f)' = CompilerOf(f)
<1>1. CallPoints(p, i, f) /\ f \in LiveFrames /\ f \in Frames /\ f.tx \in Wrapped
  BY CallsAt DEF PointerInv, CallsPoint
<1>2. CompilerOf(f)' = CompilerOf(f)
  <2>1. CASE f.call = "run"
    BY <2>1 DEF CompilerOf, Bound
  <2>2. CASE f.call # "run"
    BY <1>1, <2>2, CallCompiler DEF CompilerOf, CompilersKept
  <2> QED
    BY <2>1, <2>2
<1> DEFINE c == CompilerOf(f)
<1>3. f.pc = "bind" => ~InTransaction(c)'
  BY <1>1, <1>2 DEF CallPoints, InTransaction
<1>4. f.call = "write" /\ f.pc = "body" => InTransaction(c)'
  BY <1>1, <1>2 DEF CallPoints, InTransaction
<1>5. ASSUME Binds(f), f.call = "run", NEW q \in QuerySet
      PROVE  qs'[q].compiler # c
  BY <1>1, <1>5 DEF CallPoints, CompilersKept
<1>6. ASSUME Binds(f), f.pc = "body" \/ status'[f.tx.sql] = "open"
      PROVE  transaction'[c] = f.tx
  <2>1. status[f.tx.sql] # "unused" /\ f.tx.sql \in Tx
    BY <1>1, <1>6, SqlOf DEF Binds, HolderInv, HeldRuns
  <2> QED
    BY <1>1, <1>6, <2>1 DEF CallPoints
<1>7. Binds(f) => /\ c \in made' /\ f.tx.chain = <<c>>
                  /\ transaction'[c] \in {f.tx, Null}
  BY <1>1 DEF CallPoints, CompilersKept
<1>8. f.pc # "body" => i = Len(stack'[p])
  BY <1>1 DEF CallPoints
<1> HIDE DEF c
<1>9. CompilerOf(f)' = c
  BY <1>2 DEF c
<1> QED
  BY <1>2, <1>3, <1>4, <1>5, <1>6, <1>7, <1>8, <1>9 DEF CallPoints, Binds, InTransaction, c

\* Where a goroutine runs the caller's code, it works with no compiler that is
\* in no transaction; and where it is inside the library, only its innermost
\* call does.
LEMMA OutsideCalls ==
  ASSUME TypeInv, PointerInv, NEW p \in Proc, NEW x \in QuerySet,
         qs[x].compiler \in Compiler, qs[x].user = p, ~InTransaction(qs[x].compiler)
  PROVE  /\ \A q \in Proc : \A i \in DOMAIN stack[q] :
               /\ Binds(stack[q][i]) \/ stack[q][i].call # "run"
               /\ CompilerOf(stack[q][i]) = qs[x].compiler
               => q = p /\ i = Len(stack[p]) /\ stack[q][i].pc # "body"
         /\ \A h \in handles : Bound(h) # qs[x].compiler
<1> USE DEF PointerInv
<1> DEFINE c == qs[x].compiler
<1>1. transaction[c] = Null /\ c # None
  BY NotInTransaction, NoneAssumption
<1>2. ASSUME NEW q \in Proc, NEW i \in DOMAIN stack[q], NEW f, f = stack[q][i],
             Binds(f) \/ f.call # "run", CompilerOf(f) = c
      PROVE  q = p /\ i = Len(stack[p]) /\ f.pc # "body"
  <2>1. CallPoints(q, i, f) /\ f \in LiveFrames /\ f \in Frames
    BY <1>2, CallsAt DEF CallsPoint
  <2>2. f.call # "run"
    BY <1>2, <2>1 DEF CallPoints
  <2>3. qs[f.qs].compiler = c /\ f.qs \in QuerySet
    BY <1>2, <2>1, <2>2, CallCompiler
  <2>4. q = p
    BY <1>1, <1>2, <2>2, <2>3 DEF UsedAlone
  <2>5. f.pc # "body"
    <3>1. f.pc = "body" => f.call = "write"
      BY <2>1, <2>2 DEF Frames, RunFrames, BindFrames, WriteFrames
    <3> QED
      BY <1>2, <2>1, <3>1 DEF CallPoints
  <2> QED
    BY <1>2, <2>1, <2>4, <2>5 DEF CallPoints
<1>3. \A h \in handles : Bound(h) # c
  BY <1>1 DEF HandlesPoint
<1> HIDE DEF c
<1> QED
  BY <1>2, <1>3 DEF c

(* A call that a step leaves as it is, and whose compiler it leaves alone. *)
Stays(p, i) ==
    LET f == stack[p][i]
    IN  /\ i \in DOMAIN stack[p] /\ stack'[p][i] = f
        /\ f.pc # "body" => Len(stack'[p]) = Len(stack[p])
        /\ Binds(f) \/ (f.call = "write" /\ f.pc = "body")
              => transaction'[CompilerOf(f)] = transaction[CompilerOf(f)]
        /\ f.pc = "bind" /\ transaction'[CompilerOf(f)].sql # None
              => InTransaction(CompilerOf(f))

\* A step that changes one call, makes it or ends it, and leaves the others.
LEMMA CallsNext ==
  ASSUME TypeInv, HolderInv, PointerInv, CompilersKept, NEW p \in Proc, NEW n \in Nat,
         \A t \in Tx : status[t] # "unused" /\ status'[t] = "open" => status[t] = "open",
         \A q \in Proc : \A i \in DOMAIN stack'[q] : (q = p /\ i = n) \/ Stays(q, i),
         NEW g, NEW c,
         n \in DOMAIN stack'[p] =>
            /\ stack'[p][n] = g /\ CallPoints(p, n, g)' /\ CompilerOf(g)' = c
            /\ Binds(g) => \A q \in Proc : \A i \in DOMAIN stack[q] :
                  /\ ~(q = p /\ i = n)
                  /\ Binds(stack[q][i]) \/ (Joins(stack[q][i]) /\ q = p /\ i < n)
                  => CompilerOf(stack[q][i]) # c
            /\ Joins(g) => \A i \in DOMAIN stack'[p] : i <= n
  PROVE  /\ CallsPoint' /\ CallsApart' /\ JoinsInside'
         /\ \A q \in Proc : \A i \in DOMAIN stack'[q] : \A f :
               f = stack'[q][i] /\ Binds(f) /\ ~(q = p /\ i = n) =>
                  /\ i \in DOMAIN stack[q] /\ f = stack[q][i]
                  /\ CompilerOf(f)' = CompilerOf(f)
<1> USE DEF PointerInv
<1>1. ASSUME NEW q \in Proc, NEW i \in DOMAIN stack'[q], NEW f, f = stack'[q][i],
             ~(q = p /\ i = n)
      PROVE  /\ i \in DOMAIN stack[q] /\ f = stack[q][i]
             /\ CallPoints(q, i, f)'
             /\ Binds(f) \/ Joins(f) => CompilerOf(f)' = CompilerOf(f)
  <2>1. Stays(q, i) /\ i \in DOMAIN stack[q] /\ f = stack[q][i]
    BY <1>1 DEF Stays
  <2>2. CallPoints(q, i, f)' /\ (f.call # "run" \/ Binds(f) => CompilerOf(f)' = CompilerOf(f))
    BY <2>1, CallKeeps DEF Stays
  <2> QED
    BY <2>1, <2>2 DEF Joins
<1>2. \A q \in Proc : \A i \in DOMAIN stack'[q] : \A f :
         f = stack'[q][i] => CallPoints(q, i, f)'
  BY <1>1
<1>3. CallsPoint'
  BY <1>2 DEF CallsPoint
<1>4. ASSUME NEW q \in Proc, NEW r \in Proc,
             NEW i \in DOMAIN stack'[q], NEW j \in DOMAIN stack'[r],
             NEW f, NEW h, f = stack'[q][i], h = stack'[r][j],
             Binds(f), Binds(h), CompilerOf(f)' = CompilerOf(h)'
      PROVE  q = r /\ i = j
  <2>1. CASE ~(q = p /\ i = n) /\ ~(r = p /\ j = n)
    BY <1>1, <1>4, <2>1 DEF CallsApart
  <2>2. CASE q = p /\ i = n /\ ~(r = p /\ j = n)
    BY <1>1, <1>4, <2>2
  <2>3. CASE r = p /\ j = n /\ ~(q = p /\ i = n)
    BY <1>1, <1>4, <2>3
  <2> QED
    BY <2>1, <2>2, <2>3
<1>5. CallsApart'
  <2>1. \A q, r \in Proc : \A i \in DOMAIN stack'[q], j \in DOMAIN stack'[r] :
           Binds(stack'[q][i]) /\ Binds(stack'[r][j])
           /\ CompilerOf(stack[q][i])' = CompilerOf(stack[r][j])'
           => q = r /\ i = j
    BY <1>4 DEF CompilerOf, Bound
  <2> QED
    BY <2>1 DEF CallsApart, Binds
<1>6. ASSUME NEW q \in Proc, NEW i \in DOMAIN stack'[q], NEW j \in DOMAIN stack'[q],
             NEW f, NEW h, f = stack'[q][i], h = stack'[q][j],
             Joins(f), Binds(h), CompilerOf(f)' = CompilerOf(h)'
      PROVE  j < i
  <2>0. DOMAIN stack[q] \subseteq Nat
    BY CallsAt
  <2>1. CASE ~(q = p /\ i = n) /\ ~(q = p /\ j = n)
    BY <1>1, <1>6, <2>1 DEF JoinsInside
  <2>2. CASE q = p /\ i = n /\ j # n
    <3>1. j <= n /\ j \in Nat
      BY <1>1, <1>6, <2>0, <2>2
    <3> QED
      BY <2>2, <3>1
  <2>3. CASE q = p /\ j = n /\ i # n
    <3>1. ~(i < n) /\ i \in Nat
      BY <1>1, <1>6, <2>0, <2>3
    <3> QED
      BY <2>3, <3>1
  <2>4. CASE i = j
    BY <1>6, <2>4 DEF Joins, Binds
  <2> QED
    BY <2>1, <2>2, <2>3, <2>4
<1>7. JoinsInside'
  <2>1. \A q \in Proc : \A i, j \in DOMAIN stack'[q] :
           Joins(stack'[q][i]) /\ Binds(stack'[q][j])
           /\ CompilerOf(stack[q][i])' = CompilerOf(stack[q][j])'
           => j < i
    BY <1>6 DEF CompilerOf, Bound
  <2> QED
    BY <2>1 DEF JoinsInside, Binds, Joins
<1> QED
  BY <1>1, <1>3, <1>5, <1>7

(* The querysets keep their compilers and their users. *)
UsersKept ==
    \A q \in QuerySet :
       qs'[q].compiler = qs[q].compiler /\ qs'[q].user = qs[q].user

\* The same when no handle is made, and those that remain point where they did.
LEMMA PointersNext ==
  ASSUME TypeInv, HolderInv, PointerInv, made \subseteq made', UsersKept,
         NEW p \in Proc, NEW n \in Nat,
         \A t \in Tx : status[t] # "unused" /\ status'[t] = "open" => status[t] = "open",
         \A q \in Proc : \A i \in DOMAIN stack'[q] : (q = p /\ i = n) \/ Stays(q, i),
         \A h \in handles' : h \in handles /\ transaction'[Bound(h)] = transaction[Bound(h)],
         \A d \in Compiler \ made' : transaction'[d] = Null,
         NEW g, NEW c,
         n \in DOMAIN stack'[p] =>
            /\ stack'[p][n] = g /\ CallPoints(p, n, g)' /\ CompilerOf(g)' = c
            /\ g.call # "run" => qs[g.qs].user = p /\ g.qs \in QuerySet
            /\ Binds(g) => \A h \in handles' : Bound(h) # c
            /\ Binds(g) => \A q \in Proc : \A i \in DOMAIN stack[q] :
                  /\ ~(q = p /\ i = n)
                  /\ Binds(stack[q][i]) \/ (Joins(stack[q][i]) /\ q = p /\ i < n)
                  => CompilerOf(stack[q][i]) # c
            /\ Joins(g) => \A i \in DOMAIN stack'[p] : i <= n
  PROVE  (OpenIsHeld => PointerInv)'
<1> USE DEF PointerInv
<1>1. CompilersKept
  BY DEF CompilersKept, UsersKept
<1>2. /\ CallsPoint' /\ CallsApart' /\ JoinsInside'
      /\ \A q \in Proc : \A i \in DOMAIN stack'[q] : \A f :
            f = stack'[q][i] /\ Binds(f) /\ ~(q = p /\ i = n) =>
               /\ i \in DOMAIN stack[q] /\ f = stack[q][i]
               /\ CompilerOf(f)' = CompilerOf(f)
  BY <1>1, CallsNext
<1>3. UsedAlone'
  <2>1. ASSUME NEW q \in Proc, NEW i \in DOMAIN stack'[q], stack'[q][i].call # "run"
        PROVE  qs'[stack'[q][i].qs].user = q
    <3>1. CASE q = p /\ i = n
      BY <2>1, <3>1 DEF UsersKept
    <3>2. CASE Stays(q, i)
      <4>1. i \in DOMAIN stack[q] /\ stack'[q][i] = stack[q][i]
        BY <3>2 DEF Stays
      <4>2. stack[q][i].qs \in QuerySet
        BY <2>1, <4>1, CallsAt, FrameKinds
      <4> QED
        BY <2>1, <4>1, <4>2 DEF UsedAlone, UsersKept
    <3> QED
      BY <3>1, <3>2
  <2> QED
    BY <2>1 DEF UsedAlone, UsersKept
<1>4. HandlesPoint'
  BY DEF HandlesPoint, UsersKept, Bound
<1>5. HandlesApart'
  <2>1. ASSUME NEW q \in Proc, NEW i \in DOMAIN stack'[q], NEW f, f = stack'[q][i],
               Binds(f), NEW h \in handles'
        PROVE  CompilerOf(f)' # Bound(h)
    BY <1>2, <2>1 DEF HandlesApart
  <2>2. \A k, h \in handles' : Bound(k) = Bound(h) => k = h
    BY DEF HandlesApart
  <2> QED
    BY <2>1, <2>2 DEF HandlesApart, CompilerOf, Bound, Binds
<1> QED
  BY <1>2, <1>3, <1>4, <1>5

LEMMA PointerInvInit == Init => PointerInv
<1> SUFFICES ASSUME Init PROVE PointerInv
  OBVIOUS
<1>1. \A p \in Proc : DOMAIN stack[p] = {}
  <2>1. \A p \in Proc : stack[p] = <<>>
    BY DEF Init
  <2>2. DOMAIN <<>> = {}
    OBVIOUS
  <2> QED
    BY <2>1, <2>2
<1>2. CallsPoint /\ CallsApart /\ JoinsInside
  BY <1>1 DEF CallsPoint, CallsApart, JoinsInside
<1>3. HandlesPoint /\ HandlesApart /\ OpenIsHeld
  BY <1>1 DEF Init, HandlesPoint, HandlesApart, OpenIsHeld
<1>4. UsedAlone
  BY <1>1 DEF Init, UsedAlone
<1> QED
  BY <1>2, <1>3, <1>4 DEF PointerInv

\* A queryset is made, cloned or given a context: a compiler that enters a
\* transaction by it is one that nobody works with.
LEMMA QuerySetPoints ==
  ASSUME TypeInv, HolderInv, PointerInv, CompilersKept, UsedAlone', NEW p \in Proc,
         UNCHANGED <<status, stack, handles>>,
         \A q \in QuerySet : qs[q].compiler # None => qs'[q].user = qs[q].user,
         \A d \in Compiler :
            \/ transaction'[d] = transaction[d]
            \/ /\ \A q \in Proc : \A i \in DOMAIN stack[q] :
                     Binds(stack[q][i]) \/ stack[q][i].call # "run"
                        => CompilerOf(stack[q][i]) # d
               /\ \A h \in handles : Bound(h) # d
  PROVE  PointerInv'
<1> USE DEF PointerInv
<1>0. \A q \in Proc : \A i \in DOMAIN stack[q] :
         Binds(stack[q][i]) \/ stack[q][i].call # "run" => CompilerOf(stack[q][i]) \in Compiler
  <2>1. ASSUME NEW q \in Proc, NEW i \in DOMAIN stack[q], Binds(stack[q][i]),
               stack[q][i].call = "run"
        PROVE  CompilerOf(stack[q][i]) \in Compiler
    BY <2>1 DEF CallsPoint, CallPoints, TypeInv, TypeOK
  <2> QED
    BY <2>1, CallsAt, CallCompiler
<1>1. \A q \in Proc : \A i \in DOMAIN stack[q] : Stays(q, i)
  <2>1. ASSUME NEW q \in Proc, NEW i \in DOMAIN stack[q]
        PROVE  Stays(q, i)
    <3>1. stack[q][i] \in Frames
      BY CallsAt
    <3>2. stack[q][i].pc = "bind" => stack[q][i].call # "run"
      BY <3>1, FrameKinds DEF BindFrames
    <3> QED
      BY <1>0, <3>2 DEF Stays, InTransaction
  <2> QED
    BY <2>1
<1>2. \A q \in Proc : 0 \notin DOMAIN stack[q]
  BY CallsAt
<1>3. CallsPoint' /\ CallsApart' /\ JoinsInside'
      /\ \A q \in Proc : \A i \in DOMAIN stack[q] : \A f :
            f = stack[q][i] /\ Binds(f) => CompilerOf(f)' = CompilerOf(f)
  BY <1>1, <1>2, CallsNext
<1>4. HandlesPoint'
  <2>1. \A h \in handles : Bound(h) \in Compiler /\ Bound(h) # None
    BY NoneAssumption DEF HandlesPoint, TypeInv, TypeOK
  <2> QED
    BY <2>1 DEF HandlesPoint, Bound, CompilersKept
<1>5. HandlesApart'
  <2>1. ASSUME NEW q \in Proc, NEW i \in DOMAIN stack[q], NEW f, f = stack[q][i],
               Binds(f), NEW h \in handles
        PROVE  CompilerOf(f)' # Bound(h)
    BY <1>3, <2>1 DEF HandlesApart
  <2> QED
    BY <2>1 DEF HandlesApart, CompilerOf, Bound, Binds
<1>6. OpenIsHeld'
  BY DEF OpenIsHeld, Holds
<1> QED
  BY <1>3, <1>4, <1>5, <1>6

LEMMA GetQuerySetPoints ==
  ASSUME TypeInv, HolderInv, PointerInv, NEW p \in Proc, NEW q \in QuerySet,
         NEW context \in Contexts(p), GetQuerySet(p, q, context)
  PROVE  PointerInv'
<1> USE DEF PointerInv
<1>1. PICK c \in Compiler \ made :
         /\ made' = made \union {c} /\ BindContext(q, c, context)
         /\ qs' = [qs EXCEPT ![q] = [compiler |-> c, context |-> context, user |-> p]]
  BY DEF GetQuerySet
<1>2. /\ UNCHANGED <<status, stack, handles>> /\ qs[q].compiler = None
      /\ \A d \in Compiler \ {c} : transaction'[d] = transaction[d]
  BY <1>1 DEF GetQuerySet, BindContext, database, TypeInv, TypeOK
<1>3. /\ qs'[q].compiler = c /\ qs'[q].user = p
      /\ \A x \in QuerySet \ {q} : qs'[x] = qs[x]
  BY <1>1 DEF TypeInv, TypeOK
<1>4. \A x \in QuerySet : qs[x].compiler # c
  BY NoneAssumption DEF TypeInv
<1>5. CompilersKept
  BY <1>1, <1>2, <1>3 DEF CompilersKept
<1>6. UsedAlone'
  <2>1. \A x, y \in QuerySet :
           qs'[x].compiler # None /\ qs'[x].compiler = qs'[y].compiler
              => qs'[x].user = qs'[y].user
    BY <1>3, <1>4 DEF UsedAlone
  <2>2. \A r \in Proc : \A i \in DOMAIN stack[r] :
           stack[r][i].call # "run" => stack[r][i].qs \in QuerySet \ {q}
    BY <1>2, CallsAt, CallCompiler
  <2>3. \A r \in Proc : \A i \in DOMAIN stack'[r] :
           stack'[r][i].call # "run" => qs'[stack'[r][i].qs].user = r
    BY <1>2, <1>3, <2>2 DEF UsedAlone
  <2>4. \A d \in Compiler \ made' : transaction'[d] = Null
    BY <1>1, <1>2 DEF UsedAlone
  <2> QED
    BY <2>1, <2>3, <2>4 DEF UsedAlone
<1>7. \A r \in Proc : \A i \in DOMAIN stack[r] :
         Binds(stack[r][i]) \/ stack[r][i].call # "run" => CompilerOf(stack[r][i]) # c
  <2>1. ASSUME NEW r \in Proc, NEW i \in DOMAIN stack[r], Binds(stack[r][i])
        PROVE  CompilerOf(stack[r][i]) # c
    BY <2>1 DEF CallsPoint, CallPoints
  <2> QED
    BY <2>1, CallsAt, CallCompiler
<1>8. \A h \in handles : Bound(h) # c
  BY DEF HandlesPoint
<1> QED
  BY <1>2, <1>3, <1>5, <1>6, <1>7, <1>8, QuerySetPoints

LEMMA WithContextPoints ==
  ASSUME ~Nested, ~Shared, TypeInv, HolderInv, PointerInv, NEW p \in Proc,
         NEW q \in QuerySet, NEW context \in Contexts(p), WithContext(p, q, context)
  PROVE  PointerInv'
<1> USE DEF PointerInv
<1> DEFINE c == qs[q].compiler
<1>1. /\ CallerRuns(p) /\ c \in made /\ c \in Compiler /\ qs[q].user = p
      /\ ~InTransaction(c) /\ BindContext(q, c, context)
      /\ qs' = [qs EXCEPT ![q].context = context]
      /\ UNCHANGED <<status, made, stack, handles>>
  BY DEF WithContext, Usable, database, TypeInv, TypeOK
<1>2. UsersKept
  BY <1>1 DEF UsersKept, TypeInv, TypeOK, QuerySets
<1>3. \A d \in Compiler \ {c} : transaction'[d] = transaction[d]
  BY <1>1 DEF BindContext, TypeInv, TypeOK
<1>4. CompilersKept
  BY <1>1, <1>2 DEF CompilersKept, UsersKept
<1>5. UsedAlone'
  <2>1. \A r \in Proc : \A i \in DOMAIN stack[r] :
           stack[r][i].call # "run" => stack[r][i].qs \in QuerySet
    BY CallsAt, CallCompiler
  <2> QED
    BY <1>1, <1>2, <1>3, <2>1 DEF UsedAlone, UsersKept
<1>6. /\ \A r \in Proc : \A i \in DOMAIN stack[r] :
            Binds(stack[r][i]) \/ stack[r][i].call # "run" => CompilerOf(stack[r][i]) # c
      /\ \A h \in handles : Bound(h) # c
  BY <1>1, OutsideCalls, CallsAt DEF CallerRuns
<1> HIDE DEF c
<1> QED
  BY <1>1, <1>2, <1>3, <1>4, <1>5, <1>6, QuerySetPoints DEF UsersKept

LEMMA ClonePoints ==
  ASSUME ~Shared, TypeInv, HolderInv, PointerInv, NEW p \in Proc,
         NEW q \in QuerySet, NEW n \in QuerySet, Clone(p, q, n)
  PROVE  PointerInv'
<1> USE DEF PointerInv
<1>1. /\ qs[q].compiler \in made /\ qs[q].user = p /\ qs[n].compiler = None
      /\ qs' = [qs EXCEPT ![n] = [qs[q] EXCEPT !.user = p]]
      /\ UNCHANGED <<status, transaction, made, stack, handles>>
  BY DEF Clone, Usable, database, TypeInv, TypeOK
<1>2. /\ qs'[n].compiler = qs[q].compiler /\ qs'[n].user = p
      /\ \A x \in QuerySet \ {n} : qs'[x] = qs[x]
  BY <1>1 DEF TypeInv, TypeOK, QuerySets
<1>3. CompilersKept
  BY <1>1, <1>2 DEF CompilersKept
<1>4. UsedAlone'
  <2>1. \A r \in Proc : \A i \in DOMAIN stack[r] :
           stack[r][i].call # "run" => stack[r][i].qs \in QuerySet \ {n}
    BY <1>1, CallsAt, CallCompiler
  <2> QED
    BY <1>1, <1>2, <2>1 DEF UsedAlone
<1> QED
  BY <1>1, <1>2, <1>3, <1>4, QuerySetPoints

\* A call is made: the calls around it were running the caller's code.
LEMMA PushPoints ==
  ASSUME TypeInv, HolderInv, PointerInv, NEW p \in Proc, CallerRuns(p),
         NEW f \in LiveFrames, Push(p, f), UNCHANGED <<qs, handles>>,
         made \subseteq made',
         \A d \in Compiler :
            \/ transaction'[d] = transaction[d]
            \/ d \notin made /\ d \in made',
         \A t \in Tx : status'[t] = "open" => status[t] = "open" \/ Holds(f, t),
         \A t \in Tx : status[t] # "unused" /\ status'[t] = "open" => status[t] = "open",
         f.call # "run" => qs[f.qs].user = p,
         NEW n, n = Len(stack[p]) + 1, CallPoints(p, n, f)',
         NEW c, CompilerOf(f)' = c, Binds(f) => c \notin made
  PROVE  PointerInv'
<1> USE DEF PointerInv
<1>1. stack \in [Proc -> Seq(LiveFrames)]
  BY DEF TypeInv
<1>2. /\ n \in Nat /\ DOMAIN stack'[p] = 1..n
      /\ DOMAIN stack[p] = 1..(n - 1)
      /\ \A i \in DOMAIN stack[p] : stack'[p][i] = stack[p][i]
      /\ stack'[p][n] = f
      /\ \A q \in Proc \ {p} : stack'[q] = stack[q]
  BY <1>1, PushAt
<1>3. \A q \in Proc : \A i \in DOMAIN stack[q] :
         Binds(stack[q][i]) \/ stack[q][i].call # "run" => CompilerOf(stack[q][i]) \in made
  <2>1. ASSUME NEW q \in Proc, NEW i \in DOMAIN stack[q], Binds(stack[q][i])
        PROVE  CompilerOf(stack[q][i]) \in made
    BY <2>1 DEF CallsPoint, CallPoints
  <2> QED
    BY <2>1, CallsAt, CallCompiler
<1>4. UsersKept /\ made \subseteq Compiler
  BY DEF UsersKept, TypeInv, TypeOK
<1>5. ASSUME NEW q \in Proc, NEW i \in DOMAIN stack'[q], ~(q = p /\ i = n)
      PROVE  Stays(q, i)
  <2>1. i \in DOMAIN stack[q] /\ stack'[q][i] = stack[q][i]
    BY <1>2, <1>5
  <2>2. stack[q][i].pc # "body" => q # p
    <3>1. ASSUME q = p, stack[p][i].pc # "body"
          PROVE  FALSE
      <4>1. i = n - 1 /\ stack[p] # <<>> /\ n - 1 = Len(stack[p])
        <5>1. stack[p] # <<>>
          <6>1. DOMAIN <<>> = {}
            OBVIOUS
          <6> QED
            BY <2>1, <3>1, <6>1
        <5>2. CallPoints(p, i, stack[p][i]) /\ n - 1 = Len(stack[p])
          BY <2>1, <3>1, CallsAt DEF CallsPoint
        <5> QED
          BY <3>1, <5>1, <5>2 DEF CallPoints
      <4> QED
        BY <3>1, <4>1 DEF CallerRuns, Top
    <3> QED
      BY <3>1
  <2>3. stack[q][i].pc = "bind" => stack[q][i].call # "run"
    BY <2>1, CallsAt, FrameKinds DEF BindFrames
  <2> QED
    BY <1>2, <1>3, <1>4, <2>1, <2>2, <2>3 DEF Stays, InTransaction
<1>6. \A h \in handles' :
         h \in handles /\ Bound(h) \in made /\ transaction'[Bound(h)] = transaction[Bound(h)]
  BY <1>4 DEF HandlesPoint
<1>7. \A d \in Compiler \ made' : transaction'[d] = Null
  BY <1>4 DEF UsedAlone
<1>8. f.call # "run" => f.qs \in QuerySet
  BY CallCompiler
<1>9. Binds(f) => \A q \in Proc : \A i \in DOMAIN stack[q] :
                     Binds(stack[q][i]) \/ Joins(stack[q][i]) => CompilerOf(stack[q][i]) # c
  BY <1>3 DEF Joins
<1>10. Binds(f) => \A h \in handles' : Bound(h) # c
  BY <1>6
<1>11. p \in Proc /\ n \in DOMAIN stack'[p] /\ (\A i \in DOMAIN stack'[p] : i <= n)
       /\ n \notin DOMAIN stack[p]
  BY <1>2
<1>12. OpenIsHeld'
  <2>1. ASSUME NEW t \in Tx, status'[t] = "open", status[t] = "open"
        PROVE  \/ \E q \in Proc : \E i \in DOMAIN stack'[q] : Holds(stack'[q][i], t)
               \/ \E h \in handles' : Holds(h, t)
    <3>1. CASE \E q \in Proc : \E i \in DOMAIN stack[q] : Holds(stack[q][i], t)
      <4>1. PICK q \in Proc : \E i \in DOMAIN stack[q] : Holds(stack[q][i], t)
        BY <3>1
      <4>2. PICK i \in DOMAIN stack[q] : Holds(stack[q][i], t)
        BY <4>1
      <4>3. i \in DOMAIN stack'[q] /\ stack'[q][i] = stack[q][i]
        BY <1>2
      <4> QED
        BY <4>2, <4>3
    <3> QED
      BY <2>1, <3>1 DEF OpenIsHeld
  <2>2. \A t \in Tx : Holds(f, t) =>
           \E q \in Proc : \E i \in DOMAIN stack'[q] : Holds(stack'[q][i], t)
    BY <1>2, <1>11
  <2> QED
    BY <2>1, <2>2 DEF OpenIsHeld, Holds
<1>13. (OpenIsHeld => PointerInv)'
  <2>1. n \in DOMAIN stack'[p] =>
           /\ stack'[p][n] = f /\ CallPoints(p, n, f)' /\ CompilerOf(f)' = c
           /\ f.call # "run" => qs[f.qs].user = p /\ f.qs \in QuerySet
           /\ Binds(f) => \A h \in handles' : Bound(h) # c
           /\ Binds(f) => \A q \in Proc : \A i \in DOMAIN stack[q] :
                 /\ ~(q = p /\ i = n)
                 /\ Binds(stack[q][i]) \/ (Joins(stack[q][i]) /\ q = p /\ i < n)
                 => CompilerOf(stack[q][i]) # c
           /\ Joins(f) => \A i \in DOMAIN stack'[p] : i <= n
    BY <1>2, <1>8, <1>9, <1>10, <1>11
  <2> QED
    BY <1>2, <1>4, <1>5, <1>6, <1>7, <2>1, PointersNext
<1> QED
  BY <1>12, <1>13

LEMMA RunInTransactionPoints ==
  ASSUME TypeInv, HolderInv, PointerInv, NEW p \in Proc,
         NEW context \in Contexts(p), RunInTransaction(p, context)
  PROVE  PointerInv'
<1> USE DEF PointerInv
<1> DEFINE n == Len(stack[p]) + 1
<1>1. /\ CallerRuns(p) /\ UNCHANGED <<qs, handles>>
  BY DEF RunInTransaction, MayCall
<1>2. CASE /\ Push(p, NewFrame("run", "body", None, Null, context))
           /\ UNCHANGED <<database, transaction, made, scopes>>
  <2>1. PICK f : f = NewFrame("run", "body", None, Null, context)
    OBVIOUS
  <2>2. PICK k : k = Len(stack[p]) + 1
    OBVIOUS
  <2>3. PICK c : c = CompilerOf(f)'
    OBVIOUS
  <2>4. /\ f \in LiveFrames /\ f.call = "run" /\ f.pc = "body" /\ f.tx = Null
    <3>1. Null \in Wrapped /\ context \in Wrapped
      BY ContextsType DEF Wrapped
    <3> QED
      BY <2>1, <3>1 DEF NewFrame, LiveFrames, Frames, RunFrames
  <2>5. CallPoints(p, k, f)' /\ ~Binds(f)
    BY <2>4 DEF CallPoints, Binds
  <2>6. UNCHANGED <<status, transaction, made>> /\ Push(p, f)
    BY <1>2, <2>1 DEF database
  <2> QED
    BY <1>1, <2>2, <2>3, <2>4, <2>5, <2>6, PushPoints
<1>3. ASSUME NEW t \in Tx, NEW c \in Compiler \ made, Begin(t), made' = made \union {c},
             NEW w, w = Wrap(Bare(t), c), transaction' = [transaction EXCEPT ![c] = w],
             Push(p, NewFrame("run", "body", None, w, w))
      PROVE  PointerInv'
  <2>1. PICK f : f = NewFrame("run", "body", None, w, w)
    OBVIOUS
  <2>2. PICK k : k = Len(stack[p]) + 1
    OBVIOUS
  <2>3. w \in Wrapped /\ w.sql = t /\ w # Null /\ w.chain = <<c>>
    <3>1. Bare(t) \in Begun /\ Bare(t).sql = t
      BY EmptySeq DEF Begun, Bare
    <3> QED
      BY <1>3, <3>1, BegunType, SqlOf
  <2>4. /\ f \in LiveFrames /\ f.call = "run" /\ f.pc = "body" /\ f.tx = w
    BY <2>1, <2>3 DEF NewFrame, LiveFrames, Frames, RunFrames
  <2>5. CompilerOf(f)' = c /\ Bound(f) = c
    BY <2>3, <2>4 DEF CompilerOf, Bound
  <2>6. \A q \in QuerySet : qs'[q].compiler # c
    BY <1>1, <1>3, NoneAssumption DEF TypeInv
  <2>7. transaction'[c] = w /\ \A d \in Compiler \ {c} : transaction'[d] = transaction[d]
    BY <1>3 DEF TypeInv, TypeOK
  <2>8. CallPoints(p, k, f)'
    BY <1>3, <2>3, <2>4, <2>5, <2>6, <2>7 DEF CallPoints, Binds
  <2>9. \A u \in Tx : u # t => status'[u] = status[u]
    BY <1>3 DEF Begin, TypeInv, TypeOK
  <2>10. status[t] = "unused" /\ Holds(f, t)
    BY <1>3, <2>3, <2>4 DEF Begin, Holds
  <2>11. Push(p, f)
    BY <1>3, <2>1
  <2> QED
    BY <1>1, <1>3, <2>2, <2>4, <2>5, <2>7, <2>8, <2>9, <2>10, <2>11, PushPoints
<1> QED
  BY <1>2, <1>3 DEF RunInTransaction

LEMMA StartPoints ==
  ASSUME ~Nested, ~Shared, TypeInv, HolderInv, PointerInv, NEW p \in Proc,
         NEW q \in QuerySet, StartTransaction(p, q) \/ StartWrite(p, q)
  PROVE  PointerInv'
<1> USE DEF PointerInv
<1>1. /\ CallerRuns(p) /\ qs[q].user = p
      /\ qs[q].compiler \in made /\ qs[q].compiler \in Compiler
      /\ UNCHANGED <<transaction, made, qs, handles>>
      /\ \/ /\ InTransaction(qs[q].compiler) /\ UNCHANGED database
            /\ Push(p, NewFrame("write", "body", q, Null, Null))
         \/ /\ ~InTransaction(qs[q].compiler)
            /\ \E t \in Tx, call \in {"write", "start"} :
                  Begin(t) /\ Push(p, NewFrame(call, "bind", q, Bare(t), Null))
  BY DEF StartTransaction, StartWrite, MayCall, Usable, TypeInv, TypeOK
<1>2. PICK c : c = qs[q].compiler
  OBVIOUS
<1>3. c \in Compiler /\ c \in made /\ c # None /\ qs'[q].compiler = c
  BY <1>1, <1>2, NoneAssumption DEF TypeInv, TypeOK
<1>4. CASE /\ InTransaction(c) /\ UNCHANGED database
           /\ Push(p, NewFrame("write", "body", q, Null, Null))
  <2>1. PICK f : f = NewFrame("write", "body", q, Null, Null)
    OBVIOUS
  <2>2. PICK k : k = Len(stack[p]) + 1
    OBVIOUS
  <2>3. f \in LiveFrames /\ f.call = "write" /\ f.pc = "body" /\ f.tx = Null /\ f.qs = q
    <3>1. Null \in Wrapped
      BY DEF Wrapped
    <3> QED
      BY <1>1, <2>1, <3>1 DEF NewFrame, LiveFrames, Frames, WriteFrames
  <2>4. CompilerOf(f)' = c
    BY <1>3, <2>3 DEF CompilerOf
  <2>5. CallPoints(p, k, f)' /\ ~Binds(f)
    BY <1>1, <1>4, <2>3, <2>4 DEF CallPoints, Binds, InTransaction
  <2>6. UNCHANGED status /\ Push(p, f)
    BY <1>4, <2>1 DEF database
  <2> QED
    BY <1>1, <2>2, <2>3, <2>4, <2>5, <2>6, PushPoints
<1>5. ASSUME NEW t \in Tx, NEW call \in {"write", "start"}, ~InTransaction(c), Begin(t),
             Push(p, NewFrame(call, "bind", q, Bare(t), Null))
      PROVE  PointerInv'
  <2>1. PICK f : f = NewFrame(call, "bind", q, Bare(t), Null)
    OBVIOUS
  <2>2. PICK k : k = Len(stack[p]) + 1
    OBVIOUS
  <2>3. /\ f \in LiveFrames /\ f.call # "run" /\ f.pc = "bind" /\ f.tx = Bare(t) /\ f.qs = q
        /\ f.tx.sql = t
    <3>1. Bare(t) \in Begun /\ Bare(t).sql = t
      BY EmptySeq DEF Begun, Bare
    <3> QED
      BY <1>1, <2>1, <3>1 DEF NewFrame, LiveFrames, Frames, BindFrames
  <2>4. CompilerOf(f)' = c
    BY <1>3, <2>3 DEF CompilerOf
  <2>5. Len(stack'[p]) = k
    BY <1>5, <2>1, <2>2, <2>3, PushAt DEF TypeInv
  <2>6. CallPoints(p, k, f)' /\ ~Binds(f)
    BY <1>1, <1>5, <2>3, <2>4, <2>5 DEF CallPoints, Binds, InTransaction
  <2>7. \A u \in Tx : u # t => status'[u] = status[u]
    BY <1>5 DEF Begin, TypeInv, TypeOK
  <2>8. status[t] = "unused" /\ Holds(f, t) /\ Push(p, f)
    BY <1>5, <2>1, <2>3 DEF Begin, Holds
  <2> QED
    BY <1>1, <2>2, <2>3, <2>4, <2>6, <2>7, <2>8, PushPoints
<1> QED
  BY <1>1, <1>2, <1>4, <1>5

\* The end of what a call holds clears the compiler of the call and ends the
\* transaction, whether a Commit came before or not.
LEMMA EndOfCall ==
  ASSUME TypeInv, HolderInv, PointerInv, NEW p \in Proc, NEW n \in DOMAIN stack[p],
         NEW f, f = stack[p][n], f.pc # "bind",
         (\E err \in BOOLEAN : Commit(f.tx, err)) \/ Rollback(f.tx)
  PROVE  /\ \A d \in Compiler : transaction'[d] =
               IF Binds(f) /\ d = CompilerOf(f) THEN Null ELSE transaction[d]
         /\ \A t \in Tx : status'[t] = "open" => status[t] = "open" /\ ~Holds(f, t)
<1> USE DEF PointerInv
<1>1. f.tx \in Wrapped /\ f \in Frames /\ CallPoints(p, n, f)
  BY CallsAt DEF CallsPoint
<1>2. CASE f.tx = Null
  <2>1. Unbound(f.tx) = {} /\ f.tx.sql = None
    BY <1>2 DEF Null, Unbound, Reached
  <2>2. status' = status /\ \A d \in Compiler : transaction'[d] = transaction[d]
    BY <2>1 DEF Commit, Rollback, ReachesOpen, Unbind
  <2> QED
    BY <1>2, <2>1, <2>2, NoneAssumption DEF Holds, Binds
<1>3. CASE f.tx # Null
  <2>1. PICK c : c = CompilerOf(f)
    OBVIOUS
  <2>2. Binds(f) /\ c \in Compiler /\ f.tx.chain = <<c>>
    BY <1>1, <1>3, <2>1 DEF Binds, CallPoints, TypeInv, TypeOK
  <2>3. f.pc = "body" \/ status[f.tx.sql] = "open" => transaction[c] = f.tx
    BY <1>1, <2>1, <2>2 DEF CallPoints
  <2>4. PICK w \in Wrapped : w = f.tx
    BY <1>1
  <2>5. /\ \A d \in Compiler :
               transaction'[d] = IF w # Null /\ d = c THEN Null ELSE transaction[d]
        /\ \A t \in Tx : status'[t] = "open" => status[t] = "open"
        /\ w # Null /\ transaction[c] # Null => status'[w.sql] # "open"
    <3>1. w = Null \/ w.chain = <<c>>
      BY <2>2, <2>4
    <3>2. (\E err \in BOOLEAN : Commit(w, err)) \/ Rollback(w)
      BY <2>4
    <3> QED
      BY <2>2, <3>1, <3>2, EndPoints
  <2>6. \A t \in Tx : status'[t] = "open" => ~Holds(f, t)
    BY <1>3, <2>3, <2>4, <2>5 DEF Holds
  <2> QED
    BY <1>3, <2>1, <2>2, <2>4, <2>5, <2>6
<1> QED
  BY <1>2, <1>3

\* Nobody else works with the compiler that the innermost call bound.
LEMMA BindsAlone ==
  ASSUME TypeInv, PointerInv, NEW p \in Proc, NEW n \in DOMAIN stack[p],
         \A i \in DOMAIN stack[p] : i <= n, NEW f, f = stack[p][n], Binds(f),
         NEW q \in Proc, NEW i \in DOMAIN stack[q], NEW g, g = stack[q][i],
         ~(q = p /\ i = n), Binds(g) \/ (g.call = "write" /\ g.pc = "body")
  PROVE  CompilerOf(g) # CompilerOf(f)
<1> USE DEF PointerInv
<1> SUFFICES ASSUME CompilerOf(g) = CompilerOf(f) PROVE FALSE
  OBVIOUS
<1>1. ~Binds(g)
  BY DEF CallsApart
<1>2. Joins(g) /\ g.call # "run"
  BY <1>1 DEF Binds, Joins
<1>3. g.qs \in QuerySet /\ qs[g.qs].compiler = CompilerOf(f) /\ qs[g.qs].compiler # None
  BY <1>2, CallsAt, CallCompiler
<1>4. f.call # "run"
  BY <1>3 DEF CallsPoint, CallPoints
<1>5. f.qs \in QuerySet /\ qs[f.qs].compiler = CompilerOf(f)
  BY <1>4, CallsAt, CallCompiler
<1>6. q = p
  BY <1>2, <1>3, <1>4, <1>5 DEF UsedAlone
<1>7. n < i /\ i <= n
  BY <1>2, <1>6 DEF JoinsInside
<1> QED
  BY <1>7, CallsAt

\* A call ends what it holds and is over, or is about to return.
LEMMA EndsPoints ==
  ASSUME TypeInv, HolderInv, PointerInv, NEW p \in Proc, stack[p] # <<>>,
         NEW f, f = Top(p), f.pc # "bind",
         (\E err \in BOOLEAN : Commit(f.tx, err)) \/ Rollback(f.tx),
         \/ Pop(p)
         \/ f.call = "write" /\ f.pc = "body" /\ SetTop(p, [f EXCEPT !.pc = "return"]),
         UNCHANGED <<made, qs, handles>>
  PROVE  PointerInv'
<1> USE DEF PointerInv
<1>1. PICK n : n = Len(stack[p])
  OBVIOUS
<1>2. /\ n \in DOMAIN stack[p] /\ f = stack[p][n] /\ n \in Nat /\ f \in Frames
      /\ DOMAIN stack[p] = 1..n /\ CallPoints(p, n, f)
  BY <1>1, CallsAt DEF CallsPoint
<1>3. /\ \A d \in Compiler : transaction'[d] =
            IF Binds(f) /\ d = CompilerOf(f) THEN Null ELSE transaction[d]
      /\ \A t \in Tx : status'[t] = "open" => status[t] = "open" /\ ~Holds(f, t)
  BY <1>2, EndOfCall
<1>s. stack \in [Proc -> Seq(LiveFrames)]
  BY DEF TypeInv
<1> DEFINE g == [f EXCEPT !.pc = "return"]
<1>4. /\ \A q \in Proc : \A i \in DOMAIN stack'[q] : ~(q = p /\ i = n) =>
            i \in DOMAIN stack[q] /\ stack'[q][i] = stack[q][i]
      /\ \A q \in Proc \ {p} : stack'[q] = stack[q]
      /\ \A i \in DOMAIN stack'[p] : i <= n
      /\ \A q \in Proc : \A i \in DOMAIN stack[q] : ~(q = p /\ i = n) =>
            i \in DOMAIN stack'[q]
      /\ n \in DOMAIN stack'[p] => /\ stack'[p][n] = g /\ Len(stack'[p]) = n
                                   /\ f.call = "write" /\ f.pc = "body"
  <2>1. CASE Pop(p)
    <3>1. DOMAIN stack'[p] = 1..(n - 1)
      BY <1>1, <1>s, <2>1, PopAt
    <3>2. /\ \A i \in DOMAIN stack'[p] : stack'[p][i] = stack[p][i]
          /\ \A q \in Proc \ {p} : stack'[q] = stack[q]
      BY <1>s, <2>1, PopAt
    <3> QED
      BY <1>2, <3>1, <3>2
  <2>2. CASE f.call = "write" /\ f.pc = "body" /\ SetTop(p, g)
    <3>1. /\ DOMAIN stack'[p] = DOMAIN stack[p] /\ Len(stack'[p]) = n
          /\ \A i \in DOMAIN stack[p] \ {n} : stack'[p][i] = stack[p][i]
          /\ stack'[p][n] = g
          /\ \A q \in Proc \ {p} : stack'[q] = stack[q]
      BY <1>1, <1>s, <2>2, SetTopAt
    <3> QED
      BY <1>2, <2>2, <3>1
  <2> QED
    BY <2>1, <2>2
<1>5. UsersKept /\ made \subseteq Compiler
  BY DEF UsersKept, TypeInv, TypeOK
<1>6. ASSUME NEW q \in Proc, NEW i \in DOMAIN stack[q], ~(q = p /\ i = n),
             Binds(stack[q][i]) \/ stack[q][i].call # "run"
      PROVE  CompilerOf(stack[q][i]) \in Compiler
  <2>1. Binds(stack[q][i]) => CompilerOf(stack[q][i]) \in made
    BY DEF CallsPoint, CallPoints
  <2> QED
    BY <1>5, <1>6, <2>1, CallsAt, CallCompiler
<1>7. ASSUME NEW q \in Proc, NEW i \in DOMAIN stack'[q], ~(q = p /\ i = n)
      PROVE  Stays(q, i)
  <2>1. PICK h : h = stack[q][i]
    OBVIOUS
  <2>2. i \in DOMAIN stack[q] /\ stack'[q][i] = h /\ h \in Frames
    BY <1>4, <1>7, <2>1, CallsAt
  <2>3. h.pc # "body" => Len(stack'[q]) = Len(stack[q])
    BY <1>1, <1>4, <1>7, <2>1, <2>2 DEF CallsPoint, CallPoints
  <2>4. Binds(h) \/ (h.call = "write" /\ h.pc = "body") =>
           transaction'[CompilerOf(h)] = transaction[CompilerOf(h)]
    <3>1. ASSUME Binds(h) \/ (h.call = "write" /\ h.pc = "body"), Binds(f)
          PROVE  CompilerOf(h) # CompilerOf(f)
      BY <1>2, <1>7, <2>1, <2>2, <3>1, BindsAlone
    <3> QED
      BY <1>3, <1>6, <1>7, <2>1, <2>2, <3>1
  <2>5. h.pc = "bind" /\ transaction'[CompilerOf(h)].sql # None => InTransaction(CompilerOf(h))
    <3>1. h.pc = "bind" => h.call # "run"
      BY <2>2, FrameKinds DEF BindFrames
    <3> QED
      BY <1>3, <1>6, <1>7, <2>1, <2>2, <3>1 DEF InTransaction, Null
  <2> QED
    BY <2>1, <2>2, <2>3, <2>4, <2>5 DEF Stays
<1>8. \A h \in handles' : h \in handles /\ transaction'[Bound(h)] = transaction[Bound(h)]
  <2>1. \A h \in handles : Binds(f) => CompilerOf(f) # Bound(h)
    BY <1>2 DEF HandlesApart
  <2>2. \A h \in handles : Bound(h) \in Compiler
    BY <1>5 DEF HandlesPoint
  <2> QED
    BY <1>3, <2>1, <2>2
<1>9. \A d \in Compiler \ made' : transaction'[d] = Null
  BY <1>3 DEF UsedAlone
<1>10. PICK c : c = CompilerOf(f)
  OBVIOUS
<1>11. n \in DOMAIN stack'[p] =>
          /\ g.call = "write" /\ g.pc = "return" /\ g.tx = f.tx /\ g.qs = f.qs
          /\ f.qs \in QuerySet /\ qs[f.qs].user = p /\ CompilerOf(f) = qs[f.qs].compiler
  <2>1. f.call = "write" => g.call = "write" /\ g.pc = "return" /\ g.tx = f.tx /\ g.qs = f.qs
    BY <1>2 DEF Frames, RunFrames, BindFrames, WriteFrames
  <2> QED
    BY <1>2, <1>4, <2>1, CallsAt, CallCompiler DEF UsedAlone
<1>12. n \in DOMAIN stack'[p] =>
          /\ CompilerOf(g)' = c
          /\ g.call # "run" /\ qs[g.qs].user = p /\ g.qs \in QuerySet
          /\ ~Joins(g) /\ (Binds(g) => Binds(f))
          /\ stack'[p][n] = g
  BY <1>4, <1>10, <1>11 DEF CompilerOf, Joins, Binds
<1>13. ASSUME NEW k, k = g, n \in DOMAIN stack'[p]
       PROVE  CallPoints(p, n, k)' /\ CompilerOf(k)' = c
  <2>1. /\ k.call = "write" /\ k.pc = "return" /\ k.tx = f.tx /\ k.qs = f.qs
        /\ qs'[k.qs].compiler = c /\ Len(stack'[p]) = n
    BY <1>4, <1>10, <1>11, <1>13
  <2>2. CompilerOf(k)' = c
    BY <2>1 DEF CompilerOf
  <2>3. Binds(k) => /\ Binds(f) /\ c \in Compiler /\ c \in made /\ f.tx.chain = <<c>>
                    /\ transaction'[c] = Null /\ f.tx.sql \in Tx
    <3>1. Binds(k) => Binds(f) /\ c \in made /\ f.tx.chain = <<c>>
      BY <1>2, <1>4, <1>10, <1>13, <2>1 DEF Binds, CallPoints
    <3> QED
      BY <1>2, <1>3, <1>5, <1>10, <3>1, SqlOf, FrameKinds DEF Binds
  <2>4. Binds(k) => status'[k.tx.sql] # "open"
    BY <1>3, <2>1, <2>3 DEF Holds
  <2> QED
    BY <2>1, <2>2, <2>3, <2>4 DEF CallPoints
<1>14. Binds(f) => \A q \in Proc : \A i \in DOMAIN stack[q] :
          /\ ~(q = p /\ i = n)
          /\ Binds(stack[q][i]) \/ (Joins(stack[q][i]) /\ q = p /\ i < n)
          => CompilerOf(stack[q][i]) # c
  BY <1>2, <1>10, BindsAlone DEF Joins
<1>15. Binds(f) => \A h \in handles' : Bound(h) # c
  BY <1>2, <1>10 DEF HandlesApart
<1>16. OpenIsHeld'
  <2>1. ASSUME NEW t \in Tx, status'[t] = "open"
        PROVE  \/ \E q \in Proc : \E i \in DOMAIN stack'[q] : Holds(stack'[q][i], t)
               \/ \E h \in handles' : Holds(h, t)
    <3>1. status[t] = "open" /\ ~Holds(f, t)
      BY <1>3, <2>1
    <3>2. ASSUME NEW q \in Proc, NEW i \in DOMAIN stack[q], Holds(stack[q][i], t)
          PROVE  i \in DOMAIN stack'[q] /\ stack'[q][i] = stack[q][i]
      BY <1>2, <1>4, <3>1, <3>2
    <3>3. CASE \E q \in Proc : \E i \in DOMAIN stack[q] : Holds(stack[q][i], t)
      <4>1. PICK q \in Proc : \E i \in DOMAIN stack[q] : Holds(stack[q][i], t)
        BY <3>3
      <4>2. PICK i \in DOMAIN stack[q] : Holds(stack[q][i], t)
        BY <4>1
      <4> QED
        BY <3>2, <4>2
    <3> QED
      BY <3>1, <3>3 DEF OpenIsHeld
  <2> QED
    BY <2>1 DEF OpenIsHeld, Holds
<1>17. (OpenIsHeld => PointerInv)'
  <2>1. PICK k : k = g
    OBVIOUS
  <2>2. n \in DOMAIN stack'[p] =>
           /\ stack'[p][n] = k /\ CallPoints(p, n, k)' /\ CompilerOf(k)' = c
           /\ k.call # "run" => qs[k.qs].user = p /\ k.qs \in QuerySet
           /\ Binds(k) => \A h \in handles' : Bound(h) # c
           /\ Binds(k) => \A q \in Proc : \A i \in DOMAIN stack[q] :
                 /\ ~(q = p /\ i = n)
                 /\ Binds(stack[q][i]) \/ (Joins(stack[q][i]) /\ q = p /\ i < n)
                 => CompilerOf(stack[q][i]) # c
           /\ Joins(k) => \A i \in DOMAIN stack'[p] : i <= n
    <3> HIDE DEF g
    <3> QED
      BY <1>12, <1>13, <1>14, <1>15, <2>1
  <2> QED
    BY <1>2, <1>3, <1>5, <1>7, <1>8, <1>9, <2>2, PointersNext
<1> QED
  BY <1>16, <1>17

LEMMA WriteFailsPoints ==
  ASSUME TypeInv, HolderInv, PointerInv, NEW p \in Proc, WriteFails(p)
  PROVE  PointerInv'
<1> USE DEF PointerInv
<1>s. stack \in [Proc -> Seq(LiveFrames)]
  BY DEF TypeInv
<1>1. PICK n, f, g : n = Len(stack[p]) /\ f = stack[p][n] /\ g = [f EXCEPT !.pc = "return"]
  OBVIOUS
<1>2. /\ stack[p] # <<>> /\ n \in DOMAIN stack[p] /\ n \in Nat /\ DOMAIN stack[p] = 1..n
      /\ f \in LiveFrames /\ f \in Frames /\ f.call = "write" /\ f.pc = "body"
      /\ SetTop(p, g) /\ UNCHANGED <<status, transaction, made, qs, handles>>
  BY <1>1, CallsAt DEF WriteFails, InCall, database
<1>3. g.call = "write" /\ g.pc = "return" /\ g.tx = f.tx /\ g.qs = f.qs
  BY <1>1, <1>2 DEF Frames, RunFrames, BindFrames, WriteFrames
<1>4. /\ DOMAIN stack'[p] = DOMAIN stack[p] /\ Len(stack'[p]) = n /\ stack'[p][n] = g
      /\ \A i \in DOMAIN stack[p] \ {n} : stack'[p][i] = stack[p][i]
      /\ \A q \in Proc \ {p} : stack'[q] = stack[q]
  BY <1>1, <1>2, <1>s, SetTopAt
<1>5. PICK c : c = qs[f.qs].compiler
  OBVIOUS
<1>6. CompilerOf(f) = c /\ CompilerOf(g)' = c /\ f.qs \in QuerySet /\ qs[f.qs].user = p
  BY <1>1, <1>2, <1>3, <1>5, CallCompiler DEF CompilerOf, UsedAlone
<1>7. CallPoints(p, n, f)
  BY <1>1, <1>2 DEF CallsPoint
<1>8. CallPoints(p, n, g)'
  BY <1>2, <1>3, <1>4, <1>6, <1>7 DEF CallPoints, Binds
<1>9. \A q \in Proc : \A i \in DOMAIN stack'[q] : (q = p /\ i = n) \/ Stays(q, i)
  <2>1. ASSUME NEW q \in Proc, NEW i \in DOMAIN stack'[q], ~(q = p /\ i = n)
        PROVE  Stays(q, i)
    BY <1>1, <1>2, <1>4, <2>1 DEF Stays, InTransaction
  <2> QED
    BY <2>1
<1>10. Binds(g) => /\ \A h \in handles' : Bound(h) # c
                   /\ \A q \in Proc : \A i \in DOMAIN stack[q] :
                        /\ ~(q = p /\ i = n)
                        /\ Binds(stack[q][i]) \/ (Joins(stack[q][i]) /\ q = p /\ i < n)
                        => CompilerOf(stack[q][i]) # c
  <2>1. Binds(g) => Binds(f)
    BY <1>2, <1>3 DEF Binds
  <2>2. Binds(f) => \A h \in handles' : Bound(h) # c
    BY <1>1, <1>2, <1>6 DEF HandlesApart
  <2>3. \A i \in DOMAIN stack[p] : i <= n
    BY <1>2
  <2> QED
    BY <1>1, <1>2, <1>6, <2>1, <2>2, <2>3, BindsAlone DEF Joins
<1>11. OpenIsHeld'
  <2>1. ASSUME NEW q \in Proc, NEW i \in DOMAIN stack[q], NEW t, Holds(stack[q][i], t)
        PROVE  i \in DOMAIN stack'[q] /\ Holds(stack'[q][i], t)
    BY ZenonT(60), <1>1, <1>3, <1>4, <2>1 DEF Holds
  <2> QED
    BY <1>2, <2>1 DEF OpenIsHeld, Holds
<1>12. UsersKept /\ made \subseteq made'
  BY <1>2 DEF UsersKept
<1>13. \A d \in Compiler \ made' : transaction'[d] = Null
  BY <1>2 DEF UsedAlone
<1>14. n \in DOMAIN stack'[p] =>
           /\ stack'[p][n] = g /\ CallPoints(p, n, g)' /\ CompilerOf(g)' = c
           /\ g.call # "run" => qs[g.qs].user = p /\ g.qs \in QuerySet
           /\ Binds(g) => \A h \in handles' : Bound(h) # c
           /\ Binds(g) => \A q \in Proc : \A i \in DOMAIN stack[q] :
                 /\ ~(q = p /\ i = n)
                 /\ Binds(stack[q][i]) \/ (Joins(stack[q][i]) /\ q = p /\ i < n)
                 => CompilerOf(stack[q][i]) # c
           /\ Joins(g) => \A i \in DOMAIN stack'[p] : i <= n
  BY <1>3, <1>4, <1>6, <1>8, <1>10 DEF Joins
<1>15. (OpenIsHeld => PointerInv)'
  BY <1>2, <1>9, <1>12, <1>13, <1>14, PointersNext
<1> QED
  BY <1>11, <1>15

\* The new transaction of a write or of StartTransaction is bound to a compiler
\* that nobody works with but this call.
LEMMA BindTransactionPoints ==
  ASSUME ~Nested, TypeInv, HolderInv, PointerInv, NEW p \in Proc, BindTransaction(p)
  PROVE  PointerInv'
<1> USE DEF PointerInv
<1>s. stack \in [Proc -> Seq(LiveFrames)]
  BY DEF TypeInv
<1>1. PICK n, f, c, w : /\ n = Len(stack[p]) /\ f = stack[p][n]
                        /\ c = qs[f.qs].compiler /\ w = Wrap(f.tx, c)
  OBVIOUS
<1>2. /\ stack[p] # <<>> /\ n \in DOMAIN stack[p] /\ n \in Nat /\ DOMAIN stack[p] = 1..n
      /\ f = Top(p) /\ f \in LiveFrames /\ f.pc = "bind" /\ f \in BindFrames
  BY <1>1, CallsAt, FrameKinds DEF BindTransaction
<1>3. /\ f.call # "run" /\ f.qs \in QuerySet /\ CompilerOf(f) = c
      /\ c \in made /\ c \in Compiler /\ qs[f.qs].user = p
  <2>1. f.call # "run"
    BY <1>2 DEF BindFrames
  <2>2. qs[f.qs].user = p
    BY <1>1, <1>2, <2>1 DEF UsedAlone
  <2> QED
    BY <1>1, <1>2, <2>1, <2>2, CallCompiler
<1>4. ~InTransaction(c) /\ CallPoints(p, n, f)
  <2>1. CallPoints(p, n, f)
    BY <1>1, <1>2 DEF CallsPoint
  <2> QED
    BY <1>2, <1>3, <2>1 DEF CallPoints
<1>5. /\ transaction' = [transaction EXCEPT ![c] = w]
      /\ qs' = [qs EXCEPT ![f.qs].context = w]
      /\ UNCHANGED <<status, made>>
      /\ \/ /\ f.call = "write"
            /\ SetTop(p, [f EXCEPT !.pc = "body", !.tx = w])
            /\ UNCHANGED handles
         \/ /\ f.call = "start"
            /\ Pop(p)
            /\ handles' = handles \union {[tx |-> w, began |-> TRUE, user |-> p]}
  BY <1>1, <1>2, <1>4 DEF BindTransaction, database
<1>6. w \in Wrapped /\ w # Null /\ w.sql = f.tx.sql /\ w.chain = <<c>> /\ w.sql # None
  <2>1. f.tx \in Begun
    BY <1>2 DEF BindFrames
  <2> QED
    BY <1>1, <1>3, <2>1, BegunType, SqlOf
<1>7. transaction'[c] = w /\ \A d \in Compiler \ {c} : transaction'[d] = transaction[d]
  BY <1>3, <1>5 DEF TypeInv, TypeOK
<1>8. UsersKept /\ made \subseteq made' /\ made \subseteq Compiler
  BY <1>3, <1>5 DEF UsersKept, TypeInv, TypeOK, QuerySets
<1>9. /\ \A q \in Proc : \A i \in DOMAIN stack[q] :
            /\ ~(q = p /\ i = n)
            /\ Binds(stack[q][i]) \/ stack[q][i].call # "run"
            => CompilerOf(stack[q][i]) # c
      /\ \A h \in handles : Bound(h) # c
  <2> DEFINE Others == \A q \in Proc : \A i \in DOMAIN stack[q] :
                          /\ Binds(stack[q][i]) \/ stack[q][i].call # "run"
                          /\ CompilerOf(stack[q][i]) = c
                          => q = p /\ i = Len(stack[p]) /\ stack[q][i].pc # "body"
  <2> HIDE DEF PointerInv
  <2>1. f.qs \in QuerySet /\ qs[f.qs].compiler = c /\ c \in Compiler /\ qs[f.qs].user = p
        /\ ~InTransaction(c)
    <3>1. qs[f.qs].compiler = c
      BY <1>1
    <3> QED
      BY <1>3, <1>4, <3>1
  <2>2. Others /\ \A h \in handles : Bound(h) # c
    BY <2>1, OutsideCalls
  <2>3. Len(stack[p]) = n
    BY <1>1
  <2> QED
    BY <2>2, <2>3
<1>10. \A d \in Compiler \ made' : transaction'[d] = Null
  BY <1>3, <1>5, <1>7 DEF UsedAlone
<1>11. ASSUME NEW q \in Proc, NEW i \in DOMAIN stack[q], ~(q = p /\ i = n),
              i \in DOMAIN stack'[q], stack'[q][i] = stack[q][i],
              q = p \/ Len(stack'[q]) = Len(stack[q])
       PROVE  Stays(q, i)
  <2>1. PICK h : h = stack[q][i]
    OBVIOUS
  <2>2. CallPoints(q, i, h) /\ h \in Frames /\ h \in LiveFrames
    BY <2>1, CallsAt DEF CallsPoint
  <2>3. h.pc # "body" => Len(stack'[q]) = Len(stack[q])
    BY <1>1, <1>11, <2>2 DEF CallPoints
  <2>4. Binds(h) \/ h.call # "run" =>
           /\ CompilerOf(h) \in Compiler /\ CompilerOf(h) # c
           /\ transaction'[CompilerOf(h)] = transaction[CompilerOf(h)]
    <3>1. Binds(h) \/ h.call # "run" => CompilerOf(h) \in Compiler
      BY <1>8, <2>2, CallCompiler DEF CallPoints
    <3> QED
      BY <1>7, <1>9, <1>11, <2>1, <3>1
  <2>5. h.pc = "bind" => h.call # "run"
    BY <2>2, FrameKinds DEF BindFrames
  <2> QED
    BY <1>11, <2>1, <2>3, <2>4, <2>5 DEF Stays, InTransaction
<1>12. \A h \in handles : Bound(h) \in made /\ transaction'[Bound(h)] = transaction[Bound(h)]
  BY <1>7, <1>8, <1>9 DEF HandlesPoint
<1>13. CASE /\ f.call = "write" /\ SetTop(p, [f EXCEPT !.pc = "body", !.tx = w])
            /\ UNCHANGED handles
  <2>1. PICK g : g = [f EXCEPT !.pc = "body", !.tx = w]
    OBVIOUS
  <2>2. g.call = "write" /\ g.pc = "body" /\ g.tx = w /\ g.qs = f.qs
    BY <1>2, <1>13, <2>1 DEF BindFrames
  <2>3. /\ DOMAIN stack'[p] = DOMAIN stack[p] /\ Len(stack'[p]) = n /\ stack'[p][n] = g
        /\ \A i \in DOMAIN stack[p] \ {n} : stack'[p][i] = stack[p][i]
        /\ \A q \in Proc \ {p} : stack'[q] = stack[q]
    BY <1>1, <1>2, <1>13, <1>s, <2>1, SetTopAt
  <2>4. CompilerOf(g)' = c
    BY <1>1, <1>3, <1>8, <2>2 DEF CompilerOf, UsersKept
  <2>5. CallPoints(p, n, g)'
    BY <1>3, <1>5, <1>6, <1>7, <2>2, <2>4 DEF CallPoints, InTransaction
  <2>6. \A q \in Proc : \A i \in DOMAIN stack'[q] : (q = p /\ i = n) \/ Stays(q, i)
    BY <1>1, <1>11, <2>3
  <2>7. n \in DOMAIN stack'[p] =>
           /\ stack'[p][n] = g /\ CallPoints(p, n, g)' /\ CompilerOf(g)' = c
           /\ g.call # "run" => qs[g.qs].user = p /\ g.qs \in QuerySet
           /\ Binds(g) => \A h \in handles' : Bound(h) # c
           /\ Binds(g) => \A q \in Proc : \A i \in DOMAIN stack[q] :
                 /\ ~(q = p /\ i = n)
                 /\ Binds(stack[q][i]) \/ (Joins(stack[q][i]) /\ q = p /\ i < n)
                 => CompilerOf(stack[q][i]) # c
           /\ Joins(g) => \A i \in DOMAIN stack'[p] : i <= n
    BY <1>2, <1>3, <1>9, <1>13, <2>2, <2>3, <2>4, <2>5 DEF Joins
  <2>8. (OpenIsHeld => PointerInv)'
    BY <1>2, <1>5, <1>8, <1>10, <1>12, <1>13, <2>6, <2>7, PointersNext
  <2>9. OpenIsHeld'
    <3>1. ASSUME NEW q \in Proc, NEW i \in DOMAIN stack[q], NEW t, Holds(stack[q][i], t)
          PROVE  i \in DOMAIN stack'[q] /\ Holds(stack'[q][i], t)
      BY <1>1, <1>6, <2>2, <2>3, <3>1 DEF Holds
    <3> QED
      BY <1>5, <1>13, <3>1 DEF OpenIsHeld, Holds
  <2> QED
    BY <2>8, <2>9
<1>14. CASE /\ f.call = "start" /\ Pop(p)
            /\ handles' = handles \union {[tx |-> w, began |-> TRUE, user |-> p]}
  <2>1. PICK k : k = [tx |-> w, began |-> TRUE, user |-> p]
    OBVIOUS
  <2>2. /\ handles' = handles \union {k} /\ k.tx = w /\ k.user = p /\ Bound(k) = c
    BY <1>6, <1>14, <2>1 DEF Bound
  <2>3. /\ DOMAIN stack'[p] = 1..(n - 1)
        /\ \A i \in DOMAIN stack'[p] : stack'[p][i] = stack[p][i]
        /\ \A q \in Proc \ {p} : stack'[q] = stack[q]
    BY <1>1, <1>2, <1>14, <1>s, PopAt
  <2>4. \A q \in Proc : \A i \in DOMAIN stack'[q] :
           /\ i \in DOMAIN stack[q] /\ stack'[q][i] = stack[q][i] /\ ~(q = p /\ i = n)
           /\ q = p \/ Len(stack'[q]) = Len(stack[q])
    BY <1>2, <2>3
  <2>5. \A q \in Proc : \A i \in DOMAIN stack'[q] : Stays(q, i)
    BY <1>11, <2>4
  <2>6. CompilersKept
    BY <1>8 DEF CompilersKept, UsersKept
  <2>7. n \notin DOMAIN stack'[p]
    BY <1>2, <2>3
  <2>8. /\ CallsPoint' /\ CallsApart' /\ JoinsInside'
        /\ \A q \in Proc : \A i \in DOMAIN stack'[q] : \A g :
              g = stack'[q][i] /\ Binds(g) /\ ~(q = p /\ i = n) =>
                 /\ i \in DOMAIN stack[q] /\ g = stack[q][i]
                 /\ CompilerOf(g)' = CompilerOf(g)
    BY <1>2, <1>5, <2>5, <2>6, <2>7, CallsNext
  <2>9. UsedAlone'
    <3>1. ASSUME NEW q \in Proc, NEW i \in DOMAIN stack'[q], stack'[q][i].call # "run"
          PROVE  qs'[stack'[q][i].qs].user = q
      BY <1>8, <2>4, <3>1, CallsAt, CallCompiler DEF UsedAlone, UsersKept
    <3> QED
      BY <1>8, <1>10, <3>1 DEF UsedAlone, UsersKept
  <2>10. HandlesPoint'
    <3>1. ASSUME NEW h \in handles
          PROVE  /\ h.tx # Null /\ Bound(h) \in made' /\ h.tx.chain = <<Bound(h)>>
                 /\ transaction'[Bound(h)] = h.tx
                 /\ \E q \in QuerySet : qs'[q].compiler = Bound(h) /\ qs'[q].user = h.user
      BY <1>5, <1>8, <1>12 DEF HandlesPoint, UsersKept
    <3>2. /\ k.tx # Null /\ Bound(k) \in made' /\ k.tx.chain = <<Bound(k)>>
          /\ transaction'[Bound(k)] = k.tx
          /\ \E q \in QuerySet : qs'[q].compiler = Bound(k) /\ qs'[q].user = k.user
      BY ZenonT(60), <1>1, <1>3, <1>5, <1>6, <1>7, <1>8, <2>2 DEF UsersKept
    <3> QED
      BY <2>2, <3>1, <3>2 DEF HandlesPoint, Bound
  <2>11. HandlesApart'
    <3>1. ASSUME NEW q \in Proc, NEW i \in DOMAIN stack'[q], NEW g, g = stack'[q][i],
                 Binds(g), NEW h \in handles'
          PROVE  CompilerOf(g)' # Bound(h)
      BY <1>9, <2>2, <2>4, <2>8, <3>1 DEF HandlesApart
    <3>2. \A g, h \in handles' : Bound(g) = Bound(h) => g = h
      BY <1>9, <2>2 DEF HandlesApart
    <3> QED
      BY <3>1, <3>2 DEF HandlesApart, CompilerOf, Bound, Binds
  <2>12. OpenIsHeld'
    <3>1. ASSUME NEW q \in Proc, NEW i \in DOMAIN stack[q], NEW t, Holds(stack[q][i], t)
          PROVE  \/ i \in DOMAIN stack'[q] /\ Holds(stack'[q][i], t)
                 \/ Holds(k, t)
      <4>1. CASE q = p /\ i = n
        BY <1>1, <1>6, <2>2, <3>1, <4>1 DEF Holds
      <4>2. CASE ~(q = p /\ i = n)
        <5>1. i \in DOMAIN stack'[q]
          BY <1>2, <2>3, <4>2
        <5> QED
          BY <2>4, <3>1, <5>1
      <4> QED
        BY <4>1, <4>2
    <3>2. ASSUME NEW t \in Tx, status'[t] = "open"
          PROVE  \/ \E q \in Proc : \E i \in DOMAIN stack'[q] : Holds(stack'[q][i], t)
                 \/ \E h \in handles' : Holds(h, t)
      BY <1>5, <2>2, <3>1, <3>2 DEF OpenIsHeld
    <3> QED
      BY <3>2 DEF OpenIsHeld, Holds
  <2> QED
    BY <2>8, <2>9, <2>10, <2>11, <2>12
<1> QED
  BY <1>5, <1>13, <1>14

\* A caller ends a transaction it started: nobody works with its compiler.
LEMMA EndTransactionPoints ==
  ASSUME ~Shared, TypeInv, HolderInv, PointerInv, NEW p \in Proc, NEW h \in handles,
         EndTransaction(p, h)
  PROVE  PointerInv'
<1> USE DEF PointerInv
<1>1. PICK c, w : c = Bound(h) /\ w = h.tx
  OBVIOUS
<1>2. /\ c \in made /\ c \in Compiler /\ w # Null /\ w.chain = <<c>> /\ w \in Wrapped
      /\ transaction[c] = w
  BY <1>1 DEF HandlesPoint, TypeInv, TypeOK, Handles
<1>3. /\ \A d \in Unbound(w) : ~Writing(d)
      /\ Rollback(w) \/ \E err \in BOOLEAN : Commit(w, err)
      /\ handles' = handles \ {h} /\ UNCHANGED <<made, qs, stack>>
  BY <1>1 DEF EndTransaction
<1>4. /\ \A d \in Compiler : transaction'[d] = IF d = c THEN Null ELSE transaction[d]
      /\ \A t \in Tx : t # w.sql => status'[t] = status[t]
      /\ \A t \in Tx : status'[t] = "open" => status[t] = "open" /\ t # w.sql
  BY <1>2, <1>3, EndPoints
<1>5. ~Writing(c)
  <2>1. InTransaction(c) /\ Len(w.chain) = 1 /\ DOMAIN w.chain = {1} /\ w.chain[1] = c
    BY <1>2, NotInTransaction
  <2>2. 1 \in Reached(w)
    BY <2>1 DEF Reached
  <2>3. c \in Unbound(w)
    BY <2>1, <2>2 DEF Unbound
  <2> QED
    BY <1>3, <2>3
<1>6. ASSUME NEW q \in Proc, NEW i \in DOMAIN stack[q]
      PROVE  Stays(q, i)
  <2>1. PICK f : f = stack[q][i]
    OBVIOUS
  <2>2. CallPoints(q, i, f) /\ f \in Frames /\ f \in LiveFrames
    BY <2>1, CallsAt DEF CallsPoint
  <2>3. Binds(f) \/ (f.call = "write" /\ f.pc = "body") => CompilerOf(f) # c
    <3>1. Binds(f) => CompilerOf(f) # c
      BY <1>1, <2>1 DEF HandlesApart
    <3>2. f.call = "write" => CompilerOf(f) # c
      BY <1>5, <2>1, <2>2, CallCompiler DEF Writing
    <3> QED
      BY <3>1, <3>2
  <2>4. Binds(f) \/ f.call # "run" => CompilerOf(f) \in Compiler
    BY <2>2, CallCompiler DEF CallPoints, TypeInv, TypeOK
  <2>5. f.pc = "bind" => f.call # "run"
    BY <2>2, FrameKinds DEF BindFrames
  <2> QED
    BY <1>3, <1>4, <2>1, <2>3, <2>4, <2>5 DEF Stays, InTransaction, Null
<1>7. \A k \in handles' : k \in handles /\ transaction'[Bound(k)] = transaction[Bound(k)]
  <2>1. \A k \in handles' : Bound(k) # c /\ Bound(k) \in Compiler
    BY <1>1, <1>3 DEF HandlesApart, HandlesPoint, TypeInv, TypeOK
  <2> QED
    BY <1>3, <1>4, <2>1
<1>8. UsersKept /\ made \subseteq made' /\ \A d \in Compiler \ made' : transaction'[d] = Null
  BY <1>3, <1>4 DEF UsersKept, UsedAlone
<1>9. 0 \notin DOMAIN stack'[p]
  BY <1>3, CallsAt
<1>10. \A q \in Proc : \A i \in DOMAIN stack'[q] : Stays(q, i)
  BY <1>3, <1>6
<1>11. (OpenIsHeld => PointerInv)'
  BY <1>4, <1>7, <1>8, <1>9, <1>10, PointersNext
<1>12. OpenIsHeld'
  <2>1. ASSUME NEW t \in Tx, status'[t] = "open"
        PROVE  \/ \E q \in Proc : \E i \in DOMAIN stack'[q] : Holds(stack'[q][i], t)
               \/ \E k \in handles' : Holds(k, t)
    <3>1. status[t] = "open" /\ ~Holds(h, t)
      BY <1>1, <1>4, <2>1 DEF Holds
    <3> QED
      BY <1>3, <3>1 DEF OpenIsHeld
  <2> QED
    BY <2>1 DEF OpenIsHeld, Holds
<1> QED
  BY <1>11, <1>12

\* A step that ends no call, starts none and moves no pointer.
LEMMA QuietPoints ==
  ASSUME TypeInv, PointerInv, UNCHANGED <<transaction, made, qs, stack, handles>>,
         \A t \in Tx : status'[t] = "open" => status[t] = "open"
  PROVE  PointerInv'
<1> USE DEF PointerInv
<1>1. UsedAlone' /\ HandlesPoint' /\ HandlesApart' /\ CallsApart' /\ JoinsInside'
  <2>1. UsedAlone' /\ HandlesPoint'
    BY DEF UsedAlone, HandlesPoint, Bound
  <2>2. HandlesApart'
    BY DEF HandlesApart, CompilerOf, Bound, Binds
  <2>3. CallsApart' /\ JoinsInside'
    BY DEF CallsApart, JoinsInside, CompilerOf, Bound, Binds, Joins
  <2> QED
    BY <2>1, <2>2, <2>3
<1>2. OpenIsHeld'
  BY DEF OpenIsHeld, Holds
<1>3. CallsPoint'
  <2>1. ASSUME NEW p \in Proc, NEW i \in DOMAIN stack'[p], NEW f, f = stack'[p][i]
        PROVE  CallPoints(p, i, f)'
    <3>1. CallPoints(p, i, f) /\ f.tx \in Wrapped
      BY <2>1, CallsAt DEF CallsPoint
    <3>2. f.tx # Null => f.tx.sql \in Tx
      BY <3>1, SqlOf
    <3> QED
      BY <3>1, <3>2 DEF CallPoints, CompilerOf, Bound, Binds, InTransaction
  <2> QED
    BY <2>1 DEF CallsPoint
<1> QED
  BY <1>1, <1>2, <1>3

LEMMA PointerInvNext ==
  ASSUME ~Nested, ~Shared, TypeInv, HolderInv, PointerInv, [Next]_vars
  PROVE  PointerInv'
<1>1. ASSUME NEW p \in Proc, RunCommits(p) \/ RunRollsBack(p) \/ WriteReturns(p)
      PROVE  PointerInv'
  <2>1. PICK f : f = Top(p)
    OBVIOUS
  <2>2. /\ stack[p] # <<>> /\ f.pc # "bind" /\ Pop(p) /\ UNCHANGED <<made, qs, handles>>
        /\ (\E err \in BOOLEAN : Commit(f.tx, err)) \/ Rollback(f.tx)
    BY <1>1, <2>1 DEF RunCommits, RunRollsBack, WriteReturns, InCall
  <2> QED
    BY <2>1, <2>2, EndsPoints
<1>2. ASSUME NEW p \in Proc, WriteCommits(p)
      PROVE  PointerInv'
  <2>1. PICK f : f = Top(p)
    OBVIOUS
  <2>2. /\ stack[p] # <<>> /\ f.call = "write" /\ f.pc = "body"
        /\ SetTop(p, [f EXCEPT !.pc = "return"]) /\ UNCHANGED <<made, qs, handles>>
        /\ \E err \in BOOLEAN : Commit(f.tx, err)
    BY <1>2, <2>1 DEF WriteCommits, InCall
  <2> QED
    BY <2>1, <2>2, EndsPoints
<1>3. ASSUME NEW p \in Proc, NEW r \in Row, Execute(p, r)
      PROVE  PointerInv'
  BY <1>3, QuietPoints DEF Execute
<1>4. ASSUME NEW t \in Tx, Cancel(t)
      PROVE  PointerInv'
  <2>1. \A u \in Tx : status'[u] = "open" => status[u] = "open"
    BY <1>4 DEF Cancel, TypeInv, TypeOK
  <2> QED
    BY <1>4, <2>1, QuietPoints DEF Cancel
<1>5. CASE UNCHANGED vars
  BY <1>5, QuietPoints DEF vars, database
<1> QED
  BY <1>1, <1>2, <1>3, <1>4, <1>5, GetQuerySetPoints, WithContextPoints, ClonePoints,
     RunInTransactionPoints, StartPoints, WriteFailsPoints, BindTransactionPoints,
     EndTransactionPoints DEF Next, WriteStep

\* No transaction is lost: at every moment, an open one is held by a call that is
\* going to end it or by a caller that can, through compilers that all still point
\* to it, for any number of goroutines with querysets of their own, clones and new
\* contexts included, and whatever is cancelled.
THEOREM NoTransactionIsLost == ~Nested /\ ~Shared => (Spec => []NoLeak)
<1> SUFFICES ASSUME ~Nested, ~Shared PROVE Spec => []NoLeak
  OBVIOUS
<1>1. Init => TypeInv /\ HolderInv /\ PointerInv
  BY TypeInvInit, HolderInvInit, PointerInvInit
<1>2. TypeInv /\ HolderInv /\ PointerInv /\ [Next]_vars => TypeInv' /\ HolderInv' /\ PointerInv'
  BY TypeInvNext, HolderInvNext, PointerInvNext
<1>3. TypeInv /\ PointerInv => NoLeak
  <2> SUFFICES ASSUME TypeInv, PointerInv, NEW t \in Tx, status[t] = "open"
               PROVE  \/ \E p \in Proc : \E i \in DOMAIN stack[p] :
                            stack[p][i].tx.sql = t /\ ReachesOpen(stack[p][i].tx)
                      \/ \E h \in handles : h.tx.sql = t /\ ReachesOpen(h.tx)
    BY DEF NoLeak
  <2> USE DEF PointerInv
  <2>1. ASSUME NEW w \in Wrapped, w.sql = t,
               \/ w.chain = <<>>
               \/ \E c \in Compiler : w.chain = <<c>> /\ transaction[c] = w
        PROVE  ReachesOpen(w)
    <3>0. w.sql # None
      BY <2>1, NoneAssumption
    <3>1. CASE w.chain = <<>>
      <4>1. DOMAIN w.chain = {}
        <5>1. DOMAIN <<>> = {}
          OBVIOUS
        <5> QED
          BY <3>1, <5>1
      <4>2. Reached(w) = {}
        BY <4>1 DEF Reached
      <4> QED
        BY <2>1, <3>0, <4>1, <4>2 DEF ReachesOpen
    <3>2. ASSUME NEW c \in Compiler, w.chain = <<c>>, transaction[c] = w
          PROVE  ReachesOpen(w)
      <4>1. InTransaction(c) /\ DOMAIN w.chain = {1} /\ Len(w.chain) = 1 /\ w.chain[1] = c
        BY <3>0, <3>2 DEF InTransaction
      <4>2. Reached(w) = {1}
        BY <4>1 DEF Reached
      <4> QED
        BY <2>1, <3>0, <4>1, <4>2 DEF ReachesOpen
    <3> QED
      BY <2>1, <3>1, <3>2
  <2>2. ASSUME NEW p \in Proc, NEW i \in DOMAIN stack[p], Holds(stack[p][i], t)
        PROVE  stack[p][i].tx.sql = t /\ ReachesOpen(stack[p][i].tx)
    <3>1. PICK f : f = stack[p][i]
      OBVIOUS
    <3>2. /\ f \in Frames /\ f.tx \in Wrapped /\ f.tx.sql = t /\ f.tx # Null
          /\ CallPoints(p, i, f)
      BY <2>2, <3>1, CallsAt, SqlOf DEF Holds, CallsPoint
    <3>3. CASE f.pc = "bind"
      <4>1. f.tx.chain = <<>>
        BY <3>2, <3>3, FrameKinds DEF BindFrames, Begun
      <4> QED
        BY <2>1, <3>1, <3>2, <4>1
    <3>4. CASE f.pc # "bind"
      <4>1. PICK c : c = CompilerOf(f)
        OBVIOUS
      <4>2. c \in Compiler /\ f.tx.chain = <<c>> /\ transaction[c] = f.tx
        BY <3>2, <3>4, <4>1 DEF CallPoints, Binds, TypeInv, TypeOK
      <4> QED
        BY <2>1, <3>1, <3>2, <4>2
    <3> QED
      BY <3>3, <3>4
  <2>3. ASSUME NEW h \in handles, Holds(h, t)
        PROVE  h.tx.sql = t /\ ReachesOpen(h.tx)
    <3>1. h.tx \in Wrapped /\ h.tx.sql = t
      BY <2>3 DEF Holds, TypeInv, TypeOK, Handles
    <3>2. PICK c : c = Bound(h)
      OBVIOUS
    <3>3. c \in Compiler /\ h.tx.chain = <<c>> /\ transaction[c] = h.tx
      BY <3>2 DEF HandlesPoint, TypeInv, TypeOK
    <3> QED
      BY <2>1, <3>1, <3>3
  <2> QED
    BY <2>2, <2>3 DEF OpenIsHeld
<1> QED
  BY <1>1, <1>2, <1>3, PTL DEF Spec

-----------------------------------------------------------------------------
(* Homes.  Without clones, every queryset has a compiler to itself, and    *)
(* what it was told to use is where its compiler points.                   *)

(* A write whose own transaction was ended and that is about to return. *)
ReturnsFrom(p, q) ==
    /\ InCall(p, "write", "return") /\ Top(p).qs = q
    /\ Top(p).tx # Null /\ home[q] = Top(p).tx.sql
    /\ ~InTransaction(qs[q].compiler)

HomePoints(q) ==
    IF qs[q].compiler = None THEN home[q] = None
    ELSE \/ home[q] = transaction[qs[q].compiler].sql
         \/ \E p \in Proc : ReturnsFrom(p, q)

HomesPoint ==
    /\ \A q \in QuerySet : HomePoints(q)
    /\ \A x, y \in QuerySet :
          qs[x].compiler # None /\ qs[x].compiler = qs[y].compiler => x = y
    /\ \A h \in handles : h.began

(* The rows in the database are those of the committed transactions. *)
RowsOwned ==
    /\ \A t \in Tx : \A r \in rows[t] : via[r] = t
    /\ \A r \in Row : r \in db <=> \E t \in Tx : status[t] = "committed" /\ r \in rows[t]

WholeInv == HomesPoint /\ RowsOwned

LEMMA WholeInvInit == Init => WholeInv
BY DEF Init, WholeInv, HomesPoint, HomePoints, RowsOwned

\* The home of a queryset stays where its compiler points when the step is about
\* others.
LEMMA HomeKept ==
  ASSUME NEW p \in Proc, \A r \in Proc \ {p} : stack'[r] = stack[r],
         NEW q \in QuerySet, HomePoints(q),
         \/ stack'[p] = stack[p]
         \/ ~(InCall(p, "write", "return") /\ Top(p).qs = q /\ Top(p).tx # Null),
         qs'[q].compiler = qs[q].compiler, home'[q] = home[q],
         qs[q].compiler # None =>
            transaction'[qs[q].compiler] = transaction[qs[q].compiler]
  PROVE  HomePoints(q)'
<1>1. CASE qs[q].compiler = None
  BY <1>1 DEF HomePoints
<1>2. CASE qs[q].compiler # None /\ home[q] = transaction[qs[q].compiler].sql
  BY <1>2 DEF HomePoints
<1>3. ASSUME qs[q].compiler # None, NEW r \in Proc, ReturnsFrom(r, q)
      PROVE  HomePoints(q)'
  <2>1. stack'[r] = stack[r]
    BY <1>3 DEF ReturnsFrom
  <2>2. ReturnsFrom(r, q)'
    BY <1>3, <2>1 DEF ReturnsFrom, InCall, Top, InTransaction
  <2> QED
    BY <1>3, <2>2 DEF HomePoints
<1> QED
  BY <1>1, <1>2, <1>3 DEF HomePoints

\* A step that writes no row and commits no transaction.
LEMMA RowsKept ==
  ASSUME TypeInv, RowsOwned, UNCHANGED <<rows, db, via>>,
         \A t \in Tx : status'[t] = "committed" <=> status[t] = "committed"
  PROVE  RowsOwned'
BY DEF RowsOwned

\* The end of a transaction makes its rows visible when it is committed.
LEMMA RowsEnd ==
  ASSUME TypeInv, RowsOwned, NEW w \in Wrapped, UNCHANGED via,
         (\E err \in BOOLEAN : Commit(w, err)) \/ Rollback(w)
  PROVE  RowsOwned'
<1>1. CASE /\ ReachesOpen(w) /\ status' = [status EXCEPT ![w.sql] = "committed"]
           /\ db' = db \union rows[w.sql] /\ rows' = rows
  <2>1. w.sql \in Tx
    BY <1>1, SqlOf DEF ReachesOpen, Null
  <2>2. /\ status'[w.sql] = "committed" /\ status[w.sql] = "open"
        /\ \A t \in Tx \ {w.sql} : status'[t] = status[t]
    BY <1>1, <2>1 DEF ReachesOpen, TypeInv, TypeOK
  <2>3. \A t \in Tx : \A r \in rows'[t] : via'[r] = t
    BY <1>1 DEF RowsOwned
  <2>4. \A r \in Row : r \in db' <=> \E t \in Tx : status'[t] = "committed" /\ r \in rows'[t]
    <3>1. \A r \in Row : r \in db' <=> r \in rows[w.sql] \/ r \in db
      BY <1>1
    <3>2. \A r \in Row : r \in db <=> \E t \in Tx \ {w.sql} : status[t] = "committed" /\ r \in rows[t]
      BY <2>2 DEF RowsOwned
    <3> QED
      BY <1>1, <2>1, <2>2, <3>1, <3>2
  <2> QED
    BY <2>3, <2>4 DEF RowsOwned
<1>2. CASE /\ UNCHANGED <<rows, db>>
           /\ \/ status' = status
              \/ ReachesOpen(w) /\ status' = [status EXCEPT ![w.sql] = "rolledback"]
  <2>1. \A t \in Tx : status'[t] = "committed" <=> status[t] = "committed"
    BY <1>2 DEF ReachesOpen, TypeInv, TypeOK
  <2> QED
    BY <1>2, <2>1, RowsKept
<1> QED
  BY <1>1, <1>2 DEF Commit, Rollback

\* The querysets of others, and what no queryset is part of.
LEMMA HomesSameNext ==
  ASSUME HomesPoint, NEW p \in Proc, \A r \in Proc \ {p} : stack'[r] = stack[r],
         UsersKept, UNCHANGED home, \A h \in handles' : h.began,
         \A q \in QuerySet :
            /\ \/ stack'[p] = stack[p]
               \/ ~(InCall(p, "write", "return") /\ Top(p).qs = q /\ Top(p).tx # Null)
            /\ qs[q].compiler # None =>
                  transaction'[qs[q].compiler] = transaction[qs[q].compiler]
  PROVE  HomesPoint'
<1>1. \A q \in QuerySet : HomePoints(q)'
  BY HomeKept DEF HomesPoint, UsersKept
<1>2. \A x, y \in QuerySet :
         qs'[x].compiler # None /\ qs'[x].compiler = qs'[y].compiler => x = y
  BY DEF HomesPoint, UsersKept
<1> QED
  BY <1>1, <1>2 DEF HomesPoint, HomePoints

LEMMA GetQuerySetHomes ==
  ASSUME TypeInv, PointerInv, HomesPoint, NEW p \in Proc, NEW q \in QuerySet,
         NEW context \in Contexts(p), GetQuerySet(p, q, context)
  PROVE  HomesPoint'
<1> USE DEF PointerInv
<1>1. PICK c \in Compiler \ made :
         /\ made' = made \union {c} /\ BindContext(q, c, context)
         /\ qs' = [qs EXCEPT ![q] = [compiler |-> c, context |-> context, user |-> p]]
  BY DEF GetQuerySet
<1>2. /\ UNCHANGED <<stack, handles>> /\ qs[q].compiler = None
  BY DEF GetQuerySet
<1>3. /\ qs'[q].compiler = c /\ c # None
      /\ \A x \in QuerySet \ {q} : qs'[x] = qs[x] /\ home'[x] = home[x] /\ qs[x].compiler # c
      /\ \A d \in Compiler \ {c} : transaction'[d] = transaction[d]
  <2>1. c # None /\ \A x \in QuerySet : qs[x].compiler # c
    BY NoneAssumption DEF TypeInv
  <2> QED
    BY <1>1, <2>1 DEF BindContext, TypeInv, TypeOK
<1>4. home'[q] = transaction'[c].sql
  <2>1. transaction[c] = Null /\ context \in Wrapped /\ home[q] = None
    BY <1>2, ContextsType DEF UsedAlone, HomesPoint, HomePoints
  <2>2. CASE context = Null
    BY <1>1, <2>1, <2>2 DEF BindContext, Null, TypeInv, TypeOK
  <2>3. CASE context # Null
    <3>1. ~InTransaction(c)
      BY <2>1, NotInTransaction
    <3>2. transaction'[c] = Wrap(context, c) /\ home'[q] = context.sql
      BY <1>1, <2>3, <3>1 DEF BindContext, TypeInv, TypeOK
    <3> QED
      BY <3>2 DEF Wrap
  <2> QED
    BY <2>2, <2>3
<1>5. HomePoints(q)'
  BY <1>3, <1>4 DEF HomePoints
<1>6. ASSUME NEW x \in QuerySet \ {q}
      PROVE  HomePoints(x)'
  <2>1. qs[x].compiler # None => qs[x].compiler \in Compiler \ {c}
    BY <1>3 DEF TypeInv, TypeOK
  <2> QED
    BY <1>2, <1>3, <2>1, HomeKept DEF HomesPoint
<1>7. \A x, y \in QuerySet :
         qs'[x].compiler # None /\ qs'[x].compiler = qs'[y].compiler => x = y
  BY <1>3 DEF HomesPoint
<1> QED
  BY <1>2, <1>5, <1>6, <1>7 DEF HomesPoint, HomePoints

LEMMA WithContextHomes ==
  ASSUME ~Nested, TypeInv, HomesPoint, NEW p \in Proc, NEW q \in QuerySet,
         NEW context \in Contexts(p), WithContext(p, q, context)
  PROVE  HomesPoint'
<1>1. PICK c : c = qs[q].compiler
  OBVIOUS
<1>2. /\ c \in Compiler /\ ~InTransaction(c) /\ BindContext(q, c, context) /\ c # None
      /\ qs' = [qs EXCEPT ![q].context = context]
      /\ UNCHANGED <<stack, handles>>
  BY <1>1 DEF WithContext, Usable, TypeInv, TypeOK
<1>3. UsersKept
  BY <1>2 DEF UsersKept, TypeInv, TypeOK, QuerySets
<1>4. CASE context = Null
  <2>1. UNCHANGED transaction
    BY <1>2, <1>4 DEF BindContext
  <2>2. \A x \in QuerySet : home'[x] = home[x]
    BY <1>2, <1>4 DEF BindContext, TypeInv, TypeOK
  <2>3. \A x \in QuerySet : HomePoints(x)'
    BY <1>2, <1>3, <2>1, <2>2, HomeKept DEF HomesPoint, UsersKept
  <2> QED
    BY <1>2, <1>3, <2>3 DEF HomesPoint, HomePoints, UsersKept
<1>5. CASE context # Null
  <2>1. /\ transaction'[c] = Wrap(context, c) /\ home'[q] = context.sql
        /\ \A d \in Compiler \ {c} : transaction'[d] = transaction[d]
        /\ \A x \in QuerySet \ {q} : home'[x] = home[x]
    BY <1>2, <1>5 DEF BindContext, TypeInv, TypeOK
  <2>2. HomePoints(q)'
    BY <1>1, <1>2, <1>3, <2>1 DEF HomePoints, UsersKept, Wrap
  <2>3. ASSUME NEW x \in QuerySet \ {q}
        PROVE  HomePoints(x)'
    <3>1. qs[x].compiler # None => qs[x].compiler \in Compiler \ {c}
      BY <1>1, <1>2 DEF HomesPoint, TypeInv, TypeOK
    <3> QED
      BY <1>2, <1>3, <2>1, <3>1, HomeKept DEF HomesPoint, UsersKept
  <2> QED
    BY <1>2, <1>3, <2>2, <2>3 DEF HomesPoint, HomePoints, UsersKept
<1> QED
  BY <1>4, <1>5

\* A call is made: the goroutine was running the caller's code.
LEMMA PushHomes ==
  ASSUME TypeInv, HomesPoint, NEW p \in Proc, CallerRuns(p), NEW f, Push(p, f),
         UNCHANGED <<qs, home, handles>>,
         \A q \in QuerySet : qs[q].compiler # None =>
            transaction'[qs[q].compiler] = transaction[qs[q].compiler]
  PROVE  HomesPoint'
<1>1. \A r \in Proc \ {p} : stack'[r] = stack[r]
  BY DEF Push, TypeInv, TypeOK
<1>2. ~InCall(p, "write", "return")
  BY DEF CallerRuns, InCall
<1>3. UsersKept
  BY DEF UsersKept
<1> QED
  BY <1>1, <1>2, <1>3, HomesSameNext DEF HomesPoint

LEMMA BindTransactionHomes ==
  ASSUME ~Nested, TypeInv, HolderInv, PointerInv, HomesPoint, NEW p \in Proc,
         BindTransaction(p)
  PROVE  HomesPoint'
<1> USE DEF PointerInv
<1>1. PICK n, f, c, w : /\ n = Len(stack[p]) /\ f = stack[p][n]
                        /\ c = qs[f.qs].compiler /\ w = Wrap(f.tx, c)
  OBVIOUS
<1>2. /\ stack[p] # <<>> /\ n \in DOMAIN stack[p]
      /\ f = Top(p) /\ f \in LiveFrames /\ f.pc = "bind" /\ f \in BindFrames
  BY <1>1, CallsAt, FrameKinds DEF BindTransaction
<1>3. /\ f.qs \in QuerySet /\ CompilerOf(f) = c /\ c \in Compiler /\ c # None
      /\ qs[f.qs].user = p
  <2>1. f.call # "run"
    BY <1>2 DEF BindFrames
  <2>2. qs[f.qs].user = p
    BY <1>1, <1>2, <2>1 DEF UsedAlone
  <2> QED
    BY <1>1, <1>2, <2>1, <2>2, CallCompiler
<1>4. ~InTransaction(c) /\ transaction[c].sql = None
  <2>1. CallPoints(p, n, f)
    BY <1>1, <1>2 DEF CallsPoint
  <2> QED
    BY <1>2, <1>3, <2>1 DEF CallPoints, InTransaction
<1>5. /\ transaction' = [transaction EXCEPT ![c] = w]
      /\ qs' = [qs EXCEPT ![f.qs].context = w]
      /\ home' = [home EXCEPT ![f.qs] = IF @ = None THEN w.sql ELSE @]
      /\ SetTop(p, [f EXCEPT !.pc = "body", !.tx = w]) \/ Pop(p)
      /\ \A h \in handles' : h.began
  BY <1>1, <1>2, <1>4 DEF BindTransaction, HomesPoint
<1>6. UsersKept
  BY <1>3, <1>5 DEF UsersKept, TypeInv, TypeOK, QuerySets
<1>7. home[f.qs] = None
  <2>1. ASSUME NEW r \in Proc, ReturnsFrom(r, f.qs)
        PROVE  FALSE
    <3>1. r # p
      BY <1>2, <2>1 DEF ReturnsFrom, InCall
    <3>2. qs[f.qs].user = r
      <4>1. stack[r] # <<>> /\ Top(r).call = "write" /\ Top(r).qs = f.qs
        BY <2>1 DEF ReturnsFrom, InCall
      <4>2. PICK i \in DOMAIN stack[r] : Top(r) = stack[r][i]
        BY <4>1, CallsAt
      <4> QED
        BY <4>1, <4>2 DEF UsedAlone
    <3> QED
      BY <1>3, <3>1, <3>2
  <2> QED
    BY <1>1, <1>3, <1>4, <2>1 DEF HomesPoint, HomePoints
<1>8. \A r \in Proc \ {p} : stack'[r] = stack[r]
  BY <1>5 DEF SetTop, Pop, TypeInv, TypeOK
<1>9. /\ transaction'[c] = w /\ home'[f.qs] = w.sql
      /\ \A d \in Compiler \ {c} : transaction'[d] = transaction[d]
      /\ \A x \in QuerySet \ {f.qs} : home'[x] = home[x]
  BY <1>3, <1>5, <1>7 DEF TypeInv, TypeOK
<1>10. HomePoints(f.qs)'
  <2>1. qs'[f.qs].compiler = c /\ c # None
    BY <1>1, <1>3, <1>6 DEF UsersKept
  <2>2. home'[f.qs] = transaction'[c].sql
    BY <1>9
  <2> QED
    BY <2>1, <2>2 DEF HomePoints
<1>11. ASSUME NEW x \in QuerySet \ {f.qs}
       PROVE  HomePoints(x)'
  <2>1. qs[x].compiler # None => qs[x].compiler \in Compiler \ {c}
    <3>1. qs[x].compiler # None => qs[x].compiler \in Compiler
      BY DEF TypeInv, TypeOK, QuerySets
    <3>2. qs[x].compiler # None => qs[x].compiler # c
      BY <1>1, <1>3 DEF HomesPoint
    <3> QED
      BY <3>1, <3>2
  <2>2. ~InCall(p, "write", "return")
    BY <1>2 DEF InCall
  <2> QED
    BY <1>6, <1>8, <1>9, <2>1, <2>2, HomeKept DEF HomesPoint, UsersKept
<1> QED
  BY <1>5, <1>6, <1>10, <1>11 DEF HomesPoint, HomePoints, UsersKept

\* A run ends: its compiler is no queryset's.
LEMMA RunEndsHomes ==
  ASSUME TypeInv, HolderInv, PointerInv, HomesPoint, NEW p \in Proc,
         RunCommits(p) \/ RunRollsBack(p)
  PROVE  HomesPoint'
<1> USE DEF PointerInv
<1>1. PICK n, f : n = Len(stack[p]) /\ f = stack[p][n]
  OBVIOUS
<1>2. /\ n \in DOMAIN stack[p] /\ f = Top(p) /\ f.pc = "body" /\ f.call = "run"
      /\ (\E err \in BOOLEAN : Commit(f.tx, err)) \/ Rollback(f.tx)
      /\ Pop(p) /\ UNCHANGED <<qs, handles, home>>
  BY <1>1, CallsAt DEF RunCommits, RunRollsBack, InCall
<1>3. \A d \in Compiler : transaction'[d] =
         IF Binds(f) /\ d = CompilerOf(f) THEN Null ELSE transaction[d]
  BY <1>1, <1>2, EndOfCall
<1>4. ASSUME NEW q \in QuerySet, qs[q].compiler # None
      PROVE  transaction'[qs[q].compiler] = transaction[qs[q].compiler]
  <2>1. Binds(f) => CompilerOf(f) # qs[q].compiler
    BY <1>1, <1>2 DEF CallsPoint, CallPoints
  <2>2. qs[q].compiler \in Compiler
    BY <1>4 DEF TypeInv, TypeOK
  <2> QED
    BY <1>3, <2>1, <2>2
<1>5. \A r \in Proc \ {p} : stack'[r] = stack[r]
  BY <1>2 DEF Pop, TypeInv, TypeOK
<1>6. ~InCall(p, "write", "return") /\ UsersKept
  BY <1>2 DEF InCall, UsersKept
<1> QED
  BY <1>2, <1>4, <1>5, <1>6, HomesSameNext DEF HomesPoint

LEMMA WriteFailsHomes ==
  ASSUME TypeInv, HomesPoint, NEW p \in Proc, WriteFails(p)
  PROVE  HomesPoint'
<1>1. /\ InCall(p, "write", "body") /\ SetTop(p, [Top(p) EXCEPT !.pc = "return"])
      /\ UNCHANGED <<transaction, qs, handles, home>>
  BY DEF WriteFails, history
<1>2. \A r \in Proc \ {p} : stack'[r] = stack[r]
  BY <1>1 DEF SetTop, TypeInv, TypeOK
<1>3. ~InCall(p, "write", "return") /\ UsersKept
  BY <1>1 DEF InCall, UsersKept
<1> QED
  BY <1>1, <1>2, <1>3, HomesSameNext DEF HomesPoint

\* A write commits its own transaction: its queryset has its home until the write
\* returns.
LEMMA WriteCommitsHomes ==
  ASSUME TypeInv, HolderInv, PointerInv, HomesPoint, NEW p \in Proc, WriteCommits(p)
  PROVE  HomesPoint'
<1> USE DEF PointerInv
<1>s. stack \in [Proc -> Seq(LiveFrames)]
  BY DEF TypeInv
<1>1. PICK n, f, g, c : /\ n = Len(stack[p]) /\ f = stack[p][n]
                        /\ g = [f EXCEPT !.pc = "return"] /\ c = qs[f.qs].compiler
  OBVIOUS
<1>2. /\ stack[p] # <<>> /\ n \in DOMAIN stack[p] /\ f = Top(p) /\ f.pc = "body"
      /\ f.call = "write" /\ f \in LiveFrames /\ f \in Frames
      /\ (\E err \in BOOLEAN : Commit(f.tx, err)) \/ Rollback(f.tx)
      /\ SetTop(p, g) /\ UNCHANGED <<qs, handles, home>>
  BY <1>1, CallsAt DEF WriteCommits, InCall
<1>3. \A d \in Compiler : transaction'[d] =
         IF Binds(f) /\ d = CompilerOf(f) THEN Null ELSE transaction[d]
  BY <1>1, <1>2, EndOfCall
<1>4. /\ CompilerOf(f) = c /\ c \in Compiler /\ c # None /\ f.qs \in QuerySet
      /\ CallPoints(p, n, f)
  BY <1>1, <1>2, CallCompiler DEF CallsPoint
<1>5. InTransaction(c) /\ (Binds(f) => transaction[c] = f.tx)
  BY <1>2, <1>4 DEF CallPoints
<1>6. home[f.qs] = transaction[c].sql
  BY ZenonT(60), <1>1, <1>4, <1>5 DEF HomesPoint, HomePoints, ReturnsFrom
<1>7. \A r \in Proc \ {p} : stack'[r] = stack[r]
  BY <1>2 DEF SetTop, TypeInv, TypeOK
<1>8. ~InCall(p, "write", "return") /\ UsersKept
  BY <1>2 DEF InCall, UsersKept
<1>9. ASSUME NEW x \in QuerySet, x # f.qs \/ ~Binds(f)
      PROVE  HomePoints(x)'
  <2>1. qs[x].compiler # None => qs[x].compiler \in Compiler /\ (Binds(f) => qs[x].compiler # c)
    BY <1>1, <1>4, <1>9 DEF HomesPoint, TypeInv, TypeOK
  <2>2. qs[x].compiler # None =>
           transaction'[qs[x].compiler] = transaction[qs[x].compiler]
    BY <1>3, <1>4, <2>1
  <2> QED
    BY <1>2, <1>7, <1>8, <2>2, HomeKept DEF HomesPoint
<1>10. CASE Binds(f)
  <2>1. g.call = "write" /\ g.pc = "return" /\ g.tx = f.tx /\ g.qs = f.qs
    BY <1>1, <1>2 DEF Frames, RunFrames, BindFrames, WriteFrames
  <2>2. stack'[p] # <<>> /\ Top(p)' = g
    <3>1. Len(stack'[p]) = n /\ stack'[p][n] = g /\ n # 0 /\ Len(<<>>) = 0
      BY <1>1, <1>2, <1>s, SetTopAt
    <3> QED
      BY <3>1 DEF Top
  <2>3. transaction'[c] = Null /\ f.tx # Null
    BY <1>3, <1>4, <1>10 DEF Binds
  <2>4. ReturnsFrom(p, f.qs)'
    <3>1. InCall(p, "write", "return")' /\ Top(p)'.qs = f.qs /\ Top(p)'.tx # Null
      BY <2>1, <2>2, <2>3 DEF InCall
    <3>2. home'[f.qs] = Top(p)'.tx.sql
      BY <1>2, <1>5, <1>6, <1>10, <2>1, <2>2
    <3>3. ~InTransaction(c)' /\ qs'[f.qs].compiler = c
      BY <1>1, <1>2, <2>3 DEF InTransaction, Null
    <3> QED
      BY <3>1, <3>2, <3>3 DEF ReturnsFrom, InTransaction
  <2>5. HomePoints(f.qs)'
    BY <1>1, <1>2, <1>4, <2>4 DEF HomePoints
  <2> QED
    BY <1>2, <1>9, <2>5 DEF HomesPoint, HomePoints
<1> QED
  BY <1>2, <1>9, <1>10 DEF HomesPoint, HomePoints

\* A write returns: its queryset has the home it had before the write.
LEMMA WriteReturnsHomes ==
  ASSUME TypeInv, HolderInv, PointerInv, HomesPoint, NEW p \in Proc, WriteReturns(p)
  PROVE  HomesPoint'
<1> USE DEF PointerInv
<1>1. PICK n, f, c : /\ n = Len(stack[p]) /\ f = stack[p][n] /\ c = qs[f.qs].compiler
  OBVIOUS
<1>2. /\ stack[p] # <<>> /\ n \in DOMAIN stack[p] /\ f = Top(p) /\ f.pc = "return"
      /\ f.call = "write" /\ f \in LiveFrames
      /\ Rollback(f.tx) /\ Pop(p) /\ UNCHANGED <<qs, handles>>
      /\ home' = [home EXCEPT ![f.qs] =
                    IF f.tx # Null /\ @ = f.tx.sql THEN None ELSE @]
  BY <1>1, CallsAt DEF WriteReturns, InCall
<1>3. \A d \in Compiler : transaction'[d] =
         IF Binds(f) /\ d = CompilerOf(f) THEN Null ELSE transaction[d]
  BY <1>1, <1>2, EndOfCall
<1>4. /\ CompilerOf(f) = c /\ c \in Compiler /\ c # None /\ f.qs \in QuerySet
      /\ CallPoints(p, n, f)
  BY <1>1, <1>2, CallCompiler DEF CallsPoint
<1>5. \A r \in Proc \ {p} : stack'[r] = stack[r]
  BY <1>2 DEF Pop, TypeInv, TypeOK
<1>6. UsersKept
  BY <1>2 DEF UsersKept
<1>7. Binds(f) <=> f.tx # Null
  BY <1>2 DEF Binds
<1>8. ASSUME NEW x \in QuerySet, x # f.qs \/ ~Binds(f)
      PROVE  HomePoints(x)'
  <2>1. qs[x].compiler # None => qs[x].compiler \in Compiler /\ (Binds(f) => qs[x].compiler # c)
    BY <1>1, <1>4, <1>8 DEF HomesPoint, TypeInv, TypeOK
  <2>2. qs[x].compiler # None =>
           transaction'[qs[x].compiler] = transaction[qs[x].compiler]
    BY <1>3, <1>4, <2>1
  <2>3. home'[x] = home[x]
    BY <1>2, <1>4, <1>7, <1>8 DEF TypeInv, TypeOK
  <2> QED
    BY <1>2, <1>5, <1>7, <1>8, <2>2, <2>3, HomeKept DEF HomesPoint
<1>9. CASE Binds(f)
  <2>1. transaction'[c] = Null /\ transaction[c] \in {f.tx, Null} /\ f.tx # Null
    BY <1>3, <1>4, <1>7, <1>9 DEF CallPoints
  <2>2. home[f.qs] \in {f.tx.sql, None}
    <3>1. ASSUME NEW r \in Proc, ReturnsFrom(r, f.qs)
          PROVE  home[f.qs] = f.tx.sql
      <4>1. stack[r] # <<>> /\ Top(r).call = "write" /\ Top(r).qs = f.qs
        BY <3>1 DEF ReturnsFrom, InCall
      <4>2. PICK i \in DOMAIN stack[r] : Top(r) = stack[r][i]
        BY <4>1, CallsAt
      <4>3. qs[f.qs].user = r
        BY <4>1, <4>2 DEF UsedAlone
      <4>4. qs[f.qs].user = p
        BY <1>1, <1>2 DEF UsedAlone
      <4> QED
        BY <1>2, <3>1, <4>3, <4>4 DEF ReturnsFrom
    <3>2. HomePoints(f.qs)
      BY <1>4 DEF HomesPoint
    <3>3. CASE qs[f.qs].compiler = None
      BY <3>2, <3>3 DEF HomePoints
    <3>4. CASE home[f.qs] = transaction[qs[f.qs].compiler].sql
      <4>1. transaction[qs[f.qs].compiler] \in {f.tx, Null}
        BY <1>1, <2>1
      <4>2. Null.sql = None
        BY DEF Null
      <4> QED
        BY <3>4, <4>1, <4>2
    <3> QED
      BY <3>1, <3>2, <3>3, <3>4 DEF HomePoints
  <2>3. home'[f.qs] = None
    BY <1>2, <1>4, <2>1, <2>2 DEF TypeInv, TypeOK
  <2>4. HomePoints(f.qs)'
    BY <1>1, <1>2, <1>4, <2>1, <2>3 DEF HomePoints, Null
  <2> QED
    BY <1>2, <1>8, <2>4 DEF HomesPoint, HomePoints
<1> QED
  BY <1>2, <1>8, <1>9 DEF HomesPoint, HomePoints

LEMMA EndTransactionHomes ==
  ASSUME TypeInv, PointerInv, HomesPoint, NEW p \in Proc, NEW h \in handles,
         EndTransaction(p, h)
  PROVE  HomesPoint'
<1> USE DEF PointerInv
<1>1. PICK c, w : c = Bound(h) /\ w = h.tx
  OBVIOUS
<1>2. /\ c \in Compiler /\ w # Null /\ w.chain = <<c>> /\ w \in Wrapped
      /\ transaction[c] = w /\ h.began /\ c # None
  BY <1>1, NoneAssumption DEF HandlesPoint, HomesPoint, TypeInv, TypeOK, Handles
<1>3. /\ Rollback(w) \/ \E err \in BOOLEAN : Commit(w, err)
      /\ handles' = handles \ {h} /\ UNCHANGED <<qs, stack>>
      /\ home' = [q \in QuerySet |->
                    IF h.began /\ qs[q].compiler \in Unbound(w) THEN None ELSE home[q]]
  BY <1>1 DEF EndTransaction
<1>4. \A d \in Compiler : transaction'[d] = IF d = c THEN Null ELSE transaction[d]
  BY <1>2, <1>3, EndPoints
<1>5. Unbound(w) = {c}
  <2>1. InTransaction(c) /\ Len(w.chain) = 1 /\ DOMAIN w.chain = {1} /\ w.chain[1] = c
    BY <1>2, NotInTransaction
  <2>2. Reached(w) = {1}
    BY <2>1 DEF Reached
  <2> QED
    BY <2>1, <2>2 DEF Unbound
<1>6. \A q \in QuerySet : HomePoints(q)'
  <2>1. ASSUME NEW q \in QuerySet, qs[q].compiler = c
        PROVE  HomePoints(q)'
    BY <1>2, <1>3, <1>4, <1>5, <2>1 DEF HomePoints, Null
  <2>2. ASSUME NEW q \in QuerySet, qs[q].compiler # c
        PROVE  HomePoints(q)'
    <3>1. qs[q].compiler # None => qs[q].compiler \in Compiler \ {c}
      BY <2>2 DEF TypeInv, TypeOK
    <3>2. home'[q] = home[q]
      BY <1>3, <1>5, <2>2
    <3> QED
      BY <1>3, <1>4, <3>1, <3>2, HomeKept DEF HomesPoint
  <2> QED
    BY <2>1, <2>2
<1> QED
  BY <1>3, <1>6 DEF HomesPoint, HomePoints

\* A statement runs in the transaction its queryset was told to use.
LEMMA ExecuteRows ==
  ASSUME TypeInv, PointerInv, WholeInv, NEW p \in Proc, NEW r \in Row, Execute(p, r)
  PROVE  RowsOwned'
<1> USE DEF PointerInv, WholeInv
<1>1. PICK n, f, c : n = Len(stack[p]) /\ f = stack[p][n] /\ c = qs[f.qs].compiler
  OBVIOUS
<1>2. /\ stack[p] # <<>> /\ n \in DOMAIN stack[p] /\ f = Top(p) /\ f.pc = "body"
      /\ f.call = "write" /\ f \in LiveFrames
  BY <1>1, CallsAt DEF Execute, InCall
<1>3. /\ CompilerOf(f) = c /\ c \in Compiler /\ c # None /\ f.qs \in QuerySet
      /\ CallPoints(p, n, f)
  BY <1>1, <1>2, CallCompiler DEF CallsPoint
<1>4. InTransaction(c)
  BY <1>2, <1>3 DEF CallPoints
<1>5. PICK t : t = transaction[c].sql
  OBVIOUS
<1>6. home[f.qs] = t /\ t \in Tx
  <2>1. home[f.qs] = t
    BY ZenonT(60), <1>1, <1>3, <1>4, <1>5 DEF HomesPoint, HomePoints, ReturnsFrom
  <2>2. transaction[c] # Null
    BY <1>3, <1>4, NotInTransaction
  <2> QED
    BY <1>3, <1>5, <2>1, <2>2, NotInTransaction, SqlOf
<1>7. /\ r \notin Written /\ status[t] = "open" /\ UNCHANGED <<status, db>>
      /\ rows' = [rows EXCEPT ![t] = @ \union {r}]
      /\ via' = [via EXCEPT ![r] = home[f.qs]]
  BY <1>1, <1>2, <1>4, <1>5 DEF Execute
<1>8. /\ rows'[t] = rows[t] \union {r} /\ via'[r] = t
      /\ \A u \in Tx \ {t} : rows'[u] = rows[u]
      /\ \A x \in Row \ {r} : via'[x] = via[x]
      /\ \A u \in Tx : rows[u] \subseteq Row \ {r}
  BY <1>6, <1>7 DEF Written, TypeInv, TypeOK
<1>9. \A u \in Tx : \A x \in rows'[u] : via'[x] = u
  BY <1>6, <1>8 DEF RowsOwned
<1>10. \A x \in Row : x \in db' <=> \E u \in Tx : status'[u] = "committed" /\ x \in rows'[u]
  <2>1. \A u \in Tx : status[u] = "committed" => rows'[u] = rows[u]
    BY <1>7, <1>8
  <2> QED
    BY <1>7, <2>1 DEF RowsOwned
<1> QED
  BY <1>9, <1>10 DEF RowsOwned

LEMMA HomesNext ==
  ASSUME ~Nested, ~Cloned, TypeInv, HolderInv, PointerInv, HomesPoint, [Next]_vars
  PROVE  HomesPoint'
<1> USE DEF PointerInv
<1>1. ASSUME NEW p \in Proc, NEW context \in Contexts(p), RunInTransaction(p, context)
      PROVE  HomesPoint'
  <2>1. /\ CallerRuns(p) /\ UNCHANGED <<qs, home, handles>> /\ \E f : Push(p, f)
    BY <1>1 DEF RunInTransaction, MayCall
  <2>2. ASSUME NEW q \in QuerySet, qs[q].compiler # None
        PROVE  transaction'[qs[q].compiler] = transaction[qs[q].compiler]
    <3>1. qs[q].compiler \in made /\ qs[q].compiler \in Compiler
      BY <2>2 DEF TypeInv, TypeOK
    <3> QED
      BY <1>1, <3>1 DEF RunInTransaction, TypeInv, TypeOK
  <2> QED
    BY <2>1, <2>2, PushHomes
<1>2. ASSUME NEW p \in Proc, NEW q \in QuerySet, StartTransaction(p, q) \/ StartWrite(p, q)
      PROVE  HomesPoint'
  <2>1. /\ CallerRuns(p) /\ UNCHANGED <<qs, home, handles, transaction>> /\ \E f : Push(p, f)
    BY <1>2 DEF StartTransaction, StartWrite, MayCall, history
  <2> QED
    BY <2>1, PushHomes
<1>3. CASE UNCHANGED <<transaction, qs, stack, handles, home>>
  BY <1>3 DEF HomesPoint, HomePoints, ReturnsFrom, InCall, Top, InTransaction
<1>4. ASSUME NEW p \in Proc, NEW r \in Row, Execute(p, r)
      PROVE  HomesPoint'
  BY <1>3, <1>4 DEF Execute
<1>5. ASSUME NEW t \in Tx, Cancel(t)
      PROVE  HomesPoint'
  BY <1>3, <1>5 DEF Cancel, history
<1>6. CASE UNCHANGED vars
  BY <1>3, <1>6 DEF vars, history
<1>7. \A p \in Proc : \A q, n \in QuerySet : ~Clone(p, q, n)
  BY DEF Clone
<1> QED
  BY <1>1, <1>2, <1>4, <1>5, <1>6, <1>7, GetQuerySetHomes, WithContextHomes, RunEndsHomes,
     EndTransactionHomes, BindTransactionHomes, WriteFailsHomes, WriteCommitsHomes,
     WriteReturnsHomes DEF Next, WriteStep

LEMMA RowsOwnedNext ==
  ASSUME TypeInv, PointerInv, WholeInv, [Next]_vars
  PROVE  RowsOwned'
<1> USE DEF WholeInv
<1>1. ASSUME NEW t \in Tx, Begin(t), UNCHANGED via
      PROVE  RowsOwned'
  <2>1. \A u \in Tx : status'[u] = "committed" <=> status[u] = "committed"
    BY <1>1 DEF Begin, TypeInv, TypeOK
  <2> QED
    BY <1>1, <2>1, RowsKept DEF Begin
<1>2. CASE UNCHANGED <<database, via>>
  BY <1>2, RowsKept DEF database
<1>3. ASSUME NEW p \in Proc, NEW context \in Contexts(p), RunInTransaction(p, context)
      PROVE  RowsOwned'
  BY <1>1, <1>2, <1>3 DEF RunInTransaction
<1>4. ASSUME NEW p \in Proc, NEW q \in QuerySet, StartTransaction(p, q) \/ StartWrite(p, q)
      PROVE  RowsOwned'
  BY <1>1, <1>2, <1>4 DEF StartTransaction, StartWrite, history
<1>5. ASSUME NEW p \in Proc, NEW q \in QuerySet,
             \/ \E context \in Contexts(p) :
                   GetQuerySet(p, q, context) \/ WithContext(p, q, context)
             \/ \E x \in QuerySet : Clone(p, q, x)
      PROVE  RowsOwned'
  BY <1>2, <1>5 DEF GetQuerySet, WithContext, Clone
<1>6. ASSUME NEW p \in Proc,
             RunCommits(p) \/ RunRollsBack(p) \/ WriteCommits(p) \/ WriteReturns(p)
      PROVE  RowsOwned'
  <2>1. /\ stack[p] # <<>> /\ UNCHANGED via
        /\ Rollback(Top(p).tx) \/ \E err \in BOOLEAN : Commit(Top(p).tx, err)
    BY <1>6 DEF RunCommits, RunRollsBack, WriteCommits, WriteReturns, InCall
  <2>2. PICK w \in Wrapped : w = Top(p).tx
    BY <2>1, CallsAt
  <2> QED
    BY <2>1, <2>2, RowsEnd
<1>7. ASSUME NEW p \in Proc, WriteFails(p) \/ BindTransaction(p)
      PROVE  RowsOwned'
  BY <1>2, <1>7 DEF WriteFails, BindTransaction, history
<1>8. ASSUME NEW p \in Proc, NEW h \in handles, EndTransaction(p, h)
      PROVE  RowsOwned'
  <2>1. PICK w \in Wrapped : w = h.tx
    BY DEF TypeInv, TypeOK, Handles
  <2>2. UNCHANGED via /\ (Rollback(w) \/ \E err \in BOOLEAN : Commit(w, err))
    BY <1>8, <2>1 DEF EndTransaction
  <2> QED
    BY <2>2, RowsEnd
<1>9. ASSUME NEW t \in Tx, Cancel(t)
      PROVE  RowsOwned'
  <2>1. \A u \in Tx : status'[u] = "committed" <=> status[u] = "committed"
    BY <1>9 DEF Cancel, TypeInv, TypeOK
  <2> QED
    BY <1>9, <2>1, RowsKept DEF Cancel, history
<1>10. CASE UNCHANGED vars
  BY <1>2, <1>10 DEF vars, history
<1> QED
  BY <1>3, <1>4, <1>5, <1>6, <1>7, <1>8, <1>9, <1>10, ExecuteRows DEF Next, WriteStep

\* All or nothing: for any number of goroutines with querysets of their own, the
\* rows written with a queryset while it was in a transaction are in the database
\* exactly when that transaction was committed, whatever was nested in a
\* RunInTransaction, given another context, failed or cancelled.  A queryset in a
\* transaction is not told to start another, and querysets are not cloned: a clone
\* moves with the compiler it shares, whatever its own context says.
THEOREM WritesAreAllOrNothing ==
  ~Nested /\ ~Shared /\ ~Cloned => (Spec => []AllOrNothing)
<1> SUFFICES ASSUME ~Nested, ~Shared, ~Cloned PROVE Spec => []AllOrNothing
  OBVIOUS
<1> DEFINE Inv == TypeInv /\ HolderInv /\ PointerInv /\ WholeInv
<1>1. Init => Inv
  BY TypeInvInit, HolderInvInit, PointerInvInit, WholeInvInit
<1>2. Inv /\ [Next]_vars => Inv'
  BY TypeInvNext, HolderInvNext, PointerInvNext, HomesNext, RowsOwnedNext DEF WholeInv
<1>3. Inv => AllOrNothing
  <2> SUFFICES ASSUME Inv, NEW r \in Written
               PROVE  r \in db <=> \E t \in Tx : via[r] = t /\ status[t] = "committed"
    BY DEF AllOrNothing
  <2>1. RowsOwned /\ Written \subseteq Row
    BY DEF WholeInv, Written, TypeInv, TypeOK
  <2>2. PICK t \in Tx : r \in rows[t]
    BY <2>1 DEF RowsOwned, Written
  <2>3. via[r] = t
    BY <2>1, <2>2 DEF RowsOwned
  <2>4. r \in db <=> \E u \in Tx : status[u] = "committed" /\ r \in rows[u]
    BY <2>1 DEF RowsOwned
  <2>5. \A u \in Tx : r \in rows[u] => via[r] = u
    BY <2>1 DEF RowsOwned
  <2> QED
    BY <2>2, <2>3, <2>4, <2>5
<1> QED
  BY <1>1, <1>2, <1>3, PTL DEF Spec

=============================================================================
