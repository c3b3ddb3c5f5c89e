-------------------------- MODULE QuerySetsProofs --------------------------
(***************************************************************************)
(* Proofs about the conditions of querysets, for every number of variables *)
(* and keys, every set of conditions and selections and every tree of      *)
(* relations.                                                              *)
(***************************************************************************)
EXTENDS QuerySets, FiniteSetTheorems, SequenceTheorems, TLAPS

Cond == (SUBSET Keys) \union {None}
Heaps == [Array -> Seq(Cond)]

-----------------------------------------------------------------------------
(* The inductive invariant. *)

\* Slice w has as many conditions as m, the first three of m, and room for
\* more from the third condition on only: append writes behind these three.
Good(h, w, m) ==
    /\ w \in Slices /\ w.len <= Len(h[w.arr]) /\ Len(m) = w.len
    /\ w.len < Len(h[w.arr]) => w.len >= Own
    /\ \A i \in 1 .. w.len : i <= Own => h[w.arr][i] = m[i]

Assigned(q) == qs[q] # None
AllGood(h) == \A q \in QS : Assigned(q) => Good(h, qs[q].where, meant[q])

IInv ==
    /\ heap \in Heaps
    /\ DOMAIN qs = QS /\ meant \in [QS -> Seq(SUBSET Keys)]
    /\ \A q \in QS : Assigned(q) => "where" \in DOMAIN qs[q]
    /\ AllGood(heap)
    /\ \A a \in Array : heap[a] # <<>> => a \in Held(qs)

-----------------------------------------------------------------------------
(* Arrays. *)

LEMMA FreeIsFree ==
  ASSUME IInv, NEW h, NEW c \in Array,
         \A a \in Array : h[a] # <<>> => a \in Held(qs) \union {c}
  PROVE  Free(h) \in Array /\ h[Free(h)] = <<>> /\ Free(h) \notin Held(qs)
<1> DEFINE D == {x \in QS : qs[x] # None}
           f == [x \in D |-> qs[x].where.arr]
           S == Held(qs) \union {c}
<1>1. IsFiniteSet(D) /\ Cardinality(D) <= Cardinality(QS)
  BY ArrayAssumption, FS_Subset
<1>2. Held(qs) = {f[x] : x \in D}
  BY DEF Held
<1>3. IsFiniteSet(Held(qs)) /\ Cardinality(Held(qs)) <= Cardinality(D)
  <2> HIDE DEF D
  <2>1. f \in Surjection(D, {f[x] : x \in D})
    BY DEF Surjection
  <2> QED
    BY <1>1, <1>2, <2>1, FS_Surjection
<1>4. IsFiniteSet(S) /\ Cardinality(S) <= Cardinality(QS) + 1
  <2>1. Cardinality(D) \in Nat /\ Cardinality(QS) \in Nat /\ Cardinality(Held(qs)) \in Nat
    BY <1>1, <1>3, ArrayAssumption, FS_CardinalityType
  <2>2. IsFiniteSet(S) /\ Cardinality(S) = (IF c \in Held(qs) THEN Cardinality(Held(qs)) ELSE Cardinality(Held(qs)) + 1)
    BY <1>3, FS_AddElement
  <2> QED
    BY <1>1, <1>3, <2>1, <2>2
<1>5. S \subseteq Array
  BY DEF Held, IInv, AllGood, Assigned, Good, Slices
<1>6. PICK a \in Array : a \notin S
  BY <1>4, <1>5, ArrayAssumption
<1>7. h[a] = <<>> /\ a \notin Held(qs)
  BY <1>6
<1> QED
  BY <1>6, <1>7 DEF Free

\* The elements of a slice.
LEMMA CellsOf ==
  ASSUME NEW h \in Heaps, NEW w \in Slices, w.len <= Len(h[w.arr])
  PROVE  /\ Cells(h, w) \in Seq(Cond) /\ Len(Cells(h, w)) = w.len
         /\ \A i \in 1 .. w.len : Cells(h, w)[i] = h[w.arr][i]
<1>1. w.arr \in Array /\ w.len \in Nat /\ h[w.arr] \in Seq(Cond)
  BY DEF Heaps, Slices
<1>2. \A i \in 1 .. w.len : h[w.arr][i] \in Cond
  <2>1. \A i \in 1 .. Len(h[w.arr]) : h[w.arr][i] \in Cond
    BY <1>1, ElementOfSeq
  <2> QED
    BY <1>1, <2>1, LenProperties
<1>3. Cells(h, w) = [i \in 1 .. w.len |-> h[w.arr][i]]
  BY <1>1 DEF Cells
<1> QED
  BY SMTT(60), <1>1, <1>2, <1>3, IsASeq

\* append to a slice of a sound heap: the slice grows by the condition, and
\* no other loses its first three.
LEMMA PushIsGood ==
  ASSUME IInv, NEW h \in Heaps, AllGood(h), NEW c \in Array,
         \A a \in Array : h[a] # <<>> => a \in Held(qs) \union {c},
         NEW w, NEW m \in Seq(SUBSET Keys), Good(h, w, m),
         NEW s \in SUBSET Keys
  PROVE  LET p == Push(h, w, s)
         IN  /\ p.heap \in Heaps /\ AllGood(p.heap)
             /\ Good(p.heap, p.where, Append(m, s))
<1> DEFINE n == w.len + 1
           old == Len(h[w.arr])
           cap == IF 2 * old > n THEN 2 * old ELSE n
           grown == [i \in 1 .. cap |-> IF i <= w.len THEN h[w.arr][i]
                                        ELSE IF i = n THEN s ELSE None]
           p == Push(h, w, s)
<1>1. /\ w.arr \in Array /\ w.len \in Nat /\ h[w.arr] \in Seq(Cond) /\ old \in Nat
      /\ w.len <= old
  BY LenProperties DEF Good, Slices, Heaps
<1>2. /\ Append(m, s) \in Seq(SUBSET Keys) /\ Len(Append(m, s)) = n
      /\ \A i \in 1 .. w.len : Append(m, s)[i] = m[i]
      /\ Append(m, s)[n] = s
  BY <1>1, AppendProperties, LenProperties DEF Good
<1>3. CASE n <= old
  <2>1. p = [heap |-> [h EXCEPT ![w.arr][n] = s], where |-> [w EXCEPT !.len = n]]
    BY <1>3 DEF Push
  <2> DEFINE g == [h EXCEPT ![w.arr][n] = s]
             t == [h[w.arr] EXCEPT ![n] = s]
  <2>2. /\ t \in Seq(Cond) /\ Len(t) = old
        /\ t[n] = s /\ \A i \in 1 .. old : i # n => t[i] = h[w.arr][i]
    BY <1>1, <1>3, ExceptSeq DEF Cond
  <2>3. g \in Heaps /\ g[w.arr] = t /\ \A a \in Array : a # w.arr => g[a] = h[a]
    BY <1>1, <2>2 DEF Heaps
  <2>4. w.len >= Own
    BY <1>1, <1>3 DEF Good
  <2>5. AllGood(g)
    <3> SUFFICES ASSUME NEW q \in QS, Assigned(q) PROVE Good(g, qs[q].where, meant[q])
      BY DEF AllGood
    <3>1. Good(h, qs[q].where, meant[q])
      BY DEF AllGood
    <3>2. CASE qs[q].where.arr # w.arr
      BY <2>3, <3>1, <3>2 DEF Good, Slices
    <3>3. CASE qs[q].where.arr = w.arr
      BY <1>1, <2>2, <2>3, <2>4, <3>1, <3>3 DEF Good, Slices, Own
    <3> QED
      BY <3>2, <3>3
  <2>6. Good(g, [w EXCEPT !.len = n], Append(m, s))
    <3>1. [w EXCEPT !.len = n] \in Slices /\ [w EXCEPT !.len = n].len = n
          /\ [w EXCEPT !.len = n].arr = w.arr
      BY <1>1 DEF Good, Slices
    <3> QED
      BY <1>1, <1>2, <1>3, <2>2, <2>3, <2>4, <3>1 DEF Good, Own
  <2> QED
    BY <2>1, <2>3, <2>5, <2>6
<1>4. CASE ~(n <= old)
  <2> DEFINE a == Free(h)
             g == [h EXCEPT ![a] = grown]
  <2>1. p = [heap |-> g, where |-> [arr |-> a, len |-> n]]
    BY <1>4 DEF Push
  <2>2. a \in Array /\ a \notin Held(qs)
    BY FreeIsFree
  <2>3. old = w.len
    BY <1>1, <1>4
  <2>4. cap \in Nat /\ n <= cap /\ (n < cap => n >= Own)
    BY <1>1, <2>3 DEF Own
  <2>5. /\ grown \in Seq(Cond) /\ Len(grown) = cap
        /\ \A i \in 1 .. w.len : grown[i] = h[w.arr][i]
        /\ grown[n] = s
    <3>1. \A i \in 1 .. w.len : h[w.arr][i] \in Cond
      <4>1. \A i \in 1 .. old : h[w.arr][i] \in Cond
        BY <1>1, ElementOfSeq
      <4> QED
        BY <2>3, <4>1
    <3>2. \A i \in 1 .. cap : (IF i <= w.len THEN h[w.arr][i]
                               ELSE IF i = n THEN s ELSE None) \in Cond
      BY <1>1, <3>1 DEF Cond
    <3>3. grown \in Seq(Cond) /\ Len(grown) = cap
      <4> HIDE DEF cap
      <4> QED
        BY <2>4, <3>2, IsASeq
    <3> QED
      BY <1>1, <2>4, <3>3
  <2> HIDE DEF grown, cap
  <2>6. g \in Heaps /\ g[a] = grown /\ \A b \in Array : b # a => g[b] = h[b]
    BY <2>2, <2>5 DEF Heaps
  <2>7. AllGood(g)
    <3> SUFFICES ASSUME NEW q \in QS, Assigned(q) PROVE Good(g, qs[q].where, meant[q])
      BY DEF AllGood
    <3>1. qs[q].where.arr \in Held(qs) /\ qs[q].where.arr # a
      BY <2>2 DEF Held, Assigned
    <3> QED
      BY <2>6, <3>1 DEF AllGood, Good, Slices
  <2>8. Good(g, [arr |-> a, len |-> n], Append(m, s))
    <3>1. ASSUME NEW i \in 1 .. n, i <= Own PROVE grown[i] = Append(m, s)[i]
      <4>1. CASE i = n
        BY <1>2, <2>5, <4>1
      <4>2. CASE i # n
        <5>1. i \in 1 .. w.len
          BY <1>1, <4>2
        <5> QED
          BY <1>2, <2>5, <3>1, <5>1 DEF Good
      <4> QED
        BY <4>1, <4>2
    <3> QED
      BY <1>1, <1>2, <2>2, <2>4, <2>5, <2>6, <3>1 DEF Good, Slices
  <2> QED
    BY <2>1, <2>6, <2>7, <2>8
<1> QED
  BY <1>3, <1>4

\* A clone has an array of its own, with the same conditions.
LEMMA CloneIsGood ==
  ASSUME IInv, NEW q \in QS, Assigned(q)
  PROVE  LET k == Clone(q)
         IN  /\ k.heap \in Heaps /\ AllGood(k.heap)
             /\ "where" \in DOMAIN k.set /\ Good(k.heap, k.set.where, meant[q])
             /\ k.set.where.arr \in Array
             /\ \A a \in Array :
                   k.heap[a] # <<>> => a \in Held(qs) \union {k.set.where.arr}
<1> DEFINE w == qs[q].where
           a == Free(heap)
           cells == Cells(heap, w)
           g == [heap EXCEPT ![a] = cells]
           u == [arr |-> a, len |-> w.len]
           r == [qs[q] EXCEPT !.where = u, !.cached = None, !.holder = FALSE]
           k == Clone(q)
<1>1. "where" \in DOMAIN qs[q] /\ Good(heap, w, meant[q])
  BY DEF IInv, AllGood
<1>2. w \in Slices /\ w.len \in Nat /\ heap \in Heaps /\ Len(meant[q]) = w.len
  BY <1>1 DEF Good, Slices, IInv
<1>3. cells \in Seq(Cond) /\ Len(cells) = w.len
      /\ \A i \in 1 .. w.len : cells[i] = heap[w.arr][i]
  BY <1>1, <1>2, CellsOf DEF Good
<1>4. a \in Array /\ a \notin Held(qs)
  <2>1. w.arr \in Array
    BY <1>2 DEF Slices
  <2>2. \A x \in Array : heap[x] # <<>> => x \in Held(qs) \union {w.arr}
    BY DEF IInv
  <2> QED
    BY <2>1, <2>2, FreeIsFree
<1>5. k = [heap |-> g, set |-> r]
  BY DEF Clone, Copied
<1> HIDE DEF a, cells, k
<1>6. "where" \in DOMAIN r /\ r.where = u
  BY <1>1
<1>7. g \in Heaps /\ g[a] = cells /\ \A x \in Array : x # a => g[x] = heap[x]
  BY <1>2, <1>3, <1>4 DEF Heaps
<1>8. AllGood(g)
  <2> SUFFICES ASSUME NEW p \in QS, Assigned(p) PROVE Good(g, qs[p].where, meant[p])
    BY DEF AllGood
  <2>1. qs[p].where.arr \in Held(qs) /\ qs[p].where.arr # a
    BY <1>4 DEF Held, Assigned
  <2>2. Good(heap, qs[p].where, meant[p])
    BY DEF IInv, AllGood
  <2> QED
    BY <1>7, <2>1, <2>2 DEF Good, Slices
<1>9. Good(g, u, meant[q])
  BY <1>1, <1>2, <1>3, <1>4, <1>7 DEF Good, Slices
<1>10. \A x \in Array : g[x] # <<>> => x \in Held(qs) \union {a}
  BY <1>7 DEF IInv
<1> HIDE DEF g, r
<1> QED
  BY <1>4, <1>5, <1>6, <1>7, <1>8, <1>9, <1>10 DEF k

-----------------------------------------------------------------------------
(* Steps. *)

\* An assignment of a good queryset keeps the invariant.
LEMMA AssignKeeps ==
  ASSUME IInv, NEW q \in QS, NEW r, NEW h \in Heaps, NEW m \in Seq(SUBSET Keys),
         "where" \in DOMAIN r, AllGood(h), Good(h, r.where, m),
         Assign(q, r, h), meant' = [meant EXCEPT ![q] = m]
  PROVE  IInv'
<1>1. qs' = [qs EXCEPT ![q] = r] /\ DOMAIN qs' = QS /\ qs'[q] = r
      /\ \A p \in QS : p # q => qs'[p] = qs[p]
  BY DEF Assign, IInv
<1>2. heap' = [a \in Array |-> IF a \in Held(qs') THEN h[a] ELSE <<>>]
  BY DEF Assign
<1>3. meant' \in [QS -> Seq(SUBSET Keys)] /\ meant'[q] = m
      /\ \A p \in QS : p # q => meant'[p] = meant[p]
  BY DEF IInv
<1>4. heap' \in Heaps
  BY <1>2, EmptySeq DEF Heaps
<1>5. \A p \in QS : qs'[p] # None => "where" \in DOMAIN qs'[p]
  BY <1>1 DEF IInv, Assigned
<1>6. ASSUME NEW p \in QS, qs'[p] # None
      PROVE  Good(heap', qs'[p].where, meant'[p])
  <2>1. Good(h, qs'[p].where, meant'[p])
    <3>1. CASE p = q
      BY <1>1, <1>3, <3>1
    <3>2. CASE p # q
      BY <1>1, <1>3, <1>6, <3>2 DEF AllGood, Assigned
    <3> QED
      BY <3>1, <3>2
  <2>2. qs'[p].where.arr \in Array /\ qs'[p].where.arr \in Held(qs')
    BY <1>6, <2>1 DEF Held, Good, Slices
  <2>3. heap'[qs'[p].where.arr] = h[qs'[p].where.arr]
    BY <1>2, <2>2
  <2> QED
    BY <2>1, <2>3 DEF Good
<1>7. \A a \in Array : heap'[a] # <<>> => a \in Held(qs')
  BY <1>2
<1> QED
  BY <1>1, <1>3, <1>4, <1>5, <1>6, <1>7 DEF IInv, AllGood, Assigned, Held, Heaps

\* The same for a queryset that keeps the conditions that it had.
LEMMA AssignSame ==
  ASSUME IInv, NEW q \in QS, NEW d \in QS, Assigned(q), NEW r, NEW h,
         \/ /\ h = Clone(q).heap /\ "where" \in DOMAIN r
            /\ r.where = Clone(q).set.where
         \/ h = heap /\ "where" \in DOMAIN r /\ r.where = qs[q].where,
         Assign(d, r, h), meant' = [meant EXCEPT ![d] = meant[q]]
  PROVE  IInv'
<1>1. meant[q] \in Seq(SUBSET Keys) /\ heap \in Heaps
  BY DEF IInv
<1>2. AllGood(heap) /\ Good(heap, qs[q].where, meant[q])
  BY DEF IInv, AllGood
<1>3. h \in Heaps /\ "where" \in DOMAIN r /\ AllGood(h) /\ Good(h, r.where, meant[q])
  BY <1>1, <1>2, CloneIsGood
<1> QED
  BY <1>1, <1>3, AssignKeeps

\* Fields beside the conditions may change.
LEMMA SelectKeepsWhere ==
  ASSUME NEW r, NEW items, "where" \in DOMAIN r
  PROVE  "where" \in DOMAIN SelectOn(r, items) /\ SelectOn(r, items).where = r.where
BY DEF SelectOn

LEMMA AnnotateKeepsWhere ==
  ASSUME NEW r, "where" \in DOMAIN r
  PROVE  "where" \in DOMAIN AnnotateOn(r) /\ AnnotateOn(r).where = r.where
BY DEF AnnotateOn

LEMMA KeptKeepsWhere ==
  ASSUME NEW h, NEW r, NEW kind, NEW value, "where" \in DOMAIN r
  PROVE  "where" \in DOMAIN Kept(h, r, kind, value) /\ Kept(h, r, kind, value).where = r.where
BY DEF Kept

\* What a queryset is when it runs: itself or a clone, with its conditions.
Prepares(q, p) ==
    /\ "where" \in DOMAIN p.set
    /\ \/ p.heap = Clone(q).heap /\ p.set.where = Clone(q).set.where
       \/ p.heap = heap /\ p.set.where = qs[q].where

LEMMA PreparedPrepares ==
  ASSUME IInv, NEW q \in QS, Assigned(q), NEW items
  PROVE  Prepares(q, Prepared(q, items))
<1> DEFINE k == Clone(q)
           p == Prepared(q, items)
           s == SelectOn(k.set, IF items # <<>> THEN items ELSE <<Everything>>)
<1>1. "where" \in DOMAIN k.set /\ "where" \in DOMAIN qs[q]
  BY CloneIsGood DEF IInv
<1>2. \/ p = [heap |-> k.heap, set |-> s]
      \/ p = [heap |-> heap, set |-> qs[q]]
  BY DEF Prepared, Clone
<1>3. "where" \in DOMAIN s /\ s.where = k.set.where
  BY <1>1, SelectKeepsWhere
<1> HIDE DEF k, p, s
<1>4. CASE p = [heap |-> k.heap, set |-> s]
  BY <1>3, <1>4 DEF Prepares, k, p
<1>5. CASE p = [heap |-> heap, set |-> qs[q]]
  BY <1>1, <1>5 DEF Prepares, p
<1> QED
  BY <1>2, <1>4, <1>5 DEF p

LEMMA LimitedPrepares ==
  ASSUME IInv, NEW q \in QS, Assigned(q), NEW n, NEW order
  PROVE  Prepares(q, Limited(q, n, order))
<1> DEFINE k == Clone(q)
           r == [k.set EXCEPT !.limit = n, !.order = order]
           s == SelectOn(r, <<Everything>>)
           p == Limited(q, n, order)
<1>1. "where" \in DOMAIN k.set
  BY CloneIsGood
<1>2. "where" \in DOMAIN r /\ r.where = k.set.where
  BY <1>1
<1>3. "where" \in DOMAIN s /\ s.where = k.set.where
  BY <1>2, SelectKeepsWhere
<1>4. p = [heap |-> k.heap, set |-> IF r.items = <<>> THEN s ELSE r]
  BY DEF Limited
<1> HIDE DEF k, r, s, p
<1> QED
  BY <1>2, <1>3, <1>4 DEF Prepares, k, p

LEMMA RunKeeps ==
  ASSUME IInv, NEW q \in QS, Assigned(q), NEW p, Prepares(q, p), NEW r,
         "where" \in DOMAIN r, r.where = p.set.where,
         Assign(q, r, p.heap), UNCHANGED meant
  PROVE  IInv'
<1>1. meant' = [meant EXCEPT ![q] = meant[q]]
  BY DEF IInv
<1> QED
  BY <1>1, AssignSame DEF Prepares

-----------------------------------------------------------------------------
(* Each call keeps the invariant. *)

LEMMA MakeKeeps ==
  ASSUME IInv, NEW q \in QS, NEW d \in QS, NEW r, Make(q, d, r),
         "where" \in DOMAIN r, r.where = Clone(q).set.where
  PROVE  IInv'
BY AssignSame DEF Make, Assigned

LEMMA MakesKeep ==
  ASSUME IInv, NEW q \in QS, NEW d \in QS, Makes(q, d)
  PROVE  IInv'
<1> DEFINE s == Clone(q).set
<1>0. Assigned(q)
  BY DEF Makes, Limit, Offset, OrderBy, Backwards, Select, Annotate, Filter, Make, Assigned
<1>1. "where" \in DOMAIN s
  BY <1>0, CloneIsGood
<1> HIDE DEF s
<1>2. ASSUME NEW n, Limit(q, d, n) \/ Offset(q, d, n) PROVE IInv'
  <2>1. CASE Limit(q, d, n)
    <3> DEFINE r == [s EXCEPT !.limit = n]
    <3>1. "where" \in DOMAIN r /\ r.where = s.where
      BY <1>1
    <3> QED
      BY <2>1, <3>1, MakeKeeps DEF Limit, s
  <2>2. CASE Offset(q, d, n)
    <3> DEFINE r == [s EXCEPT !.offset = n]
    <3>1. "where" \in DOMAIN r /\ r.where = s.where
      BY <1>1
    <3> QED
      BY <2>2, <3>1, MakeKeeps DEF Offset, s
  <2> QED
    BY <1>2, <2>1, <2>2
<1>3. ASSUME NEW o, OrderBy(q, d, o) PROVE IInv'
  <2> DEFINE r == [s EXCEPT !.order = o]
  <2>1. "where" \in DOMAIN r /\ r.where = s.where
    BY <1>1
  <2> QED
    BY <1>3, <2>1, MakeKeeps DEF OrderBy, s
<1>4. ASSUME Backwards(q, d) PROVE IInv'
  <2> DEFINE r == [s EXCEPT !.order = Flipped(@)]
  <2>1. "where" \in DOMAIN r /\ r.where = s.where
    BY <1>1
  <2> QED
    BY <1>4, <2>1, MakeKeeps DEF Backwards, s
<1>5. ASSUME NEW items, Select(q, d, items) PROVE IInv'
  <2>1. Make(q, d, SelectOn(s, items))
    BY <1>5 DEF Select, s
  <2>2. "where" \in DOMAIN SelectOn(s, items) /\ SelectOn(s, items).where = s.where
    BY <1>1, SelectKeepsWhere
  <2> QED
    BY <2>1, <2>2, MakeKeeps DEF s
<1>6. ASSUME Annotate(q, d) PROVE IInv'
  <2>1. Make(q, d, AnnotateOn(s))
    BY <1>6 DEF Annotate, s
  <2>2. "where" \in DOMAIN AnnotateOn(s) /\ AnnotateOn(s).where = s.where
    BY <1>1, AnnotateKeepsWhere
  <2> QED
    BY <2>1, <2>2, MakeKeeps DEF s
<1>7. ASSUME NEW c \in Conditions, Filter(q, d, c) PROVE IInv'
  <2> DEFINE w == Push(heap, qs[q].where, c)
             r == [s EXCEPT !.where = w.where]
             m == Append(meant[q], c)
  <2>1. c \in SUBSET Keys /\ meant[q] \in Seq(SUBSET Keys) /\ heap \in Heaps
    BY ConditionsAssumption DEF IInv
  <2>2. AllGood(heap) /\ Good(heap, qs[q].where, meant[q])
    BY <1>0 DEF IInv, AllGood
  <2>3. qs[q].where.arr \in Array
        /\ \A a \in Array : heap[a] # <<>> => a \in Held(qs) \union {qs[q].where.arr}
    BY <2>2 DEF Good, Slices, IInv
  <2>4. w.heap \in Heaps /\ AllGood(w.heap) /\ Good(w.heap, w.where, m)
    BY <2>1, <2>2, <2>3, PushIsGood
  <2>5. m \in Seq(SUBSET Keys)
    BY <2>1, AppendProperties
  <2>6. Assign(d, r, w.heap) /\ meant' = [meant EXCEPT ![d] = m]
    BY <1>7 DEF Filter, s
  <2> HIDE DEF w, m
  <2>7. "where" \in DOMAIN r /\ r.where = w.where
    BY <1>1
  <2> QED
    BY <2>4, <2>5, <2>6, <2>7, AssignKeeps
<1> QED
  BY <1>2, <1>3, <1>4, <1>5, <1>6, <1>7 DEF Makes

LEMMA ScopeKeeps ==
  ASSUME IInv, NEW q \in QS, NEW c \in Conditions, Scope(q, c)
  PROVE  IInv'
<1> DEFINE k == Clone(q)
           w == Push(k.heap, k.set.where, c)
           r == [k.set EXCEPT !.where = w.where]
           m == Append(meant[q], c)
<1>1. c \in SUBSET Keys /\ meant[q] \in Seq(SUBSET Keys) /\ Assigned(q)
  BY ConditionsAssumption DEF IInv, Scope, Assigned
<1>2. /\ k.heap \in Heaps /\ AllGood(k.heap)
      /\ "where" \in DOMAIN k.set /\ Good(k.heap, k.set.where, meant[q])
      /\ k.set.where.arr \in Array
      /\ \A a \in Array :
            k.heap[a] # <<>> => a \in Held(qs) \union {k.set.where.arr}
  BY <1>1, CloneIsGood
<1>3. m \in Seq(SUBSET Keys)
  BY <1>1, AppendProperties
<1>4. Assign(q, r, w.heap) /\ meant' = [meant EXCEPT ![q] = m]
  BY DEF Scope, IInv
<1> HIDE DEF k
<1>5. w.heap \in Heaps /\ AllGood(w.heap) /\ Good(w.heap, w.where, m)
  BY <1>1, <1>2, PushIsGood
<1> HIDE DEF w, m
<1>6. "where" \in DOMAIN r /\ r.where = w.where
  BY <1>2
<1> QED
  BY <1>3, <1>4, <1>5, <1>6, AssignKeeps

\* Without a change of a queryset.
LEMMA NothingKeeps ==
  ASSUME IInv, UNCHANGED <<heap, qs, meant>>
  PROVE  IInv'
BY DEF IInv, AllGood, Assigned, Held, Heaps, Good

LEMMA ReadsKeep ==
  ASSUME IInv, NEW q \in QS, Reads(q)
  PROVE  IInv'
<1>1. ASSUME NEW op, NEW kind, FromCache(op, q, kind) PROVE IInv'
  BY <1>1, NothingKeeps DEF FromCache
<1>2. ASSUME All(q) PROVE IInv'
  <2> DEFINE p == Prepared(q, <<>>)
  <2>1. Assigned(q) /\ Assign(q, p.set, p.heap) /\ UNCHANGED meant
    BY <1>2 DEF All, Assigned
  <2>2. Prepares(q, p)
    BY <2>1, PreparedPrepares
  <2> HIDE DEF p
  <2> QED
    BY <2>1, <2>2, RunKeeps DEF Prepares
<1>3. ASSUME Get(q) PROVE IInv'
  <2> DEFINE p == Limited(q, GetLimit, qs[q].order)
  <2>1. Assigned(q) /\ UNCHANGED meant
    BY <1>3 DEF Get, Assigned
  <2>2. Prepares(q, p)
    BY <2>1, LimitedPrepares
  <2>3. \E r : /\ Assign(q, r, p.heap)
               /\ r = p.set \/ \E v : r = Kept(p.heap, p.set, "row", v)
    BY <1>3 DEF Get
  <2> HIDE DEF p
  <2>4. PICK r : /\ Assign(q, r, p.heap)
                 /\ r = p.set \/ \E v : r = Kept(p.heap, p.set, "row", v)
    BY <2>3
  <2>5. "where" \in DOMAIN r /\ r.where = p.set.where
    BY <2>2, <2>4, KeptKeepsWhere DEF Prepares
  <2> QED
    BY <2>1, <2>2, <2>4, <2>5, RunKeeps
<1>4. ASSUME NEW op, NEW order, FirstOf(op, q, order) PROVE IInv'
  <2> DEFINE p == Limited(q, 1, order)
  <2>1. Assigned(q) /\ Assign(q, p.set, p.heap) /\ UNCHANGED meant
    BY <1>4 DEF FirstOf, Assigned
  <2>2. Prepares(q, p)
    BY <2>1, LimitedPrepares
  <2> HIDE DEF p
  <2> QED
    BY <2>1, <2>2, RunKeeps DEF Prepares
<1>5. ASSUME NEW kind, NEW items, Values(q, kind, items) PROVE IInv'
  <2> DEFINE p == Prepared(q, items)
  <2>1. Assigned(q) /\ UNCHANGED meant
    BY <1>5 DEF Values, Assigned
  <2>2. Prepares(q, p)
    BY <2>1, PreparedPrepares
  <2>3. \E r : /\ Assign(q, r, p.heap)
               /\ r = p.set \/ \E v : r = Kept(p.heap, p.set, kind, v)
    BY <1>5 DEF Values
  <2> HIDE DEF p
  <2>4. PICK r : /\ Assign(q, r, p.heap)
                 /\ r = p.set \/ \E v : r = Kept(p.heap, p.set, kind, v)
    BY <2>3
  <2>5. "where" \in DOMAIN r /\ r.where = p.set.where
    BY <2>2, <2>4, KeptKeepsWhere DEF Prepares
  <2> QED
    BY <2>1, <2>2, <2>4, <2>5, RunKeeps
<1>6. ASSUME Aggregate(q) PROVE IInv'
  <2> DEFINE e == [qs[q] EXCEPT !.items = <<>>]
             s == AnnotateOn(e)
             p == [heap |-> heap, set |-> s]
  <2>1. Assigned(q) /\ UNCHANGED meant
    BY <1>6 DEF Aggregate, Assigned
  <2>2. "where" \in DOMAIN qs[q]
    BY <2>1 DEF IInv
  <2>3. "where" \in DOMAIN e /\ e.where = qs[q].where
    BY <2>2
  <2>4. "where" \in DOMAIN s /\ s.where = qs[q].where
    BY <2>3, AnnotateKeepsWhere
  <2>5. \E r : /\ Assign(q, r, heap)
               /\ r = s \/ \E v : r = Kept(heap, s, "map", v)
    BY <1>6 DEF Aggregate
  <2> HIDE DEF e, s
  <2>6. PICK r : /\ Assign(q, r, heap)
                 /\ r = s \/ \E v : r = Kept(heap, s, "map", v)
    BY <2>5
  <2>7. "where" \in DOMAIN r /\ r.where = s.where
    BY <2>4, <2>6, KeptKeepsWhere
  <2>8. meant' = [meant EXCEPT ![q] = meant[q]]
    BY <2>1 DEF IInv
  <2> QED
    BY <2>1, <2>4, <2>6, <2>7, <2>8, AssignSame
<1>7. ASSUME Count(q) \/ Exists(q) PROVE IInv'
  BY <1>7, NothingKeeps DEF Count, Exists, Counts
<1> QED
  BY <1>1, <1>2, <1>3, <1>4, <1>5, <1>6, <1>7
     DEF Reads, Cachings, GetFirst, GetLast

\* The conditions of a Delete: those of the queryset and the objects.
LEMMA NarrowedIsGood ==
  ASSUME IInv, NEW q \in QS, NEW objs \in SUBSET Keys, Delete(q, objs)
  PROVE  LET w == Narrowed(q, objs)
         IN  /\ w.heap \in Heaps /\ AllGood(w.heap)
             /\ meant'[q] \in Seq(SUBSET Keys)
             /\ Good(w.heap, w.where, meant'[q])
             /\ meant' = [meant EXCEPT ![q] = meant'[q]]
             /\ objs # {} => meant'[q] = Append(meant[q], objs)
<1>1. /\ Assigned(q) /\ meant[q] \in Seq(SUBSET Keys) /\ heap \in Heaps
      /\ AllGood(heap) /\ Good(heap, qs[q].where, meant[q])
      /\ \A a \in Array : heap[a] # <<>> => a \in Held(qs) \union {qs[q].where.arr}
  BY DEF IInv, Delete, Assigned, AllGood
<1>2. CASE objs = {}
  <2>1. meant' = meant /\ Narrowed(q, objs) = [heap |-> heap, where |-> qs[q].where]
    BY <1>2 DEF Delete, Narrowed
  <2> QED
    BY <1>1, <1>2, <2>1 DEF IInv
<1>3. CASE objs # {}
  <2> DEFINE m == Append(meant[q], objs)
             w == Push(heap, qs[q].where, objs)
  <2>1. meant' = [meant EXCEPT ![q] = m] /\ Narrowed(q, objs) = w
    BY <1>3 DEF Delete, Narrowed
  <2>2. meant'[q] = m /\ m \in Seq(SUBSET Keys)
    BY <1>1, <2>1, AppendProperties DEF IInv
  <2>3. qs[q].where.arr \in Array
    BY <1>1 DEF Good, Slices
  <2>4. w.heap \in Heaps /\ AllGood(w.heap) /\ Good(w.heap, w.where, m)
    BY <1>1, <2>3, PushIsGood
  <2> HIDE DEF w, m
  <2> QED
    BY <2>1, <2>2, <2>4 DEF m
<1> QED
  BY <1>2, <1>3

LEMMA WritesKeep ==
  ASSUME IInv, NEW q \in QS, Writes(q)
  PROVE  IInv'
<1>1. ASSUME NEW objs \in SUBSET Keys, Delete(q, objs) PROVE IInv'
  <2> DEFINE w == Narrowed(q, objs)
             r == [qs[q] EXCEPT !.where = w.where]
  <2>1. /\ w.heap \in Heaps /\ AllGood(w.heap)
        /\ meant'[q] \in Seq(SUBSET Keys)
        /\ Good(w.heap, w.where, meant'[q])
        /\ meant' = [meant EXCEPT ![q] = meant'[q]]
    BY <1>1, NarrowedIsGood
  <2>2. Assign(q, r, w.heap) /\ "where" \in DOMAIN qs[q]
    BY <1>1 DEF Delete, IInv, Assigned
  <2> HIDE DEF w
  <2>3. "where" \in DOMAIN r /\ r.where = w.where
    BY <2>2
  <2> QED
    BY <2>1, <2>2, <2>3, AssignKeeps
<1>2. ASSUME NEW k \in Keys, GetOrCreate(q, k) PROVE IInv'
  <2>1. CASE UNCHANGED <<heap, qs>>
    BY <1>2, <2>1, NothingKeeps DEF GetOrCreate
  <2>2. CASE ~UNCHANGED <<heap, qs>>
    <3> DEFINE l == Limited(q, GetLimit, qs[q].order)
               r == [l.set EXCEPT !.useCache = FALSE]
    <3>1. Assigned(q) /\ UNCHANGED meant
      BY <1>2 DEF GetOrCreate, Assigned
    <3>2. Prepares(q, l)
      BY <3>1, LimitedPrepares
    <3>3. l = [heap |-> l.heap, set |-> l.set]
      BY DEF Limited
    <3> DEFINE p == [l EXCEPT !.set.useCache = FALSE]
    <3>4. p.heap = l.heap /\ p.set = r
      BY <3>3
    <3>5. Assign(q, p.set, p.heap)
      BY <1>2, <2>2 DEF GetOrCreate
    <3> HIDE DEF p, l
    <3>6. "where" \in DOMAIN r /\ r.where = l.set.where
      BY <3>2 DEF Prepares
    <3> QED
      BY <3>1, <3>2, <3>4, <3>5, <3>6, RunKeeps
  <2> QED
    BY <2>1, <2>2
<1>3. \A objs \in {{}} \union {{k} : k \in Keys} : objs \in SUBSET Keys
  OBVIOUS
<1> QED
  BY <1>1, <1>2, <1>3 DEF Writes

LEMMA StepKeeps == IInv /\ [Next]_vars => IInv'
<1> SUFFICES ASSUME IInv, [Next]_vars PROVE IInv'
  OBVIOUS
<1>1. CASE UNCHANGED vars
  BY <1>1, NothingKeeps DEF vars
<1>2. CASE Next
  BY <1>2, MakesKeep, ScopeKeeps, ReadsKeep, WritesKeep DEF Next
<1> QED
  BY <1>1, <1>2

LEMMA InitHolds == Init => IInv
<1> SUFFICES ASSUME Init PROVE IInv
  OBVIOUS
<1>1. PICK a \in Array, q \in QS : qs = [x \in QS |-> IF x = q THEN New(a) ELSE None]
  BY DEF Init
<1>2. heap = [x \in Array |-> <<>>] /\ meant = [x \in QS |-> <<>>]
  BY DEF Init
<1>3. heap \in Heaps /\ meant \in [QS -> Seq(SUBSET Keys)] /\ DOMAIN qs = QS
  BY <1>1, <1>2, EmptySeq DEF Heaps
<1>4. "where" \in DOMAIN New(a) /\ New(a).where = [arr |-> a, len |-> 0]
  BY DEF New
<1>5. ASSUME NEW x \in QS, Assigned(x)
      PROVE  "where" \in DOMAIN qs[x] /\ qs[x].where = [arr |-> a, len |-> 0]
  BY <1>1, <1>4, <1>5 DEF Assigned
<1>6. ASSUME NEW x \in QS, Assigned(x) PROVE Good(heap, qs[x].where, meant[x])
  BY <1>2, <1>5, <1>6, EmptySeq DEF Good, Slices
<1> QED
  BY <1>2, <1>3, <1>5, <1>6 DEF IInv, AllGood

LEMMA Invariant == Spec => []IInv
<1> QED
  BY InitHolds, StepKeeps, PTL DEF Spec

-----------------------------------------------------------------------------
(* Results. *)

LEMMA CondsOf ==
  ASSUME IInv, NEW q \in QS, Assigned(q)
  PROVE  /\ Len(Conds(q)) = Len(meant[q])
         /\ \A i \in DOMAIN meant[q] : i <= Own => Conds(q)[i] = meant[q][i]
<1>1. Good(heap, qs[q].where, meant[q]) /\ heap \in Heaps
      /\ meant[q] \in Seq(SUBSET Keys)
  BY DEF IInv, AllGood
<1>2. DOMAIN meant[q] = 1 .. qs[q].where.len
  BY <1>1, LenProperties DEF Good
<1> QED
  BY <1>1, <1>2, CellsOf DEF Good, Conds

\* A queryset has as many conditions as it was given, and the first three
\* are those it was given, whatever was done with the querysets derived from
\* it or that it was derived from (Filter, Scope, Clone and Delete, which
\* append to slices that may share an array).
THEOREM ConditionsAlwaysOwn == Spec => []ConditionsAreOwn
<1>1. IInv => ConditionsAreOwn
  BY CondsOf DEF ConditionsAreOwn, Assigned
<1> QED
  BY <1>1, Invariant, PTL

\* The database has roots, and every other call keeps them.
HasRoots == "roots" \in DOMAIN db
Deleting == \E q \in QS, objs \in SUBSET Keys : Delete(q, objs)

LEMMA RootsStay ==
  ASSUME HasRoots, [Next]_vars
  PROVE  HasRoots' /\ (Deleting \/ db.roots \subseteq db'.roots)
<1>1. CASE UNCHANGED db
  BY <1>1 DEF HasRoots
<1>2. ASSUME NEW q \in QS, NEW objs \in SUBSET Keys, Delete(q, objs)
      PROVE  HasRoots' /\ Deleting
  <2>1. \/ db' = db
        \/ \E gone : db' = [db EXCEPT !.roots = @ \ gone]
    BY <1>2 DEF Delete
  <2> QED
    BY <1>2, <2>1 DEF HasRoots, Deleting
<1>3. ASSUME NEW q \in QS, NEW k \in Keys, GetOrCreate(q, k)
      PROVE  HasRoots' /\ db.roots \subseteq db'.roots
  <2>1. db' = db \/ db' = [db EXCEPT !.roots = @ \union {k}]
    BY <1>3 DEF GetOrCreate
  <2> QED
    BY <2>1 DEF HasRoots
<1>4. CASE UNCHANGED vars
  BY <1>1, <1>4 DEF vars
<1>5. ASSUME NEW q \in QS, NEW d \in QS, Makes(q, d) PROVE UNCHANGED db
  BY <1>5 DEF Makes, Limit, Offset, OrderBy, Backwards, Select, Annotate, Filter, Make
<1>6. ASSUME NEW q \in QS, Reads(q) PROVE UNCHANGED db
  BY <1>6 DEF Reads, Cachings, FromCache, All, Get, GetFirst, GetLast, FirstOf,
              Values, Aggregate, Count, Exists, Counts
<1>7. ASSUME NEW q \in QS, NEW c, Scope(q, c) PROVE UNCHANGED db
  BY <1>7 DEF Scope
<1>8. \A objs \in {{}} \union {{k} : k \in Keys} : objs \in SUBSET Keys
  OBVIOUS
<1> QED
  BY <1>1, <1>2, <1>3, <1>4, <1>5, <1>6, <1>7, <1>8 DEF Next, Writes

LEMMA DeleteMatches ==
  ASSUME IInv, HasRoots, NEW q \in QS, NEW objs \in SUBSET Keys, Delete(q, objs)
  PROVE  OnlyMatchingGo
<1> DEFINE w == Narrowed(q, objs)
           r == [qs[q] EXCEPT !.where = w.where]
           m == meant'[q]
           gone == Matching(w.heap, r)
           fit(n) == {k \in db.roots : \A i \in DOMAIN m : i <= n => k \in m[i]}
<1>1. w.heap \in Heaps /\ m \in Seq(SUBSET Keys) /\ Good(w.heap, w.where, m)
  BY NarrowedIsGood
<1>2. "where" \in DOMAIN qs[q]
  BY DEF IInv, Delete, Assigned
<1>3. answer'.op = "delete" /\ answer'.on = q
  BY DEF Delete, Answered
<1>4. db' = db \/ db' = [db EXCEPT !.roots = @ \ gone]
  BY DEF Delete
<1> HIDE DEF w, m
<1>5. r.where = w.where
  BY <1>2
<1> HIDE DEF r
<1>6. /\ DOMAIN Cells(w.heap, w.where) = DOMAIN m /\ DOMAIN m = 1 .. Len(m)
      /\ \A i \in DOMAIN m : i <= Own => Cells(w.heap, w.where)[i] = m[i]
  <2>1. w.where \in Slices /\ w.where.len <= Len(w.heap[w.where.arr])
        /\ Len(m) = w.where.len
    BY <1>1 DEF Good
  <2>2. Cells(w.heap, w.where) \in Seq(Cond) /\ Len(Cells(w.heap, w.where)) = w.where.len
    BY <1>1, <2>1, CellsOf
  <2>3. DOMAIN Cells(w.heap, w.where) = 1 .. w.where.len /\ DOMAIN m = 1 .. w.where.len
    BY <1>1, <2>1, <2>2, LenProperties
  <2>4. \A i \in 1 .. w.where.len : Cells(w.heap, w.where)[i] = w.heap[w.where.arr][i]
    BY <1>1, <2>1, CellsOf
  <2> QED
    BY <1>1, <2>1, <2>3, <2>4 DEF Good
<1>7. gone = {k \in db.roots : \A i \in DOMAIN m : k \in Cells(w.heap, w.where)[i]}
  BY <1>5, <1>6 DEF Matching
<1>8. gone \subseteq fit(Own)
  BY <1>6, <1>7
<1>9. Len(m) <= Own => gone = fit(Own)
  <2>1. Len(m) <= Own => \A i \in DOMAIN m : i <= Own
    BY <1>1, <1>6, LenProperties DEF Own
  <2> QED
    BY <1>6, <1>7, <2>1
<1> HIDE DEF gone
<1>10. CASE db' = db
  BY <1>10 DEF OnlyMatchingGo
<1>11. CASE db' = [db EXCEPT !.roots = @ \ gone]
  <2>1. db.roots \ db'.roots = gone
    <3>1. db'.roots = db.roots \ gone
      BY <1>11 DEF HasRoots
    <3>2. gone \subseteq db.roots
      BY <1>7
    <3> QED
      BY <3>1, <3>2
  <2> QED
    BY <1>3, <1>8, <1>9, <2>1 DEF OnlyMatchingGo, m
<1> QED
  BY <1>4, <1>10, <1>11

\* Rows are deleted by Delete alone, and then those that match the first
\* three conditions that the queryset was given, exactly those when it was
\* given no more (QuerySet.Delete).
THEOREM DeletesAlwaysMatch == Spec => DeletesOnlyMatching
<1>1. Init => HasRoots
  BY DEF Init, Database, HasRoots
<1>2. HasRoots /\ [Next]_vars => HasRoots'
  BY RootsStay
<1>3. IInv /\ HasRoots /\ [Next]_vars => [OnlyMatchingGo]_vars
  <2> SUFFICES ASSUME IInv, HasRoots, [Next]_vars PROVE OnlyMatchingGo
    OBVIOUS
  <2>1. CASE Deleting
    BY <2>1, DeleteMatches DEF Deleting
  <2>2. CASE db.roots \subseteq db'.roots
    BY <2>2 DEF OnlyMatchingGo
  <2> QED
    BY <2>1, <2>2, RootsStay
<1> QED
  BY <1>1, <1>2, <1>3, Invariant, PTL DEF Spec, DeletesOnlyMatching

-----------------------------------------------------------------------------
(* Kept answers. *)

Fields == {"where", "limit", "offset", "order", "items", "joins",
           "annotated", "holder", "cached", "useCache"}

\* A queryset without an answer, and one that was given the conditions m and
\* may keep one: the conditions of the answer are the first of m, as far as
\* the array that they were in was its own.
Uncached(r) == DOMAIN r = Fields /\ r.cached = None
Keeping(r, m) ==
    /\ DOMAIN r = Fields
    /\ r.cached # None =>
         LET a == r.cached.asked
         IN  /\ r.useCache
             /\ a = [conds |-> a.conds, limit |-> r.limit, offset |-> r.offset,
                     order |-> r.order, items |-> r.items, joins |-> r.joins]
             /\ a.conds \in Seq(Cond) /\ Len(a.conds) <= Len(m)
             /\ \A i \in 1 .. Len(a.conds) : i <= Own => a.conds[i] = m[i]

CacheInv == \A q \in QS : Assigned(q) => Keeping(qs[q], meant[q])

LEMMA UncachedKeeps ==
  ASSUME NEW r, NEW m, Uncached(r)
  PROVE  Keeping(r, m)
BY DEF Uncached, Keeping

\* Of a change in place the conditions may grow.
LEMMA MoreConditions ==
  ASSUME NEW r, NEW m \in Seq(SUBSET Keys), NEW n \in Seq(SUBSET Keys), NEW w,
         Keeping(r, m), n = m \/ \E c \in SUBSET Keys : n = Append(m, c)
  PROVE  Keeping([r EXCEPT !.where = w], n)
<1> DEFINE s == [r EXCEPT !.where = w]
<1>1. /\ DOMAIN s = DOMAIN r
      /\ DOMAIN r = Fields => \A f \in Fields \ {"where"} : s[f] = r[f]
  OBVIOUS
<1>2. DOMAIN r = Fields
  BY DEF Keeping
<1>3. /\ s.cached = r.cached /\ s.useCache = r.useCache /\ s.limit = r.limit
      /\ s.offset = r.offset /\ s.order = r.order /\ s.items = r.items
      /\ s.joins = r.joins
  BY <1>1, <1>2 DEF Fields
<1>4. Len(m) \in Nat /\ Len(m) <= Len(n) /\ \A i \in 1 .. Len(m) : n[i] = m[i]
  <2>1. Len(m) \in Nat
    BY LenProperties
  <2>2. CASE n = m
    BY <2>1, <2>2
  <2>3. ASSUME NEW c \in SUBSET Keys, n = Append(m, c)
        PROVE  Len(n) = Len(m) + 1 /\ \A i \in 1 .. Len(m) : n[i] = m[i]
    BY <2>3, AppendProperties
  <2> QED
    BY <2>1, <2>2, <2>3
<1> HIDE DEF s
<1>5. ASSUME s.cached # None
      PROVE  LET a == s.cached.asked
             IN  /\ a.conds \in Seq(Cond) /\ Len(a.conds) <= Len(n)
                 /\ \A i \in 1 .. Len(a.conds) : i <= Own => a.conds[i] = n[i]
  <2> DEFINE a == r.cached.asked
  <2>1. /\ a.conds \in Seq(Cond) /\ Len(a.conds) <= Len(m)
        /\ \A i \in 1 .. Len(a.conds) : i <= Own => a.conds[i] = m[i]
    BY <1>3, <1>5 DEF Keeping
  <2>2. Len(a.conds) \in Nat /\ Len(n) \in Nat
    BY <2>1, LenProperties
  <2> QED
    BY <1>3, <1>4, <2>1, <2>2
<1> QED
  BY <1>1, <1>2, <1>3, <1>5 DEF Keeping, s

LEMMA KeptKeeps ==
  ASSUME NEW h \in Heaps, NEW m \in Seq(SUBSET Keys), NEW r, NEW kind, NEW value,
         Uncached(r), Good(h, r.where, m)
  PROVE  Keeping(Kept(h, r, kind, value), m)
<1>1. CASE ~r.useCache
  BY <1>1, UncachedKeeps DEF Kept
<1>2. CASE r.useCache
  <2> DEFINE a == Asked(h, r)
             c == [kind |-> kind, value |-> value, asked |-> a]
             s == [r EXCEPT !.cached = c]
  <2>1. Kept(h, r, kind, value) = s
    BY <1>2 DEF Kept
  <2>2. DOMAIN s = Fields /\ s.cached = c /\ \A f \in Fields \ {"cached"} : s[f] = r[f]
    BY DEF Uncached, Fields
  <2>3. /\ s.useCache = r.useCache /\ s.limit = r.limit /\ s.offset = r.offset
        /\ s.order = r.order /\ s.items = r.items /\ s.joins = r.joins
    BY <2>2 DEF Fields
  <2>4. c.asked = a /\ a.conds = Cells(h, r.where)
    BY DEF Asked
  <2>5. a = [conds |-> a.conds, limit |-> r.limit, offset |-> r.offset,
             order |-> r.order, items |-> r.items, joins |-> r.joins]
    BY DEF Asked
  <2>6. /\ a.conds \in Seq(Cond) /\ Len(a.conds) <= Len(m)
        /\ \A i \in 1 .. Len(a.conds) : i <= Own => a.conds[i] = m[i]
    <3>1. r.where \in Slices /\ r.where.len <= Len(h[r.where.arr])
          /\ Len(m) = r.where.len /\ r.where.len \in Nat
      BY DEF Good, Slices
    <3>2. Cells(h, r.where) \in Seq(Cond) /\ Len(Cells(h, r.where)) = r.where.len
          /\ \A i \in 1 .. r.where.len : Cells(h, r.where)[i] = h[r.where.arr][i]
      BY <3>1, CellsOf
    <3> QED
      BY <2>4, <3>1, <3>2 DEF Good
  <2> HIDE DEF a, c, s
  <2> QED
    BY <1>2, <2>1, <2>2, <2>3, <2>4, <2>5, <2>6 DEF Keeping
<1> QED
  BY <1>1, <1>2

LEMMA SelectUncached ==
  ASSUME NEW r, NEW items, Uncached(r)
  PROVE  Uncached(SelectOn(r, items))
BY DEF SelectOn, Uncached, Fields

LEMMA AnnotateUncached ==
  ASSUME NEW r, Uncached(r)
  PROVE  Uncached(AnnotateOn(r))
BY DEF AnnotateOn, Uncached, Fields

LEMMA CloneUncached ==
  ASSUME CacheInv, NEW q \in QS, Assigned(q)
  PROVE  Uncached(Clone(q).set)
<1> DEFINE w == Copied(heap, qs[q].where)
           r == [qs[q] EXCEPT !.where = w.where, !.cached = None, !.holder = FALSE]
<1>1. Clone(q).set = r
  BY DEF Clone
<1>2. DOMAIN qs[q] = Fields
  BY DEF CacheInv, Keeping
<1> HIDE DEF w
<1>3. DOMAIN r = Fields /\ r.cached = None
  BY <1>2 DEF Fields
<1> QED
  BY <1>1, <1>3 DEF Uncached

LEMMA ItselfUncached ==
  ASSUME CacheInv, NEW q \in QS, Assigned(q), ~UsesCache(q)
  PROVE  Uncached(qs[q])
BY DEF CacheInv, Keeping, UsesCache, Uncached, Assigned

LEMMA PreparedUncached ==
  ASSUME CacheInv, NEW q \in QS, Assigned(q), ~UsesCache(q), NEW items
  PROVE  Uncached(Prepared(q, items).set)
<1> DEFINE k == Clone(q)
           s == SelectOn(k.set, IF items # <<>> THEN items ELSE <<Everything>>)
           p == Prepared(q, items)
<1>1. Uncached(s) /\ Uncached(qs[q])
  BY CloneUncached, SelectUncached, ItselfUncached
<1>2. p = [heap |-> k.heap, set |-> s] \/ p = [heap |-> heap, set |-> qs[q]]
  BY DEF Prepared, Clone
<1> HIDE DEF k, s, p
<1>3. p.set = s \/ p.set = qs[q]
  BY <1>2
<1> QED
  BY <1>1, <1>3 DEF p

LEMMA LimitedUncached ==
  ASSUME CacheInv, NEW q \in QS, Assigned(q), NEW n, NEW order
  PROVE  Uncached(Limited(q, n, order).set)
<1> DEFINE k == Clone(q)
           r == [k.set EXCEPT !.limit = n, !.order = order]
           s == SelectOn(r, <<Everything>>)
<1>1. Uncached(k.set)
  BY CloneUncached
<1> HIDE DEF k
<1>2. Uncached(r)
  BY <1>1 DEF Uncached, Fields
<1> HIDE DEF r
<1>3. Uncached(s)
  BY <1>2, SelectUncached
<1>4. Limited(q, n, order).set = IF r.items = <<>> THEN s ELSE r
  BY DEF Limited, k, r
<1> QED
  BY <1>2, <1>3, <1>4

\* What a queryset has when it runs fits its conditions.
LEMMA PreparesGood ==
  ASSUME IInv, NEW q \in QS, Assigned(q), NEW p, Prepares(q, p)
  PROVE  /\ p.heap \in Heaps /\ meant[q] \in Seq(SUBSET Keys)
         /\ Good(p.heap, p.set.where, meant[q])
<1>1. heap \in Heaps /\ Good(heap, qs[q].where, meant[q]) /\ meant[q] \in Seq(SUBSET Keys)
  BY DEF IInv, AllGood
<1> QED
  BY <1>1, CloneIsGood DEF Prepares

LEMMA AssignCaches ==
  ASSUME IInv, CacheInv, NEW q \in QS, NEW r, NEW h, NEW m,
         Keeping(r, m), Assign(q, r, h), meant' = [meant EXCEPT ![q] = m]
  PROVE  CacheInv'
<1>1. /\ qs'[q] = r /\ \A p \in QS : p # q => qs'[p] = qs[p]
      /\ meant'[q] = m /\ \A p \in QS : p # q => meant'[p] = meant[p]
  BY DEF Assign, IInv
<1>2. ASSUME NEW p \in QS, qs'[p] # None PROVE Keeping(qs'[p], meant'[p])
  BY <1>1, <1>2 DEF CacheInv, Assigned
<1> QED
  BY <1>2 DEF CacheInv, Assigned, Keeping

\* The same without a change of the conditions.
LEMMA RunCaches ==
  ASSUME IInv, CacheInv, NEW q \in QS, NEW r, NEW h,
         Keeping(r, meant[q]), Assign(q, r, h), UNCHANGED meant
  PROVE  CacheInv'
<1>1. meant' = [meant EXCEPT ![q] = meant[q]]
  BY DEF IInv
<1> QED
  BY <1>1, AssignCaches

LEMMA NothingCaches ==
  ASSUME CacheInv, UNCHANGED <<heap, qs, meant>>
  PROVE  CacheInv'
BY DEF CacheInv, Assigned, Keeping

LEMMA MakeCaches ==
  ASSUME IInv, CacheInv, NEW q \in QS, NEW d \in QS, NEW r, NEW h, NEW m,
         Uncached(r), Assign(d, r, h), meant' = [meant EXCEPT ![d] = m]
  PROVE  CacheInv'
BY UncachedKeeps, AssignCaches

LEMMA MakesCache ==
  ASSUME IInv, CacheInv, NEW q \in QS, NEW d \in QS, Makes(q, d)
  PROVE  CacheInv'
<1> DEFINE s == Clone(q).set
<1>0. Assigned(q)
  BY DEF Makes, Limit, Offset, OrderBy, Backwards, Select, Annotate, Filter, Make, Assigned
<1>1. Uncached(s)
  BY <1>0, CloneUncached
<1>2. ASSUME NEW r, Uncached(r), Make(q, d, r) PROVE CacheInv'
  BY <1>2, MakeCaches DEF Make
<1> HIDE DEF s
<1>3. /\ \A n : Uncached([s EXCEPT !.limit = n]) /\ Uncached([s EXCEPT !.offset = n])
      /\ \A o : Uncached([s EXCEPT !.order = o])
      /\ \A w : Uncached([s EXCEPT !.where = w])
  BY <1>1 DEF Uncached, Fields
<1>4. ASSUME NEW n, Limit(q, d, n) \/ Offset(q, d, n) PROVE CacheInv'
  BY <1>2, <1>3, <1>4 DEF Limit, Offset, s
<1>5. ASSUME NEW o, OrderBy(q, d, o) PROVE CacheInv'
  BY <1>2, <1>3, <1>5 DEF OrderBy, s
<1>6. ASSUME Backwards(q, d) PROVE CacheInv'
  BY <1>2, <1>3, <1>6 DEF Backwards, s
<1>7. ASSUME NEW items, Select(q, d, items) PROVE CacheInv'
  BY <1>1, <1>2, <1>7, SelectUncached DEF Select, s
<1>8. ASSUME Annotate(q, d) PROVE CacheInv'
  BY <1>1, <1>2, <1>8, AnnotateUncached DEF Annotate, s
<1>9. ASSUME NEW c, Filter(q, d, c) PROVE CacheInv'
  <2> DEFINE w == Push(heap, qs[q].where, c)
             r == [s EXCEPT !.where = w.where]
             m == Append(meant[q], c)
  <2>1. Assign(d, r, w.heap) /\ meant' = [meant EXCEPT ![d] = m]
    BY <1>9 DEF Filter, s
  <2> HIDE DEF w, m
  <2>2. Uncached(r)
    BY <1>3
  <2> QED
    BY <2>1, <2>2, MakeCaches
<1> QED
  BY <1>4, <1>5, <1>6, <1>7, <1>8, <1>9 DEF Makes

LEMMA ScopeCaches ==
  ASSUME IInv, CacheInv, NEW q \in QS, NEW c, Scope(q, c)
  PROVE  CacheInv'
<1> DEFINE k == Clone(q)
           w == Push(k.heap, k.set.where, c)
           r == [k.set EXCEPT !.where = w.where]
           m == Append(meant[q], c)
<1>1. Uncached(k.set)
  BY CloneUncached DEF Scope, Assigned
<1>2. Assign(q, r, w.heap) /\ meant' = [meant EXCEPT ![q] = m]
  BY DEF Scope, IInv
<1> HIDE DEF k, w, m
<1>3. Uncached(r)
  BY <1>1 DEF Uncached, Fields
<1> QED
  BY <1>2, <1>3, MakeCaches

LEMMA ReadsCache ==
  ASSUME IInv, CacheInv, NEW q \in QS, Reads(q)
  PROVE  CacheInv'
<1>1. ASSUME NEW op, NEW kind, FromCache(op, q, kind) PROVE CacheInv'
  BY <1>1, NothingCaches DEF FromCache
<1>2. ASSUME All(q) PROVE CacheInv'
  <2> DEFINE p == Prepared(q, <<>>)
  <2>1. Assigned(q) /\ ~UsesCache(q) /\ Assign(q, p.set, p.heap) /\ UNCHANGED meant
    BY <1>2 DEF All, Assigned
  <2>2. Uncached(p.set)
    BY <2>1, PreparedUncached
  <2> QED
    BY <2>1, <2>2, UncachedKeeps, RunCaches
<1>3. ASSUME Get(q) PROVE CacheInv'
  <2> DEFINE p == Limited(q, GetLimit, qs[q].order)
  <2>1. Assigned(q) /\ UNCHANGED meant
    BY <1>3 DEF Get, Assigned
  <2>2. Prepares(q, p) /\ Uncached(p.set)
    BY <2>1, LimitedPrepares, LimitedUncached
  <2>3. \E r : /\ Assign(q, r, p.heap)
               /\ r = p.set \/ \E v : r = Kept(p.heap, p.set, "row", v)
    BY <1>3 DEF Get
  <2> HIDE DEF p
  <2>4. PICK r : /\ Assign(q, r, p.heap)
                 /\ r = p.set \/ \E v : r = Kept(p.heap, p.set, "row", v)
    BY <2>3
  <2>5. Keeping(r, meant[q])
    BY <2>1, <2>2, <2>4, PreparesGood, KeptKeeps, UncachedKeeps
  <2> QED
    BY <2>1, <2>4, <2>5, RunCaches
<1>4. ASSUME NEW op, NEW order, FirstOf(op, q, order) PROVE CacheInv'
  <2> DEFINE p == Limited(q, 1, order)
  <2>1. Assigned(q) /\ Assign(q, p.set, p.heap) /\ UNCHANGED meant
    BY <1>4 DEF FirstOf, Assigned
  <2>2. Uncached(p.set)
    BY <2>1, LimitedUncached
  <2> QED
    BY <2>1, <2>2, UncachedKeeps, RunCaches
<1>5. ASSUME NEW kind, NEW items, Values(q, kind, items) PROVE CacheInv'
  <2> DEFINE p == Prepared(q, items)
  <2>1. Assigned(q) /\ ~UsesCache(q) /\ UNCHANGED meant
    BY <1>5 DEF Values, Assigned
  <2>2. Prepares(q, p) /\ Uncached(p.set)
    BY <2>1, PreparedPrepares, PreparedUncached
  <2>3. \E r : /\ Assign(q, r, p.heap)
               /\ r = p.set \/ \E v : r = Kept(p.heap, p.set, kind, v)
    BY <1>5 DEF Values
  <2> HIDE DEF p
  <2>4. PICK r : /\ Assign(q, r, p.heap)
                 /\ r = p.set \/ \E v : r = Kept(p.heap, p.set, kind, v)
    BY <2>3
  <2>5. Keeping(r, meant[q])
    BY <2>1, <2>2, <2>4, PreparesGood, KeptKeeps, UncachedKeeps
  <2> QED
    BY <2>1, <2>4, <2>5, RunCaches
<1>6. ASSUME Aggregate(q) PROVE CacheInv'
  <2> DEFINE e == [qs[q] EXCEPT !.items = <<>>]
             s == AnnotateOn(e)
  <2>1. Assigned(q) /\ ~UsesCache(q) /\ UNCHANGED meant
    BY <1>6 DEF Aggregate, Assigned
  <2>2. Uncached(qs[q])
    BY <2>1, ItselfUncached
  <2>3. Uncached(e) /\ "where" \in DOMAIN e /\ e.where = qs[q].where
    BY <2>2 DEF Uncached, Fields
  <2>4. Uncached(s) /\ s.where = qs[q].where
    BY <2>3, AnnotateUncached, AnnotateKeepsWhere
  <2>5. \E r : /\ Assign(q, r, heap)
               /\ r = s \/ \E v : r = Kept(heap, s, "map", v)
    BY <1>6 DEF Aggregate
  <2> HIDE DEF e, s
  <2>6. PICK r : /\ Assign(q, r, heap)
                 /\ r = s \/ \E v : r = Kept(heap, s, "map", v)
    BY <2>5
  <2>7. heap \in Heaps /\ meant[q] \in Seq(SUBSET Keys) /\ Good(heap, s.where, meant[q])
    BY <2>1, <2>4 DEF IInv, AllGood
  <2>8. Keeping(r, meant[q])
    BY <2>4, <2>6, <2>7, KeptKeeps, UncachedKeeps
  <2> QED
    BY <2>1, <2>6, <2>8, RunCaches
<1>7. ASSUME Count(q) \/ Exists(q) PROVE CacheInv'
  BY <1>7, NothingCaches DEF Count, Exists, Counts
<1> QED
  BY <1>1, <1>2, <1>3, <1>4, <1>5, <1>6, <1>7
     DEF Reads, Cachings, GetFirst, GetLast

LEMMA WritesCache ==
  ASSUME IInv, CacheInv, NEW q \in QS, Writes(q)
  PROVE  CacheInv'
<1>1. ASSUME NEW objs \in SUBSET Keys, Delete(q, objs) PROVE CacheInv'
  <2> DEFINE w == Narrowed(q, objs)
             r == [qs[q] EXCEPT !.where = w.where]
             m == meant'[q]
  <2>1. /\ m \in Seq(SUBSET Keys) /\ meant' = [meant EXCEPT ![q] = m]
        /\ objs # {} => m = Append(meant[q], objs)
    BY <1>1, NarrowedIsGood
  <2>2. Assign(q, r, w.heap) /\ Assigned(q) /\ meant[q] \in Seq(SUBSET Keys)
    BY <1>1 DEF Delete, Assigned, IInv
  <2>3. objs = {} => m = meant[q]
    BY <1>1 DEF Delete
  <2>4. Keeping(qs[q], meant[q])
    BY <2>2 DEF CacheInv
  <2> HIDE DEF w, m
  <2>5. Keeping(r, m)
    BY <2>1, <2>2, <2>3, <2>4, MoreConditions
  <2> QED
    BY <2>1, <2>2, <2>5, AssignCaches
<1>2. ASSUME NEW k \in Keys, GetOrCreate(q, k) PROVE CacheInv'
  <2>1. CASE UNCHANGED <<heap, qs>>
    BY <1>2, <2>1, NothingCaches DEF GetOrCreate
  <2>2. CASE ~UNCHANGED <<heap, qs>>
    <3> DEFINE l == Limited(q, GetLimit, qs[q].order)
               r == [l.set EXCEPT !.useCache = FALSE]
               p == [l EXCEPT !.set.useCache = FALSE]
    <3>1. Assigned(q) /\ UNCHANGED meant
      BY <1>2 DEF GetOrCreate, Assigned
    <3>2. Uncached(l.set)
      BY <3>1, LimitedUncached
    <3>3. l = [heap |-> l.heap, set |-> l.set]
      BY DEF Limited
    <3>4. p.set = r
      BY <3>3
    <3>5. Assign(q, p.set, p.heap)
      BY <1>2, <2>2 DEF GetOrCreate
    <3> HIDE DEF p, l
    <3>6. Uncached(r)
      BY <3>2 DEF Uncached, Fields
    <3> QED
      BY <3>1, <3>4, <3>5, <3>6, UncachedKeeps, RunCaches
  <2> QED
    BY <2>1, <2>2
<1>3. \A objs \in {{}} \union {{k} : k \in Keys} : objs \in SUBSET Keys
  OBVIOUS
<1> QED
  BY <1>1, <1>2, <1>3 DEF Writes

LEMMA CacheStep == IInv /\ CacheInv /\ [Next]_vars => CacheInv'
<1> SUFFICES ASSUME IInv, CacheInv, [Next]_vars PROVE CacheInv'
  OBVIOUS
<1>1. CASE UNCHANGED vars
  BY <1>1, NothingCaches DEF vars
<1>2. CASE Next
  BY <1>2, MakesCache, ScopeCaches, ReadsCache, WritesCache DEF Next
<1> QED
  BY <1>1, <1>2

LEMMA CacheInit == Init => CacheInv
<1> SUFFICES ASSUME Init PROVE CacheInv
  OBVIOUS
<1>1. PICK a \in Array, q \in QS : qs = [x \in QS |-> IF x = q THEN New(a) ELSE None]
  BY DEF Init
<1>2. Uncached(New(a))
  BY DEF Uncached, New, Fields
<1>3. ASSUME NEW x \in QS, Assigned(x) PROVE Uncached(qs[x])
  BY <1>1, <1>2, <1>3 DEF Assigned
<1> QED
  BY <1>3, UncachedKeeps DEF CacheInv

LEMMA Beginning ==
  ASSUME NEW S, NEW s, NEW n \in Nat, \A i \in 1 .. n : s[i] \in S
  PROVE  /\ SubSeq(s, 1, n) \in Seq(S) /\ Len(SubSeq(s, 1, n)) = n
         /\ \A i \in 1 .. n : SubSeq(s, 1, n)[i] = s[i]
<1>1. 1 \in Int /\ n \in Int
  OBVIOUS
<1>2. /\ SubSeq(s, 1, n) \in Seq(S)
      /\ Len(SubSeq(s, 1, n)) = IF 1 <= n THEN n - 1 + 1 ELSE 0
      /\ \A i \in 1 .. n - 1 + 1 : SubSeq(s, 1, n)[i] = s[1 + i - 1]
  BY <1>1, SubSeqProperties
<1>3. n - 1 + 1 = n /\ \A i \in 1 .. n : 1 + i - 1 = i
  OBVIOUS
<1> QED
  BY <1>2, <1>3

\* The conditions of an answer that is kept begin those of the queryset.
LEMMA AskedBegins ==
  ASSUME IInv, CacheInv, NEW q \in QS, Assigned(q), qs[q].cached # None
  PROVE  LET c == qs[q].cached.asked.conds
             own == IF Len(c) > Own THEN SubSeq(c, 1, Own) ELSE c
         IN  IsPrefix(own, Conds(q))
<1> DEFINE c == qs[q].cached.asked.conds
           own == IF Len(c) > Own THEN SubSeq(c, 1, Own) ELSE c
           d == Conds(q)
           m == meant[q]
<1>1. /\ c \in Seq(Cond) /\ Len(c) <= Len(m)
      /\ \A i \in 1 .. Len(c) : i <= Own => c[i] = m[i]
  BY DEF CacheInv, Keeping
<1>2. m \in Seq(SUBSET Keys) /\ Len(m) \in Nat /\ DOMAIN m = 1 .. Len(m)
  BY LenProperties DEF IInv
<1>3. Len(d) = Len(m) /\ \A i \in 1 .. Len(m) : i <= Own => d[i] = m[i]
  BY <1>2, CondsOf
<1>4. d \in Seq(Cond)
  <2>1. heap \in Heaps /\ Good(heap, qs[q].where, m)
    BY DEF IInv, AllGood
  <2> QED
    BY <2>1, CellsOf DEF Good, Conds
<1> HIDE DEF c, d, m
<1>5. Len(c) \in Nat /\ \A i \in 1 .. Len(c) : c[i] \in Cond
  BY <1>1, LenProperties, ElementOfSeq
<1>6. /\ own \in Seq(Cond) /\ Len(own) \in 0 .. Own /\ Len(own) <= Len(c)
      /\ \A i \in 1 .. Len(own) : own[i] = c[i]
  <2>1. CASE Len(c) > Own
    <3>1. \A i \in 1 .. 3 : c[i] \in Cond
      BY <1>5, <2>1 DEF Own
    <3>2. /\ SubSeq(c, 1, 3) \in Seq(Cond) /\ Len(SubSeq(c, 1, 3)) = 3
          /\ \A i \in 1 .. 3 : SubSeq(c, 1, 3)[i] = c[i]
      BY <3>1, Beginning
    <3>3. own = SubSeq(c, 1, 3)
      BY <2>1 DEF Own
    <3>4. Own = 3 /\ 3 <= Len(c)
      BY <1>5, <2>1 DEF Own
    <3> HIDE DEF own
    <3> QED
      BY <3>2, <3>3, <3>4
  <2>2. CASE ~(Len(c) > Own)
    <3>1. own = c
      BY <2>2
    <3>2. Len(c) \in 0 .. Own
      <4> DEFINE n == Len(c)
      <4>1. n \in Nat
        BY <1>5
      <4>2. ~(n > Own) /\ Own = 3
        BY <2>2 DEF Own
      <4> HIDE DEF n
      <4>3. n \in 0 .. 3
        BY <4>1, <4>2
      <4> QED
        BY <4>2, <4>3 DEF n
    <3> HIDE DEF own
    <3> QED
      BY <1>1, <1>5, <3>1, <3>2
  <2> QED
    BY <2>1, <2>2
<1> DEFINE n == Len(own)
<1>7. \A i \in 1 .. n : d[i] = own[i] /\ d[i] \in Cond
  <2> SUFFICES ASSUME NEW i \in 1 .. n PROVE d[i] = own[i] /\ d[i] \in Cond
    OBVIOUS
  <2>1. i \in 1 .. Len(c) /\ i <= Own /\ i \in 1 .. Len(m)
    BY <1>1, <1>2, <1>5, <1>6 DEF Own
  <2> QED
    BY <1>1, <1>3, <1>5, <1>6, <2>1
<1>8. n \in Nat /\ n <= Len(d)
  BY <1>1, <1>2, <1>3, <1>5, <1>6 DEF Own
<1>9. SubSeq(own, 1, n) = own
  BY <1>6, SubSeqFull
<1>10. /\ SubSeq(d, 1, n) \in Seq(Cond) /\ Len(SubSeq(d, 1, n)) = n
       /\ \A i \in 1 .. n : SubSeq(d, 1, n)[i] = d[i]
  <2>1. n \in Nat /\ \A i \in 1 .. n : d[i] \in Cond
    BY <1>7, <1>8
  <2> HIDE DEF n
  <2> QED
    BY <2>1, Beginning
<1> HIDE DEF own
<1>11. SubSeq(d, 1, n) = own
  BY <1>6, <1>7, <1>8, <1>10, SeqEqual
<1>12. IsPrefix(own, d)
  BY <1>8, <1>9, <1>11 DEF IsPrefix
<1> QED
  BY <1>12 DEF own, c, d

LEMMA CacheAsked == IInv /\ CacheInv => CacheIsAsked
<1> SUFFICES ASSUME IInv, CacheInv, NEW q \in QS, Assigned(q), qs[q].cached # None
             PROVE  LET asked == qs[q].cached.asked
                    IN  [asked EXCEPT !.conds = <<>>]
                           = [Asked(heap, qs[q]) EXCEPT !.conds = <<>>]
  BY AskedBegins DEF CacheIsAsked, Assigned
<1> DEFINE r == qs[q]
           a == r.cached.asked
<1>1. a = [conds |-> a.conds, limit |-> r.limit, offset |-> r.offset,
           order |-> r.order, items |-> r.items, joins |-> r.joins]
  BY DEF CacheInv, Keeping
<1> DEFINE c == a.conds
           d == Cells(heap, r.where)
           now == Asked(heap, r)
<1>2. now = [conds |-> d, limit |-> r.limit, offset |-> r.offset,
             order |-> r.order, items |-> r.items, joins |-> r.joins]
  BY DEF Asked
<1> HIDE DEF r, c, d, a, now
<1>3. a = [conds |-> c, limit |-> r.limit, offset |-> r.offset,
           order |-> r.order, items |-> r.items, joins |-> r.joins]
  BY <1>1 DEF c
<1>4. [a EXCEPT !.conds = <<>>] = [now EXCEPT !.conds = <<>>]
  BY <1>2, <1>3
<1> QED
  BY <1>4 DEF a, now, r

\* An answer that a queryset keeps is that of the queryset as it is, limits,
\* order, selection and joins and the conditions up to the third (useCache,
\* Clone and the methods that change a queryset in place).
THEOREM CacheIsAlwaysAsked == Spec => []CacheIsAsked
<1> QED
  BY CacheAsked, InitHolds, StepKeeps, CacheInit, CacheStep, PTL DEF Spec

=============================================================================
