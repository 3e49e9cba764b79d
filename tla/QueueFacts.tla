------------------------------- MODULE QueueFacts -------------------------------
(***************************************************************************)
(* Facts about queues without repetition, about counting what is in them   *)
(* or holds a slot, and about the operations of AsyncQueue, which the      *)
(* proofs about the limiter and the mailboxes share.                       *)
(***************************************************************************)
EXTENDS Integers, FiniteSets, AsyncQueue,
        FiniteSetTheorems, SequenceTheorems, FunctionTheorems, TLAPS

Elems(q) == {q[i] : i \in DOMAIN q}
NoRepeat(q) == \A i, j \in DOMAIN q : i # j => q[i] # q[j]

(* Append adds its element to what the queue holds, once if it is new.       *)
LEMMA AppendElems ==
  ASSUME NEW S, NEW q \in Seq(S), NEW x \in S
  PROVE  /\ Elems(Append(q, x)) = Elems(q) \union {x}
         /\ NoRepeat(q) /\ x \notin Elems(q) => NoRepeat(Append(q, x))
         /\ Append(q, x) # <<>>
<1>1. /\ DOMAIN q = 1 .. Len(q)
      /\ Len(q) \in Nat
      /\ DOMAIN Append(q, x) = 1 .. (Len(q) + 1)
      /\ \A i \in 1 .. Len(q) : Append(q, x)[i] = q[i]
      /\ Append(q, x)[Len(q) + 1] = x
  OBVIOUS
<1>2. Elems(Append(q, x)) = Elems(q) \union {x}
  <2>1. ASSUME NEW y \in Elems(Append(q, x)) PROVE y \in Elems(q) \union {x}
    BY <1>1 DEF Elems
  <2>2. ASSUME NEW y \in Elems(q) PROVE y \in Elems(Append(q, x))
    BY <1>1 DEF Elems
  <2>3. x \in Elems(Append(q, x))
    BY <1>1 DEF Elems
  <2>. QED  BY <2>1, <2>2, <2>3
<1>3. NoRepeat(q) /\ x \notin Elems(q) => NoRepeat(Append(q, x))
  BY <1>1 DEF NoRepeat, Elems
<1>. QED  BY <1>1, <1>2, <1>3

(* Tail takes the head, and nothing else, from a queue without repeats.      *)
LEMMA TailElems ==
  ASSUME NEW S, NEW q \in Seq(S), q # <<>>, NoRepeat(q)
  PROVE  /\ Elems(Tail(q)) = Elems(q) \ {Head(q)}
         /\ NoRepeat(Tail(q))
         /\ Head(q) \in Elems(q)
<1>1. /\ DOMAIN q = 1 .. Len(q)
      /\ Len(q) \in Nat \ {0}
      /\ DOMAIN Tail(q) = 1 .. (Len(q) - 1)
      /\ \A i \in 1 .. (Len(q) - 1) : Tail(q)[i] = q[i + 1]
      /\ Head(q) = q[1]
  OBVIOUS
<1>2. Head(q) \in Elems(q)
  BY <1>1 DEF Elems
<1>3. ASSUME NEW y \in Elems(Tail(q)) PROVE y \in Elems(q) \ {Head(q)}
  BY <1>1 DEF Elems, NoRepeat
<1>4. ASSUME NEW y \in Elems(q) \ {Head(q)} PROVE y \in Elems(Tail(q))
  <2>1. PICK i \in 1 .. Len(q) : y = q[i]
    BY <1>1 DEF Elems
  <2>2. i # 1 /\ i - 1 \in 1 .. (Len(q) - 1) /\ (i - 1) + 1 = i
    BY <1>1, <2>1
  <2>. QED  BY <1>1, <2>1, <2>2 DEF Elems
<1>5. NoRepeat(Tail(q))
  BY <1>1 DEF NoRepeat
<1>. QED  BY <1>2, <1>3, <1>4, <1>5

(* Tail has nothing that was not in the queue, and neither is the head new.  *)
LEMMA TailSubset ==
  ASSUME NEW S, NEW q \in Seq(S), q # <<>>
  PROVE  Head(q) \in Elems(q) /\ Elems(Tail(q)) \subseteq Elems(q)
<1>1. /\ DOMAIN q = 1 .. Len(q) /\ Len(q) \in Nat \ {0} /\ Head(q) = q[1]
      /\ DOMAIN Tail(q) = 1 .. (Len(q) - 1)
      /\ \A i \in 1 .. (Len(q) - 1) : Tail(q)[i] = q[i + 1] /\ i + 1 \in 1 .. Len(q)
  OBVIOUS
<1>. QED  BY <1>1 DEF Elems

(* What Append adds to a queue, and what it leaves where it was.             *)
LEMMA AppendShape ==
  ASSUME NEW S, NEW r \in Seq(S), NEW t \in S, NEW a, a = Append(r, t), NEW n \in Nat, n = Len(r) + 1
  PROVE  /\ DOMAIN a = 1 .. n /\ a[n] = t
         /\ \A i \in 1 .. (n - 1) : a[i] = r[i]
OBVIOUS

(* p is a queue q whose head has been taken off, with t perhaps at its end.  *)
Rotated(p, q, t) ==
  /\ \A i \in DOMAIN p : \/ (i \in 1 .. (Len(q) - 1) /\ p[i] = q[i + 1])
                        \/ (i = Len(q) /\ p[i] = t)
  /\ \A u \in Elems(q) \ {t} : u \in Elems(p)

(* The head t of a queue q is taken off, which leaves r, and may come to its *)
(* end again, which gives a.                                                 *)
LEMMA Rotate ==
  ASSUME NEW S, NEW q \in Seq(S), q # <<>>, NEW t \in S, t = Head(q),
         NEW r, r = Tail(q), NEW a, a = Append(r, t), NEW p, p = r \/ p = a
  PROVE  Rotated(p, q, t) /\ (p = a => t \in Elems(p))
<1>1. /\ DOMAIN q = 1 .. Len(q) /\ Len(q) \in Nat \ {0} /\ t = q[1]
      /\ r \in Seq(S) /\ Len(r) = Len(q) - 1 /\ DOMAIN r = 1 .. (Len(q) - 1)
      /\ \A i \in 1 .. (Len(q) - 1) : r[i] = q[i + 1]
  OBVIOUS
<1>2. Len(q) \in Nat /\ Len(q) = Len(r) + 1 /\ r \in Seq(S)
  BY <1>1
<1>3. /\ DOMAIN a = 1 .. Len(q) /\ a[Len(q)] = t
      /\ \A i \in 1 .. (Len(q) - 1) : a[i] = r[i]
  BY ONLY <1>2, AppendShape, t \in S, a = Append(r, t)
<1>4. \A n \in Nat : \A i \in 1 .. n : i \in 1 .. (n - 1) \/ i = n
  OBVIOUS
<1>6. ASSUME NEW i \in DOMAIN p
      PROVE  (i \in 1 .. (Len(q) - 1) /\ p[i] = q[i + 1]) \/ (i = Len(q) /\ p[i] = t)
  <2>1. CASE p = r
    BY <1>1, <2>1
  <2>2. CASE p = a
    BY ONLY <1>1, <1>2, <1>3, <1>4, <1>6, <2>2
  <2>. QED  BY <2>1, <2>2
<1>7. ASSUME NEW u \in Elems(q) \ {t} PROVE u \in Elems(p)
  <2>1. PICK i \in 1 .. Len(q) : q[i] = u
    BY <1>1 DEF Elems
  <2>2. i - 1 \in 1 .. (Len(q) - 1) /\ (i - 1) + 1 = i /\ i - 1 \in 1 .. Len(q)
    BY <1>1, <1>7, <2>1
  <2>3. i - 1 \in DOMAIN p /\ p[i - 1] = u
    BY ONLY p = r \/ p = a, <1>1, <1>3, <2>1, <2>2
  <2>. QED  BY <2>3 DEF Elems
<1>8. t \in Elems(a)
  <2>1. Len(q) \in 1 .. Len(q)
    BY <1>1
  <2>. QED  BY ONLY <1>3, <2>1 DEF Elems
<1>. QED  BY ONLY <1>6, <1>7, <1>8 DEF Rotated

(* One that takes a slot over from another leaves the number of holders.     *)
LEMMA HandOver ==
  ASSUME NEW H, IsFiniteSet(H), NEW t \in H, NEW u, u \notin H
  PROVE  /\ IsFiniteSet((H \ {t}) \union {u})
         /\ Cardinality((H \ {t}) \union {u}) = Cardinality(H)
<1>1. Cardinality(H) \in Nat
  BY FS_CardinalityType
<1>2. IsFiniteSet(H \ {t}) /\ Cardinality(H \ {t}) = Cardinality(H) - 1
  BY FS_RemoveElement
<1>3. u \notin H \ {t}
  OBVIOUS
<1>4. /\ IsFiniteSet((H \ {t}) \union {u})
      /\ Cardinality((H \ {t}) \union {u}) = Cardinality(H \ {t}) + 1
  BY <1>2, <1>3, FS_AddElement
<1>. QED  BY <1>1, <1>2, <1>4

-------------------------------------------------------------------------------
(* How many members of X, and how often x, are in a queue.                  *)
PositionsIn(q, X) == {i \in DOMAIN q : q[i] \in X}
CountIn(q, X) == Cardinality(PositionsIn(q, X))
PositionsOf(q, x) == {i \in DOMAIN q : q[i] = x}
Times(q, x) == Cardinality(PositionsOf(q, x))

(* A count is a number, and zero for what is not in the queue.              *)
LEMMA CountType ==
  ASSUME NEW S, NEW q \in Seq(S), NEW X
  PROVE  /\ IsFiniteSet(PositionsIn(q, X)) /\ CountIn(q, X) \in Nat
         /\ CountIn(q, X) = 0 <=> Elems(q) \intersect X = {}
<1>1. IsFiniteSet(DOMAIN q)
  BY LenProperties, FS_Interval
<1>2. IsFiniteSet(PositionsIn(q, X))
  BY <1>1, FS_Subset DEF PositionsIn
<1>3. PositionsIn(q, X) = {} <=> Elems(q) \intersect X = {}
  BY DEF PositionsIn, Elems
<1>. QED  BY <1>2, <1>3, FS_CardinalityType, FS_EmptySet DEF CountIn

(* Append counts its element once more.                                     *)
LEMMA CountAppend ==
  ASSUME NEW S, NEW q \in Seq(S), NEW X, NEW y \in S
  PROVE  CountIn(Append(q, y), X) = IF y \in X THEN CountIn(q, X) + 1 ELSE CountIn(q, X)
<1>1. /\ DOMAIN q = 1 .. Len(q) /\ Len(q) \in Nat
      /\ DOMAIN Append(q, y) = 1 .. (Len(q) + 1)
      /\ \A i \in 1 .. Len(q) : Append(q, y)[i] = q[i]
      /\ Append(q, y)[Len(q) + 1] = y
  OBVIOUS
<1>2. CASE y \in X
  <2>1. PositionsIn(Append(q, y), X) = PositionsIn(q, X) \union {Len(q) + 1}
    BY <1>1, <1>2 DEF PositionsIn
  <2>2. Len(q) + 1 \notin PositionsIn(q, X)
    BY <1>1 DEF PositionsIn
  <2>. QED  BY <1>2, <2>1, <2>2, CountType, FS_AddElement DEF CountIn
<1>3. CASE y \notin X
  <2>1. PositionsIn(Append(q, y), X) = PositionsIn(q, X)
    BY <1>1, <1>3 DEF PositionsIn
  <2>. QED  BY <1>3, <2>1 DEF CountIn
<1>. QED  BY <1>2, <1>3

(* Tail counts the head once less.                                          *)
LEMMA CountTail ==
  ASSUME NEW S, NEW q \in Seq(S), NEW X, q # <<>>
  PROVE  CountIn(q, X) = IF Head(q) \in X THEN CountIn(Tail(q), X) + 1 ELSE CountIn(Tail(q), X)
<1>1. /\ DOMAIN q = 1 .. Len(q) /\ Len(q) \in Nat \ {0}
      /\ DOMAIN Tail(q) = 1 .. (Len(q) - 1)
      /\ \A i \in 1 .. (Len(q) - 1) : Tail(q)[i] = q[i + 1]
      /\ Head(q) = q[1] /\ Tail(q) \in Seq(S)
  OBVIOUS
<1>. DEFINE P == PositionsIn(q, X) \ {1}
            T == PositionsIn(Tail(q), X)
            f == [i \in T |-> i + 1]
<1>2. IsFiniteSet(T) /\ IsFiniteSet(P) /\ IsFiniteSet(PositionsIn(q, X))
  BY <1>1, CountType, FS_RemoveElement
<1>3. \A i \in T : i \in 1 .. (Len(q) - 1) /\ i + 1 \in P
  BY <1>1 DEF PositionsIn
<1>4. \A j \in P : j - 1 \in T /\ (j - 1) + 1 = j
  BY <1>1 DEF PositionsIn
<1>5. f \in Bijection(T, P)
  <2>1. f \in [T -> P]
    BY <1>3
  <2>2. \A i, j \in T : f[i] = f[j] => i = j
    BY <1>3
  <2>3. \A j \in P : \E i \in T : f[i] = j
    BY <1>4
  <2>. QED  BY <2>1, <2>2, <2>3, Fun_IsBij
<1>6. Cardinality(P) = Cardinality(T)
  BY <1>2, <1>5, FS_Bijection DEF ExistsBijection
<1>7. Cardinality(PositionsIn(q, X)) \in Nat /\ Cardinality(T) \in Nat
  BY <1>2, FS_CardinalityType
<1>8. CASE Head(q) \in X
  <2>1. 1 \in PositionsIn(q, X)
    BY <1>1, <1>8 DEF PositionsIn
  <2>2. Cardinality(P) = Cardinality(PositionsIn(q, X)) - 1
    BY <1>2, <2>1, FS_RemoveElement
  <2>. QED  BY <1>6, <1>7, <1>8, <2>2 DEF CountIn
<1>9. CASE Head(q) \notin X
  <2>1. P = PositionsIn(q, X)
    BY <1>1, <1>9 DEF PositionsIn
  <2>. QED  BY <1>6, <1>9, <2>1 DEF CountIn
<1>. QED  BY <1>8, <1>9

(* The same of one element.                                                 *)
LEMMA TimesIsCount == \A q, x : PositionsOf(q, x) = PositionsIn(q, {x}) /\ Times(q, x) = CountIn(q, {x})
BY DEF PositionsOf, PositionsIn, Times, CountIn

(* How often x is in a queue is a number, and zero if it is not.            *)
LEMMA TimesType ==
  ASSUME NEW S, NEW q \in Seq(S), NEW x
  PROVE  IsFiniteSet(PositionsOf(q, x)) /\ Times(q, x) \in Nat /\ (Times(q, x) = 0 <=> x \notin Elems(q))
<1>1. Elems(q) \intersect {x} = {} <=> x \notin Elems(q)
  OBVIOUS
<1>. QED  BY <1>1, CountType, TimesIsCount

(* What Append does to it.                                                  *)
LEMMA TimesAppend ==
  ASSUME NEW S, NEW q \in Seq(S), NEW x, NEW y \in S
  PROVE  Times(Append(q, y), x) = IF x = y THEN Times(q, x) + 1 ELSE Times(q, x)
<1>1. CountIn(Append(q, y), {x}) = IF y \in {x} THEN CountIn(q, {x}) + 1 ELSE CountIn(q, {x})
  BY CountAppend
<1>2. Times(Append(q, y), x) = CountIn(Append(q, y), {x}) /\ Times(q, x) = CountIn(q, {x})
  BY TimesIsCount
<1>. QED  BY ONLY <1>1, <1>2

(* What Tail does to it.                                                    *)
LEMMA TimesTail ==
  ASSUME NEW S, NEW q \in Seq(S), NEW x, q # <<>>
  PROVE  Times(q, x) = IF x = Head(q) THEN Times(Tail(q), x) + 1 ELSE Times(Tail(q), x)
<1>1. CountIn(q, {x}) = IF Head(q) \in {x} THEN CountIn(Tail(q), {x}) + 1 ELSE CountIn(Tail(q), {x})
  BY CountTail
<1>2. Times(Tail(q), x) = CountIn(Tail(q), {x}) /\ Times(q, x) = CountIn(q, {x})
  BY TimesIsCount
<1>. QED  BY ONLY <1>1, <1>2

-------------------------------------------------------------------------------
(* A queue of messages in M with getters in C; in a good one nobody waits   *)
(* twice.                                                                   *)
Queues(M, C) == [items : Seq(M), getters : Seq(C), woken : SUBSET C]
Good(q) == NoRepeat(q.getters) /\ Elems(q.getters) \intersect q.woken = {}
WaitFor(q) == q.woken \union Elems(q.getters)

(* deque.remove takes c, and nobody else, out of a queue without repeats.   *)
LEMMA WithoutElems ==
  ASSUME NEW S, NEW q \in Seq(S), NoRepeat(q), NEW c
  PROVE  /\ Without(q, c) \in Seq(S)
         /\ NoRepeat(Without(q, c))
         /\ Elems(Without(q, c)) = Elems(q) \ {c}
<1>1. DOMAIN q = 1 .. Len(q) /\ Len(q) \in Nat /\ \A i \in DOMAIN q : q[i] \in S
  BY LenProperties, ElementOfSeq
<1>2. CASE \A i \in DOMAIN q : q[i] # c
  BY <1>2 DEF Without, Elems
<1>3. CASE \E i \in DOMAIN q : q[i] = c
  <2>. DEFINE i == CHOOSE i \in DOMAIN q : q[i] = c
              u == SubSeq(q, 1, i - 1)
              v == SubSeq(q, i + 1, Len(q))
  <2>1. i \in 1 .. Len(q) /\ q[i] = c
    BY <1>1, <1>3
  <2>2. Without(q, c) = u \o v
    BY <1>3 DEF Without
  <2>. HIDE DEF i
  <2>3. /\ u \in Seq(S) /\ Len(u) = i - 1
        /\ \A k \in 1 .. (i - 1) : u[k] = q[k]
    <3>1. \A k \in 1 .. (i - 1) : q[k] \in S
      BY <1>1, <2>1
    <3>. QED  BY <2>1, <3>1, SubSeqProperties
  <2>4. /\ v \in Seq(S) /\ Len(v) = Len(q) - i
        /\ \A k \in 1 .. (Len(q) - i) : v[k] = q[i + k]
    <3>1. \A k \in (i + 1) .. Len(q) : q[k] \in S
      BY <1>1, <2>1
    <3>2. /\ v \in Seq(S) /\ Len(v) = IF i + 1 <= Len(q) THEN Len(q) - (i + 1) + 1 ELSE 0
          /\ \A k \in 1 .. (Len(q) - (i + 1) + 1) : v[k] = q[(i + 1) + k - 1]
      BY <1>1, <2>1, <3>1, SubSeqProperties
    <3>. HIDE DEF v
    <3>3. Len(v) = Len(q) - i
      BY <1>1, <2>1, <3>2
    <3>4. ASSUME NEW k \in 1 .. (Len(q) - i) PROVE v[k] = q[i + k]
      <4>1. k \in 1 .. (Len(q) - (i + 1) + 1) /\ (i + 1) + k - 1 = i + k
        BY <1>1, <2>1
      <4>. QED  BY <3>2, <4>1
    <3>. QED  BY <3>2, <3>3, <3>4
  <2>. HIDE DEF u, v
  <2>. DEFINE w == u \o v
  <2>5. /\ w \in Seq(S) /\ DOMAIN w = 1 .. (Len(q) - 1)
        /\ \A k \in 1 .. (Len(q) - 1) : w[k] = IF k < i THEN q[k] ELSE q[k + 1]
    <3>0. Len(u) + Len(v) = Len(q) - 1
      BY <1>1, <2>1, <2>3, <2>4
    <3>1. /\ w \in Seq(S) /\ Len(w) = Len(q) - 1
          /\ \A k \in 1 .. (Len(q) - 1) : w[k] = IF k <= Len(u) THEN u[k] ELSE v[k - Len(u)]
      BY <2>3, <2>4, <3>0, ConcatProperties
    <3>. HIDE DEF w
    <3>2. ASSUME NEW k \in 1 .. (Len(q) - 1) PROVE w[k] = IF k < i THEN q[k] ELSE q[k + 1]
      <4>1. CASE k < i
        <5>1. k <= Len(u) /\ k \in 1 .. (i - 1)
          BY <2>1, <2>3, <4>1
        <5>. QED  BY <2>3, <3>1, <4>1, <5>1
      <4>2. CASE ~(k < i)
        <5>1. k - (i - 1) \in 1 .. (Len(q) - i) /\ i + (k - (i - 1)) = k + 1
          BY <1>1, <2>1, <4>2
        <5>2. ~(k <= Len(u)) /\ k - Len(u) = k - (i - 1)
          BY <2>1, <2>3, <4>2
        <5>. QED  BY <2>4, <3>1, <4>2, <5>1, <5>2
      <4>. QED  BY <4>1, <4>2
    <3>. QED  BY <3>1, <3>2, LenProperties
  <2>. HIDE DEF w
  <2>6. NoRepeat(w)
    <3>. SUFFICES ASSUME NEW k \in 1 .. (Len(q) - 1), NEW l \in 1 .. (Len(q) - 1), k # l PROVE w[k] # w[l]
      BY <2>5 DEF NoRepeat
    <3>. QED  BY <1>1, <2>1, <2>5 DEF NoRepeat
  <2>7. Elems(w) = Elems(q) \ {c}
    <3>1. ASSUME NEW k \in DOMAIN w PROVE w[k] \in Elems(q) \ {c}
      <4>0. k \in 1 .. (Len(q) - 1)
        BY <2>5
      <4>1. CASE k < i
        <5>1. k \in DOMAIN q /\ k # i /\ w[k] = q[k]
          BY <1>1, <2>1, <2>5, <4>0, <4>1
        <5>. QED  BY <1>1, <2>1, <5>1 DEF NoRepeat, Elems
      <4>2. CASE ~(k < i)
        <5>1. k + 1 \in DOMAIN q /\ k + 1 # i /\ w[k] = q[k + 1]
          BY <1>1, <2>1, <2>5, <4>0, <4>2
        <5>. QED  BY <1>1, <2>1, <5>1 DEF NoRepeat, Elems
      <4>. QED  BY <4>1, <4>2
    <3>2. ASSUME NEW j \in DOMAIN q, q[j] # c PROVE q[j] \in Elems(w)
      <4>1. CASE j < i
        BY <1>1, <2>1, <2>5, <4>1 DEF Elems
      <4>2. CASE j > i
        <5>1. j - 1 \in 1 .. (Len(q) - 1) /\ ~(j - 1 < i) /\ (j - 1) + 1 = j
          BY <1>1, <2>1, <4>2
        <5>. QED  BY <2>5, <5>1 DEF Elems
      <4>. QED  BY <1>1, <2>1, <3>2, <4>1, <4>2
    <3>. QED  BY <3>1, <3>2 DEF Elems
  <2>. QED  BY <2>2, <2>5, <2>6, <2>7 DEF w
<1>. QED  BY <1>2, <1>3

(* A wake-up moves the first getter to those that were woken.               *)
LEMMA WakeNextFacts ==
  ASSUME NEW M, NEW C, NEW q \in Queues(M, C), Good(q)
  PROVE  /\ WakeNext(q) \in Queues(M, C) /\ Good(WakeNext(q))
         /\ WakeNext(q).items = q.items /\ WaitFor(WakeNext(q)) = WaitFor(q)
<1>1. CASE q.getters = <<>>
  BY <1>1 DEF WakeNext
<1>2. CASE q.getters # <<>>
  <2>. DEFINE h == Head(q.getters)
  <2>1. q.getters \in Seq(C) /\ NoRepeat(q.getters)
    BY DEF Queues, Good
  <2>2. /\ Elems(Tail(q.getters)) = Elems(q.getters) \ {h}
        /\ NoRepeat(Tail(q.getters)) /\ h \in Elems(q.getters)
        /\ Tail(q.getters) \in Seq(C) /\ h \in C
    BY <1>2, <2>1, TailElems
  <2>3. WakeNext(q) = [q EXCEPT !.getters = Tail(q.getters), !.woken = q.woken \union {h}]
    BY <1>2 DEF WakeNext
  <2>4. /\ WakeNext(q).items = q.items /\ WakeNext(q).getters = Tail(q.getters)
        /\ WakeNext(q).woken = q.woken \union {h} /\ WakeNext(q) \in Queues(M, C)
    BY <2>2, <2>3 DEF Queues
  <2>5. Good(WakeNext(q))
    BY <2>2, <2>4 DEF Good
  <2>6. WaitFor(WakeNext(q)) = WaitFor(q)
    BY <2>2, <2>4 DEF WaitFor
  <2>. QED  BY <2>4, <2>5, <2>6
<1>. QED  BY <1>1, <1>2

(* put_nowait appends the message and wakes a getter.                       *)
LEMMA PutFacts ==
  ASSUME NEW M, NEW C, NEW q \in Queues(M, C), Good(q), NEW x \in M
  PROVE  /\ Put(q, x) \in Queues(M, C) /\ Good(Put(q, x))
         /\ Put(q, x).items = Append(q.items, x) /\ WaitFor(Put(q, x)) = WaitFor(q)
<1>. DEFINE p == [q EXCEPT !.items = Append(@, x)]
<1>0. q.items \in Seq(M) /\ Append(q.items, x) \in Seq(M)
  BY DEF Queues
<1>1. /\ p \in Queues(M, C) /\ p.items = Append(q.items, x)
      /\ p.getters = q.getters /\ p.woken = q.woken
  BY <1>0 DEF Queues
<1>2. Good(p) /\ WaitFor(p) = WaitFor(q)
  BY <1>1 DEF Good, WaitFor
<1>3. Put(q, x) = WakeNext(p)
  BY DEF Put
<1>. HIDE DEF p
<1>. QED  BY <1>1, <1>2, <1>3, WakeNextFacts

(* A getter that finds the queue empty waits, for the first time or again.  *)
LEMMA WaitFacts ==
  ASSUME NEW M, NEW C, NEW q \in Queues(M, C), Good(q), NEW c \in C, c \notin Elems(q.getters)
  PROVE  /\ Wait(q, c) \in Queues(M, C) /\ Good(Wait(q, c))
         /\ Wait(q, c).items = q.items /\ WaitFor(Wait(q, c)) = WaitFor(q) \union {c}
<1>1. /\ Elems(Append(q.getters, c)) = Elems(q.getters) \union {c}
      /\ NoRepeat(Append(q.getters, c)) /\ Append(q.getters, c) \in Seq(C)
  BY AppendElems DEF Queues, Good
<1>2. /\ Wait(q, c).items = q.items /\ Wait(q, c).getters = Append(q.getters, c)
      /\ Wait(q, c).woken = q.woken \ {c} /\ Wait(q, c) \in Queues(M, C)
  BY <1>1 DEF Wait, Queues
<1>3. Good(Wait(q, c))
  BY <1>1, <1>2 DEF Good
<1>4. WaitFor(Wait(q, c)) = WaitFor(q) \union {c}
  BY <1>1, <1>2 DEF WaitFor
<1>. QED  BY <1>2, <1>3, <1>4

(* A getter that finds a message takes the oldest.                          *)
LEMMA TakeFacts ==
  ASSUME NEW M, NEW C, NEW q \in Queues(M, C), Good(q), NEW c, c \notin Elems(q.getters),
         q.items # <<>>
  PROVE  /\ Take(q, c) \in Queues(M, C) /\ Good(Take(q, c))
         /\ Take(q, c).items = Tail(q.items) /\ WaitFor(Take(q, c)) = WaitFor(q) \ {c}
<1>1. Tail(q.items) \in Seq(M)
  BY DEF Queues
<1>2. /\ Take(q, c).items = Tail(q.items) /\ Take(q, c).getters = q.getters
      /\ Take(q, c).woken = q.woken \ {c} /\ Take(q, c) \in Queues(M, C)
  BY <1>1 DEF Take, Queues
<1>. QED  BY <1>2 DEF Good, WaitFor

(* A getter that gives up is forgotten; a wake-up it had is passed on.      *)
LEMMA CancelFacts ==
  ASSUME NEW M, NEW C, NEW q \in Queues(M, C), Good(q), NEW c
  PROVE  /\ Cancel(q, c) \in Queues(M, C) /\ Good(Cancel(q, c))
         /\ Cancel(q, c).items = q.items /\ WaitFor(Cancel(q, c)) = WaitFor(q) \ {c}
<1>. DEFINE p == [q EXCEPT !.getters = Without(@, c), !.woken = @ \ {c}]
<1>1. /\ Without(q.getters, c) \in Seq(C) /\ NoRepeat(Without(q.getters, c))
      /\ Elems(Without(q.getters, c)) = Elems(q.getters) \ {c}
  BY WithoutElems DEF Queues, Good
<1>2. /\ p \in Queues(M, C) /\ p.items = q.items
      /\ p.getters = Without(q.getters, c) /\ p.woken = q.woken \ {c}
  BY <1>1 DEF Queues
<1>3. Good(p) /\ WaitFor(p) = WaitFor(q) \ {c}
  BY <1>1, <1>2 DEF Good, WaitFor
<1>4. Cancel(q, c) = p \/ Cancel(q, c) = WakeNext(p)
  BY DEF Cancel
<1>. HIDE DEF p
<1>. QED  BY <1>2, <1>3, <1>4, WakeNextFacts
===============================================================================
