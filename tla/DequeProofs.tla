----------------------------- MODULE DequeProofs -----------------------------
(* What the deque operations do to the elements of the pool.                *)
EXTENDS Deque, SequenceTheorems, FiniteSetTheorems, TLAPS

\* Shift: the front element is gone from a pool without duplicates, the others stay.
LEMMA ShiftLemma ==
    ASSUME NEW S, NEW q \in Seq(S), q # <<>>, NoDup(q)
    PROVE  /\ Front(q) \in S
           /\ Shift(q) \in Seq(S)
           /\ NoDup(Shift(q))
           /\ Front(q) \in Elems(q)
           /\ Front(q) \notin Elems(Shift(q))
           /\ Elems(Shift(q)) \subseteq Elems(q)
<1>1. /\ Len(q) \in Nat /\ Len(q) > 0
      /\ Shift(q) \in Seq(S)
      /\ Len(Shift(q)) = Len(q) - 1
      /\ \A i \in 1..Len(Shift(q)) : Shift(q)[i] = q[i + 1]
      /\ Front(q) = q[1]
      /\ \A i \in 1..Len(q) : q[i] \in S
  BY DEF Shift, Front
<1>2. NoDup(Shift(q))
  BY <1>1 DEF NoDup
<1>3. Front(q) \notin Elems(Shift(q))
  BY <1>1 DEF Elems, NoDup
<1>4. Elems(Shift(q)) \subseteq Elems(q)
  BY <1>1 DEF Elems
<1> QED
  BY <1>1, <1>2, <1>3, <1>4 DEF Elems

\* PushBack adds its item and keeps the pool free of duplicates if it was not there.
LEMMA PushBackLemma ==
    ASSUME NEW S, NEW q \in Seq(S), NEW x \in S
    PROVE  /\ PushBack(q, x) \in Seq(S)
           /\ Elems(PushBack(q, x)) = Elems(q) \cup {x}
           /\ NoDup(q) /\ x \notin Elems(q) => NoDup(PushBack(q, x))
<1>1. /\ Len(q) \in Nat
      /\ PushBack(q, x) \in Seq(S)
      /\ Len(PushBack(q, x)) = Len(q) + 1
      /\ \A i \in 1..Len(q) : PushBack(q, x)[i] = q[i]
      /\ PushBack(q, x)[Len(q) + 1] = x
  BY DEF PushBack
<1>2. Elems(PushBack(q, x)) = Elems(q) \cup {x}
  BY <1>1 DEF Elems
<1>3. ASSUME NoDup(q), x \notin Elems(q)
      PROVE  NoDup(PushBack(q, x))
  BY <1>1, <1>3 DEF Elems, NoDup
<1> QED
  BY <1>1, <1>2, <1>3

\* FindAndRemove leaves a pool without duplicates and without the removed items.
LEMMA FindAndRemoveLemma ==
    ASSUME NEW S, NEW q \in Seq(S), NoDup(q), NEW R, NEW p \in FindAndRemove(q, R)
    PROVE  /\ p \in Seq(S)
           /\ NoDup(p)
           /\ Elems(p) \cap R = {}
           /\ Elems(p) \subseteq Elems(q)
<1> DEFINE K == Kept(q, R)
           n == Cardinality(K)
<1>1. n \in Nat
  <2>1. Len(q) \in Nat
    OBVIOUS
  <2>2. IsFiniteSet(1..Len(q))
    BY <2>1, FS_Interval
  <2>3. IsFiniteSet(K)
    BY <2>2, FS_Subset DEF Kept
  <2> QED
    BY <2>3, FS_CardinalityType
<1>2. PICK f \in [1..n -> K] : /\ \A i, j \in 1..n : i < j => f[i] < f[j]
                               /\ p = [i \in 1..n |-> q[f[i]]]
  BY DEF FindAndRemove, Numberings
<1>3. \A i \in 1..n : f[i] \in 1..Len(q) /\ q[f[i]] \notin R /\ q[f[i]] \in S
  BY <1>2 DEF Kept
<1> HIDE DEF n, K
<1>4. p \in Seq(S) /\ Len(p) = n
  BY <1>1, <1>2, <1>3
<1>5. NoDup(p)
  <2> SUFFICES ASSUME NEW i \in 1..n, NEW j \in 1..n, p[i] = p[j], i < j
               PROVE  FALSE
    BY <1>1, <1>4 DEF NoDup
  <2>1. f[i] = f[j]
    BY <1>2, <1>3 DEF NoDup
  <2>2. f[i] < f[j]
    BY <1>2
  <2> QED
    BY <2>1, <2>2, <1>3
<1>6. Elems(p) \cap R = {} /\ Elems(p) \subseteq Elems(q)
  BY <1>2, <1>3, <1>4 DEF Elems
<1> QED
  BY <1>4, <1>5, <1>6
==============================================================================
