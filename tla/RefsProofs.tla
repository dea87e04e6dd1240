----------------------------- MODULE RefsProofs -----------------------------
(***************************************************************************)
(* Theorems about Refs, for any references and values: the free list and   *)
(* the references in use share out the slots of the array, and a reference *)
(* keeps its value.                                                        *)
(***************************************************************************)
EXTENDS Refs, TLAPS

RefsInv == RefsTypeOK /\ FreeListExact

USE RefsAssumption

\* What an assignment to an element of a JavaScript array, or one behind its last,
\* comes to.
LEMMA PutInPlace ==
  ASSUME NEW a \in Seq(Values \cup Nat), NEW i \in 0..(Len(a) - 1),
         NEW v \in Values \cup Nat
  PROVE  /\ Put(a, i, v) \in Seq(Values \cup Nat) /\ Len(Put(a, i, v)) = Len(a)
         /\ Put(a, i, v)[i + 1] = v
         /\ \A j \in 0..(Len(a) - 1) : j # i => Put(a, i, v)[j + 1] = a[j + 1]
BY DEF Put

LEMMA PutBehind ==
  ASSUME NEW a \in Seq(Values \cup Nat), NEW v \in Values \cup Nat
  PROVE  /\ Put(a, Len(a), v) \in Seq(Values \cup Nat)
         /\ Len(Put(a, Len(a), v)) = Len(a) + 1
         /\ Put(a, Len(a), v)[Len(a) + 1] = v
         /\ \A j \in 0..(Len(a) - 1) : Put(a, Len(a), v)[j + 1] = a[j + 1]
BY DEF Put

-----------------------------------------------------------------------------
\* duv_ref() with a free slot: the head of the list leaves it and gets the value.
LEMMA PopKeepsInv ==
  ASSUME RefsInv, NEW h \in Handles, NEW v \in Values, NEW s,
         refid[h] = NoRef, s = Get(0), s # 0,
         refid' = [refid EXCEPT ![h] = s],
         refs' = Put(Put(refs, 0, Get(s)), s, v),
         free' = Tail(free)
  PROVE  /\ RefsInv' /\ s \in Slots /\ s \notin Taken
         /\ Get(s)' = v /\ Len(refs') = Len(refs)
         /\ \A i \in Slots \ {s} : Get(i)' = Get(i)
<1>1. free # <<>> /\ free[1] = s /\ s \in Slots /\ Len(free) \in Nat \ {0}
  BY DEF RefsInv, RefsTypeOK, FreeListExact, Chained, Link
<1>2. /\ free' \in Seq(Slots) /\ Len(free') = Len(free) - 1
      /\ DOMAIN free' = 1..Len(free') /\ Len(free') \in Nat
      /\ \A i \in 1..Len(free') : i + 1 \in 1..Len(free) /\ free'[i] = free[i + 1]
  BY <1>1 DEF RefsInv, RefsTypeOK
<1>3. Get(s) \in Values \cup Nat /\ Get(s) = IF Len(free) = 1 THEN 0 ELSE free[2]
  <2>1. Get(s) \in Values \cup Nat
    BY <1>1 DEF RefsInv, RefsTypeOK, Get, Slots
  <2>2. Get(free[1]) = Link(1)
    BY <1>1 DEF RefsInv, FreeListExact, Chained
  <2> QED
    BY <1>1, <2>1, <2>2 DEF Link
<1>4. /\ refs' \in Seq(Values \cup Nat) /\ Len(refs') = Len(refs)
      /\ Get(0)' = Get(s) /\ Get(s)' = v
      /\ \A i \in Slots \ {s} : Get(i)' = Get(i)
  <2>1. refs \in Seq(Values \cup Nat) /\ 0 \in 0..(Len(refs) - 1)
        /\ s \in 0..(Len(refs) - 1) /\ 0 # s /\ v \in Values \cup Nat
    BY <1>1 DEF RefsInv, RefsTypeOK, Slots
  <2>2. PICK a : a = Put(refs, 0, Get(s))
    OBVIOUS
  <2>3. /\ a \in Seq(Values \cup Nat) /\ Len(a) = Len(refs) /\ a[0 + 1] = Get(s)
        /\ \A j \in 0..(Len(refs) - 1) : j # 0 => a[j + 1] = refs[j + 1]
    BY <1>3, <2>1, <2>2, PutInPlace
  <2>4. /\ refs' = Put(a, s, v) /\ s \in 0..(Len(a) - 1)
        /\ a \in Seq(Values \cup Nat) /\ v \in Values \cup Nat
    BY <2>1, <2>2, <2>3
  <2>5. /\ Put(a, s, v) \in Seq(Values \cup Nat) /\ Len(Put(a, s, v)) = Len(a)
        /\ Put(a, s, v)[s + 1] = v
        /\ \A j \in 0..(Len(a) - 1) : j # s => Put(a, s, v)[j + 1] = a[j + 1]
    BY <2>4, PutInPlace
  <2> QED
    BY <2>1, <2>3, <2>4, <2>5 DEF Get, Slots
<1>5. s \notin Taken /\ s \notin Range(free')
  BY <1>1, <1>2 DEF RefsInv, RefsTypeOK, FreeListExact, Range, IsInjective
<1>6. Slots' = Slots /\ Taken' = Taken \cup {s}
  BY <1>1, <1>4 DEF RefsInv, RefsTypeOK, Slots, Taken
<1>7. RefsTypeOK'
  BY <1>1, <1>2, <1>4, <1>6 DEF RefsInv, RefsTypeOK
<1>8. Chained'
  <2>1. Get(0)' = Link(0)'
    BY <1>1, <1>2, <1>3, <1>4 DEF Link
  <2>2. ASSUME NEW i \in 1..Len(free')
        PROVE  Get(free[i])' = Link(i)'
    <3>1. free'[i] = free[i + 1] /\ i + 1 \in 1..Len(free)
          /\ free'[i] \in Slots \ {s}
      <4>1. free'[i] \in Slots
        BY <1>2
      <4>2. free'[i] \in Range(free')
        BY <1>2 DEF Range
      <4> QED
        BY <1>2, <1>5, <4>1, <4>2
    <3>2. Get(free[i + 1]) = Link(i + 1)
      BY <3>1 DEF RefsInv, FreeListExact, Chained
    <3>3. Get(free[i])' = Get(free[i + 1])
      BY <1>4, <3>1
    <3>4. Link(i)' = Link(i + 1)
      <4>1. CASE i = Len(free')
        BY <1>1, <1>2, <4>1 DEF Link
      <4>2. CASE i # Len(free')
        <5>1. Len(free') \in Nat /\ Len(free') + 1 = Len(free) /\ i \in 1..Len(free')
          BY <1>1, <1>2
        <5>2. i + 1 \in 1..Len(free') /\ i + 1 # Len(free)
          BY <5>1, <4>2
        <5> QED
          BY <1>2, <5>2, <4>2 DEF Link
      <4> QED
        BY <4>1, <4>2
    <3> QED
      BY <3>2, <3>3, <3>4
  <2> QED
    BY <2>1, <2>2 DEF Chained
<1>9. Range(free) = Range(free') \cup {s} /\ IsInjective(free')
  <2>1. IsInjective(free')
    BY <1>1, <1>2 DEF RefsInv, RefsTypeOK, FreeListExact, IsInjective
  <2>2. ASSUME NEW x \in Range(free), x # s PROVE x \in Range(free')
    <3>1. PICK i \in 1..Len(free) : free[i] = x
      BY DEF Range, RefsInv, RefsTypeOK
    <3>2. i - 1 \in 1..Len(free') /\ free'[i - 1] = x
      BY <1>1, <1>2, <2>2, <3>1
    <3> QED
      BY <1>2, <3>2 DEF Range
  <2>3. Range(free') \cup {s} \subseteq Range(free)
    BY <1>1, <1>2 DEF Range, RefsInv, RefsTypeOK
  <2> QED
    BY <2>1, <2>2, <2>3
<1>10. FreeListExact'
  <2>1. \A g, k \in Handles : refid'[g] = refid'[k] /\ refid'[g] \in Slots => g = k
    BY <1>1, <1>5 DEF RefsInv, RefsTypeOK, FreeListExact, Taken, Slots
  <2> QED
    BY <1>5, <1>6, <1>8, <1>9, <2>1 DEF RefsInv, FreeListExact
<1> QED
  BY <1>1, <1>4, <1>5, <1>7, <1>10 DEF RefsInv

\* duv_ref() without a free slot: the array gets one more, and all were in use.
LEMMA AppendKeepsInv ==
  ASSUME RefsInv, NEW h \in Handles, NEW v \in Values, NEW s,
         refid[h] = NoRef, Get(0) = 0, s = Len(refs),
         refid' = [refid EXCEPT ![h] = s],
         refs' = Put(refs, s, v),
         free' = free
  PROVE  /\ RefsInv' /\ Taken = Slots /\ s \notin Slots \cup {0}
         /\ Get(s)' = v
         /\ \A i \in Slots : Get(i)' = Get(i)
<1>1. /\ refs \in Seq(Values \cup Nat) /\ Len(refs) \in Nat \ {0}
      /\ v \in Values \cup Nat /\ s = Len(refs)
  BY DEF RefsInv, RefsTypeOK
<1>2. /\ refs' \in Seq(Values \cup Nat) /\ Len(refs') = Len(refs) + 1
      /\ refs'[s + 1] = v
      /\ \A j \in 0..(Len(refs) - 1) : refs'[j + 1] = refs[j + 1]
  BY <1>1, PutBehind
<1>3. free = <<>>
  <2>1. Link(0) = 0 /\ free \in Seq(Slots)
    BY DEF RefsInv, RefsTypeOK, FreeListExact, Chained
  <2>2. ASSUME free # <<>> PROVE FALSE
    <3>1. Len(free) \in Nat \ {0} /\ free[1] \in Slots
      BY <2>1, <2>2
    <3> QED
      BY <2>1, <3>1 DEF Link, Slots
  <2> QED
    BY <2>2
<1>4. Range(free) = {}
  BY <1>3 DEF Range
<1>5. Taken = Slots
  BY <1>4 DEF RefsInv, FreeListExact
<1>6. Slots' = Slots \cup {s} /\ s \notin Slots \cup {0} /\ s \in Nat
  BY <1>1, <1>2 DEF Slots
<1>7. /\ Get(s)' = v /\ Get(0)' = 0
      /\ \A i \in Slots : Get(i)' = Get(i)
  BY <1>1, <1>2 DEF Get, Slots
<1>8. \A g \in Handles : refid[g] \in Slots \cup {NoRef, 0}
  BY DEF RefsInv, RefsTypeOK
<1>9. \A g \in Handles : refid'[g] = IF g = h THEN s ELSE refid[g]
  BY DEF RefsInv, RefsTypeOK
<1>10. RefsTypeOK'
  <2>1. refid' \in [Handles -> Slots' \cup {NoRef, 0}]
    BY <1>6 DEF RefsInv, RefsTypeOK
  <2>2. free' \in Seq(Slots')
    BY <1>3
  <2> QED
    BY <1>1, <1>2, <2>1, <2>2 DEF RefsTypeOK
<1>11. Taken' = Slots'
  <2>1. s # NoRef /\ s # 0
    BY <1>6
  <2>2. Taken' = Taken \cup {s}
    BY <1>9, <2>1 DEF Taken
  <2> QED
    BY <1>5, <1>6, <2>2
<1>12. Chained' /\ IsInjective(free')
  BY <1>3, <1>7 DEF Chained, Link, IsInjective
<1>13. \A g, k \in Handles : refid'[g] = refid'[k] /\ refid'[g] \in Slots' => g = k
  BY <1>6, <1>8, <1>9 DEF RefsInv, FreeListExact
<1>14. FreeListExact'
  BY <1>4, <1>11, <1>12, <1>13 DEF FreeListExact
<1> QED
  BY <1>5, <1>6, <1>7, <1>10, <1>14 DEF RefsInv

-----------------------------------------------------------------------------
\* duv_unref(): the slot of the reference becomes the head of the list.
LEMMA PushKeepsInv ==
  ASSUME RefsInv, NEW h \in Handles, NEW s,
         s = refid[h], s # NoRef, s # 0,
         refid' = [refid EXCEPT ![h] = NoRef],
         refs' = Put(Put(refs, s, Get(0)), 0, s),
         free' = <<s>> \o free
  PROVE  /\ RefsInv' /\ s \in Slots /\ Len(refs') = Len(refs)
         /\ \A i \in Slots \ {s} : Get(i)' = Get(i)
<1>1. s \in Slots /\ s \in Taken /\ s \notin Range(free)
  BY DEF RefsInv, RefsTypeOK, FreeListExact, Taken
<1>2. /\ refs \in Seq(Values \cup Nat) /\ 0 \in 0..(Len(refs) - 1)
      /\ s \in 0..(Len(refs) - 1) /\ s # 0 /\ s \in Values \cup Nat
      /\ Get(0) \in Values \cup Nat
  BY <1>1 DEF RefsInv, RefsTypeOK, Slots, Get
<1>3. /\ refs' \in Seq(Values \cup Nat) /\ Len(refs') = Len(refs)
      /\ Get(0)' = s /\ Get(s)' = Get(0)
      /\ \A i \in Slots \ {s} : Get(i)' = Get(i)
  <2>1. PICK x : x = Get(0)
    OBVIOUS
  <2>2. /\ refs \in Seq(Values \cup Nat) /\ x \in Values \cup Nat
        /\ s \in 0..(Len(refs) - 1)
    BY <1>2, <2>1
  <2>3. /\ Put(refs, s, x) \in Seq(Values \cup Nat)
        /\ Len(Put(refs, s, x)) = Len(refs) /\ Put(refs, s, x)[s + 1] = x
        /\ \A j \in 0..(Len(refs) - 1) : j # s => Put(refs, s, x)[j + 1] = refs[j + 1]
    BY ONLY <2>2, PutInPlace
  <2>4. PICK a : a = Put(refs, s, x)
    OBVIOUS
  <2>5. /\ refs' = Put(a, 0, s) /\ 0 \in 0..(Len(a) - 1)
        /\ a \in Seq(Values \cup Nat) /\ s \in Values \cup Nat
    BY <1>2, <2>1, <2>3, <2>4
  <2>6. /\ Put(a, 0, s) \in Seq(Values \cup Nat) /\ Len(Put(a, 0, s)) = Len(a)
        /\ Put(a, 0, s)[0 + 1] = s
        /\ \A j \in 0..(Len(a) - 1) : j # 0 => Put(a, 0, s)[j + 1] = a[j + 1]
    BY <2>5, PutInPlace
  <2>7. /\ Len(refs) \in Nat /\ s \in 1..(Len(refs) - 1)
        /\ Len(a) = Len(refs) /\ a[s + 1] = Get(0)
        /\ \A j \in 0..(Len(refs) - 1) : j # s => a[j + 1] = refs[j + 1]
    BY <1>2, <2>1, <2>3, <2>4
  <2>8. Get(0)' = s /\ Get(s)' = Get(0)
    BY <2>5, <2>6, <2>7 DEF Get
  <2>9. \A i \in Slots \ {s} : Get(i)' = Get(i)
    BY <2>5, <2>6, <2>7 DEF Get, Slots
  <2> QED
    BY <2>5, <2>6, <2>7, <2>8, <2>9
<1>4. /\ free \in Seq(Slots) /\ Len(free) \in Nat
      /\ free' \in Seq(Slots) /\ Len(free') = Len(free) + 1 /\ free'[1] = s
      /\ DOMAIN free' = 1..(Len(free) + 1) /\ DOMAIN free = 1..Len(free)
      /\ \A i \in 1..Len(free) : free'[i + 1] = free[i]
  BY <1>1 DEF RefsInv, RefsTypeOK
<1>5. Slots' = Slots
  BY <1>3 DEF Slots
<1>6. \A g \in Handles : /\ refid[g] \in Slots \cup {NoRef, 0}
                         /\ refid'[g] = IF g = h THEN NoRef ELSE refid[g]
  BY DEF RefsInv, RefsTypeOK
<1>7. RefsTypeOK'
  BY <1>3, <1>4, <1>5 DEF RefsInv, RefsTypeOK
<1>8. \A i \in 0..Len(free) : Link(i + 1)' = Link(i)
  <2> SUFFICES ASSUME NEW i \in 0..Len(free) PROVE Link(i + 1)' = Link(i)
    OBVIOUS
  <2>1. CASE i = Len(free)
    BY <1>4, <2>1 DEF Link
  <2>2. CASE i # Len(free)
    <3>1. Len(free) \in Nat /\ Len(free') = Len(free) + 1
      BY <1>4
    <3>2. i + 1 \in 1..Len(free) /\ i + 1 # Len(free')
      BY <2>2, <3>1
    <3>3. free'[(i + 1) + 1] = free[i + 1]
      BY <1>4, <3>2
    <3> QED
      BY <2>2, <3>2, <3>3 DEF Link
  <2> QED
    BY <2>1, <2>2
<1>9. Chained'
  <2>1. Get(0)' = Link(0)'
    BY <1>3, <1>4 DEF Link
  <2>2. ASSUME NEW i \in 1..Len(free') PROVE Get(free[i])' = Link(i)'
    <3>1. CASE i = 1
      <4>1. Get(0) = Link(0) /\ Link(0 + 1)' = Link(0)
        BY <1>4, <1>8 DEF RefsInv, FreeListExact, Chained
      <4> QED
        BY <1>3, <1>4, <3>1, <4>1
    <3>2. CASE i # 1
      <4>1. PICK j \in 1..Len(free) : i = j + 1
        BY <1>4, <3>2
      <4>2. free'[i] = free[j] /\ free[j] \in Slots /\ free[j] \in Range(free)
        BY <1>4, <4>1 DEF Range
      <4>3. Get(free[i])' = Get(free[j])
        BY <1>1, <1>3, <4>2
      <4>4. Get(free[j]) = Link(j) /\ Link(j + 1)' = Link(j)
        BY <1>4, <1>8 DEF RefsInv, FreeListExact, Chained
      <4> QED
        BY <4>1, <4>3, <4>4
    <3> QED
      BY <3>1, <3>2
  <2> QED
    BY <2>1, <2>2 DEF Chained
<1>10. Range(free') = Range(free) \cup {s}
  <2>1. ASSUME NEW x \in Range(free') PROVE x \in Range(free) \cup {s}
    <3>1. PICK i \in 1..(Len(free) + 1) : x = free'[i]
      BY <1>4 DEF Range
    <3>2. CASE i = 1
      BY <1>4, <3>1, <3>2
    <3>3. CASE i # 1
      <4>1. PICK j \in 1..Len(free) : i = j + 1
        BY <1>4, <3>3
      <4> QED
        BY <1>4, <3>1, <4>1 DEF Range
    <3> QED
      BY <3>2, <3>3
  <2>2. ASSUME NEW x \in Range(free) PROVE x \in Range(free')
    <3>1. PICK j \in 1..Len(free) : x = free[j]
      BY <1>4 DEF Range
    <3>2. x = free'[j + 1] /\ j + 1 \in 1..(Len(free) + 1)
      BY <1>4, <3>1
    <3> QED
      BY <1>4, <3>2 DEF Range
  <2>3. s \in Range(free')
    <3>1. 1 \in 1..(Len(free) + 1)
      BY <1>4
    <3> QED
      BY <1>4, <3>1 DEF Range
  <2> QED
    BY <2>1, <2>2, <2>3
<1>11. IsInjective(free')
  <2>1. ASSUME NEW i \in 1..(Len(free) + 1), NEW j \in 1..(Len(free) + 1),
               free'[i] = free'[j], i # j
        PROVE  FALSE
    <3>1. ASSUME NEW k \in 1..(Len(free) + 1), k # 1
          PROVE  k - 1 \in 1..Len(free) /\ free'[k] = free[k - 1]
                 /\ free'[k] \in Range(free)
      <4>1. PICK l \in 1..Len(free) : k = l + 1
        BY <1>4, <3>1
      <4>2. k - 1 = l /\ free'[k] = free[l]
        BY <1>4, <4>1
      <4> QED
        BY <1>4, <4>2 DEF Range
    <3>2. CASE i = 1
      BY <1>1, <1>4, <2>1, <3>1, <3>2
    <3>3. CASE j = 1
      BY <1>1, <1>4, <2>1, <3>1, <3>3
    <3>4. CASE i # 1 /\ j # 1
      <4>1. /\ i - 1 \in 1..Len(free) /\ j - 1 \in 1..Len(free)
            /\ free[i - 1] = free[j - 1] /\ i - 1 # j - 1
        BY <2>1, <3>1, <3>4
      <4> QED
        BY <1>4, <4>1 DEF RefsInv, FreeListExact, IsInjective
    <3> QED
      BY <3>2, <3>3, <3>4
  <2> QED
    BY <1>4, <2>1 DEF IsInjective
<1>12. Taken' = Taken \ {s}
  <2>1. \A g \in Handles : refid[g] = s => g = h
    BY <1>1 DEF RefsInv, FreeListExact
  <2> QED
    BY <1>6, <2>1 DEF Taken
<1>13. \A g, k \in Handles : refid'[g] = refid'[k] /\ refid'[g] \in Slots => g = k
  <2>1. NoRef \notin Slots
    BY DEF Slots
  <2> QED
    BY <1>6, <2>1 DEF RefsInv, FreeListExact
<1>14. FreeListExact'
  <2>1. /\ Range(free) \cap Taken = {} /\ Range(free) \cup Taken = Slots
    BY DEF RefsInv, FreeListExact
  <2> QED
    BY <1>1, <1>5, <1>9, <1>10, <1>11, <1>12, <1>13, <2>1 DEF FreeListExact
<1> QED
  BY <1>1, <1>3, <1>7, <1>14 DEF RefsInv

-----------------------------------------------------------------------------
\* A Ref of undefined has no slot, and neither has one that is gone.
LEMMA SlotlessKeepsInv ==
  ASSUME RefsInv, NEW h \in Handles, NEW r \in {NoRef, 0}, refid[h] \in {NoRef, 0},
         refid' = [refid EXCEPT ![h] = r], refs' = refs, free' = free
  PROVE  RefsInv'
<1>1. Slots' = Slots /\ Chained' /\ Chained /\ NoRef \notin Slots /\ 0 \notin Slots
  BY DEF Slots, Chained, Get, Link, RefsInv, FreeListExact
<1>2. \A g \in Handles : refid'[g] = IF g = h THEN r ELSE refid[g]
  BY DEF RefsInv, RefsTypeOK
<1>3. Taken' = Taken
  BY <1>2 DEF Taken
<1>4. RefsTypeOK'
  BY <1>1 DEF RefsInv, RefsTypeOK
<1>5. \A g, k \in Handles : refid'[g] = refid'[k] /\ refid'[g] \in Slots => g = k
  BY <1>1, <1>2 DEF RefsInv, FreeListExact
<1>6. FreeListExact'
  BY <1>1, <1>3, <1>5 DEF RefsInv, FreeListExact
<1> QED
  BY <1>4, <1>6 DEF RefsInv

\* The references and what they push, as RefStore sees them.
Stored == [h \in Handles |-> IF refid[h] = NoRef THEN NoValue ELSE duv_push_ref(refid[h])]

\* What a step does to the references: the invariant holds after it, RefStore sees
\* one handle come or go, and an array that grows was full.
StepOK ==
  /\ RefsInv'
  /\ \/ \E h \in Handles : Stored[h] # NoValue /\ Stored' = [Stored EXCEPT ![h] = NoValue]
     \/ \E h \in Handles, v \in Values :
          Stored[h] = NoValue /\ Stored' = [Stored EXCEPT ![h] = v]
  /\ Len(refs') > Len(refs) => Taken = Slots

\* Nothing is stored for h before the step, or v after it; the rest stays.
LEMMA StoredUpdate ==
  ASSUME RefsInv, NEW h \in Handles, NEW x,
         \A g \in Handles \ {h} : refid'[g] = refid[g],
         \A i \in Slots : (\E g \in Handles \ {h} : refid[g] = i) => Get(i)' = Get(i),
         x = IF refid'[h] = NoRef THEN NoValue ELSE duv_push_ref(refid[h])'
  PROVE  Stored' = [Stored EXCEPT ![h] = x]
<1>1. ASSUME NEW g \in Handles \ {h} PROVE Stored'[g] = Stored[g]
  <2>1. refid[g] \in Slots \cup {NoRef, 0}
    BY DEF RefsInv, RefsTypeOK
  <2>2. refid'[g] = refid[g]
    BY <1>1
  <2>3. CASE refid[g] \in Slots
    <3>1. Get(refid[g])' = Get(refid[g]) /\ refid[g] # 0 /\ refid[g] # NoRef
      BY <1>1, <2>2, <2>3 DEF Slots, Get
    <3> QED
      BY <1>1, <2>2, <3>1 DEF Stored, duv_push_ref
  <2>4. CASE refid[g] \in {NoRef, 0}
    BY <1>1, <2>2, <2>4 DEF Stored, duv_push_ref
  <2> QED
    BY <2>1, <2>3, <2>4
<1>2. Stored'[h] = x
  BY DEF Stored
<1> QED
  BY <1>1, <1>2 DEF Stored

\* Without a reference nothing is stored; with one there is a value.
LEMMA StoredValue ==
  ASSUME RefsInv, NEW h \in Handles
  PROVE  Stored[h] = NoValue <=> refid[h] = NoRef
<1>1. CASE refid[h] = NoRef
  BY <1>1 DEF Stored
<1>2. CASE refid[h] = 0
  BY <1>2 DEF Stored, duv_push_ref
<1>3. CASE refid[h] \in Slots
  <2>1. Get(refid[h]) \in Values \cup Nat /\ refid[h] # NoRef /\ refid[h] # 0
    BY <1>3 DEF RefsInv, RefsTypeOK, Slots, Get
  <2> QED
    BY <2>1 DEF Stored, duv_push_ref
<1> QED
  BY <1>1, <1>2, <1>3 DEF RefsInv, RefsTypeOK

\* Ref::Ref().
LEMMA NewRefStep ==
  ASSUME RefsInv, NEW h \in Handles, NEW v \in Values, NewRef(h, v)
  PROVE  StepOK /\ Stored' = [Stored EXCEPT ![h] = v] /\ refid'[h] # NoRef
         /\ \A g \in Handles \ {h} : refid'[g] = refid[g]
<1>1. refid[h] = NoRef /\ Stored[h] = NoValue
  BY StoredValue DEF NewRef
<1>2. CASE v = Undefined /\ refid' = [refid EXCEPT ![h] = 0] /\ UNCHANGED <<refs, free>>
  <2>1. RefsInv'
    BY <1>1, <1>2, SlotlessKeepsInv
  <2>2. refid'[h] = 0 /\ \A g \in Handles \ {h} : refid'[g] = refid[g]
    BY <1>2 DEF RefsInv, RefsTypeOK
  <2>3. Stored' = [Stored EXCEPT ![h] = v]
    <3>1. \A i \in Slots : Get(i)' = Get(i)
      BY <1>2 DEF Get
    <3>2. v = IF refid'[h] = NoRef THEN NoValue ELSE duv_push_ref(refid[h])'
      BY <1>2, <2>2 DEF duv_push_ref
    <3> QED
      BY <2>2, <3>1, <3>2, StoredUpdate
  <2>4. ~(Len(refs') > Len(refs))
    BY <1>2 DEF RefsInv, RefsTypeOK
  <2>5. 0 # NoRef
    OBVIOUS
  <2> QED
    BY <1>1, <2>1, <2>2, <2>3, <2>4, <2>5 DEF StepOK
<1>3. CASE /\ v # Undefined /\ Get(0) # 0
           /\ refid' = [refid EXCEPT ![h] = Get(0)]
           /\ refs' = Put(Put(refs, 0, Get(Get(0))), Get(0), v)
           /\ free' = Tail(free)
  <2>1. PICK s : s = Get(0)
    OBVIOUS
  <2>2. /\ refid' = [refid EXCEPT ![h] = s] /\ free' = Tail(free)
        /\ refs' = Put(Put(refs, 0, Get(s)), s, v) /\ s # 0
    BY <1>3, <2>1
  <2>3. /\ RefsInv' /\ s \in Slots /\ s \notin Taken /\ Get(s)' = v
        /\ Len(refs') = Len(refs)
        /\ \A i \in Slots \ {s} : Get(i)' = Get(i)
    BY <1>1, <2>1, <2>2, PopKeepsInv
  <2>4. refid'[h] = s /\ \A g \in Handles \ {h} : refid'[g] = refid[g]
    BY <2>2 DEF RefsInv, RefsTypeOK
  <2>5. Stored' = [Stored EXCEPT ![h] = v]
    <3>1. \A i \in Slots : (\E g \in Handles \ {h} : refid[g] = i) => Get(i)' = Get(i)
      BY <2>3 DEF Taken, Slots
    <3>2. v = IF refid'[h] = NoRef THEN NoValue ELSE duv_push_ref(refid[h])'
      BY <2>2, <2>3, <2>4 DEF duv_push_ref, Slots, Get
    <3> QED
      BY <2>4, <3>1, <3>2, StoredUpdate
  <2>6. ~(Len(refs') > Len(refs))
    BY <2>3 DEF RefsInv, RefsTypeOK
  <2>7. s # NoRef
    BY <2>3 DEF Slots
  <2> QED
    BY <1>1, <2>3, <2>4, <2>5, <2>6, <2>7 DEF StepOK
<1>4. CASE /\ v # Undefined /\ Get(0) = 0
           /\ refid' = [refid EXCEPT ![h] = Len(refs)]
           /\ refs' = Put(refs, Len(refs), v)
           /\ UNCHANGED free
  <2>1. PICK s : s = Len(refs)
    OBVIOUS
  <2>2. /\ refid' = [refid EXCEPT ![h] = s] /\ free' = free
        /\ refs' = Put(refs, s, v)
    BY <1>4, <2>1
  <2>3. /\ RefsInv' /\ Taken = Slots /\ s \notin Slots \cup {0} /\ Get(s)' = v
        /\ \A i \in Slots : Get(i)' = Get(i)
    BY <1>1, <1>4, <2>1, <2>2, AppendKeepsInv
  <2>4. refid'[h] = s /\ \A g \in Handles \ {h} : refid'[g] = refid[g]
    BY <2>2 DEF RefsInv, RefsTypeOK
  <2>5. Stored' = [Stored EXCEPT ![h] = v]
    <3>1. s \in Nat /\ s # NoRef /\ s # 0
      BY <2>1, <2>3 DEF RefsInv, RefsTypeOK
    <3>2. v = IF refid'[h] = NoRef THEN NoValue ELSE duv_push_ref(refid[h])'
      BY <2>3, <2>4, <3>1 DEF duv_push_ref, Get
    <3> QED
      BY <2>3, <2>4, <3>2, StoredUpdate
  <2>6. s # NoRef
    BY <2>1 DEF RefsInv, RefsTypeOK
  <2> QED
    BY <1>1, <2>3, <2>4, <2>5, <2>6 DEF StepOK
<1> QED
  BY <1>2, <1>3, <1>4 DEF NewRef, duv_ref

\* Ref::~Ref().
LEMMA DeleteRefStep ==
  ASSUME RefsInv, NEW h \in Handles, DeleteRef(h)
  PROVE  StepOK /\ Stored' = [Stored EXCEPT ![h] = NoValue] /\ refid'[h] = NoRef
         /\ \A g \in Handles \ {h} : refid'[g] = refid[g]
<1>1. /\ refid[h] # NoRef /\ Stored[h] # NoValue
      /\ refid' = [refid EXCEPT ![h] = NoRef]
  BY StoredValue DEF DeleteRef
<1>2. refid'[h] = NoRef /\ \A g \in Handles \ {h} : refid'[g] = refid[g]
  BY <1>1 DEF RefsInv, RefsTypeOK
<1>3. PICK s : s = refid[h]
  OBVIOUS
<1>4. CASE s = 0
  <2>1. refs' = refs /\ free' = free
    BY <1>3, <1>4 DEF DeleteRef, duv_unref
  <2>2. RefsInv'
    BY <1>1, <1>3, <1>4, <2>1, SlotlessKeepsInv
  <2>3. \A i \in Slots : Get(i)' = Get(i)
    BY <2>1 DEF Get
  <2>4. Stored' = [Stored EXCEPT ![h] = NoValue]
    BY <1>2, <2>3, StoredUpdate
  <2>5. ~(Len(refs') > Len(refs))
    BY <2>1 DEF RefsInv, RefsTypeOK
  <2> QED
    BY <1>1, <1>2, <2>2, <2>4, <2>5 DEF StepOK
<1>5. CASE s # 0
  <2>1. refs' = Put(Put(refs, s, Get(0)), 0, s) /\ free' = <<s>> \o free
    BY <1>3, <1>5 DEF DeleteRef, duv_unref
  <2>2. /\ RefsInv' /\ s \in Slots /\ Len(refs') = Len(refs)
        /\ \A i \in Slots \ {s} : Get(i)' = Get(i)
    BY <1>1, <1>3, <1>5, <2>1, PushKeepsInv
  <2>3. \A i \in Slots : (\E g \in Handles \ {h} : refid[g] = i) => Get(i)' = Get(i)
    BY <1>3, <2>2 DEF RefsInv, FreeListExact
  <2>4. Stored' = [Stored EXCEPT ![h] = NoValue]
    BY <1>2, <2>3, StoredUpdate
  <2>5. ~(Len(refs') > Len(refs))
    BY <2>2 DEF RefsInv, RefsTypeOK
  <2> QED
    BY <1>1, <1>2, <2>2, <2>4, <2>5 DEF StepOK
<1> QED
  BY <1>4, <1>5

-----------------------------------------------------------------------------
LEMMA InitOK == RefsInit => RefsInv
<1> SUFFICES ASSUME RefsInit PROVE RefsInv
  OBVIOUS
<1>1. Len(refs) = 1 /\ refs[1] = 0 /\ refs \in Seq(Values \cup Nat) /\ free = <<>>
  BY DEF RefsInit
<1>2. Slots = {} /\ Taken = {} /\ Range(free) = {}
  <2>1. \A h \in Handles : refid[h] = NoRef
    BY DEF RefsInit
  <2> QED
    BY <1>1, <2>1 DEF Slots, Taken, Range
<1>3. RefsTypeOK
  BY <1>1 DEF RefsInit, RefsTypeOK
<1>4. Chained /\ IsInjective(free)
  BY <1>1 DEF Chained, Get, Link, IsInjective
<1> QED
  BY <1>2, <1>3, <1>4 DEF RefsInv, FreeListExact

\* What a step that is none has done.
Still == RefsInv' /\ Stored' = Stored /\ Len(refs') = Len(refs)

LEMMA RefsStep == RefsInv /\ [RefsNext]_refVars => StepOK \/ (Still /\ UNCHANGED refVars)
<1> SUFFICES ASSUME RefsInv, [RefsNext]_refVars
             PROVE  StepOK \/ (Still /\ UNCHANGED refVars)
  OBVIOUS
<1>1. CASE RefsNext
  BY <1>1, NewRefStep, DeleteRefStep DEF RefsNext
<1>2. CASE UNCHANGED refVars
  <2>1. refs' = refs /\ refid' = refid /\ free' = free
    BY <1>2 DEF refVars
  <2>2. RefsInv' /\ Stored' = Stored /\ Len(refs') = Len(refs)
    BY <2>1 DEF RefsInv, RefsTypeOK, FreeListExact, Chained, Link, Get, Slots,
                Taken, Stored, duv_push_ref
  <2> QED
    BY <1>2, <2>2 DEF Still
<1> QED
  BY <1>1, <1>2

\* The free list and the references in use share out the slots of the array, and
\* the links in the free ones are the list.
LEMMA InvCorrect == RefsSpec => []RefsInv
<1>1. RefsInv /\ [RefsNext]_refVars => RefsInv'
  BY RefsStep DEF StepOK, Still
<1> QED
  BY InitOK, <1>1, PTL DEF RefsSpec

\* Every variable of the references keeps its type: duv_ref() never gives out what
\* is not a slot of the array, and the free list holds nothing else.
THEOREM RefsTypeCorrect == RefsSpec => []RefsTypeOK
<1>1. RefsInv => RefsTypeOK
  BY DEF RefsInv
<1> QED
  BY <1>1, InvCorrect, PTL

\* However many references are made and deleted, in whatever order, each slot of
\* the array is free, and on the list once, or belongs to one reference.
THEOREM FreeListCorrect == RefsSpec => []FreeListExact
<1>1. RefsInv => FreeListExact
  BY DEF RefsInv
<1> QED
  BY <1>1, InvCorrect, PTL

\* The references implement RefStore: each pushes the value it was made from until
\* it is deleted, although slots are used again and values may look like links.
THEOREM ValuesKept == RefsSpec => KeepsValues
<1>1. RefsInit => Store!StoreInit
  BY DEF RefsInit, Store!StoreInit
<1>2. RefsInv /\ [RefsNext]_refVars => [Store!StoreNext]_(Stored)
  <2> SUFFICES ASSUME RefsInv, [RefsNext]_refVars, Stored' # Stored
               PROVE  Store!StoreNext
    OBVIOUS
  <2>1. StepOK
    BY RefsStep DEF Still
  <2> QED
    BY <2>1 DEF StepOK, Stored, Store!StoreNext, Store!Drop, Store!Keep
<1> QED
  BY <1>1, <1>2, InvCorrect, PTL DEF RefsSpec, KeepsValues, Store!StoreSpec, Stored

\* The array gets longer only when every slot of it is in use.
THEOREM GrowthBounded == RefsSpec => GrowsWhenFull
<1>1. RefsInv /\ [RefsNext]_refVars => [Len(refs') > Len(refs) => Taken = Slots]_refVars
  BY RefsStep DEF StepOK
<1> QED
  BY <1>1, InvCorrect, PTL DEF RefsSpec, GrowsWhenFull
=============================================================================
