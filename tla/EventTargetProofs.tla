------------------------- MODULE EventTargetProofs --------------------------
(***************************************************************************)
(* Theorems about EventTarget, for any functions, any number of listeners  *)
(* and any depth of dispatches: every safety property that the run checks. *)
(*                                                                         *)
(* A dispatch keeps an index into a list that its listeners change, so     *)
(* what it has called is tied to the list by CallOK, which scripts keep    *)
(* whether they add (AddKeepsCall) or remove (RemoveKeepsCall).            *)
(***************************************************************************)
EXTENDS EventTarget, SequenceFacts, FiniteSetTheorems

-----------------------------------------------------------------------------
(* removeEventListener(): which entries stay, and where they go.           *)

Stay(s, f) == {q \in 1..Len(s) : s[q].fn # f}
Upto(s, f, q) == {k \in Stay(s, f) : k <= q}
From(s, f, j) == CHOOSE q \in Stay(s, f) : Cardinality(Upto(s, f, q)) = j

\* The places of those that stay, without gaps, in the order they had.
LEMMA Places ==
  ASSUME NEW s \in Seq(Entry), NEW f
  PROVE  /\ Cardinality(Stay(s, f)) \in Nat
         /\ \A q \in Stay(s, f) :
              /\ Cardinality(Upto(s, f, q)) \in 1..Cardinality(Stay(s, f))
              /\ Cardinality(Upto(s, f, q)) <= q
         /\ \A q, r \in Stay(s, f) :
              q < r => Cardinality(Upto(s, f, q)) < Cardinality(Upto(s, f, r))
<1>1. Len(s) \in Nat /\ Stay(s, f) \subseteq 1..Len(s)
  BY DEF Stay
<1>2. IsFiniteSet(Stay(s, f)) /\ Cardinality(Stay(s, f)) \in Nat
  <2>1. IsFiniteSet(1..Len(s))
    BY <1>1, FS_Interval
  <2>2. IsFiniteSet(Stay(s, f))
    BY <1>1, <2>1, FS_Subset
  <2> QED BY <2>2, FS_CardinalityType
<1>3. ASSUME NEW q \in Stay(s, f)
      PROVE  /\ IsFiniteSet(Upto(s, f, q))
             /\ Cardinality(Upto(s, f, q)) \in 1..Cardinality(Stay(s, f))
             /\ Cardinality(Upto(s, f, q)) <= q
  <2>1. Upto(s, f, q) \in SUBSET Stay(s, f) /\ Upto(s, f, q) \in SUBSET (1..q)
        /\ q \in Upto(s, f, q) /\ q \in Nat
    BY <1>1 DEF Upto
  <2>2. IsFiniteSet(Upto(s, f, q))
        /\ Cardinality(Upto(s, f, q)) <= Cardinality(Stay(s, f))
    BY <1>2, <2>1, FS_Subset
  <2>3. Cardinality(Upto(s, f, q)) \in Nat /\ Cardinality(Upto(s, f, q)) # 0
    BY <2>1, <2>2, FS_CardinalityType, FS_EmptySet
  <2>4. IsFiniteSet(1..q) /\ Cardinality(1..q) <= q
    BY <2>1, FS_Interval
  <2>5. Cardinality(Upto(s, f, q)) <= Cardinality(1..q) /\ Cardinality(1..q) \in Nat
    BY <2>1, <2>4, FS_Subset, FS_CardinalityType
  <2> QED BY <1>2, <2>1, <2>2, <2>3, <2>4, <2>5
<1>4. ASSUME NEW q \in Stay(s, f), NEW r \in Stay(s, f), q < r
      PROVE  Cardinality(Upto(s, f, q)) < Cardinality(Upto(s, f, r))
  <2>1. q \in Nat /\ r \in Nat
    BY <1>1
  <2>2. Upto(s, f, q) \cup {r} \in SUBSET Upto(s, f, r) /\ r \notin Upto(s, f, q)
    BY <1>1, <1>4, <2>1 DEF Upto
  <2>3. Cardinality(Upto(s, f, q) \cup {r}) = Cardinality(Upto(s, f, q)) + 1
    BY <1>3, <2>2, FS_AddElement
  <2>4. Cardinality(Upto(s, f, q) \cup {r}) <= Cardinality(Upto(s, f, r))
    BY <1>3, <2>2, FS_Subset
  <2>5. Cardinality(Upto(s, f, q)) \in Nat /\ Cardinality(Upto(s, f, r)) \in Nat
    BY <1>3, FS_CardinalityType
  <2> QED BY <2>3, <2>4, <2>5
<1> QED BY <1>2, <1>3, <1>4

LEMMA WithoutFacts ==
  ASSUME NEW s \in Seq(Entry), NEW f
  PROVE  /\ Without(s, f) \in Seq(Entry)
         /\ \E p \in [1..Len(Without(s, f)) -> 1..Len(s)] :
              /\ \A j \in 1..Len(Without(s, f)) :
                   /\ Without(s, f)[j] = s[p[j]] /\ s[p[j]].fn # f /\ j <= p[j]
              /\ \A j, k \in 1..Len(Without(s, f)) : j < k => p[j] < p[k]
              /\ \A q \in 1..Len(s) :
                   s[q].fn # f => \E j \in 1..Len(Without(s, f)) : p[j] = q
              /\ \A q \in 1..Len(s) :
                   (\A k \in 1..q : s[k].fn # f) =>
                      q \in 1..Len(Without(s, f)) /\ p[q] = q
<1> DEFINE stay == Stay(s, f)
           m == Cardinality(stay)
           rank == [q \in stay |-> Cardinality(Upto(s, f, q))]
           p == [j \in 1..m |-> From(s, f, j)]
           t == Without(s, f)
<1>1. t = [j \in 1..m |-> s[From(s, f, j)]]
  BY DEF Without, From, Upto, Stay
<1>2. /\ m \in Nat /\ Len(s) \in Nat /\ stay \subseteq 1..Len(s)
      /\ \A q \in 1..Len(s) : q \in stay <=> s[q].fn # f
  <2>1. m \in Nat
    BY Places
  <2>2. Len(s) \in Nat
    OBVIOUS
  <2> QED BY <2>1, <2>2 DEF Stay
<1>3. rank \in [stay -> 1..m] /\ (\A q \in stay : rank[q] <= q)
  BY Places
<1>4. \A q, r \in stay : q < r => rank[q] < rank[r]
  BY Places
<1> HIDE DEF rank, stay
<1>5. ASSUME NEW q \in stay, NEW r \in stay, rank[q] = rank[r] PROVE q = r
  <2>1. q \in Nat /\ r \in Nat /\ rank[q] \in Nat
    BY <1>2, <1>3
  <2> QED BY <1>4, <1>5, <2>1
<1>6. \A j \in 1..m : \E q \in stay : rank[q] = j
  <2>1. rank \in Injection(stay, 1..m)
    BY <1>3, <1>5 DEF Injection, IsInjective
  <2>2. IsFiniteSet(1..m) /\ Cardinality(1..m) = m
    BY <1>2, FS_Interval
  <2>3. rank \in Surjection(stay, 1..m)
    BY <2>1, <2>2, FS_Injection
  <2> QED BY <2>3 DEF Surjection
<1>7. \A j \in 1..m : From(s, f, j) \in stay /\ rank[From(s, f, j)] = j
  <2> SUFFICES ASSUME NEW j \in 1..m
               PROVE  From(s, f, j) \in stay /\ rank[From(s, f, j)] = j
    OBVIOUS
  <2>1. \E q \in stay : rank[q] = j
    BY <1>6
  <2> QED BY <2>1 DEF From, rank, stay
<1>8. Len(t) = m /\ t \in Seq(Entry)
  <2>1. \A j \in 1..m : s[From(s, f, j)] \in Entry
    <3>1. \A q \in 1..Len(s) : s[q] \in Entry
      OBVIOUS
    <3> QED BY <1>2, <1>7, <3>1
  <2> QED BY <1>1, <1>2, <2>1
<1>9. p \in [1..Len(t) -> 1..Len(s)] /\ (\A j \in 1..m : p[j] \in stay /\ rank[p[j]] = j)
  BY <1>2, <1>7, <1>8
<1>10. \A j \in 1..m : t[j] = s[p[j]]
  BY <1>1
<1> HIDE DEF p, t, m
<1>11. \A j \in 1..m : s[p[j]].fn # f /\ j <= p[j]
  BY <1>2, <1>3, <1>9
<1>12. ASSUME NEW j \in 1..m, NEW k \in 1..m, j < k PROVE p[j] < p[k]
  <2>1. /\ p[j] \in stay /\ p[k] \in stay
        /\ rank[p[j]] = j /\ rank[p[k]] = k
    BY <1>9
  <2>2. \A q \in stay : q \in Nat
    BY <1>2
  <2>3. j \in Nat /\ k \in Nat /\ p[j] \in Nat /\ p[k] \in Nat
    <3>1. j \in Nat /\ k \in Nat
      BY <1>2
    <3> QED BY <2>1, <2>2, <3>1
  <2>4. p[k] < p[j] => k < j
    BY <1>4, <2>1
  <2>5. p[j] # p[k]
    BY <1>12, <2>1, <2>3
  <2> QED BY <1>12, <2>3, <2>4, <2>5
<1>13. ASSUME NEW q \in stay PROVE rank[q] \in 1..m /\ p[rank[q]] = q
  <2>1. rank[q] \in 1..m
    BY <1>3
  <2> QED BY <1>5, <1>9, <2>1
<1>14. ASSUME NEW q \in 1..Len(s), \A k \in 1..q : s[k].fn # f
       PROVE  q \in 1..m /\ p[q] = q
  <2>1. q \in stay /\ 1..q \subseteq stay
    BY <1>2, <1>14
  <2>2. Upto(s, f, q) = 1..q
    BY <1>2, <2>1 DEF Upto, stay
  <2>3. Cardinality(1..q) = q
    BY FS_Interval
  <2>4. rank[q] = q
    BY <2>1, <2>2, <2>3 DEF rank
  <2> QED BY <1>13, <2>1, <2>4
<1>15. \A q \in 1..Len(s) : s[q].fn # f => \E j \in 1..m : p[j] = q
  BY <1>2, <1>13
<1>16. /\ \A j \in 1..Len(t) : t[j] = s[p[j]] /\ s[p[j]].fn # f /\ j <= p[j]
       /\ \A j, k \in 1..Len(t) : j < k => p[j] < p[k]
       /\ \A q \in 1..Len(s) : s[q].fn # f => \E j \in 1..Len(t) : p[j] = q
       /\ \A q \in 1..Len(s) :
            (\A k \in 1..q : s[k].fn # f) => q \in 1..Len(t) /\ p[q] = q
  BY <1>8, <1>10, <1>11, <1>12, <1>14, <1>15
<1> QED BY <1>8, <1>9, <1>16 DEF t

-----------------------------------------------------------------------------
(* What ties a dispatch to the list.                                       *)

Call == [i : Nat, began : Seq(Entry), inside : BOOLEAN, called : Seq(Entry)]

\* Registrations have numbers, up to m, and are in the order of these.
Numbered(s, m) ==
  /\ s \in Seq(Entry) /\ m \in 0..MaxRegistrations
  /\ \A j, k \in 1..Len(s) : j < k => s[j].nr < s[k].nr
  /\ \A j \in 1..Len(s) : s[j].nr <= m

\* InPlace for any list.
InPlaceIn(s, c, n) == \A j \in 1..n : c.began[j] \in Range(s)

\* Those that were there, up to the first that is removed, are where they were.
Prefix(s, c) ==
  \A n \in 1..Len(c.began) : InPlaceIn(s, c, n) => n \in 1..Len(s) /\ s[n] = c.began[n]

\* Up to there they are the ones that have been called.
InOrder(s, c) ==
  \A n \in 1..Len(c.began) : n \in 1..Len(c.called) /\ InPlaceIn(s, c, n) =>
    c.called[n] = c.began[n]

\* What has been called is not in front of the dispatch: entries move towards the
\* beginning of the list only.
Behind(s, c) ==
  \A q \in 1..Len(s) : \A j \in 1..Len(c.called) : s[q] = c.called[j] => q <= Len(c.called)

Known(m, c) ==
  /\ \A j \in 1..Len(c.began) : c.began[j].nr <= m
  /\ \A j \in 1..Len(c.called) : c.called[j].nr <= m

Counted(c) ==
  /\ Len(c.called) = (IF c.inside THEN c.i + 1 ELSE c.i)
  /\ Len(c.called) <= Len(c.began)
  /\ \A j, k \in 1..Len(c.called) : c.called[j] = c.called[k] => j = k

CallOK(s, m, c) ==
  c \in Call /\ Known(m, c) /\ Counted(c) /\ Prefix(s, c) /\ InOrder(s, c) /\ Behind(s, c)

\* removeEventListener() leaves a list in order, and every dispatch tied to it.
LEMMA RemoveKeepsNumbers ==
  ASSUME NEW s, NEW m, Numbered(s, m), NEW f
  PROVE  Numbered(Without(s, f), m)
<1>1. s \in Seq(Entry) /\ Without(s, f) \in Seq(Entry)
  BY WithoutFacts DEF Numbered
<1>2. PICK t : t = Without(s, f)
  OBVIOUS
<1>3. PICK p \in [1..Len(t) -> 1..Len(s)] :
        /\ \A j \in 1..Len(t) : t[j] = s[p[j]]
        /\ \A j, k \in 1..Len(t) : j < k => p[j] < p[k]
  BY <1>1, <1>2, WithoutFacts
<1>4. \A j, k \in 1..Len(t) : j < k => t[j].nr < t[k].nr
  BY <1>3 DEF Numbered
<1>5. \A j \in 1..Len(t) : t[j].nr <= m
  BY <1>3 DEF Numbered
<1> QED BY <1>1, <1>2, <1>4, <1>5 DEF Numbered

LEMMA RemoveKeepsCall ==
  ASSUME NEW s, NEW m, Numbered(s, m), NEW c, CallOK(s, m, c), NEW f
  PROVE  CallOK(Without(s, f), m, c)
<1>1. s \in Seq(Entry) /\ Without(s, f) \in Seq(Entry) /\ c \in Call
  BY WithoutFacts DEF Numbered, CallOK
<1>2. PICK t : t = Without(s, f)
  OBVIOUS
<1>3. PICK p \in [1..Len(t) -> 1..Len(s)] :
        /\ \A j \in 1..Len(t) : t[j] = s[p[j]] /\ s[p[j]].fn # f /\ j <= p[j]
        /\ \A q \in 1..Len(s) :
             (\A k \in 1..q : s[k].fn # f) => q \in 1..Len(t) /\ p[q] = q
  BY <1>1, <1>2, WithoutFacts
<1>4. Range(t) = {t[j] : j \in 1..Len(t)} /\ Range(s) = {s[j] : j \in 1..Len(s)}
  BY <1>1, <1>2, RangeIsImage
<1>5. \A e \in Range(t) : e \in Range(s) /\ e.fn # f
  BY <1>3, <1>4
<1>6. \A n \in 1..Len(c.began) : InPlaceIn(t, c, n) => InPlaceIn(s, c, n)
  BY <1>5 DEF InPlaceIn
<1>7. Len(c.began) \in Nat
  BY <1>1 DEF Call
<1>8. Prefix(t, c)
  <2> SUFFICES ASSUME NEW n \in 1..Len(c.began), InPlaceIn(t, c, n)
               PROVE  n \in 1..Len(t) /\ t[n] = c.began[n]
    BY DEF Prefix
  <2>1. ASSUME NEW k \in 1..n
        PROVE  k \in 1..Len(s) /\ s[k] = c.began[k] /\ s[k].fn # f
    <3>1. k \in 1..Len(c.began) /\ InPlaceIn(t, c, k) /\ c.began[k] \in Range(t)
      BY <1>7 DEF InPlaceIn
    <3>2. k \in 1..Len(s) /\ s[k] = c.began[k]
      BY <1>6, <3>1 DEF CallOK, Prefix
    <3> QED BY <1>5, <3>1, <3>2
  <2>2. n \in 1..n
    BY <1>7
  <2>3. n \in 1..Len(s) /\ s[n] = c.began[n]
    BY <2>1, <2>2
  <2>4. n \in 1..Len(t) /\ p[n] = n
    BY <1>3, <2>1, <2>3
  <2> QED BY <1>3, <2>3, <2>4
<1>9. InOrder(t, c)
  BY <1>6 DEF InOrder, CallOK
<1>10. Behind(t, c)
  <2> SUFFICES ASSUME NEW q \in 1..Len(t), NEW j \in 1..Len(c.called), t[q] = c.called[j]
               PROVE  q <= Len(c.called)
    BY DEF Behind
  <2>1. p[q] \in 1..Len(s) /\ s[p[q]] = c.called[j] /\ q <= p[q]
    BY <1>3
  <2>2. p[q] <= Len(c.called)
    BY <2>1 DEF CallOK, Behind
  <2>3. Len(c.called) \in Nat /\ Len(s) \in Nat /\ Len(t) \in Nat
    BY <1>1, <1>2 DEF Call
  <2> QED BY <2>1, <2>2, <2>3
<1> QED BY <1>2, <1>8, <1>9, <1>10 DEF CallOK

\* So does a listener that is added behind the others.
LEMMA AddKeepsNumbers ==
  ASSUME NEW s, NEW m, Numbered(s, m), NEW e \in Entry, m < MaxRegistrations, e.nr = m + 1,
         MaxRegistrations \in Nat
  PROVE  Numbered(Append(s, e), m + 1)
<1>1. s \in Seq(Entry) /\ m \in Nat /\ Len(s) \in Nat
  BY DEF Numbered
<1>2. PICK t : t = Append(s, e)
  OBVIOUS
<1>3. /\ t \in Seq(Entry) /\ Len(t) = Len(s) + 1 /\ t[Len(s) + 1] = e
      /\ \A j \in 1..Len(s) : t[j] = s[j]
  BY <1>1, <1>2, AppendFacts
<1>4. \A j \in 1..Len(s) : s[j].nr \in Nat /\ s[j].nr <= m
  <2>1. \A j \in 1..Len(s) : s[j] \in Entry
    BY <1>1
  <2>2. \A x \in Entry : x.nr \in Nat
    BY DEF Entry
  <2> QED BY <2>1, <2>2 DEF Numbered
<1>5. ASSUME NEW j \in 1..Len(t) PROVE t[j].nr <= m + 1
  <2>1. CASE j \in 1..Len(s)
    BY <1>1, <1>3, <1>4, <2>1
  <2>2. CASE j = Len(s) + 1
    BY <1>1, <1>3, <2>2
  <2> QED BY <1>1, <1>3, <2>1, <2>2
<1>6. ASSUME NEW j \in 1..Len(t), NEW k \in 1..Len(t), j < k PROVE t[j].nr < t[k].nr
  <2>1. j \in 1..Len(s)
    BY <1>1, <1>3, <1>6
  <2>2. CASE k \in 1..Len(s)
    BY <1>3, <1>6, <2>1, <2>2 DEF Numbered
  <2>3. CASE k = Len(s) + 1
    BY <1>1, <1>3, <1>4, <2>1, <2>3
  <2> QED BY <1>1, <1>3, <2>2, <2>3
<1>7. m + 1 \in 0..MaxRegistrations
  BY <1>1
<1> QED BY <1>2, <1>3, <1>5, <1>6, <1>7 DEF Numbered

LEMMA AddKeepsCall ==
  ASSUME NEW s, NEW m, Numbered(s, m), NEW c, CallOK(s, m, c),
         NEW e \in Entry, e.nr = m + 1
  PROVE  CallOK(Append(s, e), m + 1, c)
<1>1. s \in Seq(Entry) /\ m \in Nat /\ Len(s) \in Nat /\ c \in Call
  BY DEF Numbered, CallOK
<1>2. PICK t : t = Append(s, e)
  OBVIOUS
<1>3. /\ t \in Seq(Entry) /\ Len(t) = Len(s) + 1 /\ t[Len(s) + 1] = e
      /\ \A j \in 1..Len(s) : t[j] = s[j]
      /\ Range(t) = Range(s) \cup {e}
  BY <1>1, <1>2, AppendFacts
<1>4. /\ \A j \in 1..Len(c.began) : c.began[j] \in Entry
      /\ \A j \in 1..Len(c.called) : c.called[j] \in Entry
  BY <1>1 DEF Call
<1>5. \A x \in Entry : x.nr \in Nat
  BY DEF Entry
<1>6. /\ \A j \in 1..Len(c.began) : c.began[j].nr <= m + 1 /\ c.began[j] # e
      /\ \A j \in 1..Len(c.called) : c.called[j].nr <= m + 1 /\ c.called[j] # e
  <2>1. /\ \A j \in 1..Len(c.began) : c.began[j].nr <= m
        /\ \A j \in 1..Len(c.called) : c.called[j].nr <= m
    BY DEF CallOK, Known
  <2> QED BY <1>1, <1>4, <1>5, <2>1
<1>7. Len(c.began) \in Nat
  BY <1>1 DEF Call
<1>8. ASSUME NEW n \in 1..Len(c.began), InPlaceIn(t, c, n) PROVE InPlaceIn(s, c, n)
  <2>1. \A j \in 1..n : j \in 1..Len(c.began)
    BY <1>7
  <2> QED BY <1>3, <1>6, <1>8, <2>1 DEF InPlaceIn
<1>9. Prefix(t, c)
  <2>1. \A n \in 1..Len(s) : n \in 1..Len(t)
    BY <1>1, <1>3
  <2> QED BY <1>3, <1>8, <2>1 DEF CallOK, Prefix
<1>10. InOrder(t, c)
  BY <1>8 DEF CallOK, InOrder
<1>11. Behind(t, c)
  <2> SUFFICES ASSUME NEW q \in 1..Len(t), NEW j \in 1..Len(c.called), t[q] = c.called[j]
               PROVE  q <= Len(c.called)
    BY DEF Behind
  <2>1. q # Len(s) + 1
    BY <1>3, <1>6
  <2>2. q \in 1..Len(s)
    BY <1>1, <1>3, <2>1
  <2> QED BY <1>3, <2>2 DEF CallOK, Behind
<1> QED BY <1>2, <1>6, <1>9, <1>10, <1>11 DEF CallOK, Known

-----------------------------------------------------------------------------
(* The inductive invariant                                                 *)

TargetInv ==
  /\ Numbered(stack, made)
  /\ on \in Listeners
  /\ calls \in Seq(Call)
  /\ \A j \in 1..Len(calls) : CallOK(stack, made, calls[j])
  /\ \A j \in 1..(Len(calls) - 1) : calls[j].inside

\* back() = c, of the dispatches under way.
LEMMA SetTopFacts ==
  ASSUME NEW S, NEW s \in Seq(S), s # <<>>, NEW c \in S
  PROVE  /\ Append(Front(s), c) \in Seq(S)
         /\ Len(Append(Front(s), c)) = Len(s)
         /\ \A j \in 1..(Len(s) - 1) : Append(Front(s), c)[j] = s[j]
         /\ Append(Front(s), c)[Len(s)] = c
<1>1. /\ Front(s) \in Seq(S) /\ Len(Front(s)) = Len(s) - 1 /\ Len(s) \in Nat \ {0}
      /\ \A j \in 1..(Len(s) - 1) : Front(s)[j] = s[j]
  BY FrontFacts
<1>2. PICK t : t = Front(s)
  OBVIOUS
<1>3. /\ t \in Seq(S) /\ Len(t) = Len(s) - 1 /\ Len(s) \in Nat \ {0}
      /\ \A j \in 1..(Len(s) - 1) : t[j] = s[j]
  BY <1>1, <1>2
<1>4. /\ Append(t, c) \in Seq(S) /\ Len(Append(t, c)) = Len(t) + 1
      /\ \A j \in 1..Len(t) : Append(t, c)[j] = t[j]
      /\ Append(t, c)[Len(t) + 1] = c
  BY <1>3, AppendFacts
<1> QED BY <1>2, <1>3, <1>4

\* The innermost dispatch is the last.
LEMMA TopFacts ==
  ASSUME TargetInv, calls # <<>>
  PROVE  /\ Len(calls) \in 1..Len(calls) /\ Top = calls[Len(calls)]
         /\ Top \in Call /\ CallOK(stack, made, Top)
<1>1. calls \in Seq(Call)
  BY DEF TargetInv
<1>2. Last(calls) \in Call /\ Last(calls) = calls[Len(calls)] /\ Len(calls) \in Nat \ {0}
  BY <1>1, FrontFacts
<1>3. Len(calls) \in 1..Len(calls)
  BY <1>2
<1> QED BY <1>2, <1>3 DEF Top, TargetInv

\* A new value for the innermost dispatch keeps the invariant if it is tied to the
\* list as the old one was.
LEMMA SetTopKeeps ==
  ASSUME TargetInv, calls # <<>>, NEW c, CallOK(stack, made, c),
         SetTop(c), UNCHANGED <<stack, on, made>>
  PROVE  TargetInv'
<1>1. calls \in Seq(Call) /\ c \in Call /\ Len(calls) \in Nat
  BY DEF TargetInv, CallOK
<1>2. /\ calls' \in Seq(Call) /\ Len(calls') = Len(calls) /\ calls'[Len(calls)] = c
      /\ \A j \in 1..(Len(calls) - 1) : calls'[j] = calls[j]
  BY <1>1, SetTopFacts DEF SetTop
<1>3. ASSUME NEW j \in 1..Len(calls) PROVE CallOK(stack, made, calls'[j])
  <2>1. CASE j = Len(calls)
    BY <1>2, <2>1
  <2>2. CASE j # Len(calls)
    <3>1. calls'[j] = calls[j]
      BY <1>1, <1>2, <2>2
    <3> QED BY <3>1 DEF TargetInv
  <2> QED BY <2>1, <2>2
<1>4. \A j \in 1..Len(calls') : CallOK(stack', made', calls'[j])
  BY <1>2, <1>3
<1>5. \A j \in 1..(Len(calls') - 1) : calls'[j].inside
  BY <1>2 DEF TargetInv
<1>6. Numbered(stack', made') /\ on' \in Listeners
  BY DEF TargetInv
<1> QED BY <1>2, <1>4, <1>5, <1>6 DEF TargetInv

\* The end of a dispatch.
LEMMA LeaveKeeps ==
  ASSUME TargetInv, calls # <<>>, Leave
  PROVE  TargetInv'
<1>1. calls \in Seq(Call)
  BY DEF TargetInv
<1>2. /\ calls' \in Seq(Call) /\ Len(calls') = Len(calls) - 1 /\ Len(calls) \in Nat \ {0}
      /\ \A j \in 1..(Len(calls) - 1) : calls'[j] = calls[j]
  BY <1>1, FrontFacts DEF Leave
<1>3. \A j \in 1..Len(calls') : j \in 1..Len(calls) /\ calls'[j] = calls[j]
  BY <1>2
<1>4. \A j \in 1..Len(calls') : CallOK(stack', made', calls'[j])
  BY <1>3 DEF TargetInv, Leave
<1>5. \A j \in 1..(Len(calls') - 1) : j \in 1..(Len(calls) - 1) /\ calls'[j] = calls[j]
  BY <1>2
<1>6. \A j \in 1..(Len(calls') - 1) : calls'[j].inside
  BY <1>5 DEF TargetInv
<1>7. Numbered(stack', made') /\ on' \in Listeners
  BY DEF TargetInv, Leave
<1> QED BY <1>2, <1>4, <1>6, <1>7 DEF TargetInv

\* What a script does to the list ties every dispatch to the new list.
LEMMA ListKeeps ==
  ASSUME TargetInv, UNCHANGED calls, on' \in Listeners, Numbered(stack', made'),
         \A c : CallOK(stack, made, c) => CallOK(stack', made', c)
  PROVE  TargetInv'
BY DEF TargetInv

LEMMA WithKeeps ==
  ASSUME NEW s, Numbered(s, made), NEW f \in Listeners, NEW by \in {"add", "on"},
         made < MaxRegistrations, EventTargetAssumption
  PROVE  /\ Numbered(With(s, f, by), made + 1)
         /\ \A c : CallOK(s, made, c) => CallOK(With(s, f, by), made + 1, c)
<1>1. made \in Nat /\ MaxRegistrations \in Nat
  BY DEF Numbered, EventTargetAssumption
<1>2. PICK e : e = [fn |-> f, by |-> by, nr |-> made + 1]
  OBVIOUS
<1>3. made + 1 \in 1..MaxRegistrations
  BY <1>1
<1>4. e \in Entry /\ e.nr = made + 1
  BY <1>2, <1>3 DEF Entry
<1>5. With(s, f, by) = Append(s, e)
  BY <1>2 DEF With
<1>6. Numbered(Append(s, e), made + 1)
  BY <1>1, <1>4, AddKeepsNumbers
<1>7. \A c : CallOK(s, made, c) => CallOK(Append(s, e), made + 1, c)
  BY <1>4, AddKeepsCall
<1> QED BY <1>5, <1>6, <1>7

\* A dispatch whose listener returns.
LEMMA ReturnFacts ==
  ASSUME NEW x \in Call, NEW c, c = [x EXCEPT !.inside = FALSE, !.i = @ + 1]
  PROVE  /\ c \in Call /\ ~c.inside /\ c.i = x.i + 1
         /\ c.began = x.began /\ c.called = x.called
<1>1. x = [i |-> x.i, began |-> x.began, inside |-> x.inside, called |-> x.called]
  BY DEF Call
<1>2. c = [i |-> x.i + 1, began |-> x.began, inside |-> FALSE, called |-> x.called]
  BY <1>1
<1>3. x.i + 1 \in Nat /\ x.began \in Seq(Entry) /\ x.called \in Seq(Entry)
  BY DEF Call
<1>4. c \in Call
  BY <1>2, <1>3 DEF Call
<1> QED BY <1>2, <1>4

LEMMA TargetInit ==
  ASSUME EventTargetAssumption, Init
  PROVE  TargetInv
<1>1. <<>> \in Seq(Entry) /\ Len(<<>>) = 0 /\ <<>> \in Seq(Call)
  OBVIOUS
<1>2. Numbered(<<>>, 0)
  BY <1>1 DEF Numbered, EventTargetAssumption
<1> QED BY <1>1, <1>2 DEF Init, TargetInv, Listeners

LEMMA TargetStep ==
  ASSUME EventTargetAssumption, TargetInv, [Next]_vars
  PROVE  TargetInv'
<1>1. Numbered(stack, made)
  BY DEF TargetInv
<1>2. CASE UNCHANGED vars
  BY <1>2 DEF TargetInv, vars
<1>3. ASSUME NEW f \in Listeners, addEventListener(f) PROVE TargetInv'
  <2>1. /\ Numbered(stack', made')
        /\ \A c : CallOK(stack, made, c) => CallOK(stack', made', c)
    BY <1>1, <1>3, WithKeeps DEF addEventListener
  <2>2. UNCHANGED calls /\ on' \in Listeners
    BY <1>3 DEF addEventListener, TargetInv
  <2> QED BY <2>1, <2>2, ListKeeps
<1>4. ASSUME NEW f \in Listeners, removeEventListener(f) PROVE TargetInv'
  <2>1. stack' = Without(stack, f) /\ made' = made /\ UNCHANGED calls /\ on' \in Listeners
    BY <1>4 DEF removeEventListener, TargetInv
  <2>2. Numbered(stack', made')
    BY <1>1, <2>1, RemoveKeepsNumbers
  <2>3. \A c : CallOK(stack, made, c) => CallOK(stack', made', c)
    BY <1>1, <2>1, RemoveKeepsCall
  <2> QED BY <2>1, <2>2, <2>3, ListKeeps
<1>5. ASSUME NEW f \in Listeners, setOn(f) PROVE TargetInv'
  <2>1. PICK s : s = IF on # NotCallable THEN Without(stack, on) ELSE stack
    OBVIOUS
  <2>2. /\ stack' = With(s, f, "on") /\ made' = made + 1 /\ made < MaxRegistrations
        /\ UNCHANGED calls /\ on' \in Listeners
    BY <1>5, <2>1 DEF setOn
  <2>3. Numbered(s, made)
    BY <1>1, <2>1, RemoveKeepsNumbers
  <2>4. \A c : CallOK(stack, made, c) => CallOK(s, made, c)
    BY <1>1, <2>1, RemoveKeepsCall
  <2>5. /\ Numbered(stack', made')
        /\ \A c : CallOK(s, made, c) => CallOK(stack', made', c)
    BY <2>2, <2>3, WithKeeps
  <2> QED BY <2>2, <2>4, <2>5, ListKeeps
<1>6. CASE dispatchEvent
  <2>1. PICK c : c = [i |-> 0, began |-> stack, inside |-> FALSE, called |-> <<>>]
    OBVIOUS
  <2>2. stack \in Seq(Entry) /\ calls \in Seq(Call) /\ Len(calls) \in Nat
    BY DEF TargetInv, Numbered
  <2>3. /\ c \in Call /\ c.i = 0 /\ c.began = stack /\ c.inside = FALSE /\ c.called = <<>>
        /\ Len(c.called) = 0 /\ Len(stack) \in Nat
    BY <2>1, <2>2 DEF Call
  <2>4. CallOK(stack, made, c)
    <3>1. Known(made, c)
      BY <1>1, <2>3 DEF Known, Numbered
    <3>2. Counted(c)
      BY <2>3 DEF Counted
    <3>3. Prefix(stack, c) /\ InOrder(stack, c) /\ Behind(stack, c)
      BY <2>3 DEF Prefix, InOrder, Behind
    <3> QED BY <2>3, <3>1, <3>2, <3>3 DEF CallOK
  <2>5. calls' = Append(calls, c) /\ UNCHANGED <<stack, on, made>>
    BY <1>6, <2>1 DEF dispatchEvent
  <2>6. /\ calls' \in Seq(Call) /\ Len(calls') = Len(calls) + 1 /\ calls'[Len(calls) + 1] = c
        /\ \A j \in 1..Len(calls) : calls'[j] = calls[j]
    BY <2>2, <2>3, <2>5, AppendFacts
  <2>7. \A j \in 1..Len(calls) : calls[j].inside
    <3> SUFFICES ASSUME NEW j \in 1..Len(calls) PROVE calls[j].inside
      OBVIOUS
    <3>1. CASE j # Len(calls)
      <4>1. j \in 1..(Len(calls) - 1)
        BY <2>2, <3>1
      <4> QED BY <4>1 DEF TargetInv
    <3>2. CASE j = Len(calls)
      <4>1. calls # <<>>
        BY <2>2
      <4> QED BY <1>6, <3>2, <4>1, TopFacts DEF dispatchEvent, ScriptRuns
    <3> QED BY <3>1, <3>2
  <2>8. \A j \in 1..Len(calls') : j \in 1..Len(calls) \/ j = Len(calls) + 1
    BY <2>2, <2>6
  <2>9. \A j \in 1..Len(calls') : CallOK(stack', made', calls'[j])
    BY <2>4, <2>5, <2>6, <2>8 DEF TargetInv
  <2>10. \A j \in 1..(Len(calls') - 1) : calls'[j].inside
    BY <2>2, <2>6, <2>7
  <2>11. Numbered(stack', made') /\ on' \in Listeners
    BY <2>5 DEF TargetInv
  <2> QED BY <2>6, <2>9, <2>10, <2>11 DEF TargetInv
<1>7. CASE CallListener
  <2>1. PICK e : e = stack[Top.i + 1]
    OBVIOUS
  <2>2. PICK c : c = [Top EXCEPT !.inside = TRUE, !.called = Append(@, e)]
    OBVIOUS
  <2>3. /\ calls # <<>> /\ ~Top.inside /\ Top.i < Len(Top.began) /\ Top.i < Len(stack)
        /\ SetTop(c) /\ UNCHANGED <<stack, on, made>>
    BY <1>7, <2>1, <2>2 DEF CallListener, More, Iterating, Callable
  <2>4. /\ Top \in Call /\ CallOK(stack, made, Top)
        /\ stack \in Seq(Entry) /\ Len(stack) \in Nat
    BY <2>3, TopFacts DEF TargetInv, Numbered
  <2>5. Top.i \in Nat /\ Top.called \in Seq(Entry) /\ Len(Top.began) \in Nat
        /\ Len(Top.called) = Top.i
    BY <2>3, <2>4 DEF Call, CallOK, Counted
  <2>6. Top.i + 1 \in 1..Len(stack) /\ e \in Entry
    BY <2>1, <2>3, <2>4, <2>5
  <2>7. /\ c \in Call /\ c.inside /\ c.i = Top.i /\ c.began = Top.began
        /\ c.called = Append(Top.called, e)
    <3>1. PICK x \in Call : x = Top
      BY <2>4
    <3>2. x = [i |-> x.i, began |-> x.began, inside |-> x.inside, called |-> x.called]
      BY DEF Call
    <3>3. c = [i |-> x.i, began |-> x.began, inside |-> TRUE, called |-> Append(x.called, e)]
      BY <2>2, <3>1, <3>2
    <3>4. x.i \in Nat /\ x.began \in Seq(Entry) /\ Append(x.called, e) \in Seq(Entry)
      BY <2>6 DEF Call
    <3>5. c \in Call
      BY <3>3, <3>4 DEF Call
    <3> QED BY <3>1, <3>3, <3>5
  <2>8. /\ Len(c.called) = Top.i + 1 /\ c.called[Top.i + 1] = e
        /\ \A j \in 1..Top.i : c.called[j] = Top.called[j]
    BY <2>5, <2>6, <2>7, AppendFacts
  <2>9. ASSUME NEW j \in 1..Top.i, NEW q \in 1..Len(stack), stack[q] = c.called[j]
        PROVE  q <= Top.i
    BY <2>4, <2>5, <2>8, <2>9 DEF CallOK, Behind
  <2>10. ASSUME NEW j \in 1..Top.i PROVE c.called[j] # e
    <3>1. ~(Top.i + 1 <= Top.i)
      BY <2>5
    <3> QED BY <2>1, <2>6, <2>9, <3>1
  <2>11. \A j \in 1..Len(c.called) : j \in 1..Top.i \/ j = Top.i + 1
    BY <2>5, <2>8
  <2>12. Known(made, c)
    <3>1. e.nr <= made
      BY <1>1, <2>1, <2>6 DEF Numbered
    <3>2. \A j \in 1..Top.i : Top.called[j].nr <= made
      BY <2>4, <2>5 DEF CallOK, Known
    <3> QED BY <2>4, <2>7, <2>8, <2>11, <3>1, <3>2 DEF CallOK, Known
  <2>13. Counted(c)
    <3>1. \A j, k \in 1..Top.i : c.called[j] = c.called[k] => j = k
      BY <2>4, <2>5, <2>8 DEF CallOK, Counted
    <3>2. \A j, k \in 1..Len(c.called) : c.called[j] = c.called[k] => j = k
      BY <2>8, <2>10, <2>11, <3>1
    <3>3. Top.i + 1 <= Len(Top.began)
      BY <2>3, <2>5
    <3> QED BY <2>7, <2>8, <3>2, <3>3 DEF Counted
  <2>14. Prefix(stack, c)
    BY <2>4, <2>7 DEF CallOK, Prefix, InPlaceIn
  <2>15. InOrder(stack, c)
    <3> SUFFICES ASSUME NEW n \in 1..Len(c.began), n \in 1..Len(c.called),
                        InPlaceIn(stack, c, n)
                 PROVE  c.called[n] = c.began[n]
      BY DEF InOrder
    <3>1. InPlaceIn(stack, Top, n) /\ n \in 1..Len(Top.began)
      BY <2>7 DEF InPlaceIn
    <3>2. CASE n \in 1..Top.i
      BY <2>4, <2>5, <2>7, <2>8, <3>1, <3>2 DEF CallOK, InOrder
    <3>3. CASE n = Top.i + 1
      BY <2>1, <2>4, <2>7, <2>8, <3>1, <3>3 DEF CallOK, Prefix
    <3> QED BY <2>11, <3>2, <3>3
  <2>16. Behind(stack, c)
    <3> SUFFICES ASSUME NEW q \in 1..Len(stack), NEW j \in 1..Len(c.called),
                        stack[q] = c.called[j]
                 PROVE  q <= Top.i + 1
      BY <2>8 DEF Behind
    <3>1. CASE j \in 1..Top.i
      <4>1. q <= Top.i /\ q \in Nat
        BY <2>9, <3>1
      <4> QED BY <2>5, <4>1
    <3>2. CASE j = Top.i + 1
      <4>1. stack[q] = stack[Top.i + 1]
        BY <2>1, <2>8, <3>2
      <4>2. stack[q].nr \in Nat
        <5>1. stack[q] \in Entry
          BY <2>4
        <5> QED BY <5>1 DEF Entry
      <4>3. ~(q > Top.i + 1)
        BY <1>1, <2>6, <4>1, <4>2 DEF Numbered
      <4>4. q \in Nat
        OBVIOUS
      <4> QED BY <2>5, <4>3, <4>4
    <3> QED BY <2>11, <3>1, <3>2
  <2>17. CallOK(stack, made, c)
    BY <2>7, <2>12, <2>13, <2>14, <2>15, <2>16 DEF CallOK
  <2> QED BY <2>3, <2>17, SetTopKeeps
<1>8. CASE ListenerReturns
  <2>1. PICK c : c = [Top EXCEPT !.inside = FALSE, !.i = @ + 1]
    OBVIOUS
  <2>2. calls # <<>> /\ Top.inside /\ SetTop(c) /\ UNCHANGED <<stack, on, made>>
    BY <1>8, <2>1 DEF ListenerReturns
  <2>3. Top \in Call /\ CallOK(stack, made, Top)
    BY <2>2, TopFacts
  <2>4. /\ c \in Call /\ ~c.inside /\ c.i = Top.i + 1
        /\ c.began = Top.began /\ c.called = Top.called
    BY <2>1, <2>3, ReturnFacts
  <2>5. Counted(c) /\ Known(made, c)
    BY <2>2, <2>3, <2>4 DEF CallOK, Counted, Known
  <2>6. Prefix(stack, c) /\ InOrder(stack, c) /\ Behind(stack, c)
    BY <2>3, <2>4 DEF CallOK, Prefix, InOrder, Behind, InPlaceIn
  <2>7. CallOK(stack, made, c)
    BY <2>4, <2>5, <2>6 DEF CallOK
  <2> QED BY <2>2, <2>7, SetTopKeeps
<1>9. CASE ListenerThrows
  BY <1>9, LeaveKeeps DEF ListenerThrows
<1>10. CASE TypeError
  BY <1>10, LeaveKeeps DEF TypeError, More, Iterating
<1>11. CASE DispatchReturns
  BY <1>11, LeaveKeeps DEF DispatchReturns, Iterating
<1> QED
  BY <1>2, <1>3, <1>4, <1>5, <1>6, <1>7, <1>8, <1>9, <1>10, <1>11 DEF Next

-----------------------------------------------------------------------------
(* The theorems                                                            *)

LEMMA TargetInvariant ==
  ASSUME EventTargetAssumption
  PROVE  Spec => []TargetInv
<1>1. Init => TargetInv
  BY TargetInit
<1>2. TargetInv /\ [Next]_vars => TargetInv'
  BY TargetStep
<1> QED BY <1>1, <1>2, PTL DEF Spec

\* Every variable has its type, no registration is twice in the list, and only the
\* innermost dispatch is outside of a listener (EventTarget.h:189).
THEOREM TargetTypeCorrect == Spec => []TypeOK
<1>1. EventTargetAssumption
  BY EventTargetAssumption
<1>2. TargetInv => TypeOK
  BY DEF TargetInv, TypeOK, Numbered, Call
<1>3. Spec => []TargetInv
  BY <1>1, TargetInvariant
<1> QED BY <1>2, <1>3, PTL

\* The dispatches under way are the ones that CallOK is about.
LEMMA CallsAreTied ==
  ASSUME TargetInv, NEW c \in Range(calls)
  PROVE  c \in Call /\ CallOK(stack, made, c) /\ Len(c.called) \in Nat /\ c.i \in Nat
<1>1. calls \in Seq(Call)
  BY DEF TargetInv
<1>2. CallOK(stack, made, c)
  BY <1>1, RangeIsImage DEF TargetInv
<1>3. c \in Call
  BY <1>2 DEF CallOK
<1> QED BY <1>2, <1>3 DEF Call

\* Whatever listeners add, remove and dispatch meanwhile, the listeners that are
\* there when a dispatch begins are called in the order of their registration, up
\* to the first that is removed (EventTarget.h:189).
THEOREM DispatchInOrder == Spec => []CallsInOrder
<1>1. EventTargetAssumption
  BY EventTargetAssumption
<1>2. TargetInv => CallsInOrder
  <2> SUFFICES ASSUME TargetInv, NEW c \in Range(calls), NEW n \in 1..Len(c.began),
                      InPlace(c, n), n <= c.i \/ (n = c.i + 1 /\ c.inside)
               PROVE  n <= Len(c.called) /\ c.called[n] = c.began[n]
    BY DEF CallsInOrder
  <2>1. CallOK(stack, made, c) /\ Len(c.called) \in Nat /\ c.i \in Nat
    BY CallsAreTied
  <2>2. n \in 1..Len(c.called)
    BY <2>1 DEF CallOK, Counted
  <2>3. InPlaceIn(stack, c, n)
    BY DEF InPlace, InPlaceIn
  <2> QED BY <2>1, <2>2, <2>3 DEF CallOK, InOrder
<1>3. Spec => []TargetInv
  BY <1>1, TargetInvariant
<1> QED BY <1>2, <1>3, PTL

\* A dispatch calls no registration twice, although what it has called moves
\* towards the beginning of the list when others are removed (EventTarget.h:189).
THEOREM DispatchOnce == Spec => []OncePerDispatch
<1>1. EventTargetAssumption
  BY EventTargetAssumption
<1>2. TargetInv => OncePerDispatch
  <2> SUFFICES ASSUME TargetInv, NEW c \in Range(calls)
               PROVE  IsInjective(c.called)
    BY DEF OncePerDispatch
  <2>1. c \in Call /\ CallOK(stack, made, c)
    BY CallsAreTied
  <2>2. DOMAIN c.called = 1..Len(c.called)
    BY <2>1 DEF Call
  <2> QED BY <2>1, <2>2 DEF CallOK, Counted, IsInjective
<1>3. Spec => []TargetInv
  BY <1>1, TargetInvariant
<1> QED BY <1>2, <1>3, PTL

\* A dispatch calls no more listeners than it began with (EventTarget.h:192).
THEOREM DispatchBounded == Spec => []CallsBounded
<1>1. EventTargetAssumption
  BY EventTargetAssumption
<1>2. TargetInv => CallsBounded
  BY CallsAreTied DEF CallsBounded, CallOK, Counted
<1>3. Spec => []TargetInv
  BY <1>1, TargetInvariant
<1> QED BY <1>2, <1>3, PTL

\* dispatchEvent() throws of its own accord only if a listener is not a function or
\* one it began with was removed (EventTarget.h:69).
THEOREM DispatchFailsWithReason == Spec => []FailsWithReason
<1>1. EventTargetAssumption
  BY EventTargetAssumption
<1>2. TargetInv => FailsWithReason
  <2> SUFFICES ASSUME TargetInv, More, ~Callable, InPlace(Top, Len(Top.began))
               PROVE  \E e \in Range(stack) : e.fn = NotCallable
    BY DEF FailsWithReason
  <2>1. calls # <<>> /\ Top.i < Len(Top.began)
    BY DEF More, Iterating
  <2>2. Top \in Call /\ CallOK(stack, made, Top) /\ stack \in Seq(Entry)
    BY <2>1, TopFacts DEF TargetInv, Numbered
  <2>3. Top.i \in Nat /\ Len(Top.began) \in Nat /\ Len(stack) \in Nat
    BY <2>2 DEF Call
  <2>4. Len(Top.began) \in 1..Len(Top.began)
    BY <2>1, <2>3
  <2>5. InPlaceIn(stack, Top, Len(Top.began))
    BY DEF InPlace, InPlaceIn
  <2>6. Len(Top.began) \in 1..Len(stack)
    BY <2>2, <2>4, <2>5 DEF CallOK, Prefix
  <2>7. Top.i < Len(stack) /\ Top.i + 1 \in 1..Len(stack)
    BY <2>1, <2>3, <2>6
  <2>8. stack[Top.i + 1].fn = NotCallable
    BY <2>7 DEF Callable
  <2>9. stack[Top.i + 1] \in Range(stack)
    BY <2>2, <2>7, RangeIsImage
  <2> QED BY <2>8, <2>9
<1>3. Spec => []TargetInv
  BY <1>1, TargetInvariant
<1> QED BY <1>2, <1>3, PTL

\* What is left of a list was there.
LEMMA WithoutRange ==
  ASSUME NEW s \in Seq(Entry), NEW f
  PROVE  /\ Without(s, f) \in Seq(Entry)
         /\ \A e \in Range(Without(s, f)) : e \in Range(s) /\ e.fn # f
<1>1. PICK t : t = Without(s, f)
  OBVIOUS
<1>2. PICK p \in [1..Len(t) -> 1..Len(s)] :
        \A j \in 1..Len(t) : t[j] = s[p[j]] /\ s[p[j]].fn # f
  BY <1>1, WithoutFacts
<1>3. t \in Seq(Entry)
  BY <1>1, WithoutFacts
<1>4. Range(t) = {t[j] : j \in 1..Len(t)} /\ Range(s) = {s[j] : j \in 1..Len(s)}
  BY <1>3, RangeIsImage
<1> QED BY <1>1, <1>2, <1>3, <1>4

LEMMA WithRange ==
  ASSUME NEW s \in Seq(Entry), NEW f \in Listeners, NEW by \in {"add", "on"},
         made \in Nat, made < MaxRegistrations, MaxRegistrations \in Nat
  PROVE  Range(With(s, f, by)) = Range(s) \cup {[fn |-> f, by |-> by, nr |-> made + 1]}
<1>1. PICK e : e = [fn |-> f, by |-> by, nr |-> made + 1]
  OBVIOUS
<1>2. made + 1 \in 1..MaxRegistrations
  OBVIOUS
<1>3. e \in Entry
  BY <1>1, <1>2 DEF Entry
<1> QED BY <1>1, <1>3, AppendFacts DEF With

\* At most one function is a listener because of an assignment to the property, and
\* it is its value (Worker.h:268).
THEOREM OneListenerOfProperty == Spec => []OneOnListener
<1>1. EventTargetAssumption
  BY EventTargetAssumption
<1>2. Init => OneOnListener
  <2>1. Range(<<>>) = {}
    BY DEF Range
  <2> QED BY <2>1 DEF Init, OneOnListener
<1>3. ASSUME TargetInv, OneOnListener, [Next]_vars PROVE OneOnListener'
  <2>1. /\ stack \in Seq(Entry) /\ made \in Nat /\ MaxRegistrations \in Nat
    BY <1>1, <1>3 DEF TargetInv, Numbered, EventTargetAssumption
  <2>2. CASE UNCHANGED <<stack, on>>
    BY <1>3, <2>2 DEF OneOnListener
  <2>3. ASSUME NEW f \in Listeners, addEventListener(f) PROVE OneOnListener'
    <3>1. stack' = With(stack, f, "add") /\ on' = on /\ made < MaxRegistrations
      BY <2>3 DEF addEventListener
    <3>2. Range(stack') = Range(stack) \cup {[fn |-> f, by |-> "add", nr |-> made + 1]}
      BY <2>1, <3>1, WithRange
    <3> QED BY <1>3, <3>1, <3>2 DEF OneOnListener
  <2>4. ASSUME NEW f \in Listeners, removeEventListener(f) PROVE OneOnListener'
    <3>1. stack' = Without(stack, f) /\ on' = on
      BY <2>4 DEF removeEventListener
    <3>2. \A e \in Range(stack') : e \in Range(stack)
      BY <2>1, <3>1, WithoutRange
    <3> QED BY <1>3, <3>1, <3>2 DEF OneOnListener
  <2>5. ASSUME NEW f \in Listeners, setOn(f) PROVE OneOnListener'
    <3>1. PICK s : s = IF on # NotCallable THEN Without(stack, on) ELSE stack
      OBVIOUS
    <3>2. stack' = With(s, f, "on") /\ on' = f /\ made < MaxRegistrations
      BY <2>5, <3>1 DEF setOn
    <3>3. /\ s \in Seq(Entry)
          /\ \A e \in Range(s) : e \in Range(stack) /\ (on # NotCallable => e.fn # on)
      BY <2>1, <3>1, WithoutRange
    <3>4. \A e \in Range(s) : ~(e.by = "on" /\ e.fn # NotCallable)
      BY <1>3, <3>3 DEF OneOnListener
    <3>5. Range(stack') = Range(s) \cup {[fn |-> f, by |-> "on", nr |-> made + 1]}
      BY <2>1, <3>2, <3>3, WithRange
    <3> QED BY <3>2, <3>4, <3>5 DEF OneOnListener
  <2>6. CASE \/ dispatchEvent \/ CallListener \/ ListenerReturns \/ ListenerThrows
             \/ TypeError \/ DispatchReturns
    BY <2>2, <2>6 DEF dispatchEvent, CallListener, ListenerReturns, ListenerThrows,
                      TypeError, DispatchReturns, Leave
  <2> QED BY <1>3, <2>2, <2>3, <2>4, <2>5, <2>6 DEF Next, vars
<1>4. TargetInv /\ OneOnListener /\ [Next]_vars => OneOnListener'
  BY <1>3
<1>5. Spec => []TargetInv
  BY <1>1, TargetInvariant
<1> QED BY <1>2, <1>4, <1>5, PTL DEF Spec
=============================================================================
