---------------------------- MODULE SequenceFacts ----------------------------
(***************************************************************************)
(* What the operators on sequences that the models use do to the elements  *)
(* of a sequence: queues, lists and stacks of the code.                    *)
(***************************************************************************)
EXTENDS Integers, SequencesExt, TLAPS

\* The elements of a sequence.
LEMMA RangeIsImage ==
  ASSUME NEW S, NEW s \in Seq(S)
  PROVE  Range(s) = {s[j] : j \in 1..Len(s)} /\ Range(s) \subseteq S
BY DEF Range

\* push_back()
LEMMA AppendFacts ==
  ASSUME NEW S, NEW s \in Seq(S), NEW e \in S
  PROVE  /\ Append(s, e) \in Seq(S) /\ Len(Append(s, e)) = Len(s) + 1
         /\ \A i \in 1..Len(s) : Append(s, e)[i] = s[i]
         /\ Append(s, e)[Len(s) + 1] = e
         /\ Range(Append(s, e)) = Range(s) \cup {e}
<1>1. /\ Append(s, e) \in Seq(S) /\ Len(Append(s, e)) = Len(s) + 1
      /\ \A i \in 1..Len(s) : Append(s, e)[i] = s[i]
      /\ Append(s, e)[Len(s) + 1] = e
  OBVIOUS
<1>2. PICK t : t = Append(s, e)
  OBVIOUS
<1>3. /\ t \in Seq(S) /\ Len(t) = Len(s) + 1 /\ t[Len(s) + 1] = e
      /\ \A i \in 1..Len(s) : t[i] = s[i]
      /\ Len(s) \in Nat
  BY <1>1, <1>2
<1>4. Range(t) = {t[j] : j \in 1..Len(t)} /\ Range(s) = {s[j] : j \in 1..Len(s)}
  BY <1>3, RangeIsImage
<1>5. \A j \in 1..Len(t) : j \in 1..Len(s) \/ j = Len(s) + 1
  BY <1>3
<1>6. Len(s) + 1 \in 1..Len(t) /\ \A j \in 1..Len(s) : j \in 1..Len(t)
  BY <1>3
<1>7. Range(t) = Range(s) \cup {e}
  BY <1>3, <1>4, <1>5, <1>6
<1> QED BY <1>1, <1>2, <1>7

\* front() and pop_front()
LEMMA TailFacts ==
  ASSUME NEW S, NEW s \in Seq(S), s # <<>>
  PROVE  /\ Head(s) \in S /\ Head(s) = s[1] /\ Len(s) \in Nat \ {0}
         /\ Tail(s) \in Seq(S) /\ Len(Tail(s)) = Len(s) - 1
         /\ \A i \in 1..(Len(s) - 1) : Tail(s)[i] = s[i + 1]
         /\ Range(s) = Range(Tail(s)) \cup {Head(s)}
<1>1. /\ Head(s) \in S /\ Head(s) = s[1] /\ Len(s) \in Nat \ {0}
      /\ Tail(s) \in Seq(S) /\ Len(Tail(s)) = Len(s) - 1
      /\ \A i \in 1..(Len(s) - 1) : Tail(s)[i] = s[i + 1]
  OBVIOUS
<1>2. PICK t : t = Tail(s)
  OBVIOUS
<1>3. /\ t \in Seq(S) /\ Len(t) = Len(s) - 1 /\ Len(s) \in Nat \ {0}
      /\ \A i \in 1..(Len(s) - 1) : t[i] = s[i + 1]
  BY <1>1, <1>2
<1>4. Range(t) = {t[j] : j \in 1..Len(t)} /\ Range(s) = {s[j] : j \in 1..Len(s)}
  BY <1>3, RangeIsImage
<1>5. \A j \in 1..Len(s) : j = 1 \/ (j - 1 \in 1..Len(t) /\ t[j - 1] = s[j])
  BY <1>3
<1>6. \A j \in 1..Len(t) : j + 1 \in 1..Len(s) /\ t[j] = s[j + 1]
  BY <1>3
<1>7. 1 \in 1..Len(s)
  BY <1>3
<1>8. Range(s) = Range(t) \cup {s[1]}
  BY <1>4, <1>5, <1>6, <1>7
<1> QED BY <1>1, <1>2, <1>8

\* back() and pop_back()
LEMMA FrontFacts ==
  ASSUME NEW S, NEW s \in Seq(S), s # <<>>
  PROVE  /\ Last(s) \in S /\ Last(s) = s[Len(s)] /\ Len(s) \in Nat \ {0}
         /\ Front(s) \in Seq(S) /\ Len(Front(s)) = Len(s) - 1
         /\ \A i \in 1..(Len(s) - 1) : Front(s)[i] = s[i]
         /\ Range(s) = Range(Front(s)) \cup {Last(s)}
<1>1. /\ Last(s) \in S /\ Last(s) = s[Len(s)] /\ Len(s) \in Nat \ {0}
      /\ Front(s) \in Seq(S) /\ Len(Front(s)) = Len(s) - 1
      /\ \A i \in 1..(Len(s) - 1) : Front(s)[i] = s[i]
  <2>1. Len(s) \in Nat \ {0}
    OBVIOUS
  <2>2. Last(s) = s[Len(s)] /\ s[Len(s)] \in S
    BY <2>1 DEF Last
  <2>3. PICK n \in Nat : n = Len(s) - 1
    BY <2>1
  <2>4. n <= Len(s)
    BY <2>1, <2>3
  <2>5. \A i \in 1..n : SubSeq(s, 1, n)[i] = s[i]
    BY <2>4
  <2>6. SubSeq(s, 1, n) \in Seq(S) /\ Len(SubSeq(s, 1, n)) = n
    BY <2>4
  <2> QED BY <2>1, <2>2, <2>3, <2>5, <2>6 DEF Front
<1>2. PICK t : t = Front(s)
  OBVIOUS
<1>3. /\ t \in Seq(S) /\ Len(t) = Len(s) - 1 /\ Len(s) \in Nat \ {0}
      /\ \A i \in 1..(Len(s) - 1) : t[i] = s[i]
  BY <1>1, <1>2
<1>4. Range(t) = {t[j] : j \in 1..Len(t)} /\ Range(s) = {s[j] : j \in 1..Len(s)}
  BY <1>3, RangeIsImage
<1>5. \A j \in 1..Len(s) : j = Len(s) \/ (j \in 1..Len(t) /\ t[j] = s[j])
  BY <1>3
<1>6. \A j \in 1..Len(t) : j \in 1..Len(s) /\ t[j] = s[j]
  BY <1>3
<1>7. Len(s) \in 1..Len(s)
  BY <1>3
<1>8. Range(s) = Range(t) \cup {s[Len(s)]}
  BY <1>4, <1>5, <1>6, <1>7
<1> QED BY <1>1, <1>2, <1>8

\* One list behind another.
LEMMA ConcatFacts ==
  ASSUME NEW S, NEW s \in Seq(S), NEW t \in Seq(S)
  PROVE  /\ s \o t \in Seq(S) /\ Len(s \o t) = Len(s) + Len(t)
         /\ Range(s \o t) = Range(s) \cup Range(t)
<1>1. PICK c : c = s \o t
  OBVIOUS
<1>2. c \in Seq(S) /\ Len(c) = Len(s) + Len(t) /\ Len(s) \in Nat /\ Len(t) \in Nat
  BY <1>1
<1>3. \A i \in 1..(Len(s) + Len(t)) : c[i] = IF i <= Len(s) THEN s[i] ELSE t[i - Len(s)]
  BY <1>1
<1>4. /\ Range(c) = {c[j] : j \in 1..Len(c)} /\ Range(s) = {s[j] : j \in 1..Len(s)}
      /\ Range(t) = {t[j] : j \in 1..Len(t)}
  BY <1>2, RangeIsImage
<1>5. ASSUME NEW j \in 1..Len(c) PROVE c[j] \in Range(s) \cup Range(t)
  <2>1. CASE j <= Len(s)
    BY <1>2, <1>3, <1>4, <2>1
  <2>2. CASE j > Len(s)
    <3>1. j - Len(s) \in 1..Len(t) /\ c[j] = t[j - Len(s)]
      BY <1>2, <1>3, <2>2
    <3> QED BY <1>4, <3>1
  <2> QED BY <1>2, <2>1, <2>2
<1>6. ASSUME NEW j \in 1..Len(s) PROVE s[j] \in Range(c)
  <2>1. j \in 1..Len(c) /\ c[j] = s[j]
    BY <1>2, <1>3
  <2> QED BY <1>4, <2>1
<1>7. ASSUME NEW j \in 1..Len(t) PROVE t[j] \in Range(c)
  <2>1. PICK i : i = Len(s) + j
    OBVIOUS
  <2>2. i \in 1..(Len(s) + Len(t)) /\ i > Len(s) /\ i - Len(s) = j
    BY <1>2, <2>1
  <2>3. i \in 1..Len(c) /\ c[i] = t[j]
    BY <1>2, <1>3, <2>2
  <2> QED BY <1>4, <2>3
<1>8. Range(c) = Range(s) \cup Range(t)
  BY <1>4, <1>5, <1>6, <1>7
<1> QED BY <1>1, <1>2, <1>8

\* list::emplace_back followed by the stable sort: what the list becomes when a
\* node lands at position i.
LEMMA InsertAtFacts ==
  ASSUME NEW S, NEW s \in Seq(S), NEW e \in S, NEW i \in 1..(Len(s) + 1)
  PROVE  /\ InsertAt(s, i, e) \in Seq(S)
         /\ Len(InsertAt(s, i, e)) = Len(s) + 1
         /\ \A j \in 1..(Len(s) + 1) :
              InsertAt(s, i, e)[j] = IF j < i THEN s[j]
                                     ELSE IF j = i THEN e ELSE s[j - 1]
<1> DEFINE A == SubSeq(s, 1, i - 1)
           B == SubSeq(s, i, Len(s))
<1>1. A \in Seq(S) /\ Len(A) = i - 1 /\ \A j \in 1..(i - 1) : A[j] = s[j]
  OBVIOUS
<1>2. /\ B \in Seq(S) /\ Len(B) = Len(s) - i + 1
      /\ \A j \in 1..(Len(s) - i + 1) : B[j] = s[i + j - 1]
  OBVIOUS
<1>3. <<e>> \in Seq(S) /\ Len(<<e>>) = 1 /\ <<e>>[1] = e
  OBVIOUS
<1> DEFINE C == A \o <<e>>
<1> HIDE DEF A, B
<1>4. /\ C \in Seq(S) /\ Len(C) = i
      /\ \A j \in 1..i : C[j] = IF j < i THEN s[j] ELSE e
  BY <1>1, <1>3
<1>5. InsertAt(s, i, e) = C \o B
  BY DEF InsertAt, A, B
<1> HIDE DEF C
<1>6. C \o B \in Seq(S) /\ Len(C \o B) = Len(s) + 1
  BY <1>2, <1>4
<1>7. ASSUME NEW j \in 1..(Len(s) + 1)
      PROVE  (C \o B)[j] = IF j < i THEN s[j]
                           ELSE IF j = i THEN e ELSE s[j - 1]
  <2>1. CASE j <= i
    <3>1. (C \o B)[j] = C[j]
      BY <2>1, <1>2, <1>4
    <3> QED BY <3>1, <2>1, <1>4
  <2>2. CASE j > i
    <3>1. (C \o B)[j] = B[j - i]
      BY <2>2, <1>2, <1>4
    <3>2. j - i \in 1..(Len(s) - i + 1) /\ i + (j - i) - 1 = j - 1
      BY <2>2
    <3> QED BY <3>1, <3>2, <2>2, <1>2
  <2>3. j <= i \/ j > i
    OBVIOUS
  <2> QED BY <2>1, <2>2, <2>3
<1> QED BY <1>5, <1>6, <1>7

LEMMA InsertAtRange ==
  ASSUME NEW S, NEW s \in Seq(S), NEW e \in S, NEW i \in 1..(Len(s) + 1)
  PROVE  Range(InsertAt(s, i, e)) = Range(s) \cup {e}
<1>1. PICK t : t = InsertAt(s, i, e)
  OBVIOUS
<1>2. /\ t \in Seq(S) /\ Len(t) = Len(s) + 1 /\ Len(s) \in Nat
      /\ \A j \in 1..(Len(s) + 1) :
           t[j] = IF j < i THEN s[j] ELSE IF j = i THEN e ELSE s[j - 1]
  BY <1>1, InsertAtFacts
<1>3. Range(t) = {t[j] : j \in 1..Len(t)} /\ Range(s) = {s[j] : j \in 1..Len(s)}
  BY <1>2, RangeIsImage
<1>4. ASSUME NEW j \in 1..Len(t) PROVE t[j] \in Range(s) \cup {e}
  <2>1. CASE j < i
    <3>1. j \in 1..Len(s) /\ t[j] = s[j]
      BY <1>2, <2>1
    <3> QED BY <1>3, <3>1
  <2>2. CASE j = i
    BY <1>2, <2>2
  <2>3. CASE j > i
    <3>1. j - 1 \in 1..Len(s) /\ t[j] = s[j - 1]
      BY <1>2, <2>3
    <3> QED BY <1>3, <3>1
  <2> QED BY <1>2, <2>1, <2>2, <2>3
<1>5. ASSUME NEW j \in 1..Len(s) PROVE s[j] \in Range(t)
  <2>1. CASE j < i
    <3>1. j \in 1..Len(t) /\ t[j] = s[j]
      BY <1>2, <2>1
    <3> QED BY <1>3, <3>1
  <2>2. CASE j >= i
    <3>1. PICK k : k = j + 1
      OBVIOUS
    <3>2. k \in 1..Len(t) /\ t[k] = s[j]
      BY <1>2, <2>2, <3>1
    <3> QED BY <1>3, <3>2
  <2> QED BY <1>2, <2>1, <2>2
<1>6. i \in 1..Len(t) /\ t[i] = e
  BY <1>2
<1>7. Range(t) = Range(s) \cup {e}
  BY <1>3, <1>4, <1>5, <1>6
<1> QED BY <1>1, <1>7

-----------------------------------------------------------------------------
(* Queues without repetitions, and lists in the order of a key.            *)

Distinct(s) == \A i, j \in 1..Len(s) : i < j => s[i] # s[j]

Ordered(s, key) ==
  \A i, j \in 1..Len(s) : i < j => s[i] # s[j] /\ key[s[i]] <= key[s[j]]

LEMMA DistinctAppend ==
  ASSUME NEW S, NEW s \in Seq(S), NEW e \in S, Distinct(s), e \notin Range(s)
  PROVE  Distinct(Append(s, e))
<1>1. PICK t : t = Append(s, e)
  OBVIOUS
<1>2. /\ Len(t) = Len(s) + 1 /\ t[Len(s) + 1] = e /\ Len(s) \in Nat
      /\ \A i \in 1..Len(s) : t[i] = s[i] /\ s[i] # e
  BY <1>1, AppendFacts, RangeIsImage
<1>3. ASSUME NEW i \in 1..Len(t), NEW j \in 1..Len(t), i < j PROVE t[i] # t[j]
  <2>1. i \in 1..Len(s)
    BY <1>2, <1>3
  <2>2. CASE j = Len(s) + 1
    BY <1>2, <2>1, <2>2
  <2>3. CASE j # Len(s) + 1
    <3>1. j \in 1..Len(s)
      BY <1>2, <2>3
    <3> QED BY <1>2, <1>3, <2>1, <3>1 DEF Distinct
  <2> QED BY <2>2, <2>3
<1> QED BY <1>1, <1>3 DEF Distinct

LEMMA DistinctTail ==
  ASSUME NEW S, NEW s \in Seq(S), s # <<>>, Distinct(s)
  PROVE  Distinct(Tail(s)) /\ Range(Tail(s)) = Range(s) \ {Head(s)}
<1>1. PICK t : t = Tail(s)
  OBVIOUS
<1>2. /\ Head(s) = s[1] /\ Len(s) \in Nat \ {0} /\ Len(t) = Len(s) - 1
      /\ t \in Seq(S) /\ Range(s) = Range(t) \cup {s[1]}
  BY <1>1, TailFacts
<1>3. \A i \in 1..(Len(s) - 1) : t[i] = s[i + 1]
  BY <1>1, TailFacts
<1>4. Distinct(t)
  <2> SUFFICES ASSUME NEW i \in 1..Len(t), NEW j \in 1..Len(t), i < j
               PROVE  t[i] # t[j]
    BY DEF Distinct
  <2>1. /\ i + 1 \in 1..Len(s) /\ j + 1 \in 1..Len(s) /\ i + 1 < j + 1
        /\ t[i] = s[i + 1] /\ t[j] = s[j + 1]
    BY <1>2, <1>3
  <2> QED BY <2>1 DEF Distinct
<1>5. ASSUME NEW i \in 1..Len(t) PROVE t[i] # s[1]
  <2>1. i + 1 \in 1..Len(s) /\ 1 \in 1..Len(s) /\ 1 < i + 1 /\ t[i] = s[i + 1]
    BY <1>2, <1>3
  <2> QED BY <2>1 DEF Distinct
<1>6. s[1] \notin Range(t)
  BY <1>2, <1>5, RangeIsImage
<1> QED BY <1>1, <1>2, <1>4, <1>6

LEMMA OrderedTail ==
  ASSUME NEW S, NEW s \in Seq(S), s # <<>>, NEW key, Ordered(s, key)
  PROVE  /\ Ordered(Tail(s), key) /\ Range(Tail(s)) = Range(s) \ {Head(s)}
         /\ \A x \in Range(Tail(s)) : key[Head(s)] <= key[x]
<1>1. PICK t : t = Tail(s)
  OBVIOUS
<1>2. Head(s) = s[1] /\ Len(s) \in Nat \ {0} /\ Len(t) = Len(s) - 1 /\ t \in Seq(S)
  BY <1>1, TailFacts
<1>3. \A i \in 1..(Len(s) - 1) : t[i] = s[i + 1]
  BY <1>1, TailFacts
<1>4. Ordered(t, key)
  <2> SUFFICES ASSUME NEW i \in 1..Len(t), NEW j \in 1..Len(t), i < j
               PROVE  t[i] # t[j] /\ key[t[i]] <= key[t[j]]
    BY DEF Ordered
  <2>1. /\ i + 1 \in 1..Len(s) /\ j + 1 \in 1..Len(s) /\ i + 1 < j + 1
        /\ t[i] = s[i + 1] /\ t[j] = s[j + 1]
    BY <1>2, <1>3
  <2> QED BY <2>1 DEF Ordered
<1>5. ASSUME NEW i \in 1..Len(t) PROVE key[s[1]] <= key[t[i]]
  <2>1. i + 1 \in 1..Len(s) /\ 1 \in 1..Len(s) /\ 1 < i + 1 /\ t[i] = s[i + 1]
    BY <1>2, <1>3
  <2> QED BY <2>1 DEF Ordered
<1>6. Distinct(s)
  BY DEF Distinct, Ordered
<1>7. \A x \in Range(t) : key[s[1]] <= key[x]
  BY <1>2, <1>5, RangeIsImage
<1> QED BY <1>1, <1>2, <1>4, <1>6, <1>7, DistinctTail

\* emplace_back and a stable sort keep a list in order.
LEMMA OrderedInsert ==
  ASSUME NEW S, NEW s \in Seq(S), NEW e \in S, e \notin Range(s),
         NEW key, \A x \in S : key[x] \in Int, Ordered(s, key),
         NEW i \in 1..(Len(s) + 1),
         \A j \in 1..Len(s) : (j < i) => (key[s[j]] <= key[e]),
         \A j \in 1..Len(s) : (j >= i) => (key[s[j]] > key[e])
  PROVE  Ordered(InsertAt(s, i, e), key)
<1>1. PICK t : t = InsertAt(s, i, e)
  OBVIOUS
<1>2. /\ Len(t) = Len(s) + 1 /\ Len(s) \in Nat
      /\ \A j \in 1..(Len(s) + 1) :
           t[j] = IF j < i THEN s[j] ELSE IF j = i THEN e ELSE s[j - 1]
  BY <1>1, InsertAtFacts
<1>3. \A j \in 1..Len(s) : s[j] # e /\ s[j] \in S
  BY RangeIsImage
<1> SUFFICES ASSUME NEW a \in 1..(Len(s) + 1), NEW b \in 1..(Len(s) + 1), a < b
             PROVE  t[a] # t[b] /\ key[t[a]] <= key[t[b]]
  BY <1>1, <1>2 DEF Ordered
<1>4. CASE b < i
  <2>1. a \in 1..Len(s) /\ b \in 1..Len(s) /\ t[a] = s[a] /\ t[b] = s[b]
    BY <1>2, <1>4
  <2> QED BY <2>1 DEF Ordered
<1>5. CASE b = i
  <2>1. a \in 1..Len(s) /\ a < i /\ t[a] = s[a] /\ t[b] = e
    BY <1>2, <1>5
  <2> QED BY <1>3, <2>1
<1>6. CASE b > i
  <2>1. b - 1 \in 1..Len(s) /\ t[b] = s[b - 1]
    BY <1>2, <1>6
  <2>2. CASE a < i
    <3>1. a \in 1..Len(s) /\ a < b - 1 /\ t[a] = s[a]
      BY <1>2, <1>6, <2>2
    <3> QED BY <2>1, <3>1 DEF Ordered
  <2>3. CASE a = i
    <3>1. t[a] = e /\ b - 1 >= i
      BY <1>2, <1>6, <2>3
    <3>2. key[s[b - 1]] > key[e]
      BY <2>1, <3>1
    <3> QED BY <1>3, <2>1, <3>1, <3>2
  <2>4. CASE a > i
    <3>1. a - 1 \in 1..Len(s) /\ a - 1 < b - 1 /\ t[a] = s[a - 1]
      BY <1>2, <2>4
    <3> QED BY <2>1, <3>1 DEF Ordered
  <2> QED BY <2>2, <2>3, <2>4
<1> QED BY <1>4, <1>5, <1>6
=============================================================================
