--------------------------- MODULE LifetimesProofs --------------------------
(***************************************************************************)
(* Theorems about Lifetimes, for any workers, events, references of the    *)
(* application and data: every safety property that the run checks.        *)
(*                                                                         *)
(* The counts are numbers of holders, so a step is described by how it     *)
(* moves the sets of holders; what one thread reads of an object that      *)
(* another may delete is safe because the counts say who else is there.    *)
(***************************************************************************)
EXTENDS Lifetimes, RefsProofs, SequenceFacts, FiniteSetTheorems

-----------------------------------------------------------------------------
(* How many there are                                                      *)

LEMMA PartOfFinite ==
  ASSUME NEW S, IsFiniteSet(S), NEW T, T \subseteq S
  PROVE  /\ IsFiniteSet(T) /\ Cardinality(T) \in Nat
         /\ Cardinality(T) = 0 <=> T = {}
<1>1. T \in SUBSET S
  OBVIOUS
<1>2. IsFiniteSet(T)
  BY <1>1, FS_Subset
<1> QED BY <1>2, FS_CardinalityType, FS_EmptySet

LEMMA OneMore ==
  ASSUME NEW T, IsFiniteSet(T), NEW x, x \notin T
  PROVE  Cardinality(T \cup {x}) = Cardinality(T) + 1
BY FS_AddElement

LEMMA OneLess ==
  ASSUME NEW T, IsFiniteSet(T), NEW x \in T
  PROVE  Cardinality(T \ {x}) = Cardinality(T) - 1
BY FS_RemoveElement

In(condition) == IF condition THEN 1 ELSE 0
Twice(condition) == IF condition THEN 2 ELSE 0

\* A set that loses x, or gets it, or neither.
LEMMA OneMoves ==
  ASSUME NEW S, IsFiniteSet(S), NEW T, T \subseteq S, NEW U, U \subseteq S, NEW x \in S,
         \A y \in S \ {x} : y \in U <=> y \in T
  PROVE  Cardinality(U) = Cardinality(T) - In(x \in T) + In(x \in U)
<1>1. IsFiniteSet(T) /\ Cardinality(T) \in Nat /\ IsFiniteSet(U) /\ Cardinality(U) \in Nat
  BY PartOfFinite
<1>2. CASE x \in T /\ x \in U
  <2>1. T = U
    BY <1>2
  <2> QED BY <1>1, <1>2, <2>1 DEF In
<1>3. CASE x \notin T /\ x \notin U
  <2>1. T = U
    BY <1>3
  <2> QED BY <1>1, <1>3, <2>1 DEF In
<1>4. CASE x \in T /\ x \notin U
  <2>1. U = T \ {x}
    BY <1>4
  <2>2. Cardinality(T \ {x}) = Cardinality(T) - 1
    BY <1>1, <1>4, OneLess
  <2> QED BY <1>1, <1>4, <2>1, <2>2 DEF In
<1>5. CASE x \notin T /\ x \in U
  <2>1. U = T \cup {x}
    BY <1>5
  <2>2. Cardinality(T \cup {x}) = Cardinality(T) + 1
    BY <1>1, <1>5, OneMore
  <2> QED BY <1>1, <1>5, <2>1, <2>2 DEF In
<1> QED BY <1>2, <1>3, <1>4, <1>5

\* How often e is in a queue.
PlacesOf(q, e) == {i \in 1..Len(q) : q[i] = e}

LEMMA PlacesFinite ==
  ASSUME NEW S, NEW q \in Seq(S), NEW e
  PROVE  /\ IsFiniteSet(PlacesOf(q, e)) /\ Cardinality(PlacesOf(q, e)) \in Nat
         /\ Cardinality(PlacesOf(q, e)) = 0 <=> PlacesOf(q, e) = {}
<1>1. IsFiniteSet(1..Len(q))
  BY FS_Interval
<1>2. PlacesOf(q, e) \subseteq 1..Len(q)
  BY DEF PlacesOf
<1> QED BY <1>1, <1>2, PartOfFinite

LEMMA PlacesAppend ==
  ASSUME NEW S, NEW q \in Seq(S), NEW x \in S, NEW e
  PROVE  Cardinality(PlacesOf(Append(q, x), e)) = Cardinality(PlacesOf(q, e)) + In(x = e)
<1>1. PICK t : t = Append(q, x)
  OBVIOUS
<1>2. /\ Len(t) = Len(q) + 1 /\ t[Len(q) + 1] = x /\ Len(q) \in Nat
      /\ \A i \in 1..Len(q) : t[i] = q[i]
  BY <1>1, AppendFacts
<1>3. IsFiniteSet(1..Len(t)) /\ Len(q) + 1 \in 1..Len(t)
  BY <1>2, FS_Interval
<1>4. PlacesOf(q, e) \subseteq 1..Len(t) /\ PlacesOf(t, e) \subseteq 1..Len(t)
  BY <1>2 DEF PlacesOf
<1>5. \A i \in (1..Len(t)) \ {Len(q) + 1} : i \in PlacesOf(t, e) <=> i \in PlacesOf(q, e)
  BY <1>2 DEF PlacesOf
<1>6. Len(q) + 1 \notin PlacesOf(q, e) /\ (Len(q) + 1 \in PlacesOf(t, e) <=> x = e)
  BY <1>2 DEF PlacesOf
<1>7. Cardinality(PlacesOf(t, e)) = Cardinality(PlacesOf(q, e))
        - In(Len(q) + 1 \in PlacesOf(q, e)) + In(Len(q) + 1 \in PlacesOf(t, e))
  BY <1>3, <1>4, <1>5, OneMoves
<1>8. Cardinality(PlacesOf(q, e)) \in Nat
  BY PlacesFinite
<1> QED BY <1>1, <1>6, <1>7, <1>8 DEF In

LEMMA PlacesTail ==
  ASSUME NEW S, NEW q \in Seq(S), q # <<>>, NEW e
  PROVE  Cardinality(PlacesOf(q, e)) = Cardinality(PlacesOf(Tail(q), e)) + In(Head(q) = e)
<1>1. PICK t : t = Tail(q)
  OBVIOUS
<1>2. /\ t \in Seq(S) /\ Len(t) = Len(q) - 1 /\ Len(q) \in Nat \ {0} /\ Head(q) = q[1]
      /\ \A i \in 1..(Len(q) - 1) : t[i] = q[i + 1]
  BY <1>1, TailFacts
<1> DEFINE f == [i \in PlacesOf(t, e) |-> i + 1]
<1>3. PlacesOf(t, e) \subseteq Nat
  BY DEF PlacesOf
<1>4. f \in [PlacesOf(t, e) -> PlacesOf(q, e) \ {1}]
  BY <1>2 DEF PlacesOf
<1>5. \A i, j \in PlacesOf(t, e) : f[i] = f[j] => i = j
  BY <1>3
<1>6. ASSUME NEW j \in PlacesOf(q, e) \ {1} PROVE \E i \in PlacesOf(t, e) : f[i] = j
  <2>1. j - 1 \in 1..(Len(q) - 1) /\ q[j] = e /\ (j - 1) + 1 = j
    BY <1>2 DEF PlacesOf
  <2>2. j - 1 \in PlacesOf(t, e)
    BY <1>2, <2>1 DEF PlacesOf
  <2> QED BY <2>1, <2>2
<1> HIDE DEF f
<1>7. ExistsBijection(PlacesOf(t, e), PlacesOf(q, e) \ {1})
  BY <1>4, <1>5, <1>6 DEF ExistsBijection, Bijection, Injection, Surjection, IsInjective
<1>8. IsFiniteSet(PlacesOf(t, e)) /\ IsFiniteSet(PlacesOf(q, e))
  BY <1>2, PlacesFinite
<1>9. Cardinality(PlacesOf(q, e) \ {1}) = Cardinality(PlacesOf(t, e))
  BY <1>7, <1>8, FS_Bijection
<1>10. 1 \in PlacesOf(q, e) <=> Head(q) = e
  BY <1>2 DEF PlacesOf
<1>11. Cardinality(PlacesOf(q, e) \ {1})
         = IF 1 \in PlacesOf(q, e) THEN Cardinality(PlacesOf(q, e)) - 1
           ELSE Cardinality(PlacesOf(q, e))
  BY <1>8, FS_RemoveElement
<1>12. Cardinality(PlacesOf(q, e)) \in Nat
  BY PlacesFinite
<1> QED BY <1>1, <1>9, <1>10, <1>11, <1>12 DEF In

-----------------------------------------------------------------------------
(* The inductive invariant                                                 *)

LifeTypes ==
  /\ uses \in [Handles -> Nat] /\ count \in [Events -> Nat]
  /\ target \in [Events -> Workers \cup {None}] /\ queue \in Seq(Events)
  /\ stage \in {"open", "clear", "destroy", "closed", "gone", "ending", "heapless"}
  /\ loop \in {"free", "apply", "dispatch", "drop", "delete"}
  /\ cur \in Events \cup {None} /\ (cur = None <=> loop = "free")
  /\ at \in [Workers -> {"none", "loading", "runs", "ended"}]
  /\ post \in [Workers -> {"no", "queue", "drop", "delete"}]
  /\ sent \in [Workers -> Events \cup {None}]
  /\ \A w \in Workers : sent[w] = None <=> post[w] = "no"
  /\ strays \subseteq Handles

\* The holders of an event, and who is deleting it.
InHands(e) == cur = e /\ loop # "delete"
LoopDeleting(e) == cur = e /\ loop = "delete"
PosterDeleting(e) == \E w \in Workers : sent[w] = e /\ post[w] = "delete"

EventOK(e) ==
  /\ count[e] = Cardinality(Posting(e)) + Cardinality(Queued(e)) + In(InHands(e))
  /\ LoopDeleting(e) \/ PosterDeleting(e) => count[e] = 0
  /\ target[e] # None <=> count[e] > 0 \/ LoopDeleting(e) \/ PosterDeleting(e)
  /\ ~(LoopDeleting(e) /\ PosterDeleting(e))

\* A worker posts while its WorkerData is there, and events that are about it.
Sending(w) == post[w] # "no" => at[w] \in {"loading", "runs"} /\ target[sent[w]] = w

HasData(w) == at[w] \in {"loading", "runs"}
Dispatching(w) == loop = "dispatch" /\ target[cur] = w

RefOK(w) ==
  /\ uses[w] = In(HasData(w)) + Cardinality(Referring(w)) + Twice(Dispatching(w))
  /\ uses[w] > 0 <=> refid[w] # NoRef
  /\ refid[w] # NoRef => Stored[w] = w

\* A Ref that is not a Worker's, and PostMessageEvent::apply()'s among these.
OtherRefOK(h) ==
  /\ uses[h] > 0 <=> refid[h] # NoRef
  /\ h = Mref /\ refid[h] # NoRef => loop = "dispatch"

\* The loop object ends with its events; the heap with what holds references.
Ends ==
  /\ stage \in {"closed", "gone"} => queue = <<>> /\ loop = "free"
  /\ stage = "gone" => (\A w \in Workers : ~HasData(w)) /\ (\A h \in Own : uses[h] = 0)

LifeInv ==
  /\ RefsInv /\ LifeTypes
  /\ \A e \in Events : EventOK(e)
  /\ \A w \in Workers : Sending(w) /\ RefOK(w)
  /\ \A h \in Handles \ Workers : OtherRefOK(h)
  /\ Ends

-----------------------------------------------------------------------------
(* What a thread that is about to do something knows.                      *)

LEMMA HoldersFinite ==
  ASSUME LifetimesAssumption, LifeTypes, NEW e
  PROVE  /\ Cardinality(Posting(e)) \in Nat /\ Cardinality(Queued(e)) \in Nat
         /\ In(InHands(e)) \in {0, 1}
         /\ Cardinality(Posting(e)) = 0 <=> Posting(e) = {}
         /\ Cardinality(Queued(e)) = 0 <=> Queued(e) = {}
<1>1. IsFiniteSet(Workers) /\ Posting(e) \subseteq Workers
  BY DEF LifetimesAssumption, Posting
<1>2. queue \in Seq(Events) /\ Queued(e) = PlacesOf(queue, e)
  BY DEF LifeTypes, Queued, PlacesOf
<1>3. Cardinality(Posting(e)) \in Nat /\ (Cardinality(Posting(e)) = 0 <=> Posting(e) = {})
  BY <1>1, PartOfFinite
<1>4. Cardinality(Queued(e)) \in Nat /\ (Cardinality(Queued(e)) = 0 <=> Queued(e) = {})
  BY <1>2, PlacesFinite
<1> QED BY <1>3, <1>4 DEF In

LEMMA ReferringFinite ==
  ASSUME LifetimesAssumption, NEW w
  PROVE  /\ Cardinality(Referring(w)) \in Nat
         /\ Cardinality(Referring(w)) = 0 <=> Referring(w) = {}
         /\ In(HasData(w)) \in {0, 1} /\ Twice(Dispatching(w)) \in {0, 2}
<1>1. IsFiniteSet(Events) /\ Referring(w) \subseteq Events
  BY DEF LifetimesAssumption, Referring
<1>2. Cardinality(Referring(w)) \in Nat /\ (Cardinality(Referring(w)) = 0 <=> Referring(w) = {})
  BY <1>1, PartOfFinite
<1> QED BY <1>2 DEF In, Twice

\* The event in a worker's hands counts it, or is its to delete.
LEMMA SentFacts ==
  ASSUME LifetimesAssumption, LifeInv, NEW w \in Workers, post[w] # "no"
  PROVE  /\ sent[w] \in Events /\ target[sent[w]] = w /\ HasData(w)
         /\ post[w] \in {"queue", "drop"} => count[sent[w]] > 0
         /\ post[w] = "delete" => count[sent[w]] = 0
<1>1. LifeTypes /\ Sending(w)
  BY DEF LifeInv
<1>2. sent[w] \in Events /\ target[sent[w]] = w /\ HasData(w) /\ count[sent[w]] \in Nat
  BY <1>1 DEF LifeTypes, Sending, HasData
<1>3. PICK e \in Events : e = sent[w]
  BY <1>2
<1>4. EventOK(e)
  BY DEF LifeInv
<1>5. ASSUME post[w] \in {"queue", "drop"} PROVE count[e] > 0
  <2>1. w \in Posting(e)
    BY <1>3, <1>5 DEF Posting
  <2>2. /\ Cardinality(Posting(e)) \in Nat /\ Cardinality(Queued(e)) \in Nat
        /\ In(InHands(e)) \in {0, 1} /\ Cardinality(Posting(e)) # 0
    BY <1>1, <2>1, HoldersFinite
  <2> QED BY <1>4, <2>2 DEF EventOK
<1>6. ASSUME post[w] = "delete" PROVE count[e] = 0
  <2>1. PosterDeleting(e)
    BY <1>3, <1>6 DEF PosterDeleting
  <2> QED BY <1>4, <2>1 DEF EventOK
<1> QED BY <1>2, <1>3, <1>5, <1>6

\* So does the event that the loop has taken.
LEMMA CurFacts ==
  ASSUME LifetimesAssumption, LifeInv, loop # "free"
  PROVE  /\ cur \in Events /\ target[cur] \in Workers
         /\ loop # "delete" => count[cur] > 0
         /\ loop = "delete" => count[cur] = 0
<1>1. LifeTypes /\ cur \in Events
  BY DEF LifeInv, LifeTypes
<1>2. EventOK(cur)
  BY <1>1 DEF LifeInv
<1>3. count[cur] \in Nat /\ target[cur] \in Workers \cup {None}
  BY <1>1 DEF LifeTypes
<1>4. ASSUME loop # "delete" PROVE count[cur] > 0
  <2>1. In(InHands(cur)) = 1
    BY <1>4 DEF InHands, In
  <2>2. Cardinality(Posting(cur)) \in Nat /\ Cardinality(Queued(cur)) \in Nat
    BY <1>1, HoldersFinite
  <2> QED BY <1>2, <2>1, <2>2 DEF EventOK
<1>5. ASSUME loop = "delete" PROVE count[cur] = 0 /\ LoopDeleting(cur)
  <2>1. LoopDeleting(cur)
    BY <1>5 DEF LoopDeleting
  <2> QED BY <1>2, <2>1 DEF EventOK
<1>6. target[cur] # None
  BY <1>2, <1>4, <1>5 DEF EventOK
<1> QED BY <1>1, <1>3, <1>4, <1>5, <1>6

\* And an event in the queue.
LEMMA QueueFacts ==
  ASSUME LifetimesAssumption, LifeInv, NEW i \in 1..Len(queue)
  PROVE  queue[i] \in Events /\ count[queue[i]] > 0
<1>1. LifeTypes /\ queue \in Seq(Events)
  BY DEF LifeInv, LifeTypes
<1>2. PICK e \in Events : e = queue[i]
  BY <1>1
<1>3. EventOK(e)
  BY DEF LifeInv
<1>4. i \in Queued(e)
  BY <1>2 DEF Queued
<1>5. /\ Cardinality(Posting(e)) \in Nat /\ Cardinality(Queued(e)) \in Nat
      /\ In(InHands(e)) \in {0, 1} /\ Cardinality(Queued(e)) # 0
  BY <1>1, <1>4, HoldersFinite
<1>6. count[e] > 0
  BY <1>3, <1>5 DEF EventOK
<1> QED BY <1>2, <1>6

\* An event keeps the reference of its target alive; a dispatch holds two more.
LEMMA TargetFacts ==
  ASSUME LifetimesAssumption, LifeInv, NEW e \in Events, target[e] # None
  PROVE  /\ target[e] \in Workers /\ refid[target[e]] # NoRef
         /\ Stored[target[e]] = target[e]
         /\ uses[target[e]] >= In(HasData(target[e])) + 1 + Twice(Dispatching(target[e]))
<1>1. LifeTypes
  BY DEF LifeInv
<1>2. target[e] \in Workers
  BY <1>1 DEF LifeTypes
<1>3. PICK w \in Workers : w = target[e]
  BY <1>2
<1>4. RefOK(w) /\ uses[w] \in Nat
  BY <1>1 DEF LifeInv, LifeTypes, LifetimesAssumption
<1>5. e \in Referring(w)
  BY <1>3 DEF Referring
<1>6. /\ Cardinality(Referring(w)) \in Nat /\ Cardinality(Referring(w)) # 0
      /\ In(HasData(w)) \in {0, 1} /\ Twice(Dispatching(w)) \in {0, 2}
  BY <1>5, ReferringFinite
<1>7. uses[w] >= In(HasData(w)) + 1 + Twice(Dispatching(w)) /\ uses[w] > 0
  BY <1>4, <1>6 DEF RefOK
<1>8. refid[w] # NoRef /\ Stored[w] = w
  BY <1>4, <1>7 DEF RefOK
<1> QED BY <1>3, <1>7, <1>8

-----------------------------------------------------------------------------
(* The counts of events                                                    *)

\* What a step that leaves the holders of e alone has done.
SameHolders(e) ==
  /\ count'[e] = count[e] /\ target'[e] = target[e]
  /\ Posting(e)' = Posting(e)
  /\ Cardinality(Queued(e))' = Cardinality(Queued(e))
  /\ InHands(e)' = InHands(e) /\ LoopDeleting(e)' = LoopDeleting(e)
  /\ PosterDeleting(e)' = PosterDeleting(e)

LEMMA EventQuiet ==
  ASSUME NEW e, EventOK(e), SameHolders(e)
  PROVE  EventOK(e)'
BY DEF EventOK, SameHolders

\* A step of worker w with its event.
LEMMA PostMoves ==
  ASSUME LifetimesAssumption, NEW w \in Workers, NEW p, NEW s, NEW e \in Events,
         \A v \in Workers \ {w} : post'[v] = post[v] /\ sent'[v] = sent[v],
         post'[w] = p, sent'[w] = s
  PROVE  /\ Cardinality(Posting(e))' = Cardinality(Posting(e))
              - In(sent[w] = e /\ post[w] \in {"queue", "drop"})
              + In(s = e /\ p \in {"queue", "drop"})
         /\ PosterDeleting(e)' <=>
              \/ s = e /\ p = "delete"
              \/ \E v \in Workers \ {w} : sent[v] = e /\ post[v] = "delete"
<1>1. /\ \A v \in Workers \ {w} : post'[v] = post[v] /\ sent'[v] = sent[v]
      /\ post'[w] = p /\ sent'[w] = s
  OBVIOUS
<1>2. PICK T : T = Posting(e)
  OBVIOUS
<1>3. PICK U : U = Posting(e)'
  OBVIOUS
<1>4. IsFiniteSet(Workers) /\ T \subseteq Workers /\ U \subseteq Workers
  BY <1>2, <1>3 DEF LifetimesAssumption, Posting
<1>5. \A v \in Workers \ {w} : v \in U <=> v \in T
  BY <1>1, <1>2, <1>3 DEF Posting
<1>6. Cardinality(U) = Cardinality(T) - In(w \in T) + In(w \in U)
  BY <1>4, <1>5, OneMoves
<1>7. /\ w \in T <=> sent[w] = e /\ post[w] \in {"queue", "drop"}
      /\ w \in U <=> s = e /\ p \in {"queue", "drop"}
  BY <1>1, <1>2, <1>3 DEF Posting
<1>8. /\ In(w \in T) = In(sent[w] = e /\ post[w] \in {"queue", "drop"})
      /\ In(w \in U) = In(s = e /\ p \in {"queue", "drop"})
  BY <1>7 DEF In
<1>9. PosterDeleting(e)' <=>
        \/ s = e /\ p = "delete"
        \/ \E v \in Workers \ {w} : sent[v] = e /\ post[v] = "delete"
  BY <1>1 DEF PosterDeleting
<1> QED BY <1>2, <1>3, <1>6, <1>8, <1>9

\* Nothing that is a holder moves.
LEMMA HoldersStay ==
  ASSUME UNCHANGED <<count, target, queue, cur, post, sent>>, NEW e,
         loop' = loop \/ (loop # "delete" /\ loop' # "delete")
  PROVE  SameHolders(e)
<1>1. Posting(e)' = Posting(e) /\ Queued(e)' = Queued(e)
  BY DEF Posting, Queued
<1>2. InHands(e)' = InHands(e) /\ LoopDeleting(e)' = LoopDeleting(e)
      /\ PosterDeleting(e)' = PosterDeleting(e)
  BY DEF InHands, LoopDeleting, PosterDeleting
<1> QED BY <1>1, <1>2 DEF SameHolders

\* make_intrusive()
LEMMA MakeEventCounts ==
  ASSUME LifetimesAssumption, LifeInv, NEW w \in Workers, NEW x \in Events,
         MakeEvent(w, x), NEW e \in Events
  PROVE  EventOK(e)'
<1>1. LifeTypes /\ EventOK(e) /\ EventOK(x)
  BY DEF LifeInv
<1>2. /\ post[w] = "no" /\ target[x] = None
      /\ target' = [target EXCEPT ![x] = w] /\ count' = [count EXCEPT ![x] = 1]
      /\ post' = [post EXCEPT ![w] = "queue"] /\ sent' = [sent EXCEPT ![w] = x]
      /\ UNCHANGED <<queue, loop, cur>>
  BY DEF MakeEvent
<1>3. sent[w] # e /\ w # None
  BY <1>1, <1>2 DEF LifeTypes, LifetimesAssumption
<1>4. /\ \A v \in Workers \ {w} : post'[v] = post[v] /\ sent'[v] = sent[v]
      /\ post'[w] = "queue" /\ sent'[w] = x
  BY <1>1, <1>2 DEF LifeTypes
<1>5. /\ Cardinality(Posting(e))' = Cardinality(Posting(e))
           - In(sent[w] = e /\ post[w] \in {"queue", "drop"})
           + In(x = e /\ "queue" \in {"queue", "drop"})
      /\ PosterDeleting(e)' <=>
           \/ x = e /\ "queue" = "delete"
           \/ \E v \in Workers \ {w} : sent[v] = e /\ post[v] = "delete"
  BY <1>4, PostMoves
<1>6. Queued(e)' = Queued(e) /\ InHands(e)' = InHands(e) /\ LoopDeleting(e)' = LoopDeleting(e)
  BY <1>2 DEF Queued, InHands, LoopDeleting
<1>7. PosterDeleting(e)' = PosterDeleting(e)
  BY <1>2, <1>5 DEF PosterDeleting
<1>8. /\ Cardinality(Posting(e)) \in Nat /\ Cardinality(Queued(e)) \in Nat
      /\ In(InHands(e)) \in {0, 1}
  BY <1>1, HoldersFinite
<1>9. CASE e = x
  <2>1. count'[e] = 1 /\ target'[e] = w /\ count[e] \in Nat
    BY <1>1, <1>2, <1>9 DEF LifeTypes
  <2>2. Cardinality(Posting(e))' = Cardinality(Posting(e)) + 1
    BY <1>3, <1>5, <1>8, <1>9 DEF In
  <2>3. count[e] = 0 /\ ~LoopDeleting(e) /\ ~PosterDeleting(e)
    BY <1>1, <1>2, <1>9, <2>1 DEF EventOK
  <2>4. /\ Cardinality(Posting(e)) = 0 /\ Cardinality(Queued(e)) = 0 /\ In(InHands(e)) = 0
    BY <1>1, <1>8, <2>3 DEF EventOK
  <2> QED BY <1>3, <1>6, <1>7, <2>1, <2>2, <2>3, <2>4 DEF EventOK
<1>10. CASE e # x
  <2>1. count'[e] = count[e] /\ target'[e] = target[e]
    BY <1>1, <1>2, <1>10 DEF LifeTypes
  <2>2. Cardinality(Posting(e))' = Cardinality(Posting(e))
    BY <1>3, <1>5, <1>8, <1>10 DEF In
  <2> QED BY <1>1, <1>6, <1>7, <2>1, <2>2 DEF EventOK
<1> QED BY <1>9, <1>10

\* push_back()
LEMMA EnqueueCounts ==
  ASSUME LifetimesAssumption, LifeInv, NEW w \in Workers, Enqueue(w), NEW e \in Events
  PROVE  EventOK(e)'
<1>1. LifeTypes /\ EventOK(e) /\ queue \in Seq(Events)
  BY DEF LifeInv, LifeTypes
<1>2. /\ post[w] = "queue" /\ queue' = Append(queue, sent[w])
      /\ count' = [count EXCEPT ![sent[w]] = @ + 1]
      /\ post' = [post EXCEPT ![w] = "drop"]
      /\ UNCHANGED <<target, loop, cur, sent>>
  BY DEF Enqueue
<1>3. sent[w] \in Events /\ sent' = [sent EXCEPT ![w] = sent[w]] /\ count[e] \in Nat
  BY <1>1, <1>2 DEF LifeTypes
<1>4. /\ \A v \in Workers \ {w} : post'[v] = post[v] /\ sent'[v] = sent[v]
      /\ post'[w] = "drop" /\ sent'[w] = sent[w]
  BY <1>1, <1>2 DEF LifeTypes
<1>5. /\ Cardinality(Posting(e))' = Cardinality(Posting(e))
           - In(sent[w] = e /\ post[w] \in {"queue", "drop"})
           + In(sent[w] = e /\ "drop" \in {"queue", "drop"})
      /\ PosterDeleting(e)' <=>
           \/ sent[w] = e /\ "drop" = "delete"
           \/ \E v \in Workers \ {w} : sent[v] = e /\ post[v] = "delete"
  BY <1>4, PostMoves
<1>6. /\ Cardinality(Posting(e)) \in Nat /\ Cardinality(Queued(e)) \in Nat
      /\ In(InHands(e)) \in {0, 1}
  BY <1>1, HoldersFinite
<1>7. Cardinality(Posting(e))' = Cardinality(Posting(e))
  BY <1>2, <1>5, <1>6 DEF In
<1>8. PosterDeleting(e)' = PosterDeleting(e)
  BY <1>2, <1>5 DEF PosterDeleting
<1>9. Cardinality(PlacesOf(Append(queue, sent[w]), e))
        = Cardinality(PlacesOf(queue, e)) + In(sent[w] = e)
  BY <1>1, <1>3, PlacesAppend
<1>10. Cardinality(Queued(e))' = Cardinality(Queued(e)) + In(sent[w] = e)
  BY <1>2, <1>9 DEF Queued, PlacesOf
<1>11. count'[e] = count[e] + In(sent[w] = e) /\ target'[e] = target[e]
  BY <1>1, <1>2, <1>3 DEF In, LifeTypes
<1>12. InHands(e)' = InHands(e) /\ LoopDeleting(e)' = LoopDeleting(e)
  BY <1>2 DEF InHands, LoopDeleting
<1>13. sent[w] = e => count[e] > 0
  BY <1>2, SentFacts
<1>14. In(sent[w] = e) \in {0, 1} /\ (In(sent[w] = e) = 1 => sent[w] = e)
  BY DEF In
<1>15. count'[e] = Cardinality(Posting(e))' + Cardinality(Queued(e))' + In(InHands(e))'
  BY <1>1, <1>6, <1>7, <1>10, <1>11, <1>12, <1>14 DEF EventOK, In
<1>16. (count'[e] > 0 <=> count[e] > 0) /\ (count'[e] = 0 <=> count[e] = 0)
  BY <1>3, <1>11, <1>13, <1>14
<1> QED BY <1>1, <1>8, <1>11, <1>12, <1>15, <1>16 DEF EventOK

\* The parameter of postEvent() is destroyed.
LEMMA LetGoCounts ==
  ASSUME LifetimesAssumption, LifeInv, NEW w \in Workers, LetGo(w), NEW e \in Events
  PROVE  EventOK(e)'
<1>1. LifeTypes /\ EventOK(e)
  BY DEF LifeInv
<1>2. PICK p, s :
        /\ post' = [post EXCEPT ![w] = p] /\ sent' = [sent EXCEPT ![w] = s]
        /\ IF count[sent[w]] = 1 THEN p = "delete" /\ s = sent[w] ELSE p = "no" /\ s = None
  <2>1. sent = [sent EXCEPT ![w] = sent[w]]
    BY <1>1 DEF LifeTypes
  <2> QED BY <2>1 DEF LetGo
<1>3. /\ post[w] = "drop" /\ count' = [count EXCEPT ![sent[w]] = @ - 1]
      /\ UNCHANGED <<target, queue, loop, cur>>
  BY DEF LetGo
<1>4. sent[w] \in Events /\ count[sent[w]] > 0 /\ count[e] \in Nat
  BY <1>1, <1>3, SentFacts DEF LifeTypes
<1>5. /\ \A v \in Workers \ {w} : post'[v] = post[v] /\ sent'[v] = sent[v]
      /\ post'[w] = p /\ sent'[w] = s
  BY <1>1, <1>2 DEF LifeTypes
<1>6. /\ Cardinality(Posting(e))' = Cardinality(Posting(e))
           - In(sent[w] = e /\ post[w] \in {"queue", "drop"})
           + In(s = e /\ p \in {"queue", "drop"})
      /\ PosterDeleting(e)' <=>
           \/ s = e /\ p = "delete"
           \/ \E v \in Workers \ {w} : sent[v] = e /\ post[v] = "delete"
  BY <1>5, PostMoves
<1>7. Queued(e)' = Queued(e) /\ InHands(e)' = InHands(e) /\ LoopDeleting(e)' = LoopDeleting(e)
  BY <1>3 DEF Queued, InHands, LoopDeleting
<1>8. /\ Cardinality(Posting(e)) \in Nat /\ Cardinality(Queued(e)) \in Nat
      /\ In(InHands(e)) \in {0, 1}
  BY <1>1, HoldersFinite
<1>9. CASE e = sent[w]
  <2>1. Cardinality(Posting(e))' = Cardinality(Posting(e)) - 1
    BY <1>2, <1>3, <1>6, <1>8, <1>9 DEF In
  <2>2. count'[e] = count[e] - 1 /\ target'[e] = target[e] /\ count[e] > 0
    BY <1>1, <1>3, <1>4, <1>9 DEF LifeTypes
  <2>3. ~LoopDeleting(e) /\ ~PosterDeleting(e) /\ target[e] # None
    BY <1>1, <1>4, <2>2 DEF EventOK
  <2>4. PosterDeleting(e)' <=> count[e] = 1
    BY <1>2, <1>4, <1>6, <1>9, <2>3 DEF PosterDeleting, LifetimesAssumption
  <2>5. count'[e] = Cardinality(Posting(e))' + Cardinality(Queued(e)) + In(InHands(e))
    BY <1>1, <1>8, <2>1, <2>2 DEF EventOK
  <2> QED BY <1>4, <1>7, <2>2, <2>3, <2>4, <2>5 DEF EventOK
<1>10. CASE e # sent[w]
  <2>1. count'[e] = count[e] /\ target'[e] = target[e]
    BY <1>1, <1>3, <1>10 DEF LifeTypes
  <2>2. s # e
    BY <1>2, <1>10 DEF LifetimesAssumption
  <2>3. Cardinality(Posting(e))' = Cardinality(Posting(e))
    BY <1>6, <1>8, <1>10, <2>2 DEF In
  <2>4. PosterDeleting(e)' = PosterDeleting(e)
    BY <1>6, <1>10, <2>2 DEF PosterDeleting
  <2> QED BY <1>1, <1>7, <2>1, <2>3, <2>4 DEF EventOK
<1> QED BY <1>9, <1>10

\* The poster deletes the event, which nobody else has.
LEMMA PosterDeletesCounts ==
  ASSUME LifetimesAssumption, LifeInv, NEW w \in Workers, PosterDeletes(w), NEW e \in Events
  PROVE  EventOK(e)'
<1>1. LifeTypes /\ EventOK(e)
  BY DEF LifeInv
<1>2. /\ post[w] = "delete" /\ target' = [target EXCEPT ![sent[w]] = None]
      /\ post' = [post EXCEPT ![w] = "no"] /\ sent' = [sent EXCEPT ![w] = None]
      /\ UNCHANGED <<count, queue, loop, cur>>
  BY DEF PosterDeletes, DeleteEvent
<1>3. /\ \A v \in Workers \ {w} : post'[v] = post[v] /\ sent'[v] = sent[v]
      /\ post'[w] = "no" /\ sent'[w] = None /\ e # None
  BY <1>1, <1>2 DEF LifeTypes, LifetimesAssumption
<1>4. /\ Cardinality(Posting(e))' = Cardinality(Posting(e))
           - In(sent[w] = e /\ post[w] \in {"queue", "drop"})
           + In(None = e /\ "no" \in {"queue", "drop"})
      /\ PosterDeleting(e)' <=>
           \/ None = e /\ "no" = "delete"
           \/ \E v \in Workers \ {w} : sent[v] = e /\ post[v] = "delete"
  BY <1>3, PostMoves
<1>5. Queued(e)' = Queued(e) /\ InHands(e)' = InHands(e) /\ LoopDeleting(e)' = LoopDeleting(e)
  BY <1>2 DEF Queued, InHands, LoopDeleting
<1>6. Cardinality(Posting(e))' = Cardinality(Posting(e)) /\ count'[e] = count[e]
  <2>1. Cardinality(Posting(e)) \in Nat
    BY <1>1, HoldersFinite
  <2> QED BY <1>2, <1>4, <2>1 DEF In
<1>7. CASE e = sent[w]
  <2>1. target'[e] = None
    BY <1>1, <1>2, <1>7 DEF LifeTypes
  <2>2. count[e] = 0 /\ PosterDeleting(e) /\ ~LoopDeleting(e)
    BY <1>1, <1>2, <1>7 DEF PosterDeleting, EventOK
  <2>3. ~PosterDeleting(e)'
    <3>1. ASSUME NEW v \in Workers, sent[v] = e, post[v] = "delete" PROVE v = w
      BY <1>2, <1>7, <3>1, SentFacts
    <3> QED BY <1>4, <3>1
  <2> QED BY <1>1, <1>5, <1>6, <2>1, <2>2, <2>3 DEF EventOK
<1>8. CASE e # sent[w]
  <2>1. target'[e] = target[e]
    BY <1>1, <1>2, <1>8 DEF LifeTypes
  <2>2. PosterDeleting(e)' = PosterDeleting(e)
    BY <1>3, <1>4, <1>8 DEF PosterDeleting
  <2> QED BY <1>1, <1>5, <1>6, <2>1, <2>2 DEF EventOK
<1> QED BY <1>7, <1>8

\* pop_front()
LEMMA TakeCounts ==
  ASSUME LifetimesAssumption, LifeInv, loop = "free", queue # <<>>,
         cur' = Head(queue), queue' = Tail(queue), loop' \in {"apply", "drop"},
         UNCHANGED <<count, target, post, sent>>, NEW e \in Events
  PROVE  EventOK(e)'
<1>1. LifeTypes /\ EventOK(e) /\ queue \in Seq(Events) /\ cur = None /\ e # None
  BY DEF LifeInv, LifeTypes, LifetimesAssumption
<1>2. Posting(e)' = Posting(e) /\ PosterDeleting(e)' = PosterDeleting(e)
  BY DEF Posting, PosterDeleting
<1>3. Cardinality(PlacesOf(queue, e))
        = Cardinality(PlacesOf(Tail(queue), e)) + In(Head(queue) = e)
  BY <1>1, PlacesTail
<1>4. Cardinality(Queued(e)) = Cardinality(Queued(e))' + In(Head(queue) = e)
  BY <1>3 DEF Queued, PlacesOf
<1>5. ~InHands(e) /\ ~LoopDeleting(e) /\ ~LoopDeleting(e)' /\ (InHands(e)' <=> Head(queue) = e)
  BY <1>1 DEF InHands, LoopDeleting
<1>6. In(InHands(e)) = 0 /\ In(InHands(e))' = In(Head(queue) = e)
  BY <1>5 DEF In
<1>7. /\ Cardinality(Posting(e)) \in Nat /\ Cardinality(Queued(e)) \in Nat
      /\ In(Head(queue) = e) \in {0, 1}
  BY <1>1, HoldersFinite DEF In
<1>8. Cardinality(PlacesOf(Tail(queue), e)) \in Nat
  <2>1. Tail(queue) \in Seq(Events)
    BY <1>1
  <2> QED BY <2>1, PlacesFinite
<1>9. Cardinality(Queued(e))' \in Nat
  BY <1>8 DEF Queued, PlacesOf
<1>10. count'[e] = Cardinality(Posting(e))' + Cardinality(Queued(e))' + In(InHands(e))'
  BY <1>1, <1>2, <1>4, <1>6, <1>7, <1>9 DEF EventOK
<1> QED BY <1>1, <1>2, <1>5, <1>10 DEF EventOK

\* run()'s pointer is destroyed.
LEMMA DropCounts ==
  ASSUME LifetimesAssumption, LifeInv, Drop, NEW e \in Events
  PROVE  EventOK(e)'
<1>1. LifeTypes /\ EventOK(e) /\ e # None
  BY DEF LifeInv, LifetimesAssumption
<1>2. /\ loop = "drop" /\ count' = [count EXCEPT ![cur] = @ - 1]
      /\ UNCHANGED <<target, queue, post, sent>>
      /\ IF count[cur] = 1 THEN loop' = "delete" /\ cur' = cur
         ELSE loop' = "free" /\ cur' = None
  BY DEF Drop
<1>3. cur \in Events /\ count[cur] > 0 /\ count[e] \in Nat
  BY <1>1, <1>2, CurFacts DEF LifeTypes
<1>4. /\ Posting(e)' = Posting(e) /\ Queued(e)' = Queued(e)
      /\ PosterDeleting(e)' = PosterDeleting(e)
  BY <1>2 DEF Posting, Queued, PosterDeleting
<1>5. /\ ~InHands(e)' /\ In(InHands(e))' = 0 /\ (InHands(e) <=> cur = e)
      /\ In(InHands(e)) = In(cur = e) /\ ~LoopDeleting(e)
      /\ LoopDeleting(e)' <=> cur = e /\ count[e] = 1
  BY <1>1, <1>2 DEF InHands, LoopDeleting, In
<1>6. Cardinality(Posting(e)) \in Nat /\ Cardinality(Queued(e)) \in Nat
  BY <1>1, HoldersFinite
<1>7. CASE e = cur
  <2>1. count'[e] = count[e] - 1 /\ target'[e] = target[e] /\ count[e] > 0
    BY <1>1, <1>2, <1>3, <1>7 DEF LifeTypes
  <2>2. ~PosterDeleting(e) /\ target[e] # None
    BY <1>1, <1>3, <2>1 DEF EventOK
  <2>3. count'[e] = Cardinality(Posting(e)) + Cardinality(Queued(e)) + 0
    BY <1>1, <1>3, <1>5, <1>6, <1>7, <2>1 DEF EventOK, In
  <2> QED BY <1>3, <1>4, <1>5, <1>7, <2>1, <2>2, <2>3 DEF EventOK
<1>8. CASE e # cur
  <2>1. count'[e] = count[e] /\ target'[e] = target[e]
    BY <1>1, <1>2, <1>8 DEF LifeTypes
  <2>2. In(InHands(e)) = 0
    BY <1>5, <1>8 DEF In
  <2> QED BY <1>1, <1>4, <1>5, <1>8, <2>1, <2>2 DEF EventOK
<1> QED BY <1>7, <1>8

\* The loop deletes the event, which nobody else has.
LEMMA LoopDeletesCounts ==
  ASSUME LifetimesAssumption, LifeInv, LoopDeletes, NEW e \in Events
  PROVE  EventOK(e)'
<1>1. LifeTypes /\ EventOK(e) /\ e # None
  BY DEF LifeInv, LifetimesAssumption
<1>2. /\ loop = "delete" /\ loop' = "free" /\ cur' = None
      /\ target' = [target EXCEPT ![cur] = None]
      /\ UNCHANGED <<count, queue, post, sent>>
  BY DEF LoopDeletes, DeleteEvent
<1>3. /\ Posting(e)' = Posting(e) /\ Queued(e)' = Queued(e)
      /\ PosterDeleting(e)' = PosterDeleting(e)
  BY <1>2 DEF Posting, Queued, PosterDeleting
<1>4. /\ InHands(e)' = InHands(e) /\ ~LoopDeleting(e)' /\ (LoopDeleting(e) <=> cur = e)
  BY <1>1, <1>2 DEF InHands, LoopDeleting
<1>5. count'[e] = count[e]
  BY <1>2
<1>6. CASE e = cur
  <2>1. target'[e] = None
    BY <1>1, <1>2, <1>6 DEF LifeTypes
  <2>2. count[e] = 0 /\ ~PosterDeleting(e)
    BY <1>1, <1>4, <1>6 DEF EventOK
  <2> QED BY <1>1, <1>3, <1>4, <1>5, <2>1, <2>2 DEF EventOK
<1>7. CASE e # cur
  <2>1. target'[e] = target[e]
    BY <1>1, <1>2, <1>7 DEF LifeTypes
  <2> QED BY <1>1, <1>3, <1>4, <1>5, <1>7, <2>1 DEF EventOK
<1> QED BY <1>6, <1>7

LEMMA CountsStep ==
  ASSUME LifetimesAssumption, LifeInv, [Next]_vars, NEW e \in Events
  PROVE  EventOK(e)'
<1>1. EventOK(e)
  BY DEF LifeInv
<1>2. ASSUME UNCHANGED <<count, target, queue, cur, post, sent>>,
             loop' = loop \/ (loop # "delete" /\ loop' # "delete")
      PROVE  EventOK(e)'
  BY <1>1, <1>2, HoldersStay, EventQuiet
<1>3. CASE UNCHANGED vars
  BY <1>2, <1>3 DEF vars
<1>4. ASSUME NEW w \in Workers, NEW x \in Events, MakeEvent(w, x) PROVE EventOK(e)'
  BY <1>4, MakeEventCounts
<1>5. ASSUME NEW w \in Workers, Enqueue(w) \/ LetGo(w) \/ PosterDeletes(w)
      PROVE  EventOK(e)'
  BY <1>5, EnqueueCounts, LetGoCounts, PosterDeletesCounts
<1>6. ASSUME NEW w \in Workers, Construct(w) \/ LoadReturns(w) \/ Finalize(w)
      PROVE  EventOK(e)'
  BY <1>2, <1>6 DEF Construct, LoadReturns, Finalize
<1>7. CASE Take \/ ClearOne
  BY <1>7, TakeCounts DEF Take, ClearOne
<1>8. CASE Drop
  BY <1>8, DropCounts
<1>9. CASE LoopDeletes
  BY <1>9, LoopDeletesCounts
<1>10. CASE ApplyError \/ Dispatched \/ Cleared \/ HeapEnds
  BY <1>2, <1>10 DEF ApplyError, Dispatched, Cleared, HeapEnds
<1>11. ASSUME NEW v \in Data, Apply(v) \/ \E h \in Own : OwnRef(h, v) PROVE EventOK(e)'
  BY <1>2, <1>11 DEF Apply, OwnRef
<1>12. ASSUME NEW h \in Own, OwnDrop(h) PROVE EventOK(e)'
  BY <1>2, <1>12 DEF OwnDrop
<1>13. ASSUME NEW end, Begin(end) PROVE EventOK(e)'
  BY <1>2, <1>13 DEF Begin
<1> QED BY <1>3, <1>4, <1>5, <1>6, <1>7, <1>8, <1>9, <1>10, <1>11, <1>12, <1>13 DEF Next

-----------------------------------------------------------------------------
(* The counts of references                                                *)

RefsCorrect ==
  /\ \A w \in Workers : RefOK(w)
  /\ \A h \in Handles \ Workers : OtherRefOK(h)

\* What a step does to the references: it is a step of theirs, or none, and their
\* counts are right after it.
RefsGo == RefsInv' /\ [RefsNext]_refVars /\ uses' \in [Handles -> Nat] /\ RefsCorrect'

LEMMA RefsAlone ==
  ASSUME RefsInv, UNCHANGED refVars
  PROVE  RefsInv' /\ Stored' = Stored /\ refid' = refid /\ [RefsNext]_refVars
<1>1. refs' = refs /\ refid' = refid /\ free' = free
  BY DEF refVars
<1> QED
  BY <1>1 DEF RefsInv, RefsTypeOK, FreeListExact, Chained, Link, Get, Slots, Taken, Stored,
              duv_push_ref

\* Release()
LEMMA ReleaseFacts ==
  ASSUME RefsInv, uses \in [Handles -> Nat], NEW h \in Handles, uses[h] > 0,
         refid[h] # NoRef, NEW byCreator, ReleaseRef(h, byCreator)
  PROVE  /\ RefsInv' /\ [RefsNext]_refVars /\ uses' \in [Handles -> Nat]
         /\ uses'[h] = uses[h] - 1 /\ (uses'[h] > 0 <=> refid'[h] # NoRef)
         /\ refid'[h] # NoRef => Stored'[h] = Stored[h]
         /\ \A g \in Handles \ {h} :
              uses'[g] = uses[g] /\ refid'[g] = refid[g] /\ Stored'[g] = Stored[g]
         /\ \/ strays' = strays
            \/ /\ strays' = strays \cup {h} /\ uses[h] = 1
               /\ ~byCreator \/ stage = "heapless"
<1>1. /\ uses' = [uses EXCEPT ![h] = @ - 1] /\ uses[h] \in Nat
  BY DEF ReleaseRef
<1>2. /\ uses' \in [Handles -> Nat] /\ uses'[h] = uses[h] - 1
      /\ \A g \in Handles \ {h} : uses'[g] = uses[g]
  BY <1>1
<1>3. CASE uses[h] = 1
  <2>1. DeleteRef(h)
    BY <1>3 DEF ReleaseRef
  <2>2. strays' = IF byCreator /\ stage # "heapless" THEN strays ELSE strays \cup {h}
    BY <1>3 DEF ReleaseRef
  <2>3. /\ StepOK /\ Stored' = [Stored EXCEPT ![h] = NoValue] /\ refid'[h] = NoRef
        /\ \A g \in Handles \ {h} : refid'[g] = refid[g]
    BY <2>1, DeleteRefStep
  <2>4. \A g \in Handles \ {h} : Stored'[g] = Stored[g]
    BY <2>3 DEF Stored
  <2>5. RefsInv' /\ [RefsNext]_refVars
    BY <2>1, <2>3 DEF StepOK, RefsNext
  <2>6. ~(uses'[h] > 0)
    BY <1>2, <1>3
  <2> QED BY <1>2, <1>3, <2>2, <2>3, <2>4, <2>5, <2>6
<1>4. CASE uses[h] # 1
  <2>1. UNCHANGED refVars /\ strays' = strays
    BY <1>4 DEF ReleaseRef
  <2>2. RefsInv' /\ Stored' = Stored /\ refid' = refid /\ [RefsNext]_refVars
    BY <2>1, RefsAlone
  <2>3. uses'[h] > 0
    BY <1>1, <1>2, <1>4
  <2> QED BY <1>2, <2>1, <2>2, <2>3
<1> QED BY <1>3, <1>4

\* A step that changes the _ref of one event.
LEMMA ReferMoves ==
  ASSUME LifetimesAssumption, NEW x \in Events, NEW t, NEW w,
         \A e \in Events \ {x} : target'[e] = target[e], target'[x] = t
  PROVE  Cardinality(Referring(w))' = Cardinality(Referring(w)) - In(target[x] = w) + In(t = w)
<1>1. PICK T : T = Referring(w)
  OBVIOUS
<1>2. PICK U : U = Referring(w)'
  OBVIOUS
<1>3. IsFiniteSet(Events) /\ T \subseteq Events /\ U \subseteq Events
  BY <1>1, <1>2 DEF LifetimesAssumption, Referring
<1>4. \A e \in Events \ {x} : e \in U <=> e \in T
  BY <1>1, <1>2 DEF Referring
<1>5. Cardinality(U) = Cardinality(T) - In(x \in T) + In(x \in U)
  BY <1>3, <1>4, OneMoves
<1>6. (x \in T <=> target[x] = w) /\ (x \in U <=> t = w)
  BY <1>1, <1>2 DEF Referring
<1>7. In(x \in T) = In(target[x] = w) /\ In(x \in U) = In(t = w)
  BY <1>6 DEF In
<1> QED BY <1>1, <1>2, <1>5, <1>7

\* What a step that leaves the Ref of w alone has done.
SameRef(w) ==
  /\ uses'[w] = uses[w] /\ refid'[w] = refid[w] /\ Stored'[w] = Stored[w]
  /\ HasData(w)' = HasData(w) /\ Dispatching(w)' = Dispatching(w)
  /\ Cardinality(Referring(w))' = Cardinality(Referring(w))

LEMMA RefQuiet ==
  ASSUME NEW w, RefOK(w), SameRef(w)
  PROVE  RefOK(w)'
BY DEF RefOK, SameRef

\* A step that has nothing to do with references.
LEMMA RefsStay ==
  ASSUME LifeInv, UNCHANGED refVars, UNCHANGED uses, UNCHANGED target,
         \A w \in Workers : HasData(w)' = HasData(w),
         \/ UNCHANGED loop /\ UNCHANGED cur
         \/ loop # "dispatch" /\ loop' # "dispatch"
  PROVE  RefsGo
<1>1. RefsInv' /\ Stored' = Stored /\ refid' = refid /\ [RefsNext]_refVars
  BY RefsAlone DEF LifeInv
<1>2. uses' \in [Handles -> Nat]
  BY DEF LifeInv, LifeTypes
<1>3. ASSUME NEW w \in Workers PROVE RefOK(w)'
  <2>1. RefOK(w) /\ Referring(w)' = Referring(w) /\ Dispatching(w)' = Dispatching(w)
    BY DEF LifeInv, Referring, Dispatching
  <2> QED BY <1>1, <2>1, RefQuiet DEF SameRef
<1>4. ASSUME NEW h \in Handles \ Workers PROVE OtherRefOK(h)'
  BY <1>1 DEF LifeInv, OtherRefOK
<1> QED BY <1>1, <1>2, <1>3, <1>4 DEF RefsGo, RefsCorrect

\* make_intrusive() of an event, which copies _workerref.
LEMMA MakeEventRefs ==
  ASSUME LifetimesAssumption, LifeInv, NEW w \in Workers, NEW x \in Events, MakeEvent(w, x)
  PROVE  RefsGo
<1>1. LifeTypes /\ uses \in [Handles -> Nat] /\ w \in Handles
  BY DEF LifeInv, LifeTypes, LifetimesAssumption
<1>2. /\ HasData(w) /\ target[x] = None /\ w # None
      /\ target' = [target EXCEPT ![x] = w] /\ uses' = [uses EXCEPT ![w] = @ + 1]
      /\ UNCHANGED <<refVars, loop, cur, at>>
  BY DEF MakeEvent, HasData, LifetimesAssumption
<1>3. RefsInv' /\ Stored' = Stored /\ refid' = refid /\ [RefsNext]_refVars
  BY <1>2, RefsAlone DEF LifeInv
<1>4. /\ uses' \in [Handles -> Nat] /\ uses'[w] = uses[w] + 1
      /\ \A g \in Handles \ {w} : uses'[g] = uses[g]
  BY <1>1, <1>2
<1>5. /\ \A e \in Events \ {x} : target'[e] = target[e]
      /\ target'[x] = w
  BY <1>1, <1>2 DEF LifeTypes
<1>6. loop = "dispatch" => cur # x /\ target'[cur] = target[cur]
  <2>1. loop = "dispatch" => cur \in Events /\ target[cur] \in Workers
    BY CurFacts
  <2> QED BY <1>2, <1>5, <2>1 DEF LifetimesAssumption
<1>7. ASSUME NEW v \in Workers PROVE RefOK(v)'
  <2>1. RefOK(v) /\ v # None /\ v \in Handles /\ HasData(v)' = HasData(v)
    BY <1>2 DEF LifeInv, LifetimesAssumption, HasData
  <2>2. Cardinality(Referring(v))' = Cardinality(Referring(v)) - In(target[x] = v) + In(w = v)
    BY <1>5, ReferMoves
  <2>3. /\ Cardinality(Referring(v)) \in Nat
        /\ In(HasData(v)) \in {0, 1} /\ Twice(Dispatching(v)) \in {0, 2}
    BY ReferringFinite
  <2>4. Cardinality(Referring(v))' = Cardinality(Referring(v)) + In(w = v)
    BY <1>2, <2>1, <2>2, <2>3 DEF In
  <2>5. Dispatching(v)' = Dispatching(v)
    BY <1>2, <1>6 DEF Dispatching
  <2>6. CASE v = w
    <3>1. In(HasData(v)) = 1
      BY <1>2, <2>6 DEF In
    <3>2. uses'[v] = In(HasData(v))' + Cardinality(Referring(v))' + Twice(Dispatching(v))'
      BY <1>4, <2>1, <2>3, <2>4, <2>5, <2>6 DEF RefOK, In
    <3>3. uses[v] > 0 /\ uses'[v] > 0
      BY <1>4, <2>1, <2>3, <2>6, <3>1 DEF RefOK
    <3> QED BY <1>3, <2>1, <3>2, <3>3 DEF RefOK
  <2>7. CASE v # w
    <3>1. Cardinality(Referring(v))' = Cardinality(Referring(v))
      BY <2>3, <2>4, <2>7 DEF In
    <3> QED BY <1>3, <1>4, <2>1, <2>5, <2>7, <3>1, RefQuiet DEF SameRef
  <2> QED BY <2>6, <2>7
<1>8. ASSUME NEW h \in Handles \ Workers PROVE OtherRefOK(h)'
  BY <1>2, <1>3, <1>4 DEF LifeInv, OtherRefOK
<1> QED BY <1>3, <1>4, <1>7, <1>8 DEF RefsGo, RefsCorrect

\* ~PostMessageEvent(), by whoever is the last.
LEMMA DeleteEventRefs ==
  ASSUME LifetimesAssumption, LifeInv, NEW x \in Events, target[x] # None, count[x] = 0,
         NEW byCreator, DeleteEvent(x, byCreator), UNCHANGED at,
         \/ UNCHANGED loop /\ UNCHANGED cur
         \/ loop = "delete" /\ loop' = "free"
  PROVE  RefsGo
<1>1. PICK r : r = target[x]
  OBVIOUS
<1>2. /\ r \in Workers /\ refid[r] # NoRef /\ Stored[r] = r /\ uses[r] > 0
      /\ r \in Handles /\ r # None
  <2>1. /\ r \in Workers /\ refid[r] # NoRef /\ Stored[r] = r
    BY <1>1, TargetFacts
  <2> QED BY <2>1 DEF LifeInv, RefOK, LifetimesAssumption
<1>3. LifeTypes /\ RefsInv /\ uses \in [Handles -> Nat]
  BY DEF LifeInv, LifeTypes
<1>4. target' = [target EXCEPT ![x] = None] /\ ReleaseRef(r, byCreator)
  BY <1>1 DEF DeleteEvent
<1>5. /\ RefsInv' /\ [RefsNext]_refVars /\ uses' \in [Handles -> Nat]
      /\ uses'[r] = uses[r] - 1 /\ (uses'[r] > 0 <=> refid'[r] # NoRef)
      /\ refid'[r] # NoRef => Stored'[r] = Stored[r]
      /\ \A g \in Handles \ {r} :
           uses'[g] = uses[g] /\ refid'[g] = refid[g] /\ Stored'[g] = Stored[g]
  BY <1>2, <1>3, <1>4, ReleaseFacts
<1>6. (\A e \in Events \ {x} : target'[e] = target[e]) /\ target'[x] = None
  BY <1>3, <1>4 DEF LifeTypes
<1>7. loop = "dispatch" => cur # x /\ target'[cur] = target[cur]
  <2>1. loop = "dispatch" => cur \in Events /\ count[cur] > 0
    BY CurFacts
  <2> QED BY <1>6, <2>1
<1>8. ASSUME NEW v \in Workers PROVE RefOK(v)'
  <2>1. RefOK(v) /\ v # None /\ v \in Handles /\ HasData(v)' = HasData(v)
    BY DEF LifeInv, LifetimesAssumption, HasData
  <2>2. Cardinality(Referring(v))' = Cardinality(Referring(v)) - In(target[x] = v) + In(None = v)
    BY <1>6, ReferMoves
  <2>3. /\ Cardinality(Referring(v)) \in Nat
        /\ In(HasData(v)) \in {0, 1} /\ Twice(Dispatching(v)) \in {0, 2}
    BY ReferringFinite
  <2>4. Cardinality(Referring(v))' = Cardinality(Referring(v)) - In(r = v)
    BY <1>1, <2>1, <2>2, <2>3 DEF In
  <2>5. Dispatching(v)' = Dispatching(v)
    BY <1>7 DEF Dispatching
  <2>6. CASE v = r
    <3>1. Cardinality(Referring(v))' = Cardinality(Referring(v)) - 1
      BY <2>4, <2>6 DEF In
    <3>2. uses'[v] = In(HasData(v))' + Cardinality(Referring(v))' + Twice(Dispatching(v))'
      BY <1>5, <2>1, <2>3, <2>5, <2>6, <3>1 DEF RefOK, In
    <3> QED BY <1>2, <1>5, <2>6, <3>2 DEF RefOK
  <2>7. CASE v # r
    <3>1. Cardinality(Referring(v))' = Cardinality(Referring(v))
      BY <2>3, <2>4, <2>7 DEF In
    <3> QED BY <1>5, <2>1, <2>5, <2>7, <3>1, RefQuiet DEF SameRef
  <2> QED BY <2>6, <2>7
<1>9. ASSUME NEW h \in Handles \ Workers PROVE OtherRefOK(h)'
  <2>1. uses'[h] = uses[h] /\ refid'[h] = refid[h] /\ OtherRefOK(h)
    BY <1>2, <1>5 DEF LifeInv
  <2> QED BY <2>1 DEF OtherRefOK
<1> QED BY <1>5, <1>8, <1>9 DEF RefsGo, RefsCorrect

\* Ref::Ref()
LEMMA NewFacts ==
  ASSUME RefsInv, NEW h \in Handles, NEW v \in Values, NewRef(h, v)
  PROVE  /\ RefsInv' /\ [RefsNext]_refVars
         /\ refid[h] = NoRef /\ refid'[h] # NoRef /\ Stored'[h] = v
         /\ \A g \in Handles \ {h} : refid'[g] = refid[g] /\ Stored'[g] = Stored[g]
<1>1. /\ StepOK /\ Stored' = [Stored EXCEPT ![h] = v] /\ refid'[h] # NoRef
      /\ \A g \in Handles \ {h} : refid'[g] = refid[g]
  BY NewRefStep
<1>2. Stored'[h] = v /\ \A g \in Handles \ {h} : Stored'[g] = Stored[g]
  BY <1>1 DEF Stored
<1> QED BY <1>1, <1>2 DEF StepOK, RefsNext, NewRef

\* r_Worker_construct()
LEMMA ConstructRefs ==
  ASSUME LifetimesAssumption, LifeInv, NEW w \in Workers, Construct(w)
  PROVE  RefsGo
<1>1. LifeTypes /\ RefsInv /\ w \in Handles /\ w \in Values
  BY DEF LifeInv, LifetimesAssumption
<1>2. /\ NewRef(w, w) /\ uses' = [uses EXCEPT ![w] = 1] /\ at[w] = "none"
      /\ at' = [at EXCEPT ![w] = "loading"] /\ UNCHANGED <<target, loop, cur>>
  BY DEF Construct
<1>3. /\ RefsInv' /\ [RefsNext]_refVars
      /\ refid[w] = NoRef /\ refid'[w] # NoRef /\ Stored'[w] = w
      /\ \A g \in Handles \ {w} : refid'[g] = refid[g] /\ Stored'[g] = Stored[g]
  BY <1>1, <1>2, NewFacts
<1>4. /\ uses' \in [Handles -> Nat] /\ uses'[w] = 1
      /\ \A g \in Handles \ {w} : uses'[g] = uses[g]
  BY <1>1, <1>2 DEF LifeTypes
<1>5. HasData(w)' /\ ~HasData(w) /\ \A v \in Workers \ {w} : HasData(v)' = HasData(v)
  BY <1>1, <1>2 DEF LifeTypes, HasData
<1>6. ASSUME NEW v \in Workers PROVE RefOK(v)'
  <2>1. RefOK(v) /\ v \in Handles
        /\ Referring(v)' = Referring(v) /\ Dispatching(v)' = Dispatching(v)
    BY <1>2 DEF LifeInv, LifetimesAssumption, Referring, Dispatching
  <2>2. CASE v = w
    <3>1. /\ Cardinality(Referring(v)) \in Nat
          /\ In(HasData(v)) \in {0, 1} /\ Twice(Dispatching(v)) \in {0, 2}
      BY ReferringFinite
    <3>2. ~(uses[v] > 0)
      BY <1>3, <2>1, <2>2 DEF RefOK
    <3>3. Cardinality(Referring(v)) = 0 /\ Twice(Dispatching(v)) = 0
      BY <2>1, <3>1, <3>2 DEF RefOK
    <3>4. In(HasData(v))' = 1
      BY <1>5, <2>2 DEF In
    <3> QED BY <1>3, <1>4, <2>1, <2>2, <3>3, <3>4 DEF RefOK
  <2>3. CASE v # w
    BY <1>3, <1>4, <1>5, <2>1, <2>3, RefQuiet DEF SameRef
  <2> QED BY <2>2, <2>3
<1>7. ASSUME NEW h \in Handles \ Workers PROVE OtherRefOK(h)'
  <2>1. uses'[h] = uses[h] /\ refid'[h] = refid[h] /\ OtherRefOK(h)
    BY <1>3, <1>4 DEF LifeInv
  <2> QED BY <1>2, <2>1 DEF OtherRefOK
<1> QED BY <1>3, <1>4, <1>6, <1>7 DEF RefsGo, RefsCorrect

\* What a dispatch begins with: two more for the target of the event.
LEMMA DispatchBegins ==
  ASSUME LifetimesAssumption, LifeInv, loop = "apply", loop' = "dispatch",
         UNCHANGED <<target, cur, at>>,
         \A w \in Workers : /\ uses'[w] = uses[w] + Twice(w = target[cur])
                            /\ refid'[w] = refid[w] /\ Stored'[w] = Stored[w]
  PROVE  \A w \in Workers : RefOK(w)'
<1> SUFFICES ASSUME NEW w \in Workers PROVE RefOK(w)'
  OBVIOUS
<1>1. /\ RefOK(w) /\ Referring(w)' = Referring(w) /\ HasData(w)' = HasData(w)
      /\ ~Dispatching(w) /\ (Dispatching(w)' <=> w = target[cur])
  BY DEF LifeInv, Referring, HasData, Dispatching
<1>2. Twice(Dispatching(w)) = 0 /\ Twice(Dispatching(w))' = Twice(w = target[cur])
  BY <1>1 DEF Twice
<1>3. /\ Cardinality(Referring(w)) \in Nat
      /\ In(HasData(w)) \in {0, 1} /\ Twice(w = target[cur]) \in {0, 2}
  BY ReferringFinite DEF Twice
<1>4. w = target[cur] => uses[w] > 0
  <2>1. cur \in Events /\ target[cur] \in Workers
    BY CurFacts
  <2>2. w = target[cur] => refid[w] # NoRef
    BY <2>1, TargetFacts DEF LifetimesAssumption
  <2> QED BY <1>1, <2>2 DEF RefOK
<1>5. uses'[w] = In(HasData(w))' + Cardinality(Referring(w))' + Twice(Dispatching(w))'
  BY <1>1, <1>2, <1>3 DEF RefOK
<1>6. uses'[w] > 0 <=> uses[w] > 0
  BY <1>1, <1>2, <1>3, <1>4 DEF RefOK, Twice
<1> QED BY <1>1, <1>5, <1>6 DEF RefOK

\* PostMessageEvent::apply()
LEMMA ApplyRefs ==
  ASSUME LifetimesAssumption, LifeInv, NEW v \in Data, Apply(v)
  PROVE  RefsGo
<1>1. LifeTypes /\ RefsInv /\ Mref \in Handles \ Workers /\ v \in Values
  BY DEF LifeInv, LifetimesAssumption, Data
<1>2. /\ NewRef(Mref, v) /\ loop = "apply" /\ loop' = "dispatch"
      /\ uses' = [uses EXCEPT ![Mref] = 2, ![target[cur]] = @ + 2]
      /\ UNCHANGED <<target, cur, at>>
  BY DEF Apply
<1>3. /\ RefsInv' /\ [RefsNext]_refVars
      /\ refid[Mref] = NoRef /\ refid'[Mref] # NoRef
      /\ \A g \in Handles \ {Mref} : refid'[g] = refid[g] /\ Stored'[g] = Stored[g]
  BY <1>1, <1>2, NewFacts
<1>4. PICK r : r = target[cur]
  OBVIOUS
<1>5. r \in Workers /\ r \in Handles /\ r # Mref
  BY <1>1, <1>2, <1>4, CurFacts DEF LifetimesAssumption
<1>6. uses' = [uses EXCEPT ![Mref] = 2, ![r] = @ + 2] /\ uses \in [Handles -> Nat]
  BY <1>1, <1>2, <1>4 DEF LifeTypes
<1>7. /\ uses' \in [Handles -> Nat] /\ uses'[Mref] = 2 /\ uses'[r] = uses[r] + 2
      /\ \A g \in Handles \ {Mref, r} : uses'[g] = uses[g]
  BY <1>1, <1>5, <1>6
<1>8. ASSUME NEW w \in Workers
      PROVE  /\ uses'[w] = uses[w] + Twice(w = target[cur])
             /\ refid'[w] = refid[w] /\ Stored'[w] = Stored[w]
  <2>1. w \in Handles /\ w # Mref /\ uses[w] \in Nat
    BY <1>1, <1>6 DEF LifetimesAssumption
  <2> QED BY <1>3, <1>4, <1>7, <2>1 DEF Twice
<1>9. \A w \in Workers : RefOK(w)'
  BY <1>2, <1>8, DispatchBegins
<1>10. ASSUME NEW h \in Handles \ Workers PROVE OtherRefOK(h)'
  <2>1. CASE h = Mref
    BY <1>2, <1>3, <1>7, <2>1 DEF OtherRefOK
  <2>2. CASE h # Mref
    <3>1. uses'[h] = uses[h] /\ refid'[h] = refid[h] /\ OtherRefOK(h)
      BY <1>3, <1>5, <1>7, <2>2 DEF LifeInv
    <3> QED BY <2>2, <3>1 DEF OtherRefOK
  <2> QED BY <2>1, <2>2
<1> QED BY <1>3, <1>7, <1>9, <1>10 DEF RefsGo, RefsCorrect

\* ErrorEvent::apply()
LEMMA ApplyErrorRefs ==
  ASSUME LifetimesAssumption, LifeInv, ApplyError
  PROVE  RefsGo
<1>1. LifeTypes /\ uses \in [Handles -> Nat]
  BY DEF LifeInv, LifeTypes
<1>2. /\ loop = "apply" /\ loop' = "dispatch" /\ uses' = [uses EXCEPT ![target[cur]] = @ + 2]
      /\ UNCHANGED <<refVars, target, cur, at>>
  BY DEF ApplyError
<1>3. RefsInv' /\ Stored' = Stored /\ refid' = refid /\ [RefsNext]_refVars
  BY <1>2, RefsAlone DEF LifeInv
<1>4. PICK r : r = target[cur]
  OBVIOUS
<1>5. r \in Workers /\ r \in Handles
  BY <1>2, <1>4, CurFacts DEF LifetimesAssumption
<1>6. /\ uses' \in [Handles -> Nat] /\ uses'[r] = uses[r] + 2
      /\ \A g \in Handles \ {r} : uses'[g] = uses[g]
  BY <1>1, <1>2, <1>4, <1>5
<1>7. ASSUME NEW w \in Workers
      PROVE  /\ uses'[w] = uses[w] + Twice(w = target[cur])
             /\ refid'[w] = refid[w] /\ Stored'[w] = Stored[w]
  <2>1. w \in Handles /\ uses[w] \in Nat
    BY <1>1 DEF LifetimesAssumption
  <2> QED BY <1>3, <1>4, <1>6, <2>1 DEF Twice
<1>8. \A w \in Workers : RefOK(w)'
  BY <1>2, <1>7, DispatchBegins
<1>9. ASSUME NEW h \in Handles \ Workers PROVE OtherRefOK(h)'
  <2>1. uses'[h] = uses[h] /\ refid'[h] = refid[h] /\ OtherRefOK(h)
    BY <1>3, <1>5, <1>6 DEF LifeInv
  <2> QED BY <1>2, <2>1 DEF OtherRefOK
<1> QED BY <1>3, <1>6, <1>8, <1>9 DEF RefsGo, RefsCorrect

\* The parameter, evt and mref are destroyed; the event still refers to its target.
LEMMA DispatchedRefs ==
  ASSUME LifetimesAssumption, LifeInv, Dispatched
  PROVE  RefsGo
<1>1. LifeTypes /\ RefsInv /\ uses \in [Handles -> Nat] /\ Mref \in Handles \ Workers
  BY DEF LifeInv, LifeTypes, LifetimesAssumption
<1>2. /\ loop = "dispatch" /\ loop' = "drop"
      /\ uses' = [uses EXCEPT ![target[cur]] = @ - 2, ![Mref] = 0]
      /\ IF refid[Mref] = NoRef THEN UNCHANGED refVars ELSE DeleteRef(Mref)
      /\ UNCHANGED <<target, cur, at>>
  BY DEF Dispatched
<1>3. /\ RefsInv' /\ [RefsNext]_refVars /\ refid'[Mref] = NoRef
      /\ \A g \in Handles \ {Mref} : refid'[g] = refid[g] /\ Stored'[g] = Stored[g]
  <2>1. CASE refid[Mref] = NoRef
    BY <1>1, <1>2, <2>1, RefsAlone
  <2>2. CASE refid[Mref] # NoRef
    <3>1. /\ StepOK /\ Stored' = [Stored EXCEPT ![Mref] = NoValue] /\ refid'[Mref] = NoRef
          /\ \A g \in Handles \ {Mref} : refid'[g] = refid[g]
      BY <1>1, <1>2, <2>2, DeleteRefStep
    <3>2. \A g \in Handles \ {Mref} : Stored'[g] = Stored[g]
      BY <3>1 DEF Stored
    <3> QED BY <1>1, <1>2, <2>2, <3>1, <3>2 DEF StepOK, RefsNext
  <2> QED BY <2>1, <2>2
<1>4. PICK r : r = target[cur]
  OBVIOUS
<1>5. cur \in Events /\ r \in Workers /\ r \in Handles /\ r # Mref
  BY <1>1, <1>2, <1>4, CurFacts DEF LifetimesAssumption
<1>6. uses[r] \in Nat /\ uses[r] >= 3
  <2>1. uses[r] >= In(HasData(r)) + 1 + Twice(Dispatching(r))
    BY <1>4, <1>5, TargetFacts DEF LifetimesAssumption
  <2>2. Twice(Dispatching(r)) = 2 /\ In(HasData(r)) \in {0, 1}
    BY <1>2, <1>4 DEF In, Twice, Dispatching
  <2> QED BY <1>1, <1>5, <2>1, <2>2
<1>7. uses' = [uses EXCEPT ![r] = @ - 2, ![Mref] = 0]
  BY <1>2, <1>4
<1>8. /\ uses' \in [Handles -> Nat] /\ uses'[Mref] = 0 /\ uses'[r] = uses[r] - 2
      /\ \A g \in Handles \ {Mref, r} : uses'[g] = uses[g]
  BY <1>1, <1>5, <1>6, <1>7
<1>9. ASSUME NEW w \in Workers PROVE RefOK(w)'
  <2>1. /\ RefOK(w) /\ Referring(w)' = Referring(w) /\ HasData(w)' = HasData(w)
        /\ ~Dispatching(w)' /\ (Dispatching(w) <=> w = r) /\ w \in Handles /\ w # Mref
    BY <1>1, <1>2, <1>4 DEF LifeInv, Referring, HasData, Dispatching, LifetimesAssumption
  <2>2. Twice(Dispatching(w))' = 0 /\ Twice(Dispatching(w)) = Twice(w = r)
    BY <2>1 DEF Twice
  <2>3. /\ Cardinality(Referring(w)) \in Nat
        /\ In(HasData(w)) \in {0, 1} /\ Twice(w = r) \in {0, 2}
    BY ReferringFinite DEF Twice
  <2>4. uses'[w] = uses[w] - Twice(w = r) /\ uses[w] \in Nat
    BY <1>1, <1>8, <2>1 DEF Twice
  <2>5. uses'[w] = In(HasData(w))' + Cardinality(Referring(w))' + Twice(Dispatching(w))'
    BY <2>1, <2>2, <2>3, <2>4 DEF RefOK
  <2>6. uses'[w] > 0 <=> uses[w] > 0
    BY <1>6, <2>4 DEF Twice
  <2> QED BY <1>3, <2>1, <2>5, <2>6 DEF RefOK
<1>10. ASSUME NEW h \in Handles \ Workers PROVE OtherRefOK(h)'
  <2>1. CASE h = Mref
    BY <1>3, <1>8, <2>1 DEF OtherRefOK
  <2>2. CASE h # Mref
    <3>1. uses'[h] = uses[h] /\ refid'[h] = refid[h] /\ OtherRefOK(h)
      BY <1>3, <1>5, <1>8, <2>2 DEF LifeInv
    <3> QED BY <2>2, <3>1 DEF OtherRefOK
  <2> QED BY <2>1, <2>2
<1> QED BY <1>3, <1>8, <1>9, <1>10 DEF RefsGo, RefsCorrect

\* The application's references.
LEMMA OwnRefs ==
  ASSUME LifetimesAssumption, LifeInv, NEW h \in Own,
         OwnDrop(h) \/ \E v \in Data : OwnRef(h, v)
  PROVE  RefsGo
<1>1. LifeTypes /\ RefsInv /\ uses \in [Handles -> Nat] /\ h \in Handles
      /\ h \notin Workers /\ h # Mref /\ OtherRefOK(h)
  BY DEF LifeInv, LifeTypes, Own
<1>2. /\ RefsInv' /\ [RefsNext]_refVars /\ uses' \in [Handles -> Nat]
      /\ uses'[h] > 0 <=> refid'[h] # NoRef
      /\ \A g \in Handles \ {h} :
           uses'[g] = uses[g] /\ refid'[g] = refid[g] /\ Stored'[g] = Stored[g]
  <2>1. ASSUME OwnDrop(h)
        PROVE  /\ RefsInv' /\ [RefsNext]_refVars /\ uses' \in [Handles -> Nat]
               /\ uses'[h] > 0 <=> refid'[h] # NoRef
               /\ \A g \in Handles \ {h} :
                    uses'[g] = uses[g] /\ refid'[g] = refid[g] /\ Stored'[g] = Stored[g]
    <3>1. uses[h] = 1 /\ ReleaseRef(h, TRUE)
      BY <2>1 DEF OwnDrop
    <3>2. uses[h] > 0
      BY <3>1
    <3>3. refid[h] # NoRef
      BY <1>1, <3>2 DEF OtherRefOK
    <3> QED BY <1>1, <3>1, <3>2, <3>3, ReleaseFacts
  <2>2. ASSUME NEW v \in Data, OwnRef(h, v)
        PROVE  /\ RefsInv' /\ [RefsNext]_refVars /\ uses' \in [Handles -> Nat]
               /\ uses'[h] > 0 <=> refid'[h] # NoRef
               /\ \A g \in Handles \ {h} :
                    uses'[g] = uses[g] /\ refid'[g] = refid[g] /\ Stored'[g] = Stored[g]
    <3>1. NewRef(h, v) /\ uses' = [uses EXCEPT ![h] = 1] /\ v \in Values
      BY <2>2 DEF OwnRef, Data
    <3>2. uses' \in [Handles -> Nat] /\ uses'[h] = 1
          /\ \A g \in Handles \ {h} : uses'[g] = uses[g]
      BY <1>1, <3>1
    <3>3. /\ RefsInv' /\ [RefsNext]_refVars /\ refid'[h] # NoRef
          /\ \A g \in Handles \ {h} : refid'[g] = refid[g] /\ Stored'[g] = Stored[g]
      BY <1>1, <3>1, NewFacts
    <3> QED BY <3>2, <3>3
  <2> QED BY <2>1, <2>2
<1>3. UNCHANGED <<target, at, loop, cur>>
  BY DEF OwnDrop, OwnRef
<1>4. ASSUME NEW w \in Workers PROVE RefOK(w)'
  <2>1. /\ RefOK(w) /\ w \in Handles \ {h} /\ Referring(w)' = Referring(w)
        /\ HasData(w)' = HasData(w) /\ Dispatching(w)' = Dispatching(w)
    BY <1>1, <1>3 DEF LifeInv, LifetimesAssumption, Referring, HasData, Dispatching
  <2> QED BY <1>2, <2>1, RefQuiet DEF SameRef
<1>5. ASSUME NEW g \in Handles \ Workers PROVE OtherRefOK(g)'
  <2>1. CASE g = h
    BY <1>1, <1>2, <2>1 DEF OtherRefOK
  <2>2. CASE g # h
    BY <1>2, <1>3, <2>2 DEF LifeInv, OtherRefOK
  <2> QED BY <2>1, <2>2
<1> QED BY <1>2, <1>4, <1>5 DEF RefsGo, RefsCorrect

\* ~WorkerData()
LEMMA FinalizeRefs ==
  ASSUME LifetimesAssumption, LifeInv, NEW w \in Workers, Finalize(w)
  PROVE  RefsGo
<1>1. LifeTypes /\ RefsInv /\ uses \in [Handles -> Nat] /\ w \in Handles /\ RefOK(w)
  BY DEF LifeInv, LifeTypes, LifetimesAssumption
<1>2. /\ at[w] = "runs" /\ at' = [at EXCEPT ![w] = "ended"] /\ ReleaseRef(w, TRUE)
      /\ UNCHANGED <<target, loop, cur>>
  BY DEF Finalize
<1>3. /\ HasData(w) /\ ~HasData(w)' /\ In(HasData(w)) = 1 /\ In(HasData(w))' = 0
      /\ \A v \in Workers \ {w} : HasData(v)' = HasData(v)
  BY <1>1, <1>2 DEF HasData, LifeTypes, In
<1>4. uses[w] > 0 /\ refid[w] # NoRef
  <2>1. Cardinality(Referring(w)) \in Nat /\ Twice(Dispatching(w)) \in {0, 2}
    BY ReferringFinite
  <2>2. uses[w] = In(HasData(w)) + Cardinality(Referring(w)) + Twice(Dispatching(w))
    BY <1>1 DEF RefOK
  <2>3. uses[w] > 0
    BY <1>3, <2>1, <2>2
  <2> QED BY <1>1, <2>3 DEF RefOK
<1>5. /\ RefsInv' /\ [RefsNext]_refVars /\ uses' \in [Handles -> Nat]
      /\ uses'[w] = uses[w] - 1 /\ (uses'[w] > 0 <=> refid'[w] # NoRef)
      /\ refid'[w] # NoRef => Stored'[w] = Stored[w]
      /\ \A g \in Handles \ {w} :
           uses'[g] = uses[g] /\ refid'[g] = refid[g] /\ Stored'[g] = Stored[g]
  BY <1>1, <1>2, <1>4, ReleaseFacts
<1>6. ASSUME NEW v \in Workers PROVE RefOK(v)'
  <2>1. /\ RefOK(v) /\ v \in Handles /\ Referring(v)' = Referring(v)
        /\ Dispatching(v)' = Dispatching(v)
    BY <1>2 DEF LifeInv, LifetimesAssumption, Referring, Dispatching
  <2>2. CASE v = w
    <3>1. Cardinality(Referring(v)) \in Nat /\ Twice(Dispatching(v)) \in {0, 2}
      BY ReferringFinite
    <3>2. In(HasData(v)) = 1 /\ In(HasData(v))' = 0
      BY <1>3, <2>2
    <3>3. uses[v] = In(HasData(v)) + Cardinality(Referring(v)) + Twice(Dispatching(v))
      BY <2>1 DEF RefOK
    <3>4. /\ Cardinality(Referring(v))' = Cardinality(Referring(v))
          /\ Twice(Dispatching(v))' = Twice(Dispatching(v))
      BY <2>1 DEF In
    <3>5. uses'[v] = In(HasData(v))' + Cardinality(Referring(v))' + Twice(Dispatching(v))'
      BY <1>5, <2>2, <3>1, <3>2, <3>3, <3>4
    <3> QED BY <1>1, <1>4, <1>5, <2>2, <3>5 DEF RefOK
  <2>3. CASE v # w
    BY <1>3, <1>5, <2>1, <2>3, RefQuiet DEF SameRef
  <2> QED BY <2>2, <2>3
<1>7. ASSUME NEW h \in Handles \ Workers PROVE OtherRefOK(h)'
  <2>1. uses'[h] = uses[h] /\ refid'[h] = refid[h] /\ OtherRefOK(h)
    BY <1>5 DEF LifeInv
  <2> QED BY <1>2, <2>1 DEF OtherRefOK
<1> QED BY <1>5, <1>6, <1>7 DEF RefsGo, RefsCorrect

LEMMA RefsGoStep ==
  ASSUME LifetimesAssumption, LifeInv, [Next]_vars
  PROVE  RefsGo
<1>1. ASSUME UNCHANGED refVars, UNCHANGED uses, UNCHANGED target, UNCHANGED at,
             \/ UNCHANGED loop /\ UNCHANGED cur
             \/ loop # "dispatch" /\ loop' # "dispatch"
      PROVE  RefsGo
  BY <1>1, RefsStay DEF HasData
<1>2. CASE UNCHANGED vars
  BY <1>2, <1>1 DEF vars
<1>3. ASSUME NEW w \in Workers, NEW x \in Events, MakeEvent(w, x) PROVE RefsGo
  BY <1>3, MakeEventRefs
<1>4. ASSUME NEW w \in Workers, Enqueue(w) \/ LetGo(w) PROVE RefsGo
  BY <1>4, <1>1 DEF Enqueue, LetGo
<1>5. ASSUME NEW w \in Workers, PosterDeletes(w) PROVE RefsGo
  <2>1. PICK x \in Events : x = sent[w]
    BY <1>5, SentFacts DEF PosterDeletes
  <2>2. target[x] # None /\ count[x] = 0
    BY <1>5, <2>1, SentFacts DEF PosterDeletes, LifetimesAssumption
  <2>3. PICK b : b = PostsFromCreator(w)
    OBVIOUS
  <2>4. DeleteEvent(x, b)
    BY <1>5, <2>1, <2>3 DEF PosterDeletes
  <2>5. UNCHANGED at /\ UNCHANGED loop /\ UNCHANGED cur
    BY <1>5 DEF PosterDeletes
  <2> QED BY <2>2, <2>4, <2>5, DeleteEventRefs
<1>6. ASSUME NEW w \in Workers, LoadReturns(w) PROVE RefsGo
  <2>1. \A v \in Workers : HasData(v)' = HasData(v)
    BY <1>6 DEF LoadReturns, HasData, LifeInv, LifeTypes
  <2> QED BY <1>6, <2>1, RefsStay DEF LoadReturns
<1>7. ASSUME NEW w \in Workers, Construct(w) \/ Finalize(w) PROVE RefsGo
  BY <1>7, ConstructRefs, FinalizeRefs
<1>8. CASE Take \/ ClearOne \/ Drop \/ Cleared \/ HeapEnds
  BY <1>8, <1>1 DEF Take, ClearOne, Drop, Cleared, HeapEnds
<1>9. CASE ApplyError \/ Dispatched
  BY <1>9, ApplyErrorRefs, DispatchedRefs
<1>10. CASE LoopDeletes
  <2>1. PICK x \in Events : x = cur
    BY <1>10, CurFacts DEF LoopDeletes
  <2>2. target[x] # None /\ count[x] = 0
    BY <1>10, <2>1, CurFacts DEF LoopDeletes, LifetimesAssumption
  <2> QED BY <1>10, <2>1, <2>2, DeleteEventRefs DEF LoopDeletes
<1>11. ASSUME NEW v \in Data, Apply(v) PROVE RefsGo
  BY <1>11, ApplyRefs
<1>12. ASSUME NEW h \in Own, OwnDrop(h) \/ \E v \in Data : OwnRef(h, v) PROVE RefsGo
  BY <1>12, OwnRefs
<1>13. ASSUME NEW end, Begin(end) PROVE RefsGo
  BY <1>13, <1>1 DEF Begin
<1> QED BY <1>2, <1>3, <1>4, <1>5, <1>6, <1>7, <1>8, <1>9, <1>10, <1>11, <1>12, <1>13 DEF Next

-----------------------------------------------------------------------------
(* Who posts, who deletes, and what ends                                   *)

LEMMA SendingStep ==
  ASSUME LifetimesAssumption, LifeInv, [Next]_vars, NEW w \in Workers
  PROVE  Sending(w)'
<1>1. LifeTypes /\ Sending(w) /\ w # None
  BY DEF LifeInv, LifetimesAssumption
<1>2. ASSUME post'[w] = post[w], sent'[w] = sent[w],
             post[w] # "no" => at'[w] \in {"loading", "runs"},
             post[w] # "no" => target'[sent[w]] = target[sent[w]]
      PROVE  Sending(w)'
  BY <1>1, <1>2 DEF Sending
<1>3. ASSUME UNCHANGED post, UNCHANGED sent, UNCHANGED target, UNCHANGED at
      PROVE  Sending(w)'
  BY <1>1, <1>3 DEF Sending
<1>4. CASE UNCHANGED vars
  BY <1>3, <1>4 DEF vars
<1>5. ASSUME NEW v \in Workers, NEW x \in Events, MakeEvent(v, x) PROVE Sending(w)'
  <2>1. /\ target[x] = None /\ target' = [target EXCEPT ![x] = v] /\ at' = at
        /\ post' = [post EXCEPT ![v] = "queue"] /\ sent' = [sent EXCEPT ![v] = x]
        /\ at[v] \in {"loading", "runs"}
    BY <1>5 DEF MakeEvent
  <2>2. CASE v = w
    BY <1>1, <2>1, <2>2 DEF Sending, LifeTypes
  <2>3. CASE v # w
    <3>1. post'[w] = post[w] /\ sent'[w] = sent[w]
      BY <1>1, <2>1, <2>3 DEF LifeTypes
    <3>2. post[w] # "no" => sent[w] # x /\ sent[w] \in Events
      BY <1>1, <2>1, SentFacts
    <3>3. post[w] # "no" => target'[sent[w]] = target[sent[w]]
      BY <1>1, <2>1, <3>2 DEF LifeTypes
    <3> QED BY <1>1, <1>2, <2>1, <3>1, <3>3 DEF Sending
  <2> QED BY <2>2, <2>3
<1>6. ASSUME NEW v \in Workers, Enqueue(v) \/ LetGo(v) PROVE Sending(w)'
  <2>1. /\ post[v] # "no" /\ UNCHANGED target /\ UNCHANGED at
        /\ \A u \in Workers \ {v} : post'[u] = post[u] /\ sent'[u] = sent[u]
        /\ post'[v] # "no" => sent'[v] = sent[v]
    BY <1>1, <1>6 DEF Enqueue, LetGo, LifeTypes
  <2> QED BY <1>1, <2>1 DEF Sending
<1>7. ASSUME NEW v \in Workers, PosterDeletes(v) PROVE Sending(w)'
  <2>1. /\ post[v] = "delete" /\ target' = [target EXCEPT ![sent[v]] = None] /\ at' = at
        /\ post' = [post EXCEPT ![v] = "no"] /\ sent' = [sent EXCEPT ![v] = None]
    BY <1>7 DEF PosterDeletes, DeleteEvent
  <2>2. CASE v = w
    BY <1>1, <2>1, <2>2 DEF Sending, LifeTypes
  <2>3. CASE v # w
    <3>1. post'[w] = post[w] /\ sent'[w] = sent[w]
      BY <1>1, <2>1, <2>3 DEF LifeTypes
    <3>2. post[w] # "no" => sent[w] \in Events /\ target[sent[w]] = w
      BY SentFacts
    <3>3. target[sent[v]] = v
      BY <2>1, SentFacts
    <3>4. post[w] # "no" => target'[sent[w]] = target[sent[w]]
      BY <1>1, <2>1, <2>3, <3>2, <3>3 DEF LifeTypes
    <3> QED BY <1>1, <1>2, <2>1, <3>1, <3>4 DEF Sending
  <2> QED BY <2>2, <2>3
<1>8. ASSUME NEW v \in Workers, Construct(v) \/ LoadReturns(v) \/ Finalize(v)
      PROVE  Sending(w)'
  <2>1. /\ UNCHANGED post /\ UNCHANGED sent /\ UNCHANGED target
        /\ at'[w] = at[w] \/ at'[w] \in {"loading", "runs"} \/ post[w] = "no"
    BY <1>1, <1>8 DEF Construct, LoadReturns, Finalize, LifeTypes
  <2> QED BY <1>1, <2>1 DEF Sending
<1>9. CASE LoopDeletes
  <2>1. /\ loop = "delete" /\ target' = [target EXCEPT ![cur] = None]
        /\ UNCHANGED post /\ UNCHANGED sent /\ UNCHANGED at
    BY <1>9 DEF LoopDeletes, DeleteEvent
  <2>2. cur \in Events /\ count[cur] = 0
    BY <2>1, CurFacts
  <2>3. ASSUME post[w] # "no" PROVE sent[w] # cur
    <3>1. EventOK(cur) /\ LoopDeleting(cur)
      BY <2>1, <2>2 DEF LifeInv, LoopDeleting
    <3>2. ~PosterDeleting(cur)
      BY <3>1 DEF EventOK
    <3>3. CASE post[w] = "delete"
      BY <3>2, <3>3 DEF PosterDeleting
    <3>4. CASE post[w] \in {"queue", "drop"}
      BY <2>2, <2>3, <3>4, SentFacts
    <3> QED BY <1>1, <2>3, <3>3, <3>4 DEF LifeTypes
  <2>4. post[w] # "no" => sent[w] \in Events
    BY SentFacts
  <2>5. post[w] # "no" => target'[sent[w]] = target[sent[w]]
    BY <1>1, <2>1, <2>3, <2>4 DEF LifeTypes
  <2> QED BY <1>1, <2>1, <2>5 DEF Sending
<1>10. CASE Take \/ ApplyError \/ Dispatched \/ Drop \/ ClearOne \/ Cleared \/ HeapEnds
  BY <1>3, <1>10 DEF Take, ApplyError, Dispatched, Drop, ClearOne, Cleared, HeapEnds
<1>11. ASSUME NEW v \in Data, Apply(v) \/ \E h \in Own : OwnRef(h, v) PROVE Sending(w)'
  BY <1>3, <1>11 DEF Apply, OwnRef
<1>12. ASSUME NEW h \in Own, OwnDrop(h) PROVE Sending(w)'
  BY <1>3, <1>12 DEF OwnDrop
<1>13. ASSUME NEW end, Begin(end) PROVE Sending(w)'
  BY <1>3, <1>13 DEF Begin
<1> QED BY <1>4, <1>5, <1>6, <1>7, <1>8, <1>9, <1>10, <1>11, <1>12, <1>13 DEF Next

\* Once the loop object is gone no event is queued or taken; once the heap is, no
\* WorkerData and no reference comes back.
LEMMA EndsStep ==
  ASSUME LifetimesAssumption, LifeInv, [Next]_vars
  PROVE  Ends'
<1>1. LifeTypes /\ Ends
  BY DEF LifeInv
<1>2. ASSUME UNCHANGED stage, stage \notin {"closed", "gone"} PROVE Ends'
  BY <1>2 DEF Ends
<1>3. ASSUME UNCHANGED stage, UNCHANGED queue, UNCHANGED loop, stage # "gone" PROVE Ends'
  BY <1>1, <1>3 DEF Ends
<1>4. ASSUME UNCHANGED stage, UNCHANGED queue, UNCHANGED loop, UNCHANGED at, UNCHANGED uses
      PROVE  Ends'
  BY <1>1, <1>4 DEF Ends, HasData
<1>5. stage = "gone" => \A w \in Workers : post[w] = "no" /\ ~HasData(w)
  BY <1>1, SentFacts DEF Ends
<1>6. loop # "free" => stage \notin {"closed", "gone"}
  BY <1>1 DEF Ends
<1>7. CASE UNCHANGED vars
  BY <1>4, <1>7 DEF vars
<1>8. ASSUME NEW w \in Workers, NEW x \in Events, MakeEvent(w, x) PROVE Ends'
  <2>1. stage # "gone"
    BY <1>5, <1>8 DEF MakeEvent, HasData
  <2> QED BY <1>3, <1>8, <2>1 DEF MakeEvent
<1>9. ASSUME NEW w \in Workers, Enqueue(w) PROVE Ends'
  BY <1>2, <1>9 DEF Enqueue
<1>10. ASSUME NEW w \in Workers, LetGo(w) PROVE Ends'
  BY <1>4, <1>10 DEF LetGo
<1>11. ASSUME NEW w \in Workers, PosterDeletes(w) PROVE Ends'
  <2>1. stage # "gone"
    BY <1>5, <1>11 DEF PosterDeletes
  <2> QED BY <1>3, <1>11, <2>1 DEF PosterDeletes
<1>12. ASSUME NEW w \in Workers, Construct(w) \/ Finalize(w) PROVE Ends'
  BY <1>3, <1>12 DEF Construct, Finalize
<1>13. ASSUME NEW w \in Workers, LoadReturns(w) PROVE Ends'
  <2>1. stage # "gone"
    BY <1>5, <1>13 DEF LoadReturns, HasData
  <2> QED BY <1>3, <1>13, <2>1 DEF LoadReturns
<1>14. CASE Take \/ ClearOne
  BY <1>2, <1>14 DEF Take, ClearOne
<1>15. CASE ApplyError \/ Dispatched \/ Drop \/ LoopDeletes
  <2>1. UNCHANGED stage /\ stage \notin {"closed", "gone"}
    BY <1>6, <1>15 DEF ApplyError, Dispatched, Drop, LoopDeletes
  <2> QED BY <1>2, <2>1
<1>16. ASSUME NEW v \in Data, Apply(v) PROVE Ends'
  <2>1. UNCHANGED stage /\ stage \notin {"closed", "gone"}
    BY <1>6, <1>16 DEF Apply
  <2> QED BY <1>2, <2>1
<1>17. ASSUME NEW h \in Own, OwnDrop(h) \/ \E v \in Data : OwnRef(h, v) PROVE Ends'
  BY <1>3, <1>17 DEF OwnDrop, OwnRef
<1>18. ASSUME NEW end \in {"clear", "destroy", "ending"}, Begin(end) PROVE Ends'
  BY <1>18 DEF Begin, Ends
<1>19. CASE Cleared
  <2>1. loop' = "free" /\ queue' = <<>> /\ stage' # "gone"
    BY <1>19 DEF Cleared
  <2> QED BY <2>1 DEF Ends
<1>20. CASE HeapEnds
  <2>1. /\ \A w \in Workers : ~HasData(w)'
        /\ \A h \in Own : uses'[h] = 0
        /\ UNCHANGED queue /\ UNCHANGED loop
        /\ stage' \in {"closed", "gone"} => stage = "closed"
    BY <1>20 DEF HeapEnds, HasData
  <2> QED BY <1>1, <2>1 DEF Ends
<1> QED
  BY <1>7, <1>8, <1>9, <1>10, <1>11, <1>12, <1>13, <1>14, <1>15, <1>16, <1>17, <1>18, <1>19,
     <1>20 DEF Next

\* Every Ref is deleted by the creator's thread, and before the heap ends unless the
\* loop object outlives it.
LEMMA StraysStep ==
  ASSUME LifetimesAssumption, LifeInv, [Next]_vars
  PROVE  /\ strays' \subseteq Handles
         /\ strays' = strays \/ stage = "heapless"
<1>1. LifeTypes /\ RefsInv /\ strays \subseteq Handles /\ uses \in [Handles -> Nat]
  BY DEF LifeInv, LifeTypes
<1>2. ASSUME NEW h \in Handles, NEW byCreator, ReleaseRef(h, byCreator),
             uses[h] > 0, refid[h] # NoRef, byCreator \/ uses[h] # 1
      PROVE  strays' \subseteq Handles /\ (strays' = strays \/ stage = "heapless")
  <2>1. \/ strays' = strays
        \/ strays' = strays \cup {h} /\ uses[h] = 1 /\ (~byCreator \/ stage = "heapless")
    BY <1>1, <1>2, ReleaseFacts
  <2> QED BY <1>1, <1>2, <2>1
<1>3. ASSUME UNCHANGED strays
      PROVE  strays' \subseteq Handles /\ (strays' = strays \/ stage = "heapless")
  BY <1>1, <1>3
<1>4. ASSUME NEW w \in Workers, PosterDeletes(w)
      PROVE  strays' \subseteq Handles /\ (strays' = strays \/ stage = "heapless")
  <2>1. /\ sent[w] \in Events /\ target[sent[w]] = w /\ HasData(w) /\ w # None /\ w \in Handles
    BY <1>4, SentFacts DEF PosterDeletes, LifetimesAssumption
  <2>2. refid[w] # NoRef /\ uses[w] >= In(HasData(w)) + 1 + Twice(Dispatching(w))
    BY <2>1, TargetFacts
  <2>3. In(HasData(w)) = 1 /\ Twice(Dispatching(w)) \in {0, 2} /\ uses[w] \in Nat
    BY <1>1, <2>1 DEF In, Twice
  <2>4. uses[w] > 0 /\ uses[w] # 1
    BY <2>2, <2>3
  <2>5. ReleaseRef(w, PostsFromCreator(w))
    BY <1>4, <2>1 DEF PosterDeletes, DeleteEvent
  <2> QED BY <1>1, <2>1, <2>4, <2>5 DEF ReleaseRef
<1>5. CASE LoopDeletes
  <2>1. cur \in Events /\ target[cur] \in Workers /\ ReleaseRef(target[cur], TRUE)
    BY <1>5, CurFacts DEF LoopDeletes, DeleteEvent
  <2>2. PICK r \in Workers : r = target[cur]
    BY <2>1
  <2>3. r \in Handles /\ r # None
    BY DEF LifetimesAssumption
  <2>4. refid[r] # NoRef
    BY <2>1, <2>2, <2>3, TargetFacts
  <2>5. uses[r] > 0
    BY <2>4 DEF LifeInv, RefOK
  <2> QED BY <1>2, <2>1, <2>2, <2>3, <2>4, <2>5
<1>6. ASSUME NEW w \in Workers, Finalize(w)
      PROVE  strays' \subseteq Handles /\ (strays' = strays \/ stage = "heapless")
  <2>1. RefOK(w) /\ HasData(w) /\ w \in Handles /\ ReleaseRef(w, TRUE)
    BY <1>6 DEF LifeInv, Finalize, HasData, LifetimesAssumption
  <2>2. /\ Cardinality(Referring(w)) \in Nat /\ Twice(Dispatching(w)) \in {0, 2}
        /\ In(HasData(w)) = 1
    BY <2>1, ReferringFinite DEF In
  <2>3. uses[w] = In(HasData(w)) + Cardinality(Referring(w)) + Twice(Dispatching(w))
    BY <2>1 DEF RefOK
  <2>4. uses[w] > 0
    BY <2>2, <2>3
  <2>5. refid[w] # NoRef
    BY <2>1, <2>4 DEF RefOK
  <2> QED BY <1>2, <2>1, <2>4, <2>5
<1>7. ASSUME NEW h \in Own, OwnDrop(h)
      PROVE  strays' \subseteq Handles /\ (strays' = strays \/ stage = "heapless")
  <2>1. h \in Handles /\ OtherRefOK(h) /\ uses[h] = 1 /\ ReleaseRef(h, TRUE)
    BY <1>7 DEF LifeInv, Own, OwnDrop
  <2>2. uses[h] > 0
    BY <2>1
  <2>3. refid[h] # NoRef
    BY <2>1, <2>2 DEF OtherRefOK
  <2> QED BY <1>2, <2>1, <2>2, <2>3
<1>8. ASSUME NEW w \in Workers,
             \/ \E x \in Events : MakeEvent(w, x)
             \/ Enqueue(w) \/ LetGo(w) \/ Construct(w) \/ LoadReturns(w)
      PROVE  UNCHANGED strays
  BY <1>8 DEF MakeEvent, Enqueue, LetGo, Construct, LoadReturns
<1>9. ASSUME \/ Take \/ ApplyError \/ Dispatched \/ Drop \/ ClearOne \/ Cleared \/ HeapEnds
             \/ UNCHANGED vars
      PROVE  UNCHANGED strays
  BY <1>9 DEF Take, ApplyError, Dispatched, Drop, ClearOne, Cleared, HeapEnds, vars
<1>10. ASSUME NEW v \in Data, Apply(v) \/ \E h \in Own : OwnRef(h, v) PROVE UNCHANGED strays
  BY <1>10 DEF Apply, OwnRef
<1>11. ASSUME NEW end, Begin(end) PROVE UNCHANGED strays
  BY <1>11 DEF Begin
<1> QED BY <1>3, <1>4, <1>5, <1>6, <1>7, <1>8, <1>9, <1>10, <1>11 DEF Next

\* Every variable keeps its type, and a worker has an event while it posts.
LEMMA TypesStep ==
  ASSUME LifetimesAssumption, LifeInv, [Next]_vars
  PROVE  LifeTypes'
<1>1. LifeTypes /\ uses' \in [Handles -> Nat] /\ strays' \subseteq Handles
  BY RefsGoStep, StraysStep DEF LifeInv, RefsGo
<1>2. /\ count \in [Events -> Nat] /\ target \in [Events -> Workers \cup {None}]
      /\ queue \in Seq(Events) /\ cur \in Events \cup {None} /\ (cur = None <=> loop = "free")
      /\ loop \in {"free", "apply", "dispatch", "drop", "delete"}
      /\ at \in [Workers -> {"none", "loading", "runs", "ended"}]
      /\ post \in [Workers -> {"no", "queue", "drop", "delete"}]
      /\ sent \in [Workers -> Events \cup {None}]
      /\ \A w \in Workers : sent[w] = None <=> post[w] = "no"
      /\ stage \in {"open", "clear", "destroy", "closed", "gone", "ending", "heapless"}
  BY <1>1 DEF LifeTypes
<1>3. None \notin Events /\ None \notin Workers
  BY DEF LifetimesAssumption
<1> DEFINE LoopTypes == /\ loop \in {"free", "apply", "dispatch", "drop", "delete"}
                        /\ cur \in Events \cup {None} /\ (cur = None <=> loop = "free")
           PostTypes == /\ post \in [Workers -> {"no", "queue", "drop", "delete"}]
                        /\ sent \in [Workers -> Events \cup {None}]
                        /\ \A w \in Workers : sent[w] = None <=> post[w] = "no"
           Stages == {"open", "clear", "destroy", "closed", "gone", "ending", "heapless"}
<1>4. ASSUME count' \in [Events -> Nat], target' \in [Events -> Workers \cup {None}],
             queue' \in Seq(Events), stage' \in Stages, LoopTypes',
             at' \in [Workers -> {"none", "loading", "runs", "ended"}], PostTypes'
      PROVE  LifeTypes'
  BY <1>1, <1>4 DEF LifeTypes
<1>5. /\ UNCHANGED target => target' \in [Events -> Workers \cup {None}]
      /\ UNCHANGED count => count' \in [Events -> Nat]
      /\ UNCHANGED queue => queue' \in Seq(Events)
      /\ UNCHANGED stage => stage' \in Stages
      /\ UNCHANGED <<loop, cur>> => LoopTypes'
      /\ UNCHANGED at => at' \in [Workers -> {"none", "loading", "runs", "ended"}]
      /\ UNCHANGED <<post, sent>> => PostTypes'
  BY <1>2
<1>6. ASSUME NEW w \in Workers, NEW p \in {"no", "queue", "drop", "delete"},
             NEW s \in Events \cup {None}, s = None <=> p = "no",
             post' = [post EXCEPT ![w] = p], sent' = [sent EXCEPT ![w] = s]
      PROVE  PostTypes'
  BY <1>2, <1>6
<1> HIDE DEF LoopTypes, PostTypes, Stages
<1>7. ASSUME NEW w \in Workers, NEW x \in Events, MakeEvent(w, x) PROVE LifeTypes'
  <2>1. /\ target' = [target EXCEPT ![x] = w] /\ count' = [count EXCEPT ![x] = 1]
        /\ post' = [post EXCEPT ![w] = "queue"] /\ sent' = [sent EXCEPT ![w] = x]
        /\ UNCHANGED queue /\ UNCHANGED stage /\ UNCHANGED <<loop, cur>> /\ UNCHANGED at
    BY <1>7 DEF MakeEvent
  <2>2. PostTypes'
    BY <1>3, <1>6, <2>1
  <2>3. count' \in [Events -> Nat] /\ target' \in [Events -> Workers \cup {None}]
    BY <1>2, <2>1
  <2> QED BY <1>4, <1>5, <2>1, <2>2, <2>3
<1>8. ASSUME NEW w \in Workers, Enqueue(w) PROVE LifeTypes'
  <2>1. /\ queue' = Append(queue, sent[w]) /\ count' = [count EXCEPT ![sent[w]] = @ + 1]
        /\ post' = [post EXCEPT ![w] = "drop"] /\ post[w] = "queue" /\ sent' = sent
        /\ UNCHANGED target /\ UNCHANGED stage /\ UNCHANGED <<loop, cur>> /\ UNCHANGED at
    BY <1>8 DEF Enqueue
  <2>2. sent[w] \in Events /\ sent[w] # None
    BY <1>3, <2>1, SentFacts
  <2>3. sent' = [sent EXCEPT ![w] = sent[w]]
    BY <1>2, <2>1
  <2>4. PostTypes'
    BY <1>6, <2>1, <2>2, <2>3
  <2>5. count' \in [Events -> Nat] /\ queue' \in Seq(Events)
    BY <1>2, <2>1, <2>2, AppendFacts
  <2> QED BY <1>4, <1>5, <2>1, <2>4, <2>5
<1>9. ASSUME NEW w \in Workers, LetGo(w) PROVE LifeTypes'
  <2>1. /\ count' = [count EXCEPT ![sent[w]] = @ - 1] /\ post[w] = "drop"
        /\ IF count[sent[w]] = 1
           THEN post' = [post EXCEPT ![w] = "delete"] /\ sent' = sent
           ELSE post' = [post EXCEPT ![w] = "no"] /\ sent' = [sent EXCEPT ![w] = None]
        /\ UNCHANGED target /\ UNCHANGED queue /\ UNCHANGED stage
        /\ UNCHANGED <<loop, cur>> /\ UNCHANGED at
    BY <1>9 DEF LetGo
  <2>2. sent[w] \in Events /\ sent[w] # None /\ count[sent[w]] > 0
    BY <1>3, <2>1, SentFacts
  <2>3. sent = [sent EXCEPT ![w] = sent[w]]
    BY <1>2
  <2>4. PostTypes'
    BY <1>6, <2>1, <2>2, <2>3
  <2>5. count' \in [Events -> Nat]
    BY <1>2, <2>1, <2>2
  <2> QED BY <1>4, <1>5, <2>1, <2>4, <2>5
<1>10. ASSUME NEW w \in Workers, PosterDeletes(w) PROVE LifeTypes'
  <2>1. /\ target' = [target EXCEPT ![sent[w]] = None]
        /\ post' = [post EXCEPT ![w] = "no"] /\ sent' = [sent EXCEPT ![w] = None]
        /\ UNCHANGED count /\ UNCHANGED queue /\ UNCHANGED stage
        /\ UNCHANGED <<loop, cur>> /\ UNCHANGED at
    BY <1>10 DEF PosterDeletes, DeleteEvent
  <2>2. PostTypes'
    BY <1>6, <2>1
  <2>3. target' \in [Events -> Workers \cup {None}]
    BY <1>2, <2>1
  <2> QED BY <1>4, <1>5, <2>1, <2>2, <2>3
<1>11. ASSUME NEW w \in Workers, Construct(w) \/ LoadReturns(w) \/ Finalize(w)
       PROVE  LifeTypes'
  <2>1. /\ \E a \in {"loading", "runs", "ended"} : at' = [at EXCEPT ![w] = a]
        /\ UNCHANGED target /\ UNCHANGED count /\ UNCHANGED queue /\ UNCHANGED stage
        /\ UNCHANGED <<loop, cur>> /\ UNCHANGED <<post, sent>>
    BY <1>11 DEF Construct, LoadReturns, Finalize
  <2>2. at' \in [Workers -> {"none", "loading", "runs", "ended"}]
    BY <1>2, <2>1
  <2> QED BY <1>4, <1>5, <2>1, <2>2
<1>12. CASE Take \/ ClearOne
  <2>1. /\ queue # <<>> /\ cur' = Head(queue) /\ queue' = Tail(queue)
        /\ loop' \in {"apply", "drop"}
        /\ UNCHANGED target /\ UNCHANGED count /\ UNCHANGED stage
        /\ UNCHANGED <<post, sent>> /\ UNCHANGED at
    BY <1>12 DEF Take, ClearOne
  <2>2. cur' \in Events /\ queue' \in Seq(Events)
    BY <1>2, <2>1, TailFacts
  <2>3. LoopTypes'
    BY <1>3, <2>1, <2>2 DEF LoopTypes
  <2> QED BY <1>4, <1>5, <2>1, <2>2, <2>3
<1>13. ASSUME ApplyError \/ Dispatched \/ \E v \in Data : Apply(v) PROVE LifeTypes'
  <2>1. /\ loop \in {"apply", "dispatch"} /\ loop' \in {"dispatch", "drop"} /\ cur' = cur
        /\ UNCHANGED target /\ UNCHANGED count /\ UNCHANGED queue /\ UNCHANGED stage
        /\ UNCHANGED <<post, sent>> /\ UNCHANGED at
    BY <1>13 DEF ApplyError, Dispatched, Apply
  <2>2. LoopTypes'
    BY <1>2, <2>1 DEF LoopTypes
  <2> QED BY <1>4, <1>5, <2>1, <2>2
<1>14. CASE Drop
  <2>1. /\ loop = "drop" /\ count' = [count EXCEPT ![cur] = @ - 1]
        /\ \/ loop' = "delete" /\ cur' = cur
           \/ loop' = "free" /\ cur' = None
        /\ UNCHANGED target /\ UNCHANGED queue /\ UNCHANGED stage
        /\ UNCHANGED <<post, sent>> /\ UNCHANGED at
    BY <1>14 DEF Drop
  <2>2. cur \in Events /\ count[cur] > 0
    BY <2>1, CurFacts
  <2>3. count' \in [Events -> Nat]
    BY <1>2, <2>1, <2>2
  <2>4. LoopTypes'
    BY <1>3, <2>1, <2>2 DEF LoopTypes
  <2> QED BY <1>4, <1>5, <2>1, <2>3, <2>4
<1>15. CASE LoopDeletes
  <2>1. /\ loop' = "free" /\ cur' = None /\ target' = [target EXCEPT ![cur] = None]
        /\ UNCHANGED count /\ UNCHANGED queue /\ UNCHANGED stage
        /\ UNCHANGED <<post, sent>> /\ UNCHANGED at
    BY <1>15 DEF LoopDeletes, DeleteEvent
  <2>2. LoopTypes'
    BY <2>1 DEF LoopTypes
  <2>3. target' \in [Events -> Workers \cup {None}]
    BY <1>2, <2>1
  <2> QED BY <1>4, <1>5, <2>1, <2>2, <2>3
<1>16. ASSUME Cleared \/ HeapEnds \/ \E end \in {"clear", "destroy", "ending"} : Begin(end)
       PROVE  LifeTypes'
  <2>1. /\ stage' \in Stages
        /\ UNCHANGED target /\ UNCHANGED count /\ UNCHANGED queue
        /\ UNCHANGED <<loop, cur>> /\ UNCHANGED <<post, sent>> /\ UNCHANGED at
    BY <1>16 DEF Cleared, HeapEnds, Begin, Stages
  <2> QED BY <1>4, <1>5, <2>1
<1>17. ASSUME \/ \E v \in Data : \E h \in Own : OwnRef(h, v)
              \/ \E h \in Own : OwnDrop(h)
              \/ UNCHANGED vars
       PROVE  LifeTypes'
  <2>1. /\ UNCHANGED target /\ UNCHANGED count /\ UNCHANGED queue /\ UNCHANGED stage
        /\ UNCHANGED <<loop, cur>> /\ UNCHANGED <<post, sent>> /\ UNCHANGED at
    BY <1>17 DEF OwnRef, OwnDrop, vars
  <2> QED BY <1>4, <1>5, <2>1
<1> QED
  BY <1>7, <1>8, <1>9, <1>10, <1>11, <1>12, <1>13, <1>14, <1>15, <1>16, <1>17 DEF Next

-----------------------------------------------------------------------------
LEMMA LifeInit ==
  ASSUME LifetimesAssumption, Init
  PROVE  LifeInv
<1>1. RefsInv
  BY InitOK DEF Init
<1>2. LifeTypes
  BY DEF Init, LifeTypes
<1>3. ASSUME NEW e \in Events PROVE EventOK(e)
  <2>1. Posting(e) = {} /\ Queued(e) = {}
    BY DEF Init, Posting, Queued
  <2>2. ~InHands(e) /\ ~LoopDeleting(e) /\ ~PosterDeleting(e)
    BY DEF Init, InHands, LoopDeleting, PosterDeleting, LifetimesAssumption
  <2>3. count[e] = 0 /\ target[e] = None
    BY DEF Init
  <2> QED BY <2>1, <2>2, <2>3, FS_EmptySet DEF EventOK, In
<1>4. ASSUME NEW w \in Workers PROVE Sending(w) /\ RefOK(w)
  <2>1. Referring(w) = {}
    BY DEF Init, Referring, LifetimesAssumption
  <2>2. ~HasData(w) /\ ~Dispatching(w) /\ post[w] = "no"
    BY DEF Init, HasData, Dispatching
  <2>3. uses[w] = 0 /\ refid[w] = NoRef
    BY DEF Init, RefsInit, LifetimesAssumption
  <2> QED BY <2>1, <2>2, <2>3, FS_EmptySet DEF Sending, RefOK, In, Twice
<1>5. ASSUME NEW h \in Handles PROVE OtherRefOK(h)
  BY DEF Init, RefsInit, OtherRefOK
<1>6. Ends
  BY DEF Init, Ends
<1> QED BY <1>1, <1>2, <1>3, <1>4, <1>5, <1>6 DEF LifeInv

LEMMA LifeStep ==
  ASSUME LifetimesAssumption, LifeInv, [Next]_vars
  PROVE  LifeInv'
<1>1. LifeTypes' /\ RefsGo /\ Ends'
  BY TypesStep, RefsGoStep, EndsStep
<1>2. \A e \in Events : EventOK(e)'
  BY CountsStep
<1>3. \A w \in Workers : Sending(w)'
  BY SendingStep
<1> QED BY <1>1, <1>2, <1>3 DEF LifeInv, RefsGo, RefsCorrect

LEMMA LifeInvariant == Spec => []LifeInv
<1>1. LifetimesAssumption
  BY LifetimesAssumption
<1>2. Init => LifeInv
  BY <1>1, LifeInit
<1>3. LifeInv /\ [Next]_vars => LifeInv'
  BY <1>1, LifeStep
<1> QED BY <1>2, <1>3, PTL DEF Spec

-----------------------------------------------------------------------------
(* The theorems                                                            *)

\* Every variable keeps its type, no count goes below zero, and no pointer dangles:
\* what is queued, served or in the hands of a worker that posts is there until
\* its holder lets go, and nobody deletes an event that another one deletes.
THEOREM LifetimesTypesCorrect == Spec => []TypeOK
<1>1. ASSUME LifeInv PROVE TypeOK
  <2>1. RefsTypeOK /\ LifeTypes
    BY <1>1 DEF LifeInv, RefsInv
  <2>2. ASSUME NEW i \in 1..Len(queue) PROVE target[queue[i]] # None
    <3>1. queue[i] \in Events /\ count[queue[i]] > 0
      BY <1>1, QueueFacts, LifetimesAssumption
    <3>2. PICK e \in Events : e = queue[i]
      BY <3>1
    <3>3. EventOK(e)
      BY <1>1 DEF LifeInv
    <3> QED BY <3>1, <3>2, <3>3 DEF EventOK
  <2>3. cur # None => target[cur] # None
    <3>1. cur # None => loop # "free"
      BY <2>1 DEF LifeTypes
    <3>2. loop # "free" => target[cur] \in Workers
      BY <1>1, CurFacts, LifetimesAssumption
    <3> QED BY <3>1, <3>2, LifetimesAssumption DEF LifetimesAssumption
  <2>4. ASSUME NEW w \in Workers, sent[w] # None PROVE target[sent[w]] = w
    <3>1. post[w] # "no"
      BY <2>1, <2>4 DEF LifeTypes
    <3> QED BY <1>1, <3>1, SentFacts, LifetimesAssumption
  <2> QED BY <2>1, <2>2, <2>3, <2>4 DEF LifeTypes, TypeOK
<1> QED BY <1>1, LifeInvariant, PTL

\* The count of an event is the number of its holders, whichever of the poster and
\* the loop lets go first, and the event is there until one thread deletes it.
THEOREM EventsCountedCorrectly == Spec => []EventsCounted
<1>1. ASSUME LifeInv, NEW e \in Events
      PROVE  /\ count[e] = Cardinality(Posting(e)) + Cardinality(Queued(e))
                             + Cardinality(InLoop(e))
             /\ (target[e] # None /\ count[e] = 0) <=>
                  \/ cur = e /\ loop = "delete"
                  \/ \E w \in Workers : sent[w] = e /\ post[w] = "delete"
             /\ count[e] > 0 => target[e] # None
  <2>1. EventOK(e) /\ count[e] \in Nat
    BY <1>1 DEF LifeInv, LifeTypes
  <2>2. CASE InHands(e)
    <3>1. InLoop(e) = {loop} /\ In(InHands(e)) = 1
      BY <2>2 DEF InHands, InLoop, In
    <3>2. Cardinality({loop}) = 1
      BY FS_Singleton
    <3> QED BY <2>1, <3>1, <3>2 DEF EventOK, LoopDeleting, PosterDeleting
  <2>3. CASE ~InHands(e)
    <3>1. InLoop(e) = {} /\ In(InHands(e)) = 0
      BY <2>3 DEF InHands, InLoop, In
    <3>2. Cardinality({}) = 0
      BY FS_EmptySet
    <3> QED BY <2>1, <3>1, <3>2 DEF EventOK, LoopDeleting, PosterDeleting
  <2> QED BY <2>2, <2>3
<1>2. LifeInv => EventsCounted
  BY <1>1 DEF EventsCounted
<1> QED BY <1>2, LifeInvariant, PTL

\* The count of a Worker's Ref is the number of what refers to it, and it has its
\* slot exactly while that is not zero.
THEOREM RefsCountedCorrectly == Spec => []RefsCounted
<1>1. LifeInv => RefsCounted
  BY DEF LifeInv, RefOK, RefsCounted, In, Twice, HasData, Dispatching
<1> QED BY <1>1, LifeInvariant, PTL

\* However slots are given back and used again, an event in anyone's hands is about
\* the Worker whose script posted it.
THEOREM EventsFindTheirWorker == Spec => []TargetIsSender
<1>1. ASSUME LifeInv, NEW e \in Events, target[e] # None
      PROVE  refid[target[e]] # NoRef /\ duv_push_ref(refid[target[e]]) = target[e]
  <2>1. /\ target[e] \in Workers /\ refid[target[e]] # NoRef
        /\ Stored[target[e]] = target[e]
    BY <1>1, LifetimesAssumption, TargetFacts
  <2>2. target[e] \in Handles
    BY <2>1, LifetimesAssumption DEF LifetimesAssumption
  <2> QED BY <2>1, <2>2 DEF Stored
<1>2. LifeInv => TargetIsSender
  BY <1>1 DEF TargetIsSender
<1> QED BY <1>2, LifeInvariant, PTL

\* Until an application ends its heap before its loop object, every Ref is deleted
\* by the creator's thread, and while its slot is there.
THEOREM RefsDeletedAtHome == Spec => []RefsDieAtHome
<1>1. Init => RefsDieAtHome
  BY DEF Init, RefsDieAtHome
<1>2. LifeInv /\ RefsDieAtHome /\ [Next]_vars => RefsDieAtHome'
  <2> SUFFICES ASSUME LifeInv, RefsDieAtHome, [Next]_vars, stage' # "heapless"
               PROVE  strays' = {}
    BY DEF RefsDieAtHome
  <2>1. strays' = strays \/ stage = "heapless"
    BY LifetimesAssumption, StraysStep
  <2>2. stage = "heapless" => stage' = stage
    BY DEF Next, vars, MakeEvent, Enqueue, LetGo, PosterDeletes, Construct, LoadReturns, Finalize,
           Take, ApplyError, Dispatched, Drop, LoopDeletes, ClearOne, Cleared, HeapEnds, Apply,
           OwnRef, OwnDrop, Begin
  <2> QED BY <2>1, <2>2 DEF RefsDieAtHome
<1> QED BY <1>1, <1>2, LifeInvariant, PTL DEF Spec

\* A free list that holds every slot is as long as the array.
LEMMA AllFree ==
  ASSUME RefsInv, \A h \in Handles : refid[h] = NoRef
  PROVE  Len(free) = Len(refs) - 1
<1>1. /\ free \in Seq(Slots) /\ Len(free) \in Nat /\ Len(refs) \in Nat \ {0}
      /\ IsInjective(free) /\ Range(free) \cup Taken = Slots
  BY DEF RefsInv, RefsTypeOK, FreeListExact
<1>2. Taken = {}
  BY DEF Taken
<1>3. Range(free) = {free[j] : j \in 1..Len(free)}
  BY <1>1, RangeIsImage
<1>4. \A s \in Slots : \E j \in 1..Len(free) : free[j] = s
  BY <1>1, <1>2, <1>3
<1>5. free \in [1..Len(free) -> Slots] /\ DOMAIN free = 1..Len(free)
  BY <1>1
<1>6. ExistsBijection(1..Len(free), Slots)
  BY <1>1, <1>4, <1>5 DEF ExistsBijection, Bijection, Injection, Surjection, IsInjective
<1>7. ASSUME NEW n \in Nat PROVE IsFiniteSet(1..n) /\ Cardinality(1..n) = n
  <2>1. IsFiniteSet(1..n) /\ Cardinality(1..n) = IF 1 > n THEN 0 ELSE n - 1 + 1
    BY FS_Interval
  <2> QED BY <2>1
<1>8. /\ IsFiniteSet(1..Len(free)) /\ Cardinality(1..Len(free)) = Len(free)
      /\ Cardinality(1..(Len(refs) - 1)) = Len(refs) - 1
  <2>1. Len(refs) - 1 \in Nat
    BY <1>1
  <2> QED BY <1>1, <1>7, <2>1
<1> QED BY <1>6, <1>8, FS_Bijection DEF Slots

\* When the heap ended after the loop object nothing is left of either: the events
\* and references were all let go, and every slot was given back.
THEOREM NothingLeft == Spec => []AllReclaimed
<1>1. ASSUME LifeInv, stage = "gone"
      PROVE  /\ \A e \in Events : target[e] = None
             /\ \A h \in Handles : uses[h] = 0 /\ refid[h] = NoRef
             /\ Len(free) = Len(refs) - 1
  <2>1. /\ queue = <<>> /\ loop = "free" /\ cur = None
        /\ \A w \in Workers : ~HasData(w) /\ post[w] = "no"
        /\ \A h \in Own : uses[h] = 0
    BY <1>1 DEF LifeInv, LifeTypes, Ends, Sending, HasData
  <2>2. /\ uses \in [Handles -> Nat] /\ count \in [Events -> Nat]
        /\ Workers \subseteq Handles /\ Mref \in Handles /\ None \notin Events
    BY <1>1, LifetimesAssumption DEF LifeInv, LifeTypes, LifetimesAssumption
  <2>3. ASSUME NEW e \in Events PROVE target[e] = None
    <3>1. Posting(e) = {} /\ Queued(e) = {}
      BY <2>1 DEF Posting, Queued
    <3>2. ~InHands(e) /\ ~LoopDeleting(e) /\ ~PosterDeleting(e)
      BY <2>1, <2>2 DEF InHands, LoopDeleting, PosterDeleting
    <3>3. EventOK(e)
      BY <1>1 DEF LifeInv
    <3>4. count[e] = 0
      BY <3>1, <3>2, <3>3, FS_EmptySet DEF EventOK, In
    <3> QED BY <3>2, <3>3, <3>4 DEF EventOK
  <2>4. ASSUME NEW w \in Workers PROVE uses[w] = 0 /\ refid[w] = NoRef
    <3>1. Referring(w) = {} /\ ~HasData(w) /\ ~Dispatching(w)
      BY <2>1, <2>3, LifetimesAssumption DEF Referring, Dispatching, LifetimesAssumption
    <3>2. RefOK(w)
      BY <1>1 DEF LifeInv
    <3> QED BY <3>1, <3>2, FS_EmptySet DEF RefOK, In, Twice
  <2>5. ASSUME NEW h \in Handles \ Workers PROVE uses[h] = 0 /\ refid[h] = NoRef
    <3>1. OtherRefOK(h) /\ uses[h] \in Nat
      BY <1>1, <2>2 DEF LifeInv
    <3>2. CASE h = Mref
      BY <2>1, <3>1, <3>2 DEF OtherRefOK
    <3>3. CASE h # Mref
      BY <2>1, <3>1, <3>3 DEF OtherRefOK, Own
    <3> QED BY <3>2, <3>3
  <2>6. Len(free) = Len(refs) - 1
    BY <1>1, <2>4, <2>5, AllFree DEF LifeInv
  <2> QED BY <2>3, <2>4, <2>5, <2>6
<1>2. LifeInv => AllReclaimed
  BY <1>1 DEF AllReclaimed
<1> QED BY <1>2, LifeInvariant, PTL

-----------------------------------------------------------------------------
(* What is proved of Refs holds of the references of this program.         *)

\* Between all these threads the references take the steps that Refs allows them
\* and no others: one Ref is made or deleted at a time, a deleted one had a slot.
THEOREM ReferencesAreRefs == Spec => RefsSpec
<1>1. Init => RefsInit
  BY DEF Init
<1>2. LifeInv /\ [Next]_vars => [RefsNext]_refVars
  BY LifetimesAssumption, RefsGoStep DEF RefsGo
<1> QED BY <1>1, <1>2, LifeInvariant, PTL DEF Spec, RefsSpec

\* No slot of the heap's array is lost or given to two references.
THEOREM SlotsSharedOut == Spec => []FreeListExact
BY ReferencesAreRefs, FreeListCorrect, PTL

\* A reference pushes the value it was made from until it is deleted.
THEOREM ReferencesKeepValues == Spec => KeepsValues
BY ReferencesAreRefs, ValuesKept, PTL

\* The array grows only when every slot is in use.
THEOREM ReferencesGrowWhenFull == Spec => GrowsWhenFull
BY ReferencesAreRefs, GrowthBounded, PTL
=============================================================================
