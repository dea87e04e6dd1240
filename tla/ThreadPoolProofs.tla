-------------------------- MODULE ThreadPoolProofs --------------------------
(***************************************************************************)
(* Theorems about ThreadPool, for any tasks, pushers and number of         *)
(* threads: where a task may be, that no worker sleeps over one, and what  *)
(* has become of the tasks when the destructor returns.                    *)
(***************************************************************************)
EXTENDS ThreadPool, SequenceFacts, FiniteSetTheorems

USE PoolAssumption

-----------------------------------------------------------------------------
(* The inductive invariant                                                 *)

\* Threads are numbered in the order they are started in.
StartedInOrder == \E n \in 0..MaxThreads : Started = 1..n

PoolInv == TypeOK /\ StartedInOrder

\* Those who have queued a task and will notify, and the workers on their way to
\* look into the queue.
Notifying == {p \in Pushers \cup Threads : pushing[p] # NoTask}
Looking == {t \in Threads : at[t] \in {"begin", "lock"}}
Asleep == {t \in Threads : at[t] = "wait"}

\* Tasks that came since a worker has found the queue empty have pushers that want
\* the mutex; while it sleeps, each is matched by one of these or by a worker
\* that was woken for it, or for another one that it did not find.
Matched ==
  /\ IsFiniteSet(Notifying)
  /\ Holders # {} => Len(q) <= Cardinality(Notifying)
  /\ Asleep # {} => Len(q) <= Cardinality(Notifying) + Cardinality(Looking)

\* A thread that has finished although nobody detached it.
Left == {t \in Threads : at[t] = "exit" /\ ~flags[t]}

\* A worker leaves the pool if it was told to; if by stop(true), then after it has
\* found that of the tasks promised by then none is in the queue.
Stopping ==
  /\ isDone <=> owner \in {"notify", "join", "gone"}
  /\ owner \in {"idle", "shrink"} => promised = {}
  /\ owner = "gone" => q = <<>> /\ threads = <<>>
  /\ promised \subseteq pushed
  /\ Left # {} => isDone
  /\ \A t \in Started : ~flags[t] => t \in Range(threads) \cup Left
  /\ Holders # {} => Range(q) \subseteq Range(pushing)
  /\ Holders \cup Left # {} => promised \cap Range(q) = {}
  /\ (\E t \in Started : ~flags[t]) => promised \cap dropped = {}

-----------------------------------------------------------------------------
(* Types                                                                   *)

\* Taking the front of the queue, or finding it empty.
LEMMA PopOrTypes ==
  ASSUME TypeOK, NEW t \in Threads, NEW other, PopOr(t, other)
  PROVE  \/ /\ q = <<>> /\ q' = q /\ task' = task
            /\ at' = [at EXCEPT ![t] = other]
         \/ /\ q # <<>> /\ q' = Tail(q) /\ q' \in Seq(Tasks) /\ Len(q') = Len(q) - 1
            /\ Len(q) \in Nat /\ Len(q') \in Nat
            /\ Head(q) \in Tasks /\ Head(q) # NoTask
            /\ Range(q) = Range(q') \cup {Head(q)}
            /\ task' = [task EXCEPT ![t] = Head(q)]
            /\ at' = [at EXCEPT ![t] = "run"]
<1>1. q \in Seq(Tasks)
  BY DEF TypeOK
<1>2. CASE q = <<>>
  BY <1>2 DEF PopOr
<1>3. CASE q # <<>>
  <2>1. /\ Head(q) \in Tasks /\ Len(q) \in Nat \ {0}
        /\ Tail(q) \in Seq(Tasks) /\ Len(Tail(q)) = Len(q) - 1
        /\ Range(q) = Range(Tail(q)) \cup {Head(q)}
    BY <1>1, <1>3, TailFacts
  <2>2. /\ at' = [at EXCEPT ![t] = "run"]
        /\ task' = [task EXCEPT ![t] = Head(q)] /\ q' = Tail(q)
    BY <1>3 DEF PopOr
  <2>3. /\ q' \in Seq(Tasks) /\ Len(q') = Len(q) - 1
        /\ Range(q) = Range(q') \cup {Head(q)}
    BY <2>1, <2>2
  <2>4. Len(q) \in Nat /\ Len(q') \in Nat /\ Head(q) \in Tasks /\ Head(q) # NoTask
    BY <2>1, <2>3
  <2> QED BY <1>3, <2>2, <2>3, <2>4
<1> QED BY <1>2, <1>3

\* Of the threads that resize() starts, none was started before.
LEMMA GrowFacts ==
  ASSUME TypeOK, StartedInOrder, NEW n \in 0..MaxThreads, Grow(n)
  PROVE  \E s \in 0..MaxThreads, k \in 1..MaxThreads :
           /\ Started = 1..s /\ s + k <= MaxThreads
           /\ threads' = threads \o [i \in 1..k |-> s + i]
           /\ at' = [t \in Threads |-> IF t \in (s + 1)..(s + k) THEN "begin" ELSE at[t]]
           /\ \A t \in (s + 1)..(s + k) : t \in Threads /\ at[t] = "none"
<1>1. PICK s \in 0..MaxThreads : Started = 1..s
  BY DEF StartedInOrder
<1>2. Cardinality(Started) = s
  <2>1. Cardinality(1..s) = IF 1 > s THEN 0 ELSE s - 1 + 1
    BY FS_Interval
  <2> QED BY <1>1, <2>1
<1>3. Len(threads) \in Nat
  BY DEF TypeOK
<1>4. PICK k : k = n - Len(threads)
  OBVIOUS
<1>5. k \in Int /\ k > 0 /\ s + k <= MaxThreads
  BY <1>2, <1>3, <1>4 DEF Grow
<1>6. k \in 1..MaxThreads
  BY <1>5
<1>7. /\ threads' = threads \o [i \in 1..k |-> s + i]
      /\ at' = [t \in Threads |-> IF t \in (s + 1)..(s + k) THEN "begin" ELSE at[t]]
  BY <1>2, <1>4 DEF Grow
<1>8. \A t \in (s + 1)..(s + k) : t \in Threads /\ t \notin 1..s
  BY <1>5 DEF Threads
<1>9. \A t \in (s + 1)..(s + k) : t \in Threads /\ at[t] = "none"
  BY <1>1, <1>8 DEF Started
<1> QED BY <1>1, <1>5, <1>6, <1>7, <1>9

LEMMA GrowRange ==
  ASSUME NEW s \in 0..MaxThreads, NEW k \in 1..MaxThreads, s + k <= MaxThreads,
         NEW old \in Seq(Threads)
  PROVE  Range(old \o [i \in 1..k |-> s + i]) = Range(old) \cup (s + 1)..(s + k)
<1>1. PICK new : new = [i \in 1..k |-> s + i]
  OBVIOUS
<1>2. new \in Seq(Threads) /\ Len(new) = k /\ \A i \in 1..k : new[i] = s + i
  BY <1>1 DEF Threads
<1>3. Range(old \o new) = Range(old) \cup Range(new)
  BY <1>2, ConcatFacts
<1>4. Range(new) = {new[j] : j \in 1..k}
  BY <1>2, RangeIsImage
<1>5. ASSUME NEW x \in (s + 1)..(s + k) PROVE x - s \in 1..k /\ new[x - s] = x
  BY <1>2
<1>6. Range(new) = (s + 1)..(s + k)
  BY <1>2, <1>4, <1>5
<1> QED BY <1>1, <1>3, <1>6

\* Starting threads keeps the types and the order, and who may hold the mutex.
LEMMA GrowTypes ==
  ASSUME PoolInv, NEW n \in 0..MaxThreads, Grow(n)
  PROVE  PoolInv'
<1>1. PICK s \in 0..MaxThreads, k \in 1..MaxThreads :
           /\ Started = 1..s /\ s + k <= MaxThreads
           /\ threads' = threads \o [i \in 1..k |-> s + i]
           /\ at' = [t \in Threads |-> IF t \in (s + 1)..(s + k) THEN "begin" ELSE at[t]]
           /\ \A t \in (s + 1)..(s + k) : t \in Threads /\ at[t] = "none"
  BY GrowFacts DEF PoolInv
<1>2. threads' \in Seq(Threads)
  <2>1. [i \in 1..k |-> s + i] \in Seq(Threads)
    BY <1>1 DEF Threads
  <2> QED BY <1>1, <2>1 DEF PoolInv, TypeOK
<1>3. at' \in [Threads -> {"none", "begin", "run", "check", "lock", "done", "flag",
                          "wait", "exit"}]
  BY <1>1 DEF PoolInv, TypeOK
<1>4. \A t \in Threads : task'[t] # NoTask <=> at'[t] = "run"
  BY <1>1 DEF PoolInv, TypeOK, Grow
<1>5. Holders' = Holders
  BY <1>1 DEF PoolInv, TypeOK, Holders
<1>6. Started' = 1..(s + k)
  <2>1. \A t \in Threads : at'[t] # "none" <=> t \in 1..s \/ t \in (s + 1)..(s + k)
    BY <1>1 DEF Started
  <2>2. \A t : t \in 1..(s + k) <=> t \in 1..s \/ t \in (s + 1)..(s + k)
    BY <1>1
  <2>3. \A t \in 1..(s + k) : t \in Threads
    BY <1>1 DEF Threads
  <2> QED BY <2>1, <2>2, <2>3 DEF Started
<1>7. s + k \in 0..MaxThreads
  BY <1>1
<1>8. StartedInOrder'
  BY <1>6, <1>7 DEF StartedInOrder
<1>9. TypeOK'
  BY <1>2, <1>3, <1>4, <1>5 DEF PoolInv, TypeOK, Grow
<1> QED BY <1>8, <1>9 DEF PoolInv

\* A step that starts no thread keeps the order.
LEMMA NobodyStarts ==
  ASSUME PoolInv, \A t \in Threads : at'[t] # "none" <=> at[t] # "none"
  PROVE  StartedInOrder'
BY DEF PoolInv, StartedInOrder, Started

\* ... by a worker on its way to look, which takes the mutex only if it is free.
LEMMA PopKeepsTypes ==
  ASSUME PoolInv, NEW t \in Threads, NEW other \in {"lock", "done"}, PopOr(t, other),
         at[t] \in {"begin", "lock"}, other = "done" => MutexFree,
         UNCHANGED <<flags, isDone, pushing, ran, pushed, ownVars>>
  PROVE  PoolInv'
<1>1. TypeOK
  BY DEF PoolInv
<1>2. \A u \in Threads : at'[u] # "none" <=> at[u] # "none"
  BY <1>1, PopOrTypes DEF TypeOK
<1>3. CASE q = <<>>
  <2>1. q' = q /\ task' = task /\ at' = [at EXCEPT ![t] = other]
    BY <1>3 DEF PopOr
  <2>2. TypeOK'
    BY <1>1, <2>1 DEF TypeOK, Holders, MutexFree, ownVars
  <2> QED BY <1>2, <2>2, NobodyStarts DEF PoolInv
<1>4. CASE q # <<>>
  <2>1. /\ q' \in Seq(Tasks) /\ Head(q) \in Tasks /\ Head(q) # NoTask
        /\ task' = [task EXCEPT ![t] = Head(q)] /\ at' = [at EXCEPT ![t] = "run"]
    BY <1>1, <1>4, PopOrTypes
  <2>2. TypeOK'
    BY <1>1, <2>1 DEF TypeOK, Holders, ownVars
  <2> QED BY <1>2, <2>2, NobodyStarts DEF PoolInv
<1> QED BY <1>3, <1>4

\* Every step of the pool and of its users keeps the types.
LEMMA TypeStep == PoolInv /\ [Next]_vars => PoolInv'
<1> SUFFICES ASSUME PoolInv, [Next]_vars PROVE PoolInv'
  OBVIOUS
<1> USE DEF ownVars
<1>1. TypeOK /\ StartedInOrder
  BY DEF PoolInv
<1>2. ASSUME NEW p \in Pushers \cup Threads, NEW k \in Tasks, Push(p, k) PROVE PoolInv'
  <2>1. Append(q, k) \in Seq(Tasks)
    BY <1>1 DEF TypeOK
  <2>2. TypeOK'
    BY <1>1, <1>2, <2>1 DEF Push, TypeOK, Holders
  <2> QED BY <1>2, <2>2, NobodyStarts DEF Push, PoolInv
<1>3. ASSUME NEW p \in Pushers \cup Threads, PushNotify(p) PROVE PoolInv'
  <2>1. /\ at' \in [Threads -> {"none", "begin", "run", "check", "lock", "done", "flag",
                              "wait", "exit"}]
        /\ \A t \in Threads : at'[t] = at[t] \/ (at[t] = "wait" /\ at'[t] = "lock")
    BY <1>1, <1>3 DEF PushNotify, WakeOne, TypeOK
  <2>2. TypeOK'
    BY <1>1, <1>3, <2>1 DEF PushNotify, TypeOK, Holders
  <2> QED BY <2>1, <2>2, NobodyStarts DEF PoolInv
<1>4. ASSUME NEW t \in Threads, PopFirst(t) PROVE PoolInv'
  BY <1>4, PopKeepsTypes DEF PopFirst
<1>5. ASSUME NEW t \in Threads, RunTask(t) PROVE PoolInv'
  <2>1. TypeOK'
    BY <1>1, <1>5 DEF RunTask, TypeOK, Holders
  <2> QED BY <1>1, <1>5, <2>1, NobodyStarts DEF RunTask, PoolInv, TypeOK
<1>6. ASSUME NEW t \in Threads, CheckFlag(t) PROVE PoolInv'
  <2>1. TypeOK'
    BY <1>1, <1>6 DEF CheckFlag, TypeOK, Holders
  <2> QED BY <1>1, <1>6, <2>1, NobodyStarts DEF CheckFlag, PoolInv, TypeOK
<1>7. ASSUME NEW t \in Threads, PredicatePop(t) PROVE PoolInv'
  BY <1>7, PopKeepsTypes DEF PredicatePop
<1>8. ASSUME NEW t \in Threads, PredicateDone(t) PROVE PoolInv'
  <2>1. TypeOK'
    BY <1>1, <1>8 DEF PredicateDone, TypeOK, Holders
  <2> QED BY <1>1, <1>8, <2>1, NobodyStarts DEF PredicateDone, PoolInv, TypeOK
<1>9. ASSUME NEW t \in Threads, PredicateFlag(t) PROVE PoolInv'
  <2>1. TypeOK'
    BY <1>1, <1>9 DEF PredicateFlag, TypeOK, Holders
  <2> QED BY <1>1, <1>9, <2>1, NobodyStarts DEF PredicateFlag, PoolInv, TypeOK
<1>10. ASSUME NEW t \in Threads, SpuriousWake(t) PROVE PoolInv'
  <2>1. TypeOK'
    BY <1>1, <1>10 DEF SpuriousWake, TypeOK, Holders
  <2> QED BY <1>1, <1>10, <2>1, NobodyStarts DEF SpuriousWake, PoolInv, TypeOK
<1>11. ASSUME NEW n \in 0..MaxThreads, Grow(n) PROVE PoolInv'
  BY <1>11, GrowTypes
<1>12. ASSUME NEW n \in 0..MaxThreads, Shrink(n) PROVE PoolInv'
  <2>1. TypeOK'
    BY <1>1, <1>12 DEF Shrink, TypeOK, Holders
  <2> QED BY <1>12, <2>1, NobodyStarts DEF Shrink, PoolInv
<1>13. CASE Detach
  <2>1. threads # <<>>
    BY <1>1, <1>13 DEF Detach, TypeOK
  <2>2. threads \in Seq(Threads)
    BY <1>1 DEF TypeOK
  <2>3. Last(threads) \in Threads /\ Front(threads) \in Seq(Threads)
    BY <2>1, <2>2, FrontFacts
  <2>4. TypeOK'
    BY <1>1, <1>13, <2>3 DEF Detach, TypeOK, Holders
  <2> QED BY <1>13, <2>4, NobodyStarts DEF Detach, PoolInv
<1>14. ASSUME ShrinkNotify \/ StopNotify PROVE PoolInv'
  <2>1. at' = [t \in Threads |-> IF at[t] = "wait" THEN "lock" ELSE at[t]]
    BY <1>14 DEF ShrinkNotify, StopNotify, WakeAll
  <2>2. 0 \in 0..MaxThreads
    OBVIOUS
  <2>3. TypeOK'
    BY <1>1, <1>14, <2>1, <2>2 DEF ShrinkNotify, StopNotify, TypeOK, Holders
  <2> QED BY <2>1, <2>3, NobodyStarts DEF PoolInv
<1>15. CASE Stop
  <2>1. Range(q) \subseteq Tasks
    BY <1>1, RangeIsImage DEF TypeOK
  <2>2. TypeOK'
    BY <1>1, <1>15, <2>1 DEF Stop, TypeOK, Holders
  <2> QED BY <1>15, <2>2, NobodyStarts DEF Stop, PoolInv
<1>16. CASE Join
  <2>1. threads \in Seq(Threads) /\ threads # <<>>
    BY <1>1, <1>16 DEF Join, TypeOK
  <2>2. Tail(threads) \in Seq(Threads)
    BY <2>1, TailFacts
  <2>3. TypeOK'
    BY <1>1, <1>16, <2>2 DEF Join, TypeOK, Holders
  <2> QED BY <1>16, <2>3, NobodyStarts DEF Join, PoolInv
<1>17. CASE ClearOne
  <2>1. q \in Seq(Tasks) /\ q # <<>>
    BY <1>1, <1>17 DEF ClearOne, TypeOK
  <2>2. Tail(q) \in Seq(Tasks) /\ Head(q) \in Tasks
    BY <2>1, TailFacts
  <2>3. TypeOK'
    BY <1>1, <1>17, <2>2 DEF ClearOne, TypeOK, Holders
  <2> QED BY <1>17, <2>3, NobodyStarts DEF ClearOne, PoolInv
<1>18. CASE StopReturns
  <2>1. TypeOK'
    BY <1>1, <1>18 DEF StopReturns, TypeOK, Holders
  <2> QED BY <1>18, <2>1, NobodyStarts DEF StopReturns, PoolInv
<1>19. CASE UNCHANGED vars
  <2>1. TypeOK'
    BY <1>1, <1>19 DEF vars, TypeOK, Holders
  <2> QED BY <1>19, <2>1, NobodyStarts DEF vars, PoolInv
<1> QED
  BY <1>2, <1>3, <1>4, <1>5, <1>6, <1>7, <1>8, <1>9, <1>10, <1>11, <1>12, <1>13,
     <1>14, <1>15, <1>16, <1>17, <1>18, <1>19
  DEF Next, Worker, Owner

LEMMA InitPool == Init => PoolInv
<1> SUFFICES ASSUME Init PROVE PoolInv
  OBVIOUS
<1>1. q \in Seq(Tasks) /\ threads \in Seq(Threads) /\ 0 \in 0..MaxThreads
  BY DEF Init
<1>2. TypeOK
  BY <1>1 DEF Init, TypeOK, Holders
<1>3. Started = 1..0
  BY DEF Init, Started
<1> QED BY <1>1, <1>2, <1>3 DEF PoolInv, StartedInOrder

\* Every variable of the pool has its type in every state, a worker has a task
\* exactly while it runs one, and the mutex has one holder at most.
THEOREM PoolTypeCorrect == Safety => []TypeOK
<1>1. PoolInv => TypeOK
  BY DEF PoolInv
<1> QED BY <1>1, InitPool, TypeStep, PTL DEF Safety

-----------------------------------------------------------------------------
(* Where a task is                                                         *)

\* The four ways in which a task moves.
Arrives == \E k \in Tasks :
  /\ k \notin pushed /\ q' = Append(q, k) /\ pushed' = pushed \cup {k}
  /\ UNCHANGED <<task, ran, dropped>>
Taken == \E t \in Threads :
  /\ q # <<>> /\ q' = Tail(q) /\ task[t] = NoTask
  /\ task' = [task EXCEPT ![t] = Head(q)] /\ UNCHANGED <<ran, dropped, pushed>>
Returns == \E t \in Threads :
  /\ task[t] # NoTask /\ task' = [task EXCEPT ![t] = NoTask]
  /\ ran' = ran \cup {task[t]} /\ UNCHANGED <<q, dropped, pushed>>
Dropped ==
  /\ q # <<>> /\ q' = Tail(q) /\ dropped' = dropped \cup {Head(q)}
  /\ UNCHANGED <<task, ran, pushed>>
Stays == UNCHANGED <<q, task, ran, dropped, pushed>>

LEMMA Moves ==
  TypeOK /\ [Next]_vars => Arrives \/ Taken \/ Returns \/ Dropped \/ Stays
<1> SUFFICES ASSUME TypeOK, [Next]_vars
             PROVE  Arrives \/ Taken \/ Returns \/ Dropped \/ Stays
  OBVIOUS
<1> USE DEF ownVars
<1>1. ASSUME NEW p \in Pushers \cup Threads, NEW k \in Tasks, Push(p, k) PROVE Arrives
  BY <1>1 DEF Push, Arrives
<1>2. ASSUME NEW p \in Pushers \cup Threads, PushNotify(p) PROVE Stays
  BY <1>2 DEF PushNotify, Stays
<1>3. ASSUME NEW t \in Threads, NEW other, PopOr(t, other), at[t] # "run",
             UNCHANGED <<ran, dropped, pushed>>
      PROVE  Taken \/ Stays
  BY <1>3 DEF PopOr, Taken, Stays, TypeOK
<1>4. ASSUME NEW t \in Threads, PopFirst(t) \/ PredicatePop(t) PROVE Taken \/ Stays
  BY <1>3, <1>4 DEF PopFirst, PredicatePop
<1>5. ASSUME NEW t \in Threads, RunTask(t) PROVE Returns
  BY <1>5 DEF RunTask, Returns, TypeOK
<1>6. ASSUME NEW t \in Threads,
             CheckFlag(t) \/ PredicateDone(t) \/ PredicateFlag(t) \/ SpuriousWake(t)
      PROVE  Stays
  BY <1>6 DEF CheckFlag, PredicateDone, PredicateFlag, SpuriousWake, Stays
<1>7. ASSUME NEW n, Grow(n) \/ Shrink(n) PROVE Stays
  BY <1>7 DEF Grow, Shrink, Stays
<1>8. ASSUME Detach \/ ShrinkNotify \/ StopNotify \/ Stop \/ Join \/ StopReturns
      PROVE  Stays
  BY <1>8 DEF Detach, ShrinkNotify, StopNotify, Stop, Join, StopReturns, Stays
<1>9. CASE ClearOne
  BY <1>9 DEF ClearOne, Dropped
<1>10. CASE UNCHANGED vars
  BY <1>10 DEF vars, Stays
<1> QED
  BY <1>1, <1>2, <1>4, <1>5, <1>6, <1>7, <1>8, <1>9, <1>10 DEF Next, Worker, Owner

\* What a step that moves a task does to the places, as sets.
LEMMA TakenMoves ==
  ASSUME TypeOK, Taken
  PROVE  Held' = Held \cup {Head(q)} /\ Range(q) = Range(q') \cup {Head(q)}
<1>1. PICK t \in Threads :
        /\ q # <<>> /\ q' = Tail(q) /\ task[t] = NoTask
        /\ task' = [task EXCEPT ![t] = Head(q)]
  BY DEF Taken
<1>2. Head(q) \in Tasks /\ Range(q) = Range(q') \cup {Head(q)}
  BY <1>1, TailFacts DEF TypeOK
<1>3. Head(q) # NoTask
  BY <1>2
<1>4. \A u \in Threads : task'[u] = IF u = t THEN Head(q) ELSE task[u]
  BY <1>1 DEF TypeOK
<1>5. Held' = Held \cup {Head(q)}
  BY <1>1, <1>3, <1>4 DEF Held
<1> QED BY <1>2, <1>5

LEMMA ReturnsMoves ==
  ASSUME TypeOK, TaskInOnePlace, Returns
  PROVE  \E k \in Held : Held' = Held \ {k} /\ ran' = ran \cup {k}
<1>1. PICK t \in Threads :
        /\ task[t] # NoTask /\ task' = [task EXCEPT ![t] = NoTask]
        /\ ran' = ran \cup {task[t]}
  BY DEF Returns
<1>2. \A u \in Threads : task'[u] = IF u = t THEN NoTask ELSE task[u]
  BY <1>1 DEF TypeOK
<1>3. \A u \in Threads : u # t => task[u] # task[t]
  BY <1>1 DEF TaskInOnePlace
<1>4. task[t] \in Held /\ Held' = Held \ {task[t]}
  BY <1>1, <1>2, <1>3 DEF Held
<1> QED BY <1>1, <1>4

LEMMA PlaceStep == TypeOK /\ TaskInOnePlace /\ [Next]_vars => TaskInOnePlace'
<1> SUFFICES ASSUME TypeOK, TaskInOnePlace, [Next]_vars PROVE TaskInOnePlace'
  OBVIOUS
<1>1. q \in Seq(Tasks) /\ Len(q) \in Nat
  BY DEF TypeOK
<1>2. CASE Arrives
  <2>1. PICK k \in Tasks :
          /\ k \notin pushed /\ q' = Append(q, k) /\ pushed' = pushed \cup {k}
          /\ UNCHANGED <<task, ran, dropped>>
    BY <1>2 DEF Arrives
  <2>2. /\ Len(q') = Len(q) + 1 /\ q'[Len(q) + 1] = k
        /\ \A i \in 1..Len(q) : q'[i] = q[i]
        /\ Range(q') = Range(q) \cup {k}
    BY <1>1, <2>1, AppendFacts
  <2>3. k \notin Range(q) \cup Held \cup ran \cup dropped
    BY <2>1 DEF TaskInOnePlace
  <2>4. \A i \in 1..Len(q) : q[i] # k
    BY <1>1, <2>3, RangeIsImage
  <2>5. \A i, j \in 1..Len(q') : i # j => q'[i] # q'[j]
    BY <1>1, <2>2, <2>4 DEF TaskInOnePlace
  <2>6. Held' = Held
    BY <2>1 DEF Held
  <2> QED BY <2>1, <2>2, <2>3, <2>5, <2>6 DEF TaskInOnePlace
<1>3. ASSUME q # <<>>, q' = Tail(q)
      PROVE  /\ \A i, j \in 1..Len(q') : i # j => q'[i] # q'[j]
             /\ Range(q) = Range(q') \cup {Head(q)} /\ Head(q) \notin Range(q')
             /\ q' \in Seq(Tasks)
  <2>1. /\ q' \in Seq(Tasks) /\ Len(q') = Len(q) - 1 /\ Head(q) = q[1]
        /\ \A i \in 1..(Len(q) - 1) : q'[i] = q[i + 1]
        /\ Range(q) = Range(q') \cup {Head(q)}
    BY <1>1, <1>3, TailFacts
  <2>2. \A i \in 1..Len(q') : i + 1 \in 1..Len(q) /\ i + 1 # 1 /\ 1 \in 1..Len(q)
    BY <1>1, <2>1
  <2>3. \A i \in 1..Len(q') : q'[i] # Head(q)
    BY <1>1, <2>1, <2>2 DEF TaskInOnePlace
  <2>4. \A i, j \in 1..Len(q') : i # j => q'[i] # q'[j]
    BY <1>1, <2>1, <2>2 DEF TaskInOnePlace
  <2>5. Range(q') = {q'[i] : i \in 1..Len(q')}
    BY <2>1, RangeIsImage
  <2> QED BY <2>1, <2>3, <2>4, <2>5
<1>4. CASE Taken
  <2>1. PICK t \in Threads :
          /\ q # <<>> /\ q' = Tail(q) /\ task[t] = NoTask
          /\ task' = [task EXCEPT ![t] = Head(q)]
          /\ UNCHANGED <<ran, dropped, pushed>>
    BY <1>4 DEF Taken
  <2>2. Held' = Held \cup {Head(q)}
    BY <1>4, TakenMoves
  <2>3. Head(q) \notin Held \cup ran \cup dropped
    BY <1>3, <2>1 DEF TaskInOnePlace
  <2>4. \A u \in Threads : task[u] # NoTask => task[u] # Head(q)
    BY <2>3 DEF Held
  <2>5. \A u, v \in Threads : u # v /\ task'[u] # NoTask => task'[u] # task'[v]
    BY <2>1, <2>4 DEF TypeOK, TaskInOnePlace
  <2> QED BY <1>3, <2>1, <2>2, <2>3, <2>5 DEF TaskInOnePlace
<1>5. CASE Returns
  <2>1. PICK k \in Held : Held' = Held \ {k} /\ ran' = ran \cup {k}
    BY <1>5, ReturnsMoves
  <2>2. \A u, v \in Threads : u # v /\ task'[u] # NoTask => task'[u] # task'[v]
    BY <1>5 DEF Returns, TypeOK, TaskInOnePlace
  <2> QED BY <1>5, <2>1, <2>2 DEF Returns, TaskInOnePlace
<1>6. CASE Dropped
  <2>1. Held' = Held
    BY <1>6 DEF Dropped, Held
  <2>2. Head(q) \notin Held \cup ran \cup dropped
    BY <1>3, <1>6 DEF TaskInOnePlace, Dropped
  <2> QED BY <1>3, <1>6, <2>1, <2>2 DEF TaskInOnePlace, Dropped
<1>7. CASE Stays
  BY <1>7 DEF Stays, TaskInOnePlace, Held
<1> QED BY <1>2, <1>4, <1>5, <1>6, <1>7, Moves

\* No task is lost and none is taken twice: every task that was ever pushed is
\* queued, with a worker, run or dropped, and that once, whoever pushes and pops at
\* the same time and whichever workers are told to finish.
THEOREM OnePlacePerTask == Safety => []TaskInOnePlace
<1>1. Init => TaskInOnePlace
  BY DEF Init, TaskInOnePlace, Held, Range
<1> QED BY <1>1, PlaceStep, PoolTypeCorrect, PTL DEF Safety

\* A task that was pushed stays in one of these places.
LEMMA PushedGrows == TypeOK /\ [Next]_vars => pushed \subseteq pushed'
BY Moves DEF Arrives, Taken, Returns, Dropped, Stays

-----------------------------------------------------------------------------
(* Wake-ups                                                                *)

LEMMA LookingFinite == IsFiniteSet(Looking) /\ Cardinality(Looking) \in Nat
<1>1. IsFiniteSet(Threads)
  BY FS_Interval DEF Threads
<1>2. IsFiniteSet(Looking)
  BY <1>1, FS_Subset DEF Looking
<1> QED BY <1>2, FS_CardinalityType

\* A step that makes nobody notify, adds no task and lets nobody look away.
LEMMA QuietStep ==
  ASSUME Matched, Notifying' = Notifying, Len(q) \in Nat, Len(q') \in Nat,
         Len(q') <= Len(q),
         Holders' # {} => Holders # {}, Looking \subseteq Looking',
         Asleep' # {} => Asleep # {} \/ Holders # {}
  PROVE  Matched'
<1>1. /\ IsFiniteSet(Looking) /\ Cardinality(Looking) \in Nat
      /\ IsFiniteSet(Looking') /\ Cardinality(Looking') \in Nat
  <2>1. IsFiniteSet(Threads)
    BY FS_Interval DEF Threads
  <2>2. IsFiniteSet(Looking')
    BY <2>1, FS_Subset DEF Looking
  <2> QED BY <2>2, LookingFinite, FS_CardinalityType
<1>2. Cardinality(Looking) <= Cardinality(Looking')
  BY <1>1, FS_Subset
<1>3. Cardinality(Notifying) \in Nat
  BY FS_CardinalityType DEF Matched
<1> QED BY <1>1, <1>2, <1>3 DEF Matched

\* push(), first half: one more task, one more that will notify.
LEMMA PushMatched ==
  ASSUME TypeOK, Matched, NEW p \in Pushers \cup Threads, NEW k \in Tasks, Push(p, k)
  PROVE  Matched'
<1>1. /\ q' = Append(q, k) /\ pushing' = [pushing EXCEPT ![p] = k] /\ at' = at
      /\ pushing[p] = NoTask
  BY DEF Push
<1>2. Len(q') = Len(q) + 1 /\ Len(q) \in Nat
  BY <1>1, AppendFacts DEF TypeOK
<1>3. Notifying' = Notifying \cup {p} /\ p \notin Notifying
  BY <1>1 DEF TypeOK, Notifying
<1>4. IsFiniteSet(Notifying) /\ Cardinality(Notifying) \in Nat
  BY FS_CardinalityType DEF Matched
<1>5. IsFiniteSet(Notifying') /\ Cardinality(Notifying') = Cardinality(Notifying) + 1
  BY <1>3, <1>4, FS_AddElement
<1>6. Holders' = Holders /\ Looking' = Looking /\ Asleep' = Asleep
  BY <1>1 DEF Holders, Looking, Asleep
<1>7. Cardinality(Looking) \in Nat
  BY LookingFinite
<1> QED BY <1>2, <1>4, <1>5, <1>6, <1>7 DEF Matched

\* push(), second half: one less that will notify, one more that is awake if there
\* was one to wake.
LEMMA NotifyMatched ==
  ASSUME TypeOK, Matched, NEW p \in Pushers \cup Threads, PushNotify(p)
  PROVE  Matched'
<1>1. /\ q' = q /\ pushing' = [pushing EXCEPT ![p] = NoTask] /\ WakeOne
      /\ pushing[p] # NoTask /\ Holders = {}
  BY DEF PushNotify, MutexFree
<1>2. Notifying' = Notifying \ {p} /\ p \in Notifying
  BY <1>1 DEF TypeOK, Notifying
<1>3. IsFiniteSet(Notifying) /\ Cardinality(Notifying) \in Nat /\ Len(q) \in Nat
  BY FS_CardinalityType DEF Matched, TypeOK
<1>4. IsFiniteSet(Notifying') /\ Cardinality(Notifying') = Cardinality(Notifying) - 1
  BY <1>2, <1>3, FS_RemoveElement
<1>5. CASE Asleep = {}
  <2>1. at' = at
    BY <1>1, <1>5 DEF WakeOne, Asleep
  <2>2. Holders' = {} /\ Asleep' = {}
    BY <1>1, <1>5, <2>1 DEF Holders, Asleep
  <2> QED BY <1>4, <2>2 DEF Matched
<1>6. CASE Asleep # {}
  <2>1. PICK t \in Threads : at[t] = "wait" /\ at' = [at EXCEPT ![t] = "lock"]
    BY <1>1, <1>6 DEF WakeOne, Asleep
  <2>2. Looking' = Looking \cup {t} /\ t \notin Looking
    BY <2>1 DEF TypeOK, Looking
  <2>3. IsFiniteSet(Looking) /\ Cardinality(Looking) \in Nat
    BY LookingFinite
  <2>4. Cardinality(Looking') = Cardinality(Looking) + 1
    BY <2>2, <2>3, FS_AddElement
  <2>5. Holders' = {}
    BY <1>1, <2>1 DEF TypeOK, Holders
  <2> QED BY <1>1, <1>3, <1>4, <1>6, <2>3, <2>4, <2>5 DEF Matched
<1> QED BY <1>5, <1>6

\* A pop that finds a task: one task less, and one worker less that looks.
LEMMA PopMatched ==
  ASSUME TypeOK, Matched, NEW t \in Threads, at[t] \in {"begin", "lock"},
         q # <<>>, q' = Tail(q), at' = [at EXCEPT ![t] = "run"], pushing' = pushing
  PROVE  Matched'
<1>1. Len(q') = Len(q) - 1 /\ Len(q) \in Nat
  BY TailFacts DEF TypeOK
<1>2. Looking' = Looking \ {t} /\ t \in Looking
  BY DEF TypeOK, Looking
<1>3. IsFiniteSet(Looking) /\ Cardinality(Looking) \in Nat
  BY LookingFinite
<1>4. Cardinality(Looking') = Cardinality(Looking) - 1
  BY <1>2, <1>3, FS_RemoveElement
<1>5. Holders' = Holders /\ Asleep' = Asleep
  BY DEF TypeOK, Holders, Asleep
<1>6. Notifying' = Notifying
  BY DEF Notifying
<1>7. Cardinality(Notifying) \in Nat
  BY FS_CardinalityType DEF Matched
<1> QED BY <1>1, <1>3, <1>4, <1>5, <1>6, <1>7 DEF Matched

LEMMA MatchedStep == PoolInv /\ Matched /\ [Next]_vars => Matched'
<1> SUFFICES ASSUME PoolInv, Matched, [Next]_vars PROVE Matched'
  OBVIOUS
<1> USE DEF ownVars
<1>1. TypeOK /\ q \in Seq(Tasks) /\ Len(q) \in Nat
  BY DEF PoolInv, TypeOK
<1>2. ASSUME NEW p \in Pushers \cup Threads, NEW k \in Tasks, Push(p, k) PROVE Matched'
  BY <1>1, <1>2, PushMatched
<1>3. ASSUME NEW p \in Pushers \cup Threads, PushNotify(p) PROVE Matched'
  BY <1>1, <1>3, NotifyMatched
<1>4. ASSUME NEW t \in Threads, PopFirst(t) PROVE Matched'
  <2>1. CASE q # <<>>
    BY <1>1, <1>4, <2>1, PopMatched DEF PopFirst, PopOr
  <2>2. CASE q = <<>>
    <3>1. at' = [at EXCEPT ![t] = "lock"] /\ q' = q /\ pushing' = pushing /\ at[t] = "begin"
      BY <1>4, <2>2 DEF PopFirst, PopOr
    <3>2. Holders' = Holders /\ Looking' = Looking /\ Asleep' = Asleep /\ Notifying' = Notifying
      BY <1>1, <3>1 DEF TypeOK, Holders, Looking, Asleep, Notifying
    <3> QED BY <1>1, <3>1, <3>2, QuietStep
  <2> QED BY <2>1, <2>2
<1>5. ASSUME NEW t \in Threads, PredicatePop(t) PROVE Matched'
  <2>1. CASE q # <<>>
    BY <1>1, <1>5, <2>1, PopMatched DEF PredicatePop, PopOr
  <2>2. CASE q = <<>>
    <3>1. q' = <<>> /\ pushing' = pushing
      BY <1>5, <2>2 DEF PredicatePop, PopOr
    <3>2. Notifying' = Notifying /\ Len(q') = 0
      BY <3>1 DEF Notifying
    <3>3. IsFiniteSet(Threads)
      BY FS_Interval DEF Threads
    <3>4. IsFiniteSet(Looking')
      BY <3>3, FS_Subset DEF Looking
    <3>5. Cardinality(Looking') \in Nat /\ Cardinality(Notifying') \in Nat
      BY <3>2, <3>4, FS_CardinalityType DEF Matched
    <3>6. Len(q') <= Cardinality(Notifying') + Cardinality(Looking')
          /\ Len(q') <= Cardinality(Notifying')
      BY <3>2, <3>5
    <3> QED BY <3>2, <3>6 DEF Matched
  <2> QED BY <2>1, <2>2
<1>6. ASSUME NEW t \in Threads, RunTask(t) \/ CheckFlag(t) \/ SpuriousWake(t)
      PROVE  Matched'
  <2>1. q' = q /\ pushing' = pushing
    BY <1>6 DEF RunTask, CheckFlag, SpuriousWake
  <2>2. /\ Holders' = Holders /\ Looking \subseteq Looking' /\ Asleep' \subseteq Asleep
        /\ Notifying' = Notifying
    BY <1>1, <1>6
    DEF TypeOK, RunTask, CheckFlag, SpuriousWake, Holders, Looking, Asleep, Notifying
  <2> QED BY <1>1, <2>1, <2>2, QuietStep
<1>7. ASSUME NEW t \in Threads, PredicateDone(t) \/ PredicateFlag(t) PROVE Matched'
  <2>1. q' = q /\ pushing' = pushing /\ Holders # {}
    BY <1>7 DEF PredicateDone, PredicateFlag, Holders
  <2>2. Looking' = Looking /\ Notifying' = Notifying
    BY <1>1, <1>7 DEF TypeOK, PredicateDone, PredicateFlag, Looking, Notifying
  <2> QED BY <1>1, <2>1, <2>2, QuietStep
<1>8. ASSUME NEW n \in 0..MaxThreads, Grow(n) PROVE Matched'
  <2>1. q' = q /\ pushing' = pushing
    BY <1>8 DEF Grow
  <2>2. \A t \in Threads : at'[t] = at[t] \/ (at[t] = "none" /\ at'[t] = "begin")
    BY <1>8, GrowFacts DEF PoolInv
  <2>3. /\ Holders' = Holders /\ Looking \subseteq Looking' /\ Asleep' = Asleep
        /\ Notifying' = Notifying
    BY <2>1, <2>2 DEF Holders, Looking, Asleep, Notifying
  <2> QED BY <1>1, <2>1, <2>3, QuietStep
<1>9. ASSUME ShrinkNotify \/ StopNotify PROVE Matched'
  <2>1. /\ q' = q /\ pushing' = pushing
        /\ at' = [t \in Threads |-> IF at[t] = "wait" THEN "lock" ELSE at[t]]
    BY <1>9 DEF ShrinkNotify, StopNotify, WakeAll
  <2>2. /\ Holders' = Holders /\ Looking \subseteq Looking' /\ Asleep' = {}
        /\ Notifying' = Notifying
    BY <2>1 DEF Holders, Looking, Asleep, Notifying
  <2> QED BY <1>1, <2>1, <2>2, QuietStep
<1>10. ASSUME at' = at, pushing' = pushing, Len(q') \in Nat, Len(q') <= Len(q)
       PROVE  Matched'
  <2>1. Holders' = Holders /\ Looking' = Looking /\ Asleep' = Asleep /\ Notifying' = Notifying
    BY <1>10 DEF Holders, Looking, Asleep, Notifying
  <2> QED BY <1>1, <1>10, <2>1, QuietStep
<1>11. ASSUME NEW n, Shrink(n) PROVE Matched'
  BY <1>1, <1>10, <1>11 DEF Shrink
<1>12. ASSUME Detach \/ Stop \/ Join \/ StopReturns PROVE Matched'
  BY <1>1, <1>10, <1>12 DEF Detach, Stop, Join, StopReturns
<1>13. CASE ClearOne
  <2>1. q # <<>> /\ q' = Tail(q) /\ at' = at /\ pushing' = pushing
    BY <1>13 DEF ClearOne
  <2>2. Len(q') = Len(q) - 1 /\ Len(q) \in Nat \ {0}
    BY <1>1, <2>1, TailFacts
  <2> QED BY <1>10, <2>1, <2>2
<1>14. CASE UNCHANGED vars
  BY <1>1, <1>10, <1>14 DEF vars
<1> QED
  BY <1>2, <1>3, <1>4, <1>5, <1>6, <1>7, <1>8, <1>9, <1>11, <1>12, <1>13, <1>14
  DEF Next, Worker, Owner

\* No wake-up is lost: while a task is queued and a worker sleeps, somebody is about
\* to notify or to look, although notify_one() may wake a thread that finds the
\* task gone, and the pop before the mutex is taken overtakes the woken.
THEOREM NoWakeUpLost == Safety => []NoneAsleepOverTask
<1>1. Init => Matched
  <2> SUFFICES ASSUME Init PROVE Matched
    OBVIOUS
  <2>1. Notifying = {} /\ Holders = {} /\ Asleep = {}
    BY DEF Init, Notifying, Holders, Asleep
  <2> QED BY <2>1, FS_EmptySet DEF Matched
<1>2. Init => PoolInv
  BY InitPool
<1>3. TypeOK /\ Matched => NoneAsleepOverTask
  <2> SUFFICES ASSUME TypeOK, Matched, q # <<>>, Asleep # {}, Notifying = {}
               PROVE  Looking # {}
    BY DEF NoneAsleepOverTask, Asleep, Notifying, Looking
  <2>1. Len(q) \in Nat \ {0}
    BY DEF TypeOK
  <2>2. Cardinality(Notifying) = 0
    BY FS_EmptySet
  <2>3. Cardinality(Looking) # 0
    BY <2>1, <2>2 DEF Matched
  <2> QED BY <2>3, FS_EmptySet
<1>4. PoolInv => TypeOK
  BY DEF PoolInv
<1> QED BY <1>1, <1>2, <1>3, <1>4, TypeStep, MatchedStep, PTL DEF Safety

-----------------------------------------------------------------------------
(* The destructor                                                          *)

\* A step of a worker or a pusher, which leaves the threads and the owner alone.
LEMMA WorkerKeepsStopping ==
  ASSUME TypeOK, TaskInOnePlace, Stopping, pushed \subseteq pushed',
         UNCHANGED <<flags, isDone, ownVars>>,
         owner = "gone" => q' = q,
         Started' = Started, Left \subseteq Left',
         Left' # {} => Left # {} \/ (Holders # {} /\ isDone),
         Holders' # {} => (Holders # {} /\ Range(pushing) \subseteq Range(pushing'))
                          \/ q' = <<>>,
         \/ Range(q') \subseteq Range(q)
         \/ \E k \in Range(pushing') : k \notin pushed /\ Range(q') = Range(q) \cup {k}
  PROVE  Stopping'
<1> USE DEF ownVars
<1>1. q' = <<>> => Range(q') = {}
  BY DEF Range
<1>2. Holders' # {} => Range(q') \subseteq Range(pushing')
  BY <1>1 DEF Stopping
<1>3. promised \cap Range(q') \subseteq promised \cap Range(q)
  BY DEF Stopping
<1>4. Holders' \cup Left' # {} => promised \cap Range(q') = {}
  BY <1>1, <1>3 DEF Stopping
<1>5. Left' # {} => isDone
  BY DEF Stopping
<1>6. promised' \subseteq pushed'
  BY DEF Stopping
<1> QED BY <1>2, <1>4, <1>5, <1>6 DEF Stopping

LEMMA StoppingStep ==
  PoolInv /\ TaskInOnePlace /\ Stopping /\ [Next]_vars => Stopping'
<1> SUFFICES ASSUME PoolInv, TaskInOnePlace, Stopping, [Next]_vars PROVE Stopping'
  OBVIOUS
<1> USE DEF ownVars
<1>1. TypeOK /\ q \in Seq(Tasks) /\ threads \in Seq(Threads) /\ pushed \subseteq pushed'
  BY PushedGrows DEF PoolInv, TypeOK
<1>2. ASSUME NEW p \in Pushers \cup Threads, NEW k \in Tasks, Push(p, k) PROVE Stopping'
  <2>1. /\ at' = at /\ flags' = flags /\ owner # "gone" /\ pushing[p] = NoTask
        /\ pushing' = [pushing EXCEPT ![p] = k] /\ k \notin pushed /\ q' = Append(q, k)
    BY <1>2 DEF Push
  <2>2. Holders' = Holders /\ Left' = Left /\ Started' = Started
    BY <2>1 DEF Holders, Left, Started
  <2>3. Range(q') = Range(q) \cup {k}
    BY <1>1, <2>1, AppendFacts
  <2>4. k \in Range(pushing') /\ Range(pushing) \ {NoTask} \subseteq Range(pushing')
    BY <1>1, <2>1 DEF TypeOK, Range
  <2>5. Holders' # {} => Range(q') \subseteq Range(pushing')
    <3>1. NoTask \notin Range(q)
      BY <1>1, RangeIsImage
    <3> QED BY <2>2, <2>3, <2>4, <3>1 DEF Stopping
  <2>6. promised \cap Range(q') = promised \cap Range(q)
    BY <2>1, <2>3 DEF Stopping
  <2> QED BY <1>1, <1>2, <2>1, <2>2, <2>5, <2>6 DEF Push, Stopping
<1>3. ASSUME NEW p \in Pushers \cup Threads, PushNotify(p) PROVE Stopping'
  <2>1. /\ q' = q /\ UNCHANGED <<flags, isDone, ownVars>> /\ Holders = {}
        /\ \A t \in Threads : at'[t] = at[t] \/ (at[t] = "wait" /\ at'[t] = "lock")
    BY <1>1, <1>3 DEF PushNotify, WakeOne, MutexFree, TypeOK
  <2>2. Holders' = {} /\ Left' = Left /\ Started' = Started
    BY <2>1 DEF Holders, Left, Started
  <2> QED BY <1>1, <2>1, <2>2, WorkerKeepsStopping
<1>4. ASSUME NEW t \in Threads, PopFirst(t) \/ PredicatePop(t),
             owner = "gone" => ~TouchesPool(t)
      PROVE  Stopping'
  <2>1. UNCHANGED <<flags, isDone, pushing, ownVars>> /\ owner # "gone" /\ at[t] \in {"begin", "lock"}
    BY <1>4 DEF PopFirst, PredicatePop, TouchesPool
  <2>2. CASE q # <<>>
    <3>1. q' = Tail(q) /\ at' = [at EXCEPT ![t] = "run"]
      BY <1>4, <2>2 DEF PopFirst, PredicatePop, PopOr
    <3>2. Range(q') \subseteq Range(q)
      BY <1>1, <2>2, <3>1, TailFacts
    <3>3. Holders' = Holders /\ Left' = Left /\ Started' = Started
      BY <1>1, <2>1, <3>1 DEF TypeOK, Holders, Left, Started
    <3> QED BY <1>1, <2>1, <3>2, <3>3, WorkerKeepsStopping
  <2>3. CASE q = <<>>
    <3>1. q' = <<>> /\ \E other \in {"lock", "done"} : at' = [at EXCEPT ![t] = other]
      BY <1>4, <2>3 DEF PopFirst, PredicatePop, PopOr
    <3>2. Left' = Left /\ Started' = Started
      BY <1>1, <2>1, <3>1 DEF TypeOK, Left, Started
    <3> QED BY <1>1, <2>1, <2>3, <3>1, <3>2, WorkerKeepsStopping
  <2> QED BY <2>2, <2>3
<1>5. ASSUME NEW t \in Threads, RunTask(t) \/ CheckFlag(t) \/ SpuriousWake(t)
      PROVE  Stopping'
  <2>1. q' = q /\ UNCHANGED <<flags, isDone, pushing, ownVars>>
    BY <1>5 DEF RunTask, CheckFlag, SpuriousWake
  <2>2. Holders' = Holders /\ Left' = Left /\ Started' = Started
    BY <1>1, <1>5 DEF TypeOK, RunTask, CheckFlag, SpuriousWake, Holders, Left, Started
  <2> QED BY <1>1, <2>1, <2>2, WorkerKeepsStopping
<1>6. ASSUME NEW t \in Threads, PredicateDone(t) \/ PredicateFlag(t) PROVE Stopping'
  <2>1. q' = q /\ UNCHANGED <<flags, isDone, pushing, ownVars>> /\ Holders # {}
    BY <1>6 DEF PredicateDone, PredicateFlag, Holders
  <2>2. Left \subseteq Left' /\ Started' = Started
    BY <1>1, <1>6 DEF TypeOK, PredicateDone, PredicateFlag, Left, Started
  <2>3. Left' # {} => Left # {} \/ isDone
    BY <1>1, <1>6 DEF TypeOK, PredicateDone, PredicateFlag, Left
  <2> QED BY <1>1, <2>1, <2>2, <2>3, WorkerKeepsStopping
<1>7. ASSUME NEW n \in 0..MaxThreads, Grow(n) PROVE Stopping'
  <2>1. PICK s \in 0..MaxThreads, k \in 1..MaxThreads :
           /\ s + k <= MaxThreads
           /\ threads' = threads \o [i \in 1..k |-> s + i]
           /\ at' = [t \in Threads |-> IF t \in (s + 1)..(s + k) THEN "begin" ELSE at[t]]
           /\ \A t \in (s + 1)..(s + k) : t \in Threads /\ at[t] = "none"
    BY <1>7, GrowFacts DEF PoolInv
  <2>2. Range(threads') = Range(threads) \cup (s + 1)..(s + k)
    BY <1>1, <2>1, GrowRange
  <2>3. UNCHANGED <<q, flags, isDone, task, pushing, owner, ran, dropped, promised>>
        /\ owner = "idle"
    BY <1>7 DEF Grow
  <2>4. Holders' = Holders /\ Left' = Left
    BY <2>1, <2>3 DEF Holders, Left
  <2>5. Started' = Started \cup (s + 1)..(s + k)
    BY <2>1 DEF Started
  <2>6. promised = {}
    BY <2>3 DEF Stopping
  <2> QED BY <1>1, <2>2, <2>3, <2>4, <2>5, <2>6 DEF Stopping
<1>8. ASSUME NEW n, Shrink(n) PROVE Stopping'
  <2>1. Holders' = Holders /\ Left' = Left /\ Started' = Started
    BY <1>8 DEF Shrink, Holders, Left, Started
  <2> QED BY <1>1, <1>8, <2>1 DEF Shrink, Stopping
<1>9. CASE Detach
  <2>1. threads # <<>> /\ owner = "shrink"
    BY <1>1, <1>9 DEF Detach, TypeOK
  <2>2. Range(threads) = Range(Front(threads)) \cup {Last(threads)} /\ Last(threads) \in Threads
    BY <1>1, <2>1, FrontFacts
  <2>3. \A t \in Threads : flags'[t] <=> (flags[t] \/ t = Last(threads))
    BY <1>1, <1>9 DEF Detach, TypeOK
  <2>4. Holders' = Holders /\ Left' \subseteq Left /\ Left \subseteq Left' \cup {Last(threads)}
        /\ Started' = Started
    BY <1>9, <2>3 DEF Detach, Holders, Left, Started
  <2>5. promised = {}
    BY <2>1 DEF Stopping
  <2>6. \A t \in Started : t \in Threads
    BY DEF Started
  <2>7. \A t \in Started' : ~flags'[t] => t \in Range(threads') \cup Left'
    BY <1>9, <2>2, <2>3, <2>4, <2>6 DEF Detach, Stopping
  <2> QED BY <1>1, <1>9, <2>1, <2>4, <2>5, <2>7 DEF Detach, Stopping
<1>10. CASE ShrinkNotify \/ StopNotify
  <2>1. /\ UNCHANGED <<q, threads, flags, isDone, task, pushing, ran, dropped, promised>>
        /\ at' = [t \in Threads |-> IF at[t] = "wait" THEN "lock" ELSE at[t]]
    BY <1>10 DEF ShrinkNotify, StopNotify, WakeAll
  <2>2. Holders' = Holders /\ Left' = Left /\ Started' = Started
    BY <2>1 DEF Holders, Left, Started
  <2>3. \/ owner = "shrink" /\ owner' = "idle"
        \/ owner = "notify" /\ owner' = "join"
    BY <1>10 DEF ShrinkNotify, StopNotify
  <2> QED BY <1>1, <2>1, <2>2, <2>3 DEF Stopping
<1>11. CASE Stop
  <2>1. /\ UNCHANGED <<q, threads, flags, at, task, pushing, pushed, ran, dropped>>
        /\ owner = "idle" /\ owner' = "notify" /\ isDone' = TRUE
        /\ promised' = Range(q) \ Range(pushing)
    BY <1>11 DEF Stop
  <2>2. Holders' = Holders /\ Left' = Left /\ Started' = Started
    BY <2>1 DEF Holders, Left, Started
  <2>3. Left = {} /\ ~isDone
    BY <2>1 DEF Stopping
  <2>4. promised' \subseteq pushed
    BY <2>1 DEF TaskInOnePlace
  <2>5. promised' \cap dropped = {}
    BY <2>1 DEF TaskInOnePlace
  <2>6. Holders' # {} => promised' = {}
    BY <2>1, <2>2 DEF Stopping
  <2> QED BY <2>1, <2>2, <2>3, <2>4, <2>5, <2>6 DEF Stopping
<1>12. CASE Join
  <2>1. /\ UNCHANGED <<q, flags, isDone, at, task, pushing, owner, ran, dropped, promised>>
        /\ threads # <<>> /\ threads' = Tail(threads) /\ at[Head(threads)] = "exit"
        /\ owner = "join"
    BY <1>12 DEF Join
  <2>2. Range(threads) = Range(threads') \cup {Head(threads)} /\ Head(threads) \in Threads
    BY <1>1, <2>1, TailFacts
  <2>3. Holders' = Holders /\ Left' = Left /\ Started' = Started
    BY <2>1 DEF Holders, Left, Started
  <2>4. \A t \in Started : ~flags[t] => t \in Range(threads') \cup Left
    BY <2>1, <2>2 DEF Stopping, Left
  <2> QED BY <1>1, <2>1, <2>3, <2>4 DEF Stopping
<1>13. CASE ClearOne
  <2>1. /\ UNCHANGED <<threads, flags, isDone, at, task, pushing, owner, ran, promised>>
        /\ q # <<>> /\ q' = Tail(q) /\ threads = <<>> /\ owner = "join"
        /\ dropped' = dropped \cup {Head(q)}
    BY <1>13 DEF ClearOne
  <2>2. Range(q) = Range(q') \cup {Head(q)}
    BY <1>1, <2>1, TailFacts
  <2>3. Holders' = Holders /\ Left' = Left /\ Started' = Started
    BY <2>1 DEF Holders, Left, Started
  <2>4. Range(threads) = {}
    BY <2>1 DEF Range
  <2>5. (\E t \in Started : ~flags[t]) => promised \cap Range(q) = {}
    BY <2>4 DEF Stopping
  <2> QED BY <1>1, <2>1, <2>2, <2>3, <2>5 DEF Stopping
<1>14. CASE StopReturns
  <2>1. Holders' = Holders /\ Left' = Left /\ Started' = Started
    BY <1>14 DEF StopReturns, Holders, Left, Started
  <2> QED BY <1>1, <1>14, <2>1 DEF StopReturns, Stopping
<1>15. CASE UNCHANGED vars
  <2>1. Holders' = Holders /\ Left' = Left /\ Started' = Started
    BY <1>15 DEF vars, Holders, Left, Started
  <2> QED BY <1>1, <1>15, <2>1 DEF vars, Stopping
<1> QED
  BY <1>2, <1>3, <1>4, <1>5, <1>6, <1>7, <1>8, <1>9, <1>10, <1>11, <1>12, <1>13,
     <1>14, <1>15
  DEF Next, Worker, Owner

\* When the destructor returns, every thread that was not detached has finished, and
\* if there was one, all that was pushed before it was called has been taken.
THEOREM DestructorComplete == Safety => []StopIsComplete
<1>1. Init => Stopping
  BY DEF Init, Stopping, Range, Holders, Left, Started
<1>2. Init => PoolInv /\ TaskInOnePlace
  BY InitPool DEF Init, TaskInOnePlace, Held, Range
<1>3. Stopping /\ TaskInOnePlace => StopIsComplete
  <2> SUFFICES ASSUME Stopping, TaskInOnePlace, owner = "gone" PROVE StopIsComplete
    BY DEF StopIsComplete
  <2>1. Range(q) = {} /\ Range(threads) = {}
    BY DEF Stopping, Range
  <2> QED BY <2>1 DEF StopIsComplete, Stopping, Left, TaskInOnePlace
<1>4. PoolInv => TypeOK
  BY DEF PoolInv
<1> QED BY <1>1, <1>2, <1>3, <1>4, TypeStep, PlaceStep, StoppingStep, PTL DEF Safety

=============================================================================
