-------------------------- MODULE SetTimeoutProofs --------------------------
(***************************************************************************)
(* Theorems about SetTimeout, for any number of timers, any delays,        *)
(* messages and threads: to the event loop the timer library does only     *)
(* what EventLoop allows, and of the timers' lives every safety property   *)
(* that the runs check.                                                    *)
(*                                                                         *)
(* A timer's life is a walk through four sets: Listed, Queued, Served (in  *)
(* apply()) and Leaving (in release()).  Every step of the program is one  *)
(* of the moves below on these sets (lemma Moves); that they stay apart,   *)
(* and what follows for the functions, the cancellations and the times, is *)
(* then shown move by move.                                                *)
(***************************************************************************)
EXTENDS SetTimeout, SequenceFacts

\* The theorems about EventLoop, of the loop the timers are on.
LoopP == INSTANCE EventLoopProofs
           WITH Events <- TimerIds \cup Messages, LoopRunners <- {STRunner},
                Priority <- [r \in {STRunner} |-> 5]

USE SetTimeoutAssumption

-----------------------------------------------------------------------------
(* The timers' loop is an EventLoop.                                       *)

LEMMA LoopAssumed == LoopP!LoopAssumption
BY DEF LoopP!LoopAssumption

\* The actions that SetTimeout takes from EventLoop are those the theorems are about.
LEMMA SameSteps == Loop!Next => LoopP!Next
<1> USE DEF Loop!passVars, LoopP!passVars, Loop!Fresh, LoopP!Fresh, Loop!Range, LoopP!Range,
            Loop!InRunner, LoopP!InRunner
<1>1. \A p, e : Loop!Post(p, e) => LoopP!Post(p, e)
  BY DEF Loop!Post, LoopP!Post
<1>2. \A p : Loop!Notify(p) => LoopP!Notify(p)
  BY DEF Loop!Notify, LoopP!Notify
<1>3. \A r : Loop!AddLoopRunner(r) => LoopP!AddLoopRunner(r)
  BY DEF Loop!AddLoopRunner, LoopP!AddLoopRunner, Loop!IsPlace, LoopP!IsPlace,
         Loop!InsertAt, LoopP!InsertAt
<1>4. Loop!Terminate => LoopP!Terminate
  BY DEF Loop!Terminate, LoopP!Terminate
<1>5. Loop!RunStart => LoopP!RunStart
  BY DEF Loop!RunStart, LoopP!RunStart
<1>6. \A e : Loop!RunnerPost(e) => LoopP!RunnerPost(e)
  BY DEF Loop!RunnerPost, LoopP!RunnerPost
<1>7. \A e : Loop!SelfPost(e) => LoopP!SelfPost(e)
  BY DEF Loop!SelfPost, LoopP!SelfPost
<1>8. Loop!SpuriousWake => LoopP!SpuriousWake
  BY DEF Loop!SpuriousWake, LoopP!SpuriousWake, Loop!Woken, LoopP!Woken
<1>9. Loop!Tick => LoopP!Tick
  BY DEF Loop!Tick, LoopP!Tick
<1>10. Loop!LoopHead => LoopP!LoopHead
  BY DEF Loop!LoopHead, LoopP!LoopHead
<1>11. Loop!RunnersDone => LoopP!RunnersDone
  BY DEF Loop!RunnersDone, LoopP!RunnersDone
<1>12. Loop!Pop => LoopP!Pop
  BY DEF Loop!Pop, LoopP!Pop
<1>13. Loop!Sleep => LoopP!Sleep
  BY DEF Loop!Sleep, LoopP!Sleep
<1>14. Loop!WakeTimeout => LoopP!WakeTimeout
  BY DEF Loop!WakeTimeout, LoopP!WakeTimeout, Loop!Woken, LoopP!Woken
<1>15. Loop!RunExit => LoopP!RunExit
  BY DEF Loop!RunExit, LoopP!RunExit
<1>16. Loop!RunnerThrow => LoopP!RunnerThrow
  BY DEF Loop!RunnerThrow, LoopP!RunnerThrow
<1>17. \A ret : Loop!RunnerReturn(ret) => LoopP!RunnerReturn(ret)
  BY DEF Loop!RunnerReturn, LoopP!RunnerReturn
<1>18. Loop!ApplyDone => LoopP!ApplyDone
  BY DEF Loop!ApplyDone, LoopP!ApplyDone
<1>19. Loop!ReleaseDone => LoopP!ReleaseDone
  BY DEF Loop!ReleaseDone, LoopP!ReleaseDone
<1>20. \A h : Loop!ApplyThrow(h) => LoopP!ApplyThrow(h)
  BY DEF Loop!ApplyThrow, LoopP!ApplyThrow, Loop!ApplyDone, LoopP!ApplyDone,
         Loop!Rethrow, LoopP!Rethrow
<1>21. \A h : Loop!ReleaseThrow(h) => LoopP!ReleaseThrow(h)
  BY DEF Loop!ReleaseThrow, LoopP!ReleaseThrow, Loop!ReleaseDone, LoopP!ReleaseDone,
         Loop!Rethrow, LoopP!Rethrow
<1>22. Loop!LoopStep => LoopP!LoopStep
  BY <1>10, <1>11, <1>12, <1>13, <1>14, <1>15,
     <1>16, <1>17, <1>18, <1>19, <1>20, <1>21
  DEF Loop!LoopStep, LoopP!LoopStep
<1> QED
  BY <1>1, <1>2, <1>3, <1>4, <1>5, <1>6, <1>7, <1>8, <1>9, <1>22
  DEF Loop!Next, LoopP!Next

LEMMA SameStates == (Loop!Init => LoopP!Init) /\ (Loop!TypeOK <=> LoopP!TypeOK)
BY DEF Loop!Init, LoopP!Init, Loop!LoopInit, LoopP!LoopInit,
       Loop!TypeOK, LoopP!TypeOK, Loop!PCs, LoopP!PCs

\* Min and Max of two numbers, as the code uses them.
LEMMA MaxOfTwo ==
  ASSUME NEW a \in Int, NEW b \in Int
  PROVE  Max({a, b}) = IF a >= b THEN a ELSE b
<1> DEFINE m == IF a >= b THEN a ELSE b
<1>1. m \in {a, b} /\ \A y \in {a, b} : m >= y
  OBVIOUS
<1>2. \A x \in {a, b} : (\A y \in {a, b} : x >= y) => x = m
  OBVIOUS
<1>3. Max({a, b}) \in {a, b} /\ \A y \in {a, b} : Max({a, b}) >= y
  BY <1>1 DEF Max
<1> QED BY <1>2, <1>3

LEMMA MinOfTwo ==
  ASSUME NEW a \in Int, NEW b \in Int
  PROVE  Min({a, b}) = IF a <= b THEN a ELSE b
<1> DEFINE m == IF a <= b THEN a ELSE b
<1>1. m \in {a, b} /\ \A y \in {a, b} : m <= y
  OBVIOUS
<1>2. \A x \in {a, b} : (\A y \in {a, b} : x <= y) => x = m
  OBVIOUS
<1>3. Min({a, b}) \in {a, b} /\ \A y \in {a, b} : Min({a, b}) <= y
  BY <1>1 DEF Min
<1> QED BY <1>2, <1>3

\* checkTimeouts() returns the time of the front, within run()'s default wait.
LEMMA NextDueFacts ==
  ASSUME timers \in Seq(TimerIds), due \in [TimerIds -> Int]
  PROVE  /\ NextDue \in 0..DefaultWait
         /\ timers # <<>> => NextDue = 0 \/ NextDue <= due[Head(timers)]
<1>1. CASE timers = <<>>
  BY <1>1 DEF NextDue
<1>2. CASE timers # <<>>
  <2>1. PICK d : d = due[Head(timers)]
    OBVIOUS
  <2>2. d \in Int
    BY <1>2, <2>1, TailFacts
  <2>3. PICK w : w = Max({0, d})
    OBVIOUS
  <2>4. w = IF 0 >= d THEN 0 ELSE d
    BY <2>2, <2>3, MaxOfTwo
  <2>5. PICK n : n = Min({DefaultWait, w})
    OBVIOUS
  <2>6. n = IF DefaultWait <= w THEN DefaultWait ELSE w
    BY <2>2, <2>4, <2>5, MinOfTwo
  <2>7. NextDue = n
    BY <1>2, <2>1, <2>3, <2>5 DEF NextDue
  <2> QED BY <2>1, <2>2, <2>4, <2>6, <2>7
<1> QED BY <1>1, <1>2

\* What the timer library, the scripts and the other threads do to the loop.
LEMMA LoopStep == TypeOK /\ [Next]_vars => [Loop!Next]_loopVars
<1> SUFFICES ASSUME TypeOK, [Next]_vars PROVE Loop!Next \/ UNCHANGED loopVars
  OBVIOUS
<1>1. CASE LoopOnly
  BY <1>1 DEF LoopOnly, Loop!Next, Loop!LoopStep
<1>2. CASE RunExit
  BY <1>2 DEF RunExit, Loop!Next, Loop!LoopStep
<1>3. CASE CheckBegin \/ ReleaseRemoved \/ NothingRipe
  BY <1>3 DEF CheckBegin, ReleaseRemoved, NothingRipe
<1>4. CASE PostExpired
  <2>1. Head(timers) \in TimerIds
    BY <1>4, TailFacts DEF PostExpired, Ripe, TypeOK
  <2> QED BY <1>4, <2>1 DEF PostExpired, Loop!Next
<1>5. CASE CheckReturn
  <2>1. NextDue \in 0..DefaultWait
    BY NextDueFacts DEF TypeOK
  <2> QED BY <1>5, <2>1 DEF CheckReturn, Loop!Next, Loop!LoopStep
<1>6. CASE CallFunction
  BY <1>6 DEF CallFunction, Loop!Next, Loop!LoopStep
<1>7. CASE FunctionReturns
  BY <1>7 DEF FunctionReturns, Loop!Next, Loop!LoopStep
<1>8. ASSUME NEW h \in Handled, FunctionThrows(h) PROVE Loop!Next
  BY <1>8 DEF FunctionThrows, Loop!Next, Loop!LoopStep
<1>9. CASE Release
  BY <1>9 DEF Release, Loop!Next, Loop!LoopStep
<1>10. CASE MessageDone
  BY <1>10 DEF MessageDone, Loop!Next, Loop!LoopStep
<1>11. CASE Register
  BY <1>11 DEF Register, Loop!Next
<1>12. ASSUME NEW d, NEW once, SetTimer(d, once) PROVE UNCHANGED loopVars
  BY <1>12 DEF SetTimer
<1>13. ASSUME NEW t, ClearTimer(t) \/ HostCancel(t) PROVE UNCHANGED loopVars
  BY <1>13 DEF ClearTimer, HostCancel
<1>14. CASE Tick
  <2>1. timeout \in Nat /\ timeout' = IF 0 >= timeout - 1 THEN 0 ELSE timeout - 1
    <3>1. timeout \in Nat
      BY DEF TypeOK, Loop!TypeOK
    <3>2. Max({0, timeout - 1}) = IF 0 >= timeout - 1 THEN 0 ELSE timeout - 1
      BY <3>1, MaxOfTwo
    <3> QED BY <1>14, <3>1, <3>2 DEF Tick
  <2>2. UNCHANGED <<events, terminated, looprunners, pc, visit, cur, poster, owed>>
    BY <1>14 DEF Tick
  <2>3. CASE timeout > 0
    <3>1. timeout' = timeout - 1
      BY <2>1, <2>3
    <3> QED BY <2>2, <2>3, <3>1 DEF Loop!Next, Loop!Tick, Loop!passVars
  <2>4. CASE timeout = 0
    <3>1. timeout' = timeout
      BY <2>1, <2>4
    <3> QED BY <2>2, <3>1 DEF loopVars
  <2> QED BY <2>1, <2>3, <2>4
<1>15. CASE Others
  BY <1>15 DEF Others, Loop!Next
<1>16. ASSUME NEW p \in Posters, Notify(p) PROVE Loop!Next
  BY <1>16 DEF Notify, Loop!Next
<1>17. CASE UNCHANGED vars
  BY <1>17 DEF vars
<1> QED
  BY <1>1, <1>2, <1>3, <1>4, <1>5, <1>6, <1>7, <1>8, <1>9, <1>10, <1>11, <1>12,
     <1>13, <1>14, <1>15, <1>16, <1>17
  DEF Next, RunThread, Script

-----------------------------------------------------------------------------
(* Types                                                                   *)

LEMMA LoopTypesKept == TypeOK /\ [Next]_vars => Loop!TypeOK'
<1> SUFFICES ASSUME TypeOK, [Next]_vars PROVE Loop!TypeOK'
  OBVIOUS
<1>1. LoopP!TypeOK
  BY SameStates DEF TypeOK
<1>2. [LoopP!Next]_(LoopP!vars)
  BY LoopStep, SameSteps DEF loopVars, LoopP!vars
<1>3. LoopP!TypeOK'
  BY <1>1, <1>2, LoopAssumed, LoopP!TypeStep
<1> QED BY <1>3 DEF Loop!TypeOK, LoopP!TypeOK, Loop!PCs, LoopP!PCs

\* postEvent() puts the timer into the list.
LEMMA ScheduleTypes ==
  ASSUME TypeOK, NEW t \in TimerIds, NEW d \in Int, Schedule(t, d)
  PROVE  /\ timers' \in Seq(TimerIds) /\ Range(timers') = Range(timers) \cup {t}
         /\ due' \in [TimerIds -> Int]
<1>1. timers \in Seq(TimerIds) /\ due \in [TimerIds -> Int]
  BY DEF TypeOK
<1>2. PICK i \in 1..(Len(timers) + 1) : timers' = InsertAt(timers, i, t)
  BY DEF Schedule
<1>3. timers' \in Seq(TimerIds)
  BY <1>1, <1>2, InsertAtFacts
<1>4. Range(timers') = Range(timers) \cup {t}
  BY <1>1, <1>2, InsertAtRange
<1>5. due' = [due EXCEPT ![t] = d]
  BY DEF Schedule
<1> QED BY <1>1, <1>3, <1>4, <1>5

\* What the end of a timer's function does to the objects.
LEMMA RearmTypes ==
  ASSUME TypeOK, called, Rearm
  PROVE  /\ timers' \in Seq(TimerIds)
         /\ due' \in [TimerIds -> Int] /\ removed' \in [TimerIds -> BOOLEAN]
<1>1. /\ timers \in Seq(TimerIds) /\ due \in [TimerIds -> Int] /\ cur \in TimerIds
      /\ removed \in [TimerIds -> BOOLEAN] /\ delay[cur] \in Int
  BY DEF TypeOK
<1>2. CASE Schedule(cur, delay[cur]) /\ UNCHANGED removed
  <2>1. timers' \in Seq(TimerIds) /\ due' \in [TimerIds -> Int]
    BY <1>1, <1>2, ScheduleTypes
  <2> QED BY <1>1, <1>2, <2>1
<1>3. CASE UNCHANGED <<timers, due>>
  BY <1>1, <1>3 DEF Rearm
<1> QED BY <1>2, <1>3 DEF Rearm

\* TypeOK without the loop's variables.
OwnTypes ==
  /\ timers \in Seq(TimerIds)
  /\ due \in [TimerIds -> Int] /\ delay \in [TimerIds -> Nat]
  /\ oneShot \in [TimerIds -> BOOLEAN] /\ removed \in [TimerIds -> BOOLEAN]
  /\ lastId \in 0..MaxTimers /\ refs \subseteq 1..lastId
  /\ sanity \in {NotChecking} \cup 0..MaxExpirys
  /\ sanity # NotChecking => Loop!InRunner
  /\ called \in BOOLEAN
  /\ called => pc = "apply" /\ cur \in TimerIds
  /\ cleared \in [TimerIds -> {"never", "ignored", "self", "taken"}]
  /\ fired \subseteq TimerIds /\ lost \subseteq TimerIds /\ known \subseteq TimerIds

LEMMA OwnTypesKept == TypeOK /\ [Next]_vars => OwnTypes'
<1> SUFFICES ASSUME TypeOK, [Next]_vars PROVE OwnTypes'
  OBVIOUS
<1>1. OwnTypes
  BY DEF OwnTypes, TypeOK
<1> USE DEF stVars, objVars, histVars, NotChecking
<1>2. ASSUME UNCHANGED stVars, sanity = NotChecking, called => UNCHANGED <<pc, cur>>
      PROVE  OwnTypes'
  BY <1>1, <1>2 DEF OwnTypes
<1>3. CASE LoopOnly
  <2>1. visit \in Int /\ Len(looprunners) \in Int
    BY DEF TypeOK, Loop!TypeOK
  <2>2. ~Loop!InRunner /\ pc # "apply"
    BY <1>3, <2>1 DEF LoopOnly, Loop!InRunner, Loop!LoopHead, Loop!RunnersDone,
                      Loop!Pop, Loop!Sleep, Loop!WakeTimeout, Loop!Woken
  <2>3. sanity = NotChecking /\ ~called
    BY <1>1, <2>2 DEF OwnTypes
  <2> QED BY <1>2, <1>3, <2>3 DEF LoopOnly
<1>4. CASE RunExit
  <2>1. pc = "exit" /\ sanity = NotChecking /\ ~called
    BY <1>1, <1>4 DEF RunExit, Loop!RunExit, OwnTypes, Loop!InRunner
  <2> QED BY <1>1, <1>4, <2>1 DEF RunExit, OwnTypes
<1>5. CASE CheckBegin
  <2>1. UNCHANGED <<pc, visit, looprunners, cur>>
    BY <1>5 DEF CheckBegin, loopVars
  <2> QED BY <1>1, <1>5, <2>1 DEF CheckBegin, OwnTypes, Loop!InRunner
<1>6. ASSUME Iterate, UNCHANGED <<pc, visit, looprunners, cur>>
      PROVE  /\ sanity' \in 0..MaxExpirys /\ Loop!InRunner'
             /\ ~called
  BY <1>1, <1>6 DEF Iterate, OwnTypes, Loop!InRunner
<1>7. CASE PostExpired
  <2>1. timers' \in Seq(TimerIds)
    BY <1>1, <1>7, TailFacts DEF PostExpired, Ripe, OwnTypes
  <2>2. UNCHANGED <<pc, visit, looprunners, cur>> /\ Iterate
    BY <1>7 DEF PostExpired, Loop!RunnerPost, Loop!passVars
  <2> QED BY <1>1, <1>6, <1>7, <2>1, <2>2 DEF PostExpired, OwnTypes
<1>8. CASE ReleaseRemoved
  <2>1. timers' \in Seq(TimerIds)
    BY <1>1, <1>8, TailFacts DEF ReleaseRemoved, Ripe, OwnTypes
  <2>2. UNCHANGED <<pc, visit, looprunners, cur>> /\ Iterate
    BY <1>8 DEF ReleaseRemoved, loopVars
  <2> QED BY <1>1, <1>6, <1>8, <2>1, <2>2 DEF ReleaseRemoved, OwnTypes
<1>9. CASE NothingRipe
  <2>1. UNCHANGED <<pc, visit, looprunners, cur>> /\ Iterate
    BY <1>9 DEF NothingRipe, loopVars
  <2> QED BY <1>1, <1>6, <1>9, <2>1 DEF NothingRipe, OwnTypes
<1>10. CASE CheckReturn
  <2>1. ~called /\ Range(timers) \subseteq TimerIds
    BY <1>1, <1>10, RangeIsImage DEF CheckReturn, Loop!RunnerReturn, Loop!InRunner, OwnTypes
  <2> QED BY <1>1, <1>10, <2>1 DEF CheckReturn, OwnTypes
<1>11. CASE CallFunction
  <2>1. sanity = NotChecking
    BY <1>1, <1>11 DEF CallFunction, OwnTypes, Loop!InRunner
  <2>2. ~called' \/ (pc' = "apply" /\ cur' \in TimerIds)
    BY <1>11 DEF CallFunction, loopVars
  <2>3. called' \in BOOLEAN /\ fired' \subseteq TimerIds
    BY <1>1, <1>11 DEF CallFunction, OwnTypes
  <2> QED BY <1>1, <1>11, <2>1, <2>2, <2>3 DEF CallFunction, OwnTypes
<1>12. ASSUME called, ~called', called' \in BOOLEAN, Rearm, lost' \subseteq TimerIds,
              UNCHANGED <<delay, oneShot, lastId, refs, sanity, cleared, fired, known>>
       PROVE  OwnTypes'
  <2>1. sanity = NotChecking
    BY <1>1, <1>12 DEF OwnTypes, Loop!InRunner
  <2>2. /\ timers' \in Seq(TimerIds)
        /\ due' \in [TimerIds -> Int] /\ removed' \in [TimerIds -> BOOLEAN]
    BY <1>12, RearmTypes
  <2> QED BY <1>1, <1>12, <2>1, <2>2 DEF OwnTypes
<1>13. CASE FunctionReturns
  BY <1>1, <1>12, <1>13 DEF FunctionReturns, OwnTypes
<1>14. ASSUME NEW h, FunctionThrows(h) PROVE OwnTypes'
  <2>1. lost' \subseteq TimerIds
    BY <1>1, <1>14 DEF FunctionThrows, OwnTypes
  <2> QED BY <1>12, <1>14, <2>1 DEF FunctionThrows
<1>15. CASE Release
  <2>1. pc = "release" /\ sanity = NotChecking /\ ~called
    BY <1>1, <1>15 DEF Release, Loop!ReleaseDone, OwnTypes, Loop!InRunner
  <2>2. refs' \subseteq refs
    BY <1>15 DEF Release
  <2> QED BY <1>1, <1>15, <2>1, <2>2 DEF Release, OwnTypes
<1>16. CASE MessageDone
  <2>1. sanity = NotChecking /\ ~called
    BY <1>1, <1>16 DEF MessageDone, OwnTypes, Loop!InRunner
  <2> QED BY <1>2, <1>16, <2>1 DEF MessageDone
<1>17. CASE Register
  <2>1. sanity = NotChecking /\ ~called
    BY <1>1, <1>17 DEF Register, OwnTypes, Loop!InRunner
  <2> QED BY <1>2, <1>17, <2>1 DEF Register
<1>18. ASSUME JsRuns PROVE sanity = NotChecking
  BY <1>1, <1>18 DEF JsRuns, OwnTypes, Loop!InRunner
<1>19. ASSUME NEW d \in Delays, NEW once \in BOOLEAN, SetTimer(d, once)
       PROVE  OwnTypes'
  <2>1. lastId + 1 \in TimerIds /\ d \in Nat /\ d \in Int
    BY <1>1, <1>19 DEF SetTimer, OwnTypes, TimerIds
  <2>2. timers' \in Seq(TimerIds) /\ due' \in [TimerIds -> Int]
    BY <1>19, <2>1, ScheduleTypes DEF SetTimer
  <2>3. /\ delay' \in [TimerIds -> Nat] /\ oneShot' \in [TimerIds -> BOOLEAN]
        /\ removed' \in [TimerIds -> BOOLEAN]
    BY <1>1, <1>19, <2>1 DEF SetTimer, OwnTypes
  <2>4. lastId' \in 0..MaxTimers /\ refs' \subseteq 1..lastId'
    BY <1>1, <1>19, <2>1 DEF SetTimer, OwnTypes, TimerIds
  <2>5. sanity' = NotChecking /\ UNCHANGED <<pc, cur, called, histVars>>
    BY <1>18, <1>19 DEF SetTimer, loopVars
  <2> QED BY <1>1, <2>2, <2>3, <2>4, <2>5 DEF OwnTypes
<1>20. ASSUME NEW t \in TimerIds, ClearTimer(t) \/ HostCancel(t) PROVE OwnTypes'
  <2>1. /\ removed' \in [TimerIds -> BOOLEAN]
        /\ cleared' \in [TimerIds -> {"never", "ignored", "self", "taken"}]
    BY <1>1, <1>20 DEF ClearTimer, HostCancel, CancelEvent, OwnTypes
  <2>2. UNCHANGED <<loopVars, timers, due, delay, oneShot, lastId, refs, sanity, called,
                    fired, lost, known>>
    BY <1>20 DEF ClearTimer, HostCancel
  <2> QED BY <1>1, <2>1, <2>2 DEF OwnTypes, loopVars, Loop!InRunner
<1>21. CASE Tick
  <2>1. ASSUME NEW t \in TimerIds PROVE due[t] \in Int /\ Max({-1, due[t] - 1}) \in Int
    <3>1. due[t] \in Int
      BY <1>1 DEF OwnTypes
    <3>2. Max({-1, due[t] - 1}) = IF -1 >= due[t] - 1 THEN -1 ELSE due[t] - 1
      BY <3>1, MaxOfTwo
    <3> QED BY <3>1, <3>2
  <2>2. due' \in [TimerIds -> Int]
    BY <1>21, <2>1 DEF Tick
  <2> QED BY <1>1, <1>21, <2>2 DEF Tick, OwnTypes
<1>22. CASE Others
  <2>1. sanity = NotChecking \/ UNCHANGED <<pc, visit, looprunners>>
    BY <1>1, <1>22 DEF Others, OwnTypes, Loop!InRunner, Loop!RunStart, Loop!SpuriousWake,
       Loop!Woken, Loop!Terminate, Loop!Post, Loop!passVars
  <2>2. called => UNCHANGED <<pc, cur>>
    BY <1>1, <1>22 DEF Others, OwnTypes, Loop!RunStart, Loop!SpuriousWake,
       Loop!Woken, Loop!Terminate, Loop!Post
  <2>3. UNCHANGED stVars
    BY <1>22 DEF Others
  <2> QED BY <1>1, <2>1, <2>2, <2>3 DEF OwnTypes, Loop!InRunner
<1>23. ASSUME NEW p, Notify(p) PROVE OwnTypes'
  <2>1. UNCHANGED <<visit, looprunners, cur, stVars>>
    BY <1>23 DEF Notify, Loop!Notify, Loop!passVars
  <2>2. pc' = pc \/ (pc = "waiting" /\ pc' = "head")
    BY <1>23 DEF Notify, Loop!Notify
  <2> QED BY <1>1, <2>1, <2>2 DEF OwnTypes, Loop!InRunner
<1>24. CASE UNCHANGED vars
  BY <1>1, <1>24 DEF vars, loopVars, OwnTypes, Loop!InRunner
<1> QED
  BY <1>3, <1>4, <1>5, <1>7, <1>8, <1>9, <1>10, <1>11, <1>13, <1>14, <1>15, <1>16,
     <1>17, <1>19, <1>20, <1>21, <1>22, <1>23, <1>24
  DEF Next, RunThread, Script

LEMMA TypeStep == TypeOK /\ [Next]_vars => TypeOK'
BY LoopTypesKept, OwnTypesKept DEF TypeOK, OwnTypes

LEMMA TypeInit == Init => TypeOK
<1> SUFFICES ASSUME Init PROVE TypeOK
  OBVIOUS
<1>1. Loop!TypeOK
  BY LoopAssumed, SameStates, LoopP!TypeInit DEF Init
<1>2. timers \in Seq(TimerIds)
  <2>1. <<>> \in Seq(TimerIds)
    OBVIOUS
  <2> QED BY <2>1 DEF Init
<1>3. /\ due \in [TimerIds -> Int] /\ delay \in [TimerIds -> Nat]
      /\ oneShot \in [TimerIds -> BOOLEAN] /\ removed \in [TimerIds -> BOOLEAN]
      /\ cleared \in [TimerIds -> {"never", "ignored", "self", "taken"}]
  BY DEF Init
<1>4. /\ lastId \in 0..MaxTimers /\ refs \subseteq 1..lastId
      /\ sanity = NotChecking /\ called = FALSE
      /\ fired = {} /\ lost = {} /\ known = {}
  BY DEF Init
<1> QED BY <1>1, <1>2, <1>3, <1>4 DEF TypeOK

\* Every variable has its type: checkTimeouts() runs in a runner's call only, and
\* a timer's function in apply() only.
THEOREM TimerTypesCorrect == Safety => []TypeOK
BY TypeInit, TypeStep, PTL DEF Safety

\* Whatever the scripts, their functions and the threads that cancel do, the loop
\* is used as EventLoop allows: checkTimeouts() posts and returns inside of its
\* call, and its time is within run()'s default wait.
THEOREM TimersLoopIsEventLoop == Safety => IsEventLoop
<1>1. Init => Loop!Init
  BY DEF Init
<1>2. TypeOK /\ [Next]_vars => [Loop!Next]_(Loop!vars)
  BY LoopStep DEF loopVars, Loop!vars
<1> QED BY <1>1, <1>2, TimerTypesCorrect, PTL DEF Safety, IsEventLoop, Loop!LoopSafety

\* What is proved of EventLoop holds of the timers' loop: messages and expired timers
\* are served once and in the order of the posts, until run() returns or throws.
THEOREM TimersLoopIsMailbox == Safety => Loop!Mail!MailSafety
<1>1. Init => Loop!Mail!MailInit
  BY DEF Init, Loop!Init, Loop!LoopInit, Loop!Mail!MailInit
<1>2. TypeOK /\ [Next]_vars => [Loop!Mail!MailNext]_(Loop!Mail!mailVars)
  <2> SUFFICES ASSUME TypeOK, [Next]_vars
               PROVE  [Loop!Mail!MailNext]_(Loop!Mail!mailVars)
    OBVIOUS
  <2>1. LoopP!TypeOK
    BY SameStates DEF TypeOK
  <2>2. [LoopP!Next]_(LoopP!vars)
    BY LoopStep, SameSteps DEF loopVars, LoopP!vars
  <2>3. [LoopP!Mail!MailNext]_(LoopP!Mail!mailVars)
    BY <2>1, <2>2, LoopAssumed, LoopP!MailStep
  <2> QED
    BY <2>3 DEF LoopP!Mail!MailNext, LoopP!Mail!Start, LoopP!Mail!Deliver, LoopP!Mail!Take,
      LoopP!Mail!Finish, LoopP!Mail!Close, LoopP!Mail!Abort, LoopP!Mail!mailVars,
      Loop!Mail!MailNext, Loop!Mail!Start, Loop!Mail!Deliver, Loop!Mail!Take,
      Loop!Mail!Finish, Loop!Mail!Close, Loop!Mail!Abort, Loop!Mail!mailVars
<1> QED BY <1>1, <1>2, TimerTypesCorrect, PTL DEF Safety, Loop!Mail!MailSafety

-----------------------------------------------------------------------------
(* Where a timer is, and the moves                                         *)

Served == {t \in TimerIds : pc = "apply" /\ cur = t}
Leaving == {t \in TimerIds : pc = "release" /\ cur = t}

\* The four sets are apart, except that an interval may be listed again while it
\* is being released, and hold timers that have been created.
Apart ==
  /\ Listed \cap Queued = {} /\ Listed \cap Served = {}
  /\ Queued \cap (Served \cup Leaving) = {}
  /\ Listed \cup Queued \cup Served \cup Leaving \cup fired \subseteq 1..lastId

Places == Ordered(timers, due) /\ Distinct(events) /\ Apart

\* Nothing happens to any timer.
Stays ==
  UNCHANGED <<Listed, Queued, Served, Leaving, due, removed, oneShot, lastId, refs,
              cleared, fired, lost, called>>

\* run() pops a timer.
Taken ==
  /\ Served' \subseteq Queued /\ Queued' = Queued \ Served'
  /\ Served = {} /\ Leaving = {} /\ Leaving' = {} /\ ~called
  /\ UNCHANGED <<Listed, due, removed, oneShot, lastId, refs, cleared, fired, lost,
                 called>>

\* checkTimeouts() posts a timer whose time has passed, or drops a removed one.
Expires(t) ==
  /\ t \in Listed /\ ~removed[t] /\ due[t] < 0 /\ t \notin Served \cup Leaving
  /\ Listed' = Listed \ {t} /\ Queued' = Queued \cup {t}
  /\ UNCHANGED <<Served, Leaving, due, removed, oneShot, lastId, refs, cleared, fired,
                 lost, called>>

Dropped(t) ==
  /\ t \in Listed /\ removed[t] /\ Leaving = {}
  /\ Listed' = Listed \ {t} /\ refs' = refs \ {t}
  /\ UNCHANGED <<Queued, Served, Leaving, due, removed, oneShot, lastId, cleared, fired,
                 lost, called>>

\* apply() calls the timer's function, unless the timer is removed ...
Begins(t) ==
  /\ Served = {t} /\ ~called
  /\ \/ /\ removed[t] /\ Served' = {} /\ Leaving' = {t} /\ UNCHANGED <<fired, called>>
     \/ /\ ~removed[t] /\ called' /\ fired' = fired \cup {t}
        /\ UNCHANGED <<Served, Leaving>>
  /\ UNCHANGED <<Listed, Queued, due, removed, oneShot, lastId, refs, cleared, lost>>

\* ... and the function returns, or throws and, it may be, out of run().
Ends(t) ==
  /\ Served = {t} /\ called /\ Served' = {} /\ ~called'
  /\ \/ Leaving' = {t} /\ lost' = lost
     \/ Leaving' = {} /\ lost' = IF oneShot[t] THEN lost \cup {t} ELSE lost
  /\ IF oneShot[t]
     THEN removed' = [removed EXCEPT ![t] = TRUE] /\ Listed' = Listed
     ELSE removed' = removed /\ Listed' = IF removed[t] THEN Listed ELSE Listed \cup {t}
  /\ \A x \in TimerIds \ {t} : due'[x] = due[x]
  /\ UNCHANGED <<Queued, oneShot, lastId, refs, cleared, fired>>

\* release()
Released(t) ==
  /\ Leaving = {t} /\ Served = {} /\ Leaving' = {} /\ Served' = {}
  /\ refs' = IF removed[t] THEN refs \ {t} ELSE refs
  /\ UNCHANGED <<Listed, Queued, due, removed, oneShot, lastId, cleared, fired, lost,
                 called>>

\* run() returns.
LeftBehind ==
  /\ Queued' = {} /\ lost' = lost \cup Queued
  /\ UNCHANGED <<Listed, Served, Leaving, due, removed, oneShot, lastId, refs, cleared,
                 fired, called>>

\* setTimeout() or setInterval()
Created(t) ==
  /\ t = lastId + 1 /\ t \in TimerIds /\ lastId' = t
  /\ Listed' = Listed \cup {t} /\ refs' = refs \cup {t}
  /\ \A x \in TimerIds \ {t} : due'[x] = due[x] /\ oneShot'[x] = oneShot[x]
  /\ UNCHANGED <<Queued, Served, Leaving, removed, cleared, fired, lost, called>>

\* cancelEvent(), from whatever thread
Cancelled(t) ==
  /\ t \in 1..lastId
  /\ \/ /\ t \in Listed /\ removed' = [removed EXCEPT ![t] = TRUE]
        /\ cleared' = [cleared EXCEPT ![t] = "taken"]
     \/ /\ t \notin Listed /\ UNCHANGED removed
        /\ \E c : /\ c = "taken" => cleared[t] = "taken"
                  /\ cleared' = [cleared EXCEPT ![t] = c]
  /\ UNCHANGED <<Listed, Queued, Served, Leaving, due, oneShot, lastId, refs, fired,
                 lost, called>>

\* Time passes.
Passes ==
  /\ \A x \in TimerIds \ Listed : due'[x] = due[x]
  /\ UNCHANGED <<Listed, Queued, Served, Leaving, removed, oneShot, lastId, refs,
                 cleared, fired, lost, called>>

Move ==
  \/ Stays \/ Taken \/ LeftBehind \/ Passes
  \/ \E t \in TimerIds :
       \/ Expires(t) \/ Dropped(t) \/ Begins(t) \/ Ends(t) \/ Released(t)
       \/ Created(t) \/ Cancelled(t)

\* Steps that touch neither the list nor the objects, and to the loop's queue add
\* nothing but messages, stay.
LEMMA StaysAside ==
  ASSUME TypeOK,
         UNCHANGED <<timers, due, removed, oneShot, lastId, refs, cleared, fired, lost,
                     called>>,
         \/ UNCHANGED events
         \/ \E m \in Messages : events' = Append(events, m),
         \/ UNCHANGED cur /\ (pc' = pc \/ {pc, pc'} \cap {"apply", "release"} = {})
         \/ cur \notin TimerIds /\ cur' \notin TimerIds
  PROVE  Stays
<1>1. events \in Seq(TimerIds \cup Messages)
  BY DEF TypeOK, Loop!TypeOK
<1>2. Queued' = Queued
  <2>1. CASE UNCHANGED events
    BY <2>1 DEF Queued
  <2>2. CASE \E m \in Messages : events' = Append(events, m)
    <3>1. PICK m \in Messages : events' = Append(events, m)
      BY <2>2
    <3>2. Range(events') = Range(events) \cup {m}
      BY <1>1, <3>1, AppendFacts
    <3> QED BY <3>2 DEF Queued
  <2> QED BY <2>1, <2>2
<1>3. Listed' = Listed
  BY DEF Listed
<1>4. Served' = Served /\ Leaving' = Leaving
  BY DEF Served, Leaving
<1> QED BY <1>2, <1>3, <1>4 DEF Stays

\* Places that the loop leaves alone.
LEMMA SameQueue == UNCHANGED <<events, pc, cur>> => UNCHANGED <<Queued, Served, Leaving>>
BY DEF Queued, Served, Leaving

\* The end of a function, however it ends.
LEMMA EndsMove ==
  ASSUME TypeOK, Places, called, ~called', Rearm,
         UNCHANGED <<events, oneShot, lastId, refs, cleared, fired>>,
         \/ pc' = "release" /\ UNCHANGED cur /\ lost' = lost
         \/ /\ pc' = "idle" /\ cur' = NoEvent
            /\ lost' = IF oneShot[cur] THEN lost \cup {cur} ELSE lost
  PROVE  cur \in TimerIds /\ Ends(cur)
<1>1. cur \in TimerIds /\ pc = "apply" /\ Served = {cur} /\ Queued' = Queued
  BY DEF TypeOK, Served, Queued
<1>2. Served' = {}
  BY DEF Served
<1>3. \/ Leaving' = {cur} /\ lost' = lost
      \/ Leaving' = {} /\ lost' = IF oneShot[cur] THEN lost \cup {cur} ELSE lost
  BY <1>1 DEF Leaving
<1>4. CASE oneShot[cur]
  BY <1>1, <1>2, <1>3, <1>4 DEF Rearm, Ends, Listed
<1>5. CASE ~oneShot[cur] /\ removed[cur]
  BY <1>1, <1>2, <1>3, <1>5 DEF Rearm, Ends, Listed
<1>6. CASE ~oneShot[cur] /\ ~removed[cur]
  <2>1. Schedule(cur, delay[cur]) /\ removed' = removed /\ delay[cur] \in Int
    BY <1>1, <1>6 DEF Rearm, TypeOK
  <2>2. Listed' = Listed \cup {cur}
    BY <1>1, <2>1, ScheduleTypes DEF Listed
  <2>3. \A x \in TimerIds \ {cur} : due'[x] = due[x]
    BY <2>1 DEF Schedule, TypeOK
  <2> QED BY <1>1, <1>2, <1>3, <1>6, <2>1, <2>2, <2>3 DEF Ends
<1> QED BY <1>1, <1>4, <1>5, <1>6

\* Every step of the program is a move.
LEMMA Moves == TypeOK /\ Places /\ [Next]_vars => Move
<1> SUFFICES ASSUME TypeOK, Places, [Next]_vars PROVE Move
  OBVIOUS
<1>1. /\ timers \in Seq(TimerIds) /\ events \in Seq(TimerIds \cup Messages)
      /\ Messages \cap TimerIds = {} /\ NoEvent \notin TimerIds
      /\ cur # NoEvent <=> pc \in {"apply", "release"}
      /\ called => pc = "apply"
  BY DEF TypeOK, Loop!TypeOK
<1> USE DEF stVars, objVars, histVars, Move
<1>2. CASE LoopOnly
  <2>1. CASE Loop!LoopHead \/ Loop!RunnersDone \/ Loop!Sleep \/ Loop!WakeTimeout
    <3>1. UNCHANGED <<events, cur>> /\ {pc, pc'} \cap {"apply", "release"} = {}
      BY <2>1 DEF Loop!LoopHead, Loop!RunnersDone, Loop!Sleep, Loop!WakeTimeout, Loop!Woken
    <3> QED BY <1>2, <3>1, StaysAside DEF LoopOnly
  <2>2. CASE Loop!Pop /\ events = <<>>
    <3>1. UNCHANGED <<events, cur>> /\ {pc, pc'} \cap {"apply", "release"} = {}
      BY <2>2 DEF Loop!Pop
    <3> QED BY <1>2, <3>1, StaysAside DEF LoopOnly
  <2>3. CASE Loop!Pop /\ events # <<>>
    <3>1. pc = "pop" /\ pc' = "apply" /\ cur' = Head(events) /\ events' = Tail(events)
      BY <2>3 DEF Loop!Pop
    <3>2. /\ Range(events') = Range(events) \ {cur'} /\ cur' \in Range(events)
      BY <1>1, <2>3, <3>1, DistinctTail, TailFacts DEF Places
    <3>3. Served = {} /\ Leaving = {} /\ Leaving' = {} /\ ~called
      BY <1>1, <3>1 DEF Served, Leaving
    <3>4. Served' \subseteq Queued /\ Queued' = Queued \ Served'
      BY <3>1, <3>2 DEF Served, Queued
    <3>5. Listed' = Listed
      BY <1>2 DEF LoopOnly, Listed
    <3> QED BY <1>2, <3>3, <3>4, <3>5 DEF LoopOnly, Taken
  <2> QED BY <1>2, <2>1, <2>2, <2>3 DEF LoopOnly
<1>3. CASE RunExit
  <2>1. pc = "exit" /\ pc' = "idle" /\ events' = <<>> /\ UNCHANGED cur
    BY <1>3 DEF RunExit, Loop!RunExit
  <2>2. UNCHANGED <<Served, Leaving, Listed>>
    BY <1>3, <2>1 DEF RunExit, Served, Leaving, Listed
  <2>3. Queued' = {}
    BY <2>1 DEF Queued, Range
  <2>4. lost' = lost \cup Queued
    BY <1>3 DEF RunExit, Queued
  <2> QED BY <1>3, <2>2, <2>3, <2>4 DEF RunExit, LeftBehind
<1>4. CASE CheckBegin \/ NothingRipe
  BY <1>4, StaysAside DEF CheckBegin, NothingRipe, loopVars
<1>5. ASSUME timers # <<>>, timers' = Tail(timers)
      PROVE  /\ Head(timers) \in TimerIds /\ Head(timers) \in Listed
             /\ Listed' = Listed \ {Head(timers)}
  BY <1>1, <1>5, OrderedTail, TailFacts DEF Places, Listed
<1>6. CASE PostExpired
  <2>1. PICK t : t = Head(timers)
    OBVIOUS
  <2>2. /\ t \in TimerIds /\ t \in Listed /\ Listed' = Listed \ {t}
        /\ ~removed[t] /\ due[t] < 0
    BY <1>5, <1>6, <2>1 DEF PostExpired, Ripe
  <2>3. events' = Append(events, t) /\ t # cur /\ UNCHANGED <<pc, cur>>
    BY <1>6, <2>1 DEF PostExpired, Loop!RunnerPost, Loop!Fresh
  <2>4. Range(events') = Range(events) \cup {t}
    BY <1>1, <2>2, <2>3, AppendFacts
  <2>5. Queued' = Queued \cup {t} /\ UNCHANGED <<Served, Leaving>>
    BY <2>2, <2>3, <2>4 DEF Queued, Served, Leaving
  <2>6. t \notin Served \cup Leaving
    BY <2>3 DEF Served, Leaving
  <2> QED BY <1>6, <2>2, <2>5, <2>6 DEF PostExpired, Expires
<1>7. CASE ReleaseRemoved
  <2>1. PICK t : t = Head(timers)
    OBVIOUS
  <2>2. /\ t \in TimerIds /\ t \in Listed /\ Listed' = Listed \ {t}
        /\ removed[t] /\ refs' = refs \ {t}
    BY <1>5, <1>7, <2>1 DEF ReleaseRemoved, Ripe
  <2>3. UNCHANGED <<Queued, Served, Leaving>>
    BY <1>7, SameQueue DEF ReleaseRemoved, loopVars
  <2>4. sanity # NotChecking
    BY <1>7 DEF ReleaseRemoved, Iterate, NotChecking
  <2>5. Leaving = {}
    BY <2>4 DEF TypeOK, Loop!InRunner, Leaving
  <2> QED BY <1>7, <2>2, <2>3, <2>5 DEF ReleaseRemoved, Dropped
<1>8. CASE CheckReturn
  BY <1>8, StaysAside DEF CheckReturn, Loop!RunnerReturn
<1>9. CASE CallFunction
  <2>1. pc = "apply" /\ cur \in TimerIds /\ ~called /\ Served = {cur} /\ Leaving = {}
    BY <1>9 DEF CallFunction, Served, Leaving
  <2>2. UNCHANGED events /\ Listed' = Listed /\ Queued' = Queued
    BY <1>9 DEF CallFunction, Loop!ApplyDone, loopVars, Listed, Queued
  <2>3. CASE removed[cur]
    <3>1. pc' = "release" /\ UNCHANGED <<cur, called, fired>>
      BY <1>9, <2>3 DEF CallFunction, Loop!ApplyDone
    <3>2. Served' = {} /\ Leaving' = {cur}
      BY <2>1, <3>1 DEF Served, Leaving
    <3> QED BY <1>9, <2>1, <2>2, <2>3, <3>1, <3>2 DEF CallFunction, Begins
  <2>4. CASE ~removed[cur]
    <3>1. called' /\ fired' = fired \cup {cur} /\ UNCHANGED <<pc, cur>>
      BY <1>9, <2>4 DEF CallFunction, loopVars
    <3>2. UNCHANGED <<Served, Leaving>>
      BY <3>1 DEF Served, Leaving
    <3> QED BY <1>9, <2>1, <2>2, <2>4, <3>1, <3>2 DEF CallFunction, Begins
  <2> QED BY <2>3, <2>4
<1>10. CASE FunctionReturns
  <2>1. cur \in TimerIds /\ Ends(cur)
    BY <1>10, EndsMove DEF FunctionReturns, Loop!ApplyDone
  <2> QED BY <2>1
<1>11. ASSUME NEW h, FunctionThrows(h) PROVE Move
  <2>1. CASE h
    <3>1. cur \in TimerIds /\ Ends(cur)
      BY <1>11, <2>1, EndsMove DEF FunctionThrows, Loop!ApplyThrow, Loop!ApplyDone
    <3> QED BY <3>1
  <2>2. CASE ~h
    <3>1. cur \in TimerIds /\ Ends(cur)
      BY <1>11, <2>2, EndsMove DEF FunctionThrows, Loop!ApplyThrow, Loop!Rethrow
    <3> QED BY <3>1
  <2> QED BY <2>1, <2>2
<1>12. CASE Release
  <2>1. pc = "release" /\ pc' = "pop" /\ cur' = NoEvent /\ UNCHANGED events
    BY <1>12 DEF Release, Loop!ReleaseDone
  <2>2. CASE cur \in TimerIds
    <3>1. /\ Leaving = {cur} /\ Served = {} /\ Leaving' = {} /\ Served' = {}
          /\ Listed' = Listed /\ Queued' = Queued
      BY <1>12, <2>1, <2>2 DEF Release, Leaving, Served, Listed, Queued
    <3>2. refs' = IF removed[cur] THEN refs \ {cur} ELSE refs
      BY <1>12, <2>2 DEF Release
    <3>3. Released(cur)
      BY <1>12, <3>1, <3>2 DEF Release, Released
    <3> QED BY <2>2, <3>3
  <2>3. CASE cur \notin TimerIds
    BY <1>1, <1>12, <2>1, <2>3, StaysAside DEF Release
  <2> QED BY <2>2, <2>3
<1>13. CASE MessageDone
  <2>1. cur \in Messages /\ UNCHANGED events /\ cur' \in {cur, NoEvent}
    BY <1>13 DEF MessageDone, Loop!ApplyDone, Loop!ApplyThrow, Loop!Rethrow
  <2> QED BY <1>1, <1>13, <2>1, StaysAside DEF MessageDone
<1>14. CASE Register
  BY <1>14, StaysAside DEF Register, Loop!AddLoopRunner
<1>15. ASSUME NEW d \in Delays, NEW once, SetTimer(d, once) PROVE Move
  <2>1. PICK t : t = lastId + 1
    OBVIOUS
  <2>2. t \in TimerIds /\ lastId' = t /\ refs' = refs \cup {t} /\ Schedule(t, d)
    BY <1>15, <2>1 DEF SetTimer, TimerIds, TypeOK
  <2>3. Listed' = Listed \cup {t}
    BY <2>2, ScheduleTypes DEF Listed
  <2>4. \A x \in TimerIds \ {t} : due'[x] = due[x] /\ oneShot'[x] = oneShot[x]
    BY <1>15, <2>1, <2>2 DEF SetTimer, Schedule, TypeOK
  <2>5. UNCHANGED <<Queued, Served, Leaving>>
    BY <1>15, SameQueue DEF SetTimer, loopVars
  <2> QED BY <1>15, <2>1, <2>2, <2>3, <2>4, <2>5 DEF SetTimer, Created
<1>16. ASSUME NEW t \in TimerIds, t <= lastId, NEW c, CancelEvent(t, c),
              c = "taken" => cleared[t] = "taken",
              UNCHANGED <<loopVars, timers, due, delay, oneShot, lastId, refs, sanity,
                          called, fired, lost, known>>
       PROVE  Move
  <2>1. t \in 1..lastId
    BY <1>16 DEF TimerIds, TypeOK
  <2>2. UNCHANGED <<Listed, Queued, Served, Leaving>>
    BY <1>16, SameQueue DEF loopVars, Listed
  <2>3. CASE t \in Listed
    BY <1>16, <2>1, <2>2, <2>3 DEF CancelEvent, Cancelled, Listed
  <2>4. CASE t \notin Listed
    BY <1>16, <2>1, <2>2, <2>4 DEF CancelEvent, Cancelled, Listed
  <2> QED BY <2>3, <2>4
<1>17. ASSUME NEW t \in TimerIds, ClearTimer(t) PROVE Move
  BY <1>16, <1>17 DEF ClearTimer
<1>18. ASSUME NEW t \in TimerIds, HostCancel(t) PROVE Move
  BY <1>16, <1>18 DEF HostCancel
<1>19. CASE Tick
  <2>1. UNCHANGED <<Listed, Queued, Served, Leaving>>
    BY <1>19, SameQueue DEF Tick, Listed
  <2>2. \A x \in TimerIds \ Listed : due'[x] = due[x]
    BY <1>19 DEF Tick, Listed
  <2> QED BY <1>19, <2>1, <2>2 DEF Tick, Passes
<1>20. CASE Others
  <2>1. /\ UNCHANGED cur
        /\ pc' = pc \/ {pc, pc'} \cap {"apply", "release"} = {}
        /\ UNCHANGED events \/ \E m \in Messages : events' = Append(events, m)
    BY <1>20 DEF Others, Loop!RunStart, Loop!SpuriousWake, Loop!Woken, Loop!Terminate,
                 Loop!Post
  <2> QED BY <1>20, <2>1, StaysAside DEF Others
<1>21. ASSUME NEW p, Notify(p) PROVE Move
  <2>1. /\ UNCHANGED <<cur, events>>
        /\ pc' = pc \/ {pc, pc'} \cap {"apply", "release"} = {}
    BY <1>21 DEF Notify, Loop!Notify
  <2> QED BY <1>21, <2>1, StaysAside DEF Notify
<1>22. CASE UNCHANGED vars
  BY <1>22, StaysAside DEF vars, loopVars
<1> QED
  BY <1>2, <1>3, <1>4, <1>6, <1>7, <1>8, <1>9, <1>10, <1>11, <1>12, <1>13, <1>14,
     <1>15, <1>17, <1>18, <1>19, <1>20, <1>21, <1>22
  DEF Next, RunThread, Script

-----------------------------------------------------------------------------
(* The order of the list, the queue without repetitions, the sets apart    *)

LEMMA ScheduleOrdered ==
  ASSUME TypeOK, Ordered(timers, due), NEW t \in TimerIds, t \notin Listed,
         NEW d \in Int, Schedule(t, d)
  PROVE  Ordered(timers, due)'
<1>1. /\ timers \in Seq(TimerIds) /\ due \in [TimerIds -> Int]
      /\ due' = [due EXCEPT ![t] = d]
  BY DEF TypeOK, Schedule
<1>2. PICK i \in 1..(Len(timers) + 1) : IsPlace(d, i) /\ timers' = InsertAt(timers, i, t)
  BY DEF Schedule
<1>3. \A j \in 1..Len(timers) : timers[j] \in TimerIds /\ timers[j] # t
  BY <1>1, RangeIsImage DEF Listed
<1>4. \A j \in 1..Len(timers) : due'[timers[j]] = due[timers[j]]
  BY <1>1, <1>3
<1>5. due'[t] = d /\ (\A x \in TimerIds : due'[x] \in Int)
  BY <1>1
<1>6. Ordered(timers, due')
  BY <1>4 DEF Ordered
<1>7. /\ \A j \in 1..Len(timers) : (j < i) => (due'[timers[j]] <= due'[t])
      /\ \A j \in 1..Len(timers) : (j >= i) => (due'[timers[j]] > due'[t])
  BY <1>2, <1>4, <1>5 DEF IsPlace
<1>8. t \notin Range(timers)
  BY DEF Listed
<1>9. PICK key : key = due'
  OBVIOUS
<1>10. Ordered(InsertAt(timers, i, t), key)
  BY ONLY <1>1, <1>5, <1>6, <1>7, <1>8, <1>9, t \in TimerIds,
          i \in 1..(Len(timers) + 1), OrderedInsert
<1> QED BY <1>2, <1>9, <1>10 DEF Ordered

LEMMA OrderedStep == TypeOK /\ Places /\ [Next]_vars => Ordered(timers, due)'
<1> SUFFICES ASSUME TypeOK, Places, [Next]_vars PROVE Ordered(timers, due)'
  OBVIOUS
<1>1. /\ timers \in Seq(TimerIds) /\ due \in [TimerIds -> Int]
      /\ Ordered(timers, due)
  BY DEF TypeOK, Places
<1>2. ASSUME UNCHANGED <<timers, due>> PROVE Ordered(timers, due)'
  BY <1>1, <1>2 DEF Ordered
<1> USE DEF stVars, objVars, histVars
<1>3. CASE LoopOnly \/ RunExit \/ CheckBegin \/ NothingRipe \/ CheckReturn
           \/ CallFunction \/ Release \/ MessageDone \/ Register \/ Others
           \/ UNCHANGED vars
  BY <1>2, <1>3 DEF LoopOnly, RunExit, CheckBegin, NothingRipe, CheckReturn, CallFunction,
                    Release, MessageDone, Register, Others, vars
<1>4. CASE PostExpired \/ ReleaseRemoved
  <2>1. timers # <<>> /\ timers' = Tail(timers) /\ due' = due
    BY <1>4 DEF PostExpired, ReleaseRemoved, Ripe
  <2>2. Ordered(Tail(timers), due)
    BY <1>1, <2>1, OrderedTail
  <2> QED BY <2>1, <2>2 DEF Ordered
<1>5. CASE called /\ Rearm
  <2>1. cur \in TimerIds /\ cur \notin Listed /\ delay[cur] \in Int
    BY <1>5 DEF TypeOK, Places, Apart, Served
  <2>2. CASE Schedule(cur, delay[cur])
    BY <1>1, <2>1, <2>2, ScheduleOrdered
  <2>3. CASE UNCHANGED <<timers, due>>
    BY <1>2, <2>3
  <2> QED BY <1>5, <2>2, <2>3 DEF Rearm
<1>6. CASE FunctionReturns
  BY <1>5, <1>6 DEF FunctionReturns
<1>7. ASSUME NEW h, FunctionThrows(h) PROVE Ordered(timers, due)'
  BY <1>5, <1>7 DEF FunctionThrows
<1>8. ASSUME NEW d \in Delays, NEW once, SetTimer(d, once) PROVE Ordered(timers, due)'
  <2>1. PICK t : t = lastId + 1
    OBVIOUS
  <2>2. t \in TimerIds /\ d \in Int /\ Schedule(t, d) /\ t \notin 1..lastId
    BY <1>8, <2>1 DEF SetTimer, TimerIds, TypeOK
  <2>3. t \notin Listed
    BY <2>2 DEF Places, Apart
  <2> QED BY <1>1, <2>2, <2>3, ScheduleOrdered
<1>9. ASSUME NEW t, ClearTimer(t) \/ HostCancel(t) PROVE Ordered(timers, due)'
  BY <1>2, <1>9 DEF ClearTimer, HostCancel
<1>10. CASE Tick
  <2>1. timers' = timers
    BY <1>10 DEF Tick
  <2>2. ASSUME NEW t \in Range(timers)
        PROVE  due'[t] = (IF -1 >= due[t] - 1 THEN -1 ELSE due[t] - 1) /\ due[t] \in Int
    <3>1. t \in TimerIds /\ due[t] \in Int
      BY <1>1, <2>2, RangeIsImage
    <3>2. Max({-1, due[t] - 1}) = IF -1 >= due[t] - 1 THEN -1 ELSE due[t] - 1
      BY <3>1, MaxOfTwo
    <3>3. due'[t] = Max({-1, due[t] - 1})
      BY <1>10, <2>2, <3>1 DEF Tick
    <3> QED BY <3>1, <3>2, <3>3
  <2>3. \A i \in 1..Len(timers) : timers[i] \in Range(timers)
    BY <1>1, RangeIsImage
  <2>4. ASSUME NEW i \in 1..Len(timers), NEW j \in 1..Len(timers), i < j
        PROVE  timers[i] # timers[j] /\ due'[timers[i]] <= due'[timers[j]]
    <3>1. timers[i] # timers[j] /\ due[timers[i]] <= due[timers[j]]
      BY <1>1, <2>4 DEF Ordered
    <3> QED BY <2>2, <2>3, <3>1
  <2> QED BY <2>1, <2>4 DEF Ordered
<1>11. ASSUME NEW p, Notify(p) PROVE Ordered(timers, due)'
  BY <1>2, <1>11 DEF Notify
<1> QED
  BY <1>3, <1>4, <1>6, <1>7, <1>8, <1>9, <1>10, <1>11
  DEF Next, RunThread, Script

LEMMA DistinctStep == TypeOK /\ Places /\ [Next]_vars => Distinct(events)'
<1> SUFFICES ASSUME TypeOK, Places, [Next]_vars PROVE Distinct(events)'
  OBVIOUS
<1>1. events \in Seq(TimerIds \cup Messages) /\ Distinct(events)
  BY DEF TypeOK, Loop!TypeOK, Places
<1>2. ASSUME UNCHANGED events PROVE Distinct(events)'
  BY <1>1, <1>2 DEF Distinct
<1>3. ASSUME NEW e \in TimerIds \cup Messages, e \notin Range(events),
             events' = Append(events, e)
      PROVE  Distinct(events)'
  <2>1. Distinct(Append(events, e))
    BY <1>1, <1>3, DistinctAppend
  <2> QED BY <1>3, <2>1 DEF Distinct
<1> USE DEF loopVars
<1>4. CASE LoopOnly
  <2>1. CASE Loop!LoopHead \/ Loop!RunnersDone \/ Loop!Sleep \/ Loop!WakeTimeout
    BY <1>2, <2>1 DEF Loop!LoopHead, Loop!RunnersDone, Loop!Sleep, Loop!WakeTimeout,
                      Loop!Woken
  <2>2. CASE Loop!Pop /\ events # <<>>
    <3>1. events' = Tail(events) /\ Distinct(Tail(events))
      BY <1>1, <2>2, DistinctTail DEF Loop!Pop
    <3> QED BY <3>1 DEF Distinct
  <2>3. CASE Loop!Pop /\ events = <<>>
    BY <1>2, <2>3 DEF Loop!Pop
  <2> QED BY <1>4, <2>1, <2>2, <2>3 DEF LoopOnly
<1>5. CASE RunExit
  <2>1. Len(events') = 0
    BY <1>5 DEF RunExit, Loop!RunExit
  <2> QED BY <2>1 DEF Distinct
<1>6. CASE PostExpired
  <2>1. Head(timers) \in TimerIds
    BY <1>6, TailFacts DEF PostExpired, Ripe, TypeOK
  <2>2. Head(timers) \notin Range(events) /\ events' = Append(events, Head(timers))
    BY <1>6 DEF PostExpired, Loop!RunnerPost, Loop!Fresh, Loop!Range, Range
  <2> QED BY <1>3, <2>1, <2>2
<1>7. CASE CheckBegin \/ NothingRipe \/ ReleaseRemoved \/ Tick
  BY <1>2, <1>7 DEF CheckBegin, NothingRipe, ReleaseRemoved, Tick
<1>8. CASE CheckReturn \/ Release \/ Register
  BY <1>2, <1>8 DEF CheckReturn, Loop!RunnerReturn, Release, Loop!ReleaseDone, Register,
                    Loop!AddLoopRunner
<1>9. CASE CallFunction \/ FunctionReturns \/ MessageDone
  BY <1>2, <1>9 DEF CallFunction, FunctionReturns, MessageDone, Loop!ApplyDone,
                    Loop!ApplyThrow, Loop!Rethrow
<1>10. ASSUME NEW h, FunctionThrows(h) PROVE Distinct(events)'
  BY <1>2, <1>10 DEF FunctionThrows, Loop!ApplyThrow, Loop!ApplyDone, Loop!Rethrow
<1>11. ASSUME NEW d, NEW once, SetTimer(d, once) PROVE Distinct(events)'
  BY <1>2, <1>11 DEF SetTimer
<1>12. ASSUME NEW t, ClearTimer(t) \/ HostCancel(t) PROVE Distinct(events)'
  BY <1>2, <1>12 DEF ClearTimer, HostCancel
<1>13. CASE Others
  <2>1. CASE Loop!RunStart \/ Loop!SpuriousWake \/ Loop!Terminate
    BY <1>2, <2>1 DEF Loop!RunStart, Loop!SpuriousWake, Loop!Woken, Loop!Terminate
  <2>2. ASSUME NEW p, NEW m \in Messages, Loop!Post(p, m) PROVE Distinct(events)'
    BY <1>3, <2>2 DEF Loop!Post, Loop!Fresh, Loop!Range, Range
  <2> QED BY <1>13, <2>1, <2>2 DEF Others
<1>14. ASSUME NEW p, Notify(p) PROVE Distinct(events)'
  BY <1>2, <1>14 DEF Notify, Loop!Notify
<1>15. CASE UNCHANGED vars
  BY <1>2, <1>15 DEF vars
<1> QED
  BY <1>4, <1>5, <1>6, <1>7, <1>8, <1>9, <1>10, <1>11, <1>12, <1>13, <1>14, <1>15
  DEF Next, RunThread, Script

LEMMA ApartStep == TypeOK /\ Places /\ [Next]_vars => Apart'
<1> SUFFICES ASSUME TypeOK, Apart, Move PROVE Apart'
  BY Moves DEF Places
<1> USE DEF Apart
<1>1. CASE Stays \/ Taken \/ LeftBehind \/ Passes
  BY <1>1 DEF Stays, Taken, LeftBehind, Passes
<1>2. ASSUME NEW t, Expires(t) \/ Dropped(t) \/ Released(t) \/ Cancelled(t) PROVE Apart'
  BY <1>2 DEF Expires, Dropped, Released, Cancelled
<1>3. ASSUME NEW t, Begins(t) \/ Ends(t) PROVE Apart'
  BY <1>3 DEF Begins, Ends
<1>4. ASSUME NEW t, Created(t) PROVE Apart'
  <2>1. lastId \in Nat /\ t = lastId + 1
    BY <1>4 DEF Created, TypeOK
  <2>2. t \notin 1..lastId /\ t \in 1..t /\ 1..lastId \subseteq 1..t
    BY <2>1
  <2> QED BY <1>4, <2>2 DEF Created
<1> QED BY <1>1, <1>2, <1>3, <1>4 DEF Move

LEMMA PlacesInit == Init => Places
<1> SUFFICES ASSUME Init PROVE Places
  OBVIOUS
<1>1. Len(timers) = 0 /\ Len(events) = 0 /\ Listed = {} /\ Queued = {}
  BY DEF Init, Loop!Init, Loop!LoopInit, Listed, Queued, Range
<1>2. Served = {} /\ Leaving = {} /\ fired = {}
  BY DEF Init, Loop!Init, Loop!LoopInit, Served, Leaving
<1> QED BY <1>1, <1>2 DEF Places, Ordered, Distinct, Apart

LEMMA PlacesCorrect == Safety => [](TypeOK /\ Places)
<1>1. TypeOK /\ Places /\ [Next]_vars => Places'
  BY OrderedStep, DistinctStep, ApartStep DEF Places
<1> QED BY <1>1, TypeInit, TypeStep, PlacesInit, PTL DEF Safety

\* A timer is in one place: once in the list, in order of time; or once in the
\* loop's queue; or being applied; so no function is called by two of them.
THEOREM TimerInOnePlace == Safety => []OnePlace
<1>1. TypeOK /\ Places => OnePlace
  <2> SUFFICES ASSUME TypeOK, Places PROVE OnePlace
    OBVIOUS
  <2>1. cur \notin Queued
    <3> SUFFICES ASSUME cur \in Queued PROVE FALSE
      OBVIOUS
    <3>1. cur \in TimerIds /\ cur # NoEvent
      BY DEF Queued
    <3>2. cur \in Served \cup Leaving
      BY <3>1 DEF TypeOK, Loop!TypeOK, Served, Leaving
    <3> QED BY <3>2 DEF Places, Apart
  <2>2. pc = "apply" => cur \notin Listed
    <3> SUFFICES ASSUME pc = "apply", cur \in Listed PROVE FALSE
      OBVIOUS
    <3>1. cur \in TimerIds
      BY RangeIsImage DEF Listed, TypeOK
    <3> QED BY <3>1 DEF Places, Apart, Served
  <2> QED BY <2>1, <2>2 DEF OnePlace, Places, Apart, Ordered, Distinct
<1> QED BY <1>1, PlacesCorrect, PTL

-----------------------------------------------------------------------------
(* What is queued or called: its time has passed, and it is not removed.   *)

DueAndWanted == \A t \in Queued \cup Served : due[t] < 0 /\ ~removed[t]

LEMMA DueStep == TypeOK /\ Places /\ DueAndWanted /\ [Next]_vars => DueAndWanted'
<1> SUFFICES ASSUME TypeOK, Apart, Move, DueAndWanted PROVE DueAndWanted'
  BY Moves DEF Places
<1>1. /\ removed \in [TimerIds -> BOOLEAN] /\ Queued \subseteq TimerIds
      /\ Served \subseteq TimerIds
  BY DEF TypeOK, Queued, Served
<1> USE <1>1 DEF DueAndWanted, Apart
<1>2. CASE Stays \/ Taken \/ LeftBehind \/ Passes
  BY <1>2 DEF Stays, Taken, LeftBehind, Passes
<1>3. ASSUME NEW t, Expires(t) \/ Dropped(t) \/ Released(t) \/ Begins(t)
      PROVE  DueAndWanted'
  BY <1>3 DEF Expires, Dropped, Released, Begins
<1>4. ASSUME NEW t, Ends(t) PROVE DueAndWanted'
  <2>1. Queued' \cup Served' \subseteq Queued /\ t \notin Queued
    BY <1>4 DEF Ends
  <2>2. \A x \in TimerIds \ {t} : due'[x] = due[x] /\ removed'[x] = removed[x]
    BY <1>4 DEF Ends
  <2> QED BY <2>1, <2>2
<1>5. ASSUME NEW t, Created(t) PROVE DueAndWanted'
  <2>1. lastId \in Nat /\ t = lastId + 1
    BY <1>5 DEF Created, TypeOK
  <2>2. t \notin Queued \cup Served
    BY <2>1
  <2> QED BY <1>5, <2>2 DEF Created
<1>6. ASSUME NEW t, Cancelled(t) PROVE DueAndWanted'
  <2>1. \A x \in TimerIds : x \notin Listed => removed'[x] = removed[x]
    BY <1>6 DEF Cancelled
  <2> QED BY <1>6, <2>1 DEF Cancelled
<1> QED BY <1>2, <1>3, <1>4, <1>5, <1>6 DEF Move

LEMMA DueCorrect == Safety => [](TypeOK /\ Places /\ DueAndWanted)
<1>1. Init => DueAndWanted
  <2> SUFFICES ASSUME Init PROVE DueAndWanted
    OBVIOUS
  <2>1. Queued = {} /\ Served = {}
    BY DEF Init, Loop!Init, Loop!LoopInit, Queued, Served, Range
  <2> QED BY <2>1 DEF DueAndWanted
<1> QED BY <1>1, DueStep, TypeStep, PlacesCorrect, PTL DEF Safety

\* A function is called only after its time, and a cancelled timer is not called:
\* what is in the loop's queue can no longer be removed.
THEOREM TimersNeverEarly == Safety => []NeverEarly
<1>1. DueAndWanted => NeverEarly
  BY DEF DueAndWanted, NeverEarly, Served
<1> QED BY <1>1, DueCorrect, PTL

-----------------------------------------------------------------------------
(* The functions in the array, and the timers accounted for                *)

\* An interval that leaves apply() is in the list again: otherwise release(),
\* which looks at removed() only, would keep the function of a timer that is gone.
LeavingIsKept == \A t \in Leaving : removed[t] \/ t \in Listed

Held ==
  /\ \A t \in TimerIds :
       (t \in Listed /\ ~removed[t]) \/ t \in Queued \cup Served => t \in refs
  /\ refs \subseteq Listed \cup Queued \cup lost \cup Served \cup Leaving

AllThere ==
  \A t \in 1..lastId :
    t \in Listed \cup Queued \cup Served \/ removed[t] \/ t \in lost

Kept == LeavingIsKept /\ Held /\ AllThere

LEMMA KeptStep ==
  TypeOK /\ Places /\ DueAndWanted /\ Kept /\ [Next]_vars => Kept'
<1> SUFFICES ASSUME TypeOK, Apart, Move, DueAndWanted, Kept PROVE Kept'
  BY Moves DEF Places
<1>1. /\ removed \in [TimerIds -> BOOLEAN] /\ Queued \subseteq TimerIds
      /\ Served \subseteq TimerIds /\ Leaving \subseteq TimerIds
      /\ 1..lastId \subseteq TimerIds /\ lastId \in Nat
  BY DEF TypeOK, Queued, Served, Leaving, TimerIds
<1> USE <1>1 DEF Kept, LeavingIsKept, Held, AllThere, Apart
<1>2. CASE Stays \/ Passes
  BY <1>2 DEF Stays, Passes
<1>3. CASE Taken
  BY <1>3 DEF Taken
<1>4. CASE LeftBehind
  BY <1>4 DEF LeftBehind
<1>5. ASSUME NEW t \in TimerIds, Expires(t) PROVE Kept'
  BY <1>5 DEF Expires
<1>6. ASSUME NEW t \in TimerIds, Dropped(t) PROVE Kept'
  BY <1>6 DEF Dropped
<1>7. ASSUME NEW t \in TimerIds, Begins(t) PROVE Kept'
  <2>1. ~removed[t]
    BY <1>7 DEF Begins, DueAndWanted
  <2> QED BY <1>7, <2>1 DEF Begins
<1>8. ASSUME NEW t \in TimerIds, Ends(t) PROVE Kept'
  <2>1. ~removed[t] /\ t \notin Queued /\ Queued' = Queued /\ Served' = {}
    BY <1>8 DEF Ends, DueAndWanted
  <2>2. Leaving = {}
    BY <1>8 DEF Ends, Served, Leaving
  <2>3. CASE oneShot[t]
    <3>1. /\ removed'[t] /\ Listed' = Listed
          /\ \A x \in TimerIds \ {t} : removed'[x] = removed[x]
      BY <1>8, <2>3 DEF Ends
    <3>2. t \in lost' \cup Leaving' /\ lost \subseteq lost' /\ Leaving' \subseteq {t}
      BY <1>8, <2>3 DEF Ends
    <3> QED BY <1>8, <2>1, <2>2, <3>1, <3>2 DEF Ends
  <2>4. CASE ~oneShot[t]
    <3>1. removed' = removed /\ Listed' = Listed \cup {t} /\ lost' = lost
      BY <1>8, <2>1, <2>4 DEF Ends
    <3>2. Leaving' \subseteq {t}
      BY <1>8 DEF Ends
    <3> QED BY <1>8, <2>1, <2>2, <3>1, <3>2 DEF Ends
  <2> QED BY <2>3, <2>4
<1>9. ASSUME NEW t \in TimerIds, Released(t) PROVE Kept'
  <2>1. removed[t] \/ t \in Listed
    BY <1>9 DEF Released
  <2> QED BY <1>9, <2>1 DEF Released
<1>10. ASSUME NEW t \in TimerIds, Created(t) PROVE Kept'
  <2>1. 1..lastId' = 1..lastId \cup {t}
    BY <1>10 DEF Created
  <2> QED BY <1>10, <2>1 DEF Created
<1>11. ASSUME NEW t \in TimerIds, Cancelled(t) PROVE Kept'
  <2>1. \A x \in TimerIds : removed[x] => removed'[x]
    BY <1>11 DEF Cancelled
  <2>2. UNCHANGED <<Listed, Queued, Served, Leaving, lastId, refs, lost>>
    BY <1>11 DEF Cancelled
  <2> QED BY <2>1, <2>2
<1> QED
  BY <1>2, <1>3, <1>4, <1>5, <1>6, <1>7, <1>8, <1>9, <1>10, <1>11 DEF Move

LEMMA KeptCorrect == Safety => [](TypeOK /\ Places /\ DueAndWanted /\ Kept)
<1>1. Init => Kept
  <2> SUFFICES ASSUME Init PROVE Kept
    OBVIOUS
  <2>1. Queued = {} /\ Listed = {} /\ Served = {} /\ Leaving = {} /\ refs = {}
    BY DEF Init, Loop!Init, Loop!LoopInit, Listed, Queued, Served, Leaving, Range
  <2>2. 1..lastId = {}
    BY DEF Init
  <2> QED BY <2>1, <2>2 DEF Kept, LeavingIsKept, Held, AllThere
<1> QED BY <1>1, KeptStep, DueStep, TypeStep, DueCorrect, PTL DEF Safety

\* The function of a timer is in the array exactly as long as it may be called:
\* neither expiry, cancellation, exceptions nor exits free it early or keep it.
THEOREM FunctionsHeld == Safety => []FunctionHeld
<1>1. Held => FunctionHeld
  BY DEF Held, FunctionHeld, Live, Served, Leaving
<1>2. Kept => FunctionHeld
  BY <1>1 DEF Kept
<1> QED BY <1>2, KeptCorrect, PTL

\* No timer vanishes.
THEOREM TimersAccounted == Safety => []Accounted
<1>1. TypeOK /\ AllThere => Accounted
  BY DEF AllThere, Accounted, Live, Served
<1>2. TypeOK /\ Kept => Accounted
  BY <1>1 DEF Kept
<1> QED BY <1>2, KeptCorrect, PTL

-----------------------------------------------------------------------------
(* The calls of the functions                                              *)

\* What cancelEvent() was told stays so, and a setTimeout timer whose function was
\* called is neither in the list nor in the queue again.
CalledAtMostOnce ==
  /\ \A t \in TimerIds : cleared[t] = "taken" => removed[t]
  /\ \A t \in fired :
       oneShot[t] => t \notin Listed \cup Queued /\ (t \in Served => called)

LEMMA CallsStep ==
  TypeOK /\ Places /\ CalledAtMostOnce /\ [Next]_vars => CalledAtMostOnce'
<1> SUFFICES ASSUME TypeOK, Apart, Move, CalledAtMostOnce PROVE CalledAtMostOnce'
  BY Moves DEF Places
<1>1. /\ removed \in [TimerIds -> BOOLEAN]
      /\ cleared \in [TimerIds -> {"never", "ignored", "self", "taken"}]
      /\ Queued \subseteq TimerIds /\ Served \subseteq TimerIds /\ lastId \in Nat
      /\ fired \subseteq TimerIds
  BY DEF TypeOK, Queued, Served
<1> USE <1>1 DEF CalledAtMostOnce, Apart
<1>2. CASE Stays \/ Passes \/ Taken \/ LeftBehind
  BY <1>2 DEF Stays, Passes, Taken, LeftBehind
<1>3. ASSUME NEW t \in TimerIds, Expires(t) \/ Dropped(t) \/ Released(t)
      PROVE  CalledAtMostOnce'
  BY <1>3 DEF Expires, Dropped, Released
<1>4. ASSUME NEW t \in TimerIds, Begins(t) PROVE CalledAtMostOnce'
  BY <1>4 DEF Begins
<1>5. ASSUME NEW t \in TimerIds, Ends(t) PROVE CalledAtMostOnce'
  <2>1. \A x \in TimerIds : removed[x] => removed'[x]
    BY <1>5 DEF Ends
  <2>2. Listed' \subseteq Listed \cup {t} /\ (oneShot[t] => Listed' = Listed)
    BY <1>5 DEF Ends
  <2>3. Served' = {} /\ UNCHANGED <<Queued, oneShot, cleared, fired>>
    BY <1>5 DEF Ends
  <2> QED BY <2>1, <2>2, <2>3
<1>6. ASSUME NEW t \in TimerIds, Created(t) PROVE CalledAtMostOnce'
  <2>1. t \notin 1..lastId
    BY <1>6 DEF Created
  <2>2. t \notin fired
    BY <2>1
  <2> QED BY <1>6, <2>2 DEF Created
<1>7. ASSUME NEW t \in TimerIds, Cancelled(t) PROVE CalledAtMostOnce'
  <2>1. \A x \in TimerIds : cleared'[x] = "taken" => removed'[x]
    BY <1>7 DEF Cancelled
  <2> QED BY <1>7, <2>1 DEF Cancelled
<1> QED BY <1>2, <1>3, <1>4, <1>5, <1>6, <1>7 DEF Move

LEMMA CallsInvariant == Safety => [](TypeOK /\ Places /\ CalledAtMostOnce)
<1>1. Init => CalledAtMostOnce
  BY DEF Init, CalledAtMostOnce
<1> QED BY <1>1, CallsStep, TypeStep, PlacesCorrect, PTL DEF Safety

\* A timer for which cancelEvent() returned true is never called again, and a
\* setTimeout timer is never called twice.
THEOREM CallsCorrect == Safety => CallsAllowed
<1> DEFINE Allowed == (called' /\ ~called) =>
                        /\ cleared[cur] # "taken"
                        /\ oneShot[cur] => cur \notin fired
<1>1. TypeOK /\ Places /\ CalledAtMostOnce /\ [Next]_vars => [Allowed]_vars
  <2> SUFFICES ASSUME TypeOK, Places, CalledAtMostOnce, Move, called', ~called
               PROVE  /\ cleared[cur] # "taken"
                      /\ oneShot[cur] => cur \notin fired
    BY Moves
  <2>1. PICK t \in TimerIds : Begins(t)
    BY DEF Move, Stays, Taken, LeftBehind, Passes, Expires, Dropped, Ends, Released,
           Created, Cancelled
  <2>2. Served = {t} /\ ~removed[t]
    BY <2>1 DEF Begins
  <2>3. cur = t
    BY <2>2 DEF Served
  <2> QED BY <2>2, <2>3 DEF CalledAtMostOnce
<1> QED BY <1>1, CallsInvariant, PTL DEF Safety, CallsAllowed

-----------------------------------------------------------------------------
(* The time run() sleeps to                                                *)

\* Where run() has computed it, for all that was listed then.
Computed ==
  \/ pc \in {"pop", "apply", "release", "sleep", "waiting"}
  \/ pc = "runners" /\ visit > Len(looprunners)

InTime == \A t \in known : t \in Listed /\ (timeout <= due[t] \/ timeout = 0)

\* A pass without a runner has nothing to look at.
Planned == (Computed => InTime) /\ (looprunners = <<>> => known = {})

LEMMA StillInTime ==
  ASSUME InTime, UNCHANGED <<known, timeout>>, Listed \subseteq Listed',
         \A t \in Listed : due'[t] = due[t]
  PROVE  InTime'
BY DEF InTime

LEMMA PlannedStep == TypeOK /\ Places /\ Planned /\ [Next]_vars => Planned'
<1> SUFFICES ASSUME TypeOK, Places, Planned, [Next]_vars PROVE Planned'
  OBVIOUS
<1>1. /\ timers \in Seq(TimerIds) /\ due \in [TimerIds -> Int]
      /\ timeout \in Nat /\ visit \in Nat \ {0} /\ Len(looprunners) \in Nat
      /\ pc \in Loop!PCs /\ looprunners \in Seq({STRunner})
      /\ sanity # NotChecking => Loop!InRunner
      /\ called => pc = "apply"
  BY DEF TypeOK, Loop!TypeOK
<1> USE DEF stVars, objVars, histVars
<1>2. ASSUME UNCHANGED <<known, timeout, timers, due, looprunners>>, Computed' => Computed
      PROVE  Planned'
  <2>1. Listed' = Listed
    BY <1>2 DEF Listed
  <2> QED BY <1>2, <2>1, StillInTime DEF Planned
<1>3. CASE LoopOnly
  <2>1. CASE Loop!LoopHead
    <3>1. CASE pc' = "exit"
      BY <2>1, <3>1, <1>3 DEF Loop!LoopHead, LoopOnly, Planned, Computed
    <3>2. CASE pc' = "runners"
      <4>1. visit' = 1 /\ UNCHANGED <<looprunners, known>>
        BY <1>3, <2>1, <3>2 DEF Loop!LoopHead, LoopOnly
      <4>2. Computed' => looprunners = <<>>
        BY <1>1, <3>2, <4>1 DEF Computed
      <4> QED BY <4>1, <4>2 DEF Planned, InTime
    <3> QED BY <2>1, <3>1, <3>2 DEF Loop!LoopHead
  <2>2. CASE Loop!RunnersDone \/ Loop!Pop \/ Loop!Sleep
    <3>1. Computed /\ UNCHANGED <<timeout, looprunners>>
      BY <2>2 DEF Loop!RunnersDone, Loop!Pop, Loop!Sleep, Computed, Loop!passVars
    <3> QED BY <1>2, <1>3, <3>1 DEF LoopOnly
  <2>3. CASE Loop!WakeTimeout
    <3>1. ~Computed' /\ UNCHANGED <<timeout, looprunners>>
      BY <2>3 DEF Loop!WakeTimeout, Loop!Woken, Computed, Loop!passVars
    <3> QED BY <1>2, <1>3, <3>1 DEF LoopOnly
  <2> QED BY <1>3, <2>1, <2>2, <2>3 DEF LoopOnly
<1>4. CASE RunExit
  BY <1>2, <1>4 DEF RunExit, Loop!RunExit, Loop!passVars, Computed
<1>5. CASE CheckBegin \/ NothingRipe
  BY <1>2, <1>5 DEF CheckBegin, NothingRipe, loopVars, Computed
<1>6. CASE PostExpired \/ ReleaseRemoved
  <2>1. Loop!InRunner
    BY <1>1, <1>6 DEF PostExpired, ReleaseRemoved, Iterate, NotChecking
  <2>2. UNCHANGED <<pc, visit, looprunners, known>>
    BY <1>6 DEF PostExpired, ReleaseRemoved, Loop!RunnerPost, Loop!passVars, loopVars
  <2>3. ~Computed'
    BY <1>1, <2>1, <2>2 DEF Computed, Loop!InRunner
  <2> QED BY <2>2, <2>3 DEF Planned
<1>7. CASE CheckReturn
  <2>1. looprunners # <<>> /\ UNCHANGED looprunners
    BY <1>1, <1>7 DEF CheckReturn, Loop!RunnerReturn, Loop!InRunner
  <2>2. PICK n : n = NextDue
    OBVIOUS
  <2>3. n \in 0..DefaultWait /\ (timers # <<>> => n = 0 \/ n <= due[Head(timers)])
    BY <1>1, <2>2, NextDueFacts
  <2>4. timeout' = IF n < timeout THEN n ELSE timeout
    BY <1>7, <2>2 DEF CheckReturn, Loop!RunnerReturn
  <2>5. known' = Listed /\ Listed' = Listed /\ due' = due
    BY <1>7 DEF CheckReturn, Listed
  <2>6. ASSUME NEW t \in Listed PROVE timeout' <= due[t] \/ timeout' = 0
    <3>1. timers # <<>> /\ t \in TimerIds
      BY <1>1, <2>6, RangeIsImage DEF Listed
    <3>2. t = Head(timers) \/ t \in Range(Tail(timers))
      BY <1>1, <2>6, <3>1, TailFacts DEF Listed
    <3>3. Head(timers) \in TimerIds
      BY <1>1, <3>1, TailFacts
    <3>4. due[Head(timers)] <= due[t] /\ due[Head(timers)] \in Int /\ due[t] \in Int
      <4>1. \A x \in Range(Tail(timers)) : due[Head(timers)] <= due[x]
        BY <1>1, <3>1, OrderedTail DEF Places
      <4> QED BY <1>1, <3>1, <3>2, <3>3, <4>1
    <3> QED BY <1>1, <2>3, <2>4, <3>1, <3>4
  <2>7. InTime'
    BY <2>5, <2>6 DEF InTime
  <2> QED BY <2>1, <2>7 DEF Planned
<1>8. CASE CallFunction
  <2>1. Computed /\ UNCHANGED <<timeout, looprunners>>
    BY <1>8 DEF CallFunction, Loop!ApplyDone, Loop!passVars, loopVars, Computed
  <2> QED BY <1>2, <1>8, <2>1 DEF CallFunction
<1>9. ASSUME called, Rearm, UNCHANGED <<known, timeout, looprunners>> PROVE Planned'
  <2>1. Computed /\ cur \in TimerIds /\ cur \notin Listed /\ delay[cur] \in Int
    BY <1>1, <1>9 DEF Computed, TypeOK, Places, Apart, Served
  <2>2. CASE UNCHANGED <<timers, due>>
    BY <1>2, <1>9, <2>1, <2>2
  <2>3. CASE Schedule(cur, delay[cur])
    <3>1. Listed \subseteq Listed'
      BY <2>1, <2>3, ScheduleTypes DEF Listed
    <3>2. \A t \in Listed : due'[t] = due[t]
      BY <1>1, <2>1, <2>3, RangeIsImage DEF Schedule, Listed
    <3>3. InTime'
      BY <1>9, <2>1, <3>1, <3>2, StillInTime DEF Planned
    <3> QED BY <1>9, <3>3 DEF Planned
  <2> QED BY <1>9, <2>2, <2>3 DEF Rearm
<1>10. CASE FunctionReturns
  BY <1>9, <1>10 DEF FunctionReturns, Loop!ApplyDone, Loop!passVars
<1>11. ASSUME NEW h, FunctionThrows(h) PROVE Planned'
  BY <1>9, <1>11 DEF FunctionThrows, Loop!ApplyThrow, Loop!ApplyDone, Loop!Rethrow,
                     Loop!passVars
<1>12. CASE Release
  <2>1. Computed /\ UNCHANGED <<timeout, looprunners>>
    BY <1>12 DEF Release, Loop!ReleaseDone, Loop!passVars, Computed
  <2> QED BY <1>2, <1>12, <2>1 DEF Release
<1>13. CASE MessageDone
  <2>1. Computed /\ UNCHANGED <<timeout, looprunners>>
    BY <1>13 DEF MessageDone, Loop!ApplyDone, Loop!ApplyThrow, Loop!Rethrow, Loop!passVars,
                 Computed
  <2> QED BY <1>2, <1>13, <2>1 DEF MessageDone
<1>14. CASE Register
  <2>1. PICK i \in 1..(Len(looprunners) + 1) :
          looprunners' = Loop!InsertAt(looprunners, i, STRunner)
    BY <1>14 DEF Register, Loop!AddLoopRunner
  <2>2. looprunners' = InsertAt(looprunners, i, STRunner)
    BY <2>1 DEF InsertAt, Loop!InsertAt
  <2>3. Len(looprunners') = Len(looprunners) + 1
    BY <1>1, <2>2, InsertAtFacts
  <2>4. looprunners' # <<>>
    BY <1>1, <2>3
  <2>5. ~Computed'
    BY <1>14 DEF Register, Loop!AddLoopRunner, Computed
  <2> QED BY <2>4, <2>5 DEF Planned
<1>15. ASSUME NEW d \in Delays, NEW once, SetTimer(d, once) PROVE Planned'
  <2>1. PICK t : t = lastId + 1
    OBVIOUS
  <2>2. t \in TimerIds /\ d \in Int /\ Schedule(t, d) /\ t \notin 1..lastId
    BY <1>15, <2>1 DEF SetTimer, TimerIds, TypeOK
  <2>3. t \notin Listed
    BY <2>2 DEF Places, Apart
  <2>4. Listed \subseteq Listed'
    BY <2>2, ScheduleTypes DEF Listed
  <2>5. \A x \in Listed : due'[x] = due[x]
    BY <1>1, <2>2, <2>3, RangeIsImage DEF Schedule, Listed
  <2>6. UNCHANGED <<known, timeout, looprunners, pc, visit>>
    BY <1>15 DEF SetTimer, loopVars
  <2>7. InTime => InTime'
    BY <2>4, <2>5, <2>6, StillInTime
  <2>8. Computed' = Computed
    BY <2>6 DEF Computed
  <2> QED BY <2>6, <2>7, <2>8 DEF Planned
<1>16. ASSUME NEW t, ClearTimer(t) \/ HostCancel(t) PROVE Planned'
  BY <1>2, <1>16 DEF ClearTimer, HostCancel, loopVars, Computed
<1>17. CASE Tick
  <2>1. UNCHANGED <<pc, visit, looprunners, known, Listed>>
    BY <1>17 DEF Tick, Listed
  <2>2. timeout' = IF 0 >= timeout - 1 THEN 0 ELSE timeout - 1
    <3>1. Max({0, timeout - 1}) = IF 0 >= timeout - 1 THEN 0 ELSE timeout - 1
      BY <1>1, MaxOfTwo
    <3> QED BY <1>17, <3>1 DEF Tick
  <2>3. ASSUME NEW t \in Listed
        PROVE  due'[t] = (IF -1 >= due[t] - 1 THEN -1 ELSE due[t] - 1) /\ due[t] \in Int
    <3>1. t \in TimerIds /\ due[t] \in Int
      BY <1>1, <2>3, RangeIsImage DEF Listed
    <3>2. Max({-1, due[t] - 1}) = IF -1 >= due[t] - 1 THEN -1 ELSE due[t] - 1
      BY <3>1, MaxOfTwo
    <3>3. due'[t] = Max({-1, due[t] - 1})
      BY <1>17, <2>3, <3>1 DEF Tick, Listed
    <3> QED BY <3>1, <3>2, <3>3
  <2>4. ASSUME InTime PROVE InTime'
    <3> SUFFICES ASSUME NEW t \in known
                 PROVE  t \in Listed /\ (timeout' <= due'[t] \/ timeout' = 0)
      BY <2>1 DEF InTime
    <3>1. t \in Listed /\ (timeout <= due[t] \/ timeout = 0)
      BY <2>4 DEF InTime
    <3>2. PICK a \in Int : a = due[t]
      BY <2>3, <3>1
    <3>3. due'[t] = IF -1 >= a - 1 THEN -1 ELSE a - 1
      BY <2>3, <3>1, <3>2
    <3> QED BY <1>1, <2>2, <3>1, <3>2, <3>3
  <2>5. Computed' = Computed
    BY <2>1 DEF Computed
  <2> QED BY <2>1, <2>4, <2>5 DEF Planned
<1>18. CASE Others
  <2>1. /\ UNCHANGED <<timeout, looprunners, visit>>
        /\ pc' = pc \/ pc' = "head"
    BY <1>18 DEF Others, Loop!RunStart, Loop!SpuriousWake, Loop!Woken, Loop!Terminate,
                 Loop!Post, Loop!passVars
  <2>2. Computed' => Computed
    BY <2>1 DEF Computed
  <2> QED BY <1>2, <1>18, <2>1, <2>2 DEF Others
<1>19. ASSUME NEW p, Notify(p) PROVE Planned'
  <2>1. /\ UNCHANGED <<timeout, looprunners, visit>>
        /\ pc' = pc \/ pc' = "head"
    BY <1>19 DEF Notify, Loop!Notify, Loop!passVars
  <2>2. Computed' => Computed
    BY <2>1 DEF Computed
  <2> QED BY <1>2, <1>19, <2>1, <2>2 DEF Notify
<1>20. CASE UNCHANGED vars
  BY <1>2, <1>20 DEF vars, loopVars, Computed
<1> QED
  BY <1>3, <1>4, <1>5, <1>6, <1>7, <1>8, <1>10, <1>11, <1>12, <1>13, <1>14, <1>15,
     <1>16, <1>17, <1>18, <1>19, <1>20
  DEF Next, RunThread, Script

\* run() does not plan to sleep past the time of any timer that checkTimeouts()
\* left in the list: to look at its front is enough.
THEOREM KnownTimersInTime == Safety => []KnownInTime
<1>1. Init => Planned
  BY DEF Init, Loop!Init, Loop!LoopInit, Planned, Computed
<1>2. TypeOK /\ Planned => KnownInTime
  BY DEF TypeOK, Loop!TypeOK, Loop!PCs, Planned, Computed, InTime, KnownInTime
<1> QED BY <1>1, <1>2, PlannedStep, TypeStep, PlacesCorrect, PTL DEF Safety
=============================================================================
