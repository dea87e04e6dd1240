-------------------------- MODULE EventLoopProofs ---------------------------
(***************************************************************************)
(* Proofs about EventLoop: its types, the exactness of a pass over the     *)
(* loop runners, and that it implements Mailbox, for any events, posters,  *)
(* runners, priorities and default wait.                                   *)
(***************************************************************************)
EXTENDS EventLoop, SequenceFacts

-----------------------------------------------------------------------------
(* Types.                                                                  *)

\* addLoopRunner() leaves a list of runners, a place in it and what is owed.
LEMMA AddLoopRunnerTypes ==
  ASSUME TypeOK, NEW r \in LoopRunners, AddLoopRunner(r)
  PROVE  TypeOK'
<1>1. PICK i \in 1..(Len(looprunners) + 1) :
        /\ looprunners' = InsertAt(looprunners, i, r)
        /\ visit' = IF pc = "runners" /\ i <= visit THEN visit + 1 ELSE visit
        /\ owed' = IF pc = "runners" /\ i > visit THEN owed \cup {r} ELSE owed
  BY DEF AddLoopRunner
<1>2. looprunners \in Seq(LoopRunners)
  BY DEF TypeOK
<1>3. /\ looprunners' \in Seq(LoopRunners)
      /\ Len(looprunners') = Len(looprunners) + 1
  BY <1>1, <1>2, InsertAtFacts
<1>4. visit' \in 1..(Len(looprunners') + 1)
  BY <1>1, <1>2, <1>3 DEF TypeOK
<1>5. owed' \subseteq LoopRunners
  BY <1>1 DEF TypeOK
<1> QED BY <1>3, <1>4, <1>5 DEF TypeOK, AddLoopRunner

\* Every step of the loop and of its callers keeps the types, and keeps an event
\* out of the queue exactly while run() applies or releases it.
LEMMA TypeStep ==
  ASSUME LoopAssumption, TypeOK, [Next]_vars
  PROVE  TypeOK'
<1> USE DEF LoopAssumption, PCs, passVars
<1>1. ASSUME NEW p \in Posters, NEW e \in Events, Post(p, e) PROVE TypeOK'
  BY <1>1 DEF Post, TypeOK
<1>2. ASSUME NEW p \in Posters, Notify(p) PROVE TypeOK'
  BY <1>2 DEF Notify, TypeOK
<1>3. CASE Terminate
  BY <1>3 DEF Terminate, TypeOK
<1>4. ASSUME NEW r \in LoopRunners, AddLoopRunner(r) PROVE TypeOK'
  BY <1>4, AddLoopRunnerTypes
<1>5. CASE RunStart
  BY <1>5 DEF RunStart, TypeOK
<1>6. CASE LoopHead
  <2>1. Range(looprunners) \subseteq LoopRunners
    BY RangeIsImage DEF TypeOK
  <2>2. Len(looprunners) \in Nat
    BY DEF TypeOK
  <2> QED BY <1>6, <2>1, <2>2 DEF LoopHead, TypeOK
<1>7. ASSUME NEW e \in Events, RunnerPost(e) PROVE TypeOK'
  BY <1>7 DEF RunnerPost, TypeOK
<1>8. ASSUME NEW ret \in 0..DefaultWait, RunnerReturn(ret) PROVE TypeOK'
  BY <1>8 DEF RunnerReturn, InRunner, TypeOK
<1>9. CASE RunnersDone
  BY <1>9 DEF RunnersDone, TypeOK
<1>10. CASE RunnerThrow
  BY <1>10 DEF RunnerThrow, InRunner, TypeOK
<1>11. CASE Pop
  <2>1. CASE events = <<>>
    BY <1>11, <2>1 DEF Pop, TypeOK
  <2>2. CASE events # <<>>
    <3>1. Head(events) \in Events /\ Tail(events) \in Seq(Events)
      BY <2>2 DEF TypeOK
    <3>2. cur' = Head(events) /\ events' = Tail(events) /\ pc' = "apply"
      BY <1>11, <2>2 DEF Pop
    <3> QED BY <1>11, <3>1, <3>2 DEF Pop, TypeOK
  <2> QED BY <2>1, <2>2
<1>12. ASSUME NEW e \in Events, SelfPost(e) PROVE TypeOK'
  BY <1>12 DEF SelfPost, TypeOK
<1>13. CASE ApplyDone
  BY <1>13 DEF ApplyDone, TypeOK
<1>14. CASE ReleaseDone
  BY <1>14 DEF ReleaseDone, TypeOK
<1>15. CASE Rethrow
  BY <1>15 DEF Rethrow, TypeOK
<1>16. ASSUME NEW h \in Handled, ApplyThrow(h) PROVE TypeOK'
  BY <1>13, <1>15, <1>16 DEF ApplyThrow
<1>17. ASSUME NEW h \in Handled, ReleaseThrow(h) PROVE TypeOK'
  BY <1>14, <1>15, <1>17 DEF ReleaseThrow
<1>18. CASE Sleep
  BY <1>18 DEF Sleep, TypeOK
<1>19. CASE Woken
  BY <1>19 DEF Woken, TypeOK
<1>20. CASE RunExit
  BY <1>20 DEF RunExit, TypeOK
<1>21. CASE Tick
  BY <1>21 DEF Tick, TypeOK
<1>22. CASE UNCHANGED vars
  BY <1>22 DEF vars, TypeOK
<1>23. CASE LoopStep
  BY <1>6, <1>8, <1>9, <1>10, <1>11, <1>13, <1>14, <1>16, <1>17, <1>18, <1>19,
     <1>20, <1>23 DEF LoopStep, WakeTimeout
<1> QED
  BY <1>1, <1>2, <1>3, <1>4, <1>5, <1>7, <1>12, <1>19, <1>21, <1>22, <1>23
  DEF Next, SpuriousWake

LEMMA TypeInit ==
  ASSUME LoopAssumption, Init
  PROVE  TypeOK
<1>1. events \in Seq(Events) /\ looprunners \in Seq(LoopRunners) /\ Len(looprunners) = 0
  BY DEF Init, LoopInit
<1>2. poster \in [Posters -> {"idle", "notify"}]
  BY DEF Init, LoopInit
<1>3. cur \in Events \cup {NoEvent} /\ timeout \in 0..DefaultWait /\ visit \in 1..1
  BY DEF LoopAssumption, Init, LoopInit
<1>4. pc = "idle" /\ cur = NoEvent /\ visit = 1 /\ terminated = FALSE /\ owed = {}
  BY DEF Init, LoopInit
<1>5. visit \in 1..(Len(looprunners) + 1)
  BY <1>1, <1>4
<1>6. cur # NoEvent <=> pc \in {"apply", "release"}
  BY <1>4
<1> QED BY <1>1, <1>2, <1>3, <1>4, <1>5, <1>6 DEF TypeOK, PCs

\* Every variable of the loop has its type in every state, and run() holds an
\* event exactly while it applies or releases it.
THEOREM TypeCorrect ==
  ASSUME LoopAssumption
  PROVE  LoopSafety => []TypeOK
<1>1. Init => TypeOK
  BY TypeInit
<1>2. TypeOK /\ [Next]_vars => TypeOK'
  BY TypeStep
<1> QED BY <1>1, <1>2, PTL DEF LoopSafety

-----------------------------------------------------------------------------
(* A pass of the for loop over _looprunners.                               *)

\* addLoopRunner() keeps the list sorted and free of duplicates.
LEMMA AddKeepsSorted ==
  ASSUME LoopAssumption, TypeOK, RunnersSorted,
         NEW r \in LoopRunners, AddLoopRunner(r)
  PROVE  RunnersSorted'
<1>1. PICK i \in 1..(Len(looprunners) + 1) :
        /\ IsPlace(looprunners, r, i)
        /\ looprunners' = InsertAt(looprunners, i, r)
  BY DEF AddLoopRunner
<1>2. looprunners \in Seq(LoopRunners) /\ r \notin Range(looprunners)
  BY DEF TypeOK, AddLoopRunner
<1>3. \A x \in LoopRunners : Priority[x] \in Int
  BY DEF LoopAssumption
<1>4. Ordered(looprunners, Priority)
  BY DEF RunnersSorted, Ordered
<1>5. /\ \A j \in 1..Len(looprunners) :
           (j < i) => (Priority[looprunners[j]] <= Priority[r])
      /\ \A j \in 1..Len(looprunners) :
           (j >= i) => (Priority[looprunners[j]] > Priority[r])
  BY <1>1 DEF IsPlace
<1>6. Ordered(looprunners', Priority)
  BY ONLY <1>1, <1>2, <1>3, <1>4, <1>5, OrderedInsert
<1> QED BY <1>6 DEF RunnersSorted, Ordered

\* ... and, when a runner calls it, moves neither the runner that is being
\* called nor those that are still to be called out of the rest of the pass.
LEMMA AddKeepsPass ==
  ASSUME TypeOK, PassExact, NEW r \in LoopRunners, AddLoopRunner(r),
         pc = "runners"
  PROVE  owed' = {looprunners'[j] : j \in visit'..Len(looprunners')}
<1> DEFINE n == Len(looprunners)
<1>1. PICK i \in 1..(n + 1) :
        /\ looprunners' = InsertAt(looprunners, i, r)
        /\ visit' = IF i <= visit THEN visit + 1 ELSE visit
        /\ owed' = IF i > visit THEN owed \cup {r} ELSE owed
  BY DEF AddLoopRunner
<1>2. n \in Nat /\ visit \in 1..n
  BY DEF TypeOK, AddLoopRunner
<1>3. /\ Len(looprunners') = n + 1
      /\ \A j \in 1..(n + 1) :
           looprunners'[j] = IF j < i THEN looprunners[j]
                             ELSE IF j = i THEN r ELSE looprunners[j - 1]
  <2>1. looprunners \in Seq(LoopRunners) /\ looprunners' = InsertAt(looprunners, i, r)
    BY <1>1 DEF TypeOK
  <2> QED BY <2>1, InsertAtFacts
<1>4. owed = {looprunners[j] : j \in visit..n}
  BY DEF PassExact
<1>5. CASE i <= visit
  <2>1. visit' = visit + 1 /\ owed' = owed
    BY <1>1, <1>2, <1>5
  <2>2. \A j \in (visit + 1)..(n + 1) :
          j - 1 \in visit..n /\ looprunners'[j] = looprunners[j - 1]
    BY <1>2, <1>3, <1>5
  <2>3. \A j \in visit..n :
          j + 1 \in (visit + 1)..(n + 1) /\ looprunners'[j + 1] = looprunners[j]
    BY <1>2, <1>3, <1>5
  <2>4. \A x \in owed : \E j \in (visit + 1)..(n + 1) : x = looprunners'[j]
    BY <2>3, <1>4
  <2>5. \A j \in (visit + 1)..(n + 1) : looprunners'[j] \in owed
    BY <2>2, <1>4
  <2> QED BY <2>1, <2>4, <2>5, <1>3
<1>6. CASE i > visit
  <2>1. visit' = visit /\ owed' = owed \cup {r}
    BY <1>1, <1>2, <1>6
  <2>2. ASSUME NEW j \in visit..(n + 1)
        PROVE  looprunners'[j] \in owed \cup {r}
    <3>1. CASE j < i
      BY <3>1, <1>2, <1>3, <1>4
    <3>2. CASE j = i
      BY <3>2, <1>2, <1>3
    <3>3. CASE j > i
      <4>1. j - 1 \in visit..n /\ looprunners'[j] = looprunners[j - 1]
        BY <3>3, <1>2, <1>3, <1>6
      <4> QED BY <4>1, <1>4
    <3>4. j < i \/ j = i \/ j > i
      BY <1>2
    <3> QED BY <3>1, <3>2, <3>3, <3>4
  <2>3. ASSUME NEW x \in owed \cup {r}
        PROVE  \E j \in visit..(n + 1) : x = looprunners'[j]
    <3>1. CASE x = r
      <4>1. i \in visit..(n + 1) /\ looprunners'[i] = r
        BY <1>2, <1>3, <1>6
      <4> QED BY <4>1, <3>1
    <3>2. ASSUME NEW j \in visit..n, x = looprunners[j]
          PROVE  \E k \in visit..(n + 1) : x = looprunners'[k]
      <4>1. CASE j < i
        <5>1. j \in visit..(n + 1) /\ looprunners'[j] = looprunners[j]
          BY <4>1, <1>2, <1>3
        <5> QED BY <5>1, <3>2
      <4>2. CASE j >= i
        <5>1. j + 1 \in visit..(n + 1) /\ looprunners'[j + 1] = looprunners[j]
          BY <4>2, <1>2, <1>3
        <5> QED BY <5>1, <3>2
      <4>3. j < i \/ j >= i
        BY <1>2
      <4> QED BY <4>1, <4>2, <4>3
    <3> QED BY <3>1, <3>2, <1>4
  <2> QED BY <2>1, <2>2, <2>3, <1>3
<1>7. i <= visit \/ i > visit
  BY <1>2
<1> QED BY <1>5, <1>6, <1>7

\* looped() returns: the runner that was called is the only one taken off what
\* is owed, since it is in the list once.
LEMMA ReturnKeepsPass ==
  ASSUME TypeOK, PassExact, NEW ret, RunnerReturn(ret)
  PROVE  owed' = {looprunners'[j] : j \in visit'..Len(looprunners')}
<1> DEFINE n == Len(looprunners)
<1>1. /\ n \in Nat /\ visit \in 1..n /\ visit' = visit + 1
      /\ looprunners' = looprunners /\ owed' = owed \ {looprunners[visit]}
  BY DEF TypeOK, RunnerReturn, InRunner
<1>2. owed = {looprunners[j] : j \in visit..n}
  BY DEF PassExact, RunnerReturn, InRunner
<1>3. \A j \in (visit + 1)..n : looprunners[j] # looprunners[visit]
  BY <1>1 DEF PassExact, RunnersSorted
<1>4. \A j \in visit..n : j = visit \/ j \in (visit + 1)..n
  BY <1>1
<1>5. \A j \in (visit + 1)..n : j \in visit..n
  BY <1>1
<1> QED BY <1>1, <1>2, <1>3, <1>4, <1>5

\* A step that leaves the list, the position and the debt alone, and does not
\* begin a pass, keeps PassExact.
LEMMA OutsidePass ==
  ASSUME PassExact, UNCHANGED passVars, pc' = "runners" => pc = "runners"
  PROVE  PassExact'
BY DEF PassExact, RunnersSorted, passVars

\* Every step of the loop and of its callers keeps PassExact.
LEMMA PassStep ==
  ASSUME LoopAssumption, TypeOK, PassExact, [Next]_vars
  PROVE  PassExact'
<1>1. ASSUME NEW r \in LoopRunners, AddLoopRunner(r) PROVE PassExact'
  <2>1. RunnersSorted'
    BY <1>1, AddKeepsSorted DEF PassExact
  <2>2. CASE pc = "runners"
    BY <1>1, <2>1, <2>2, AddKeepsPass DEF PassExact
  <2>3. CASE pc # "runners"
    BY <1>1, <2>1, <2>3 DEF PassExact, AddLoopRunner
  <2> QED BY <2>2, <2>3
<1>2. CASE LoopHead
  <2>1. RunnersSorted'
    BY <1>2 DEF PassExact, RunnersSorted, LoopHead
  <2>2. CASE terminated
    BY <1>2, <2>1, <2>2 DEF PassExact, LoopHead
  <2>3. CASE ~terminated
    <3>1. /\ visit' = 1 /\ looprunners' = looprunners
          /\ owed' = Range(looprunners)
      BY <1>2, <2>3 DEF LoopHead
    <3>2. Range(looprunners) = {looprunners[j] : j \in 1..Len(looprunners)}
      BY RangeIsImage DEF TypeOK
    <3> QED BY <2>1, <3>1, <3>2 DEF PassExact
  <2> QED BY <2>2, <2>3
<1>3. ASSUME NEW ret \in 0..DefaultWait, RunnerReturn(ret) PROVE PassExact'
  <2>1. RunnersSorted'
    BY <1>3 DEF PassExact, RunnersSorted, RunnerReturn
  <2> QED BY <1>3, <2>1, ReturnKeepsPass DEF PassExact
<1>4. CASE UNCHANGED vars
  BY <1>4 DEF PassExact, RunnersSorted, vars
<1>5. ASSUME NEW p \in Posters, NEW e \in Events, Post(p, e) PROVE PassExact'
  BY <1>5, OutsidePass DEF Post
<1>6. ASSUME NEW p \in Posters, Notify(p) PROVE PassExact'
  BY <1>6, OutsidePass DEF Notify
<1>7. ASSUME NEW e \in Events, RunnerPost(e) \/ SelfPost(e) PROVE PassExact'
  BY <1>7, OutsidePass DEF RunnerPost, SelfPost
<1>8. CASE Terminate \/ RunStart \/ Tick \/ Woken
  BY <1>8, OutsidePass DEF Terminate, RunStart, Tick, Woken
<1>9. CASE RunnersDone \/ RunnerThrow \/ Pop \/ Sleep \/ RunExit
  BY <1>9, OutsidePass DEF RunnersDone, RunnerThrow, Pop, Sleep, RunExit
<1>10. CASE ApplyDone \/ ReleaseDone \/ Rethrow
  BY <1>10, OutsidePass DEF ApplyDone, ReleaseDone, Rethrow
<1>11. ASSUME NEW h \in Handled, ApplyThrow(h) \/ ReleaseThrow(h) PROVE PassExact'
  BY <1>10, <1>11 DEF ApplyThrow, ReleaseThrow
<1> QED
  BY <1>1, <1>2, <1>3, <1>4, <1>5, <1>6, <1>7, <1>8, <1>9, <1>10, <1>11
  DEF Next, LoopStep, WakeTimeout, SpuriousWake

\* Each pass calls the runners that were registered when it began, once each,
\* and those that join ahead of it, although a runner may register others and
\* have the list sorted under the for loop.
THEOREM PassCorrect ==
  ASSUME LoopAssumption
  PROVE  LoopSafety => []PassExact
<1>1. Init => PassExact
  BY DEF Init, LoopInit, PassExact, RunnersSorted
<1>2. TypeOK /\ PassExact /\ [Next]_vars => PassExact'
  BY PassStep
<1>3. LoopSafety => []TypeOK
  BY TypeCorrect
<1> QED BY <1>1, <1>2, <1>3, PTL DEF LoopSafety

-----------------------------------------------------------------------------
(* EventLoop implements Mailbox.                                           *)

\* Every step of the loop and of its callers is a step of Mailbox or leaves the
\* queue, the event in hand and whether run() is active as they are.
LEMMA MailStep == TypeOK /\ [Next]_vars => [Mail!MailNext]_(Mail!mailVars)
<1> SUFFICES ASSUME TypeOK, [Next]_vars
             PROVE  Mail!MailNext \/ UNCHANGED Mail!mailVars
  BY DEF Mail!mailVars
<1> DEFINE Goal == Mail!MailNext \/ UNCHANGED Mail!mailVars
<1>1. ASSUME NEW e \in Events, events' = Append(events, e), cur' = cur,
             (pc' # "idle") <=> (pc # "idle")
      PROVE  Goal
  BY <1>1 DEF Mail!MailNext, Mail!Deliver
<1>2. ASSUME events' = events, cur' = cur, (pc' # "idle") <=> (pc # "idle")
      PROVE  Goal
  BY <1>2 DEF Mail!mailVars
<1> HIDE DEF Goal
<1>3. ASSUME NEW p \in Posters, NEW e \in Events, Post(p, e) PROVE Goal
  BY <1>3, <1>1 DEF Post
<1>4. ASSUME NEW e \in Events, RunnerPost(e) \/ SelfPost(e) PROVE Goal
  BY <1>4, <1>1 DEF RunnerPost, SelfPost
<1>5. ASSUME NEW p \in Posters, Notify(p) PROVE Goal
  BY <1>5, <1>2 DEF Notify
<1>6. ASSUME NEW r \in LoopRunners, AddLoopRunner(r) PROVE Goal
  BY <1>6, <1>2 DEF AddLoopRunner
<1>7. ASSUME Terminate \/ Tick \/ Woken \/ RunnersDone \/ Sleep \/ ApplyDone PROVE Goal
  BY <1>7, <1>2 DEF Terminate, Tick, Woken, RunnersDone, Sleep, ApplyDone
<1>8. ASSUME LoopHead PROVE Goal
  BY <1>8, <1>2 DEF LoopHead
<1>9. ASSUME NEW ret, RunnerReturn(ret) PROVE Goal
  BY <1>9, <1>2 DEF RunnerReturn
<1>10. ASSUME RunStart PROVE Goal
  BY <1>10 DEF RunStart, Goal, Mail!MailNext, Mail!Start
<1>11. ASSUME Pop PROVE Goal
  BY <1>11, <1>2 DEF Pop, TypeOK, Goal, Mail!MailNext, Mail!Take
<1>12. ASSUME ReleaseDone PROVE Goal
  BY <1>12 DEF ReleaseDone, TypeOK, Goal, Mail!MailNext, Mail!Finish
<1>13. ASSUME RunExit PROVE Goal
  BY <1>13 DEF RunExit, TypeOK, Goal, Mail!MailNext, Mail!Close
<1>14. ASSUME RunnerThrow PROVE Goal
  BY <1>14 DEF RunnerThrow, InRunner, TypeOK, Goal, Mail!MailNext, Mail!Abort
<1>15. ASSUME pc \in {"apply", "release"} /\ Rethrow PROVE Goal
  BY <1>15 DEF Rethrow, TypeOK, Goal, Mail!MailNext, Mail!Abort
<1>16. ASSUME NEW h, ApplyThrow(h) \/ ReleaseThrow(h) PROVE Goal
  BY <1>7, <1>12, <1>15, <1>16 DEF ApplyThrow, ReleaseThrow
<1>17. ASSUME UNCHANGED vars PROVE Goal
  BY <1>17, <1>2 DEF vars
<1> QED
  BY <1>3, <1>4, <1>5, <1>6, <1>7, <1>8, <1>9, <1>10, <1>11, <1>12, <1>13,
     <1>14, <1>16, <1>17
  DEF Goal, Next, LoopStep, WakeTimeout, SpuriousWake

\* EventLoop implements Mailbox: every behaviour of the loop, with its threads,
\* exceptions and time, serves events once and in the order of the posts, and
\* drops them only when run() returns.
THEOREM Refinement ==
  ASSUME LoopAssumption
  PROVE  LoopSafety => Mail!MailSafety
<1>1. Init => Mail!MailInit
  BY DEF Init, LoopInit, Mail!MailInit
<1>2. TypeOK /\ [Next]_vars => [Mail!MailNext]_(Mail!mailVars)
  BY MailStep
<1>3. LoopSafety => []TypeOK
  BY TypeCorrect
<1> QED BY <1>1, <1>2, <1>3, PTL DEF LoopSafety, Mail!MailSafety
=============================================================================
