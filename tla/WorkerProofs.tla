---------------------------- MODULE WorkerProofs ----------------------------
(***************************************************************************)
(* Theorems about Worker, for any messages, timers and default wait: to    *)
(* the worker's loop the program does only what EventLoop allows, and to   *)
(* the creator's what Mailbox allows, so that the theorems about EventLoop *)
(* hold of it; and the worker's context has one user at a time.            *)
(***************************************************************************)
EXTENDS Worker, TLAPS

\* The theorems about EventLoop, of the worker's loop.
InnerP == INSTANCE EventLoopProofs
            WITH Events <- ToWorker \cup Timers, Posters <- {"creator"},
                 LoopRunners <- {STRunner}, Priority <- [r \in {STRunner} |-> 5],
                 Handled <- {TRUE}

USE WorkerAssumption

-----------------------------------------------------------------------------
(* The worker's loop is an EventLoop.                                      *)

LEMMA InnerAssumption == InnerP!LoopAssumption
BY DEF InnerP!LoopAssumption

\* The actions that Worker takes from EventLoop are those the theorems are about.
LEMMA SameSteps == Inner!Next => InnerP!Next
<1> USE DEF Inner!passVars, InnerP!passVars, Inner!Fresh, InnerP!Fresh, Inner!Range, InnerP!Range,
            Inner!InRunner, InnerP!InRunner
<1>1. \A p, e : Inner!Post(p, e) => InnerP!Post(p, e)
  BY DEF Inner!Post, InnerP!Post
<1>2. \A p : Inner!Notify(p) => InnerP!Notify(p)
  BY DEF Inner!Notify, InnerP!Notify
<1>3. \A r : Inner!AddLoopRunner(r) => InnerP!AddLoopRunner(r)
  BY DEF Inner!AddLoopRunner, InnerP!AddLoopRunner, Inner!IsPlace, InnerP!IsPlace,
         Inner!InsertAt, InnerP!InsertAt
<1>4. Inner!Terminate => InnerP!Terminate
  BY DEF Inner!Terminate, InnerP!Terminate
<1>5. Inner!RunStart => InnerP!RunStart
  BY DEF Inner!RunStart, InnerP!RunStart
<1>6. \A e : Inner!RunnerPost(e) => InnerP!RunnerPost(e)
  BY DEF Inner!RunnerPost, InnerP!RunnerPost
<1>7. \A e : Inner!SelfPost(e) => InnerP!SelfPost(e)
  BY DEF Inner!SelfPost, InnerP!SelfPost
<1>8. Inner!SpuriousWake => InnerP!SpuriousWake
  BY DEF Inner!SpuriousWake, InnerP!SpuriousWake, Inner!Woken, InnerP!Woken
<1>9. Inner!Tick => InnerP!Tick
  BY DEF Inner!Tick, InnerP!Tick
<1>10. Inner!LoopHead => InnerP!LoopHead
  BY DEF Inner!LoopHead, InnerP!LoopHead
<1>11. Inner!RunnersDone => InnerP!RunnersDone
  BY DEF Inner!RunnersDone, InnerP!RunnersDone
<1>12. Inner!Pop => InnerP!Pop
  BY DEF Inner!Pop, InnerP!Pop
<1>13. Inner!Sleep => InnerP!Sleep
  BY DEF Inner!Sleep, InnerP!Sleep
<1>14. Inner!WakeTimeout => InnerP!WakeTimeout
  BY DEF Inner!WakeTimeout, InnerP!WakeTimeout, Inner!Woken, InnerP!Woken
<1>15. Inner!RunExit => InnerP!RunExit
  BY DEF Inner!RunExit, InnerP!RunExit
<1>16. Inner!RunnerThrow => InnerP!RunnerThrow
  BY DEF Inner!RunnerThrow, InnerP!RunnerThrow
<1>17. \A ret : Inner!RunnerReturn(ret) => InnerP!RunnerReturn(ret)
  BY DEF Inner!RunnerReturn, InnerP!RunnerReturn
<1>18. Inner!ApplyDone => InnerP!ApplyDone
  BY DEF Inner!ApplyDone, InnerP!ApplyDone
<1>19. Inner!ReleaseDone => InnerP!ReleaseDone
  BY DEF Inner!ReleaseDone, InnerP!ReleaseDone
<1>20. \A h : Inner!ApplyThrow(h) => InnerP!ApplyThrow(h)
  BY DEF Inner!ApplyThrow, InnerP!ApplyThrow, Inner!ApplyDone, InnerP!ApplyDone,
         Inner!Rethrow, InnerP!Rethrow
<1>21. \A h : Inner!ReleaseThrow(h) => InnerP!ReleaseThrow(h)
  BY DEF Inner!ReleaseThrow, InnerP!ReleaseThrow, Inner!ReleaseDone, InnerP!ReleaseDone,
         Inner!Rethrow, InnerP!Rethrow
<1>22. Inner!LoopStep => InnerP!LoopStep
  BY <1>10, <1>11, <1>12, <1>13, <1>14, <1>15,
     <1>16, <1>17, <1>18, <1>19, <1>20, <1>21
  DEF Inner!LoopStep, InnerP!LoopStep
<1> QED
  BY <1>1, <1>2, <1>3, <1>4, <1>5, <1>6, <1>7, <1>8, <1>9, <1>22
  DEF Inner!Next, InnerP!Next

LEMMA SameStates == (Inner!Init => InnerP!Init) /\ (Inner!TypeOK <=> InnerP!TypeOK)
BY DEF Inner!Init, InnerP!Init, Inner!LoopInit, InnerP!LoopInit,
       Inner!TypeOK, InnerP!TypeOK, Inner!PCs, InnerP!PCs

\* What the program does to the worker's loop.
LEMMA InnerStep == [Next]_vars => [Inner!Next]_innerVars
<1> SUFFICES ASSUME [Next]_vars PROVE Inner!Next \/ UNCHANGED innerVars
  OBVIOUS
<1>1. ASSUME NEW e, LoadPosts(e) PROVE UNCHANGED innerVars
  BY <1>1 DEF LoadPosts
<1>2. CASE Construct \/ LoadReturns \/ LoadThrows \/ CreatorLoop \/ DestroyLoop
           \/ DestroyHeap \/ DtorJoin \/ DtorNull
  BY <1>2 DEF Construct, LoadReturns, LoadThrows, CreatorLoop, DestroyLoop, DestroyHeap,
              DtorJoin, DtorNull
<1>3. CASE LoadRegisters
  BY <1>3 DEF LoadRegisters, Inner!Next
<1>4. ASSUME NEW m \in ToWorker, PostMessage(m) PROVE Inner!Next
  BY <1>4 DEF PostMessage, Inner!Next
<1>5. CASE PostReturns
  BY <1>5 DEF PostReturns, Inner!Next
<1>6. CASE DtorTerminate
  BY <1>6 DEF DtorTerminate, Inner!Next
<1>7. CASE ThreadStart
  BY <1>7 DEF ThreadStart, Inner!Next
<1>8. CASE ThreadLoop
  BY <1>8 DEF ThreadLoop, Inner!Next, Inner!LoopStep
<1>9. CASE ThreadWakes
  BY <1>9 DEF ThreadWakes, Inner!Next
<1>10. CASE ThreadReturns
  BY <1>10 DEF ThreadReturns, Inner!Next, Inner!LoopStep
<1>11. CASE CallerPost
  <2>1. CASE throwing
    BY <1>11, <2>1 DEF CallerPost, Inner!Next, Inner!LoopStep
  <2>2. CASE ~throwing
    BY <1>11, <2>2 DEF CallerPost
  <2> QED BY <2>1, <2>2
<1>12. CASE HandlerReturns
  BY <1>12 DEF HandlerReturns, Inner!Next, Inner!LoopStep
<1>13. ASSUME NEW e, NEW throws, HandlerCalls(e, throws) PROVE UNCHANGED innerVars
  BY <1>13 DEF HandlerCalls
<1>14. ASSUME NEW x \in Timers, TimerExpires(x) PROVE Inner!Next
  BY <1>14 DEF TimerExpires, Inner!Next
<1>15. CASE Tick
  BY <1>15 DEF Tick, Inner!Next
<1>16. CASE UNCHANGED vars
  BY <1>16 DEF vars
<1> QED
  BY <1>1, <1>2, <1>3, <1>4, <1>5, <1>6, <1>7, <1>8, <1>9, <1>10, <1>11, <1>12,
     <1>13, <1>14, <1>15, <1>16
  DEF Next, Creator, WorkerThread

\* Whatever the creator, the handlers and the destructor do, the worker's loop is
\* used as EventLoop allows: its lock is respected, and run() is called, left and
\* called back in its own order.
THEOREM WorkerLoopIsEventLoop == Safety => Inner!LoopSafety
<1>1. Init => Inner!Init
  BY DEF Init, Inner!Init
<1>2. [Next]_vars => [Inner!Next]_(Inner!vars)
  BY InnerStep DEF innerVars, Inner!vars
<1> QED BY <1>1, <1>2, PTL DEF Safety, Inner!LoopSafety

-----------------------------------------------------------------------------
(* Types                                                                   *)

LEMMA InnerTypesKept == Inner!TypeOK /\ [Next]_vars => Inner!TypeOK'
<1> SUFFICES ASSUME Inner!TypeOK, [Next]_vars PROVE Inner!TypeOK'
  OBVIOUS
<1>1. InnerP!TypeOK
  BY SameStates
<1>2. [InnerP!Next]_(InnerP!vars)
  BY InnerStep, SameSteps DEF innerVars, InnerP!vars
<1>3. InnerP!TypeOK'
  BY <1>1, <1>2, InnerAssumption, InnerP!TypeStep
<1> QED BY <1>3 DEF Inner!TypeOK, InnerP!TypeOK, Inner!PCs, InnerP!PCs

\* The types of the creator's loop.
MailTypes ==
  /\ pending \in Seq(ToCreator) /\ serving \in ToCreator \cup {NoEvent}
  /\ running \in BOOLEAN

LEMMA MailTypesKept ==
  MailTypes /\ ([Outer!MailNext]_outerVars) => MailTypes'
<1> SUFFICES ASSUME MailTypes, Outer!MailNext \/ UNCHANGED outerVars PROVE MailTypes'
  OBVIOUS
<1>1. ASSUME NEW e \in ToCreator, Outer!Deliver(e) PROVE MailTypes'
  BY <1>1 DEF Outer!Deliver, MailTypes
<1>2. CASE Outer!Take
  <2>1. Head(pending) \in ToCreator /\ Tail(pending) \in Seq(ToCreator)
    BY <1>2 DEF Outer!Take, MailTypes
  <2> QED BY <1>2, <2>1 DEF Outer!Take, MailTypes
<1>3. CASE Outer!Start \/ Outer!Finish \/ Outer!Close \/ Outer!Abort
  <2>1. <<>> \in Seq(ToCreator)
    OBVIOUS
  <2>2. CASE Outer!Start
    BY <2>2 DEF Outer!Start, MailTypes
  <2>3. CASE Outer!Finish
    BY <2>3 DEF Outer!Finish, MailTypes
  <2>4. CASE Outer!Close
    BY <2>1, <2>4 DEF Outer!Close, MailTypes
  <2>5. CASE Outer!Abort
    BY <2>5 DEF Outer!Abort, MailTypes
  <2> QED BY <1>3, <2>2, <2>3, <2>4, <2>5
<1>4. CASE UNCHANGED outerVars
  BY <1>4 DEF outerVars, MailTypes
<1> QED BY <1>1, <1>2, <1>3, <1>4 DEF Outer!MailNext

\* What the program does to the creator's loop.
LEMMA OuterStep == TypeOK /\ [Next]_vars => [Outer!MailNext]_outerVars
<1> SUFFICES ASSUME TypeOK, [Next]_vars PROVE Outer!MailNext \/ UNCHANGED outerVars
  OBVIOUS
<1>1. ASSUME NEW e \in ToCreator, LoadPosts(e) PROVE Outer!MailNext
  BY <1>1 DEF LoadPosts, Outer!MailNext
<1>2. CASE CreatorLoop
  BY <1>2 DEF CreatorLoop, Outer!MailNext
<1>3. CASE CallerPost
  BY <1>3 DEF CallerPost, TypeOK, Outer!MailNext
<1>4. CASE Construct \/ LoadRegisters \/ LoadReturns \/ LoadThrows \/ PostReturns
           \/ DestroyLoop \/ DestroyHeap \/ DtorTerminate \/ DtorJoin \/ DtorNull
  BY <1>4 DEF Construct, LoadRegisters, LoadReturns, LoadThrows, PostReturns, DestroyLoop,
              DestroyHeap, DtorTerminate, DtorJoin, DtorNull
<1>5. ASSUME NEW m, PostMessage(m) PROVE UNCHANGED outerVars
  BY <1>5 DEF PostMessage
<1>6. CASE ThreadStart \/ ThreadLoop \/ ThreadWakes \/ ThreadReturns \/ HandlerReturns
           \/ Tick
  BY <1>6 DEF ThreadStart, ThreadLoop, ThreadWakes, ThreadReturns, HandlerReturns, Tick
<1>7. ASSUME NEW e, NEW throws, HandlerCalls(e, throws) PROVE UNCHANGED outerVars
  BY <1>7 DEF HandlerCalls
<1>8. ASSUME NEW x, TimerExpires(x) PROVE UNCHANGED outerVars
  BY <1>8 DEF TimerExpires
<1>9. CASE UNCHANGED vars
  BY <1>9 DEF vars
<1> QED
  BY <1>1, <1>2, <1>3, <1>4, <1>5, <1>6, <1>7, <1>8, <1>9
  DEF Next, Creator, WorkerThread

\* What is left of TypeOK: the creator's place in the life of the WorkerData, and
\* where the worker's thread and a post of its handler are.
LEMMA TypeStep == TypeOK /\ OneUserOfContext /\ [Next]_vars => TypeOK'
<1> SUFFICES ASSUME TypeOK, OneUserOfContext, [Next]_vars PROVE TypeOK'
  OBVIOUS
<1> DEFINE Rest ==
      /\ alive \in BOOLEAN /\ owner \in Owners
      /\ thread \in {"none", "started", "running", "finished"}
      /\ wanted \in ToCreator \cup {NoEvent}
      /\ throwing \in BOOLEAN /\ dangling \in BOOLEAN
      /\ wanted # NoEvent => pc = "apply"
      /\ thread = "running" <=> pc # "idle"
<1>1. Inner!TypeOK'
  BY InnerTypesKept DEF TypeOK
<1>2. MailTypes'
  BY OuterStep, MailTypesKept DEF TypeOK, MailTypes
<1>3. Rest
  BY DEF TypeOK
<1>4. Rest'
  <2> USE <1>3 DEF Owners, workerVars
  <2>1. ASSUME NEW e, LoadPosts(e) PROVE Rest'
    BY <2>1 DEF LoadPosts, innerVars
  <2>2. CASE Construct \/ LoadReturns \/ LoadThrows \/ CreatorLoop \/ DestroyLoop
             \/ DestroyHeap \/ DtorJoin \/ DtorNull
    <3>1. UNCHANGED <<pc, wanted, throwing, dangling>>
      BY <2>2 DEF Construct, LoadReturns, LoadThrows, CreatorLoop, DestroyLoop, DestroyHeap,
                  DtorJoin, DtorNull, innerVars
    <3>2. alive' \in BOOLEAN /\ owner' \in Owners
      BY <2>2 DEF Construct, LoadReturns, LoadThrows, CreatorLoop, DestroyLoop, DestroyHeap,
                  DtorJoin, DtorNull
    <3>3. CASE LoadReturns
      <4>1. thread = "none" /\ thread' = "started"
        BY <3>3 DEF LoadReturns, OneUserOfContext
      <4> QED BY <3>1, <3>2, <4>1
    <3>4. CASE ~LoadReturns
      <4>1. thread' = thread
        BY <2>2, <3>4 DEF Construct, LoadThrows, CreatorLoop, DestroyLoop, DestroyHeap,
                          DtorJoin, DtorNull
      <4> QED BY <3>1, <3>2, <4>1
    <3> QED BY <3>3, <3>4
  <2>3. CASE LoadRegisters
    BY <2>3 DEF LoadRegisters, Inner!AddLoopRunner
  <2>4. ASSUME NEW m, PostMessage(m) PROVE Rest'
    BY <2>4 DEF PostMessage, Inner!Post
  <2>5. CASE PostReturns
    BY <2>5 DEF PostReturns, Inner!Notify
  <2>6. CASE DtorTerminate
    BY <2>6 DEF DtorTerminate, Inner!Terminate
  <2>7. CASE ThreadStart
    BY <2>7 DEF ThreadStart, Inner!RunStart
  <2>8. CASE ThreadLoop
    <3>1. pc # "idle" /\ pc' # "idle" /\ pc # "apply"
      BY <2>8 DEF ThreadLoop, Inner!LoopHead, Inner!RunnersDone, Inner!Pop, Inner!ReleaseDone,
                  Inner!Sleep, Inner!WakeTimeout, Inner!Woken, Inner!RunnerReturn,
                  Inner!InRunner
    <3>2. UNCHANGED <<alive, owner, thread, wanted, throwing, dangling>>
      BY <2>8 DEF ThreadLoop
    <3>3. wanted' = NoEvent
      BY <3>1, <3>2
    <3> QED BY <3>1, <3>2, <3>3
  <2>9. CASE ThreadWakes
    BY <2>9 DEF ThreadWakes, Inner!SpuriousWake, Inner!Woken
  <2>10. CASE ThreadReturns
    BY <2>10 DEF ThreadReturns, Inner!RunExit
  <2>11. CASE CallerPost
    <3>1. wanted # NoEvent /\ wanted' = NoEvent
      BY <2>11 DEF CallerPost
    <3>2. pc # "idle" /\ pc' # "idle"
      BY <2>11, <3>1 DEF CallerPost, Inner!ApplyThrow, Inner!ApplyDone, innerVars
    <3>3. UNCHANGED <<alive, owner, thread, throwing>> /\ dangling' \in BOOLEAN
      BY <2>11 DEF CallerPost
    <3> QED BY <3>1, <3>2, <3>3
  <2>12. CASE HandlerReturns
    BY <2>12 DEF HandlerReturns, Inner!ApplyDone
  <2>13. ASSUME NEW e \in ToCreator, NEW throws \in BOOLEAN, HandlerCalls(e, throws)
         PROVE  Rest'
    BY <2>13 DEF HandlerCalls, innerVars
  <2>14. ASSUME NEW x, TimerExpires(x) PROVE Rest'
    BY <2>14 DEF TimerExpires, Inner!RunnerPost
  <2>15. CASE Tick
    BY <2>15 DEF Tick, Inner!Tick
  <2>16. CASE UNCHANGED vars
    BY <2>16 DEF vars, innerVars
  <2> QED
    BY <2>1, <2>2, <2>3, <2>4, <2>5, <2>6, <2>7, <2>8, <2>9, <2>10, <2>11, <2>12,
       <2>13, <2>14, <2>15, <2>16
    DEF Next, Creator, WorkerThread
<1> QED BY <1>1, <1>2, <1>4 DEF TypeOK, MailTypes

-----------------------------------------------------------------------------
(* The two threads                                                         *)

\* Who uses the context follows from where the two threads are.
LEMMA OneUserStep ==
  TypeOK /\ OneUserOfContext /\ [Next]_vars => OneUserOfContext'
<1> SUFFICES ASSUME TypeOK, OneUserOfContext, [Next]_vars PROVE OneUserOfContext'
  OBVIOUS
<1> USE DEF OneUserOfContext, workerVars
<1>1. ASSUME NEW e, LoadPosts(e) PROVE OneUserOfContext'
  BY <1>1 DEF LoadPosts
<1>2. CASE Construct \/ LoadReturns \/ LoadThrows \/ CreatorLoop \/ DestroyLoop
           \/ DtorNull
  BY <1>2 DEF Construct, LoadReturns, LoadThrows, CreatorLoop, DestroyLoop, DtorNull
<1>3. CASE DestroyHeap \/ DtorJoin
  BY <1>3 DEF DestroyHeap, DtorJoin, TypeOK
<1>4. CASE LoadRegisters \/ PostReturns \/ DtorTerminate
  BY <1>4 DEF LoadRegisters, PostReturns, DtorTerminate
<1>5. ASSUME NEW m, PostMessage(m) PROVE OneUserOfContext'
  BY <1>5 DEF PostMessage
<1>6. CASE ThreadStart \/ ThreadReturns
  BY <1>6 DEF ThreadStart, ThreadReturns
<1>7. CASE ThreadLoop \/ ThreadWakes \/ HandlerReturns \/ Tick
  BY <1>7 DEF ThreadLoop, ThreadWakes, HandlerReturns, Tick
<1>8. CASE CallerPost
  BY <1>8 DEF CallerPost
<1>9. ASSUME NEW e, NEW throws, HandlerCalls(e, throws) PROVE OneUserOfContext'
  BY <1>9 DEF HandlerCalls, TypeOK
<1>10. ASSUME NEW x, TimerExpires(x) PROVE OneUserOfContext'
  BY <1>10 DEF TimerExpires
<1>11. CASE UNCHANGED vars
  BY <1>11 DEF vars
<1> QED
  BY <1>1, <1>2, <1>3, <1>4, <1>5, <1>6, <1>7, <1>8, <1>9, <1>10, <1>11
  DEF Next, Creator, WorkerThread

\* Neither is inductive without the other: that LoadReturns starts a thread which
\* is not in run() yet is what OneUserOfContext says of a loading creator.
LEMMA TypesAndUsers == Safety => [](TypeOK /\ OneUserOfContext)
<1>1. Init => TypeOK
  <2> SUFFICES ASSUME Init PROVE TypeOK
    OBVIOUS
  <2>1. Inner!TypeOK
    BY InnerAssumption, SameStates, InnerP!TypeInit DEF Init, Inner!Init
  <2>2. <<>> \in Seq(ToCreator)
    OBVIOUS
  <2>3. pending \in Seq(ToCreator) /\ serving = NoEvent /\ running = FALSE
    BY <2>2 DEF Init, Outer!MailInit
  <2>4. pc = "idle"
    BY DEF Init, Inner!LoopInit
  <2> QED BY <2>1, <2>3, <2>4 DEF Init, TypeOK, Owners
<1>2. Init => OneUserOfContext
  BY DEF Init, OneUserOfContext
<1> QED BY <1>1, <1>2, TypeStep, OneUserStep, PTL DEF Safety

\* Every variable of the program has its type, the worker's thread runs exactly
\* while it is in run(), and only a handler posts.
THEOREM WorkerTypeCorrect == Safety => []TypeOK
BY TypesAndUsers, PTL

\* The worker's context is the creator's until the thread is started and after it
\* is joined, and no handler's post outlives it.
THEOREM ContextHasOneUser == Safety => []OneUserOfContext
BY TypesAndUsers, PTL

\* The worker's posts, the creator's own and the end of the loop object leave the
\* creator's loop a Mailbox: nothing that was posted to it is lost, doubled or
\* overtaken while the loop object is there.
THEOREM CreatorLoopIsMailbox == Safety => Outer!MailSafety
<1>1. Init => Outer!MailInit
  BY DEF Init
<1>2. TypeOK /\ [Next]_vars => [Outer!MailNext]_(Outer!mailVars)
  BY OuterStep DEF outerVars, Outer!mailVars
<1> QED BY <1>1, <1>2, WorkerTypeCorrect, PTL DEF Safety, Outer!MailSafety

-----------------------------------------------------------------------------
(* What is proved of EventLoop holds of the worker's loop.                 *)

\* Messages to the worker and its expired timers are served once and in the order
\* of the posts, until run() returns.
THEOREM WorkerLoopIsMailbox == Safety => Inner!Mail!MailSafety
<1>1. Init => Inner!Mail!MailInit
  BY DEF Init, Inner!Init, Inner!LoopInit, Inner!Mail!MailInit
<1>2. Inner!TypeOK /\ [Next]_vars => [Inner!Mail!MailNext]_(Inner!Mail!mailVars)
  <2> SUFFICES ASSUME Inner!TypeOK, [Next]_vars
               PROVE  [Inner!Mail!MailNext]_(Inner!Mail!mailVars)
    OBVIOUS
  <2>1. InnerP!TypeOK
    BY SameStates
  <2>2. [InnerP!Next]_(InnerP!vars)
    BY InnerStep, SameSteps DEF innerVars, InnerP!vars
  <2>3. [InnerP!Mail!MailNext]_(InnerP!Mail!mailVars)
    BY <2>1, <2>2, InnerAssumption, InnerP!MailStep
  <2> QED
    BY <2>3 DEF InnerP!Mail!MailNext, InnerP!Mail!Start, InnerP!Mail!Deliver, InnerP!Mail!Take,
      InnerP!Mail!Finish, InnerP!Mail!Close, InnerP!Mail!Abort, InnerP!Mail!mailVars,
      Inner!Mail!MailNext, Inner!Mail!Start, Inner!Mail!Deliver, Inner!Mail!Take,
      Inner!Mail!Finish, Inner!Mail!Close, Inner!Mail!Abort, Inner!Mail!mailVars
<1>3. TypeOK => Inner!TypeOK
  BY DEF TypeOK
<1> QED BY <1>1, <1>2, <1>3, WorkerTypeCorrect, PTL DEF Safety, Inner!Mail!MailSafety
=============================================================================
