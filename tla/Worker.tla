------------------------------- MODULE Worker -------------------------------
(***************************************************************************)
(* One JavaScript Worker (include/dtel/lib/worker/Worker.h): the thread    *)
(* that creates it runs its own EventLoop, the worker's thread runs        *)
(* another, and WorkerData passes messages between the two.  The worker's  *)
(* loop is an EventLoop; the creator's is a Mailbox, which EventLoop       *)
(* implements.  The program around them is that of example/Example.cpp:    *)
(* scripts, run(), the end of the loop object, the end of the heap.        *)
(*                                                                         *)
(* The Worker object is referenced by WorkerData itself (_workerref), so   *)
(* its finalizer, which deletes the WorkerData, runs when the heap ends    *)
(* and not before.  _lock is held across steps by the creator only, in     *)
(* postMessage() and in ~WorkerData(); the worker takes it and gives it    *)
(* back in one step.                                                       *)
(***************************************************************************)
EXTENDS Integers, Sequences, SequencesExt

CONSTANTS
  ToWorker,     \* WorkerPostMessageEvents
  Timers,       \* the worker's timers, as events of its loop
  STRunner,     \* the loop runner of its timers
  ToCreator,    \* PostMessageEvents and ErrorEvents
  DefaultWait, NoEvent    \* as in EventLoop

ASSUME WorkerAssumption ==
  /\ NoEvent \notin ToWorker \cup Timers \cup ToCreator
  /\ DefaultWait \in Nat \ {0}

VARIABLES
  pending, serving, running,    \* the creator's loop, a Mailbox
  alive,        \* the creator's EventLoop object has not been destroyed
  events, terminated, looprunners, pc, visit, cur, timeout, poster, owed,
  owner,        \* where the creator's thread is in the life of the WorkerData
  thread,       \* WorkerData::_thread
  wanted,       \* the event the worker's handler is about to post
  throwing,     \* it is the ErrorEvent of an exception
  dangling      \* history: a post to the loop object after its destruction

innerVars ==
  <<events, terminated, looprunners, pc, visit, cur, timeout, poster, owed>>
outerVars == <<pending, serving, running>>
workerVars == <<wanted, throwing, dangling>>
vars == <<outerVars, alive, innerVars, owner, thread, workerVars>>

Outer == INSTANCE Mailbox WITH Events <- ToCreator
Inner == INSTANCE EventLoop
           WITH Events <- ToWorker \cup Timers, Posters <- {"creator"},
                LoopRunners <- {STRunner}, Priority <- [r \in {STRunner} |-> 5],
                Handled <- {TRUE}

Owners == {"none", "loading", "failed", "ready", "terminate", "join", "freed",
           "crashed"}

Init ==
  /\ Outer!MailInit /\ Inner!LoopInit
  /\ alive = TRUE /\ owner = "none" /\ thread = "none"
  /\ wanted = NoEvent /\ throwing = FALSE /\ dangling = FALSE

\* _lock, as the worker's thread sees it.
Locked == poster["creator"] = "notify" \/ owner \in {"terminate", "join"}

CreatorFree == poster["creator"] = "idle" /\ owner \in {"none", "failed", "ready"}

\* The creator's scripts run outside of run() or in the handler of an event.
JsRuns == CreatorFree /\ alive /\ (running => serving # NoEvent)

Fresh(e) == e \notin Range(pending) /\ e # serving

-----------------------------------------------------------------------------
(* The creator's thread                                                    *)

\* r_Worker_construct(), to the call of loadUrl().
Construct ==
  /\ JsRuns /\ owner = "none" /\ owner' = "loading"
  /\ UNCHANGED <<outerVars, alive, innerVars, thread, workerVars>>

\* The worker's script posts while loadUrl() runs it on the creator's thread;
\* or init() failed and posts the error.
LoadPosts(e) ==
  /\ owner = "loading" /\ Fresh(e)
  /\ Outer!Deliver(e)
  /\ UNCHANGED <<alive, innerVars, owner, thread, workerVars>>

\* loadUrl() registers the timer library on the worker's loop (Example.cpp).
LoadRegisters ==
  /\ owner = "loading" /\ Inner!AddLoopRunner(STRunner)
  /\ UNCHANGED <<outerVars, alive, owner, thread, workerVars>>

\* run() starts the thread.
LoadReturns ==
  /\ owner = "loading" /\ owner' = "ready" /\ thread' = "started"
  /\ UNCHANGED <<outerVars, alive, innerVars, workerVars>>

\* loadUrl() throws: there is a WorkerData and a finalizer, and no thread.
LoadThrows ==
  /\ owner = "loading" /\ owner' = "failed"
  /\ UNCHANGED <<outerVars, alive, innerVars, thread, workerVars>>

\* postMessage(), under _lock; PostReturns gives it back.
PostMessage(m) ==
  /\ JsRuns /\ owner = "ready"
  /\ Inner!Post("creator", m)
  /\ UNCHANGED <<outerVars, alive, owner, thread, workerVars>>

PostReturns ==
  /\ Inner!Notify("creator")
  /\ UNCHANGED <<outerVars, alive, owner, thread, workerVars>>

CreatorLoop ==
  /\ CreatorFree /\ alive
  /\ Outer!Start \/ Outer!Take \/ Outer!Finish \/ Outer!Close \/ Outer!Abort
  /\ UNCHANGED <<alive, innerVars, owner, thread, workerVars>>

\* The loop object goes first (Example.cpp), with what is in its queue.
DestroyLoop ==
  /\ CreatorFree /\ alive /\ ~running
  /\ alive' = FALSE
  /\ UNCHANGED <<outerVars, innerVars, owner, thread, workerVars>>

\* duk_destroy_heap() runs the finalizer, and that ~WorkerData(), which takes
\* _lock for its whole length.
DestroyHeap ==
  /\ CreatorFree /\ ~alive
  /\ owner' = IF owner = "none" THEN "freed" ELSE "terminate"
  /\ UNCHANGED <<outerVars, alive, innerVars, thread, workerVars>>

DtorTerminate ==
  /\ owner = "terminate" /\ owner' = "join"
  /\ Inner!Terminate
  /\ UNCHANGED <<outerVars, alive, thread, workerVars>>

\* Faulty variant: the thread is detached.
DtorDetach ==
  /\ owner = "join" /\ thread # "none" /\ owner' = "freed"
  /\ UNCHANGED <<outerVars, alive, innerVars, thread, workerVars>>

\* join(), then the loop and the context are deleted.
DtorJoin ==
  /\ owner = "join" /\ thread = "finished" /\ owner' = "freed"
  /\ UNCHANGED <<outerVars, alive, innerVars, thread, workerVars>>

\* join() on a null _thread.
DtorNull ==
  /\ owner = "join" /\ thread = "none" /\ owner' = "crashed"
  /\ UNCHANGED <<outerVars, alive, innerVars, thread, workerVars>>

-----------------------------------------------------------------------------
(* The worker's thread                                                     *)

\* Faulty variant: run() begins with an empty queue.
ThreadStartEmpty ==
  /\ thread = "started" /\ thread' = "running"
  /\ pc' = "head" /\ terminated' = FALSE /\ events' = <<>>
  /\ UNCHANGED <<looprunners, visit, cur, timeout, poster, owed,
                 outerVars, alive, owner, workerVars>>

\* internalRun(), which calls run().
ThreadStart ==
  /\ thread = "started" /\ thread' = "running"
  /\ Inner!RunStart
  /\ UNCHANGED <<outerVars, alive, owner, workerVars>>

\* Faulty variant: the loop waits for a notification only.
ThreadLoopUntimed ==
  /\ thread = "running"
  /\ \/ Inner!LoopHead \/ Inner!RunnersDone \/ Inner!Pop \/ Inner!ReleaseDone
     \/ Inner!Sleep \/ \E ret \in 0..DefaultWait : Inner!RunnerReturn(ret)
  /\ UNCHANGED <<outerVars, alive, owner, thread, workerVars>>

ThreadLoop ==
  /\ thread = "running"
  /\ \/ Inner!LoopHead \/ Inner!RunnersDone \/ Inner!Pop \/ Inner!ReleaseDone
     \/ Inner!Sleep \/ Inner!WakeTimeout
     \/ \E ret \in 0..DefaultWait : Inner!RunnerReturn(ret)
  /\ UNCHANGED <<outerVars, alive, owner, thread, workerVars>>

\* checkTimeouts() posts a timer that has expired: of what SetTimeout shows of the
\* timer library, what the loop sees.
TimerExpires(x) ==
  /\ Inner!RunnerPost(x)
  /\ UNCHANGED <<outerVars, alive, owner, thread, workerVars>>

ThreadWakes ==
  /\ Inner!SpuriousWake
  /\ UNCHANGED <<outerVars, alive, owner, thread, workerVars>>

ThreadReturns ==
  /\ thread = "running" /\ thread' = "finished"
  /\ Inner!RunExit
  /\ UNCHANGED <<outerVars, alive, owner, workerVars>>

\* The handler of a message or a timer calls postMessage(), or throws, for which
\* processException() calls onProcessException().  Both go on in CallerPost.
HandlerCalls(e, throws) ==
  /\ pc = "apply" /\ wanted = NoEvent /\ Fresh(e)
  /\ wanted' = e /\ throwing' = throws
  /\ UNCHANGED <<outerVars, alive, innerVars, owner, thread, dangling>>

\* callerPostMessage() and onProcessException(), once they have _lock.
CallerPost ==
  /\ wanted # NoEvent /\ ~Locked
  /\ IF alive
     THEN Outer!Deliver(wanted) /\ UNCHANGED dangling
     ELSE dangling' = TRUE /\ UNCHANGED outerVars
  /\ IF throwing THEN Inner!ApplyThrow(TRUE) ELSE UNCHANGED innerVars
  /\ wanted' = NoEvent
  /\ UNCHANGED <<alive, owner, thread, throwing>>

\* Faulty variant: a post that waits for _lock is left to itself.
HandlerReturnsEarly ==
  /\ Inner!ApplyDone
  /\ UNCHANGED <<outerVars, alive, owner, thread, workerVars>>

HandlerReturns ==
  /\ wanted = NoEvent
  /\ Inner!ApplyDone
  /\ UNCHANGED <<outerVars, alive, owner, thread, workerVars>>

Tick ==
  /\ Inner!Tick
  /\ UNCHANGED <<outerVars, alive, owner, thread, workerVars>>

-----------------------------------------------------------------------------
Creator ==
  \/ Construct \/ LoadRegisters \/ LoadReturns \/ LoadThrows \/ PostReturns \/ CreatorLoop
  \/ DestroyLoop \/ DestroyHeap \/ DtorTerminate \/ DtorJoin \/ DtorNull
  \/ \E e \in ToCreator : LoadPosts(e)
  \/ \E m \in ToWorker : PostMessage(m)

WorkerThread ==
  \/ ThreadStart \/ ThreadLoop \/ ThreadWakes \/ ThreadReturns \/ CallerPost
  \/ HandlerReturns
  \/ \E e \in ToCreator : \E throws \in BOOLEAN : HandlerCalls(e, throws)
  \/ \E x \in Timers : TimerExpires(x)

Next == Creator \/ WorkerThread \/ Tick

Safety == Init /\ [][Next]_vars

\* Threads are scheduled, time passes, a handler that returns again and again
\* to its code ends, and _lock is not withheld from a thread for ever by a
\* thread that keeps giving it back.  What the application does is up to it.
Fairness ==
  /\ WF_vars(ThreadStart \/ ThreadLoop \/ ThreadReturns)
  /\ SF_vars(CallerPost) /\ SF_vars(HandlerReturns)
  /\ WF_vars(Tick)
  /\ WF_vars(PostReturns) /\ WF_vars(DtorTerminate \/ DtorJoin \/ DtorNull)

Spec == Safety /\ Fairness

-----------------------------------------------------------------------------
(* Properties                                                              *)

\* Every variable has its type, and an event is posted by a handler only.
TypeOK ==
  /\ Inner!TypeOK
  /\ pending \in Seq(ToCreator) /\ serving \in ToCreator \cup {NoEvent}
  /\ running \in BOOLEAN /\ alive \in BOOLEAN
  /\ owner \in Owners
  /\ thread \in {"none", "started", "running", "finished"}
  /\ wanted \in ToCreator \cup {NoEvent}
  /\ throwing \in BOOLEAN /\ dangling \in BOOLEAN
  /\ wanted # NoEvent => pc = "apply"
  /\ thread = "running" <=> pc # "idle"

\* The worker's context and its loop belong to one thread at a time: the
\* creator uses them while it loads the script and after join(), the worker's
\* thread in between, and neither outlives them.
OneUserOfContext ==
  /\ owner \in {"none", "loading", "failed"} => thread = "none"
  /\ owner = "freed" => thread \in {"none", "finished"} /\ wanted = NoEvent

\* A message posted to a worker is served, if its WorkerData lives, although
\* the thread may not have begun to run and notifications may be lost.
MessageServed ==
  \A m \in ToWorker :
    (m \in Range(events) /\ owner = "ready") ~> (cur = m \/ owner # "ready")

\* ~WorkerData() returns if no handler of the worker has a post left to make
\* and run() had begun when terminate() was called.
DtorReturnsWhenQuiet ==
  ([](owner = "join" => terminated) /\ <>[](owner = "join" => wanted = NoEvent))
    => ((owner = "join" /\ thread # "none") ~> owner = "freed")

\* "** TERMINATING **", "PRESS ANY KEY TO CONTINUE" (README.md:78, 79): a program
\* that uses a worker ends, that is, ~WorkerData() returns, if terminate() was
\* not called before run() had begun, which would undo it.
DtorReturnsOnceHeard ==
  [](owner = "join" => terminated)
    => ((owner = "terminate" /\ thread # "none") ~> owner = "freed")

\* The same lines: on its way there the worker never posts to a loop object that
\* is gone.
PostsToLivingLoop == ~dangling
=============================================================================
