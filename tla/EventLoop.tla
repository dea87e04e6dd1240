----------------------------- MODULE EventLoop ------------------------------
(***************************************************************************)
(* dtel::EventLoop (include/dtel/EventLoop.h): one thread calls run(), any *)
(* thread calls postEvent(), notifyChanged(), addLoopRunner(), terminate().*)
(*                                                                         *)
(* pc is the place of run() in its loop.  _mutex is held by run() exactly  *)
(* while pc = "runners", which is why no other thread posts or registers   *)
(* there; the other critical sections are single steps.  It is recursive:  *)
(* a runner, on run()'s own thread, posts and registers under it.          *)
(*                                                                         *)
(* Time is relative: timeout is what is left, in ticks, until the time     *)
(* point run() will sleep to, and Tick makes time pass.  What an event's   *)
(* apply() and release() do, and what a runner's looped() does besides     *)
(* posting and returning a time point, is left to the modules that supply  *)
(* them (SetTimeout).                                                      *)
(***************************************************************************)
EXTENDS Integers, SequencesExt

CONSTANTS
  Events,       \* event objects; one is never posted while it is in flight
  Posters,      \* the threads, other than run()'s, that post
  LoopRunners,  \* runner objects; each is registered at most once
  Priority,     \* Priority[r]: the priority r is registered with
  DefaultWait,  \* run()'s 2000 ms, in ticks
  Handled,      \* what processException() may return
  NoEvent

\* What run() and its callers take for granted; MCEventLoop assumes it, the theorems
\* have it as their hypothesis, and a module that instantiates this one has to
\* make it true.
LoopAssumption ==
  /\ NoEvent \notin Events
  /\ Priority \in [LoopRunners -> Int]
  /\ DefaultWait \in Nat \ {0}
  /\ Handled \subseteq BOOLEAN

VARIABLES
  events,       \* _events
  terminated,   \* _terminated
  looprunners,  \* _looprunners
  pc,           \* where run() is
  visit,        \* position of the list node run()'s for loop is at
  cur,          \* the event run() has popped
  timeout,      \* ticks left until run()'s wait_until time point
  poster,       \* poster[p]: p is between push_back and notify_one
  owed          \* history: the runners this pass of the for loop has to call

vars ==
  <<events, terminated, looprunners, pc, visit, cur, timeout, poster, owed>>

passVars == <<looprunners, visit, owed>>

PCs == {"idle", "head", "runners", "pop", "apply", "release", "sleep",
        "waiting", "exit"}

\* The bound on posting: a sender creates a new event object per post, and an
\* object is posted again (an interval timer) only once it has been taken.
Fresh(e) == e \notin Range(events) /\ e # cur

LoopInit ==
  /\ events = <<>> /\ terminated = FALSE /\ looprunners = <<>>
  /\ pc = "idle" /\ visit = 1 /\ cur = NoEvent /\ timeout = 0
  /\ poster = [p \in Posters |-> "idle"]
  /\ owed = {}

-----------------------------------------------------------------------------
(* The calls of other threads.                                             *)

\* postEvent(), first half: push_back under _mutex.
Post(p, e) ==
  /\ poster[p] = "idle" /\ pc # "runners" /\ Fresh(e)
  /\ events' = Append(events, e)
  /\ poster' = [poster EXCEPT ![p] = "notify"]
  /\ UNCHANGED <<terminated, pc, cur, timeout, passVars>>

\* postEvent(), second half, after _mutex is released: notify_one.  Nobody but
\* run() waits on _events_cv, and a notification nobody waits for is lost.
Notify(p) ==
  /\ poster[p] = "notify"
  /\ poster' = [poster EXCEPT ![p] = "idle"]
  /\ pc' = IF pc = "waiting" THEN "head" ELSE pc
  /\ UNCHANGED <<events, terminated, cur, timeout, passVars>>

\* terminate() notifies nobody.
Terminate ==
  /\ terminated' = TRUE
  /\ UNCHANGED <<events, pc, cur, timeout, poster, passVars>>

-----------------------------------------------------------------------------
(* addLoopRunner(): emplace_back and a stable sort on the priority, which  *)
(* leave the new node after those of the same priority.                    *)

\* The place in the sorted list s that the sort gives to a new runner r.
IsPlace(s, r, i) ==
  /\ \A j \in 1..Len(s) : (j < i) => (Priority[s[j]] <= Priority[r])
  /\ \A j \in 1..Len(s) : (j >= i) => (Priority[s[j]] > Priority[r])

\* Faulty variant: the position is an index, which the sort does not adjust.
AddLoopRunnerByIndex(r) ==
  /\ r \notin Range(looprunners)
  /\ pc = "runners" => visit <= Len(looprunners)
  /\ \E i \in 1..(Len(looprunners) + 1) :
       /\ IsPlace(looprunners, r, i)
       /\ looprunners' = InsertAt(looprunners, i, r)
       /\ owed' = IF pc = "runners" /\ i > visit THEN owed \cup {r} ELSE owed
  /\ UNCHANGED <<events, terminated, pc, visit, cur, timeout, poster>>

\* Any thread between passes, or the runner being called: list iterators
\* survive push_back and sort, so the for loop stays at the node it was at.
AddLoopRunner(r) ==
  /\ r \notin Range(looprunners)
  /\ pc = "runners" => visit <= Len(looprunners)
  /\ \E i \in 1..(Len(looprunners) + 1) :
       /\ IsPlace(looprunners, r, i)
       /\ looprunners' = InsertAt(looprunners, i, r)
       /\ visit' = IF pc = "runners" /\ i <= visit THEN visit + 1 ELSE visit
       /\ owed' = IF pc = "runners" /\ i > visit THEN owed \cup {r} ELSE owed
  /\ UNCHANGED <<events, terminated, pc, cur, timeout, poster>>

-----------------------------------------------------------------------------
(* run()                                                                   *)

RunStart ==
  /\ pc = "idle"
  /\ pc' = "head" /\ terminated' = FALSE
  /\ UNCHANGED <<events, cur, timeout, poster, passVars>>

\* Faulty variant: what is queued is served before the loop stops.
LoopHeadWhenEmpty ==
  /\ pc = "head"
  /\ pc' = IF terminated /\ events = <<>> THEN "exit" ELSE "runners"
  /\ visit' = 1 /\ timeout' = DefaultWait /\ owed' = Range(looprunners)
  /\ UNCHANGED <<events, terminated, looprunners, cur, poster>>

\* The test of while (!_terminated), then the default time point and _mutex.
LoopHead ==
  /\ pc = "head"
  /\ \/ /\ terminated
        /\ pc' = "exit" /\ UNCHANGED <<visit, timeout, owed>>
     \/ /\ ~terminated
        /\ pc' = "runners" /\ visit' = 1 /\ timeout' = DefaultWait
        /\ owed' = Range(looprunners)
  /\ UNCHANGED <<events, terminated, looprunners, cur, poster>>

InRunner == pc = "runners" /\ visit <= Len(looprunners)

\* looped() posts an event: postEvent() on run()'s thread, nobody is waiting.
RunnerPost(e) ==
  /\ InRunner /\ Fresh(e)
  /\ events' = Append(events, e)
  /\ UNCHANGED <<terminated, pc, cur, timeout, poster, passVars>>

\* looped() returns a time point ret ticks away; no time point, and one later
\* than DefaultWait, are DefaultWait: neither is ever below timeout.
RunnerReturn(ret) ==
  /\ InRunner
  /\ timeout' = IF ret < timeout THEN ret ELSE timeout
  /\ visit' = visit + 1
  /\ owed' = owed \ {looprunners[visit]}
  /\ UNCHANGED <<events, terminated, looprunners, pc, cur, poster>>

\* looped() throws: run() catches nothing here, and the exception leaves it.
RunnerThrow ==
  /\ InRunner
  /\ pc' = "idle"
  /\ UNCHANGED <<events, terminated, cur, timeout, poster, passVars>>

RunnersDone ==
  /\ pc = "runners" /\ visit > Len(looprunners)
  /\ pc' = "pop"
  /\ UNCHANGED <<events, terminated, cur, timeout, poster, passVars>>

\* Faulty variant: the newest event is taken.
PopNewest ==
  /\ pc = "pop"
  /\ \/ /\ events = <<>>
        /\ pc' = "sleep" /\ UNCHANGED <<events, cur>>
     \/ /\ events # <<>>
        /\ cur' = Last(events) /\ events' = Front(events) /\ pc' = "apply"
  /\ UNCHANGED <<terminated, timeout, poster, passVars>>

Pop ==
  /\ pc = "pop"
  /\ \/ /\ events = <<>>
        /\ pc' = "sleep" /\ UNCHANGED <<events, cur>>
     \/ /\ events # <<>>
        /\ cur' = Head(events) /\ events' = Tail(events) /\ pc' = "apply"
  /\ UNCHANGED <<terminated, timeout, poster, passVars>>

\* apply() posts an event to its own loop.
SelfPost(e) ==
  /\ pc = "apply" /\ Fresh(e)
  /\ events' = Append(events, e)
  /\ UNCHANGED <<terminated, pc, cur, timeout, poster, passVars>>

ApplyDone ==
  /\ pc = "apply" /\ pc' = "release"
  /\ UNCHANGED <<events, terminated, cur, timeout, poster, passVars>>

ReleaseDone ==
  /\ pc = "release" /\ pc' = "pop" /\ cur' = NoEvent
  /\ UNCHANGED <<events, terminated, timeout, poster, passVars>>

\* processException() returned false: the exception leaves run(), which
\* neither releases the event nor clears the queue.
Rethrow ==
  /\ pc' = "idle" /\ cur' = NoEvent
  /\ UNCHANGED <<events, terminated, timeout, poster, passVars>>

\* Faulty variant: an exception that was processed skips release().
ApplyThrowSkips(h) ==
  /\ pc = "apply" /\ pc' = (IF h THEN "pop" ELSE "idle")
  /\ UNCHANGED <<events, terminated, cur, timeout, poster, passVars>>

ApplyThrow(h) == pc = "apply" /\ IF h THEN ApplyDone ELSE Rethrow

ReleaseThrow(h) == pc = "release" /\ IF h THEN ReleaseDone ELSE Rethrow

\* wait_until() without a predicate: whatever was posted since the last Pop
\* goes unseen.
Sleep ==
  /\ pc = "sleep" /\ pc' = "waiting"
  /\ UNCHANGED <<events, terminated, cur, timeout, poster, passVars>>

Woken ==
  /\ pc = "waiting" /\ pc' = "head"
  /\ UNCHANGED <<events, terminated, cur, timeout, poster, passVars>>

WakeTimeout == timeout = 0 /\ Woken

\* A condition variable may also wake for no reason.
SpuriousWake == Woken

RunExit ==
  /\ pc = "exit"
  /\ events' = <<>> /\ pc' = "idle"
  /\ UNCHANGED <<terminated, cur, timeout, poster, passVars>>

Tick ==
  /\ timeout > 0 /\ timeout' = timeout - 1
  /\ UNCHANGED <<events, terminated, pc, cur, poster, passVars>>

-----------------------------------------------------------------------------
LoopStep ==
  \/ LoopHead \/ RunnersDone \/ Pop \/ Sleep \/ WakeTimeout \/ RunExit
  \/ RunnerThrow \/ \E ret \in 0..DefaultWait : RunnerReturn(ret)
  \/ ApplyDone \/ ReleaseDone
  \/ \E h \in Handled : ApplyThrow(h) \/ ReleaseThrow(h)

Next ==
  \/ LoopStep \/ RunStart \/ SpuriousWake \/ Terminate \/ Tick
  \/ \E e \in Events : RunnerPost(e) \/ SelfPost(e)
  \/ \E p \in Posters : Notify(p) \/ \E e \in Events : Post(p, e)
  \/ \E r \in LoopRunners : AddLoopRunner(r)

Init == LoopInit

LoopSafety == Init /\ [][Next]_vars

\* run()'s thread and a thread inside postEvent() are scheduled, and time
\* passes.  That handlers return is assumed; that anybody calls run(), posts or
\* terminates is not.
Fairness ==
  /\ WF_vars(LoopStep)
  /\ WF_vars(Tick)
  /\ \A p \in Posters : WF_vars(Notify(p))

Spec == LoopSafety /\ Fairness

-----------------------------------------------------------------------------
(* Properties                                                              *)

\* Every variable has its type, and an event is out of the queue exactly while
\* run() applies or releases it.
TypeOK ==
  /\ events \in Seq(Events)
  /\ terminated \in BOOLEAN
  /\ looprunners \in Seq(LoopRunners)
  /\ pc \in PCs
  /\ visit \in 1..(Len(looprunners) + 1)
  /\ cur \in Events \cup {NoEvent}
  /\ timeout \in 0..DefaultWait
  /\ poster \in [Posters -> {"idle", "notify"}]
  /\ owed \subseteq LoopRunners
  /\ cur # NoEvent <=> pc \in {"apply", "release"}

RunnersSorted ==
  \A i, j \in 1..Len(looprunners) :
    i < j => /\ looprunners[i] # looprunners[j]
             /\ Priority[looprunners[i]] <= Priority[looprunners[j]]

\* The for loop over _looprunners calls every runner that was registered when
\* the pass began once, and those that join ahead of it, by priority, although
\* the runners it calls may register others and have the list sorted under it.
PassExact ==
  /\ RunnersSorted
  /\ pc = "runners" => owed = {looprunners[j] : j \in visit..Len(looprunners)}

\* EventLoop implements Mailbox: threads, phases, exceptions and time change
\* neither the order nor the number of times events are served, and an event
\* posted to a running loop is served or dropped when run() returns, lost
\* notifications notwithstanding.
Mail == INSTANCE Mailbox
          WITH pending <- events, serving <- cur, running <- pc # "idle"

IsMailbox == Mail!MailSpec

\* After terminate() a running loop returns from run(), provided its queue
\* drains again and again: the test of _terminated is outside the inner loop.
TerminateStopsWhenDrained ==
  []<>(pc \in {"sleep", "idle"})
    => ((terminated /\ pc # "idle") ~> (pc = "idle"))
=============================================================================
