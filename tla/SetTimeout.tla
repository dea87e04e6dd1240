----------------------------- MODULE SetTimeout -----------------------------
(***************************************************************************)
(* setTimeout, setInterval, clearTimeout and clearInterval                 *)
(* (include/dtel/lib/settimeout/SetTimeout.h) on the EventLoop they are    *)
(* registered on.  A timer is its id.  Each action of run()'s thread is an *)
(* action of EventLoop joined with what SetTimeoutHandler, ST_LoopRunner   *)
(* and DefaultTimeoutEvent do in it.                                       *)
(*                                                                         *)
(* JavaScript runs on run()'s thread only: before and between calls of     *)
(* run(), in a timer's callback and in the handler of a message that       *)
(* another thread posted.  Another thread that holds the handler may call  *)
(* cancelEvent().  No other loop runner is registered: no other library of *)
(* the repository has one.                                                 *)
(***************************************************************************)
EXTENDS Integers, SequencesExt

CONSTANTS
  MaxTimers,    \* bound: how many timers the scripts create
  Delays,       \* the delays they ask for, in ticks
  MaxExpirys,   \* MAX_EXPIRYS
  Messages,     \* events of other libraries that other threads post
  Posters, DefaultWait, Handled, NoEvent,   \* as in EventLoop
  STRunner      \* the ST_LoopRunner

TimerIds == 1..MaxTimers

ASSUME SetTimeoutAssumption ==
  /\ MaxTimers \in Nat
  /\ Delays \subseteq Nat
  /\ MaxExpirys \in Nat \ {0}
  /\ DefaultWait \in Nat \ {0}
  /\ Handled \subseteq BOOLEAN
  /\ NoEvent \notin TimerIds \cup Messages
  /\ Messages \cap TimerIds = {}

VARIABLES
  events, terminated, looprunners, pc, visit, cur, timeout, poster, owed,
  timers,     \* SetTimeoutHandler::_events, the second components
  due,        \* ticks left until the first component; -1: it has passed
  delay,      \* TimeoutEvent::_delay
  oneShot,    \* TimeoutEvent::_oneshot
  removed,    \* TimeoutEvent::_removed
  lastId,     \* SetTimeoutHandler::_id
  refs,       \* the ids that have a function in the PROP_ELREFS array
  sanity,     \* checkTimeouts()' counter; NotChecking outside of it
  called,     \* apply() has called the function of timer cur
  cleared,    \* history: what the last clear of each timer came to
  fired,      \* history: the timers whose function has been called
  lost,       \* history: the timers that run() left without releasing
  known       \* history: the timers listed when checkTimeouts() returned

Loop == INSTANCE EventLoop
          WITH Events <- TimerIds \cup Messages, LoopRunners <- {STRunner},
               Priority <- [r \in {STRunner} |-> 5]

loopVars ==
  <<events, terminated, looprunners, pc, visit, cur, timeout, poster, owed>>
objVars == <<due, delay, oneShot, removed>>
histVars == <<cleared, fired, lost, known>>
stVars == <<timers, objVars, lastId, refs, sanity, called, histVars>>
vars == <<loopVars, stVars>>

NotChecking == -1

Init ==
  /\ Loop!Init
  /\ timers = <<>> /\ lastId = 0 /\ refs = {}
  /\ due = [t \in TimerIds |-> 0] /\ delay = [t \in TimerIds |-> 0]
  /\ oneShot = [t \in TimerIds |-> FALSE]
  /\ removed = [t \in TimerIds |-> FALSE]
  /\ sanity = NotChecking /\ called = FALSE
  /\ cleared = [t \in TimerIds |-> "never"]
  /\ fired = {} /\ lost = {} /\ known = {}

-----------------------------------------------------------------------------
(* SetTimeoutHandler                                                       *)

\* Faulty variants: a list in order of creation, and one in reverse.
IsPlaceLast(d, i) == i = Len(timers) + 1
IsPlaceFirst(d, i) == i = 1

\* The place that emplace_back and a stable sort give to a timer due in d.
IsPlace(d, i) ==
  /\ \A j \in 1..Len(timers) : (j < i) => (due[timers[j]] <= d)
  /\ \A j \in 1..Len(timers) : (j >= i) => (due[timers[j]] > d)

\* postEvent().  It is called on run()'s thread, so its notifyChanged() finds
\* nobody waiting.
Schedule(t, d) ==
  /\ due' = [due EXCEPT ![t] = d]
  /\ \E i \in 1..(Len(timers) + 1) :
       IsPlace(d, i) /\ timers' = InsertAt(timers, i, t)

\* cancelEvent(): the search is over _events, nowhere else.  if returns false
\* for a timer that is not there.
CancelEvent(t, ifNotFound) ==
  IF t \in Range(timers)
  THEN /\ removed' = [removed EXCEPT ![t] = TRUE]
       /\ cleared' = [cleared EXCEPT ![t] = "taken"]
  ELSE /\ cleared' = [cleared EXCEPT ![t] = ifNotFound]
       /\ UNCHANGED removed

\* A thread that holds the handler, under the handler's own mutex only.
HostCancel(t) ==
  /\ t <= lastId
  /\ CancelEvent(t, cleared[t])
  /\ UNCHANGED <<loopVars, timers, due, delay, oneShot, lastId, refs, sanity,
                 called, fired, lost, known>>

-----------------------------------------------------------------------------
(* The JavaScript functions                                                *)

\* RegisterSetTimeout(), which the applications of the repository call before
\* run(), and once.
Register ==
  /\ pc = "idle"
  /\ Loop!AddLoopRunner(STRunner)
  /\ UNCHANGED stVars

JsRuns ==
  /\ looprunners # <<>>
  /\ pc = "idle" \/ (pc = "apply" /\ (called \/ cur \in Messages))

SetTimer(d, once) ==
  LET t == lastId + 1 IN
  /\ JsRuns /\ t <= MaxTimers
  /\ Schedule(t, d)
  /\ lastId' = t /\ refs' = refs \cup {t}
  /\ delay' = [delay EXCEPT ![t] = d]
  /\ oneShot' = [oneShot EXCEPT ![t] = once]
  /\ UNCHANGED <<loopVars, removed, sanity, called, histVars>>

ClearTimer(t) ==
  /\ JsRuns /\ t <= lastId
  /\ CancelEvent(t, IF called /\ cur = t THEN "self"
                    ELSE IF cleared[t] = "taken" THEN "taken" ELSE "ignored")
  /\ UNCHANGED <<loopVars, timers, due, delay, oneShot, lastId, refs, sanity,
                 called, fired, lost, known>>

-----------------------------------------------------------------------------
(* ST_LoopRunner::looped(), that is checkTimeouts()                        *)

\* It reads the clock once, here; no Tick separates the reading from its uses.
CheckBegin ==
  /\ Loop!InRunner /\ sanity = NotChecking
  /\ sanity' = MaxExpirys
  /\ UNCHANGED <<loopVars, timers, objVars, lastId, refs, called, histVars>>

\* Faulty variant: <= for <.
RipeOnTime ==
  timers # <<>> /\ (removed[Head(timers)] \/ due[Head(timers)] <= 0)

\* The front of the list is removed, or its time point is before now.
Ripe ==
  timers # <<>> /\ (removed[Head(timers)] \/ due[Head(timers)] < 0)

Iterate == sanity > 0 /\ sanity' = sanity - 1

\* Faulty variant: an expired timer overtakes the events that wait.
PostExpiredFirst ==
  /\ Iterate /\ Ripe /\ ~removed[Head(timers)]
  /\ timers' = Tail(timers)
  /\ events' = <<Head(timers)>> \o events
  /\ UNCHANGED <<terminated, looprunners, pc, visit, cur, timeout, poster, owed,
                 objVars, lastId, refs, called, histVars>>

PostExpired ==
  /\ Iterate /\ Ripe /\ ~removed[Head(timers)]
  /\ timers' = Tail(timers)
  /\ Loop!RunnerPost(Head(timers))
  /\ UNCHANGED <<objVars, lastId, refs, called, histVars>>

ReleaseRemoved ==
  /\ Iterate /\ Ripe /\ removed[Head(timers)]
  /\ timers' = Tail(timers)
  /\ refs' = refs \ {Head(timers)}
  /\ UNCHANGED <<loopVars, objVars, lastId, called, histVars>>

NothingRipe ==
  /\ Iterate /\ ~Ripe
  /\ UNCHANGED <<loopVars, timers, objVars, lastId, refs, called, histVars>>

\* Faulty variant: the time point of the last in the list.
NextDueOfLast ==
  IF timers = <<>> THEN DefaultWait
  ELSE Min({DefaultWait, Max({0, due[Last(timers)]})})

\* The time point of the front; one that has passed ends the wait at once.
NextDue ==
  IF timers = <<>> THEN DefaultWait
  ELSE Min({DefaultWait, Max({0, due[Head(timers)]})})

\* Faulty variant: the counter is static.
CheckReturnStatic ==
  /\ sanity = 0 /\ UNCHANGED sanity
  /\ Loop!RunnerReturn(NextDue)
  /\ known' = Range(timers)
  /\ UNCHANGED <<timers, objVars, lastId, refs, called, cleared, fired, lost>>

CheckReturn ==
  /\ sanity = 0 /\ sanity' = NotChecking
  /\ Loop!RunnerReturn(NextDue)
  /\ known' = Range(timers)
  /\ UNCHANGED <<timers, objVars, lastId, refs, called, cleared, fired, lost>>

-----------------------------------------------------------------------------
(* DefaultTimeoutEvent                                                     *)

\* apply(), to the call of the function.
CallFunction ==
  /\ pc = "apply" /\ cur \in TimerIds /\ ~called
  /\ IF removed[cur]
     THEN Loop!ApplyDone /\ UNCHANGED <<called, fired>>
     ELSE called' = TRUE /\ fired' = fired \cup {cur} /\ UNCHANGED loopVars
  /\ UNCHANGED <<timers, objVars, lastId, refs, sanity, cleared, lost, known>>

\* Faulty variant: a timer stays until it is removed, one-shot or not.
RearmAlways ==
  /\ UNCHANGED removed
  /\ IF removed[cur] THEN UNCHANGED <<timers, due>>
     ELSE Schedule(cur, delay[cur])

\* apply(), from the return of the function: what becomes of the timer.
Rearm ==
  IF oneShot[cur]
  THEN removed' = [removed EXCEPT ![cur] = TRUE] /\ UNCHANGED <<timers, due>>
  ELSE /\ UNCHANGED removed
       /\ IF removed[cur] THEN UNCHANGED <<timers, due>>
          ELSE Schedule(cur, delay[cur])

FunctionReturns ==
  /\ called /\ called' = FALSE
  /\ Rearm
  /\ Loop!ApplyDone
  /\ UNCHANGED <<delay, oneShot, lastId, refs, sanity, histVars>>

\* Faulty variant: the result of the call is checked before the timer is rearmed.
FunctionThrowsFirst(h) ==
  /\ called /\ called' = FALSE
  /\ Loop!ApplyThrow(h)
  /\ UNCHANGED <<timers, objVars, lastId, refs, sanity, histVars>>

\* The function throws: the timer is rearmed all the same, then the exception
\* reaches run(), which may let it go through (h is what processException says).
FunctionThrows(h) ==
  /\ called /\ called' = FALSE
  /\ Rearm
  /\ Loop!ApplyThrow(h)
  /\ lost' = IF ~h /\ oneShot[cur] THEN lost \cup {cur} ELSE lost
  /\ UNCHANGED <<delay, oneShot, lastId, refs, sanity, cleared, fired, known>>

\* Faulty variant: the function is dropped without looking at removed().
ReleaseAlways ==
  /\ Loop!ReleaseDone
  /\ refs' = refs \ {cur}
  /\ UNCHANGED <<timers, objVars, lastId, sanity, called, histVars>>

\* release()
Release ==
  /\ Loop!ReleaseDone
  /\ refs' = IF cur \in TimerIds /\ removed[cur] THEN refs \ {cur} ELSE refs
  /\ UNCHANGED <<timers, objVars, lastId, sanity, called, histVars>>

-----------------------------------------------------------------------------
(* The rest of the loop                                                    *)

\* The handler of a message returns or throws.
MessageDone ==
  /\ pc = "apply" /\ cur \in Messages
  /\ Loop!ApplyDone \/ \E h \in Handled : Loop!ApplyThrow(h)
  /\ UNCHANGED stVars

\* run() returns and drops the timers it had been posted.
RunExit ==
  /\ Loop!RunExit
  /\ lost' = lost \cup (Range(events) \cap TimerIds)
  /\ UNCHANGED <<timers, objVars, lastId, refs, sanity, called, cleared, fired,
                 known>>

LoopOnly ==
  /\ \/ Loop!LoopHead \/ Loop!RunnersDone \/ Loop!Pop \/ Loop!Sleep
     \/ Loop!WakeTimeout
  /\ UNCHANGED stVars

\* The application and the other threads.
Others ==
  /\ \/ Loop!RunStart \/ Loop!SpuriousWake \/ Loop!Terminate
     \/ \E p \in Posters : \E m \in Messages : Loop!Post(p, m)
  /\ UNCHANGED stVars

Notify(p) == Loop!Notify(p) /\ UNCHANGED stVars

\* Time passes, for the loop's time point and for every listed timer.
Tick ==
  /\ sanity = NotChecking
  /\ timeout > 0 \/ \E t \in Range(timers) : due[t] >= 0
  /\ timeout' = Max({0, timeout - 1})
  /\ due' = [t \in TimerIds |->
               IF t \in Range(timers) THEN Max({-1, due[t] - 1}) ELSE due[t]]
  /\ UNCHANGED <<events, terminated, looprunners, pc, visit, cur, poster, owed,
                 timers, delay, oneShot, removed, lastId, refs, sanity, called,
                 histVars>>

-----------------------------------------------------------------------------
RunThread ==
  \/ LoopOnly \/ RunExit
  \/ CheckBegin \/ PostExpired \/ ReleaseRemoved \/ NothingRipe \/ CheckReturn
  \/ CallFunction \/ FunctionReturns \/ Release \/ MessageDone
  \/ \E h \in Handled : FunctionThrows(h)

Script ==
  \/ Register
  \/ \E d \in Delays : \E once \in BOOLEAN : SetTimer(d, once)
  \/ \E t \in TimerIds : ClearTimer(t)

Next ==
  \/ RunThread \/ Script \/ Tick \/ Others
  \/ \E t \in TimerIds : HostCancel(t)
  \/ \E p \in Posters : Notify(p)

Safety == Init /\ [][Next]_vars

\* As in EventLoop: run()'s thread is scheduled, the scripts it runs return, and
\* time passes.  Strong fairness, because Tick is off while checkTimeouts() uses
\* the time it has read, and a loop that polls may be there again and again.
Fairness ==
  /\ WF_vars(RunThread)
  /\ SF_vars(Tick)
  /\ \A p \in Posters : WF_vars(Notify(p))

Spec == Safety /\ Fairness

-----------------------------------------------------------------------------
(* Properties                                                              *)

\* Every variable has its type, checkTimeouts() runs inside a runner's call and
\* a timer's function inside apply().
TypeOK ==
  /\ Loop!TypeOK
  /\ timers \in Seq(TimerIds)
  /\ due \in [TimerIds -> Int]
  /\ delay \in [TimerIds -> Nat]
  /\ oneShot \in [TimerIds -> BOOLEAN]
  /\ removed \in [TimerIds -> BOOLEAN]
  /\ lastId \in 0..MaxTimers
  /\ refs \subseteq 1..lastId
  /\ sanity \in {NotChecking} \cup 0..MaxExpirys
  /\ sanity # NotChecking => Loop!InRunner
  /\ called \in BOOLEAN
  /\ called => pc = "apply" /\ cur \in TimerIds
  /\ cleared \in [TimerIds -> {"never", "ignored", "self", "taken"}]
  /\ fired \subseteq TimerIds /\ lost \subseteq TimerIds
  /\ known \subseteq TimerIds

Listed == Range(timers)
Queued == Range(events) \cap TimerIds

\* A timer is in one place: in the handler's list, once, in order of time; or in
\* the loop's queue, once; or being applied.  Only while it is released may an
\* interval be back in the list already.
OnePlace ==
  /\ \A i, j \in 1..Len(timers) :
       i < j => timers[i] # timers[j] /\ due[timers[i]] <= due[timers[j]]
  /\ \A i, j \in 1..Len(events) : i < j => events[i] # events[j]
  /\ Listed \cap Queued = {}
  /\ cur \notin Queued
  /\ pc = "apply" => cur \notin Listed

\* A timer whose function may still be called.
Live(t) ==
  \/ t \in Listed /\ ~removed[t]
  \/ t \in Queued
  \/ pc = "apply" /\ cur = t

\* The function of a timer is in the array for as long as it may be called, and
\* no longer than until the timer is released, unless run() left the timer
\* behind: whatever the order of expiry, cancellation, exceptions and exits.
FunctionHeld ==
  /\ \A t \in TimerIds : Live(t) => t \in refs
  /\ \A t \in refs : t \in Listed \cup Queued \cup lost \/ cur = t

\* No timer vanishes: one that was created can still fire, was removed, or was
\* left behind by run().
Accounted == \A t \in 1..lastId : Live(t) \/ removed[t] \/ t \in lost

\* A function is called only after its time, and that of a timer in the loop's
\* queue is never a removed one: the test in apply() never fails.
NeverEarly ==
  \A t \in TimerIds :
    t \in Queued \/ (pc = "apply" /\ cur = t) => due[t] < 0 /\ ~removed[t]

\* A timer for which cancelEvent() returned true, to whatever thread, is never
\* called again, and a setTimeout timer is never called twice.
CallsAllowed ==
  [][ (called' /\ ~called) =>
        /\ cleared[cur] # "taken"
        /\ oneShot[cur] => cur \notin fired ]_vars

\* run() does not plan to sleep past the time of any timer checkTimeouts() knew:
\* looking at the front of the list is enough.
KnownInTime ==
  pc \notin {"idle", "head", "runners", "exit"} =>
    \A t \in known : t \in Listed /\ (timeout <= due[t] \/ timeout = 0)

\* Every action of this module is one of EventLoop or leaves the loop alone.
IsEventLoop == Loop!LoopSafety

\* A timer in the list of a running loop is called or removed, unless run()
\* ends, if the queue drains again and again, however many expire at once.
TimerFires ==
  []<>(pc \in {"sleep", "idle"}) =>
    \A t \in TimerIds :
      (t \in Listed /\ pc # "idle")
        ~> (called /\ cur = t) \/ removed[t] \/ pc = "idle"

\* "remove if oneshot or removed by the call above, re-add otherwise"
\* (SetTimeout.h:265): an interval whose function clears it is not re-added.
ClearedByItselfStays == \A t \in Listed : cleared[t] # "self"

\* "wake the event loop to process the possibly new timeout" (SetTimeout.h:104):
\* run() does not sleep past the time of any timer in the list.
NoOversleep ==
  pc = "waiting" => \A t \in Listed : timeout <= due[t] \/ timeout = 0
=============================================================================
