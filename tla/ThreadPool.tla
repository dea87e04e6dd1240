----------------------------- MODULE ThreadPool -----------------------------
(***************************************************************************)
(* ctpl::thread_pool (include/dtel/detail/ctpl_stl.h), the pool behind     *)
(* EventLoop::postTask(): any thread pushes, a running task included, and  *)
(* one thread, the owner, calls resize() and the destructor, that is,      *)
(* stop(true).  EventLoop calls nothing else of the pool.                  *)
(*                                                                         *)
(* The queue has a mutex of its own: each of its operations is one step.   *)
(* The pool's mutex guards no data, only the condition variable.  A worker *)
(* holds it from its test of the queue to cv.wait(), through the reads of  *)
(* isDone and of its flag (at "done" and "flag"); push(), resize() and     *)
(* stop() hold it for one step, to notify.                                 *)
(***************************************************************************)
EXTENDS Integers, FiniteSets, SequencesExt

CONSTANTS
  Tasks,        \* task objects, each pushed at most once
  Pushers,      \* the threads that push, other than the workers
  MaxThreads,   \* bound: how many threads the pool ever starts
  NoTask        \* a worker has no task

Threads == 1..MaxThreads   \* in the order of their creation

ASSUME PoolAssumption ==
  MaxThreads \in Nat /\ Pushers \cap Threads = {} /\ NoTask \notin Tasks

VARIABLES
  q,            \* the queue
  threads,      \* threads[i], while it has not been detached
  flags,        \* *flags[i], by thread: the worker has to finish
  isDone,       \* stop(true) has been called
  at,           \* where each worker is
  task,         \* the task it runs
  pushing,      \* the task a pusher has queued and not yet notified of
  owner,        \* where the owner is in resize() or stop()
  size,         \* the argument of resize(), while it takes threads away
  pushed,       \* history: the tasks that were pushed
  ran,          \* history: the tasks whose functions have returned
  dropped,      \* history: the tasks deleted without being run
  promised      \* history: the tasks queued, with push() returned, at stop(true)

vars == <<q, threads, flags, isDone, at, task, pushing, owner, size, pushed,
          ran, dropped, promised>>
ownVars == <<threads, owner, size, dropped, promised>>

Started == {t \in Threads : at[t] # "none"}
Holders == {t \in Threads : at[t] \in {"done", "flag"}}
MutexFree == Holders = {}
Held == {task[t] : t \in {u \in Threads : task[u] # NoTask}}

Init ==
  /\ q = <<>> /\ threads = <<>> /\ isDone = FALSE
  /\ flags = [t \in Threads |-> FALSE] /\ at = [t \in Threads |-> "none"]
  /\ task = [t \in Threads |-> NoTask]
  /\ pushing = [p \in Pushers \cup Threads |-> NoTask] /\ owner = "idle" /\ size = 0
  /\ pushed = {} /\ ran = {} /\ dropped = {} /\ promised = {}

-----------------------------------------------------------------------------
(* push()                                                                  *)

\* The owner may destroy a pool that tasks push to, but not one that other
\* threads do.
Push(p, k) ==
  /\ pushing[p] = NoTask /\ k \notin pushed
  /\ IF p \in Threads THEN at[p] = "run" /\ owner # "gone"
     ELSE owner \in {"idle", "shrink"}
  /\ q' = Append(q, k) /\ pushing' = [pushing EXCEPT ![p] = k]
  /\ pushed' = pushed \cup {k}
  /\ UNCHANGED <<flags, isDone, at, task, ran, ownVars>>

\* notify_one() wakes one of those that wait, if any does.
WakeOne ==
  LET waiting == {t \in Threads : at[t] = "wait"} IN
  IF waiting = {} THEN UNCHANGED at
  ELSE \E t \in waiting : at' = [at EXCEPT ![t] = "lock"]

WakeAll == at' = [t \in Threads |-> IF at[t] = "wait" THEN "lock" ELSE at[t]]

\* Faulty variant: a push to a pool with a thread at work notifies nobody.
PushNotifyIfIdle(p) ==
  /\ pushing[p] # NoTask /\ MutexFree
  /\ IF \E t \in Threads : at[t] = "run" THEN UNCHANGED at ELSE WakeOne
  /\ pushing' = [pushing EXCEPT ![p] = NoTask]
  /\ UNCHANGED <<q, flags, isDone, task, ran, pushed, ownVars>>

PushNotify(p) ==
  /\ pushing[p] # NoTask /\ MutexFree
  /\ WakeOne /\ pushing' = [pushing EXCEPT ![p] = NoTask]
  /\ UNCHANGED <<q, flags, isDone, task, ran, pushed, ownVars>>

-----------------------------------------------------------------------------
(* A worker: the function that set_thread() starts.  A detached one may be *)
(* here when the pool is gone; of what it does to it then nothing is said. *)

TouchesPool(t) == at[t] \in {"begin", "lock", "done", "flag", "wait"}

\* Take the front of the queue, or go to other.
PopOr(t, other) ==
  IF q = <<>>
  THEN at' = [at EXCEPT ![t] = other] /\ UNCHANGED <<q, task>>
  ELSE /\ at' = [at EXCEPT ![t] = "run"]
       /\ task' = [task EXCEPT ![t] = Head(q)] /\ q' = Tail(q)

\* The two pops outside of the mutex; at "begin", that is done once.
PopFirst(t) ==
  /\ at[t] = "begin"
  /\ PopOr(t, "lock")
  /\ UNCHANGED <<flags, isDone, pushing, ran, pushed, ownVars>>

RunTask(t) ==
  /\ at[t] = "run" /\ pushing[t] = NoTask
  /\ ran' = ran \cup {task[t]}
  /\ task' = [task EXCEPT ![t] = NoTask]
  /\ at' = [at EXCEPT ![t] = "check"]
  /\ UNCHANGED <<q, flags, isDone, pushing, pushed, ownVars>>

CheckFlag(t) ==
  /\ at[t] = "check"
  /\ at' = [at EXCEPT ![t] = IF flags[t] THEN "exit" ELSE "begin"]
  /\ UNCHANGED <<q, flags, isDone, task, pushing, ran, pushed, ownVars>>

\* Faulty variant: without the mutex.
PredicatePopUnlocked(t) ==
  /\ at[t] = "lock"
  /\ PopOr(t, "done")
  /\ UNCHANGED <<flags, isDone, pushing, ran, pushed, ownVars>>

\* Faulty variant: isDone is tested before the queue, and ends the wait.
PredicateDoneFirst(t) ==
  /\ at[t] = "lock" /\ MutexFree
  /\ IF isDone THEN at' = [at EXCEPT ![t] = "exit"] /\ UNCHANGED <<q, task>>
     ELSE PopOr(t, "done")
  /\ UNCHANGED <<flags, isDone, pushing, ran, pushed, ownVars>>

\* Faulty variant: a thread that has to finish does so with the task it popped.
PredicatePopDiscard(t) ==
  /\ at[t] = "lock" /\ MutexFree
  /\ IF flags[t] /\ q # <<>>
     THEN q' = Tail(q) /\ at' = [at EXCEPT ![t] = "exit"] /\ UNCHANGED task
     ELSE PopOr(t, "done")
  /\ UNCHANGED <<flags, isDone, pushing, ran, pushed, ownVars>>

\* The mutex is taken, at first or after a wait, and the predicate pops.
PredicatePop(t) ==
  /\ at[t] = "lock" /\ MutexFree
  /\ PopOr(t, "done")
  /\ UNCHANGED <<flags, isDone, pushing, ran, pushed, ownVars>>

PredicateDone(t) ==
  /\ at[t] = "done"
  /\ at' = [at EXCEPT ![t] = IF isDone THEN "exit" ELSE "flag"]
  /\ UNCHANGED <<q, flags, isDone, task, pushing, ran, pushed, ownVars>>

PredicateFlag(t) ==
  /\ at[t] = "flag"
  /\ at' = [at EXCEPT ![t] = IF flags[t] THEN "exit" ELSE "wait"]
  /\ UNCHANGED <<q, flags, isDone, task, pushing, ran, pushed, ownVars>>

SpuriousWake(t) ==
  /\ at[t] = "wait" /\ at' = [at EXCEPT ![t] = "lock"]
  /\ UNCHANGED <<q, flags, isDone, task, pushing, ran, pushed, ownVars>>

-----------------------------------------------------------------------------
(* The owner                                                               *)

\* resize(), upwards (or the constructor): n - size() threads are started.
Grow(n) ==
  LET started == Cardinality(Started)
      new == n - Len(threads)
  IN
  /\ owner = "idle" /\ new > 0 /\ started + new <= MaxThreads
  /\ threads' = threads \o [i \in 1..new |-> started + i]
  /\ at' = [t \in Threads |-> IF t \in (started + 1)..(started + new) THEN "begin"
                              ELSE at[t]]
  /\ UNCHANGED <<q, flags, isDone, task, pushing, owner, size, ran, dropped,
                 promised, pushed>>

\* resize(), downwards.
Shrink(n) ==
  /\ owner = "idle" /\ n < Len(threads)
  /\ owner' = "shrink" /\ size' = n
  /\ UNCHANGED <<q, threads, flags, isDone, at, task, pushing, ran, dropped,
                 promised, pushed>>

Detach ==
  /\ owner = "shrink" /\ Len(threads) > size
  /\ flags' = [flags EXCEPT ![Last(threads)] = TRUE]
  /\ threads' = Front(threads)
  /\ UNCHANGED <<q, isDone, at, task, pushing, owner, size, ran, dropped,
                 promised, pushed>>

ShrinkNotify ==
  /\ owner = "shrink" /\ Len(threads) = size /\ MutexFree
  /\ WakeAll /\ owner' = "idle" /\ size' = 0
  /\ UNCHANGED <<q, threads, flags, isDone, task, pushing, ran, dropped, promised,
                 pushed>>

\* The destructor: stop(true).
Stop ==
  /\ owner = "idle" /\ owner' = "notify"
  /\ \A p \in Pushers : pushing[p] = NoTask
  /\ isDone' = TRUE /\ promised' = Range(q) \ Range(pushing)
  /\ UNCHANGED <<q, threads, flags, at, task, pushing, size, ran, dropped, pushed>>

\* Faulty variant: the workers are told before there is anything to be told.
StopNotifyNobody ==
  /\ owner = "notify" /\ owner' = "join"
  /\ UNCHANGED <<q, threads, flags, isDone, at, task, pushing, size, ran,
                 dropped, promised, pushed>>

StopNotify ==
  /\ owner = "notify" /\ MutexFree
  /\ WakeAll /\ owner' = "join"
  /\ UNCHANGED <<q, threads, flags, isDone, task, pushing, size, ran, dropped,
                 promised, pushed>>

Join ==
  /\ owner = "join" /\ threads # <<>> /\ at[Head(threads)] = "exit"
  /\ threads' = Tail(threads)
  /\ UNCHANGED <<q, flags, isDone, at, task, pushing, owner, size, ran, dropped,
                 promised, pushed>>

\* All threads are joined; clear_queue() pops as long as there is a task, which
\* running tasks of detached threads may still push.
ClearOne ==
  /\ owner = "join" /\ threads = <<>> /\ q # <<>>
  /\ dropped' = dropped \cup {Head(q)} /\ q' = Tail(q)
  /\ UNCHANGED <<threads, flags, isDone, at, task, pushing, owner, size, ran,
                 promised, pushed>>

\* It has found the queue empty, and the pool is gone.
StopReturns ==
  /\ owner = "join" /\ threads = <<>> /\ q = <<>>
  /\ owner' = "gone"
  /\ UNCHANGED <<q, threads, flags, isDone, at, task, pushing, size, ran, dropped,
                 promised, pushed>>

-----------------------------------------------------------------------------
Worker(t) ==
  /\ owner = "gone" => ~TouchesPool(t)
  /\ \/ PopFirst(t) \/ RunTask(t) \/ CheckFlag(t)
     \/ PredicatePop(t) \/ PredicateDone(t) \/ PredicateFlag(t)

Owner == Detach \/ ShrinkNotify \/ StopNotify \/ Join \/ ClearOne
         \/ StopReturns

Next ==
  \/ \E p \in Pushers \cup Threads :
       PushNotify(p) \/ \E k \in Tasks : Push(p, k)
  \/ \E t \in Threads : Worker(t) \/ SpuriousWake(t)
  \/ Owner \/ Stop
  \/ \E n \in 0..MaxThreads : Grow(n) \/ Shrink(n)

Safety == Init /\ [][Next]_vars

\* Threads are scheduled, tasks return, and a mutex that is given back again and
\* again is given to everyone who waits for it in the end.
Fairness ==
  /\ \A t \in Threads : SF_vars(Worker(t) \/ PushNotify(t))
  /\ \A p \in Pushers : SF_vars(PushNotify(p))
  /\ SF_vars(Owner)

Spec == Safety /\ Fairness

-----------------------------------------------------------------------------
(* Properties                                                              *)

\* Every variable has its type, a worker has a task exactly while it runs one,
\* and at most one holds the mutex.
TypeOK ==
  /\ q \in Seq(Tasks) /\ threads \in Seq(Threads)
  /\ flags \in [Threads -> BOOLEAN] /\ isDone \in BOOLEAN
  /\ at \in [Threads -> {"none", "begin", "run", "check", "lock", "done", "flag",
                          "wait", "exit"}]
  /\ task \in [Threads -> Tasks \cup {NoTask}]
  /\ \A t \in Threads : task[t] # NoTask <=> at[t] = "run"
  /\ \A t, u \in Holders : t = u
  /\ pushing \in [Pushers \cup Threads -> Tasks \cup {NoTask}]
  /\ owner \in {"idle", "shrink", "notify", "join", "gone"}
  /\ size \in 0..MaxThreads
  /\ pushed \subseteq Tasks /\ ran \subseteq Tasks
  /\ dropped \subseteq Tasks /\ promised \subseteq Tasks

\* No task is lost and none is taken twice: every task that was pushed, and no
\* other, is in one place, once in the queue, with one worker, run, or dropped by
\* the destructor; whoever pushes, pops and leaves the pool meanwhile.
TaskInOnePlace ==
  /\ pushed = Range(q) \cup Held \cup ran \cup dropped
  /\ \A i, j \in 1..Len(q) : i # j => q[i] # q[j]
  /\ \A t, u \in Threads : t # u /\ task[t] # NoTask => task[t] # task[u]
  /\ Range(q) \cap (Held \cup ran \cup dropped) = {}
  /\ Held \cap (ran \cup dropped) = {}
  /\ ran \cap dropped = {}

\* No wake-up is lost: a task is not left in the queue with a worker asleep unless
\* somebody is about to notify, or to look into the queue.
NoneAsleepOverTask ==
  q # <<>> /\ (\E t \in Threads : at[t] = "wait") =>
    \/ \E p \in Pushers \cup Threads : pushing[p] # NoTask
    \/ \E t \in Threads : at[t] \in {"begin", "lock"}

\* When the destructor returns, every worker that was not detached has finished;
\* and if there was one, every task pushed before it was called has been taken.
StopIsComplete ==
  owner = "gone" =>
    /\ \A t \in Started : ~flags[t] => at[t] = "exit"
    /\ (\E t \in Started : ~flags[t]) => promised \subseteq ran \cup Held

\* Whatever resize() does meanwhile, the queue is empty at last, all its tasks
\* taken, unless the pool is left without workers.
QueueDrains == <>[](q = <<>> \/ threads = <<>>)

\* The destructor returns if tasks do.
StopEnds == owner = "notify" ~> owner = "gone"

\* "wait for all computing threads to finish and stop all threads"
\* (ctpl_stl.h:139).
StopWaitsForAll == owner = "gone" => \A t \in Threads : at[t] # "run"
=============================================================================
