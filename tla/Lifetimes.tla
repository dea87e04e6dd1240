----------------------------- MODULE Lifetimes ------------------------------
(***************************************************************************)
(* Who keeps what alive between the threads of a program with workers.     *)
(* Events and Refs are counted by IntrusiveRefCntPtr: the thread that takes *)
(* the count to zero deletes the object.  A worker's thread makes an event *)
(* that refers to its Worker object on the creator's heap, and hands it to *)
(* the creator's loop; either of the two may be the last to let go of it.  *)
(* The slot of the Worker object (Refs) is in the creator's heap, which    *)
(* only the creator's thread may touch.                                    *)
(*                                                                         *)
(* A copy of a pointer that the same thread destroys before anyone can see *)
(* it is left out.  Deletion is a step after the release that causes it.   *)
(***************************************************************************)
EXTENDS Refs, FiniteSets

CONSTANTS
  Workers,    \* Worker objects, with their WorkerData and threads
  Events,     \* PostMessageEvents and ErrorEvents
  Mref,       \* the Ref that PostMessageEvent::apply() makes
  None        \* no event, no worker

\* A Ref is named for its Worker; the application has some of its own.  Data is
\* what a message decodes to, undefined included.
Own == Handles \ (Workers \cup {Mref})
Data == Values \ Workers

ASSUME LifetimesAssumption ==
  /\ Workers \subseteq Values /\ Undefined \notin Workers
  /\ Workers \subseteq Handles /\ Mref \in Handles \ Workers
  /\ None \notin Workers \cup Events
  /\ IsFiniteSet(Workers) /\ IsFiniteSet(Events)

VARIABLES
  uses,     \* RefCount of the Refs
  count,    \* RefCount of the events
  target,   \* _ref of the events, by its Worker; None: not allocated
  queue,    \* _events of the creator's loop
  stage,    \* where the loop object and the heap of the creator are
  loop,     \* where run() is with the event cur
  cur,
  at,       \* by worker: its WorkerData
  post,     \* by worker: where callerPostMessage() is, with the event sent
  sent,
  strays    \* history: the Refs deleted by another thread, or after the heap

vars == <<refVars, uses, count, target, queue, stage, loop, cur, at, post, sent, strays>>

Init ==
  /\ RefsInit
  /\ uses = [h \in Handles |-> 0] /\ count = [e \in Events |-> 0]
  /\ target = [e \in Events |-> None] /\ queue = <<>>
  /\ stage = "open" /\ loop = "free" /\ cur = None
  /\ at = [w \in Workers |-> "none"] /\ post = [w \in Workers |-> "no"]
  /\ sent = [w \in Workers |-> None] /\ strays = {}

\* The creator's thread is in loadUrl(), for one worker.
Loading == \E w \in Workers : at[w] = "loading"
PostsFromCreator(w) == at[w] = "loading"

\* Release() of a Ref, and ~Ref() if it was the last one.
ReleaseRef(h, byCreator) ==
  /\ uses' = [uses EXCEPT ![h] = @ - 1]
  /\ IF uses[h] = 1
     THEN /\ DeleteRef(h)
          /\ strays' = IF byCreator /\ stage # "heapless" THEN strays ELSE strays \cup {h}
     ELSE UNCHANGED <<refVars, strays>>

\* ~PostMessageEvent() and ~ErrorEvent().
DeleteEvent(e, byCreator) ==
  /\ target' = [target EXCEPT ![e] = None]
  /\ ReleaseRef(target[e], byCreator)

-----------------------------------------------------------------------------
(* callerPostMessage() and onProcessException(), under _lock               *)

\* Faulty variant: the event refers to the Worker by a bare pointer.
MakeEventBare(w, e) ==
  /\ post[w] = "no" /\ at[w] \in {"loading", "runs"} /\ target[e] = None
  /\ target' = [target EXCEPT ![e] = w] /\ count' = [count EXCEPT ![e] = 1]
  /\ post' = [post EXCEPT ![w] = "queue"] /\ sent' = [sent EXCEPT ![w] = e]
  /\ UNCHANGED <<refVars, uses, queue, stage, loop, cur, at, strays>>

\* make_intrusive(), whose result becomes the parameter of postEvent().
MakeEvent(w, e) ==
  /\ post[w] = "no" /\ at[w] \in {"loading", "runs"} /\ target[e] = None
  /\ target' = [target EXCEPT ![e] = w] /\ count' = [count EXCEPT ![e] = 1]
  /\ uses' = [uses EXCEPT ![w] = @ + 1]
  /\ post' = [post EXCEPT ![w] = "queue"] /\ sent' = [sent EXCEPT ![w] = e]
  /\ UNCHANGED <<refVars, queue, stage, loop, cur, at, strays>>

\* Faulty variant: the queue holds the bare pointer.
EnqueueBare(w) ==
  /\ post[w] = "queue" /\ stage = "open"
  /\ queue' = Append(queue, sent[w])
  /\ post' = [post EXCEPT ![w] = "drop"]
  /\ UNCHANGED <<refVars, uses, count, target, stage, loop, cur, at, sent, strays>>

\* push_back() under the loop's _mutex.  With the loop object gone this is
\* undefined (Worker's PostsToLivingLoop), and nothing more is said of w.
Enqueue(w) ==
  /\ post[w] = "queue" /\ stage \in {"open", "ending"}
  /\ queue' = Append(queue, sent[w]) /\ count' = [count EXCEPT ![sent[w]] = @ + 1]
  /\ post' = [post EXCEPT ![w] = "drop"]
  /\ UNCHANGED <<refVars, uses, target, stage, loop, cur, at, sent, strays>>

\* The parameter of postEvent() is destroyed, after the notification.
LetGo(w) ==
  /\ post[w] = "drop" /\ count' = [count EXCEPT ![sent[w]] = @ - 1]
  /\ IF count[sent[w]] = 1
     THEN post' = [post EXCEPT ![w] = "delete"] /\ UNCHANGED sent
     ELSE post' = [post EXCEPT ![w] = "no"] /\ sent' = [sent EXCEPT ![w] = None]
  /\ UNCHANGED <<refVars, uses, target, queue, stage, loop, cur, at, strays>>

\* The creator's loop has been done with the event first.
PosterDeletes(w) ==
  /\ post[w] = "delete"
  /\ DeleteEvent(sent[w], PostsFromCreator(w))
  /\ post' = [post EXCEPT ![w] = "no"] /\ sent' = [sent EXCEPT ![w] = None]
  /\ UNCHANGED <<count, queue, stage, loop, cur, at>>

-----------------------------------------------------------------------------
(* The creator's thread                                                    *)

\* r_Worker_construct(), by a script or by a listener: "this" is referenced by
\* the WorkerData alone.
Construct(w) ==
  /\ stage = "open" /\ loop \in {"free", "dispatch"} /\ ~Loading /\ at[w] = "none"
  /\ NewRef(w, w) /\ uses' = [uses EXCEPT ![w] = 1]
  /\ at' = [at EXCEPT ![w] = "loading"]
  /\ UNCHANGED <<count, target, queue, stage, loop, cur, post, sent, strays>>

\* The thread is started.
LoadReturns(w) ==
  /\ at[w] = "loading" /\ post[w] = "no" /\ at' = [at EXCEPT ![w] = "runs"]
  /\ UNCHANGED <<refVars, uses, count, target, queue, stage, loop, cur, post, sent, strays>>

\* Faulty variant: front() is not copied, and pop_front() deletes the event if its
\* poster has let go of it.
TakeUncopied ==
  /\ stage = "open" /\ loop = "free" /\ ~Loading /\ queue # <<>>
  /\ loop' = "apply" /\ cur' = Head(queue) /\ queue' = Tail(queue)
  /\ count' = [count EXCEPT ![Head(queue)] = @ - 1]
  /\ IF count[Head(queue)] = 1 THEN DeleteEvent(Head(queue), TRUE)
     ELSE UNCHANGED <<refVars, uses, target, strays>>
  /\ UNCHANGED <<stage, at, post, sent>>

\* front() is copied and pop_front() destroys the copy in the list.
Take ==
  /\ stage = "open" /\ loop = "free" /\ ~Loading /\ queue # <<>>
  /\ loop' = "apply" /\ cur' = Head(queue) /\ queue' = Tail(queue)
  /\ UNCHANGED <<refVars, uses, count, target, stage, at, post, sent, strays>>

\* Faulty variant: evt's pointer to the target is not counted, but given back.
ApplyBare(v) ==
  /\ loop = "apply" /\ loop' = "dispatch"
  /\ NewRef(Mref, v)
  /\ uses' = [uses EXCEPT ![Mref] = 2, ![target[cur]] = @ + 1]
  /\ UNCHANGED <<count, target, queue, stage, cur, at, post, sent, strays>>

\* PostMessageEvent::apply(): a Ref of the data, held by mref and by the
\* properties of evt; the target is held by EventTarget_dispatchEvent()'s parameter
\* and by evt.
Apply(v) ==
  /\ loop = "apply" /\ loop' = "dispatch"
  /\ NewRef(Mref, v)
  /\ uses' = [uses EXCEPT ![Mref] = 2, ![target[cur]] = @ + 2]
  /\ UNCHANGED <<count, target, queue, stage, cur, at, post, sent, strays>>

\* ErrorEvent::apply().
ApplyError ==
  /\ loop = "apply" /\ loop' = "dispatch"
  /\ uses' = [uses EXCEPT ![target[cur]] = @ + 2]
  /\ UNCHANGED <<refVars, count, target, queue, stage, cur, at, post, sent, strays>>

\* dispatchEvent() returns or throws; the parameter, evt and mref are destroyed.
Dispatched ==
  /\ loop = "dispatch" /\ ~Loading /\ loop' = "drop"
  /\ uses' = [uses EXCEPT ![target[cur]] = @ - 2, ![Mref] = 0]
  /\ IF refid[Mref] = NoRef THEN UNCHANGED refVars ELSE DeleteRef(Mref)
  /\ UNCHANGED <<count, target, queue, stage, cur, at, post, sent, strays>>

\* run()'s pointer is destroyed.
Drop ==
  /\ loop = "drop" /\ count' = [count EXCEPT ![cur] = @ - 1]
  /\ IF count[cur] = 1 THEN loop' = "delete" /\ UNCHANGED cur
     ELSE loop' = "free" /\ cur' = None
  /\ UNCHANGED <<refVars, uses, target, queue, stage, at, post, sent, strays>>

LoopDeletes ==
  /\ loop = "delete" /\ loop' = "free" /\ cur' = None
  /\ DeleteEvent(cur, TRUE)
  /\ UNCHANGED <<count, queue, stage, at, post, sent>>

\* The application makes and drops references of its own, on this thread.
OwnRef(h, v) ==
  /\ stage = "open" /\ loop \in {"free", "dispatch"} /\ ~Loading
  /\ NewRef(h, v) /\ uses' = [uses EXCEPT ![h] = 1]
  /\ UNCHANGED <<count, target, queue, stage, loop, cur, at, post, sent, strays>>

OwnDrop(h) ==
  /\ stage \in {"open", "closed"} /\ loop \in {"free", "dispatch"} /\ ~Loading
  /\ uses[h] = 1 /\ ReleaseRef(h, TRUE)
  /\ UNCHANGED <<count, target, queue, stage, loop, cur, at, post, sent>>

\* run() ends, or the loop object does (under _mutex, or with nobody to post), or
\* an application ends its heap before its loop object.
Begin(end) ==
  /\ stage = "open" /\ loop = "free" /\ ~Loading /\ stage' = end
  /\ UNCHANGED <<refVars, uses, count, target, queue, loop, cur, at, post, sent, strays>>

\* Faulty variant: the list is emptied of bare pointers.
ClearOneBare ==
  /\ stage \in {"clear", "destroy", "heapless"} /\ loop = "free" /\ queue # <<>>
  /\ queue' = Tail(queue)
  /\ UNCHANGED <<refVars, uses, count, target, stage, loop, cur, at, post, sent, strays>>

\* Each pointer in the list is destroyed as run()'s is.
ClearOne ==
  /\ stage \in {"clear", "destroy", "heapless"} /\ loop = "free" /\ queue # <<>>
  /\ loop' = "drop" /\ cur' = Head(queue) /\ queue' = Tail(queue)
  /\ UNCHANGED <<refVars, uses, count, target, stage, at, post, sent, strays>>

Cleared ==
  /\ stage \in {"clear", "destroy"} /\ loop = "free" /\ queue = <<>>
  /\ stage' = IF stage = "clear" THEN "open" ELSE "closed"
  /\ UNCHANGED <<refVars, uses, count, target, queue, loop, cur, at, post, sent, strays>>

\* Faulty variant: the reference is dropped before the thread is joined.
FinalizeEarly(w) ==
  /\ stage \in {"closed", "ending"} /\ at[w] = "runs"
  /\ at' = [at EXCEPT ![w] = "ended"] /\ ReleaseRef(w, TRUE)
  /\ UNCHANGED <<count, target, queue, stage, loop, cur, post, sent>>

\* The end of the heap: ~WorkerData() joins the thread, which has no event in
\* its hands then, and its members go, _workerref among them.
Finalize(w) ==
  /\ stage \in {"closed", "ending"} /\ at[w] = "runs" /\ post[w] = "no"
  /\ at' = [at EXCEPT ![w] = "ended"] /\ ReleaseRef(w, TRUE)
  /\ UNCHANGED <<count, target, queue, stage, loop, cur, post, sent>>

HeapEnds ==
  /\ stage \in {"closed", "ending"} /\ \A w \in Workers : at[w] \in {"none", "ended"}
  /\ \A h \in Own : uses[h] = 0
  /\ stage' = IF stage = "closed" THEN "gone" ELSE "heapless"
  /\ UNCHANGED <<refVars, uses, count, target, queue, loop, cur, at, post, sent, strays>>

-----------------------------------------------------------------------------
Next ==
  \/ \E w \in Workers :
       \/ \E e \in Events : MakeEvent(w, e)
       \/ Enqueue(w) \/ LetGo(w) \/ PosterDeletes(w)
       \/ Construct(w) \/ LoadReturns(w) \/ Finalize(w)
  \/ Take \/ ApplyError \/ Dispatched \/ Drop \/ LoopDeletes
  \/ ClearOne \/ Cleared \/ HeapEnds
  \/ \E v \in Data : Apply(v) \/ \E h \in Own : OwnRef(h, v)
  \/ \E h \in Own : OwnDrop(h)
  \/ \E end \in {"clear", "destroy", "ending"} : Begin(end)

Spec == Init /\ [][Next]_vars

-----------------------------------------------------------------------------
(* Properties                                                              *)

Posting(e) == {w \in Workers : sent[w] = e /\ post[w] \in {"queue", "drop"}}
Queued(e) == {i \in 1..Len(queue) : queue[i] = e}
InLoop(e) == {l \in {loop} : cur = e /\ l # "delete"}
Referring(w) == {e \in Events : target[e] = w}

\* Every variable has its type, and no pointer dangles: an event that is queued,
\* that the creator's loop serves, drops or deletes, or that a worker posts or
\* deletes is there and, in the last case, the worker's own.
TypeOK ==
  /\ RefsTypeOK
  /\ uses \in [Handles -> Nat] /\ count \in [Events -> Nat]
  /\ target \in [Events -> Workers \cup {None}] /\ queue \in Seq(Events)
  /\ stage \in {"open", "clear", "destroy", "closed", "gone", "ending", "heapless"}
  /\ loop \in {"free", "apply", "dispatch", "drop", "delete"}
  /\ cur \in Events \cup {None} /\ (cur = None <=> loop = "free")
  /\ at \in [Workers -> {"none", "loading", "runs", "ended"}]
  /\ post \in [Workers -> {"no", "queue", "drop", "delete"}]
  /\ sent \in [Workers -> Events \cup {None}]
  /\ \A w \in Workers : sent[w] = None <=> post[w] = "no"
  /\ \A i \in 1..Len(queue) : target[queue[i]] # None
  /\ cur # None => target[cur] # None
  /\ \A w \in Workers : sent[w] # None => target[sent[w]] = w
  /\ strays \subseteq Handles

\* The count of an event is the number of its holders, and while it has one, or
\* is being deleted by the one thread that took the count to zero, it exists.
EventsCounted ==
  \A e \in Events :
    /\ count[e] = Cardinality(Posting(e)) + Cardinality(Queued(e))
                    + Cardinality(InLoop(e))
    /\ (target[e] # None /\ count[e] = 0) <=>
         \/ cur = e /\ loop = "delete"
         \/ \E w \in Workers : sent[w] = e /\ post[w] = "delete"
    /\ count[e] > 0 => target[e] # None

\* The count of a Worker's Ref is one for the WorkerData, one for each event that
\* refers to it and two for a dispatch on it, and it has its slot meanwhile.
RefsCounted ==
  \A w \in Workers :
    /\ uses[w] = (IF at[w] \in {"loading", "runs"} THEN 1 ELSE 0)
                   + Cardinality(Referring(w))
                   + (IF loop = "dispatch" /\ target[cur] = w THEN 2 ELSE 0)
    /\ uses[w] > 0 <=> refid[w] # NoRef

\* An event is dispatched on the Worker whose script posted it, although slots
\* are given back and used again in between.
TargetIsSender ==
  \A e \in Events :
    target[e] # None =>
      refid[target[e]] # NoRef /\ duv_push_ref(refid[target[e]]) = target[e]

\* Whoever deletes the last event, a Worker's Ref is deleted by the creator's
\* thread and while the heap is there (Worker.h:411), if the loop object was
\* destroyed first, as in Example.cpp: an event that outlives the heap in a
\* loop's queue would use it.
RefsDieAtHome == stage # "heapless" => strays = {}

\* When the heap is gone nothing is left: no event, no reference, no slot in use.
AllReclaimed ==
  stage = "gone" =>
    /\ \A e \in Events : target[e] = None
    /\ \A h \in Handles : uses[h] = 0 /\ refid[h] = NoRef
    /\ Len(free) = Len(refs) - 1
=============================================================================
