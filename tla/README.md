# Verification of dtel

dtel is an event loop for the duktape JavaScript engine, with the libraries a
script expects from one: timers, a console, event targets and workers.  This
directory models the parts of it that have state and concurrency, checks them
with TLC on small instances, and proves with TLAPS, for every value of the
constants, all the safety properties that the passing runs check.

Paths below are relative to `include/dtel/` unless they say otherwise.

## 1. Inventory

### Event loop — `EventLoop.h`, `Event.h`, `LoopRunner.h`
- *State*: `_events`, a FIFO of event objects; `_looprunners`, a list sorted by
  priority; the recursive `_mutex` that guards both; `_terminated`; the
  condition variable `_events_cv` with `_events_mt`, a mutex that guards no
  data.
- *Operations*: `postEvent`, `notifyChanged`, `terminate`, `addLoopRunner` from
  any thread; `run` on one. `run` asks each runner until when it may sleep,
  serves events until the queue is empty (`apply`, then `release`), and waits.
- *Hard*: the wait has no predicate; `terminate` is a flag read in one place and
  cleared in another; a runner may register runners while it is being called;
  exceptions leave `run` half-way.
- *Correct when*: events are served once and in order, none is forgotten while
  the loop runs, every runner is asked once per pass, `terminate` ends `run`.

### Timers — `lib/settimeout/SetTimeout.h`
- *State*: the handler's list `_events` of (time point, timer) sorted by time,
  the counter `_id`, each timer's `_delay`, `_oneshot`, `_removed`, and the
  array `PROP_ELREFS` that keeps the JavaScript functions alive.
- *Operations*: `setTimeout`, `setInterval`, `clearTimeout`, `clearInterval`
  from scripts; `cancelEvent` from C++; `checkTimeouts` as a loop runner;
  `apply` and `release` of an expired timer.
- *Interaction*: an expired timer is an event of the loop; the handler's answer
  to the loop decides how long `run` waits.
- *Hard*: a timer is in the list, in the loop's queue or in the loop's hands,
  and `cancelEvent` searches one of the three; callbacks create and clear
  timers, and throw; what `run` computed before the callbacks is used after
  them.
- *Correct when*: a timer is never lost, doubled or early, its function lives as
  long as it may be called, a cancelled one is not called, a due one is.

### Task pool — `detail/ctpl_stl.h`, `Task.h`
- *State*: a queue with its own mutex, the vector of threads, a stop flag per
  thread, `isDone`, a mutex and a condition variable.
- *Operations used by `EventLoop`*: `push` (`postTask`), `resize`
  (`setTaskThreadCount`), the destructor, which is `stop(true)`.
- *Hard*: the predicate of the wait pops the queue and reads two flags while
  others write them; `resize` downwards detaches threads that may have just been
  woken; tasks push tasks while the destructor runs.
- *Correct when*: no task is lost, run twice or slept over, and the destructor
  waits for what it says it waits for.

### Worker — `lib/worker/Worker.h`
- *State*: `WorkerData` with its lock, its own context, `EventLoop` and thread;
  the Worker object on the creator's heap, which the `WorkerData` references.
- *Operations*: construction (which runs the script on the creator's thread),
  `postMessage` both ways, errors, the finalizer.
- *Interaction*: two event loops on two threads post to each other under one
  lock.
- *Hard*: the destructor joins a thread under the lock that thread posts with;
  the loop objects and the heaps end in an order the application chooses.
- *Correct when*: the context has one user at a time, messages arrive, the
  destructor returns, nobody posts to what is gone.

### References — `detail/refs.h`, `Ref.h`
- *State*: an array in the stash of the heap; slot 0 heads a list of free slots,
  each holding the number of the next; a `Ref` holds the number of its slot.
- *Operations*: `duv_ref` (`Ref::Ref`), `duv_push_ref` (`Ref::push`),
  `duv_unref` (`Ref::~Ref`).
- *Hard*: links and values share the array, and a value may be a number; slots
  are used again while other references live.
- *Correct when*: a live reference keeps its value and shares its slot with no
  other, and no slot is lost.

### Reference counts — `IntrusiveRefCntPtr.h`
- *State*: an atomic counter in each event and each `Ref`.
- *Operations*: `Retain`, `Release`, by the constructors and destructors of
  pointers.
- *Interaction*: `callerPostMessage` makes, on the worker's thread, an event
  that holds a `Ref` into the creator's heap; the creator's loop takes it, drops
  it or dies with it.
- *Hard*: which thread lets go last, and what deleting the object then touches.
- *Correct when*: an object is deleted once, after its last pointer, a `Ref` by
  the thread of its heap and before the heap.

### Event target — `lib/eventtarget/EventTarget.h`, the `on...` properties of `Worker.h`
- *State*: `listeners`, an array per type; `_on...`, the value of a property.
- *Operations*: `addEventListener`, `removeEventListener`, `dispatchEvent`,
  assignment to `on...`, all in JavaScript; `EventTarget_dispatchEvent` from
  C++.
- *Hard*: listeners change the array a dispatch is walking over, dispatch again
  and throw; the dispatch keeps the length it began with.
- *Correct when*: listeners are called in order and once, a dispatch ends, and
  it fails for no reason but a listener's.

### The other parts
| part | state and operations | what makes it correct |
|---|---|---|
| Console, `lib/console` | a handler held by a storage object with a finalizer | the storage is freed with the heap |
| Values, `Value.h`, `ValueObject.h` | conversions | no state of their own |
| Value-stack discipline, `ResetStackOnScopeExit.h`, `Exception.h`, `detail/util.h` | height of the duktape stack | each call leaves the height it found |
| Example, `../../example/Example.cpp` | the order scripts, `run`, end of the loop, end of the heap | it ends |
| duktape, `any.hpp`, `optional.hpp` | third-party | used through their interfaces |

The hazards found in the survey, each at its line and with the properties that
watch it, are in `PROJECT.json`.

## 2. Modules

| module | models | composes |
|---|---|---|
| `Mailbox` | what an event loop promises: a FIFO served one at a time while running | |
| `EventLoop` | `EventLoop.h` | implements `Mailbox` |
| `EventLoopProofs` | the theorems about `EventLoop` | extends `EventLoop` |
| `SetTimeout` | the timer library and its JavaScript functions | `EventLoop`, action by action |
| `SetTimeoutProofs` | the theorems about `SetTimeout` | extends `SetTimeout`, instantiates `EventLoopProofs` |
| `ThreadPool` | the pool as `EventLoop` uses it | |
| `ThreadPoolProofs` | the theorems about `ThreadPool` | extends `ThreadPool` |
| `Worker` | a worker with its timers, its creator, the end of the program | `EventLoop` (the worker's loop), `Mailbox` (the creator's) |
| `WorkerProofs` | the theorems about `Worker` | extends `Worker`, instantiates `EventLoopProofs` |
| `EventTarget` | listeners, `dispatchEvent` and the `on...` properties | |
| `EventTargetProofs` | the theorems about `EventTarget` | extends `EventTarget` |
| `RefStore` | what `Ref` promises: a handle gives back its value while it lives | |
| `Refs` | the slots and the free list | implements `RefStore` |
| `RefsProofs` | the theorems about `Refs` | extends `Refs` |
| `Lifetimes` | who keeps events and `Ref`s alive between threads, and until when | `Refs`, action by action |
| `LifetimesProofs` | the theorems about `Lifetimes` | extends `Lifetimes` and `RefsProofs` |
| `SequenceFacts` | lemmas about queues and lists that the proofs share | |
| `MC…` | the instances | |

Definitions named in a comment as a *faulty variant* are what a plausible bug
would make of the definition that follows. No specification uses them: they show
that each checked property can fail.

### EventLoop
`pc` is the place of `run()` in its loop: `head` (the test of `_terminated`),
`runners` (the for loop, `_mutex` held), `pop`, `apply`, `release` (the inner
loop), `sleep` (between the last look at the queue and the wait), `waiting`,
`exit`. `Post` and `Notify` are the two halves of `postEvent`: a push under
`_mutex`, which is why it is off while `pc = "runners"`, and a notification
under no lock. `visit` is the list node the for loop is at; registering sorts
the list, and list iterators stay with their node, so `AddLoopRunner` moves
`visit` when the new runner lands before it. `timeout` is the time left until
the time point `run()` computed; it is relative, so that the clock is no
unbounded counter. `owed` is a history variable: the runners this pass still has
to call.

### SetTimeout
Its own variables are the list `timers`, the fields of the timer objects, the
array of functions `refs` and the local counter of `checkTimeouts`; `called`
tells the part of `apply()` before the JavaScript call from the part in it.
Every action of `run()`'s thread conjoins an action of `EventLoop` with what the
library does at that point. `checkTimeouts` is one step per iteration, since
another thread may cancel between two; it reads the clock once, so time does not
pass in it. The history variables say what clearing a timer came to (`cleared`),
which functions were called (`fired`), which timers `run()` abandoned (`lost`)
and which `checkTimeouts` knew of when it answered (`known`).

### ThreadPool
`at[t]` is the place of a worker thread: `begin` (a pop outside the mutex),
`run`, `check` (the flag after a task), `lock` (wanting the mutex), `done` and
`flag` (the two tests of the predicate after its pop, with the mutex held),
`wait`, `exit`. The reads of `isDone` and of the flag are steps of their own
because their writers do not take the mutex. `pushed` is a history variable, all
tasks ever pushed: at any time they are those in the queue, with a worker, run
or dropped by the destructor.

### Worker
`owner` is where the creator's thread is in the life of the `WorkerData`. The
worker's loop is `EventLoop` with one poster, the creator: `poster["creator"] =
"notify"` is also when `postMessage` holds `_lock`. The destructor holds it from
`terminate` to `join`. `wanted` is the event that the worker's handler, or the
processing of its exception, is about to post once it has the lock.

The worker's timers are, for its loop, a runner that `loadUrl` registers
(`LoadRegisters`) and that posts events to the loop it is called by
(`TimerExpires`) and answers with any wait up to the default; `SetTimeout` has
the rest of them. Their callbacks post and throw as the handlers of messages do.

### EventTarget
`stack` is the array of listeners of one type, `calls` the dispatches that are
under way, nested as their listeners call one another. A dispatch has its
counter `i`, and `began`, the array as it was when the loop read its length: the
code keeps only that length, and indexes the array as it is. A listener is a
step of any length between `CallListener` and `ListenerReturns` or
`ListenerThrows`; meanwhile the script may do what it may do outside. The fields
`by` and `nr` of an entry and `called` of a dispatch are history.

### Refs and RefStore
`refs` is the JavaScript array, slot *i* at `refs[i + 1]`; `refid` the `_refid`
of each `Ref`. `free` is a history variable: the list that the links in the
array ought to make. `duv_ref` and `duv_unref` never look at it. The refinement
maps the value that `RefStore` stores for a handle to what `Ref::push` would
push.

### Lifetimes
The counters are `uses` (of the `Ref`s) and `count` (of the events); pointers
are not variables but places: the poster's parameter (`post[w]`, with the event
`sent[w]`), the queue, `run()`'s local (`loop`, with the event `cur`), the
event's own `_ref` (`target`), the `_workerref` of a `WorkerData` (`at[w]`), and
the two that a dispatch makes. Each step moves, copies or destroys such a
pointer and counts as `Retain` and `Release` do, so that agreement of the
counters with the places is a property and not a definition. `Release` to zero
and the deletion are two steps, since another thread may act between them.
`stage` is where the end of the program is: `clear` and `destroy` (of the loop
object, with `_events` being emptied), `closed` (loop gone, heap not), `gone`;
or, if an application ends its heap first, `ending` and `heapless`. What happens
in a post to a loop object that is gone is undefined, and the worker stops
there.

## 3. Runs

Deadlock is checked in the runs of `EventLoop`, `SetTimeout` and `EventTarget`.
It is off in those of `ThreadPool`, `Worker` and `Lifetimes`, which really stop:
a pool and a program end.

| run | instance | shows |
|---|---|---|
| `event_loop` | 2 events, 2 posters, 3 runners (two of equal priority), wait of 2 ticks | types; a pass asks each runner once; the loop implements `Mailbox`, liveness included; `terminate` works once the queue drains |
| `timers` | 2 timers, delays 0 and 1, 1 expiry per pass, wait of 2 | where a timer may be, when its function is held, when it may and must be called |
| `timers_shared_loop` | 1 timer, 2 messages from another thread | the library does to the loop only what `EventLoop` allows |
| `thread_pool` | 2 tasks, 3 threads, 1 pusher besides the tasks | no task lost, doubled or slept over; the queue drains; the destructor returns, and is complete |
| `worker` | 2 messages each way, 1 timer, wait of 1 | one user of the context, messages served, destructor returns when the code lets it |
| `event_target` | 2 functions and null, 4 registrations, dispatches nested twice | which listeners a dispatch calls, in which order, and why it fails |
| `lifetimes` | 2 workers, 2 events, 2 references of the application; values: the two Worker objects, a number, undefined | no pointer dangles; counts agree with holders; `Ref`s die on their thread and before their heap; slots are reused safely; nothing is left |

Bounds. Two posters and two events give every order of a post, a notification
and a look at the queue; three runners give a registration before, at and after
the node being called, and a tie of priorities. Two timers with one expiry per
pass give the case where more expire than a pass serves; delays of 0 and 1
against ticks give equal, smaller and greater time points, and a wait of 2 is
longer than any delay. The pool needs an attached thread asleep, another
detached and a third at work. In the worker, two messages make the second be
posted while the first is served. Four registrations let a listener remove one
before, at and behind the place of a dispatch, with one left to be called, and
two levels of dispatch are a dispatch that another one disturbs. Five handles
with a dispatch's data make free lists of three slots, used in any order; the
value 1 is the number of a slot that exists. `lifetimes` takes workers, events
and the application's references as symmetric: nothing orders them, and none of
its properties is about liveness. `Fresh` bounds posting: an event object is
posted again only when it is out of the loop. `MaxTimers`, `MaxThreads` and
`MaxRegistrations` bound how many timers, threads and listeners are ever made,
`MaxDepth` how deep dispatches nest.

Runs whose property the code violates. Each states what a comment or the README
of dtel says:

| run | what the code does |
|---|---|
| `timers_self_clear` | `clearInterval` from the interval's own function does nothing |
| `timers_oversleep` | a timer made or rearmed by a handler does not shorten the wait of the same pass; the output in dtel's README shows it |
| `thread_pool_waits` | a task of a detached thread may run when the destructor has returned |
| `worker_lock` | the destructor joins a thread that waits for the lock the destructor holds |
| `worker_posts` | with the order of destruction of the example, a worker may post to a loop that is gone |

Where the code keeps a promise only under a proviso, the passing property states
the proviso: `TerminateStopsWhenDrained` and `TimerFires` require that the queue
drains again and again, since the inner loop of `run()` does not look at
`_terminated` nor at the timers; `DtorReturnsWhenQuiet` requires that
`terminate()` came after `run()` had begun, since `run()` clears the flag, and
that no handler has a post left to make, since the destructor has the lock;
`StopIsComplete` and `QueueDrains` speak of threads that `resize` has not
detached; `CallsAllowed` forbids the call of a timer only if `cancelEvent` found
it in the list, since a timer that has expired and waits in the loop's queue is
called although it is cleared; `CallsInOrder` speaks of the listeners up to the
first that was removed, since those behind it move up and one of them may be
missed; `FailsWithReason` allows the failure that follows when a dispatch then
runs off the end of the array, and the one of a listener that is no function;
`OneOnListener` speaks of functions, since a null that was assigned to an
`on...` property is a listener that no later assignment removes; `RefsDieAtHome`
excludes programs that end the heap before the loop object, where an event left
in the queue would release its `Ref` to a heap that is gone.

These provisos mark what the code gets wrong, which the properties that hold do
not catch. Where dtel says the contrary, it is one of the violations above. Of
the others, TLC finds the counterexample when the proviso is left out: handlers
that keep posting keep a terminated loop running; a worker whose `WorkerData` is
destroyed before its thread has entered `run()` is joined for ever; a listener
that removes itself, or a null assigned to `onmessage`, makes `dispatchEvent`
fail.

Notifications may be lost (a post between the last look at the queue and the
wait wakes nobody), and `IsMailbox` and `MessageServed` hold because every wait
is timed.

### Fairness
`WF` of `run()`'s own steps: its thread is scheduled and handlers return, as the
loop itself assumes. `WF` of `Notify`: a thread in `postEvent` is scheduled.
`WF` of `Tick`: time passes; `SF` in `SetTimeout`, where time stands still
between the reading of the clock and its uses in one pass. `SF` of the pool's
threads and of the posts of a worker: mutexes that are released again and again
are obtained, and a wait for one is not overtaken for ever. Nothing is assumed
of the application: it need not call `run`, post, terminate or destroy anything.

## 4. Proofs

Every theorem is about all values of the constants that satisfy the assumption
of its module; the bounds of the models (`MaxTimers`, `MaxThreads`,
`MaxRegistrations`, `MaxDepth`) are constants too, so a theorem holds for
whatever bound. The argument is nearly always an inductive invariant, and the
places where the property itself is not inductive are told below, since they say
what the code relies on.

`EventLoopProofs`, from `LoopAssumption` (`NoEvent` is not an event, priorities
are integers, the default wait is a positive number of ticks, `processException`
returns Booleans). It is the hypothesis of the theorems and not an `ASSUME`,
since `SetTimeoutProofs` and `WorkerProofs` use them of their own loops, for
which they prove it; `MCEventLoop` assumes it:

- `TypeCorrect`: `TypeOK` is inductive as it stands; the part that is more than
  a type, that `cur` is an event exactly at `apply` and `release`, is what the
  refinement needs.
- `PassCorrect`: the inductive invariant is `TypeOK /\ PassExact`: that the list
  is sorted and without duplicates, and that what is owed is the rest of the
  list. Duplicates matter because a runner that returns is taken off the debt,
  and would leave a second occurrence unpaid. The main lemma is `AddKeepsPass`:
  inserting at or before the node that is being called shifts the position with
  it, inserting after it adds to the debt.
- `Refinement`: `LoopSafety => Mail!MailSafety`, by a case for each action: five
  actions of `run()` are steps of `Mailbox`, so are the three ways to post and
  those an exception ends `run()` by, and the rest stutter.

`SetTimeoutProofs`, from `SetTimeoutAssumption` (numbers of timers and expiries
and delays are natural, messages are not timers):

- `TimersLoopIsEventLoop`: `Safety => IsEventLoop`, each action of the library
  taken to the action of `EventLoop` it conjoins, or to none.
  `TimerTypesCorrect` has the types of the loop, and `TimersLoopIsMailbox` the
  order in which expired timers and messages are served, from the theorems about
  `EventLoop`.
- `TimerInOnePlace`: the steps are reduced to eleven moves (`Move`) of timers
  between four sets, the list, the queue, the one being served and the one being
  released. `OnePlace` is not inductive: a timer that is being released is not
  in the queue, and no timer is anywhere that has not been created (`Apart`).
- `TimersNeverEarly` from `DueAndWanted`, the same of what is served, and
  `FunctionsHeld` and `TimersAccounted` from `Kept`. The last rests on
  `DueAndWanted`: only because no timer that is served is removed does `apply()`
  always rearm an interval, and on a timer that is being released being removed
  or listed (`LeavingIsKept`), so that `release()` drops the function of no
  timer that may be called.
- `CallsCorrect`, an action property, from `CalledAtMostOnce`: a timer that
  `cancelEvent` took stays removed, and a `setTimeout` timer whose function was
  called is nowhere it could be called from.
- `KnownTimersInTime` from `Planned`: from the runner's answer on, nothing moves
  a known timer out of the list or nearer in time until `run()` sleeps; that it
  looks at the front of the list only is enough because the list is sorted.

`ThreadPoolProofs`, from `PoolAssumption` (threads are numbers and not pushers,
`NoTask` is not a task):

- `PoolTypeCorrect` needs that threads are numbered in the order they are
  started in (`StartedInOrder`), so that a new one is not running already.
- `OnePlacePerTask`: a task is pushed, popped, run or dropped, and each of these
  moves keeps the places apart and their union what was pushed.
- `NoWakeUpLost`: `NoneAsleepOverTask` is not inductive: the last who was about
  to notify or to look takes one task, and there might be two. What is inductive
  (`Matched`) counts: while somebody sleeps, there are no more tasks in the
  queue than pushers that have yet to notify and workers that are on their way
  to look; and while somebody holds the mutex, having found the queue empty, no
  more than the former, which want that mutex.
- `DestructorComplete` from `Stopping`: a worker leaves for `isDone` only after
  a look at the queue with the mutex held, so that of the tasks promised by
  then, which were all pushed, none is there.

`WorkerProofs`, from `WorkerAssumption` (no event is `NoEvent`, a positive
default wait):

- `WorkerLoopIsEventLoop` and `CreatorLoopIsMailbox`: the two loops of the
  program are what their modules say, whatever the others do. With the theorems
  about `EventLoop`, the worker's is a `Mailbox` as well
  (`WorkerLoopIsMailbox`): what is posted to a worker is served once and in
  order.
- `WorkerTypeCorrect` and `ContextHasOneUser`: neither `TypeOK` nor
  `OneUserOfContext` is inductive without the other (`TypesAndUsers`): that the
  thread which `LoadReturns` starts is not in `run()` yet is what the latter
  says of a loading creator.

`EventTargetProofs`, from `EventTargetAssumption` (null is not a function):

- The inductive invariant (`TargetInv`) says of each dispatch that what it began
  with is, up to the first that was removed, where it was (`Prefix`), and has
  been called in that order (`InOrder`); that no entry it has called is in front
  of it (`Behind`); and that registrations have numbers in the order of the list
  (`Numbered`). `CallsInOrder`, `OncePerDispatch` and `FailsWithReason` follow
  (`DispatchInOrder`, `DispatchOnce`, `DispatchFailsWithReason`). The main lemma
  is `WithoutFacts`: `removeEventListener` moves the entries that stay towards
  the beginning and keeps their order, for which `Without` is defined by
  counting.
- `DispatchBounded` and `TargetTypeCorrect` are parts of `TargetInv`;
  `OneListenerOfProperty` is inductive with it.

`RefsProofs`, from `RefsAssumption` (undefined is a value, and the marks for "no
value" and "no reference" are not values or numbers):

- `RefsTypeCorrect` and `FreeListCorrect`: the two properties together,
  `RefsInv`, are inductive: that a new reference gets a slot needs the chain
  (`Chained`: the head of the list is a free slot, if it is not 0), that it is
  nobody else's needs the partition of the slots, and that the rest of the chain
  is still one after the write needs that no slot is on it twice. There is a
  lemma for each way the list changes: `PopKeepsInv`, `AppendKeepsInv`,
  `PushKeepsInv`, `SlotlessKeepsInv`.
- `ValuesKept`: `RefsSpec => KeepsValues`, the refinement of `RefStore`. The
  same lemmas say which slots a step writes: the head of the list, the one
  behind the end, or the one given back, none of them another reference's
  (`StoredUpdate`).
- `GrowthBounded`: with the link 0 in slot 0 the list is empty, so all slots are
  taken.

`LifetimesProofs`, from `RefsAssumption` and `LifetimesAssumption` (Worker
objects are values and have `Ref`s, `Mref` is one more, and there are finitely
many workers and events, without which there would be nothing to count):

- The inductive invariant is `LifeInv`. For events (`EventOK`) it is
  `EventsCounted` and that an event is not being deleted by both of its threads.
  For `Ref`s (`RefOK`) it is `RefsCounted` and that a `Ref` that exists keeps
  the Worker object it was made for. Neither half stands without the other, nor
  without `Sending`: a worker that posts has its `WorkerData` and an event about
  itself.
- `LifetimesTypesCorrect`: that no pointer dangles follows from the counts: an
  event with a holder has a count that is not zero (`QueueFacts`, `CurFacts`,
  `SentFacts`), and only one of count zero is deleted.
- `EventsCountedCorrectly` and `RefsCountedCorrectly`: each step is described by
  the sets of holders it moves (`PostMoves`, `ReferMoves`, `PlacesTail`), and
  moving one element changes a cardinality by one (`OneMoves`).
- `EventsFindTheirWorker`: an event is one of what its target's count counts, so
  the `Ref` exists (`TargetFacts`).
- `RefsDeletedAtHome`: the poster that deletes an event is never the one that
  takes its `Ref`'s count to zero, since its `WorkerData`, which has to join it
  first, holds one more (`StraysStep`).
- `NothingLeft`: with the heap gone nobody posts, the loop and its queue are
  empty and no `WorkerData` is there (`Ends`), so all counts are zero, and a
  free list with all slots is as long as the array (`AllFree`).
- `ReferencesAreRefs`: `Spec => RefsSpec`, since `Ref`s are deleted when they
  exist and made when they do not; hence `SlotsSharedOut`,
  `ReferencesKeepValues` and `ReferencesGrowWhenFull`, from the theorems of
  `RefsProofs`.

Only model-checked: liveness, that is, the fairness part of `IsMailbox`,
`TerminateStopsWhenDrained`, `TimerFires`, `QueueDrains`, `StopEnds`,
`MessageServed` and `DtorReturnsWhenQuiet`, which is out of the prover's reach;
and the violations of section 3, which are counterexamples. That `IsMailbox`
holds but for its fairness is `Refinement`.

## 5. Not modelled

- What a task of the pool computes, and its `std::future`, is the application's.
  `stop(false)`, `pop` and `n_idle` of the pool are unused by dtel.
- A data race without an effect of its own: `_removed` of a timer is a plain
  `bool` that `cancelEvent`, on any thread, writes while `release` reads it; the
  models read and write it in one step, as the builds do.
- Delays are not negative; a script may ask for one, and gets a timer that has
  expired.
- What a condition variable or a mutex does inside; a wait may end for no
  reason.
- What a detached thread does to a destroyed pool, and a worker to a destroyed
  loop: undefined; the models stop there and say so (`TouchesPool`, `dangling`).
- A second `RegisterSetTimeout` on one heap, 2^31 timers, workers made by a
  worker.
- A script that keeps an event or a `Worker` object alive by itself: the
  engine's garbage collector frees the JavaScript objects, and only the stash of
  `Refs` is dtel's.
- Pointers that are copied and destroyed within one step of one thread, and the
  non-atomic `RefCountedBase`, which nothing uses.
- The console: its storage is touched by its registration and by its finalizer
  only, one after the other (`lib/console/detail/functions.h:73` reads the
  pointer from the wrong place of the stack, so the storage is leaked). Its
  output is formatting.
- What each function leaves on the duktape stack: straight-line code between
  calls of the engine, and `ResetStackOnScopeExit` resets the stack around every
  event.
- Conversions (`Value.h`, `ValueObject.h`, `util.h`), the text of messages and
  errors, `any.hpp`, `optional.hpp`, and duktape itself, which is nearly all the
  code of the repository: third-party code that the models use through its
  interface.

## 6. Plan

What the violated properties of section 3 leave true, as invariants with proofs:
that a worker posts to a loop that is gone only after its application destroyed
the loop before the heap; and who holds the lock of a worker when its destructor
joins.
