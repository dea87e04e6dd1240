----------------------------- MODULE EventTarget ----------------------------
(***************************************************************************)
(* EventTarget, which is JavaScript inside lib/eventtarget/EventTarget.h:  *)
(* the listeners of one type on one target, dispatchEvent() over them, and *)
(* the on... property that lib/worker/Worker.h defines on top (defevt).    *)
(* Listeners are scripts: while one runs it may add and remove listeners,  *)
(* set the property, dispatch again and throw.                             *)
(***************************************************************************)
EXTENDS Integers, FiniteSets, Sequences, SequencesExt

CONSTANTS
  Callbacks,        \* functions of the script
  NotCallable,      \* null or undefined, which may be a listener as well
  MaxRegistrations, \* bound: how many listeners are ever added
  MaxDepth          \* bound: how deep dispatches nest

ASSUME EventTargetAssumption ==
  NotCallable \notin Callbacks /\ MaxRegistrations \in Nat /\ MaxDepth \in Nat

VARIABLES
  stack,    \* this.listeners[type]
  on,       \* this["_on" + type]
  calls,    \* the dispatches under way, the innermost last
  made      \* history: how many listeners were ever added

vars == <<stack, on, calls, made>>

(***************************************************************************)
(* An entry of stack is the function with two history fields that tell     *)
(* registrations of one function apart.  A dispatch is its counter i, the  *)
(* stack it began with, whose length is its l, whether it is inside of a   *)
(* listener, and (history) the entries it has called.                      *)
(***************************************************************************)
Listeners == Callbacks \cup {NotCallable}
Entry == [fn : Listeners, by : {"add", "on"}, nr : 1..MaxRegistrations]

Init == stack = <<>> /\ on = NotCallable /\ calls = <<>> /\ made = 0

Top == Last(calls)
ScriptRuns == calls # <<>> => Top.inside
SetTop(call) == calls' = Append(Front(calls), call)
Leave == calls' = Front(calls) /\ UNCHANGED <<stack, on, made>>

\* removeEventListener() calls itself until no entry is left; those that stay
\* close up, each behind those that were before it.
Without(s, f) ==
  LET stay == {q \in 1..Len(s) : s[q].fn # f}
      Place(q) == Cardinality({k \in stay : k <= q})
  IN [j \in 1..Cardinality(stay) |-> s[CHOOSE q \in stay : Place(q) = j]]
With(s, f, by) == Append(s, [fn |-> f, by |-> by, nr |-> made + 1])

-----------------------------------------------------------------------------
(* The script                                                              *)

\* Faulty variant: unshift() for push().
addEventListener_first(f) ==
  /\ ScriptRuns /\ made < MaxRegistrations
  /\ stack' = <<[fn |-> f, by |-> "add", nr |-> made + 1]>> \o stack
  /\ made' = made + 1
  /\ UNCHANGED <<on, calls>>

addEventListener(f) ==
  /\ ScriptRuns /\ made < MaxRegistrations
  /\ stack' = With(stack, f, "add") /\ made' = made + 1
  /\ UNCHANGED <<on, calls>>

\* Faulty variant: the dispatches under way step back when an entry is gone, as
\* if it had been before the place where they are.
removeEventListener_adjust(f) ==
  /\ ScriptRuns
  /\ stack' = Without(stack, f)
  /\ calls' = [c \in DOMAIN calls |->
       [calls[c] EXCEPT !.i = IF stack' # stack /\ @ > 0 THEN @ - 1 ELSE @]]
  /\ UNCHANGED <<on, made>>

removeEventListener(f) ==
  /\ ScriptRuns
  /\ stack' = Without(stack, f)
  /\ UNCHANGED <<on, calls, made>>

\* Faulty variant: the property is assigned before its old value is removed.
setOn_assignFirst(f) ==
  /\ ScriptRuns /\ made < MaxRegistrations
  /\ stack' = With(IF f # NotCallable THEN Without(stack, f) ELSE stack, f, "on")
  /\ on' = f /\ made' = made + 1
  /\ UNCHANGED calls

\* Assigning to on...: "!= undefined" is false of null, so a null that was
\* added is not removed when the next value is.
setOn(f) ==
  /\ ScriptRuns /\ made < MaxRegistrations
  /\ stack' = With(IF on # NotCallable THEN Without(stack, on) ELSE stack, f, "on")
  /\ on' = f /\ made' = made + 1
  /\ UNCHANGED calls

-----------------------------------------------------------------------------
(* dispatchEvent(), called by the script or by EventTarget_dispatchEvent() *)

dispatchEvent ==
  /\ ScriptRuns /\ Len(calls) < MaxDepth
  /\ calls' = Append(calls, [i |-> 0, began |-> stack, inside |-> FALSE, called |-> <<>>])
  /\ UNCHANGED <<stack, on, made>>

Iterating == calls # <<>> /\ ~Top.inside

\* Faulty variant: the loop asks for the length each time.
More_uncached == Iterating /\ Top.i < Len(stack)

\* Faulty variant: i <= l.
More_inclusive == Iterating /\ Top.i <= Len(Top.began)

\* i < l
More == Iterating /\ Top.i < Len(Top.began)

\* stack[i] is undefined, null, or a function.
Callable == Top.i < Len(stack) /\ stack[Top.i + 1].fn # NotCallable

CallListener ==
  /\ More /\ Callable
  /\ SetTop([Top EXCEPT !.inside = TRUE, !.called = Append(@, stack[Top.i + 1])])
  /\ UNCHANGED <<stack, on, made>>

ListenerReturns ==
  /\ calls # <<>> /\ Top.inside
  /\ SetTop([Top EXCEPT !.inside = FALSE, !.i = @ + 1])
  /\ UNCHANGED <<stack, on, made>>

\* An exception ends the dispatch; the listener that called it, if one did, goes
\* on if it catches it, and throws too if not.
ListenerThrows == calls # <<>> /\ Top.inside /\ Leave

\* .call of what is not a function.
TypeError == More /\ ~Callable /\ Leave

DispatchReturns == Iterating /\ ~More /\ Leave

Next ==
  \/ \E f \in Listeners : addEventListener(f) \/ removeEventListener(f) \/ setOn(f)
  \/ dispatchEvent \/ CallListener \/ ListenerReturns \/ ListenerThrows
  \/ TypeError \/ DispatchReturns

Spec == Init /\ [][Next]_vars

-----------------------------------------------------------------------------
(* Properties                                                              *)

\* Every variable has its type, no registration is twice in the list, and all
\* dispatches but the innermost are inside of a listener.
TypeOK ==
  /\ stack \in Seq(Entry) /\ on \in Listeners /\ made \in 0..MaxRegistrations
  /\ \A j, k \in 1..Len(stack) : j < k => stack[j].nr < stack[k].nr
  /\ calls \in Seq([i : Nat, began : Seq(Entry), inside : BOOLEAN, called : Seq(Entry)])
  /\ \A j \in 1..(Len(calls) - 1) : calls[j].inside

\* How many of the listeners that a dispatch began with have not been removed, up
\* to the first that has.
InPlace(call, n) == \A j \in 1..n : call.began[j] \in Range(stack)

\* The listeners that are there when a dispatch begins are called in the order of
\* their registration, up to the first that is removed meanwhile (the ones
\* behind it move up, and may be missed): neither what is added nor what
\* is dispatched in between disturbs it (EventTarget.h:189).
CallsInOrder ==
  \A c \in Range(calls) : \A n \in 1..Len(c.began) :
    InPlace(c, n) /\ (n <= c.i \/ (n = c.i + 1 /\ c.inside)) =>
      n <= Len(c.called) /\ c.called[n] = c.began[n]

\* A dispatch calls no registration twice.
OncePerDispatch == \A c \in Range(calls) : IsInjective(c.called)

\* It calls no more listeners than it began with, so it ends although each of
\* them adds another.
CallsBounded == \A c \in Range(calls) : Len(c.called) <= Len(c.began)

\* dispatchEvent() throws of its own accord only if one of the listeners is not a
\* function or one it began with was removed: EventTarget_dispatchEvent(), which
\* makes an exception of it, fails for no other reason (EventTarget.h:69).
FailsWithReason ==
  More /\ ~Callable =>
    \/ \E e \in Range(stack) : e.fn = NotCallable
    \/ ~InPlace(Top, Len(Top.began))

\* However the property is assigned and the listeners are handled, at most one
\* function is a listener because of an assignment to it, and it is the value of
\* the property (Worker.h:268).
OneOnListener ==
  \A e \in Range(stack) : e.by = "on" /\ e.fn # NotCallable => e.fn = on
=============================================================================
