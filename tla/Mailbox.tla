------------------------------ MODULE Mailbox ------------------------------
(***************************************************************************)
(* What EventLoop promises to the threads that post to it, with run()'s    *)
(* phases, its clock, its locks and its condition variable hidden: a FIFO  *)
(* of pending events served one at a time while the loop is running.       *)
(***************************************************************************)
EXTENDS Sequences

CONSTANTS Events,   \* event objects
          NoEvent   \* not an event: the loop is between two

VARIABLES pending,  \* events posted and not yet taken, oldest first
          serving,  \* the event being applied or released, or NoEvent
          running   \* run() has been entered and has not returned

mailVars == <<pending, serving, running>>

MailInit == pending = <<>> /\ serving = NoEvent /\ running = FALSE

Start == ~running /\ running' = TRUE /\ UNCHANGED <<pending, serving>>

\* Any thread, at any time, also while an event is being served.
Deliver(e) == pending' = Append(pending, e) /\ UNCHANGED <<serving, running>>

Take ==
  /\ running /\ serving = NoEvent /\ pending # <<>>
  /\ serving' = Head(pending)
  /\ pending' = Tail(pending)
  /\ UNCHANGED running

Finish == serving # NoEvent /\ serving' = NoEvent /\ UNCHANGED <<pending, running>>

\* run() returns: what is pending at that moment is dropped.
Close ==
  /\ running /\ serving = NoEvent
  /\ pending' = <<>> /\ running' = FALSE
  /\ UNCHANGED serving

\* An exception leaves run(): at most the event being served is lost.
Abort ==
  /\ running
  /\ serving' = NoEvent /\ running' = FALSE
  /\ UNCHANGED pending

MailNext ==
  \/ Start \/ Take \/ Finish \/ Close \/ Abort
  \/ \E e \in Events : Deliver(e)

MailSafety == MailInit /\ [][MailNext]_mailVars

\* An event that is pending while the loop runs is taken, unless run() ends
\* first; an event that is served is finished or ends run().
MailFairness == WF_mailVars(Take) /\ WF_mailVars(Finish \/ (serving # NoEvent /\ Abort))

MailSpec == MailSafety /\ MailFairness
=============================================================================
