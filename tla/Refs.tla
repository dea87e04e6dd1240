-------------------------------- MODULE Refs --------------------------------
(***************************************************************************)
(* The references of include/dtel/detail/refs.h: an array in the stash of  *)
(* the heap keeps the values that C++ holds a Ref of.  Its slot 0 is the   *)
(* head of a list of free slots, each of which holds the number of the     *)
(* next one; 0 ends the list.  Reference 0 is undefined and has no slot.   *)
(*                                                                         *)
(* A script's value may be a number too, so nothing in a slot tells a      *)
(* value from a link: only the list does.                                  *)
(***************************************************************************)
EXTENDS Integers, Sequences, SequencesExt

CONSTANTS Handles, Values,    \* as in RefStore
          Undefined,          \* the value undefined
          NoValue,
          NoRef               \* the _refid of a Ref that does not exist

ASSUME RefsAssumption ==
  Undefined \in Values /\ NoValue \notin Values \cup Nat /\ NoRef \notin Nat

VARIABLES
  refs,     \* the array; slot i is refs[i + 1]
  refid,    \* _refid, by handle
  free      \* history: the list of free slots, the head first

refVars == <<refs, refid, free>>

\* duv_ref_setup(): an array with one 0.
RefsInit == refs = <<0>> /\ refid = [h \in Handles |-> NoRef] /\ free = <<>>

Get(i) == refs[i + 1]

\* Assigning at the length of a JavaScript array makes it longer.
Put(a, i, v) == IF i = Len(a) THEN Append(a, v) ELSE [a EXCEPT ![i + 1] = v]

-----------------------------------------------------------------------------
\* Faulty variant: the head of the list stays where it is.
duv_ref_keepHead(h, v) ==
  /\ refid' = [refid EXCEPT ![h] = IF Get(0) # 0 THEN Get(0) ELSE Len(refs)]
  /\ refs' = Put(refs, refid'[h], v)
  /\ UNCHANGED free

\* Faulty variant: the list is not looked at.
duv_ref_atEnd(h, v) ==
  /\ refid' = [refid EXCEPT ![h] = Len(refs)]
  /\ refs' = Append(refs, v)
  /\ UNCHANGED free

\* The value on top of the stack gets the slot at the head of the list, or a
\* new one at the end of the array.
duv_ref(h, v) ==
  \/ /\ v = Undefined
     /\ refid' = [refid EXCEPT ![h] = 0] /\ UNCHANGED <<refs, free>>
  \/ /\ v # Undefined /\ Get(0) # 0
     /\ refid' = [refid EXCEPT ![h] = Get(0)]
     /\ refs' = Put(Put(refs, 0, Get(Get(0))), Get(0), v)
     /\ free' = Tail(free)
  \/ /\ v # Undefined /\ Get(0) = 0
     /\ refid' = [refid EXCEPT ![h] = Len(refs)]
     /\ refs' = Put(refs, Len(refs), v)
     /\ UNCHANGED free

duv_push_ref(ref) == IF ref = 0 THEN Undefined ELSE Get(ref)

\* The slot becomes the head of the list.
duv_unref(ref) ==
  IF ref = 0 THEN UNCHANGED <<refs, free>>
  ELSE refs' = Put(Put(refs, ref, Get(0)), 0, ref) /\ free' = <<ref>> \o free

-----------------------------------------------------------------------------
\* Ref::Ref() and Ref::~Ref().
NewRef(h, v) == refid[h] = NoRef /\ duv_ref(h, v)

\* Faulty variant: of ~Ref(), which may run again for the same _refid.
DeleteRefAgain(h) ==
  /\ refid[h] # NoRef
  /\ duv_unref(refid[h]) /\ UNCHANGED refid

DeleteRef(h) ==
  /\ refid[h] # NoRef
  /\ duv_unref(refid[h]) /\ refid' = [refid EXCEPT ![h] = NoRef]

RefsNext == \E h \in Handles : DeleteRef(h) \/ \E v \in Values : NewRef(h, v)

RefsSpec == RefsInit /\ [][RefsNext]_refVars

-----------------------------------------------------------------------------
(* Properties                                                              *)

Slots == 1..(Len(refs) - 1)
Taken == {refid[h] : h \in Handles} \ {NoRef, 0}

\* What follows place i of the list: the next free slot or the end.
Link(i) == IF i = Len(free) THEN 0 ELSE free[i + 1]

\* The list that starts in slot 0 visits the free slots in order and ends.
Chained == Get(0) = Link(0) /\ \A i \in 1..Len(free) : Get(free[i]) = Link(i)

\* Every variable has its type.
RefsTypeOK ==
  /\ refs \in Seq(Values \cup Nat) /\ Len(refs) > 0
  /\ refid \in [Handles -> Slots \cup {NoRef, 0}]
  /\ free \in Seq(Slots)

\* A slot is either on the free list, once, or in the hands of one Ref: no value
\* of a script is ever followed as a link, no slot is lost, and no two
\* references share one, as they would if one were released twice (refs.h:101).
FreeListExact ==
  /\ Chained /\ IsInjective(free)
  /\ Range(free) \cap Taken = {} /\ Range(free) \cup Taken = Slots
  /\ \A g, h \in Handles : refid[g] = refid[h] /\ refid[g] \in Slots => g = h

\* A Ref pushes the value it was made from until it is deleted, whatever happens
\* to the others.
Store ==
  INSTANCE RefStore WITH stored <-
    [h \in Handles |-> IF refid[h] = NoRef THEN NoValue ELSE duv_push_ref(refid[h])]
KeepsValues == Store!StoreSpec

\* The array grows only while every slot of it is in use, so it is never longer
\* than there were references at one time.
GrowsWhenFull == [][Len(refs') > Len(refs) => Taken = Slots]_refVars
=============================================================================
