----------------------------- MODULE RefStore -------------------------------
(***************************************************************************)
(* What Ref promises (include/dtel/Ref.h): a handle that gives back the    *)
(* value it was made from as long as it lives, whatever other handles are  *)
(* made and dropped meanwhile.                                             *)
(***************************************************************************)
CONSTANTS Handles,  \* Ref objects
          Values,   \* what a script can put on the value stack
          NoValue   \* the handle does not exist

VARIABLE stored     \* by handle, the value it gives back

StoreInit == stored = [h \in Handles |-> NoValue]

Keep(h, v) == stored[h] = NoValue /\ stored' = [stored EXCEPT ![h] = v]

Drop(h) == stored[h] # NoValue /\ stored' = [stored EXCEPT ![h] = NoValue]

StoreNext == \E h \in Handles : Drop(h) \/ \E v \in Values : Keep(h, v)

StoreSpec == StoreInit /\ [][StoreNext]_stored
=============================================================================
