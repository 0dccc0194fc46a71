------------------------------ MODULE Handoff -------------------------------
(***************************************************************************)
(* What Parser relies on when it calls Learner::GetData: a one-place       *)
(* hand-over.  A batch is taken only when the one before has been trained  *)
(* on, it is trained on exactly once, and on exactly the samples that have *)
(* a label.                                                                *)
(***************************************************************************)
CONSTANTS Inputs,    \* the sample sequences that may be handed over
          None       \* no sequence of samples

VARIABLES slot,      \* samples handed over and not yet trained on
          last       \* samples of the last update

vars == <<slot, last>>

Init == slot = None /\ last = None

Give(b) == slot = None /\ slot' = b /\ UNCHANGED last

Train == slot # None /\ last' = slot /\ slot' = None

Next == (\E b \in Inputs : Give(b)) \/ Train

Safety == Init /\ [][Next]_vars
Spec == Safety /\ WF_vars(Train)
=============================================================================
