---------------------------- MODULE CoalescingTask ----------------------------
(***************************************************************************)
(* What a TaskWithDelayThread promises the code that uses it: a run that   *)
(* was requested happens, requests made before a run starts are answered   *)
(* by that one run, and two runs never overlap.                            *)
(***************************************************************************)
VARIABLES pending,  \* a run has been requested and has not started
          active    \* the task's function is running

vars == <<pending, active>>

TypeOK == pending \in BOOLEAN /\ active \in BOOLEAN

Init == pending = FALSE /\ active = FALSE

Request == pending' = TRUE /\ UNCHANGED active

Begin == /\ pending
         /\ ~active
         /\ pending' = FALSE
         /\ active' = TRUE

End == /\ active
       /\ active' = FALSE
       /\ UNCHANGED pending

Next == Request \/ Begin \/ End

Spec == Init /\ [][Next]_vars

(* Every requested run starts and every run ends. *)
FairSpec == Spec /\ WF_vars(Begin) /\ WF_vars(End)
===============================================================================
