------------------------------ MODULE HvacSystem ------------------------------
(***************************************************************************)
(* The ProcessManager together with the control loop of the controller it  *)
(* has started.  A controller's state ends with its process, and with      *)
(* SIGTERM, whose handler does not return to the loop; the next one starts *)
(* five degrees below the setpoint again.                                  *)
(***************************************************************************)
EXTENDS ProcessManager, PidControl

vars == <<mgrVars, pidVars>>

Init == MgrInit /\ PidInit

ControllerUp == hvac # 0 /\ procs[hvac].state = "up"

\* A step of the manager or the end of a process, and what it means to the loop.
Manage ==
    /\ Manager \/ \E i \in DOMAIN procs : Die(i)
    /\ IF ControllerUp' THEN UNCHANGED pidVars ELSE PidReset

\* The loop goes around.
Control ==
    /\ ControllerUp
    /\ Iterate
    /\ UNCHANGED mgrVars

Next == Manage \/ Control

Spec == Init /\ [][Next]_vars

\* The thread that made a call goes on.
FairSpec == Spec /\ WF_vars(Steps /\ Manage)

----------------------------------------------------------------------------

\* Type invariant.
TypeOK == MgrTypeOK /\ PidTypeOK
=============================================================================
