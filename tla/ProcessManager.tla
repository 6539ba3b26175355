---------------------------- MODULE ProcessManager ----------------------------
(***************************************************************************)
(* The gateway's ProcessManager (Gateway/process_manager.py) and the       *)
(* controller and meter processes it starts and stops.  One thread uses    *)
(* it, one call after the other.  Of its methods the gateway itself only   *)
(* calls cleanup_all, and ends.                                            *)
(*                                                                         *)
(* A process that was sent SIGTERM may take any time to end, or never do   *)
(* so: the controller's handler calls into libmosquitto.  A call that      *)
(* returns at once without a change of state, as spawn_hvac does when the  *)
(* controller runs or Popen fails, is no step.                             *)
(***************************************************************************)
EXTENDS Naturals, Sequences

CONSTANTS
    MaxProcs,       \* bound: processes started
    MaxRestarts     \* OrchestrationConfig.max_restart_attempts

ASSUME BoundAssumption == MaxProcs \in Nat /\ MaxRestarts \in Nat

VARIABLES
    procs,      \* the processes started so far: their kind and state
    hvac,       \* hvac_process, 0 for None
    power,      \* power_process, 0 for None
    restarts,   \* restart_count['hvac']
    pc,         \* what the running call does next
    next,       \* what follows when it returns, within cleanup_all
    ended       \* the gateway has ended

mgrVars == <<procs, hvac, power, restarts, pc, next, ended>>

MgrInit ==
    /\ procs = << >>
    /\ hvac = 0 /\ power = 0 /\ restarts = 0
    /\ pc = "idle" /\ next = "idle" /\ ended = FALSE

Gone(i) == procs[i].state = "gone"

\* is_hvac_running, is_power_running.
Running(i) == i # 0 /\ ~Gone(i)

Process(kind) == [kind |-> kind, state |-> "up"]

\* Popen.terminate: nothing happens to a process that has ended.
Terminate(i) == procs' = IF Gone(i) THEN procs ELSE [procs EXCEPT ![i].state = "term"]

Idle == pc = "idle" /\ ~ended

\* A method of cleanup_all, or the only one, returns.
Return ==
    /\ pc' = next
    /\ next' = IF next = "kill_power_meter" THEN "end" ELSE "idle"

----------------------------------------------------------------------------
(* The calls *)

\* spawn_hvac.
SpawnHvac ==
    /\ Idle /\ ~Running(hvac) /\ Len(procs) < MaxProcs
    /\ procs' = Append(procs, Process("hvac"))
    /\ hvac' = Len(procs')
    /\ restarts' = 0
    /\ pc' = "spawn_power_meter"
    /\ UNCHANGED <<power, next, ended>>

\* spawn_power_meter, called by spawn_hvac; Popen may fail.
SpawnMeter ==
    /\ pc = "spawn_power_meter"
    /\ \/ /\ ~Running(power) /\ Len(procs) < MaxProcs
          /\ procs' = Append(procs, Process("power"))
          /\ power' = Len(procs')
       \/ UNCHANGED <<procs, power>>
    /\ Return
    /\ UNCHANGED <<hvac, restarts, ended>>

\* kill_hvac is called.
Kill ==
    /\ Idle /\ hvac # 0
    /\ pc' = "kill_hvac"
    /\ UNCHANGED <<procs, hvac, power, restarts, next, ended>>

\* cleanup_all is called.
Cleanup ==
    /\ Idle
    /\ pc' = "kill_hvac" /\ next' = "kill_power_meter"
    /\ UNCHANGED <<procs, hvac, power, restarts, ended>>

\* kill_hvac up to its wait.
KillHvac ==
    /\ pc = "kill_hvac"
    /\ \/ hvac = 0 /\ Return /\ UNCHANGED procs
       \/ hvac # 0 /\ pc' = "wait_hvac" /\ Terminate(hvac) /\ UNCHANGED next
    /\ UNCHANGED <<hvac, power, restarts, ended>>

\* Mutant of WaitHvac: the time-out is handled as in kill_power_meter, and
\* the handle is given up.
WaitHvacOnce ==
    /\ pc = "wait_hvac"
    /\ hvac' = 0
    /\ pc' = "kill_power_meter"
    /\ UNCHANGED <<procs, power, restarts, next, ended>>

\* The rest of kill_hvac: the process ends, or is killed after five seconds.
WaitHvac ==
    /\ pc = "wait_hvac"
    /\ procs' = [procs EXCEPT ![hvac].state = "gone"]
    /\ hvac' = 0
    /\ pc' = "kill_power_meter"
    /\ UNCHANGED <<power, restarts, next, ended>>

\* Mutant of KillMeter: the meter is left to end by itself.
KillMeterSkips ==
    /\ pc = "kill_power_meter"
    /\ Return
    /\ UNCHANGED <<procs, hvac, power, restarts, ended>>

\* kill_power_meter up to its wait.
KillMeter ==
    /\ pc = "kill_power_meter"
    /\ \/ power = 0 /\ Return /\ UNCHANGED procs
       \/ power # 0 /\ pc' = "wait_power" /\ Terminate(power) /\ UNCHANGED next
    /\ UNCHANGED <<hvac, power, restarts, ended>>

\* Mutant of WaitMeter: without a time-out.
WaitMeterLong ==
    /\ pc = "wait_power" /\ Gone(power)
    /\ power' = 0
    /\ Return
    /\ UNCHANGED <<procs, hvac, restarts, ended>>

\* The rest of kill_power_meter: after five seconds it gives up and keeps the
\* handle.
WaitMeter ==
    /\ pc = "wait_power"
    /\ \/ Gone(power) /\ power' = 0
       \/ ~Gone(power) /\ UNCHANGED power
    /\ Return
    /\ UNCHANGED <<procs, hvac, restarts, ended>>

\* run_gateway returns.
End ==
    /\ pc = "end"
    /\ ended' = TRUE
    /\ Return
    /\ UNCHANGED <<procs, hvac, power, restarts>>

\* monitor_health: the attempt to restart is counted and not made.
MonitorHealth ==
    /\ Idle /\ hvac # 0 /\ Gone(hvac) /\ restarts < MaxRestarts
    /\ restarts' = restarts + 1
    /\ UNCHANGED <<procs, hvac, power, pc, next, ended>>

\* A process ends, by itself or because of the signal.
Die(i) ==
    /\ ~Gone(i)
    /\ procs' = [procs EXCEPT ![i].state = "gone"]
    /\ UNCHANGED <<hvac, power, restarts, pc, next, ended>>

Steps == SpawnMeter \/ KillHvac \/ WaitHvac \/ KillMeter \/ WaitMeter \/ End
Manager == SpawnHvac \/ Kill \/ Cleanup \/ Steps \/ MonitorHealth

----------------------------------------------------------------------------
(* Properties *)

MgrTypeOK ==
    /\ procs \in Seq([kind : {"hvac", "power"}, state : {"up", "term", "gone"}])
    /\ Len(procs) <= MaxProcs
    /\ hvac \in 0..Len(procs) /\ power \in 0..Len(procs)
    /\ hvac # 0 => procs[hvac].kind = "hvac"
    /\ power # 0 => procs[power].kind = "power"
    /\ restarts \in 0..MaxRestarts /\ ended \in BOOLEAN
    /\ pc \in {"idle", "spawn_power_meter", "kill_hvac", "wait_hvac",
              "kill_power_meter", "wait_power", "end"}
    /\ next \in {"idle", "kill_power_meter", "end"}

\* Every process that runs is one the manager has a handle of, through failed
\* spawns, time-outs and processes that end by themselves: so there are never
\* two controllers, nor two meters.
NoOrphan == \A i \in DOMAIN procs : ~Gone(i) => i \in {hvac, power}

\* What the gateway leaves behind: at most a meter that did not react to
\* SIGTERM, and nothing that was not sent it.
LeavesOnlyHung ==
    ended => \A i \in DOMAIN procs :
        ~Gone(i) => procs[i] = [kind |-> "power", state |-> "term"]

\* Every call returns, though a process may never end.
CallsReturn == (pc # "idle") ~> (pc = "idle")
=============================================================================
