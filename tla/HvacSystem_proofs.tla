-------------------------- MODULE HvacSystem_proofs --------------------------
(***************************************************************************)
(* Proofs about the process manager and the control loop, for any number   *)
(* of processes, any limit on restarts and any precision of the numbers.   *)
(***************************************************************************)
EXTENDS HvacSystem, TLAPS

(***************************************************************************)
(* Where a call of the manager is, and what that says about the handles:   *)
(* the meter is only dealt with when the controller's handle is given up,  *)
(* and cleanup_all does not get past it without having sent SIGTERM.       *)
(***************************************************************************)
Told == power = 0 \/ procs[power].state \in {"term", "gone"}

PhaseInv ==
    /\ pc = "wait_hvac" => hvac # 0
    /\ pc \in {"kill_power_meter", "wait_power", "end"} => hvac = 0
    /\ pc = "wait_power" => power # 0
    /\ next = "kill_power_meter" =>
         pc \in {"kill_hvac", "wait_hvac", "kill_power_meter", "wait_power"}
    /\ next = "end" => pc \in {"kill_power_meter", "wait_power"}
    /\ pc \in {"wait_power", "end"} \/ ended => Told
    /\ ended => pc = "idle" /\ hvac = 0

MgrInv == MgrTypeOK /\ PhaseInv /\ NoOrphan

State == {"up", "term", "gone"}
Procs == [kind : {"hvac", "power"}, state : State]

----------------------------------------------------------------------------
(* Steps on the processes *)

\* A process whose state is set keeps its kind; the others stay as they are.
LEMMA SetState ==
    ASSUME NEW ps \in Seq(Procs), NEW i \in 1..Len(ps), NEW s \in State
    PROVE  LET qs == [ps EXCEPT ![i].state = s]
           IN  /\ qs \in Seq(Procs) /\ Len(qs) = Len(ps)
               /\ \A j \in 1..Len(ps) :
                    /\ qs[j].kind = ps[j].kind
                    /\ qs[j].state = IF j = i THEN s ELSE ps[j].state
<1> DEFINE qs == [ps EXCEPT ![i].state = s]
<1>1. ps \in [1..Len(ps) -> Procs] /\ Len(ps) \in Nat
  OBVIOUS
<1>2. ps[i] \in Procs
  BY <1>1
<1>3. [ps[i] EXCEPT !.state = s] = [kind |-> ps[i].kind, state |-> s]
  BY <1>2 DEF Procs
<1>4. [kind |-> ps[i].kind, state |-> s] \in Procs
  BY <1>2 DEF Procs
<1>5. qs = [ps EXCEPT ![i] = [kind |-> ps[i].kind, state |-> s]]
  BY <1>3
<1>6. qs \in [1..Len(ps) -> Procs] /\ DOMAIN qs = 1..Len(ps)
  BY <1>1, <1>4, <1>5
<1>7. qs \in Seq(Procs) /\ Len(qs) = Len(ps)
  BY <1>1, <1>6
<1>8. ASSUME NEW j \in 1..Len(ps)
      PROVE  /\ qs[j].kind = ps[j].kind
             /\ qs[j].state = IF j = i THEN s ELSE ps[j].state
  BY <1>1, <1>5, <1>8
<1> QED
  BY <1>7, <1>8

\* A new process is up and the last; the others stay as they are.
LEMMA AddProcess ==
    ASSUME NEW ps \in Seq(Procs), NEW kind \in {"hvac", "power"}
    PROVE  LET qs == Append(ps, Process(kind))
           IN  /\ qs \in Seq(Procs) /\ Len(qs) = Len(ps) + 1
               /\ qs[Len(ps) + 1] = Process(kind)
               /\ \A j \in 1..Len(ps) : qs[j] = ps[j]
<1>1. Process(kind) \in Procs
  BY DEF Process, Procs, State
<1> QED
  BY <1>1

----------------------------------------------------------------------------
(* The steps of the manager *)

\* The types in the terms of the lemmas above.
LEMMA TypesUnfold ==
    ASSUME MgrTypeOK
    PROVE  /\ procs \in Seq(Procs) /\ Len(procs) \in Nat /\ Len(procs) <= MaxProcs
           /\ DOMAIN procs = 1..Len(procs)
           /\ hvac \in 0..Len(procs) /\ power \in 0..Len(procs)
           /\ \A i \in DOMAIN procs : procs[i] \in Procs
<1>1. procs \in Seq(Procs) /\ Len(procs) <= MaxProcs
  BY DEF MgrTypeOK, Procs, State
<1>2. hvac \in 0..Len(procs) /\ power \in 0..Len(procs)
  BY DEF MgrTypeOK
<1>3. /\ procs \in [1..Len(procs) -> Procs] /\ Len(procs) \in Nat
      /\ DOMAIN procs = 1..Len(procs)
  BY <1>1
<1> QED
  BY <1>1, <1>2, <1>3

\* Setting the state of a process that has not ended, or ends now, and
\* leaving the handles alone keeps types and handles in order.
LEMMA StateStep ==
    ASSUME MgrInv, NEW i \in 1..Len(procs), NEW s \in State,
           procs' = [procs EXCEPT ![i].state = s],
           s = "gone" \/ ~Gone(i)
    PROVE  /\ procs' \in Seq(Procs) /\ Len(procs') = Len(procs)
           /\ DOMAIN procs' = DOMAIN procs
           /\ \A j \in DOMAIN procs :
                /\ procs'[j].kind = procs[j].kind
                /\ procs'[j].state = IF j = i THEN s ELSE procs[j].state
                /\ procs'[j].state # "gone" => ~Gone(j)
<1>1. procs \in Seq(Procs) /\ DOMAIN procs = 1..Len(procs)
  BY TypesUnfold DEF MgrInv
<1>2. /\ procs' \in Seq(Procs) /\ Len(procs') = Len(procs)
      /\ \A j \in 1..Len(procs) :
           /\ procs'[j].kind = procs[j].kind
           /\ procs'[j].state = IF j = i THEN s ELSE procs[j].state
  BY <1>1, SetState
<1>3. DOMAIN procs' = DOMAIN procs
  BY <1>1, <1>2
<1> QED
  BY <1>1, <1>2, <1>3 DEF Gone

\* Popen.terminate, in the same terms.
LEMMA TerminateStep ==
    ASSUME MgrInv, NEW i \in 1..Len(procs), Terminate(i)
    PROVE  /\ procs' \in Seq(Procs) /\ Len(procs') = Len(procs)
           /\ DOMAIN procs' = DOMAIN procs
           /\ procs'[i].state \in {"term", "gone"}
           /\ \A j \in DOMAIN procs :
                /\ procs'[j].kind = procs[j].kind
                /\ procs'[j].state # "gone" => ~Gone(j)
<1>1. procs \in Seq(Procs) /\ DOMAIN procs = 1..Len(procs)
  BY TypesUnfold DEF MgrInv
<1>2. CASE Gone(i)
  BY <1>1, <1>2 DEF Terminate, Gone
<1>3. CASE ~Gone(i)
  <2>1. procs' = [procs EXCEPT ![i].state = "term"] /\ "term" \in State
    BY <1>3 DEF Terminate, State
  <2>2. /\ procs' \in Seq(Procs) /\ Len(procs') = Len(procs)
        /\ DOMAIN procs' = DOMAIN procs
        /\ \A j \in DOMAIN procs :
             /\ procs'[j].kind = procs[j].kind
             /\ procs'[j].state = IF j = i THEN "term" ELSE procs[j].state
             /\ procs'[j].state # "gone" => ~Gone(j)
    BY <2>1, <1>3, StateStep
  <2>3. procs'[i].state = "term"
    BY <2>2, <1>1
  <2> QED
    BY <2>2, <2>3
<1> QED
  BY <1>2, <1>3

\* What is true after a step that leaves the number of processes alone.
LEMMA KeepsProcs ==
    ASSUME MgrInv,
           procs' \in Seq(Procs), Len(procs') = Len(procs), DOMAIN procs' = DOMAIN procs,
           \A j \in DOMAIN procs :
                /\ procs'[j].kind = procs[j].kind
                /\ procs'[j].state # "gone" => ~Gone(j),
           hvac' \in {0, hvac}, power' \in {0, power},
           hvac' = hvac \/ procs'[hvac].state = "gone",
           power' = power \/ procs'[power].state = "gone",
           restarts' \in 0..MaxRestarts, ended' \in BOOLEAN,
           pc' \in {"idle", "spawn_power_meter", "kill_hvac", "wait_hvac",
                    "kill_power_meter", "wait_power", "end"},
           next' \in {"idle", "kill_power_meter", "end"}
    PROVE  MgrTypeOK' /\ NoOrphan'
<1>1. /\ procs \in Seq(Procs) /\ Len(procs) \in Nat /\ Len(procs) <= MaxProcs
      /\ DOMAIN procs = 1..Len(procs)
      /\ hvac \in 0..Len(procs) /\ power \in 0..Len(procs)
  BY TypesUnfold DEF MgrInv
<1>2. /\ hvac # 0 => hvac \in DOMAIN procs /\ procs[hvac].kind = "hvac"
      /\ power # 0 => power \in DOMAIN procs /\ procs[power].kind = "power"
  BY <1>1 DEF MgrInv, MgrTypeOK
<1>3. MgrTypeOK'
  BY <1>1, <1>2 DEF MgrTypeOK, Procs, State
<1>4. ASSUME NEW i \in DOMAIN procs, procs'[i].state # "gone"
      PROVE  i \in {hvac', power'}
  BY <1>4 DEF MgrInv, NoOrphan
<1>5. NoOrphan'
  BY <1>4 DEF NoOrphan, Gone
<1> QED
  BY <1>3, <1>5

MgrNext == Manager \/ \E i \in DOMAIN procs : Die(i)

\* Each step of the manager, and each end of a process, keeps its invariant.
LEMMA MgrStep ==
    ASSUME MgrInv, MgrNext
    PROVE  MgrInv'
<1>1. /\ procs \in Seq(Procs) /\ Len(procs) \in Nat /\ Len(procs) <= MaxProcs
      /\ DOMAIN procs = 1..Len(procs)
      /\ hvac \in 0..Len(procs) /\ power \in 0..Len(procs)
  BY TypesUnfold DEF MgrInv
<1>2. /\ hvac # 0 => hvac \in 1..Len(procs) /\ procs[hvac].kind = "hvac"
      /\ power # 0 => power \in 1..Len(procs) /\ procs[power].kind = "power"
  BY <1>1 DEF MgrInv, MgrTypeOK
<1>t. /\ restarts \in 0..MaxRestarts /\ ended \in BOOLEAN
      /\ pc \in {"idle", "spawn_power_meter", "kill_hvac", "wait_hvac",
                 "kill_power_meter", "wait_power", "end"}
      /\ next \in {"idle", "kill_power_meter", "end"}
  BY DEF MgrInv, MgrTypeOK
<1>p. PhaseInv /\ NoOrphan /\ MgrTypeOK
  BY DEF MgrInv
<1>b. MaxProcs \in Nat /\ MaxRestarts \in Nat
  BY BoundAssumption
<1>3. CASE SpawnHvac
  <2>1. /\ procs' \in Seq(Procs) /\ Len(procs') = Len(procs) + 1
        /\ procs'[Len(procs) + 1] = Process("hvac")
        /\ \A j \in 1..Len(procs) : procs'[j] = procs[j]
    BY <1>1, <1>3, AddProcess DEF SpawnHvac
  <2>2. hvac' = Len(procs) + 1 /\ power' = power /\ restarts' = 0 /\ ended' = ended
    BY <1>3, <2>1 DEF SpawnHvac
  <2>3. pc = "idle" /\ ~ended /\ pc' = "spawn_power_meter" /\ next' = next
    BY <1>3 DEF SpawnHvac, Idle
  <2>4. Len(procs) + 1 <= MaxProcs
    BY <1>1, <1>3, <1>b DEF SpawnHvac
  <2>5. procs'[hvac'].kind = "hvac"
    BY <2>1, <2>2 DEF Process
  <2>6. power' # 0 => procs'[power'].kind = "power"
    BY <1>2, <2>1, <2>2
  <2>7. MgrTypeOK'
    BY <1>1, <1>t, <1>b, <2>1, <2>2, <2>3, <2>4, <2>5, <2>6 DEF MgrTypeOK, Procs, State
  <2>8. PhaseInv'
    BY <1>p, <2>2, <2>3 DEF PhaseInv
  <2>9. ASSUME NEW i \in 1..Len(procs'), procs'[i].state # "gone"
        PROVE  i \in {hvac', power'}
    <3>1. CASE i = Len(procs) + 1
      BY <3>1, <2>2
    <3>2. CASE i \in 1..Len(procs)
      <4>1. ~Gone(i) /\ (hvac # 0 => i # hvac)
        BY <3>2, <2>1, <2>9, <1>3 DEF Gone, SpawnHvac, Running
      <4>2. i \in {hvac, power}
        BY <4>1, <3>2, <1>1, <1>p DEF NoOrphan
      <4> QED
        BY <4>1, <4>2, <3>2, <2>2
    <3> QED
      BY <3>1, <3>2, <2>1, <1>1
  <2>10. NoOrphan'
    BY <2>1, <2>9 DEF NoOrphan, Gone
  <2> QED
    BY <2>7, <2>8, <2>10 DEF MgrInv
<1>4. CASE SpawnMeter
  <2>1. pc = "spawn_power_meter" /\ Return /\ hvac' = hvac /\ restarts' = restarts /\ ended' = ended
    BY <1>4 DEF SpawnMeter
  <2>2. next = "idle" /\ ~ended
    BY <2>1, <1>t, <1>p DEF PhaseInv
  <2>3. pc' = "idle" /\ next' = "idle"
    BY <2>1, <2>2 DEF Return
  <2>4. PhaseInv'
    BY <2>1, <2>2, <2>3 DEF PhaseInv
  <2>5. CASE UNCHANGED <<procs, power>>
    BY <2>1, <2>3, <2>4, <2>5, <1>1, <1>t, KeepsProcs DEF MgrInv, Gone
  <2>6. CASE /\ ~Running(power) /\ Len(procs) < MaxProcs
             /\ procs' = Append(procs, Process("power"))
             /\ power' = Len(procs')
    <3>1. /\ procs' \in Seq(Procs) /\ Len(procs') = Len(procs) + 1
          /\ procs'[Len(procs) + 1] = Process("power")
          /\ \A j \in 1..Len(procs) : procs'[j] = procs[j]
      BY <1>1, <2>6, AddProcess
    <3>2. Len(procs) + 1 <= MaxProcs
      BY <1>1, <1>b, <2>6
    <3>3. power' = Len(procs) + 1 /\ procs'[power'].kind = "power"
      BY <2>6, <3>1 DEF Process
    <3>4. hvac' # 0 => procs'[hvac'].kind = "hvac"
      BY <1>2, <2>1, <3>1
    <3>5. MgrTypeOK'
      BY <1>1, <1>t, <1>b, <2>1, <2>3, <3>1, <3>2, <3>3, <3>4 DEF MgrTypeOK, Procs, State
    <3>6. ASSUME NEW i \in 1..Len(procs'), procs'[i].state # "gone"
          PROVE  i \in {hvac', power'}
      <4>1. CASE i = Len(procs) + 1
        BY <4>1, <3>3
      <4>2. CASE i \in 1..Len(procs)
        <5>1. ~Gone(i) /\ (power # 0 => i # power)
          BY <4>2, <3>1, <3>6, <2>6 DEF Gone, Running
        <5>2. i \in {hvac, power}
          BY <5>1, <4>2, <1>1, <1>p DEF NoOrphan
        <5> QED
          BY <5>1, <5>2, <4>2, <2>1
      <4> QED
        BY <4>1, <4>2, <3>1, <1>1
    <3>7. NoOrphan'
      BY <3>1, <3>6 DEF NoOrphan, Gone
    <3> QED
      BY <3>5, <3>7, <2>4 DEF MgrInv
  <2> QED
    BY <1>4, <2>5, <2>6 DEF SpawnMeter
<1>5. CASE Kill \/ Cleanup \/ MonitorHealth
  <2>1. UNCHANGED <<procs, hvac, power, ended>> /\ pc = "idle" /\ ~ended
    BY <1>5 DEF Kill, Cleanup, MonitorHealth, Idle
  <2>2. /\ pc' \in {"idle", "kill_hvac"} /\ next' \in {next, "kill_power_meter"}
        /\ pc' = "idle" => next' = next
        /\ restarts' \in 0..MaxRestarts
    BY <1>5, <1>t, <1>b, <2>1 DEF Kill, Cleanup, MonitorHealth
  <2>3. MgrTypeOK' /\ NoOrphan'
    BY <2>1, <2>2, <1>1, <1>t, KeepsProcs DEF Gone
  <2>4. PhaseInv'
    BY <2>1, <2>2, <1>p, <1>t DEF PhaseInv
  <2> QED
    BY <2>3, <2>4 DEF MgrInv
<1>6. CASE KillHvac
  <2>1. pc = "kill_hvac" /\ UNCHANGED <<hvac, power, restarts, ended>> /\ next # "end" /\ ~ended
    BY <1>6, <1>p DEF KillHvac, PhaseInv
  <2>2. CASE hvac = 0 /\ Return /\ UNCHANGED procs
    <3>1. \/ pc' = "kill_power_meter" /\ next' = "end"
          \/ pc' = "idle" /\ next' = "idle"
      BY <2>1, <2>2, <1>t DEF Return
    <3>2. MgrTypeOK' /\ NoOrphan'
      BY <2>1, <2>2, <3>1, <1>1, <1>t, KeepsProcs DEF Gone
    <3>3. PhaseInv'
      BY <2>1, <2>2, <3>1 DEF PhaseInv
    <3> QED
      BY <3>2, <3>3 DEF MgrInv
  <2>3. CASE hvac # 0 /\ pc' = "wait_hvac" /\ Terminate(hvac) /\ UNCHANGED next
    <3>1. hvac \in 1..Len(procs)
      BY <1>2, <2>3
    <3>2. MgrTypeOK' /\ NoOrphan'
      BY <2>1, <2>3, <3>1, <1>t, TerminateStep, KeepsProcs
    <3>3. PhaseInv'
      BY <2>1, <2>3, <1>t DEF PhaseInv
    <3> QED
      BY <3>2, <3>3 DEF MgrInv
  <2> QED
    BY <1>6, <2>2, <2>3 DEF KillHvac
<1>7. CASE WaitHvac
  <2>1. /\ pc = "wait_hvac" /\ hvac' = 0 /\ pc' = "kill_power_meter"
        /\ UNCHANGED <<power, restarts, next, ended>>
        /\ procs' = [procs EXCEPT ![hvac].state = "gone"]
    BY <1>7 DEF WaitHvac
  <2>2. hvac \in 1..Len(procs) /\ ~ended
    BY <2>1, <1>2, <1>p DEF PhaseInv
  <2>3. /\ procs' \in Seq(Procs) /\ Len(procs') = Len(procs) /\ DOMAIN procs' = DOMAIN procs
        /\ \A j \in DOMAIN procs :
             /\ procs'[j].kind = procs[j].kind
             /\ procs'[j].state = IF j = hvac THEN "gone" ELSE procs[j].state
             /\ procs'[j].state # "gone" => ~Gone(j)
    BY <2>1, <2>2, StateStep DEF State
  <2>4. procs'[hvac].state = "gone"
    BY <2>2, <2>3, <1>1
  <2>5. MgrTypeOK' /\ NoOrphan'
    BY <2>1, <2>3, <2>4, <1>t, KeepsProcs
  <2>6. PhaseInv'
    BY <2>1, <2>2, <1>p, <1>t DEF PhaseInv
  <2> QED
    BY <2>5, <2>6 DEF MgrInv
<1>8. CASE KillMeter
  <2>1. pc = "kill_power_meter" /\ hvac = 0 /\ UNCHANGED <<hvac, power, restarts, ended>> /\ ~ended
    BY <1>8, <1>p DEF KillMeter, PhaseInv
  <2>2. CASE power = 0 /\ Return /\ UNCHANGED procs
    <3>1. \/ pc' = "kill_power_meter" /\ next' = "end"
          \/ pc' \in {"idle", "end"} /\ next' = "idle"
      BY <2>1, <2>2, <1>t DEF Return
    <3>2. MgrTypeOK' /\ NoOrphan'
      BY <2>1, <2>2, <3>1, <1>1, <1>t, KeepsProcs DEF Gone
    <3>3. PhaseInv'
      BY <2>1, <2>2, <3>1 DEF PhaseInv, Told
    <3> QED
      BY <3>2, <3>3 DEF MgrInv
  <2>3. CASE power # 0 /\ pc' = "wait_power" /\ Terminate(power) /\ UNCHANGED next
    <3>1. power \in 1..Len(procs)
      BY <1>2, <2>3
    <3>2. MgrTypeOK' /\ NoOrphan'
      BY <2>1, <2>3, <3>1, <1>t, TerminateStep, KeepsProcs
    <3>3. Told'
      BY <2>1, <3>1, <2>3, TerminateStep DEF Told
    <3>4. PhaseInv'
      BY <2>1, <2>3, <3>3, <1>t DEF PhaseInv
    <3> QED
      BY <3>2, <3>4 DEF MgrInv
  <2> QED
    BY <1>8, <2>2, <2>3 DEF KillMeter
<1>9. CASE WaitMeter
  <2>1. /\ pc = "wait_power" /\ hvac = 0 /\ power # 0 /\ Told
        /\ Return /\ UNCHANGED <<procs, hvac, restarts, ended>> /\ ~ended
    BY <1>9, <1>p DEF WaitMeter, PhaseInv
  <2>2. \/ Gone(power) /\ power' = 0
        \/ power' = power
    BY <1>9 DEF WaitMeter
  <2>3. \/ pc' = "kill_power_meter" /\ next' = "end"
        \/ pc' \in {"idle", "end"} /\ next' = "idle"
    BY <2>1, <1>t DEF Return
  <2>4. MgrTypeOK' /\ NoOrphan'
    BY <2>1, <2>2, <2>3, <1>1, <1>t, KeepsProcs DEF Gone
  <2>5. Told'
    BY <2>1, <2>2 DEF Told
  <2>6. PhaseInv'
    BY <2>1, <2>3, <2>5 DEF PhaseInv
  <2> QED
    BY <2>4, <2>6 DEF MgrInv
<1>10. CASE End
  <2>1. /\ pc = "end" /\ hvac = 0 /\ Told /\ next = "idle"
        /\ UNCHANGED <<procs, hvac, power, restarts>> /\ ended' = TRUE
    BY <1>10, <1>p, <1>t DEF End, PhaseInv
  <2>2. pc' = "idle" /\ next' = "idle"
    BY <1>10, <2>1 DEF End, Return
  <2>3. MgrTypeOK' /\ NoOrphan'
    BY <2>1, <2>2, <1>1, <1>t, KeepsProcs DEF Gone
  <2>4. PhaseInv'
    BY <2>1, <2>2 DEF PhaseInv, Told
  <2> QED
    BY <2>3, <2>4 DEF MgrInv
<1>11. ASSUME NEW i \in DOMAIN procs, Die(i) PROVE MgrInv'
  <2>1. /\ procs' = [procs EXCEPT ![i].state = "gone"]
        /\ UNCHANGED <<hvac, power, restarts, pc, next, ended>>
    BY <1>11 DEF Die
  <2>2. /\ procs' \in Seq(Procs) /\ Len(procs') = Len(procs) /\ DOMAIN procs' = DOMAIN procs
        /\ \A j \in DOMAIN procs :
             /\ procs'[j].kind = procs[j].kind
             /\ procs'[j].state = IF j = i THEN "gone" ELSE procs[j].state
             /\ procs'[j].state # "gone" => ~Gone(j)
    BY <2>1, <1>1, StateStep DEF State
  <2>3. MgrTypeOK' /\ NoOrphan'
    BY <2>1, <2>2, <1>t, KeepsProcs
  <2>4. Told => Told'
    BY <2>1, <2>2, <1>1, <1>2 DEF Told
  <2>5. PhaseInv'
    BY <2>1, <2>4, <1>p DEF PhaseInv
  <2> QED
    BY <2>3, <2>5 DEF MgrInv
<1> QED
  BY <1>3, <1>4, <1>5, <1>6, <1>7, <1>8, <1>9, <1>10, <1>11 DEF MgrNext, Manager, Steps

----------------------------------------------------------------------------
(* The control loop *)

LEMMA ClampBounds ==
    ASSUME NEW x \in Int, NEW low \in Int, NEW high \in Int, low <= high
    PROVE  Clamp(x, low, high) \in low..high
BY DEF Clamp

\* The values a controller starts with are within the bounds.
LEMMA StartBounds ==
    /\ Degree \in Int /\ 0 \in -100 * Degree .. 100 * Degree /\ 0 \in 0..Degree
    /\ -5 * Degree \in Int /\ -5 * Degree < Degree
<1>1. Degree \in Nat /\ Degree >= 50
  BY DegreeAssumption
<1>2. -100 * Degree \in Int /\ 100 * Degree \in Int /\ -100 * Degree <= 0 /\ 0 <= 100 * Degree
  BY <1>1
<1>3. -5 * Degree \in Int /\ -5 * Degree < Degree
  BY <1>1
<1> QED
  BY <1>1, <1>2, <1>3

\* From a state of the right types an iteration leads to one.
LEMMA IterateTypes ==
    ASSUME PidTypeOK, Iterate
    PROVE  PidTypeOK'
<1>1. /\ Degree \in Nat /\ Degree >= 50
      /\ temp \in Int /\ integral \in Int /\ prevError \in Int
      /\ heater \in Int /\ cooler \in Int /\ reached \in BOOLEAN
  BY DegreeAssumption DEF PidTypeOK
<1>2. Degree \div 50 \in Int
  BY <1>1
<1>3. temp' \in Int /\ -temp' \in Int
  BY <1>1, <1>2 DEF Iterate, Physics, NaturalCooling
<1>4. prevError' \in Int
  BY <1>3 DEF Iterate
<1>5. integral' \in -100 * Degree .. 100 * Degree
  <2>1. integral' = Clamp(integral + (-temp'), -100 * Degree, 100 * Degree)
    BY DEF Iterate, Integral
  <2>2. integral + (-temp') \in Int /\ -100 * Degree <= 100 * Degree
    BY <1>1, <1>3
  <2> QED
    BY <1>1, <2>1, <2>2, ClampBounds
<1>6. Output(-temp', integral', prevError) \in 0..Degree
  <2>1. (4 * (-temp') + integral' + 2 * (-temp' - prevError)) \in Int
    BY <1>1, <1>3, <1>5
  <2>2. (4 * (-temp') + integral' + 2 * (-temp' - prevError)) \div 200 \in Int
    BY <2>1
  <2>3. Output(-temp', integral', prevError) =
          Clamp((4 * (-temp') + integral' + 2 * (-temp' - prevError)) \div 200, 0, Degree)
    BY DEF Output
  <2> DEFINE x == (4 * (-temp') + integral' + 2 * (-temp' - prevError)) \div 200
  <2>4. x \in Int
    BY <2>2
  <2> HIDE DEF x
  <2>5. Clamp(x, 0, Degree) \in 0..Degree
    BY <1>1, <2>4, ClampBounds
  <2> QED
    BY <2>3, <2>5 DEF x
<1>7. heater' \in 0..Degree /\ cooler' \in 0..Degree
  BY <1>1, <1>3, <1>6 DEF Iterate
<1>8. reached' \in BOOLEAN
  BY <1>1, <1>3 DEF Iterate
<1> QED
  BY <1>3, <1>4, <1>5, <1>7, <1>8 DEF PidTypeOK

\* A controller that is not there, or starts, has the types too.
LEMMA ResetTypes ==
    ASSUME PidReset
    PROVE  PidTypeOK'
<1>1. /\ temp' = -5 * Degree /\ integral' = 0 /\ prevError' = 0
      /\ heater' = 0 /\ cooler' = 0 /\ reached' = FALSE
  BY DEF PidReset
<1>2. reached' \in BOOLEAN
  BY <1>1
<1>3. /\ temp' \in Int /\ prevError' \in Int
      /\ heater' \in 0..Degree /\ cooler' \in 0..Degree
  BY <1>1, StartBounds
<1>4. integral' \in -100 * Degree .. 100 * Degree
  BY <1>1, StartBounds
<1> QED
  BY <1>2, <1>3, <1>4 DEF PidTypeOK

\* So has the one that starts first.
LEMMA InitTypes ==
    ASSUME PidInit
    PROVE  PidTypeOK
<1>1. /\ temp = -5 * Degree /\ integral = 0 /\ prevError = 0
      /\ heater = 0 /\ cooler = 0 /\ reached = FALSE
  BY DEF PidInit
<1>2. reached \in BOOLEAN
  BY <1>1
<1>3. /\ temp \in Int /\ prevError \in Int
      /\ heater \in 0..Degree /\ cooler \in 0..Degree
  BY <1>1, StartBounds
<1>4. integral \in -100 * Degree .. 100 * Degree
  BY <1>1, StartBounds
<1> QED
  BY <1>2, <1>3, <1>4 DEF PidTypeOK

----------------------------------------------------------------------------
(* The whole *)

IInv == MgrInv /\ PidTypeOK

LEMMA InvInit == Init => IInv
<1> SUFFICES ASSUME Init PROVE IInv
  OBVIOUS
<1>1. /\ procs = << >> /\ hvac = 0 /\ power = 0 /\ restarts = 0
      /\ pc = "idle" /\ next = "idle" /\ ended = FALSE
  BY DEF Init, MgrInit
<1>2. MgrTypeOK
  <2>1. procs \in Seq(Procs) /\ Len(procs) = 0
    BY <1>1
  <2>2. MaxProcs \in Nat /\ MaxRestarts \in Nat
    BY BoundAssumption
  <2>3. /\ hvac \in 0..Len(procs) /\ power \in 0..Len(procs)
        /\ Len(procs) <= MaxProcs /\ restarts \in 0..MaxRestarts
    BY <1>1, <2>1, <2>2
  <2>4. /\ ended \in BOOLEAN
        /\ pc \in {"idle", "spawn_power_meter", "kill_hvac", "wait_hvac",
                   "kill_power_meter", "wait_power", "end"}
        /\ next \in {"idle", "kill_power_meter", "end"}
    BY <1>1
  <2> QED
    BY <1>1, <2>1, <2>3, <2>4 DEF MgrTypeOK, Procs, State
<1>3. NoOrphan /\ PhaseInv
  BY <1>1 DEF NoOrphan, PhaseInv
<1>4. PidTypeOK
  BY InitTypes DEF Init
<1> QED
  BY <1>2, <1>3, <1>4 DEF IInv, MgrInv

LEMMA InvNext == IInv /\ [Next]_vars => IInv'
<1> SUFFICES ASSUME IInv, [Next]_vars PROVE IInv'
  OBVIOUS
<1>1. MgrInv /\ PidTypeOK
  BY DEF IInv
<1>2. UNCHANGED mgrVars => MgrInv'
  BY <1>1 DEF mgrVars, MgrInv, MgrTypeOK, PhaseInv, Told, NoOrphan, Gone
<1>3. UNCHANGED pidVars => PidTypeOK'
  BY <1>1 DEF pidVars, PidTypeOK
<1>4. CASE Manage
  <2>1. MgrInv'
    BY <1>1, <1>4, MgrStep DEF Manage, MgrNext
  <2>2. PidTypeOK'
    BY <1>3, <1>4, ResetTypes DEF Manage
  <2> QED
    BY <2>1, <2>2 DEF IInv
<1>5. CASE Control
  BY <1>1, <1>2, <1>5, IterateTypes DEF Control, IInv
<1>6. CASE UNCHANGED vars
  BY <1>2, <1>3, <1>6 DEF vars, IInv
<1> QED
  BY <1>4, <1>5, <1>6 DEF Next

LEMMA InvAlways == Spec => []IInv
BY InvInit, InvNext, PTL DEF Spec

(***************************************************************************)
(* Handles, processes, integral and the two powers stay within their       *)
(* types: the integral within the clamp of pid_compute, whatever the room  *)
(* does, and both powers within 0..100%.                                   *)
(***************************************************************************)
THEOREM TypeCorrect == Spec => []TypeOK
<1>1. IInv => TypeOK
  BY DEF IInv, MgrInv, TypeOK
<1> QED
  BY <1>1, InvAlways, PTL

(***************************************************************************)
(* Whichever calls are made and whenever processes end, the manager has a  *)
(* handle of each one that runs: spawn_hvac never replaces the handle of a *)
(* running controller, and kill_power_meter keeps that of a meter that     *)
(* does not end.                                                           *)
(***************************************************************************)
THEOREM NoProcessIsOrphaned == Spec => []NoOrphan
<1>1. IInv => NoOrphan
  BY DEF IInv, MgrInv
<1> QED
  BY <1>1, InvAlways, PTL

(***************************************************************************)
(* When the gateway has ended, cleanup_all has left no controller, and no  *)
(* meter that it did not send SIGTERM.                                     *)
(***************************************************************************)
THEOREM OnlyHungMetersRemain == Spec => []LeavesOnlyHung
<1>1. IInv => LeavesOnlyHung
  <2> SUFFICES ASSUME IInv, ended, NEW i \in DOMAIN procs, ~Gone(i)
               PROVE  procs[i] = [kind |-> "power", state |-> "term"]
    BY DEF LeavesOnlyHung
  <2>1. MgrTypeOK /\ PhaseInv /\ NoOrphan
    BY DEF IInv, MgrInv
  <2>2. /\ DOMAIN procs = 1..Len(procs) /\ Len(procs) \in Nat
        /\ procs[i] \in Procs
    BY <2>1, TypesUnfold
  <2>3. hvac = 0 /\ Told
    BY <2>1 DEF PhaseInv
  <2>4. i = power /\ power # 0
    BY <2>1, <2>2, <2>3 DEF NoOrphan
  <2>5. procs[i].state = "term"
    BY <2>3, <2>4 DEF Told, Gone
  <2>6. procs[i].kind = "power"
    BY <2>1, <2>4 DEF MgrTypeOK
  <2> QED
    BY <2>2, <2>5, <2>6 DEF Procs
<1> QED
  BY <1>1, InvAlways, PTL

----------------------------------------------------------------------------
(* Overshoot *)

(***************************************************************************)
(* The heater is off at the setpoint and above it, and below it at most    *)
(* half a degree strong plus three times the distance in percent: the      *)
(* proportional part, the integral at its clamp, and the derivative, which *)
(* is bounded because the room was at most half a degree too warm before.  *)
(***************************************************************************)
HalfAbove ==
    /\ PidTypeOK
    /\ 2 * temp <= Degree
    /\ 2 * prevError >= -Degree
    /\ temp >= 0 => heater = 0
    /\ temp < 0 => 200 * heater <= 101 * Degree - 6 * temp

LEMMA ClampedOutput ==
    ASSUME NEW x \in Int, NEW b \in Int, x <= b, b >= 0
    PROVE  200 * Clamp(x \div 200, 0, Degree) <= b
<1> DEFINE d == x \div 200
<1>1. d \in Int /\ 200 * d <= x
  OBVIOUS
<1>2. Degree \in Nat
  BY DegreeAssumption
<1> HIDE DEF d
<1>3. 200 * Clamp(d, 0, Degree) <= b
  BY <1>1, <1>2 DEF Clamp
<1> QED
  BY <1>3 DEF d

LEMMA HalfAboveStep ==
    ASSUME HalfAbove, Iterate
    PROVE  HalfAbove'
<1>1. PidTypeOK'
  BY IterateTypes DEF HalfAbove
<1>2. /\ Degree \in Nat /\ Degree >= 50 /\ NaturalCooling \in Nat
      /\ NaturalCooling >= 1 /\ 50 * NaturalCooling >= Degree - 49
  BY DegreeAssumption DEF NaturalCooling
<1>3. /\ temp \in Int /\ heater \in 0..Degree /\ cooler \in 0..Degree /\ prevError \in Int
      /\ temp' \in Int /\ integral' \in -100 * Degree .. 100 * Degree /\ prevError' \in Int
  BY <1>1 DEF HalfAbove, PidTypeOK
<1>4. temp' = temp + heater - cooler - NaturalCooling /\ prevError' = -temp'
  BY DEF Iterate, Physics
<1>5. 2 * temp' <= Degree
  <2>1. CASE temp >= 0
    BY <1>2, <1>3, <1>4, <2>1 DEF HalfAbove
  <2>2. CASE temp < 0
    BY <1>2, <1>3, <1>4, <2>2 DEF HalfAbove
  <2> QED
    BY <1>3, <2>1, <2>2
<1>6. 2 * prevError' >= -Degree
  BY <1>2, <1>3, <1>4, <1>5
<1>7. temp' >= 0 => heater' = 0
  BY <1>3 DEF Iterate
<1>8. ASSUME temp' < 0 PROVE 200 * heater' <= 101 * Degree - 6 * temp'
  <2> DEFINE x == 4 * (-temp') + integral' + 2 * (-temp' - prevError)
  <2>1. heater' = Clamp(x \div 200, 0, Degree)
    BY <1>8 DEF Iterate, Output
  <2> DEFINE t == temp'
  <2> DEFINE i == integral'
  <2>2. /\ Degree \in Int /\ Degree >= 50 /\ t \in Int /\ t < 0 /\ prevError \in Int
        /\ 2 * prevError >= -Degree
    BY <1>2, <1>3, <1>8 DEF HalfAbove
  <2>3. i \in Int /\ i <= 100 * Degree
    BY <1>2, <1>3
  <2>4. x = 4 * (-t) + i + 2 * (-t - prevError)
    OBVIOUS
  <2> HIDE DEF x, t, i
  <2>5. x \in Int /\ x <= 101 * Degree - 6 * t
    BY <2>2, <2>3, <2>4
  <2>6. 101 * Degree - 6 * t \in Int /\ 101 * Degree - 6 * t >= 0
    BY <2>2
  <2>7. 200 * Clamp(x \div 200, 0, Degree) <= 101 * Degree - 6 * t
    BY <2>5, <2>6, ClampedOutput
  <2> QED
    BY <2>1, <2>7 DEF t
<1> QED
  BY <1>1, <1>5, <1>6, <1>7, <1>8 DEF HalfAbove

\* It holds when a controller starts.
LEMMA HalfAboveStart ==
    /\ PidInit => HalfAbove
    /\ PidReset => HalfAbove'
<1>1. /\ Degree \in Nat /\ Degree >= 50 /\ -5 * Degree \in Int
      /\ 2 * (-5 * Degree) <= Degree /\ 2 * 0 >= -Degree /\ -5 * Degree < 0
      /\ 200 * 0 <= 101 * Degree - 6 * (-5 * Degree)
  BY DegreeAssumption
<1>2. ASSUME PidInit PROVE HalfAbove
  <2>1. temp = -5 * Degree /\ heater = 0 /\ prevError = 0
    BY <1>2 DEF PidInit
  <2>2. ~(temp >= 0)
    BY <1>1, <2>1
  <2> QED
    BY <1>1, <1>2, <2>1, <2>2, InitTypes DEF HalfAbove
<1>3. ASSUME PidReset PROVE HalfAbove'
  <2>1. temp' = -5 * Degree /\ heater' = 0 /\ prevError' = 0
    BY <1>3 DEF PidReset
  <2>2. ~(temp' >= 0)
    BY <1>1, <2>1
  <2> QED
    BY <1>1, <1>3, <2>1, <2>2, ResetTypes DEF HalfAbove
<1> QED
  BY <1>2, <1>3

(***************************************************************************)
(* Whatever the integral has become, and however often the controller is   *)
(* started again, the heater never takes the room more than half a degree  *)
(* above the setpoint: the upper half of StaysNear, for every precision.   *)
(***************************************************************************)
THEOREM OvershootsHalfADegree == Spec => [](2 * temp <= Degree)
<1>1. Init => HalfAbove
  BY HalfAboveStart DEF Init
<1>2. HalfAbove /\ [Next]_vars => HalfAbove'
  <2> SUFFICES ASSUME HalfAbove, [Next]_vars PROVE HalfAbove'
    OBVIOUS
  <2>1. UNCHANGED pidVars => HalfAbove'
    BY DEF pidVars, HalfAbove, PidTypeOK
  <2> QED
    BY <2>1, HalfAboveStep, HalfAboveStart DEF Next, Manage, Control, vars
<1>3. HalfAbove => 2 * temp <= Degree
  BY DEF HalfAbove
<1> QED
  BY <1>1, <1>2, <1>3, PTL DEF Spec

----------------------------------------------------------------------------
(* Undershoot *)

(***************************************************************************)
(* What keeps the room from falling far below the setpoint is the integral *)
(* that heating has wound up.  To come back to the setpoint the heater     *)
(* must be stronger than the natural cooling, and only an integral of      *)
(* three degrees makes it so: it falls by the room's distance above the    *)
(* setpoint, which is then no more than a 199th of what is above three     *)
(* degrees.  With three degrees of integral the heater wins, at the latest *)
(* two fifths of a degree below the setpoint, over the natural cooling;    *)
(* and the step of the cooler that leads there is half a degree at most.   *)
(***************************************************************************)

\* Only one of the two runs, and no stronger than the integral, the distance
\* and the derivative allow.
PowerBound ==
    /\ temp < 0 => cooler = 0
    /\ 0 < heater + cooler =>
         200 * (heater + cooler) <= integral - 6 * temp + Degree

\* Above the setpoint there is three degrees of integral, and 199 times the
\* distance; since the setpoint, three degrees.
Wound ==
    /\ temp >= 0 => 199 * temp <= integral - 3 * Degree + 2
    /\ reached => integral >= 3 * Degree - 2

\* Below the setpoint the heater is stronger than the natural cooling, or the
\* room is so near that it may be weaker.
Heats ==
    reached /\ temp < 0 =>
      \/ heater >= NaturalCooling
      \/ 1000 * heater >= 9 * Degree - 1005 - 30 * temp

NearInv ==
    /\ HalfAbove
    /\ PowerBound
    /\ Wound
    /\ reached => prevError = -temp /\ 5 * temp >= -3 * Degree
    /\ Heats

\* The types and the step of an iteration, without its output.
LEMMA IterateUnfold ==
    ASSUME PidTypeOK, Iterate
    PROVE  /\ Degree \in Nat /\ Degree >= 50
           /\ NaturalCooling \in Nat /\ NaturalCooling >= 1
           /\ 50 * NaturalCooling >= Degree - 49 /\ 50 * NaturalCooling <= Degree
           /\ temp \in Int /\ temp' \in Int /\ prevError \in Int
           /\ integral \in Int /\ integral <= 100 * Degree /\ integral' \in Int
           /\ heater \in 0..Degree /\ cooler \in 0..Degree
           /\ heater' \in 0..Degree /\ cooler' \in 0..Degree
           /\ temp' = temp + heater - cooler - NaturalCooling
           /\ prevError' = -temp'
           /\ reached \in BOOLEAN /\ reached' = (reached \/ temp' >= 0)
<1>1. PidTypeOK'
  BY IterateTypes
<1>2. /\ Degree \in Nat /\ Degree >= 50 /\ NaturalCooling \in Nat
      /\ NaturalCooling >= 1 /\ 50 * NaturalCooling >= Degree - 49
      /\ 50 * NaturalCooling <= Degree
  BY DegreeAssumption DEF NaturalCooling
<1>3. integral \in -100 * Degree .. 100 * Degree /\ integral' \in -100 * Degree .. 100 * Degree
  BY <1>1 DEF PidTypeOK
<1>4. integral \in Int /\ integral <= 100 * Degree /\ integral' \in Int
  BY <1>2, <1>3
<1>5. /\ temp' = temp + heater - cooler - NaturalCooling /\ prevError' = -temp'
      /\ reached' = (reached \/ temp' >= 0)
  BY DEF Iterate, Physics
<1> QED
  BY <1>1, <1>2, <1>4, <1>5 DEF PidTypeOK

\* The integral falls by the room's distance above the setpoint, and rises
\* below it.
LEMMA IntegralStep ==
    ASSUME PidTypeOK, Iterate
    PROVE  /\ temp' >= 0 => integral' >= integral - temp'
           /\ temp' < 0 => integral' >= integral
<1> DEFINE t == temp'
<1> DEFINE low == -100 * Degree
<1> DEFINE high == 100 * Degree
<1>1. /\ t \in Int /\ integral \in Int /\ low \in Int /\ high \in Int
      /\ integral <= high /\ low <= high
  BY IterateUnfold
<1>2. integral' = Clamp(integral + (-t), low, high)
  BY DEF Iterate, Integral
<1> HIDE DEF t, low, high
<1>3. t >= 0 => integral' >= integral - t
  BY <1>1, <1>2 DEF Clamp
<1>4. t < 0 => integral' >= integral
  BY <1>1, <1>2 DEF Clamp
<1> QED
  BY <1>3, <1>4 DEF t

\* What pid_compute's output is, whichever of the two it goes to.
LEMMA OutputBounds ==
    ASSUME NEW x \in Int
    PROVE  /\ Clamp(x \div 200, 0, Degree) > 0 => 200 * Clamp(x \div 200, 0, Degree) <= x
           /\ Clamp(x \div 200, 0, Degree) < Degree => 200 * Clamp(x \div 200, 0, Degree) >= x - 199
<1> DEFINE d == x \div 200
<1>1. d \in Int /\ 200 * d <= x /\ 200 * d >= x - 199
  OBVIOUS
<1>2. Degree \in Nat
  BY DegreeAssumption
<1> HIDE DEF d
<1>3. Clamp(d, 0, Degree) > 0 => 200 * Clamp(d, 0, Degree) <= x
  BY <1>1, <1>2 DEF Clamp
<1>4. Clamp(d, 0, Degree) < Degree => 200 * Clamp(d, 0, Degree) >= x - 199
  BY <1>1, <1>2 DEF Clamp
<1> QED
  BY <1>3, <1>4 DEF d

LEMMA IterateOutput ==
    ASSUME PidTypeOK, Iterate
    PROVE  /\ temp' < 0 => cooler' = 0
           /\ temp' >= 0 => heater' = 0
           /\ heater' + cooler' > 0 =>
                200 * (heater' + cooler') <= integral' - 6 * temp' - 2 * prevError
           /\ heater' + cooler' < Degree =>
                200 * (heater' + cooler') >= integral' - 6 * temp' - 2 * prevError - 199
<1> DEFINE t == temp'
<1> DEFINE i == integral'
<1> DEFINE x == 4 * (-t) + i + 2 * (-t - prevError)
<1> DEFINE o == Clamp(x \div 200, 0, Degree)
<1>1. t \in Int /\ i \in Int /\ prevError \in Int /\ Degree \in Nat /\ Degree >= 50
  BY IterateUnfold
<1>2. /\ heater' = IF t < 0 THEN o ELSE 0
      /\ cooler' = IF t < 0 THEN 0 ELSE o
  BY DEF Iterate, Output
<1>3. o \in Int
  <2>1. heater' \in 0..Degree /\ cooler' \in 0..Degree
    BY IterateUnfold
  <2> HIDE DEF o
  <2> QED
    BY <1>1, <1>2, <2>1
<1>4. heater' + cooler' = o
  <2> HIDE DEF t, o
  <2> QED
    BY <1>1, <1>2, <1>3
<1>5. x \in Int /\ x = i - 6 * t - 2 * prevError
  <2> HIDE DEF t, i
  <2> QED
    BY <1>1
<1>6. /\ o > 0 => 200 * o <= x
      /\ o < Degree => 200 * o >= x - 199
  <2> HIDE DEF x
  <2> QED
    BY <1>5, OutputBounds
<1>7. /\ o > 0 => 200 * o <= i - 6 * t - 2 * prevError
      /\ o < Degree => 200 * o >= i - 6 * t - 2 * prevError - 199
  <2> HIDE DEF o, x
  <2> QED
    BY <1>5, <1>6
<1>8. /\ t < 0 => cooler' = 0
      /\ t >= 0 => heater' = 0
  <2> HIDE DEF t, o
  <2> QED
    BY <1>1, <1>2
<1> QED
  <2> HIDE DEF o
  <2> QED
    BY <1>4, <1>7, <1>8

LEMMA NearStep ==
    ASSUME NearInv, Iterate
    PROVE  NearInv'
<1> DEFINE N == NaturalCooling
<1> DEFINE t == temp'
<1> DEFINE i == integral'
<1>1. /\ Degree \in Nat /\ Degree >= 50 /\ N \in Nat /\ N >= 1
      /\ 50 * N >= Degree - 49 /\ 50 * N <= Degree
      /\ temp \in Int /\ t \in Int /\ prevError \in Int
      /\ integral \in Int /\ integral <= 100 * Degree /\ i \in Int
      /\ heater \in 0..Degree /\ cooler \in 0..Degree
      /\ heater' \in 0..Degree /\ cooler' \in 0..Degree
      /\ t = temp + heater - cooler - N
      /\ prevError' = -t
      /\ reached \in BOOLEAN /\ reached' = (reached \/ t >= 0)
  BY IterateUnfold DEF NearInv, HalfAbove
<1>2. HalfAbove'
  BY HalfAboveStep DEF NearInv
<1>3. /\ t >= 0 => i >= integral - t
      /\ t < 0 => i >= integral
  BY IntegralStep DEF NearInv, HalfAbove
<1>4. /\ t < 0 => cooler' = 0
      /\ t >= 0 => heater' = 0
      /\ heater' + cooler' > 0 =>
           200 * (heater' + cooler') <= i - 6 * t - 2 * prevError
      /\ heater' + cooler' < Degree =>
           200 * (heater' + cooler') >= i - 6 * t - 2 * prevError - 199
  BY IterateOutput DEF NearInv, HalfAbove
<1>5. /\ 2 * temp <= Degree /\ 2 * prevError >= -Degree
      /\ temp >= 0 => heater = 0
      /\ temp < 0 => cooler = 0
      /\ 0 < heater + cooler => 200 * (heater + cooler) <= integral - 6 * temp + Degree
      /\ temp >= 0 => 199 * temp <= integral - 3 * Degree + 2
      /\ reached => integral >= 3 * Degree - 2
      /\ reached => prevError = -temp /\ 5 * temp >= -3 * Degree
  BY DEF NearInv, HalfAbove, PowerBound, Wound
<1>6. reached /\ temp < 0 => heater >= N \/ 1000 * heater >= 9 * Degree - 1005 - 30 * temp
  BY DEF NearInv, Heats
<1>7. 2 * t <= Degree
  BY <1>2 DEF HalfAbove
<1> HIDE DEF N, t, i
<1>8. PowerBound'
  <2> DEFINE o == heater' + cooler'
  <2>1. o > 0 => 200 * o <= i - 6 * t - 2 * prevError
    BY <1>4
  <2>2. o \in Int
    BY <1>1
  <2> HIDE DEF o
  <2>3. 0 < o => 200 * o <= i - 6 * t + Degree
    BY <1>1, <1>5, <2>1, <2>2
  <2> QED
    BY <1>4, <2>3 DEF PowerBound, t, i, o
<1>9. t >= 0 => 199 * t <= i - 3 * Degree + 2
  <2>1. CASE temp >= 0
    BY <1>1, <1>3, <1>5, <1>7, <2>1
  <2>2. CASE temp < 0
    <3>1. ASSUME t >= 0 PROVE 0 < heater /\ cooler = 0
      BY <1>1, <1>5, <2>2, <3>1
    <3>2. t >= 0 => 200 * t <= integral - 3 * Degree + 2
      BY <1>1, <1>5, <2>2, <3>1
    <3> QED
      BY <1>1, <1>3, <3>2
  <2> QED
    BY <1>1, <2>1, <2>2
<1>10. reached' => i >= 3 * Degree - 2
  <2>1. t >= 0 => i >= 3 * Degree - 2
    BY <1>1, <1>9
  <2>2. t < 0 /\ reached' => i >= 3 * Degree - 2
    BY <1>1, <1>3, <1>5
  <2> QED
    BY <1>1, <2>1, <2>2
<1>11. reached' => 5 * t >= -3 * Degree
  <2>1. CASE t >= 0
    BY <1>1, <2>1
  <2>2. CASE t < 0 /\ reached /\ temp >= 0
    <3>1. 200 * cooler <= 101 * Degree - 6 * temp
      BY <1>1, <1>5, <2>2
    <3> QED
      BY <1>1, <1>5, <2>2, <3>1
  <2>3. CASE t < 0 /\ reached /\ temp < 0
    BY <1>1, <1>5, <1>6, <2>3
  <2>4. CASE t < 0 /\ ~reached
    BY <1>1, <2>4
  <2> QED
    BY <1>1, <2>1, <2>2, <2>3, <2>4
<1>12. reached' /\ t < 0 => heater' >= N \/ 1000 * heater' >= 9 * Degree - 1005 - 30 * t
  <2> DEFINE h == heater'
  <2> DEFINE c == cooler'
  <2>1. h \in Int /\ c \in Int
    BY <1>1
  <2>2. /\ t < 0 => c = 0
        /\ h + c < Degree => 200 * (h + c) >= i - 6 * t - 2 * prevError - 199
    BY <1>4
  <2>3. ASSUME reached', t < 0, h < N
        PROVE  1000 * h >= 9 * Degree - 1005 - 30 * t
    <3>1. reached /\ prevError = -temp /\ 5 * temp >= -3 * Degree
      BY <1>1, <1>5, <2>3
    <3>2. i >= 3 * Degree - 2
      BY <1>10, <2>3
    <3> HIDE DEF h, c
    <3>3. c = 0 /\ h < Degree
      BY <1>1, <2>1, <2>2, <2>3
    <3>4. 200 * h >= i - 6 * t - 2 * prevError - 199
      BY <1>1, <2>1, <2>2, <3>3
    <3> QED
      BY <1>1, <2>1, <3>1, <3>2, <3>4
  <2> HIDE DEF h, c
  <2>4. reached' /\ t < 0 => h >= N \/ 1000 * h >= 9 * Degree - 1005 - 30 * t
    BY <1>1, <2>1, <2>3
  <2> QED
    BY <2>4 DEF h
<1>13. Wound' /\ Heats' /\ (reached' => prevError' = -temp' /\ 5 * temp' >= -3 * Degree)
  BY <1>1, <1>9, <1>10, <1>11, <1>12 DEF Wound, Heats, N, t, i
<1> QED
  BY <1>2, <1>8, <1>13 DEF NearInv

LEMMA NearStart ==
    /\ PidInit => NearInv
    /\ PidReset => NearInv'
<1>1. Degree \in Nat /\ Degree >= 50 /\ ~(-5 * Degree >= 0) /\ ~(0 < 0 + 0)
  BY DegreeAssumption
<1>2. ASSUME PidInit PROVE NearInv
  <2>1. /\ temp = -5 * Degree /\ heater = 0 /\ cooler = 0 /\ reached = FALSE
    BY <1>2 DEF PidInit
  <2> QED
    BY <1>1, <1>2, <2>1, HalfAboveStart DEF NearInv, PowerBound, Wound, Heats
<1>3. ASSUME PidReset PROVE NearInv'
  <2>1. /\ temp' = -5 * Degree /\ heater' = 0 /\ cooler' = 0 /\ reached' = FALSE
    BY <1>3 DEF PidReset
  <2> QED
    BY <1>1, <1>3, <2>1, HalfAboveStart DEF NearInv, PowerBound, Wound, Heats
<1> QED
  BY <1>2, <1>3

LEMMA NearAlways == Spec => []NearInv
<1>1. Init => NearInv
  BY NearStart DEF Init
<1>2. NearInv /\ [Next]_vars => NearInv'
  <2> SUFFICES ASSUME NearInv, [Next]_vars PROVE NearInv'
    OBVIOUS
  <2>1. UNCHANGED pidVars => NearInv'
    BY DEF pidVars, NearInv, HalfAbove, PidTypeOK, PowerBound, Wound, Heats
  <2> QED
    BY <2>1, NearStep, NearStart DEF Next, Manage, Control, vars
<1> QED
  BY <1>1, <1>2, PTL DEF Spec

(***************************************************************************)
(* Once the room has been at the setpoint, the controller keeps it within  *)
(* three fifths of a degree for ever, for every precision and however      *)
(* often the manager starts the controller again.                          *)
(***************************************************************************)
THEOREM RoomStaysNear == Spec => []StaysNear
<1>1. NearInv => StaysNear
  <2> SUFFICES ASSUME NearInv, reached PROVE 5 * temp \in -3 * Degree .. 3 * Degree
    BY DEF StaysNear
  <2>1. Degree \in Nat /\ temp \in Int
    BY DegreeAssumption DEF NearInv, HalfAbove, PidTypeOK
  <2>2. 2 * temp <= Degree /\ 5 * temp >= -3 * Degree
    BY DEF NearInv, HalfAbove
  <2> QED
    BY <2>1, <2>2
<1> QED
  BY <1>1, NearAlways, PTL

(***************************************************************************)
(* pid_compute never forgets what heating has wound up: since the setpoint *)
(* the integral is three degrees or more, and so drives the cooler above   *)
(* the setpoint as it drove the heater below: the first half of            *)
(* WindupDrivesBoth, for every precision.                                  *)
(***************************************************************************)
THEOREM WindupStays == Spec => [](reached => integral >= 3 * Degree - 2)
<1>1. NearInv => (reached => integral >= 3 * Degree - 2)
  BY DEF NearInv, Wound
<1> QED
  BY <1>1, NearAlways, PTL

----------------------------------------------------------------------------
(* How long a call takes *)

\* The number of steps, at most, until the call that is being made returns:
\* those of the method, and those of the methods it has still to call.
CallRank ==
    (CASE pc = "idle"             -> 0
       [] pc = "kill_power_meter" -> 2
       [] pc = "wait_hvac"        -> 3
       [] pc = "kill_hvac"        -> 4
       [] OTHER                   -> 1)
  + (CASE next = "idle" -> 0 [] next = "end" -> 1 [] OTHER -> 3)

LEMMA ReturnLowers ==
    ASSUME MgrTypeOK, Return, pc # "idle"
    PROVE  CallRank' < CallRank
<1>1. /\ pc \in {"spawn_power_meter", "kill_hvac", "wait_hvac",
                 "kill_power_meter", "wait_power", "end"}
      /\ next \in {"idle", "kill_power_meter", "end"}
  BY DEF MgrTypeOK
<1>2. pc' = next /\ next' = IF next = "kill_power_meter" THEN "end" ELSE "idle"
  BY DEF Return
<1> QED
  BY <1>1, <1>2 DEF CallRank

LEMMA StepsLower ==
    ASSUME MgrTypeOK, Steps
    PROVE  CallRank' < CallRank
<1>1. CASE SpawnMeter \/ WaitMeter \/ End
  <2>1. Return /\ pc # "idle"
    BY <1>1 DEF SpawnMeter, WaitMeter, End
  <2> QED
    BY <2>1, ReturnLowers
<1>2. CASE KillHvac \/ KillMeter
  <2>1. CASE Return
    <3>1. pc # "idle"
      BY <1>2 DEF KillHvac, KillMeter
    <3> QED
      BY <2>1, <3>1, ReturnLowers
  <2>2. CASE ~Return
    <3>1. /\ next' = next /\ next \in {"idle", "kill_power_meter", "end"}
          /\ \/ pc = "kill_hvac" /\ pc' = "wait_hvac"
             \/ pc = "kill_power_meter" /\ pc' = "wait_power"
      BY <1>2, <2>2 DEF KillHvac, KillMeter, MgrTypeOK
    <3> QED
      BY <3>1 DEF CallRank
  <2> QED
    BY <2>1, <2>2
<1>3. CASE WaitHvac
  <2>1. /\ next' = next /\ next \in {"idle", "kill_power_meter", "end"}
        /\ pc = "wait_hvac" /\ pc' = "kill_power_meter"
    BY <1>3 DEF WaitHvac, MgrTypeOK
  <2> QED
    BY <2>1 DEF CallRank
<1> QED
  BY <1>1, <1>2, <1>3 DEF Steps

(***************************************************************************)
(* The safety half of CallsReturn.  A call of the manager returns within   *)
(* seven steps of its own, and nothing else that happens meanwhile, no end *)
(* of a process and no turn of the control loop, sets it back.  That there *)
(* is always such a step, because none waits for a process to end, is what *)
(* remains to the run.                                                     *)
(***************************************************************************)
THEOREM CallsAreBounded ==
    Spec => /\ [](CallRank \in 0..7 /\ (CallRank = 0 <=> pc = "idle"))
            /\ [][pc # "idle" => IF Steps THEN CallRank' < CallRank
                                          ELSE CallRank' = CallRank]_vars
<1>1. IInv => CallRank \in 0..7 /\ (CallRank = 0 <=> pc = "idle")
  <2> SUFFICES ASSUME IInv PROVE CallRank \in 0..7 /\ (CallRank = 0 <=> pc = "idle")
    OBVIOUS
  <2>1. /\ pc \in {"idle", "spawn_power_meter", "kill_hvac", "wait_hvac",
                   "kill_power_meter", "wait_power", "end"}
        /\ next \in {"idle", "kill_power_meter", "end"}
        /\ pc = "idle" => next = "idle"
    BY DEF IInv, MgrInv, MgrTypeOK, PhaseInv
  <2> QED
    BY <2>1 DEF CallRank
<1>2. IInv /\ [Next]_vars =>
        [pc # "idle" => IF Steps THEN CallRank' < CallRank
                                 ELSE CallRank' = CallRank]_vars
  <2> SUFFICES ASSUME IInv, [Next]_vars, pc # "idle"
               PROVE  IF Steps THEN CallRank' < CallRank ELSE CallRank' = CallRank
    OBVIOUS
  <2>1. CASE Steps
    BY <2>1, StepsLower DEF IInv, MgrInv
  <2>2. CASE ~Steps
    <3>1. pc' = pc /\ next' = next
      BY <2>2 DEF Next, Manage, Manager, Control, SpawnHvac, Kill, Cleanup,
                  MonitorHealth, Die, Idle, mgrVars, vars
    <3> QED
      BY <2>2, <3>1 DEF CallRank
  <2> QED
    BY <2>1, <2>2
<1> QED
  BY <1>1, <1>2, InvAlways, PTL DEF Spec
=============================================================================
