------------------------------ MODULE SystemMode ------------------------------
(***************************************************************************)
(* The switch between simulation and hardware: the dashboards' ModeToggle  *)
(* (Frontend/src/pages/Dashboard.jsx), the backend that serves /api/mode   *)
(* (SystemModeController, SystemModeService), the system_mode row and the  *)
(* ECS service that runs the simulated sensors.                            *)
(*                                                                         *)
(* A switch updates the ECS service and then saves the row, each a call to *)
(* another system, without a transaction around them.  Requests of several *)
(* browsers are served at the same time and answered in any order; a       *)
(* dashboard polls every ten seconds whether or not its last poll has been *)
(* answered.  Any call can fail, an answer can be lost, and a page can be  *)
(* left while its requests go on.                                          *)
(***************************************************************************)
EXTENDS Naturals

CONSTANTS
    Dashboards,     \* open dashboards
    Slots,          \* bound: requests under way, pairs of a dashboard and a number
    MaxSwitches,    \* bound: times a button is pressed
    MaxTroubles     \* bound: failures, lost answers, pages left, stopped tasks

ASSUME SlotAssumption == Slots \subseteq Dashboards \X Nat
ASSUME BoundAssumption == MaxSwitches \in Nat /\ MaxTroubles \in Nat

VARIABLES
    mode,       \* the mode in row 1 of system_mode
    desired,    \* desiredCount of the sensor service
    running,    \* its runningCount
    req,        \* the requests under way
    shown,      \* mode in the ModeToggle of each dashboard
    shownRun,   \* its sensorRunning
    switching,  \* dashboards whose buttons wait for an answer
    switches,   \* times a button was pressed
    troubles,   \* things that went wrong
    disturbed   \* history: a switch failed half way or met another, and none was begun
                \* since while no other was half done

serverVars == <<mode, desired, disturbed>>
pageVars == <<shown, shownRun, switching>>
boundVars == <<switches, troubles>>
vars == <<serverVars, running, req, pageVars, boundVars>>

Modes == {"SIMULATION", "HARDWARE"}
Count(m) == IF m = "SIMULATION" THEN 1 ELSE 0

(* A request asks for a mode to be set, or for the current one ("GET").  It *)
(* is followed from the backend's next call to the answer; page says that   *)
(* the page still waits for it.                                             *)
Requests == [at : {"idle", "service", "row", "describe", "ok", "error"},
             ask : Modes \cup {"GET"}, page : BOOLEAN,
             mode : Modes, count : 0..1]

Idle == [at |-> "idle", ask |-> "GET", page |-> FALSE,
         mode |-> "SIMULATION", count |-> 0]
Fresh(a) == [Idle EXCEPT !.at = IF a = "GET" THEN "row" ELSE "service",
                         !.ask = a, !.page = TRUE]

IsSwitch(r) == r.ask # "GET"

\* The page no longer waits: a switch goes on, a read has no further effect.
Abandoned(r) == IF IsSwitch(r) THEN [r EXCEPT !.page = FALSE] ELSE Idle

\* The request has failed; what it read is lost.
Failed(r) == [Idle EXCEPT !.at = "error", !.ask = r.ask, !.page = r.page]

\* The other switches that have updated the service and not yet the row.
HalfDone(s) == req[s].at = "row" /\ IsSwitch(req[s])
Alone(s) ==
    \A t \in Slots : HalfDone(t) => t = s

Init ==
    /\ mode = "SIMULATION" /\ desired = 1 /\ running = 1
    /\ req = [s \in Slots |-> Idle]
    /\ shown = [d \in Dashboards |-> "none"]
    /\ shownRun = [d \in Dashboards |-> FALSE]
    /\ switching = {}
    /\ switches = 0 /\ troubles = 0
    /\ disturbed = FALSE

Becomes(s, r) == req' = [req EXCEPT ![s] = r]

Trouble ==
    /\ troubles < MaxTroubles
    /\ troubles' = troubles + 1
    /\ UNCHANGED switches

----------------------------------------------------------------------------
(* ModeToggle *)

\* Mutant of Poll: no timer, the mode is fetched when the page opens.
PollOnce(s) ==
    /\ shown[s[1]] = "none"
    /\ req[s].at = "idle"
    /\ Becomes(s, Fresh("GET"))
    /\ UNCHANGED <<serverVars, running, pageVars, boundVars>>

\* fetchMode: when the page opens, every ten seconds, and after a switch.
Poll(s) ==
    /\ req[s].at = "idle"
    /\ Becomes(s, Fresh("GET"))
    /\ UNCHANGED <<serverVars, running, pageVars, boundVars>>

\* switchToSimulation and switchToHardware, up to the answer.
Switch(s, m) ==
    /\ shown[s[1]] \in Modes \ {m}
    /\ s[1] \notin switching
    /\ req[s].at = "idle"
    /\ switches < MaxSwitches
    /\ switches' = switches + 1
    /\ switching' = switching \cup {s[1]}
    /\ Becomes(s, Fresh(m))
    /\ UNCHANGED <<serverVars, running, shown, shownRun, troubles>>

\* Mutant of Answer: the buttons are not enabled again after a failed switch.
AnswerStuck(s) ==
    /\ req[s].at \in {"ok", "error"}
    /\ IF req[s].at = "ok" /\ req[s].page
       THEN /\ shown' = [shown EXCEPT ![s[1]] = req[s].mode]
            /\ IF IsSwitch(req[s])
               THEN UNCHANGED shownRun
               ELSE shownRun' = [shownRun EXCEPT ![s[1]] = req[s].count > 0]
            /\ switching' = IF IsSwitch(req[s]) THEN switching \ {s[1]} ELSE switching
       ELSE UNCHANGED pageVars
    /\ Becomes(s, Idle)
    /\ UNCHANGED <<serverVars, running, boundVars>>

\* The answer arrives, if the page still waits for it: fetchMode takes the
\* mode and the sensor's state, a switch the mode, an error nothing; the
\* buttons are enabled after a switch either way.
Answer(s) ==
    /\ req[s].at \in {"ok", "error"}
    /\ IF req[s].at = "ok" /\ req[s].page
       THEN /\ shown' = [shown EXCEPT ![s[1]] = req[s].mode]
            /\ IF IsSwitch(req[s])
               THEN UNCHANGED shownRun
               ELSE shownRun' = [shownRun EXCEPT ![s[1]] = req[s].count > 0]
       ELSE UNCHANGED <<shown, shownRun>>
    /\ switching' = IF IsSwitch(req[s]) /\ req[s].page
                    THEN switching \ {s[1]} ELSE switching
    /\ Becomes(s, Idle)
    /\ UNCHANGED <<serverVars, running, boundVars>>

\* The connection breaks, or the load balancer gives up: the page sees an
\* error while the backend goes on.
LoseAnswer(s) ==
    /\ req[s].at # "idle" /\ req[s].page
    /\ Trouble
    /\ Becomes(s, Abandoned(req[s]))
    /\ switching' = IF IsSwitch(req[s]) THEN switching \ {s[1]} ELSE switching
    /\ UNCHANGED <<serverVars, running, shown, shownRun>>

\* The page is left and opened again; nobody waits for its requests.
Leave(d) ==
    /\ Trouble
    /\ shown' = [shown EXCEPT ![d] = "none"]
    /\ shownRun' = [shownRun EXCEPT ![d] = FALSE]
    /\ switching' = switching \ {d}
    /\ req' = [s \in Slots |-> IF s[1] = d THEN Abandoned(req[s]) ELSE req[s]]
    /\ UNCHANGED <<serverVars, running>>

----------------------------------------------------------------------------
(* SystemModeService *)

\* Mutant of UpdateService: simulation is asked for as one task more.
UpdateServiceByOne(s) ==
    /\ req[s].at = "service"
    /\ desired' = IF req[s].ask = "SIMULATION" THEN desired + 1 ELSE 0
    /\ disturbed' = ~Alone(s)
    /\ Becomes(s, [req[s] EXCEPT !.at = "row"])
    /\ UNCHANGED <<mode, running, pageVars, boundVars>>

\* updateService.
UpdateService(s) ==
    /\ req[s].at = "service"
    /\ desired' = Count(req[s].ask)
    /\ disturbed' = ~Alone(s)
    /\ Becomes(s, [req[s] EXCEPT !.at = "row"])
    /\ UNCHANGED <<mode, running, pageVars, boundVars>>

\* Mutant of ServiceFails: the exception is swallowed, the mode is saved.
ServiceFailsOn(s) ==
    /\ req[s].at = "service"
    /\ Trouble
    /\ UNCHANGED <<desired, disturbed>>
    /\ Becomes(s, [req[s] EXCEPT !.at = "row"])
    /\ UNCHANGED <<mode, running, pageVars>>

\* updateService throws: ECS may have taken the update nevertheless.
ServiceFails(s) ==
    /\ req[s].at = "service"
    /\ Trouble
    /\ \/ UNCHANGED <<desired, disturbed>>
       \/ desired' = Count(req[s].ask) /\ disturbed' = TRUE
    /\ Becomes(s, Failed(req[s]))
    /\ UNCHANGED <<mode, running, pageVars>>

\* saveMode: the row exists, whatever it holds is replaced.
SaveMode(s) ==
    /\ HalfDone(s)
    /\ mode' = req[s].ask
    /\ Becomes(s, [req[s] EXCEPT !.at = "ok", !.mode = req[s].ask])
    /\ UNCHANGED <<desired, disturbed, running, pageVars, boundVars>>

SaveFails(s) ==
    /\ HalfDone(s)
    /\ Trouble
    /\ disturbed' = TRUE
    /\ Becomes(s, Failed(req[s]))
    /\ UNCHANGED <<mode, desired, running, pageVars>>

\* getCurrentMode.
ReadMode(s) ==
    /\ req[s].at = "row" /\ ~IsSwitch(req[s])
    /\ Becomes(s, [req[s] EXCEPT !.at = "describe", !.mode = mode])
    /\ UNCHANGED <<serverVars, running, pageVars, boundVars>>

\* isSensorRunning.
DescribeService(s) ==
    /\ req[s].at = "describe"
    /\ Becomes(s, [req[s] EXCEPT !.at = "ok", !.count = running])
    /\ UNCHANGED <<serverVars, running, pageVars, boundVars>>

\* Either call of getMode throws.
GetFails(s) ==
    /\ req[s].at \in {"row", "describe"} /\ ~IsSwitch(req[s])
    /\ Trouble
    /\ Becomes(s, Failed(req[s]))
    /\ UNCHANGED <<serverVars, running, pageVars>>

Serve(s) ==
    \/ UpdateService(s) \/ SaveMode(s) \/ ReadMode(s)
    \/ DescribeService(s)

\* ECS starts or stops the task to reach desiredCount.
Converge ==
    /\ running # desired
    /\ running' = desired
    /\ UNCHANGED <<serverVars, req, pageVars, boundVars>>

\* The task ends by itself.
TaskStops ==
    /\ running = 1
    /\ Trouble
    /\ running' = 0
    /\ UNCHANGED <<serverVars, req, pageVars>>

Next ==
    \/ Converge \/ TaskStops
    \/ \E d \in Dashboards : Leave(d)
    \/ \E s \in Slots :
         \/ Poll(s) \/ Answer(s) \/ LoseAnswer(s)
         \/ \E m \in Modes : Switch(s, m)
         \/ Serve(s)
         \/ ServiceFails(s) \/ SaveFails(s) \/ GetFails(s)

Spec == Init /\ [][Next]_vars

\* Timers fire, requests are served and answered, ECS reconciles; nobody need
\* press a button.
FairSpec ==
    /\ Spec
    /\ WF_vars(Converge)
    /\ \A s \in Slots :
         WF_vars(Poll(s)) /\ WF_vars(Serve(s)) /\ WF_vars(Answer(s))

----------------------------------------------------------------------------
(* Properties *)

\* Type invariant.
TypeOK ==
    /\ mode \in Modes /\ desired \in 0..1 /\ running \in 0..1
    /\ req \in [Slots -> Requests]
    /\ shown \in [Dashboards -> Modes \cup {"none"}]
    /\ shownRun \in [Dashboards -> BOOLEAN]
    /\ switching \in SUBSET Dashboards
    /\ switches \in 0..MaxSwitches /\ troubles \in 0..MaxTroubles
    /\ disturbed \in BOOLEAN

\* The mode saved and the state asked of the sensor service agree whenever no
\* switch is between its two calls, and during one the service is already
\* where that switch wants it.  A switch that fails after its first call, or
\* makes it while another is between its two, may set them apart, but no longer
\* than until the next switch whose first call is made while no other switch is
\* half done: from then on they agree again.
AgreeUnlessDisturbed ==
    ~disturbed =>
        \/ /\ desired = Count(mode)
           /\ \A s \in Slots : ~HalfDone(s)
        \/ \E s \in Slots :
             /\ HalfDone(s) /\ Alone(s)
             /\ desired = Count(req[s].ask)

Awaited(s) == req[s].at # "idle" /\ IsSwitch(req[s]) /\ req[s].page

\* The buttons of a dashboard are disabled exactly while its page waits for
\* its one switch, whatever fails, is lost or is left meanwhile.
ButtonsWaitForSwitch ==
    \A d \in Dashboards :
        /\ d \in switching <=> \E s \in Slots : s[1] = d /\ Awaited(s)
        /\ \A s, t \in Slots : s[1] = d /\ t[1] = d /\ Awaited(s) /\ Awaited(t) => s = t

\* However late and out of order answers arrive, every dashboard comes to show
\* the saved mode and whether the sensors run, and stays so once nobody
\* switches and nothing fails.
EventuallyShown ==
    \A d \in Dashboards :
        <>[](shown[d] = mode /\ shownRun[d] = (running > 0))
=============================================================================
