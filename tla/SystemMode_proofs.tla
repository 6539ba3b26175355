--------------------------- MODULE SystemMode_proofs ---------------------------
(***************************************************************************)
(* Proofs about SystemMode, for any dashboards, any number of requests     *)
(* under way, of switches and of failures.                                 *)
(*                                                                         *)
(* The inductive invariant adds to the three invariants what the place of  *)
(* a request says of its kind: only a switch calls updateService, only a   *)
(* read describes the service.                                             *)
(***************************************************************************)
EXTENDS SystemMode, TLAPS

\* What the place of a request says of its kind.
PlacesOK ==
    \A s \in Slots :
        /\ req[s].at = "service" => IsSwitch(req[s])
        /\ req[s].at = "describe" => ~IsSwitch(req[s])

IInv == TypeOK /\ PlacesOK /\ AgreeUnlessDisturbed /\ ButtonsWaitForSwitch

(* A slot names its dashboard. *)
LEMMA SlotDashboard == \A s \in Slots : s[1] \in Dashboards
BY SlotAssumption

(* The requests the actions put in a slot are requests. *)
LEMMA RequestTypes ==
    /\ Idle \in Requests
    /\ \A a \in Modes \cup {"GET"} : Fresh(a) \in Requests
    /\ \A r \in Requests : Abandoned(r) \in Requests /\ Failed(r) \in Requests
<1>1. Idle \in Requests
  BY DEF Idle, Requests, Modes
<1>2. ASSUME NEW a \in Modes \cup {"GET"} PROVE Fresh(a) \in Requests
  BY <1>1 DEF Requests, Fresh
<1>3. ASSUME NEW r \in Requests PROVE Abandoned(r) \in Requests
  <2>1. [r EXCEPT !.page = FALSE] \in Requests
    BY DEF Requests
  <2> QED
    BY <1>1, <2>1 DEF Abandoned
<1>4. ASSUME NEW r \in Requests PROVE Failed(r) \in Requests
  BY <1>1 DEF Requests, Failed
<1> QED
  BY <1>1, <1>2, <1>3, <1>4

(* How the kind and the place of a request survive being abandoned, being    *)
(* failed and being made.                                                    *)
LEMMA RequestParts ==
    /\ Idle.at = "idle" /\ Idle.ask = "GET" /\ Idle.page = FALSE
    /\ \A a \in Modes \cup {"GET"} :
         /\ Fresh(a).ask = a /\ Fresh(a).page = TRUE
         /\ Fresh(a).at = IF a = "GET" THEN "row" ELSE "service"
    /\ \A r \in Requests :
         /\ Failed(r).at = "error" /\ Failed(r).ask = r.ask /\ Failed(r).page = r.page
         /\ Abandoned(r).page = FALSE
         /\ r.ask # "GET" => Abandoned(r).at = r.at /\ Abandoned(r).ask = r.ask
         /\ r.ask = "GET" => Abandoned(r).at = "idle" /\ Abandoned(r).ask = "GET"
BY DEF Idle, Requests, Fresh, Abandoned, Failed, Modes, IsSwitch

(* The state of a served request moves on: it stays awaited or not, and no   *)
(* other request changes.                                                    *)
LEMMA MovedOn ==
    ASSUME TypeOK, ButtonsWaitForSwitch, NEW s \in Slots, NEW r \in Requests,
           req[s].at # "idle", r.at # "idle", r.ask = req[s].ask, r.page = req[s].page,
           Becomes(s, r), UNCHANGED switching
    PROVE  ButtonsWaitForSwitch'
<1>1. \A t \in Slots : req'[t] = IF t = s THEN r ELSE req[t]
  BY DEF Becomes, TypeOK
<1>2. \A t \in Slots : (req'[t].at # "idle" /\ req'[t].ask # "GET" /\ req'[t].page)
                         <=> (req[t].at # "idle" /\ req[t].ask # "GET" /\ req[t].page)
  BY <1>1
<1> QED
  BY <1>2 DEF ButtonsWaitForSwitch, Awaited, IsSwitch

(* If no slot becomes or ceases to be half done, and neither the row nor the *)
(* service changes, they agree as before.                                    *)
LEMMA SameHalves ==
    ASSUME AgreeUnlessDisturbed, UNCHANGED <<mode, desired>>, disturbed' = disturbed,
           \A t \in Slots :
              /\ (req'[t].at = "row" /\ req'[t].ask # "GET")
                    <=> (req[t].at = "row" /\ req[t].ask # "GET")
              /\ (req[t].at = "row" /\ req[t].ask # "GET") => req'[t].ask = req[t].ask
    PROVE  AgreeUnlessDisturbed'
BY DEF AgreeUnlessDisturbed, HalfDone, Alone, IsSwitch, Count

----------------------------------------------------------------------------
(* TypeOK and PlacesOK *)

LEMMA InitHolds == Init => IInv
<1> SUFFICES ASSUME Init PROVE IInv
  OBVIOUS
<1>1. \A s \in Slots : req[s] = Idle
  BY DEF Init
<1>2. TypeOK
  <2>1. req \in [Slots -> Requests]
    BY RequestTypes DEF Init
  <2>2. switches \in 0..MaxSwitches /\ troubles \in 0..MaxTroubles
    BY BoundAssumption DEF Init
  <2>3. /\ shown \in [Dashboards -> Modes \cup {"none"}]
        /\ shownRun \in [Dashboards -> BOOLEAN]
    BY DEF Init
  <2>4. mode \in Modes /\ desired \in 0..1 /\ running \in 0..1
    BY DEF Init, Modes
  <2>5. switching \in SUBSET Dashboards /\ disturbed \in BOOLEAN
    BY DEF Init
  <2> QED
    BY <2>1, <2>2, <2>3, <2>4, <2>5 DEF TypeOK
<1>3. PlacesOK
  BY <1>1, RequestParts DEF PlacesOK
<1>4. AgreeUnlessDisturbed
  BY <1>1, RequestParts DEF Init, AgreeUnlessDisturbed, HalfDone, Count
<1>5. ButtonsWaitForSwitch
  BY <1>1, RequestParts DEF Init, ButtonsWaitForSwitch, Awaited
<1> QED
  BY <1>2, <1>3, <1>4, <1>5 DEF IInv

(* A request replaced by a request leaves req well typed, and the others as  *)
(* they were.                                                                *)
LEMMA Replaced ==
    ASSUME TypeOK, NEW s \in Slots, NEW r \in Requests, Becomes(s, r)
    PROVE  /\ req' \in [Slots -> Requests]
           /\ \A t \in Slots : req'[t] = IF t = s THEN r ELSE req[t]
BY DEF TypeOK, Becomes

(* A trouble is counted within its bound. *)
LEMMA TroubleCounted ==
    ASSUME TypeOK, Trouble
    PROVE  switches' = switches /\ troubles' \in 0..MaxTroubles
BY BoundAssumption DEF TypeOK, Trouble

LEMMA PollKeeps ==
    ASSUME IInv, NEW s \in Slots, Poll(s)
    PROVE  IInv'
<1> DEFINE r == Fresh("GET")
<1>1. r \in Requests /\ r.at = "row" /\ r.ask = "GET" /\ req[s].at = "idle"
  BY RequestTypes, RequestParts DEF Poll
<1>2. /\ req' \in [Slots -> Requests]
      /\ \A t \in Slots : req'[t] = IF t = s THEN r ELSE req[t]
  BY <1>1, Replaced DEF Poll, IInv
<1> HIDE DEF r
<1>3. UNCHANGED <<serverVars, running, pageVars, boundVars>>
  BY DEF Poll
<1>4. TypeOK'
  BY <1>2, <1>3 DEF IInv, TypeOK, serverVars, pageVars, boundVars
<1>5. PlacesOK'
  BY <1>1, <1>2 DEF IInv, PlacesOK, IsSwitch
<1>6. AgreeUnlessDisturbed'
  BY <1>1, <1>2, <1>3, SameHalves DEF IInv, serverVars
<1>7. ButtonsWaitForSwitch'
  BY <1>1, <1>2, <1>3 DEF IInv, ButtonsWaitForSwitch, Awaited, IsSwitch, pageVars
<1> QED
  BY <1>4, <1>5, <1>6, <1>7 DEF IInv

LEMMA SwitchKeeps ==
    ASSUME IInv, NEW s \in Slots, NEW m \in Modes, Switch(s, m)
    PROVE  IInv'
<1> DEFINE r == Fresh(m)
<1>1. /\ r \in Requests /\ r.at = "service" /\ r.ask = m /\ r.page /\ m # "GET"
      /\ req[s].at = "idle"
  BY RequestTypes, RequestParts DEF Switch, Modes
<1>2. /\ req' \in [Slots -> Requests]
      /\ \A t \in Slots : req'[t] = IF t = s THEN r ELSE req[t]
  BY <1>1, Replaced DEF Switch, IInv
<1> HIDE DEF r
<1>3. /\ UNCHANGED <<serverVars, running, shown, shownRun, troubles>>
      /\ switches < MaxSwitches /\ switches' = switches + 1
      /\ s[1] \notin switching /\ switching' = switching \cup {s[1]}
  BY DEF Switch
<1>4. TypeOK'
  <2>1. switches' \in 0..MaxSwitches
    BY <1>3, BoundAssumption DEF IInv, TypeOK
  <2>2. switching' \in SUBSET Dashboards
    BY <1>3, SlotDashboard DEF IInv, TypeOK
  <2> QED
    BY <1>2, <1>3, <2>1, <2>2 DEF IInv, TypeOK, serverVars
<1>5. PlacesOK'
  BY <1>1, <1>2 DEF IInv, PlacesOK, IsSwitch
<1>6. AgreeUnlessDisturbed'
  BY <1>1, <1>2, <1>3, SameHalves DEF IInv, serverVars
<1>7. ButtonsWaitForSwitch'
  BY <1>1, <1>2, <1>3, SlotDashboard DEF IInv, ButtonsWaitForSwitch, Awaited, IsSwitch
<1> QED
  BY <1>4, <1>5, <1>6, <1>7 DEF IInv

LEMMA AnswerKeeps ==
    ASSUME IInv, NEW s \in Slots, Answer(s)
    PROVE  IInv'
<1>1. Idle \in Requests /\ Idle.at = "idle" /\ Idle.ask = "GET" /\ Idle.page = FALSE
  BY RequestTypes, RequestParts
<1>2. /\ req' \in [Slots -> Requests]
      /\ \A t \in Slots : req'[t] = IF t = s THEN Idle ELSE req[t]
  BY <1>1, Replaced DEF Answer, IInv
<1>3. /\ UNCHANGED <<serverVars, running, boundVars>>
      /\ req[s].at \in {"ok", "error"}
      /\ switching' = IF IsSwitch(req[s]) /\ req[s].page THEN switching \ {s[1]} ELSE switching
  BY DEF Answer
<1>4. TypeOK'
  <2>1. /\ shown' \in [Dashboards -> Modes \cup {"none"}]
        /\ shownRun' \in [Dashboards -> BOOLEAN]
    <3>1. req[s].mode \in Modes
      BY DEF IInv, TypeOK, Requests
    <3>2. \/ UNCHANGED shown
          \/ shown' = [shown EXCEPT ![s[1]] = req[s].mode]
      BY DEF Answer
    <3>3. \/ UNCHANGED shownRun
          \/ shownRun' = [shownRun EXCEPT ![s[1]] = req[s].count > 0]
      BY DEF Answer
    <3>4. (req[s].count > 0) \in BOOLEAN
      BY DEF IInv, TypeOK, Requests
    <3> QED
      BY <3>1, <3>2, <3>3, <3>4 DEF IInv, TypeOK
  <2> QED
    BY <1>2, <1>3, <2>1 DEF IInv, TypeOK, serverVars, boundVars
<1>5. PlacesOK'
  BY <1>1, <1>2 DEF IInv, PlacesOK, IsSwitch
<1>6. AgreeUnlessDisturbed'
  BY <1>1, <1>2, <1>3, SameHalves DEF IInv, serverVars
<1>7. ButtonsWaitForSwitch'
  BY <1>1, <1>2, <1>3, SlotDashboard DEF IInv, ButtonsWaitForSwitch, Awaited, IsSwitch
<1> QED
  BY <1>4, <1>5, <1>6, <1>7 DEF IInv

LEMMA LoseAnswerKeeps ==
    ASSUME IInv, NEW s \in Slots, LoseAnswer(s)
    PROVE  IInv'
<1> DEFINE r == Abandoned(req[s])
<1>1. /\ r \in Requests /\ r.page = FALSE
      /\ req[s].ask # "GET" => r.at = req[s].at /\ r.ask = req[s].ask
      /\ req[s].ask = "GET" => r.at = "idle" /\ r.ask = "GET"
  BY RequestTypes, RequestParts DEF IInv, TypeOK
<1>2. /\ req' \in [Slots -> Requests]
      /\ \A t \in Slots : req'[t] = IF t = s THEN r ELSE req[t]
  BY <1>1, Replaced DEF LoseAnswer, IInv
<1> HIDE DEF r
<1>3. /\ UNCHANGED <<serverVars, running, shown, shownRun>>
      /\ req[s].at # "idle" /\ req[s].page
      /\ switching' = IF IsSwitch(req[s]) THEN switching \ {s[1]} ELSE switching
  BY DEF LoseAnswer
<1>4. TypeOK'
  <2>1. switches' = switches /\ troubles' \in 0..MaxTroubles
    BY TroubleCounted DEF LoseAnswer, IInv
  <2> QED
    BY <1>2, <1>3, <2>1 DEF IInv, TypeOK, serverVars
<1>5. PlacesOK'
  BY <1>1, <1>2 DEF IInv, PlacesOK, IsSwitch
<1>6. AgreeUnlessDisturbed'
  BY <1>1, <1>2, <1>3, SameHalves DEF IInv, serverVars
<1>7. ButtonsWaitForSwitch'
  BY <1>1, <1>2, <1>3, SlotDashboard DEF IInv, ButtonsWaitForSwitch, Awaited, IsSwitch
<1> QED
  BY <1>4, <1>5, <1>6, <1>7 DEF IInv

LEMMA LeaveKeeps ==
    ASSUME IInv, NEW d \in Dashboards, Leave(d)
    PROVE  IInv'
<1>1. /\ UNCHANGED <<serverVars, running>>
      /\ switching' = switching \ {d}
      /\ shown' = [shown EXCEPT ![d] = "none"]
      /\ shownRun' = [shownRun EXCEPT ![d] = FALSE]
      /\ req' = [s \in Slots |-> IF s[1] = d THEN Abandoned(req[s]) ELSE req[s]]
  BY DEF Leave
<1>2. \A s \in Slots :
        /\ req[s] \in Requests /\ req'[s] \in Requests
        /\ s[1] # d => req'[s] = req[s]
        /\ s[1] = d => req'[s].page = FALSE
        /\ req[s].ask # "GET" => req'[s].at = req[s].at /\ req'[s].ask = req[s].ask
        /\ req[s].ask = "GET" => req'[s].at \in {"idle", req[s].at} /\ req'[s].ask = "GET"
  BY <1>1, RequestTypes, RequestParts DEF IInv, TypeOK
<1>3. req' \in [Slots -> Requests]
  BY <1>1, <1>2
<1>4. TypeOK'
  <2>1. switches' = switches /\ troubles' \in 0..MaxTroubles
    BY TroubleCounted DEF Leave, IInv
  <2> QED
    BY <1>1, <1>3, <2>1 DEF IInv, TypeOK, serverVars
<1>5. PlacesOK'
  BY <1>2 DEF IInv, PlacesOK, IsSwitch
<1>6. AgreeUnlessDisturbed'
  BY <1>1, <1>2, SameHalves DEF IInv, serverVars
<1>7. ButtonsWaitForSwitch'
  BY <1>1, <1>2 DEF IInv, ButtonsWaitForSwitch, Awaited, IsSwitch
<1> QED
  BY <1>4, <1>5, <1>6, <1>7 DEF IInv

LEMMA UpdateServiceKeeps ==
    ASSUME IInv, NEW s \in Slots, UpdateService(s)
    PROVE  IInv'
<1> DEFINE r == [req[s] EXCEPT !.at = "row"]
<1>1. /\ r \in Requests /\ r.ask = req[s].ask /\ r.page = req[s].page
      /\ r.at = "row" /\ req[s].at = "service" /\ req[s].ask \in Modes
  <2>1. /\ req[s] \in Requests
        /\ req[s].ask \in Modes \cup {"GET"}
    BY DEF IInv, TypeOK, Requests
  <2>2. req[s].at = "service" /\ req[s].ask \in Modes
    BY <2>1 DEF UpdateService, HalfDone, IInv, PlacesOK, IsSwitch
  <2>3. mode \in Modes /\ running \in 0..1
    BY DEF IInv, TypeOK
  <2> QED
    BY <2>1, <2>2, <2>3 DEF Requests
<1>2. /\ req' \in [Slots -> Requests]
      /\ \A t \in Slots : req'[t] = IF t = s THEN r ELSE req[t]
  BY <1>1, Replaced DEF UpdateService, IInv
<1>3. UNCHANGED pageVars /\ UNCHANGED <<mode, running, boundVars>>
  BY DEF UpdateService
<1>8. desired' = Count(req[s].ask) /\ disturbed' = ~Alone(s)
  BY DEF UpdateService
<1>4. TypeOK'
  <2>1. desired' \in 0..1
    BY <1>8 DEF Count
  <2>2. disturbed' \in BOOLEAN
    BY <1>8 DEF IInv, TypeOK
  <2> QED
    BY <1>2, <1>3, <2>1, <2>2 DEF IInv, TypeOK, boundVars, pageVars
<1>5. PlacesOK'
  BY <1>1, <1>2 DEF IInv, PlacesOK, IsSwitch
<1>6. AgreeUnlessDisturbed'
  <2>1. SUFFICES ASSUME disturbed' = FALSE
                 PROVE  \E u \in Slots :
                          HalfDone(u)' /\ Alone(u)' /\ desired' = Count(req'[u].ask)
    BY <1>8 DEF AgreeUnlessDisturbed, IInv, TypeOK
  <2>2. \A t \in Slots : ~HalfDone(t)
    BY <1>1, <1>8, <2>1 DEF Alone, HalfDone
  <2>3. HalfDone(s)' /\ Alone(s)'
    BY <1>1, <1>2, <2>2 DEF Alone, HalfDone, IsSwitch, Modes
  <2>4. desired' = Count(req'[s].ask)
    BY <1>1, <1>2, <1>8
  <2> QED
    BY <2>3, <2>4
<1>7. ButtonsWaitForSwitch'
  BY <1>1, <1>3, MovedOn DEF UpdateService, IInv, pageVars
<1> QED
  BY <1>4, <1>5, <1>6, <1>7 DEF IInv

LEMMA ServiceFailsKeeps ==
    ASSUME IInv, NEW s \in Slots, ServiceFails(s)
    PROVE  IInv'
<1> DEFINE r == Failed(req[s])
<1>1. /\ r \in Requests /\ r.ask = req[s].ask /\ r.page = req[s].page
      /\ r.at = "error" /\ req[s].at = "service"
  BY RequestTypes, RequestParts DEF ServiceFails, HalfDone, IInv, TypeOK, PlacesOK, Requests, IsSwitch
<1>2. /\ req' \in [Slots -> Requests]
      /\ \A t \in Slots : req'[t] = IF t = s THEN r ELSE req[t]
  BY <1>1, Replaced DEF ServiceFails, IInv
<1>3. UNCHANGED pageVars /\ UNCHANGED <<mode, running>>
  BY DEF ServiceFails
<1>8. \/ UNCHANGED <<desired, disturbed>>
      \/ desired' = Count(req[s].ask) /\ disturbed' = TRUE
  BY DEF ServiceFails
<1>4. TypeOK'
  <2>1. switches' = switches /\ troubles' \in 0..MaxTroubles
    BY TroubleCounted DEF ServiceFails, IInv
  <2>2. CASE UNCHANGED <<desired, disturbed>>
    BY <1>2, <1>3, <2>1, <2>2 DEF IInv, TypeOK, pageVars
  <2>3. CASE desired' = Count(req[s].ask) /\ disturbed' = TRUE
    <3>1. desired' \in 0..1
      BY <2>3 DEF Count
    <3> QED
      BY <1>2, <1>3, <2>1, <2>3, <3>1 DEF IInv, TypeOK, pageVars
  <2> QED
    BY <1>8, <2>2, <2>3
<1>5. PlacesOK'
  BY <1>1, <1>2 DEF IInv, PlacesOK, IsSwitch
<1>6. AgreeUnlessDisturbed'
  <2>1. CASE UNCHANGED <<desired, disturbed>>
    BY <1>1, <1>2, <1>3, <2>1, SameHalves DEF IInv
  <2>2. CASE disturbed' = TRUE
    BY <2>2 DEF AgreeUnlessDisturbed
  <2> QED
    BY <1>8, <2>1, <2>2
<1>7. ButtonsWaitForSwitch'
  BY <1>1, <1>3, MovedOn DEF ServiceFails, IInv, pageVars
<1> QED
  BY <1>4, <1>5, <1>6, <1>7 DEF IInv

LEMMA SaveModeKeeps ==
    ASSUME IInv, NEW s \in Slots, SaveMode(s)
    PROVE  IInv'
<1> DEFINE r == [req[s] EXCEPT !.at = "ok", !.mode = req[s].ask]
<1>1. /\ r \in Requests /\ r.ask = req[s].ask /\ r.page = req[s].page
      /\ r.at = "ok" /\ HalfDone(s) /\ req[s].at = "row" /\ req[s].ask \in Modes
  <2>1. /\ req[s] \in Requests
        /\ req[s].ask \in Modes \cup {"GET"}
    BY DEF IInv, TypeOK, Requests
  <2>2. HalfDone(s) /\ req[s].at = "row" /\ req[s].ask \in Modes
    BY <2>1 DEF SaveMode, HalfDone, IInv, PlacesOK, IsSwitch
  <2>3. mode \in Modes /\ running \in 0..1
    BY DEF IInv, TypeOK
  <2> QED
    BY <2>1, <2>2, <2>3 DEF Requests
<1>2. /\ req' \in [Slots -> Requests]
      /\ \A t \in Slots : req'[t] = IF t = s THEN r ELSE req[t]
  BY <1>1, Replaced DEF SaveMode, IInv
<1>3. UNCHANGED pageVars /\ UNCHANGED <<desired, disturbed, running, boundVars>>
  BY DEF SaveMode
<1>8. mode' = req[s].ask
  BY DEF SaveMode
<1>4. TypeOK'
  BY <1>1, <1>2, <1>3, <1>8 DEF IInv, TypeOK, boundVars, pageVars
<1>5. PlacesOK'
  BY <1>1, <1>2 DEF IInv, PlacesOK, IsSwitch
<1>6. AgreeUnlessDisturbed'
  <2>1. SUFFICES ASSUME ~disturbed
                 PROVE  desired' = Count(mode') /\ \A t \in Slots : ~HalfDone(t)'
    BY <1>3 DEF AgreeUnlessDisturbed
  <2>2. PICK u \in Slots : HalfDone(u) /\ Alone(u) /\ desired = Count(req[u].ask)
    BY <1>1, <2>1 DEF IInv, AgreeUnlessDisturbed
  <2>3. u = s
    BY <1>1, <2>2 DEF Alone
  <2>4. \A t \in Slots : ~HalfDone(t)'
    BY <1>1, <1>2, <2>2, <2>3 DEF Alone, HalfDone
  <2> QED
    BY <1>3, <1>8, <2>2, <2>3, <2>4
<1>7. ButtonsWaitForSwitch'
  BY <1>1, <1>3, MovedOn DEF SaveMode, IInv, pageVars
<1> QED
  BY <1>4, <1>5, <1>6, <1>7 DEF IInv

LEMMA SaveFailsKeeps ==
    ASSUME IInv, NEW s \in Slots, SaveFails(s)
    PROVE  IInv'
<1> DEFINE r == Failed(req[s])
<1>1. /\ r \in Requests /\ r.ask = req[s].ask /\ r.page = req[s].page
      /\ r.at = "error" /\ req[s].at = "row"
  BY RequestTypes, RequestParts DEF SaveFails, HalfDone, IInv, TypeOK, PlacesOK, Requests, IsSwitch
<1>2. /\ req' \in [Slots -> Requests]
      /\ \A t \in Slots : req'[t] = IF t = s THEN r ELSE req[t]
  BY <1>1, Replaced DEF SaveFails, IInv
<1>3. UNCHANGED pageVars /\ UNCHANGED <<mode, desired, running>>
  BY DEF SaveFails
<1>8. disturbed' = TRUE
  BY DEF SaveFails
<1>4. TypeOK'
  <2>1. switches' = switches /\ troubles' \in 0..MaxTroubles
    BY TroubleCounted DEF SaveFails, IInv
  <2> QED
    BY <1>2, <1>3, <1>8, <2>1 DEF IInv, TypeOK, pageVars
<1>5. PlacesOK'
  BY <1>1, <1>2 DEF IInv, PlacesOK, IsSwitch
<1>6. AgreeUnlessDisturbed'
  BY <1>8 DEF AgreeUnlessDisturbed
<1>7. ButtonsWaitForSwitch'
  BY <1>1, <1>3, MovedOn DEF SaveFails, IInv, pageVars
<1> QED
  BY <1>4, <1>5, <1>6, <1>7 DEF IInv

LEMMA ReadModeKeeps ==
    ASSUME IInv, NEW s \in Slots, ReadMode(s)
    PROVE  IInv'
<1> DEFINE r == [req[s] EXCEPT !.at = "describe", !.mode = mode]
<1>1. /\ r \in Requests /\ r.ask = req[s].ask /\ r.page = req[s].page
      /\ r.at = "describe" /\ req[s].at = "row" /\ req[s].ask = "GET"
  <2>1. /\ req[s] \in Requests
        /\ req[s].ask \in Modes \cup {"GET"}
    BY DEF IInv, TypeOK, Requests
  <2>2. req[s].at = "row" /\ req[s].ask = "GET"
    BY <2>1 DEF ReadMode, HalfDone, IInv, PlacesOK, IsSwitch
  <2>3. mode \in Modes /\ running \in 0..1
    BY DEF IInv, TypeOK
  <2> QED
    BY <2>1, <2>2, <2>3 DEF Requests
<1>2. /\ req' \in [Slots -> Requests]
      /\ \A t \in Slots : req'[t] = IF t = s THEN r ELSE req[t]
  BY <1>1, Replaced DEF ReadMode, IInv
<1>3. UNCHANGED pageVars /\ UNCHANGED <<serverVars, running, boundVars>>
  BY DEF ReadMode
<1>4. TypeOK'
  BY <1>2, <1>3 DEF IInv, TypeOK, serverVars, boundVars, pageVars
<1>5. PlacesOK'
  BY <1>1, <1>2 DEF IInv, PlacesOK, IsSwitch
<1>6. AgreeUnlessDisturbed'
  BY <1>1, <1>2, <1>3, SameHalves DEF IInv, serverVars
<1>7. ButtonsWaitForSwitch'
  BY <1>1, <1>3, MovedOn DEF ReadMode, IInv, pageVars
<1> QED
  BY <1>4, <1>5, <1>6, <1>7 DEF IInv

LEMMA DescribeServiceKeeps ==
    ASSUME IInv, NEW s \in Slots, DescribeService(s)
    PROVE  IInv'
<1> DEFINE r == [req[s] EXCEPT !.at = "ok", !.count = running]
<1>1. /\ r \in Requests /\ r.ask = req[s].ask /\ r.page = req[s].page
      /\ r.at = "ok" /\ req[s].at = "describe" /\ req[s].ask = "GET"
  <2>1. /\ req[s] \in Requests
        /\ req[s].ask \in Modes \cup {"GET"}
    BY DEF IInv, TypeOK, Requests
  <2>2. req[s].at = "describe" /\ req[s].ask = "GET"
    BY <2>1 DEF DescribeService, HalfDone, IInv, PlacesOK, IsSwitch
  <2>3. mode \in Modes /\ running \in 0..1
    BY DEF IInv, TypeOK
  <2> QED
    BY <2>1, <2>2, <2>3 DEF Requests
<1>2. /\ req' \in [Slots -> Requests]
      /\ \A t \in Slots : req'[t] = IF t = s THEN r ELSE req[t]
  BY <1>1, Replaced DEF DescribeService, IInv
<1>3. UNCHANGED pageVars /\ UNCHANGED <<serverVars, running, boundVars>>
  BY DEF DescribeService
<1>4. TypeOK'
  BY <1>2, <1>3 DEF IInv, TypeOK, serverVars, boundVars, pageVars
<1>5. PlacesOK'
  BY <1>1, <1>2 DEF IInv, PlacesOK, IsSwitch
<1>6. AgreeUnlessDisturbed'
  BY <1>1, <1>2, <1>3, SameHalves DEF IInv, serverVars
<1>7. ButtonsWaitForSwitch'
  BY <1>1, <1>3, MovedOn DEF DescribeService, IInv, pageVars
<1> QED
  BY <1>4, <1>5, <1>6, <1>7 DEF IInv

LEMMA GetFailsKeeps ==
    ASSUME IInv, NEW s \in Slots, GetFails(s)
    PROVE  IInv'
<1> DEFINE r == Failed(req[s])
<1>1. /\ r \in Requests /\ r.ask = req[s].ask /\ r.page = req[s].page
      /\ r.at = "error" /\ req[s].at \in {"row", "describe"} /\ req[s].ask = "GET"
  BY RequestTypes, RequestParts DEF GetFails, HalfDone, IInv, TypeOK, PlacesOK, Requests, IsSwitch
<1>2. /\ req' \in [Slots -> Requests]
      /\ \A t \in Slots : req'[t] = IF t = s THEN r ELSE req[t]
  BY <1>1, Replaced DEF GetFails, IInv
<1>3. UNCHANGED pageVars /\ UNCHANGED <<serverVars, running>>
  BY DEF GetFails
<1>4. TypeOK'
  <2>1. switches' = switches /\ troubles' \in 0..MaxTroubles
    BY TroubleCounted DEF GetFails, IInv
  <2> QED
    BY <1>2, <1>3, <2>1 DEF IInv, TypeOK, serverVars, pageVars
<1>5. PlacesOK'
  BY <1>1, <1>2 DEF IInv, PlacesOK, IsSwitch
<1>6. AgreeUnlessDisturbed'
  BY <1>1, <1>2, <1>3, SameHalves DEF IInv, serverVars
<1>7. ButtonsWaitForSwitch'
  BY <1>1, <1>3, MovedOn DEF GetFails, IInv, pageVars
<1> QED
  BY <1>4, <1>5, <1>6, <1>7 DEF IInv

LEMMA TaskKeeps ==
    ASSUME IInv, Converge \/ TaskStops
    PROVE  IInv'
<1>1. UNCHANGED <<serverVars, req, pageVars>>
  BY DEF Converge, TaskStops
<1>2. running' \in 0..1
  BY DEF IInv, TypeOK, Converge, TaskStops
<1>3. switches' = switches /\ troubles' \in 0..MaxTroubles
  BY TroubleCounted DEF IInv, TypeOK, Converge, TaskStops, boundVars
<1>4. TypeOK'
  BY <1>1, <1>2, <1>3 DEF IInv, TypeOK, serverVars, pageVars
<1> QED
  BY <1>1, <1>4 DEF IInv, PlacesOK, AgreeUnlessDisturbed, ButtonsWaitForSwitch,
     HalfDone, Alone, Awaited, serverVars, pageVars

LEMMA NextKeeps ==
    ASSUME IInv, [Next]_vars
    PROVE  IInv'
<1>1. CASE Converge \/ TaskStops
  BY <1>1, TaskKeeps
<1>2. CASE \E d \in Dashboards : Leave(d)
  BY <1>2, LeaveKeeps
<1>3. ASSUME NEW s \in Slots,
             Poll(s) \/ Answer(s) \/ LoseAnswer(s) \/ \E m \in Modes : Switch(s, m)
      PROVE  IInv'
  BY <1>3, PollKeeps, AnswerKeeps, LoseAnswerKeeps, SwitchKeeps
<1>4. ASSUME NEW s \in Slots, Serve(s)
      PROVE  IInv'
  BY <1>4, UpdateServiceKeeps, SaveModeKeeps, ReadModeKeeps, DescribeServiceKeeps DEF Serve
<1>5. ASSUME NEW s \in Slots, ServiceFails(s) \/ SaveFails(s) \/ GetFails(s)
      PROVE  IInv'
  BY <1>5, ServiceFailsKeeps, SaveFailsKeeps, GetFailsKeeps
<1>6. CASE UNCHANGED vars
  BY <1>6 DEF IInv, TypeOK, PlacesOK, AgreeUnlessDisturbed, ButtonsWaitForSwitch,
     HalfDone, Alone, Awaited, vars, serverVars, pageVars, boundVars
<1> QED
  BY <1>1, <1>2, <1>3, <1>4, <1>5, <1>6 DEF Next

----------------------------------------------------------------------------

(* The strengthened invariant holds in every reachable state of the switch.  *)
THEOREM Invariance == Spec => []IInv
<1>1. Init => IInv
  BY InitHolds
<1>2. IInv /\ [Next]_vars => IInv'
  BY NextKeeps
<1> QED
  BY <1>1, <1>2, PTL DEF Spec

(* Every variable of the mode switch keeps its type.                         *)
THEOREM TypeCorrect == Spec => []TypeOK
BY Invariance, PTL DEF IInv

(* The row and the sensor service agree; a switch that failed half way or    *)
(* met another sets them apart no longer than until the next one that is     *)
(* begun while no other is half done.                                        *)
THEOREM ModeAgrees == Spec => []AgreeUnlessDisturbed
BY Invariance, PTL DEF IInv

(* A dashboard's buttons are disabled exactly while it waits for its switch. *)
THEOREM ButtonsAreEnabledAgain == Spec => []ButtonsWaitForSwitch
BY Invariance, PTL DEF IInv
=============================================================================
