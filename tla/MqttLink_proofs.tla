--------------------------- MODULE MqttLink_proofs ---------------------------
(***************************************************************************)
(* Theorems about MqttLink, for any topics and publishers, any number of   *)
(* readings, starts and losses.                                            *)
(***************************************************************************)
EXTENDS MqttLink, FiniteSetTheorems, SequenceTheorems, TLAPS

----------------------------------------------------------------------------
(* Types *)

(***************************************************************************)
(* What the types rest on: the variables are functions on the publishers,  *)
(* a library without a client has no connection, and what the broker holds *)
(* for the subscriber has been read.                                       *)
(***************************************************************************)
Maps ==
    /\ out \in [Publishers -> Seq(Nat)] /\ flown \in [Publishers -> Nat]
    /\ lost \in [Publishers -> Nat] /\ handled \in [Publishers -> Seq(Nat)]

Linked == \A p \in Publishers : pc[p] \in {"off", "connect"} => link[p] = "none"

Known == \A j \in 1..Len(inbox) : inbox[j][2] <= readings[inbox[j][1]]

TypeInv == TypeOK /\ Maps /\ Linked /\ Known

\* TypeOK in parts: states, the subscriber's session, each publisher's queues.
StatesOK ==
    /\ broker \in BOOLEAN /\ faults \in 0..MaxFaults
    /\ pc \in [Publishers -> {"off", "connect", "wait", "loop", "quiet"}]
    /\ link \in [Publishers -> {"none", "down", "up"}]
    /\ starts \in [Publishers -> 0..MaxStarts]
    /\ readings \in [Publishers -> 0..MaxReadings]
    /\ running \in BOOLEAN /\ spc \in {"start", "loop", "dead"} /\ up \in BOOLEAN

SessionOK ==
    /\ subs \in 0..Len(Topics) /\ (~up => subs = 0 /\ inbox = << >>)
    /\ inbox \in Seq(Publishers \X (1..MaxReadings))

QueuesOK(p) ==
    /\ out[p] \in Seq(1..readings[p]) /\ flown[p] \in 0..Len(out[p])
    /\ lost[p] \in 0..faults /\ handled[p] \in Seq(1..readings[p])
    /\ link[p] = "up" => broker
    /\ link[p] # "up" => flown[p] = 0

LEMMA TypeParts == TypeOK <=> StatesOK /\ SessionOK /\ \A p \in Publishers : QueuesOK(p)
BY DEF TypeOK, StatesOK, SessionOK, QueuesOK

LEMMA Constants ==
    /\ Len(Topics) \in Nat /\ MaxReadings \in Nat /\ MaxStarts \in Nat /\ MaxFaults \in Nat
BY TopicsAssumption, BoundAssumption

LEMMA TypeInit == Init => TypeInv
<1> SUFFICES ASSUME Init PROVE TypeInv
  OBVIOUS
<1>1. << >> \in Seq(Nat) /\ Len(<< >>) = 0 /\ << >> \in Seq(1..0)
      /\ << >> \in Seq(Publishers \X (1..MaxReadings))
  BY EmptySeq
<1>2. StatesOK
  <2>1. faults \in 0..MaxFaults /\ 0 \in 0..MaxStarts /\ 0 \in 0..MaxReadings
    BY Constants DEF Init
  <2>2. /\ pc \in [Publishers -> {"off", "connect", "wait", "loop", "quiet"}]
        /\ link \in [Publishers -> {"none", "down", "up"}]
    BY DEF Init
  <2>3. starts \in [Publishers -> 0..MaxStarts] /\ readings \in [Publishers -> 0..MaxReadings]
    BY <2>1 DEF Init
  <2>4. /\ broker \in BOOLEAN /\ running \in BOOLEAN /\ up \in BOOLEAN
        /\ spc \in {"start", "loop", "dead"}
    BY DEF Init
  <2> QED
    BY <2>1, <2>2, <2>3, <2>4 DEF StatesOK
<1>3. SessionOK
  BY <1>1, Constants DEF Init, SessionOK
<1>4. ASSUME NEW p \in Publishers PROVE QueuesOK(p)
  BY <1>1 DEF Init, QueuesOK
<1>5. Maps
  BY <1>1 DEF Init, Maps
<1>6. Linked
  BY DEF Init, Linked
<1>7. Known
  BY <1>1 DEF Init, Known
<1> QED
  BY <1>2, <1>3, <1>4, <1>5, <1>6, <1>7, TypeParts DEF TypeInv

LEMMA StatesStep == ASSUME TypeOK, Next PROVE StatesOK'
<1>0. StatesOK
  BY TypeParts
<1>1. broker' \in BOOLEAN /\ running' \in BOOLEAN /\ up' \in BOOLEAN
      /\ spc' \in {"start", "loop", "dead"}
  <2>0. /\ broker \in BOOLEAN /\ running \in BOOLEAN /\ up \in BOOLEAN
        /\ spc \in {"start", "loop", "dead"}
    BY <1>0 DEF StatesOK
  <2>1. broker' \in {broker, TRUE, FALSE} /\ running' \in {running, FALSE}
    BY DEF Next, Publisher, Library, Subscriber, PStart, PConnect, PWaited, Publish,
       PExit, PLink, Transmit, Ack, PLost, SConnect, SLink, Subscribe, Handle, SLost, Stop, Crash,
       Recover, subVars, pubVars
  <2>2. up' \in {up, TRUE, FALSE}
    BY DEF Next, Publisher, Library, Subscriber, PStart, PConnect, PWaited, Publish,
       PExit, PLink, Transmit, Ack, PLost, SConnect, SLink, Subscribe, Handle, SLost, Stop, Crash,
       Recover, SessionEnds, subVars, pubVars
  <2>3. spc' \in {spc, "loop", "dead"}
    BY DEF Next, Publisher, Library, Subscriber, PStart, PConnect, PWaited, Publish,
       PExit, PLink, Transmit, Ack, PLost, SConnect, SLink, Subscribe, Handle, SLost, Stop, Crash,
       Recover, subVars, pubVars
  <2>4. broker' \in BOOLEAN
    BY <2>0, <2>1
  <2>5. running' \in BOOLEAN /\ up' \in BOOLEAN
    BY <2>0, <2>1, <2>2
  <2> QED
    BY <2>0, <2>3, <2>4, <2>5
<1>2. faults' \in 0..MaxFaults
  <2>1. faults' = faults \/ (faults < MaxFaults /\ faults' = faults + 1)
    BY DEF Next, Publisher, Library, Subscriber, PStart, PConnect, PWaited, Publish,
       PExit, PLink, Transmit, Ack, PLost, SConnect, SLink, Subscribe, Handle, SLost, Stop, Crash,
       Recover
  <2> QED
    BY <1>0, <2>1, Constants DEF StatesOK
<1>3. pc' \in [Publishers -> {"off", "connect", "wait", "loop", "quiet"}]
  <2>1. \/ pc' = pc
        \/ \E p \in Publishers : \/ pc' = [pc EXCEPT ![p] = "connect"]
                                 \/ pc' = [pc EXCEPT ![p] = "wait"]
                                 \/ pc' = [pc EXCEPT ![p] = "quiet"]
                                 \/ pc' = [pc EXCEPT ![p] = "loop"]
                                 \/ pc' = [pc EXCEPT ![p] = "off"]
    BY DEF Next, Publisher, Library, Subscriber, PStart, PConnect, PWaited, Publish,
       PExit, PLink, Transmit, Ack, PLost, SConnect, SLink, Subscribe, Handle, SLost, Stop, Crash,
       Recover, Set, pubVars
  <2>2. pc \in [Publishers -> {"off", "connect", "wait", "loop", "quiet"}]
    BY <1>0 DEF StatesOK
  <2> QED
    BY <2>1, <2>2
<1>4. link' \in [Publishers -> {"none", "down", "up"}]
  <2>1. \/ link' = link
        \/ \E p \in Publishers : \/ link' = [link EXCEPT ![p] = "down"]
                                 \/ link' = [link EXCEPT ![p] = "none"]
                                 \/ link' = [link EXCEPT ![p] = "up"]
        \/ \E gone : link' = [p \in Publishers |-> IF p \in gone THEN "down" ELSE link[p]]
    BY DEF Next, Publisher, Library, Subscriber, PStart, PConnect, PWaited, Publish,
       PExit, PLink, Transmit, Ack, PLost, SConnect, SLink, Subscribe, Handle, SLost, Stop, Crash,
       Recover, Set, Unlink, pubVars
  <2>2. link \in [Publishers -> {"none", "down", "up"}]
    BY <1>0 DEF StatesOK
  <2> QED
    BY <2>1, <2>2
<1>5. starts' \in [Publishers -> 0..MaxStarts]
  <2>1. \/ starts' = starts
        \/ \E p \in Publishers : starts[p] < MaxStarts /\ starts' = [starts EXCEPT ![p] = starts[p] + 1]
    BY DEF Next, Publisher, Library, Subscriber, PStart, PConnect, PWaited, Publish,
       PExit, PLink, Transmit, Ack, PLost, SConnect, SLink, Subscribe, Handle, SLost, Stop, Crash,
       Recover, Set, pubVars
  <2>2. ASSUME NEW p \in Publishers, starts[p] < MaxStarts PROVE starts[p] + 1 \in 0..MaxStarts
    BY <1>0, <2>2, Constants DEF StatesOK
  <2> QED
    BY <1>0, <2>1, <2>2 DEF StatesOK
<1>6. readings' \in [Publishers -> 0..MaxReadings]
  <2>1. \/ readings' = readings
        \/ \E p \in Publishers :
             readings[p] < MaxReadings /\ readings' = [readings EXCEPT ![p] = readings[p] + 1]
    BY DEF Next, Publisher, Library, Subscriber, PStart, PConnect, PWaited, Publish,
       PExit, PLink, Transmit, Ack, PLost, SConnect, SLink, Subscribe, Handle, SLost, Stop, Crash,
       Recover, Set, pubVars
  <2>2. ASSUME NEW p \in Publishers, readings[p] < MaxReadings
        PROVE  readings[p] + 1 \in 0..MaxReadings
    BY <1>0, <2>2, Constants DEF StatesOK
  <2> QED
    BY <1>0, <2>1, <2>2 DEF StatesOK
<1> QED
  BY <1>1, <1>2, <1>3, <1>4, <1>5, <1>6 DEF StatesOK

LEMMA LinkedStep == ASSUME TypeOK, Linked, Next PROVE Linked'
<1>0. /\ pc \in [Publishers -> {"off", "connect", "wait", "loop", "quiet"}]
      /\ link \in [Publishers -> {"none", "down", "up"}]
  BY DEF TypeOK
<1>1. ASSUME NEW p \in Publishers, PStart(p) \/ PConnect(p) \/ PWaited(p) \/ PExit(p) \/ PLink(p)
      PROVE  Linked'
  BY <1>0, <1>1 DEF PStart, PConnect, PWaited, PExit, PLink, Set, Linked
<1>2. ASSUME NEW p \in Publishers, Publish(p) \/ Transmit(p) \/ Ack(p) PROVE Linked'
  BY <1>2 DEF Publish, Transmit, Ack, Linked
<1>3. ASSUME NEW p \in Publishers, PLost(p) PROVE Linked'
  BY <1>0, <1>3 DEF PLost, Unlink, Linked
<1>4. CASE Crash
  BY <1>0, <1>4 DEF Crash, Unlink, Linked
<1>5. CASE Subscriber \/ SLost \/ Stop \/ Recover
  BY <1>5 DEF Subscriber, SConnect, SLink, Subscribe, Handle, SLost, Stop, Recover, pubVars, Linked
<1> QED
  BY <1>1, <1>2, <1>3, <1>4, <1>5 DEF Next, Publisher, Library

\* What becomes of a publisher's queues when only its connection may go.
LEMMA QueuesKept ==
    ASSUME TypeOK, NEW q \in Publishers,
           readings'[q] = readings[q], out'[q] = out[q], handled'[q] = handled[q],
           flown'[q] \in {flown[q], 0},
           link'[q] = "up" => broker', link'[q] # "up" => flown'[q] = 0,
           \/ lost'[q] = lost[q] /\ faults' \in {faults, faults + 1}
           \/ lost'[q] = lost[q] + 1 /\ faults' = faults + 1
    PROVE  QueuesOK(q)'
<1>1. QueuesOK(q) /\ faults \in Nat
  BY TypeParts, Constants DEF StatesOK
<1>2. lost'[q] \in 0..faults'
  BY <1>1 DEF QueuesOK
<1>3. out[q] \in Seq(1..readings[q]) /\ Len(out[q]) \in Nat
  BY <1>1, LenProperties DEF QueuesOK
<1>4. flown'[q] \in 0..Len(out'[q])
  BY <1>1, <1>3 DEF QueuesOK
<1> QED
  BY <1>1, <1>2, <1>4 DEF QueuesOK

Queues == \A q \in Publishers : QueuesOK(q)

Rest == SessionOK /\ Queues /\ Maps /\ Known

LEMMA SeqGrows ==
    ASSUME NEW n \in Nat, NEW s \in Seq(1..n)
    PROVE  s \in Seq(1..(n + 1)) /\ s \in Seq(Nat) /\ Append(s, n + 1) \in Seq(1..(n + 1))
<1>1. s \in [1..Len(s) -> 1..n] /\ Len(s) \in Nat
  BY LenProperties
<1>2. \A i \in 1..Len(s) : s[i] \in 1..n /\ s[i] \in 1..(n + 1) /\ s[i] \in Nat
  BY <1>1
<1>3. s \in Seq(1..(n + 1)) /\ s \in Seq(Nat)
  BY <1>1, <1>2
<1> QED
  BY <1>3, AppendProperties

\* The connection is made or given up before anything was sent.
LEMMA ConnectRest ==
    ASSUME TypeInv, NEW p \in Publishers, PStart(p) \/ PConnect(p) \/ PWaited(p) \/ PLink(p)
    PROVE  Rest'
<1>1. /\ UNCHANGED <<broker, faults, readings, out, flown, lost, inbox, subs, up, handled>>
      /\ \A q \in Publishers : q # p => link'[q] = link[q]
  BY DEF PStart, PConnect, PWaited, PLink, Set, TypeInv, TypeOK, subVars
<1>2. \A q \in Publishers : QueuesOK(q)
  BY TypeParts DEF TypeInv
<1>3. ((link'[p] = "up" => broker) /\ flown[p] = 0) \/ link'[p] = link[p]
  BY <1>2 DEF PStart, PConnect, PWaited, PLink, Set, TypeInv, TypeOK, Linked, QueuesOK
<1>4. ASSUME NEW q \in Publishers PROVE QueuesOK(q)'
  BY <1>1, <1>2, <1>3, QueuesKept DEF TypeInv, QueuesOK
<1>5. SessionOK'
  BY <1>1, TypeParts DEF TypeInv, SessionOK
<1>6. Maps' /\ Known'
  BY <1>1 DEF TypeInv, Maps, Known
<1> QED
  BY <1>4, <1>5, <1>6 DEF Rest, Queues

LEMMA PublishRest ==
    ASSUME TypeInv, NEW p \in Publishers, Publish(p) PROVE Rest'
<1>1. UNCHANGED <<broker, faults, link, flown, lost, inbox, subs, up, handled>>
  BY DEF Publish, subVars
<1>2. /\ readings'[p] = readings[p] + 1 /\ readings[p] \in Nat
      /\ \A q \in Publishers : q # p => readings'[q] = readings[q]
  BY Constants DEF Publish, Set, TypeInv, TypeOK
<1>3. \/ out' = out
      \/ out' = [out EXCEPT ![p] = Append(out[p], readings[p] + 1)]
  BY DEF Publish, Set
<1>4. \A q \in Publishers : QueuesOK(q)
  BY TypeParts DEF TypeInv
<1>5. /\ out \in [Publishers -> Seq(Nat)]
      /\ out[p] \in Seq(1..readings[p]) /\ handled[p] \in Seq(1..readings[p])
  BY <1>4 DEF TypeInv, Maps, QueuesOK
<1>6. /\ out[p] \in Seq(1..(readings[p] + 1)) /\ handled[p] \in Seq(1..(readings[p] + 1))
      /\ Append(out[p], readings[p] + 1) \in Seq(1..(readings[p] + 1))
  BY <1>2, <1>5, SeqGrows
<1>7. Append(out[p], readings[p] + 1) \in Seq(Nat)
      /\ Len(Append(out[p], readings[p] + 1)) = Len(out[p]) + 1 /\ Len(out[p]) \in Nat
  BY <1>2, <1>5, AppendProperties, LenProperties
<1>8. out'[p] \in {out[p], Append(out[p], readings[p] + 1)}
      /\ \A q \in Publishers : q # p => out'[q] = out[q]
  BY <1>3, <1>5
<1>9. QueuesOK(p)'
  <2>1. flown[p] \in 0..Len(out'[p])
    BY <1>4, <1>7, <1>8 DEF QueuesOK
  <2>2. out'[p] \in Seq(1..readings'[p]) /\ handled'[p] \in Seq(1..readings'[p])
    BY <1>1, <1>2, <1>6, <1>8
  <2> QED
    BY <1>1, <1>4, <2>1, <2>2 DEF QueuesOK
<1>10. ASSUME NEW q \in Publishers, q # p PROVE QueuesOK(q)'
  BY <1>1, <1>2, <1>4, <1>8, <1>10 DEF QueuesOK
<1>11. SessionOK'
  BY <1>1, TypeParts DEF TypeInv, SessionOK
<1>12. Maps'
  BY <1>1, <1>3, <1>5, <1>7 DEF TypeInv, Maps
<1>13. Known'
  <2>1. ASSUME NEW j \in 1..Len(inbox) PROVE inbox[j][2] <= readings'[inbox[j][1]]
    <3>1. /\ inbox[j] \in Publishers \X (1..MaxReadings)
          /\ readings \in [Publishers -> 0..MaxReadings]
      BY ElementOfSeq DEF TypeInv, TypeOK
    <3>2. inbox[j][1] \in Publishers /\ inbox[j][2] \in Nat
          /\ readings[inbox[j][1]] \in Nat /\ inbox[j][2] <= readings[inbox[j][1]]
      BY <3>1, Constants DEF TypeInv, Known
    <3> QED
      BY <1>2, <3>2
  <2> QED
    BY <1>1, <2>1 DEF Known
<1> QED
  BY <1>9, <1>10, <1>11, <1>12, <1>13 DEF Rest, Queues

LEMMA ExitRest ==
    ASSUME TypeInv, NEW p \in Publishers, PExit(p) PROVE Rest'
<1>1. UNCHANGED <<broker, faults, readings, lost, inbox, subs, up, handled>>
  BY DEF PExit, subVars
<1>2. \A q \in Publishers : QueuesOK(q)
  BY TypeParts DEF TypeInv
<1>3. out' = [out EXCEPT ![p] = << >>] /\ flown' = [flown EXCEPT ![p] = 0]
      /\ link' = [link EXCEPT ![p] = "none"]
  BY DEF PExit, Set
<1>4. /\ out \in [Publishers -> Seq(Nat)] /\ flown \in [Publishers -> Nat]
      /\ link \in [Publishers -> {"none", "down", "up"}]
  BY DEF TypeInv, Maps, TypeOK
<1>5. << >> \in Seq(1..readings[p]) /\ << >> \in Seq(Nat) /\ Len(<< >>) = 0
  BY EmptySeq
<1>6. out'[p] = << >> /\ flown'[p] = 0 /\ link'[p] = "none"
      /\ \A q \in Publishers : q # p => out'[q] = out[q] /\ flown'[q] = flown[q] /\ link'[q] = link[q]
  BY <1>3, <1>4
<1>7. QueuesOK(p)'
  BY <1>1, <1>2, <1>5, <1>6 DEF QueuesOK
<1>8. ASSUME NEW q \in Publishers, q # p PROVE QueuesOK(q)'
  BY <1>1, <1>2, <1>6, <1>8 DEF QueuesOK
<1>9. SessionOK'
  BY <1>1, TypeParts DEF TypeInv, SessionOK
<1>10. Maps' /\ Known'
  BY <1>1, <1>3, <1>4, <1>5 DEF TypeInv, Maps, Known
<1> QED
  BY <1>7, <1>8, <1>9, <1>10 DEF Rest, Queues

\* Losing the publishers' connections in gone.
LEMMA UnlinkEffect ==
    ASSUME TypeInv, NEW gone, Unlink(gone)
    PROVE  /\ out' = out /\ flown' \in [Publishers -> Nat] /\ lost' \in [Publishers -> Nat]
           /\ \A q \in Publishers :
                /\ q \in gone => link'[q] = "down" /\ flown'[q] = 0 /\ lost'[q] = lost[q] + 1
                /\ q \notin gone => link'[q] = link[q] /\ flown'[q] = flown[q] /\ lost'[q] = lost[q]
<1>1. \A p \in Publishers : lost[p] \in Nat /\ lost[p] + 1 \in Nat /\ flown[p] \in Nat
  BY DEF TypeInv, Maps
<1>2. flown' \in [Publishers -> Nat]
  BY <1>1 DEF Unlink
<1>3. lost' \in [Publishers -> Nat]
  BY <1>1 DEF Unlink
<1> QED
  BY <1>2, <1>3 DEF Unlink

\* Losses of publishers' connections, and sessions that begin and end.
LEMMA LossRest ==
    ASSUME TypeInv, readings' = readings, handled' = handled,
           out' = out, flown' \in [Publishers -> Nat], lost' \in [Publishers -> Nat],
           \A q \in Publishers :
               /\ link'[q] = "up" => broker'
               /\ \/ /\ link'[q] = "down" /\ flown'[q] = 0
                     /\ lost'[q] = lost[q] + 1 /\ faults' = faults + 1
                  \/ /\ link'[q] = link[q] /\ flown'[q] = flown[q] /\ lost'[q] = lost[q]
                     /\ faults' \in {faults, faults + 1},
           \/ UNCHANGED <<subs, inbox>> /\ (up => up')
           \/ up /\ up' = up /\ inbox' = inbox /\ subs' \in 0..Len(Topics)
           \/ SessionEnds
    PROVE  Rest'
<1>1. \A q \in Publishers : QueuesOK(q)
  BY TypeParts DEF TypeInv
<1>4. ASSUME NEW q \in Publishers PROVE QueuesOK(q)'
  BY <1>1, QueuesKept DEF TypeInv, QueuesOK
<1>5. SessionOK'
  <2>1. << >> \in Seq(Publishers \X (1..MaxReadings)) /\ 0 \in 0..Len(Topics)
    BY EmptySeq, Constants
  <2>2. /\ subs \in 0..Len(Topics) /\ (~up => subs = 0 /\ inbox = << >>)
        /\ inbox \in Seq(Publishers \X (1..MaxReadings))
    BY DEF TypeInv, TypeOK
  <2>3. CASE UNCHANGED <<subs, inbox>> /\ (up => up')
    <3>1. subs' = subs /\ inbox' = inbox
      BY <2>3
    <3>2. ~up' => subs' = 0 /\ inbox' = << >>
      BY <2>2, <2>3, <3>1
    <3> QED
      BY <2>2, <3>1, <3>2 DEF SessionOK
  <2>4. CASE up /\ up' = up /\ inbox' = inbox /\ subs' \in 0..Len(Topics)
    BY <2>2, <2>4 DEF SessionOK
  <2>5. CASE SessionEnds
    BY <2>1, <2>5 DEF SessionOK, SessionEnds
  <2> QED
    BY <2>3, <2>4, <2>5
<1>6. Maps'
  BY DEF TypeInv, Maps
<1>7. Known'
  <2>1. CASE inbox' = inbox
    BY <2>1 DEF TypeInv, Known
  <2>2. CASE inbox' = << >>
    BY <2>2, EmptySeq DEF Known
  <2> QED
    BY <2>1, <2>2 DEF SessionEnds
<1> QED
  BY <1>4, <1>5, <1>6, <1>7 DEF Rest, Queues

LEMMA TransmitRest ==
    ASSUME TypeInv, NEW p \in Publishers, Transmit(p) PROVE Rest'
<1>1. UNCHANGED <<broker, faults, link, readings, out, lost, subs, up, handled>>
  BY DEF Transmit
<1>2. \A q \in Publishers : QueuesOK(q)
  BY TypeParts DEF TypeInv
<1>3. /\ flown' = [flown EXCEPT ![p] = flown[p] + 1] /\ flown \in [Publishers -> Nat]
      /\ flown[p] < Len(out[p]) /\ link[p] = "up" /\ out[p] \in Seq(1..readings[p])
      /\ Len(out[p]) \in Nat /\ readings[p] \in 0..MaxReadings
  <2>1. /\ flown' = [flown EXCEPT ![p] = flown[p] + 1]
        /\ flown[p] < Len(out[p]) /\ link[p] = "up"
    BY DEF Transmit, Set
  <2>2. flown \in [Publishers -> Nat] /\ readings[p] \in 0..MaxReadings
    BY DEF TypeInv, TypeOK, Maps
  <2>3. out[p] \in Seq(1..readings[p])
    BY <1>2 DEF QueuesOK
  <2>4. Len(out[p]) \in Nat
    BY <2>3, LenProperties
  <2> QED
    BY <2>1, <2>2, <2>3, <2>4
<1>4. flown'[p] = flown[p] + 1 /\ flown'[p] \in 0..Len(out[p])
      /\ \A q \in Publishers : q # p => flown'[q] = flown[q]
  BY <1>3
<1>5. ASSUME NEW q \in Publishers PROVE QueuesOK(q)'
  <2>1. CASE q = p
    BY <1>1, <1>2, <1>3, <1>4, <2>1 DEF QueuesOK
  <2>2. CASE q # p
    BY <1>1, <1>2, <1>4, <2>2 DEF QueuesOK
  <2> QED
    BY <2>1, <2>2
<1>6. Maps'
  <2>1. Maps
    BY DEF TypeInv
  <2>2. flown' \in [Publishers -> Nat]
    BY <1>3, <2>1 DEF Maps
  <2> QED
    BY <1>1, <2>1, <2>2 DEF Maps
<1> DEFINE n == out[p][flown[p] + 1]
<1>7. n \in 1..readings[p] /\ n \in 1..MaxReadings /\ n \in Nat
  <2> DEFINE o == out[p]
             i == flown[p] + 1
             k == readings[p]
  <2>1. i \in 1..Len(o) /\ o \in Seq(1..k) /\ k \in 0..MaxReadings /\ MaxReadings \in Nat
    BY <1>3, Constants
  <2> HIDE DEF o, i, k
  <2>2. o[i] \in 1..k
    BY <2>1, ElementOfSeq
  <2>3. 1..k \subseteq 1..MaxReadings /\ 1..k \subseteq Nat
    BY <2>1
  <2> QED
    BY <2>2, <2>3 DEF o, i, k
<1> HIDE DEF n
<1>8. /\ inbox \in Seq(Publishers \X (1..MaxReadings)) /\ <<p, n>> \in Publishers \X (1..MaxReadings)
      /\ Len(inbox) \in Nat
  BY <1>7, LenProperties DEF TypeInv, TypeOK
<1>9. CASE inbox' = inbox
  BY <1>1, <1>5, <1>6, <1>9, TypeParts DEF TypeInv, Rest, Queues, SessionOK, Known
<1>10. CASE inbox' = Append(inbox, <<p, n>>) /\ Subscribed(p)
  <2>1. up
    <3>1. subs >= 1 /\ subs \in Nat
      BY <1>10, Constants DEF Subscribed, TypeInv, TypeOK
    <3> QED
      BY <3>1 DEF TypeInv, TypeOK
  <2>2. /\ inbox' \in Seq(Publishers \X (1..MaxReadings)) /\ Len(inbox') = Len(inbox) + 1
        /\ \A i \in 1..Len(inbox) : inbox'[i] = inbox[i]
        /\ inbox'[Len(inbox) + 1] = <<p, n>>
    BY <1>8, <1>10, AppendProperties
  <2>3. SessionOK'
    BY <1>1, <2>1, <2>2, TypeParts DEF TypeInv, SessionOK
  <2>4. ASSUME NEW j \in 1..Len(inbox') PROVE inbox'[j][2] <= readings[inbox'[j][1]]
    <3>1. CASE j \in 1..Len(inbox)
      BY <2>2, <3>1 DEF TypeInv, Known
    <3>2. CASE j = Len(inbox) + 1
      BY <1>7, <2>2, <3>2
    <3> QED
      BY <1>8, <2>2, <3>1, <3>2
  <2>5. Known'
    BY <1>1, <2>4 DEF Known
  <2> QED
    BY <1>5, <1>6, <2>3, <2>5 DEF Rest, Queues
<1> QED
  BY <1>9, <1>10 DEF Transmit, n

LEMMA AckRest ==
    ASSUME TypeInv, NEW p \in Publishers, Ack(p) PROVE Rest'
<1>1. UNCHANGED <<broker, faults, link, readings, lost, subs, up, inbox, handled>>
  BY DEF Ack, subVars
<1>2. \A q \in Publishers : QueuesOK(q)
  BY TypeParts DEF TypeInv
<1>3. /\ flown' = [flown EXCEPT ![p] = flown[p] - 1] /\ flown \in [Publishers -> Nat]
      /\ out' = [out EXCEPT ![p] = Tail(out[p])] /\ out \in [Publishers -> Seq(Nat)]
      /\ flown[p] > 0 /\ flown[p] \in 0..Len(out[p]) /\ link[p] = "up"
      /\ out[p] \in Seq(1..readings[p]) /\ Len(out[p]) \in Nat
  BY <1>2 DEF Ack, Set, TypeInv, Maps, QueuesOK
<1>4. out[p] # << >>
  BY <1>3, EmptySeq
<1>5. Tail(out[p]) \in Seq(1..readings[p]) /\ Tail(out[p]) \in Seq(Nat)
      /\ Len(Tail(out[p])) = Len(out[p]) - 1
  BY <1>3, <1>4, HeadTailProperties
<1>6. /\ flown'[p] = flown[p] - 1 /\ out'[p] = Tail(out[p])
      /\ \A q \in Publishers : q # p => flown'[q] = flown[q] /\ out'[q] = out[q]
  BY <1>3
<1>7. flown'[p] \in 0..Len(out'[p]) /\ flown[p] - 1 \in Nat
  BY <1>3, <1>5, <1>6
<1>8. ASSUME NEW q \in Publishers PROVE QueuesOK(q)'
  <2>1. CASE q = p
    BY <1>1, <1>2, <1>3, <1>5, <1>6, <1>7, <2>1 DEF QueuesOK
  <2>2. CASE q # p
    BY <1>1, <1>2, <1>6, <2>2 DEF QueuesOK
  <2> QED
    BY <2>1, <2>2
<1>9. Maps'
  BY <1>1, <1>3, <1>5, <1>7 DEF TypeInv, Maps
<1>10. SessionOK' /\ Known'
  BY <1>1, TypeParts DEF TypeInv, SessionOK, Known
<1> QED
  BY <1>8, <1>9, <1>10 DEF Rest, Queues

LEMMA HandleRest ==
    ASSUME TypeInv, Handle PROVE Rest'
<1>1. UNCHANGED <<broker, faults, link, readings, out, flown, lost, subs, up>> /\ up
  BY DEF Handle, pubVars
<1>2. \A q \in Publishers : QueuesOK(q)
  BY TypeParts DEF TypeInv
<1>3. /\ inbox \in Seq(Publishers \X (1..MaxReadings)) /\ inbox # << >>
      /\ inbox' = Tail(inbox) /\ Len(inbox) \in Nat
  BY DEF Handle, TypeInv, TypeOK
<1>4. /\ Head(inbox) \in Publishers \X (1..MaxReadings) /\ Head(inbox) = inbox[1]
      /\ inbox' \in Seq(Publishers \X (1..MaxReadings)) /\ Len(inbox') = Len(inbox) - 1
      /\ \A i \in 1..Len(inbox') : inbox'[i] = inbox[i + 1]
  BY <1>3, HeadTailProperties
<1> DEFINE p == Head(inbox)[1]
<1> DEFINE n == Head(inbox)[2]
<1>5. Len(inbox) >= 1
  BY <1>3, EmptySeq
<1>6. p \in Publishers /\ n \in Nat /\ n \in 1..readings[p] /\ readings[p] \in Nat
  <2>1. p \in Publishers /\ n \in 1..MaxReadings
    BY <1>4
  <2>2. n <= readings[p]
    BY <1>4, <1>5 DEF TypeInv, Known
  <2>3. readings[p] \in 0..MaxReadings
    BY <2>1 DEF TypeInv, TypeOK
  <2> QED
    BY <2>1, <2>2, <2>3, Constants
<1>7. handled' = [handled EXCEPT ![p] = Append(handled[p], n)]
  BY DEF Handle, Set
<1> HIDE DEF p, n
<1>8. handled \in [Publishers -> Seq(Nat)] /\ handled[p] \in Seq(1..readings[p])
  BY <1>2, <1>6 DEF TypeInv, Maps, QueuesOK
<1>9. Append(handled[p], n) \in Seq(1..readings[p]) /\ Append(handled[p], n) \in Seq(Nat)
  BY <1>6, <1>8, AppendProperties
<1>10. ASSUME NEW q \in Publishers PROVE QueuesOK(q)'
  <2>1. handled'[q] \in Seq(1..readings[q])
    BY <1>2, <1>6, <1>7, <1>8, <1>9 DEF QueuesOK
  <2> QED
    BY <1>1, <1>2, <2>1 DEF QueuesOK
<1>11. Maps'
  BY <1>1, <1>7, <1>8, <1>9 DEF TypeInv, Maps
<1>12. SessionOK'
  BY <1>1, <1>4, TypeParts DEF TypeInv, SessionOK
<1>13. Known'
  <2>1. ASSUME NEW j \in 1..Len(inbox') PROVE inbox'[j][2] <= readings[inbox'[j][1]]
    <3>1. j + 1 \in 1..Len(inbox)
      BY <1>3, <1>4, <1>5
    <3> QED
      BY <1>4, <3>1 DEF TypeInv, Known
  <2> QED
    BY <1>1, <2>1 DEF Known
<1> QED
  BY <1>10, <1>11, <1>12, <1>13 DEF Rest, Queues

LEMMA TypeStep == ASSUME TypeInv, [Next]_vars PROVE TypeInv'
<1>0. TypeOK /\ Linked
  BY DEF TypeInv
<1>1. CASE UNCHANGED vars
  BY <1>1 DEF vars, pubVars, subVars, TypeInv, TypeOK, Maps, Linked, Known
<1>2. CASE Next
  <2>1. StatesOK' /\ Linked'
    BY <1>0, <1>2, StatesStep, LinkedStep
  <2>2. ASSUME NEW p \in Publishers, Publisher(p) \/ Library(p) PROVE Rest'
    BY <2>2, ConnectRest, PublishRest, ExitRest, TransmitRest, AckRest DEF Publisher, Library
  <2>3. ASSUME NEW p \in Publishers, PLost(p) PROVE Rest'
    <3>1. /\ faults' = faults + 1 /\ Unlink({p}) /\ broker' = broker
          /\ readings' = readings /\ handled' = handled /\ UNCHANGED <<subs, inbox>> /\ up' = up
      BY <2>3 DEF PLost, subVars
    <3>2. \A q \in Publishers : link[q] = "up" => broker
      BY <1>0 DEF TypeOK
    <3> QED
      BY <3>1, <3>2, UnlinkEffect, LossRest
  <2>4. ASSUME Crash PROVE Rest'
    <3> DEFINE gone == {p \in Publishers : link[p] = "up"}
    <3>1. /\ faults' = faults + 1 /\ Unlink(gone) /\ readings' = readings
          /\ handled' = handled /\ SessionEnds
      BY <2>4 DEF Crash
    <3>2. \A q \in Publishers : q \in gone \/ link[q] # "up"
      OBVIOUS
    <3> HIDE DEF gone
    <3>3. /\ out' = out /\ flown' \in [Publishers -> Nat] /\ lost' \in [Publishers -> Nat]
          /\ \A q \in Publishers :
               \/ link'[q] = "down" /\ flown'[q] = 0 /\ lost'[q] = lost[q] + 1
               \/ link'[q] = link[q] /\ link[q] # "up" /\ flown'[q] = flown[q] /\ lost'[q] = lost[q]
      BY <3>1, <3>2, UnlinkEffect
    <3>4. ASSUME NEW q \in Publishers
          PROVE  /\ link'[q] = "up" => broker'
                 /\ \/ /\ link'[q] = "down" /\ flown'[q] = 0
                       /\ lost'[q] = lost[q] + 1 /\ faults' = faults + 1
                    \/ /\ link'[q] = link[q] /\ flown'[q] = flown[q] /\ lost'[q] = lost[q]
                       /\ faults' \in {faults, faults + 1}
      BY <3>1, <3>3
    <3> QED
      BY <3>1, <3>3, <3>4, LossRest
  <2>5. ASSUME Handle PROVE Rest'
    BY <2>5, HandleRest
  <2>6. ASSUME SConnect \/ SLink \/ Subscribe \/ SLost \/ Stop \/ Recover
        PROVE  Rest'
    <3>1. /\ UNCHANGED <<link, readings, out, flown, lost, handled>>
          /\ faults' \in {faults, faults + 1} /\ (broker => broker')
      BY <2>6 DEF SConnect, SLink, Subscribe, SLost, Stop, Recover, pubVars, subVars
    <3>4. /\ flown' \in [Publishers -> Nat] /\ lost' \in [Publishers -> Nat]
          /\ \A q \in Publishers : link'[q] = "up" => broker'
      BY <1>0, <3>1 DEF TypeInv, Maps, TypeOK
    <3>2. subs < Len(Topics) => subs + 1 \in 0..Len(Topics)
      <4>1. subs \in 0..Len(Topics)
        BY DEF TypeInv, TypeOK
      <4>2. Len(Topics) \in Nat
        BY Constants
      <4> QED
        BY <4>1, <4>2
    <3>3. \/ UNCHANGED <<subs, inbox>> /\ (up => up')
          \/ up /\ up' = up /\ inbox' = inbox /\ subs' \in 0..Len(Topics)
          \/ SessionEnds
      BY <2>6, <3>2 DEF SConnect, SLink, Subscribe, SLost, Stop, Recover, subVars
    <3>5. ASSUME NEW q \in Publishers
          PROVE  /\ link'[q] = "up" => broker'
                 /\ \/ /\ link'[q] = "down" /\ flown'[q] = 0
                       /\ lost'[q] = lost[q] + 1 /\ faults' = faults + 1
                    \/ /\ link'[q] = link[q] /\ flown'[q] = flown[q] /\ lost'[q] = lost[q]
                       /\ faults' \in {faults, faults + 1}
      BY <3>1, <3>4
    <3> QED
      BY <3>1, <3>3, <3>4, <3>5, LossRest
  <2>7. Rest'
    BY <1>2, <2>2, <2>3, <2>4, <2>5, <2>6 DEF Next, Subscriber
  <2>8. TypeOK' <=> StatesOK' /\ SessionOK' /\ \A p \in Publishers : QueuesOK(p)'
    BY DEF TypeOK, StatesOK, SessionOK, QueuesOK
  <2> QED
    BY <2>1, <2>7, <2>8 DEF TypeInv, Rest, Queues
<1> QED
  BY <1>1, <1>2

LEMMA TypeAlways == Spec => []TypeInv
BY TypeInit, TypeStep, PTL DEF Spec

(***************************************************************************)
(* A publisher has a connection only while the broker is up, what it has   *)
(* in flight are messages it still keeps, and the broker keeps nothing for *)
(* a subscriber that is not connected.                                     *)
(***************************************************************************)
THEOREM TypeCorrect == Spec => []TypeOK
<1>1. TypeInv => TypeOK
  BY DEF TypeInv
<1> QED
  BY <1>1, TypeAlways, PTL

----------------------------------------------------------------------------
(* Going back once per loss *)

(***************************************************************************)
(* Each reading on its way to the handlers belongs to an epoch, the number *)
(* of losses of its publisher's connection before it was sent for the last *)
(* time.  Epochs are only in the proof: all that is needed is that there   *)
(* are some in which the readings, handled (h) and in the broker (q), are  *)
(* in the order of epochs, in each epoch in the order in which they were   *)
(* taken, and those of the present epoch l before all that are still to be *)
(* sent (those of o from f + 1 on).                                        *)
(***************************************************************************)
Before(c, x, d, y) == c < d \/ (c = d /\ x < y)

Epochs(p, h, q, l, o, f, e, g) ==
    /\ e \in [1..Len(h) -> 0..l] /\ g \in [1..Len(q) -> 0..l]
    /\ \A i, j \in 1..Len(h) : i < j => Before(e[i], h[i], e[j], h[j])
    /\ \A i \in 1..Len(h), j \in 1..Len(q) :
         q[j][1] = p => Before(e[i], h[i], g[j], q[j][2])
    /\ \A i, j \in 1..Len(q) :
         i < j /\ q[i][1] = p /\ q[j][1] = p => Before(g[i], q[i][2], g[j], q[j][2])
    /\ \A i \in 1..Len(h), k \in (f + 1)..Len(o) : Before(e[i], h[i], l, o[k])
    /\ \A j \in 1..Len(q), k \in (f + 1)..Len(o) :
         q[j][1] = p => Before(g[j], q[j][2], l, o[k])

InEpochs(p, h, q, l, o, f) == \E e, g : Epochs(p, h, q, l, o, f, e, g)

Entries == Publishers \X Nat

EpochInv ==
    \A p \in Publishers :
       /\ \A i, j \in 1..Len(out[p]) : i < j => out[p][i] < out[p][j]
       /\ InEpochs(p, handled[p], inbox, lost[p], out[p], flown[p])

LEMMA EpochsEmpty == ASSUME NEW p PROVE InEpochs(p, << >>, << >>, 0, << >>, 0)
<1>1. Len(<< >>) = 0 /\ 1..0 = {} /\ (0 + 1)..0 = {}
  BY EmptySeq
<1>2. << >> \in [1..0 -> 0..0]
  OBVIOUS
<1>3. Epochs(p, << >>, << >>, 0, << >>, 0, << >>, << >>)
  BY <1>1, <1>2 DEF Epochs
<1> QED
  BY <1>3 DEF InEpochs

\* Acknowledged, given up, or sent to nobody: less is still to be sent.
LEMMA EpochsLess ==
    ASSUME NEW p, NEW h, NEW q, NEW l, NEW o, NEW f, InEpochs(p, h, q, l, o, f), NEW o2, NEW f2,
           \A k \in (f2 + 1)..Len(o2) : \E m \in (f + 1)..Len(o) : o2[k] = o[m]
    PROVE  InEpochs(p, h, q, l, o2, f2)
<1>1. PICK e, g : Epochs(p, h, q, l, o, f, e, g)
  BY DEF InEpochs
<1>2. Epochs(p, h, q, l, o2, f2, e, g)
  BY <1>1 DEF Epochs
<1> QED
  BY <1>2 DEF InEpochs

\* A reading is published after all those on their way.
LEMMA EpochsPublish ==
    ASSUME NEW p, NEW h \in Seq(Nat), NEW q \in Seq(Entries), NEW l \in Nat, NEW o \in Seq(Nat),
           NEW f \in 0..Len(o), InEpochs(p, h, q, l, o, f), NEW n \in Nat,
           \A i \in 1..Len(h) : h[i] < n,
           \A j \in 1..Len(q) : q[j][1] = p => q[j][2] < n
    PROVE  InEpochs(p, h, q, l, Append(o, n), f)
<1>1. PICK e, g : Epochs(p, h, q, l, o, f, e, g)
  BY DEF InEpochs
<1> DEFINE o2 == Append(o, n)
<1>2. /\ Len(o) \in Nat /\ Len(o2) = Len(o) + 1 /\ o2[Len(o) + 1] = n
      /\ \A k \in 1..Len(o) : o2[k] = o[k]
  BY AppendProperties, LenProperties
<1> HIDE DEF o2
<1>3. \A k \in (f + 1)..Len(o2) :
        (k \in (f + 1)..Len(o) /\ o2[k] = o[k]) \/ o2[k] = n
  BY <1>2
<1>4. (\A i \in 1..Len(h) : e[i] \in 0..l) /\ \A j \in 1..Len(q) : g[j] \in 0..l
  BY <1>1 DEF Epochs
<1>5. /\ \A i \in 1..Len(h) : Before(e[i], h[i], l, n)
      /\ \A j \in 1..Len(q) : q[j][1] = p => Before(g[j], q[j][2], l, n)
  <2>1. \A c \in 0..l : \A x : x < n => Before(c, x, l, n)
    BY DEF Before
  <2> QED
    BY <1>4, <2>1
<1>6. Epochs(p, h, q, l, o2, f, e, g)
  BY <1>1, <1>3, <1>5 DEF Epochs
<1> QED
  BY <1>6 DEF InEpochs, o2

\* After a loss a new epoch begins, in which nothing has been sent.
LEMMA EpochsLoss ==
    ASSUME NEW p, NEW h, NEW q, NEW l \in Nat, NEW o, NEW f, InEpochs(p, h, q, l, o, f), NEW f2
    PROVE  InEpochs(p, h, q, l + 1, o, f2)
<1>1. PICK e, g : Epochs(p, h, q, l, o, f, e, g)
  BY DEF InEpochs
<1>2. e \in [1..Len(h) -> 0..(l + 1)] /\ g \in [1..Len(q) -> 0..(l + 1)]
  BY <1>1 DEF Epochs
<1>3. (\A i \in 1..Len(h) : e[i] < l + 1) /\ \A j \in 1..Len(q) : g[j] < l + 1
  <2>1. \A c \in 0..l : c < l + 1
    OBVIOUS
  <2>2. (\A i \in 1..Len(h) : e[i] \in 0..l) /\ \A j \in 1..Len(q) : g[j] \in 0..l
    BY <1>1 DEF Epochs
  <2> QED
    BY <2>1, <2>2
<1>4. Epochs(p, h, q, l + 1, o, f2, e, g)
  BY <1>1, <1>2, <1>3 DEF Epochs, Before
<1> QED
  BY <1>4 DEF InEpochs

\* The subscriber's session ends.
LEMMA EpochsSession ==
    ASSUME NEW p, NEW h, NEW q, NEW l, NEW o, NEW f, InEpochs(p, h, q, l, o, f)
    PROVE  InEpochs(p, h, << >>, l, o, f)
<1>1. PICK e, g : Epochs(p, h, q, l, o, f, e, g)
  BY DEF InEpochs
<1>2. Len(<< >>) = 0 /\ 1..0 = {} /\ << >> \in [1..0 -> 0..l]
  BY EmptySeq
<1>3. Epochs(p, h, << >>, l, o, f, e, << >>)
  BY <1>1, <1>2 DEF Epochs
<1> QED
  BY <1>3 DEF InEpochs

\* The broker gets a message, the next of p or another publisher's.
LEMMA EpochsSend ==
    ASSUME NEW p, NEW h \in Seq(Nat), NEW q \in Seq(Entries), NEW l \in Nat, NEW o \in Seq(Nat),
           NEW f \in 0..Len(o), InEpochs(p, h, q, l, o, f),
           \A i, j \in 1..Len(o) : i < j => o[i] < o[j],
           NEW x \in Entries, NEW f2 \in 0..Len(o),
           \/ x[1] = p /\ f < Len(o) /\ x[2] = o[f + 1] /\ f2 = f + 1
           \/ x[1] # p /\ f2 = f
    PROVE  InEpochs(p, h, Append(q, x), l, o, f2)
<1>1. PICK e, g : Epochs(p, h, q, l, o, f, e, g)
  BY DEF InEpochs
<1> DEFINE r == Append(q, x)
<1> DEFINE n == Len(q)
<1>2. /\ n \in Nat /\ Len(r) = n + 1 /\ r[n + 1] = x /\ \A i \in 1..n : r[i] = q[i]
  BY AppendProperties, LenProperties
<1>3. Len(o) \in Nat
  BY LenProperties
<1> HIDE DEF r, n
<1> DEFINE g2 == [j \in 1..(n + 1) |-> IF j = n + 1 THEN l ELSE g[j]]
<1>4. /\ e \in [1..Len(h) -> 0..l] /\ g \in [1..n -> 0..l]
      /\ \A i, j \in 1..Len(h) : i < j => Before(e[i], h[i], e[j], h[j])
  BY <1>1 DEF Epochs, n
<1>5. /\ g2 \in [1..(n + 1) -> 0..l] /\ g2[n + 1] = l
      /\ \A j \in 1..n : g2[j] = g[j]
  <2>0. n \in Nat /\ l \in Nat
    BY <1>2
  <2>1. l \in 0..l /\ n + 1 \in 1..(n + 1) /\ \A j \in 1..n : j \in 1..(n + 1) /\ j # n + 1
    BY <2>0
  <2>2. \A j \in 1..(n + 1) : j = n + 1 \/ j \in 1..n
    BY <2>0
  <2>3. \A j \in 1..n : g[j] \in 0..l
    BY <1>4
  <2> QED
    BY <2>1, <2>2, <2>3
<1> HIDE DEF g2
<1>6. \A j \in 1..(n + 1) :
         \/ j \in 1..n /\ r[j] = q[j] /\ g2[j] = g[j]
         \/ j = n + 1 /\ r[j] = x /\ g2[j] = l
  <2>1. \A j \in 1..(n + 1) : j = n + 1 \/ j \in 1..n
    BY <1>2
  <2> QED
    BY <1>2, <1>5, <2>1
<1>7. \A i \in 1..Len(h) : x[1] = p => Before(e[i], h[i], l, x[2])
  <2>1. x[1] = p => f + 1 \in (f + 1)..Len(o) /\ x[2] = o[f + 1]
    BY <1>3
  <2> QED
    BY <1>1, <2>1 DEF Epochs
<1>8. \A j \in 1..n : x[1] = p /\ q[j][1] = p => Before(g[j], q[j][2], l, x[2])
  <2>1. x[1] = p => f + 1 \in (f + 1)..Len(o) /\ x[2] = o[f + 1]
    BY <1>3
  <2> QED
    BY <1>1, <2>1 DEF Epochs, n
<1>9. \A k \in (f2 + 1)..Len(o) : k \in (f + 1)..Len(o) /\ (x[1] = p => x[2] < o[k])
  BY <1>3
<1>10. \A i \in 1..Len(h), j \in 1..(n + 1) : r[j][1] = p => Before(e[i], h[i], g2[j], r[j][2])
  <2>1. \A i \in 1..Len(h), j \in 1..n : q[j][1] = p => Before(e[i], h[i], g[j], q[j][2])
    BY <1>1 DEF Epochs, n
  <2> QED
    BY <1>6, <1>7, <2>1
<1>11. \A i, j \in 1..(n + 1) :
          i < j /\ r[i][1] = p /\ r[j][1] = p => Before(g2[i], r[i][2], g2[j], r[j][2])
  <2>1. \A i, j \in 1..n :
          i < j /\ q[i][1] = p /\ q[j][1] = p => Before(g[i], q[i][2], g[j], q[j][2])
    BY <1>1 DEF Epochs, n
  <2> SUFFICES ASSUME NEW i \in 1..(n + 1), NEW j \in 1..(n + 1), i < j, r[i][1] = p, r[j][1] = p
               PROVE  Before(g2[i], r[i][2], g2[j], r[j][2])
    OBVIOUS
  <2>2. i \in 1..n /\ r[i] = q[i] /\ g2[i] = g[i]
    BY <1>2, <1>6
  <2> QED
    BY <1>6, <1>8, <2>1, <2>2
<1>12. \A i \in 1..Len(h), k \in (f2 + 1)..Len(o) : Before(e[i], h[i], l, o[k])
  <2>1. \A i \in 1..Len(h), k \in (f + 1)..Len(o) : Before(e[i], h[i], l, o[k])
    BY <1>1 DEF Epochs
  <2> QED
    BY <1>9, <2>1
<1>13. \A j \in 1..(n + 1), k \in (f2 + 1)..Len(o) :
          r[j][1] = p => Before(g2[j], r[j][2], l, o[k])
  <2>1. \A j \in 1..n, k \in (f + 1)..Len(o) : q[j][1] = p => Before(g[j], q[j][2], l, o[k])
    BY <1>1 DEF Epochs, n
  <2> SUFFICES ASSUME NEW j \in 1..(n + 1), NEW k \in (f2 + 1)..Len(o), r[j][1] = p
               PROVE  Before(g2[j], r[j][2], l, o[k])
    OBVIOUS
  <2>2. CASE j \in 1..n /\ r[j] = q[j] /\ g2[j] = g[j]
    BY <1>9, <2>1, <2>2
  <2>3. CASE j = n + 1 /\ r[j] = x /\ g2[j] = l
    BY <1>9, <2>3 DEF Before
  <2> QED
    BY <1>6, <2>2, <2>3
<1>14. Epochs(p, h, r, l, o, f2, e, g2)
  BY <1>2, <1>4, <1>5, <1>10, <1>11, <1>12, <1>13 DEF Epochs
<1> QED
  BY <1>14 DEF InEpochs, r

\* Another publisher's message is handled.
LEMMA EpochsOther ==
    ASSUME NEW p, NEW h, NEW q \in Seq(Entries), NEW l, NEW o,
           NEW f, InEpochs(p, h, q, l, o, f), q # << >>
    PROVE  InEpochs(p, h, Tail(q), l, o, f)
<1>1. PICK e, g : Epochs(p, h, q, l, o, f, e, g)
  BY DEF InEpochs
<1> DEFINE r == Tail(q)
<1> DEFINE n == Len(r)
<1>2. /\ n \in Nat /\ Len(q) = n + 1 /\ \A i \in 1..n : r[i] = q[i + 1]
  BY HeadTailProperties, LenProperties, EmptySeq
<1> HIDE DEF r
<1> DEFINE g2 == [j \in 1..n |-> g[j + 1]]
<1>3. \A i \in 1..n : i + 1 \in 1..Len(q)
  BY <1>2
<1>4. g2 \in [1..n -> 0..l] /\ \A j \in 1..n : g2[j] = g[j + 1]
  BY <1>1, <1>3 DEF Epochs
<1> HIDE DEF g2, n
<1>5. \A i, j \in 1..n : i < j => i + 1 < j + 1
  BY <1>2
<1>6. \A i \in 1..n : r[i] = q[i + 1] /\ g2[i] = g[i + 1] /\ i + 1 \in 1..Len(q)
  BY <1>2, <1>3, <1>4 DEF n
<1>7. \A i \in 1..Len(h), j \in 1..n : r[j][1] = p => Before(e[i], h[i], g2[j], r[j][2])
  BY <1>1, <1>6 DEF Epochs
<1>8. \A i, j \in 1..n :
         i < j /\ r[i][1] = p /\ r[j][1] = p => Before(g2[i], r[i][2], g2[j], r[j][2])
  <2> SUFFICES ASSUME NEW i \in 1..n, NEW j \in 1..n, i < j, r[i][1] = p, r[j][1] = p
               PROVE  Before(g2[i], r[i][2], g2[j], r[j][2])
    OBVIOUS
  <2> DEFINE i2 == i + 1
  <2> DEFINE j2 == j + 1
  <2>1. /\ i2 \in 1..Len(q) /\ j2 \in 1..Len(q) /\ i2 < j2
        /\ r[i] = q[i2] /\ r[j] = q[j2] /\ g2[i] = g[i2] /\ g2[j] = g[j2]
    BY <1>5, <1>6
  <2> HIDE DEF i2, j2
  <2> QED
    BY <1>1, <2>1 DEF Epochs
<1>9. \A j \in 1..n, k \in (f + 1)..Len(o) : r[j][1] = p => Before(g2[j], r[j][2], l, o[k])
  BY <1>1, <1>6 DEF Epochs
<1>10. Epochs(p, h, r, l, o, f, e, g2)
  BY <1>1, <1>4, <1>7, <1>8, <1>9 DEF Epochs, n
<1> QED
  BY <1>10 DEF InEpochs, r

\* The next message of p is handled.
LEMMA EpochsHandle ==
    ASSUME NEW p, NEW h \in Seq(Nat), NEW q \in Seq(Entries), NEW l \in Nat, NEW o,
           NEW f, InEpochs(p, h, q, l, o, f), q # << >>, q[1][1] = p
    PROVE  InEpochs(p, Append(h, q[1][2]), Tail(q), l, o, f)
<1>1. PICK e, g : Epochs(p, h, q, l, o, f, e, g)
  BY DEF InEpochs
<1> DEFINE r == Tail(q)
<1> DEFINE n == Len(r)
<1> DEFINE y == q[1][2]
<1> DEFINE a == Append(h, y)
<1> DEFINE m == Len(h)
<1>2. /\ n \in Nat /\ Len(q) = n + 1 /\ \A i \in 1..n : r[i] = q[i + 1]
  BY HeadTailProperties, LenProperties, EmptySeq
<1>3. /\ 1 \in 1..Len(q) /\ q[1] \in Entries /\ y \in Nat
      /\ \A i \in 1..n : i + 1 \in 1..Len(q) /\ 1 < i + 1
  <2>1. 1 \in 1..Len(q) /\ \A i \in 1..n : i + 1 \in 1..Len(q) /\ 1 < i + 1
    BY <1>2
  <2>2. q[1] \in Entries
    BY <2>1, ElementOfSeq
  <2> QED
    BY <2>1, <2>2 DEF Entries
<1> HIDE DEF r, y
<1>4. /\ m \in Nat /\ Len(a) = m + 1 /\ a[m + 1] = y /\ \A i \in 1..m : a[i] = h[i]
  BY <1>3, AppendProperties, LenProperties
<1> HIDE DEF a, m
<1> DEFINE e2 == [i \in 1..(m + 1) |-> IF i = m + 1 THEN g[1] ELSE e[i]]
<1> DEFINE g2 == [j \in 1..n |-> g[j + 1]]
<1>5. e \in [1..m -> 0..l] /\ g \in [1..(n + 1) -> 0..l] /\ g[1] \in 0..l
  BY <1>1, <1>2, <1>3 DEF Epochs, m
<1>6. /\ e2 \in [1..(m + 1) -> 0..l] /\ e2[m + 1] = g[1] /\ \A i \in 1..m : e2[i] = e[i]
  BY <1>4, <1>5
<1>7. g2 \in [1..n -> 0..l] /\ \A j \in 1..n : g2[j] = g[j + 1]
  BY <1>2, <1>3, <1>5
<1> HIDE DEF e2, g2, n
<1>8. \A i \in 1..(m + 1) :
         \/ i \in 1..m /\ a[i] = h[i] /\ e2[i] = e[i]
         \/ i = m + 1 /\ a[i] = q[1][2] /\ e2[i] = g[1]
  BY <1>4, <1>6 DEF y
<1>9. \A i, j \in 1..(m + 1) : i < j => Before(e2[i], a[i], e2[j], a[j])
  <2> SUFFICES ASSUME NEW i \in 1..(m + 1), NEW j \in 1..(m + 1), i < j
               PROVE  Before(e2[i], a[i], e2[j], a[j])
    OBVIOUS
  <2>1. i \in 1..m /\ a[i] = h[i] /\ e2[i] = e[i]
    BY <1>4, <1>8
  <2>2. /\ \A k \in 1..m : i < k => Before(e[i], h[i], e[k], h[k])
        /\ Before(e[i], h[i], g[1], q[1][2])
    BY <1>1, <1>3, <2>1 DEF Epochs, m
  <2> QED
    BY <1>8, <2>1, <2>2
<1>10. \A i \in 1..(m + 1), j \in 1..n : r[j][1] = p => Before(e2[i], a[i], g2[j], r[j][2])
  <2> SUFFICES ASSUME NEW i \in 1..(m + 1), NEW j \in 1..n, r[j][1] = p
               PROVE  Before(e2[i], a[i], g2[j], r[j][2])
    OBVIOUS
  <2>1. /\ r[j] = q[j + 1] /\ g2[j] = g[j + 1] /\ j + 1 \in 1..Len(q) /\ 1 < j + 1
    BY <1>2, <1>3, <1>7 DEF n
  <2>2. CASE i \in 1..m /\ a[i] = h[i] /\ e2[i] = e[i]
    BY <1>1, <2>1, <2>2 DEF Epochs, m
  <2>3. CASE i = m + 1 /\ a[i] = q[1][2] /\ e2[i] = g[1]
    BY <1>1, <1>3, <2>1, <2>3 DEF Epochs
  <2> QED
    BY <1>8, <2>2, <2>3
<1>11. \A i, j \in 1..n :
          i < j /\ r[i][1] = p /\ r[j][1] = p => Before(g2[i], r[i][2], g2[j], r[j][2])
  <2>1. \A i, j \in 1..n : i < j => i + 1 < j + 1
    BY <1>2 DEF n
  <2>2. \A i \in 1..n : r[i] = q[i + 1] /\ g2[i] = g[i + 1] /\ i + 1 \in 1..Len(q)
    BY <1>2, <1>3, <1>7 DEF n
  <2> SUFFICES ASSUME NEW i \in 1..n, NEW j \in 1..n, i < j, r[i][1] = p, r[j][1] = p
               PROVE  Before(g2[i], r[i][2], g2[j], r[j][2])
    OBVIOUS
  <2> DEFINE i2 == i + 1
  <2> DEFINE j2 == j + 1
  <2>3. /\ i2 \in 1..Len(q) /\ j2 \in 1..Len(q) /\ i2 < j2
        /\ r[i] = q[i2] /\ r[j] = q[j2] /\ g2[i] = g[i2] /\ g2[j] = g[j2]
    BY <2>1, <2>2
  <2> HIDE DEF i2, j2
  <2> QED
    BY <1>1, <2>3 DEF Epochs
<1>12. \A i \in 1..(m + 1), k \in (f + 1)..Len(o) : Before(e2[i], a[i], l, o[k])
  BY <1>1, <1>3, <1>8 DEF Epochs, m
<1>13. \A j \in 1..n, k \in (f + 1)..Len(o) : r[j][1] = p => Before(g2[j], r[j][2], l, o[k])
  <2>2. \A i \in 1..n : r[i] = q[i + 1] /\ g2[i] = g[i + 1] /\ i + 1 \in 1..Len(q)
    BY <1>2, <1>3, <1>7 DEF n
  <2> SUFFICES ASSUME NEW j \in 1..n, NEW k \in (f + 1)..Len(o), r[j][1] = p
               PROVE  Before(g2[j], r[j][2], l, o[k])
    OBVIOUS
  <2> DEFINE i == j + 1
  <2>3. r[j] = q[i] /\ g2[j] = g[i] /\ i \in 1..Len(q)
    BY <2>2
  <2> HIDE DEF i, n
  <2>4. \A u \in 1..Len(q), v \in (f + 1)..Len(o) : q[u][1] = p => Before(g[u], q[u][2], l, o[v])
    BY <1>1 DEF Epochs
  <2> QED
    BY <2>3, <2>4
<1>14. Epochs(p, a, r, l, o, f, e2, g2)
  BY <1>4, <1>6, <1>7, <1>9, <1>10, <1>11, <1>12, <1>13 DEF Epochs, n
<1> QED
  BY <1>14 DEF InEpochs, a, r, y

\* The number of places where the handled readings go back is at most that of
\* the losses: each is a place where the epoch grows.
LEMMA BackwardsAreLosses ==
    ASSUME NEW p \in Publishers, NEW h \in Seq(Nat), NEW q, NEW l \in Nat, NEW o, NEW f,
           InEpochs(p, h, q, l, o, f)
    PROVE  Cardinality({i \in 1..(Len(h) - 1) : h[i + 1] <= h[i]}) <= l
<1> DEFINE B == {i \in 1..(Len(h) - 1) : h[i + 1] <= h[i]}
<1>1. PICK e, g : Epochs(p, h, q, l, o, f, e, g)
  BY DEF InEpochs
<1>2. Len(h) \in Nat /\ \A i \in 1..Len(h) : h[i] \in Nat
  BY LenProperties, ElementOfSeq
<1>3. \A i \in 1..Len(h) : e[i] \in 0..l /\ e[i] \in Nat
  <2>1. e \in [1..Len(h) -> 0..l]
    BY <1>1 DEF Epochs
  <2> QED
    BY <2>1
<1>4. \A i, j \in 1..Len(h) : i < j => Before(e[i], h[i], e[j], h[j])
  BY <1>1 DEF Epochs
<1>5. ASSUME NEW i \in B
      PROVE  i \in 1..Len(h) /\ i + 1 \in 1..Len(h) /\ i < i + 1 /\ h[i + 1] <= h[i]
  BY <1>2
<1>6. ASSUME NEW i \in 1..Len(h), NEW j \in 1..Len(h), i < j PROVE e[i] <= e[j]
  <2>1. Before(e[i], h[i], e[j], h[j])
    BY <1>4, <1>6
  <2>2. e[i] \in Nat /\ e[j] \in Nat
    BY <1>3
  <2> QED
    BY <2>1, <2>2 DEF Before
<1> DEFINE grow == [i \in B |-> e[i + 1]]
<1>7. ASSUME NEW i \in B PROVE e[i] < e[i + 1] /\ grow[i] = e[i + 1] /\ e[i + 1] \in 1..l
  <2> DEFINE k == i + 1
  <2>1. i \in 1..Len(h) /\ k \in 1..Len(h) /\ i < k /\ h[k] <= h[i]
    BY <1>5
  <2>2. grow[i] = e[k]
    OBVIOUS
  <2> HIDE DEF k, B
  <2>3. h[i] \in Nat /\ h[k] \in Nat /\ e[i] \in Nat /\ e[k] \in 0..l
    BY <1>2, <1>3, <2>1
  <2>4. Before(e[i], h[i], e[k], h[k])
    BY <1>4, <2>1
  <2>5. e[i] < e[k] /\ e[k] \in 1..l
    BY <2>1, <2>3, <2>4 DEF Before
  <2> QED
    BY <2>2, <2>5 DEF k
<1>8. ASSUME NEW i \in B, NEW j \in B, i < j PROVE grow[i] < grow[j]
  <2> DEFINE k == i + 1
  <2>1. k \in 1..Len(h) /\ j \in 1..Len(h) /\ (k = j \/ k < j)
    BY <1>2, <1>5, <1>8
  <2> HIDE DEF B, k
  <2>2. e[k] \in Nat /\ e[j] \in Nat /\ e[k] <= e[j]
    BY <1>3, <1>6, <2>1
  <2>3. e[j] < grow[j] /\ grow[i] = e[k] /\ grow[j] \in 1..l
    BY <1>7 DEF k
  <2> HIDE DEF grow
  <2> QED
    BY <2>2, <2>3
<1>9. grow \in [B -> 1..l]
  BY <1>7
<1>10. \A i \in B : i \in Nat
  BY <1>2
<1>11. \A i \in B : grow[i] \in Nat
  <2>1. \A i \in B : grow[i] \in 1..l
    BY <1>9
  <2> HIDE DEF grow, B
  <2> QED
    BY <2>1
<1> HIDE DEF grow, B
<1>12. ASSUME NEW i \in B, NEW j \in B, grow[i] = grow[j] PROVE i = j
  <2>1. i \in Nat /\ j \in Nat /\ grow[i] \in Nat /\ grow[j] \in Nat
    BY <1>10, <1>11
  <2>2. ~(i < j) /\ ~(j < i)
    BY <1>8, <1>12, <2>1
  <2> QED
    BY <2>1, <2>2
<1>13. grow \in Injection(B, 1..l)
  BY <1>9, <1>12 DEF Injection, IsInjective
<1>14. IsFiniteSet(1..l) /\ Cardinality(1..l) = l
  BY FS_Interval
<1>15. Cardinality(B) <= Cardinality(1..l)
  BY <1>13, <1>14, FS_Injection
<1> QED
  BY <1>14, <1>15 DEF B

\* The data of the lemmas above are those of the states.
LEMMA EpochData ==
    ASSUME TypeInv, NEW p \in Publishers
    PROVE  /\ handled[p] \in Seq(Nat) /\ inbox \in Seq(Entries) /\ lost[p] \in Nat
           /\ out[p] \in Seq(Nat) /\ flown[p] \in 0..Len(out[p]) /\ Len(out[p]) \in Nat
           /\ readings[p] \in Nat
           /\ \A i \in 1..Len(out[p]) : out[p][i] \in Nat /\ out[p][i] <= readings[p]
           /\ \A i \in 1..Len(handled[p]) : handled[p][i] <= readings[p]
           /\ \A j \in 1..Len(inbox) : inbox[j][1] = p => inbox[j][2] <= readings[p]
<1>1. handled[p] \in Seq(Nat) /\ lost[p] \in Nat /\ out[p] \in Seq(Nat)
  BY DEF TypeInv, Maps
<1>2. /\ flown[p] \in 0..Len(out[p]) /\ readings[p] \in 0..MaxReadings
      /\ out[p] \in Seq(1..readings[p]) /\ handled[p] \in Seq(1..readings[p])
  BY DEF TypeInv, TypeOK
<1>3. \A i \in 1..Len(out[p]) : out[p][i] \in 1..readings[p]
  BY <1>2, ElementOfSeq
<1>4. \A i \in 1..Len(handled[p]) : handled[p][i] \in 1..readings[p]
  BY <1>2, ElementOfSeq
<1>5. inbox \in Seq(Entries)
  <2>1. inbox \in Seq(Publishers \X (1..MaxReadings))
    BY DEF TypeInv, TypeOK
  <2>2. Publishers \X (1..MaxReadings) \subseteq Entries
    BY DEF Entries
  <2>3. inbox \in [1..Len(inbox) -> Publishers \X (1..MaxReadings)] /\ Len(inbox) \in Nat
    BY <2>1, LenProperties
  <2> QED
    BY <2>2, <2>3
<1>6. \A j \in 1..Len(inbox) : inbox[j][1] = p => inbox[j][2] <= readings[p]
  BY DEF TypeInv, Known
<1>7. Len(out[p]) \in Nat
  BY <1>1, LenProperties
<1>8. readings[p] \in Nat
  BY <1>2, Constants
<1> QED
  BY <1>1, <1>2, <1>3, <1>4, <1>5, <1>6, <1>7, <1>8

EpochOK(p) ==
    /\ \A i, j \in 1..Len(out[p]) : i < j => out[p][i] < out[p][j]
    /\ InEpochs(p, handled[p], inbox, lost[p], out[p], flown[p])

LEMMA EpochPublish ==
    ASSUME TypeInv, EpochInv, NEW p \in Publishers, Publish(p), NEW q \in Publishers
    PROVE  EpochOK(q)'
<1>1. /\ UNCHANGED <<flown, lost, inbox, handled>>
      /\ \/ out'[q] = out[q]
         \/ q = p /\ out'[q] = Append(out[q], readings[q] + 1)
  BY DEF Publish, Set, subVars, TypeInv, Maps
<1>2. EpochOK(q)
  BY DEF EpochInv, EpochOK
<1>3. CASE out'[q] = out[q]
  BY <1>1, <1>2, <1>3 DEF EpochOK
<1>4. CASE out'[q] = Append(out[q], readings[q] + 1)
  <2> DEFINE o == out[q]
  <2> DEFINE n == readings[q] + 1
  <2> DEFINE o2 == Append(o, n)
  <2>1. /\ o \in Seq(Nat) /\ Len(o) \in Nat /\ n \in Nat
        /\ \A i \in 1..Len(o) : o[i] \in Nat /\ o[i] < n
    BY EpochData
  <2>2. /\ \A i \in 1..Len(handled[q]) : handled[q][i] < n
        /\ \A j \in 1..Len(inbox) : inbox[j][1] = q => inbox[j][2] < n
    <3>1. \A i \in 1..Len(handled[q]) : handled[q][i] \in Nat
      BY EpochData, ElementOfSeq
    <3>2. \A j \in 1..Len(inbox) : inbox[j][2] \in Nat
      BY EpochData, ElementOfSeq DEF Entries
    <3>3. /\ \A i \in 1..Len(handled[q]) : handled[q][i] <= readings[q]
          /\ \A j \in 1..Len(inbox) : inbox[j][1] = q => inbox[j][2] <= readings[q]
          /\ readings[q] \in Nat
      BY EpochData
    <3> QED
      BY <3>1, <3>2, <3>3
  <2>3. \A i, j \in 1..Len(o) : i < j => o[i] < o[j]
    BY <1>2 DEF EpochOK
  <2> HIDE DEF n, o
  <2>4. /\ Len(o2) = Len(o) + 1 /\ o2[Len(o) + 1] = n /\ \A k \in 1..Len(o) : o2[k] = o[k]
    BY <2>1, AppendProperties
  <2> HIDE DEF o2
  <2>5. \A i, j \in 1..Len(o2) : i < j => o2[i] < o2[j]
    <3> SUFFICES ASSUME NEW i \in 1..Len(o2), NEW j \in 1..Len(o2), i < j PROVE o2[i] < o2[j]
      OBVIOUS
    <3>1. i \in 1..Len(o) /\ (j \in 1..Len(o) \/ j = Len(o) + 1)
      BY <2>1, <2>4
    <3> QED
      BY <2>1, <2>3, <2>4, <3>1
  <2>6. InEpochs(q, handled[q], inbox, lost[q], o2, flown[q])
    BY <1>2, <2>1, <2>2, EpochData, EpochsPublish DEF EpochOK, o, o2
  <2> QED
    BY <1>1, <1>4, <2>5, <2>6 DEF EpochOK, o, o2, n
<1> QED
  BY <1>1, <1>3, <1>4

LEMMA EpochTransmit ==
    ASSUME TypeInv, EpochInv, NEW p \in Publishers, Transmit(p), NEW q \in Publishers
    PROVE  EpochOK(q)'
<1> DEFINE x == <<p, out[p][flown[p] + 1]>>
<1>1. /\ UNCHANGED <<lost, out, handled>> /\ flown[p] < Len(out[p])
      /\ flown'[q] = IF q = p THEN flown[q] + 1 ELSE flown[q]
      /\ inbox' = inbox \/ inbox' = Append(inbox, x)
  BY DEF Transmit, Set, TypeInv, Maps
<1>2. EpochOK(q) /\ EpochOK(p)
  BY DEF EpochInv, EpochOK
<1>3. /\ flown[q] \in 0..Len(out[q]) /\ Len(out[q]) \in Nat /\ flown'[q] \in 0..Len(out[q])
      /\ flown[p] \in 0..Len(out[p]) /\ Len(out[p]) \in Nat
  BY <1>1, EpochData
<1>4. x \in Entries
  <2>1. flown[p] + 1 \in 1..Len(out[p])
    BY <1>1, <1>3
  <2> QED
    BY <2>1, EpochData DEF Entries
<1>5. x[1] = p /\ x[2] = out[p][flown[p] + 1]
  OBVIOUS
<1> HIDE DEF x
<1>6. CASE inbox' = inbox
  <2>1. \A k \in (flown'[q] + 1)..Len(out[q]) : k \in (flown[q] + 1)..Len(out[q])
    BY <1>1, <1>3
  <2>2. InEpochs(q, handled[q], inbox, lost[q], out[q], flown'[q])
    BY <1>2, <2>1, EpochsLess DEF EpochOK
  <2> QED
    BY <1>1, <1>2, <1>6, <2>2 DEF EpochOK
<1>7. CASE inbox' = Append(inbox, x)
  <2>1. \/ x[1] = q /\ flown[q] < Len(out[q]) /\ x[2] = out[q][flown[q] + 1]
           /\ flown'[q] = flown[q] + 1
        \/ x[1] # q /\ flown'[q] = flown[q]
    BY <1>1, <1>5
  <2>2. InEpochs(q, handled[q], Append(inbox, x), lost[q], out[q], flown'[q])
    BY <1>2, <1>3, <1>4, <2>1, EpochData, EpochsSend DEF EpochOK
  <2> QED
    BY <1>1, <1>2, <1>7, <2>2 DEF EpochOK
<1> QED
  BY <1>1, <1>6, <1>7

LEMMA EpochAck ==
    ASSUME TypeInv, EpochInv, NEW p \in Publishers, Ack(p), NEW q \in Publishers
    PROVE  EpochOK(q)'
<1>1. UNCHANGED <<lost, inbox, handled>>
  BY DEF Ack, subVars
<1>2. EpochOK(q)
  BY DEF EpochInv, EpochOK
<1>3. CASE q # p
  <2>1. out'[q] = out[q] /\ flown'[q] = flown[q]
    BY <1>3 DEF Ack, Set, TypeInv, Maps
  <2> QED
    BY <1>1, <1>2, <2>1 DEF EpochOK
<1>4. CASE q = p
  <2> DEFINE o == out[q]
  <2> DEFINE t == Tail(o)
  <2>1. out'[q] = t /\ flown'[q] = flown[q] - 1 /\ flown[q] > 0
    BY <1>4 DEF Ack, Set, TypeInv, Maps
  <2>2. o \in Seq(Nat) /\ Len(o) \in Nat /\ flown[q] \in 0..Len(o)
    BY EpochData
  <2>3. Len(o) >= 1 /\ o # << >>
    BY <2>1, <2>2, EmptySeq
  <2> HIDE DEF o
  <2>4. Len(t) = Len(o) - 1 /\ \A i \in 1..Len(t) : t[i] = o[i + 1]
    BY <2>2, <2>3, HeadTailProperties
  <2> HIDE DEF t
  <2>5. \A i, j \in 1..Len(t) : i < j => t[i] < t[j]
    <3>1. \A i \in 1..Len(t) : i + 1 \in 1..Len(o)
      BY <2>2, <2>4
    <3>2. \A i, j \in 1..Len(t) : i < j => i + 1 < j + 1
      BY <2>2, <2>4
    <3> SUFFICES ASSUME NEW i \in 1..Len(t), NEW j \in 1..Len(t), i < j PROVE t[i] < t[j]
      OBVIOUS
    <3> DEFINE i2 == i + 1
    <3> DEFINE j2 == j + 1
    <3>3. i2 \in 1..Len(o) /\ j2 \in 1..Len(o) /\ i2 < j2 /\ t[i] = o[i2] /\ t[j] = o[j2]
      BY <2>4, <3>1, <3>2
    <3> HIDE DEF i2, j2
    <3> QED
      BY <1>2, <3>3 DEF EpochOK, o
  <2>6. ASSUME NEW k \in (flown'[q] + 1)..Len(t)
        PROVE  \E m \in (flown[q] + 1)..Len(o) : t[k] = o[m]
    <3>1. k \in 1..Len(t) /\ k + 1 \in (flown[q] + 1)..Len(o)
      BY <2>1, <2>2, <2>4
    <3> QED
      BY <2>4, <3>1
  <2>7. InEpochs(q, handled[q], inbox, lost[q], t, flown'[q])
    BY <1>2, <2>6, EpochsLess DEF EpochOK, o
  <2> QED
    BY <1>1, <2>1, <2>5, <2>7 DEF EpochOK
<1> QED
  BY <1>3, <1>4

LEMMA EpochExit ==
    ASSUME TypeInv, EpochInv, NEW p \in Publishers, PExit(p), NEW q \in Publishers
    PROVE  EpochOK(q)'
<1>1. UNCHANGED <<lost, inbox, handled>>
  BY DEF PExit, subVars
<1>2. EpochOK(q)
  BY DEF EpochInv, EpochOK
<1>3. CASE q # p
  <2>1. out'[q] = out[q] /\ flown'[q] = flown[q]
    BY <1>3 DEF PExit, Set, TypeInv, Maps
  <2> QED
    BY <1>1, <1>2, <2>1 DEF EpochOK
<1>4. CASE q = p
  <2>1. out'[q] = << >> /\ flown'[q] = 0
    BY <1>4 DEF PExit, Set, TypeInv, Maps
  <2>2. Len(<< >>) = 0 /\ 1..0 = {} /\ (0 + 1)..0 = {}
    BY EmptySeq
  <2>3. InEpochs(q, handled[q], inbox, lost[q], << >>, 0)
    BY <1>2, <2>2, EpochsLess DEF EpochOK
  <2> QED
    BY <1>1, <2>1, <2>2, <2>3 DEF EpochOK
<1> QED
  BY <1>3, <1>4

LEMMA EpochHandle ==
    ASSUME TypeInv, EpochInv, Handle, NEW q \in Publishers
    PROVE  EpochOK(q)'
<1>1. UNCHANGED <<lost, out, flown>> /\ inbox # << >> /\ inbox' = Tail(inbox)
  BY DEF Handle, pubVars
<1>2. EpochOK(q)
  BY DEF EpochInv, EpochOK
<1>3. Head(inbox) = inbox[1] /\ inbox \in Seq(Entries)
  BY EpochData DEF Handle
<1>4. handled'[q] = IF inbox[1][1] = q THEN Append(handled[q], inbox[1][2]) ELSE handled[q]
  BY <1>3 DEF Handle, Set, TypeInv, Maps
<1>5. CASE inbox[1][1] = q
  <2>1. InEpochs(q, Append(handled[q], inbox[1][2]), Tail(inbox), lost[q], out[q], flown[q])
    BY <1>1, <1>2, <1>5, EpochData, EpochsHandle DEF EpochOK
  <2> QED
    BY <1>1, <1>2, <1>4, <1>5, <2>1 DEF EpochOK
<1>6. CASE inbox[1][1] # q
  <2>1. InEpochs(q, handled[q], Tail(inbox), lost[q], out[q], flown[q])
    BY <1>1, <1>2, <1>3, EpochsOther DEF EpochOK
  <2> QED
    BY <1>1, <1>2, <1>4, <1>6, <2>1 DEF EpochOK
<1> QED
  BY <1>5, <1>6

\* Losses, and whatever leaves readings and queues alone.
LEMMA EpochLoss ==
    ASSUME TypeInv, EpochInv, NEW q \in Publishers,
           out' = out, handled' = handled,
           lost'[q] = lost[q] + 1 \/ (lost'[q] = lost[q] /\ flown'[q] = flown[q]),
           inbox' = inbox \/ inbox' = << >>
    PROVE  EpochOK(q)'
<1>1. EpochOK(q) /\ lost[q] \in Nat
  BY EpochData DEF EpochInv, EpochOK
<1>2. InEpochs(q, handled[q], inbox, lost'[q], out[q], flown'[q])
  <2>1. InEpochs(q, handled[q], inbox, lost[q], out[q], flown[q])
    BY <1>1 DEF EpochOK
  <2>2. InEpochs(q, handled[q], inbox, lost[q] + 1, out[q], flown'[q])
    BY <1>1, <2>1, EpochsLoss
  <2> QED
    BY <2>1, <2>2
<1>3. InEpochs(q, handled[q], << >>, lost'[q], out[q], flown'[q])
  BY <1>2, EpochsSession
<1>4. InEpochs(q, handled[q], inbox', lost'[q], out[q], flown'[q])
  BY <1>2, <1>3
<1> QED
  BY <1>1, <1>4 DEF EpochOK

LEMMA EpochStep == ASSUME TypeInv, EpochInv, [Next]_vars PROVE EpochInv'
<1> SUFFICES ASSUME NEW q \in Publishers PROVE EpochOK(q)'
  BY DEF EpochInv, EpochOK
<1>1. ASSUME NEW p \in Publishers, Publish(p) \/ Transmit(p) \/ Ack(p) \/ PExit(p)
      PROVE  EpochOK(q)'
  BY <1>1, EpochPublish, EpochTransmit, EpochAck, EpochExit
<1>2. ASSUME NEW p \in Publishers, PStart(p) \/ PConnect(p) \/ PWaited(p) \/ PLink(p)
      PROVE  EpochOK(q)'
  <2>1. UNCHANGED <<out, handled, lost, flown, inbox>>
    BY <1>2 DEF PStart, PConnect, PWaited, PLink, subVars
  <2> QED
    BY <2>1, EpochLoss
<1>3. ASSUME NEW p \in Publishers, PLost(p) PROVE EpochOK(q)'
  <2>1. Unlink({p}) /\ UNCHANGED <<handled, inbox>>
    BY <1>3 DEF PLost, subVars
  <2> QED
    BY <2>1, UnlinkEffect, EpochLoss
<1>4. ASSUME Crash PROVE EpochOK(q)'
  <2>1. Unlink({p \in Publishers : link[p] = "up"}) /\ handled' = handled /\ inbox' = << >>
    BY <1>4 DEF Crash, SessionEnds
  <2> QED
    BY <2>1, UnlinkEffect, EpochLoss
<1>5. ASSUME SConnect \/ SLink \/ Subscribe \/ SLost \/ Stop \/ Recover \/ UNCHANGED vars
      PROVE  EpochOK(q)'
  <2>1. UNCHANGED <<out, handled, lost, flown>> /\ (inbox' = inbox \/ inbox' = << >>)
    BY <1>5 DEF SConnect, SLink, Subscribe, SLost, Stop, Recover, vars, pubVars, subVars,
       SessionEnds
  <2> QED
    BY <2>1, EpochLoss
<1> QED
  BY <1>1, <1>2, <1>3, <1>4, <1>5, EpochHandle DEF Next, Publisher, Library, Subscriber

LEMMA EpochInit == Init => EpochInv
<1> SUFFICES ASSUME Init, NEW p \in Publishers PROVE EpochOK(p)
  BY DEF EpochInv, EpochOK
<1>1. handled[p] = << >> /\ inbox = << >> /\ lost[p] = 0 /\ out[p] = << >> /\ flown[p] = 0
  BY DEF Init
<1>2. Len(<< >>) = 0 /\ 1..0 = {}
  BY EmptySeq
<1> QED
  BY <1>1, <1>2, EpochsEmpty DEF EpochOK

(***************************************************************************)
(* Through any crashes of the broker and losses of any connection, the     *)
(* handled readings of a publisher go back at most once for each loss of   *)
(* its own connection, and never for one of the subscriber's.              *)
(***************************************************************************)
THEOREM BackAtMostOncePerLoss == Spec => []BackOncePerLoss
<1> DEFINE IInv == TypeInv /\ EpochInv
<1>1. Init => IInv
  BY TypeInit, EpochInit
<1>2. IInv /\ [Next]_vars => IInv'
  BY TypeStep, EpochStep
<1>3. IInv => BackOncePerLoss
  BY EpochData, BackwardsAreLosses DEF EpochInv, BackOncePerLoss, Backwards
<1> HIDE DEF IInv
<1> QED
  BY <1>1, <1>2, <1>3, PTL DEF Spec


----------------------------------------------------------------------------
(* The thread that ended at its first connect *)

(***************************************************************************)
(* Only a thread in its loop is connected, and one that was not yet in it, *)
(* or is over without stop(), has handled nothing.                         *)
(***************************************************************************)
Nothing == \A p \in Publishers : handled[p] = << >>

EndInv ==
    /\ up => spc = "loop"
    /\ spc = "start" \/ Deaf => Nothing

LEMMA EndStep ==
    ASSUME EndInv, [Next]_vars
    PROVE  EndInv' /\ (Deaf => spc' = "dead" /\ handled' = handled)
<1>1. CASE SConnect
  BY <1>1 DEF SConnect, EndInv, Deaf, Nothing
<1>2. CASE SLink
  BY <1>2 DEF SLink, EndInv, Deaf, Nothing
<1>3. CASE Handle
  BY <1>3 DEF Handle, EndInv, Deaf, Nothing
<1>4. CASE Stop
  BY <1>4 DEF Stop, SessionEnds, EndInv, Deaf, Nothing
<1>5. CASE SLost \/ Crash
  BY <1>5 DEF SLost, Crash, SessionEnds, EndInv, Deaf, Nothing
<1>6. CASE \/ \E p \in Publishers : Publisher(p) \/ Library(p) \/ PLost(p)
           \/ Subscribe \/ Recover \/ UNCHANGED vars
  <2>1. UNCHANGED <<running, spc, up, handled>>
    BY <1>6 DEF Publisher, Library, PStart, PConnect, PWaited, Publish, PExit, PLink, Transmit,
       Ack, PLost, Subscribe, Recover, vars, subVars
  <2> QED
    BY <2>1 DEF EndInv, Deaf, Nothing
<1> QED
  BY <1>1, <1>2, <1>3, <1>4, <1>5, <1>6 DEF Next, Subscriber

(* Only the first connect ends the subscriber's thread without stop(): a     *)
(* thread so ended has handled no reading, and never goes on.  The safety    *)
(* half of ComesBack.                                                        *)
THEOREM EndedForGood ==
    Spec => /\ [](Deaf => Nothing)
            /\ [][Deaf => spc' = "dead" /\ handled' = handled]_vars
<1>1. Init => EndInv
  BY DEF Init, EndInv, Deaf, Nothing
<1>2. EndInv /\ [Next]_vars => EndInv'
  BY EndStep
<1>3. EndInv => (Deaf => Nothing)
  BY DEF EndInv
<1>4. EndInv /\ [Next]_vars => [Deaf => spc' = "dead" /\ handled' = handled]_vars
  BY EndStep
<1> QED
  BY <1>1, <1>2, <1>3, <1>4, PTL DEF Spec
=============================================================================
