------------------------------- MODULE MqttLink -------------------------------
(***************************************************************************)
(* Readings on their way through the MQTT broker: the publishers in the    *)
(* device programs (Embedded/mqtt_client.c with libmosquitto), a broker    *)
(* that may be away, and the gateway's MQTTSubscriber                      *)
(* (Gateway/mqtt_subscriber.py with paho).  What a handler does with a     *)
(* message is in DBWriter.                                                 *)
(*                                                                         *)
(* Everything is QoS 1 with clean sessions: a publisher's library sends    *)
(* again after a reconnect what was not acknowledged, and the broker       *)
(* forgets a subscriber that is not connected.  The readings of a          *)
(* publisher are numbered.                                                 *)
(***************************************************************************)
EXTENDS Naturals, Sequences, SequencesExt, FiniteSets

CONSTANTS
    Topics,         \* the topics in the order of their subscription
    Publishers,     \* those somebody publishes to
    MaxReadings,    \* bound: readings of a publisher
    MaxStarts,      \* bound: times a publisher is started
    MaxFaults       \* bound: connections lost and brokers crashed

ASSUME TopicsAssumption == Topics \in Seq(STRING) /\ IsInjective(Topics)
ASSUME PublishersAssumption == Publishers \subseteq Range(Topics)
ASSUME BoundAssumption == MaxReadings \in Nat /\ MaxStarts \in Nat /\ MaxFaults \in Nat

VARIABLES
    broker,     \* whether the broker is up
    faults,     \* connections lost and brokers crashed so far
    pc,         \* what each publisher does next
    link,       \* its connection: the library keeps none, it is down, or up
    starts,     \* times it was started
    readings,   \* readings it has taken
    out,        \* those published and not acknowledged
    flown,      \* how many of these the broker has, from this connection
    lost,       \* history: times its connection was lost
    running,    \* MQTTSubscriber.running
    spc,        \* what the subscriber's thread does next
    up,         \* whether it is connected
    subs,       \* how many topics it is subscribed to
    inbox,      \* messages the broker has for it
    handled     \* the readings handled, by publisher

pubVars == <<pc, link, starts, readings, out, flown, lost>>
subVars == <<running, spc, up, subs, inbox, handled>>
vars == <<broker, faults, pubVars, subVars>>

Subscribed(p) == \E i \in 1..subs : Topics[i] = p

Init ==
    /\ broker \in BOOLEAN /\ faults = 0
    /\ pc = [p \in Publishers |-> "off"]
    /\ link = [p \in Publishers |-> "none"]
    /\ starts = [p \in Publishers |-> 0]
    /\ readings = [p \in Publishers |-> 0]
    /\ out = [p \in Publishers |-> << >>]
    /\ flown = [p \in Publishers |-> 0]
    /\ lost = [p \in Publishers |-> 0]
    /\ running = TRUE /\ spc = "start" /\ up = FALSE /\ subs = 0
    /\ inbox = << >>
    /\ handled = [p \in Publishers |-> << >>]

Set(f, p, v) == f' = [f EXCEPT ![p] = v]

----------------------------------------------------------------------------
(* A publisher and its library's thread *)

\* mqtt_init: a client of its own, nothing in its queue.
PStart(p) ==
    /\ pc[p] = "off" /\ starts[p] < MaxStarts
    /\ Set(starts, p, starts[p] + 1)
    /\ Set(pc, p, "connect")
    /\ UNCHANGED <<broker, faults, link, readings, out, flown, lost, subVars>>

\* mosquitto_connect: without a broker the device goes on without MQTT.
PConnect(p) ==
    /\ pc[p] = "connect"
    /\ Set(pc, p, IF broker THEN "wait" ELSE "quiet")
    /\ Set(link, p, IF broker THEN "down" ELSE "none")
    /\ UNCHANGED <<broker, faults, starts, readings, out, flown, lost, subVars>>

\* The five seconds are over, or it is connected before; if not the device goes
\* on without MQTT, and that the library connects later makes no difference.
PWaited(p) ==
    /\ pc[p] = "wait"
    /\ Set(pc, p, IF link[p] = "up" THEN "loop" ELSE "quiet")
    /\ Set(link, p, IF link[p] = "up" THEN "up" ELSE "none")
    /\ UNCHANGED <<broker, faults, starts, readings, out, flown, lost, subVars>>

\* mqtt_publish_*: refused unless connected.
Publish(p) ==
    /\ pc[p] = "loop" /\ readings[p] < MaxReadings
    /\ Set(readings, p, readings[p] + 1)
    /\ IF link[p] = "up" THEN Set(out, p, Append(out[p], readings[p] + 1))
                         ELSE UNCHANGED out
    /\ UNCHANGED <<broker, faults, pc, link, starts, flown, lost, subVars>>

\* mqtt_disconnect, or the process is killed.
PExit(p) ==
    /\ pc[p] # "off"
    /\ Set(pc, p, "off")
    /\ Set(link, p, "none")
    /\ Set(out, p, << >>)
    /\ Set(flown, p, 0)
    /\ UNCHANGED <<broker, faults, starts, readings, lost, subVars>>

\* The library connects, again if need be, and on_connect is called.
PLink(p) ==
    /\ link[p] = "down" /\ broker
    /\ Set(link, p, "up")
    /\ UNCHANGED <<broker, faults, pc, starts, readings, out, flown, lost, subVars>>

\* Mutant of Transmit: the same message again, without a reconnect.
TransmitAgain(p) ==
    /\ link[p] = "up" /\ out[p] # << >>
    /\ inbox' = IF Subscribed(p) THEN Append(inbox, <<p, Head(out[p])>>) ELSE inbox
    /\ UNCHANGED <<broker, faults, pubVars, running, spc, up, subs, handled>>

\* The broker gets the next message and has it for whoever is subscribed.
Transmit(p) ==
    /\ link[p] = "up" /\ flown[p] < Len(out[p])
    /\ Set(flown, p, flown[p] + 1)
    /\ inbox' = IF Subscribed(p)
                THEN Append(inbox, <<p, out[p][flown[p] + 1]>>) ELSE inbox
    /\ UNCHANGED <<broker, faults, pc, link, starts, readings, out, lost,
                   running, spc, up, subs, handled>>

\* The broker's acknowledgement arrives.
Ack(p) ==
    /\ link[p] = "up" /\ flown[p] > 0
    /\ Set(out, p, Tail(out[p]))
    /\ Set(flown, p, flown[p] - 1)
    /\ UNCHANGED <<broker, faults, pc, link, starts, readings, lost, subVars>>

\* Mutant of Unlink: QoS 0, nothing is kept for the next connection.
UnlinkForgets(gone) ==
    /\ link' = [p \in Publishers |-> IF p \in gone THEN "down" ELSE link[p]]
    /\ flown' = [p \in Publishers |-> IF p \in gone THEN 0 ELSE flown[p]]
    /\ out' = [p \in Publishers |-> IF p \in gone THEN << >> ELSE out[p]]
    /\ lost' = [p \in Publishers |-> IF p \in gone THEN lost[p] + 1 ELSE lost[p]]

\* on_disconnect of the publishers in gone: what was not acknowledged will be
\* sent again.
Unlink(gone) ==
    /\ link' = [p \in Publishers |-> IF p \in gone THEN "down" ELSE link[p]]
    /\ flown' = [p \in Publishers |-> IF p \in gone THEN 0 ELSE flown[p]]
    /\ lost' = [p \in Publishers |-> IF p \in gone THEN lost[p] + 1 ELSE lost[p]]
    /\ UNCHANGED out

PLost(p) ==
    /\ link[p] = "up" /\ faults < MaxFaults
    /\ faults' = faults + 1
    /\ Unlink({p})
    /\ UNCHANGED <<broker, pc, starts, readings, subVars>>

----------------------------------------------------------------------------
(* MQTTSubscriber *)

\* _run: the first connect is tried once.
SConnect ==
    /\ spc = "start"
    /\ spc' = IF broker THEN "loop" ELSE "dead"
    /\ UNCHANGED <<broker, faults, pubVars, running, up, subs, inbox, handled>>

\* loop_forever connects, again if need be, with a new session.
SLink ==
    /\ spc = "loop" /\ ~up /\ broker
    /\ up' = TRUE
    /\ UNCHANGED <<broker, faults, pubVars, running, spc, subs, inbox, handled>>

\* Mutant of Subscribe: only before the first loss.
SubscribeOnce ==
    /\ up /\ subs < Len(Topics) /\ faults = 0
    /\ subs' = subs + 1
    /\ UNCHANGED <<broker, faults, pubVars, running, spc, up, inbox, handled>>

\* Mutant of Subscribe: one topic too many.
SubscribeMore ==
    /\ up /\ subs <= Len(Topics)
    /\ subs' = subs + 1
    /\ UNCHANGED <<broker, faults, pubVars, running, spc, up, inbox, handled>>

\* _on_connect: the subscriptions reach the broker one after the other.
Subscribe ==
    /\ up /\ subs < Len(Topics)
    /\ subs' = subs + 1
    /\ UNCHANGED <<broker, faults, pubVars, running, spc, up, inbox, handled>>

\* _on_message.
Handle ==
    /\ up /\ inbox # << >>
    /\ LET p == Head(inbox)[1]
       IN  Set(handled, p, Append(handled[p], Head(inbox)[2]))
    /\ inbox' = Tail(inbox)
    /\ UNCHANGED <<broker, faults, pubVars, running, spc, up, subs>>

\* The end of a session: the broker forgets subscriptions and messages.
SessionEnds == up' = FALSE /\ subs' = 0 /\ inbox' = << >>

SLost ==
    /\ up /\ faults < MaxFaults
    /\ faults' = faults + 1
    /\ SessionEnds
    /\ UNCHANGED <<broker, pubVars, running, spc, handled>>

\* stop(): disconnect ends the loop; before the first connect it has no effect,
\* and none either when a reconnect has just begun.
Stop ==
    /\ running
    /\ running' = FALSE
    /\ spc' \in IF spc = "loop" THEN IF up THEN {"dead"} ELSE {"loop", "dead"}
                                ELSE {spc}
    /\ SessionEnds
    /\ UNCHANGED <<broker, faults, pubVars, handled>>

----------------------------------------------------------------------------
(* The broker *)

Crash ==
    /\ broker /\ faults < MaxFaults
    /\ broker' = FALSE
    /\ faults' = faults + 1
    /\ Unlink({p \in Publishers : link[p] = "up"})
    /\ SessionEnds
    /\ UNCHANGED <<pc, starts, readings, running, spc, handled>>

Recover ==
    /\ ~broker
    /\ broker' = TRUE
    /\ UNCHANGED <<faults, pubVars, subVars>>

Library(p) == PLink(p) \/ Transmit(p) \/ Ack(p)
Publisher(p) == PStart(p) \/ PConnect(p) \/ PWaited(p) \/ Publish(p) \/ PExit(p)
Subscriber == SConnect \/ SLink \/ Subscribe \/ Handle

Next ==
    \/ \E p \in Publishers : Publisher(p) \/ Library(p) \/ PLost(p)
    \/ Subscriber \/ SLost \/ Stop
    \/ Crash \/ Recover

Spec == Init /\ [][Next]_vars

\* The libraries' threads run, and so does the subscriber's.  Nothing is
\* assumed of the broker, the publishers, or that stop() is called.
FairSpec ==
    /\ Spec
    /\ \A p \in Publishers : WF_vars(Library(p))
    /\ WF_vars(SConnect \/ SLink \/ Subscribe) /\ WF_vars(Handle)

----------------------------------------------------------------------------
(* Properties *)

\* Type invariant.
TypeOK ==
    /\ broker \in BOOLEAN /\ faults \in 0..MaxFaults
    /\ pc \in [Publishers -> {"off", "connect", "wait", "loop", "quiet"}]
    /\ link \in [Publishers -> {"none", "down", "up"}]
    /\ starts \in [Publishers -> 0..MaxStarts]
    /\ readings \in [Publishers -> 0..MaxReadings]
    /\ running \in BOOLEAN /\ spc \in {"start", "loop", "dead"} /\ up \in BOOLEAN
    /\ subs \in 0..Len(Topics) /\ (~up => subs = 0 /\ inbox = << >>)
    /\ inbox \in Seq(Publishers \X (1..MaxReadings))
    /\ \A p \in Publishers :
         /\ out[p] \in Seq(1..readings[p]) /\ flown[p] \in 0..Len(out[p])
         /\ lost[p] \in 0..faults /\ handled[p] \in Seq(1..readings[p])
         /\ link[p] = "up" => broker
         /\ link[p] # "up" => flown[p] = 0

\* Places where the handled readings of p do not go forward.
Backwards(p) ==
    {i \in 1..(Len(handled[p]) - 1) : handled[p][i + 1] <= handled[p][i]}

\* A publisher's readings are handled in order and once, except that each loss
\* of its connection makes them go back at most once: what a reader of the time
\* series has to expect, and what no loss on the subscriber's side adds to.
BackOncePerLoss == \A p \in Publishers : Cardinality(Backwards(p)) <= lost[p]

\* The subscriber's thread has ended although nobody called stop().
Deaf == spc = "dead" /\ running

\* After a loss, of the broker or of the connection, a subscriber that had
\* got as far as its loop subscribes to every topic again, as long as the
\* broker is there.  Only the first connect can end its thread for good: a
\* thread that is over without stop() has handled nothing, and though the broker
\* comes and readings are published it never will.
ComesBack ==
    /\ (spc = "loop" /\ broker) ~> (subs = Len(Topics) \/ ~broker \/ ~running)
    /\ [](Deaf => \A p \in Publishers : handled[p] = << >>)
    /\ [][Deaf => spc' = "dead" /\ handled' = handled]_vars

\* A reading the broker does not have yet is handled, through any number of
\* losses of the publisher's connection, unless the publisher ends or the
\* subscription does.
PublishedIsHandled ==
    \A p \in Publishers : \A n \in 1..MaxReadings :
        (Subscribed(p) /\ \E i \in (flown[p] + 1)..Len(out[p]) : out[p][i] = n)
            ~> (Contains(handled[p], n) \/ ~Subscribed(p) \/ pc[p] = "off")
=============================================================================
