---------------------------- MODULE PacketChannel ----------------------------
(***************************************************************************)
(* What a link from a device to the gateway promises, whatever carries it: *)
(* packets may be lost, but none arrives twice, none arrives that was not  *)
(* sent as a whole, and those of one stream (a connection, an opened FIFO) *)
(* arrive in the order in which they were sent.                            *)
(***************************************************************************)
EXTENDS Naturals, Sequences, SequencesExt

CONSTANT Streams    \* the streams a packet can arrive on

VARIABLES
    sent,       \* number of packets sent
    arrived     \* the packets that arrived, by stream

Init ==
    /\ sent = 0
    /\ arrived = [c \in Streams |-> << >>]

Send ==
    /\ sent' = sent + 1
    /\ UNCHANGED arrived

Deliver(c, p) ==
    /\ \A d \in Streams : ~Contains(arrived[d], p)
    /\ \A i \in DOMAIN arrived[c] : arrived[c][i] < p
    /\ arrived' = [arrived EXCEPT ![c] = Append(@, p)]
    /\ UNCHANGED sent

Next == Send \/ \E c \in Streams : \E p \in 1..sent : Deliver(c, p)

Spec == Init /\ [][Next]_<<sent, arrived>>
=============================================================================
