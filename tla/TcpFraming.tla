------------------------------ MODULE TcpFraming ------------------------------
(***************************************************************************)
(* How packets travel from a device to the gateway over TCP, and how a     *)
(* ClientHandler cuts the byte stream back into packets                    *)
(* (Gateway/network.py, Gateway/protocol.py and the devices' send loops).  *)
(*                                                                         *)
(* The stream is counted in words of four bytes: a V1 packet is 5 words, a *)
(* V2 packet 8, and the handler reads 5 words, or 3 more when it takes the *)
(* packet for V2.  TCP delivers the words of a connection in order, in     *)
(* pieces of any size, and a connection that breaks loses the end of what  *)
(* was sent.  What a word contains matters only where the handler looks at *)
(* its first two bytes, as a type and a version, and where it computes a   *)
(* checksum over a block that is no packet; both are free choices there.   *)
(*                                                                         *)
(* A device has one connection at a time, but the thread of an old one may *)
(* still be reading when the next is served.                               *)
(***************************************************************************)
EXTENDS Naturals, Sequences, SequencesExt

CONSTANTS
    MaxConns,       \* bound: connections the device opens
    MaxPackets      \* bound: packets it packs

ASSUME BoundAssumption == MaxConns \in Nat \ {0} /\ MaxPackets \in Nat

VARIABLES
    wire,       \* words in a packet of this device
    packed,     \* packets packed so far
    conns,      \* connections opened so far
    link,       \* the connection it sends on, 0 for none
    first,      \* number of the first packet sent on each connection
    sent,       \* words the network has taken from the device
    got,        \* words _recv_exact has returned or holds
    start,      \* where in the stream the current data starts
    need,       \* words it asks for
    serving,    \* connections with a running handler
    misread,    \* history: connections where a packet was taken for V2
    log         \* what each handler has put into the buffer

deviceVars == <<wire, packed, conns, link, first, sent>>
handlerVars == <<got, start, need, serving, misread, log>>
vars == <<deviceVars, handlerVars>>

V1 == 5
V2 == 8
Conns == 1..MaxConns

\* The words whose first bytes can be a type in 0..3 followed by a 2: the
\* timestamp, the floats, and the type and checksum of a V1 packet.  The
\* letters of a device name cannot, and the type of HVAC_STATE is 4.
CanLookV2(w) == IF w = V1 THEN {2, 3, 4} ELSE {2, 4, 5, 6, 7}

\* The packet, and the word in it, of the i-th word of connection c.
PacketAt(c, i) == first[c] + (i \div wire)
OffsetAt(i) == i % wire

\* What a handler makes of len words: the packet in which they start, the
\* word in it, and their number.
Frame(c, i, len) == [packet |-> PacketAt(c, i), offset |-> OffsetAt(i), len |-> len]
Whole(f) == f.offset = 0 /\ f.len = wire

Init ==
    /\ wire \in {V1, V2}
    /\ packed = 0 /\ conns = 0 /\ link = 0
    /\ first = [c \in Conns |-> 0]
    /\ sent = [c \in Conns |-> 0]
    /\ got = [c \in Conns |-> 0]
    /\ start = [c \in Conns |-> 0]
    /\ need = [c \in Conns |-> V1]
    /\ serving = {}
    /\ misread = {}
    /\ log = [c \in Conns |-> << >>]

----------------------------------------------------------------------------
(* The device *)

\* connect(), by a device that starts or reconnects; the gateway starts a
\* thread for the connection.
Connect ==
    /\ link = 0
    /\ conns < MaxConns
    /\ conns' = conns + 1
    /\ link' = conns'
    /\ first' = [first EXCEPT ![conns'] = packed + 1]
    /\ serving' = serving \cup {conns'}
    /\ UNCHANGED <<wire, packed, sent, got, start, need, misread, log>>

\* pack_packet and send(), which takes the packet as a whole.
Send ==
    /\ link # 0
    /\ packed < MaxPackets
    /\ packed' = packed + 1
    /\ sent' = [sent EXCEPT ![link] = @ + wire]
    /\ UNCHANGED <<wire, conns, link, first, handlerVars>>

\* Mutant of SendFails: the packet that failed is sent again later.
SendFailsRetry ==
    /\ link # 0
    /\ packed < MaxPackets
    /\ \E n \in got[link]..(sent[link] + wire) : sent' = [sent EXCEPT ![link] = n]
    /\ link' = 0
    /\ UNCHANGED <<wire, packed, conns, first, handlerVars>>

\* send() reports that the connection is broken: the packet is not sent again,
\* and what the network had not delivered is lost.  power_meter reconnects,
\* the sensors stop and are started again, hvac_controller goes on without.
SendFails ==
    /\ link # 0
    /\ packed < MaxPackets
    /\ packed' = packed + 1
    /\ \E n \in got[link]..sent[link] : sent' = [sent EXCEPT ![link] = n]
    /\ link' = 0
    /\ UNCHANGED <<wire, conns, first, handlerVars>>

\* The device's process ends; what it sent still arrives.
Exit ==
    /\ link # 0
    /\ link' = 0
    /\ UNCHANGED <<wire, packed, conns, first, sent, handlerVars>>

Device == Connect \/ Send \/ SendFails \/ Exit

----------------------------------------------------------------------------
(* ClientHandler.handle, one thread per connection *)

Missing(c) == start[c] + need[c] - got[c]

\* Mutant of Recv: waits until a V2 packet could have arrived.
RecvAll(c) ==
    /\ c \in serving
    /\ Missing(c) > 0
    /\ sent[c] >= start[c] + V2
    /\ got' = [got EXCEPT ![c] = start[c] + need[c]]
    /\ UNCHANGED <<deviceVars, start, need, serving, misread, log>>

\* A recv() of _recv_exact: some of the words that have arrived.
Recv(c) ==
    /\ c \in serving
    /\ \E k \in 1..Missing(c) :
         /\ got[c] + k <= sent[c]
         /\ got' = [got EXCEPT ![c] = @ + k]
    /\ UNCHANGED <<deviceVars, start, need, serving, misread, log>>

\* Mutant of Longer: as many words again as a V1 packet has.
LongerAgain(c) ==
    /\ c \in serving
    /\ Missing(c) = 0 /\ need[c] = V1
    /\ OffsetAt(start[c] + 3) \in CanLookV2(wire)
    /\ need' = [need EXCEPT ![c] = V1 + V1]
    /\ misread' = misread \cup {c}
    /\ UNCHANGED <<deviceVars, got, start, serving, log>>

\* Mutant of Longer: V2 is detected in a V2 packet.
LongerTwice(c) ==
    /\ c \in serving
    /\ Missing(c) = 0
    /\ OffsetAt(start[c] + 3) \in CanLookV2(wire)
    /\ need' = [need EXCEPT ![c] = @ + V2 - V1]
    /\ misread' = misread \cup {c}
    /\ UNCHANGED <<deviceVars, got, start, serving, log>>

\* The fourth word looks like a type and a version: read the rest of a V2
\* packet.  It never is one, the only V2 packets have type 4.
Longer(c) ==
    /\ c \in serving
    /\ Missing(c) = 0 /\ need[c] = V1
    /\ OffsetAt(start[c] + 3) \in CanLookV2(wire)
    /\ need' = [need EXCEPT ![c] = V2]
    /\ misread' = misread \cup {c}
    /\ UNCHANGED <<deviceVars, got, start, serving, log>>

\* validate_checksum passes anything of V2's length, and a V1 packet.
ChecksumHolds(c) == need[c] = V2 \/ (wire = V1 /\ OffsetAt(start[c]) = 0)

\* Mutant of Take: whatever one recv() returned is the packet.
TakePartial(c) ==
    /\ c \in serving
    /\ got[c] > start[c]
    /\ \/ log' = [log EXCEPT ![c] = Append(@, Frame(c, start[c], need[c]))]
       \/ ~ChecksumHolds(c) /\ UNCHANGED log
    /\ start' = [start EXCEPT ![c] = got[c]]
    /\ need' = [need EXCEPT ![c] = V1]
    /\ UNCHANGED <<deviceVars, got, serving, misread>>

\* Otherwise the data is a packet if its checksum is right and parse() makes
\* sense of it, and is dropped if not; a name that starts in the middle of a
\* packet may not decode.  Either way the next packet is read behind it.
Take(c) ==
    /\ c \in serving
    /\ Missing(c) = 0
    /\ \/ log' = [log EXCEPT ![c] = Append(@, Frame(c, start[c], need[c]))]
       \/ /\ ~ChecksumHolds(c) \/ OffsetAt(start[c]) # 0
          /\ UNCHANGED log
    /\ start' = [start EXCEPT ![c] = @ + need[c]]
    /\ need' = [need EXCEPT ![c] = V1]
    /\ UNCHANGED <<deviceVars, got, serving, misread>>

\* recv() finds the end of the stream; a started packet is dropped.
EndOfStream(c) ==
    /\ c \in serving
    /\ Missing(c) > 0
    /\ link # c /\ got[c] = sent[c]
    /\ serving' = serving \ {c}
    /\ UNCHANGED <<deviceVars, got, start, need, misread, log>>

\* An exception in handle, from recv() or from write_packet.
Abort(c) ==
    /\ c \in serving
    /\ serving' = serving \ {c}
    /\ UNCHANGED <<deviceVars, got, start, need, misread, log>>

Handle(c) == Recv(c) \/ Longer(c) \/ Take(c) \/ EndOfStream(c)

Next ==
    \/ Device
    \/ \E c \in Conns : Handle(c) \/ Abort(c)

Spec == Init /\ [][Next]_vars

\* A handler's thread runs, and TCP delivers while the connection lasts.
\* Nothing is assumed of the device.
FairSpec == Spec /\ \A c \in Conns : WF_vars(Handle(c))

----------------------------------------------------------------------------
(* Properties *)

Frames == [packet : Nat, offset : 0..(V2 - 1), len : {V1, V2}]

DeviceTypeOK ==
    /\ wire \in {V1, V2}
    /\ packed \in 0..MaxPackets /\ conns \in 0..MaxConns /\ link \in 0..MaxConns
    /\ first \in [Conns -> Nat] /\ sent \in [Conns -> Nat]

HandlerTypeOK ==
    /\ got \in [Conns -> Nat] /\ start \in [Conns -> Nat]
    /\ need \in [Conns -> {V1, V2}]
    /\ serving \in SUBSET Conns /\ misread \in SUBSET Conns

LogTypeOK == log \in [Conns -> Seq(Frames)]

\* Type invariant.
TypeOK == DeviceTypeOK /\ HandlerTypeOK /\ LogTypeOK

\* Until a V1 packet is taken for V2, a handler passes on exactly the packets
\* that were sent on its connection, whole, in order and without gaps, however
\* TCP cuts the stream into pieces.
WholeUntilMisread ==
    \A c \in Conns : wire = V1 /\ c \notin misread =>
        /\ start[c] = V1 * Len(log[c])
        /\ \A i \in 1..Len(log[c]) :
             log[c][i] = [packet |-> first[c] + i - 1, offset |-> 0, len |-> V1]

\* The packets among blocks, by number.
Packets(fs) ==
    FlattenSeq([i \in DOMAIN fs |-> IF Whole(fs[i]) THEN <<fs[i].packet>> ELSE << >>])

Passed == [c \in Conns |-> Packets(log[c])]

Channel == INSTANCE PacketChannel WITH
    Streams <- Conns,
    sent <- packed,
    arrived <- Passed

\* Apart from blocks that are no packets, TCP with the device's send loop and
\* the handlers' division of the stream is a packet channel: nothing arrives
\* before it was packed, twice, or after a later packet of its connection,
\* through misread packets, broken connections and handlers left behind.
IsChannel == Channel!Spec

\* handle has no way to find the start of a packet again: once a V1 packet was
\* taken for V2, no whole packet is passed on until the device reconnects.
NeverRealigns ==
    [][\A c \in misread :
         wire = V1 /\ log'[c] # log[c] => ~Whole(log'[c][Len(log'[c])])]_vars

\* A packet that arrived whole on a V1 connection is passed on, unless the
\* handler ended or a packet was taken for V2.
ArrivedIsPassedOn ==
    \A c \in Conns : \A n \in 1..MaxPackets :
        (wire = V1 /\ sent[c] >= V1 * n) ~>
            (Len(log[c]) >= n \/ c \notin serving \/ c \in misread \/ sent[c] < V1 * n)

\* network.py: "V2 packets explicitly set version=2 at byte 13"; README.md:
\* "Binary packet parser (V1/V2 auto-detection)": a handler that starts reading
\* at the start of a packet reads that packet.
VersionDetected ==
    [][\A c \in Conns :
         start'[c] # start[c] /\ OffsetAt(start[c]) = 0 => start'[c] = start[c] + wire]_vars
=============================================================================
