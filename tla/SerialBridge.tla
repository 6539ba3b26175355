----------------------------- MODULE SerialBridge -----------------------------
(***************************************************************************)
(* The bridge between the PIC board's serial line and the gateway          *)
(* (Bridge/serial_bridge.py, with uart_send_packet of Embedded/pic_demo).  *)
(*                                                                         *)
(* The bytes of all packets are numbered in the order the board sends      *)
(* them; packet p is the bytes (p-1)*Size+1 .. p*Size.  The serial line    *)
(* loses bytes (noise, an overrun while the bridge waits for the gateway,  *)
(* everything that is buffered when the port is opened again).  The bridge *)
(* collects what it reads, cuts it into blocks of Size bytes and hands     *)
(* those with a good checksum to a TCP connection, which can break, with   *)
(* or without sendall noticing, or refuse a block after ten seconds while  *)
(* it still delivers the earlier ones.                                     *)
(***************************************************************************)
EXTENDS Naturals, Sequences, SequencesExt, FiniteSets

CONSTANTS
    Size,           \* bytes in a packet, PACKET_SIZE
    MaxPackets,     \* bound: packets the board sends
    MaxConns,       \* bound: connections the bridge opens
    MaxFaults       \* bound: bytes lost, ports and connections failing

ASSUME SizeAssumption == Size \in Nat \ {0}
ASSUME BoundAssumption ==
    MaxPackets \in Nat /\ MaxConns \in Nat \ {0} /\ MaxFaults \in Nat

VARIABLES
    sent,       \* bytes the board has sent
    line,       \* bytes on the line and in the port's buffer
    missing,    \* bytes the line has lost
    pc,         \* what run_bridge does next
    buffer,     \* bytes read and not yet cut
    packet,     \* the block cut last
    blocks,     \* history: all blocks cut
    conn,       \* the connection, by number
    given,      \* history: blocks each connection has taken
    arr,        \* how many of them have arrived at the gateway
    broken,     \* connections that deliver nothing any more
    faults      \* things that went wrong

lineVars == <<sent, line, missing>>
bridgeVars == <<pc, buffer, packet, blocks>>
tcpVars == <<conn, given, arr, broken>>
vars == <<lineVars, bridgeVars, tcpVars, faults>>

Conns == 1..MaxConns
Bytes == 1..(MaxPackets * Size)

Packet(p) == [i \in 1..Size |-> (p - 1) * Size + i]
Whole(b) == \E p \in 1..MaxPackets : b = Packet(p)
Number(b) == b[Size] \div Size

Init ==
    /\ sent = 0 /\ line = << >> /\ missing = {}
    /\ pc = "connect" /\ buffer = << >> /\ packet = << >> /\ blocks = << >>
    /\ conn = 0
    /\ given = [c \in Conns |-> << >>]
    /\ arr = [c \in Conns |-> 0]
    /\ broken = {}
    /\ faults = 0

Fault == faults < MaxFaults /\ faults' = faults + 1

----------------------------------------------------------------------------
(* The board and the line *)

\* uart_send_byte, from uart_send_packet.
SendByte ==
    /\ sent < MaxPackets * Size
    /\ sent' = sent + 1
    /\ line' = Append(line, sent')
    /\ UNCHANGED <<missing, bridgeVars, tcpVars, faults>>

LoseByte ==
    /\ Fault
    /\ \E i \in DOMAIN line :
         /\ missing' = missing \cup {line[i]}
         /\ line' = RemoveAt(line, i)
    /\ UNCHANGED <<sent, bridgeVars, tcpVars>>

----------------------------------------------------------------------------
(* run_bridge *)

\* connect_gateway, which tries until it succeeds.
Connect ==
    /\ pc = "connect"
    /\ conn < MaxConns
    /\ conn' = conn + 1
    /\ pc' = "read"
    /\ UNCHANGED <<lineVars, buffer, packet, blocks, given, arr, broken, faults>>

\* Mutant of Read: reads whatever has arrived.
ReadAll ==
    /\ pc = "read"
    /\ line # << >>
    /\ buffer' = buffer \o line
    /\ line' = << >>
    /\ pc' = "cut"
    /\ UNCHANGED <<sent, missing, packet, blocks, tcpVars, faults>>

\* Mutant of Read: data read after a pause replaces the buffer.
ReadFresh ==
    /\ pc = "read"
    /\ \E k \in 1..Size :
         /\ k <= Len(line)
         /\ buffer' = IF k < Size THEN SubSeq(line, 1, k) ELSE buffer \o SubSeq(line, 1, k)
         /\ line' = SubSeq(line, k + 1, Len(line))
    /\ pc' = "cut"
    /\ UNCHANGED <<sent, missing, packet, blocks, tcpVars, faults>>

\* ser.read returns at most a packet's length, or what came within a second.
Read ==
    /\ pc = "read"
    /\ \E k \in 1..Size :
         /\ k <= Len(line)
         /\ buffer' = buffer \o SubSeq(line, 1, k)
         /\ line' = SubSeq(line, k + 1, Len(line))
    /\ pc' = "cut"
    /\ UNCHANGED <<sent, missing, packet, blocks, tcpVars, faults>>

\* A SerialException: the port is opened again, empty; the buffer stays.
Reopen ==
    /\ pc = "read"
    /\ Fault
    /\ missing' = missing \cup Range(line)
    /\ line' = << >>
    /\ UNCHANGED <<sent, bridgeVars, tcpVars>>

\* Mutant of Cut: after a bad checksum only one byte is skipped.
CutSlide ==
    /\ pc = "cut" /\ Len(buffer) >= Size
    /\ packet' = SubSeq(buffer, 1, Size)
    /\ blocks' = Append(blocks, packet')
    /\ \/ pc' = "send" /\ buffer' = SubSeq(buffer, Size + 1, Len(buffer))
       \/ ~Whole(packet') /\ pc' = pc /\ buffer' = Tail(buffer)
    /\ UNCHANGED <<lineVars, tcpVars, faults>>

\* A block is taken out of the buffer.  It is skipped if its checksum is
\* wrong; that of a block which is no packet may happen to be right.
Cut ==
    /\ pc = "cut" /\ Len(buffer) >= Size
    /\ packet' = SubSeq(buffer, 1, Size)
    /\ buffer' = SubSeq(buffer, Size + 1, Len(buffer))
    /\ blocks' = Append(blocks, packet')
    /\ \/ pc' = "send"
       \/ ~Whole(packet') /\ pc' = pc
    /\ UNCHANGED <<lineVars, tcpVars, faults>>

CutDone ==
    /\ pc = "cut" /\ Len(buffer) < Size
    /\ pc' = "read"
    /\ UNCHANGED <<lineVars, buffer, packet, blocks, tcpVars, faults>>

\* sendall returns: the kernel has taken the block.
SendAll ==
    /\ pc = "send"
    /\ given' = [given EXCEPT ![conn] = Append(@, packet)]
    /\ pc' = "cut"
    /\ UNCHANGED <<lineVars, buffer, packet, blocks, conn, arr, broken, faults>>

\* Mutant of SendFails: the block is put back and sent again.
SendFailsRetry ==
    /\ pc = "send" /\ conn < MaxConns
    /\ Fault
    /\ given' \in {given, [given EXCEPT ![conn] = Append(@, packet)]}
    /\ broken' \in {broken, broken \cup {conn}}
    /\ buffer' = packet \o buffer
    /\ pc' = "connect"
    /\ UNCHANGED <<lineVars, packet, blocks, conn, arr>>

\* sendall raises, on a broken connection or after its ten seconds: the kernel
\* has taken all of the block or less, and what it took earlier may arrive yet.
SendFails ==
    /\ pc = "send" /\ conn < MaxConns
    /\ Fault
    /\ given' \in {given, [given EXCEPT ![conn] = Append(@, packet)]}
    /\ broken' \in {broken, broken \cup {conn}}
    /\ pc' = "connect"
    /\ UNCHANGED <<lineVars, buffer, packet, blocks, conn, arr>>

Bridge == Read \/ Cut \/ CutDone \/ SendAll

----------------------------------------------------------------------------
(* TCP *)

\* The next block of a connection arrives whole at its handler's recv().
Deliver(c) ==
    /\ c \notin broken
    /\ arr[c] < Len(given[c])
    /\ arr' = [arr EXCEPT ![c] = @ + 1]
    /\ UNCHANGED <<lineVars, bridgeVars, conn, given, broken, faults>>

\* The connection is gone; the bridge learns of it when it sends, or later.
Break ==
    /\ conn \in 1..(MaxConns - 1) /\ conn \notin broken
    /\ Fault
    /\ broken' = broken \cup {conn}
    /\ UNCHANGED <<lineVars, bridgeVars, conn, given, arr>>

Next ==
    \/ SendByte \/ LoseByte
    \/ Connect \/ Bridge \/ Reopen \/ SendFails
    \/ Break \/ \E c \in Conns : Deliver(c)

Spec == Init /\ [][Next]_vars

\* The bridge runs and TCP delivers what is not broken.  The gateway need not
\* be reachable and the board need not send.
FairSpec == Spec /\ WF_vars(Bridge) /\ \A c \in Conns : WF_vars(Deliver(c))

----------------------------------------------------------------------------
(* Properties *)

\* Type invariant.
TypeOK ==
    /\ sent \in 0..(MaxPackets * Size)
    /\ line \in Seq(Bytes) /\ missing \in SUBSET Bytes
    /\ pc \in {"connect", "read", "cut", "send"}
    /\ buffer \in Seq(Bytes)
    /\ Len(buffer) < IF pc = "cut" THEN 2 * Size ELSE Size
    /\ packet \in Seq(Bytes) /\ Len(packet) \in {0, Size}
    /\ blocks \in Seq([1..Size -> Bytes])
    /\ conn \in 0..MaxConns /\ broken \in SUBSET Conns
    /\ given \in [Conns -> Seq([1..Size -> Bytes])]
    /\ arr \in [Conns -> Nat] /\ \A c \in Conns : arr[c] \in 0..Len(given[c])
    /\ faults \in 0..MaxFaults

Increasing(s) == \A i, j \in DOMAIN s : i < j => s[i] < s[j]

\* Between line and gateway the bridge itself loses, repeats and reorders no
\* byte, whatever the port and the connection do: the blocks it has cut, its
\* buffer and the line are together what the board sent and the line did not
\* lose, in the order in which it was sent.
EveryByteOnce ==
    LET bytes == FlattenSeq(blocks) \o buffer \o line
    IN  /\ Range(bytes) = (1..sent) \ missing
        /\ Increasing(bytes)

\* The bridge never looks for the start of a packet: a block is a packet only
\* if the number of bytes lost before it is a multiple of Size, so after the
\* loss of one byte everything is skipped until more are lost; and then it is
\* one unless a byte of it was lost.
InStepIffWhole ==
    \A b \in Range(blocks) :
        Whole(b) <=>
            /\ Cardinality({m \in missing : m < b[1]}) % Size = 0
            /\ \A m \in missing : ~(b[1] < m /\ m < b[1] + Size)

Arrived == [c \in Conns |-> SubSeq(given[c], 1, arr[c])]

\* The packets among blocks, by number.
Numbers(bs) ==
    FlattenSeq([i \in DOMAIN bs |-> IF Whole(bs[i]) THEN <<Number(bs[i])>> ELSE << >>])

Passed == [c \in Conns |-> Numbers(Arrived[c])]

Channel == INSTANCE PacketChannel WITH
    Streams <- Conns,
    sent <- sent \div Size,
    arrived <- Passed

\* Apart from blocks that are no packets and pass the checksum by chance, the
\* bridge is a packet channel: no packet arrives twice although a failed
\* sendall may have been taken, and each connection keeps the order.
IsChannel == Channel!Spec

\* Packet p was cut, is not about to be sent, and no connection that still
\* delivers has it.
Dropped(p) ==
    /\ Contains(blocks, Packet(p))
    /\ ~(pc = "send" /\ packet = Packet(p))
    /\ \A c \in Conns \ broken : ~Contains(given[c], Packet(p))

\* A packet sent on a line that loses nothing arrives, without any later
\* packet's help, unless its sendall failed, its connection broke, or the
\* gateway stays away for good.
ForwardedOrFailed ==
    \A p \in 1..MaxPackets :
        (sent >= p * Size) ~>
            \/ \E c \in Conns : Contains(Arrived[c], Packet(p))
            \/ Dropped(p)
            \/ missing # {}
            \/ [](pc = "connect")
=============================================================================
