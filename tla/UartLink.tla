------------------------------- MODULE UartLink -------------------------------
(***************************************************************************)
(* A temperature sensor writes its packets into a FIFO that simulates a    *)
(* UART (Embedded/uart_sim.c, sensor.c), and a UARTReader thread takes     *)
(* them out again (Gateway/uart_reader.py).                                *)
(*                                                                         *)
(* A frame is a marker of two bytes and a V1 packet of 20, two writes that *)
(* each go through as a whole or are refused because the FIFO is full.     *)
(* Bytes are numbers: byte o of the frame of packet p is p * Frame + o.    *)
(* What the bytes of a packet are matters in three places and is a free    *)
(* choice there: some pair of them may look like a marker, byte 13 like    *)
(* version 2, and the checksum of a block that is no packet may be right.  *)
(*                                                                         *)
(* A FIFO is a file with a name: a sensor that ends in good order removes  *)
(* the name, and the next one makes another file, numbered here.  The      *)
(* reader holds on to the file it has opened, by whatever name.            *)
(***************************************************************************)
EXTENDS Naturals, Sequences, SequencesExt

CONSTANTS
    Capacity,       \* bytes the FIFO holds
    OpenTries,      \* times the sensor tries to open it
    MaxPackets,     \* bound: packets written, by all sensors
    MaxSensors      \* bound: times the sensor is started

ASSUME BoundAssumption ==
    /\ Capacity \in Nat /\ OpenTries \in Nat \ {0}
    /\ MaxPackets \in Nat /\ MaxSensors \in Nat

VARIABLES
    name,       \* the file that has the FIFO's name, 0 for none
    files,      \* files made so far
    pipe,       \* bytes in the FIFO
    wpc,        \* what the sensor does next
    wfile,      \* the file it has open, 0 for none
    tries,      \* times it has tried to open one
    starts,     \* times it was started
    packed,     \* packets it has tried to write
    running,    \* UARTReader.running
    rpc,        \* what the reader does next
    rfile,      \* the file it has open or waits to open, 0 for none
    ahead,      \* bytes it has read and not yet used
    handled,    \* the blocks it has taken for packets
    written,    \* history: packets written with their marker
    harmed      \* history: packets cut to pieces or thrown away on the way

sensorVars == <<wpc, wfile, tries, starts, packed, written>>
readerVars == <<running, rpc, rfile, ahead, handled>>
vars == <<name, files, pipe, sensorVars, readerVars, harmed>>

V1 == 20
V2 == 32
Frame == 2 + V1
Marker(p) == <<p * Frame, p * Frame + 1>>
Body(p) == [i \in 1..V1 |-> p * Frame + 1 + i]
Offset(b) == b % Frame
Whole(s) == \E p \in 1..MaxPackets : s = Body(p)

\* The packets that have bytes in s, and those that are all there.
In(s) == {b \div Frame : b \in Range(s)}
Pending == {p \in 1..MaxPackets : Range(Body(p)) \subseteq Range(ahead \o pipe)}
Handled == {p \in 1..MaxPackets : Contains(handled, Body(p))}

Init ==
    /\ name = 0 /\ files = 0 /\ pipe = << >>
    /\ wpc = "off" /\ wfile = 0 /\ tries = 0 /\ starts = 0 /\ packed = 0
    /\ running = TRUE
    /\ rpc = "look" /\ rfile = 0 /\ ahead = << >> /\ handled = << >>
    /\ written = {} /\ harmed = {}

\* The FIFO loses what is in it when neither end is open any more.
Discards(lastEnd, bytes) ==
    IF lastEnd THEN pipe' = << >> /\ harmed' = harmed \cup In(bytes \o pipe)
               ELSE UNCHANGED pipe /\ harmed' = harmed \cup In(bytes)

----------------------------------------------------------------------------
(* The sensor *)

SStart ==
    /\ wpc = "off" /\ starts < MaxSensors
    /\ starts' = starts + 1
    /\ wpc' = "open" /\ tries' = 0
    /\ UNCHANGED <<name, files, pipe, wfile, packed, written, readerVars, harmed>>

\* uart_open_write: the name is there or is made; the file can be opened for
\* writing only while somebody has it open, or waits to open it, for reading.
SOpen ==
    /\ wpc = "open"
    /\ files' = IF name = 0 THEN files + 1 ELSE files
    /\ name' = IF name = 0 THEN files' ELSE name
    /\ IF rfile = name'
       THEN /\ wfile' = name' /\ wpc' = "loop"
            /\ rpc' = IF rpc = "opening" THEN "next" ELSE rpc
            /\ UNCHANGED tries
       ELSE /\ tries' = tries + 1
            /\ wpc' = IF tries' < OpenTries THEN "open" ELSE "loop"
            /\ UNCHANGED <<wfile, rpc>>
    /\ UNCHANGED <<pipe, starts, packed, written, running, rfile, ahead, handled, harmed>>

\* Mutant of Room: whatever starts in the FIFO goes through.
RoomLeft(s) == Len(pipe) < Capacity

Room(s) == Len(pipe) + Len(s) <= Capacity

\* uart_write, the marker: it is refused if the FIFO is full.
SMarker ==
    /\ wpc = "loop" /\ wfile # 0 /\ rfile = wfile
    /\ packed < MaxPackets
    /\ packed' = packed + 1
    /\ IF Room(Marker(packed'))
       THEN pipe' = pipe \o Marker(packed') /\ wpc' = "data"
       ELSE UNCHANGED <<pipe, wpc>>
    /\ UNCHANGED <<name, files, wfile, tries, starts, written, readerVars, harmed>>

\* uart_write, the packet.
SData ==
    /\ wpc = "data" /\ rfile = wfile
    /\ IF Room(Body(packed))
       THEN pipe' = pipe \o Body(packed) /\ written' = written \cup {packed}
       ELSE UNCHANGED <<pipe, written>>
    /\ wpc' = "loop"
    /\ UNCHANGED <<name, files, wfile, tries, starts, packed, readerVars, harmed>>

\* The process is killed; or it dies of SIGPIPE, which nobody handles, when it
\* writes while the reader has the FIFO closed.
SDie ==
    /\ wpc # "off"
    /\ wpc' = "off" /\ wfile' = 0
    /\ Discards(wfile # 0 /\ rfile # wfile, << >>)
    /\ UNCHANGED <<name, files, tries, starts, packed, written, readerVars>>

\* The TCP connection broke and the loop ends: uart_close.
SClose ==
    /\ wpc = "loop"
    /\ wpc' = "closed" /\ wfile' = 0
    /\ Discards(wfile # 0 /\ rfile # wfile, << >>)
    /\ UNCHANGED <<name, files, tries, starts, packed, written, readerVars>>

\* uart_destroy, whether or not it was ever open.
SUnlink ==
    /\ wpc = "closed"
    /\ name' = 0 /\ wpc' = "off"
    /\ UNCHANGED <<files, pipe, wfile, tries, starts, packed, written, readerVars, harmed>>

----------------------------------------------------------------------------
(* UARTReader._run *)

Stop ==
    /\ running
    /\ running' = FALSE
    /\ UNCHANGED <<name, files, pipe, sensorVars, rpc, rfile, ahead, handled, harmed>>

\* Mutant of RLook: without a FIFO the reader gives up.
RLookOnce ==
    /\ rpc = "look"
    /\ rpc' = IF running /\ name # 0 THEN "found" ELSE "done"
    /\ UNCHANGED <<name, files, pipe, sensorVars, running, rfile, ahead, handled, harmed>>

\* os.path.exists, every two seconds.
RLook ==
    /\ rpc = "look"
    /\ \/ ~running /\ rpc' = "done"
       \/ running /\ name # 0 /\ rpc' = "found"
    /\ UNCHANGED <<name, files, pipe, sensorVars, running, rfile, ahead, handled, harmed>>

\* open, which waits until the file has a writer, and fails if there is none
\* of that name any more.
ROpen ==
    /\ rpc = "found"
    /\ rfile' = name
    /\ rpc' = CASE name = 0 -> "look"
                [] name # 0 /\ wfile = name -> "next"
                [] OTHER -> "opening"
    /\ UNCHANGED <<name, files, pipe, sensorVars, running, ahead, handled, harmed>>

\* Whether bytes i-1 and i read ahead are a marker, or may look like one in
\* the timestamp or the value of a packet.
IsMarker(i) == i > 1 /\ Offset(ahead[i]) = 1
MayLookMarker(i) ==
    /\ i > 1 /\ Offset(ahead[i]) \in 11..16
    /\ ahead[i] = ahead[i - 1] + 1
MarkerAhead == \E i \in DOMAIN ahead : IsMarker(i)

Short ==
    \/ rpc = "scan" /\ ~MarkerAhead
    \/ rpc = "body" /\ Len(ahead) < V1
    \/ rpc = "more" /\ Len(ahead) < V2

\* Mutant of RFill: what is read is not taken out.
RFillPeek ==
    /\ Short /\ pipe # << >>
    /\ ahead' = ahead \o pipe
    /\ UNCHANGED <<name, files, pipe, sensorVars, running, rpc, rfile, handled, harmed>>

\* Mutant of RFill: waits for as much as the longest packet.
RFillLong ==
    /\ Short /\ Len(pipe) >= V2
    /\ ahead' = ahead \o pipe
    /\ pipe' = << >>
    /\ UNCHANGED <<name, files, sensorVars, running, rpc, rfile, handled, harmed>>

\* A read finds too little and takes all there is.
RFill ==
    /\ Short /\ pipe # << >>
    /\ ahead' = ahead \o pipe
    /\ pipe' = << >>
    /\ UNCHANGED <<name, files, sensorVars, running, rpc, rfile, handled, harmed>>

\* The file is closed; bytes are what was read ahead and not used.
CloseOn(bytes) ==
    /\ rpc' = "look" /\ rfile' = 0 /\ ahead' = << >>
    /\ Discards(wfile # rfile, bytes)
    /\ UNCHANGED <<name, files, sensorVars, running>>

Close == CloseOn(ahead)

\* The end of file, or the loop ends between two packets.
REnd ==
    /\ \/ Short /\ pipe = << >> /\ wfile # rfile
       \/ rpc = "next" /\ ~running
    /\ Close
    /\ UNCHANGED handled

RNext ==
    /\ rpc = "next" /\ running
    /\ rpc' = "scan"
    /\ UNCHANGED <<name, files, pipe, sensorVars, running, rfile, ahead, handled, harmed>>

\* Mutant of RScan: skips to the last marker there is.
RScanLast ==
    /\ rpc = "scan"
    /\ \E i \in DOMAIN ahead :
         /\ IsMarker(i)
         /\ \A j \in (i + 1)..Len(ahead) : ~IsMarker(j)
         /\ ahead' = SubSeq(ahead, i + 1, Len(ahead))
    /\ rpc' = "body"
    /\ UNCHANGED <<name, files, pipe, sensorVars, running, rfile, handled, harmed>>

\* _read_packet: skip to behind the next marker, or what looks like one.
RScan ==
    /\ rpc = "scan"
    /\ \E i \in DOMAIN ahead :
         /\ IsMarker(i) \/ MayLookMarker(i)
         /\ \A j \in 1..(i - 1) : ~IsMarker(j)
         /\ ahead' = SubSeq(ahead, i + 1, Len(ahead))
    /\ rpc' = "body"
    /\ UNCHANGED <<name, files, pipe, sensorVars, running, rfile, handled, harmed>>

\* The first len bytes are taken for a packet.  When the database raises while
\* it is handled, the file is closed although the packet was whole.
Handle(len) ==
    LET block == SubSeq(ahead, 1, len)
        rest == SubSeq(ahead, len + 1, Len(ahead))
    IN
    /\ handled' = Append(handled, block)
    /\ \/ /\ rpc' = "next" /\ ahead' = rest
          /\ harmed' = IF Whole(block) THEN harmed ELSE harmed \cup In(block)
          /\ UNCHANGED <<name, files, pipe, sensorVars, running, rfile>>
       \/ CloseOn(IF Whole(block) THEN rest ELSE ahead)

\* 20 bytes: a packet if the checksum is right and it parses; if not, the file
\* is closed and opened again.
RBody ==
    /\ rpc = "body" /\ Len(ahead) >= V1
    /\ \/ Handle(V1)
       \/ ~Whole(SubSeq(ahead, 1, V1)) /\ Close /\ UNCHANGED handled

\* Byte 13 looks like version 2: twelve more bytes belong to the packet.
RLonger ==
    /\ rpc = "body" /\ Len(ahead) >= V1
    /\ rpc' = "more"
    /\ UNCHANGED <<name, files, pipe, sensorVars, running, rfile, ahead, handled, harmed>>

\* 32 bytes: the checksum of V2 is always right.
RMore ==
    /\ rpc = "more" /\ Len(ahead) >= V2
    /\ \/ Handle(V2)
       \/ ~Whole(SubSeq(ahead, 1, V1)) /\ Close /\ UNCHANGED handled

Reader ==
    \/ RLook \/ ROpen \/ RNext \/ RFill \/ REnd
    \/ RScan \/ RBody \/ RLonger \/ RMore

Next ==
    \/ SStart \/ SOpen \/ SMarker \/ SData \/ SDie \/ SClose \/ SUnlink
    \/ Reader \/ Stop

Spec == Init /\ [][Next]_vars

\* The reader's thread runs.  Nothing is assumed of the sensor, nor that
\* stop() is ever called.
FairSpec == Spec /\ WF_vars(Reader)

----------------------------------------------------------------------------
(* Properties *)

\* Type invariant.
TypeOK ==
    /\ files \in 0..MaxSensors /\ name \in 0..files
    /\ wfile \in 0..files /\ rfile \in 0..files
    /\ pipe \in Seq(Nat) /\ Len(pipe) <= Capacity
    /\ wpc \in {"off", "open", "loop", "data", "closed"}
    /\ wpc \in {"off", "open", "closed"} => wfile = 0
    /\ tries \in 0..OpenTries /\ starts \in 0..MaxSensors /\ packed \in 0..MaxPackets
    /\ running \in BOOLEAN
    /\ rpc \in {"look", "found", "opening", "next", "scan", "body", "more", "done"}
    /\ rpc \in {"look", "found", "done"} <=> rfile = 0
    /\ ahead \in Seq(Nat) /\ handled \in Seq(Seq(Nat))
    /\ written \in SUBSET (1..packed) /\ harmed \in SUBSET (1..packed)

\* The packets among blocks, by number.
Numbers(bs) ==
    FlattenSeq([i \in DOMAIN bs |-> IF Whole(bs[i]) THEN <<bs[i][1] \div Frame>> ELSE << >>])

Passed == [c \in {"uart"} |-> Numbers(handled)]

Channel == INSTANCE PacketChannel WITH
    Streams <- {"uart"},
    sent <- packed,
    arrived <- Passed

\* Apart from blocks that are no packets, the FIFO is a packet channel with a
\* single stream: in order and at most once through reopened files, half
\* written frames and restarted sensors.
IsChannel == Channel!Spec

\* A packet written with its marker is handled, unless a block that is no packet
\* had bytes of it or the file was closed while it was in there: scanning
\* finds the very next marker and skips no whole packet.
LossIsExplained == written \subseteq Handled \cup harmed \cup Pending

\* A written packet does not wait for a later one, except when it was taken
\* for the start of a V2 packet.
PendingIsRead ==
    \A p \in 1..MaxPackets :
        (p \in Pending) ~> (p \notin Pending \/ rpc = "more" \/ ~running)

\* Waiting for a writer of a file nobody can find any more.
Stranded == rpc = "opening" /\ rfile # name

\* While there is a FIFO the reader finds it, unless it waits for a writer on
\* the file of an earlier sensor, which closed it before it removed its name;
\* there it stays forever.
FindsFifo ==
    /\ (name # 0) ~> (rfile = name \/ name = 0 \/ ~running \/ Stranded)
    /\ [](Stranded => []Stranded)
=============================================================================
