------------------------- MODULE TcpFraming_proofs -------------------------
(***************************************************************************)
(* Proofs about TcpFraming: type correctness, what a handler passes on     *)
(* until it misreads a packet, what it passes on after it, that no packet  *)
(* is passed on twice, that it is a packet channel, and that a handler in  *)
(* step passes on what arrived in a bounded number of its steps, for any   *)
(* number of connections and packets.                                      *)
(***************************************************************************)
EXTENDS TcpFraming, Integers, FiniteSetTheorems, SequenceTheorems, TLAPS

\* The words handled, received and sent on a connection, in this order.
Streams ==
    \A c \in Conns :
        /\ start[c] <= got[c] /\ got[c] <= start[c] + need[c]
        /\ got[c] <= sent[c]

\* Only the newest connection is sent on; those to come are untouched.
Links ==
    /\ conns \in 0..MaxConns
    /\ link \in {0, conns}
    /\ \A c \in Conns : c > conns =>
          sent[c] = 0 /\ got[c] = 0 /\ start[c] = 0 /\ log[c] = << >>

\* The packets sent on a connection have the numbers from its first on, below
\* the first one of the next connection.
Numbers ==
    /\ \A c \in Conns : c <= conns =>
          /\ first[c] \in 1..(packed + 1)
          /\ sent[c] <= wire * (packed + 1 - first[c])
    /\ \A c, d \in Conns : c < d /\ d <= conns =>
          /\ first[c] <= first[d]
          /\ sent[c] <= wire * (first[d] - first[c])

\* A V1 connection is at the start of a packet until one is taken for V2, and
\* three words behind it ever after: the word then looked at is in the middle
\* of a device name.
Alignment ==
    \A c \in Conns : wire = V1 =>
        IF c \in misread
        THEN \/ need[c] = V2 /\ start[c] % V1 = 0
             \/ need[c] = V1 /\ start[c] % V1 = 3
        ELSE need[c] = V1

\* A whole packet passed on by the handler of c lies in the words it has
\* handled, and is newer than what it passed on before.
Recorded ==
    \A c \in Conns :
        /\ \A i \in 1..Len(log[c]) : Whole(log[c][i]) =>
              /\ log[c][i].packet >= first[c]
              /\ wire * (log[c][i].packet + 1 - first[c]) <= start[c]
        /\ \A i, j \in 1..Len(log[c]) :
              i < j /\ Whole(log[c][i]) /\ Whole(log[c][j])
              => log[c][i].packet < log[c][j].packet

IInv ==
    /\ TypeOK /\ Streams /\ Links /\ Numbers /\ Alignment
    /\ WholeUntilMisread /\ Recorded

----------------------------------------------------------------------------
(* Arithmetic of words and packets *)

LEMMA Constants ==
    /\ MaxConns \in Nat \ {0} /\ MaxPackets \in Nat
    /\ V1 = 5 /\ V2 = 8
  BY BoundAssumption DEF V1, V2

LEMMA Transitive ==
    ASSUME NEW a \in Int, NEW b \in Int, NEW d \in Int, a <= b, b <= d
    PROVE  a <= d
OBVIOUS

LEMMA Division5 ==
    ASSUME NEW i \in Nat
    PROVE  /\ i % 5 \in 0..4 /\ i \div 5 \in Nat
           /\ i = 5 * (i \div 5) + (i % 5)
  OBVIOUS

LEMMA Multiple5 ==
    ASSUME NEW n \in Nat
    PROVE  /\ (5 * n) % 5 = 0 /\ (5 * n) \div 5 = n
           /\ (5 * n + 8) % 5 = 3
  OBVIOUS

\* Words of whole packets compare as packets do.
LEMMA Times ==
    ASSUME NEW w \in {5, 8}, NEW a \in Int, NEW b \in Int
    PROVE  /\ w * a \in Int /\ w * (a + 1) = w * a + w
           /\ w * a <= w * b <=> a <= b
  <1>1. CASE w = 5
    BY <1>1
  <1>2. CASE w = 8
    BY <1>2
  <1> QED BY <1>1, <1>2

\* Packets counted from the first of a connection compare as their numbers do.
LEMMA FromFirst ==
    ASSUME NEW a \in Int, NEW b \in Int, NEW k \in Int
    PROVE  /\ a - k \in Int /\ a + 1 - k \in Int
           /\ a + 1 - k <= b - k => a < b
           /\ a + 1 - k <= b + 1 - k => a <= b
           /\ a >= k => 1 <= a + 1 - k
  OBVIOUS

LEMMA Division8 ==
    ASSUME NEW i \in Nat
    PROVE  /\ i % 8 \in 0..7 /\ i \div 8 \in Nat
           /\ i = 8 * (i \div 8) + (i % 8)
  OBVIOUS

\* The numbers of one connection.
LEMMA Counted ==
    ASSUME TypeOK, NEW c \in Conns
    PROVE  /\ wire \in {5, 8} /\ first[c] \in Nat /\ sent[c] \in Nat
           /\ got[c] \in Nat /\ start[c] \in Nat /\ need[c] \in {5, 8}
           /\ Missing(c) = start[c] + need[c] - got[c]
           /\ log[c] \in Seq(Frames) /\ Len(log[c]) \in Nat
  <1>1. /\ wire \in {5, 8} /\ first[c] \in Nat /\ sent[c] \in Nat
    BY DEF TypeOK, DeviceTypeOK, V1, V2
  <1>2. /\ got[c] \in Nat /\ start[c] \in Nat /\ need[c] \in {5, 8}
    BY DEF TypeOK, HandlerTypeOK, V1, V2
  <1>3. log[c] \in Seq(Frames)
    BY DEF TypeOK, LogTypeOK
  <1>4. Missing(c) = start[c] + need[c] - got[c]
    BY DEF Missing
  <1> QED BY <1>1, <1>2, <1>3, <1>4

\* Where a frame starts, in packets and words.
LEMMA Position ==
    ASSUME TypeOK, NEW i \in Nat
    PROVE  /\ OffsetAt(i) \in 0..(wire - 1)
           /\ i \div wire \in Nat
           /\ i = wire * (i \div wire) + OffsetAt(i)
  <1>1. CASE wire = 5
    BY <1>1, Division5 DEF OffsetAt
  <1>2. CASE wire = 8
    BY <1>2, Division8 DEF OffsetAt
  <1> QED BY <1>1, <1>2 DEF TypeOK, DeviceTypeOK, HandlerTypeOK, V1, V2

\* A frame has the type the log wants.
LEMMA FrameType ==
    ASSUME TypeOK, NEW c \in Conns, NEW i \in Nat, NEW len \in {V1, V2}
    PROVE  Frame(c, i, len) \in Frames
  <1>1. /\ first[c] \in Nat /\ wire \in {5, 8}
    BY DEF TypeOK, DeviceTypeOK, HandlerTypeOK, V1, V2
  <1>4. OffsetAt(i) \in 0..(wire - 1) /\ i \div wire \in Nat
    BY Position
  <1>2. PacketAt(c, i) \in Nat
    BY <1>1, <1>4 DEF PacketAt
  <1>3. OffsetAt(i) \in 0..(V2 - 1)
    BY <1>1, <1>4 DEF V2
  <1> QED BY <1>2, <1>3 DEF Frame, Frames

----------------------------------------------------------------------------
(* The initial states *)

LEMMA InitIInv == Init => IInv
  <1> SUFFICES ASSUME Init PROVE IInv
    OBVIOUS
  <1> USE Constants DEF Conns
  <1>1. TypeOK
    <2>1. DeviceTypeOK /\ HandlerTypeOK
      BY DEF Init, DeviceTypeOK, HandlerTypeOK
    <2>2. LogTypeOK
      BY DEF Init, LogTypeOK
    <2> QED BY <2>1, <2>2 DEF TypeOK
  <1>2. Streams /\ Links /\ Numbers
    BY DEF Init, Streams, Links, Numbers
  <1>3. Alignment /\ WholeUntilMisread /\ Recorded
    BY DEF Init, Alignment, WholeUntilMisread, Recorded
  <1> QED BY <1>1, <1>2, <1>3 DEF IInv

----------------------------------------------------------------------------
(* The steps of the device *)

LEMMA LogTypeStays == LogTypeOK /\ log' = log => LogTypeOK'
  BY DEF LogTypeOK, Conns, Frames, V1, V2

LEMMA RecordedStays ==
    ASSUME IInv, wire' = wire, first' = first, start' = start, log' = log
    PROVE  Recorded'
  BY DEF IInv, Recorded, Whole

\* What was handled is told by these variables alone.
LEMMA HandledStays ==
    ASSUME IInv, wire' = wire, first' = first, start' = start, need' = need,
           misread' = misread, log' = log
    PROVE  Alignment' /\ WholeUntilMisread' /\ Recorded'
  BY DEF IInv, Alignment, WholeUntilMisread, Recorded, Whole

LEMMA ConnectKeeps == ASSUME IInv, Connect PROVE IInv'
  <1> USE Constants DEF Conns
  <1>1. /\ conns \in Nat /\ packed \in Nat /\ conns + 1 \in Conns /\ wire \in {5, 8}
        /\ conns' = conns + 1 /\ link' = conns + 1
        /\ first' = [first EXCEPT ![conns + 1] = packed + 1]
        /\ wire' = wire /\ packed' = packed /\ sent' = sent /\ got' = got
        /\ start' = start /\ need' = need /\ misread' = misread /\ log' = log
        /\ serving' = serving \cup {conns + 1}
    BY DEF IInv, TypeOK, DeviceTypeOK, HandlerTypeOK, Connect, V1, V2
  <1>2. TypeOK'
    <2>1. DeviceTypeOK'
      BY <1>1 DEF IInv, TypeOK, DeviceTypeOK, V1, V2
    <2>3. HandlerTypeOK'
      BY <1>1 DEF IInv, TypeOK, HandlerTypeOK, V1, V2
    <2>2. LogTypeOK'
      BY <1>1, LogTypeStays DEF IInv, TypeOK
    <2> QED BY <2>1, <2>2, <2>3 DEF TypeOK
  <1>3. Streams'
    BY <1>1 DEF IInv, Streams
  <1>4. Links'
    <2>1. conns' \in 0..MaxConns /\ link' \in {0, conns'}
      BY <1>1
    <2>2. ASSUME NEW c \in Conns, c > conns'
          PROVE  sent[c] = 0 /\ got[c] = 0 /\ start[c] = 0 /\ log[c] = << >>
      <3>1. c > conns
        BY <1>1, <2>2
      <3> QED BY <3>1 DEF IInv, Links
    <2> QED BY <1>1, <2>1, <2>2 DEF Links
  <1>5. Numbers'
    <2>1. ASSUME NEW c \in Conns, c <= conns'
          PROVE  first'[c] \in 1..(packed' + 1) /\ sent'[c] <= wire' * (packed' + 1 - first'[c])
      <3>1. CASE c = conns + 1
        <4>1. sent[c] = 0 /\ first'[c] = packed + 1
          BY <1>1, <3>1 DEF IInv, Links, TypeOK, DeviceTypeOK, HandlerTypeOK
        <4> QED BY <1>1, <4>1
      <3>2. CASE c # conns + 1
        <4>1. c <= conns /\ first'[c] = first[c]
          BY <1>1, <2>1, <3>2 DEF IInv, TypeOK, DeviceTypeOK, HandlerTypeOK
        <4> QED BY <1>1, <4>1 DEF IInv, Numbers
      <3> QED BY <3>1, <3>2
    <2>2. ASSUME NEW c \in Conns, NEW d \in Conns, c < d, d <= conns'
          PROVE  first'[c] <= first'[d] /\ sent'[c] <= wire' * (first'[d] - first'[c])
      <3>1. c <= conns /\ first'[c] = first[c]
        BY <1>1, <2>2 DEF IInv, TypeOK, DeviceTypeOK, HandlerTypeOK
      <3>2. CASE d = conns + 1
        <4>1. first'[d] = packed + 1
          BY <1>1, <3>2 DEF IInv, TypeOK, DeviceTypeOK, HandlerTypeOK
        <4>2. first[c] \in 1..(packed + 1) /\ sent[c] <= wire * (packed + 1 - first[c])
          BY <3>1 DEF IInv, Numbers
        <4> QED BY <1>1, <3>1, <4>1, <4>2
      <3>3. CASE d # conns + 1
        <4>1. d <= conns /\ first'[d] = first[d]
          BY <1>1, <2>2, <3>3 DEF IInv, TypeOK, DeviceTypeOK, HandlerTypeOK
        <4> QED BY <1>1, <2>2, <3>1, <4>1 DEF IInv, Numbers
      <3> QED BY <3>2, <3>3
    <2> QED BY <2>1, <2>2 DEF Numbers
  <1>6. \A c \in Conns : c # conns + 1 => first'[c] = first[c]
    BY <1>1 DEF IInv, TypeOK, DeviceTypeOK, HandlerTypeOK
  <1>7. log[conns + 1] = << >> /\ Len(log[conns + 1]) = 0 /\ start[conns + 1] = 0
    BY <1>1 DEF IInv, Links
  <1>8. Alignment'
    BY <1>1 DEF IInv, Alignment
  <1>9. WholeUntilMisread'
    BY <1>1, <1>6, <1>7 DEF IInv, WholeUntilMisread
  <1>10. Recorded'
    BY <1>1, <1>6, <1>7 DEF IInv, Recorded, Whole
  <1> QED BY <1>2, <1>3, <1>4, <1>5, <1>8, <1>9, <1>10 DEF IInv

\* A packet is packed, and the words of the newest connection become any
\* number that leaves what was got and goes no further than that packet.
LEMMA PackKeeps ==
    ASSUME IInv, NEW n \in Nat,
           link # 0, packed < MaxPackets, packed' = packed + 1,
           got[link] <= n, n <= sent[link] + wire,
           sent' = [sent EXCEPT ![link] = n], link' \in {0, link},
           wire' = wire /\ conns' = conns /\ first' = first /\ handlerVars' = handlerVars
    PROVE  IInv'
  <1> USE Constants DEF Conns
  <1>1. /\ conns \in Nat /\ packed \in Nat /\ link = conns /\ link \in Conns
        /\ wire \in {5, 8}
        /\ got' = got /\ start' = start /\ need' = need /\ serving' = serving
        /\ misread' = misread /\ log' = log
    BY DEF IInv, TypeOK, DeviceTypeOK, HandlerTypeOK, Links, V1, V2, handlerVars
  <1>2. TypeOK'
    <2>1. DeviceTypeOK'
      <3>1. packed' \in 0..MaxPackets
        BY <1>1
      <3>2. sent' \in [Conns -> Nat]
        BY <1>1 DEF IInv, TypeOK, DeviceTypeOK
      <3>3. DeviceTypeOK
        BY DEF IInv, TypeOK
      <3> HIDE DEF Conns
      <3>4. 0 \in 0..MaxConns
        OBVIOUS
      <3>5. link' \in 0..MaxConns
        BY <3>3, <3>4 DEF DeviceTypeOK
      <3> QED BY <3>1, <3>2, <3>3, <3>5 DEF DeviceTypeOK
    <2>3. HandlerTypeOK'
      BY <1>1 DEF IInv, TypeOK, HandlerTypeOK, V1, V2
    <2>2. LogTypeOK'
      BY <1>1, LogTypeStays DEF IInv, TypeOK
    <2> QED BY <2>1, <2>2, <2>3 DEF TypeOK
  <1>3. Streams'
    BY <1>1 DEF IInv, TypeOK, DeviceTypeOK, HandlerTypeOK, Streams
  <1>4. Links'
    <2>1. conns' \in 0..MaxConns /\ link' \in {0, conns'}
      BY <1>1 DEF IInv, Links
    <2>2. ASSUME NEW c \in Conns, c > conns
          PROVE  sent'[c] = 0 /\ got[c] = 0 /\ start[c] = 0 /\ log[c] = << >>
      <3>1. c # link /\ sent'[c] = sent[c]
        BY <1>1, <2>2 DEF IInv, TypeOK, DeviceTypeOK, HandlerTypeOK
      <3> QED BY <2>2, <3>1 DEF IInv, Links
    <2> QED BY <1>1, <2>1, <2>2 DEF Links
  <1>5. \A c \in Conns : sent'[c] = IF c = link THEN n ELSE sent[c]
    BY <1>1 DEF IInv, TypeOK, DeviceTypeOK, HandlerTypeOK
  <1>6. Numbers'
    <2>1. ASSUME NEW c \in Conns, c <= conns
          PROVE  first[c] \in 1..(packed + 2) /\ sent'[c] <= wire * (packed + 2 - first[c])
      <3>1. first[c] \in 1..(packed + 1) /\ sent[c] <= wire * (packed + 1 - first[c])
        BY <2>1 DEF IInv, Numbers
      <3>2. sent[c] \in Nat /\ first[c] \in Nat
        BY DEF IInv, TypeOK, DeviceTypeOK, HandlerTypeOK
      <3>3. sent'[c] <= sent[c] + wire
        BY <1>1, <1>5, <3>2
      <3> QED BY <1>1, <1>5, <3>1, <3>2, <3>3
    <2>2. ASSUME NEW c \in Conns, NEW d \in Conns, c < d, d <= conns
          PROVE  first[c] <= first[d] /\ sent'[c] <= wire * (first[d] - first[c])
      <3>1. c # link
        BY <1>1, <2>2
      <3> QED BY <1>5, <2>2, <3>1 DEF IInv, Numbers
    <2> QED BY <1>1, <2>1, <2>2 DEF Numbers
  <1>7. Alignment' /\ WholeUntilMisread' /\ Recorded'
    BY <1>1, HandledStays
  <1> QED BY <1>2, <1>3, <1>4, <1>6, <1>7 DEF IInv

LEMMA SendKeeps == ASSUME IInv, Send PROVE IInv'
  <1>1. link \in Conns /\ sent[link] \in Nat /\ got[link] \in Nat /\ wire \in Nat
        /\ got[link] <= sent[link]
    BY Constants DEF IInv, TypeOK, DeviceTypeOK, HandlerTypeOK, Streams, Send, Conns
  <1>2. PICK n \in Nat : n = sent[link] + wire
    BY <1>1
  <1>3. /\ link # 0 /\ packed < MaxPackets /\ packed' = packed + 1
        /\ sent' = [sent EXCEPT ![link] = n]
        /\ link' \in {0, link} /\ wire' = wire /\ conns' = conns /\ first' = first
        /\ handlerVars' = handlerVars
    BY <1>2 DEF Send
  <1>4. got[link] <= n /\ n <= sent[link] + wire
    BY <1>1, <1>2
  <1> QED BY <1>3, <1>4, PackKeeps

LEMMA SendFailsKeeps == ASSUME IInv, SendFails PROVE IInv'
  <1>1. link \in Conns /\ sent[link] \in Nat /\ got[link] \in Nat /\ wire \in Nat
    BY Constants DEF IInv, TypeOK, DeviceTypeOK, HandlerTypeOK, SendFails, Conns
  <1>2. PICK n \in got[link]..sent[link] : sent' = [sent EXCEPT ![link] = n]
    BY DEF SendFails
  <1>3. n \in Nat /\ got[link] <= n /\ n <= sent[link] + wire
    BY <1>1, <1>2
  <1> QED BY <1>2, <1>3, PackKeeps DEF SendFails

LEMMA ExitKeeps == ASSUME IInv, Exit PROVE IInv'
  <1>1. /\ link' = 0 /\ wire' = wire /\ packed' = packed /\ conns' = conns
        /\ first' = first /\ sent' = sent /\ got' = got /\ start' = start
        /\ need' = need /\ serving' = serving /\ misread' = misread /\ log' = log
    BY DEF Exit, handlerVars
  <1>2. TypeOK'
    <2>1. DeviceTypeOK'
      BY <1>1, Constants DEF IInv, TypeOK, DeviceTypeOK, Conns, V1, V2
    <2>3. HandlerTypeOK'
      BY <1>1 DEF IInv, TypeOK, HandlerTypeOK, Conns, V1, V2
    <2>2. LogTypeOK'
      BY <1>1, LogTypeStays DEF IInv, TypeOK
    <2> QED BY <2>1, <2>2, <2>3 DEF TypeOK
  <1>4. Streams' /\ Links'
    BY <1>1, Constants DEF IInv, Streams, Links, Conns
  <1>5. Numbers'
    BY <1>1 DEF IInv, Numbers, Conns
  <1>3. Alignment' /\ WholeUntilMisread' /\ Recorded'
    BY <1>1, HandledStays
  <1> QED BY <1>2, <1>4, <1>5, <1>3 DEF IInv

----------------------------------------------------------------------------
(* The steps of a handler *)

\* The device's part of the invariant does not see the handlers, but for the
\* words and logs of connections to come.
LEMMA DeviceStays ==
    ASSUME IInv, NEW c \in Conns, c <= conns, deviceVars' = deviceVars,
           \A d \in Conns \ {c} : got'[d] = got[d] /\ start'[d] = start[d] /\ log'[d] = log[d]
    PROVE  DeviceTypeOK' /\ Links' /\ Numbers'
  <1>1. /\ wire' = wire /\ packed' = packed /\ conns' = conns /\ link' = link
        /\ first' = first /\ sent' = sent
    BY DEF deviceVars
  <1>2. DeviceTypeOK'
    BY <1>1 DEF IInv, TypeOK, DeviceTypeOK, Conns, V1, V2
  <1>3. Links'
    <2>1. ASSUME NEW d \in Conns, d > conns
          PROVE  sent[d] = 0 /\ got'[d] = 0 /\ start'[d] = 0 /\ log'[d] = << >>
      <3>1. d # c
        BY <2>1 DEF IInv, TypeOK, DeviceTypeOK, Conns
      <3> QED BY <2>1, <3>1 DEF IInv, Links
    <2> QED BY <1>1, <2>1 DEF IInv, Links, Conns
  <1>4. Numbers'
    BY <1>1 DEF IInv, Numbers, Conns
  <1> QED BY <1>2, <1>3, <1>4

\* Words are only there once the connection is.
LEMMA Opened ==
    ASSUME IInv, NEW c \in Conns, sent[c] > 0
    PROVE  c <= conns
  BY Constants DEF IInv, TypeOK, DeviceTypeOK, Links, Conns

LEMMA EndKeeps ==
    ASSUME IInv, NEW c \in Conns, EndOfStream(c) \/ Abort(c)
    PROVE  IInv'
  <1>1. /\ deviceVars' = deviceVars /\ got' = got /\ start' = start /\ need' = need
        /\ misread' = misread /\ log' = log /\ serving' = serving \ {c}
    BY DEF EndOfStream, Abort, deviceVars
  <1>2. /\ wire' = wire /\ packed' = packed /\ conns' = conns /\ link' = link
        /\ first' = first /\ sent' = sent
    BY <1>1 DEF deviceVars
  <1>3. DeviceTypeOK' /\ Numbers'
    BY <1>2 DEF IInv, TypeOK, DeviceTypeOK, Numbers, Conns, V1, V2
  <1>4. Streams' /\ Links'
    BY <1>1, <1>2 DEF IInv, Streams, Links, Conns
  <1>5. HandlerTypeOK'
    BY <1>1 DEF IInv, TypeOK, HandlerTypeOK, Conns, V1, V2
  <1>6. LogTypeOK'
    BY <1>1, LogTypeStays DEF IInv, TypeOK
  <1>7. Alignment' /\ WholeUntilMisread' /\ Recorded'
    BY <1>1, <1>2, HandledStays
  <1> QED BY <1>3, <1>4, <1>5, <1>6, <1>7 DEF IInv, TypeOK

LEMMA RecvKeeps == ASSUME IInv, NEW c \in Conns, Recv(c) PROVE IInv'
  <1> USE Constants DEF Conns
  <1>1. PICK k \in 1..Missing(c) : got[c] + k <= sent[c] /\ got' = [got EXCEPT ![c] = @ + k]
    BY DEF Recv
  <1>2. /\ deviceVars' = deviceVars /\ start' = start /\ need' = need
        /\ misread' = misread /\ log' = log /\ serving' = serving
    BY DEF Recv, deviceVars
  <1>3. /\ wire' = wire /\ first' = first /\ sent' = sent
    BY <1>2 DEF deviceVars
  <1>4. /\ sent[c] \in Nat /\ got[c] \in Nat /\ start[c] \in Nat /\ need[c] \in {5, 8}
        /\ Missing(c) = start[c] + need[c] - got[c]
    BY Counted DEF IInv
  <1>5. /\ k \in Nat /\ k > 0 /\ got[c] + k <= start[c] + need[c]
    BY <1>1, <1>4
  <1>6. /\ got'[c] = got[c] + k
        /\ \A d \in Conns \ {c} : got'[d] = got[d]
    BY <1>1 DEF IInv, TypeOK, HandlerTypeOK
  <1>7. sent[c] > 0
    BY <1>1, <1>4, <1>5
  <1>8. DeviceTypeOK' /\ Links' /\ Numbers'
    BY <1>2, <1>6, <1>7, Opened, DeviceStays
  <1>9. HandlerTypeOK'
    <2>1. got' \in [Conns -> Nat]
      <3>1. got \in [Conns -> Nat]
        BY DEF IInv, TypeOK, HandlerTypeOK
      <3>2. got[c] + k \in Nat
        BY <1>4, <1>5
      <3>3. got' = [got EXCEPT ![c] = got[c] + k]
        BY <1>1
      <3> QED BY <3>1, <3>2, <3>3
    <2> QED BY <1>2, <2>1 DEF IInv, TypeOK, HandlerTypeOK, V1, V2
  <1>10. LogTypeOK'
    BY <1>2, LogTypeStays DEF IInv, TypeOK
  <1>11. Streams'
    <2> SUFFICES ASSUME NEW d \in Conns
                 PROVE  /\ start[d] <= got'[d] /\ got'[d] <= start[d] + need[d]
                        /\ got'[d] <= sent[d]
      BY <1>2, <1>3 DEF Streams
    <2>1. CASE d = c
      BY <1>1, <1>4, <1>5, <1>6, <2>1 DEF IInv, Streams
    <2>2. CASE d # c
      BY <1>6, <2>2 DEF IInv, Streams
    <2> QED BY <2>1, <2>2
  <1>12. Alignment' /\ WholeUntilMisread' /\ Recorded'
    BY <1>2, <1>3, HandledStays
  <1> QED BY <1>8, <1>9, <1>10, <1>11, <1>12 DEF IInv, TypeOK

\* A V1 connection can be misread only at the start of a packet.
LEMMA MisreadFrom ==
    ASSUME IInv, NEW c \in Conns, Longer(c), wire = V1
    PROVE  start[c] % V1 = 0
  <1>1. start[c] \in Nat /\ need[c] = 5 /\ wire = 5
    BY Constants DEF IInv, TypeOK, HandlerTypeOK, Longer
  <1>2. (start[c] + 3) % 5 \in {2, 3, 4}
    BY <1>1, Constants DEF Longer, OffsetAt, CanLookV2
  <1>3. CASE c \in misread
    <2>1. start[c] % 5 = 3
      BY <1>1, <1>3, Constants DEF IInv, Alignment
    <2>2. (start[c] + 3) % 5 = 1
      BY <1>1, <2>1
    <2> QED BY <1>2, <2>2
  <1>4. CASE c \notin misread
    <2>1. start[c] = 5 * Len(log[c])
      BY <1>1, <1>4, Constants DEF IInv, WholeUntilMisread
    <2>2. Len(log[c]) \in Nat
      BY Counted DEF IInv
    <2>3. start[c] % 5 = 0
      BY <2>1, <2>2, Multiple5
    <2> QED BY <2>3, Constants
  <1> QED BY <1>3, <1>4

LEMMA LongerKeeps == ASSUME IInv, NEW c \in Conns, Longer(c) PROVE IInv'
  <1> USE Constants DEF Conns
  <1>1. /\ deviceVars' = deviceVars /\ got' = got /\ start' = start
        /\ log' = log /\ serving' = serving
        /\ need' = [need EXCEPT ![c] = V2] /\ misread' = misread \cup {c}
        /\ Missing(c) = 0 /\ need[c] = V1
    BY DEF Longer, deviceVars
  <1>2. /\ wire' = wire /\ first' = first /\ sent' = sent
    BY <1>1 DEF deviceVars
  <1>3. /\ got[c] \in Nat /\ start[c] \in Nat /\ got[c] = start[c] + 5
    <2>1. got[c] \in Nat /\ start[c] \in Nat /\ Missing(c) = start[c] + need[c] - got[c]
      BY Counted DEF IInv
    <2> QED BY <1>1, <2>1
  <1>4. /\ need'[c] = V2
        /\ \A d \in Conns \ {c} : need'[d] = need[d]
    BY <1>1 DEF IInv, TypeOK, HandlerTypeOK
  <1>5. c <= conns
    <2>1. sent[c] \in Nat /\ got[c] <= sent[c]
      BY DEF IInv, TypeOK, DeviceTypeOK, Streams
    <2> QED BY <1>3, <2>1, Opened
  <1>6. DeviceTypeOK' /\ Links' /\ Numbers'
    BY <1>1, <1>5, DeviceStays
  <1>7. HandlerTypeOK'
    BY <1>1 DEF IInv, TypeOK, HandlerTypeOK
  <1>8. LogTypeOK'
    BY <1>1, LogTypeStays DEF IInv, TypeOK
  <1>9. Streams'
    <2> SUFFICES ASSUME NEW d \in Conns
                 PROVE  /\ start[d] <= got[d] /\ got[d] <= start[d] + need'[d]
                        /\ got[d] <= sent[d]
      BY <1>1, <1>2 DEF Streams
    <2>1. CASE d = c
      BY <1>3, <1>4, <2>1 DEF IInv, Streams
    <2>2. CASE d # c
      BY <1>4, <2>2 DEF IInv, Streams
    <2> QED BY <2>1, <2>2
  <1>10. Alignment'
    <2> SUFFICES ASSUME NEW d \in Conns, wire = V1
                 PROVE  IF d \in misread \cup {c}
                        THEN \/ need'[d] = V2 /\ start[d] % V1 = 0
                             \/ need'[d] = V1 /\ start[d] % V1 = 3
                        ELSE need'[d] = V1
      BY <1>1, <1>2 DEF Alignment, V1, V2
    <2>1. CASE d = c
      BY <1>4, <2>1, MisreadFrom
    <2>2. CASE d # c
      BY <1>4, <2>2 DEF IInv, Alignment
    <2> QED BY <2>1, <2>2
  <1>11. WholeUntilMisread'
    <2>1. \A d \in Conns : d \notin misread' => d \notin misread
      BY <1>1
    <2> QED BY <1>1, <1>2, <2>1 DEF IInv, WholeUntilMisread
  <1>12. Recorded'
    BY <1>1, <1>2, RecordedStays
  <1> QED BY <1>6, <1>7, <1>8, <1>9, <1>10, <1>11, <1>12 DEF IInv, TypeOK

\* What a handler makes of the words at the start of its data.
LEMMA TakeEffect ==
    ASSUME IInv, NEW c \in Conns, Take(c)
    PROVE  /\ deviceVars' = deviceVars /\ got' = got /\ misread' = misread
           /\ serving' = serving
           /\ got[c] = start[c] + need[c] /\ c <= conns
           /\ start'[c] = start[c] + need[c] /\ need'[c] = V1
           /\ \A d \in Conns \ {c} :
                start'[d] = start[d] /\ need'[d] = need[d] /\ log'[d] = log[d]
           /\ \/ log'[c] = Append(log[c], Frame(c, start[c], need[c]))
              \/ /\ ~ChecksumHolds(c) \/ OffsetAt(start[c]) # 0
                 /\ log'[c] = log[c]
  <1>1. /\ deviceVars' = deviceVars /\ got' = got /\ misread' = misread
        /\ serving' = serving /\ Missing(c) = 0
        /\ start' = [start EXCEPT ![c] = @ + need[c]]
        /\ need' = [need EXCEPT ![c] = V1]
        /\ \/ log' = [log EXCEPT ![c] = Append(@, Frame(c, start[c], need[c]))]
           \/ /\ ~ChecksumHolds(c) \/ OffsetAt(start[c]) # 0
              /\ log' = log
    BY DEF Take, deviceVars
  <1>2. /\ got[c] \in Nat /\ start[c] \in Nat /\ need[c] \in {5, 8} /\ sent[c] \in Nat
        /\ Missing(c) = start[c] + need[c] - got[c]
    BY Counted DEF IInv
  <1>3. got[c] = start[c] + need[c]
    BY <1>1, <1>2
  <1>4. got[c] <= sent[c]
    BY DEF IInv, Streams
  <1>5. c <= conns
    BY <1>2, <1>3, <1>4, Opened
  <1>6. /\ start'[c] = start[c] + need[c] /\ need'[c] = V1
        /\ \A d \in Conns \ {c} : start'[d] = start[d] /\ need'[d] = need[d]
    BY <1>1 DEF IInv, TypeOK, HandlerTypeOK
  <1>7. \A d \in Conns \ {c} : log'[d] = log[d]
    BY <1>1 DEF IInv, TypeOK, LogTypeOK
  <1>8. \/ log'[c] = Append(log[c], Frame(c, start[c], need[c]))
        \/ /\ ~ChecksumHolds(c) \/ OffsetAt(start[c]) # 0
           /\ log'[c] = log[c]
    BY <1>1 DEF IInv, TypeOK, LogTypeOK
  <1> QED BY <1>1, <1>3, <1>5, <1>6, <1>7, <1>8

\* A frame that starts and ends at packet boundaries lies behind all that was
\* handled before.
LEMMA FrameRecorded ==
    ASSUME TypeOK, NEW c \in Conns, Whole(Frame(c, start[c], need[c]))
    PROVE  /\ Frame(c, start[c], need[c]).packet >= first[c]
           /\ start[c] = wire * (Frame(c, start[c], need[c]).packet - first[c])
           /\ need[c] = wire
  <1>1. wire \in {5, 8} /\ first[c] \in Nat /\ start[c] \in Nat
    BY Counted
  <1>2. /\ start[c] \div wire \in Nat
        /\ start[c] = wire * (start[c] \div wire) + OffsetAt(start[c])
    BY <1>1, Position
  <1>3. /\ Frame(c, start[c], need[c]).packet = first[c] + (start[c] \div wire)
        /\ OffsetAt(start[c]) = 0 /\ need[c] = wire
    BY DEF Whole, Frame, PacketAt
  <1>4. PICK q \in Nat : q = start[c] \div wire
    BY <1>2
  <1>5. start[c] = wire * q /\ Frame(c, start[c], need[c]).packet = first[c] + q
    BY <1>1, <1>2, <1>3, <1>4
  <1>6. first[c] + q >= first[c] /\ first[c] + q - first[c] = q
    BY <1>1, <1>4
  <1>7. Frame(c, start[c], need[c]).packet - first[c] = q
    BY <1>1, <1>4, <1>5
  <1> QED BY <1>3, <1>5, <1>6, <1>7

LEMMA TakeRecords == ASSUME IInv, NEW c \in Conns, Take(c) PROVE Recorded'
  <1>1. /\ wire' = wire /\ first' = first /\ start'[c] = start[c] + need[c]
        /\ \A d \in Conns \ {c} : start'[d] = start[d] /\ log'[d] = log[d]
    BY TakeEffect DEF deviceVars
  <1>2. /\ wire \in {5, 8} /\ first[c] \in Nat /\ start[c] \in Nat /\ need[c] \in {5, 8}
        /\ log[c] \in Seq(Frames) /\ Len(log[c]) \in Nat
    BY Counted DEF IInv
  <1>3. \A f : Whole(f)' <=> Whole(f)
    BY <1>1 DEF Whole
  <1>4. ASSUME NEW d \in Conns, d # c
        PROVE  /\ \A i \in 1..Len(log'[d]) : Whole(log'[d][i]) =>
                     /\ log'[d][i].packet >= first[d]
                     /\ wire * (log'[d][i].packet + 1 - first[d]) <= start'[d]
               /\ \A i, j \in 1..Len(log'[d]) :
                     i < j /\ Whole(log'[d][i]) /\ Whole(log'[d][j])
                     => log'[d][i].packet < log'[d][j].packet
    BY <1>1, <1>4 DEF IInv, Recorded
  <1>5. /\ \A i \in 1..Len(log[c]) : Whole(log[c][i]) =>
              /\ log[c][i].packet >= first[c]
              /\ wire * (log[c][i].packet + 1 - first[c]) <= start[c]
              /\ log[c][i].packet \in Nat
        /\ \A i, j \in 1..Len(log[c]) :
              i < j /\ Whole(log[c][i]) /\ Whole(log[c][j])
              => log[c][i].packet < log[c][j].packet
    <2>1. \A i \in 1..Len(log[c]) : log[c][i] \in Frames
      BY <1>2
    <2> QED BY <2>1 DEF IInv, Recorded, Frames
  <1>6. CASE log'[c] = log[c]
    <2>1. \A i \in 1..Len(log[c]) : Whole(log[c][i]) =>
              wire * (log[c][i].packet + 1 - first[c]) <= start'[c]
      <3> SUFFICES ASSUME NEW i \in 1..Len(log[c]), Whole(log[c][i])
                   PROVE  wire * (log[c][i].packet + 1 - first[c]) <= start[c] + need[c]
        BY <1>1
      <3>1. PICK q \in Nat : q = log[c][i].packet
        BY <1>5
      <3>2. wire * (q + 1 - first[c]) <= start[c]
        BY <1>5, <3>1
      <3>3. q + 1 - first[c] \in Int
        BY <1>2, <3>1
      <3>4. wire * (q + 1 - first[c]) \in Int
        BY <1>2, <3>3, Times
      <3> QED BY <1>2, <3>1, <3>2, <3>4
    <2> QED BY <1>1, <1>3, <1>4, <1>5, <1>6, <2>1 DEF Recorded
  <1>7. CASE log'[c] = Append(log[c], Frame(c, start[c], need[c]))
    <2> DEFINE f == Frame(c, start[c], need[c])
               n == Len(log[c])
    <2>1. /\ Len(log'[c]) = n + 1 /\ log'[c][n + 1] = f
          /\ \A i \in 1..n : log'[c][i] = log[c][i]
      BY <1>2, <1>7
    <2>2. ASSUME Whole(f)
          PROVE  /\ f.packet >= first[c] /\ f.packet \in Nat
                 /\ wire * (f.packet + 1 - first[c]) <= start'[c]
                 /\ \A i \in 1..n : Whole(log[c][i]) => log[c][i].packet < f.packet
      <3>1. f.packet >= first[c] /\ start[c] = wire * (f.packet - first[c]) /\ need[c] = wire
        BY <2>2, FrameRecorded DEF IInv
      <3>2. f.packet \in Nat
        BY <1>2, FrameType DEF IInv, V1, V2, Frames
      <3>3. PICK p \in Nat : p = f.packet
        BY <3>2
      <3>4. wire * (p + 1 - first[c]) = start[c] + wire
        <4>1. p - first[c] \in Int /\ p + 1 - first[c] = (p - first[c]) + 1
          BY <1>2, <3>3
        <4>2. wire * ((p - first[c]) + 1) = wire * (p - first[c]) + wire
          BY <1>2, <4>1, Times
        <4> QED BY <3>1, <3>3, <4>1, <4>2
      <3>5. ASSUME NEW i \in 1..n, Whole(log[c][i])
            PROVE  log[c][i].packet < p
        <4>1. PICK q \in Nat : q = log[c][i].packet
          BY <1>5, <3>5
        <4>2. wire * (q + 1 - first[c]) <= wire * (p - first[c])
          BY <1>5, <3>1, <3>3, <3>5, <4>1
        <4>3. q + 1 - first[c] \in Int /\ p - first[c] \in Int
          BY <1>2, FromFirst
        <4>4. q + 1 - first[c] <= p - first[c]
          BY <1>2, <4>2, <4>3, Times
        <4>5. q < p
          BY <1>2, <4>4, FromFirst
        <4> QED BY <4>1, <4>5
      <3>6. wire * (f.packet + 1 - first[c]) <= start'[c]
        <4>1. start[c] + wire = start'[c] /\ start[c] + wire \in Nat
          BY <1>1, <1>2, <3>1
        <4>2. wire * (p + 1 - first[c]) <= start'[c]
          BY <3>4, <4>1
        <4> QED BY <3>3, <4>2
      <3>7. \A i \in 1..n : Whole(log[c][i]) => log[c][i].packet < f.packet
        BY <3>3, <3>5
      <3> HIDE DEF f
      <3> QED BY <3>1, <3>2, <3>6, <3>7
    <2>3. ASSUME NEW i \in 1..Len(log'[c]), Whole(log'[c][i])
          PROVE  /\ log'[c][i].packet >= first[c]
                 /\ wire * (log'[c][i].packet + 1 - first[c]) <= start'[c]
      <3>1. CASE i = n + 1
        BY <2>1, <2>2, <2>3, <3>1
      <3>2. CASE i # n + 1
        <4>1. i \in 1..n /\ log'[c][i] = log[c][i]
          BY <1>2, <2>1, <3>2
        <4>2. PICK q \in Nat : q = log[c][i].packet
          BY <1>5, <2>3, <4>1
        <4>3. q >= first[c] /\ wire * (q + 1 - first[c]) <= start[c]
          BY <1>5, <2>3, <4>1, <4>2
        <4>4. q + 1 - first[c] \in Int
          BY <1>2, <4>2
        <4>5. wire * (q + 1 - first[c]) \in Int
          BY <1>2, <4>4, Times
        <4>6. wire * (q + 1 - first[c]) <= start[c] + need[c]
          <5>1. start[c] \in Int /\ need[c] \in Int /\ need[c] >= 0
            BY <1>2
          <5>2. start[c] <= start[c] + need[c]
            BY <5>1
          <5> QED
            BY <4>3, <4>5, <5>1, <5>2, Transitive
        <4> QED BY <1>1, <4>1, <4>2, <4>3, <4>6
      <3> QED BY <3>1, <3>2
    <2>4. ASSUME NEW i \in 1..Len(log'[c]), NEW j \in 1..Len(log'[c]),
                 i < j, Whole(log'[c][i]), Whole(log'[c][j])
          PROVE  log'[c][i].packet < log'[c][j].packet
      <3>1. i \in 1..n /\ log'[c][i] = log[c][i]
        BY <1>2, <2>1, <2>4
      <3>2. CASE j = n + 1
        BY <2>1, <2>2, <2>4, <3>1, <3>2
      <3>3. CASE j # n + 1
        <4>1. j \in 1..n /\ log'[c][j] = log[c][j]
          BY <1>2, <2>1, <3>3
        <4> QED BY <1>5, <2>4, <3>1, <4>1
      <3> QED BY <3>2, <3>3
    <2> QED BY <1>1, <1>3, <1>4, <2>3, <2>4 DEF Recorded
  <1> QED BY <1>6, <1>7, TakeEffect

LEMMA Shift5 ==
    ASSUME NEW i \in Nat
    PROVE  /\ i % 5 = 0 => (i + 8) % 5 = 3
           /\ i % 5 = 3 => (i + 5) % 5 = 3
  OBVIOUS

\* Until a packet is taken for V2 a V1 handler accepts what it has read, and it
\* is the next packet.
LEMMA TakeAligned ==
    ASSUME IInv, NEW c \in Conns, Take(c), wire = V1, c \notin misread
    PROVE  /\ need[c] = V1
           /\ start[c] = V1 * Len(log[c])
           /\ log'[c] = Append(log[c],
                 [packet |-> first[c] + Len(log[c]), offset |-> 0, len |-> V1])
  <1>1. /\ wire = 5 /\ V1 = 5 /\ first[c] \in Nat /\ Len(log[c]) \in Nat
    BY Counted, Constants DEF IInv
  <1>2. need[c] = V1
    BY DEF IInv, Alignment
  <1>3. start[c] = V1 * Len(log[c])
    BY DEF IInv, WholeUntilMisread
  <1>4. start[c] % 5 = 0 /\ start[c] \div 5 = Len(log[c])
    BY <1>1, <1>3, Multiple5
  <1>5. OffsetAt(start[c]) = 0
    BY <1>1, <1>4 DEF OffsetAt
  <1>6. PacketAt(c, start[c]) = first[c] + Len(log[c])
    BY <1>1, <1>4 DEF PacketAt
  <1>7. ChecksumHolds(c)
    BY <1>5 DEF ChecksumHolds
  <1>8. log'[c] = Append(log[c], Frame(c, start[c], need[c]))
    BY <1>5, <1>7, TakeEffect
  <1> QED BY <1>2, <1>3, <1>5, <1>6, <1>8 DEF Frame

LEMMA TakeKeeps == ASSUME IInv, NEW c \in Conns, Take(c) PROVE IInv'
  <1>1. /\ deviceVars' = deviceVars /\ got' = got /\ misread' = misread
        /\ serving' = serving /\ wire' = wire /\ first' = first /\ sent' = sent
        /\ got[c] = start[c] + need[c] /\ c <= conns
        /\ start'[c] = start[c] + need[c] /\ need'[c] = V1
        /\ \A d \in Conns \ {c} :
             start'[d] = start[d] /\ need'[d] = need[d] /\ log'[d] = log[d]
    BY TakeEffect DEF deviceVars
  <1>2. /\ start[c] \in Nat /\ need[c] \in {5, 8} /\ log[c] \in Seq(Frames)
        /\ Len(log[c]) \in Nat /\ first[c] \in Nat
    BY Counted DEF IInv
  <1>3. DeviceTypeOK' /\ Links' /\ Numbers'
    BY <1>1, DeviceStays
  <1>4. HandlerTypeOK'
    <2>1. /\ start' = [start EXCEPT ![c] = @ + need[c]] /\ need' = [need EXCEPT ![c] = V1]
      BY DEF Take
    <2>2. start' \in [Conns -> Nat]
      BY <1>2, <2>1 DEF IInv, TypeOK, HandlerTypeOK
    <2>3. need' \in [Conns -> {V1, V2}]
      BY <2>1 DEF IInv, TypeOK, HandlerTypeOK
    <2> QED BY <1>1, <2>2, <2>3 DEF IInv, TypeOK, HandlerTypeOK, Conns, V1, V2
  <1>5. LogTypeOK'
    <2>1. Frame(c, start[c], need[c]) \in Frames
      BY <1>2, FrameType, Constants DEF IInv
    <2>2. Append(log[c], Frame(c, start[c], need[c])) \in Seq(Frames)
      BY <1>2, <2>1
    <2>3. log' \in [Conns -> Seq(Frames)]
      BY <2>2 DEF Take, IInv, TypeOK, LogTypeOK
    <2> QED BY <2>3 DEF LogTypeOK, Conns, Frames, V1, V2
  <1>6. Streams'
    <2> SUFFICES ASSUME NEW d \in Conns
                 PROVE  /\ start'[d] <= got[d] /\ got[d] <= start'[d] + need'[d]
                        /\ got[d] <= sent[d]
      BY <1>1 DEF Streams, Conns
    <2>1. CASE d = c
      BY <1>1, <1>2, <2>1, Constants DEF IInv, Streams
    <2>2. CASE d # c
      BY <1>1, <2>2 DEF IInv, Streams
    <2> QED BY <2>1, <2>2
  <1>7. Alignment'
    <2> SUFFICES ASSUME NEW d \in Conns, wire = V1
                 PROVE  IF d \in misread
                        THEN \/ need'[d] = V2 /\ start'[d] % V1 = 0
                             \/ need'[d] = V1 /\ start'[d] % V1 = 3
                        ELSE need'[d] = V1
      BY <1>1 DEF Alignment, Conns, V1, V2
    <2>1. CASE d = c /\ c \in misread
      <3>1. \/ need[c] = 8 /\ start[c] % 5 = 0
            \/ need[c] = 5 /\ start[c] % 5 = 3
        BY <2>1, Constants DEF IInv, Alignment
      <3>2. (start[c] + need[c]) % 5 = 3
        BY <1>2, <3>1, Shift5
      <3> QED BY <1>1, <2>1, <3>2, Constants
    <2>2. CASE d = c /\ c \notin misread
      BY <1>1, <2>2
    <2>3. CASE d # c
      BY <1>1, <2>3 DEF IInv, Alignment
    <2> QED BY <2>1, <2>2, <2>3
  <1>8. WholeUntilMisread'
    <2> SUFFICES ASSUME NEW d \in Conns, wire = V1, d \notin misread
                 PROVE  /\ start'[d] = V1 * Len(log'[d])
                        /\ \A i \in 1..Len(log'[d]) : log'[d][i] =
                             [packet |-> first[d] + i - 1, offset |-> 0, len |-> V1]
      BY <1>1 DEF WholeUntilMisread, Conns, V1
    <2>1. CASE d = c
      <3> DEFINE n == Len(log[c])
      <3>1. /\ need[c] = 5 /\ start[c] = 5 * n
            /\ log'[c] = Append(log[c], [packet |-> first[c] + n, offset |-> 0, len |-> V1])
        BY <2>1, TakeAligned, Constants
      <3>2. /\ Len(log'[c]) = n + 1
            /\ log'[c][n + 1] = [packet |-> first[c] + n, offset |-> 0, len |-> V1]
            /\ \A i \in 1..n : log'[c][i] = log[c][i]
        BY <1>2, <3>1
      <3>3. start'[c] = 5 * Len(log'[c])
        BY <1>1, <1>2, <3>1, <3>2
      <3>4. ASSUME NEW i \in 1..Len(log'[c])
            PROVE  log'[c][i] = [packet |-> first[c] + i - 1, offset |-> 0, len |-> V1]
        <4>1. CASE i = n + 1
          <5>1. first[c] + i - 1 = first[c] + n
            BY <1>2, <4>1
          <5> QED BY <3>2, <4>1, <5>1
        <4>2. CASE i # n + 1
          <5>1. i \in 1..n
            BY <1>2, <3>2, <4>2
          <5> QED BY <2>1, <3>2, <5>1 DEF IInv, WholeUntilMisread
        <4> QED BY <4>1, <4>2
      <3> QED BY <2>1, <3>3, <3>4, Constants
    <2>2. CASE d # c
      BY <1>1, <2>2 DEF IInv, WholeUntilMisread
    <2> QED BY <2>1, <2>2
  <1>9. Recorded'
    BY TakeRecords
  <1> QED BY <1>3, <1>4, <1>5, <1>6, <1>7, <1>8, <1>9 DEF IInv, TypeOK

----------------------------------------------------------------------------
(* The theorems *)

LEMMA NextKeeps == IInv /\ [Next]_vars => IInv'
  <1> SUFFICES ASSUME IInv, [Next]_vars PROVE IInv'
    OBVIOUS
  <1>1. CASE Device
    BY <1>1, ConnectKeeps, SendKeeps, SendFailsKeeps, ExitKeeps DEF Device
  <1>2. ASSUME NEW c \in Conns, Handle(c) \/ Abort(c)
        PROVE  IInv'
    BY <1>2, RecvKeeps, LongerKeeps, TakeKeeps, EndKeeps DEF Handle
  <1>3. CASE UNCHANGED vars
    <2>1. /\ wire' = wire /\ packed' = packed /\ conns' = conns /\ link' = link
          /\ first' = first /\ sent' = sent /\ got' = got /\ start' = start
          /\ need' = need /\ serving' = serving /\ misread' = misread /\ log' = log
      BY <1>3 DEF vars, deviceVars, handlerVars
    <2>2. DeviceTypeOK' /\ HandlerTypeOK'
      BY <2>1 DEF IInv, TypeOK, DeviceTypeOK, HandlerTypeOK, Conns, V1, V2
    <2>3. LogTypeOK'
      BY <2>1, LogTypeStays DEF IInv, TypeOK
    <2>4. Streams' /\ Links' /\ Numbers'
      BY <2>1 DEF IInv, Streams, Links, Numbers, Conns
    <2>5. Alignment' /\ WholeUntilMisread' /\ Recorded'
      BY <2>1, HandledStays
    <2> QED BY <2>2, <2>3, <2>4, <2>5 DEF IInv, TypeOK
  <1> QED BY <1>1, <1>2, <1>3 DEF Next

\* IInv holds in every state.
THEOREM Invariance == Spec => []IInv
  BY InitIInv, NextKeeps, PTL DEF Spec

\* Type correctness.
THEOREM TypeCorrect == Spec => []TypeOK
  <1>1. IInv => TypeOK
    BY DEF IInv
  <1> QED BY <1>1, Invariance, PTL

\* Until a V1 packet is taken for V2, exactly the packets sent are passed on,
\* whole, in order and without gaps.
THEOREM PacketsAreWhole == Spec => []WholeUntilMisread
  <1>1. IInv => WholeUntilMisread
    BY DEF IInv
  <1> QED BY <1>1, Invariance, PTL

\* No packet is passed on twice, by one handler or by the handlers of two
\* connections, although the device reconnects when it cannot know what
\* arrived: neither send loop repeats a packet.
AtMostOnce ==
    \A c, d \in Conns : \A i \in 1..Len(log[c]), j \in 1..Len(log[d]) :
        /\ Whole(log[c][i]) /\ Whole(log[d][j])
        /\ log[c][i].packet = log[d][j].packet
        => c = d /\ i = j

\* What was recorded on two connections lies in ranges that do not meet.
LEMMA RecordedOnce == IInv => AtMostOnce
  <1> SUFFICES ASSUME IInv, NEW c \in Conns, NEW d \in Conns,
                      NEW i \in 1..Len(log[c]), NEW j \in 1..Len(log[d]),
                      Whole(log[c][i]), Whole(log[d][j]),
                      log[c][i].packet = log[d][j].packet
               PROVE  c = d /\ i = j
    BY DEF AtMostOnce
  <1>1. ASSUME NEW e \in Conns, NEW k \in 1..Len(log[e]), Whole(log[e][k])
        PROVE  /\ e <= conns /\ log[e][k].packet \in Nat
               /\ log[e][k].packet >= first[e]
               /\ wire * (log[e][k].packet + 1 - first[e]) <= sent[e]
    <2>1. /\ wire \in {5, 8} /\ first[e] \in Nat /\ sent[e] \in Nat /\ got[e] \in Nat
          /\ start[e] \in Nat /\ log[e] \in Seq(Frames) /\ Len(log[e]) \in Nat
      BY Counted DEF IInv
    <2>2. log[e][k] \in Frames
      BY <2>1
    <2>3. PICK q \in Nat : q = log[e][k].packet
      BY <2>2 DEF Frames
    <2>4. wire * (q + 1 - first[e]) <= start[e]
      BY <1>1, <2>3 DEF IInv, Recorded
    <2>11. q >= first[e]
      BY <1>1, <2>3 DEF IInv, Recorded
    <2>5. start[e] <= got[e] /\ got[e] <= sent[e]
      BY DEF IInv, Streams
    <2>6. q + 1 - first[e] \in Int /\ 1 <= q + 1 - first[e]
      BY <2>1, <2>11, FromFirst
    <2>7. wire * (q + 1 - first[e]) \in Int
      BY <2>1, <2>6, Times
    <2>8. wire * (q + 1 - first[e]) <= sent[e]
      <3> DEFINE z == wire * (q + 1 - first[e])
      <3>1. z \in Int /\ z <= start[e] /\ start[e] <= got[e] /\ got[e] <= sent[e]
        BY <2>4, <2>5, <2>7
      <3> HIDE DEF z
      <3>2. z <= sent[e]
        BY <2>1, <3>1
      <3> QED BY <3>2 DEF z
    <2>9. wire * 1 <= wire * (q + 1 - first[e])
      BY <2>1, <2>6, Times
    <2>10. sent[e] > 0
      BY <2>1, <2>7, <2>8, <2>9
    <2> QED BY <2>3, <2>11, <2>8, <2>10, Opened
  <1>2. ASSUME NEW e \in Conns, NEW f \in Conns, e < f,
               NEW k \in 1..Len(log[e]), NEW l \in 1..Len(log[f]),
               Whole(log[e][k]), Whole(log[f][l]),
               log[e][k].packet = log[f][l].packet
        PROVE  FALSE
    <2>1. /\ wire \in {5, 8} /\ first[e] \in Nat /\ sent[e] \in Nat /\ first[f] \in Nat
      BY Counted DEF IInv
    <2>2. PICK q \in Nat : q = log[e][k].packet
      BY <1>1, <1>2
    <2>3. /\ f <= conns /\ q >= first[f] /\ wire * (q + 1 - first[e]) <= sent[e]
      BY <1>1, <1>2, <2>2
    <2>4. sent[e] <= wire * (first[f] - first[e])
      BY <1>2, <2>3 DEF IInv, Numbers
    <2>5. q + 1 - first[e] \in Int /\ first[f] - first[e] \in Int
      BY <2>1
    <2>6. wire * (q + 1 - first[e]) \in Int /\ wire * (first[f] - first[e]) \in Int
      BY <2>1, <2>5, Times
    <2>7. wire * (q + 1 - first[e]) <= wire * (first[f] - first[e])
      BY <2>1, <2>3, <2>4, <2>6
    <2>8. q + 1 - first[e] <= first[f] - first[e]
      BY <2>1, <2>5, <2>7, Times
    <2> QED BY <2>1, <2>3, <2>8
  <1>3. c \in Nat /\ d \in Nat
    BY Constants DEF Conns
  <1>4. c = d
    <2>1. ~(c < d)
      BY <1>2
    <2>2. ~(d < c)
      BY <1>2
    <2> QED BY <1>3, <2>1, <2>2
  <1>5. Len(log[c]) \in Nat /\ log[c][i].packet \in Nat /\ log[c][j].packet \in Nat
    BY <1>1, <1>4, Counted DEF IInv
  <1>6. ~(i < j) /\ ~(j < i)
    BY <1>4, <1>5 DEF IInv, Recorded
  <1>7. i = j
    BY <1>5, <1>4, <1>6
  <1> QED BY <1>4, <1>7

\* No packet is passed on twice, over any number of reconnects.
THEOREM PacketsArePassedOnOnce == Spec => []AtMostOnce
  BY RecordedOnce, Invariance, PTL

\* Once a packet was taken for V2, a V1 handler passes on nothing whole.
LEMMA MisreadStaysMisread == IInv /\ [Next]_vars =>
    [\A c \in misread :
       wire = V1 /\ log'[c] # log[c] => ~Whole(log'[c][Len(log'[c])])]_vars
  <1> SUFFICES ASSUME IInv, Next, NEW c \in misread, wire = V1, log'[c] # log[c]
               PROVE  ~Whole(log'[c][Len(log'[c])])
    BY DEF vars, deviceVars, handlerVars
  <1>1. c \in Conns
    BY DEF IInv, TypeOK, HandlerTypeOK
  <1>2. PICK d \in Conns : Take(d)
    BY DEF Next, Device, Connect, Send, SendFails, Exit, Handle, Recv, Longer,
           EndOfStream, Abort, handlerVars
  <1>3. d = c
    BY <1>1, <1>2, TakeEffect
  <1>4. log'[c] = Append(log[c], Frame(c, start[c], need[c]))
    BY <1>1, <1>2, <1>3, TakeEffect
  <1>5. log[c] \in Seq(Frames) /\ Len(log[c]) \in Nat /\ start[c] \in Nat
    BY <1>1, Counted DEF IInv
  <1>6. log'[c][Len(log'[c])] = Frame(c, start[c], need[c])
    BY <1>4, <1>5
  <1>7. need[c] = V2 \/ (need[c] = V1 /\ start[c] % V1 = 3)
    BY <1>1 DEF IInv, Alignment
  <1>8. ~Whole(Frame(c, start[c], need[c]))
    BY <1>7, Constants DEF Whole, Frame, OffsetAt
  <1> QED BY <1>6, <1>8

THEOREM RealignmentNeverHappens == Spec => NeverRealigns
  BY MisreadStaysMisread, Invariance, PTL DEF Spec, NeverRealigns

----------------------------------------------------------------------------
(* What has arrived is passed on *)

\* The n-th packet of V1 connection c has been sent on a stream that is still
\* in step, and its handler has not passed it on.
Underway(c, n) ==
    /\ wire = V1 /\ c \in serving \ misread
    /\ sent[c] >= V1 * n /\ Len(log[c]) < n

\* The steps of the handler, at most, until it does: a recv() for every word,
\* and one more for every packet.
PassRank(c, n) ==
    (IF got[c] < V1 * n THEN V1 * n - got[c] ELSE 0) + n - Len(log[c])

\* The handler need not wait for the device, and each of its steps brings it
\* nearer, unless it takes a packet for V2; no step of anybody else sets it
\* back, unless it ends the handler.
PassesOn(c, n) ==
    Underway(c, n) =>
        IF Handle(c)
        THEN c \in misread' \/ (c \in serving' /\ PassRank(c, n)' < PassRank(c, n))
        ELSE c \notin serving' \/ PassRank(c, n)' = PassRank(c, n)

LEMMA InStep ==
    ASSUME IInv, NEW c \in Conns, NEW n \in Nat, Underway(c, n)
    PROVE  /\ got[c] \in Nat /\ sent[c] \in Nat /\ start[c] \in Nat /\ Len(log[c]) \in Nat
           /\ start[c] = 5 * Len(log[c]) /\ need[c] = 5
           /\ start[c] <= got[c] /\ got[c] <= start[c] + 5 /\ got[c] <= sent[c]
           /\ start[c] + 5 <= 5 * n /\ 5 * n <= sent[c] /\ 5 * n \in Nat
           /\ Missing(c) = start[c] + 5 - got[c]
<1>1. /\ sent[c] \in Nat /\ got[c] \in Nat /\ start[c] \in Nat
      /\ Missing(c) = start[c] + need[c] - got[c]
      /\ log[c] \in Seq(Frames) /\ Len(log[c]) \in Nat
  BY Counted DEF IInv
<1>2. wire = V1 /\ c \notin misread /\ sent[c] >= 5 * n /\ Len(log[c]) < n
  BY Constants DEF Underway
<1>3. need[c] = 5 /\ start[c] = 5 * Len(log[c])
  BY <1>2, Constants DEF IInv, Alignment, WholeUntilMisread
<1>4. start[c] <= got[c] /\ got[c] <= start[c] + 5 /\ got[c] <= sent[c]
  BY <1>3 DEF IInv, Streams
<1>5. start[c] + 5 <= 5 * n /\ 5 * n \in Nat
  BY <1>1, <1>2, <1>3
<1> QED
  BY <1>1, <1>2, <1>3, <1>4, <1>5

LEMMA HandlePassesOn ==
    ASSUME IInv, NEW c \in Conns, NEW n \in Nat, Underway(c, n), Handle(c)
    PROVE  c \in misread' \/ (c \in serving' /\ PassRank(c, n)' < PassRank(c, n))
<1>1. /\ got[c] \in Nat /\ sent[c] \in Nat /\ start[c] \in Nat /\ Len(log[c]) \in Nat
      /\ start[c] = 5 * Len(log[c]) /\ need[c] = 5
      /\ start[c] <= got[c] /\ got[c] <= start[c] + 5 /\ got[c] <= sent[c]
      /\ start[c] + 5 <= 5 * n /\ 5 * n <= sent[c] /\ 5 * n \in Nat
      /\ Missing(c) = start[c] + 5 - got[c]
  BY InStep
<1>2. c \in serving /\ got \in [Conns -> Nat]
  BY DEF Underway, IInv, TypeOK, HandlerTypeOK
<1>3. CASE Recv(c)
  <2>1. PICK k \in 1..Missing(c) : got' = [got EXCEPT ![c] = @ + k]
    BY <1>3 DEF Recv
  <2>2. log' = log /\ serving' = serving
    BY <1>3 DEF Recv
  <2>3. got'[c] = got[c] + k /\ k \in Nat /\ k >= 1 /\ got[c] < 5 * n
    BY <1>1, <1>2, <2>1
  <2>4. PassRank(c, n)' < PassRank(c, n)
    <3> DEFINE g == got[c]
               l == Len(log[c])
    <3>1. /\ PassRank(c, n) = (IF g < 5 * n THEN 5 * n - g ELSE 0) + n - l
          /\ PassRank(c, n)' = (IF g + k < 5 * n THEN 5 * n - (g + k) ELSE 0) + n - l
      BY <2>2, <2>3, Constants DEF PassRank
    <3>2. g \in Nat /\ l \in Nat /\ k \in Nat /\ k >= 1 /\ g < 5 * n
      BY <1>1, <2>3
    <3> HIDE DEF g, l
    <3> QED
      BY <3>1, <3>2
  <2> QED
    BY <1>2, <2>2, <2>4
<1>4. CASE Longer(c)
  BY <1>4 DEF Longer
<1>5. CASE Take(c)
  <2>1. /\ got' = got /\ serving' = serving
        /\ \/ log'[c] = Append(log[c], Frame(c, start[c], need[c]))
           \/ ~ChecksumHolds(c) \/ OffsetAt(start[c]) # 0
    BY <1>5, TakeEffect
  <2>2. OffsetAt(start[c]) = 0
    BY <1>1, Multiple5, Constants DEF OffsetAt, Underway
  <2>3. ChecksumHolds(c)
    BY <2>2 DEF ChecksumHolds, Underway
  <2>4. Len(log'[c]) = Len(log[c]) + 1
    <3>1. log[c] \in Seq(Frames)
      BY Counted DEF IInv
    <3> QED
      BY <2>1, <2>2, <2>3, <3>1
  <2>5. PassRank(c, n)' < PassRank(c, n)
    <3> DEFINE r == IF got[c] < 5 * n THEN 5 * n - got[c] ELSE 0
               l == Len(log[c])
    <3>1. PassRank(c, n) = r + n - l /\ PassRank(c, n)' = r + n - (l + 1)
      BY <2>1, <2>4, Constants DEF PassRank
    <3>2. r \in Int /\ l \in Int
      BY <1>1
    <3> HIDE DEF r, l
    <3> QED
      BY <3>1, <3>2
  <2> QED
    BY <1>2, <2>1, <2>5
<1>6. CASE EndOfStream(c)
  BY <1>1, <1>6 DEF EndOfStream
<1> QED
  BY <1>3, <1>4, <1>5, <1>6 DEF Handle

LEMMA OthersPassOn ==
    ASSUME IInv, NEW c \in Conns, NEW n \in Nat, [Next]_vars, Underway(c, n), ~Handle(c)
    PROVE  c \notin serving' \/ PassRank(c, n)' = PassRank(c, n)
<1>1. ASSUME NEW d \in Conns, d # c, Handle(d)
      PROVE  got'[c] = got[c] /\ log'[c] = log[c]
  <2>1. got \in [Conns -> Nat] /\ log \in [Conns -> Seq(Frames)]
    BY DEF IInv, TypeOK, HandlerTypeOK, LogTypeOK
  <2> QED
    BY <1>1, <2>1 DEF Handle, Recv, Longer, Take, EndOfStream
<1>2. ASSUME NEW d \in Conns, Abort(d)
      PROVE  got'[c] = got[c] /\ log'[c] = log[c]
  BY <1>2 DEF Abort
<1>3. Device \/ UNCHANGED vars => got'[c] = got[c] /\ log'[c] = log[c]
  BY DEF Device, Connect, Send, SendFails, Exit, vars, handlerVars
<1>4. got'[c] = got[c] /\ log'[c] = log[c]
  BY <1>1, <1>2, <1>3 DEF Next
<1> QED
  BY <1>4 DEF PassRank

(***************************************************************************)
(* The safety half of ArrivedIsPassedOn.  A handler that is in step with a *)
(* V1 stream passes on the n-th packet that arrived within 6 n steps of    *)
(* its own: while it has not, it can receive or take something without     *)
(* waiting for a later packet, the end of the stream cannot cut it off,    *)
(* and neither the device nor another handler sets it back.                *)
(***************************************************************************)
THEOREM ArrivalsArePassedOn ==
    Spec => \A c \in Conns : \A n \in Nat :
               /\ [](Underway(c, n) => /\ PassRank(c, n) \in 1..6 * n
                                       /\ Missing(c) = 0 \/ got[c] < sent[c])
               /\ [][PassesOn(c, n)]_vars
<1> SUFFICES ASSUME NEW c \in Conns, NEW n \in Nat
             PROVE  Spec => /\ [](Underway(c, n) =>
                                    /\ PassRank(c, n) \in 1..6 * n
                                    /\ Missing(c) = 0 \/ got[c] < sent[c])
                            /\ [][PassesOn(c, n)]_vars
  OBVIOUS
<1>1. IInv => (Underway(c, n) => /\ PassRank(c, n) \in 1..6 * n
                                 /\ Missing(c) = 0 \/ got[c] < sent[c])
  <2> SUFFICES ASSUME IInv, Underway(c, n)
               PROVE  /\ PassRank(c, n) \in 1..6 * n
                      /\ Missing(c) = 0 \/ got[c] < sent[c]
    OBVIOUS
  <2>1. /\ got[c] \in Nat /\ sent[c] \in Nat /\ start[c] \in Nat /\ Len(log[c]) \in Nat
        /\ start[c] = 5 * Len(log[c])
        /\ start[c] <= got[c] /\ got[c] <= start[c] + 5
        /\ start[c] + 5 <= 5 * n /\ 5 * n <= sent[c]
        /\ Missing(c) = start[c] + 5 - got[c]
    BY InStep
  <2> DEFINE g == got[c]
             s == sent[c]
             l == Len(log[c])
  <2>2. /\ g \in Nat /\ s \in Nat /\ l \in Nat /\ l < n
        /\ 5 * l <= g /\ g <= 5 * l + 5 /\ 5 * l + 5 <= 5 * n /\ 5 * n <= s
        /\ Missing(c) = 5 * l + 5 - g
        /\ PassRank(c, n) = (IF g < 5 * n THEN 5 * n - g ELSE 0) + n - l
    BY <2>1, Constants DEF PassRank, Underway
  <2> HIDE DEF g, s, l
  <2>3. Missing(c) = 0 \/ g < s
    BY <2>2
  <2>4. PassRank(c, n) \in 1..6 * n
    BY <2>2
  <2> QED
    BY <2>3, <2>4 DEF g, s
<1>2. IInv /\ [Next]_vars => [PassesOn(c, n)]_vars
  BY HandlePassesOn, OthersPassOn DEF PassesOn
<1> QED
  BY <1>1, <1>2, Invariance, PTL DEF Spec

----------------------------------------------------------------------------
(* FlattenSeq.  It is defined by a recursive function; what that computes  *)
(* is shown by looking at the least argument at which it would not.        *)

LEMMA LeastElement ==
    ASSUME NEW A \in SUBSET Nat, A # {}
    PROVE  \E x \in A : \A y \in A : x <= y
<1>1. \E x \in A : \A y \in A : ~ (<<y,x>> \in OpToRel(<,Nat))
  BY NatLessThanWellFounded, WFMin, Zenon
<1>2. PICK x \in A : \A y \in A : ~ (<<y,x>> \in OpToRel(<,Nat))
  BY <1>1
<1>3. ASSUME NEW y \in A PROVE x <= y
  <2>1. ~ (<<y,x>> \in OpToRel(<,Nat))
    BY <1>2, Zenon
  <2>2. x \in Nat /\ y \in Nat
    OBVIOUS
  <2>3. ~ (<<y,x>> \in {ss \in Nat \X Nat : ss[1] < ss[2]})
    BY <2>1, Zenon DEF OpToRel
  <2> QED
    BY <2>2, <2>3
<1> QED BY <1>3

\* f joins the first n sequences of s, as FlattenSeq's function does.
JoinsOf(f, s, n) ==
    f = [i \in 1..n |-> IF i = 1 THEN s[i] ELSE f[i - 1] \o s[i]]

LEMMA PrefixesExist ==
    ASSUME NEW S, NEW s \in Seq(Seq(S)), NEW n \in 0..Len(s)
    PROVE  \E f \in [1..n -> Seq(S)] : JoinsOf(f, s, n)
<1> DEFINE Bad == {m \in 0..Len(s) : ~ \E f \in [1..m -> Seq(S)] : JoinsOf(f, s, m)}
<1>1. Len(s) \in Nat /\ \A i \in 1..Len(s) : s[i] \in Seq(S)
  OBVIOUS
<1>2. SUFFICES Bad = {}
  BY <1>2
<1>3. SUFFICES ASSUME Bad # {} PROVE FALSE
  BY <1>3
<1>4. PICK m \in Bad : \A k \in Bad : m <= k
  <2>1. Bad \in SUBSET Nat
    BY <1>1
  <2> HIDE DEF Bad
  <2> QED
    BY <1>3, <2>1, LeastElement
<1>5. m \in 0..Len(s) /\ ~ \E f \in [1..m -> Seq(S)] : JoinsOf(f, s, m)
  OBVIOUS
<1>6. CASE m = 0
  <2>1. [i \in 1..0 |-> << >>] \in [1..0 -> Seq(S)]
    OBVIOUS
  <2>2. JoinsOf([i \in 1..0 |-> << >>], s, 0)
    BY DEF JoinsOf
  <2> QED
    BY <1>5, <1>6, <2>1, <2>2
<1>7. CASE m > 0
  <2>1. m - 1 \in 0..Len(s) /\ m - 1 \notin Bad
    <3>1. m - 1 \in 0..Len(s) /\ m \in Nat /\ ~(m <= m - 1)
      BY <1>1, <1>5, <1>7
    <3> HIDE DEF Bad
    <3> QED
      BY <1>4, <3>1
  <2>2. PICK f \in [1..(m - 1) -> Seq(S)] : JoinsOf(f, s, m - 1)
    BY <2>1
  <2> DEFINE g == [i \in 1..m |-> IF i < m THEN f[i]
                                  ELSE IF i = 1 THEN s[i] ELSE f[i - 1] \o s[i]]
  <2>3. g \in [1..m -> Seq(S)]
    <3> SUFFICES ASSUME NEW i \in 1..m
                 PROVE  (IF i < m THEN f[i]
                         ELSE IF i = 1 THEN s[i] ELSE f[i - 1] \o s[i]) \in Seq(S)
      OBVIOUS
    <3>1. s[i] \in Seq(S)
      BY <1>1, <1>5
    <3>2. CASE i < m
      BY <3>2, <1>5
    <3>3. CASE i = m /\ i # 1
      <4>1. f[i - 1] \in Seq(S)
        BY <3>3, <1>5
      <4> QED
        BY <3>1, <3>3, <4>1
    <3> QED
      BY <3>1, <3>2, <3>3, <1>5
  <2>4. ASSUME NEW i \in 1..m
        PROVE  g[i] = IF i = 1 THEN s[i] ELSE g[i - 1] \o s[i]
    <3>1. CASE i < m
      <4>1. i \in 1..(m - 1)
        BY <3>1, <1>5
      <4>2. f[i] = IF i = 1 THEN s[i] ELSE f[i - 1] \o s[i]
        BY <2>2, <4>1 DEF JoinsOf
      <4>3. i # 1 => i - 1 \in 1..m /\ i - 1 < m
        BY <1>5
      <4> QED
        BY <3>1, <4>2, <4>3
    <3>2. CASE i = m
      <4>1. i # 1 => i - 1 \in 1..m /\ i - 1 < m
        BY <1>5
      <4> QED
        BY <3>2, <4>1
    <3> QED
      BY <3>1, <3>2, <1>5
  <2>5. JoinsOf(g, s, m)
    <3> HIDE DEF g
    <3> QED
      BY <2>3, <2>4 DEF JoinsOf
  <2> QED
    BY <1>5, <2>3, <2>5
<1> QED
  BY <1>1, <1>5, <1>6, <1>7

LEMMA PrefixesUnique ==
    ASSUME NEW s, NEW n \in Nat, NEW m \in Nat, NEW f, NEW g,
           JoinsOf(f, s, n), JoinsOf(g, s, m), n <= m
    PROVE  \A i \in 1..n : f[i] = g[i]
<1> DEFINE Bad == {i \in 1..n : f[i] # g[i]}
<1>1. SUFFICES ASSUME Bad # {} PROVE FALSE
  BY <1>1
<1>2. PICK i \in Bad : \A k \in Bad : i <= k
  <2>1. Bad \in SUBSET Nat
    OBVIOUS
  <2> HIDE DEF Bad
  <2> QED
    BY <1>1, <2>1, LeastElement
<1>3. i \in 1..n /\ i \in 1..m /\ f[i] # g[i]
  OBVIOUS
<1>4. i # 1 => i - 1 \in 1..n /\ i - 1 \notin Bad
  BY <1>2, <1>3
<1>5. i # 1 => f[i - 1] = g[i - 1]
  BY <1>4
<1>6. f[i] = IF i = 1 THEN s[i] ELSE f[i - 1] \o s[i]
  BY <1>3 DEF JoinsOf
<1>7. g[i] = IF i = 1 THEN s[i] ELSE g[i - 1] \o s[i]
  BY <1>3 DEF JoinsOf
<1> QED
  BY <1>3, <1>5, <1>6, <1>7

LEMMA PrefixesLast ==
    ASSUME NEW a, NEW n \in Nat, n \in 1..n, NEW f, NEW g,
           JoinsOf(f, a, n), JoinsOf(g, a, n + 1)
    PROVE  f[n] = g[n]
<1> DEFINE m == n + 1
<1>1. m \in Nat /\ n <= m /\ JoinsOf(g, a, m)
  OBVIOUS
<1> HIDE DEF m
<1>2. \A i \in 1..n : f[i] = g[i]
  BY <1>1, PrefixesUnique
<1> QED
  BY <1>2

LEMMA FlattenIsPrefix ==
    ASSUME NEW S, NEW s \in Seq(Seq(S)), s # << >>
    PROVE  \E f \in [1..Len(s) -> Seq(S)] :
              JoinsOf(f, s, Len(s)) /\ FlattenSeq(s) = f[Len(s)]
<1> DEFINE F == CHOOSE f : JoinsOf(f, s, Len(s))
<1>1. Len(s) \in Nat /\ Len(s) # 0
  OBVIOUS
<1>2. PICK f \in [1..Len(s) -> Seq(S)] : JoinsOf(f, s, Len(s))
  <2>1. Len(s) \in 0..Len(s)
    BY <1>1
  <2> DEFINE n == Len(s)
  <2>2. n \in 0..Len(s)
    BY <2>1
  <2> HIDE DEF n
  <2>3. \E f \in [1..n -> Seq(S)] : JoinsOf(f, s, n)
    BY <2>2, PrefixesExist
  <2> QED
    BY <2>3 DEF n
<1>3. JoinsOf(F, s, Len(s))
  BY <1>2
<1>4. FlattenSeq(s) = F[Len(s)]
  BY <1>1, Zenon DEF FlattenSeq, JoinsOf
<1>5. \A i \in 1..Len(s) : f[i] = F[i]
  <2> HIDE DEF F
  <2> QED
    BY <1>1, <1>2, <1>3, PrefixesUnique
<1>6. Len(s) \in 1..Len(s)
  BY <1>1
<1>7. f[Len(s)] = F[Len(s)]
  BY <1>5, <1>6, Zenon
<1> QED
  BY <1>2, <1>4, <1>7, Zenon

LEMMA FlattenAppend ==
    ASSUME NEW S, NEW s \in Seq(Seq(S)), NEW t \in Seq(S)
    PROVE  /\ FlattenSeq(s) \in Seq(S)
           /\ FlattenSeq(Append(s, t)) = FlattenSeq(s) \o t
<1> DEFINE a == Append(s, t)
<1>1. /\ a \in Seq(Seq(S)) /\ a # << >> /\ Len(a) = Len(s) + 1
      /\ a[Len(s) + 1] = t /\ \A i \in 1..Len(s) : a[i] = s[i]
      /\ Len(s) \in Nat
  BY AppendProperties, LenProperties
<1> HIDE DEF a
<1>2. PICK g \in [1..(Len(s) + 1) -> Seq(S)] :
         JoinsOf(g, a, Len(s) + 1) /\ FlattenSeq(a) = g[Len(s) + 1]
  BY <1>1, FlattenIsPrefix
<1>3. g[Len(s) + 1] = IF Len(s) = 0 THEN t ELSE g[Len(s)] \o t
  <2>1. Len(s) + 1 \in 1..(Len(s) + 1) /\ Len(s) + 1 - 1 = Len(s)
        /\ (Len(s) + 1 = 1 <=> Len(s) = 0)
    BY <1>1
  <2>2. g = [i \in 1..(Len(s) + 1) |-> IF i = 1 THEN a[i] ELSE g[i - 1] \o a[i]]
    BY <1>2 DEF JoinsOf
  <2> DEFINE n == Len(s) + 1
  <2>3. g[n] = IF n = 1 THEN a[n] ELSE g[n - 1] \o a[n]
    <3> HIDE DEF n
    <3> QED
      BY <2>1, <2>2 DEF n
  <2>4. g[n] = IF Len(s) = 0 THEN a[n] ELSE g[Len(s)] \o a[n]
    BY <2>1, <2>3
  <2> QED
    BY <1>1, <2>4
<1>4. CASE s = << >>
  <2>1. FlattenSeq(s) = << >>
    BY <1>4 DEF FlattenSeq
  <2>2. Len(s) = 0
    BY <1>4
  <2>3. << >> \o t = t /\ << >> \in Seq(S)
    OBVIOUS
  <2> QED
    BY <1>2, <1>3, <2>1, <2>2, <2>3, Zenon DEF a
<1>5. CASE s # << >>
  <2>1. PICK f \in [1..Len(s) -> Seq(S)] :
           JoinsOf(f, s, Len(s)) /\ FlattenSeq(s) = f[Len(s)]
    BY <1>5, FlattenIsPrefix
  <2>2. Len(s) \in 1..Len(s)
    BY <1>1, <1>5
  <2>3. \A i \in 1..Len(s) : s[i] = a[i]
    BY <1>1
  <2>4. Len(s) + 1 \in Nat /\ Len(s) <= Len(s) + 1
    BY <1>1
  <2>5. f[Len(s)] = g[Len(s)]
    <3>1. f = [i \in 1..Len(s) |-> IF i = 1 THEN s[i] ELSE f[i - 1] \o s[i]]
      BY <2>1, Zenon DEF JoinsOf
    <3>2. f = [i \in 1..Len(s) |-> IF i = 1 THEN a[i] ELSE f[i - 1] \o a[i]]
      BY <3>1, <2>3, Zenon
    <3>3. JoinsOf(f, a, Len(s))
      BY <3>2 DEF JoinsOf
    <3>4. JoinsOf(g, a, Len(s) + 1) /\ Len(s) \in Nat
      BY <1>1, <1>2
    <3> QED
      BY <2>2, <3>3, <3>4, PrefixesLast
  <2>6. f[Len(s)] \in Seq(S)
    BY <2>2, Zenon
  <2>7. Len(s) # 0
    BY <1>1, <2>2
  <2> QED
    BY <1>2, <1>3, <2>1, <2>5, <2>6, <2>7 DEF a
<1> QED
  BY <1>4, <1>5

----------------------------------------------------------------------------
(* Refinement: TCP and the handlers are a packet channel *)

LEMMA PacketsAppend ==
    ASSUME NEW fs \in Seq(Frames), NEW f \in Frames
    PROVE  /\ Packets(fs) \in Seq(Nat)
           /\ Packets(Append(fs, f)) =
                IF Whole(f) THEN Append(Packets(fs), f.packet) ELSE Packets(fs)
<1> DEFINE Part(x) == IF Whole(x) THEN <<x.packet>> ELSE << >>
<1> DEFINE s == [i \in DOMAIN fs |-> Part(fs[i])]
<1> DEFINE a == Append(fs, f)
<1> DEFINE t == [i \in DOMAIN a |-> Part(a[i])]
<1>1. ASSUME NEW x \in Frames PROVE Part(x) \in Seq(Nat)
  <2>1. x.packet \in Nat
    BY DEF Frames
  <2> DEFINE n == x.packet
  <2> HIDE DEF n
  <2>2. <<n>> \in Seq(Nat)
    BY <2>1 DEF n
  <2> QED
    BY <2>2, EmptySeq DEF n
<1> HIDE DEF Part
<1>2. /\ DOMAIN fs = 1..Len(fs) /\ Len(fs) \in Nat
      /\ \A i \in 1..Len(fs) : fs[i] \in Frames
  BY LenProperties, ElementOfSeq
<1>3. /\ a \in Seq(Frames) /\ Len(a) = Len(fs) + 1 /\ DOMAIN a = 1..(Len(fs) + 1)
      /\ \A i \in 1..Len(fs) : a[i] = fs[i]
      /\ a[Len(fs) + 1] = f
  BY <1>2, AppendProperties, LenProperties
<1>4. s \in Seq(Seq(Nat)) /\ Len(s) = Len(fs)
  <2>1. s = [i \in 1..Len(fs) |-> Part(fs[i])]
    BY <1>2
  <2>2. \A i \in 1..Len(fs) : Part(fs[i]) \in Seq(Nat)
    BY <1>1, <1>2
  <2>3. s \in [1..Len(fs) -> Seq(Nat)]
    BY <2>1, <2>2
  <2> DEFINE n == Len(fs)
  <2>4. n \in Nat /\ s \in [1..n -> Seq(Nat)]
    BY <1>2, <2>3
  <2> HIDE DEF s, n
  <2>5. s \in Seq(Seq(Nat)) /\ Len(s) = n
    BY <2>4
  <2> QED
    BY <2>5 DEF n
<1> HIDE DEF a
<1>5. t = Append(s, Part(f))
  <2>1. Part(f) \in Seq(Nat)
    BY <1>1
  <2> DEFINE u == Append(s, Part(f))
  <2>2. /\ u \in Seq(Seq(Nat)) /\ Len(u) = Len(fs) + 1
        /\ \A i \in 1..Len(fs) : u[i] = s[i]
        /\ u[Len(fs) + 1] = Part(f)
    <3> HIDE DEF s
    <3> QED
      BY <1>4, <2>1, AppendProperties
  <2>3. \A i \in 1..Len(fs) : s[i] = Part(fs[i])
    BY <1>2
  <2> HIDE DEF s, u
  <2>4. \A i \in 1..(Len(fs) + 1) : u[i] = Part(a[i])
    <3> SUFFICES ASSUME NEW i \in 1..(Len(fs) + 1) PROVE u[i] = Part(a[i])
      OBVIOUS
    <3>1. CASE i \in 1..Len(fs)
      BY <1>3, <2>2, <2>3, <3>1
    <3>2. CASE i = Len(fs) + 1
      BY <1>3, <2>2, <3>2
    <3> QED
      BY <1>2, <3>1, <3>2
  <2>5. u \in [1..(Len(fs) + 1) -> Seq(Nat)]
    BY <2>2, LenProperties
  <2>6. t = u
    BY <1>3, <2>4, <2>5
  <2> QED
    BY <2>6 DEF u
<1>6. Packets(fs) = FlattenSeq(s) /\ Packets(a) = FlattenSeq(t)
  BY DEF Packets, Part
<1>7. FlattenSeq(s) \in Seq(Nat) /\ FlattenSeq(t) = FlattenSeq(s) \o Part(f)
  <2>1. Part(f) \in Seq(Nat)
    BY <1>1
  <2> HIDE DEF s, t
  <2> QED
    BY <1>4, <1>5, <2>1, FlattenAppend
<1> DEFINE g == FlattenSeq(s)
<1>8. CASE Whole(f)
  <2> DEFINE n == f.packet
  <2>1. Part(f) = <<n>> /\ n \in Nat
    BY <1>8 DEF Part, Frames
  <2>2. g \in Seq(Nat)
    BY <1>7
  <2> HIDE DEF g, n
  <2>3. g \o <<n>> = Append(g, n)
    BY <2>1, <2>2, AppendIsConcat
  <2> QED
    BY <1>6, <1>7, <1>8, <2>1, <2>3 DEF g, n, a
<1>9. CASE ~Whole(f)
  <2>1. Part(f) = << >>
    BY <1>9 DEF Part
  <2>2. g \in Seq(Nat)
    BY <1>7
  <2> HIDE DEF g
  <2>3. g \o << >> = g
    BY <2>2, ConcatEmptySeq
  <2> QED
    BY <1>6, <1>7, <1>9, <2>1, <2>2, <2>3 DEF g, a
<1> QED
  BY <1>8, <1>9

\* Every packet that was passed on is that of a whole frame of the log.
PassedInv ==
    \A c \in Conns : \A n \in Range(Passed[c]) :
        \E i \in 1..Len(log[c]) : Whole(log[c][i]) /\ log[c][i].packet = n

LEMMA PassedInit == Init => PassedInv /\ Passed = [c \in Conns |-> << >>]
<1> SUFFICES ASSUME Init PROVE PassedInv /\ Passed = [c \in Conns |-> << >>]
  OBVIOUS
<1>1. Packets(<< >>) = << >>
  <2>1. [i \in DOMAIN << >> |-> IF Whole(<< >>[i]) THEN <<<< >>[i].packet>> ELSE << >>] = << >>
    OBVIOUS
  <2>2. FlattenSeq(<< >>) = << >>
    BY DEF FlattenSeq
  <2> QED
    BY <2>1, <2>2 DEF Packets
<1>2. \A c \in Conns : log[c] = << >>
  BY DEF Init
<1>3. Passed = [c \in Conns |-> << >>]
  BY <1>1, <1>2 DEF Passed
<1>4. Range(<< >>) = {}
  BY EmptySeq DEF Range
<1> QED
  BY <1>3, <1>4 DEF PassedInv

\* Taking is the only step that changes a log.
LEMMA TakeOrKeep ==
    ASSUME [Next]_vars
    PROVE  \/ log' = log /\ wire' = wire /\ packed' \in {packed, packed + 1}
           \/ \E c \in Conns : Take(c)
BY DEF Next, Device, Connect, Send, SendFails, Exit, Handle, Recv, Longer, EndOfStream, Abort,
       vars, deviceVars, handlerVars

\* A frame is added to the log of c: its packet was sent, and it is above those
\* that c passed on before and none of those that others did.
LEMMA FrameIsNew ==
    ASSUME IInv, IInv', NEW c \in Conns, Take(c), NEW f \in Frames, Whole(f),
           log'[c] = Append(log[c], f)
    PROVE  /\ f.packet \in 1..packed
           /\ \A d \in Conns : \A i \in 1..Len(log[d]) :
                Whole(log[d][i]) => log[d][i].packet # f.packet
           /\ \A i \in 1..Len(log[c]) : Whole(log[c][i]) => log[c][i].packet < f.packet
<1> DEFINE n == Len(log[c])
           m == n + 1
<1>1. /\ log[c] \in Seq(Frames) /\ n \in Nat /\ wire' = wire /\ packed' = packed
      /\ wire \in {5, 8} /\ first' = first /\ first[c] \in Nat
  BY TakeEffect, Counted DEF IInv, deviceVars
<1>2. /\ Len(log'[c]) = m /\ log'[c][m] = f /\ m \in 1..m
      /\ \A i \in 1..n : log'[c][i] = log[c][i] /\ i \in 1..m /\ i < m
  BY <1>1, AppendProperties
<1>3. \A g : Whole(g)' <=> Whole(g)
  BY <1>1 DEF Whole
<1>4. f.packet \in Nat
  BY DEF Frames
<1>5. ASSUME NEW d \in Conns, d # c PROVE log'[d] = log[d]
  BY <1>5, TakeEffect
<1> HIDE DEF n, m
<1>6. f.packet \in 1..packed
  <2>1. /\ log'[c][m].packet >= first'[c]
        /\ wire' * (log'[c][m].packet + 1 - first'[c]) <= start'[c]
    BY <1>2, <1>3 DEF IInv, Recorded
  <2>2. f.packet >= first[c] /\ wire * (f.packet + 1 - first[c]) <= start'[c]
    BY <1>1, <1>2, <2>1
  <2>3. /\ start'[c] \in Nat /\ got[c] = start'[c] /\ got[c] <= sent[c] /\ c <= conns
        /\ sent[c] \in Nat /\ got[c] \in Nat
    BY TakeEffect, Counted DEF IInv, Streams
  <2>4. first[c] \in 1..(packed + 1) /\ sent[c] <= wire * (packed + 1 - first[c])
    BY <2>3 DEF IInv, Numbers
  <2>5. packed \in Nat
    BY Constants DEF IInv, TypeOK, DeviceTypeOK
  <2> DEFINE x == f.packet + 1 - first[c]
             y == packed + 1 - first[c]
  <2>6. x \in Int /\ y \in Int
    BY <1>1, <1>4, <2>5
  <2>7. wire * x <= start'[c] /\ sent[c] <= wire * y
    BY <2>2, <2>4
  <2> HIDE DEF x, y
  <2>8. wire * x \in Int /\ wire * y \in Int /\ (wire * x <= wire * y => x <= y)
    BY <1>1, <2>6, Times
  <2>9. x <= y
    BY <2>3, <2>7, <2>8
  <2>10. f.packet <= packed
    BY <1>1, <1>4, <2>5, <2>9, FromFirst DEF x, y
  <2> QED
    BY <1>1, <1>4, <2>2, <2>4, <2>5, <2>10
<1>7. AtMostOnce'
  BY RecordedOnce, PTL
<1>8. ASSUME NEW d \in Conns, NEW i \in 1..Len(log[d]), Whole(log[d][i])
      PROVE  log[d][i].packet # f.packet
  <2>1. CASE d # c
    BY <1>2, <1>3, <1>5, <1>7, <1>8, <2>1 DEF AtMostOnce
  <2>2. CASE d = c
    <3>1. i \in 1..n /\ i \in 1..m /\ i # m /\ log'[c][i] = log[c][i]
      BY <1>1, <1>2, <1>8, <2>2 DEF n, m
    <3> QED
      BY <1>2, <1>3, <1>7, <1>8, <2>2, <3>1 DEF AtMostOnce
  <2> QED
    BY <2>1, <2>2
<1>9. ASSUME NEW i \in 1..n, Whole(log[c][i]) PROVE log[c][i].packet < f.packet
  <2>1. \A k, j \in 1..Len(log'[c]) :
           k < j /\ Whole(log'[c][k]) /\ Whole(log'[c][j]) => log'[c][k].packet < log'[c][j].packet
    BY <1>3 DEF IInv, Recorded
  <2> QED
    BY <1>2, <1>9, <2>1
<1> QED
  BY <1>6, <1>8, <1>9 DEF n

LEMMA RangeJoin ==
    ASSUME NEW s \in Seq(Nat), NEW t \in Seq(Nat)
    PROVE  Range(s \o t) = Range(s) \cup Range(t)
BY RangeConcatenation

LEMMA PassedTypes ==
    ASSUME IInv, NEW c \in Conns
    PROVE  /\ Passed[c] = Packets(log[c]) /\ Packets(log[c]) \in Seq(Nat)
           /\ log[c] \in Seq(Frames) /\ Len(log[c]) \in Nat
<1>1. log[c] \in Seq(Frames) /\ Len(log[c]) \in Nat
  BY Counted DEF IInv
<1>2. Frame(c, 0, V1) \in Frames
  BY FrameType DEF IInv
<1>3. Packets(log[c]) \in Seq(Nat)
  BY <1>1, <1>2, PacketsAppend
<1> QED
  BY <1>1, <1>3 DEF Passed

\* Either the same packets are passed, or one more of connection c is.
LEMMA TakePasses ==
    ASSUME IInv, IInv', PassedInv, NEW c \in Conns, Take(c)
    PROVE  /\ PassedInv' /\ packed' = packed
           /\ \/ Passed' = Passed
              \/ \E p \in 1..packed :
                   /\ \A d \in Conns : \A n \in Range(Passed[d]) : n # p
                   /\ \A n \in Range(Passed[c]) : n < p
                   /\ Passed' = [Passed EXCEPT ![c] = Append(@, p)]
<1> DEFINE f == Frame(c, start[c], need[c])
           s == Packets(log[c])
<1>1. /\ wire' = wire /\ packed' = packed
      /\ \A d \in Conns \ {c} : log'[d] = log[d]
      /\ log'[c] = Append(log[c], f) \/ log'[c] = log[c]
  BY TakeEffect DEF deviceVars
<1>2. Passed' = [d \in Conns |-> Packets(log'[d])] /\ Passed = [d \in Conns |-> Packets(log[d])]
  BY <1>1 DEF Passed, Packets, Whole
<1>3. \A g : Whole(g)' <=> Whole(g)
  BY <1>1 DEF Whole
<1>4. PassedInv' <=> \A d \in Conns : \A n \in Range(Passed'[d]) :
                       \E i \in 1..Len(log'[d]) : Whole(log'[d][i]) /\ log'[d][i].packet = n
  BY <1>3 DEF PassedInv
<1>5. /\ log[c] \in Seq(Frames) /\ Len(log[c]) \in Nat /\ s \in Seq(Nat)
  BY PassedTypes
<1>6. f \in Frames
  <2>1. start[c] \in Nat /\ need[c] \in {V1, V2}
    BY DEF IInv, TypeOK, HandlerTypeOK
  <2> QED
    BY <2>1, FrameType DEF IInv
<1>7. \A d \in Conns : \A n \in Range(Passed[d]) :
         \E i \in 1..Len(log[d]) : Whole(log[d][i]) /\ log[d][i].packet = n
  BY DEF PassedInv
<1> HIDE DEF f, s
<1>8. CASE log'[c] = log[c]
  <2>1. \A d \in Conns : log'[d] = log[d]
    BY <1>1, <1>8
  <2>2. Passed' = Passed
    BY <1>2, <2>1
  <2>3. ASSUME NEW d \in Conns, NEW n \in Range(Passed'[d])
        PROVE  \E i \in 1..Len(log'[d]) : Whole(log'[d][i]) /\ log'[d][i].packet = n
    <3>1. PICK i \in 1..Len(log[d]) : Whole(log[d][i]) /\ log[d][i].packet = n
      BY <1>7, <2>2, <2>3
    <3>2. log'[d] = log[d]
      BY <2>1
    <3> QED
      BY <3>1, <3>2
  <2>4. PassedInv'
    BY <1>4, <2>3
  <2> QED
    BY <1>1, <2>2, <2>4
<1>9. CASE log'[c] = Append(log[c], f)
  <2>1. /\ Len(log'[c]) = Len(log[c]) + 1 /\ log'[c][Len(log[c]) + 1] = f
        /\ \A i \in 1..Len(log[c]) : log'[c][i] = log[c][i]
    BY <1>5, <1>6, <1>9, AppendProperties
  <2>2. \A i \in 1..Len(log[c]) : i \in 1..Len(log'[c])
    BY <1>5, <2>1
  <2>3. ASSUME NEW d \in Conns, NEW n \in Range(Passed[d])
        PROVE  \E i \in 1..Len(log'[d]) : Whole(log'[d][i]) /\ log'[d][i].packet = n
    <3>1. PICK i \in 1..Len(log[d]) : Whole(log[d][i]) /\ log[d][i].packet = n
      BY <1>7
    <3>2. CASE d = c
      BY <2>1, <2>2, <3>1, <3>2
    <3>3. CASE d # c
      <4>1. log'[d] = log[d]
        BY <1>1, <3>3
      <4> QED
        BY <3>1, <4>1
    <3> QED
      BY <3>2, <3>3
  <2>4. CASE ~Whole(f)
    <3>1. Packets(log'[c]) = Packets(log[c])
      BY <1>5, <1>6, <1>9, <2>4, PacketsAppend
    <3>2. Passed' = Passed
      BY <1>1, <1>2, <3>1
    <3>3. PassedInv'
      BY <1>4, <2>3, <3>2
    <3> QED
      BY <1>1, <3>2, <3>3
  <2>5. CASE Whole(f)
    <3> DEFINE p == f.packet
    <3>1. Packets(log'[c]) = Append(s, p)
      BY <1>5, <1>6, <1>9, <2>5, PacketsAppend DEF s
    <3>2. /\ p \in 1..packed
          /\ \A d \in Conns : \A i \in 1..Len(log[d]) : Whole(log[d][i]) => log[d][i].packet # p
          /\ \A i \in 1..Len(log[c]) : Whole(log[c][i]) => log[c][i].packet < p
      BY <1>6, <1>9, <2>5, FrameIsNew
    <3>3. p \in Nat
      BY <1>6 DEF Frames
    <3> HIDE DEF p
    <3>4. Passed[c] = s /\ Passed'[c] = Append(s, p)
      BY <1>2, <3>1 DEF s
    <3>5. \A d \in Conns : \A n \in Range(Passed[d]) : n # p
      BY <1>7, <3>2
    <3>6. \A n \in Range(Passed[c]) : n < p
      BY <1>7, <3>2
    <3>7. Passed' = [Passed EXCEPT ![c] = Append(@, p)]
      BY <1>1, <1>2, <3>4
    <3>8. Range(Append(s, p)) = Range(s) \cup {p}
      <4>1. <<p>> \in Seq(Nat) /\ Append(s, p) = s \o <<p>> /\ Range(<<p>>) = {p}
        BY <1>5, <3>3, AppendIsConcat DEF Range
      <4> QED
        BY <1>5, <4>1, RangeJoin
    <3>9. ASSUME NEW d \in Conns, NEW n \in Range(Passed'[d])
          PROVE  \E i \in 1..Len(log'[d]) : Whole(log'[d][i]) /\ log'[d][i].packet = n
      <4>1. CASE d # c
        <5>1. Passed'[d] = Passed[d]
          BY <1>1, <1>2, <4>1
        <5> QED
          BY <2>3, <3>9, <5>1
      <4>2. CASE d = c /\ n \in Range(s)
        BY <2>3, <3>4, <4>2
      <4>3. CASE d = c /\ n = p
        <5>1. Len(log[c]) + 1 \in 1..Len(log'[c])
          BY <1>5, <2>1
        <5> QED
          BY <2>1, <2>5, <4>3, <5>1 DEF p
      <4>4. ASSUME d = c PROVE n \in Range(s) \/ n = p
        <5>1. Passed'[d] = Append(s, p)
          BY <3>4, <4>4
        <5>2. n \in Range(Append(s, p))
          BY <3>9, <5>1
        <5> QED
          BY <3>8, <5>2
      <4> QED
        BY <4>1, <4>2, <4>3, <4>4
    <3>10. PassedInv'
      BY <1>4, <3>9
    <3> QED
      BY <1>1, <3>2, <3>5, <3>6, <3>7, <3>10
  <2> QED
    BY <2>4, <2>5
<1> QED
  BY <1>1, <1>8, <1>9

LEMMA ChannelStep ==
    ASSUME IInv, IInv', PassedInv, [Next]_vars
    PROVE  PassedInv' /\ [Channel!Next]_<<packed, Passed>>
<1>1. CASE log' = log /\ wire' = wire /\ packed' \in {packed, packed + 1}
  <2>1. Passed' = Passed
    BY <1>1 DEF Passed, Packets, Whole
  <2>2. PassedInv'
    <3>1. \A g : Whole(g)' <=> Whole(g)
      BY <1>1 DEF Whole
    <3> QED
      BY <1>1, <2>1, <3>1 DEF PassedInv
  <2>3. packed' = packed \/ packed' = packed + 1
    BY <1>1
  <2> QED
    BY <2>1, <2>2, <2>3 DEF Channel!Next, Channel!Send
<1>2. ASSUME NEW c \in Conns, NEW p \in 1..packed, packed' = packed,
             \A d \in Conns : \A n \in Range(Passed[d]) : n # p,
             \A n \in Range(Passed[c]) : n < p,
             Passed' = [Passed EXCEPT ![c] = Append(@, p)]
      PROVE  Channel!Deliver(c, p)
  <2>1. ASSUME NEW d \in Conns, NEW i \in DOMAIN Passed[d] PROVE Passed[d][i] \in Range(Passed[d])
    BY DEF Range
  <2>2. ASSUME NEW d \in Conns PROVE DOMAIN Passed[d] = 1..Len(Passed[d])
    BY PassedTypes, LenProperties
  <2> HIDE DEF Passed
  <2>3. \A d \in Conns : ~Channel!Contains(Passed[d], p)
    BY <1>2, <2>1, <2>2 DEF Channel!Contains
  <2>4. \A i \in DOMAIN Passed[c] : Passed[c][i] < p
    BY <1>2, <2>1
  <2> QED
    BY <1>2, <2>3, <2>4, Zenon DEF Channel!Deliver
<1>3. ASSUME NEW c \in Conns, Take(c)
      PROVE  PassedInv' /\ [Channel!Next]_<<packed, Passed>>
  <2>1. CASE Passed' = Passed
    BY <1>3, <2>1, TakePasses
  <2>2. ASSUME NEW p \in 1..packed,
               \A d \in Conns : \A n \in Range(Passed[d]) : n # p,
               \A n \in Range(Passed[c]) : n < p,
               Passed' = [Passed EXCEPT ![c] = Append(@, p)]
        PROVE  [Channel!Next]_<<packed, Passed>>
    <3>1. packed' = packed
      BY <1>3, TakePasses
    <3>2. Channel!Deliver(c, p)
      BY <1>2, <2>2, <3>1
    <3> QED
      BY <3>2 DEF Channel!Next
  <2> QED
    BY <1>3, <2>1, <2>2, TakePasses
<1> QED
  BY <1>1, <1>3, TakeOrKeep

(***************************************************************************)
(* TCP implements the packet channel: through misread packets, broken      *)
(* connections and handlers that are left behind, no packet is passed on   *)
(* twice, none that was not packed, and those of a connection in order.    *)
(***************************************************************************)
THEOREM TcpIsChannel == Spec => IsChannel
<1>1. IInv /\ IInv' /\ PassedInv /\ [Next]_vars => PassedInv'
  BY ChannelStep
<1>2. IInv /\ IInv' /\ PassedInv /\ [Next]_vars => [Channel!Next]_<<packed, Passed>>
  BY ChannelStep
<1>3. Init => Channel!Init /\ PassedInv
  BY PassedInit DEF Init, Channel!Init
<1> QED
  BY <1>1, <1>2, <1>3, Invariance, PTL DEF Spec, IsChannel, Channel!Spec

=============================================================================
