--------------------------- MODULE UartLink_proofs ---------------------------
(***************************************************************************)
(* Theorems about UartLink, for a FIFO of any capacity and any number of   *)
(* packets, sensors and attempts to open.                                  *)
(***************************************************************************)
EXTENDS UartLink, FiniteSetTheorems, SequenceTheorems, TLAPS

\* The bytes on their way: read ahead, and then those in the FIFO.
T == ahead \o pipe

----------------------------------------------------------------------------
(* Bytes *)

LEMMA Constants ==
    /\ Capacity \in Nat /\ OpenTries \in Nat /\ OpenTries >= 1
    /\ MaxPackets \in Nat /\ MaxSensors \in Nat
BY BoundAssumption

\* Which frame a byte belongs to, and where in it it is.
LEMMA FrameByte ==
    ASSUME NEW p \in Nat, NEW o \in 0..21
    PROVE  (p * Frame + o) \div Frame = p /\ Offset(p * Frame + o) = o
<1>1. (p * 22 + o) \div 22 = p /\ (p * 22 + o) % 22 = o
  OBVIOUS
<1> QED
  BY <1>1 DEF Frame, V1, Offset

LEMMA FrameBounds ==
    ASSUME NEW b \in Nat, NEW n \in Nat, Frame <= b, b < n * Frame + Frame
    PROVE  b \div Frame \in 1..n
<1>1. 22 <= b /\ b < n * 22 + 22
  BY DEF Frame, V1
<1>2. b \div 22 \in 1..n
  BY <1>1
<1> QED
  BY <1>2 DEF Frame, V1

LEMMA BodyBytes ==
    ASSUME NEW p \in Nat
    PROVE  /\ Body(p) \in Seq(Nat) /\ Len(Body(p)) = V1 /\ DOMAIN Body(p) = 1..V1
           /\ \A i \in 1..V1 : /\ Body(p)[i] = p * Frame + 1 + i
                               /\ Body(p)[i] \div Frame = p
                               /\ Body(p)[i] > p * Frame + 1 /\ Body(p)[i] < p * Frame + Frame
<1>1. \A i \in 1..20 : p * 22 + 1 + i \in Nat
  OBVIOUS
<1>2. Body(p) = [i \in 1..20 |-> p * 22 + 1 + i]
  BY DEF Body, Frame, V1
<1>3. Body(p) \in Seq(Nat) /\ Len(Body(p)) = 20 /\ DOMAIN Body(p) = 1..20
  BY <1>1, <1>2
<1>4. ASSUME NEW i \in 1..20
      PROVE  /\ Body(p)[i] = p * 22 + 1 + i /\ (p * 22 + 1 + i) \div 22 = p
             /\ p * 22 + 1 + i > p * 22 + 1 /\ p * 22 + 1 + i < p * 22 + 22
  BY <1>2
<1>5. Frame = 22 /\ V1 = 20
  BY DEF Frame, V1
<1> QED
  BY <1>3, <1>4, <1>5

LEMMA MarkerBytes ==
    ASSUME NEW p \in Nat
    PROVE  /\ Marker(p) \in Seq(Nat) /\ Len(Marker(p)) = 2
           /\ Marker(p)[1] = p * Frame /\ Marker(p)[2] = p * Frame + 1
           /\ p * Frame \in Nat
BY DEF Marker, Frame, V1

LEMMA InMember ==
    ASSUME NEW s \in Seq(Nat)
    PROVE  \A n : n \in In(s) <=> \E i \in 1..Len(s) : n = s[i] \div Frame
<1>1. DOMAIN s = 1..Len(s)
  BY LenProperties
<1> QED
  BY <1>1 DEF In, Range

----------------------------------------------------------------------------
(* What the steps do to the bytes on their way *)

\* t is what is left of s without its first n bytes, or the beginning of that.
Window(s, t, n) ==
    /\ n \in 0..Len(s) /\ Len(t) + n <= Len(s)
    /\ \A i \in 1..Len(t) : t[i] = s[n + i]

LEMMA Joined ==
    ASSUME NEW a \in Seq(Nat), NEW b \in Seq(Nat)
    PROVE  /\ a \o b \in Seq(Nat) /\ Len(a) \in Nat /\ Len(b) \in Nat
           /\ Len(a \o b) = Len(a) + Len(b)
           /\ \A i \in 1..Len(a) : (a \o b)[i] = a[i]
           /\ \A i \in 1..Len(b) : (a \o b)[Len(a) + i] = b[i]
           /\ \A i \in 1..Len(a) : a[i] \in Nat
           /\ \A i \in 1..Len(b) : b[i] \in Nat
           /\ \A i \in 1..(Len(a) + Len(b)) : i \in 1..Len(a) \/ i - Len(a) \in 1..Len(b)
<1>1. Len(a) \in Nat /\ Len(b) \in Nat
  BY LenProperties
<1>2. /\ a \o b \in Seq(Nat) /\ Len(a \o b) = Len(a) + Len(b)
      /\ \A i \in 1..(Len(a) + Len(b)) :
           (a \o b)[i] = IF i <= Len(a) THEN a[i] ELSE b[i - Len(a)]
  BY ConcatProperties
<1>3. \A i \in 1..Len(a) : (a \o b)[i] = a[i]
  BY <1>1, <1>2
<1>4. ASSUME NEW i \in 1..Len(b) PROVE (a \o b)[Len(a) + i] = b[i]
  <2> DEFINE k == Len(a) + i
  <2>1. k \in 1..(Len(a) + Len(b)) /\ ~(k <= Len(a)) /\ k - Len(a) = i
    BY <1>1
  <2> HIDE DEF k
  <2>2. (a \o b)[k] = b[i]
    BY <1>2, <2>1
  <2> QED
    BY <2>2 DEF k
<1>5. \A i \in 1..(Len(a) + Len(b)) : i \in 1..Len(a) \/ i - Len(a) \in 1..Len(b)
  BY <1>1
<1>6. (\A i \in 1..Len(a) : a[i] \in Nat) /\ \A i \in 1..Len(b) : b[i] \in Nat
  BY ElementOfSeq
<1> QED
  BY <1>1, <1>2, <1>3, <1>4, <1>5, <1>6

LEMMA Associative ==
    ASSUME NEW a \in Seq(Nat), NEW b \in Seq(Nat), NEW c \in Seq(Nat)
    PROVE  (a \o b) \o c = a \o (b \o c)
BY ConcatAssociative, SMTT(30)

LEMMA Total ==
    ASSUME TypeOK
    PROVE  /\ ahead \in Seq(Nat) /\ pipe \in Seq(Nat) /\ T \in Seq(Nat)
           /\ Len(ahead) \in Nat /\ Len(pipe) \in Nat /\ Len(T) = Len(ahead) + Len(pipe)
           /\ \A i \in 1..Len(ahead) : T[i] = ahead[i]
           /\ \A i \in 1..Len(pipe) : T[Len(ahead) + i] = pipe[i]
           /\ \A i \in 1..Len(T) : T[i] \in Nat
           /\ \A i \in 1..Len(T) : i \in 1..Len(ahead) \/ i - Len(ahead) \in 1..Len(pipe)
<1>1. ahead \in Seq(Nat) /\ pipe \in Seq(Nat)
  BY DEF TypeOK
<1>2. T \in Seq(Nat)
  BY <1>1, Joined DEF T
<1>3. \A i \in 1..Len(T) : T[i] \in Nat
  BY <1>2, ElementOfSeq
<1> QED
  BY <1>1, <1>2, <1>3, Joined DEF T

LEMMA AheadIndex ==
    ASSUME TypeOK, NEW i \in DOMAIN ahead
    PROVE  i \in 1..Len(ahead) /\ i \in Nat /\ i \in 0..Len(ahead)
<1>1. ahead \in Seq(Nat)
  BY DEF TypeOK
<1>2. Len(ahead) \in Nat /\ DOMAIN ahead = 1..Len(ahead)
  BY <1>1, LenProperties
<1> QED
  BY <1>2

\* What a suffix of a sequence is.
LEMMA Suffix ==
    ASSUME NEW s \in Seq(Nat), NEW n \in 0..Len(s)
    PROVE  LET t == SubSeq(s, n + 1, Len(s))
           IN  /\ t \in Seq(Nat) /\ Len(t) = Len(s) - n
               /\ \A i \in 1..Len(t) : t[i] = s[n + i]
<1> DEFINE t == SubSeq(s, n + 1, Len(s))
<1>1. Len(s) \in Nat
  BY LenProperties
<1>2. n + 1 \in 1..(Len(s) + 1) /\ Len(s) \in n..Len(s)
  BY <1>1
<1>3. t \in Seq(Nat) /\ Len(t) = Len(s) - n
  BY <1>1, <1>2, SubSeqProperties
<1>4. \A i \in 1..(Len(s) - n) : t[i] = s[n + i]
  BY <1>1, <1>2, SubSeqProperties
<1> QED
  BY <1>3, <1>4

\* The reader uses n bytes.
LEMMA DropEffect ==
    ASSUME TypeOK, NEW n \in 0..Len(ahead),
           ahead' = SubSeq(ahead, n + 1, Len(ahead)), pipe' = pipe
    PROVE  /\ ahead' \in Seq(Nat) /\ T' \in Seq(Nat)
           /\ Window(T, T', n) /\ Len(T') = Len(T) - n
<1> DEFINE a == ahead'
<1>1. /\ a \in Seq(Nat) /\ Len(a) = Len(ahead) - n /\ Len(a) \in Nat
      /\ \A i \in 1..Len(a) : a[i] = ahead[n + i]
  BY Total, Suffix, LenProperties
<1>2. T' = a \o pipe
  BY DEF T
<1> HIDE DEF a
<1>3. /\ T' \in Seq(Nat) /\ Len(T') = Len(a) + Len(pipe)
      /\ \A i \in 1..Len(a) : T'[i] = a[i]
      /\ \A i \in 1..Len(pipe) : T'[Len(a) + i] = pipe[i]
      /\ \A i \in 1..(Len(a) + Len(pipe)) : i \in 1..Len(a) \/ i - Len(a) \in 1..Len(pipe)
  BY <1>1, <1>2, Total, Joined
<1>4. Len(T') = Len(T) - n /\ n \in 0..Len(T)
  BY <1>1, <1>3, Total
<1>5. ASSUME NEW i \in 1..Len(T') PROVE T'[i] = T[n + i]
  <2>1. CASE i \in 1..Len(a)
    <3> DEFINE k == n + i
    <3>1. k \in 1..Len(ahead)
      BY <1>1, <2>1, Total
    <3>2. T'[i] = ahead[k]
      BY <1>1, <1>3, <2>1
    <3> HIDE DEF k
    <3>3. T[k] = ahead[k]
      BY <3>1, Total
    <3> QED
      BY <3>2, <3>3 DEF k
  <2>2. CASE i - Len(a) \in 1..Len(pipe)
    <3> DEFINE k == i - Len(a)
    <3>1. i = Len(a) + k /\ n + i = Len(ahead) + k /\ k \in 1..Len(pipe)
      BY <1>1, <2>2, Total
    <3> HIDE DEF k
    <3>2. T'[i] = pipe[k] /\ T[n + i] = pipe[k]
      BY <1>3, <3>1, Total
    <3> QED
      BY <3>2
  <2> QED
    BY <1>3, <2>1, <2>2
<1>6. Len(T') + n <= Len(T)
  BY <1>4, Total
<1> QED
  BY <1>1, <1>3, <1>4, <1>5, <1>6 DEF a, Window

\* What step loses after the first n bytes or the step, and to which packets
\* that happened.
Loses(n) ==
    /\ Window(T, T', n)
    /\ harmed \subseteq harmed' /\ harmed' \subseteq harmed \cup In(T)
    /\ \A i \in 1..Len(T) : i <= n \/ i > n + Len(T') => T[i] \div Frame \in harmed'

\* Nothing is lost.
LEMMA KeepEffect ==
    ASSUME TypeOK, T' = T, harmed' = harmed
    PROVE  Loses(0) /\ Len(T') = Len(T)
<1>1. Len(T) \in Nat
  BY Total
<1>2. \A i \in 1..Len(T) : 0 + i = i
  BY <1>1
<1>3. Window(T, T', 0)
  BY <1>1, <1>2 DEF Window
<1>4. \A i \in 1..Len(T) : ~(i <= 0 \/ i > 0 + Len(T'))
  BY <1>1
<1> QED
  BY <1>3, <1>4 DEF Loses

LEMMA FillEffect ==
    ASSUME TypeOK, ahead' = ahead \o pipe, pipe' = << >>
    PROVE  T' = T /\ ahead' \in Seq(Nat)
<1>1. T \in Seq(Nat)
  BY Total
<1>2. T \o << >> = T
  BY <1>1, ConcatEmptySeq
<1> QED
  BY <1>1, <1>2 DEF T

LEMMA AppendEffect ==
    ASSUME TypeOK, NEW s \in Seq(Nat), pipe' = pipe \o s, ahead' = ahead
    PROVE  T' = T \o s
<1>1. ahead \o (pipe \o s) = (ahead \o pipe) \o s
  <2>1. ahead \in Seq(Nat) /\ pipe \in Seq(Nat)
    BY Total
  <2> HIDE DEF T
  <2> QED
    BY <2>1, Associative
<1> QED
  BY <1>1 DEF T

\* The file is closed by one end while the other is open, or by the last end.
LEMMA DiscardEffect ==
    ASSUME TypeOK, NEW last, NEW n,
           \/ Discards(last, << >>) /\ ahead' = ahead /\ n = 0
           \/ Discards(last, ahead) /\ ahead' = << >> /\ n = Len(ahead)
    PROVE  /\ Loses(n)
           /\ pipe' \in Seq(Nat) /\ T' \in Seq(Nat)
           /\ pipe' = << >> \/ pipe' = pipe
<1>e. << >> \in Seq(Nat) /\ Len(<< >>) = 0
  BY EmptySeq
<1>1. pipe' = << >> \/ pipe' = pipe
  BY DEF Discards
<1>2. pipe' \in Seq(Nat) /\ ahead' \in Seq(Nat) /\ T' = ahead' \o pipe'
  BY <1>1, <1>e, Total DEF T
<1>3. T' \in Seq(Nat)
  BY <1>2, Joined
<1>4. n \in 0..Len(T)
  BY Total
<1>5. << >> \o pipe = pipe /\ In(<< >>) = {}
  <2>1. << >> \o pipe = pipe
    BY Total, ConcatEmptySeq
  <2>2. \A b : b \notin In(<< >>)
    <3>1. 1..Len(<< >>) = {}
      BY <1>e
    <3> QED
      BY <1>e, <3>1, InMember
  <2> QED
    BY <2>1, <2>2
<1>6. CASE Discards(last, << >>) /\ ahead' = ahead /\ n = 0 /\ last
  <2>1. T' = ahead /\ harmed' = harmed \cup In(pipe)
    BY <1>5, <1>6, Total, ConcatEmptySeq DEF Discards, T
  <2>2. Window(T, T', n)
    <3>1. \A i \in 1..Len(ahead) : T[0 + i] = ahead[i]
      BY Total
    <3> QED
      BY <1>4, <1>6, <2>1, <3>1, Total DEF Window
  <2>3. ASSUME NEW i \in 1..Len(T), i <= n \/ i > n + Len(T') PROVE T[i] \div Frame \in In(pipe)
    <3> DEFINE k == i - Len(ahead)
    <3>1. k \in 1..Len(pipe) /\ i = Len(ahead) + k
      BY <1>6, <2>1, <2>3, Total
    <3> HIDE DEF k
    <3>2. T[i] = pipe[k]
      BY <3>1, Total
    <3> QED
      BY <3>1, <3>2, Total, InMember
  <2>4. In(pipe) \subseteq In(T)
    <3> SUFFICES ASSUME NEW b \in In(pipe) PROVE b \in In(T)
      OBVIOUS
    <3>1. PICK k \in 1..Len(pipe) : b = pipe[k] \div Frame
      BY Total, InMember
    <3> DEFINE i == Len(ahead) + k
    <3>2. i \in 1..Len(T) /\ T[i] = pipe[k]
      <4>1. /\ Len(ahead) \in Nat /\ Len(pipe) \in Nat /\ Len(T) = Len(ahead) + Len(pipe)
            /\ T[Len(ahead) + k] = pipe[k]
        BY Total
      <4> QED
        BY <4>1
    <3> HIDE DEF i
    <3> QED
      BY <3>1, <3>2, Total, InMember
  <2>5. Loses(n)
    BY <2>1, <2>2, <2>3, <2>4 DEF Loses
  <2> QED
    BY <1>1, <1>2, <1>3, <2>5
<1>7. CASE Discards(last, << >>) /\ ahead' = ahead /\ n = 0 /\ ~last
  <2>1. T' = T /\ harmed' = harmed
    BY <1>5, <1>7 DEF Discards, T
  <2> QED
    BY <1>1, <1>2, <1>3, <1>7, <2>1, KeepEffect
<1>8. CASE Discards(last, ahead) /\ ahead' = << >> /\ n = Len(ahead) /\ last
  <2>1. T' = << >> /\ harmed' = harmed \cup In(T)
    BY <1>e, <1>8, ConcatEmptySeq DEF Discards, T
  <2>2. Window(T, T', n)
    BY <1>4, <1>e, <2>1, Total DEF Window
  <2>3. \A i \in 1..Len(T) : T[i] \div Frame \in In(T)
    BY Total, InMember
  <2>4. Loses(n)
    BY <2>1, <2>2, <2>3 DEF Loses
  <2> QED
    BY <1>1, <1>2, <1>3, <2>4
<1>9. CASE Discards(last, ahead) /\ ahead' = << >> /\ n = Len(ahead) /\ ~last
  <2>1. T' = pipe /\ harmed' = harmed \cup In(ahead)
    BY <1>5, <1>9 DEF Discards, T
  <2>2. Window(T, T', n)
    BY <1>4, <1>9, <2>1, Total DEF Window
  <2>3. ASSUME NEW i \in 1..Len(T), i <= n \/ i > n + Len(T') PROVE T[i] \div Frame \in In(ahead)
    <3>1. i \in 1..Len(ahead) /\ T[i] = ahead[i]
      BY <1>9, <2>1, <2>3, Total
    <3> QED
      BY <3>1, Total, InMember
  <2>4. In(ahead) \subseteq In(T)
    <3> SUFFICES ASSUME NEW b \in In(ahead) PROVE b \in In(T)
      OBVIOUS
    <3>1. PICK i \in 1..Len(ahead) : b = ahead[i] \div Frame
      BY Total, InMember
    <3>2. i \in 1..Len(T) /\ T[i] = ahead[i]
      BY Total
    <3> QED
      BY <3>1, <3>2, Total, InMember
  <2>5. Loses(n)
    BY <2>1, <2>2, <2>3, <2>4 DEF Loses
  <2> QED
    BY <1>1, <1>2, <1>3, <2>5
<1> QED
  BY <1>6, <1>7, <1>8, <1>9

----------------------------------------------------------------------------
(* Types *)

(***************************************************************************)
(* Files and their users: a sensor makes at most one file, it tries to     *)
(* open one less than OpenTries times before it gives up, and while it has *)
(* a file open that has the FIFO's name and the reader has no other.       *)
(***************************************************************************)
FileInv ==
    /\ files <= starts
    /\ name = 0 /\ wpc # "off" => files < starts
    /\ wpc = "open" => tries < OpenTries
    /\ wpc = "data" => packed >= 1 /\ wfile # 0
    /\ wfile # 0 => name = wfile /\ rfile \in {0, wfile}

(***************************************************************************)
(* The bytes on their way are in the order in which they were written, and *)
(* those of the packet that is being written are not yet among them.       *)
(***************************************************************************)
ByteInv ==
    /\ \A i \in 1..Len(T) : Frame <= T[i] /\ T[i] < packed * Frame + Frame
    /\ wpc = "data" => \A i \in 1..Len(T) : T[i] <= packed * Frame + 1
    /\ \A i, j \in 1..Len(T) : i < j => T[i] < T[j]

TypeInv == TypeOK /\ FileInv /\ ByteInv

\* TypeOK in two parts.
StatesOK ==
    /\ files \in 0..MaxSensors /\ name \in 0..files
    /\ wfile \in 0..files /\ rfile \in 0..files
    /\ wpc \in {"off", "open", "loop", "data", "closed"}
    /\ wpc \in {"off", "open", "closed"} => wfile = 0
    /\ tries \in 0..OpenTries /\ starts \in 0..MaxSensors /\ packed \in 0..MaxPackets
    /\ running \in BOOLEAN
    /\ rpc \in {"look", "found", "opening", "next", "scan", "body", "more", "done"}
    /\ rpc \in {"look", "found", "done"} <=> rfile = 0

DataOK ==
    /\ pipe \in Seq(Nat) /\ Len(pipe) <= Capacity
    /\ ahead \in Seq(Nat) /\ handled \in Seq(Seq(Nat))
    /\ written \in SUBSET (1..packed) /\ harmed \in SUBSET (1..packed)

LEMMA TypeParts == TypeOK <=> StatesOK /\ DataOK
BY DEF TypeOK, StatesOK, DataOK

LEMMA TypeInit == Init => TypeInv
<1> SUFFICES ASSUME Init PROVE TypeInv
  OBVIOUS
<1>1. << >> \in Seq(Nat) /\ << >> \in Seq(Seq(Nat)) /\ Len(<< >>) = 0 /\ << >> \o << >> = << >>
  BY EmptySeq, ConcatEmptySeq
<1>2. StatesOK
  <2>1. 0 \in 0..MaxSensors /\ 0 \in 0..0 /\ 0 \in 0..OpenTries /\ 0 \in 0..MaxPackets
    BY Constants
  <2> QED
    BY <2>1 DEF Init, StatesOK
<1>3. DataOK
  <2>1. 0 <= Capacity
    BY Constants
  <2> QED
    BY <1>1, <2>1 DEF Init, DataOK
<1>4. FileInv
  BY Constants DEF Init, FileInv
<1>5. T = << >> /\ 1..0 = {}
  BY <1>1 DEF Init, T
<1>6. ByteInv
  BY <1>1, <1>5 DEF ByteInv
<1> QED
  BY <1>2, <1>3, <1>4, <1>6, TypeParts DEF TypeInv

Bounds ==
    /\ files \in Nat /\ files <= MaxSensors /\ starts \in Nat /\ starts <= MaxSensors
    /\ name \in Nat /\ name <= files /\ wfile \in Nat /\ wfile <= files
    /\ rfile \in Nat /\ rfile <= files
    /\ tries \in Nat /\ tries <= OpenTries /\ packed \in Nat /\ packed <= MaxPackets

LEMMA BoundsHold == ASSUME TypeOK PROVE Bounds /\ StatesOK
<1>1. StatesOK
  BY TypeParts
<1>2. files \in Nat /\ files <= MaxSensors
  BY <1>1, Constants DEF StatesOK
<1> QED
  BY <1>1, <1>2, Constants DEF StatesOK, Bounds

LEMMA SensorStates ==
    ASSUME TypeOK, FileInv, SStart \/ SOpen \/ SMarker \/ SData \/ SDie \/ SClose \/ SUnlink
    PROVE  StatesOK' /\ FileInv'
<1>1. Bounds /\ StatesOK
  BY BoundsHold
<1>2. CASE SStart
  <2>1. /\ starts' = starts + 1 /\ starts' \in 0..MaxSensors /\ wpc' = "open" /\ tries' = 0
        /\ 0 \in 0..OpenTries /\ wfile = 0
        /\ UNCHANGED <<name, files, wfile, packed, rfile, rpc, running>>
    BY <1>1, <1>2, Constants DEF SStart, Bounds, StatesOK, readerVars
  <2>2. StatesOK'
    BY <1>1, <2>1 DEF StatesOK
  <2>3. FileInv'
    BY <1>1, <2>1, Constants DEF FileInv, Bounds
  <2> QED
    BY <2>2, <2>3
<1>3. CASE SOpen
  <2>0. /\ wpc = "open" /\ wfile = 0 /\ tries < OpenTries
        /\ UNCHANGED <<starts, packed, rfile, running>>
    BY <1>1, <1>3 DEF SOpen, FileInv, StatesOK
  <2>1. /\ files' \in 0..MaxSensors /\ files' <= starts /\ name' \in 1..files' /\ files <= files'
    <3>1. CASE name = 0
      <4>1. files' = files + 1 /\ name' = files'
        BY <1>3, <3>1 DEF SOpen
      <4>2. files < starts /\ starts <= MaxSensors /\ files \in Nat /\ starts \in Nat /\ MaxSensors \in Nat
        BY <1>1, <2>0, <3>1, Constants DEF FileInv, Bounds
      <4> QED
        BY <4>1, <4>2
    <3>2. CASE name # 0
      <4>1. files' = files /\ name' = name
        BY <1>3, <3>2 DEF SOpen
      <4>2. files <= starts /\ files <= MaxSensors /\ files \in Nat /\ name \in Nat /\ name <= files
        BY <1>1 DEF FileInv, Bounds
      <4> QED
        BY <3>2, <4>1, <4>2, Constants
    <3> QED
      BY <3>1, <3>2
  <2>2. CASE rfile = name'
    <3>1. wfile' = name' /\ wpc' = "loop" /\ tries' = tries /\ rfile # 0
          /\ rpc' = IF rpc = "opening" THEN "next" ELSE rpc
      BY <1>3, <2>1, <2>2 DEF SOpen
    <3>2. StatesOK'
      BY <1>1, <2>0, <2>1, <3>1 DEF StatesOK, Bounds
    <3>3. FileInv'
      BY <1>1, <2>0, <2>1, <2>2, <3>1 DEF FileInv, Bounds
    <3> QED
      BY <3>2, <3>3
  <2>3. CASE rfile # name'
    <3>1. /\ wfile' = wfile /\ rpc' = rpc /\ tries' = tries + 1 /\ tries' \in 0..OpenTries
          /\ wpc' = IF tries' < OpenTries THEN "open" ELSE "loop"
      BY <1>1, <1>3, <2>0, <2>3, Constants DEF SOpen, Bounds
    <3>2. StatesOK'
      BY <1>1, <2>0, <2>1, <3>1 DEF StatesOK, Bounds
    <3>3. FileInv'
      BY <1>1, <2>0, <2>1, <3>1 DEF FileInv, Bounds
    <3> QED
      BY <3>2, <3>3
  <2> QED
    BY <2>2, <2>3
<1>4. CASE SMarker
  <2>1. /\ packed' = packed + 1 /\ packed' \in 0..MaxPackets /\ packed' >= 1
        /\ wfile # 0 /\ wpc' \in {"loop", "data"}
        /\ UNCHANGED <<name, files, wfile, tries, starts, rfile, rpc, running>>
    BY <1>1, <1>4, Constants DEF SMarker, Bounds, readerVars
  <2>2. StatesOK'
    BY <1>1, <2>1 DEF StatesOK
  <2>3. FileInv'
    BY <1>1, <1>4, <2>1 DEF FileInv, SMarker
  <2> QED
    BY <2>2, <2>3
<1>5. CASE SData
  <2>1. /\ wpc = "data" /\ wpc' = "loop"
        /\ UNCHANGED <<name, files, wfile, tries, starts, packed, rfile, rpc, running>>
    BY <1>5 DEF SData, readerVars
  <2> QED
    BY <1>1, <2>1 DEF StatesOK, FileInv
<1>6. CASE SDie \/ SClose
  <2>1. /\ wpc # "off" /\ wpc' \in {"off", "closed"} /\ wfile' = 0
        /\ UNCHANGED <<name, files, tries, starts, packed, rfile, rpc, running>>
    BY <1>6 DEF SDie, SClose, readerVars
  <2>2. StatesOK'
    BY <1>1, <2>1 DEF StatesOK, Bounds
  <2> QED
    BY <2>1, <2>2 DEF FileInv
<1>7. CASE SUnlink
  <2>1. /\ wpc = "closed" /\ wpc' = "off" /\ name' = 0 /\ wfile = 0
        /\ UNCHANGED <<files, wfile, tries, starts, packed, rfile, rpc, running>>
    BY <1>1, <1>7 DEF SUnlink, readerVars, StatesOK
  <2>2. StatesOK'
    BY <1>1, <2>1 DEF StatesOK, Bounds
  <2> QED
    BY <2>1, <2>2 DEF FileInv
<1> QED
  BY <1>2, <1>3, <1>4, <1>5, <1>6, <1>7

LEMMA ReaderStates ==
    ASSUME TypeOK, FileInv, Reader \/ Stop
    PROVE  StatesOK' /\ FileInv'
<1>1. Bounds /\ StatesOK
  BY BoundsHold
<1>2. UNCHANGED <<name, files, wpc, wfile, tries, starts, packed>> /\ running' \in {running, FALSE}
  BY DEF Reader, RLook, ROpen, RNext, RFill, REnd, RScan, RBody, RLonger, RMore, Handle, Close,
     CloseOn, Stop, sensorVars
<1>3. /\ rfile' \in {rfile, 0, name}
      /\ rpc' \in {"look", "found", "opening", "next", "scan", "body", "more", "done"}
      /\ rpc' \in {"look", "found", "done"} <=> rfile' = 0
  <2>1. CASE RLook
    BY <1>1, <2>1 DEF RLook, StatesOK
  <2>2. CASE ROpen
    <3>1. CASE name = 0
      BY <2>2, <3>1 DEF ROpen
    <3>2. CASE name # 0
      <4>1. rfile' = name /\ rpc' \in {"next", "opening"}
        BY <2>2, <3>2 DEF ROpen
      <4> QED
        BY <3>2, <4>1
    <3> QED
      BY <3>1, <3>2
  <2>3. CASE RNext \/ RFill \/ RScan \/ RLonger \/ Stop
    <3>1. rfile' = rfile
      BY <2>3 DEF RNext, RFill, RScan, RLonger, Stop, readerVars
    <3>2. rpc' = rpc \/ (rpc \in {"next", "scan", "body"} /\ rpc' \in {"scan", "body", "more"})
      BY <2>3 DEF RNext, RFill, RScan, RLonger, Stop, readerVars
    <3> QED
      BY <1>1, <3>1, <3>2 DEF StatesOK
  <2>4. CASE REnd \/ RBody \/ RMore
    <3>1. \/ rpc' = "look" /\ rfile' = 0
          \/ rpc \in {"body", "more"} /\ rpc' = "next" /\ rfile' = rfile
      <4>1. CASE REnd
        BY <4>1 DEF REnd, Close, CloseOn
      <4>2. CASE RBody
        BY <4>2 DEF RBody, Handle, Close, CloseOn
      <4>3. CASE RMore
        BY <4>3 DEF RMore, Handle, Close, CloseOn
      <4> QED
        BY <2>4, <4>1, <4>2, <4>3
    <3> QED
      BY <1>1, <3>1 DEF StatesOK
  <2> QED
    BY <2>1, <2>2, <2>3, <2>4 DEF Reader
<1>4. rfile' \in 0..files
  BY <1>1, <1>3 DEF Bounds
<1>5. running' \in BOOLEAN
  BY <1>1, <1>2 DEF StatesOK
<1>6. StatesOK'
  BY <1>1, <1>2, <1>3, <1>4, <1>5 DEF StatesOK
<1>7. FileInv'
  BY <1>2, <1>3 DEF FileInv
<1> QED
  BY <1>6, <1>7

----------------------------------------------------------------------------
(* What each step does to bytes, blocks and packets *)

LEMMA PackedRange ==
    ASSUME TypeOK, ByteInv
    PROVE  In(T) \subseteq 1..packed
<1>1. packed \in Nat
  BY BoundsHold DEF Bounds
<1> SUFFICES ASSUME NEW n \in In(T) PROVE n \in 1..packed
  OBVIOUS
<1>2. PICK i \in 1..Len(T) : n = T[i] \div Frame
  BY Total, InMember
<1>3. T[i] \in Nat /\ Frame <= T[i] /\ T[i] < packed * Frame + Frame
  BY <1>2, Total DEF ByteInv
<1> QED
  BY <1>1, <1>2, <1>3, FrameBounds

LEMMA ByteWindow ==
    ASSUME TypeOK, ByteInv, T' \in Seq(Nat), NEW n, Window(T, T', n),
           packed' = packed, wpc' = wpc \/ wpc' # "data"
    PROVE  ByteInv'
<1>1. Len(T) \in Nat /\ Len(T') \in Nat /\ n \in Nat /\ n + Len(T') <= Len(T)
  BY Total, LenProperties DEF Window
<1>2. \A i \in 1..Len(T') : n + i \in 1..Len(T) /\ T'[i] = T[n + i]
  BY <1>1 DEF Window
<1>3. \A i \in 1..Len(T') : Frame <= T'[i] /\ T'[i] < packed * Frame + Frame
  BY <1>2 DEF ByteInv
<1>4. wpc' = "data" => \A i \in 1..Len(T') : T'[i] <= packed * Frame + 1
  BY <1>2 DEF ByteInv
<1>5. ASSUME NEW i \in 1..Len(T'), NEW j \in 1..Len(T'), i < j PROVE T'[i] < T'[j]
  <2>1. n + i < n + j /\ n + i \in 1..Len(T) /\ n + j \in 1..Len(T)
    BY <1>1, <1>2, <1>5
  <2>2. T[n + i] < T[n + j]
    BY <2>1 DEF ByteInv
  <2> QED
    BY <1>2, <2>2
<1> QED
  BY <1>3, <1>4, <1>5 DEF ByteInv

\* Bytes are written that come after all others.
LEMMA ByteAppend ==
    ASSUME TypeOK, ByteInv, NEW s \in Seq(Nat), T' = T \o s,
           \A i \in 1..Len(s) : /\ Frame <= s[i] /\ s[i] < packed' * Frame + Frame
                                /\ wpc' = "data" => s[i] <= packed' * Frame + 1,
           \A i, j \in 1..Len(s) : i < j => s[i] < s[j],
           \A i \in 1..Len(T), j \in 1..Len(s) : T[i] < s[j],
           packed' \in Nat, packed <= packed', wpc' = "data" => packed < packed'
    PROVE  ByteInv'
<1>1. T \in Seq(Nat) /\ packed \in Nat
  BY Total, BoundsHold DEF Bounds
<1>2. /\ Len(T) \in Nat /\ Len(s) \in Nat /\ Len(T') = Len(T) + Len(s)
      /\ \A i \in 1..Len(T) : T'[i] = T[i] /\ T[i] \in Nat
      /\ \A i \in 1..Len(s) : T'[Len(T) + i] = s[i] /\ s[i] \in Nat
      /\ \A i \in 1..(Len(T) + Len(s)) : i \in 1..Len(T) \/ i - Len(T) \in 1..Len(s)
  BY <1>1, Joined
<1>3. \A i \in 1..Len(T') : \/ i \in 1..Len(T) /\ T'[i] = T[i]
                           \/ \E k \in 1..Len(s) : i = Len(T) + k /\ T'[i] = s[k]
  <2> SUFFICES ASSUME NEW i \in 1..Len(T'), i \notin 1..Len(T)
               PROVE  \E k \in 1..Len(s) : i = Len(T) + k /\ T'[i] = s[k]
    BY <1>2
  <2>1. i - Len(T) \in 1..Len(s) /\ i = Len(T) + (i - Len(T))
    BY <1>2
  <2> QED
    BY <1>2, <2>1
<1>4. /\ packed * Frame + Frame <= packed' * Frame + Frame
      /\ packed < packed' => packed * Frame + Frame <= packed' * Frame
      /\ packed' * Frame \in Nat /\ packed * Frame \in Nat
  <2>1. packed' \in Nat /\ packed \in Nat /\ packed <= packed'
    BY <1>1
  <2> DEFINE n == packed'
  <2>0. n \in Nat /\ packed \in Nat /\ packed <= n
    BY <2>1
  <2> HIDE DEF n
  <2>4. packed * 22 + 22 <= n * 22 + 22 /\ n * 22 \in Nat /\ packed * 22 \in Nat
    BY <2>0
  <2>5. packed < n => packed * 22 + 22 <= n * 22
    BY <2>0
  <2>2. /\ packed * 22 + 22 <= packed' * 22 + 22
        /\ packed < packed' => packed * 22 + 22 <= packed' * 22
        /\ packed' * 22 \in Nat /\ packed * 22 \in Nat
    BY <2>4, <2>5 DEF n
  <2>3. Frame = 22
    BY DEF Frame, V1
  <2> QED
    BY <2>2, <2>3
<1>5. ASSUME NEW i \in 1..Len(T')
      PROVE  /\ Frame <= T'[i] /\ T'[i] < packed' * Frame + Frame
             /\ wpc' = "data" => T'[i] <= packed' * Frame + 1
  <2>1. CASE i \in 1..Len(T) /\ T'[i] = T[i]
    <3>1. Frame <= T[i] /\ T[i] < packed * Frame + Frame /\ T[i] \in Nat
      BY <1>2, <2>1 DEF ByteInv
    <3> DEFINE x == T'[i]
               m == packed * Frame
               n == packed' * Frame
    <3>2. Frame <= x /\ x < m + Frame /\ x \in Nat
      BY <2>1, <3>1
    <3>3. /\ m \in Nat /\ n \in Nat /\ m + Frame <= n + Frame
          /\ wpc' = "data" => m + Frame <= n
      BY <1>4
    <3>4. Frame = 22
      BY DEF Frame, V1
    <3> HIDE DEF x, m, n
    <3>5. x < n + Frame /\ (wpc' = "data" => x <= n + 1)
      BY <3>2, <3>3, <3>4
    <3> QED
      BY <3>2, <3>5 DEF x, n
  <2> QED
    BY <1>3, <2>1
<1>6. ASSUME NEW i \in 1..Len(T'), NEW j \in 1..Len(T'), i < j PROVE T'[i] < T'[j]
  <2>1. CASE i \in 1..Len(T) /\ j \in 1..Len(T)
    BY <1>2, <1>6, <2>1 DEF ByteInv
  <2>2. ASSUME NEW k \in 1..Len(s), j = Len(T) + k, T'[j] = s[k], i \in 1..Len(T) PROVE T'[i] < T'[j]
    BY <1>2, <2>2
  <2>3. ASSUME NEW k \in 1..Len(s), i = Len(T) + k, T'[i] = s[k] PROVE T'[i] < T'[j]
    <3>1. j \notin 1..Len(T)
      BY <1>2, <1>6, <2>3
    <3>2. PICK m \in 1..Len(s) : j = Len(T) + m /\ T'[j] = s[m]
      BY <1>3, <3>1
    <3>3. k < m
      BY <1>2, <1>6, <2>3, <3>2
    <3> QED
      BY <2>3, <3>2, <3>3
  <2> QED
    BY <1>3, <2>1, <2>2, <2>3
<1> QED
  BY <1>5, <1>6 DEF ByteInv

\* A marker or a body is written, or refused.
LEMMA MarkerEffect ==
    ASSUME TypeOK, ByteInv, SMarker
    PROVE  /\ UNCHANGED <<harmed, written, handled, ahead, rpc>> /\ packed' = packed + 1
           /\ packed' \in Nat /\ pipe' \in Seq(Nat) /\ Len(pipe') <= Capacity /\ ByteInv'
           /\ \/ T' = T /\ wpc' # "data"
              \/ T' = T \o Marker(packed')
<1>1. /\ UNCHANGED <<harmed, written, handled, ahead, rpc>> /\ packed' = packed + 1 /\ wpc = "loop"
      /\ packed \in Nat /\ packed' \in Nat
  BY BoundsHold DEF SMarker, readerVars, Bounds
<1>2. CASE ~Room(Marker(packed'))
  <2>1. pipe' = pipe /\ wpc' = wpc /\ T' = T
    BY <1>1, <1>2 DEF SMarker, T
  <2>2. packed * Frame + Frame <= packed' * Frame + Frame /\ packed * Frame + Frame \in Nat
    BY <1>1 DEF Frame, V1
  <2>3. \A i \in 1..Len(T) : Frame <= T[i] /\ T[i] < packed' * Frame + Frame
    <3> SUFFICES ASSUME NEW i \in 1..Len(T) PROVE Frame <= T[i] /\ T[i] < packed' * Frame + Frame
      OBVIOUS
    <3>1. T[i] \in Nat /\ Frame <= T[i] /\ T[i] < packed * Frame + Frame
      BY Total DEF ByteInv
    <3> QED
      BY <1>1, <2>2, <3>1 DEF Frame, V1
  <2>4. ByteInv'
    BY <1>1, <2>1, <2>3 DEF ByteInv
  <2> QED
    BY <1>1, <2>1, <2>4, Total DEF TypeOK
<1>3. CASE Room(Marker(packed'))
  <2> DEFINE s == Marker(packed')
  <2>1. /\ s \in Seq(Nat) /\ Len(s) = 2 /\ s[1] = packed' * Frame /\ s[2] = packed' * Frame + 1
        /\ packed' * Frame \in Nat
    BY <1>1, MarkerBytes
  <2>2. pipe' = pipe \o s /\ Len(pipe) + Len(s) <= Capacity
    BY <1>3 DEF SMarker, Room
  <2> HIDE DEF s
  <2>3. pipe' \in Seq(Nat) /\ Len(pipe') <= Capacity
    BY <2>1, <2>2, Total, Joined
  <2>4. T' = T \o s
    BY <1>1, <2>1, <2>2, AppendEffect
  <2>5. packed * Frame + Frame = packed' * Frame /\ Frame <= packed' * Frame
        /\ packed' * Frame + 1 < packed' * Frame + Frame
    BY <1>1 DEF Frame, V1
  <2>6. \A i \in 1..Len(s) : i = 1 \/ i = 2
    BY <2>1
  <2>7. ASSUME NEW i \in 1..Len(T), NEW j \in 1..Len(s) PROVE T[i] < s[j]
    <3>1. T[i] \in Nat /\ T[i] < packed' * Frame
      BY <2>5, Total DEF ByteInv
    <3> QED
      BY <2>1, <2>6, <3>1
  <2>8. ASSUME NEW i \in 1..Len(s)
        PROVE  /\ Frame <= s[i] /\ s[i] < packed' * Frame + Frame
               /\ s[i] <= packed' * Frame + 1
    BY <2>1, <2>5, <2>6 DEF Frame, V1
  <2>9. ASSUME NEW i \in 1..Len(s), NEW j \in 1..Len(s), i < j PROVE s[i] < s[j]
    <3>1. i = 1 /\ j = 2
      BY <2>6, <2>9
    <3> QED
      BY <2>1, <3>1
  <2>10. packed <= packed' /\ packed < packed'
    BY <1>1
  <2>11. ByteInv'
    BY <1>1, <2>1, <2>4, <2>7, <2>8, <2>9, <2>10, ByteAppend
  <2> QED
    BY <1>1, <2>3, <2>4, <2>11 DEF s
<1> QED
  BY <1>2, <1>3

LEMMA DataEffect ==
    ASSUME TypeOK, FileInv, ByteInv, SData
    PROVE  /\ UNCHANGED <<harmed, handled, ahead, rpc, packed>> /\ wpc = "data" /\ wpc' = "loop"
           /\ packed \in 1..MaxPackets
           /\ pipe' \in Seq(Nat) /\ Len(pipe') <= Capacity /\ ByteInv'
           /\ \/ T' = T /\ written' = written
              \/ T' = T \o Body(packed) /\ written' = written \cup {packed}
<1>1. /\ UNCHANGED <<harmed, handled, ahead, rpc, packed>> /\ wpc = "data" /\ wpc' = "loop"
      /\ packed \in Nat /\ packed \in 1..MaxPackets
  BY BoundsHold, Constants DEF SData, readerVars, Bounds, FileInv
<1>2. CASE ~Room(Body(packed))
  <2>1. pipe' = pipe /\ T' = T /\ written' = written
    BY <1>1, <1>2 DEF SData, T
  <2>2. ByteInv'
    BY <1>1, <2>1 DEF ByteInv
  <2> QED
    BY <1>1, <2>1, <2>2, Total DEF TypeOK
<1>3. CASE Room(Body(packed))
  <2> DEFINE s == Body(packed)
  <2>1. /\ s \in Seq(Nat) /\ Len(s) = V1
        /\ \A i \in 1..V1 : /\ s[i] = packed * Frame + 1 + i
                            /\ s[i] > packed * Frame + 1 /\ s[i] < packed * Frame + Frame
    BY <1>1, BodyBytes
  <2>2. pipe' = pipe \o s /\ Len(pipe) + Len(s) <= Capacity /\ written' = written \cup {packed}
    BY <1>3 DEF SData, Room
  <2> HIDE DEF s
  <2>3. pipe' \in Seq(Nat) /\ Len(pipe') <= Capacity
    BY <2>1, <2>2, Total, Joined
  <2>4. T' = T \o s
    BY <1>1, <2>1, <2>2, AppendEffect
  <2>5. packed * Frame \in Nat /\ Frame <= packed * Frame
    BY <1>1 DEF Frame, V1
  <2>6. ASSUME NEW i \in 1..Len(s)
        PROVE  /\ s[i] \in Nat /\ Frame <= s[i] /\ s[i] < packed * Frame + Frame
               /\ s[i] > packed * Frame + 1
    <3>1. s[i] \in Nat
      BY <2>1, ElementOfSeq
    <3>2. i \in 1..V1
      BY <2>1
    <3>3. s[i] > packed * Frame + 1 /\ s[i] < packed * Frame + Frame
      BY <2>1, <3>2
    <3>4. Frame \in Nat
      BY DEF Frame, V1
    <3>5. Frame <= s[i]
      BY <2>5, <3>1, <3>3, <3>4
    <3> QED
      BY <3>1, <3>3, <3>5
  <2>7. ASSUME NEW i \in 1..Len(T), NEW j \in 1..Len(s) PROVE T[i] < s[j]
    <3>1. T[i] \in Nat /\ T[i] <= packed * Frame + 1
      BY <1>1, Total DEF ByteInv
    <3> QED
      BY <2>5, <2>6, <3>1
  <2>8. ASSUME NEW i \in 1..Len(s), NEW j \in 1..Len(s), i < j PROVE s[i] < s[j]
    <3>1. V1 \in Nat
      BY DEF V1
    <3> QED
      BY <2>1, <2>5, <2>8, <3>1
  <2>9. packed' \in Nat /\ packed <= packed'
    BY <1>1
  <2>10. ByteInv'
    BY <1>1, <2>1, <2>4, <2>6, <2>7, <2>8, <2>9, ByteAppend
  <2> QED
    BY <1>1, <2>2, <2>3, <2>4, <2>10 DEF s
<1> QED
  BY <1>2, <1>3

\* The first bytes read ahead, and those behind them.
LEMMA BlockBytes ==
    ASSUME TypeOK, NEW len \in Nat, len <= Len(ahead)
    PROVE  LET block == SubSeq(ahead, 1, len)
           IN  /\ block \in Seq(Nat) /\ Len(block) = len
               /\ \A i \in 1..len : block[i] = T[i]
               /\ In(block) \subseteq In(T)
               /\ \A i \in 1..len : T[i] \div Frame \in In(block)
<1> DEFINE block == SubSeq(ahead, 1, len)
<1>2. len \in 0..Len(ahead) /\ Len(ahead) \in Nat
  BY Total
<1>3. /\ block \in Seq(Nat) /\ Len(block) = len
      /\ \A i \in 1..len : block[i] = ahead[i]
  <2>1. 1 \in 1..(Len(ahead) + 1) /\ len \in (1 - 1)..Len(ahead)
    BY <1>2
  <2>2. block \in Seq(Nat) /\ Len(block) = len - 1 + 1
        /\ \A i \in 1..(len - 1 + 1) : block[i] = ahead[1 + i - 1]
    <3>1. ahead \in Seq(Nat)
      BY Total
    <3> QED
      BY <2>1, <3>1, SubSeqProperties
  <2>3. len - 1 + 1 = len /\ \A i \in 1..len : 1 + i - 1 = i
    OBVIOUS
  <2> QED
    BY <2>2, <2>3
<1> HIDE DEF block
<1>4. \A i \in 1..len : block[i] = T[i] /\ i \in 1..Len(T)
  <2> SUFFICES ASSUME NEW i \in 1..len PROVE block[i] = T[i] /\ i \in 1..Len(T)
    OBVIOUS
  <2>1. i \in 1..Len(ahead) /\ Len(pipe) \in Nat /\ Len(T) = Len(ahead) + Len(pipe)
    BY <1>2, Total
  <2>2. T[i] = ahead[i]
    BY <2>1, Total
  <2>3. i \in 1..Len(T)
    BY <1>2, <2>1
  <2> QED
    BY <1>3, <2>2, <2>3
<1>7. In(block) \subseteq In(T)
  <2> SUFFICES ASSUME NEW b \in In(block) PROVE b \in In(T)
    OBVIOUS
  <2>1. PICK i \in 1..len : b = block[i] \div Frame
    BY <1>3, InMember
  <2> QED
    BY <1>4, <2>1, Total, InMember
<1>8. \A i \in 1..len : T[i] \div Frame \in In(block)
  BY <1>3, <1>4, InMember
<1> QED
  BY <1>3, <1>4, <1>7, <1>8 DEF block

LEMMA CloseEffect ==
    ASSUME TypeOK, Close
    PROVE  /\ Loses(Len(ahead)) /\ T' \in Seq(Nat) /\ ahead' \in Seq(Nat) /\ pipe' \in Seq(Nat)
           /\ pipe' = << >> \/ pipe' = pipe
           /\ UNCHANGED sensorVars /\ rpc' = "look" /\ ahead' = << >>
<1>1. Discards(wfile # rfile, ahead) /\ ahead' = << >> /\ UNCHANGED sensorVars /\ rpc' = "look"
  BY DEF Close, CloseOn
<1>2. << >> \in Seq(Nat)
  BY EmptySeq
<1> QED
  BY <1>1, <1>2, DiscardEffect

\* The first len bytes on their way are used, and what is lost behind them harms
\* its packets.
LosesAfter(len) ==
    /\ harmed \subseteq harmed' /\ harmed' \subseteq harmed \cup In(T)
    /\ \E n \in Nat :
         /\ len <= n /\ Window(T, T', n)
         /\ \A i \in 1..Len(T) :
              len < i /\ (i <= n \/ i > n + Len(T')) => T[i] \div Frame \in harmed'

\* The file is closed when len of the bytes read ahead are used.
LEMMA CloseRestEffect ==
    ASSUME TypeOK, NEW len \in Nat, len <= Len(ahead),
           CloseOn(SubSeq(ahead, len + 1, Len(ahead)))
    PROVE  /\ LosesAfter(len) /\ T' \in Seq(Nat) /\ ahead' \in Seq(Nat) /\ pipe' \in Seq(Nat)
           /\ pipe' = << >> \/ pipe' = pipe
<1> DEFINE rest == SubSeq(ahead, len + 1, Len(ahead))
           n == Len(ahead)
<1>1. Discards(wfile # rfile, rest) /\ ahead' = << >>
  BY DEF CloseOn
<1>2. /\ n \in Nat /\ len \in 0..n /\ pipe \in Seq(Nat) /\ Len(pipe) \in Nat /\ T \in Seq(Nat)
      /\ Len(T) = n + Len(pipe)
  BY Total
<1>3. /\ rest \in Seq(Nat) /\ Len(rest) = n - len
      /\ \A i \in 1..Len(rest) : rest[i] = ahead[len + i]
  BY <1>2, Suffix, Total
<1> HIDE DEF rest, n
<1>4. << >> \in Seq(Nat) /\ Len(<< >>) = 0 /\ (pipe' = << >> \/ pipe' = pipe)
  BY <1>1, EmptySeq DEF Discards
<1>5. T' = pipe'
  <2>1. T' = << >> \o pipe' /\ pipe' \in Seq(Nat)
    BY <1>1, <1>2, <1>4, EmptySeq DEF T
  <2> QED
    BY <2>1, ConcatEmptySeq
<1>6. ASSUME NEW i \in 1..Len(T), len < i, i <= n PROVE T[i] \div Frame \in In(rest)
  <2>1. i \in 1..Len(ahead)
    BY <1>2, <1>6 DEF n
  <2>2. T[i] = ahead[i]
    BY <2>1, Total
  <2> DEFINE j == i - len
  <2>3. j \in 1..Len(rest) /\ len + j = i
    <3>1. i \in Nat /\ n \in Nat /\ Len(rest) = n - len /\ len < i /\ i <= n
      BY <1>2, <1>3, <1>6
    <3> QED
      BY <3>1
  <2> HIDE DEF j
  <2>4. rest[j] = ahead[i]
    BY <1>3, <2>3
  <2> QED
    BY <1>3, <2>2, <2>3, <2>4, InMember
<1>7. In(rest) \subseteq In(T)
  <2> SUFFICES ASSUME NEW b \in In(rest) PROVE b \in In(T)
    OBVIOUS
  <2>1. PICK j \in 1..Len(rest) : b = rest[j] \div Frame
    BY <1>3, InMember
  <2> DEFINE i == len + j
  <2>2. i \in 1..Len(ahead) /\ i \in 1..Len(T)
    BY <1>2, <1>3 DEF n
  <2>3. rest[j] = ahead[i]
    BY <1>3
  <2> HIDE DEF i
  <2>4. T[i] = ahead[i]
    BY <2>2, Total
  <2> QED
    BY <1>2, <2>1, <2>2, <2>3, <2>4, InMember
<1>8. CASE wfile # rfile
  <2>1. pipe' = << >> /\ harmed' = harmed \cup In(rest \o pipe)
    BY <1>1, <1>8 DEF Discards
  <2>2. In(rest \o pipe) = In(rest) \cup In(pipe)
    <3>1. Range(rest \o pipe) = Range(rest) \cup Range(pipe)
      BY <1>2, <1>3, RangeConcatenation
    <3> QED
      BY <3>1 DEF In
  <2>3. ASSUME NEW i \in 1..Len(T), n < i PROVE T[i] \div Frame \in In(pipe)
    <3> DEFINE j == i - n
    <3>1. j \in 1..Len(pipe) /\ i = n + j
      BY <1>2, <2>3
    <3> HIDE DEF j
    <3>2. T[i] = pipe[j]
      BY <3>1, Total DEF n
    <3> QED
      BY <1>2, <3>1, <3>2, InMember
  <2>4. In(pipe) \subseteq In(T)
    <3> SUFFICES ASSUME NEW b \in In(pipe) PROVE b \in In(T)
      OBVIOUS
    <3>1. PICK j \in 1..Len(pipe) : b = pipe[j] \div Frame
      BY <1>2, InMember
    <3> DEFINE i == n + j
    <3>2. i \in 1..Len(T)
      BY <1>2
    <3>3. T[i] = pipe[j]
      BY Total DEF n
    <3> HIDE DEF i
    <3> QED
      BY <1>2, <3>1, <3>2, <3>3, InMember
  <2>5. Window(T, T', n)
    BY <1>2, <1>4, <1>5, <2>1 DEF Window
  <2>6. \A i \in 1..Len(T) : len < i => T[i] \div Frame \in harmed'
    BY <1>2, <1>6, <2>1, <2>2, <2>3
  <2>7. LosesAfter(len)
    BY <1>2, <1>7, <2>1, <2>2, <2>4, <2>5, <2>6 DEF LosesAfter
  <2> QED
    BY <1>1, <1>4, <1>5, <2>1, <2>7
<1>9. CASE wfile = rfile
  <2>1. pipe' = pipe /\ harmed' = harmed \cup In(rest)
    BY <1>1, <1>9 DEF Discards
  <2>2. Window(T, T', n)
    <3>1. \A i \in 1..Len(pipe) : pipe[i] = T[n + i]
      BY Total DEF n
    <3> QED
      BY <1>2, <1>5, <2>1, <3>1 DEF Window
  <2>3. \A i \in 1..Len(T) : ~(i > n + Len(T'))
    BY <1>2, <1>5, <2>1
  <2>4. LosesAfter(len)
    BY <1>2, <1>6, <1>7, <2>1, <2>2, <2>3 DEF LosesAfter
  <2> QED
    BY <1>1, <1>2, <1>4, <1>5, <2>1, <2>4
<1> QED
  BY <1>8, <1>9

\* A block is taken: what it takes, what is lost behind it, and whom that harms.
LEMMA HandleEffect ==
    ASSUME TypeOK, NEW len \in Nat, len <= Len(ahead), Handle(len)
    PROVE  LET block == SubSeq(ahead, 1, len)
           IN  /\ block \in Seq(Nat) /\ Len(block) = len
               /\ \A i \in 1..len : block[i] = T[i]
               /\ handled' = Append(handled, block) /\ handled' \in Seq(Seq(Nat))
               /\ T' \in Seq(Nat) /\ ahead' \in Seq(Nat) /\ pipe' \in Seq(Nat)
               /\ pipe' = << >> \/ pipe' = pipe
               /\ LosesAfter(len)
               /\ ~Whole(block) => \A i \in 1..len : T[i] \div Frame \in harmed'
               /\ UNCHANGED sensorVars
<1> DEFINE block == SubSeq(ahead, 1, len)
           rest == SubSeq(ahead, len + 1, Len(ahead))
           Goal == /\ T' \in Seq(Nat) /\ ahead' \in Seq(Nat) /\ pipe' \in Seq(Nat)
                   /\ pipe' = << >> \/ pipe' = pipe
                   /\ LosesAfter(len)
                   /\ ~Whole(block) => \A i \in 1..len : T[i] \div Frame \in harmed'
<1>1. handled' = Append(handled, block) /\ UNCHANGED sensorVars
  BY DEF Handle, CloseOn
<1>2. /\ block \in Seq(Nat) /\ Len(block) = len
      /\ \A i \in 1..len : block[i] = T[i]
      /\ In(block) \subseteq In(T)
      /\ \A i \in 1..len : T[i] \div Frame \in In(block)
  BY BlockBytes
<1>3. handled' \in Seq(Seq(Nat))
  BY <1>1, <1>2, AppendProperties DEF TypeOK
<1>4. len \in 0..Len(ahead) /\ Len(ahead) \in Nat /\ Len(T) \in Nat
  BY Total
<1>5. \/ /\ ahead' = rest /\ pipe' = pipe
         /\ harmed' = IF Whole(block) THEN harmed ELSE harmed \cup In(block)
      \/ Whole(block) /\ CloseOn(rest)
      \/ ~Whole(block) /\ Close
  BY DEF Handle, Close
<1>6. ASSUME ahead' = rest, pipe' = pipe,
             harmed' = IF Whole(block) THEN harmed ELSE harmed \cup In(block)
      PROVE  Goal
  <2>1. T' \in Seq(Nat) /\ ahead' \in Seq(Nat) /\ Window(T, T', len) /\ Len(T') = Len(T) - len
    BY <1>4, <1>6, DropEffect
  <2> HIDE DEF block, rest
  <2>2. \A i \in 1..Len(T) : ~(len < i /\ (i <= len \/ i > len + Len(T')))
    BY <1>4, <2>1
  <2>3. LosesAfter(len)
    BY <1>2, <1>6, <2>1, <2>2 DEF LosesAfter
  <2>4. ~Whole(block) => \A i \in 1..len : T[i] \div Frame \in harmed'
    BY <1>2, <1>6
  <2> QED
    BY <1>6, <2>1, <2>3, <2>4, Total
<1>7. ASSUME Whole(block), CloseOn(rest) PROVE Goal
  BY <1>7, CloseRestEffect
<1>8. ASSUME ~Whole(block), Close PROVE Goal
  <2>1. /\ Loses(Len(ahead)) /\ T' \in Seq(Nat) /\ ahead' \in Seq(Nat) /\ pipe' \in Seq(Nat)
        /\ pipe' = << >> \/ pipe' = pipe
    BY <1>8, CloseEffect
  <2> HIDE DEF block, rest
  <2>2. LosesAfter(len)
    BY <1>4, <2>1 DEF Loses, LosesAfter
  <2>3. \A i \in 1..len : i \in 1..Len(T) /\ i <= Len(ahead)
    <3>1. Len(ahead) <= Len(T)
      BY Total
    <3> QED
      BY <1>4, <3>1
  <2>4. \A i \in 1..len : T[i] \div Frame \in harmed'
    BY <2>1, <2>3 DEF Loses
  <2> QED
    BY <2>1, <2>2, <2>4
<1> HIDE DEF block, rest
<1>9. Goal
  BY <1>5, <1>6, <1>7, <1>8
<1> QED
  BY <1>1, <1>2, <1>3, <1>9 DEF block

\* The sensor closes the file.
LEMMA SensorClosesEffect ==
    ASSUME TypeOK, SDie \/ SClose
    PROVE  /\ Loses(0) /\ T' \in Seq(Nat) /\ pipe' \in Seq(Nat)
           /\ pipe' = << >> \/ pipe' = pipe
           /\ UNCHANGED <<ahead, handled, rpc, packed, written>> /\ wpc' \in {"off", "closed"}
<1>1. /\ Discards(wfile # 0 /\ rfile # wfile, << >>) /\ ahead' = ahead
      /\ UNCHANGED <<handled, rpc, packed, written>> /\ wpc' \in {"off", "closed"}
  BY DEF SDie, SClose, readerVars
<1> QED
  BY <1>1, DiscardEffect

\* The steps that leave bytes, blocks and packets alone.
Quiet == SStart \/ SOpen \/ SUnlink \/ Stop \/ RLook \/ ROpen \/ RNext \/ RLonger \/ UNCHANGED vars

LEMMA QuietEffect ==
    ASSUME TypeOK, Quiet
    PROVE  /\ UNCHANGED <<pipe, ahead, handled, packed, written, harmed>> /\ T' = T
           /\ wpc' = wpc \/ wpc' # "data"
           /\ rpc \in {"body", "more"} => rpc' \in {"body", "more"}
<1>1. UNCHANGED <<pipe, ahead, handled, packed, written, harmed>>
  BY DEF Quiet, SStart, SOpen, SUnlink, Stop, RLook, ROpen, RNext, RLonger, vars, sensorVars, readerVars
<1>2. wpc' = wpc \/ wpc' # "data"
  BY DEF Quiet, SStart, SOpen, SUnlink, Stop, RLook, ROpen, RNext, RLonger, vars, sensorVars
<1>3. rpc \in {"body", "more"} => rpc' \in {"body", "more"}
  BY DEF Quiet, SStart, SOpen, SUnlink, Stop, RLook, ROpen, RNext, RLonger, vars, readerVars
<1> QED
  BY <1>1, <1>2, <1>3 DEF T

\* Bytes, blocks and packets keep their types.
Kept == DataOK' /\ ByteInv'

\* Steps in which bytes are lost and nothing is written.
LEMMA LossData ==
    ASSUME TypeOK, ByteInv, NEW n, Window(T, T', n), harmed' \subseteq harmed \cup In(T),
           T' \in Seq(Nat), ahead' \in Seq(Nat), pipe' \in Seq(Nat),
           pipe' = << >> \/ pipe' = pipe, handled' \in Seq(Seq(Nat)),
           packed' = packed, written' = written, wpc' = wpc \/ wpc' # "data"
    PROVE  Kept
<1>1. DataOK /\ In(T) \subseteq 1..packed
  BY TypeParts, PackedRange
<1>2. Len(pipe') <= Capacity
  BY <1>1, EmptySeq, Constants DEF DataOK
<1>3. harmed' \subseteq 1..packed
  BY <1>1 DEF DataOK
<1>4. ByteInv'
  BY ByteWindow
<1> QED
  BY <1>1, <1>2, <1>3, <1>4 DEF Kept, DataOK

LEMMA DataStep ==
    ASSUME TypeOK, FileInv, ByteInv, [Next]_vars
    PROVE  Kept
<1>0. DataOK /\ packed \in Nat
  BY TypeParts, BoundsHold DEF Bounds
<1>1. ASSUME Quiet PROVE Kept
  <2>1. /\ UNCHANGED <<pipe, ahead, handled, packed, written, harmed>> /\ T' = T
        /\ wpc' = wpc \/ wpc' # "data"
    BY <1>1, QuietEffect
  <2> QED
    BY <1>0, <2>1 DEF Kept, DataOK, ByteInv
<1>2. ASSUME SMarker PROVE Kept
  <2>1. /\ UNCHANGED <<harmed, written, handled, ahead>> /\ packed' = packed + 1
        /\ pipe' \in Seq(Nat) /\ Len(pipe') <= Capacity /\ ByteInv'
    BY <1>2, MarkerEffect
  <2>2. 1..packed \subseteq 1..packed'
    BY <1>0, <2>1
  <2> QED
    BY <1>0, <2>1, <2>2 DEF Kept, DataOK
<1>3. ASSUME SData PROVE Kept
  <2>1. /\ UNCHANGED <<harmed, handled, ahead, packed>> /\ packed \in 1..packed
        /\ written' \subseteq written \cup {packed}
        /\ pipe' \in Seq(Nat) /\ Len(pipe') <= Capacity /\ ByteInv'
    BY <1>0, <1>3, DataEffect
  <2> QED
    BY <1>0, <2>1 DEF Kept, DataOK
<1>4. ASSUME SDie \/ SClose PROVE Kept
  <2>1. /\ Loses(0) /\ T' \in Seq(Nat) /\ pipe' \in Seq(Nat)
        /\ pipe' = << >> \/ pipe' = pipe
        /\ UNCHANGED <<ahead, handled, packed, written>> /\ wpc' \in {"off", "closed"}
    BY <1>4, SensorClosesEffect
  <2> QED
    BY <1>0, <2>1, LossData DEF DataOK, Loses
<1>5. ASSUME RFill PROVE Kept
  <2>1. ahead' = ahead \o pipe /\ pipe' = << >> /\ UNCHANGED <<handled, packed, written, harmed, wpc>>
    BY <1>5 DEF RFill, sensorVars
  <2>2. T' = T /\ ahead' \in Seq(Nat) /\ Loses(0) /\ T' \in Seq(Nat) /\ pipe' \in Seq(Nat)
    BY <2>1, FillEffect, KeepEffect, Total, EmptySeq
  <2> QED
    BY <1>0, <2>1, <2>2, LossData DEF DataOK, Loses
<1>6. ASSUME Close, handled' = handled PROVE Kept
  <2>1. /\ Loses(Len(ahead)) /\ T' \in Seq(Nat) /\ ahead' \in Seq(Nat) /\ pipe' \in Seq(Nat)
        /\ pipe' = << >> \/ pipe' = pipe
        /\ UNCHANGED <<wpc, packed, written>>
    BY <1>6, CloseEffect DEF sensorVars
  <2> QED
    BY <1>0, <1>6, <2>1, LossData DEF DataOK, Loses
<1>7. ASSUME RScan PROVE Kept
  <2>1. PICK i \in DOMAIN ahead : ahead' = SubSeq(ahead, i + 1, Len(ahead))
    BY <1>7 DEF RScan
  <2>2. pipe' = pipe /\ UNCHANGED <<handled, packed, written, harmed, wpc>>
    BY <1>7 DEF RScan, sensorVars
  <2>3. i \in 0..Len(ahead)
    BY <2>1, AheadIndex
  <2>4. ahead' \in Seq(Nat) /\ T' \in Seq(Nat) /\ Window(T, T', i)
    BY <2>1, <2>2, <2>3, DropEffect
  <2>5. ByteInv'
    BY <2>2, <2>4, ByteWindow
  <2> QED
    BY <1>0, <2>2, <2>4, <2>5 DEF Kept, DataOK
<1>8. ASSUME NEW len \in Nat, len <= Len(ahead), Handle(len) PROVE Kept
  <2>1. /\ T' \in Seq(Nat) /\ ahead' \in Seq(Nat) /\ pipe' \in Seq(Nat)
        /\ pipe' = << >> \/ pipe' = pipe
        /\ handled' \in Seq(Seq(Nat)) /\ LosesAfter(len)
        /\ UNCHANGED <<wpc, packed, written>>
    BY <1>8, HandleEffect DEF sensorVars
  <2>2. harmed' \subseteq harmed \cup In(T) /\ \E n \in Nat : Window(T, T', n)
    BY <2>1 DEF LosesAfter
  <2> QED
    BY <2>1, <2>2, LossData
<1>9. V1 \in Nat /\ V2 \in Nat
  BY DEF V1, V2
<1>10. ASSUME RBody \/ RMore \/ REnd PROVE Kept
  <2>1. \/ V1 <= Len(ahead) /\ Handle(V1)
        \/ V2 <= Len(ahead) /\ Handle(V2)
        \/ Close /\ handled' = handled
    <3>1. Len(ahead) \in Nat
      BY Total
    <3>2. CASE RBody
      BY <1>9, <3>1, <3>2 DEF RBody
    <3>3. CASE RMore
      BY <1>9, <3>1, <3>3 DEF RMore
    <3>4. CASE REnd
      BY <3>4 DEF REnd
    <3> QED
      BY <1>10, <3>2, <3>3, <3>4
  <2> QED
    BY <1>6, <1>8, <1>9, <2>1
<1> QED
  BY <1>1, <1>2, <1>3, <1>4, <1>5, <1>7, <1>10 DEF Next, Reader, Quiet

LEMMA TypeStep == ASSUME TypeInv, [Next]_vars PROVE TypeInv'
<1>1. TypeOK /\ FileInv /\ ByteInv /\ StatesOK
  BY TypeParts DEF TypeInv
<1>2. StatesOK' /\ FileInv'
  <2>1. CASE UNCHANGED vars
    BY <1>1, <2>1 DEF vars, sensorVars, readerVars, StatesOK, FileInv
  <2> QED
    BY <1>1, <2>1, SensorStates, ReaderStates DEF Next
<1>3. DataOK' /\ ByteInv'
  BY <1>1, DataStep DEF Kept
<1>4. TypeOK' <=> StatesOK' /\ DataOK'
  BY DEF TypeOK, StatesOK, DataOK
<1> QED
  BY <1>2, <1>3, <1>4 DEF TypeInv

LEMMA TypeAlways == Spec => []TypeInv
BY TypeInit, TypeStep, PTL DEF Spec

(***************************************************************************)
(* The FIFO never holds more than its capacity, sensors make no more files *)
(* than they are started times, the reader has a file exactly while it     *)
(* should, and packets are only written or harmed after they were packed.  *)
(***************************************************************************)
THEOREM TypeCorrect == Spec => []TypeOK
<1>1. TypeInv => TypeOK
  BY DEF TypeInv
<1> QED
  BY <1>1, TypeAlways, PTL


----------------------------------------------------------------------------
(* Losses *)

\* In t the body of packet p follows byte k, or its marker ends with byte k.
BodyAt(p, k, t) == k + V1 <= Len(t) /\ \A i \in 1..V1 : t[k + i] = p * Frame + 1 + i
MarkerAt(p, k, t) == k >= 2 /\ t[k - 1] = p * Frame /\ t[k] = p * Frame + 1

\* Packet p is in t with its marker, or the reader r has just read its marker.
Waiting(p, t, r) ==
    \E k \in 0..Len(t) :
        /\ BodyAt(p, k, t)
        /\ MarkerAt(p, k, t) \/ (k = 0 /\ r \in {"body", "more"})

\* The marker of packet p is the last thing in t, or the last thing r has read.
Announced(p, t, r) == MarkerAt(p, Len(t), t) \/ (t = << >> /\ r = "body")

(***************************************************************************)
(* A packet that was written and came to no harm is handled or on its way  *)
(* in one piece, behind its marker unless the reader has read that; and    *)
(* the marker of the packet that is being written is the last thing on its *)
(* way, unless the reader has just read that.                              *)
(***************************************************************************)
FrameInv ==
    /\ \A p \in written : p \in harmed \/ p \in Handled \/ Waiting(p, T, rpc)
    /\ wpc = "data" => packed \in harmed \/ Announced(packed, T, rpc)

LEMMA Sizes == Frame = 22 /\ V1 = 20 /\ V2 = 32 /\ Frame \in Nat /\ V1 \in Nat /\ V2 \in Nat
BY DEF Frame, V1, V2

LEMMA FrameProduct == ASSUME NEW p \in Nat PROVE p * Frame \in Nat
<1>1. p * 22 \in Nat
  OBVIOUS
<1> QED
  BY <1>1, Sizes

\* The bytes of a frame belong to its packet.
LEMMA MarkerOwner ==
    ASSUME NEW p \in Nat
    PROVE  /\ (p * Frame) \div Frame = p /\ (p * Frame + 1) \div Frame = p
           /\ Offset(p * Frame) = 0 /\ Offset(p * Frame + 1) = 1
<1>1. /\ (p * Frame + 0) \div Frame = p /\ Offset(p * Frame + 0) = 0
      /\ (p * Frame + 1) \div Frame = p /\ Offset(p * Frame + 1) = 1
  BY FrameByte
<1>2. p * Frame + 0 = p * Frame
  BY FrameProduct
<1> QED
  BY <1>1, <1>2

LEMMA BodyOwner ==
    ASSUME NEW p \in Nat, NEW i \in 1..V1
    PROVE  (p * Frame + 1 + i) \div Frame = p
BY BodyBytes

\* Bytes that stay together stay what they were.
LEMMA BodyWindow ==
    ASSUME NEW s \in Seq(Nat), NEW t \in Seq(Nat), NEW n, Window(s, t, n),
           NEW p \in Nat, NEW k \in Nat, BodyAt(p, k, s), n <= k, k + V1 <= n + Len(t)
    PROVE  k - n \in 0..Len(t) /\ BodyAt(p, k - n, t)
<1>1. n \in Nat /\ Len(t) \in Nat /\ V1 \in Nat /\ Len(s) \in Nat
  BY Sizes, LenProperties DEF Window
<1> DEFINE m == k - n
<1>2. m \in Nat /\ n + m = k /\ m + V1 <= Len(t) /\ m \in 0..Len(t)
  BY <1>1
<1> HIDE DEF m
<1>3. ASSUME NEW i \in 1..V1 PROVE t[m + i] = p * Frame + 1 + i
  <2> DEFINE j == m + i
  <2>1. j \in 1..Len(t) /\ n + j = k + i
    BY <1>1, <1>2
  <2> HIDE DEF j
  <2>2. t[j] = s[n + j]
    BY <2>1 DEF Window
  <2>3. s[k + i] = p * Frame + 1 + i
    BY DEF BodyAt
  <2> QED
    BY <2>1, <2>2, <2>3 DEF j
<1>4. BodyAt(p, m, t)
  BY <1>2, <1>3 DEF BodyAt
<1> QED
  BY <1>2, <1>4 DEF m

LEMMA MarkerWindow ==
    ASSUME NEW s \in Seq(Nat), NEW t \in Seq(Nat), NEW n, Window(s, t, n),
           NEW p \in Nat, NEW k \in Nat, MarkerAt(p, k, s), n + 2 <= k, k <= n + Len(t)
    PROVE  MarkerAt(p, k - n, t)
<1>1. n \in Nat /\ Len(t) \in Nat
  BY LenProperties DEF Window
<1> DEFINE m == k - n
<1>2. /\ m \in Nat /\ m >= 2 /\ m - 1 \in 1..Len(t) /\ m \in 1..Len(t)
      /\ n + (m - 1) = k - 1 /\ n + m = k
  BY <1>1
<1> HIDE DEF m
<1>3. t[m - 1] = s[n + (m - 1)] /\ t[m] = s[n + m]
  BY <1>2 DEF Window
<1>4. MarkerAt(p, m, t)
  BY <1>2, <1>3 DEF MarkerAt
<1> QED
  BY <1>4 DEF m

\* The bytes of a packet that are not lost with those around them are where
\* they were.
LEMMA PlaceKept ==
    ASSUME NEW s \in Seq(Nat), NEW t \in Seq(Nat), NEW n, Window(s, t, n), NEW p \in Nat,
           \A i \in 1..Len(s) : i <= n \/ i > n + Len(t) => s[i] \div Frame # p,
           NEW k \in 0..Len(s), BodyAt(p, k, s), MarkerAt(p, k, s) \/ k = 0
    PROVE  /\ k - n \in 0..Len(t) /\ BodyAt(p, k - n, t)
           /\ k = 0 => n = 0
           /\ MarkerAt(p, k, s) => MarkerAt(p, k - n, t)
<1>1. n \in Nat /\ Len(t) \in Nat /\ Len(s) \in Nat /\ k \in Nat /\ V1 = 20 /\ k + 20 <= Len(s)
  BY Sizes, LenProperties DEF Window, BodyAt
<1>2. ASSUME NEW i \in 1..V1 PROVE n < k + i /\ k + i <= n + Len(t)
  <2> DEFINE j == k + i
  <2>1. j \in 1..Len(s) /\ j \in Nat
    BY <1>1
  <2>2. s[j] = p * Frame + 1 + i
    BY DEF BodyAt
  <2> HIDE DEF j
  <2>3. s[j] \div Frame = p
    BY <2>2, BodyOwner
  <2>4. ~(j <= n \/ j > n + Len(t))
    BY <2>1, <2>3
  <2> QED
    BY <1>1, <2>1, <2>4 DEF j
<1>3. n < k + 1 /\ k + V1 <= n + Len(t)
  <2>1. 1 \in 1..V1 /\ V1 \in 1..V1
    BY <1>1
  <2> QED
    BY <1>2, <2>1
<1>4. n <= k
  BY <1>1, <1>3
<1>5. k - n \in 0..Len(t) /\ BodyAt(p, k - n, t)
  BY <1>1, <1>3, <1>4, BodyWindow
<1>6. ASSUME MarkerAt(p, k, s) PROVE MarkerAt(p, k - n, t)
  <2> DEFINE j == k - 1
  <2>1. j \in 1..Len(s) /\ j \in Nat
    BY <1>1, <1>6 DEF MarkerAt
  <2>2. s[j] \div Frame = p
    BY <1>6, MarkerOwner DEF MarkerAt
  <2> HIDE DEF j
  <2>3. ~(j <= n)
    BY <2>1, <2>2
  <2>4. n + 2 <= k
    BY <1>1, <2>1, <2>3 DEF j
  <2>5. k <= n + Len(t)
    BY <1>1, <1>3
  <2> QED
    BY <1>1, <1>6, <2>4, <2>5, MarkerWindow
<1>7. k = 0 => n = 0
  BY <1>1, <1>4
<1> QED
  BY <1>5, <1>6, <1>7

LEMMA MarkKept ==
    ASSUME NEW s \in Seq(Nat), NEW t \in Seq(Nat), NEW n, Window(s, t, n), NEW p \in Nat,
           \A i \in 1..Len(s) : i <= n \/ i > n + Len(t) => s[i] \div Frame # p,
           MarkerAt(p, Len(s), s)
    PROVE  MarkerAt(p, Len(t), t)
<1> DEFINE k == Len(s)
<1>1. n \in Nat /\ Len(t) \in Nat /\ k \in Nat /\ k >= 2 /\ Len(t) + n <= k
  BY LenProperties DEF Window, MarkerAt
<1>2. s[k - 1] \div Frame = p /\ s[k] \div Frame = p
  BY MarkerOwner DEF MarkerAt
<1>3. k - 1 \in 1..Len(s) /\ k \in 1..Len(s)
  BY <1>1
<1>4. ~(k - 1 <= n) /\ ~(k > n + Len(t))
  BY <1>2, <1>3
<1>5. n + 2 <= k /\ k <= n + Len(t) /\ k - n = Len(t)
  BY <1>1, <1>4
<1>6. MarkerAt(p, k, s)
  OBVIOUS
<1> HIDE DEF k
<1>7. MarkerAt(p, k - n, t)
  BY <1>1, <1>5, <1>6, MarkerWindow
<1> QED
  BY <1>5, <1>7

\* What is written behind a packet does not change it.
LEMMA PlaceAppend ==
    ASSUME NEW s \in Seq(Nat), NEW t \in Seq(Nat), NEW p \in Nat, NEW k \in 0..Len(s)
    PROVE  /\ k \in 0..Len(s \o t)
           /\ BodyAt(p, k, s) => BodyAt(p, k, s \o t)
           /\ MarkerAt(p, k, s) => MarkerAt(p, k, s \o t)
<1>1. /\ Len(s) \in Nat /\ Len(t) \in Nat /\ Len(s \o t) = Len(s) + Len(t)
      /\ \A i \in 1..Len(s) : (s \o t)[i] = s[i]
  BY Joined
<1>2. k \in Nat /\ k <= Len(s)
  BY <1>1
<1>3. k \in 0..Len(s \o t)
  BY <1>1
<1>4. ASSUME BodyAt(p, k, s) PROVE BodyAt(p, k, s \o t)
  <2>1. k + V1 <= Len(s) /\ V1 \in Nat
    BY <1>4, Sizes DEF BodyAt
  <2>2. k + V1 <= Len(s \o t)
    BY <1>1, <1>2, <2>1
  <2>3. ASSUME NEW i \in 1..V1 PROVE (s \o t)[k + i] = p * Frame + 1 + i
    <3> DEFINE j == k + i
    <3>1. j \in 1..Len(s)
      BY <1>1, <1>2, <2>1
    <3>2. s[j] = p * Frame + 1 + i
      BY <1>4 DEF BodyAt
    <3> HIDE DEF j
    <3>3. (s \o t)[j] = p * Frame + 1 + i
      BY <1>1, <3>1, <3>2
    <3> QED
      BY <3>3 DEF j
  <2> QED
    BY <2>2, <2>3 DEF BodyAt
<1>5. ASSUME MarkerAt(p, k, s) PROVE MarkerAt(p, k, s \o t)
  <2>1. k - 1 \in 1..Len(s) /\ k \in 1..Len(s)
    BY <1>1, <1>2, <1>5 DEF MarkerAt
  <2>2. (s \o t)[k - 1] = s[k - 1] /\ (s \o t)[k] = s[k]
    BY <1>1, <2>1
  <2> QED
    BY <1>5, <2>2 DEF MarkerAt
<1> QED
  BY <1>3, <1>4, <1>5

LEMMA WaitingAppend ==
    ASSUME NEW s \in Seq(Nat), NEW t \in Seq(Nat), NEW p \in Nat, NEW r, Waiting(p, s, r)
    PROVE  Waiting(p, s \o t, r)
<1>1. PICK k \in 0..Len(s) : /\ BodyAt(p, k, s)
                             /\ MarkerAt(p, k, s) \/ (k = 0 /\ r \in {"body", "more"})
  BY DEF Waiting
<1>2. /\ k \in 0..Len(s \o t) /\ BodyAt(p, k, s \o t)
      /\ MarkerAt(p, k, s) => MarkerAt(p, k, s \o t)
  BY <1>1, PlaceAppend
<1> QED
  BY <1>1, <1>2 DEF Waiting


----------------------------------------------------------------------------
(* What each step does to the packets on their way *)

LEMMA FrameInit == Init => FrameInv
BY DEF Init, FrameInv

LEMMA Types ==
    ASSUME TypeOK, FileInv
    PROVE  /\ packed \in Nat /\ packed <= MaxPackets /\ MaxPackets \in Nat
           /\ \A p \in written : p \in 1..packed /\ p \in 1..MaxPackets /\ p \in Nat
           /\ wpc = "data" => packed \in 1..MaxPackets
<1>1. packed \in Nat /\ packed <= MaxPackets /\ MaxPackets \in Nat
  BY BoundsHold, Constants DEF Bounds
<1>2. \A p \in written : p \in 1..packed
  BY DEF TypeOK
<1>3. \A p \in 1..packed : p \in 1..MaxPackets /\ p \in Nat
  BY <1>1
<1>4. wpc = "data" => packed \in 1..MaxPackets
  BY <1>1 DEF FileInv
<1> QED
  BY <1>1, <1>2, <1>3, <1>4

\* Packets whose bytes were not lost are still on their way.
LEMMA WaitingKept ==
    ASSUME TypeOK, T' \in Seq(Nat), NEW n, Window(T, T', n), NEW p \in Nat,
           \A i \in 1..Len(T) : i <= n \/ i > n + Len(T') => T[i] \div Frame # p,
           Waiting(p, T, rpc),
           n = 0 /\ rpc \in {"body", "more"} /\ Len(T) >= V1 => rpc' \in {"body", "more"}
    PROVE  Waiting(p, T', rpc')
<1> DEFINE t == T'
           r == rpc'
<1>0. T \in Seq(Nat) /\ t \in Seq(Nat)
  BY Total
<1>1. PICK k \in 0..Len(T) : /\ BodyAt(p, k, T)
                             /\ MarkerAt(p, k, T) \/ (k = 0 /\ rpc \in {"body", "more"})
  BY DEF Waiting
<1>2. /\ k - n \in 0..Len(t) /\ BodyAt(p, k - n, t)
      /\ k = 0 => n = 0
      /\ MarkerAt(p, k, T) => MarkerAt(p, k - n, t)
  BY <1>0, <1>1, PlaceKept
<1>3. CASE MarkerAt(p, k, T)
  BY <1>2, <1>3 DEF Waiting
<1>4. CASE k = 0 /\ rpc \in {"body", "more"}
  <2>1. n = 0 /\ k - n = 0
    BY <1>2, <1>4
  <2>2. Len(T) >= V1
    BY <1>1, <1>4, Sizes DEF BodyAt
  <2>3. r \in {"body", "more"}
    BY <1>4, <2>1, <2>2
  <2> HIDE DEF t, r
  <2>4. BodyAt(p, 0, t) /\ 0 \in 0..Len(t)
    BY <1>2, <2>1
  <2>5. Waiting(p, t, r)
    BY <2>3, <2>4 DEF Waiting
  <2> QED
    BY <2>5 DEF t, r
<1> QED
  BY <1>1, <1>3, <1>4

\* Bytes are lost, and nothing is written or handled.
LEMMA FrameLoss ==
    ASSUME TypeOK, FileInv, FrameInv, T' \in Seq(Nat), NEW n, Loses(n),
           packed' = packed, written' = written, handled' = handled,
           wpc' = wpc \/ wpc' # "data",
           n = 0 /\ rpc \in {"body", "more"} /\ Len(T) >= V1 => rpc' \in {"body", "more"},
           T = << >> /\ rpc = "body" /\ wpc' = "data" => rpc' = "body"
    PROVE  FrameInv'
<1>1. Window(T, T', n) /\ harmed \subseteq harmed' /\ Handled' = Handled
  BY DEF Loses, Handled
<1>2. ASSUME NEW p \in Nat, p \notin harmed'
      PROVE  \A i \in 1..Len(T) : i <= n \/ i > n + Len(T') => T[i] \div Frame # p
  BY <1>2 DEF Loses
<1>3. ASSUME NEW p \in written, p \notin harmed', p \notin Handled
      PROVE  Waiting(p, T', rpc')
  <2>1. p \in Nat /\ Waiting(p, T, rpc)
    BY <1>1, <1>3, Types DEF FrameInv
  <2> QED
    BY <1>1, <1>2, <1>3, <2>1, WaitingKept
<1>4. ASSUME wpc' = "data", packed \notin harmed' PROVE Announced(packed, T', rpc')
  <2>1. packed \in Nat /\ Announced(packed, T, rpc)
    BY <1>1, <1>4, Types DEF FrameInv
  <2>2. CASE MarkerAt(packed, Len(T), T)
    <3>1. MarkerAt(packed, Len(T'), T')
      BY <1>1, <1>2, <1>4, <2>1, <2>2, Total, MarkKept
    <3> QED
      BY <3>1 DEF Announced
  <2>3. CASE T = << >> /\ rpc = "body"
    <3>1. rpc' = "body"
      BY <1>4, <2>3
    <3>2. Len(T') = 0
      BY <1>1, <2>3, EmptySeq, LenProperties DEF Window
    <3>3. T' = << >>
      BY <3>2, EmptySeq
    <3> QED
      BY <3>1, <3>3 DEF Announced
  <2> QED
    BY <2>1, <2>2, <2>3 DEF Announced
<1> QED
  BY <1>1, <1>3, <1>4 DEF FrameInv

\* The reader skips to behind a marker, or a look-alike before it.
LEMMA ScanPlace ==
    ASSUME TypeOK, NEW i \in DOMAIN ahead, IsMarker(i) \/ MayLookMarker(i),
           \A j \in 1..(i - 1) : ~IsMarker(j),
           NEW p \in Nat, NEW k \in 0..Len(T), MarkerAt(p, k, T)
    PROVE  i = k \/ i + 2 <= k
<1>1. i \in 1..Len(ahead) /\ i \in Nat /\ Len(ahead) \in Nat /\ k \in Nat /\ k >= 2 /\ Len(T) \in Nat
  <2>1. Len(ahead) \in Nat /\ Len(T) \in Nat /\ Len(T) = Len(ahead) + Len(pipe) /\ Len(pipe) \in Nat
    BY Total
  <2> QED
    BY <2>1, AheadIndex DEF MarkerAt
<1>2. T[k] = p * Frame + 1 /\ T[k - 1] = p * Frame
  BY DEF MarkerAt
<1>3. i <= k
  <2> SUFFICES ASSUME k < i PROVE FALSE
    BY <1>1
  <2>1. k \in 1..Len(ahead) /\ k \in 1..(i - 1)
    BY <1>1
  <2>2. ahead[k] = p * Frame + 1
    BY <1>2, <2>1, Total
  <2>3. IsMarker(k)
    BY <1>1, <2>2, MarkerOwner DEF IsMarker
  <2> QED
    BY <2>1, <2>3
<1>4. i # k - 1
  <2> SUFFICES ASSUME i = k - 1 PROVE FALSE
    OBVIOUS
  <2>1. ahead[i] = p * Frame
    BY <1>1, <1>2, Total
  <2>2. Offset(ahead[i]) = 0
    BY <2>1, MarkerOwner
  <2> QED
    BY <2>2 DEF IsMarker, MayLookMarker
<1> QED
  BY <1>1, <1>3, <1>4

LEMMA FrameScan == ASSUME TypeOK, FileInv, FrameInv, RScan PROVE FrameInv'
<1>1. /\ rpc = "scan" /\ rpc' = "body" /\ pipe' = pipe
      /\ UNCHANGED <<handled, packed, written, harmed, wpc>> /\ Handled' = Handled
  BY DEF RScan, sensorVars, Handled
<1>2. PICK i \in DOMAIN ahead :
        /\ IsMarker(i) \/ MayLookMarker(i)
        /\ \A j \in 1..(i - 1) : ~IsMarker(j)
        /\ ahead' = SubSeq(ahead, i + 1, Len(ahead))
  BY DEF RScan
<1>3. i \in 0..Len(ahead) /\ i \in Nat
  BY <1>2, AheadIndex
<1> DEFINE t == T'
<1>4. t \in Seq(Nat) /\ Window(T, t, i) /\ Len(t) = Len(T) - i /\ T \in Seq(Nat) /\ Len(T) \in Nat
  <2>1. T' \in Seq(Nat) /\ Window(T, T', i) /\ Len(T') = Len(T) - i
    BY <1>1, <1>2, <1>3, DropEffect
  <2> QED
    BY <2>1, Total, LenProperties
<1> HIDE DEF t
<1>5. ASSUME NEW p \in written, p \notin harmed, p \notin Handled PROVE Waiting(p, t, "body")
  <2>1. p \in Nat /\ Waiting(p, T, rpc)
    BY <1>5, Types DEF FrameInv
  <2>2. PICK k \in 0..Len(T) : BodyAt(p, k, T) /\ MarkerAt(p, k, T)
    BY <1>1, <2>1 DEF Waiting
  <2>3. k \in Nat /\ k + V1 <= Len(T) /\ V1 \in Nat
    BY <1>4, <2>2, Sizes DEF BodyAt
  <2>4. i = k \/ i + 2 <= k
    BY <1>2, <2>1, <2>2, ScanPlace
  <2>5. i <= k /\ k + V1 <= i + Len(t)
    BY <1>3, <1>4, <2>3, <2>4
  <2>6. k - i \in 0..Len(t) /\ BodyAt(p, k - i, t)
    BY <1>4, <2>1, <2>2, <2>3, <2>5, BodyWindow
  <2>7. CASE i = k
    <3>1. k - i = 0
      BY <2>3, <2>7
    <3> QED
      BY <2>6, <3>1 DEF Waiting
  <2>8. CASE i + 2 <= k
    <3>1. k <= i + Len(t)
      BY <1>3, <1>4, <2>3
    <3>2. MarkerAt(p, k - i, t)
      BY <1>4, <2>1, <2>2, <2>3, <2>8, <3>1, MarkerWindow
    <3> QED
      BY <2>6, <3>2 DEF Waiting
  <2> QED
    BY <2>4, <2>7, <2>8
<1>6. ASSUME wpc = "data", packed \notin harmed PROVE Announced(packed, t, "body")
  <2>1. packed \in Nat /\ MarkerAt(packed, Len(T), T)
    BY <1>1, <1>6, Types DEF FrameInv, Announced
  <2>2. Len(T) \in 0..Len(T)
    BY <1>4
  <2>3. i = Len(T) \/ i + 2 <= Len(T)
    BY <1>2, <2>1, <2>2, ScanPlace
  <2>4. CASE i = Len(T)
    <3>1. Len(t) = 0
      BY <1>4, <2>4
    <3> QED
      BY <1>4, <3>1, EmptySeq DEF Announced
  <2>5. CASE i + 2 <= Len(T)
    <3>1. Len(T) <= i + Len(t) /\ Len(T) - i = Len(t)
      BY <1>3, <1>4
    <3>2. MarkerAt(packed, Len(T) - i, t)
      BY <1>4, <2>1, <2>5, <3>1, MarkerWindow
    <3> QED
      BY <3>1, <3>2 DEF Announced
  <2> QED
    BY <2>3, <2>4, <2>5
<1> QED
  BY <1>1, <1>5, <1>6 DEF FrameInv, t


\* A block is handled: no packet has bytes in it, except the one it is and
\* those it harms.
LEMMA Taken ==
    ASSUME TypeOK, NEW len \in Nat, len <= Len(ahead), Handle(len),
           NEW p \in Nat, p \notin harmed', SubSeq(ahead, 1, len) # Body(p)
    PROVE  \A i \in 1..len : T[i] \div Frame # p
<1> DEFINE block == SubSeq(ahead, 1, len)
<1>1. /\ block \in Seq(Nat) /\ Len(block) = len
      /\ \A i \in 1..len : block[i] = T[i]
      /\ ~Whole(block) => \A i \in 1..len : T[i] \div Frame \in harmed'
  BY HandleEffect
<1>2. block # Body(p)
  OBVIOUS
<1> HIDE DEF block
<1>3. CASE Whole(block)
  <2>1. PICK q \in 1..MaxPackets : block = Body(q)
    BY <1>3 DEF Whole
  <2>2. q \in Nat /\ q # p
    BY <1>2, <2>1, Constants
  <2>3. len = V1
    BY <1>1, <2>1, <2>2, BodyBytes
  <2>4. \A i \in 1..V1 : Body(q)[i] \div Frame = q
    BY <2>2, BodyBytes
  <2> QED
    BY <1>1, <2>1, <2>2, <2>3, <2>4
<1>4. CASE ~Whole(block)
  BY <1>1, <1>4
<1> QED
  BY <1>3, <1>4

LEMMA HandledGrows ==
    ASSUME TypeOK, NEW b, handled' = Append(handled, b)
    PROVE  /\ Handled \subseteq Handled'
           /\ \A p \in 1..MaxPackets : b = Body(p) => p \in Handled'
<1>1. /\ handled \in Seq(Seq(Nat)) /\ Len(handled) \in Nat
  BY LenProperties DEF TypeOK
<1> DEFINE h == handled'
<1>2. /\ Len(h) = Len(handled) + 1 /\ h[Len(handled) + 1] = b
      /\ \A i \in 1..Len(handled) : h[i] = handled[i]
  BY <1>1, AppendProperties
<1> HIDE DEF h
<1>3. ASSUME NEW e, Contains(handled, e) PROVE Contains(h, e)
  <2>1. PICK i \in 1..Len(handled) : handled[i] = e
    BY <1>3 DEF Contains
  <2>2. i \in 1..Len(h) /\ h[i] = e
    BY <1>1, <1>2, <2>1
  <2> QED
    BY <2>2 DEF Contains
<1>4. Contains(h, b)
  <2>1. Len(handled) + 1 \in 1..Len(h)
    BY <1>1, <1>2
  <2> QED
    BY <1>2, <2>1 DEF Contains
<1>5. Handled' = {p \in 1..MaxPackets : Contains(h, Body(p))}
  BY DEF Handled, h
<1> QED
  BY <1>3, <1>4, <1>5 DEF Handled

LEMMA FrameHandle ==
    ASSUME TypeOK, FileInv, ByteInv, FrameInv, NEW len \in Nat, V1 <= len, len <= Len(ahead),
           Handle(len)
    PROVE  FrameInv'
<1> DEFINE block == SubSeq(ahead, 1, len)
           t == T'
<1>0. /\ handled' = Append(handled, block)
      /\ T \in Seq(Nat) /\ t \in Seq(Nat) /\ LosesAfter(len)
      /\ \A i \in 1..len : block[i] = T[i]
      /\ UNCHANGED <<packed, written, wpc>>
  BY HandleEffect, Total DEF sensorVars
<1> PICK n \in Nat :
       /\ len <= n /\ Window(T, t, n)
       /\ \A i \in 1..Len(T) :
            len < i /\ (i <= n \/ i > n + Len(t)) => T[i] \div Frame \in harmed'
  BY <1>0 DEF LosesAfter
<1>1. /\ handled' = Append(handled, block) /\ harmed \subseteq harmed'
      /\ T \in Seq(Nat) /\ t \in Seq(Nat) /\ Window(T, t, n)
      /\ \A i \in 1..len : block[i] = T[i]
      /\ UNCHANGED <<packed, written, wpc>>
  BY <1>0 DEF LosesAfter
<1>2. len \in Nat /\ Len(T) \in Nat /\ len > 0 /\ len <= Len(T) /\ 1 \in 1..len /\ 1 \in 1..Len(T)
  <2>1. V1 = 20 /\ Len(T) \in Nat /\ Len(ahead) \in Nat /\ Len(ahead) <= Len(T)
    BY Sizes, Total
  <2> QED
    BY <2>1
<1>3. Handled \subseteq Handled' /\ \A p \in 1..MaxPackets : block = Body(p) => p \in Handled'
  BY <1>1, HandledGrows
<1>4. ASSUME NEW p \in Nat, p \notin harmed', block # Body(p)
      PROVE  \A i \in 1..Len(T) : i <= n \/ i > n + Len(t) => T[i] \div Frame # p
  <2>1. \A i \in 1..len : T[i] \div Frame # p
    BY <1>4, Taken
  <2>2. \A i \in 1..Len(T) : i \in 1..len \/ len < i
    BY <1>2
  <2> QED
    BY <1>4, <2>1, <2>2
<1>5. ASSUME NEW p \in written, p \notin harmed', p \notin Handled' PROVE Waiting(p, T', rpc')
  <2>1. p \in Nat /\ p \in 1..MaxPackets /\ p \notin Handled /\ p \notin harmed
    BY <1>1, <1>3, <1>5, Types
  <2>2. Waiting(p, T, rpc)
    BY <1>5, <2>1 DEF FrameInv
  <2>3. block # Body(p)
    BY <1>3, <1>5, <2>1
  <2>4. n # 0
    BY <1>2
  <2>5. \A i \in 1..Len(T) : i <= n \/ i > n + Len(t) => T[i] \div Frame # p
    BY <1>4, <1>5, <2>1, <2>3
  <2> QED
    BY <1>1, <2>1, <2>2, <2>4, <2>5, WaitingKept
<1>6. ASSUME wpc = "data", packed \notin harmed' PROVE Announced(packed, T', rpc')
  <2>1. packed \in Nat /\ Announced(packed, T, rpc)
    BY <1>1, <1>6, Types DEF FrameInv
  <2>2. T # << >>
    BY <1>2, EmptySeq
  <2>3. MarkerAt(packed, Len(T), T)
    BY <2>1, <2>2 DEF Announced
  <2>4. block # Body(packed)
    <3>1. T[1] <= packed * Frame + 1 /\ T[1] \in Nat /\ packed * Frame + 1 \in Nat
      <4>1. T[1] <= packed * Frame + 1
        BY <1>2, <1>6 DEF ByteInv
      <4>2. T[1] \in Nat
        BY <1>2, Total
      <4>3. packed * Frame \in Nat
        BY <2>1, FrameProduct
      <4> QED
        BY <4>1, <4>2, <4>3
    <3>2. 1 \in 1..V1
      BY Sizes
    <3>3. Body(packed)[1] > packed * Frame + 1
      BY <2>1, <3>2, BodyBytes
    <3>4. block[1] = T[1]
      BY <1>1, <1>2
    <3>5. ~(T[1] > packed * Frame + 1)
      BY <3>1
    <3> HIDE DEF block
    <3> QED
      BY <3>3, <3>4, <3>5
  <2>5. \A i \in 1..Len(T) : i <= n \/ i > n + Len(t) => T[i] \div Frame # packed
    BY <1>4, <1>6, <2>1, <2>4
  <2>6. MarkerAt(packed, Len(t), t)
    BY <1>1, <2>1, <2>3, <2>5, MarkKept
  <2> QED
    BY <2>6 DEF Announced
<1> QED
  BY <1>1, <1>5, <1>6 DEF FrameInv

LEMMA FrameMarker == ASSUME TypeOK, FileInv, ByteInv, FrameInv, SMarker PROVE FrameInv'
<1>1. /\ UNCHANGED <<harmed, written, handled, ahead, rpc>> /\ packed' = packed + 1
      /\ packed' \in Nat
      /\ \/ T' = T /\ wpc' # "data"
         \/ T' = T \o Marker(packed')
  BY MarkerEffect
<1>2. Handled' = Handled /\ T \in Seq(Nat) /\ Len(T) \in Nat
  BY <1>1, Total DEF Handled
<1>3. ASSUME NEW p \in written, p \notin harmed, p \notin Handled PROVE p \in Nat /\ Waiting(p, T, rpc)
  BY <1>3, Types DEF FrameInv
<1>4. CASE T' = T /\ wpc' # "data"
  BY <1>1, <1>2, <1>3, <1>4 DEF FrameInv
<1>5. CASE T' = T \o Marker(packed')
  <2> DEFINE q == packed'
             m == Marker(q)
             t == T \o m
  <2>1. /\ q \in Nat /\ m \in Seq(Nat) /\ Len(m) = 2
        /\ m[1] = q * Frame /\ m[2] = q * Frame + 1
    BY <1>1, MarkerBytes
  <2> HIDE DEF q, m
  <2>2. \A p \in written : p \in harmed \/ p \in Handled \/ Waiting(p, t, rpc)
    BY <1>2, <1>3, <2>1, WaitingAppend
  <2>3. MarkerAt(q, Len(t), t)
    <3>1. /\ Len(t) = Len(T) + 2
          /\ \A i \in 1..2 : t[Len(T) + i] = m[i]
      <4>1. Len(t) = Len(T) + Len(m) /\ \A i \in 1..Len(m) : t[Len(T) + i] = m[i]
        BY <1>2, <2>1, Joined
      <4> HIDE DEF t
      <4> QED
        BY <2>1, <4>1
    <3>2. t[Len(T) + 1] = m[1] /\ t[Len(T) + 2] = m[2]
      BY <3>1
    <3>3. Len(t) - 1 = Len(T) + 1 /\ Len(t) >= 2
      BY <1>2, <3>1
    <3> HIDE DEF t
    <3> QED
      BY <2>1, <3>1, <3>2, <3>3 DEF MarkerAt
  <2>4. T' = t
    BY <1>5 DEF q, m
  <2>5. Announced(packed', T', rpc')
    BY <2>3, <2>4 DEF Announced, q
  <2> HIDE DEF t
  <2> QED
    BY <1>1, <1>2, <2>2, <2>4, <2>5 DEF FrameInv
<1> QED
  BY <1>1, <1>4, <1>5

LEMMA FrameData == ASSUME TypeOK, FileInv, ByteInv, FrameInv, SData PROVE FrameInv'
<1>1. /\ UNCHANGED <<harmed, handled, ahead, rpc, packed>> /\ wpc = "data" /\ wpc' = "loop"
      /\ packed \in 1..MaxPackets
      /\ \/ T' = T /\ written' = written
         \/ T' = T \o Body(packed) /\ written' = written \cup {packed}
  BY DataEffect
<1>2. Handled' = Handled /\ T \in Seq(Nat) /\ Len(T) \in Nat /\ packed \in Nat
  BY <1>1, Total, Types DEF Handled
<1>3. ASSUME NEW p \in written, p \notin harmed, p \notin Handled PROVE p \in Nat /\ Waiting(p, T, rpc)
  BY <1>3, Types DEF FrameInv
<1>4. CASE T' = T /\ written' = written
  BY <1>1, <1>2, <1>3, <1>4 DEF FrameInv
<1>5. CASE T' = T \o Body(packed) /\ written' = written \cup {packed}
  <2> DEFINE b == Body(packed)
             t == T \o b
             k == Len(T)
  <2>1. b \in Seq(Nat) /\ Len(b) = V1 /\ \A i \in 1..V1 : b[i] = packed * Frame + 1 + i
    BY <1>2, BodyBytes
  <2> HIDE DEF b
  <2>2. \A p \in written : p \in harmed \/ p \in Handled \/ Waiting(p, t, rpc)
    BY <1>2, <1>3, <2>1, WaitingAppend
  <2>3. packed \in harmed \/ Waiting(packed, t, rpc)
    <3> SUFFICES ASSUME packed \notin harmed PROVE Waiting(packed, t, rpc)
      OBVIOUS
    <3>1. Announced(packed, T, rpc)
      BY <1>1 DEF FrameInv
    <3>2. /\ Len(t) = k + V1 /\ k \in Nat /\ V1 \in Nat
          /\ \A i \in 1..V1 : t[k + i] = b[i]
      <4>1. Len(t) = k + Len(b) /\ \A i \in 1..Len(b) : t[k + i] = b[i]
        BY <1>2, <2>1, Joined
      <4> HIDE DEF t, k
      <4> QED
        BY <1>2, <2>1, <4>1, Sizes DEF k
    <3>3. k \in 0..Len(t) /\ k \in 0..Len(T)
      BY <3>2
    <3>4. BodyAt(packed, k, t)
      BY <2>1, <3>2 DEF BodyAt
    <3>5. MarkerAt(packed, k, T) => MarkerAt(packed, k, t)
      BY <1>2, <2>1, <3>3, PlaceAppend
    <3>6. T = << >> => k = 0
      BY EmptySeq
    <3>7. MarkerAt(packed, k, t) \/ (k = 0 /\ rpc \in {"body", "more"})
      BY <3>1, <3>5, <3>6 DEF Announced
    <3> HIDE DEF k, t
    <3> QED
      BY <3>3, <3>4, <3>7 DEF Waiting
  <2>4. T' = t
    BY <1>5 DEF b
  <2> HIDE DEF t
  <2> QED
    BY <1>1, <1>2, <1>5, <2>2, <2>3, <2>4 DEF FrameInv
<1> QED
  BY <1>1, <1>4, <1>5

\* A file is closed after its end, between two packets, or for 20 bytes that
\* are no packet.
LEMMA FrameClose ==
    ASSUME TypeOK, FileInv, FrameInv, Close, handled' = handled,
           \/ rpc \in {"body", "more"} /\ V1 <= Len(ahead)
           \/ rpc = "next"
           \/ Short /\ pipe = << >> /\ wfile # rfile
    PROVE  FrameInv'
<1>1. /\ Loses(Len(ahead)) /\ T' \in Seq(Nat) /\ UNCHANGED sensorVars
  BY CloseEffect
<1>2. Len(ahead) \in Nat /\ V1 = 20 /\ Len(T) = Len(ahead) + Len(pipe)
  BY Sizes, Total
<1>3. ASSUME Len(ahead) = 0, rpc \in {"body", "more"}, Len(T) >= V1 PROVE FALSE
  <2>1. pipe = << >> => Len(pipe) = 0
    BY EmptySeq
  <2> QED
    BY <1>2, <1>3, <2>1
<1>4. ASSUME T = << >>, rpc = "body", wpc = "data" PROVE FALSE
  <2>1. Len(ahead) = 0
    <3>1. Len(T) = 0 /\ Len(pipe) \in Nat
      BY <1>4, EmptySeq, Total
    <3> QED
      BY <1>2, <3>1
  <2>2. wfile # rfile
    BY <1>2, <1>4, <2>1
  <2>3. rfile = 0
    BY <1>4, <2>2 DEF FileInv
  <2> QED
    BY <1>4, <2>3, BoundsHold DEF StatesOK
<1>5. UNCHANGED <<packed, written, wpc>>
  BY <1>1 DEF sensorVars
<1> QED
  BY <1>1, <1>3, <1>4, <1>5, FrameLoss

LEMMA FrameStep ==
    ASSUME TypeOK, FileInv, ByteInv, FrameInv, [Next]_vars
    PROVE  FrameInv'
<1>1. ASSUME Quiet PROVE FrameInv'
  <2>1. /\ UNCHANGED <<pipe, ahead, handled, packed, written, harmed>> /\ T' = T
        /\ wpc' = wpc \/ wpc' # "data"
        /\ rpc \in {"body", "more"} => rpc' \in {"body", "more"}
    BY <1>1, QuietEffect
  <2>2. Loses(0) /\ T' \in Seq(Nat)
    BY <2>1, KeepEffect, Total
  <2>3. ASSUME T = << >>, rpc = "body" PROVE rpc' = "body"
    <3>1. Len(ahead) = 0
      <4>1. Len(T) = 0 /\ Len(pipe) \in Nat /\ Len(ahead) \in Nat /\ Len(T) = Len(ahead) + Len(pipe)
        <5>1. Len(T) = 0
          BY <2>3, EmptySeq
        <5> QED
          BY <5>1, Total
      <4>2. \A a, b \in Nat : a + b = 0 => a = 0
        OBVIOUS
      <4> QED
        BY <4>1, <4>2
    <3>2. ~RLonger
      BY <3>1, Sizes DEF RLonger
    <3> QED
      BY <1>1, <2>3, <3>2
      DEF Quiet, SStart, SOpen, SUnlink, Stop, RLook, ROpen, RNext, vars, readerVars
  <2> QED
    BY <2>1, <2>2, <2>3, FrameLoss
<1>2. ASSUME SDie \/ SClose PROVE FrameInv'
  <2>1. /\ Loses(0) /\ T' \in Seq(Nat)
        /\ UNCHANGED <<handled, rpc, packed, written>> /\ wpc' \in {"off", "closed"}
    BY <1>2, SensorClosesEffect
  <2> QED
    BY <2>1, FrameLoss
<1>3. ASSUME RFill PROVE FrameInv'
  <2>1. ahead' = ahead \o pipe /\ pipe' = << >>
        /\ UNCHANGED <<handled, packed, written, harmed, wpc, rpc>>
    BY <1>3 DEF RFill, sensorVars
  <2>2. T' = T /\ Loses(0) /\ T' \in Seq(Nat)
    BY <2>1, FillEffect, KeepEffect, Total
  <2> QED
    BY <2>1, <2>2, FrameLoss
<1>4. ASSUME REnd PROVE FrameInv'
  BY <1>4, FrameClose DEF REnd
<1>5. V1 \in Nat /\ V2 \in Nat /\ V1 <= V1 /\ V1 <= V2 /\ Len(ahead) \in Nat
  BY Sizes, Total
<1>6. ASSUME RBody PROVE FrameInv'
  <2>1. rpc = "body" /\ V1 <= Len(ahead)
    BY <1>5, <1>6 DEF RBody
  <2>2. Handle(V1) \/ (Close /\ handled' = handled)
    BY <1>6 DEF RBody
  <2> QED
    BY <1>5, <2>1, <2>2, FrameHandle, FrameClose
<1>7. ASSUME RMore PROVE FrameInv'
  <2>1. rpc = "more" /\ V2 <= Len(ahead) /\ V1 <= Len(ahead)
    BY <1>5, <1>7 DEF RMore
  <2>2. Handle(V2) \/ (Close /\ handled' = handled)
    BY <1>7 DEF RMore
  <2> QED
    BY <1>5, <2>1, <2>2, FrameHandle, FrameClose
<1> QED
  BY <1>1, <1>2, <1>3, <1>4, <1>6, <1>7, FrameMarker, FrameData, FrameScan DEF Next, Reader, Quiet

LEMMA FrameAlways == Spec => []FrameInv
<1>1. TypeInv /\ FrameInv /\ [Next]_vars => FrameInv'
  BY FrameStep DEF TypeInv
<1> QED
  BY <1>1, FrameInit, TypeAlways, PTL DEF Spec

(***************************************************************************)
(* _read_packet skips no packet: one that was written with its marker is   *)
(* handled or still on its way, unless a block that is no packet had bytes *)
(* of it or its file was closed while it was in there.                     *)
(***************************************************************************)
THEOREM NoPacketIsSkipped == Spec => []LossIsExplained
<1>1. ASSUME TypeInv, FrameInv PROVE LossIsExplained
  <2> SUFFICES ASSUME NEW p \in written, p \notin harmed, p \notin Handled PROVE p \in Pending
    BY DEF LossIsExplained
  <2>1. TypeOK /\ p \in Nat /\ p \in 1..MaxPackets /\ Waiting(p, T, rpc)
    BY <1>1, Types DEF TypeInv, FrameInv
  <2>2. PICK k \in 0..Len(T) : BodyAt(p, k, T)
    BY <2>1 DEF Waiting
  <2>3. T \in Seq(Nat) /\ DOMAIN T = 1..Len(T) /\ Len(T) \in Nat /\ V1 \in Nat /\ k \in Nat
    BY <2>1, <2>2, Total, LenProperties, Sizes
  <2>4. ASSUME NEW i \in 1..V1 PROVE Body(p)[i] \in Range(T)
    <3> DEFINE j == k + i
    <3>1. j \in DOMAIN T
      BY <2>2, <2>3 DEF BodyAt
    <3>2. T[j] = p * Frame + 1 + i
      BY <2>2 DEF BodyAt
    <3> HIDE DEF j
    <3>3. Body(p)[i] = T[j]
      BY <2>1, <3>2, BodyBytes
    <3> QED
      BY <3>1, <3>3 DEF Range
  <2>5. Range(Body(p)) \subseteq Range(T)
    <3>1. Range(Body(p)) = {Body(p)[i] : i \in 1..V1}
      BY <2>1, BodyBytes DEF Range
    <3> QED
      BY <2>4, <3>1
  <2> QED
    BY <2>1, <2>5 DEF Pending, T
<1> QED
  BY <1>1, TypeAlways, FrameAlways, PTL


----------------------------------------------------------------------------
(* FlattenSeq.  It is defined by a recursive function; what that computes  *)
(* is shown by looking at the least argument at which it would not.        *)

LEMMA LeastElement ==
    ASSUME NEW A \in SUBSET Nat, A # {}
    PROVE  \E x \in A : \A y \in A : x <= y
<1>1. \E x \in A : \A y \in A : ~ (<<y,x>> \in OpToRel(<,Nat))
  BY NatLessThanWellFounded, WFMin, Zenon
<1>2. PICK x \in A : \A y \in A : ~ (<<y,x>> \in OpToRel(<,Nat))
  BY <1>1
<1>3. ASSUME NEW y \in A PROVE x <= y
  <2>1. ~ (<<y,x>> \in OpToRel(<,Nat))
    BY <1>2, Zenon
  <2>2. x \in Nat /\ y \in Nat
    OBVIOUS
  <2>3. ~ (<<y,x>> \in {ss \in Nat \X Nat : ss[1] < ss[2]})
    BY <2>1, Zenon DEF OpToRel
  <2> QED
    BY <2>2, <2>3
<1> QED BY <1>3

\* f joins the first n sequences of s, as FlattenSeq's function does.
JoinsOf(f, s, n) ==
    f = [i \in 1..n |-> IF i = 1 THEN s[i] ELSE f[i - 1] \o s[i]]

LEMMA PrefixesExist ==
    ASSUME NEW S, NEW s \in Seq(Seq(S)), NEW n \in 0..Len(s)
    PROVE  \E f \in [1..n -> Seq(S)] : JoinsOf(f, s, n)
<1> DEFINE Bad == {m \in 0..Len(s) : ~ \E f \in [1..m -> Seq(S)] : JoinsOf(f, s, m)}
<1>1. Len(s) \in Nat /\ \A i \in 1..Len(s) : s[i] \in Seq(S)
  OBVIOUS
<1>2. SUFFICES Bad = {}
  BY <1>2
<1>3. SUFFICES ASSUME Bad # {} PROVE FALSE
  BY <1>3
<1>4. PICK m \in Bad : \A k \in Bad : m <= k
  <2>1. Bad \in SUBSET Nat
    BY <1>1
  <2> HIDE DEF Bad
  <2> QED
    BY <1>3, <2>1, LeastElement
<1>5. m \in 0..Len(s) /\ ~ \E f \in [1..m -> Seq(S)] : JoinsOf(f, s, m)
  OBVIOUS
<1>6. CASE m = 0
  <2>1. [i \in 1..0 |-> << >>] \in [1..0 -> Seq(S)]
    OBVIOUS
  <2>2. JoinsOf([i \in 1..0 |-> << >>], s, 0)
    BY DEF JoinsOf
  <2> QED
    BY <1>5, <1>6, <2>1, <2>2
<1>7. CASE m > 0
  <2>1. m - 1 \in 0..Len(s) /\ m - 1 \notin Bad
    <3>1. m - 1 \in 0..Len(s) /\ m \in Nat /\ ~(m <= m - 1)
      BY <1>1, <1>5, <1>7
    <3> HIDE DEF Bad
    <3> QED
      BY <1>4, <3>1
  <2>2. PICK f \in [1..(m - 1) -> Seq(S)] : JoinsOf(f, s, m - 1)
    BY <2>1
  <2> DEFINE g == [i \in 1..m |-> IF i < m THEN f[i]
                                  ELSE IF i = 1 THEN s[i] ELSE f[i - 1] \o s[i]]
  <2>3. g \in [1..m -> Seq(S)]
    <3> SUFFICES ASSUME NEW i \in 1..m
                 PROVE  (IF i < m THEN f[i]
                         ELSE IF i = 1 THEN s[i] ELSE f[i - 1] \o s[i]) \in Seq(S)
      OBVIOUS
    <3>1. s[i] \in Seq(S)
      BY <1>1, <1>5
    <3>2. CASE i < m
      BY <3>2, <1>5
    <3>3. CASE i = m /\ i # 1
      <4>1. f[i - 1] \in Seq(S)
        BY <3>3, <1>5
      <4> QED
        BY <3>1, <3>3, <4>1
    <3> QED
      BY <3>1, <3>2, <3>3, <1>5
  <2>4. ASSUME NEW i \in 1..m
        PROVE  g[i] = IF i = 1 THEN s[i] ELSE g[i - 1] \o s[i]
    <3>1. CASE i < m
      <4>1. i \in 1..(m - 1)
        BY <3>1, <1>5
      <4>2. f[i] = IF i = 1 THEN s[i] ELSE f[i - 1] \o s[i]
        BY <2>2, <4>1 DEF JoinsOf
      <4>3. i # 1 => i - 1 \in 1..m /\ i - 1 < m
        BY <1>5
      <4> QED
        BY <3>1, <4>2, <4>3
    <3>2. CASE i = m
      <4>1. i # 1 => i - 1 \in 1..m /\ i - 1 < m
        BY <1>5
      <4> QED
        BY <3>2, <4>1
    <3> QED
      BY <3>1, <3>2, <1>5
  <2>5. JoinsOf(g, s, m)
    <3> HIDE DEF g
    <3> QED
      BY <2>3, <2>4 DEF JoinsOf
  <2> QED
    BY <1>5, <2>3, <2>5
<1> QED
  BY <1>1, <1>5, <1>6, <1>7

LEMMA PrefixesUnique ==
    ASSUME NEW s, NEW n \in Nat, NEW m \in Nat, NEW f, NEW g,
           JoinsOf(f, s, n), JoinsOf(g, s, m), n <= m
    PROVE  \A i \in 1..n : f[i] = g[i]
<1> DEFINE Bad == {i \in 1..n : f[i] # g[i]}
<1>1. SUFFICES ASSUME Bad # {} PROVE FALSE
  BY <1>1
<1>2. PICK i \in Bad : \A k \in Bad : i <= k
  <2>1. Bad \in SUBSET Nat
    OBVIOUS
  <2> HIDE DEF Bad
  <2> QED
    BY <1>1, <2>1, LeastElement
<1>3. i \in 1..n /\ i \in 1..m /\ f[i] # g[i]
  OBVIOUS
<1>4. i # 1 => i - 1 \in 1..n /\ i - 1 \notin Bad
  BY <1>2, <1>3
<1>5. i # 1 => f[i - 1] = g[i - 1]
  BY <1>4
<1>6. f[i] = IF i = 1 THEN s[i] ELSE f[i - 1] \o s[i]
  BY <1>3 DEF JoinsOf
<1>7. g[i] = IF i = 1 THEN s[i] ELSE g[i - 1] \o s[i]
  BY <1>3 DEF JoinsOf
<1> QED
  BY <1>3, <1>5, <1>6, <1>7

LEMMA PrefixesLast ==
    ASSUME NEW a, NEW n \in Nat, n \in 1..n, NEW f, NEW g,
           JoinsOf(f, a, n), JoinsOf(g, a, n + 1)
    PROVE  f[n] = g[n]
<1> DEFINE m == n + 1
<1>1. m \in Nat /\ n <= m /\ JoinsOf(g, a, m)
  OBVIOUS
<1> HIDE DEF m
<1>2. \A i \in 1..n : f[i] = g[i]
  BY <1>1, PrefixesUnique
<1> QED
  BY <1>2

LEMMA FlattenIsPrefix ==
    ASSUME NEW S, NEW s \in Seq(Seq(S)), s # << >>
    PROVE  \E f \in [1..Len(s) -> Seq(S)] :
              JoinsOf(f, s, Len(s)) /\ FlattenSeq(s) = f[Len(s)]
<1> DEFINE F == CHOOSE f : JoinsOf(f, s, Len(s))
<1>1. Len(s) \in Nat /\ Len(s) # 0
  OBVIOUS
<1>2. PICK f \in [1..Len(s) -> Seq(S)] : JoinsOf(f, s, Len(s))
  <2>1. Len(s) \in 0..Len(s)
    BY <1>1
  <2> DEFINE n == Len(s)
  <2>2. n \in 0..Len(s)
    BY <2>1
  <2> HIDE DEF n
  <2>3. \E f \in [1..n -> Seq(S)] : JoinsOf(f, s, n)
    BY <2>2, PrefixesExist
  <2> QED
    BY <2>3 DEF n
<1>3. JoinsOf(F, s, Len(s))
  BY <1>2
<1>4. FlattenSeq(s) = F[Len(s)]
  BY <1>1, Zenon DEF FlattenSeq, JoinsOf
<1>5. \A i \in 1..Len(s) : f[i] = F[i]
  <2> HIDE DEF F
  <2> QED
    BY <1>1, <1>2, <1>3, PrefixesUnique
<1>6. Len(s) \in 1..Len(s)
  BY <1>1
<1>7. f[Len(s)] = F[Len(s)]
  BY <1>5, <1>6, Zenon
<1> QED
  BY <1>2, <1>4, <1>7, Zenon

LEMMA FlattenAppend ==
    ASSUME NEW S, NEW s \in Seq(Seq(S)), NEW t \in Seq(S)
    PROVE  /\ FlattenSeq(s) \in Seq(S)
           /\ FlattenSeq(Append(s, t)) = FlattenSeq(s) \o t
<1> DEFINE a == Append(s, t)
<1>1. /\ a \in Seq(Seq(S)) /\ a # << >> /\ Len(a) = Len(s) + 1
      /\ a[Len(s) + 1] = t /\ \A i \in 1..Len(s) : a[i] = s[i]
      /\ Len(s) \in Nat
  BY AppendProperties, LenProperties
<1> HIDE DEF a
<1>2. PICK g \in [1..(Len(s) + 1) -> Seq(S)] :
         JoinsOf(g, a, Len(s) + 1) /\ FlattenSeq(a) = g[Len(s) + 1]
  BY <1>1, FlattenIsPrefix
<1>3. g[Len(s) + 1] = IF Len(s) = 0 THEN t ELSE g[Len(s)] \o t
  <2>1. Len(s) + 1 \in 1..(Len(s) + 1) /\ Len(s) + 1 - 1 = Len(s)
        /\ (Len(s) + 1 = 1 <=> Len(s) = 0)
    BY <1>1
  <2>2. g = [i \in 1..(Len(s) + 1) |-> IF i = 1 THEN a[i] ELSE g[i - 1] \o a[i]]
    BY <1>2 DEF JoinsOf
  <2> DEFINE n == Len(s) + 1
  <2>3. g[n] = IF n = 1 THEN a[n] ELSE g[n - 1] \o a[n]
    <3> HIDE DEF n
    <3> QED
      BY <2>1, <2>2 DEF n
  <2>4. g[n] = IF Len(s) = 0 THEN a[n] ELSE g[Len(s)] \o a[n]
    BY <2>1, <2>3
  <2> QED
    BY <1>1, <2>4
<1>4. CASE s = << >>
  <2>1. FlattenSeq(s) = << >>
    BY <1>4 DEF FlattenSeq
  <2>2. Len(s) = 0
    BY <1>4
  <2>3. << >> \o t = t /\ << >> \in Seq(S)
    OBVIOUS
  <2> QED
    BY <1>2, <1>3, <2>1, <2>2, <2>3, Zenon DEF a
<1>5. CASE s # << >>
  <2>1. PICK f \in [1..Len(s) -> Seq(S)] :
           JoinsOf(f, s, Len(s)) /\ FlattenSeq(s) = f[Len(s)]
    BY <1>5, FlattenIsPrefix
  <2>2. Len(s) \in 1..Len(s)
    BY <1>1, <1>5
  <2>3. \A i \in 1..Len(s) : s[i] = a[i]
    BY <1>1
  <2>4. Len(s) + 1 \in Nat /\ Len(s) <= Len(s) + 1
    BY <1>1
  <2>5. f[Len(s)] = g[Len(s)]
    <3>1. f = [i \in 1..Len(s) |-> IF i = 1 THEN s[i] ELSE f[i - 1] \o s[i]]
      BY <2>1, Zenon DEF JoinsOf
    <3>2. f = [i \in 1..Len(s) |-> IF i = 1 THEN a[i] ELSE f[i - 1] \o a[i]]
      BY <3>1, <2>3, Zenon
    <3>3. JoinsOf(f, a, Len(s))
      BY <3>2 DEF JoinsOf
    <3>4. JoinsOf(g, a, Len(s) + 1) /\ Len(s) \in Nat
      BY <1>1, <1>2
    <3> QED
      BY <2>2, <3>3, <3>4, PrefixesLast
  <2>6. f[Len(s)] \in Seq(S)
    BY <2>2, Zenon
  <2>7. Len(s) # 0
    BY <1>1, <2>2
  <2> QED
    BY <1>2, <1>3, <2>1, <2>5, <2>6, <2>7 DEF a
<1> QED
  BY <1>4, <1>5

----------------------------------------------------------------------------
(* Refinement: the FIFO is a packet channel *)

LEMMA WholeBlock ==
    ASSUME NEW b, Whole(b)
    PROVE  /\ b[1] \div Frame \in 1..MaxPackets /\ b[1] \div Frame \in Nat
           /\ b = Body(b[1] \div Frame)
<1>1. PICK p \in 1..MaxPackets : b = Body(p)
  BY DEF Whole
<1>2. p \in Nat /\ 1 \in 1..V1
  BY Constants, Sizes
<1>3. Body(p)[1] \div Frame = p
  BY <1>2, BodyBytes
<1> QED
  BY <1>1, <1>2, <1>3

LEMMA NumbersAppend ==
    ASSUME NEW bs \in Seq(Seq(Nat)), NEW b \in Seq(Nat)
    PROVE  /\ Numbers(bs) \in Seq(Nat)
           /\ Numbers(Append(bs, b)) =
                IF Whole(b) THEN Append(Numbers(bs), b[1] \div Frame) ELSE Numbers(bs)
<1> DEFINE Part(x) == IF Whole(x) THEN <<x[1] \div Frame>> ELSE << >>
<1> DEFINE s == [i \in DOMAIN bs |-> Part(bs[i])]
<1> DEFINE a == Append(bs, b)
<1> DEFINE t == [i \in DOMAIN a |-> Part(a[i])]
<1>1. ASSUME NEW x \in Seq(Nat) PROVE Part(x) \in Seq(Nat)
  <2>1. CASE Whole(x)
    <3> DEFINE n == x[1] \div Frame
    <3>1. n \in Nat
      BY <2>1, WholeBlock
    <3> HIDE DEF n
    <3>2. <<n>> \in Seq(Nat)
      BY <3>1
    <3> QED
      BY <2>1, <3>2 DEF n
  <2>2. CASE ~Whole(x)
    BY <2>2, EmptySeq
  <2> QED
    BY <2>1, <2>2
<1> HIDE DEF Part
<1>2. /\ DOMAIN bs = 1..Len(bs) /\ Len(bs) \in Nat
      /\ \A i \in 1..Len(bs) : bs[i] \in Seq(Nat)
  BY LenProperties, ElementOfSeq
<1>3. /\ a \in Seq(Seq(Nat)) /\ Len(a) = Len(bs) + 1 /\ DOMAIN a = 1..(Len(bs) + 1)
      /\ \A i \in 1..Len(bs) : a[i] = bs[i] /\ a[Len(bs) + 1] = b
  BY <1>2, AppendProperties, LenProperties
<1>4. s \in Seq(Seq(Nat)) /\ Len(s) = Len(bs)
  <2>1. s = [i \in 1..Len(bs) |-> Part(bs[i])]
    BY <1>2
  <2>2. \A i \in 1..Len(bs) : Part(bs[i]) \in Seq(Nat)
    BY <1>1, <1>2
  <2>3. s \in [1..Len(bs) -> Seq(Nat)]
    BY <2>1, <2>2
  <2> DEFINE n == Len(bs)
  <2>4. n \in Nat /\ s \in [1..n -> Seq(Nat)]
    BY <1>2, <2>3
  <2> HIDE DEF s, n
  <2>5. s \in Seq(Seq(Nat)) /\ Len(s) = n
    BY <2>4
  <2> QED
    BY <2>5 DEF n
<1> HIDE DEF a
<1>5. t = Append(s, Part(b))
  <2>1. Part(b) \in Seq(Nat)
    BY <1>1
  <2> DEFINE u == Append(s, Part(b))
  <2>2. /\ u \in Seq(Seq(Nat)) /\ Len(u) = Len(bs) + 1
        /\ \A i \in 1..Len(bs) : u[i] = s[i]
        /\ u[Len(bs) + 1] = Part(b)
    <3> HIDE DEF s
    <3> QED
      BY <1>4, <2>1, AppendProperties
  <2>3. \A i \in 1..Len(bs) : s[i] = Part(bs[i])
    BY <1>2
  <2> HIDE DEF s, u
  <2>4. \A i \in 1..(Len(bs) + 1) : u[i] = Part(a[i])
    <3> SUFFICES ASSUME NEW i \in 1..(Len(bs) + 1) PROVE u[i] = Part(a[i])
      OBVIOUS
    <3>1. CASE i \in 1..Len(bs)
      BY <1>3, <2>2, <2>3, <3>1
    <3>2. CASE i = Len(bs) + 1
      <4>1. a[i] = b
        BY <1>3, <3>2, AppendProperties DEF a
      <4> QED
        BY <2>2, <3>2, <4>1
    <3> QED
      BY <1>2, <3>1, <3>2
  <2>5. u \in [1..(Len(bs) + 1) -> Seq(Nat)]
    BY <2>2, LenProperties
  <2>6. t = u
    BY <1>3, <2>4, <2>5
  <2> QED
    BY <2>6 DEF u
<1>6. Numbers(bs) = FlattenSeq(s) /\ Numbers(a) = FlattenSeq(t)
  BY DEF Numbers, Part
<1>7. FlattenSeq(s) \in Seq(Nat) /\ FlattenSeq(t) = FlattenSeq(s) \o Part(b)
  <2>1. Part(b) \in Seq(Nat)
    BY <1>1
  <2> HIDE DEF s, t
  <2> QED
    BY <1>4, <1>5, <2>1, FlattenAppend
<1> DEFINE f == FlattenSeq(s)
<1>8. CASE Whole(b)
  <2> DEFINE n == b[1] \div Frame
  <2>1. Part(b) = <<n>> /\ n \in Nat
    BY <1>8, WholeBlock DEF Part
  <2>2. f \in Seq(Nat)
    BY <1>7
  <2> HIDE DEF f, n
  <2>3. f \o <<n>> = Append(f, n)
    BY <2>1, <2>2, AppendIsConcat
  <2> QED
    BY <1>6, <1>7, <1>8, <2>1, <2>3 DEF f, n, a
<1>9. CASE ~Whole(b)
  <2>1. Part(b) = << >>
    BY <1>9 DEF Part
  <2>2. f \in Seq(Nat)
    BY <1>7
  <2> HIDE DEF f
  <2>3. f \o << >> = f
    BY <2>2, ConcatEmptySeq
  <2> QED
    BY <1>6, <1>7, <1>9, <2>1, <2>2, <2>3 DEF f, a
<1> QED
  BY <1>8, <1>9

(***************************************************************************)
(* The packets handled so far come before every byte on its way, and       *)
(* before the packet that is being written.                                *)
(***************************************************************************)
Before(n) ==
    /\ n \in 1..packed
    /\ wpc = "data" => n < packed
    /\ \A j \in 1..Len(T) : n * Frame + Frame <= T[j]

PassedInv == \A n \in Range(Numbers(handled)) : Before(n)

LEMMA PassedInit == Init => PassedInv /\ Passed = [c \in {"uart"} |-> << >>]
<1> SUFFICES ASSUME Init PROVE PassedInv /\ Passed = [c \in {"uart"} |-> << >>]
  OBVIOUS
<1>1. Numbers(handled) = << >>
  <2>1. handled = << >>
    BY DEF Init
  <2>2. [i \in DOMAIN << >> |-> IF Whole(<< >>[i]) THEN <<<< >>[i][1] \div Frame>> ELSE << >>] = << >>
    OBVIOUS
  <2>3. FlattenSeq(<< >>) = << >>
    BY DEF FlattenSeq
  <2> QED
    BY <2>1, <2>2, <2>3 DEF Numbers
<1>2. Range(<< >>) = {}
  BY EmptySeq DEF Range
<1> QED
  BY <1>1, <1>2 DEF PassedInv, Passed

\* Bytes are lost or used.
LEMMA BeforeWindow ==
    ASSUME TypeOK, T' \in Seq(Nat), NEW n, Window(T, T', n), packed' = packed,
           wpc' = wpc \/ wpc' # "data", NEW m, Before(m)
    PROVE  Before(m)'
<1>1. Len(T) \in Nat /\ Len(T') \in Nat /\ n \in Nat /\ n + Len(T') <= Len(T)
  BY Total, LenProperties DEF Window
<1>2. \A i \in 1..Len(T') : n + i \in 1..Len(T) /\ T'[i] = T[n + i]
  BY <1>1 DEF Window
<1>3. \A i \in 1..Len(T') : m * Frame + Frame <= T'[i]
  BY <1>2 DEF Before
<1> QED
  BY <1>3 DEF Before

LEMMA FrameOrder ==
    ASSUME NEW m \in Nat, NEW n \in Nat
    PROVE  /\ m < n => m * Frame + Frame <= n * Frame
           /\ m * Frame + Frame <= n * Frame + 2 => m < n
           /\ m * Frame \in Nat /\ n * Frame \in Nat
<1>1. /\ m < n => m * 22 + 22 <= n * 22
      /\ m * 22 + 22 <= n * 22 + 2 => m < n
      /\ m * 22 \in Nat /\ n * 22 \in Nat
  OBVIOUS
<1> QED
  BY <1>1, Sizes

\* What holds of the bytes of both parts holds of all.
LEMMA AllJoined ==
    ASSUME NEW a \in Seq(Nat), NEW b \in Seq(Nat), NEW n,
           \A i \in 1..Len(a) : n <= a[i], \A i \in 1..Len(b) : n <= b[i]
    PROVE  \A i \in 1..Len(a \o b) : n <= (a \o b)[i]
<1>1. /\ Len(a) \in Nat /\ Len(b) \in Nat /\ Len(a \o b) = Len(a) + Len(b)
      /\ \A i \in 1..Len(a) : (a \o b)[i] = a[i]
      /\ \A i \in 1..Len(b) : (a \o b)[Len(a) + i] = b[i]
      /\ \A i \in 1..(Len(a) + Len(b)) : i \in 1..Len(a) \/ i - Len(a) \in 1..Len(b)
  BY Joined
<1> SUFFICES ASSUME NEW i \in 1..Len(a \o b) PROVE n <= (a \o b)[i]
  OBVIOUS
<1>2. CASE i \in 1..Len(a)
  BY <1>1, <1>2
<1>3. CASE i - Len(a) \in 1..Len(b)
  <2> DEFINE k == i - Len(a)
  <2>1. k \in 1..Len(b) /\ i = Len(a) + k
    BY <1>1, <1>3
  <2> HIDE DEF k
  <2> QED
    BY <1>1, <2>1
<1> QED
  BY <1>1, <1>2, <1>3

LEMMA BeforeMarker ==
    ASSUME TypeOK, ByteInv, SMarker, NEW m, Before(m)
    PROVE  Before(m)'
<1>1. /\ packed' = packed + 1 /\ packed' \in Nat /\ packed \in Nat
      /\ \/ T' = T /\ wpc' # "data"
         \/ T' = T \o Marker(packed')
  BY MarkerEffect, BoundsHold DEF Bounds
<1>2. m \in 1..packed' /\ m < packed' /\ m \in Nat
  BY <1>1 DEF Before
<1>3. \A j \in 1..Len(T) : m * Frame + Frame <= T[j]
  BY DEF Before
<1>4. CASE T' = T
  BY <1>2, <1>3, <1>4 DEF Before
<1>5. CASE T' = T \o Marker(packed')
  <2> DEFINE q == packed'
             s == Marker(q)
             t == T \o s
  <2>1. s \in Seq(Nat) /\ Len(s) = 2 /\ s[1] = q * Frame /\ s[2] = q * Frame + 1 /\ q * Frame \in Nat
    BY <1>1, MarkerBytes
  <2>2. m * Frame + Frame <= q * Frame /\ m * Frame \in Nat
    BY <1>1, <1>2, FrameOrder
  <2> HIDE DEF q, s
  <2>3. \A j \in 1..Len(s) : m * Frame + Frame <= s[j]
    BY <2>1, <2>2, Sizes
  <2>4. \A j \in 1..Len(t) : m * Frame + Frame <= t[j]
    BY <1>3, <2>1, <2>3, Total, AllJoined
  <2>5. T' = t
    BY <1>5 DEF q, s
  <2> HIDE DEF t
  <2>6. \A j \in 1..Len(T') : m * Frame + Frame <= T'[j]
    BY <2>4, <2>5
  <2> QED
    BY <1>2, <2>6 DEF Before
<1> QED
  BY <1>1, <1>4, <1>5

LEMMA BeforeData ==
    ASSUME TypeOK, FileInv, ByteInv, SData, NEW m, Before(m)
    PROVE  Before(m)'
<1>1. /\ packed' = packed /\ wpc = "data" /\ wpc' = "loop" /\ packed \in Nat
      /\ \/ T' = T
         \/ T' = T \o Body(packed)
  BY DataEffect, BoundsHold DEF Bounds
<1>2. m \in 1..packed /\ m < packed /\ m \in Nat
  BY <1>1 DEF Before
<1>3. \A j \in 1..Len(T) : m * Frame + Frame <= T[j]
  BY DEF Before
<1>4. CASE T' = T
  BY <1>1, <1>2, <1>3, <1>4 DEF Before
<1>5. CASE T' = T \o Body(packed)
  <2> DEFINE s == Body(packed)
             t == T \o s
  <2>1. s \in Seq(Nat) /\ Len(s) = V1 /\ \A i \in 1..V1 : s[i] > packed * Frame + 1
    BY <1>1, BodyBytes
  <2>2. m * Frame + Frame <= packed * Frame /\ m * Frame \in Nat /\ packed * Frame \in Nat
    BY <1>1, <1>2, FrameOrder
  <2> HIDE DEF s
  <2>3. ASSUME NEW j \in 1..Len(s) PROVE m * Frame + Frame <= s[j]
    <3>1. s[j] \in Nat /\ s[j] > packed * Frame + 1
      BY <2>1, ElementOfSeq
    <3> QED
      BY <2>2, <3>1, Sizes
  <2>4. \A j \in 1..Len(t) : m * Frame + Frame <= t[j]
    BY <1>3, <2>1, <2>3, Total, AllJoined
  <2>5. T' = t
    BY <1>5 DEF s
  <2> HIDE DEF t
  <2>6. \A j \in 1..Len(T') : m * Frame + Frame <= T'[j]
    BY <2>4, <2>5
  <2> QED
    BY <1>1, <1>2, <2>6 DEF Before
<1> QED
  BY <1>1, <1>4, <1>5

\* A packet is handled: it comes after those before it and before the bytes
\* that stay.
LEMMA BeforeHandle ==
    ASSUME TypeOK, FileInv, ByteInv, NEW len \in Nat, len <= Len(ahead), Handle(len),
           Whole(SubSeq(ahead, 1, len))
    PROVE  \E p \in 1..packed : /\ SubSeq(ahead, 1, len)[1] \div Frame = p
                               /\ Before(p)'
                               /\ \A m : Before(m) => m < p
<1> DEFINE block == SubSeq(ahead, 1, len)
           t == T'
<1>0. PICK p : p = block[1] \div Frame
  OBVIOUS
<1>1. /\ block \in Seq(Nat) /\ Len(block) = len
      /\ T \in Seq(Nat) /\ t \in Seq(Nat) /\ LosesAfter(len)
      /\ \A i \in 1..len : block[i] = T[i]
      /\ UNCHANGED <<packed, wpc>>
  BY HandleEffect, Total DEF sensorVars
<1> PICK n \in Nat : len <= n /\ Window(T, t, n)
  BY <1>1 DEF LosesAfter
<1>2. /\ p \in 1..MaxPackets /\ p \in Nat /\ block = Body(p)
  BY <1>0, WholeBlock
<1>3. len = V1
  <2>1. Len(Body(p)) = V1
    BY <1>2, BodyBytes
  <2> HIDE DEF block
  <2> QED
    BY <1>1, <1>2, <2>1
<1> HIDE DEF block, t
<1>4. /\ Len(T) \in Nat /\ V1 <= Len(T) /\ V1 = 20 /\ 1 \in 1..Len(T) /\ V1 \in 1..Len(T)
      /\ packed \in Nat
  <2>1. Len(T) \in Nat /\ Len(ahead) \in Nat /\ Len(ahead) <= Len(T) /\ V1 = 20
    BY Sizes, Total
  <2>2. packed \in Nat
    BY BoundsHold DEF Bounds
  <2> QED
    BY <1>3, <2>1, <2>2
<1>5. T[1] = p * Frame + 2 /\ T[V1] = p * Frame + 21 /\ p * Frame \in Nat
  <2>1. Body(p)[1] = p * Frame + 1 + 1 /\ Body(p)[V1] = p * Frame + 1 + V1
    <3>1. 1 \in 1..V1 /\ V1 \in 1..V1
      BY <1>4
    <3> QED
      BY <1>2, <3>1, BodyBytes
  <2>2. block[1] = T[1] /\ block[V1] = T[V1]
    BY <1>1, <1>3, <1>4
  <2>3. p * Frame \in Nat
    BY <1>2, FrameProduct
  <2> QED
    BY <1>2, <1>4, <2>1, <2>2, <2>3
<1>6. p \in 1..packed
  <2>1. Frame <= T[1] /\ T[1] < packed * Frame + Frame
    BY <1>4 DEF ByteInv
  <2>2. packed * Frame \in Nat
    BY <1>4, FrameProduct
  <2>3. p * Frame < packed * Frame + Frame
    BY <1>5, <2>1, <2>2, Sizes
  <2>4. ~(packed * Frame + Frame <= p * Frame)
    BY <1>5, <2>2, <2>3, Sizes
  <2>5. ~(packed < p)
    BY <1>2, <1>4, <2>4, FrameOrder
  <2> QED
    BY <1>2, <1>4, <2>5
<1>7. ASSUME wpc = "data" PROVE p < packed
  <2>1. T[1] <= packed * Frame + 1
    BY <1>4, <1>7 DEF ByteInv
  <2>2. p # packed
    <3>1. packed * Frame \in Nat
      BY <1>4, FrameProduct
    <3> QED
      BY <1>5, <2>1, <3>1
  <2> QED
    BY <1>2, <1>4, <1>6, <2>2
<1>8. ASSUME NEW j \in 1..Len(t) PROVE p * Frame + Frame <= t[j]
  <2> DEFINE k == n + j
  <2>1. k \in 1..Len(T) /\ V1 < k
    <3>1. Len(t) \in Nat /\ Len(t) + n <= Len(T)
      BY <1>1, LenProperties DEF Window
    <3> QED
      BY <1>3, <1>4, <3>1
  <2>2. t[j] = T[k]
    BY DEF Window
  <2> HIDE DEF k
  <2>3. T[V1] < T[k] /\ T[k] \in Nat
    BY <1>4, <2>1, Total DEF ByteInv
  <2> QED
    BY <1>5, <2>2, <2>3, Sizes
<1>9. ASSUME NEW m, Before(m) PROVE m < p
  <2>1. m \in Nat /\ m * Frame + Frame <= T[1]
    BY <1>4, <1>9 DEF Before
  <2> QED
    BY <1>2, <1>5, <2>1, FrameOrder
<1>10. Before(p)'
  <2>1. p \in 1..packed' /\ (wpc' = "data" => p < packed')
    BY <1>1, <1>6, <1>7
  <2>2. \A j \in 1..Len(T') : p * Frame + Frame <= T'[j]
    BY <1>8 DEF t
  <2> QED
    BY <2>1, <2>2 DEF Before
<1> QED
  BY <1>0, <1>6, <1>9, <1>10 DEF block


LEMMA RangeJoin ==
    ASSUME NEW s \in Seq(Nat), NEW t \in Seq(Nat)
    PROVE  Range(s \o t) = Range(s) \cup Range(t)
BY RangeConcatenation

\* Handling is the only step that changes what was handled.
LEMMA HandleOrKeep ==
    ASSUME TypeOK, [Next]_vars
    PROVE  \/ handled' = handled
           \/ \E len \in {V1, V2} : len <= Len(ahead) /\ Handle(len)
<1>1. CASE RBody \/ RMore
  <2>1. V1 \in Nat /\ V2 \in Nat /\ Len(ahead) \in Nat
    BY Sizes, Total
  <2>2. CASE RBody
    BY <2>1, <2>2 DEF RBody
  <2>3. CASE RMore
    BY <2>1, <2>3 DEF RMore
  <2> QED
    BY <1>1, <2>2, <2>3
<1>2. CASE REnd
  BY <1>2 DEF REnd
<1>3. CASE Quiet \/ SMarker \/ SData \/ SDie \/ SClose \/ RFill \/ RScan
  BY <1>3 DEF Quiet, SStart, SOpen, SUnlink, Stop, RLook, ROpen, RNext, RLonger, SMarker, SData, SDie,
              SClose, RFill, RScan, vars, readerVars
<1> QED
  BY <1>1, <1>2, <1>3 DEF Next, Reader, Quiet

\* The steps that handle nothing.
LEMMA BeforeKept ==
    ASSUME TypeOK, FileInv, ByteInv, [Next]_vars, handled' = handled,
           \A len \in {V1, V2} : ~(len <= Len(ahead) /\ Handle(len)),
           NEW m, Before(m)
    PROVE  Before(m)'
<1>1. ASSUME Quiet PROVE Before(m)'
  <2>1. T' = T /\ packed' = packed /\ (wpc' = wpc \/ wpc' # "data")
    BY <1>1, QuietEffect
  <2> QED
    BY <2>1 DEF Before
<1>2. ASSUME SDie \/ SClose PROVE Before(m)'
  <2>1. /\ Window(T, T', 0) /\ T' \in Seq(Nat) /\ packed' = packed /\ wpc' # "data"
    BY <1>2, SensorClosesEffect DEF Loses
  <2> QED
    BY <2>1, BeforeWindow
<1>3. ASSUME RFill PROVE Before(m)'
  <2>1. T' = T /\ packed' = packed /\ wpc' = wpc
    BY <1>3, FillEffect DEF RFill, sensorVars
  <2> QED
    BY <2>1 DEF Before
<1>4. ASSUME Close PROVE Before(m)'
  <2>1. /\ Window(T, T', Len(ahead)) /\ T' \in Seq(Nat) /\ packed' = packed /\ wpc' = wpc
    BY <1>4, CloseEffect DEF Loses, sensorVars
  <2> QED
    BY <2>1, BeforeWindow
<1>5. ASSUME RScan PROVE Before(m)'
  <2>1. PICK i \in DOMAIN ahead : ahead' = SubSeq(ahead, i + 1, Len(ahead))
    BY <1>5 DEF RScan
  <2>2. pipe' = pipe /\ packed' = packed /\ wpc' = wpc
    BY <1>5 DEF RScan, sensorVars
  <2>3. i \in 0..Len(ahead)
    BY <2>1, AheadIndex
  <2>4. T' \in Seq(Nat) /\ Window(T, T', i)
    BY <2>1, <2>2, <2>3, DropEffect
  <2> QED
    BY <2>2, <2>4, BeforeWindow
<1>6. ASSUME RBody \/ RMore \/ REnd PROVE Close
  <2>1. V1 \in Nat /\ V2 \in Nat /\ Len(ahead) \in Nat
    BY Sizes, Total
  <2>2. CASE RBody
    BY <2>1, <2>2 DEF RBody
  <2>3. CASE RMore
    BY <2>1, <2>3 DEF RMore
  <2>4. CASE REnd
    BY <2>4 DEF REnd
  <2> QED
    BY <1>6, <2>2, <2>3, <2>4
<1> QED
  BY <1>1, <1>2, <1>3, <1>4, <1>5, <1>6, BeforeMarker, BeforeData DEF Next, Reader, Quiet

\* A block is handled: the packet it is passes after all others.
LEMMA PassedHandle ==
    ASSUME TypeOK, FileInv, ByteInv, PassedInv, NEW len \in Nat, len <= Len(ahead), Handle(len)
    PROVE  /\ packed' = packed
           /\ \/ Numbers(handled)' = Numbers(handled) /\ PassedInv'
              \/ \E p \in 1..packed :
                   /\ Numbers(handled)' = Append(Numbers(handled), p) /\ PassedInv'
                   /\ \A n \in Range(Numbers(handled)) : n < p
<1> DEFINE block == SubSeq(ahead, 1, len)
           s == Numbers(handled)
           h == handled'
<1>1. /\ block \in Seq(Nat) /\ h = Append(handled, block)
      /\ T' \in Seq(Nat) /\ LosesAfter(len) /\ UNCHANGED <<packed, wpc>>
  BY HandleEffect DEF sensorVars
<1> PICK k \in Nat : Window(T, T', k)
  BY <1>1 DEF LosesAfter
<1>2. handled \in Seq(Seq(Nat))
  BY DEF TypeOK
<1>3. /\ s \in Seq(Nat)
      /\ Numbers(h) = IF Whole(block) THEN Append(s, block[1] \div Frame) ELSE s
  <2> HIDE DEF block, h
  <2> QED
    BY <1>1, <1>2, NumbersAppend
<1>4. ASSUME NEW n \in Range(s) PROVE Before(n) /\ Before(n)'
  <2>1. Before(n)
    BY <1>4 DEF PassedInv
  <2> QED
    BY <1>1, <2>1, BeforeWindow
<1>5. PassedInv' <=> \A n \in Range(Numbers(h)) : Before(n)'
  BY DEF PassedInv
<1> HIDE DEF block, s, h
<1>6. CASE ~Whole(block)
  <2>1. Numbers(h) = s
    BY <1>3, <1>6
  <2>2. PassedInv'
    BY <1>4, <1>5, <2>1
  <2> QED
    BY <1>1, <2>1, <2>2 DEF h, s
<1>7. CASE Whole(block)
  <2>1. PICK p \in 1..packed : /\ block[1] \div Frame = p /\ Before(p)'
                               /\ \A m : Before(m) => m < p
    BY <1>7, BeforeHandle DEF block
  <2>2. Numbers(h) = Append(s, p)
    BY <1>3, <1>7, <2>1
  <2>3. p \in Nat
    BY <2>1, BoundsHold DEF Bounds
  <2>4. Range(Append(s, p)) = Range(s) \cup {p}
    <3>1. <<p>> \in Seq(Nat) /\ Append(s, p) = s \o <<p>> /\ Range(<<p>>) = {p}
      BY <1>3, <2>3, AppendIsConcat DEF Range
    <3>2. Range(s \o <<p>>) = Range(s) \cup Range(<<p>>)
      BY <1>3, <3>1, RangeJoin
    <3> QED
      BY <3>1, <3>2
  <2>5. \A n \in Range(Append(s, p)) : Before(n)'
    BY <1>4, <2>1, <2>4
  <2>6. PassedInv'
    BY <1>5, <2>2, <2>5
  <2>7. \A n \in Range(s) : n < p
    BY <1>4, <2>1
  <2> QED
    BY <1>1, <2>2, <2>6, <2>7 DEF h, s
<1> QED
  BY <1>6, <1>7

LEMMA PassedStep ==
    ASSUME TypeOK, FileInv, ByteInv, PassedInv, [Next]_vars
    PROVE  /\ PassedInv' /\ Numbers(handled) \in Seq(Nat)
           /\ \/ Numbers(handled)' = Numbers(handled) /\ packed' \in {packed, packed + 1}
              \/ \E p \in 1..packed :
                   /\ Numbers(handled)' = Append(Numbers(handled), p) /\ packed' = packed
                   /\ \A n \in Range(Numbers(handled)) : n < p
<1>1. Numbers(handled) \in Seq(Nat)
  <2>1. handled \in Seq(Seq(Nat)) /\ << >> \in Seq(Nat)
    BY EmptySeq DEF TypeOK
  <2> QED
    BY <2>1, NumbersAppend
<1>2. ASSUME NEW len \in {V1, V2}, len <= Len(ahead), Handle(len)
      PROVE  /\ PassedInv' /\ packed' = packed
             /\ \/ Numbers(handled)' = Numbers(handled)
                \/ \E p \in 1..packed :
                     /\ Numbers(handled)' = Append(Numbers(handled), p)
                     /\ \A n \in Range(Numbers(handled)) : n < p
  <2>1. len \in Nat
    BY Sizes
  <2> QED
    BY <1>2, <2>1, PassedHandle
<1>3. CASE \A len \in {V1, V2} : ~(len <= Len(ahead) /\ Handle(len))
  <2>1. handled' = handled
    BY <1>3, HandleOrKeep
  <2>2. Numbers(handled)' = Numbers(handled)
    BY <2>1 DEF Numbers
  <2>3. ASSUME NEW n \in Range(Numbers(handled)) PROVE Before(n)'
    BY <1>3, <2>1, <2>3, BeforeKept DEF PassedInv
  <2>4. PassedInv'
    BY <2>2, <2>3 DEF PassedInv
  <2>5. packed' \in {packed, packed + 1}
    BY DEF Next, Reader, SStart, SOpen, SMarker, SData, SDie, SClose, SUnlink, Stop, RLook, ROpen,
           RFill, REnd, Close, CloseOn, RNext, RScan, Handle, RBody, RLonger, RMore, vars, sensorVars
  <2> QED
    BY <1>1, <2>2, <2>4, <2>5
<1> QED
  BY <1>1, <1>2, <1>3

LEMMA ChannelStep ==
    ASSUME TypeOK, FileInv, ByteInv, PassedInv, [Next]_vars
    PROVE  [Channel!Next]_<<packed, Passed>>
<1> DEFINE s == Numbers(handled)
           t == Numbers(handled)'
<1>1. s \in Seq(Nat)
  BY PassedStep
<1>2. Passed = [c \in {"uart"} |-> s] /\ Passed' = [c \in {"uart"} |-> t]
  BY DEF Passed
<1>3. CASE t = s /\ packed' \in {packed, packed + 1}
  <2>1. Passed' = Passed
    BY <1>2, <1>3
  <2>2. packed' = packed \/ packed' = packed + 1
    BY <1>3
  <2> QED
    BY <2>1, <2>2 DEF Channel!Next, Channel!Send
<1>4. ASSUME NEW p \in 1..packed, t = Append(s, p), packed' = packed,
             \A n \in Range(s) : n < p
      PROVE  [Channel!Next]_<<packed, Passed>>
  <2>1. p \in Nat
    BY BoundsHold DEF Bounds
  <2>2. \A i \in 1..Len(s) : s[i] \in Range(s)
    BY <1>1, RangeEquality
  <2>3. \A i \in 1..Len(s) : s[i] < p /\ s[i] # p
    <3>1. \A i \in 1..Len(s) : s[i] < p /\ s[i] \in Nat
      BY <1>1, <1>4, <2>2, ElementOfSeq
    <3> QED
      BY <2>1, <3>1
  <2> HIDE DEF s, t
  <2>4. Passed["uart"] = s
    BY <1>2
  <2>5. \A d \in {"uart"} : ~Channel!Contains(Passed[d], p)
    BY <2>3, <2>4 DEF Channel!Contains
  <2>6. \A i \in DOMAIN Passed["uart"] : Passed["uart"][i] < p
    <3>1. DOMAIN s = 1..Len(s)
      BY <1>1, LenProperties
    <3> QED
      BY <2>3, <2>4, <3>1
  <2>7. Passed' = [Passed EXCEPT !["uart"] = Append(@, p)]
    BY <1>2, <1>4
  <2>8. Channel!Deliver("uart", p)
    <3> HIDE DEF Passed
    <3> QED
      BY <1>4, <2>5, <2>6, <2>7, Zenon DEF Channel!Deliver
  <2> QED
    BY <1>4, <2>8 DEF Channel!Next
<1> QED
  BY <1>3, <1>4, PassedStep

(***************************************************************************)
(* The UART implements the packet channel: through closed and reopened     *)
(* files, frames cut short and sensors that are restarted, the gateway     *)
(* handles no packet twice, none that was not written, and those it        *)
(* handles in the order in which they were written.                        *)
(***************************************************************************)
THEOREM FifoIsChannel == Spec => IsChannel
<1>1. TypeInv /\ PassedInv /\ [Next]_vars => PassedInv'
  BY PassedStep DEF TypeInv
<1>2. TypeInv /\ PassedInv /\ [Next]_vars => [Channel!Next]_<<packed, Passed>>
  BY ChannelStep DEF TypeInv
<1>3. Init => Channel!Init /\ PassedInv
  BY PassedInit DEF Init, Channel!Init
<1> QED
  BY <1>1, <1>2, <1>3, TypeAlways, PTL DEF Spec, IsChannel, Channel!Spec

----------------------------------------------------------------------------
(* The reader on a file without a name *)

LEMMA StrandedStep ==
    ASSUME TypeInv, [Next]_vars, Stranded
    PROVE  Stranded' /\ wfile' = 0 /\ UNCHANGED <<written, handled>>
<1>1. /\ rpc = "opening" /\ rfile # name
      /\ files \in Nat /\ name \in 0..files /\ rfile \in 0..files /\ rfile # 0
      /\ wfile = 0
  BY DEF Stranded, TypeInv, TypeOK, FileInv
<1>2. CASE SStart \/ SMarker \/ SData \/ SDie \/ SClose \/ Stop
  BY <1>1, <1>2 DEF SStart, SMarker, SData, SDie, SClose, Stop, Stranded,
                    sensorVars, readerVars
<1>3. CASE SUnlink
  BY <1>1, <1>3 DEF SUnlink, Stranded, readerVars
<1>4. CASE SOpen
  <2>1. name' # rfile
    BY <1>1, <1>4 DEF SOpen
  <2> QED
    BY <1>1, <1>4, <2>1 DEF SOpen, Stranded
<1>5. ~Reader
  BY <1>1 DEF Reader, RLook, ROpen, RNext, RFill, REnd, RScan, RBody, RLonger,
              RMore, Short
<1>6. CASE UNCHANGED vars
  BY <1>1, <1>6 DEF vars, sensorVars, readerVars, Stranded
<1> QED
  BY <1>2, <1>3, <1>4, <1>5, <1>6 DEF Next

(***************************************************************************)
(* The second half of FindsFifo, and what it means.  A reader that waits   *)
(* for a writer of a file whose name is gone waits forever: no sensor that *)
(* starts later opens that file, for it finds another one under the name   *)
(* or makes one.  From then on the link is dead: no packet is written or   *)
(* handled any more, however many sensors start, and not even stop() ends  *)
(* the wait.                                                               *)
(***************************************************************************)
THEOREM StrandedForGood ==
    Spec => /\ [](Stranded => []Stranded)
            /\ [][Stranded => UNCHANGED <<rpc, written, handled>>]_vars
<1>1. TypeInv /\ [Next]_vars /\ Stranded => Stranded'
  BY StrandedStep
<1>2. TypeInv /\ [Next]_vars => [Stranded => UNCHANGED <<rpc, written, handled>>]_vars
  BY StrandedStep DEF Stranded
<1> QED
  BY <1>1, <1>2, TypeAlways, PTL DEF Spec

=============================================================================
