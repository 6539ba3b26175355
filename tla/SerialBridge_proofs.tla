------------------------- MODULE SerialBridge_proofs -------------------------
(***************************************************************************)
(* Theorems about SerialBridge, for packets of any size, any number of     *)
(* packets and connections, and any faults of the line, the port and TCP.  *)
(***************************************************************************)
EXTENDS SerialBridge, FiniteSetTheorems, SequenceTheorems, TLAPS

----------------------------------------------------------------------------
(* FlattenSeq.  It is defined by a recursive function; what that computes  *)
(* is shown by looking at the least argument at which it would not.        *)

LEMMA LeastElement ==
    ASSUME NEW T \in SUBSET Nat, T # {}
    PROVE  \E x \in T : \A y \in T : x <= y
<1>1. \E x \in T : \A y \in T : ~ (<<y,x>> \in OpToRel(<,Nat))
  BY NatLessThanWellFounded, WFMin, Zenon
<1>2. PICK x \in T : \A y \in T : ~ (<<y,x>> \in OpToRel(<,Nat))
  BY <1>1
<1>3. ASSUME NEW y \in T PROVE x <= y
  <2>1. ~ (<<y,x>> \in OpToRel(<,Nat))
    BY <1>2, Zenon
  <2>2. x \in Nat /\ y \in Nat
    OBVIOUS
  <2>3. ~ (<<y,x>> \in {ss \in Nat \X Nat : ss[1] < ss[2]})
    BY <2>1, Zenon DEF OpToRel
  <2> QED
    BY <2>2, <2>3
<1> QED BY <1>3

\* f joins the first n sequences of s, as FlattenSeq's function does.
JoinsOf(f, s, n) ==
    f = [i \in 1..n |-> IF i = 1 THEN s[i] ELSE f[i - 1] \o s[i]]

LEMMA PrefixesExist ==
    ASSUME NEW S, NEW s \in Seq(Seq(S)), NEW n \in 0..Len(s)
    PROVE  \E f \in [1..n -> Seq(S)] : JoinsOf(f, s, n)
<1> DEFINE Bad == {m \in 0..Len(s) : ~ \E f \in [1..m -> Seq(S)] : JoinsOf(f, s, m)}
<1>1. Len(s) \in Nat /\ \A i \in 1..Len(s) : s[i] \in Seq(S)
  OBVIOUS
<1>2. SUFFICES Bad = {}
  BY <1>2
<1>3. SUFFICES ASSUME Bad # {} PROVE FALSE
  BY <1>3
<1>4. PICK m \in Bad : \A k \in Bad : m <= k
  <2>1. Bad \in SUBSET Nat
    BY <1>1
  <2> HIDE DEF Bad
  <2> QED
    BY <1>3, <2>1, LeastElement
<1>5. m \in 0..Len(s) /\ ~ \E f \in [1..m -> Seq(S)] : JoinsOf(f, s, m)
  OBVIOUS
<1>6. CASE m = 0
  <2>1. [i \in 1..0 |-> << >>] \in [1..0 -> Seq(S)]
    OBVIOUS
  <2>2. JoinsOf([i \in 1..0 |-> << >>], s, 0)
    BY DEF JoinsOf
  <2> QED
    BY <1>5, <1>6, <2>1, <2>2
<1>7. CASE m > 0
  <2>1. m - 1 \in 0..Len(s) /\ m - 1 \notin Bad
    <3>1. m - 1 \in 0..Len(s) /\ m \in Nat /\ ~(m <= m - 1)
      BY <1>1, <1>5, <1>7
    <3> HIDE DEF Bad
    <3> QED
      BY <1>4, <3>1
  <2>2. PICK f \in [1..(m - 1) -> Seq(S)] : JoinsOf(f, s, m - 1)
    BY <2>1
  <2> DEFINE g == [i \in 1..m |-> IF i < m THEN f[i]
                                  ELSE IF i = 1 THEN s[i] ELSE f[i - 1] \o s[i]]
  <2>3. g \in [1..m -> Seq(S)]
    <3> SUFFICES ASSUME NEW i \in 1..m
                 PROVE  (IF i < m THEN f[i]
                         ELSE IF i = 1 THEN s[i] ELSE f[i - 1] \o s[i]) \in Seq(S)
      OBVIOUS
    <3>1. s[i] \in Seq(S)
      BY <1>1, <1>5
    <3>2. CASE i < m
      BY <3>2, <1>5
    <3>3. CASE i = m /\ i # 1
      <4>1. f[i - 1] \in Seq(S)
        BY <3>3, <1>5
      <4> QED
        BY <3>1, <3>3, <4>1
    <3> QED
      BY <3>1, <3>2, <3>3, <1>5
  <2>4. ASSUME NEW i \in 1..m
        PROVE  g[i] = IF i = 1 THEN s[i] ELSE g[i - 1] \o s[i]
    <3>1. CASE i < m
      <4>1. i \in 1..(m - 1)
        BY <3>1, <1>5
      <4>2. f[i] = IF i = 1 THEN s[i] ELSE f[i - 1] \o s[i]
        BY <2>2, <4>1 DEF JoinsOf
      <4>3. i # 1 => i - 1 \in 1..m /\ i - 1 < m
        BY <1>5
      <4> QED
        BY <3>1, <4>2, <4>3
    <3>2. CASE i = m
      <4>1. i # 1 => i - 1 \in 1..m /\ i - 1 < m
        BY <1>5
      <4> QED
        BY <3>2, <4>1
    <3> QED
      BY <3>1, <3>2, <1>5
  <2>5. JoinsOf(g, s, m)
    <3> HIDE DEF g
    <3> QED
      BY <2>3, <2>4 DEF JoinsOf
  <2> QED
    BY <1>5, <2>3, <2>5
<1> QED
  BY <1>1, <1>5, <1>6, <1>7

LEMMA PrefixesUnique ==
    ASSUME NEW s, NEW n \in Nat, NEW m \in Nat, NEW f, NEW g,
           JoinsOf(f, s, n), JoinsOf(g, s, m), n <= m
    PROVE  \A i \in 1..n : f[i] = g[i]
<1> DEFINE Bad == {i \in 1..n : f[i] # g[i]}
<1>1. SUFFICES ASSUME Bad # {} PROVE FALSE
  BY <1>1
<1>2. PICK i \in Bad : \A k \in Bad : i <= k
  <2>1. Bad \in SUBSET Nat
    OBVIOUS
  <2> HIDE DEF Bad
  <2> QED
    BY <1>1, <2>1, LeastElement
<1>3. i \in 1..n /\ i \in 1..m /\ f[i] # g[i]
  OBVIOUS
<1>4. i # 1 => i - 1 \in 1..n /\ i - 1 \notin Bad
  BY <1>2, <1>3
<1>5. i # 1 => f[i - 1] = g[i - 1]
  BY <1>4
<1>6. f[i] = IF i = 1 THEN s[i] ELSE f[i - 1] \o s[i]
  BY <1>3 DEF JoinsOf
<1>7. g[i] = IF i = 1 THEN s[i] ELSE g[i - 1] \o s[i]
  BY <1>3 DEF JoinsOf
<1> QED
  BY <1>3, <1>5, <1>6, <1>7

LEMMA PrefixesLast ==
    ASSUME NEW a, NEW n \in Nat, n \in 1..n, NEW f, NEW g,
           JoinsOf(f, a, n), JoinsOf(g, a, n + 1)
    PROVE  f[n] = g[n]
<1> DEFINE m == n + 1
<1>1. m \in Nat /\ n <= m /\ JoinsOf(g, a, m)
  OBVIOUS
<1> HIDE DEF m
<1>2. \A i \in 1..n : f[i] = g[i]
  BY <1>1, PrefixesUnique
<1> QED
  BY <1>2

LEMMA FlattenIsPrefix ==
    ASSUME NEW S, NEW s \in Seq(Seq(S)), s # << >>
    PROVE  \E f \in [1..Len(s) -> Seq(S)] :
              JoinsOf(f, s, Len(s)) /\ FlattenSeq(s) = f[Len(s)]
<1> DEFINE F == CHOOSE f : JoinsOf(f, s, Len(s))
<1>1. Len(s) \in Nat /\ Len(s) # 0
  OBVIOUS
<1>2. PICK f \in [1..Len(s) -> Seq(S)] : JoinsOf(f, s, Len(s))
  <2>1. Len(s) \in 0..Len(s)
    BY <1>1
  <2> DEFINE n == Len(s)
  <2>2. n \in 0..Len(s)
    BY <2>1
  <2> HIDE DEF n
  <2>3. \E f \in [1..n -> Seq(S)] : JoinsOf(f, s, n)
    BY <2>2, PrefixesExist
  <2> QED
    BY <2>3 DEF n
<1>3. JoinsOf(F, s, Len(s))
  BY <1>2
<1>4. FlattenSeq(s) = F[Len(s)]
  BY <1>1, Zenon DEF FlattenSeq, JoinsOf
<1>5. \A i \in 1..Len(s) : f[i] = F[i]
  <2> HIDE DEF F
  <2> QED
    BY <1>1, <1>2, <1>3, PrefixesUnique
<1>6. Len(s) \in 1..Len(s)
  BY <1>1
<1>7. f[Len(s)] = F[Len(s)]
  BY <1>5, <1>6, Zenon
<1> QED
  BY <1>2, <1>4, <1>7, Zenon

LEMMA FlattenAppend ==
    ASSUME NEW S, NEW s \in Seq(Seq(S)), NEW t \in Seq(S)
    PROVE  /\ FlattenSeq(s) \in Seq(S)
           /\ FlattenSeq(Append(s, t)) = FlattenSeq(s) \o t
<1> DEFINE a == Append(s, t)
<1>1. /\ a \in Seq(Seq(S)) /\ a # << >> /\ Len(a) = Len(s) + 1
      /\ a[Len(s) + 1] = t /\ \A i \in 1..Len(s) : a[i] = s[i]
      /\ Len(s) \in Nat
  BY AppendProperties, LenProperties
<1> HIDE DEF a
<1>2. PICK g \in [1..(Len(s) + 1) -> Seq(S)] :
         JoinsOf(g, a, Len(s) + 1) /\ FlattenSeq(a) = g[Len(s) + 1]
  BY <1>1, FlattenIsPrefix
<1>3. g[Len(s) + 1] = IF Len(s) = 0 THEN t ELSE g[Len(s)] \o t
  <2>1. Len(s) + 1 \in 1..(Len(s) + 1) /\ Len(s) + 1 - 1 = Len(s)
        /\ (Len(s) + 1 = 1 <=> Len(s) = 0)
    BY <1>1
  <2>2. g = [i \in 1..(Len(s) + 1) |-> IF i = 1 THEN a[i] ELSE g[i - 1] \o a[i]]
    BY <1>2 DEF JoinsOf
  <2> DEFINE n == Len(s) + 1
  <2>3. g[n] = IF n = 1 THEN a[n] ELSE g[n - 1] \o a[n]
    <3> HIDE DEF n
    <3> QED
      BY <2>1, <2>2 DEF n
  <2>4. g[n] = IF Len(s) = 0 THEN a[n] ELSE g[Len(s)] \o a[n]
    BY <2>1, <2>3
  <2> QED
    BY <1>1, <2>4
<1>4. CASE s = << >>
  <2>1. FlattenSeq(s) = << >>
    BY <1>4 DEF FlattenSeq
  <2>2. Len(s) = 0
    BY <1>4
  <2>3. << >> \o t = t /\ << >> \in Seq(S)
    OBVIOUS
  <2> QED
    BY <1>2, <1>3, <2>1, <2>2, <2>3, Zenon DEF a
<1>5. CASE s # << >>
  <2>1. PICK f \in [1..Len(s) -> Seq(S)] :
           JoinsOf(f, s, Len(s)) /\ FlattenSeq(s) = f[Len(s)]
    BY <1>5, FlattenIsPrefix
  <2>2. Len(s) \in 1..Len(s)
    BY <1>1, <1>5
  <2>3. \A i \in 1..Len(s) : s[i] = a[i]
    BY <1>1
  <2>4. Len(s) + 1 \in Nat /\ Len(s) <= Len(s) + 1
    BY <1>1
  <2>5. f[Len(s)] = g[Len(s)]
    <3>1. f = [i \in 1..Len(s) |-> IF i = 1 THEN s[i] ELSE f[i - 1] \o s[i]]
      BY <2>1, Zenon DEF JoinsOf
    <3>2. f = [i \in 1..Len(s) |-> IF i = 1 THEN a[i] ELSE f[i - 1] \o a[i]]
      BY <3>1, <2>3, Zenon
    <3>3. JoinsOf(f, a, Len(s))
      BY <3>2 DEF JoinsOf
    <3>4. JoinsOf(g, a, Len(s) + 1) /\ Len(s) \in Nat
      BY <1>1, <1>2
    <3> QED
      BY <2>2, <3>3, <3>4, PrefixesLast
  <2>6. f[Len(s)] \in Seq(S)
    BY <2>2, Zenon
  <2>7. Len(s) # 0
    BY <1>1, <2>2
  <2> QED
    BY <1>2, <1>3, <2>1, <2>5, <2>6, <2>7 DEF a
<1> QED
  BY <1>4, <1>5
----------------------------------------------------------------------------
(* Sequences *)

LEMMA SplitSeq ==
    ASSUME NEW S, NEW s \in Seq(S), NEW k \in 0..Len(s)
    PROVE  /\ SubSeq(s, 1, k) \in Seq(S) /\ Len(SubSeq(s, 1, k)) = k
           /\ SubSeq(s, k + 1, Len(s)) \in Seq(S)
           /\ Len(SubSeq(s, k + 1, Len(s))) = Len(s) - k
           /\ SubSeq(s, 1, k) \o SubSeq(s, k + 1, Len(s)) = s
           /\ \A i \in 1..k : SubSeq(s, 1, k)[i] = s[i]
           /\ \A i \in 1..(Len(s) - k) : SubSeq(s, k + 1, Len(s))[i] = s[k + i]
<1> DEFINE a == SubSeq(s, 1, k)
<1> DEFINE b == SubSeq(s, k + 1, Len(s))
<1>1. Len(s) \in Nat /\ k \in Nat /\ k <= Len(s) /\ \A i \in 1..Len(s) : s[i] \in S
  BY LenProperties, ElementOfSeq
<1>2. a \in Seq(S) /\ Len(a) = k /\ \A i \in 1..k : a[i] = s[i]
  <2>1. \A i \in 1..k : s[i] \in S
    BY <1>1
  <2> QED
    BY <1>1, <2>1, SubSeqProperties
<1>3. /\ b \in Seq(S) /\ Len(b) = Len(s) - k
      /\ \A i \in 1..(Len(s) - k) : b[i] = s[k + i]
  <2>1. \A i \in (k + 1)..Len(s) : s[i] \in S
    BY <1>1
  <2>2. k + 1 \in Int /\ Len(s) \in Int
    BY <1>1
  <2> QED
    BY <1>1, <2>1, <2>2, SubSeqProperties
<1> HIDE DEF a, b
<1>4. a \o b = s
  <2>1. /\ a \o b \in Seq(S) /\ Len(a \o b) = Len(a) + Len(b)
        /\ \A i \in 1..(Len(a) + Len(b)) :
              (a \o b)[i] = IF i <= Len(a) THEN a[i] ELSE b[i - Len(a)]
    BY <1>2, <1>3, ConcatProperties
  <2>2. Len(a \o b) = Len(s)
    BY <1>1, <1>2, <1>3, <2>1
  <2>3. ASSUME NEW i \in 1..Len(s) PROVE (a \o b)[i] = s[i]
    <3>1. CASE i <= k
      BY <1>1, <1>2, <1>3, <2>1, <3>1
    <3>2. CASE i > k
      <4>1. i - k \in 1..(Len(s) - k) /\ k + (i - k) = i
        BY <1>1, <3>2
      <4>2. b[i - k] = s[i]
        BY <1>3, <4>1
      <4>3. i \in 1..(Len(a) + Len(b)) /\ ~(i <= Len(a)) /\ Len(a) = k
        BY <1>1, <1>2, <1>3, <3>2
      <4>4. (a \o b)[i] = b[i - Len(a)]
        BY <2>1, <4>3
      <4> QED
        BY <1>1, <4>2, <4>3, <4>4
    <3>3. i <= k \/ i > k
      BY <1>1
    <3> QED
      BY <3>1, <3>2, <3>3
  <2> QED
    BY <2>1, <2>2, <2>3, SeqEqual
<1> QED
  BY <1>2, <1>3, <1>4 DEF a, b

\* s \o t is increasing if s and t are and s ends below the beginning of t.
Below(s, t) == \A x \in Range(s), y \in Range(t) : x < y

LEMMA IncreasingConcat ==
    ASSUME NEW s \in Seq(Nat), NEW t \in Seq(Nat)
    PROVE  Increasing(s \o t) <=> Increasing(s) /\ Increasing(t) /\ Below(s, t)
<1> DEFINE u == s \o t
<1>1. /\ u \in Seq(Nat) /\ Len(u) = Len(s) + Len(t)
      /\ \A i \in 1..(Len(s) + Len(t)) : u[i] = IF i <= Len(s) THEN s[i] ELSE t[i - Len(s)]
      /\ Len(s) \in Nat /\ Len(t) \in Nat
      /\ DOMAIN u = 1..Len(u) /\ DOMAIN s = 1..Len(s) /\ DOMAIN t = 1..Len(t)
  BY ConcatProperties, LenProperties
<1> HIDE DEF u
<1>6. Below(s, t) <=> \A i \in 1..Len(s), j \in 1..Len(t) : s[i] < t[j]
  <2>1. Range(s) = {s[i] : i \in 1..Len(s)} /\ Range(t) = {t[i] : i \in 1..Len(t)}
    BY RangeEquality
  <2> QED
    BY <2>1 DEF Below
<1>2. \A i \in 1..Len(s) : i \in 1..Len(u) /\ u[i] = s[i]
  BY <1>1
<1>3. ASSUME NEW j \in 1..Len(t) PROVE Len(s) + j \in 1..Len(u) /\ u[Len(s) + j] = t[j]
  <2>1. Len(s) + j \in 1..(Len(s) + Len(t)) /\ ~(Len(s) + j <= Len(s)) /\ Len(s) + j - Len(s) = j
    BY <1>1
  <2> DEFINE k == Len(s) + j
  <2>2. k \in 1..(Len(s) + Len(t)) /\ ~(k <= Len(s)) /\ k - Len(s) = j
    BY <2>1
  <2> HIDE DEF k
  <2>3. u[k] = t[j]
    BY <1>1, <2>2
  <2> QED
    BY <1>1, <2>2, <2>3 DEF k
<1>4. ASSUME Increasing(u) PROVE Increasing(s) /\ Increasing(t) /\ Below(s, t)
  <2>1. \A i, j \in 1..Len(u) : i < j => u[i] < u[j]
    BY <1>1, <1>4 DEF Increasing
  <2>2. Increasing(s)
    BY <1>1, <1>2, <2>1 DEF Increasing
  <2>3. ASSUME NEW i \in 1..Len(t), NEW j \in 1..Len(t), i < j PROVE t[i] < t[j]
    <3>1. Len(s) + i < Len(s) + j
      BY <1>1, <2>3
    <3> QED
      BY <1>3, <2>1, <3>1
  <2>4. ASSUME NEW i \in 1..Len(s), NEW j \in 1..Len(t) PROVE s[i] < t[j]
    <3>1. i < Len(s) + j
      BY <1>1
    <3> QED
      BY <1>2, <1>3, <2>1, <3>1
  <2> QED
    BY <1>1, <1>6, <2>2, <2>3, <2>4 DEF Increasing
<1>5. ASSUME Increasing(s), Increasing(t), Below(s, t) PROVE Increasing(u)
  <2> SUFFICES ASSUME NEW i \in 1..Len(u), NEW j \in 1..Len(u), i < j PROVE u[i] < u[j]
    BY <1>1 DEF Increasing
  <2>1. CASE j <= Len(s)
    <3>1. i \in 1..Len(s) /\ j \in 1..Len(s)
      BY <1>1, <2>1
    <3> QED
      BY <1>1, <1>2, <1>5, <3>1 DEF Increasing
  <2>2. CASE i <= Len(s) /\ j > Len(s)
    <3>1. i \in 1..Len(s) /\ j - Len(s) \in 1..Len(t) /\ u[i] = s[i] /\ u[j] = t[j - Len(s)]
      BY <1>1, <2>2
    <3> QED
      BY <1>5, <1>6, <3>1
  <2>3. CASE i > Len(s) /\ j > Len(s)
    <3>1. /\ i - Len(s) \in 1..Len(t) /\ j - Len(s) \in 1..Len(t) /\ i - Len(s) < j - Len(s)
          /\ u[i] = t[i - Len(s)] /\ u[j] = t[j - Len(s)]
      <4>1. /\ i \in 1..(Len(s) + Len(t)) /\ j \in 1..(Len(s) + Len(t)) /\ i \in Int /\ j \in Int
            /\ ~(i <= Len(s)) /\ ~(j <= Len(s))
        BY <1>1, <2>3
      <4>2. u[i] = t[i - Len(s)] /\ u[j] = t[j - Len(s)]
        BY <1>1, <4>1
      <4> QED
        BY <1>1, <4>1, <4>2
    <3> QED
      BY <1>1, <1>5, <3>1 DEF Increasing
  <2> QED
    BY <1>1, <2>1, <2>2, <2>3
<1> QED
  BY <1>4, <1>5 DEF u

LEMMA RemoveOne ==
    ASSUME NEW S \in SUBSET Nat, NEW s \in Seq(S), Increasing(s), NEW i \in 1..Len(s)
    PROVE  /\ RemoveAt(s, i) \in Seq(S) /\ Increasing(RemoveAt(s, i))
           /\ s[i] \in S /\ s[i] \in Range(s)
           /\ Range(RemoveAt(s, i)) = Range(s) \ {s[i]}
<1> DEFINE a == SubSeq(s, 1, i - 1)
<1> DEFINE c == SubSeq(s, i + 1, Len(s))
<1> DEFINE r == a \o c
<1>1. /\ Len(s) \in Nat /\ i \in Nat /\ i \in 1..Len(s) /\ DOMAIN s = 1..Len(s)
      /\ \A j \in 1..Len(s) : s[j] \in S /\ s[j] \in Nat
  <2>1. Len(s) \in Nat /\ DOMAIN s = 1..Len(s)
    BY LenProperties
  <2>2. \A j \in 1..Len(s) : s[j] \in S
    BY ElementOfSeq
  <2>3. \A x \in S : x \in Nat
    OBVIOUS
  <2>4. i \in Nat
    BY <2>1
  <2> QED
    BY <2>1, <2>2, <2>3, <2>4
<1>2. a \in Seq(S) /\ Len(a) = i - 1 /\ \A j \in 1..(i - 1) : a[j] = s[j]
  <2>1. i - 1 \in 0..Len(s)
    BY <1>1
  <2> QED
    BY <2>1, SplitSeq
<1>3. c \in Seq(S) /\ Len(c) = Len(s) - i /\ \A j \in 1..(Len(s) - i) : c[j] = s[i + j]
  <2>1. i \in 0..Len(s)
    BY <1>1
  <2> QED
    BY <2>1, SplitSeq
<1> HIDE DEF a, c
<1>4. /\ r \in Seq(S) /\ Len(r) = Len(a) + Len(c)
      /\ \A j \in 1..(Len(a) + Len(c)) : r[j] = IF j <= Len(a) THEN a[j] ELSE c[j - Len(a)]
      /\ DOMAIN r = 1..Len(r)
  BY <1>2, <1>3, ConcatProperties, LenProperties
<1> HIDE DEF r
<1>5. Len(r) = Len(s) - 1 /\ Len(a) + Len(c) = Len(s) - 1
  BY <1>1, <1>2, <1>3, <1>4
<1>6. ASSUME NEW j \in 1..(Len(s) - 1)
      PROVE  IF j < i THEN j \in 1..Len(s) /\ r[j] = s[j]
                      ELSE j + 1 \in 1..Len(s) /\ r[j] = s[j + 1]
  <2>1. CASE j < i
    <3>1. j \in 1..(i - 1) /\ j <= Len(a) /\ j \in 1..(Len(a) + Len(c)) /\ j \in 1..Len(s)
      BY <1>1, <1>2, <1>5, <2>1
    <3> QED
      BY <1>2, <1>4, <2>1, <3>1
  <2>2. CASE ~(j < i)
    <3>1. /\ ~(j <= Len(a)) /\ j \in 1..(Len(a) + Len(c)) /\ j + 1 \in 1..Len(s)
          /\ j - Len(a) \in 1..(Len(s) - i) /\ i + (j - Len(a)) = j + 1
      BY <1>1, <1>2, <1>5, <2>2
    <3>2. c[j - Len(a)] = s[j + 1]
      BY <1>3, <3>1
    <3>3. r[j] = c[j - Len(a)]
      BY <1>4, <3>1
    <3> QED
      BY <2>2, <3>1, <3>2, <3>3
  <2> QED
    BY <2>1, <2>2
<1>7. \A j, k \in 1..Len(s) : j < k => s[j] < s[k]
  BY <1>1 DEF Increasing
<1>8. ASSUME NEW j \in 1..(Len(s) - 1), NEW k \in 1..(Len(s) - 1), j < k PROVE r[j] < r[k]
  <2>1. CASE k < i
    <3>1. j < i
      BY <1>1, <1>8, <2>1
    <3> QED
      BY <1>6, <1>7, <1>8, <2>1, <3>1
  <2>2. CASE j < i /\ ~(k < i)
    <3>1. j < k + 1
      BY <1>1, <1>8
    <3> QED
      BY <1>6, <1>7, <2>2, <3>1
  <2>3. CASE ~(j < i) /\ ~(k < i)
    <3>1. j + 1 < k + 1
      BY <1>1, <1>8
    <3> QED
      BY <1>6, <1>7, <2>3, <3>1
  <2> QED
    BY <1>1, <1>8, <2>1, <2>2, <2>3
<1>9. Increasing(r)
  BY <1>4, <1>5, <1>8 DEF Increasing
<1>10. Range(s) = {s[j] : j \in 1..Len(s)} /\ Range(r) = {r[j] : j \in 1..Len(r)}
  BY <1>4, RangeEquality
<1>11. Range(r) = Range(s) \ {s[i]}
  <2>1. ASSUME NEW x \in Range(r) PROVE x \in Range(s) \ {s[i]}
    <3>1. PICK j \in 1..(Len(s) - 1) : x = r[j]
      BY <1>5, <1>10
    <3>2. CASE j < i
      <4>1. j \in 1..Len(s) /\ x = s[j] /\ s[j] < s[i]
        BY <1>1, <1>6, <1>7, <3>1, <3>2
      <4> QED
        BY <1>1, <1>10, <4>1
    <3>3. CASE ~(j < i)
      <4>1. i < j + 1
        BY <1>1, <3>3
      <4>2. j + 1 \in 1..Len(s) /\ x = s[j + 1] /\ s[i] < s[j + 1]
        BY <1>1, <1>6, <1>7, <3>1, <3>3, <4>1
      <4> QED
        BY <1>1, <1>10, <4>2
    <3> QED
      BY <3>2, <3>3
  <2>2. ASSUME NEW x \in Range(s) \ {s[i]} PROVE x \in Range(r)
    <3>1. PICK j \in 1..Len(s) : x = s[j]
      BY <1>10
    <3>2. j # i
      BY <2>2, <3>1
    <3>3. CASE j < i
      <4>1. j \in 1..(Len(s) - 1)
        BY <1>1, <3>3
      <4>2. r[j] = x
        BY <1>6, <3>1, <3>3, <4>1
      <4> QED
        BY <1>5, <1>10, <4>1, <4>2
    <3>4. CASE j > i
      <4>1. j - 1 \in 1..(Len(s) - 1) /\ ~(j - 1 < i) /\ j - 1 + 1 = j
        BY <1>1, <3>4
      <4>2. r[j - 1] = x
        BY <1>6, <3>1, <4>1
      <4> QED
        BY <1>5, <1>10, <4>1, <4>2
    <3> QED
      BY <1>1, <3>2, <3>3, <3>4
  <2> QED
    BY <2>1, <2>2
<1>12. s[i] \in Range(s)
  BY <1>1, <1>10
<1> QED
  BY <1>1, <1>4, <1>9, <1>11, <1>12 DEF RemoveAt, r, a, c

----------------------------------------------------------------------------
(* Types *)

LEMMA Constants ==
    /\ Size \in Nat /\ Size >= 1 /\ MaxPackets \in Nat /\ MaxConns \in Nat /\ MaxConns >= 1
    /\ MaxPackets * Size \in Nat
    /\ Bytes \in SUBSET Nat
<1>1. Size \in Nat /\ Size >= 1 /\ MaxPackets \in Nat /\ MaxConns \in Nat /\ MaxConns >= 1
  BY SizeAssumption, BoundAssumption
<1>2. MaxPackets * Size \in Nat
  BY <1>1
<1> QED
  BY <1>1, <1>2 DEF Bytes

\* What the bridge has under way: a block to be sent is a whole one, and there
\* is a connection to send it on.
Underway ==
    /\ pc = "send" => Len(packet) = Size
    /\ pc # "connect" => conn \in Conns

LEMMA TypeInit == Init => TypeOK /\ Underway
<1> SUFFICES ASSUME Init PROVE TypeOK /\ Underway
  OBVIOUS
<1>1. << >> \in Seq(Bytes) /\ Len(<< >>) = 0 /\ << >> \in Seq([1..Size -> Bytes])
  BY EmptySeq
<1>2. faults \in 0..MaxFaults
  BY BoundAssumption DEF Init
<1>3. /\ given \in [Conns -> Seq([1..Size -> Bytes])] /\ arr \in [Conns -> Nat]
      /\ \A c \in Conns : arr[c] \in 0..Len(given[c])
  BY <1>1 DEF Init
<1> QED
  BY <1>1, <1>2, <1>3, Constants DEF Init, TypeOK, Underway

\* TypeOK in parts: the line, the bridge, its connections.
LineOK ==
    /\ sent \in 0..(MaxPackets * Size)
    /\ line \in Seq(Bytes) /\ missing \in SUBSET Bytes

BridgeOK ==
    /\ pc \in {"connect", "read", "cut", "send"}
    /\ buffer \in Seq(Bytes)
    /\ Len(buffer) < IF pc = "cut" THEN 2 * Size ELSE Size
    /\ packet \in Seq(Bytes) /\ Len(packet) \in {0, Size}
    /\ blocks \in Seq([1..Size -> Bytes])

TcpOK ==
    /\ conn \in 0..MaxConns /\ broken \in SUBSET Conns
    /\ given \in [Conns -> Seq([1..Size -> Bytes])]
    /\ arr \in [Conns -> Nat] /\ \A c \in Conns : arr[c] \in 0..Len(given[c])

LEMMA TypeParts ==
    TypeOK <=> LineOK /\ BridgeOK /\ TcpOK /\ faults \in 0..MaxFaults
  BY DEF TypeOK, LineOK, BridgeOK, TcpOK

LEMMA FaultsStep == ASSUME TypeOK, Next PROVE faults' \in 0..MaxFaults
<1>1. Fault => faults' \in 0..MaxFaults
  BY BoundAssumption DEF Fault, TypeOK
<1> QED
  BY <1>1 DEF Next, SendByte, LoseByte, Connect, Bridge, Read, Cut, CutDone, SendAll, Reopen,
              SendFails, Break, Deliver, TypeOK

LEMMA LineStep == ASSUME TypeOK, Next PROVE LineOK'
<1>1. LineOK
  BY DEF TypeOK, LineOK
<1>2. CASE SendByte
  <2>1. sent' = sent + 1 /\ sent' \in 0..(MaxPackets * Size) /\ sent' \in Bytes
    BY <1>1, <1>2, Constants DEF SendByte, LineOK, Bytes
  <2>2. Append(line, sent') \in Seq(Bytes)
    BY <1>1, <2>1, AppendProperties DEF LineOK
  <2> QED
    BY <1>1, <1>2, <2>1, <2>2 DEF SendByte, LineOK
<1>3. CASE LoseByte
  <2>1. PICK i \in DOMAIN line : missing' = missing \cup {line[i]} /\ line' = RemoveAt(line, i)
    BY <1>3 DEF LoseByte
  <2>2. i \in 1..Len(line) /\ line \in Seq(Bytes) /\ Len(line) \in Nat
    BY <1>1, <2>1, LenProperties DEF LineOK
  <2>3. line[i] \in Bytes
    BY <2>2, ElementOfSeq
  <2>4. SubSeq(line, 1, i - 1) \in Seq(Bytes) /\ SubSeq(line, i + 1, Len(line)) \in Seq(Bytes)
    <3>1. i - 1 \in 0..Len(line) /\ i \in 0..Len(line)
      BY <2>2
    <3> QED
      BY <2>2, <3>1, SplitSeq
  <2>5. RemoveAt(line, i) \in Seq(Bytes)
    BY <2>4, ConcatProperties DEF RemoveAt
  <2> QED
    BY <1>1, <1>3, <2>1, <2>3, <2>5 DEF LoseByte, LineOK
<1>4. CASE Read
  <2>1. PICK k \in 1..Size : k <= Len(line) /\ line' = SubSeq(line, k + 1, Len(line))
    BY <1>4 DEF Read
  <2>2. k \in 0..Len(line) /\ line \in Seq(Bytes)
    BY <1>1, <2>1, LenProperties, Constants DEF LineOK
  <2>3. line' \in Seq(Bytes)
    BY <2>1, <2>2, SplitSeq
  <2> QED
    BY <1>1, <1>4, <2>3 DEF Read, LineOK
<1>5. CASE Reopen
  <2>1. Range(line) \in SUBSET Bytes /\ << >> \in Seq(Bytes)
    BY <1>1, RangeOfSeq, EmptySeq DEF LineOK
  <2> QED
    BY <1>1, <1>5, <2>1 DEF Reopen, LineOK
<1>6. CASE UNCHANGED lineVars
  BY <1>1, <1>6 DEF lineVars, LineOK
<1> QED
  BY <1>2, <1>3, <1>4, <1>5, <1>6
     DEF Next, Bridge, Connect, Cut, CutDone, SendAll, SendFails, Break, Deliver

LEMMA BlockIsSeq ==
    ASSUME NEW b
    PROVE  b \in [1..Size -> Bytes] <=> b \in Seq(Bytes) /\ Len(b) = Size
<1>1. ASSUME b \in [1..Size -> Bytes] PROVE b \in Seq(Bytes) /\ Len(b) = Size
  BY <1>1, Constants
<1>2. ASSUME b \in Seq(Bytes), Len(b) = Size PROVE b \in [1..Size -> Bytes]
  BY <1>2, LenProperties
<1> QED
  BY <1>1, <1>2

LEMMA CutEffect ==
    ASSUME TypeOK, Cut
    PROVE  /\ packet' \in Seq(Bytes) /\ Len(packet') = Size /\ packet' \in [1..Size -> Bytes]
           /\ buffer' \in Seq(Bytes) /\ Len(buffer') = Len(buffer) - Size
           /\ Len(buffer) \in Nat /\ Len(buffer) >= Size /\ Len(buffer) < 2 * Size
           /\ buffer = packet' \o buffer'
           /\ \A i \in 1..Size : packet'[i] = buffer[i]
           /\ blocks' = Append(blocks, packet')
<1>1. /\ buffer \in Seq(Bytes) /\ Len(buffer) \in Nat /\ Size \in 0..Len(buffer)
      /\ Len(buffer) < 2 * Size /\ Len(buffer) >= Size
  BY Constants, LenProperties DEF TypeOK, Cut
<1>2. packet' = SubSeq(buffer, 1, Size) /\ buffer' = SubSeq(buffer, Size + 1, Len(buffer))
  BY DEF Cut
<1>3. /\ packet' \in Seq(Bytes) /\ Len(packet') = Size
      /\ buffer' \in Seq(Bytes) /\ Len(buffer') = Len(buffer) - Size
      /\ packet' \o buffer' = buffer
      /\ \A i \in 1..Size : packet'[i] = buffer[i]
  BY <1>1, <1>2, SplitSeq
<1>4. packet' \in [1..Size -> Bytes]
  <2> DEFINE b == packet'
  <2>1. b \in Seq(Bytes) /\ Len(b) = Size
    BY <1>3
  <2> HIDE DEF b
  <2>2. b \in [1..Size -> Bytes]
    BY <2>1, BlockIsSeq
  <2> QED
    BY <2>2 DEF b
<1> QED
  BY <1>1, <1>3, <1>4 DEF Cut

LEMMA Associative ==
    ASSUME NEW s \in Seq(Bytes), NEW t \in Seq(Bytes), NEW u \in Seq(Bytes)
    PROVE  (s \o t) \o u = s \o (t \o u)
  BY ConcatAssociative, SMTT(30)

LEMMA ReadEffect ==
    ASSUME TypeOK, Read
    PROVE  /\ buffer' \in Seq(Bytes) /\ Len(buffer') < 2 * Size
           /\ line' \in Seq(Bytes)
           /\ buffer' \o line' = buffer \o line
<1>1. PICK k \in 1..Size : /\ k <= Len(line)
                           /\ buffer' = buffer \o SubSeq(line, 1, k)
                           /\ line' = SubSeq(line, k + 1, Len(line))
  BY DEF Read
<1>2. /\ k \in 0..Len(line) /\ k \in Nat /\ line \in Seq(Bytes) /\ buffer \in Seq(Bytes)
      /\ Len(buffer) \in Nat /\ Len(buffer) < Size
  BY <1>1, LenProperties, Constants DEF TypeOK, Read
<1> DEFINE a == SubSeq(line, 1, k)
<1> DEFINE b == SubSeq(line, k + 1, Len(line))
<1>3. a \in Seq(Bytes) /\ Len(a) = k /\ b \in Seq(Bytes) /\ a \o b = line
  BY <1>2, SplitSeq
<1>4. buffer' = buffer \o a /\ line' = b
  BY <1>1
<1> HIDE DEF a, b
<1>5. buffer \o a \in Seq(Bytes) /\ Len(buffer \o a) = Len(buffer) + k
  BY <1>2, <1>3, ConcatProperties
<1>6. (buffer \o a) \o b = buffer \o (a \o b)
  BY <1>2, <1>3, Associative
<1>7. Len(buffer) + k < 2 * Size
  BY <1>1, <1>2, Constants
<1> QED
  BY <1>3, <1>4, <1>5, <1>6, <1>7

LEMMA BridgeStep == ASSUME TypeOK, Next PROVE BridgeOK'
<1>1. BridgeOK /\ Len(buffer) \in Nat
  BY LenProperties DEF TypeOK, BridgeOK
<1>2. CASE Read
  BY <1>1, <1>2, ReadEffect DEF Read, BridgeOK
<1>3. CASE Cut
  <2>1. /\ packet' \in Seq(Bytes) /\ Len(packet') = Size /\ packet' \in [1..Size -> Bytes]
        /\ buffer' \in Seq(Bytes) /\ Len(buffer') = Len(buffer) - Size
        /\ Len(buffer) >= Size /\ Len(buffer) < 2 * Size
        /\ blocks' = Append(blocks, packet')
    BY <1>3, CutEffect
  <2>2. blocks' \in Seq([1..Size -> Bytes])
    BY <1>1, <2>1, AppendProperties DEF BridgeOK
  <2>3. Len(buffer') < Size /\ Len(buffer') < 2 * Size
    BY <1>1, <2>1, Constants
  <2>4. pc' \in {"cut", "send"}
    BY <1>3 DEF Cut
  <2> QED
    BY <2>1, <2>2, <2>3, <2>4 DEF BridgeOK
<1>4. CASE CutDone
  BY <1>1, <1>4 DEF CutDone, BridgeOK
<1>5. CASE SendAll
  BY <1>1, <1>5, Constants DEF SendAll, BridgeOK
<1>6. CASE Connect
  BY <1>1, <1>6 DEF Connect, BridgeOK
<1>7. CASE SendFails
  BY <1>1, <1>7 DEF SendFails, BridgeOK
<1>8. CASE UNCHANGED bridgeVars
  BY <1>1, <1>8 DEF bridgeVars, BridgeOK
<1> QED
  BY <1>2, <1>3, <1>4, <1>5, <1>6, <1>7, <1>8
     DEF Next, Bridge, SendByte, LoseByte, Reopen, Break, Deliver

\* A block that is sent goes to the end of what the connection has taken.
LEMMA GivenEffect ==
    ASSUME TypeOK, Underway, pc = "send",
           given' = [given EXCEPT ![conn] = Append(@, packet)]
    PROVE  /\ packet \in [1..Size -> Bytes] /\ conn \in Conns
           /\ given'[conn] = Append(given[conn], packet)
           /\ \A c \in Conns : c # conn => given'[c] = given[c]
           /\ given' \in [Conns -> Seq([1..Size -> Bytes])]
           /\ \A c \in Conns : /\ Len(given[c]) \in Nat /\ Len(given'[c]) >= Len(given[c])
                               /\ \A i \in 1..Len(given[c]) : given'[c][i] = given[c][i]
<1>1. packet \in [1..Size -> Bytes] /\ conn \in Conns
  BY BlockIsSeq DEF TypeOK, Underway
<1>2. given \in [Conns -> Seq([1..Size -> Bytes])]
  BY DEF TypeOK
<1>3. given'[conn] = Append(given[conn], packet) /\ \A c \in Conns : c # conn => given'[c] = given[c]
  BY <1>1, <1>2, Zenon
<1>4. given[conn] \in Seq([1..Size -> Bytes]) /\ DOMAIN given' = Conns
  BY <1>1, <1>2, Zenon
<1>5. /\ Append(given[conn], packet) \in Seq([1..Size -> Bytes])
      /\ Len(given[conn]) \in Nat /\ Len(Append(given[conn], packet)) = Len(given[conn]) + 1
      /\ \A i \in 1..Len(given[conn]) : Append(given[conn], packet)[i] = given[conn][i]
  BY <1>1, <1>4, AppendProperties, LenProperties
<1>6. ASSUME NEW c \in Conns
      PROVE  /\ Len(given[c]) \in Nat /\ Len(given'[c]) >= Len(given[c])
             /\ \A i \in 1..Len(given[c]) : given'[c][i] = given[c][i]
  <2>1. given[c] \in Seq([1..Size -> Bytes])
    BY <1>2, Zenon
  <2>2. Len(given[c]) \in Nat
    BY <2>1, LenProperties
  <2>3. CASE c = conn
    BY <1>3, <1>5, <2>3
  <2>4. CASE c # conn
    BY <1>3, <2>2, <2>4
  <2> QED
    BY <2>3, <2>4
<1>7. given' \in [Conns -> Seq([1..Size -> Bytes])]
  BY <1>1, <1>2, <1>5, Zenon
<1> QED
  BY <1>1, <1>3, <1>6, <1>7

LEMMA TcpStep == ASSUME TypeOK, Underway, Next PROVE TcpOK'
<1>1. TcpOK
  BY DEF TypeOK, TcpOK
<1>2. ASSUME pc = "send", given' = [given EXCEPT ![conn] = Append(@, packet)], arr' = arr
      PROVE  /\ given' \in [Conns -> Seq([1..Size -> Bytes])]
             /\ \A c \in Conns : arr'[c] \in 0..Len(given'[c])
  <2>1. /\ given' \in [Conns -> Seq([1..Size -> Bytes])]
        /\ \A c \in Conns : /\ Len(given[c]) \in Nat /\ Len(given'[c]) >= Len(given[c])
    BY <1>2, GivenEffect
  <2>2. ASSUME NEW c \in Conns PROVE arr'[c] \in 0..Len(given'[c])
    <3>1. given'[c] \in Seq([1..Size -> Bytes])
      BY <2>1, Zenon
    <3>2. Len(given'[c]) \in Nat
      BY <3>1, LenProperties
    <3> QED
      BY <1>1, <1>2, <2>1, <3>2 DEF TcpOK
  <2> QED
    BY <2>1, <2>2
<1>3. CASE SendAll
  BY <1>1, <1>2, <1>3 DEF SendAll, TcpOK
<1>4. CASE SendFails
  <2>1. conn \in Conns
    BY <1>4 DEF SendFails, Underway
  <2>2. broken' \in SUBSET Conns /\ conn' = conn /\ arr' = arr /\ pc = "send"
    BY <1>1, <1>4, <2>1 DEF SendFails, TcpOK
  <2>3. CASE given' = given
    BY <1>1, <2>2, <2>3 DEF TcpOK
  <2>4. CASE given' = [given EXCEPT ![conn] = Append(@, packet)]
    BY <1>1, <1>2, <2>2, <2>4 DEF TcpOK
  <2> QED
    BY <1>4, <2>3, <2>4 DEF SendFails
<1>5. ASSUME NEW c \in Conns, Deliver(c) PROVE TcpOK'
  <2>1. \A d \in Conns : Len(given[d]) \in Nat
    <3> SUFFICES ASSUME NEW d \in Conns PROVE Len(given[d]) \in Nat
      OBVIOUS
    <3>1. given[d] \in Seq([1..Size -> Bytes])
      BY <1>1, Zenon DEF TcpOK
    <3> QED
      BY <3>1, LenProperties
  <2>2. ASSUME NEW d \in Conns PROVE arr'[d] \in 0..Len(given[d])
    <3>1. arr[d] \in 0..Len(given[d]) /\ arr[c] \in 0..Len(given[c]) /\ arr[c] < Len(given[c])
      BY <1>1, <1>5 DEF TcpOK, Deliver
    <3>2. arr' = [arr EXCEPT ![c] = @ + 1]
      BY <1>5 DEF Deliver
    <3>3. arr'[d] = IF d = c THEN arr[d] + 1 ELSE arr[d]
      BY <1>1, <3>2 DEF TcpOK
    <3> QED
      BY <2>1, <3>1, <3>3
  <2>3. arr' \in [Conns -> Nat]
    BY <1>1, <1>5 DEF Deliver, TcpOK
  <2> QED
    BY <1>1, <1>5, <2>2, <2>3 DEF Deliver, TcpOK
<1>6. CASE Connect
  BY <1>1, <1>6, Constants DEF Connect, TcpOK
<1>7. CASE Break
  BY <1>1, <1>7, Constants DEF Break, TcpOK, Conns
<1>8. CASE UNCHANGED tcpVars
  BY <1>1, <1>8 DEF tcpVars, TcpOK
<1> QED
  BY <1>3, <1>4, <1>5, <1>6, <1>7, <1>8
     DEF Next, Bridge, SendByte, LoseByte, Reopen, Read, Cut, CutDone

LEMMA UnderwayStep == ASSUME TypeOK, Underway, Next PROVE Underway'
<1>1. CASE Connect
  <2>1. conn + 1 \in Conns
    BY <1>1, Constants DEF Connect, TypeOK, Conns
  <2> QED
    BY <1>1, <2>1 DEF Connect, Underway
<1>2. CASE Cut
  BY <1>2, CutEffect DEF Cut, Underway, tcpVars
<1>3. CASE Read \/ CutDone \/ SendAll \/ SendFails \/ Break
  BY <1>3 DEF Read, CutDone, SendAll, SendFails, Break, Underway, tcpVars, bridgeVars
<1>4. CASE UNCHANGED <<bridgeVars, conn>>
  BY <1>4 DEF bridgeVars, Underway
<1> QED
  BY <1>1, <1>2, <1>3, <1>4
     DEF Next, Bridge, SendByte, LoseByte, Reopen, Deliver, tcpVars

LEMMA TypeStep == ASSUME TypeOK, Underway, [Next]_vars PROVE TypeOK' /\ Underway'
<1>1. CASE Next
  BY <1>1, FaultsStep, LineStep, BridgeStep, TcpStep, UnderwayStep
     DEF TypeOK, LineOK, BridgeOK, TcpOK
<1>2. CASE UNCHANGED vars
  BY <1>2 DEF vars, lineVars, bridgeVars, tcpVars, TypeOK, Underway
<1> QED
  BY <1>1, <1>2

\* What the bridge reads, cuts and hands over stays within the bounds of the
\* types, and it never sends without a connection or less than a block.
THEOREM TypeCorrect == Spec => []TypeOK
<1>1. TypeOK /\ Underway /\ [Next]_vars => TypeOK' /\ Underway'
  BY TypeStep
<1> QED
  BY TypeInit, <1>1, PTL DEF Spec

----------------------------------------------------------------------------
(* The bytes *)

\* Everything the board has sent, in the order in which the bridge has it or
\* will get it.
Joined == FlattenSeq(blocks) \o buffer
All == Joined \o line

LEMMA JoinedType ==
    ASSUME TypeOK
    PROVE  /\ blocks \in Seq(Seq(Bytes)) /\ FlattenSeq(blocks) \in Seq(Bytes)
           /\ Joined \in Seq(Bytes) /\ All \in Seq(Bytes)
<1>1. [1..Size -> Bytes] \subseteq Seq(Bytes)
  BY BlockIsSeq
<1>2. blocks \in Seq(Seq(Bytes))
  BY <1>1, SeqMonotonic DEF TypeOK
<1>3. FlattenSeq(blocks) \in Seq(Bytes)
  <2>1. << >> \in Seq(Bytes)
    BY EmptySeq
  <2> QED
    BY <1>2, <2>1, FlattenAppend
<1>4. Joined \in Seq(Bytes)
  BY <1>3, ConcatProperties DEF Joined, TypeOK
<1>5. All \in Seq(Bytes)
  BY <1>4, ConcatProperties DEF All, TypeOK
<1> QED
  BY <1>2, <1>3, <1>4, <1>5

LEMMA ReadMovesBytes == ASSUME TypeOK, Read PROVE All' = All
<1>1. /\ buffer' \in Seq(Bytes) /\ line' \in Seq(Bytes)
      /\ buffer' \o line' = buffer \o line /\ blocks' = blocks
  BY ReadEffect DEF Read
<1> DEFINE f == FlattenSeq(blocks)
<1>2. f \in Seq(Bytes) /\ buffer \in Seq(Bytes) /\ line \in Seq(Bytes)
  BY JoinedType DEF TypeOK
<1>3. All = (f \o buffer) \o line /\ All' = (f \o buffer') \o line'
  BY <1>1 DEF All, Joined
<1> DEFINE b == buffer'
<1> DEFINE l == line'
<1> HIDE DEF f
<1>4. b \in Seq(Bytes) /\ l \in Seq(Bytes)
  BY <1>1
<1> HIDE DEF b, l
<1>5. (f \o buffer) \o line = f \o (buffer \o line)
  BY <1>2, Associative
<1>6. (f \o b) \o l = f \o (b \o l)
  <2>1. f \in Seq(Bytes) /\ b \in Seq(Bytes) /\ l \in Seq(Bytes)
    BY <1>2, <1>4
  <2> HIDE DEF f, b, l
  <2> QED
    BY <2>1, Associative
<1> QED
  BY <1>1, <1>3, <1>5, <1>6 DEF b, l

LEMMA CutMovesBytes == ASSUME TypeOK, Cut PROVE All' = All /\ Joined' = Joined
<1> DEFINE f == FlattenSeq(blocks)
<1> DEFINE p == packet'
<1> DEFINE b == buffer'
<1>1. /\ p \in Seq(Bytes) /\ b \in Seq(Bytes) /\ buffer = p \o b
      /\ blocks' = Append(blocks, p) /\ line' = line
  BY CutEffect DEF Cut, lineVars
<1>2. f \in Seq(Bytes) /\ blocks \in Seq(Seq(Bytes))
  BY JoinedType
<1>3. Joined' = FlattenSeq(Append(blocks, p)) \o b /\ Joined = f \o (p \o b)
  BY <1>1 DEF Joined
<1> HIDE DEF p, b
<1>4. FlattenSeq(Append(blocks, p)) = f \o p
  BY <1>1, <1>2, FlattenAppend
<1> HIDE DEF f
<1>5. (f \o p) \o b = f \o (p \o b)
  BY <1>1, <1>2, Associative
<1>6. Joined' = Joined
  BY <1>3, <1>4, <1>5
<1> QED
  BY <1>1, <1>6 DEF All


\* A byte that was lost had been sent.
ByteInv == missing \in SUBSET (1..sent) /\ EveryByteOnce

LEMMA ByteOnce ==
    EveryByteOnce <=> Range(All) = (1..sent) \ missing /\ Increasing(All)
  BY DEF EveryByteOnce, All, Joined

LEMMA BytesAreNumbers == ASSUME NEW s \in Seq(Bytes) PROVE s \in Seq(Nat)
  BY Constants, SeqMonotonic

LEMMA RangeJoin ==
    ASSUME NEW s \in Seq(Nat), NEW t \in Seq(Nat)
    PROVE  Range(s \o t) = Range(s) \cup Range(t)
  BY RangeConcatenation

LEMMA RangeJoinBlocks ==
    ASSUME NEW s \in Seq(Seq(Bytes)), NEW t \in Seq(Seq(Bytes))
    PROVE  Range(s \o t) = Range(s) \cup Range(t)
  BY RangeConcatenation

\* Joined and line, apart.
LEMMA ByteParts ==
    ASSUME TypeOK, EveryByteOnce
    PROVE  /\ Joined \in Seq(Nat) /\ line \in Seq(Nat) /\ All \in Seq(Nat)
           /\ Range(Joined) \cup Range(line) = (1..sent) \ missing
           /\ Increasing(Joined) /\ Increasing(line) /\ Below(Joined, line)
           /\ Increasing(All) /\ sent \in Nat
<1>1. Joined \in Seq(Nat) /\ line \in Seq(Nat) /\ All \in Seq(Nat) /\ sent \in Nat
  <2>1. Joined \in Seq(Bytes) /\ line \in Seq(Bytes) /\ All \in Seq(Bytes)
    BY JoinedType DEF TypeOK
  <2>2. sent \in Nat
    BY Constants DEF TypeOK
  <2> QED
    BY <2>1, <2>2, BytesAreNumbers
<1>2. Range(All) = (1..sent) \ missing /\ Increasing(All)
  BY ByteOnce
<1>3. Range(Joined \o line) = Range(Joined) \cup Range(line)
  BY <1>1, RangeJoin
<1>4. Increasing(Joined \o line) <=> Increasing(Joined) /\ Increasing(line) /\ Below(Joined, line)
  BY <1>1, IncreasingConcat
<1> QED
  BY <1>1, <1>2, <1>3, <1>4 DEF All

\* And together again.
LEMMA ByteWhole ==
    ASSUME Joined \in Seq(Nat), line \in Seq(Nat), Range(Joined) \cup Range(line) = (1..sent) \ missing,
           Increasing(Joined), Increasing(line), Below(Joined, line)
    PROVE  EveryByteOnce
<1>1. Range(Joined \o line) = Range(Joined) \cup Range(line)
  BY RangeJoin
<1>2. Increasing(Joined \o line) <=> Increasing(Joined) /\ Increasing(line) /\ Below(Joined, line)
  BY IncreasingConcat
<1> QED
  BY <1>1, <1>2, ByteOnce DEF All

LEMMA ByteInit == Init => ByteInv
<1> SUFFICES ASSUME Init PROVE ByteInv
  OBVIOUS
<1>1. FlattenSeq(<< >>) = << >>
  BY DEF FlattenSeq
<1>2. Joined = << >> /\ line = << >> /\ All = << >>
  <2>1. << >> \o << >> = << >>
    BY ConcatEmptySeq, EmptySeq
  <2> QED
    BY <1>1, <2>1 DEF Init, Joined, All
<1>3. Range(<< >>) = {} /\ Increasing(<< >>) /\ 1..0 = {}
  BY DEF Range, Increasing
<1> QED
  BY <1>2, <1>3, ByteOnce DEF Init, ByteInv

LEMMA SendByteBytes == ASSUME TypeOK, ByteInv, SendByte PROVE ByteInv'
<1> DEFINE n == sent + 1
<1>1. /\ sent' = n /\ line' = Append(line, n) /\ missing' = missing /\ Joined' = Joined
      /\ n \in Nat /\ sent \in Nat
  BY DEF SendByte, bridgeVars, Joined, TypeOK
<1>2. /\ Joined \in Seq(Nat) /\ line \in Seq(Nat)
      /\ Range(Joined) \cup Range(line) = (1..sent) \ missing
      /\ Increasing(Joined) /\ Increasing(line) /\ Below(Joined, line)
  BY ByteParts DEF ByteInv
<1>3. missing \in SUBSET (1..sent)
  BY DEF ByteInv
<1> DEFINE l == Append(line, n)
<1>4. l = line \o <<n>> /\ <<n>> \in Seq(Nat) /\ l \in Seq(Nat)
  BY <1>1, <1>2, AppendIsConcat, AppendProperties
<1>5. Range(<<n>>) = {n} /\ Increasing(<<n>>)
  BY <1>1 DEF Range, Increasing
<1>6. n \notin 1..sent /\ 1..n = (1..sent) \cup {n} /\ \A x \in 1..sent : x < n
  BY <1>1
<1>10. \A x \in Range(Joined) \cup Range(line) : x < n
  BY <1>2, <1>6
<1> HIDE DEF n, l
<1>7. Range(l) = Range(line) \cup {n}
  BY <1>2, <1>4, <1>5, RangeJoin
<1>8. Increasing(l)
  <2>1. Below(line, <<n>>)
    BY <1>5, <1>10 DEF Below
  <2> QED
    BY <1>2, <1>4, <1>5, <2>1, IncreasingConcat
<1>9. Below(Joined, l)
  BY <1>2, <1>7, <1>10 DEF Below
<1>11. Range(Joined) \cup Range(l) = (1..n) \ missing
  BY <1>2, <1>3, <1>6, <1>7
<1>12. EveryByteOnce'
  <2>1. Range(Joined \o l) = (1..n) \ missing
    BY <1>2, <1>4, <1>11, RangeJoin
  <2>2. Increasing(Joined \o l)
    BY <1>2, <1>4, <1>8, <1>9, IncreasingConcat
  <2>3. All' = Joined \o l
    BY <1>1 DEF All, l
  <2> QED
    BY <1>1, <2>1, <2>2, <2>3 DEF EveryByteOnce, All, Joined, Increasing
<1> QED
  BY <1>1, <1>3, <1>6, <1>12 DEF ByteInv

\* Bytes that are lost were on the line.
LEMMA LossBytes ==
    ASSUME TypeOK, ByteInv, NEW gone, NEW rest \in Seq(Nat),
           Range(rest) = Range(line) \ gone, gone \in SUBSET Range(line), Increasing(rest),
           UNCHANGED <<sent, bridgeVars>>, missing' = missing \cup gone, line' = rest
    PROVE  ByteInv'
<1>1. sent' = sent /\ Joined' = Joined /\ blocks' = blocks /\ buffer' = buffer
  BY DEF bridgeVars, Joined
<1>2. /\ Joined \in Seq(Nat) /\ line \in Seq(Nat)
      /\ Range(Joined) \cup Range(line) = (1..sent) \ missing
      /\ Increasing(Joined) /\ Below(Joined, line)
      /\ \A x \in Range(Joined) : x \in Nat /\ x \in (1..sent) \ missing
  <2>1. Range(Joined) \in SUBSET Nat
    BY ByteParts, RangeOfSeq DEF ByteInv
  <2> QED
    BY <2>1, ByteParts DEF ByteInv
<1>3. missing \in SUBSET (1..sent)
  BY DEF ByteInv
<1>4. missing' \in SUBSET (1..sent)
  BY <1>2, <1>3
<1>5. Below(Joined, rest)
  BY <1>2 DEF Below
<1>6. \A x \in Range(Joined) : x \notin gone
  <2> SUFFICES ASSUME NEW x \in Range(Joined), x \in gone PROVE FALSE
    OBVIOUS
  <2>1. x < x
    BY <1>2 DEF Below
  <2> QED
    BY <1>2, <2>1
<1>7. Range(Joined) \cup Range(rest) = (1..sent) \ (missing \cup gone)
  BY <1>2, <1>6
<1>8. Range(Joined \o rest) = (1..sent) \ (missing \cup gone)
  BY <1>2, <1>7, RangeJoin
<1>9. Increasing(Joined \o rest)
  BY <1>2, <1>5, IncreasingConcat
<1>10. EveryByteOnce'
  <2>1. All' = Joined \o rest
    BY <1>1 DEF All
  <2> QED
    BY <1>1, <1>8, <1>9, <2>1 DEF EveryByteOnce, All, Joined, Increasing
<1> QED
  BY <1>1, <1>4, <1>10 DEF ByteInv

LEMMA ByteStep == ASSUME TypeOK, ByteInv, [Next]_vars PROVE ByteInv'
<1>1. line \in Seq(Nat) /\ Increasing(line) /\ line \in Seq(Bytes) /\ DOMAIN line = 1..Len(line)
  BY ByteParts, LenProperties DEF ByteInv, TypeOK
<1>2. CASE SendByte
  BY <1>2, SendByteBytes
<1>3. CASE LoseByte
  <2>1. PICK i \in 1..Len(line) : missing' = missing \cup {line[i]} /\ line' = RemoveAt(line, i)
    BY <1>1, <1>3 DEF LoseByte
  <2> DEFINE r == RemoveAt(line, i)
  <2>2. /\ r \in Seq(Nat) /\ Increasing(r) /\ line[i] \in Range(line)
        /\ Range(r) = Range(line) \ {line[i]}
    BY <1>1, RemoveOne
  <2> HIDE DEF r
  <2>3. UNCHANGED <<sent, bridgeVars>> /\ line' = r /\ {line[i]} \in SUBSET Range(line)
    BY <1>3, <2>1, <2>2 DEF LoseByte, r
  <2> QED
    BY <2>1, <2>2, <2>3, LossBytes
<1>4. CASE Reopen
  <2>1. << >> \in Seq(Nat) /\ Increasing(<< >>) /\ Range(<< >>) = {}
    BY EmptySeq DEF Increasing, Range
  <2>2. Range(<< >>) = Range(line) \ Range(line) /\ Range(line) \in SUBSET Range(line)
    BY <2>1
  <2>3. /\ UNCHANGED <<sent, bridgeVars>> /\ missing' = missing \cup Range(line)
        /\ line' = << >>
    BY <1>4 DEF Reopen
  <2> QED
    BY <2>1, <2>2, <2>3, LossBytes
<1>5. ASSUME All' = All, sent' = sent, missing' = missing PROVE ByteInv'
  BY <1>5 DEF ByteInv, EveryByteOnce, All, Joined, Increasing
<1>6. CASE Read
  BY <1>5, <1>6, ReadMovesBytes DEF Read
<1>7. CASE Cut
  BY <1>5, <1>7, CutMovesBytes DEF Cut, lineVars
<1>8. CASE UNCHANGED <<lineVars, buffer, blocks>>
  BY <1>5, <1>8 DEF lineVars, All, Joined
<1> QED
  BY <1>2, <1>3, <1>4, <1>6, <1>7, <1>8
     DEF Next, Bridge, Connect, CutDone, SendAll, SendFails, Break, Deliver,
         vars, bridgeVars, tcpVars

\* Through reopened ports, failed sends and new connections the bridge loses,
\* repeats and reorders no byte of what the line has not lost.
THEOREM BytesAreKept == Spec => []EveryByteOnce
<1>1. TypeOK /\ Underway /\ ByteInv /\ [Next]_vars => TypeOK' /\ Underway' /\ ByteInv'
  BY TypeStep, ByteStep
<1>2. ByteInv => EveryByteOnce
  BY DEF ByteInv
<1> QED
  BY TypeInit, ByteInit, <1>1, <1>2, PTL DEF Spec


----------------------------------------------------------------------------
(* The blocks: where each is among the bytes, and how many were lost before *)

LEMMA Multiples ==
    ASSUME NEW c \in Nat, NEW w \in Nat, w >= 1
    PROVE  c % w = 0 <=> \E k \in Nat : c = k * w
<1>1. ASSUME NEW k \in Nat, c = k * w PROVE c % w = 0
  <2>1. (k * w) % w = 0
    OBVIOUS
  <2> QED
    BY <1>1, <2>1
<1>2. ASSUME c % w = 0 PROVE \E k \in Nat : c = k * w
  <2>1. c = (c \div w) * w + (c % w) /\ c \div w \in Nat
    OBVIOUS
  <2>2. c = (c \div w) * w
    BY <1>2, <2>1
  <2> QED
    BY <2>1, <2>2
<1> QED
  BY <1>1, <1>2

\* In an increasing sequence of the numbers up to n but those in M, the number
\* at place j has as many of M below it as it is ahead of j.
LEMMA AheadByMissing ==
    ASSUME NEW s \in Seq(Nat), Increasing(s), NEW n \in Nat, NEW M \in SUBSET (1..n),
           Range(s) = (1..n) \ M, NEW j \in 1..Len(s)
    PROVE  /\ s[j] \in 1..n /\ s[j] \notin M
           /\ IsFiniteSet({m \in M : m < s[j]})
           /\ Cardinality({m \in M : m < s[j]}) = s[j] - j
<1> DEFINE A == {s[i] : i \in 1..(j - 1)}
<1> DEFINE B == {m \in M : m < s[j]}
<1> DEFINE X == 1..(s[j] - 1)
<1>1. /\ Len(s) \in Nat /\ j \in Nat /\ j \in 1..Len(s) /\ DOMAIN s = 1..Len(s)
  BY LenProperties
<1>2. Range(s) = {s[i] : i \in 1..Len(s)}
  BY RangeEquality
<1>3. \A i \in 1..Len(s) : s[i] \in 1..n /\ s[i] \notin M
  BY <1>2
<1>4. \A i, k \in 1..Len(s) : i < k => s[i] < s[k]
  BY <1>1 DEF Increasing
<1>5. X = A \cup B
  <2>1. ASSUME NEW x \in X PROVE x \in A \cup B
    <3>1. x \in 1..n /\ x < s[j] /\ x \in Nat /\ s[j] \in Nat
      BY <1>1, <1>3
    <3>2. CASE x \in M
      BY <3>1, <3>2
    <3>3. CASE x \notin M
      <4>1. PICK i \in 1..Len(s) : x = s[i]
        BY <1>2, <3>1, <3>3
      <4>2. ~(j < i) /\ i # j
        BY <1>1, <1>4, <3>1, <4>1
      <4>3. i \in 1..(j - 1)
        BY <1>1, <4>2
      <4> QED
        BY <4>1, <4>3
    <3> QED
      BY <3>2, <3>3
  <2>2. ASSUME NEW x \in A PROVE x \in X
    <3>1. PICK i \in 1..(j - 1) : x = s[i]
      OBVIOUS
    <3>2. i \in 1..Len(s) /\ i < j
      BY <1>1
    <3>3. s[i] < s[j] /\ s[i] \in 1..n /\ s[j] \in 1..n
      BY <1>1, <1>3, <1>4, <3>2
    <3> QED
      BY <3>1, <3>3
  <2>3. ASSUME NEW x \in B PROVE x \in X
    <3>1. x \in 1..n /\ x < s[j] /\ s[j] \in 1..n
      BY <1>1, <1>3
    <3> QED
      BY <3>1
  <2> QED
    BY <2>1, <2>2, <2>3
<1>6. A \cap B = {}
  <2> SUFFICES ASSUME NEW x \in A, x \in M PROVE FALSE
    OBVIOUS
  <2>1. PICK i \in 1..(j - 1) : x = s[i]
    OBVIOUS
  <2>2. i \in 1..Len(s)
    BY <1>1
  <2> QED
    BY <1>3, <2>1, <2>2
<1>7. IsFiniteSet(X) /\ Cardinality(X) = s[j] - 1
  <2>1. 1 \in Int /\ s[j] - 1 \in Int /\ s[j] - 1 >= 0
    BY <1>1, <1>3
  <2> DEFINE b == s[j] - 1
  <2>2. b \in Int /\ b >= 0
    BY <2>1
  <2> HIDE DEF b
  <2>3. IsFiniteSet(1..b) /\ Cardinality(1..b) = IF 1 > b THEN 0 ELSE b - 1 + 1
    BY <2>2, FS_Interval
  <2>4. Cardinality(1..b) = b
    BY <2>2, <2>3
  <2> QED
    BY <2>3, <2>4 DEF b
<1>8. IsFiniteSet(A) /\ Cardinality(A) = j - 1
  <2> DEFINE D == 1..(j - 1)
  <2> DEFINE f == [i \in D |-> s[i]]
  <2>1. IsFiniteSet(D) /\ Cardinality(D) = j - 1
    <3> DEFINE b == j - 1
    <3>1. b \in Int /\ b >= 0
      BY <1>1
    <3> HIDE DEF b
    <3>2. IsFiniteSet(1..b) /\ Cardinality(1..b) = IF 1 > b THEN 0 ELSE b - 1 + 1
      BY <3>1, FS_Interval
    <3>3. Cardinality(1..b) = b
      BY <3>1, <3>2
    <3> QED
      BY <3>2, <3>3 DEF b
  <2>2. \A i, k \in D : s[i] = s[k] => i = k
    <3> SUFFICES ASSUME NEW i \in D, NEW k \in D, s[i] = s[k], i # k PROVE FALSE
      OBVIOUS
    <3>1. i \in 1..Len(s) /\ k \in 1..Len(s)
      BY <1>1
    <3>2. s[i] < s[k] \/ s[k] < s[i]
      BY <1>4, <3>1
    <3> QED
      BY <1>3, <3>1, <3>2
  <2>3. f \in Bijection(D, A)
    <3> HIDE DEF D
    <3>1. f \in [D -> A] /\ \A i \in D : f[i] = s[i]
      BY DEF A, D
    <3>2. \A x \in A : \E i \in D : s[i] = x
      BY DEF A, D
    <3> HIDE DEF f, A
    <3>3. \A x \in A : \E i \in D : f[i] = x
      BY <3>1, <3>2
    <3>4. \A i, k \in D : f[i] = f[k] => i = k
      BY <2>2, <3>1
    <3> QED
      BY <3>1, <3>3, <3>4, Zenon DEF Bijection, Injection, Surjection, IsInjective
  <2>4. ExistsBijection(D, A)
    BY <2>3 DEF ExistsBijection
  <2> HIDE DEF D, A
  <2> QED
    BY <2>1, <2>4, FS_Bijection
<1>9. IsFiniteSet(B)
  <2>1. B \in SUBSET X
    BY <1>5
  <2> HIDE DEF B, X
  <2> QED
    BY <1>7, <2>1, FS_Subset
<1>10. Cardinality(X) = Cardinality(A) + Cardinality(B) - Cardinality({})
  <2> HIDE DEF A, B, X
  <2> QED
    BY <1>5, <1>6, <1>8, <1>9, FS_Union
<1>11. Cardinality(B) \in Nat /\ Cardinality({}) = 0
  <2> HIDE DEF B
  <2> QED
    BY <1>9, FS_CardinalityType, FS_EmptySet
<1>12. Cardinality(B) = s[j] - j
  <2> HIDE DEF A, B, X
  <2>1. s[j] \in Nat
    BY <1>1, <1>3
  <2> QED
    BY <1>1, <1>7, <1>8, <1>10, <1>11, <2>1
<1> QED
  BY <1>1, <1>3, <1>9, <1>12

\* Each block is at a multiple of Size among the bytes.
PlacedAt(b, q, s) == \A i \in 1..Size : q * Size + i \in 1..Len(s) /\ s[q * Size + i] = b[i]

\* What was cut off is whole blocks, each at its place.
BlockInv ==
    /\ \E n \in Nat : Len(FlattenSeq(blocks)) = n * Size
    /\ \A b \in Range(blocks) : \E q \in Nat : PlacedAt(b, q, FlattenSeq(blocks))

LEMMA BlockInit == Init => BlockInv
<1> SUFFICES ASSUME Init PROVE BlockInv
  OBVIOUS
<1>1. FlattenSeq(<< >>) = << >>
  BY DEF FlattenSeq
<1>2. Range(<< >>) = {}
  BY DEF Range
<1>3. Len(<< >>) = 0 * Size
  BY Constants
<1>4. blocks = << >>
  BY DEF Init
<1> QED
  BY <1>1, <1>2, <1>3, <1>4 DEF BlockInv

LEMMA BlockStep == ASSUME TypeOK, BlockInv, [Next]_vars PROVE BlockInv'
<1>1. CASE Cut
  <2> DEFINE f == FlattenSeq(blocks)
  <2> DEFINE p == packet'
  <2>1. /\ p \in Seq(Bytes) /\ Len(p) = Size /\ blocks' = Append(blocks, p)
        /\ p \in [1..Size -> Bytes]
    BY <1>1, CutEffect
  <2>2. f \in Seq(Bytes) /\ blocks \in Seq(Seq(Bytes))
    BY JoinedType
  <2> DEFINE g == f \o p
  <2>3. FlattenSeq(blocks') = g
    <3> HIDE DEF p
    <3> QED
      BY <2>1, <2>2, FlattenAppend
  <2>4. Range(blocks') = Range(blocks) \cup {p}
    <3>1. Append(blocks, p) = blocks \o <<p>> /\ <<p>> \in Seq(Seq(Bytes))
      BY <2>1, <2>2, AppendIsConcat
    <3> HIDE DEF p
    <3>2. Range(blocks \o <<p>>) = Range(blocks) \cup Range(<<p>>)
      BY <2>2, <3>1, RangeJoinBlocks
    <3>3. Range(<<p>>) = {p}
      BY DEF Range
    <3> QED
      BY <2>1, <3>1, <3>2, <3>3
  <2>5. PICK n \in Nat : Len(f) = n * Size
    BY DEF BlockInv
  <2> HIDE DEF p, f
  <2>6. /\ Len(g) = Len(f) + Size /\ Len(f) \in Nat /\ Size \in Nat
        /\ \A i \in 1..(Len(f) + Size) : g[i] = IF i <= Len(f) THEN f[i] ELSE p[i - Len(f)]
    BY <2>1, <2>2, ConcatProperties, LenProperties, Constants
  <2> HIDE DEF g
  <2>7. Len(g) = (n + 1) * Size /\ n + 1 \in Nat
    BY <2>5, <2>6
  <2>8. PlacedAt(p, n, g)
    <3> SUFFICES ASSUME NEW i \in 1..Size
                 PROVE  n * Size + i \in 1..Len(g) /\ g[n * Size + i] = p[i]
      BY DEF PlacedAt
    <3> DEFINE k == Len(f) + i
    <3>1. k \in 1..(Len(f) + Size) /\ ~(k <= Len(f)) /\ k - Len(f) = i
      BY <2>6
    <3>2. g[k] = p[i]
      <4> HIDE DEF k
      <4> QED
        BY <2>6, <3>1
    <3> QED
      BY <2>5, <2>6, <3>1, <3>2
  <2>9. ASSUME NEW b \in Range(blocks) PROVE \E q \in Nat : PlacedAt(b, q, g)
    <3>1. PICK q \in Nat : PlacedAt(b, q, f)
      BY DEF BlockInv, f
    <3>2. ASSUME NEW i \in 1..Size PROVE q * Size + i \in 1..Len(g) /\ g[q * Size + i] = b[i]
      <4> DEFINE k == q * Size + i
      <4>1. k \in 1..Len(f) /\ f[k] = b[i]
        BY <3>1 DEF PlacedAt
      <4> HIDE DEF k
      <4>2. k \in 1..Len(g) /\ g[k] = b[i]
        BY <2>6, <4>1
      <4> QED
        BY <4>2 DEF k
    <3> QED
      BY <3>2 DEF PlacedAt
  <2>10. \A b \in Range(blocks') : \E q \in Nat : PlacedAt(b, q, g)
    BY <2>4, <2>8, <2>9
  <2> QED
    BY <2>3, <2>7, <2>10 DEF BlockInv, PlacedAt
<1>2. CASE UNCHANGED blocks
  BY <1>2 DEF BlockInv, PlacedAt
<1> QED
  BY <1>1, <1>2
     DEF Next, Bridge, SendByte, LoseByte, Connect, Reopen, Read, CutDone, SendAll, SendFails,
         Break, Deliver, vars, bridgeVars


\* The bytes before byte x that the line lost.
LostBelow(x) == {m \in missing : m < x}

\* A block among all the bytes: each of its bytes is where it should be but for
\* the bytes that were lost before it.
LEMMA BlockPlace ==
    ASSUME TypeOK, ByteInv, BlockInv, NEW b \in Range(blocks)
    PROVE  /\ b \in [1..Size -> Bytes]
           /\ \E q \in Nat : \A i \in 1..Size :
                /\ q * Size + i \in 1..Len(All) /\ All[q * Size + i] = b[i]
                /\ b[i] \in 1..sent /\ b[i] \notin missing
                /\ IsFiniteSet(LostBelow(b[i]))
                /\ Cardinality(LostBelow(b[i])) = b[i] - (q * Size + i)
<1> DEFINE f == FlattenSeq(blocks)
<1>1. b \in [1..Size -> Bytes]
  BY RangeOfSeq DEF TypeOK
<1>2. PICK q \in Nat : PlacedAt(b, q, f)
  BY DEF BlockInv
<1>3. f \in Seq(Bytes) /\ buffer \in Seq(Bytes) /\ line \in Seq(Bytes)
  BY JoinedType DEF TypeOK
<1>4. All = f \o (buffer \o line)
  <2> HIDE DEF f
  <2>1. (f \o buffer) \o line = f \o (buffer \o line)
    BY <1>3, Associative
  <2> QED
    BY <2>1 DEF All, Joined, f
<1> DEFINE t == buffer \o line
<1>5. t \in Seq(Bytes)
  BY <1>3, ConcatProperties
<1> HIDE DEF f, t
<1>6. /\ All \in Seq(Nat) /\ Increasing(All) /\ sent \in Nat /\ missing \in SUBSET (1..sent)
      /\ Range(All) = (1..sent) \ missing
  BY ByteParts, ByteOnce DEF ByteInv
<1>7. /\ Len(All) = Len(f) + Len(t) /\ Len(f) \in Nat /\ Len(t) \in Nat
      /\ \A i \in 1..(Len(f) + Len(t)) : All[i] = IF i <= Len(f) THEN f[i] ELSE t[i - Len(f)]
  <2>1. /\ Len(f \o t) = Len(f) + Len(t) /\ Len(f) \in Nat /\ Len(t) \in Nat
        /\ \A i \in 1..(Len(f) + Len(t)) : (f \o t)[i] = IF i <= Len(f) THEN f[i] ELSE t[i - Len(f)]
    BY <1>3, <1>5, ConcatProperties, LenProperties
  <2> QED
    BY <1>4, <2>1 DEF t
<1>8. ASSUME NEW i \in 1..Size
      PROVE  /\ q * Size + i \in 1..Len(All) /\ All[q * Size + i] = b[i]
             /\ b[i] \in 1..sent /\ b[i] \notin missing
             /\ IsFiniteSet(LostBelow(b[i]))
             /\ Cardinality(LostBelow(b[i])) = b[i] - (q * Size + i)
  <2> DEFINE j == q * Size + i
  <2>1. j \in 1..Len(f) /\ f[j] = b[i]
    BY <1>2 DEF PlacedAt
  <2> HIDE DEF j
  <2>2. j \in 1..Len(All) /\ All[j] = b[i]
    BY <1>7, <2>1
  <2>3. /\ All[j] \in 1..sent /\ All[j] \notin missing
        /\ IsFiniteSet({m \in missing : m < All[j]})
        /\ Cardinality({m \in missing : m < All[j]}) = All[j] - j
    BY <1>6, <2>2, AheadByMissing
  <2> QED
    BY <2>2, <2>3 DEF LostBelow, j
<1> QED
  BY <1>1, <1>8

\* A packet is cut only where a multiple of Size bytes is missing before it.
LEMMA WholeIsInStep ==
    ASSUME TypeOK, ByteInv, BlockInv, NEW b \in Range(blocks), Whole(b)
    PROVE  /\ Cardinality(LostBelow(b[1])) % Size = 0
           /\ \A m \in missing : ~(b[1] < m /\ m < b[1] + Size)
<1>1. PICK q \in Nat : \A i \in 1..Size :
         /\ b[i] \in 1..sent /\ b[i] \notin missing
         /\ IsFiniteSet(LostBelow(b[i]))
         /\ Cardinality(LostBelow(b[i])) = b[i] - (q * Size + i)
  BY BlockPlace
<1>2. PICK p \in 1..MaxPackets : b = Packet(p)
  BY DEF Whole
<1>3. \A i \in 1..Size : b[i] = (p - 1) * Size + i
  BY <1>2 DEF Packet
<1> DEFINE c == Cardinality(LostBelow(b[1]))
<1>4. 1 \in 1..Size /\ p - 1 \in Nat
  BY Constants
<1>5. c \in Nat /\ c = b[1] - (q * Size + 1)
  <2>1. IsFiniteSet(LostBelow(b[1]))
    BY <1>1, <1>4
  <2>2. c \in Nat
    BY <2>1, FS_CardinalityType
  <2> QED
    BY <1>1, <1>4, <2>2
<1> HIDE DEF c
<1>6. c + q * Size = (p - 1) * Size
  BY <1>3, <1>4, <1>5, Constants
<1>7. c % Size = 0
  <2> DEFINE r == p - 1
  <2>1. r \in Nat /\ c + q * Size = r * Size
    BY <1>4, <1>6
  <2> HIDE DEF r
  <2>2. c = (r - q) * Size /\ r - q \in Int
    BY <1>5, <2>1, Constants
  <2>3. r - q \in Nat
    BY <1>5, <2>1, <2>2, Constants
  <2> QED
    BY <1>5, <2>2, <2>3, Constants, Multiples
<1>8. ASSUME NEW m \in missing, b[1] < m, m < b[1] + Size PROVE FALSE
  <2> DEFINE i == m - (p - 1) * Size
  <2>1. m \in Nat /\ (p - 1) * Size \in Nat
    BY <1>4, Constants DEF ByteInv
  <2>2. b[1] = (p - 1) * Size + 1
    BY <1>3, <1>4
  <2>3. i \in 1..Size /\ (p - 1) * Size + i = m
    BY <1>8, <2>1, <2>2, Constants
  <2>4. b[i] = m
    BY <1>3, <2>3
  <2> QED
    BY <1>1, <2>3, <2>4
<1> QED
  BY <1>7, <1>8 DEF c

\* And where that is so and no byte of it is missing, a packet is cut.
LEMMA InStepIsWhole ==
    ASSUME TypeOK, ByteInv, BlockInv, NEW b \in Range(blocks),
           Cardinality(LostBelow(b[1])) % Size = 0,
           \A m \in missing : ~(b[1] < m /\ m < b[1] + Size)
    PROVE  Whole(b)
<1>1. PICK q \in Nat : \A i \in 1..Size :
         /\ q * Size + i \in 1..Len(All) /\ All[q * Size + i] = b[i]
         /\ b[i] \in 1..sent /\ b[i] \notin missing
         /\ IsFiniteSet(LostBelow(b[i]))
         /\ Cardinality(LostBelow(b[i])) = b[i] - (q * Size + i)
  BY BlockPlace
<1> DEFINE base == q * Size
<1>2. base \in Nat /\ 1 \in 1..Size /\ Size \in Nat /\ Size >= 1
  BY Constants
<1> HIDE DEF base
<1>3. \A i \in 1..Size :
         /\ base + i \in 1..Len(All) /\ All[base + i] = b[i]
         /\ b[i] \in 1..sent /\ b[i] \notin missing
         /\ IsFiniteSet(LostBelow(b[i]))
         /\ Cardinality(LostBelow(b[i])) = b[i] - (base + i)
  BY <1>1 DEF base
<1>4. /\ All \in Seq(Nat) /\ Increasing(All) /\ sent \in Nat /\ missing \in SUBSET (1..sent)
      /\ Range(All) = (1..sent) \ missing
  BY ByteParts, ByteOnce DEF ByteInv
<1>5. DOMAIN All = 1..Len(All) /\ Len(All) \in Nat /\ Range(All) = {All[i] : i \in 1..Len(All)}
  BY <1>4, LenProperties, RangeEquality
<1>6. b[1] \in 1..sent /\ b[1] \notin missing /\ Cardinality(LostBelow(b[1])) = b[1] - (base + 1)
  BY <1>2, <1>3
<1>7. ASSUME NEW i \in 1..Size PROVE b[i] = b[1] + i - 1
  <2> DEFINE x == b[1] + i - 1
  <2>1. x \in Nat /\ x >= 1 /\ b[i] \in 1..sent
    BY <1>3, <1>6
  <2>2. LostBelow(x) = LostBelow(b[1])
    <3>1. \A m \in missing : m < x <=> m < b[1]
      <4> SUFFICES ASSUME NEW m \in missing PROVE m < x <=> m < b[1]
        OBVIOUS
      <4>1. m \in Nat /\ m # b[1] /\ ~(b[1] < m /\ m < b[1] + Size)
        BY <1>4, <1>6
      <4> QED
        BY <1>2, <1>6, <4>1
    <3> QED
      BY <3>1 DEF LostBelow
  <2>3. b[1] <= b[i]
    <3>1. CASE i = 1
      BY <1>6, <3>1
    <3>2. CASE i # 1
      <4> DEFINE j == base + 1
      <4> DEFINE k == base + i
      <4>1. j \in 1..Len(All) /\ k \in 1..Len(All) /\ j < k /\ All[j] = b[1] /\ All[k] = b[i]
        BY <1>2, <1>3, <3>2
      <4> HIDE DEF j, k
      <4>2. All[j] < All[k]
        BY <1>4, <1>5, <4>1 DEF Increasing
      <4> QED
        BY <2>1, <1>6, <4>1, <4>2
    <3> QED
      BY <3>1, <3>2
  <2>4. LostBelow(b[1]) \in SUBSET LostBelow(b[i])
    <3>1. \A m \in missing : m < b[1] => m < b[i]
      BY <1>4, <1>6, <2>1, <2>3
    <3> QED
      BY <3>1 DEF LostBelow
  <2>5. Cardinality(LostBelow(b[1])) <= Cardinality(LostBelow(b[i]))
    BY <1>3, <2>4, FS_Subset
  <2>6. b[1] - (base + 1) <= b[i] - (base + i)
    <3>1. /\ Cardinality(LostBelow(b[1])) = b[1] - (base + 1)
          /\ Cardinality(LostBelow(b[i])) = b[i] - (base + i)
      BY <1>2, <1>3
    <3> QED
      BY <2>5, <3>1
  <2>7. x <= b[i] /\ x \in 1..sent
    <3>1. /\ b[1] \in Nat /\ base \in Nat /\ i \in Nat /\ b[i] \in Nat
          /\ x \in Nat /\ x >= 1 /\ b[i] <= sent /\ sent \in Nat /\ x = b[1] + i - 1
      BY <1>2, <1>4, <1>6, <2>1
    <3>2. x <= b[i]
      BY <2>6, <3>1
    <3> QED
      BY <3>1, <3>2
  <2>8. x \notin missing
    <3>1. CASE i = 1
      BY <1>6, <3>1
    <3>2. CASE i # 1
      BY <1>2, <1>6, <3>2
    <3> QED
      BY <3>1, <3>2
  <2> HIDE DEF x
  <2>9. PICK j \in 1..Len(All) : All[j] = x
    BY <1>4, <1>5, <2>7, <2>8
  <2>10. Cardinality({m \in missing : m < All[j]}) = All[j] - j
    BY <1>4, AheadByMissing
  <2>11. Cardinality(LostBelow(x)) = x - j
    BY <2>9, <2>10 DEF LostBelow
  <2>12. x - j = b[1] - (base + 1)
    <3>1. Cardinality(LostBelow(b[1])) = b[1] - (base + 1)
      BY <1>6, <2>1
    <3> QED
      BY <2>2, <2>11, <3>1
  <2>13. j = base + i
    <3>1. b[1] \in Nat /\ base \in Nat /\ i \in Nat /\ x = b[1] + (i - 1) /\ j \in Int
      BY <1>2, <1>6, <2>1, <2>9 DEF x
    <3> QED
      BY <2>12, <3>1
  <2>14. b[i] = x
    BY <1>3, <2>9, <2>13
  <2> QED
    BY <2>14 DEF x
<1> DEFINE c == Cardinality(LostBelow(b[1]))
<1>8. c \in Nat /\ c = b[1] - (base + 1)
  BY <1>2, <1>3, <1>6, FS_CardinalityType
<1>9. PICK k \in Nat : c = k * Size
  <2> HIDE DEF c
  <2>1. c % Size = 0
    BY DEF c
  <2> QED
    BY <1>2, <1>8, <2>1, Multiples
<1> DEFINE p == k + q + 1
<1>10. b[1] = (p - 1) * Size + 1
  <2>1. b[1] = k * Size + q * Size + 1
    BY <1>2, <1>6, <1>8, <1>9 DEF base
  <2>2. (p - 1) * Size = k * Size + q * Size
    BY <1>2
  <2> QED
    BY <2>1, <2>2
<1>11. p \in 1..MaxPackets
  <2>1. b[Size] = b[1] + Size - 1 /\ b[Size] \in 1..sent
    BY <1>2, <1>3, <1>7
  <2>2. b[Size] = (p - 1) * Size + Size /\ (p - 1) * Size + Size = p * Size
    BY <1>2, <1>10, <2>1
  <2>3. p * Size <= MaxPackets * Size
    <3>1. sent <= MaxPackets * Size
      BY Constants DEF TypeOK
    <3>2. p * Size <= sent
      BY <1>4, <2>1, <2>2
    <3> QED
      BY <1>2, <1>4, <3>1, <3>2, Constants
  <2>4. p <= MaxPackets
    BY <2>3, Constants
  <2> QED
    BY <2>4
<1>12. ASSUME NEW i \in 1..Size PROVE b[i] = (p - 1) * Size + i
  <2>1. (p - 1) * Size \in Nat
    BY <1>2
  <2> HIDE DEF p
  <2> QED
    BY <1>7, <1>10, <2>1
<1>13. b \in [1..Size -> Bytes]
  BY BlockPlace
<1>14. b = Packet(p)
  <2> HIDE DEF p
  <2> QED
    BY <1>12, <1>13 DEF Packet
<1> QED
  BY <1>11, <1>14 DEF Whole

LEMMA BlocksInStep == ASSUME TypeOK, ByteInv, BlockInv PROVE InStepIffWhole
<1> SUFFICES ASSUME NEW b \in Range(blocks)
             PROVE  Whole(b) <=>
                      /\ Cardinality(LostBelow(b[1])) % Size = 0
                      /\ \A m \in missing : ~(b[1] < m /\ m < b[1] + Size)
  BY DEF InStepIffWhole, LostBelow
<1> QED
  BY WholeIsInStep, InStepIsWhole

\* A block is a packet exactly if a multiple of Size bytes is missing before it
\* and none of its own.
THEOREM InStepOrSkipped == Spec => []InStepIffWhole
<1>1. TypeOK /\ Underway /\ ByteInv /\ BlockInv /\ [Next]_vars
         => TypeOK' /\ Underway' /\ ByteInv' /\ BlockInv'
  BY TypeStep, ByteStep, BlockStep
<1>2. TypeOK /\ ByteInv /\ BlockInv => InStepIffWhole
  BY BlocksInStep
<1> QED
  BY TypeInit, ByteInit, BlockInit, <1>1, <1>2, PTL DEF Spec


----------------------------------------------------------------------------
(* The order of what the connections have taken *)

\* The number of the last byte that was cut, 0 for none.
High == IF packet = << >> THEN 0 ELSE packet[Size]

\* Blocks go up from one connection to the next and on each of them; what is to
\* come is higher.
OrderInv ==
    /\ High \in 0..sent
    /\ \A x \in Range(buffer) \cup Range(line) : High < x
    /\ \A c \in Conns : \A i \in 1..Len(given[c]) :
         given[c][i][Size] <= High /\ (pc = "send" => given[c][i][Size] < High)
    /\ \A c \in Conns : \A i, j \in 1..Len(given[c]) :
         i < j => given[c][i][Size] < given[c][j][Size]
    /\ \A c, d \in Conns : c < d =>
         \A i \in 1..Len(given[c]), j \in 1..Len(given[d]) : given[c][i][Size] < given[d][j][Size]
    /\ \A c \in Conns : c > conn => given[c] = << >>

LEMMA OrderInit == Init => OrderInv
<1> SUFFICES ASSUME Init PROVE OrderInv
  OBVIOUS
<1>1. Range(<< >>) = {} /\ Len(<< >>) = 0 /\ 1..0 = {}
  BY DEF Range
<1>2. High = 0 /\ sent = 0
  BY DEF Init, High
<1>3. \A c \in Conns : given[c] = << >>
  BY DEF Init
<1> QED
  BY <1>1, <1>2, <1>3 DEF Init, OrderInv

LEMMA LastByte ==
    ASSUME NEW b \in [1..Size -> Bytes]
    PROVE  b[Size] \in Bytes /\ b[Size] \in Nat /\ Number(b) \in Nat
<1>1. Size \in 1..Size /\ Size \in Nat /\ Size >= 1 /\ \A x \in Bytes : x \in Nat
  BY Constants
<1>2. b[Size] \in Bytes /\ b[Size] \in Nat
  BY <1>1
<1>3. \A n \in Nat : n \div Size \in Nat
  BY <1>1
<1> QED
  BY <1>2, <1>3 DEF Number

LEMMA GivenBlocks ==
    ASSUME TypeOK, NEW c \in Conns
    PROVE  /\ given[c] \in Seq([1..Size -> Bytes]) /\ Len(given[c]) \in Nat
           /\ \A i \in 1..Len(given[c]) :
                given[c][i] \in [1..Size -> Bytes] /\ given[c][i][Size] \in Nat
<1>1. given[c] \in Seq([1..Size -> Bytes])
  BY Zenon DEF TypeOK
<1>2. Len(given[c]) \in Nat
  BY <1>1, LenProperties
<1>3. ASSUME NEW i \in 1..Len(given[c])
      PROVE  given[c][i] \in [1..Size -> Bytes] /\ given[c][i][Size] \in Nat
  <2>1. given[c][i] \in [1..Size -> Bytes]
    BY <1>1, ElementOfSeq
  <2> QED
    BY <2>1, LastByte
<1> QED
  BY <1>1, <1>2, <1>3

\* Steps that neither cut nor send.
LEMMA OrderKept ==
    ASSUME TypeOK, OrderInv, UNCHANGED <<packet, given>>,
           pc' = "send" => pc = "send", conn' >= conn, conn' \in Nat, sent' \in Nat, sent' >= sent,
           \A x \in Range(buffer') \cup Range(line') :
              x \in Range(buffer) \cup Range(line) \/ (x > sent /\ x \in Nat)
    PROVE  OrderInv'
<1>1. High' = High
  BY DEF High
<1>2. sent \in Nat /\ conn \in Nat /\ \A c \in Conns : c \in Nat
  BY Constants DEF TypeOK, Conns
<1>3. High \in 0..sent'
  BY <1>2 DEF OrderInv
<1>4. \A x \in Range(buffer') \cup Range(line') : High < x
  BY <1>2 DEF OrderInv
<1>5. \A c \in Conns : c > conn' => given[c] = << >>
  BY <1>2 DEF OrderInv
<1> QED
  BY <1>1, <1>3, <1>4, <1>5 DEF OrderInv

LEMMA OrderCut == ASSUME TypeOK, ByteInv, OrderInv, Cut PROVE OrderInv'
<1> DEFINE p == packet'
<1> DEFINE b == buffer'
<1>1. /\ p \in Seq(Bytes) /\ Len(p) = Size /\ b \in Seq(Bytes) /\ buffer = p \o b
      /\ p \in [1..Size -> Bytes]
  BY CutEffect
<1>2. given' = given /\ conn' = conn /\ sent' = sent /\ line' = line
  BY DEF Cut, lineVars, tcpVars
<1>3. p \in Seq(Nat) /\ b \in Seq(Nat) /\ buffer \in Seq(Nat) /\ FlattenSeq(blocks) \in Seq(Nat)
  <2> HIDE DEF p, b
  <2> QED
    BY <1>1, BytesAreNumbers, JoinedType DEF TypeOK
<1>4. /\ Range(Joined) \cup Range(line) = (1..sent) \ missing
      /\ Increasing(Joined) /\ Below(Joined, line) /\ sent \in Nat
  BY ByteParts DEF ByteInv
<1>5. Increasing(buffer) /\ Range(buffer) \subseteq Range(Joined)
  <2>1. Increasing(buffer)
    BY <1>3, <1>4, IncreasingConcat DEF Joined
  <2>2. Range(Joined) = Range(FlattenSeq(blocks)) \cup Range(buffer)
    BY <1>3, RangeJoin DEF Joined
  <2> QED
    BY <2>1, <2>2
<1> HIDE DEF p, b
<1>6. Below(p, b) /\ Range(buffer) = Range(p) \cup Range(b)
  BY <1>1, <1>3, <1>5, IncreasingConcat, RangeJoin
<1>7. p[Size] \in Range(p)
  <2>1. Range(p) = {p[i] : i \in 1..Len(p)}
    BY <1>3, RangeEquality
  <2> QED
    BY <1>1, <2>1, Constants
<1>8. p # << >> /\ High' = p[Size]
  <2>1. p # << >>
    BY <1>1, Constants
  <2> QED
    BY <2>1 DEF High, p
<1>9. p[Size] \in 1..sent /\ High < p[Size] /\ High \in Nat
  BY <1>4, <1>5, <1>6, <1>7 DEF OrderInv
<1>10. \A x \in Range(b) \cup Range(line) : p[Size] < x
  BY <1>4, <1>5, <1>6, <1>7 DEF Below
<1>11. \A c \in Conns : \A i \in 1..Len(given[c]) : given[c][i][Size] < p[Size]
  <2> SUFFICES ASSUME NEW c \in Conns, NEW i \in 1..Len(given[c]) PROVE given[c][i][Size] < p[Size]
    OBVIOUS
  <2>1. given[c][i][Size] <= High
    BY DEF OrderInv
  <2>3. given[c][i][Size] \in Nat
    BY GivenBlocks
  <2> QED
    BY <1>9, <2>1, <2>3
<1>12. \A c \in Conns : \A i \in 1..Len(given[c]) : given[c][i][Size] <= p[Size]
  <2> SUFFICES ASSUME NEW c \in Conns, NEW i \in 1..Len(given[c]) PROVE given[c][i][Size] <= p[Size]
    OBVIOUS
  <2>1. given[c][i][Size] < p[Size]
    BY <1>11
  <2>3. given[c][i][Size] \in Nat
    BY GivenBlocks
  <2> QED
    BY <1>9, <2>1, <2>3
<1>13. p[Size] \in 0..sent
  BY <1>9
<1> QED
  BY <1>2, <1>8, <1>10, <1>11, <1>12, <1>13 DEF OrderInv, b

LEMMA OrderGive ==
    ASSUME TypeOK, Underway, OrderInv, pc = "send", pc' # "send", UNCHANGED <<packet, conn, sent, buffer, line>>,
           given' = [given EXCEPT ![conn] = Append(@, packet)]
    PROVE  OrderInv'
<1>1. /\ packet \in [1..Size -> Bytes] /\ conn \in Conns
      /\ given'[conn] = Append(given[conn], packet)
      /\ \A c \in Conns : c # conn => given'[c] = given[c]
  BY GivenEffect
<1>2. High' = High /\ High = packet[Size] /\ High \in Nat
  <2>1. packet # << >>
    BY Constants DEF TypeOK, Underway
  <2>2. sent \in Nat
    BY Constants DEF TypeOK
  <2> QED
    BY <2>1, <2>2 DEF High, OrderInv
<1> DEFINE g == given[conn]
<1>3. /\ g \in Seq([1..Size -> Bytes]) /\ Len(g) \in Nat
      /\ Len(Append(g, packet)) = Len(g) + 1
      /\ \A i \in 1..Len(g) : Append(g, packet)[i] = g[i]
      /\ Append(g, packet)[Len(g) + 1] = packet
  <2>1. g \in Seq([1..Size -> Bytes])
    BY <1>1, Zenon DEF TypeOK
  <2> HIDE DEF g
  <2> QED
    BY <1>1, <2>1, AppendProperties, LenProperties
<1>4. \A c \in Conns : \A i \in 1..Len(given[c]) : given[c][i][Size] < High
  BY DEF OrderInv
<1> HIDE DEF g
<1>5. ASSUME NEW c \in Conns, NEW i \in 1..Len(given'[c])
      PROVE  \/ i \in 1..Len(given[c]) /\ given'[c][i] = given[c][i] /\ given'[c][i][Size] < High
             \/ c = conn /\ i = Len(g) + 1 /\ given'[c][i][Size] = High
  <2>1. CASE c = conn
    <3>1. i \in 1..(Len(g) + 1)
      BY <1>1, <1>3, <2>1 DEF g
    <3>2. CASE i = Len(g) + 1
      BY <1>1, <1>2, <1>3, <2>1, <3>2 DEF g
    <3>3. CASE i # Len(g) + 1
      <4>1. i \in 1..Len(g)
        BY <1>3, <3>1, <3>3
      <4>2. given'[c][i] = given[c][i]
        BY <1>1, <1>3, <2>1, <4>1 DEF g
      <4> QED
        BY <1>4, <2>1, <4>1, <4>2 DEF g
    <3> QED
      BY <3>2, <3>3
  <2>2. CASE c # conn
    BY <1>1, <1>4, <2>2
  <2> QED
    BY <2>1, <2>2
<1>6. \A c \in Conns : \A i \in 1..Len(given'[c]) : given'[c][i][Size] <= High
  <2> SUFFICES ASSUME NEW c \in Conns, NEW i \in 1..Len(given'[c]) PROVE given'[c][i][Size] <= High
    OBVIOUS
  <2>1. CASE given'[c][i][Size] = High
    BY <1>2, <2>1
  <2>2. CASE i \in 1..Len(given[c]) /\ given'[c][i] = given[c][i]
    BY <2>2 DEF OrderInv
  <2> QED
    BY <1>5, <2>1, <2>2
<1>7. ASSUME NEW c \in Conns, NEW i \in 1..Len(given'[c]), NEW j \in 1..Len(given'[c]), i < j
      PROVE  given'[c][i][Size] < given'[c][j][Size]
  <2>1. CASE j \in 1..Len(given[c]) /\ given'[c][j] = given[c][j]
    <3>1. i \in 1..Len(given[c]) /\ given'[c][i] = given[c][i]
      BY <1>3, <1>5, <1>7, <2>1 DEF g
    <3> QED
      BY <1>7, <2>1, <3>1 DEF OrderInv
  <2>2. CASE c = conn /\ j = Len(g) + 1 /\ given'[c][j][Size] = High
    <3>1. i # Len(g) + 1
      BY <1>3, <1>7, <2>2
    <3> QED
      BY <1>5, <2>2, <3>1
  <2> QED
    BY <1>5, <2>1, <2>2
<1>8. ASSUME NEW c \in Conns, NEW d \in Conns, c < d,
             NEW i \in 1..Len(given'[c]), NEW j \in 1..Len(given'[d])
      PROVE  given'[c][i][Size] < given'[d][j][Size]
  <2>1. c \in Nat /\ d \in Nat
    BY Constants DEF Conns
  <2>2. CASE d = conn
    <3>1. c # conn
      BY <1>8, <2>1, <2>2
    <3>2. i \in 1..Len(given[c]) /\ given'[c][i] = given[c][i] /\ given'[c][i][Size] < High
      BY <1>5, <3>1
    <3>3. CASE given'[d][j][Size] = High
      BY <3>2, <3>3
    <3>4. CASE j \in 1..Len(given[d]) /\ given'[d][j] = given[d][j]
      BY <1>8, <3>2, <3>4 DEF OrderInv
    <3> QED
      BY <1>5, <3>3, <3>4
  <2>3. CASE c = conn
    <3>1. d > conn /\ d # conn
      BY <1>8, <2>1, <2>3
    <3>2. given[d] = << >> /\ given'[d] = given[d]
      BY <1>1, <3>1 DEF OrderInv
    <3> QED
      BY <3>2
  <2>4. CASE c # conn /\ d # conn
    BY <1>1, <1>8, <2>4 DEF OrderInv
  <2> QED
    BY <2>2, <2>3, <2>4
<1>9. \A c \in Conns : c > conn => given'[c] = << >>
  <2>1. \A c \in Conns : c > conn => c # conn
    BY <1>1, Constants DEF Conns
  <2> QED
    BY <1>1, <2>1 DEF OrderInv
<1>10. High \in 0..sent /\ \A x \in Range(buffer) \cup Range(line) : High < x
  BY DEF OrderInv
<1> QED
  BY <1>2, <1>6, <1>7, <1>8, <1>9, <1>10 DEF OrderInv


LEMMA OrderStep == ASSUME TypeOK, Underway, ByteInv, OrderInv, [Next]_vars PROVE OrderInv'
<1>1. sent \in Nat /\ conn \in Nat
  BY Constants DEF TypeOK
<1>2. CASE SendByte
  <2> DEFINE n == sent + 1
  <2>1. /\ sent' = n /\ line' = Append(line, n) /\ UNCHANGED <<bridgeVars, tcpVars>>
        /\ n \in Nat /\ n > sent
    BY <1>1, <1>2 DEF SendByte
  <2>2. line \in Seq(Nat) /\ <<n>> \in Seq(Nat) /\ Range(<<n>>) = {n}
    BY <2>1, BytesAreNumbers DEF TypeOK, Range
  <2> HIDE DEF n
  <2>3. Append(line, n) = line \o <<n>>
    BY <2>1, <2>2, AppendIsConcat
  <2>4. Range(line') = Range(line) \cup {n}
    BY <2>1, <2>2, <2>3, RangeJoin
  <2> QED
    BY <1>1, <2>1, <2>4, OrderKept DEF bridgeVars, tcpVars
<1>3. CASE LoseByte
  <2>1. PICK i \in DOMAIN line : line' = RemoveAt(line, i)
    BY <1>3 DEF LoseByte
  <2>2. /\ line \in Seq(Nat) /\ Increasing(line) /\ DOMAIN line = 1..Len(line)
    BY ByteParts, LenProperties DEF ByteInv
  <2>3. Range(line') = Range(line) \ {line[i]}
    BY <2>1, <2>2, RemoveOne
  <2> QED
    BY <1>1, <1>3, <2>3, OrderKept DEF LoseByte, bridgeVars, tcpVars
<1>4. CASE Reopen
  <2>1. Range(line') = {}
    BY <1>4 DEF Reopen, Range
  <2> QED
    BY <1>1, <1>4, <2>1, OrderKept DEF Reopen, bridgeVars, tcpVars
<1>5. CASE Read
  <2> DEFINE b == buffer'
  <2> DEFINE l == line'
  <2>1. b \in Seq(Nat) /\ l \in Seq(Nat) /\ b \o l = buffer \o line
    <3>1. b \in Seq(Bytes) /\ l \in Seq(Bytes) /\ b \o l = buffer \o line
      BY <1>5, ReadEffect
    <3> HIDE DEF b, l
    <3> QED
      BY <3>1, BytesAreNumbers
  <2>2. buffer \in Seq(Nat) /\ line \in Seq(Nat)
    BY BytesAreNumbers DEF TypeOK
  <2> HIDE DEF b, l
  <2>3. Range(b) \cup Range(l) = Range(buffer) \cup Range(line)
    <3>1. Range(b \o l) = Range(b) \cup Range(l)
      BY <2>1, RangeJoin
    <3>2. Range(buffer \o line) = Range(buffer) \cup Range(line)
      BY <2>2, RangeJoin
    <3> QED
      BY <2>1, <3>1, <3>2
  <2> QED
    BY <1>1, <1>5, <2>3, OrderKept DEF Read, tcpVars, b, l
<1>6. CASE Cut
  BY <1>6, OrderCut
<1>7. CASE SendAll
  BY <1>7, OrderGive DEF SendAll, lineVars
<1>8. CASE SendFails
  <2>1. CASE given' = given
    BY <1>1, <1>8, <2>1, OrderKept DEF SendFails, lineVars
  <2>2. CASE given' = [given EXCEPT ![conn] = Append(@, packet)]
    BY <1>8, <2>2, OrderGive DEF SendFails, lineVars
  <2> QED
    BY <1>8, <2>1, <2>2 DEF SendFails
<1>9. CASE Connect
  BY <1>1, <1>9, OrderKept DEF Connect, lineVars
<1>10. CASE CutDone \/ Break \/ \E c \in Conns : Deliver(c)
  BY <1>1, <1>10, OrderKept DEF CutDone, Break, Deliver, lineVars, bridgeVars, tcpVars
<1>11. CASE UNCHANGED vars
  BY <1>1, <1>11, OrderKept DEF vars, lineVars, bridgeVars, tcpVars
<1> QED
  BY <1>2, <1>3, <1>4, <1>5, <1>6, <1>7, <1>8, <1>9, <1>10, <1>11 DEF Next, Bridge

----------------------------------------------------------------------------
(* The packets that have arrived *)

LEMMA NumbersAppend ==
    ASSUME NEW bs \in Seq([1..Size -> Bytes]), NEW b \in [1..Size -> Bytes]
    PROVE  /\ Numbers(bs) \in Seq(Nat)
           /\ Numbers(Append(bs, b)) = IF Whole(b) THEN Append(Numbers(bs), Number(b)) ELSE Numbers(bs)
           /\ Number(b) \in Nat
<1> DEFINE Part(x) == IF Whole(x) THEN <<Number(x)>> ELSE << >>
<1> DEFINE s == [i \in DOMAIN bs |-> Part(bs[i])]
<1> DEFINE a == Append(bs, b)
<1> DEFINE t == [i \in DOMAIN a |-> Part(a[i])]
<1>1. ASSUME NEW x \in [1..Size -> Bytes] PROVE Number(x) \in Nat /\ Part(x) \in Seq(Nat)
  <2>2. Number(x) \in Nat
    BY LastByte
  <2>3. << >> \in Seq(Nat) /\ <<Number(x)>> \in Seq(Nat)
    BY <2>2
  <2> QED
    BY <2>2, <2>3
<1> HIDE DEF Part
<1>2. /\ DOMAIN bs = 1..Len(bs) /\ Len(bs) \in Nat
      /\ \A i \in 1..Len(bs) : bs[i] \in [1..Size -> Bytes]
  BY LenProperties, ElementOfSeq
<1>3. /\ a \in Seq([1..Size -> Bytes]) /\ Len(a) = Len(bs) + 1 /\ DOMAIN a = 1..(Len(bs) + 1)
      /\ \A i \in 1..Len(bs) : a[i] = bs[i] /\ a[Len(bs) + 1] = b
  BY <1>2, AppendProperties, LenProperties
<1>4. s \in Seq(Seq(Nat)) /\ Len(s) = Len(bs)
  <2>1. s = [i \in 1..Len(bs) |-> Part(bs[i])]
    BY <1>2
  <2>2. \A i \in 1..Len(bs) : Part(bs[i]) \in Seq(Nat)
    BY <1>1, <1>2
  <2>3. s \in [1..Len(bs) -> Seq(Nat)]
    BY <2>1, <2>2
  <2> HIDE DEF s
  <2> QED
    BY <1>2, <2>3
<1> HIDE DEF a
<1>5. t = Append(s, Part(b))
  <2>1. Part(b) \in Seq(Nat)
    BY <1>1
  <2> DEFINE u == Append(s, Part(b))
  <2>2. /\ u \in Seq(Seq(Nat)) /\ Len(u) = Len(bs) + 1
        /\ \A i \in 1..Len(bs) : u[i] = s[i]
        /\ u[Len(bs) + 1] = Part(b)
    <3> HIDE DEF s
    <3> QED
      BY <1>4, <2>1, AppendProperties
  <2>3. \A i \in 1..Len(bs) : s[i] = Part(bs[i])
    BY <1>2
  <2> HIDE DEF s, u
  <2>4. \A i \in 1..(Len(bs) + 1) : u[i] = Part(a[i])
    <3> SUFFICES ASSUME NEW i \in 1..(Len(bs) + 1) PROVE u[i] = Part(a[i])
      OBVIOUS
    <3>1. CASE i \in 1..Len(bs)
      BY <1>3, <2>2, <2>3, <3>1
    <3>2. CASE i = Len(bs) + 1
      <4>1. a[i] = b
        BY <1>3, <3>2, AppendProperties DEF a
      <4> QED
        BY <2>2, <3>2, <4>1
    <3> QED
      BY <1>2, <3>1, <3>2
  <2>5. u \in [1..(Len(bs) + 1) -> Seq(Nat)]
    BY <2>2, LenProperties
  <2>6. t = u
    BY <1>3, <2>4, <2>5
  <2> QED
    BY <2>6 DEF u
<1>6. Numbers(bs) = FlattenSeq(s) /\ Numbers(a) = FlattenSeq(t)
  BY DEF Numbers, Part
<1>7. FlattenSeq(s) \in Seq(Nat) /\ FlattenSeq(t) = FlattenSeq(s) \o Part(b)
  <2>1. Part(b) \in Seq(Nat)
    BY <1>1
  <2> HIDE DEF s, t
  <2> QED
    BY <1>4, <1>5, <2>1, FlattenAppend
<1>8. CASE Whole(b)
  <2>1. Part(b) = <<Number(b)>> /\ Number(b) \in Nat
    BY <1>1, <1>8 DEF Part
  <2> DEFINE f == FlattenSeq(s)
  <2>2. f \in Seq(Nat)
    BY <1>7
  <2> HIDE DEF f
  <2>3. f \o <<Number(b)>> = Append(f, Number(b))
    BY <2>1, <2>2, AppendIsConcat
  <2> QED
    BY <1>6, <1>7, <1>8, <2>1, <2>3 DEF f, a
<1>9. CASE ~Whole(b)
  <2>1. Part(b) = << >>
    BY <1>9 DEF Part
  <2> DEFINE f == FlattenSeq(s)
  <2>2. f \in Seq(Nat)
    BY <1>7
  <2> HIDE DEF f
  <2>3. f \o << >> = f
    BY <2>2, ConcatEmptySeq
  <2>4. Number(b) \in Nat
    BY <1>1
  <2> QED
    BY <1>6, <1>7, <1>9, <2>1, <2>2, <2>3, <2>4 DEF f, a
<1> QED
  BY <1>8, <1>9


LEMMA WholeNumber ==
    ASSUME NEW b, Whole(b)
    PROVE  Number(b) \in 1..MaxPackets /\ b[Size] = Number(b) * Size
<1>1. PICK p \in 1..MaxPackets : b = Packet(p)
  BY DEF Whole
<1>2. Size \in 1..Size /\ Size \in Nat /\ Size >= 1 /\ p \in Nat /\ p - 1 \in Nat
  BY Constants
<1>3. b[Size] = (p - 1) * Size + Size
  BY <1>1, <1>2 DEF Packet
<1>4. b[Size] = p * Size
  BY <1>2, <1>3
<1>5. (p * Size) \div Size = p
  BY <1>2
<1>6. Number(b) = p
  BY <1>4, <1>5 DEF Number
<1> QED
  BY <1>4, <1>6

LEMMA NumbersGrow ==
    ASSUME NEW a, NEW b, Whole(a), Whole(b), a[Size] < b[Size]
    PROVE  Number(a) < Number(b)
<1> DEFINE m == Number(a)
<1> DEFINE n == Number(b)
<1>1. m \in Nat /\ n \in Nat /\ a[Size] = m * Size /\ b[Size] = n * Size
  BY WholeNumber, Constants
<1> HIDE DEF m, n
<1>2. m * Size < n * Size
  BY <1>1
<1>3. m < n
  BY <1>1, <1>2, Constants
<1> QED
  BY <1>3 DEF m, n

LEMMA ArrivedBlocks ==
    ASSUME TypeOK, NEW c \in Conns
    PROVE  /\ arr[c] \in Nat /\ arr[c] <= Len(given[c])
           /\ Arrived[c] = SubSeq(given[c], 1, arr[c])
           /\ Arrived[c] \in Seq([1..Size -> Bytes]) /\ Len(Arrived[c]) = arr[c]
           /\ \A i \in 1..arr[c] : Arrived[c][i] = given[c][i]
           /\ Passed[c] = Numbers(Arrived[c])
<1>1. given[c] \in Seq([1..Size -> Bytes]) /\ Len(given[c]) \in Nat
  BY GivenBlocks
<1>2. arr[c] \in 0..Len(given[c]) /\ arr[c] \in Nat
  BY DEF TypeOK
<1>3. Arrived[c] = SubSeq(given[c], 1, arr[c]) /\ Passed[c] = Numbers(Arrived[c])
  BY DEF Arrived, Passed
<1> DEFINE g == given[c]
<1> DEFINE k == arr[c]
<1> HIDE DEF g, k
<1>4. g \in Seq([1..Size -> Bytes]) /\ k \in 0..Len(g)
  BY <1>1, <1>2 DEF g, k
<1>5. /\ SubSeq(g, 1, k) \in Seq([1..Size -> Bytes]) /\ Len(SubSeq(g, 1, k)) = k
      /\ \A i \in 1..k : SubSeq(g, 1, k)[i] = g[i]
  BY <1>4, SplitSeq
<1> QED
  BY <1>1, <1>2, <1>3, <1>5 DEF g, k

\* Every packet that has arrived is one of the blocks that have.
ArrivedInv ==
    \A c \in Conns :
       /\ Passed[c] \in Seq(Nat)
       /\ \A n \in Range(Passed[c]) :
            \E i \in 1..arr[c] : Whole(given[c][i]) /\ n = Number(given[c][i])

LEMMA ArrivedInit == Init => ArrivedInv /\ Passed = [c \in Conns |-> << >>]
<1> SUFFICES ASSUME Init PROVE ArrivedInv /\ Passed = [c \in Conns |-> << >>]
  OBVIOUS
<1>1. ASSUME NEW c \in Conns PROVE Numbers(Arrived[c]) = << >>
  <2>1. SubSeq(given[c], 1, arr[c]) = << >>
    <3>1. arr[c] = 0
      BY DEF Init
    <3> QED
      BY <3>1, SubSeqEmpty
  <2>2. Arrived[c] = << >>
    BY <2>1 DEF Arrived
  <2>3. [i \in DOMAIN << >> |-> IF Whole(<< >>[i]) THEN <<Number(<< >>[i])>> ELSE << >>] = << >>
    OBVIOUS
  <2>4. FlattenSeq(<< >>) = << >>
    BY DEF FlattenSeq
  <2> QED
    BY <2>2, <2>3, <2>4 DEF Numbers
<1>2. Passed = [c \in Conns |-> << >>]
  BY <1>1 DEF Passed
<1>3. << >> \in Seq(Nat) /\ Range(<< >>) = {}
  BY EmptySeq DEF Range
<1> QED
  BY <1>2, <1>3 DEF ArrivedInv

\* What has arrived does not change when a connection takes a block.
LEMMA PassedKept ==
    ASSUME TypeOK, TypeOK', arr' = arr,
           \A c \in Conns : \A i \in 1..Len(given[c]) : given'[c][i] = given[c][i]
    PROVE  Passed' = Passed
<1>1. ASSUME NEW c \in Conns PROVE Arrived'[c] = Arrived[c]
  <2>1. /\ arr[c] \in Nat /\ arr[c] <= Len(given[c]) /\ Len(given[c]) \in Nat
        /\ Arrived[c] \in Seq([1..Size -> Bytes]) /\ Len(Arrived[c]) = arr[c]
        /\ \A i \in 1..arr[c] : Arrived[c][i] = given[c][i]
    BY ArrivedBlocks, GivenBlocks
  <2> DEFINE g == given'[c]
  <2> DEFINE k == arr[c]
  <2>2. g \in Seq([1..Size -> Bytes]) /\ k \in 0..Len(g)
    <3>1. g \in Seq([1..Size -> Bytes])
      BY Zenon DEF TypeOK
    <3>2. arr'[c] \in 0..Len(given'[c])
      BY DEF TypeOK
    <3> QED
      BY <3>1, <3>2
  <2>3. Arrived'[c] = SubSeq(g, 1, k)
    BY DEF Arrived
  <2>4. \A i \in 1..k : g[i] = given[c][i]
    BY <2>1
  <2> HIDE DEF g
  <2> DEFINE a == SubSeq(g, 1, k)
  <2>5. a \in Seq([1..Size -> Bytes]) /\ Len(a) = k /\ \A i \in 1..k : a[i] = g[i]
    <3> HIDE DEF k
    <3> QED
      BY <2>2, SplitSeq
  <2> HIDE DEF a
  <2>6. a = Arrived[c]
    <3>1. Len(a) = Len(Arrived[c]) /\ \A i \in 1..Len(a) : a[i] = Arrived[c][i]
      BY <2>1, <2>4, <2>5
    <3> QED
      BY <2>1, <2>5, <3>1, SeqEqual
  <2> QED
    BY <2>3, <2>6 DEF a
<1> QED
  BY <1>1 DEF Passed

LEMMA SameNumber ==
    ASSUME TypeOK, OrderInv, NEW c \in Conns, NEW i \in 1..Len(given[c]),
           NEW d \in Conns, NEW j \in 1..Len(given[d]), c # d \/ i # j,
           Whole(given[c][i]), Whole(given[d][j])
    PROVE  Number(given[c][i]) # Number(given[d][j])
<1>1. given[c][i][Size] \in Nat /\ given[d][j][Size] \in Nat /\ Len(given[c]) \in Nat
  BY GivenBlocks
<1>2. given[c][i][Size] < given[d][j][Size] \/ given[d][j][Size] < given[c][i][Size]
  <2>1. CASE c = d
    <3>1. i < j \/ j < i
      BY <1>1, <2>1
    <3> QED
      BY <2>1, <3>1 DEF OrderInv
  <2>2. CASE c # d
    <3>1. c < d \/ d < c
      BY <2>2, Constants DEF Conns
    <3> QED
      BY <3>1 DEF OrderInv
  <2> QED
    BY <2>1, <2>2
<1>3. Number(given[c][i]) < Number(given[d][j]) \/ Number(given[d][j]) < Number(given[c][i])
  BY <1>2, NumbersGrow
<1>4. Number(given[c][i]) \in Nat /\ Number(given[d][j]) \in Nat
  BY WholeNumber, Constants
<1> QED
  BY <1>3, <1>4

\* The next block arrives.
LEMMA DeliverEffect ==
    ASSUME TypeOK, TypeOK', NEW c \in Conns, Deliver(c), ArrivedInv
    PROVE  /\ arr[c] + 1 \in 1..Len(given[c]) /\ arr[c] \in Nat
           /\ LET b == given[c][arr[c] + 1] IN
              /\ ~Whole(b) => Passed' = Passed
              /\ Whole(b) => Passed' = [Passed EXCEPT ![c] = Append(@, Number(b))]
<1> DEFINE g == given[c]
<1> DEFINE k == arr[c]
<1> DEFINE b == g[k + 1]
<1>1. g \in Seq([1..Size -> Bytes]) /\ Len(g) \in Nat /\ k \in Nat /\ k < Len(g)
  BY GivenBlocks, ArrivedBlocks DEF Deliver
<1>2. k + 1 \in 1..Len(g) /\ k + 1 \in 0..Len(g) /\ k \in 0..Len(g)
  BY <1>1
<1>3. b \in [1..Size -> Bytes]
  BY <1>1, <1>2, ElementOfSeq
<1>4. /\ given' = given /\ arr'[c] = k + 1
      /\ \A d \in Conns : d # c => arr'[d] = arr[d]
  BY DEF Deliver, TypeOK
<1> HIDE DEF g, k, b
<1>5. SubSeq(g, 1, k + 1) = Append(SubSeq(g, 1, k), b)
  <2> DEFINE a == SubSeq(g, 1, k)
  <2> DEFINE e == SubSeq(g, 1, k + 1)
  <2>1. a \in Seq([1..Size -> Bytes]) /\ Len(a) = k /\ \A i \in 1..k : a[i] = g[i]
    BY <1>1, <1>2, SplitSeq
  <2>2. e \in Seq([1..Size -> Bytes]) /\ Len(e) = k + 1 /\ \A i \in 1..(k + 1) : e[i] = g[i]
    <3> DEFINE m == k + 1
    <3>1. m \in 0..Len(g)
      BY <1>2
    <3> HIDE DEF m
    <3>2. /\ SubSeq(g, 1, m) \in Seq([1..Size -> Bytes]) /\ Len(SubSeq(g, 1, m)) = m
          /\ \A i \in 1..m : SubSeq(g, 1, m)[i] = g[i]
      BY <1>1, <3>1, SplitSeq
    <3> QED
      BY <3>2 DEF m
  <2> HIDE DEF a, e
  <2> DEFINE f == Append(a, b)
  <2>3. /\ f \in Seq([1..Size -> Bytes]) /\ Len(f) = k + 1 /\ \A i \in 1..k : f[i] = a[i]
        /\ f[k + 1] = b
    BY <1>3, <2>1, AppendProperties
  <2> HIDE DEF f
  <2>4. \A i \in 1..(k + 1) : f[i] = g[i]
    <3> SUFFICES ASSUME NEW i \in 1..(k + 1) PROVE f[i] = g[i]
      OBVIOUS
    <3>1. CASE i \in 1..k
      BY <2>1, <2>3, <3>1
    <3>2. CASE i = k + 1
      BY <2>3, <3>2 DEF b
    <3> QED
      BY <1>1, <3>1, <3>2
  <2>5. e = f
    <3>1. Len(e) = Len(f) /\ \A i \in 1..Len(e) : e[i] = f[i]
      BY <2>2, <2>3, <2>4
    <3> QED
      BY <2>2, <2>3, <3>1, SeqEqual
  <2> QED
    BY <2>5 DEF a, e, f
<1>6. Arrived[c] = SubSeq(g, 1, k) /\ Arrived'[c] = Append(Arrived[c], b)
  BY <1>4, <1>5 DEF Arrived, g, k
<1>7. Arrived[c] \in Seq([1..Size -> Bytes]) /\ Passed[c] = Numbers(Arrived[c])
  BY ArrivedBlocks
<1>8. Numbers(Append(Arrived[c], b)) =
         IF Whole(b) THEN Append(Numbers(Arrived[c]), Number(b)) ELSE Numbers(Arrived[c])
  BY <1>3, <1>7, NumbersAppend
<1>9. Passed'[c] = IF Whole(b) THEN Append(Passed[c], Number(b)) ELSE Passed[c]
  <2>1. Passed'[c] = Numbers(Arrived'[c])
    BY DEF Passed
  <2> QED
    BY <1>6, <1>7, <1>8, <2>1
<1>10. ASSUME NEW d \in Conns, d # c PROVE Passed'[d] = Passed[d]
  BY <1>4, <1>10 DEF Passed, Arrived
<1>11. Passed = [d \in Conns |-> Passed[d]] /\ Passed' = [d \in Conns |-> Passed'[d]]
  BY DEF Passed
<1>12. ~Whole(b) => Passed' = Passed
  <2> SUFFICES ASSUME ~Whole(b) PROVE Passed' = Passed
    OBVIOUS
  <2>1. \A d \in Conns : Passed'[d] = Passed[d]
    BY <1>9, <1>10
  <2> QED
    BY <1>11, <2>1, Zenon
<1>13. Whole(b) => Passed' = [Passed EXCEPT ![c] = Append(@, Number(b))]
  <2> SUFFICES ASSUME Whole(b) PROVE Passed' = [Passed EXCEPT ![c] = Append(@, Number(b))]
    OBVIOUS
  <2> DEFINE A == Passed
  <2> DEFINE B == Passed'
  <2>1. /\ A = [d \in Conns |-> A[d]] /\ B = [d \in Conns |-> B[d]]
        /\ B[c] = Append(A[c], Number(b)) /\ \A d \in Conns : d # c => B[d] = A[d]
    BY <1>9, <1>10, <1>11
  <2> HIDE DEF A, B
  <2>2. B = [A EXCEPT ![c] = Append(@, Number(b))]
    BY <2>1
  <2> QED
    BY <2>2 DEF A, B
<1> QED
  BY <1>1, <1>2, <1>12, <1>13 DEF b, g, k


LEMMA OthersKeepPassed ==
    ASSUME TypeOK, Underway, TypeOK', [Next]_vars, \A c \in Conns : ~Deliver(c)
    PROVE  /\ Passed' = Passed /\ arr' = arr
           /\ \A c \in Conns : \A i \in 1..Len(given[c]) : given'[c][i] = given[c][i]
<1>1. arr' = arr
  BY DEF Next, Bridge, SendByte, LoseByte, Connect, Reopen, Read, Cut, CutDone, SendAll, SendFails,
         Break, vars, tcpVars
<1>2. \/ given' = given
      \/ pc = "send" /\ given' = [given EXCEPT ![conn] = Append(@, packet)]
  BY DEF Next, Bridge, SendByte, LoseByte, Connect, Reopen, Read, Cut, CutDone, SendAll, SendFails,
         Break, vars, tcpVars
<1>3. \A c \in Conns : \A i \in 1..Len(given[c]) : given'[c][i] = given[c][i]
  BY <1>2, GivenEffect
<1> QED
  BY <1>1, <1>3, PassedKept

LEMMA ArrivedStep ==
    ASSUME TypeOK, Underway, TypeOK', ArrivedInv, [Next]_vars PROVE ArrivedInv'
<1>1. ASSUME NEW c \in Conns, Deliver(c) PROVE ArrivedInv'
  <2> DEFINE k == arr[c] + 1
  <2> DEFINE b == given[c][k]
  <2>1. /\ k \in 1..Len(given[c]) /\ arr[c] \in Nat
        /\ ~Whole(b) => Passed' = Passed
        /\ Whole(b) => Passed' = [Passed EXCEPT ![c] = Append(@, Number(b))]
    BY <1>1, DeliverEffect
  <2>2. given' = given /\ arr'[c] = k /\ \A d \in Conns : d # c => arr'[d] = arr[d]
    BY <1>1 DEF Deliver, TypeOK
  <2>3. b \in [1..Size -> Bytes] /\ Number(b) \in Nat
    BY <2>1, GivenBlocks, LastByte
  <2> HIDE DEF b
  <2> SUFFICES ASSUME NEW d \in Conns
               PROVE  /\ Passed'[d] \in Seq(Nat)
                      /\ \A n \in Range(Passed'[d]) :
                           \E i \in 1..arr'[d] : Whole(given[d][i]) /\ n = Number(given[d][i])
    BY <2>2 DEF ArrivedInv
  <2>4. /\ Passed[d] \in Seq(Nat)
        /\ \A n \in Range(Passed[d]) :
             \E i \in 1..arr[d] : Whole(given[d][i]) /\ n = Number(given[d][i])
    BY DEF ArrivedInv
  <2>5. \A i \in 1..arr[d] : i \in 1..arr'[d]
    BY <2>1, <2>2
  <2>6. CASE Passed'[d] = Passed[d]
    BY <2>4, <2>5, <2>6
  <2>7. CASE d = c /\ Whole(b)
    <3> DEFINE s == Passed[c]
    <3>1. Passed'[c] = Append(s, Number(b))
      BY <2>1, <2>7 DEF Passed
    <3>2. s \in Seq(Nat)
      BY <2>4, <2>7
    <3> HIDE DEF s
    <3>3. /\ Append(s, Number(b)) \in Seq(Nat) /\ <<Number(b)>> \in Seq(Nat)
          /\ Append(s, Number(b)) = s \o <<Number(b)>> /\ Range(<<Number(b)>>) = {Number(b)}
      BY <2>3, <3>2, AppendProperties, AppendIsConcat DEF Range
    <3>4. Range(Append(s, Number(b))) = Range(s) \cup {Number(b)}
      BY <3>2, <3>3, RangeJoin
    <3>5. k \in 1..arr'[c] /\ Whole(given[c][k]) /\ Number(b) = Number(given[c][k])
      BY <2>1, <2>2, <2>7 DEF b
    <3>6. Passed'[c] \in Seq(Nat) /\ Range(Passed'[c]) = Range(Passed[c]) \cup {Number(b)}
      BY <3>1, <3>3, <3>4 DEF s
    <3>7. ASSUME NEW n \in Range(Passed[c])
          PROVE  \E i \in 1..arr'[c] : Whole(given[c][i]) /\ n = Number(given[c][i])
      BY <2>4, <2>5, <2>7, <3>7
    <3> QED
      BY <2>7, <3>5, <3>6, <3>7
  <2>8. Passed'[d] = Passed[d] \/ (d = c /\ Whole(b))
    BY <2>1 DEF Passed
  <2> QED
    BY <2>6, <2>7, <2>8
<1>2. CASE \A c \in Conns : ~Deliver(c)
  <2>1. /\ Passed' = Passed /\ arr' = arr
        /\ \A c \in Conns : \A i \in 1..Len(given[c]) : given'[c][i] = given[c][i]
    BY <1>2, OthersKeepPassed
  <2> SUFFICES ASSUME NEW d \in Conns
               PROVE  /\ Passed'[d] \in Seq(Nat)
                      /\ \A n \in Range(Passed'[d]) :
                           \E i \in 1..arr'[d] : Whole(given'[d][i]) /\ n = Number(given'[d][i])
    BY DEF ArrivedInv
  <2>2. Passed'[d] \in Seq(Nat)
    BY <2>1 DEF ArrivedInv
  <2>3. ASSUME NEW n \in Range(Passed'[d])
        PROVE  \E i \in 1..arr'[d] : Whole(given'[d][i]) /\ n = Number(given'[d][i])
    <3>1. PICK i \in 1..arr[d] : Whole(given[d][i]) /\ n = Number(given[d][i])
      BY <2>1, <2>3 DEF ArrivedInv
    <3>2. arr[d] \in Nat /\ arr[d] <= Len(given[d]) /\ Len(given[d]) \in Nat
      BY ArrivedBlocks, GivenBlocks
    <3>3. given'[d][i] = given[d][i]
      BY <2>1, <3>2
    <3> QED
      BY <2>1, <3>1, <3>3
  <2> QED
    BY <2>2, <2>3
<1> QED
  BY <1>1, <1>2

----------------------------------------------------------------------------
(* Refinement: the bridge is a packet channel *)

LEMMA Quotient ==
    ASSUME NEW w \in Nat, w >= 1
    PROVE  /\ \A x \in Nat : (x + 1) \div w \in {x \div w, x \div w + 1}
           /\ \A x, p \in Nat : p * w <= x => p <= x \div w
           /\ 0 \div w = 0
<1>1. ASSUME NEW x \in Nat PROVE (x + 1) \div w \in {x \div w, x \div w + 1}
  <2> DEFINE d == x \div w
  <2> DEFINE e == (x + 1) \div w
  <2>1. d \in Nat /\ d * w <= x /\ x < (d + 1) * w
    OBVIOUS
  <2>2. e \in Nat /\ e * w <= x + 1 /\ x + 1 < (e + 1) * w
    OBVIOUS
  <2> HIDE DEF d, e
  <2>3. d * w < (e + 1) * w /\ e * w < (d + 2) * w
    BY <2>1, <2>2
  <2>4. d < e + 1 /\ e < d + 2
    BY <2>1, <2>2, <2>3
  <2>5. e = d \/ e = d + 1
    BY <2>1, <2>2, <2>4
  <2> QED
    BY <2>5 DEF d, e
<1>2. ASSUME NEW x \in Nat, NEW p \in Nat, p * w <= x PROVE p <= x \div w
  <2> DEFINE d == x \div w
  <2>1. d \in Nat /\ x < (d + 1) * w
    OBVIOUS
  <2> HIDE DEF d
  <2>2. p * w < (d + 1) * w
    BY <1>2, <2>1
  <2>3. p < d + 1
    BY <2>1, <2>2
  <2> QED
    BY <2>1, <2>3 DEF d
<1>3. 0 \div w = 0
  OBVIOUS
<1> QED
  BY <1>1, <1>2, <1>3

LEMMA ChannelInit == Init => Channel!Init
<1> SUFFICES ASSUME Init PROVE Channel!Init
  OBVIOUS
<1>1. sent \div Size = 0
  BY Quotient, Constants DEF Init
<1> QED
  BY <1>1, ArrivedInit DEF Channel!Init

LEMMA DeliverIsDeliver ==
    ASSUME TypeOK, TypeOK', OrderInv, ArrivedInv, NEW c \in Conns, Deliver(c)
    PROVE  [Channel!Next]_<<sent \div Size, Passed>>
<1> DEFINE k == arr[c] + 1
<1> DEFINE b == given[c][k]
<1> DEFINE p == Number(b)
<1>1. /\ k \in 1..Len(given[c]) /\ arr[c] \in Nat
      /\ ~Whole(b) => Passed' = Passed
      /\ Whole(b) => Passed' = [Passed EXCEPT ![c] = Append(@, p)]
  BY DeliverEffect
<1>2. sent' = sent
  BY DEF Deliver, lineVars
<1>3. CASE ~Whole(b)
  <2>1. Passed' = Passed /\ (sent \div Size)' = sent \div Size
    BY <1>1, <1>2, <1>3
  <2> QED
    BY <2>1
<1>4. CASE Whole(b)
  <2>1. p \in 1..(sent \div Size)
    <3>1. p \in 1..MaxPackets /\ b[Size] = p * Size
      BY <1>4, WholeNumber
    <3>2. b[Size] <= High /\ High \in 0..sent /\ sent \in Nat
      <4>1. \A i \in 1..Len(given[c]) : given[c][i][Size] <= High
        BY DEF OrderInv
      <4>2. High \in 0..sent
        BY DEF OrderInv
      <4>3. sent \in Nat
        BY Constants DEF TypeOK
      <4> QED
        BY <1>1, <4>1, <4>2, <4>3
    <3> HIDE DEF p
    <3>3. p \in Nat /\ p >= 1 /\ p * Size \in Nat
      BY <3>1, Constants
    <3>4. p * Size <= sent
      BY <3>1, <3>2, <3>3
    <3>5. p <= sent \div Size
      BY <3>2, <3>3, <3>4, Quotient, Constants
    <3>6. sent \div Size \in Int
      BY <3>2, Constants
    <3> QED
      BY <3>3, <3>5, <3>6
  <2>2. ASSUME NEW d \in Conns, NEW n \in Range(Passed[d])
        PROVE  n # p /\ (d = c => n < p)
    <3>1. PICK i \in 1..arr[d] : Whole(given[d][i]) /\ n = Number(given[d][i])
      BY <2>2 DEF ArrivedInv
    <3>2. /\ i \in 1..Len(given[d]) /\ Len(given[d]) \in Nat /\ arr[d] \in Nat
          /\ arr[d] <= Len(given[d])
      BY <3>1, ArrivedBlocks, GivenBlocks
    <3>3. d = c => i # k /\ i < k
      BY <1>1, <3>1, <3>2
    <3>4. n # p
      BY <1>1, <1>4, <3>1, <3>2, <3>3, SameNumber
    <3>5. ASSUME d = c PROVE n < p
      <4>1. given[d][i][Size] < b[Size]
        BY <1>1, <3>2, <3>3, <3>5 DEF OrderInv
      <4> QED
        BY <1>4, <3>1, <4>1, NumbersGrow
    <3> QED
      BY <3>4, <3>5
  <2>3. ASSUME NEW d \in Conns
        PROVE  \A i \in 1..Len(Passed[d]) : Passed[d][i] \in Range(Passed[d])
    <3>1. Passed[d] \in Seq(Nat)
      BY DEF ArrivedInv
    <3> QED
      BY <3>1, RangeEquality
  <2>4. \A d \in Conns : ~Channel!Contains(Passed[d], p)
    BY <2>2, <2>3 DEF Channel!Contains
  <2>5. DOMAIN Passed[c] = 1..Len(Passed[c])
    BY LenProperties DEF ArrivedInv
  <2>6. \A i \in DOMAIN Passed[c] : Passed[c][i] < p
    BY <2>2, <2>3, <2>5
  <2>7. Passed' = [Passed EXCEPT ![c] = Append(@, p)] /\ (sent \div Size)' = sent \div Size
    BY <1>1, <1>2, <1>4
  <2> HIDE DEF p
  <2>8. Channel!Deliver(c, p)
    <3> HIDE DEF Passed
    <3> QED
      BY <2>4, <2>6, <2>7, Zenon DEF Channel!Deliver
  <2> QED
    BY <2>1, <2>8 DEF Channel!Next
<1> QED
  BY <1>3, <1>4

LEMMA ChannelStep ==
    ASSUME TypeOK, Underway, TypeOK', OrderInv, ArrivedInv, [Next]_vars
    PROVE  [Channel!Next]_<<sent \div Size, Passed>>
<1>1. ASSUME NEW c \in Conns, Deliver(c) PROVE [Channel!Next]_<<sent \div Size, Passed>>
  BY <1>1, DeliverIsDeliver
<1>2. CASE \A c \in Conns : ~Deliver(c)
  <2>1. Passed' = Passed
    BY <1>2, OthersKeepPassed
  <2>2. sent' = sent \/ sent' = sent + 1
    BY DEF Next, Bridge, SendByte, LoseByte, Connect, Reopen, Read, Cut, CutDone, SendAll,
           SendFails, Break, Deliver, vars, lineVars
  <2>3. sent \in Nat
    BY Constants DEF TypeOK
  <2>4. (sent + 1) \div Size \in {sent \div Size, sent \div Size + 1}
    BY <2>3, Quotient, Constants
  <2>5. sent' \div Size = sent \div Size \/ sent' \div Size = sent \div Size + 1
    BY <2>2, <2>4
  <2> QED
    BY <2>1, <2>5 DEF Channel!Next, Channel!Send
<1> QED
  BY <1>1, <1>2

\* The bridge implements the packet channel: no packet arrives twice, over all
\* connections, and those of a connection arrive in their order.
THEOREM BridgeIsChannel == Spec => IsChannel
<1> DEFINE IInv == TypeOK /\ Underway /\ ByteInv /\ OrderInv /\ ArrivedInv
<1>1. Init => IInv
  BY TypeInit, ByteInit, OrderInit, ArrivedInit
<1>2. IInv /\ [Next]_vars => IInv'
  <2> SUFFICES ASSUME IInv, [Next]_vars PROVE IInv'
    OBVIOUS
  <2>1. TypeOK' /\ Underway'
    BY TypeStep
  <2>2. ByteInv' /\ OrderInv' /\ ArrivedInv'
    BY <2>1, ByteStep, OrderStep, ArrivedStep
  <2> QED
    BY <2>1, <2>2
<1>3. IInv /\ IInv' /\ [Next]_vars => [Channel!Next]_<<sent \div Size, Passed>>
  BY ChannelStep
<1>4. Init => Channel!Init
  BY ChannelInit
<1> HIDE DEF IInv
<1> QED
  BY <1>1, <1>2, <1>3, <1>4, PTL DEF Spec, IsChannel, Channel!Spec


=============================================================================
