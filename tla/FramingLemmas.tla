--------------------------- MODULE FramingLemmas ---------------------------
(***************************************************************************)
(* What the proofs about bytes rest on: induction on the natural numbers,  *)
(* sequences joined end to end, the bytes a number is encoded as, the      *)
(* number that bytes stand for, and where a packet ends.                   *)
(***************************************************************************)
EXTENDS PacketFrame, SequencesExt, FiniteSetTheorems, WellFoundedInduction, TLAPS

-----------------------------------------------------------------------------
(* Induction on the natural numbers, in terms of a set of them. *)

LEMMA LeastMember ==
    ASSUME NEW T \in SUBSET Nat, T # {}
    PROVE  \E n \in T : \A m \in T : n <= m
<1> DEFINE R == {ij \in Nat \X Nat : ij[1] < ij[2]}
<1>1. IsWellFoundedOn(R, Nat)
  BY NatLessThanWellFounded DEF OpToRel
<1>2. \A x, y \in Nat : <<y, x>> \in R <=> y < x
  OBVIOUS
<1> HIDE DEF R
<1>3. PICK n \in T : \A y \in T : ~(<<y, n>> \in R)
  BY <1>1, WFMin
<1>4. \A m \in T : n <= m
  <2> TAKE m \in T
  <2>1. ~(m < n)
    BY <1>2, <1>3
  <2> QED
    BY <2>1
<1> QED
  BY <1>4

LEMMA Induction ==
    ASSUME NEW S, 0 \in S, \A n \in Nat : n \in S => n + 1 \in S
    PROVE  \A n \in Nat : n \in S
<1> DEFINE T == {n \in Nat : n \notin S}
<1>1. CASE T = {}
  BY <1>1
<1>2. CASE T # {}
  <2>1. PICK n \in T : \A m \in T : n <= m
    BY <1>2, LeastMember
  <2>2. n \in Nat /\ n # 0 /\ n \notin S
    OBVIOUS
  <2>3. n - 1 \in Nat /\ n - 1 \in S
    BY <2>1, <2>2
  <2>4. (n - 1) + 1 \in S
    BY <2>3
  <2> QED
    BY <2>2, <2>4
<1> QED
  BY <1>1, <1>2

-----------------------------------------------------------------------------
(* Sequences joined end to end. *)

\* What FlattenSeq builds, the first i sequences joined in entry i.
Joins(before, seqs, i) == IF i = 1 THEN seqs[i] ELSE before \o seqs[i]
IsJoined(joined, seqs, n) == joined = [i \in 1..n |-> Joins(joined[i - 1], seqs, i)]

LEMMA JoinedEntry ==
    ASSUME NEW f, NEW seqs, NEW n, IsJoined(f, seqs, n), NEW i \in 1..n
    PROVE  f[i] = Joins(f[i - 1], seqs, i)
  BY DEF IsJoined

LEMMA FlattenIsJoined ==
    ASSUME NEW seqs, Len(seqs) # 0
    PROVE  FlattenSeq(seqs) = (CHOOSE f : IsJoined(f, seqs, Len(seqs)))[Len(seqs)]
  BY DEF FlattenSeq, IsJoined, Joins

\* Functions built from the same sequences agree where both are defined.
LEMMA JoinedAgree ==
    ASSUME NEW f, NEW g, NEW seqs, NEW others, NEW n \in Nat, NEW k \in Nat, n <= k,
           IsJoined(f, seqs, n), IsJoined(g, others, k),
           \A i \in 1..n : seqs[i] = others[i]
    PROVE  \A i \in 1..n : f[i] = g[i]
<1> DEFINE S == {m \in Nat : m \in 1..n => f[m] = g[m]}
<1>1. 0 \in S
  OBVIOUS
<1>2. ASSUME NEW m \in Nat, m \in S PROVE m + 1 \in S
  <2> SUFFICES ASSUME m + 1 \in 1..n PROVE f[m + 1] = g[m + 1]
    OBVIOUS
  <2> DEFINE i == m + 1
  <2>1. i \in 1..n /\ i \in 1..k /\ i - 1 = m /\ seqs[i] = others[i]
    OBVIOUS
  <2>2. i = 1 \/ f[i - 1] = g[i - 1]
    BY <1>2, <2>1
  <2> HIDE DEF i
  <2>3. f[i] = Joins(f[i - 1], seqs, i) /\ g[i] = Joins(g[i - 1], others, i)
    BY <2>1, JoinedEntry
  <2>4. Joins(f[i - 1], seqs, i) = Joins(g[i - 1], others, i)
    BY <2>1, <2>2 DEF Joins
  <2> QED
    BY <2>3, <2>4 DEF i
<1>3. \A m \in Nat : m \in S
  <2> HIDE DEF S
  <2> QED
    BY <1>1, <1>2, Induction
<1> QED
  BY <1>3

LEMMA JoinedExists ==
    ASSUME NEW seqs, NEW n \in Nat
    PROVE  \E f : IsJoined(f, seqs, n)
<1> DEFINE S == {m \in Nat : \E f : IsJoined(f, seqs, m)}
<1>1. 0 \in S
  <2>1. IsJoined([i \in 1..0 |-> i], seqs, 0)
    BY DEF IsJoined
  <2> QED
    BY <2>1
<1>2. ASSUME NEW m \in Nat, m \in S PROVE m + 1 \in S
  <2>1. PICK f : IsJoined(f, seqs, m)
    BY <1>2
  <2> DEFINE g == [i \in 1..(m + 1) |-> IF i <= m THEN f[i] ELSE Joins(f[i - 1], seqs, i)]
  <2>2. \A i \in 1..(m + 1) : g[i] = IF i <= m THEN f[i] ELSE Joins(f[i - 1], seqs, i)
    OBVIOUS
  <2>3. g = [i \in 1..(m + 1) |-> g[i]]
    OBVIOUS
  <2> HIDE DEF g
  <2>4. \A i \in 1..(m + 1) : g[i] = Joins(f[i - 1], seqs, i)
    BY <2>1, <2>2, JoinedEntry
  <2>5. \A i \in 1..(m + 1) : i = 1 \/ g[i - 1] = f[i - 1]
    BY <2>2
  <2>6. \A i \in 1..(m + 1) : Joins(f[i - 1], seqs, i) = Joins(g[i - 1], seqs, i)
    BY <2>5 DEF Joins
  <2>7. IsJoined(g, seqs, m + 1)
    BY <2>3, <2>4, <2>6 DEF IsJoined
  <2> QED
    BY <2>7
<1>3. \A m \in Nat : m \in S
  <2> HIDE DEF S
  <2> QED
    BY <1>1, <1>2, Induction
<1> QED
  BY <1>3

\* FlattenSeq is the last entry of any such function.
LEMMA FlattenIsLast ==
    ASSUME NEW seqs, Len(seqs) \in Nat \ {0}, NEW f, IsJoined(f, seqs, Len(seqs))
    PROVE  FlattenSeq(seqs) = f[Len(seqs)]
<1> DEFINE chosen == CHOOSE g : IsJoined(g, seqs, Len(seqs))
<1>1. IsJoined(chosen, seqs, Len(seqs))
  BY JoinedExists
<1>2. FlattenSeq(seqs) = chosen[Len(seqs)]
  BY FlattenIsJoined
<1> HIDE DEF chosen
<1>3. \A i \in 1..Len(seqs) : f[i] = chosen[i]
  BY <1>1, JoinedAgree
<1> QED
  BY <1>2, <1>3

LEMMA FlattenNothing == FlattenSeq(<<>>) = <<>>
  BY DEF FlattenSeq

LEMMA FlattenOne ==
    ASSUME NEW seq
    PROVE  FlattenSeq(<<seq>>) = seq
<1>1. PICK seqs : seqs = <<seq>>
  OBVIOUS
<1>2. Len(seqs) = 1 /\ seqs[1] = seq
  BY <1>1
<1>3. PICK f : IsJoined(f, seqs, 1)
  BY JoinedExists
<1>4. f[1] = Joins(f[1 - 1], seqs, 1)
  BY <1>3, JoinedEntry
<1>5. f[1] = seq
  BY <1>2, <1>4 DEF Joins
<1>6. FlattenSeq(seqs) = f[1]
  <2>1. Len(seqs) \in Nat \ {0} /\ IsJoined(f, seqs, Len(seqs))
    BY <1>2, <1>3
  <2>2. FlattenSeq(seqs) = f[Len(seqs)]
    BY <2>1, FlattenIsLast
  <2> QED
    BY <1>2, <2>2
<1> QED
  BY <1>1, <1>5, <1>6

\* Joining one sequence more appends its elements.
LEMMA FlattenAppend ==
    ASSUME NEW E, NEW seqs \in Seq(Seq(E)), NEW seq \in Seq(E)
    PROVE  FlattenSeq(Append(seqs, seq)) = FlattenSeq(seqs) \o seq
<1>1. PICK n : n = Len(seqs)
  OBVIOUS
<1>2. PICK longer : longer = Append(seqs, seq)
  OBVIOUS
<1>3. /\ n \in Nat /\ n + 1 \in Nat /\ Len(longer) = n + 1 /\ longer[n + 1] = seq
      /\ \A i \in 1..n : seqs[i] = longer[i]
  BY <1>1, <1>2
<1>4. CASE n = 0
  <2>1. seqs = <<>>
    <3>1. Len(seqs) = 0
      BY <1>1, <1>4
    <3> QED
      BY <3>1
  <2>2. longer = <<seq>>
    BY <1>2, <2>1
  <2>3. <<>> \o seq = seq
    OBVIOUS
  <2> QED
    BY <1>2, <2>1, <2>2, <2>3, FlattenNothing, FlattenOne
<1>5. CASE n # 0
  <2>1. PICK f : IsJoined(f, seqs, n)
    BY <1>3, JoinedExists
  <2>2. PICK g : IsJoined(g, longer, n + 1)
    BY <1>3, JoinedExists
  <2>3. PICK k : k = n + 1
    OBVIOUS
  <2>4. \A i \in 1..n : f[i] = g[i]
    <3>1. k \in Nat /\ n <= k /\ IsJoined(g, longer, k)
      BY <1>3, <2>2, <2>3
    <3> QED
      BY <1>3, <2>1, <3>1, JoinedAgree
  <2>5. f[n] = g[n]
    BY <1>3, <1>5, <2>4
  <2>6. n + 1 \in 1..(n + 1) /\ (n + 1) - 1 = n /\ n + 1 # 1
    BY <1>3, <1>5
  <2>7. g[n + 1] = Joins(g[n], longer, n + 1)
    BY <2>2, <2>6, JoinedEntry
  <2>8. g[n + 1] = g[n] \o seq
    BY <1>3, <2>6, <2>7 DEF Joins
  <2>9. FlattenSeq(seqs) = f[n]
    BY <1>1, <1>3, <1>5, <2>1, FlattenIsLast
  <2>10. FlattenSeq(longer) = g[n + 1]
    BY <1>3, <2>2, <2>6, FlattenIsLast
  <2> QED
    BY <1>2, <2>5, <2>8, <2>9, <2>10
<1> QED
  BY <1>4, <1>5

LEMMA FlattenType ==
    ASSUME NEW E, NEW seqs \in Seq(Seq(E))
    PROVE  FlattenSeq(seqs) \in Seq(E)
<1> DEFINE n == Len(seqs)
<1>1. CASE n = 0
  <2>1. seqs = <<>>
    BY <1>1
  <2>2. <<>> \in Seq(E)
    OBVIOUS
  <2> QED
    BY <2>1, <2>2, FlattenNothing
<1>2. CASE n # 0
  <2>1. n \in Nat
    OBVIOUS
  <2>2. PICK f : IsJoined(f, seqs, n)
    BY <2>1, JoinedExists
  <2> DEFINE S == {m \in Nat : m \in 1..n => f[m] \in Seq(E)}
  <2>3. 0 \in S
    OBVIOUS
  <2>4. ASSUME NEW m \in Nat, m \in S PROVE m + 1 \in S
    <3> SUFFICES ASSUME m + 1 \in 1..n PROVE f[m + 1] \in Seq(E)
      OBVIOUS
    <3>1. m + 1 \in 1..n /\ (m + 1) - 1 = m
      BY <2>4
    <3>2. f[m + 1] = Joins(f[m], seqs, m + 1)
      BY <2>2, <3>1, JoinedEntry
    <3>3. seqs[m + 1] \in Seq(E)
      OBVIOUS
    <3>4. CASE m = 0
      BY <3>2, <3>3, <3>4 DEF Joins
    <3>5. CASE m # 0
      <4>1. f[m] \in Seq(E)
        BY <2>4, <3>5
      <4>2. f[m] \o seqs[m + 1] \in Seq(E)
        BY <3>3, <4>1
      <4> QED
        BY <3>2, <3>5, <4>2 DEF Joins
    <3> QED
      BY <3>4, <3>5
  <2>5. \A m \in Nat : m \in S
    <3> HIDE DEF S
    <3> QED
      BY <2>3, <2>4, Induction
  <2>6. f[n] \in Seq(E)
    BY <1>2, <2>1, <2>5
  <2> QED
    BY <1>2, <2>1, <2>2, <2>6, FlattenIsLast
<1> QED
  BY <1>1, <1>2

-----------------------------------------------------------------------------
(* The number in a header. *)

\* What Accumulated builds: the multipliers of the turns, and the sum after each turn.
IsMultiplier(f, n) == f = [m \in 1..n |-> IF m = 1 THEN 1 ELSE f[m - 1] * Radix]

SumAfter(before, multiplier, bytes, offset, m) ==
    IF m = 0 THEN 0 ELSE before + Digit(bytes[offset + m]) * multiplier[m]
IsSum(f, multiplier, bytes, offset, n) ==
    f = [m \in 0..n |-> SumAfter(f[m - 1], multiplier, bytes, offset, m)]

TheMultiplier(n) == CHOOSE f : IsMultiplier(f, n)
TheSum(bytes, offset, n) == CHOOSE f : IsSum(f, TheMultiplier(n), bytes, offset, n)

LEMMA AccumulatedIsSum ==
    ASSUME NEW bytes, NEW offset, NEW n
    PROVE  Accumulated(bytes, offset, n) = TheSum(bytes, offset, n)[n]
  BY DEF Accumulated, TheSum, TheMultiplier, IsSum, IsMultiplier, SumAfter

LEMMA MultiplierEntry ==
    ASSUME NEW f, NEW n, IsMultiplier(f, n), NEW m \in 1..n
    PROVE  f[m] = IF m = 1 THEN 1 ELSE f[m - 1] * Radix
  BY DEF IsMultiplier

LEMMA SumEntry ==
    ASSUME NEW f, NEW multiplier, NEW bytes, NEW offset, NEW n,
           IsSum(f, multiplier, bytes, offset, n), NEW m \in 0..n
    PROVE  f[m] = SumAfter(f[m - 1], multiplier, bytes, offset, m)
  BY DEF IsSum

LEMMA MultiplierExists ==
    ASSUME NEW n \in Nat
    PROVE  \E f : IsMultiplier(f, n)
<1> DEFINE S == {k \in Nat : \E f : IsMultiplier(f, k)}
<1>1. 0 \in S
  <2>1. IsMultiplier([i \in 1..0 |-> i], 0)
    BY DEF IsMultiplier
  <2> QED
    BY <2>1
<1>2. ASSUME NEW k \in Nat, k \in S PROVE k + 1 \in S
  <2>1. PICK f : IsMultiplier(f, k)
    BY <1>2
  <2> DEFINE g == [m \in 1..(k + 1) |->
                     IF m <= k THEN f[m] ELSE IF m = 1 THEN 1 ELSE f[m - 1] * Radix]
  <2>2. \A m \in 1..(k + 1) :
          g[m] = IF m <= k THEN f[m] ELSE IF m = 1 THEN 1 ELSE f[m - 1] * Radix
    OBVIOUS
  <2>3. g = [m \in 1..(k + 1) |-> g[m]]
    OBVIOUS
  <2> HIDE DEF g
  <2>4. \A m \in 1..(k + 1) : g[m] = IF m = 1 THEN 1 ELSE f[m - 1] * Radix
    BY <2>1, <2>2, MultiplierEntry
  <2>5. \A m \in 1..(k + 1) : m = 1 \/ g[m - 1] = f[m - 1]
    BY <2>2
  <2>6. \A m \in 1..(k + 1) : g[m] = IF m = 1 THEN 1 ELSE g[m - 1] * Radix
    BY <2>4, <2>5
  <2>7. IsMultiplier(g, k + 1)
    BY <2>3, <2>6 DEF IsMultiplier
  <2> QED
    BY <2>7
<1>3. \A k \in Nat : k \in S
  <2> HIDE DEF S
  <2> QED
    BY <1>1, <1>2, Induction
<1> QED
  BY <1>3

LEMMA SumExists ==
    ASSUME NEW multiplier, NEW bytes, NEW offset, NEW n \in Nat
    PROVE  \E f : IsSum(f, multiplier, bytes, offset, n)
<1> DEFINE S == {k \in Nat : \E f : IsSum(f, multiplier, bytes, offset, k)}
           After(before, m) == SumAfter(before, multiplier, bytes, offset, m)
<1>1. 0 \in S
  <2>1. PICK f : f = [m \in 0..0 |-> 0]
    OBVIOUS
  <2>2. \A m \in 0..0 : 0 = After(f[m - 1], m)
    BY DEF SumAfter
  <2>3. f = [m \in 0..0 |-> After(f[m - 1], m)]
    BY <2>1, <2>2
  <2>4. IsSum(f, multiplier, bytes, offset, 0)
    BY <2>3 DEF IsSum
  <2> QED
    BY <2>4
<1>2. ASSUME NEW k \in Nat, k \in S PROVE k + 1 \in S
  <2>1. PICK f : IsSum(f, multiplier, bytes, offset, k)
    BY <1>2
  <2> DEFINE g == [m \in 0..(k + 1) |-> IF m <= k THEN f[m] ELSE After(f[m - 1], m)]
  <2>2. \A m \in 0..(k + 1) : g[m] = IF m <= k THEN f[m] ELSE After(f[m - 1], m)
    OBVIOUS
  <2>3. g = [m \in 0..(k + 1) |-> g[m]]
    OBVIOUS
  <2> HIDE DEF g
  <2>4. \A m \in 0..(k + 1) : g[m] = After(f[m - 1], m)
    BY <2>1, <2>2, SumEntry
  <2>5. \A m \in 0..(k + 1) : m = 0 \/ g[m - 1] = f[m - 1]
    BY <2>2
  <2>6. \A m \in 0..(k + 1) : After(f[m - 1], m) = After(g[m - 1], m)
    BY <2>5 DEF SumAfter
  <2>7. g = [m \in 0..(k + 1) |-> After(g[m - 1], m)]
    <3>1. \A m \in 0..(k + 1) : g[m] = After(g[m - 1], m)
      BY <2>4, <2>6
    <3> HIDE DEF After
    <3> QED
      BY <2>3, <3>1
  <2>8. IsSum(g, multiplier, bytes, offset, k + 1)
    BY <2>7 DEF IsSum
  <2> QED
    BY <2>8
<1>3. \A k \in Nat : k \in S
  <2> HIDE DEF S
  <2> QED
    BY <1>1, <1>2, Induction
<1> QED
  BY <1>3

LEMMA MultiplierType ==
    ASSUME NEW n \in Nat, NEW f, IsMultiplier(f, n)
    PROVE  \A m \in 1..n : f[m] \in Nat
<1> DEFINE S == {k \in Nat : k \in 1..n => f[k] \in Nat}
<1>1. 0 \in S
  OBVIOUS
<1>2. ASSUME NEW k \in Nat, k \in S PROVE k + 1 \in S
  <2> SUFFICES ASSUME k + 1 \in 1..n PROVE f[k + 1] \in Nat
    OBVIOUS
  <2>1. f[k + 1] = IF k + 1 = 1 THEN 1 ELSE f[(k + 1) - 1] * Radix
    BY MultiplierEntry
  <2>2. CASE k = 0
    BY <2>1, <2>2
  <2>3. CASE k # 0
    <3>1. f[k] \in Nat /\ Radix \in Nat
      BY <1>2, <2>3, VarintAssumption
    <3>2. f[k + 1] = f[k] * Radix
      BY <2>1, <2>3
    <3> QED
      BY <3>1, <3>2
  <2> QED
    BY <2>2, <2>3
<1>3. \A k \in Nat : k \in S
  <2> HIDE DEF S
  <2> QED
    BY <1>1, <1>2, Induction
<1> QED
  BY <1>3

LEMMA DigitType ==
    ASSUME NEW byte \in Bytes
    PROVE  Digit(byte) \in Nat
  BY VarintAssumption DEF Bytes, Digit

LEMMA AccumulatedType ==
    ASSUME NEW bytes \in Seq(Bytes), NEW offset \in Nat, NEW n \in Nat,
           offset + n <= Len(bytes)
    PROVE  Accumulated(bytes, offset, n) \in Nat
<1>1. PICK multiplier : multiplier = TheMultiplier(n)
  OBVIOUS
<1>2. PICK f : f = TheSum(bytes, offset, n)
  OBVIOUS
<1>3. IsMultiplier(multiplier, n)
  BY <1>1, MultiplierExists DEF TheMultiplier
<1>4. IsSum(f, multiplier, bytes, offset, n)
  BY <1>1, <1>2, SumExists DEF TheSum
<1> DEFINE S == {k \in Nat : k \in 0..n => f[k] \in Nat}
<1>5. 0 \in S
  <2>1. f[0] = SumAfter(f[0 - 1], multiplier, bytes, offset, 0)
    BY <1>4, SumEntry
  <2> QED
    BY <2>1 DEF SumAfter
<1>6. ASSUME NEW k \in Nat, k \in S PROVE k + 1 \in S
  <2> SUFFICES ASSUME k + 1 \in 0..n PROVE f[k + 1] \in Nat
    OBVIOUS
  <2>1. f[k + 1] = SumAfter(f[(k + 1) - 1], multiplier, bytes, offset, k + 1)
    BY <1>4, SumEntry
  <2>2. (k + 1) - 1 = k /\ k + 1 # 0 /\ k + 1 \in 1..n /\ f[k] \in Nat
    BY <1>6
  <2>3. f[k + 1] = f[k] + Digit(bytes[offset + (k + 1)]) * multiplier[k + 1]
    BY <2>1, <2>2 DEF SumAfter
  <2>4. multiplier[k + 1] \in Nat
    BY <1>3, <2>2, MultiplierType
  <2>5. bytes[offset + (k + 1)] \in Bytes
    BY <2>2
  <2>6. Digit(bytes[offset + (k + 1)]) \in Nat
    BY <2>5, DigitType
  <2> QED
    BY <2>2, <2>3, <2>4, <2>6
<1>7. \A k \in Nat : k \in S
  <2> HIDE DEF S
  <2> QED
    BY <1>5, <1>6, Induction
<1>8. f[n] \in Nat
  BY <1>7
<1> QED
  BY <1>2, <1>8, AccumulatedIsSum

\* A decoded length is a number, and its bytes are in the buffer.
LEMMA DecodeType ==
    ASSUME NEW bytes \in Seq(Bytes), NEW offset \in Nat,
           DecodeVariableByteInteger(bytes, offset).status = "ok"
    PROVE  LET length == DecodeVariableByteInteger(bytes, offset)
           IN length.value \in Nat /\ length.bytesRead \in 1..MaxVarintLength
<1> DEFINE Ends(n) == EndsAt(bytes, offset, n)
<1>1. CASE \E n \in 1..MaxVarintLength : Ends(n)
  <2>1. PICK n : n = CHOOSE k \in 1..MaxVarintLength : Ends(k)
    OBVIOUS
  <2>2. n \in 1..MaxVarintLength /\ Ends(n)
    BY <1>1, <2>1
  <2>3. DecodeVariableByteInteger(bytes, offset)
          = [status |-> "ok", value |-> Accumulated(bytes, offset, n), bytesRead |-> n]
    BY <1>1, <2>1 DEF DecodeVariableByteInteger
  <2>4. n \in Nat /\ offset + n <= Len(bytes)
    BY <2>2, VarintAssumption DEF EndsAt
  <2>5. Accumulated(bytes, offset, n) \in Nat
    BY <2>4, AccumulatedType
  <2> QED
    BY <2>2, <2>3, <2>5
<1>2. CASE ~\E n \in 1..MaxVarintLength : Ends(n)
  BY <1>2 DEF DecodeVariableByteInteger
<1> QED
  BY <1>1, <1>2

\* A packet that is read takes at least two bytes, all of them in the buffer.
LEMMA FrameInBuffer ==
    ASSUME NEW bytes \in Seq(Bytes), NEW offset \in Nat, offset < Len(bytes)
    PROVE  LET frame == ReadPacketFrame(bytes, offset)
           IN \/ frame \in {Incomplete, Invalid}
              \/ /\ frame.status = "complete"
                 /\ frame.bytesConsumed \in Nat \ {0}
                 /\ offset + frame.bytesConsumed <= Len(bytes)
<1>1. PICK length : length = DecodeVariableByteInteger(bytes, offset + 1)
  OBVIOUS
<1>2. length.status = "ok" => length.value \in Nat /\ length.bytesRead \in 1..MaxVarintLength
  BY <1>1, DecodeType
<1>3. PICK total : total = 1 + length.bytesRead + length.value
  OBVIOUS
<1>4. length.status = "ok" => total \in Nat \ {0}
  BY <1>2, <1>3, VarintAssumption
<1>5. PICK frame : frame = ReadPacketFrame(bytes, offset)
  OBVIOUS
<1>6. \/ frame \in {Incomplete, Invalid}
      \/ /\ length.status = "ok" /\ ~(offset + total > Len(bytes))
         /\ frame = [status |-> "complete", bytesConsumed |-> total]
  BY <1>1, <1>3, <1>5 DEF ReadPacketFrame
<1>7. CASE frame \in {Incomplete, Invalid}
  BY <1>5, <1>7
<1>8. CASE /\ length.status = "ok" /\ ~(offset + total > Len(bytes))
           /\ frame = [status |-> "complete", bytesConsumed |-> total]
  <2>1. total \in Nat \ {0} /\ offset + total <= Len(bytes)
    BY <1>4, <1>8
  <2>2. frame.status = "complete" /\ frame.bytesConsumed = total
    BY <1>8
  <2> QED
    BY <1>5, <2>1, <2>2
<1> QED
  BY <1>6, <1>7, <1>8

\* Sequences of as many equal elements are equal.
LEMMA SameElements ==
    ASSUME NEW E, NEW s \in Seq(E), NEW t \in Seq(E), Len(s) = Len(t),
           \A i \in 1..Len(s) : s[i] = t[i]
    PROVE  s = t
<1>1. s = [i \in 1..Len(s) |-> s[i]] /\ t = [i \in 1..Len(t) |-> t[i]]
  OBVIOUS
<1> QED
  BY <1>1

LEMMA NothingAppended ==
    ASSUME NEW E, NEW s \in Seq(E)
    PROVE  s \o <<>> = s
OBVIOUS

-----------------------------------------------------------------------------
(* Functions defined by recursion on numbers. *)

Steps(next, n, Y) == next \in [1..n -> [Y -> Y]]
Recursion(f, base, next, n, Y) ==
    f \in [0..n -> Y] /\ f[0] = base /\ \A m \in 1..n : f[m] = next[m][f[m - 1]]

LEMMA RecursionExists ==
    ASSUME NEW Y, NEW base \in Y, NEW n \in Nat, NEW next, Steps(next, n, Y)
    PROVE  \E f : Recursion(f, base, next, n, Y)
<1> DEFINE Good(k) == k <= n => \E f \in [0..k -> Y] :
                         f[0] = base /\ \A m \in 1..k : f[m] = next[m][f[m - 1]]
           S == {k \in Nat : Good(k)}
<1>1. 0 \in S
  <2>1. PICK f : f = [m \in 0..0 |-> base]
    OBVIOUS
  <2>2. f \in [0..0 -> Y] /\ f[0] = base /\ \A m \in 1..0 : f[m] = next[m][f[m - 1]]
    BY <2>1
  <2> QED
    BY <2>2
<1>2. ASSUME NEW k \in Nat, k \in S PROVE k + 1 \in S
  <2>1. CASE k + 1 <= n
    <3>1. PICK f \in [0..k -> Y] : f[0] = base /\ \A m \in 1..k : f[m] = next[m][f[m - 1]]
      BY <1>2, <2>1
    <3>2. PICK last : last = next[k + 1][f[k]]
      OBVIOUS
    <3>3. last \in Y
      <4>1. k + 1 \in 1..n /\ f[k] \in Y
        BY <1>2, <2>1, <3>1
      <4>2. next[k + 1] \in [Y -> Y]
        BY <4>1 DEF Steps
      <4> QED
        BY <3>2, <4>1, <4>2
    <3>4. PICK g : g = [m \in 0..(k + 1) |-> IF m = k + 1 THEN last ELSE f[m]]
      OBVIOUS
    <3>5. g \in [0..(k + 1) -> Y]
      BY <3>1, <3>3, <3>4
    <3>6. g[0] = base
      BY <3>1, <3>4
    <3>7. ASSUME NEW m \in 1..(k + 1) PROVE g[m] = next[m][g[m - 1]]
      BY <3>1, <3>2, <3>4, <3>7
    <3> QED
      BY <3>5, <3>6, <3>7
  <2>2. CASE ~(k + 1 <= n)
    BY <2>2
  <2> QED
    BY <2>1, <2>2
<1> HIDE DEF S
<1>3. \A k \in Nat : k \in S
  BY <1>1, <1>2, Induction
<1> QED
  BY <1>3 DEF S, Recursion

-----------------------------------------------------------------------------
(* Powers of the radix. *)

IsPower(f, n) == f = [m \in 0..n |-> IF m = 0 THEN 1 ELSE f[m - 1] * Radix]

LEMMA PowerIsLast ==
    ASSUME NEW n
    PROVE  Power(n) = (CHOOSE f : IsPower(f, n))[n]
BY DEF Power, IsPower

LEMMA PowerExists ==
    ASSUME NEW n \in Nat
    PROVE  \E f \in [0..n -> Nat] : IsPower(f, n)
<1>1. PICK next : next = [m \in 1..n |-> [y \in Nat |-> y * Radix]]
  OBVIOUS
<1>2. Steps(next, n, Nat) /\ 1 \in Nat
  BY <1>1, VarintAssumption DEF Steps
<1>3. PICK f : Recursion(f, 1, next, n, Nat)
  BY <1>2, RecursionExists
<1>4. ASSUME NEW m \in 0..n PROVE f[m] = IF m = 0 THEN 1 ELSE f[m - 1] * Radix
  <2>1. CASE m = 0
    BY <1>3, <2>1 DEF Recursion
  <2>2. CASE m # 0
    <3>1. m \in 1..n /\ f[m - 1] \in Nat
      BY <1>3, <2>2 DEF Recursion
    <3> QED
      BY <1>1, <1>3, <2>2, <3>1 DEF Recursion
  <2> QED
    BY <2>1, <2>2
<1> QED
  BY <1>3, <1>4 DEF IsPower, Recursion

LEMMA PowerEntry ==
    ASSUME NEW f, NEW n, IsPower(f, n), NEW m \in 0..n
    PROVE  f[m] = IF m = 0 THEN 1 ELSE f[m - 1] * Radix
BY DEF IsPower

LEMMA PowersAgree ==
    ASSUME NEW n \in Nat, NEW k \in Nat, n <= k, NEW f, NEW g, IsPower(f, n), IsPower(g, k)
    PROVE  f[n] = g[n]
<1> DEFINE S == {m \in Nat : m <= n => f[m] = g[m]}
<1>1. 0 \in S
  <2>1. 0 \in 0..n /\ 0 \in 0..k
    OBVIOUS
  <2> QED
    BY <2>1, PowerEntry
<1>2. ASSUME NEW m \in Nat, m \in S PROVE m + 1 \in S
  <2>1. CASE m + 1 <= n
    <3>1. m + 1 \in 0..n /\ m + 1 \in 0..k /\ m + 1 # 0 /\ (m + 1) - 1 = m
      BY <2>1
    <3>2. f[m + 1] = f[m] * Radix /\ g[m + 1] = g[m] * Radix
      BY <3>1, PowerEntry
    <3> QED
      BY <1>2, <2>1, <3>2
  <2>2. CASE ~(m + 1 <= n)
    BY <2>2
  <2> QED
    BY <2>1, <2>2
<1> HIDE DEF S
<1>3. \A m \in Nat : m \in S
  BY <1>1, <1>2, Induction
<1> QED
  BY <1>3 DEF S

LEMMA PowerOf ==
    ASSUME NEW n \in Nat, NEW k \in Nat, n <= k, NEW f, IsPower(f, k)
    PROVE  Power(n) = f[n]
<1>1. IsPower(CHOOSE g : IsPower(g, n), n)
  BY PowerExists
<1> QED
  BY <1>1, PowersAgree, PowerIsLast

LEMMA PowerNext ==
    ASSUME NEW n \in Nat
    PROVE  Power(n) \in Nat /\ Power(n + 1) = Power(n) * Radix /\ Power(0) = 1
<1>1. PICK f \in [0..(n + 1) -> Nat] : IsPower(f, n + 1)
  <2>1. n + 1 \in Nat
    OBVIOUS
  <2> QED
    BY <2>1, PowerExists
<1>2. Power(n) = f[n] /\ Power(n + 1) = f[n + 1] /\ Power(0) = f[0]
  BY <1>1, PowerOf
<1>3. f[n + 1] = f[n] * Radix
  <2>1. n + 1 \in 0..(n + 1) /\ n + 1 # 0 /\ (n + 1) - 1 = n
    OBVIOUS
  <2> QED
    BY <1>1, <2>1, PowerEntry
<1>4. f[0] = 1
  <2>1. 0 \in 0..(n + 1)
    OBVIOUS
  <2> QED
    BY <1>1, <2>1, PowerEntry
<1>5. f[n] \in Nat
  OBVIOUS
<1> QED
  BY <1>2, <1>3, <1>4, <1>5

\* More digits write more numbers.
LEMMA PowerGrows ==
    ASSUME NEW n \in Nat, NEW k \in Nat, n <= k
    PROVE  Power(n) <= Power(k) /\ Power(n) >= 1
<1> DEFINE S == {m \in Nat : Power(m) >= 1 /\ Power(n) <= Power(n + m)}
<1>1. ASSUME NEW p \in Nat, p >= 1 PROVE p <= p * Radix /\ p * Radix >= 1 /\ p * Radix \in Nat
  <2>1. PICK others \in Nat : Radix = others + 1
    <3>1. Radix - 1 \in Nat /\ Radix = (Radix - 1) + 1
      BY VarintAssumption
    <3> QED
      BY <3>1
  <2>2. p * Radix = p * others + p /\ p * others \in Nat
    BY <1>1, <2>1
  <2> QED
    BY <1>1, <2>2
<1>2. 0 \in S
  <2>1. Power(0) = 1 /\ Power(n + 0) = Power(n) /\ Power(n) \in Nat
    BY PowerNext
  <2> QED
    BY <2>1
<1>3. ASSUME NEW m \in Nat, m \in S PROVE m + 1 \in S
  <2>1. Power(m) \in Nat /\ Power(m + 1) = Power(m) * Radix /\ Power(m) >= 1
    BY <1>3, PowerNext
  <2>2. n + m \in Nat /\ n + (m + 1) = (n + m) + 1
    OBVIOUS
  <2>3. Power(n + m) \in Nat /\ Power(n + (m + 1)) = Power(n + m) * Radix
    BY <2>2, PowerNext
  <2>4. Power(n) \in Nat /\ Power(n) <= Power(n + m)
    BY <1>3, PowerNext
  <2>5. Power(m + 1) >= 1
    BY <1>1, <2>1
  <2>6. CASE Power(n + m) >= 1
    <3>1. Power(n + m) <= Power(n + (m + 1)) /\ Power(n + (m + 1)) \in Nat
      BY <1>1, <2>3, <2>6
    <3> QED
      BY <2>3, <2>4, <2>5, <3>1
  <2>7. CASE ~(Power(n + m) >= 1)
    <3>1. Power(n + m) = 0
      BY <2>3, <2>7
    <3>2. Power(n + (m + 1)) = 0
      BY <2>3, <3>1, VarintAssumption
    <3> QED
      BY <2>4, <2>5, <3>1, <3>2
  <2> QED
    BY <2>6, <2>7
<1> HIDE DEF S
<1>4. \A m \in Nat : m \in S
  BY <1>2, <1>3, Induction
<1>5. n \in S /\ k - n \in S /\ n + (k - n) = k
  BY <1>4
<1> QED
  BY <1>5 DEF S

-----------------------------------------------------------------------------
(* The digits of a number. *)

IsQuotients(x, value) ==
    x = [n \in 1..MaxVarintLength |-> IF n = 1 THEN value ELSE x[n - 1] \div Radix]
Quotients(value) == CHOOSE x : IsQuotients(x, value)

LEMMA Dividing ==
    ASSUME NEW q \in Nat
    PROVE  /\ q \div Radix \in Nat /\ q % Radix \in Nat /\ q % Radix < Radix
           /\ q = (q % Radix) + Radix * (q \div Radix)
BY VarintAssumption

LEMMA QuotientsExist ==
    ASSUME NEW value \in Nat
    PROVE  \E x : IsQuotients(x, value)
<1>1. PICK max \in Nat \ {0} : max = MaxVarintLength
  BY VarintAssumption
<1>2. PICK next : next = [m \in 1..(max - 1) |-> [y \in Nat |-> y \div Radix]]
  OBVIOUS
<1>3. Steps(next, max - 1, Nat) /\ max - 1 \in Nat
  <2>1. \A y \in Nat : y \div Radix \in Nat
    BY Dividing
  <2>2. [y \in Nat |-> y \div Radix] \in [Nat -> Nat]
    BY <2>1
  <2> QED
    BY <1>1, <1>2, <2>2 DEF Steps
<1>4. PICK f : Recursion(f, value, next, max - 1, Nat)
  BY <1>3, RecursionExists
<1>5. PICK x : x = [n \in 1..max |-> f[n - 1]]
  OBVIOUS
<1>6. ASSUME NEW n \in 1..max PROVE x[n] = IF n = 1 THEN value ELSE x[n - 1] \div Radix
  <2>1. CASE n = 1
    BY <1>1, <1>4, <1>5, <2>1 DEF Recursion
  <2>2. CASE n # 1
    <3>1. PICK m : m = n - 1
      OBVIOUS
    <3>2. m \in 1..(max - 1) /\ m \in 1..max /\ m - 1 \in 0..(max - 1) /\ m \in 0..(max - 1)
      BY <1>1, <2>2, <3>1
    <3>3. f[m] = next[m][f[m - 1]] /\ f[m - 1] \in Nat
      BY <1>4, <3>2 DEF Recursion
    <3>4. f[m] = f[m - 1] \div Radix
      BY <1>2, <3>2, <3>3
    <3>5. x[m] = f[m - 1] /\ x[n] = f[m]
      BY <1>5, <3>1, <3>2
    <3> QED
      BY <2>2, <3>1, <3>4, <3>5
  <2> QED
    BY <2>1, <2>2
<1>7. x = [n \in 1..max |-> IF n = 1 THEN value ELSE x[n - 1] \div Radix]
  BY <1>5, <1>6
<1> QED
  BY <1>1, <1>7 DEF IsQuotients

\* Entry n is the number without its last n - 1 digits.
LEMMA QuotientEntry ==
    ASSUME NEW value \in Nat, NEW n \in 1..MaxVarintLength
    PROVE  Quotients(value)[n] = IF n = 1 THEN value ELSE Quotients(value)[n - 1] \div Radix
<1>1. IsQuotients(Quotients(value), value)
  BY QuotientsExist DEF Quotients
<1> QED
  BY <1>1 DEF IsQuotients

LEMMA Squeeze ==
    ASSUME NEW value \in Nat, NEW p \in Nat, NEW q \in Nat,
           q * p <= value, value < (q + 1) * p, NEW r, r = q \div Radix
    PROVE  r * (p * Radix) <= value /\ value < (r + 1) * (p * Radix)
<1>1. PICK d : d = q % Radix
  OBVIOUS
<1>2. r \in Nat /\ d \in Nat /\ d < Radix /\ q = d + Radix * r /\ Radix \in Nat
  BY <1>1, Dividing, VarintAssumption
<1>3. Radix * r <= q /\ q + 1 <= Radix * (r + 1) /\ Radix * r \in Nat /\ Radix * (r + 1) \in Nat
  BY <1>2
<1>4. ASSUME NEW a \in Nat, NEW b \in Nat, a <= b PROVE a * p <= b * p
  BY <1>4
<1>5. (Radix * r) * p <= q * p
  BY <1>3, <1>4
<1>6. (q + 1) * p <= (Radix * (r + 1)) * p
  <2>1. q + 1 \in Nat
    OBVIOUS
  <2> QED
    BY <1>3, <1>4, <2>1
<1>7. (Radix * r) * p = r * (p * Radix) /\ (Radix * (r + 1)) * p = (r + 1) * (p * Radix)
  BY <1>2
<1>8. /\ (Radix * r) * p \in Nat /\ q * p \in Nat /\ (q + 1) * p \in Nat
      /\ (Radix * (r + 1)) * p \in Nat
  BY <1>3
<1> QED
  BY <1>5, <1>6, <1>7, <1>8

LEMMA QuotientBounds ==
    ASSUME NEW value \in Nat, NEW m \in Nat, m < MaxVarintLength
    PROVE  LET q == Quotients(value)[m + 1] IN
           q \in Nat /\ q * Power(m) <= value /\ value < (q + 1) * Power(m)
<1>1. PICK max \in Nat \ {0} : max = MaxVarintLength
  BY VarintAssumption
<1>2. PICK x : x = Quotients(value)
  OBVIOUS
<1> DEFINE Good(k) == x[k + 1] \in Nat /\ x[k + 1] * Power(k) <= value
                      /\ value < (x[k + 1] + 1) * Power(k)
           S == {k \in Nat : k < max => Good(k)}
<1>3. 0 \in S
  <2>1. 1 \in 1..max /\ 0 + 1 = 1
    OBVIOUS
  <2>2. x[0 + 1] = value
    BY <1>1, <1>2, <2>1, QuotientEntry
  <2>3. Power(0) = 1
    BY PowerNext
  <2> QED
    BY <2>2, <2>3
<1>4. ASSUME NEW k \in Nat, k \in S PROVE k + 1 \in S
  <2>1. CASE k + 1 < max
    <3>1. Good(k)
      BY <1>4, <2>1
    <3>2. (k + 1) + 1 \in 1..max /\ (k + 1) + 1 # 1 /\ ((k + 1) + 1) - 1 = k + 1
      BY <2>1
    <3>3. x[(k + 1) + 1] = x[k + 1] \div Radix
      BY <1>1, <1>2, <3>2, QuotientEntry
    <3>4. Power(k) \in Nat /\ Power(k + 1) = Power(k) * Radix
      BY PowerNext
    <3>5. PICK q : q = x[k + 1]
      OBVIOUS
    <3>6. PICK r : r = x[(k + 1) + 1]
      OBVIOUS
    <3>7. r \in Nat /\ r = q \div Radix /\ q \in Nat
      BY <3>1, <3>3, <3>5, <3>6, Dividing
    <3>8. r * (Power(k) * Radix) <= value /\ value < (r + 1) * (Power(k) * Radix)
      BY <3>1, <3>4, <3>5, <3>7, Squeeze
    <3>9. Good(k + 1)
      BY <3>4, <3>6, <3>7, <3>8
    <3> QED
      BY <3>9
  <2>2. CASE ~(k + 1 < max)
    BY <2>2
  <2> QED
    BY <2>1, <2>2
<1> HIDE DEF S
<1>5. \A k \in Nat : k \in S
  BY <1>3, <1>4, Induction
<1> QED
  BY <1>1, <1>2, <1>5 DEF S

LEMMA PowerPositive ==
    ASSUME NEW q \in Nat, NEW p \in Nat, p >= 1
    PROVE  q * p >= q /\ q * p \in Nat
<1>1. PICK others \in Nat : p = others + 1
  <2>1. p - 1 \in Nat /\ p = (p - 1) + 1
    OBVIOUS
  <2> QED
    BY <2>1
<1>2. q * p = q * others + q /\ q * others \in Nat
  BY <1>1
<1> QED
  BY <1>2

\* A number has digits behind the first m unless m digits are enough.
LEMMA QuotientLeft ==
    ASSUME NEW value \in Nat, NEW m \in Nat, m < MaxVarintLength
    PROVE  Quotients(value)[m + 1] > 0 <=> value >= Power(m)
<1>1. PICK q : q = Quotients(value)[m + 1]
  OBVIOUS
<1>2. PICK p : p = Power(m)
  OBVIOUS
<1>3. p \in Nat /\ p >= 1
  <2>1. m <= m
    OBVIOUS
  <2> QED
    BY <1>2, <2>1, PowerNext, PowerGrows
<1>4. q \in Nat /\ q * p <= value /\ value < (q + 1) * p
  BY <1>1, <1>2, QuotientBounds
<1>5. CASE q = 0
  <2>1. (q + 1) * p = p
    BY <1>3, <1>5
  <2> QED
    BY <1>1, <1>2, <1>3, <1>4, <1>5, <2>1
<1>6. CASE q # 0
  <2>1. PICK less \in Nat : q = less + 1
    <3>1. q - 1 \in Nat /\ q = (q - 1) + 1
      BY <1>4, <1>6
    <3> QED
      BY <3>1
  <2>2. q * p = less * p + p /\ less * p \in Nat
    BY <1>3, <2>1
  <2>3. value >= p /\ q > 0
    BY <1>3, <1>4, <1>6, <2>2
  <2> QED
    BY <1>1, <1>2, <2>3
<1> QED
  BY <1>5, <1>6

LEMMA IntervalSize ==
    ASSUME NEW n \in Nat
    PROVE  Cardinality(1..n) = n
BY FS_Interval

\* The length is the number of digits, and it is the one that the encoder writes.
LEMMA LengthOfNumber ==
    ASSUME NEW value, InRange(value), NEW b, b = VariableByteIntegerLength(value)
    PROVE  /\ b \in 1..MaxVarintLength
           /\ value < Power(b)
           /\ \A m \in 1..(b - 1) : value >= Power(m)
<1>1. MaxVarintLength \in Nat \ {0} /\ Power(MaxVarintLength) \in Nat
  BY VarintAssumption, PowerNext
<1>2. value \in Nat /\ value < Power(MaxVarintLength)
  BY <1>1 DEF InRange, MaxVariableByteInteger
<1>3. PICK T : T = {n \in Nat : n \in 1..MaxVarintLength /\ value < Power(n)}
  OBVIOUS
<1>4. MaxVarintLength \in T /\ T \in SUBSET Nat
  BY <1>1, <1>2, <1>3
<1>5. PICK least \in T : \A m \in T : least <= m
  BY <1>4, LeastMember
<1>6. least \in 1..MaxVarintLength /\ value < Power(least)
  BY <1>3, <1>5
<1>7. ASSUME NEW m \in 1..(least - 1) PROVE value >= Power(m)
  <2>1. m \in Nat /\ m \in 1..MaxVarintLength /\ ~(least <= m)
    BY <1>1, <1>6, <1>7
  <2>2. m \notin T
    BY <1>5, <2>1
  <2>3. ~(value < Power(m))
    BY <1>3, <2>1, <2>2
  <2> QED
    BY <1>2, <2>1, <2>3, PowerNext
<1>8. \E n \in 1..MaxVarintLength : value < Power(n) /\ \A m \in 1..(n - 1) : value >= Power(m)
  BY <1>6, <1>7
<1> QED
  BY <1>8 DEF VariableByteIntegerLength

ByteOf(value, n) == (Quotients(value)[n] % Radix)
                    + (IF n < VariableByteIntegerLength(value) THEN Radix ELSE 0)

Digits(x) ==
    LET bytesWritten == Cardinality({n \in 1..MaxVarintLength : n = 1 \/ x[n] > 0})
    IN [n \in 1..bytesWritten |-> (x[n] % Radix) + (IF n < bytesWritten THEN Radix ELSE 0)]

LEMMA NumberIsEncoded ==
    ASSUME NEW value, InRange(value), NEW b, b = VariableByteIntegerLength(value)
    PROVE  EncodeVariableByteInteger(value) = [n \in 1..b |-> ByteOf(value, n)]
<1>1. PICK max \in Nat \ {0} : max = MaxVarintLength
  BY VarintAssumption
<1>2. PICK x : x = Quotients(value)
  OBVIOUS
<1>3. value \in Nat
  BY <1>1, PowerNext DEF InRange, MaxVariableByteInteger
<1>4. b \in 1..max /\ value < Power(b) /\ \A m \in 1..(b - 1) : value >= Power(m)
  BY <1>1, LengthOfNumber
<1>5. ASSUME NEW n \in 1..max PROVE (n = 1 \/ x[n] > 0) <=> n \in 1..b
  <2>1. CASE n = 1
    BY <1>4, <2>1
  <2>2. CASE n # 1
    <3>1. PICK m : m = n - 1
      OBVIOUS
    <3>2. m \in Nat /\ m < max /\ m + 1 = n /\ m >= 1
      BY <1>5, <2>2, <3>1
    <3>3. x[n] > 0 <=> value >= Power(m)
      BY <1>1, <1>2, <1>3, <3>2, QuotientLeft
    <3>4. CASE n <= b
      <4>1. m \in 1..(b - 1) /\ n \in 1..b
        BY <1>4, <3>2, <3>4
      <4> QED
        BY <1>4, <3>3, <4>1
    <3>5. CASE ~(n <= b)
      <4>1. b <= m /\ b \in Nat /\ n \notin 1..b
        BY <1>4, <3>2, <3>5
      <4>2. Power(b) <= Power(m) /\ Power(b) \in Nat /\ Power(m) \in Nat
        BY <3>2, <4>1, PowerGrows, PowerNext
      <4>3. ~(value >= Power(m))
        BY <1>3, <1>4, <4>2
      <4> QED
        BY <2>2, <3>3, <4>1, <4>3
    <3> QED
      BY <3>4, <3>5
  <2> QED
    BY <2>1, <2>2
<1>6. {n \in 1..max : n = 1 \/ x[n] > 0} = 1..b
  BY <1>4, <1>5
<1>7. Cardinality({n \in 1..MaxVarintLength : n = 1 \/ x[n] > 0}) = b
  <2>1. b \in Nat
    BY <1>4
  <2>2. Cardinality(1..b) = b
    BY <2>1, IntervalSize
  <2> QED
    BY <1>1, <1>6, <2>2
<1>8. EncodeVariableByteInteger(value) = Digits(Quotients(value))
  BY DEF EncodeVariableByteInteger, Quotients, IsQuotients, Digits
<1> QED
  BY <1>2, <1>7, <1>8 DEF ByteOf, Digits

\* The bytes stand in the buffer behind the offset.
Holds(buf, offset, bytes) ==
    /\ offset + Len(bytes) <= Len(buf)
    /\ \A i \in 1..Len(bytes) : buf[offset + i] = bytes[i]

LEMMA NumberInRange ==
    ASSUME NEW value, InRange(value), NEW b, b = VariableByteIntegerLength(value)
    PROVE  /\ b \in Nat /\ b >= 1 /\ b <= MaxVarintLength /\ MaxVarintLength \in Nat
           /\ value \in Nat /\ value < Power(b)
<1>1. Power(MaxVarintLength) \in Nat
  BY VarintAssumption, PowerNext
<1>2. value \in Nat
  BY <1>1 DEF InRange, MaxVariableByteInteger
<1>3. b \in 1..MaxVarintLength /\ value < Power(b)
  BY LengthOfNumber
<1> QED
  BY <1>2, <1>3, VarintAssumption

LEMMA BytesOfNumber ==
    ASSUME NEW value, InRange(value), NEW b, b = VariableByteIntegerLength(value), NEW n \in 1..b
    PROVE  /\ Quotients(value)[n] \in Nat
           /\ ByteOf(value, n) \in Bytes
           /\ Continues(ByteOf(value, n)) <=> n < b
           /\ Digit(ByteOf(value, n)) = Quotients(value)[n] % Radix
<1>1. PICK q : q = Quotients(value)[n]
  OBVIOUS
<1>2. b \in 1..MaxVarintLength /\ MaxVarintLength \in Nat /\ value \in Nat
  BY NumberInRange
<1>3. q \in Nat
  <2>1. n - 1 \in Nat /\ n - 1 < MaxVarintLength /\ (n - 1) + 1 = n
    BY <1>2
  <2> QED
    BY <1>1, <1>2, <2>1, QuotientBounds
<1>4. PICK d : d = q % Radix
  OBVIOUS
<1>5. d \in Nat /\ d < Radix /\ Radix \in Nat /\ Radix >= 2
  BY <1>3, <1>4, Dividing, VarintAssumption
<1>6. PICK byte : byte = ByteOf(value, n)
  OBVIOUS
<1>7. byte = d + (IF n < b THEN Radix ELSE 0)
  BY <1>1, <1>4, <1>6 DEF ByteOf
<1>8. byte \in Bytes /\ (byte >= Radix <=> n < b)
  BY <1>5, <1>7 DEF Bytes
<1>9. byte % Radix = d
  <2>1. CASE n < b
    <3>1. byte = d + Radix
      BY <1>7, <2>1
    <3> QED
      BY <1>5, <3>1
  <2>2. CASE ~(n < b)
    <3>1. byte = d
      BY <1>5, <1>7, <2>2
    <3> QED
      BY <1>5, <3>1
  <2> QED
    BY <2>1, <2>2
<1> QED
  BY <1>1, <1>3, <1>4, <1>6, <1>8, <1>9 DEF Continues, Digit

\* What the last byte of a number holds is the rest of it.
LEMMA SmallRemainder ==
    ASSUME NEW q \in Nat, NEW r \in Nat, q < r
    PROVE  q % r = q
OBVIOUS

LEMMA LastDigit ==
    ASSUME NEW value, InRange(value), NEW b, b = VariableByteIntegerLength(value)
    PROVE  Quotients(value)[b] % Radix = Quotients(value)[b]
<1>1. b \in 1..MaxVarintLength /\ MaxVarintLength \in Nat /\ value \in Nat /\ value < Power(b)
  BY NumberInRange
<1>2. PICK m : m = b - 1
  OBVIOUS
<1>3. m \in Nat /\ m < MaxVarintLength /\ m + 1 = b
  BY <1>1, <1>2
<1>4. PICK q : q = Quotients(value)[b]
  OBVIOUS
<1>5. PICK p : p = Power(m)
  OBVIOUS
<1>6. q \in Nat /\ q * p <= value /\ p \in Nat /\ Power(b) = p * Radix
  BY <1>1, <1>3, <1>4, <1>5, QuotientBounds, PowerNext
<1>7. Radix \in Nat /\ Radix >= 2
  BY VarintAssumption
<1>8. q < Radix
  <2>1. SUFFICES ASSUME q >= Radix PROVE FALSE
    BY <1>6, <1>7
  <2>2. PICK more \in Nat : q = more + Radix
    <3>1. q - Radix \in Nat /\ q = (q - Radix) + Radix
      BY <1>6, <1>7, <2>1
    <3> QED
      BY <3>1
  <2>3. q * p = more * p + p * Radix /\ more * p \in Nat /\ p * Radix \in Nat
    BY <1>6, <1>7, <2>2
  <2> QED
    BY <1>1, <1>6, <2>3
<1>9. q % Radix = q
  BY <1>6, <1>7, <1>8, SmallRemainder
<1> QED
  BY <1>4, <1>9

LEMMA AccumulatedBack ==
    ASSUME NEW value, InRange(value), NEW b, b = VariableByteIntegerLength(value),
           NEW buf, NEW offset \in Nat,
           \A n \in 1..b : buf[offset + n] = ByteOf(value, n)
    PROVE  Accumulated(buf, offset, b) = value
<1>1. b \in 1..MaxVarintLength /\ MaxVarintLength \in Nat /\ value \in Nat /\ b \in Nat
  BY NumberInRange
<1>2. PICK x : x = Quotients(value)
  OBVIOUS
<1>3. PICK multiplier : multiplier = TheMultiplier(b)
  OBVIOUS
<1>4. PICK sum : sum = TheSum(buf, offset, b)
  OBVIOUS
<1>5. IsMultiplier(multiplier, b) /\ IsSum(sum, multiplier, buf, offset, b)
  BY <1>1, <1>3, <1>4, MultiplierExists, SumExists DEF TheMultiplier, TheSum
<1>6. \A n \in 1..b : multiplier[n] = Power(n - 1)
  <2> DEFINE S == {k \in Nat : k < b => multiplier[k + 1] = Power(k)}
  <2>1. 0 \in S
    <3>1. 1 \in 1..b
      BY <1>1
    <3>2. multiplier[1] = 1
      BY <1>5, <3>1, MultiplierEntry
    <3>3. Power(0) = 1
      BY PowerNext
    <3> QED
      BY <3>2, <3>3
  <2>2. ASSUME NEW k \in Nat, k \in S PROVE k + 1 \in S
    <3>1. CASE k + 1 < b
      <4>1. (k + 1) + 1 \in 1..b /\ ((k + 1) + 1) - 1 = k + 1 /\ (k + 1) + 1 # 1
        BY <1>1, <3>1
      <4>2. multiplier[(k + 1) + 1] = multiplier[k + 1] * Radix
        BY <1>5, <4>1, MultiplierEntry
      <4>3. multiplier[k + 1] = Power(k)
        BY <1>1, <2>2, <3>1
      <4> QED
        BY <4>2, <4>3, PowerNext
    <3>2. CASE ~(k + 1 < b)
      BY <3>2
    <3> QED
      BY <3>1, <3>2
  <2> HIDE DEF S
  <2>3. \A k \in Nat : k \in S
    BY <2>1, <2>2, Induction
  <2> QED
    <3> TAKE n \in 1..b
    <3>1. n - 1 \in Nat /\ n - 1 < b /\ (n - 1) + 1 = n
      BY <1>1
    <3>2. n - 1 \in S
      BY <2>3, <3>1
    <3> QED
      BY <3>1, <3>2 DEF S
<1>7. \A n \in 1..b : sum[n] = sum[n - 1] + (x[n] % Radix) * Power(n - 1)
  <2> TAKE n \in 1..b
  <2>1. n \in 0..b /\ n # 0
    BY <1>1
  <2>2. sum[n] = sum[n - 1] + Digit(buf[offset + n]) * multiplier[n]
    BY <1>5, <2>1, SumEntry DEF SumAfter
  <2>3. Digit(buf[offset + n]) = x[n] % Radix
    BY <1>2, BytesOfNumber
  <2> QED
    BY <1>6, <2>2, <2>3
<1>8. sum[0] = 0
  <2>1. 0 \in 0..b
    BY <1>1
  <2> QED
    BY <1>5, <2>1, SumEntry DEF SumAfter
<1>9. \A n \in 1..b : x[n] \in Nat
  BY <1>2, BytesOfNumber
<1> DEFINE S == {k \in Nat : k < b => sum[k] \in Nat /\ sum[k] + x[k + 1] * Power(k) = value}
<1>10. 0 \in S
  <2>1. 1 \in 1..MaxVarintLength /\ 0 + 1 = 1
    BY <1>1
  <2>2. x[0 + 1] = value
    BY <1>1, <1>2, <2>1, QuotientEntry
  <2>3. Power(0) = 1
    BY PowerNext
  <2> QED
    BY <1>1, <1>8, <2>2, <2>3
<1>11. ASSUME NEW k \in Nat, k \in S PROVE k + 1 \in S
  <2>1. CASE k + 1 < b
    <3>1. sum[k] \in Nat /\ sum[k] + x[k + 1] * Power(k) = value
      BY <1>1, <1>11, <2>1
    <3>2. /\ k + 1 \in 1..b /\ (k + 1) - 1 = k
          /\ (k + 1) + 1 \in 1..MaxVarintLength /\ (k + 1) + 1 # 1 /\ ((k + 1) + 1) - 1 = k + 1
      BY <1>1, <2>1
    <3>3. PICK q : q = x[k + 1]
      OBVIOUS
    <3>4. PICK r : r = x[(k + 1) + 1]
      OBVIOUS
    <3>5. PICK d : d = q % Radix
      OBVIOUS
    <3>6. PICK p : p = Power(k)
      OBVIOUS
    <3>7. r = q \div Radix
      BY <1>1, <1>2, <3>2, <3>3, <3>4, QuotientEntry
    <3>8. q \in Nat /\ r \in Nat /\ d \in Nat /\ q = d + Radix * r /\ Radix \in Nat
      BY <1>9, <3>2, <3>3, <3>5, <3>7, Dividing, VarintAssumption
    <3>9. p \in Nat /\ Power(k + 1) = p * Radix
      BY <3>6, PowerNext
    <3>10. sum[k + 1] = sum[k] + d * p
      BY <1>7, <3>2, <3>3, <3>5, <3>6
    <3>11. q * p = d * p + r * (p * Radix) /\ d * p \in Nat
      BY <3>8, <3>9
    <3>12. sum[k + 1] \in Nat /\ sum[k + 1] + r * (p * Radix) = value
      <4>1. r * (p * Radix) \in Nat
        BY <3>8, <3>9
      <4> QED
        BY <3>1, <3>3, <3>6, <3>10, <3>11, <4>1
    <3> QED
      BY <3>4, <3>9, <3>12
  <2>2. CASE ~(k + 1 < b)
    BY <2>2
  <2> QED
    BY <2>1, <2>2
<1> HIDE DEF S
<1>12. \A k \in Nat : k \in S
  BY <1>10, <1>11, Induction
<1>13. PICK last : last = b - 1
  OBVIOUS
<1>14. last \in Nat /\ last < b /\ last + 1 = b /\ b \in 1..b
  BY <1>1, <1>13
<1>15. sum[last] + x[b] * Power(last) = value
  BY <1>12, <1>14 DEF S
<1>16. sum[b] = sum[last] + x[b] * Power(last)
  BY <1>2, <1>7, <1>13, <1>14, LastDigit
<1> QED
  BY <1>4, <1>15, <1>16, AccumulatedIsSum

\* What encodeVariableByteInteger() writes, decodeVariableByteInteger() reads: the number and
\* how many bytes it took, wherever in a buffer it stands.
THEOREM NumbersAreReadBack ==
    ASSUME NEW value, InRange(value), NEW buf, NEW offset \in Nat, Len(buf) \in Nat,
           Holds(buf, offset, EncodeVariableByteInteger(value))
    PROVE  /\ EncodeVariableByteInteger(value) \in Seq(Bytes)
           /\ Len(EncodeVariableByteInteger(value)) = VariableByteIntegerLength(value)
           /\ DecodeVariableByteInteger(buf, offset)
                = [status |-> "ok", value |-> value,
                   bytesRead |-> VariableByteIntegerLength(value)]
<1>1. PICK b : b = VariableByteIntegerLength(value)
  OBVIOUS
<1>2. b \in 1..MaxVarintLength /\ MaxVarintLength \in Nat /\ value \in Nat
  BY <1>1, NumberInRange
<1>3. PICK bytes : bytes = EncodeVariableByteInteger(value)
  OBVIOUS
<1>4. bytes = [n \in 1..b |-> ByteOf(value, n)]
  BY <1>1, <1>3, NumberIsEncoded
<1>5. \A n \in 1..b : ByteOf(value, n) \in Bytes /\ (Continues(ByteOf(value, n)) <=> n < b)
  BY <1>1, BytesOfNumber
<1>6. bytes \in Seq(Bytes) /\ Len(bytes) = b
  BY <1>2, <1>4, <1>5
<1>7. offset + b <= Len(buf) /\ \A n \in 1..b : buf[offset + n] = ByteOf(value, n)
  BY <1>3, <1>4, <1>6 DEF Holds
<1>8. \A n \in 1..MaxVarintLength : EndsAt(buf, offset, n) <=> n = b
  <2> TAKE n \in 1..MaxVarintLength
  <2>1. CASE n = b
    <3>1. ~Continues(buf[offset + b])
      <4>1. b \in 1..b /\ ~(b < b)
        BY <1>2
      <4> QED
        BY <1>5, <1>7, <4>1
    <3>2. ASSUME NEW m \in 1..(b - 1) PROVE Continues(buf[offset + m])
      <4>1. m \in 1..b /\ m < b
        BY <1>2, <3>2
      <4> QED
        BY <1>5, <1>7, <4>1
    <3> QED
      BY <1>2, <1>7, <2>1, <3>1, <3>2 DEF EndsAt
  <2>2. CASE n < b
    <3>1. n \in 1..b
      BY <1>2, <2>2
    <3>2. Continues(buf[offset + n])
      BY <1>5, <1>7, <2>2, <3>1
    <3> QED
      BY <1>2, <2>2, <3>2 DEF EndsAt
  <2>3. CASE n > b
    <3>1. b \in 1..(n - 1) /\ b \in 1..b /\ ~(b < b)
      BY <1>2, <2>3
    <3>2. ~Continues(buf[offset + b])
      BY <1>5, <1>7, <3>1
    <3>3. ~EndsAt(buf, offset, n)
      BY <3>1, <3>2 DEF EndsAt
    <3> QED
      BY <1>2, <2>3, <3>3
  <2>4. n = b \/ n < b \/ n > b
    BY <1>2
  <2> QED
    BY <2>1, <2>2, <2>3, <2>4
<1>9. (CHOOSE n \in 1..MaxVarintLength : EndsAt(buf, offset, n)) = b
  BY <1>2, <1>8
<1>10. Accumulated(buf, offset, b) = value
  BY <1>1, <1>7, AccumulatedBack
<1>11. DecodeVariableByteInteger(buf, offset)
         = [status |-> "ok", value |-> Accumulated(buf, offset, b), bytesRead |-> b]
  BY <1>2, <1>8, <1>9 DEF DecodeVariableByteInteger
<1> QED
  BY <1>1, <1>3, <1>6, <1>10, <1>11

-----------------------------------------------------------------------------
(* Where the joined sequences stand. *)

Offsets(f, seqs) ==
    /\ f \in [0..Len(seqs) -> Nat] /\ f[0] = 0
    /\ \A i \in 1..Len(seqs) : f[i] = f[i - 1] + Len(seqs[i])
StandAt(f, seqs, joined) ==
    /\ f[Len(seqs)] = Len(joined)
    /\ \A i \in 1..Len(seqs) : \A k \in 1..Len(seqs[i]) : joined[f[i - 1] + k] = seqs[i][k]
HasOffsets(seqs) == \E f : Offsets(f, seqs) /\ StandAt(f, seqs, FlattenSeq(seqs))

LEMMA WithinSum ==
    ASSUME NEW start \in Nat, NEW length \in Nat, NEW total \in Nat, NEW k \in 1..length,
           start + length <= total
    PROVE  start + k \in 1..total
OBVIOUS

Associates(a, b, c) == (a \o b) \o c = a \o (b \o c)

LEMMA ConcatAssociates ==
    ASSUME NEW E, NEW a \in Seq(E), NEW b \in Seq(E), NEW c \in Seq(E)
    PROVE  Associates(a, b, c)
BY DEF Associates

LEMMA ConcatEntries ==
    ASSUME NEW E, NEW a \in Seq(E), NEW b \in Seq(E)
    PROVE  /\ a \o b \in Seq(E)
           /\ Len(a \o b) = Len(a) + Len(b)
           /\ \A i \in 1..Len(a) : (a \o b)[i] = a[i]
           /\ \A i \in 1..Len(b) : (a \o b)[Len(a) + i] = b[i]
OBVIOUS

LEMMA OffsetsGrow ==
    ASSUME NEW E, NEW seqs \in Seq(Seq(E)), NEW f, Offsets(f, seqs)
    PROVE  \A i \in 0..Len(seqs) : \A j \in 0..i : f[j] <= f[i]
<1>1. PICK n \in Nat : n = Len(seqs)
  OBVIOUS
<1>2. /\ \A i \in 0..n : f[i] \in Nat
      /\ \A i \in 1..n : f[i] = f[i - 1] + Len(seqs[i]) /\ Len(seqs[i]) \in Nat
  <2>1. \A i \in 1..n : Len(seqs[i]) \in Nat
    BY <1>1
  <2> QED
    BY <1>1, <2>1 DEF Offsets
<1> DEFINE S == {i \in Nat : i <= n => \A j \in 0..i : f[j] <= f[i]}
<1>3. 0 \in S
  BY <1>2
<1>4. ASSUME NEW i \in Nat, i \in S PROVE i + 1 \in S
  <2> SUFFICES ASSUME i + 1 <= n, NEW j \in 0..(i + 1) PROVE f[j] <= f[i + 1]
    OBVIOUS
  <2>1. i + 1 \in 1..n /\ (i + 1) - 1 = i /\ i \in 0..n /\ i + 1 \in 0..n
    BY <1>1
  <2>2. f[i + 1] >= f[i] /\ f[i] \in Nat /\ f[i + 1] \in Nat
    <3>1. f[i + 1] = f[i] + Len(seqs[i + 1]) /\ Len(seqs[i + 1]) \in Nat
      BY <1>2, <2>1
    <3> QED
      BY <1>2, <2>1, <3>1
  <2>3. CASE j = i + 1
    BY <2>2, <2>3
  <2>4. CASE j # i + 1
    <3>1. j \in 0..i /\ j \in 0..n
      BY <2>1, <2>4
    <3>2. f[j] <= f[i] /\ f[j] \in Nat
      BY <1>2, <1>4, <2>1, <3>1
    <3> QED
      BY <2>2, <3>2
  <2> QED
    BY <2>3, <2>4
<1> HIDE DEF S
<1>5. \A i \in Nat : i \in S
  BY <1>3, <1>4, Induction
<1> QED
  BY <1>1, <1>5 DEF S

LEMMA OffsetsExist ==
    ASSUME NEW E, NEW seqs \in Seq(Seq(E))
    PROVE  HasOffsets(seqs)
<1> DEFINE S == {n \in Nat : \A parts \in Seq(Seq(E)) : Len(parts) = n => HasOffsets(parts)}
<1>1. 0 \in S
  <2> SUFFICES ASSUME NEW parts \in Seq(Seq(E)), Len(parts) = 0 PROVE HasOffsets(parts)
    OBVIOUS
  <2>1. PICK f : f = [i \in 0..0 |-> 0]
    OBVIOUS
  <2>2. parts = <<>> /\ FlattenSeq(parts) = <<>>
    BY FlattenNothing
  <2>3. f \in [0..0 -> Nat] /\ f[0] = 0
    BY <2>1
  <2>4. Offsets(f, parts)
    BY <2>3 DEF Offsets
  <2>5. StandAt(f, parts, FlattenSeq(parts))
    BY <2>2, <2>3 DEF StandAt
  <2> QED
    BY <2>4, <2>5 DEF HasOffsets
<1>2. ASSUME NEW n \in Nat, n \in S PROVE n + 1 \in S
  <2> SUFFICES ASSUME NEW parts \in Seq(Seq(E)), Len(parts) = n + 1 PROVE HasOffsets(parts)
    OBVIOUS
  <2>1. PICK front : front = SubSeq(parts, 1, n)
    OBVIOUS
  <2>2. PICK seq : seq = parts[n + 1]
    OBVIOUS
  <2>3. /\ front \in Seq(Seq(E)) /\ Len(front) = n /\ seq \in Seq(E)
        /\ \A i \in 1..n : front[i] = parts[i]
    BY <2>1, <2>2
  <2>4. parts = Append(front, seq)
    BY <2>1, <2>2, <2>3
  <2>5. HasOffsets(front)
    BY <1>2, <2>3
  <2>6. PICK f : Offsets(f, front) /\ StandAt(f, front, FlattenSeq(front))
    BY <2>5 DEF HasOffsets
  <2>7. PICK before : before = FlattenSeq(front)
    OBVIOUS
  <2>8. before \in Seq(E)
    BY <2>3, <2>7, FlattenType
  <2>9. PICK joined : joined = FlattenSeq(parts)
    OBVIOUS
  <2>10. joined = before \o seq
    BY <2>3, <2>4, <2>7, <2>9, FlattenAppend
  <2>11. /\ f \in [0..n -> Nat] /\ f[0] = 0
         /\ \A i \in 1..n : f[i] = f[i - 1] + Len(front[i])
         /\ f[n] = Len(before)
         /\ \A i \in 1..n : \A k \in 1..Len(front[i]) : before[f[i - 1] + k] = front[i][k]
    BY <2>3, <2>6, <2>7 DEF Offsets, StandAt
  <2>12. PICK g : g = [i \in 0..(n + 1) |-> IF i <= n THEN f[i] ELSE f[n] + Len(seq)]
    OBVIOUS
  <2>13. /\ g \in [0..(n + 1) -> Nat] /\ g[n + 1] = f[n] + Len(seq)
         /\ \A i \in 0..n : g[i] = f[i]
    BY <2>3, <2>11, <2>12
  <2>14. Offsets(g, parts)
    <3>1. ASSUME NEW i \in 1..(n + 1) PROVE g[i] = g[i - 1] + Len(parts[i])
      <4>1. i - 1 \in 0..n
        OBVIOUS
      <4>2. CASE i = n + 1
        <5>1. parts[i] = seq /\ g[i] = f[n] + Len(seq) /\ i - 1 = n
          BY <2>2, <2>13, <4>2
        <5> QED
          BY <2>13, <4>1, <5>1
      <4>3. CASE i # n + 1
        <5>1. i \in 1..n /\ i \in 0..n
          BY <4>3
        <5>2. parts[i] = front[i] /\ f[i] = f[i - 1] + Len(front[i])
          BY <2>3, <2>11, <5>1
        <5> QED
          BY <2>13, <4>1, <5>1, <5>2
      <4> QED
        BY <4>2, <4>3
    <3>2. g[0] = 0
      BY <2>11, <2>13
    <3> QED
      BY <2>13, <3>1, <3>2 DEF Offsets
  <2>15. g[n + 1] = Len(joined)
    BY <2>3, <2>8, <2>10, <2>11, <2>13
  <2>16. ASSUME NEW i \in 1..(n + 1), NEW k \in 1..Len(parts[i])
         PROVE  joined[g[i - 1] + k] = parts[i][k]
    <3>1. CASE i = n + 1
      <4>1. g[i - 1] = Len(before) /\ parts[i] = seq /\ k \in 1..Len(seq)
        BY <2>2, <2>11, <2>13, <2>16, <3>1
      <4>2. (before \o seq)[Len(before) + k] = seq[k]
        BY <2>3, <2>8, <4>1, ConcatEntries
      <4> QED
        BY <2>10, <4>1, <4>2
    <3>2. CASE i # n + 1
      <4>1. i \in 1..n /\ i - 1 \in 0..n /\ i \in 0..n /\ parts[i] = front[i] /\ g[i - 1] = f[i - 1]
        BY <2>3, <2>13, <3>2
      <4>2. k \in 1..Len(front[i])
        BY <2>16, <4>1
      <4>3. before[f[i - 1] + k] = front[i][k]
        BY <2>11, <4>1, <4>2
      <4>4. f[i] <= f[n]
        <5>1. \A m \in 0..Len(front) : \A j \in 0..m : f[j] <= f[m]
          BY <2>3, <2>6, OffsetsGrow
        <5>2. n \in 0..Len(front) /\ i \in 0..n
          BY <2>3, <4>1
        <5> QED
          BY <5>1, <5>2
      <4>5. f[i - 1] + k \in 1..Len(before)
        <5>1. PICK behind \in Nat : behind = f[i]
          BY <2>11, <4>1
        <5>2. PICK start \in Nat : start = f[i - 1]
          BY <2>11, <4>1
        <5>3. PICK length \in Nat : length = Len(front[i])
          BY <2>3, <4>1
        <5>4. behind = start + length /\ k \in 1..length
          BY <2>11, <4>1, <4>2, <5>1, <5>2, <5>3
        <5>5. PICK total \in Nat : total = Len(before)
          BY <2>8
        <5>6. behind <= total
          BY <2>11, <4>4, <5>1, <5>5
        <5>7. start + k \in 1..total
          <6>1. start + length <= total
            BY <5>4, <5>6
          <6>2. start \in Nat /\ length \in Nat /\ total \in Nat /\ k \in 1..length
            BY <5>2, <5>3, <5>4, <5>5
          <6> QED
            BY <6>1, <6>2, WithinSum
        <5> QED
          BY <5>2, <5>5, <5>7
      <4>6. joined[f[i - 1] + k] = before[f[i - 1] + k]
        BY <2>3, <2>8, <2>10, <4>5, ConcatEntries
      <4> QED
        BY <4>1, <4>3, <4>6
    <3> QED
      BY <3>1, <3>2
  <2>17. StandAt(g, parts, joined)
    BY <2>15, <2>16 DEF StandAt
  <2> QED
    BY <2>9, <2>14, <2>17 DEF HasOffsets
<1> HIDE DEF S
<1>3. \A n \in Nat : n \in S
  BY <1>1, <1>2, Induction
<1>4. Len(seqs) \in Nat
  OBVIOUS
<1> QED
  BY <1>3, <1>4 DEF S

\* Joined are the sequences of two lists what the joined ones make together.
LEMMA FlattenBoth ==
    ASSUME NEW E, NEW a \in Seq(Seq(E)), NEW b \in Seq(Seq(E))
    PROVE  FlattenSeq(a \o b) = FlattenSeq(a) \o FlattenSeq(b)
<1> DEFINE S == {n \in Nat : \A c \in Seq(Seq(E)) :
                    Len(c) = n => FlattenSeq(a \o c) = FlattenSeq(a) \o FlattenSeq(c)}
<1>1. 0 \in S
  <2> SUFFICES ASSUME NEW c \in Seq(Seq(E)), Len(c) = 0
               PROVE  FlattenSeq(a \o c) = FlattenSeq(a) \o FlattenSeq(c)
    OBVIOUS
  <2>1. c = <<>> /\ a \o c = a
    OBVIOUS
  <2>2. FlattenSeq(a) \in Seq(E)
    BY FlattenType
  <2>3. FlattenSeq(a) \o <<>> = FlattenSeq(a)
    BY <2>2
  <2> QED
    BY <2>1, <2>3, FlattenNothing
<1>2. ASSUME NEW n \in Nat, n \in S PROVE n + 1 \in S
  <2> SUFFICES ASSUME NEW c \in Seq(Seq(E)), Len(c) = n + 1
               PROVE  FlattenSeq(a \o c) = FlattenSeq(a) \o FlattenSeq(c)
    OBVIOUS
  <2>1. PICK front : front = SubSeq(c, 1, n)
    OBVIOUS
  <2>2. PICK seq : seq = c[n + 1]
    OBVIOUS
  <2>3. front \in Seq(Seq(E)) /\ Len(front) = n /\ seq \in Seq(E)
    BY <2>1, <2>2
  <2>4. c = Append(front, seq)
    BY <2>1, <2>2, <2>3
  <2>5. a \o c = Append(a \o front, seq) /\ a \o front \in Seq(Seq(E))
    BY <2>3, <2>4
  <2>6. FlattenSeq(a \o front) = FlattenSeq(a) \o FlattenSeq(front)
    BY <1>2, <2>3
  <2>7. FlattenSeq(a \o c) = FlattenSeq(a \o front) \o seq
    BY <2>3, <2>5, FlattenAppend
  <2>8. FlattenSeq(c) = FlattenSeq(front) \o seq
    BY <2>3, <2>4, FlattenAppend
  <2>9. PICK x : x = FlattenSeq(a)
    OBVIOUS
  <2>10. PICK y : y = FlattenSeq(front)
    OBVIOUS
  <2>11. x \in Seq(E) /\ y \in Seq(E) /\ seq \in Seq(E)
    BY <2>3, <2>9, <2>10, FlattenType
  <2>12. (x \o y) \o seq = x \o (y \o seq)
    <3>1. Associates(x, y, seq)
      BY <2>11, ConcatAssociates, Zenon
    <3> QED
      BY <3>1, Zenon DEF Associates
  <2> QED
    BY <2>6, <2>7, <2>8, <2>9, <2>10, <2>12
<1> HIDE DEF S
<1>3. \A n \in Nat : n \in S
  BY <1>1, <1>2, Induction
<1>4. Len(b) \in Nat
  OBVIOUS
<1> QED
  BY <1>3, <1>4 DEF S
=============================================================================
