-------------------------- MODULE WireFormatProofs --------------------------
(***************************************************************************)
(* What is written is read back: what the writer makes of its calls, and   *)
(* strings and binary data behind their length, of any content.  A         *)
(* character of a string is followed from its code units to its bytes, the *)
(* bytes to their place in the buffer, and back.  Then lengths counted     *)
(* ahead of writing, and properties: their size, and each value read back. *)
(***************************************************************************)
EXTENDS Codec, FramingLemmas

-----------------------------------------------------------------------------
(* Code units. *)

\* A code unit is a number of two bytes.
LEMMA LargestIsNumber == LargestUnit \in Int
BY SMT DEF LargestUnit

LEMMA UnitRange ==
    ASSUME NEW code
    PROVE  code \in CodeUnit <=> code \in Int /\ code >= 0 /\ code < 65536
<1>1. code \in CodeUnit <=> code \in Int /\ code >= 0 /\ code <= LargestUnit
  BY LargestIsNumber, SMT DEF CodeUnit
<1>2. code \in Int => (code <= LargestUnit <=> code < 65536)
  BY SMT DEF LargestUnit
<1> QED
  BY <1>1, <1>2, SMT

\* A string starts with a character if it is not empty and that is its first one.
LEMMA StartsWithCharacter ==
    ASSUME NEW s \in Seq(CodeUnit), NEW c \in CodeUnit
    PROVE  StartsWith(s, <<c>>) <=> Len(s) # 0 /\ s[1] = c
<1>1. <<c>> \in Seq(CodeUnit) /\ Len(<<c>>) = 1 /\ <<c>>[1] = c
  OBVIOUS
<1>2. PICK one : one = <<c>>
  OBVIOUS
<1>3. one \in Seq(CodeUnit) /\ Len(one) = 1 /\ one[1] = c
  BY <1>1, <1>2
<1>4. StartsWith(s, one) <=> 1 <= Len(s) /\ SubSeq(one, 1, 1) = SubSeq(s, 1, 1)
  BY <1>3 DEF StartsWith, IsPrefix
<1>5. Len(s) \in Nat
  OBVIOUS
<1>6. ASSUME Len(s) # 0 PROVE SubSeq(one, 1, 1) = SubSeq(s, 1, 1) <=> s[1] = c
  <2>1. PICK first : first = SubSeq(s, 1, 1)
    OBVIOUS
  <2>2. PICK same : same = SubSeq(one, 1, 1)
    OBVIOUS
  <2>3. first \in Seq(CodeUnit) /\ Len(first) = 1 /\ first[1] = s[1]
    BY <1>5, <1>6, <2>1
  <2>4. same \in Seq(CodeUnit) /\ Len(same) = 1 /\ same[1] = c
    BY <1>3, <2>2
  <2>5. ASSUME s[1] = c PROVE same = first
    <3>1. \A i \in 1..Len(same) : same[i] = first[i]
      BY <2>3, <2>4, <2>5
    <3> QED
      BY <2>3, <2>4, <3>1, SameElements
  <2> QED
    BY <2>1, <2>2, <2>3, <2>4, <2>5
<1> QED
  BY <1>2, <1>4, <1>5, <1>6

-----------------------------------------------------------------------------
(* The writer. *)

\* What FoldLeft builds over the sets of calls, each set from the one without its last call.
WrittenAfter(f, calls, s) ==
    IF s = {} THEN NewWriter ELSE WriteBytes(f[s \ {Max(s)}], calls[Max(s)])
IsWritten(f, calls, D) == f = [s \in SUBSET D |-> WrittenAfter(f, calls, s)]

LEMMA LastCall ==
    ASSUME NEW k \in Nat, NEW s \in SUBSET (1..(k + 1)), k + 1 \in s
    PROVE  Max(s) = k + 1 /\ s \ {Max(s)} \in SUBSET (1..k)
<1>1. \A y \in s : k + 1 >= y
  OBVIOUS
<1>2. \A x \in s : (\A y \in s : x >= y) => x = k + 1
  OBVIOUS
<1>3. Max(s) = k + 1
  BY <1>1, <1>2 DEF Max
<1> QED
  BY <1>3

LEMMA SameBefore ==
    ASSUME NEW f, NEW g, NEW calls, NEW s, s # {} => f[s \ {Max(s)}] = g[s \ {Max(s)}]
    PROVE  WrittenAfter(f, calls, s) = WrittenAfter(g, calls, s)
BY DEF WrittenAfter

LEMMA WrittenExists ==
    ASSUME NEW calls, NEW n \in Nat
    PROVE  \E f : IsWritten(f, calls, 1..n)
<1> DEFINE Good(k) == \E f : \A s \in SUBSET (1..k) : f[s] = WrittenAfter(f, calls, s)
           S == {k \in Nat : Good(k)}
<1>1. 0 \in S
  <2>1. PICK f : f = [s \in {{}} |-> NewWriter]
    OBVIOUS
  <2>2. \A s \in SUBSET (1..0) : s = {}
    OBVIOUS
  <2>3. f[{}] = NewWriter
    BY <2>1
  <2>4. \A s \in SUBSET (1..0) : f[s] = WrittenAfter(f, calls, s)
    BY <2>2, <2>3 DEF WrittenAfter
  <2> QED
    BY <2>4
<1>2. ASSUME NEW k \in Nat, k \in S PROVE k + 1 \in S
  <2>1. PICK f : \A s \in SUBSET (1..k) : f[s] = WrittenAfter(f, calls, s)
    BY <1>2
  <2>2. PICK g : g = [s \in SUBSET (1..(k + 1)) |->
                         IF s \in SUBSET (1..k) THEN f[s] ELSE WrittenAfter(f, calls, s)]
    OBVIOUS
  <2>3. \A s \in SUBSET (1..k) : s \in SUBSET (1..(k + 1))
    BY <1>2
  <2>4. \A s \in SUBSET (1..k) : g[s] = f[s]
    BY <2>2, <2>3
  <2>5. ASSUME NEW s \in SUBSET (1..(k + 1)) PROVE g[s] = WrittenAfter(g, calls, s)
    <3>1. CASE s \in SUBSET (1..k)
      <4>1. g[s] = WrittenAfter(f, calls, s)
        BY <2>1, <2>4, <3>1
      <4>2. s \ {Max(s)} \in SUBSET (1..k)
        BY <3>1
      <4>3. f[s \ {Max(s)}] = g[s \ {Max(s)}]
        BY <2>4, <4>2
      <4> QED
        BY <4>1, <4>3, SameBefore
    <3>2. CASE s \notin SUBSET (1..k)
      <4>1. g[s] = WrittenAfter(f, calls, s)
        BY <2>2, <2>5, <3>2
      <4>2. k + 1 \in s
        BY <1>2, <2>5, <3>2
      <4>3. s \ {Max(s)} \in SUBSET (1..k)
        BY <1>2, <2>5, <4>2, LastCall
      <4>4. f[s \ {Max(s)}] = g[s \ {Max(s)}]
        BY <2>4, <4>3
      <4> QED
        BY <4>1, <4>4, SameBefore
    <3> QED
      BY <3>1, <3>2
  <2>6. Good(k + 1)
    BY <2>5
  <2> QED
    BY <1>2, <2>6
<1> HIDE DEF S
<1>3. \A k \in Nat : k \in S
  BY <1>1, <1>2, Induction
<1>4. PICK f : \A s \in SUBSET (1..n) : f[s] = WrittenAfter(f, calls, s)
  BY <1>3 DEF S
<1>5. PICK g : g = [s \in SUBSET (1..n) |-> f[s]]
  OBVIOUS
<1>6. ASSUME NEW s \in SUBSET (1..n) PROVE g[s] = WrittenAfter(g, calls, s)
  <2>1. s \ {Max(s)} \in SUBSET (1..n)
    BY <1>6
  <2>2. f[s \ {Max(s)}] = g[s \ {Max(s)}]
    BY <1>5, <2>1
  <2>3. WrittenAfter(f, calls, s) = WrittenAfter(g, calls, s)
    BY <2>2, SameBefore
  <2> QED
    BY <1>4, <1>5, <2>3
<1>7. g = [s \in SUBSET (1..n) |-> WrittenAfter(g, calls, s)]
  BY <1>5, <1>6
<1> QED
  BY <1>7 DEF IsWritten

TheWritten(calls, D) == CHOOSE f : IsWritten(f, calls, D)

LEMMA WriteAllIsWritten ==
    ASSUME NEW calls
    PROVE  FoldLeft(WriteBytes, NewWriter, calls) = TheWritten(calls, DOMAIN calls)[DOMAIN calls]
BY DEF FoldLeft, MapThenFoldSet, TheWritten, IsWritten, WrittenAfter

LEMMA WrittenEntry ==
    ASSUME NEW f, NEW calls, NEW D, IsWritten(f, calls, D), NEW s \in SUBSET D
    PROVE  f[s] = WrittenAfter(f, calls, s)
BY DEF IsWritten

\* The size that the array grows to, doubled until the bytes fit.
SizeAfter(f, size, required) == IF size < required THEN f[size * 2] ELSE size
IsNewSize(f, required) == f = [size \in Nat |-> SizeAfter(f, size, required)]
TheNewSize(required) == CHOOSE f : IsNewSize(f, required)

LEMMA Doubled ==
    ASSUME NEW size \in Nat, NEW k \in Nat, NEW required \in Nat, size >= 1,
           size + (k + 1) >= required
    PROVE  size * 2 \in Nat /\ size * 2 >= 1 /\ size * 2 + k >= required /\ size * 2 >= size
OBVIOUS

LEMMA NewSizeExists ==
    ASSUME NEW required \in Nat
    PROVE  \E f : IsNewSize(f, required)
<1> DEFINE Within(k, size) == size >= 1 /\ size + k >= required
           S == {k \in Nat : \E f : \A size \in Nat :
                    Within(k, size) => f[size] = SizeAfter(f, size, required)}
<1>1. 0 \in S
  <2>1. PICK f : f = [size \in Nat |-> size]
    OBVIOUS
  <2>2. ASSUME NEW size \in Nat, Within(0, size) PROVE f[size] = SizeAfter(f, size, required)
    <3>1. ~(size < required)
      BY <2>2
    <3> QED
      BY <2>1, <3>1 DEF SizeAfter
  <2> QED
    BY <2>2
<1>2. ASSUME NEW k \in Nat, k \in S PROVE k + 1 \in S
  <2>1. PICK f : \A size \in Nat : Within(k, size) => f[size] = SizeAfter(f, size, required)
    BY <1>2
  <2>2. PICK g : g = [size \in Nat |-> IF Within(k, size) THEN f[size] ELSE f[size * 2]]
    OBVIOUS
  <2>3. ASSUME NEW size \in Nat, Within(k + 1, size)
        PROVE  g[size] = SizeAfter(g, size, required)
    <3>1. /\ size >= 1 /\ size + (k + 1) >= required /\ size * 2 \in Nat
          /\ size * 2 >= 1 /\ size * 2 + k >= required
      BY <1>2, <2>3, Doubled
    <3>2. g[size * 2] = f[size * 2]
      BY <2>2, <3>1
    <3>3. CASE Within(k, size)
      <4>1. g[size] = SizeAfter(f, size, required)
        BY <2>1, <2>2, <3>3
      <4> QED
        BY <3>2, <4>1 DEF SizeAfter
    <3>4. CASE ~Within(k, size)
      <4>1. g[size] = f[size * 2]
        BY <2>2, <3>4
      <4>2. size < required
        BY <1>2, <3>1, <3>4
      <4> QED
        BY <3>2, <4>1, <4>2 DEF SizeAfter
    <3> QED
      BY <3>3, <3>4
  <2> QED
    BY <1>2, <2>3
<1> HIDE DEF S
<1>3. \A k \in Nat : k \in S
  BY <1>1, <1>2, Induction
<1>4. PICK f : \A size \in Nat : Within(required, size) => f[size] = SizeAfter(f, size, required)
  BY <1>3 DEF S
<1>5. PICK g : g = [size \in Nat |-> IF size = 0 THEN 0 ELSE f[size]]
  OBVIOUS
<1>6. ASSUME NEW size \in Nat PROVE g[size] = SizeAfter(g, size, required)
  <2>1. CASE size = 0
    <3>1. size * 2 = size /\ g[size] = 0
      BY <1>5, <2>1
    <3> QED
      BY <2>1, <3>1 DEF SizeAfter
  <2>2. CASE size # 0
    <3>1. Within(required, size) /\ size * 2 \in Nat /\ size * 2 # 0
      BY <1>6, <2>2
    <3>2. g[size] = SizeAfter(f, size, required)
      BY <1>4, <1>5, <2>2, <3>1
    <3>3. g[size * 2] = f[size * 2]
      BY <1>5, <3>1
    <3> QED
      BY <3>2, <3>3 DEF SizeAfter
  <2> QED
    BY <2>1, <2>2
<1>7. g = [size \in Nat |-> SizeAfter(g, size, required)]
  BY <1>5, <1>6
<1> QED
  BY <1>7 DEF IsNewSize

LEMMA NewSizeEntry ==
    ASSUME NEW f, NEW required, IsNewSize(f, required), NEW size \in Nat
    PROVE  f[size] = SizeAfter(f, size, required)
BY DEF IsNewSize

\* It is large enough.
LEMMA NewSizeFits ==
    ASSUME NEW required \in Nat, NEW size \in Nat, size >= 1
    PROVE  /\ TheNewSize(required)[size] \in Nat
           /\ TheNewSize(required)[size] >= size
           /\ TheNewSize(required)[size] >= required
<1>1. PICK f : f = TheNewSize(required)
  OBVIOUS
<1>2. IsNewSize(f, required)
  BY <1>1, NewSizeExists DEF TheNewSize
<1> DEFINE Fits(x) == f[x] \in Nat /\ f[x] >= x /\ f[x] >= required
           S == {k \in Nat : \A x \in Nat : x >= 1 /\ x + k >= required => Fits(x)}
<1>3. ASSUME NEW x \in Nat, x >= required PROVE Fits(x)
  <2>1. ~(x < required)
    BY <1>3
  <2>2. f[x] = x
    BY <1>2, <2>1, NewSizeEntry DEF SizeAfter
  <2> QED
    BY <1>3, <2>2
<1>4. 0 \in S
  BY <1>3
<1>5. ASSUME NEW k \in Nat, k \in S PROVE k + 1 \in S
  <2> SUFFICES ASSUME NEW x \in Nat, x >= 1, x + (k + 1) >= required PROVE Fits(x)
    OBVIOUS
  <2>1. CASE x >= required
    BY <1>3, <2>1
  <2>2. CASE ~(x >= required)
    <3>1. x < required
      BY <2>2
    <3>2. f[x] = f[x * 2]
      BY <1>2, <3>1, NewSizeEntry DEF SizeAfter
    <3>3. x * 2 \in Nat /\ x * 2 >= 1 /\ x * 2 + k >= required /\ x * 2 >= x
      BY <1>5, Doubled
    <3>4. Fits(x * 2)
      BY <1>5, <3>3
    <3> QED
      BY <3>2, <3>3, <3>4
  <2> QED
    BY <2>1, <2>2
<1> HIDE DEF S
<1>6. \A k \in Nat : k \in S
  BY <1>4, <1>5, Induction
<1>7. Fits(size)
  <2>1. required \in S /\ size + required >= required
    BY <1>6
  <2> QED
    BY <2>1 DEF S
<1> QED
  BY <1>1, <1>7

\* A writer after these bytes: there is an array, and they are in front of the position.
IsWriter(writer, bytes, E) ==
    /\ writer \in [buffer : Seq(E), position : Nat] /\ Len(writer.buffer) >= 1
    /\ writer.position = Len(bytes) /\ writer.position <= Len(writer.buffer)
    /\ SubSeq(writer.buffer, 1, writer.position) = bytes

LEMMA NewSizeOfCapacity ==
    ASSUME NEW writer, NEW additionalBytes
    PROVE  EnsureCapacity(writer, additionalBytes) =
             LET required == writer.position + additionalBytes
                 length   == Len(writer.buffer)
             IN IF required <= length THEN writer
                ELSE [writer EXCEPT !.buffer =
                        @ \o [i \in 1..(TheNewSize(required)[length * 2] - length) |-> 0]]
BY DEF EnsureCapacity, TheNewSize, IsNewSize, SizeAfter

LEMMA CapacityIsThere ==
    ASSUME NEW E, 0 \in E, NEW writer, NEW bytes \in Seq(E), IsWriter(writer, bytes, E),
           NEW additionalBytes \in Nat
    PROVE  LET roomy == EnsureCapacity(writer, additionalBytes).buffer
           IN /\ roomy \in Seq(E)
              /\ Len(roomy) >= writer.position + additionalBytes
              /\ Len(roomy) >= Len(writer.buffer)
              /\ \A i \in 1..Len(writer.buffer) : roomy[i] = writer.buffer[i]
<1>1. PICK array \in Seq(E) : array = writer.buffer
  BY DEF IsWriter
<1>2. PICK position \in Nat : position = writer.position
  BY DEF IsWriter
<1>3. PICK length \in Nat : length = Len(array)
  BY <1>1
<1>4. PICK required : required = position + additionalBytes
  OBVIOUS
<1>5. length >= 1 /\ required \in Nat
  BY <1>1, <1>2, <1>3, <1>4 DEF IsWriter
<1>6. PICK roomy : roomy = EnsureCapacity(writer, additionalBytes).buffer
  OBVIOUS
<1>7. /\ roomy \in Seq(E) /\ Len(roomy) >= required /\ Len(roomy) >= length
      /\ \A i \in 1..length : roomy[i] = array[i]
  <2>1. CASE required <= length
    <3>1. roomy = array
      BY <1>1, <1>2, <1>3, <1>4, <1>6, <2>1, NewSizeOfCapacity
    <3> QED
      BY <1>1, <1>3, <1>5, <2>1, <3>1
  <2>2. CASE ~(required <= length)
    <3>1. PICK size : size = TheNewSize(required)[length * 2]
      OBVIOUS
    <3>2. size \in Nat /\ size >= required /\ size >= length * 2
      <4>1. length * 2 \in Nat /\ length * 2 >= 1
        BY <1>3, <1>5
      <4> QED
        BY <1>5, <3>1, <4>1, NewSizeFits
    <3>3. PICK more : more = size - length
      OBVIOUS
    <3>4. more \in Nat /\ length + more = size
      BY <1>3, <3>2, <3>3
    <3>5. PICK zeros : zeros = [i \in 1..more |-> 0]
      OBVIOUS
    <3>6. zeros \in Seq(E) /\ Len(zeros) = more
      BY <3>4, <3>5
    <3>7. roomy = array \o zeros
      <4>1. EnsureCapacity(writer, additionalBytes) = [writer EXCEPT !.buffer = @ \o zeros]
        BY <1>1, <1>2, <1>3, <1>4, <2>2, <3>1, <3>3, <3>5, NewSizeOfCapacity
      <4>2. writer \in [buffer : Seq(E), position : Nat]
        BY DEF IsWriter
      <4> QED
        BY <1>1, <1>6, <4>1, <4>2
    <3>8. /\ roomy \in Seq(E) /\ Len(roomy) = length + more
          /\ \A i \in 1..length : roomy[i] = array[i]
      BY <1>1, <1>3, <3>6, <3>7, ConcatEntries
    <3> QED
      BY <1>3, <3>2, <3>4, <3>8
  <2> QED
    BY <2>1, <2>2
<1> QED
  BY <1>1, <1>2, <1>3, <1>4, <1>6, <1>7

LEMMA BytesAreWritten ==
    ASSUME NEW E, 0 \in E, NEW writer, NEW bytes \in Seq(E), IsWriter(writer, bytes, E),
           NEW more \in Seq(E)
    PROVE  IsWriter(WriteBytes(writer, more), bytes \o more, E)
<1>1. PICK array \in Seq(E) : array = writer.buffer
  BY DEF IsWriter
<1>2. PICK position \in Nat : position = writer.position
  BY DEF IsWriter
<1>3. PICK roomy : roomy = EnsureCapacity(writer, Len(more)).buffer
  OBVIOUS
<1>4. PICK count \in Nat : count = Len(more)
  OBVIOUS
<1>5. /\ roomy \in Seq(E) /\ Len(roomy) >= position + count /\ Len(roomy) >= Len(array)
      /\ \A i \in 1..Len(array) : roomy[i] = array[i]
  <2>1. Len(more) \in Nat
    OBVIOUS
  <2>2. /\ roomy \in Seq(E) /\ Len(roomy) >= writer.position + Len(more)
        /\ Len(roomy) >= Len(writer.buffer)
        /\ \A i \in 1..Len(writer.buffer) : roomy[i] = writer.buffer[i]
    BY <1>3, <2>1, CapacityIsThere
  <2> QED
    BY <1>1, <1>2, <1>4, <2>2
<1>6. position = Len(bytes) /\ position <= Len(array) /\ SubSeq(array, 1, position) = bytes
  BY <1>1, <1>2 DEF IsWriter
<1>7. PICK behind \in Nat : behind = position + count
  BY <1>2, <1>4
<1>8. PICK size \in Nat : size = Len(roomy)
  BY <1>5
<1>9. SubSeq(roomy, 1, position) = bytes
  BY <1>1, <1>2, <1>5, <1>6, <1>8
<1>10. PICK rest : rest = SubSeq(roomy, behind + 1, size)
  OBVIOUS
<1>11. rest \in Seq(E) /\ Len(rest) = size - behind
  <2>1. behind <= size
    BY <1>2, <1>4, <1>5, <1>7, <1>8
  <2> QED
    BY <1>5, <1>7, <1>8, <1>10, <2>1
<1>12. PICK written : written = bytes \o more
  OBVIOUS
<1>13. written \in Seq(E) /\ Len(written) = behind
  BY <1>2, <1>4, <1>6, <1>7, <1>12, ConcatEntries
<1>14. WriteBytes(writer, more) = [buffer |-> written \o rest, position |-> behind]
  <2>1. ~(behind > size)
    BY <1>2, <1>4, <1>5, <1>7, <1>8
  <2> QED
    BY <1>2, <1>3, <1>4, <1>7, <1>8, <1>9, <1>10, <1>12, <2>1 DEF WriteBytes
<1>15. PICK new : new = written \o rest
  OBVIOUS
<1>16. new \in Seq(E) /\ Len(new) = size /\ \A i \in 1..behind : new[i] = written[i]
  BY <1>7, <1>8, <1>11, <1>13, <1>15, ConcatEntries
<1>17. SubSeq(new, 1, behind) = written
  <2>1. behind <= size
    BY <1>2, <1>4, <1>5, <1>7, <1>8
  <2> QED
    BY <1>7, <1>8, <1>13, <1>16, <2>1
<1>18. size >= 1 /\ behind <= size
  <2>1. Len(array) >= 1 /\ Len(array) \in Nat
    BY <1>1 DEF IsWriter
  <2> QED
    BY <1>2, <1>4, <1>5, <1>7, <1>8, <2>1
<1> QED
  BY <1>7, <1>12, <1>13, <1>14, <1>15, <1>16, <1>17, <1>18 DEF IsWriter

LEMMA IntervalsEnd ==
    ASSUME NEW k \in Nat
    PROVE  /\ 1..(k + 1) # {} /\ Max(1..(k + 1)) = k + 1
           /\ (1..(k + 1)) \ {Max(1..(k + 1))} = 1..k
<1>1. PICK s : s = 1..(k + 1)
  OBVIOUS
<1>2. s \in SUBSET (1..(k + 1)) /\ k + 1 \in s
  BY <1>1
<1>3. Max(s) = k + 1
  BY <1>2, LastCall
<1>4. s # {} /\ s \ {k + 1} = 1..k
  <2>1. \A i : i \in s \ {k + 1} <=> i \in 1..k
    BY <1>1
  <2> QED
    BY <1>2, <2>1
<1> QED
  BY <1>1, <1>3, <1>4

\* What a new writer is told to write is what it gives, one call behind the other.
THEOREM WritesAll ==
    ASSUME NEW E, 0 \in E, NEW calls \in Seq(Seq(E))
    PROVE  WriteAll(calls) = FlattenSeq(calls)
<1>1. PICK n \in Nat : n = Len(calls)
  OBVIOUS
<1>2. PICK f : IsWritten(f, calls, 1..n) /\ f = TheWritten(calls, 1..n)
  BY <1>1, WrittenExists DEF TheWritten
<1>3. DOMAIN calls = 1..n
  BY <1>1
<1>4. PICK joined : joined = [k \in 0..n |-> FlattenSeq(SubSeq(calls, 1, k))]
  OBVIOUS
<1>5. joined[0] = <<>>
  <2>1. SubSeq(calls, 1, 0) = <<>>
    OBVIOUS
  <2>2. 0 \in 0..n
    BY <1>1
  <2> QED
    BY <1>4, <2>1, <2>2, FlattenNothing
<1>6. ASSUME NEW k \in Nat, k < n
      PROVE  /\ joined[k] \in Seq(E) /\ calls[k + 1] \in Seq(E)
             /\ joined[k + 1] = joined[k] \o calls[k + 1]
  <2>1. PICK seqs : seqs = SubSeq(calls, 1, k)
    OBVIOUS
  <2>2. PICK seq : seq = calls[k + 1]
    OBVIOUS
  <2>3. seqs \in Seq(Seq(E)) /\ seq \in Seq(E) /\ SubSeq(calls, 1, k + 1) = Append(seqs, seq)
    BY <1>1, <1>6, <2>1, <2>2
  <2>4. FlattenSeq(Append(seqs, seq)) = FlattenSeq(seqs) \o seq /\ FlattenSeq(seqs) \in Seq(E)
    BY <2>3, FlattenAppend, FlattenType
  <2>5. k \in 0..n /\ k + 1 \in 0..n
    BY <1>6
  <2> QED
    BY <1>4, <2>1, <2>2, <2>3, <2>4, <2>5
<1> DEFINE S == {k \in Nat : k <= n => IsWriter(f[1..k], joined[k], E)}
<1>7. 0 \in S
  <2>1. f[1..0] = NewWriter
    <3>1. 1..0 = {} /\ {} \in SUBSET (1..n)
      OBVIOUS
    <3> QED
      BY <1>2, <3>1, WrittenEntry DEF WrittenAfter
  <2>2. IsWriter(NewWriter, <<>>, E)
    <3>1. PICK size \in Nat : size = DefaultInitialSize /\ size >= 1
      BY WriterAssumption
    <3>2. PICK zeros : zeros = [i \in 1..size |-> 0]
      OBVIOUS
    <3>3. zeros \in Seq(E) /\ Len(zeros) = size /\ SubSeq(zeros, 1, 0) = <<>>
      BY <3>1, <3>2
    <3>4. NewWriter = [buffer |-> zeros, position |-> 0]
      BY <3>1, <3>2 DEF NewWriter
    <3> QED
      BY <3>1, <3>3, <3>4 DEF IsWriter
  <2> QED
    BY <1>5, <2>1, <2>2
<1>8. ASSUME NEW k \in Nat, k \in S PROVE k + 1 \in S
  <2> SUFFICES ASSUME k + 1 <= n PROVE IsWriter(f[1..(k + 1)], joined[k + 1], E)
    BY <1>8
  <2>1. k < n
    BY <1>8
  <2>2. IsWriter(f[1..k], joined[k], E)
    BY <1>8, <2>1
  <2>3. 1..(k + 1) \in SUBSET (1..n)
    BY <1>1, <1>8
  <2>4. f[1..(k + 1)] = WriteBytes(f[1..k], calls[k + 1])
    <3>1. f[1..(k + 1)] = WrittenAfter(f, calls, 1..(k + 1))
      BY <1>2, <2>3, WrittenEntry
    <3> QED
      BY <3>1, <1>8, IntervalsEnd DEF WrittenAfter
  <2>5. IsWriter(WriteBytes(f[1..k], calls[k + 1]), joined[k] \o calls[k + 1], E)
    BY <1>6, <1>8, <2>1, <2>2, BytesAreWritten
  <2> QED
    BY <1>6, <1>8, <2>1, <2>4, <2>5
<1> HIDE DEF S
<1>9. \A k \in Nat : k \in S
  BY <1>7, <1>8, Induction
<1>10. IsWriter(f[1..n], joined[n], E)
  BY <1>9 DEF S
<1>11. joined[n] = FlattenSeq(calls)
  <2>1. SubSeq(calls, 1, n) = calls
    BY <1>1
  <2> QED
    BY <1>4, <2>1
<1>12. FoldLeft(WriteBytes, NewWriter, calls) = f[1..n]
  BY <1>2, <1>3, WriteAllIsWritten
<1> QED
  BY <1>10, <1>11, <1>12 DEF WriteAll, IsWriter

-----------------------------------------------------------------------------
(* Characters. *)

Octet == 0..255
IsPoint(p) == p \in Int /\ p >= 0 /\ p <= 1114111 /\ (p < 55296 \/ p > 57343)

\* A character of n bytes, read back from them.
IsCharacter(bytes, p, n) ==
    /\ bytes \in Seq(Octet) /\ Len(bytes) = n /\ n \in 1..4
    /\ SequenceLength(bytes[1]) = n /\ Point(bytes, n) = p

LEMMA Sixes ==
    ASSUME NEW p \in Nat, NEW a, a = p \div 64, NEW b, b = p % 64
    PROVE  a \in Nat /\ b \in 0..63 /\ p = a * 64 + b /\ p \div 1 = p
BY SMT

LEMMA LengthFromFirst ==
    ASSUME NEW first \in 0..255
    PROVE  /\ first < 128 => SequenceLength(first) = 1
           /\ first \in 194..223 => SequenceLength(first) = 2
           /\ first \in 224..239 => SequenceLength(first) = 3
           /\ first \in 240..244 => SequenceLength(first) = 4
BY SMT DEF SequenceLength

One(a) == <<a>>
Two(a, b) == <<192 + a, 128 + b>>
Three(a, b, c) == <<224 + a, 128 + b, 128 + c>>
Four(a, b, c, d) == <<240 + a, 128 + b, 128 + c, 128 + d>>

\* The digits of a point, six bits each.
Digits3(a, b, c, p) == a \in 0..15 /\ b \in 0..63 /\ c \in 0..63 /\ p = a * 4096 + b * 64 + c
Digits4(a, b, c, d, p) == /\ a \in 0..4 /\ b \in 0..63 /\ c \in 0..63 /\ d \in 0..63
                          /\ p = a * 262144 + b * 4096 + c * 64 + d

LEMMA OneRead ==
    ASSUME NEW p \in 0..127
    PROVE  IsCharacter(One(p), p, 1)
<1> SUFFICES ASSUME NEW bytes, bytes = One(p) PROVE IsCharacter(bytes, p, 1)
  BY SMT
<1>1. bytes[1] = p /\ Len(bytes) = 1 /\ bytes \in Seq(Octet)
  BY SMT DEF Octet, One
<1>2. SequenceLength(bytes[1]) = 1
  <2>1. bytes[1] \in 0..255 /\ bytes[1] < 128
    BY <1>1, SMT
  <2> QED
    BY <2>1, LengthFromFirst, SMT
<1>3. Point(bytes, 1) = p
  BY <1>1, SMT DEF Point
<1> QED
  BY <1>1, <1>2, <1>3, SMT DEF IsCharacter

LEMMA TwoRead ==
    ASSUME NEW a \in 2..31, NEW b \in 0..63,
           NEW p, p = a * 64 + b
    PROVE  IsCharacter(Two(a, b), p, 2)
<1> SUFFICES ASSUME NEW bytes, bytes = Two(a, b) PROVE IsCharacter(bytes, p, 2)
  BY SMT
<1>1. bytes[1] = 192 + a /\ bytes[2] = 128 + b /\ Len(bytes) = 2 /\ bytes \in Seq(Octet)
  BY SMT DEF Octet, Two
<1>2. SequenceLength(bytes[1]) = 2
  <2>1. bytes[1] \in 0..255 /\ bytes[1] \in 194..223
    BY <1>1, SMT
  <2> QED
    BY <2>1, LengthFromFirst, SMT
<1>3. Point(bytes, 2) = (bytes[1] - 192) * 64 + (bytes[2] % 64)
  BY <1>1, SMT DEF Point
<1>4. Point(bytes, 2) = p
  <2>1. bytes[1] - 192 = a
    BY <1>1, SMT
  <2>2. bytes[2] % 64 = b
    <3>1. (128 + b) % 64 = b
      BY SMT
    <3> QED
      BY <1>1, <3>1, SMT
  <2> QED
    BY <1>3, <2>1, <2>2, SMT
<1> QED
  BY <1>1, <1>2, <1>4, SMT DEF IsCharacter

LEMMA ThreeRead ==
    ASSUME NEW a, NEW b, NEW c, NEW p, Digits3(a, b, c, p)
    PROVE  IsCharacter(Three(a, b, c), p, 3)
<1> USE DEF Digits3
<1> SUFFICES ASSUME NEW bytes, bytes = Three(a, b, c) PROVE IsCharacter(bytes, p, 3)
  BY SMT
<1>1. /\ bytes[1] = 224 + a /\ bytes[2] = 128 + b /\ bytes[3] = 128 + c /\ Len(bytes) = 3
      /\ bytes \in Seq(Octet)
  BY SMT DEF Octet, Three
<1>2. SequenceLength(bytes[1]) = 3
  <2>1. bytes[1] \in 0..255 /\ bytes[1] \in 224..239
    BY <1>1, SMT
  <2> QED
    BY <2>1, LengthFromFirst, SMT
<1>3. Point(bytes, 3) = (bytes[1] - 224) * 4096 + (bytes[2] % 64) * 64 + (bytes[3] % 64)
  BY <1>1, SMT DEF Point
<1>4. Point(bytes, 3) = p
  <2>1. bytes[1] - 224 = a
    BY <1>1, SMT
  <2>2. bytes[2] % 64 = b
    <3>1. (128 + b) % 64 = b
      BY SMT
    <3> QED
      BY <1>1, <3>1, SMT
  <2>3. bytes[3] % 64 = c
    <3>1. (128 + c) % 64 = c
      BY SMT
    <3> QED
      BY <1>1, <3>1, SMT
  <2> QED
    BY <1>3, <2>1, <2>2, <2>3, SMT
<1> QED
  BY <1>1, <1>2, <1>4, SMT DEF IsCharacter

LEMMA FourRead ==
    ASSUME NEW a, NEW b, NEW c, NEW d, NEW p, Digits4(a, b, c, d, p)
    PROVE  IsCharacter(Four(a, b, c, d), p, 4)
<1> USE DEF Digits4
<1> SUFFICES ASSUME NEW bytes, bytes = Four(a, b, c, d) PROVE IsCharacter(bytes, p, 4)
  BY SMT
<1>1. /\ bytes[1] = 240 + a /\ bytes[2] = 128 + b /\ bytes[3] = 128 + c /\ bytes[4] = 128 + d
      /\ Len(bytes) = 4 /\ bytes \in Seq(Octet)
  BY SMT DEF Octet, Four
<1>2. SequenceLength(bytes[1]) = 4
  <2>1. bytes[1] \in 0..255 /\ bytes[1] \in 240..244
    BY <1>1, SMT
  <2> QED
    BY <2>1, LengthFromFirst, SMT
<1>3. Point(bytes, 4) = (bytes[1] - 240) * 262144 + (bytes[2] % 64) * 4096
                        + (bytes[3] % 64) * 64 + (bytes[4] % 64)
  BY <1>1, SMT DEF Point
<1>4. Point(bytes, 4) = p
  <2>1. bytes[1] - 240 = a
    BY <1>1, SMT
  <2>2. bytes[2] % 64 = b
    <3>1. (128 + b) % 64 = b
      BY SMT
    <3> QED
      BY <1>1, <3>1, SMT
  <2>3. bytes[3] % 64 = c
    <3>1. (128 + c) % 64 = c
      BY SMT
    <3> QED
      BY <1>1, <3>1, SMT
  <2>4. bytes[4] % 64 = d
    <3>1. (128 + d) % 64 = d
      BY SMT
    <3> QED
      BY <1>1, <3>1, SMT
  <2> QED
    BY <1>3, <2>1, <2>2, <2>3, <2>4, SMT
<1> QED
  BY <1>1, <1>2, <1>4, SMT DEF IsCharacter

LEMMA OneIs ==
    ASSUME NEW p \in Int, p >= 0, p < 128
    PROVE  Utf8Bytes(p) = One(p)
BY SMT DEF Utf8Bytes, One

LEMMA TwoIs ==
    ASSUME NEW p \in Int, p >= 128, p < 2048, NEW a, a = p \div 64, NEW b, b = p % 64,
           p \div 1 = p
    PROVE  Utf8Bytes(p) = Two(a, b)
BY SMT DEF Utf8Bytes, Two

LEMMA ThreeIs ==
    ASSUME NEW p \in Int, p >= 2048, p < 65536, NEW a, a = p \div 4096,
           NEW b, b = (p \div 64) % 64, NEW c, c = p % 64, p \div 1 = p
    PROVE  Utf8Bytes(p) = Three(a, b, c)
BY SMT DEF Utf8Bytes, Three

LEMMA FourIs ==
    ASSUME NEW p \in Int, p >= 65536, NEW a, a = p \div 262144, NEW b, b = (p \div 4096) % 64,
           NEW c, c = (p \div 64) % 64, NEW d, d = p % 64, p \div 1 = p
    PROVE  Utf8Bytes(p) = Four(a, b, c, d)
BY SMT DEF Utf8Bytes, Four

LEMMA OneByte ==
    ASSUME NEW p \in Int, p >= 0, p < 128
    PROVE  IsCharacter(Utf8Bytes(p), p, 1)
<1>1. p \in 0..127
  BY SMT
<1> QED
  BY <1>1, OneIs, OneRead, SMT

LEMMA TwoBytes ==
    ASSUME NEW p \in Int, p >= 128, p < 2048
    PROVE  IsCharacter(Utf8Bytes(p), p, 2)
<1>1. PICK a : a = p \div 64
  OBVIOUS
<1>2. PICK b : b = p % 64
  OBVIOUS
<1>3. p \in Nat
  BY SMT
<1>4. a \in Nat /\ b \in 0..63 /\ p = a * 64 + b /\ p \div 1 = p
  BY <1>1, <1>2, <1>3, Sixes, SMT
<1>5. a \in 2..31
  BY <1>4, SMT
<1>6. Utf8Bytes(p) = Two(a, b)
  BY <1>1, <1>2, <1>4, TwoIs, SMT
<1>7. IsCharacter(Two(a, b), p, 2)
  BY <1>4, <1>5, TwoRead, SMT
<1> QED
  BY <1>4, <1>6, <1>7, SMT

LEMMA ThreeBytes ==
    ASSUME NEW p \in Int, p >= 2048, p < 65536
    PROVE  IsCharacter(Utf8Bytes(p), p, 3)
<1>1. PICK q : q = p \div 64
  OBVIOUS
<1>2. PICK a : a = q \div 64
  OBVIOUS
<1>3. PICK b : b = q % 64
  OBVIOUS
<1>4. PICK c : c = p % 64
  OBVIOUS
<1>5. p \in Nat
  BY SMT
<1>6. q \in Nat /\ c \in 0..63 /\ p = q * 64 + c /\ p \div 1 = p
  BY <1>1, <1>4, <1>5, Sixes, SMT
<1>7. a \in Nat /\ b \in 0..63 /\ q = a * 64 + b
  BY <1>2, <1>3, <1>6, Sixes, SMT
<1>8. a \in 0..15 /\ p = a * 4096 + b * 64 + c
  BY <1>6, <1>7, SMT
<1>9. p \div 4096 = a
  BY <1>6, <1>7, <1>8, SMT
<1>10. Utf8Bytes(p) = Three(a, b, c)
  BY <1>1, <1>3, <1>4, <1>6, <1>9, ThreeIs, SMT
<1>11. IsCharacter(Three(a, b, c), p, 3)
  <2>1. Digits3(a, b, c, p)
    BY <1>6, <1>7, <1>8, SMT DEF Digits3
  <2> QED
    BY <2>1, ThreeRead, SMT
<1> QED
  BY <1>8, <1>10, <1>11, SMT

LEMMA FourBytes ==
    ASSUME NEW p \in Int, p >= 65536, p <= 1114111
    PROVE  IsCharacter(Utf8Bytes(p), p, 4)
<1>1. PICK q : q = p \div 64
  OBVIOUS
<1>2. PICK r : r = q \div 64
  OBVIOUS
<1>3. PICK a : a = r \div 64
  OBVIOUS
<1>4. PICK b : b = r % 64
  OBVIOUS
<1>5. PICK c : c = q % 64
  OBVIOUS
<1>6. PICK d : d = p % 64
  OBVIOUS
<1>7. p \in Nat
  BY SMT
<1>8. q \in Nat /\ d \in 0..63 /\ p = q * 64 + d /\ p \div 1 = p
  BY <1>1, <1>6, <1>7, Sixes, SMT
<1>9. r \in Nat /\ c \in 0..63 /\ q = r * 64 + c
  BY <1>2, <1>5, <1>8, Sixes, SMT
<1>10. a \in Nat /\ b \in 0..63 /\ r = a * 64 + b
  BY <1>3, <1>4, <1>9, Sixes, SMT
<1>11. a \in 0..4 /\ p = a * 262144 + b * 4096 + c * 64 + d
  BY <1>8, <1>9, <1>10, SMT
<1>12. p \div 4096 = r
  BY <1>8, <1>9, SMT
<1>13. p \div 262144 = a
  BY <1>8, <1>9, <1>10, <1>11, SMT
<1>14. Utf8Bytes(p) = Four(a, b, c, d)
  BY <1>1, <1>4, <1>5, <1>6, <1>8, <1>12, <1>13, FourIs, SMT
<1>15. IsCharacter(Four(a, b, c, d), p, 4)
  <2>1. Digits4(a, b, c, d, p)
    BY <1>8, <1>9, <1>10, <1>11, SMT DEF Digits4
  <2> QED
    BY <2>1, FourRead, SMT
<1> QED
  BY <1>11, <1>14, <1>15, SMT

\* How many bytes a character has.
WidthOf(p) == IF p < 128 THEN 1 ELSE IF p < 2048 THEN 2 ELSE IF p < 65536 THEN 3 ELSE 4

LEMMA CharacterIsRead ==
    ASSUME NEW p, IsPoint(p)
    PROVE  IsCharacter(Utf8Bytes(p), p, WidthOf(p))
<1>1. p \in Int /\ p >= 0 /\ p <= 1114111
  BY SMT DEF IsPoint
<1>2. CASE p < 128
  BY <1>1, <1>2, OneByte, SMT DEF WidthOf
<1>3. CASE p >= 128 /\ p < 2048
  BY <1>1, <1>3, TwoBytes, SMT DEF WidthOf
<1>4. CASE p >= 2048 /\ p < 65536
  BY <1>1, <1>4, ThreeBytes, SMT DEF WidthOf
<1>5. CASE p >= 65536
  BY <1>1, <1>5, FourBytes, SMT DEF WidthOf
<1> QED
  BY <1>1, <1>2, <1>3, <1>4, <1>5, SMT

LEMMA PairIsPoint ==
    ASSUME NEW high, NEW low, IsHigh(high), IsLow(low)
    PROVE  /\ IsPoint(PointOfPair(high, low))
           /\ WidthOf(PointOfPair(high, low)) = 4
           /\ CodeUnits(PointOfPair(high, low)) = <<high, low>>
<1>1. PICK a : a = high - 55296
  OBVIOUS
<1>2. PICK b : b = low - 56320
  OBVIOUS
<1>3. a \in 0..1023 /\ b \in 0..1023 /\ high = 55296 + a /\ low = 56320 + b
  BY <1>1, <1>2, SMT DEF IsHigh, IsLow
<1>4. PICK p : p = PointOfPair(high, low)
  OBVIOUS
<1>5. p = 65536 + a * 1024 + b
  BY <1>1, <1>2, <1>4, SMT DEF PointOfPair
<1>6. p \in Int /\ p >= 65536 /\ p <= 1114111
  BY <1>3, <1>5, SMT
<1>7. (p - 65536) \div 1024 = a /\ p % 1024 = b
  BY <1>3, <1>5, SMT
<1>8. CodeUnits(p) = <<high, low>>
  <2>1. ~(p < 65536)
    BY <1>6, SMT
  <2> QED
    BY <1>3, <1>7, <2>1, SMT DEF CodeUnits
<1>9. IsPoint(p) /\ WidthOf(p) = 4
  BY <1>6, SMT DEF IsPoint, WidthOf
<1> QED
  BY <1>4, <1>8, <1>9, SMT

LEMMA UnitIsPoint ==
    ASSUME NEW code \in CodeUnit, ~IsHigh(code), ~IsLow(code)
    PROVE  IsPoint(code) /\ CodeUnits(code) = <<code>>
<1>1. code \in Int /\ code >= 0 /\ code < 65536
  BY UnitRange, SMT
<1>2. IsPoint(code)
  BY <1>1, SMT DEF IsPoint, IsHigh, IsLow
<1>3. CodeUnits(code) = <<code>>
  BY <1>1, SMT DEF CodeUnits
<1> QED
  BY <1>2, <1>3, SMT

-----------------------------------------------------------------------------
(* The characters of a string. *)

Single(code) == ~IsHigh(code) /\ ~IsLow(code)

\* The code point that is encoded at a place where a character begins.
PointAt(str, i) ==
    IF StartsPair(str, i) THEN PointOfPair(str[i], str[i + 1])
    ELSE IF Single(str[i]) THEN str[i] ELSE Replacement
BytesAt(str, i) ==
    CASE EndsPair(str, i)   -> <<>>
      [] StartsPair(str, i) -> Utf8Bytes(PointOfPair(str[i], str[i + 1]))
      [] (IsHigh(str[i]) \/ IsLow(str[i])) /\ ~StartsPair(str, i) /\ ~EndsPair(str, i) ->
            Utf8Bytes(Replacement)
      [] OTHER -> Utf8Bytes(str[i])
UnitAt(str, i) ==
    IF Single(str[i]) \/ StartsPair(str, i) \/ EndsPair(str, i) THEN str[i] ELSE Replacement
Units(str) == [i \in 1..Len(str) |-> UnitAt(str, i)]

LEMMA HighOrLow ==
    ASSUME NEW code, IsHigh(code)
    PROVE  ~IsLow(code)
<1>1. code \in Int /\ code <= 56319
  BY SMT DEF IsHigh
<1>2. IsLow(code) => code >= 56320
  BY SMT DEF IsLow
<1> QED
  BY <1>1, <1>2, SMT

LEMMA ReplacementIsPoint ==
    IsPoint(Replacement) /\ CodeUnits(Replacement) = <<Replacement>> /\ Replacement \in CodeUnit
<1>1. Replacement \in CodeUnit
  BY UnitRange, SMT DEF Replacement
<1>2. ~IsHigh(Replacement) /\ ~IsLow(Replacement)
  BY SMT DEF Replacement, IsHigh, IsLow
<1> QED
  BY <1>1, <1>2, UnitIsPoint, Zenon

LEMMA MarkIsUnit == ByteOrderMark \in CodeUnit
BY UnitRange, SMT DEF ByteOrderMark

LEMMA PairsEnd ==
    ASSUME NEW str \in Seq(CodeUnit), NEW i \in 1..Len(str)
    PROVE  /\ StartsPair(str, i) => /\ i + 1 \in 1..Len(str) /\ EndsPair(str, i + 1)
                                    /\ ~StartsPair(str, i + 1) /\ ~EndsPair(str, i)
           /\ i + 1 \in 1..Len(str) /\ EndsPair(str, i + 1) => StartsPair(str, i)
<1>1. Len(str) \in Nat /\ i \in Nat /\ (i + 1) - 1 = i
  OBVIOUS
<1>2. StartsPair(str, i) => i + 1 \in 1..Len(str) /\ EndsPair(str, i + 1)
  BY <1>1 DEF StartsPair, EndsPair
<1>3. StartsPair(str, i) => ~StartsPair(str, i + 1) /\ ~EndsPair(str, i)
  BY HighOrLow DEF StartsPair, EndsPair
<1>4. i + 1 \in 1..Len(str) /\ EndsPair(str, i + 1) => StartsPair(str, i)
  BY <1>1 DEF StartsPair, EndsPair
<1> QED
  BY <1>2, <1>3, <1>4

LEMMA NothingEndsPair ==
    ASSUME NEW str, NEW i, EndsPair(str, i)
    PROVE  BytesAt(str, i) = <<>>
<1>1. ~StartsPair(str, i)
  BY HighOrLow DEF StartsPair, EndsPair
<1> QED
  BY <1>1 DEF BytesAt

LEMMA PointIsEncoded ==
    ASSUME NEW str \in Seq(CodeUnit), NEW i \in 1..Len(str), ~EndsPair(str, i)
    PROVE  BytesAt(str, i) = Utf8Bytes(PointAt(str, i)) /\ IsPoint(PointAt(str, i))
<1>1. CASE StartsPair(str, i)
  <2>1. BytesAt(str, i) = Utf8Bytes(PointOfPair(str[i], str[i + 1]))
    BY <1>1 DEF BytesAt
  <2>2. IsHigh(str[i]) /\ IsLow(str[i + 1])
    BY <1>1 DEF StartsPair
  <2> QED
    BY <1>1, <2>1, <2>2, PairIsPoint DEF PointAt
<1>2. CASE ~StartsPair(str, i) /\ ~Single(str[i])
  <2>1. BytesAt(str, i) = Utf8Bytes(Replacement)
    BY <1>2 DEF BytesAt, Single
  <2> QED
    BY <1>2, <2>1, ReplacementIsPoint DEF PointAt
<1>3. CASE ~StartsPair(str, i) /\ Single(str[i])
  <2>1. BytesAt(str, i) = Utf8Bytes(str[i])
    BY <1>3 DEF BytesAt, Single
  <2>2. str[i] \in CodeUnit
    OBVIOUS
  <2> QED
    BY <1>3, <2>1, <2>2, UnitIsPoint DEF PointAt, Single
<1> QED
  BY <1>1, <1>2, <1>3

LEMMA PointIsDecoded ==
    ASSUME NEW str \in Seq(CodeUnit), NEW i \in 1..Len(str), ~EndsPair(str, i)
    PROVE  CodeUnits(PointAt(str, i)) =
             IF StartsPair(str, i) THEN <<Units(str)[i], Units(str)[i + 1]>> ELSE <<Units(str)[i]>>
<1>1. Units(str)[i] = UnitAt(str, i)
  BY DEF Units
<1>2. CASE StartsPair(str, i)
  <2>1. i + 1 \in 1..Len(str) /\ EndsPair(str, i + 1)
    BY <1>2, PairsEnd
  <2>2. Units(str)[i] = str[i] /\ Units(str)[i + 1] = str[i + 1]
    BY <1>2, <2>1 DEF Units, UnitAt
  <2>3. IsHigh(str[i]) /\ IsLow(str[i + 1])
    BY <1>2 DEF StartsPair
  <2> QED
    BY <1>2, <2>2, <2>3, PairIsPoint DEF PointAt
<1>3. CASE ~StartsPair(str, i) /\ ~Single(str[i])
  <2>1. PointAt(str, i) = Replacement /\ UnitAt(str, i) = Replacement
    BY <1>3 DEF PointAt, UnitAt
  <2> QED
    BY <1>1, <1>3, <2>1, ReplacementIsPoint
<1>4. CASE ~StartsPair(str, i) /\ Single(str[i])
  <2>1. PointAt(str, i) = str[i] /\ UnitAt(str, i) = str[i]
    BY <1>4 DEF PointAt, UnitAt
  <2>2. str[i] \in CodeUnit
    OBVIOUS
  <2> QED
    BY <1>1, <1>4, <2>1, <2>2, UnitIsPoint DEF Single
<1> QED
  BY <1>2, <1>3, <1>4

LEMMA UnitsType ==
    ASSUME NEW str \in Seq(CodeUnit)
    PROVE  Units(str) \in Seq(CodeUnit) /\ Len(Units(str)) = Len(str)
<1>1. \A i \in 1..Len(str) : UnitAt(str, i) \in CodeUnit
  BY ReplacementIsPoint DEF UnitAt
<1> QED
  BY <1>1 DEF Units

\* What the encoder joins.
Encoded(str) == [i \in 1..Len(str) |-> BytesAt(str, i)]

LEMMA EncodeIsJoined ==
    ASSUME NEW str \in Seq(CodeUnit)
    PROVE  TextEncoderEncode(str) = FlattenSeq(Encoded(str))
<1>1. DOMAIN str = 1..Len(str)
  OBVIOUS
<1> QED
  BY <1>1 DEF TextEncoderEncode, Encoded, BytesAt

LEMMA EncodedType ==
    ASSUME NEW str \in Seq(CodeUnit)
    PROVE  Encoded(str) \in Seq(Seq(Octet)) /\ Len(Encoded(str)) = Len(str)
<1>1. ASSUME NEW i \in 1..Len(str) PROVE BytesAt(str, i) \in Seq(Octet)
  <2>1. CASE EndsPair(str, i)
    <3>1. BytesAt(str, i) = <<>>
      BY <2>1, NothingEndsPair
    <3> QED
      BY <3>1
  <2>2. CASE ~EndsPair(str, i)
    BY <2>2, PointIsEncoded, CharacterIsRead DEF IsCharacter
  <2> QED
    BY <2>1, <2>2
<1> QED
  BY <1>1 DEF Encoded

-----------------------------------------------------------------------------
(* The decoder. *)

CharacterAt(bytes, i) == SubSeq(bytes, i, i + SequenceLength(bytes[i]) - 1)
PointRead(bytes, i) == Point(CharacterAt(bytes, i), SequenceLength(bytes[i]))
ReadsCharacter(bytes, i) ==
    /\ SequenceLength(bytes[i]) > 0
    /\ i + SequenceLength(bytes[i]) - 1 <= Len(bytes)
    /\ EncodedAs(PointRead(bytes, i), CharacterAt(bytes, i))
DecodedFrom(f, bytes, i) ==
    IF i = Len(bytes) + 1 THEN Ok(<<>>)
    ELSE IF ReadsCharacter(bytes, i)
    THEN Before(CodeUnits(PointRead(bytes, i)), f[i + SequenceLength(bytes[i])])
    ELSE Err("TypeError")
IsDecoded(f, bytes) == f = [i \in 1..(Len(bytes) + 1) |-> DecodedFrom(f, bytes, i)]
TheDecoded(bytes) == CHOOSE f : IsDecoded(f, bytes)

LEMMA DecodeIsDecoded ==
    ASSUME NEW bytes
    PROVE  TextDecoderDecode(bytes) = WithoutMark(TheDecoded(bytes)[1])
BY DEF TextDecoderDecode, TheDecoded, IsDecoded, DecodedFrom, ReadsCharacter, PointRead,
       CharacterAt

LEMMA LengthsRead ==
    ASSUME NEW first
    PROVE  SequenceLength(first) \in Nat
BY SMT DEF SequenceLength

LEMMA SameDecoded ==
    ASSUME NEW f, NEW g, NEW bytes, NEW i,
           ReadsCharacter(bytes, i) =>
              f[i + SequenceLength(bytes[i])] = g[i + SequenceLength(bytes[i])]
    PROVE  DecodedFrom(f, bytes, i) = DecodedFrom(g, bytes, i)
BY DEF DecodedFrom

LEMMA DecodedEntry ==
    ASSUME NEW f, NEW bytes, IsDecoded(f, bytes), NEW i \in 1..(Len(bytes) + 1)
    PROVE  f[i] = DecodedFrom(f, bytes, i)
BY DEF IsDecoded

LEMMA Behind ==
    ASSUME NEW total \in Nat, NEW k \in Nat, NEW i \in Nat, NEW n \in Nat, n > 0,
           i + n - 1 <= total, i + (k + 1) >= total + 1, i >= 1
    PROVE  /\ i + n \in 1..(total + 1) /\ (i + n) + k >= total + 1
OBVIOUS

LEMMA DecodedExists ==
    ASSUME NEW bytes, Len(bytes) \in Nat
    PROVE  \E f : IsDecoded(f, bytes)
<1>1. PICK total \in Nat : total = Len(bytes)
  OBVIOUS
<1> DEFINE Good(f, k) == \A i \in 1..(total + 1) :
                            i + k >= total + 1 => f[i] = DecodedFrom(f, bytes, i)
           S == {k \in Nat : \E f : Good(f, k)}
<1>2. 0 \in S
  <2>1. PICK f : f = [i \in 1..(total + 1) |-> Ok(<<>>)]
    OBVIOUS
  <2>2. ASSUME NEW i \in 1..(total + 1), i + 0 >= total + 1 PROVE f[i] = DecodedFrom(f, bytes, i)
    <3>1. i = Len(bytes) + 1
      BY <1>1, <2>2
    <3>2. f[i] = Ok(<<>>)
      BY <2>1
    <3> QED
      BY <3>1, <3>2, Zenon DEF DecodedFrom
  <2> QED
    BY <2>2
<1>3. ASSUME NEW k \in Nat, k \in S PROVE k + 1 \in S
  <2>1. PICK f : Good(f, k)
    BY <1>3
  <2>2. PICK g : g = [i \in 1..(total + 1) |->
                         IF i + k >= total + 1 THEN f[i] ELSE DecodedFrom(f, bytes, i)]
    OBVIOUS
  <2>3. \A i \in 1..(total + 1) : i + k >= total + 1 => g[i] = f[i]
    BY <2>2
  <2>4. ASSUME NEW i \in 1..(total + 1), i + (k + 1) >= total + 1
        PROVE  g[i] = DecodedFrom(g, bytes, i)
    <3>1. g[i] = DecodedFrom(f, bytes, i)
      <4>1. CASE i + k >= total + 1
        BY <2>1, <2>3, <4>1
      <4>2. CASE ~(i + k >= total + 1)
        BY <2>2, <4>2
      <4> QED
        BY <4>1, <4>2
    <3>2. ASSUME ReadsCharacter(bytes, i)
          PROVE  f[i + SequenceLength(bytes[i])] = g[i + SequenceLength(bytes[i])]
      <4>1. PICK n \in Nat : n = SequenceLength(bytes[i])
        BY LengthsRead
      <4>2. n > 0 /\ i + n - 1 <= total
        BY <1>1, <3>2, <4>1 DEF ReadsCharacter
      <4>3. i \in Nat /\ i >= 1
        BY <1>1, <2>4
      <4>4. i + n \in 1..(total + 1) /\ (i + n) + k >= total + 1
        BY <1>3, <2>4, <4>1, <4>2, <4>3, Behind
      <4> QED
        BY <2>3, <4>1, <4>4
    <3> QED
      BY <3>1, <3>2, SameDecoded
  <2>5. Good(g, k + 1)
    BY <2>4
  <2> QED
    BY <1>3, <2>5
<1> HIDE DEF S
<1>4. \A k \in Nat : k \in S
  BY <1>2, <1>3, Induction
<1>5. PICK f : Good(f, total)
  BY <1>1, <1>4 DEF S
<1>6. PICK g : g = [i \in 1..(total + 1) |-> f[i]]
  OBVIOUS
<1>7. ASSUME NEW i \in 1..(total + 1) PROVE g[i] = DecodedFrom(g, bytes, i)
  <2>1. f[i] = DecodedFrom(f, bytes, i)
    BY <1>1, <1>5, <1>7
  <2>2. ASSUME ReadsCharacter(bytes, i)
        PROVE  f[i + SequenceLength(bytes[i])] = g[i + SequenceLength(bytes[i])]
    <3>1. PICK n \in Nat : n = SequenceLength(bytes[i])
      BY LengthsRead
    <3>2. i + n \in 1..(total + 1)
      BY <1>1, <1>7, <2>2, <3>1 DEF ReadsCharacter
    <3> QED
      BY <1>6, <3>1, <3>2
  <2> QED
    BY <1>6, <2>1, <2>2, SameDecoded
<1>8. g = [i \in 1..(total + 1) |-> DecodedFrom(g, bytes, i)]
  BY <1>6, <1>7
<1> QED
  BY <1>1, <1>8 DEF IsDecoded

-----------------------------------------------------------------------------
(* The bytes of a string are read back. *)

LEMMA PartIsThere ==
    ASSUME NEW E, NEW buf \in Seq(E), NEW at \in Nat, NEW part \in Seq(E), Holds(buf, at, part)
    PROVE  SubSeq(buf, at + 1, at + Len(part)) = part
<1>1. PICK n \in Nat : n = Len(part)
  OBVIOUS
<1>2. at + n <= Len(buf) /\ \A k \in 1..n : buf[at + k] = part[k]
  BY <1>1 DEF Holds
<1>3. PICK sub : sub = SubSeq(buf, at + 1, at + n)
  OBVIOUS
<1>4. sub \in Seq(E) /\ Len(sub) = n
  BY <1>1, <1>2, <1>3
<1>5. \A k \in 1..n : sub[k] = buf[at + k]
  BY <1>1, <1>2, <1>3
<1>6. \A k \in 1..n : sub[k] = part[k]
  BY <1>2, <1>5
<1>7. sub = part
  BY <1>1, <1>4, <1>6, SameElements
<1> QED
  BY <1>1, <1>3, <1>7

LEMMA StandingIsHeld ==
    ASSUME NEW E, NEW seqs \in Seq(Seq(E)), NEW f, NEW joined \in Seq(E), Offsets(f, seqs),
           StandAt(f, seqs, joined), NEW i \in 1..Len(seqs)
    PROVE  /\ f[i - 1] \in Nat /\ f[i] = f[i - 1] + Len(seqs[i]) /\ seqs[i] \in Seq(E)
           /\ Holds(joined, f[i - 1], seqs[i])
<1>1. PICK n \in Nat : n = Len(seqs)
  OBVIOUS
<1>2. i \in 1..n /\ i - 1 \in 0..n /\ i \in 0..n /\ n \in 0..n
  BY <1>1
<1>3. seqs[i] \in Seq(E)
  OBVIOUS
<1>4. f[i - 1] \in Nat /\ f[i] \in Nat /\ f[n] \in Nat /\ f[i] = f[i - 1] + Len(seqs[i])
  BY <1>1, <1>2 DEF Offsets
<1>5. f[i] <= f[n]
  <2>1. \A m \in 0..Len(seqs) : \A j \in 0..m : f[j] <= f[m]
    BY OffsetsGrow
  <2> QED
    BY <1>1, <1>2, <2>1
<1>6. f[n] = Len(joined) /\ \A k \in 1..Len(seqs[i]) : joined[f[i - 1] + k] = seqs[i][k]
  BY <1>1 DEF StandAt
<1>7. f[i - 1] + Len(seqs[i]) <= Len(joined)
  BY <1>4, <1>5, <1>6
<1> QED
  BY <1>3, <1>4, <1>6, <1>7 DEF Holds

LEMMA PointIsThere ==
    ASSUME NEW bytes \in Seq(Octet), NEW at \in Nat, NEW p, IsPoint(p),
           Holds(bytes, at, Utf8Bytes(p)), NEW f, IsDecoded(f, bytes)
    PROVE  /\ Utf8Bytes(p) \in Seq(Octet)
           /\ f[at + 1] = Before(CodeUnits(p), f[at + Len(Utf8Bytes(p)) + 1])
<1>1. PICK part : part = Utf8Bytes(p)
  OBVIOUS
<1>2. PICK n : n = WidthOf(p)
  OBVIOUS
<1>3. IsCharacter(part, p, n)
  BY <1>1, <1>2, CharacterIsRead
<1>4. part \in Seq(Octet) /\ Len(part) = n /\ n \in Nat /\ n >= 1
      /\ SequenceLength(part[1]) = n /\ Point(part, n) = p
  BY <1>3, SMT DEF IsCharacter
<1>5. Holds(bytes, at, part)
  BY <1>1
<1>6. at + n <= Len(bytes) /\ bytes[at + 1] = part[1]
  BY <1>4, <1>5 DEF Holds
<1>7. SequenceLength(bytes[at + 1]) = n
  BY <1>4, <1>6, Zenon
<1>8. SubSeq(bytes, at + 1, at + n) = part
  BY <1>4, <1>5, PartIsThere
<1>9. (at + 1) + n - 1 = at + n /\ (at + 1) + n = at + n + 1 /\ at + 1 \in 1..(Len(bytes) + 1)
      /\ at + 1 # Len(bytes) + 1
  BY <1>4, <1>6
<1>10. CharacterAt(bytes, at + 1) = part
  BY <1>7, <1>8, <1>9 DEF CharacterAt
<1>11. PointRead(bytes, at + 1) = p
  BY <1>4, <1>7, <1>10, Zenon DEF PointRead
<1>12. EncodedAs(p, part)
  <2>1. ~IsHigh(p)
    BY SMT DEF IsPoint, IsHigh
  <2>2. ~IsLow(p)
    BY SMT DEF IsPoint, IsLow
  <2>3. p <= 1114111
    BY SMT DEF IsPoint
  <2> QED
    BY <1>1, <2>1, <2>2, <2>3, SMT DEF EncodedAs
<1>13. ReadsCharacter(bytes, at + 1)
  BY <1>4, <1>6, <1>7, <1>9, <1>10, <1>11, <1>12 DEF ReadsCharacter
<1>14. f[at + 1] = DecodedFrom(f, bytes, at + 1)
  BY <1>9, DecodedEntry
<1>15. f[at + 1] = Before(CodeUnits(p), f[at + n + 1])
  BY <1>7, <1>9, <1>11, <1>13, <1>14 DEF DecodedFrom
<1> QED
  BY <1>1, <1>4, <1>15

Rest(str, i) == SubSeq(Units(str), i, Len(str))
DecodesRest(f, d, str, i) == d[f[i - 1] + 1] = Ok(Rest(str, i))
Begins(str, i) == i = Len(str) + 1 \/ (i \in 1..Len(str) /\ ~EndsPair(str, i))

LEMMA RestSplits ==
    ASSUME NEW str \in Seq(CodeUnit), NEW i \in 1..Len(str)
    PROVE  /\ Rest(str, i) = <<Units(str)[i]>> \o Rest(str, i + 1)
           /\ i + 1 \in 1..Len(str) =>
                 Rest(str, i) = <<Units(str)[i], Units(str)[i + 1]>> \o Rest(str, i + 2)
<1>1. PICK units \in Seq(CodeUnit) : units = Units(str)
  BY UnitsType
<1>2. PICK n \in Nat : n = Len(str)
  OBVIOUS
<1>3. Len(units) = n /\ i \in 1..n
  BY <1>1, <1>2, UnitsType
<1>4. SubSeq(units, i, n) = <<units[i]>> \o SubSeq(units, i + 1, n)
  BY <1>3
<1>5. i + 1 \in 1..n => SubSeq(units, i, n) = <<units[i], units[i + 1]>> \o SubSeq(units, i + 2, n)
  BY <1>3
<1> QED
  BY <1>1, <1>2, <1>4, <1>5 DEF Rest

LEMMA NothingLeft ==
    ASSUME NEW str \in Seq(CodeUnit)
    PROVE  Rest(str, Len(str) + 1) = <<>> /\ Rest(str, 1) = Units(str)
<1>1. PICK units \in Seq(CodeUnit) : units = Units(str)
  BY UnitsType
<1>2. PICK n \in Nat : n = Len(str)
  OBVIOUS
<1>3. Len(units) = n
  BY <1>1, <1>2, UnitsType
<1>4. SubSeq(units, n + 1, n) = <<>> /\ SubSeq(units, 1, n) = units
  BY <1>3
<1> QED
  BY <1>1, <1>2, <1>4 DEF Rest

LEMMA BehindCharacter ==
    ASSUME NEW str \in Seq(CodeUnit), NEW i \in 1..Len(str), ~EndsPair(str, i)
    PROVE  /\ StartsPair(str, i) => i + 1 \in 1..Len(str) /\ EndsPair(str, i + 1) /\ Begins(str, i + 2)
           /\ ~StartsPair(str, i) => Begins(str, i + 1)
<1>1. Len(str) \in Nat
  OBVIOUS
<1>2. ASSUME StartsPair(str, i)
      PROVE  i + 1 \in 1..Len(str) /\ EndsPair(str, i + 1) /\ Begins(str, i + 2)
  <2>1. i + 1 \in 1..Len(str) /\ EndsPair(str, i + 1) /\ ~StartsPair(str, i + 1)
    BY <1>2, PairsEnd
  <2>2. (i + 1) + 1 = i + 2 /\ (i + 2 = Len(str) + 1 \/ i + 2 \in 1..Len(str))
    BY <1>1, <2>1
  <2>3. i + 2 \in 1..Len(str) /\ EndsPair(str, i + 2) => StartsPair(str, i + 1)
    BY <2>1, <2>2, PairsEnd
  <2> QED
    BY <2>1, <2>2, <2>3 DEF Begins
<1>3. ASSUME ~StartsPair(str, i) PROVE Begins(str, i + 1)
  <2>1. i + 1 = Len(str) + 1 \/ i + 1 \in 1..Len(str)
    BY <1>1
  <2>2. i + 1 \in 1..Len(str) /\ EndsPair(str, i + 1) => StartsPair(str, i)
    BY PairsEnd
  <2> QED
    BY <1>3, <2>1, <2>2 DEF Begins
<1> QED
  BY <1>2, <1>3

LEMMA PointPrefixed ==
    ASSUME NEW str \in Seq(CodeUnit), NEW i \in 1..Len(str), ~EndsPair(str, i),
           NEW f, Offsets(f, Encoded(str)), StandAt(f, Encoded(str), TextEncoderEncode(str)),
           NEW d, IsDecoded(d, TextEncoderEncode(str))
    PROVE  d[f[i - 1] + 1] = Before(CodeUnits(PointAt(str, i)), d[f[i] + 1])
<1>1. PICK seqs : seqs = Encoded(str)
  OBVIOUS
<1>2. PICK bytes : bytes = TextEncoderEncode(str)
  OBVIOUS
<1>3. seqs \in Seq(Seq(Octet)) /\ Len(seqs) = Len(str)
  BY <1>1, EncodedType
<1>4. bytes = FlattenSeq(seqs) /\ bytes \in Seq(Octet)
  BY <1>1, <1>2, <1>3, EncodeIsJoined, FlattenType
<1>5. i \in 1..Len(seqs)
  BY <1>3
<1>6. /\ f[i - 1] \in Nat /\ f[i] = f[i - 1] + Len(seqs[i])
      /\ Holds(bytes, f[i - 1], seqs[i])
  BY <1>1, <1>2, <1>3, <1>4, <1>5, StandingIsHeld
<1>7. PICK p : p = PointAt(str, i)
  OBVIOUS
<1>8. IsPoint(p) /\ seqs[i] = Utf8Bytes(p)
  BY <1>1, <1>7, PointIsEncoded DEF Encoded
<1>9. PICK at \in Nat : at = f[i - 1]
  BY <1>6
<1>10. Holds(bytes, at, Utf8Bytes(p)) /\ f[i] = at + Len(Utf8Bytes(p))
  BY <1>6, <1>8, <1>9
<1>11. IsDecoded(d, bytes)
  BY <1>2
<1>12. d[at + 1] = Before(CodeUnits(p), d[at + Len(Utf8Bytes(p)) + 1])
  BY <1>4, <1>8, <1>10, <1>11, PointIsThere
<1> QED
  BY <1>7, <1>9, <1>10, <1>12

LEMMA OneBefore ==
    ASSUME NEW units, NEW rest
    PROVE  Before(units, Ok(rest)) = Ok(units \o rest)
BY DEF Before, Ok

LEMMA StringDecodes ==
    ASSUME NEW str \in Seq(CodeUnit),
           NEW f, Offsets(f, Encoded(str)), StandAt(f, Encoded(str), TextEncoderEncode(str)),
           NEW d, IsDecoded(d, TextEncoderEncode(str))
    PROVE  \A i \in 1..(Len(str) + 1) : Begins(str, i) => DecodesRest(f, d, str, i)
<1>1. PICK n \in Nat : n = Len(str)
  OBVIOUS
<1> DEFINE S == {k \in Nat : \A i \in 1..(n + 1) :
                    i + k >= n + 1 /\ Begins(str, i) => DecodesRest(f, d, str, i)}
<1>2. DecodesRest(f, d, str, n + 1)
  <2>1. PICK bytes : bytes = TextEncoderEncode(str)
    OBVIOUS
  <2>2. Len(Encoded(str)) = n /\ Encoded(str) \in Seq(Seq(Octet))
    BY <1>1, EncodedType
  <2>3. f[n] = Len(bytes)
    BY <2>1, <2>2 DEF StandAt
  <2>4. bytes \in Seq(Octet)
    BY <2>1, <2>2, EncodeIsJoined, FlattenType
  <2>5. Len(bytes) + 1 \in 1..(Len(bytes) + 1)
    BY <2>4
  <2>6. d[Len(bytes) + 1] = Ok(<<>>)
    BY <2>1, <2>5, DecodedEntry DEF DecodedFrom
  <2>7. (n + 1) - 1 = n
    OBVIOUS
  <2>8. Rest(str, n + 1) = <<>>
    BY <1>1, NothingLeft
  <2> QED
    BY <2>3, <2>6, <2>7, <2>8 DEF DecodesRest
<1>3. 0 \in S
  <2> SUFFICES ASSUME NEW i \in 1..(n + 1), i + 0 >= n + 1 PROVE DecodesRest(f, d, str, i)
    OBVIOUS
  <2>1. i = n + 1
    OBVIOUS
  <2> QED
    BY <1>2, <2>1
<1>4. ASSUME NEW k \in Nat, k \in S PROVE k + 1 \in S
  <2> SUFFICES ASSUME NEW i \in 1..(n + 1), i + (k + 1) >= n + 1, Begins(str, i)
               PROVE  DecodesRest(f, d, str, i)
    OBVIOUS
  <2>1. CASE i = n + 1
    BY <1>2, <2>1
  <2>2. CASE i # n + 1
    <3>1. i \in 1..Len(str) /\ ~EndsPair(str, i) /\ i \in 1..n
      BY <1>1, <2>2 DEF Begins
    <3>2. d[f[i - 1] + 1] = Before(CodeUnits(PointAt(str, i)), d[f[i] + 1])
      BY <3>1, PointPrefixed
    <3>3. CASE StartsPair(str, i)
      <4>1. i + 1 \in 1..n /\ EndsPair(str, i + 1) /\ Begins(str, i + 2)
        BY <1>1, <3>1, <3>3, BehindCharacter
      <4>2. f[i + 1] = f[i]
        <5>1. Encoded(str)[i + 1] = <<>>
          BY <1>1, <4>1, NothingEndsPair DEF Encoded
        <5>2. Len(Encoded(str)) = n
          BY <1>1, EncodedType
        <5>3. f[i + 1] = f[(i + 1) - 1] + Len(Encoded(str)[i + 1]) /\ f[i] \in Nat
          <6>1. i + 1 \in 1..Len(Encoded(str)) /\ i \in 0..Len(Encoded(str))
            BY <3>1, <4>1, <5>2
          <6> QED
            BY <6>1 DEF Offsets
        <5>4. (i + 1) - 1 = i /\ Len(<<>>) = 0
          BY <3>1
        <5> QED
          BY <5>1, <5>3, <5>4
      <4>3. i + 2 \in 1..(n + 1) /\ (i + 2) + k >= n + 1 /\ (i + 2) - 1 = i + 1
        BY <1>4, <3>1, <4>1
      <4>4. DecodesRest(f, d, str, i + 2)
        BY <1>4, <4>1, <4>3
      <4>5. d[f[i] + 1] = Ok(Rest(str, i + 2))
        BY <4>2, <4>3, <4>4 DEF DecodesRest
      <4>6. CodeUnits(PointAt(str, i)) = <<Units(str)[i], Units(str)[i + 1]>>
        BY <3>1, <3>3, PointIsDecoded
      <4>7. Rest(str, i) = <<Units(str)[i], Units(str)[i + 1]>> \o Rest(str, i + 2)
        BY <1>1, <3>1, <4>1, RestSplits
      <4> QED
        BY <3>2, <4>5, <4>6, <4>7, OneBefore DEF DecodesRest
    <3>4. CASE ~StartsPair(str, i)
      <4>1. Begins(str, i + 1)
        BY <3>1, <3>4, BehindCharacter
      <4>2. i + 1 \in 1..(n + 1) /\ (i + 1) + k >= n + 1 /\ (i + 1) - 1 = i
        BY <1>4, <3>1
      <4>3. DecodesRest(f, d, str, i + 1)
        BY <1>4, <4>1, <4>2
      <4>4. d[f[i] + 1] = Ok(Rest(str, i + 1))
        BY <4>2, <4>3 DEF DecodesRest
      <4>5. CodeUnits(PointAt(str, i)) = <<Units(str)[i]>>
        BY <3>1, <3>4, PointIsDecoded
      <4>6. Rest(str, i) = <<Units(str)[i]>> \o Rest(str, i + 1)
        BY <3>1, RestSplits
      <4> QED
        BY <3>2, <4>4, <4>5, <4>6, OneBefore DEF DecodesRest
    <3> QED
      BY <3>3, <3>4
  <2> QED
    BY <2>1, <2>2
<1> HIDE DEF S
<1>5. \A k \in Nat : k \in S
  BY <1>3, <1>4, Induction
<1>6. n \in S
  BY <1>5
<1> QED
  BY <1>1, <1>6 DEF S

\* What the decoder returns is what was encoded, with lone surrogates replaced, and without
\* a byte order mark in front.
LEMMA CanonicalUnits ==
    ASSUME NEW str \in Seq(CodeUnit)
    PROVE  CanonicalString(str) = IF StartsWith(Units(str), <<ByteOrderMark>>)
                                  THEN Tail(Units(str)) ELSE Units(str)
<1>1. DOMAIN str = 1..Len(str)
  OBVIOUS
<1>2. \A i \in 1..Len(str) :
        UnitAt(str, i) = IF ~StartsPair(str, i) /\ ~EndsPair(str, i) /\ (IsHigh(str[i]) \/ IsLow(str[i]))
                         THEN Replacement ELSE str[i]
  BY Zenon DEF UnitAt, Single
<1>3. Units(str) = [i \in DOMAIN str |->
        IF ~StartsPair(str, i) /\ ~EndsPair(str, i) /\ (IsHigh(str[i]) \/ IsLow(str[i]))
        THEN Replacement ELSE str[i]]
  BY <1>1, <1>2 DEF Units
<1> QED
  BY <1>3, Zenon DEF CanonicalString

LEMMA MarkIsLost ==
    ASSUME NEW units \in Seq(CodeUnit)
    PROVE  WithoutMark(Ok(units)) = Ok(IF StartsWith(units, <<ByteOrderMark>>)
                                       THEN Tail(units) ELSE units)
<1>1. ByteOrderMark \in CodeUnit
  BY MarkIsUnit
<1>2. StartsWith(units, <<ByteOrderMark>>) <=> Len(units) # 0 /\ units[1] = ByteOrderMark
  BY <1>1, StartsWithCharacter
<1>3. (units # <<>> <=> Len(units) # 0) /\ (Len(units) # 0 => Head(units) = units[1])
  OBVIOUS
<1>4. Ok(units).ok /\ Ok(units).value = units
  BY DEF Ok
<1>5. CASE Len(units) # 0 /\ units[1] = ByteOrderMark
  <2>1. WithoutMark(Ok(units)) = Ok(Tail(units))
    BY <1>3, <1>4, <1>5 DEF WithoutMark
  <2> QED
    BY <1>2, <1>5, <2>1
<1>6. CASE ~(Len(units) # 0 /\ units[1] = ByteOrderMark)
  <2>1. WithoutMark(Ok(units)) = Ok(units)
    BY <1>3, <1>4, <1>6 DEF WithoutMark
  <2> QED
    BY <1>2, <1>6, <2>1
<1> QED
  BY <1>5, <1>6

LEMMA DecoderInverts ==
    ASSUME NEW str \in Seq(CodeUnit)
    PROVE  /\ TextEncoderEncode(str) \in Seq(Octet)
           /\ TextDecoderDecode(TextEncoderEncode(str)) = Ok(CanonicalString(str))
<1>1. PICK bytes : bytes = TextEncoderEncode(str)
  OBVIOUS
<1>2. Encoded(str) \in Seq(Seq(Octet)) /\ bytes = FlattenSeq(Encoded(str))
  BY <1>1, EncodedType, EncodeIsJoined
<1>3. bytes \in Seq(Octet)
  BY <1>2, FlattenType
<1>4. HasOffsets(Encoded(str))
  BY <1>2, OffsetsExist
<1>5. PICK f : Offsets(f, Encoded(str)) /\ StandAt(f, Encoded(str), FlattenSeq(Encoded(str)))
  BY <1>4 DEF HasOffsets
<1>6. StandAt(f, Encoded(str), TextEncoderEncode(str))
  BY <1>1, <1>2, <1>5
<1>7. PICK d : d = TheDecoded(bytes)
  OBVIOUS
<1>8. IsDecoded(d, bytes)
  <2>1. \E g : IsDecoded(g, bytes)
    BY <1>3, DecodedExists
  <2> QED
    BY <1>7, <2>1 DEF TheDecoded
<1>9. IsDecoded(d, TextEncoderEncode(str))
  BY <1>1, <1>8
<1>10. \A i \in 1..(Len(str) + 1) : Begins(str, i) => DecodesRest(f, d, str, i)
  BY <1>5, <1>6, <1>9, StringDecodes
<1>11. Begins(str, 1) /\ 1 \in 1..(Len(str) + 1)
  <2>1. Len(str) \in Nat
    OBVIOUS
  <2>2. ~EndsPair(str, 1)
    BY DEF EndsPair
  <2> QED
    BY <2>1, <2>2 DEF Begins
<1>12. f[0] = 0
  BY <1>5 DEF Offsets
<1>13. d[1] = Ok(Units(str))
  <2>1. 1 - 1 = 0 /\ 0 + 1 = 1
    OBVIOUS
  <2>2. d[f[1 - 1] + 1] = Ok(Rest(str, 1))
    BY <1>10, <1>11 DEF DecodesRest
  <2> QED
    BY <1>12, <2>1, <2>2, NothingLeft
<1>14. TextDecoderDecode(bytes) = WithoutMark(Ok(Units(str)))
  BY <1>7, <1>13, DecodeIsDecoded
<1>15. WithoutMark(Ok(Units(str))) = Ok(CanonicalString(str))
  BY UnitsType, MarkIsLost, CanonicalUnits
<1> QED
  BY <1>1, <1>3, <1>14, <1>15

Forbidden(code) == code = 0 \/ code \in 1..31 \/ code \in 127..159

LEMMA ForbiddenAreSingle ==
    ASSUME NEW code, Forbidden(code)
    PROVE  Single(code) /\ code # ByteOrderMark
<1>1. code \in Int /\ code <= 159
  BY SMT DEF Forbidden
<1>2. ~IsHigh(code) /\ ~IsLow(code)
  <2>1. IsHigh(code) => code >= 55296
    BY SMT DEF IsHigh
  <2>2. IsLow(code) => code >= 56320
    BY SMT DEF IsLow
  <2> QED
    BY <1>1, <2>1, <2>2, SMT
<1>3. code # ByteOrderMark
  BY <1>1, SMT DEF ByteOrderMark
<1> QED
  BY <1>2, <1>3 DEF Single

LEMMA ReplacementIsAllowed == ~Forbidden(Replacement) /\ ~Forbidden(ByteOrderMark)
BY SMT DEF Forbidden, Replacement, ByteOrderMark

LEMMA ValidIsAllowed ==
    ASSUME NEW str \in Seq(CodeUnit)
    PROVE  IsValidMqttString(str) <=> \A i \in 1..Len(str) : ~Forbidden(str[i])
<1>1. DOMAIN str = 1..Len(str)
  OBVIOUS
<1>2. ASSUME NEW i
      PROVE  ~Forbidden(str[i]) <=> (str[i] # 0 /\ str[i] \notin 1..31 /\ str[i] \notin 127..159)
  BY Zenon DEF Forbidden
<1>3. PICK places : places = DOMAIN str
  OBVIOUS
<1>4. IsValidMqttString(str) <=>
        \A i \in places : str[i] # 0 /\ str[i] \notin 1..31 /\ str[i] \notin 127..159
  BY <1>3, Zenon DEF IsValidMqttString
<1>5. IsValidMqttString(str) <=> \A i \in places : ~Forbidden(str[i])
  BY <1>2, <1>4, Zenon
<1> QED
  BY <1>1, <1>3, <1>5, Zenon

LEMMA MinusFirst ==
    ASSUME NEW units \in Seq(CodeUnit), Len(units) # 0
    PROVE  /\ Tail(units) \in Seq(CodeUnit) /\ Len(Tail(units)) = Len(units) - 1
           /\ Len(units) - 1 \in Nat
           /\ \A i \in 1..(Len(units) - 1) : Tail(units)[i] = units[i + 1]
OBVIOUS

LEMMA CanonicalIsAsValid ==
    ASSUME NEW str \in Seq(CodeUnit)
    PROVE  /\ CanonicalString(str) \in Seq(CodeUnit)
           /\ IsValidMqttString(CanonicalString(str)) <=> IsValidMqttString(str)
<1>1. PICK units \in Seq(CodeUnit) : units = Units(str)
  BY UnitsType
<1>2. PICK n \in Nat : n = Len(str)
  OBVIOUS
<1>3. Len(units) = n
  BY <1>1, <1>2, UnitsType
<1>4. PICK value : value = CanonicalString(str)
  OBVIOUS
<1>5. ASSUME NEW i \in 1..n PROVE Forbidden(units[i]) <=> Forbidden(str[i])
  <2>1. units[i] = UnitAt(str, i)
    BY <1>1, <1>2 DEF Units
  <2>2. CASE Forbidden(str[i])
    <3>1. Single(str[i])
      BY <2>2, ForbiddenAreSingle
    <3> QED
      BY <2>1, <2>2, <3>1 DEF UnitAt
  <2>3. CASE ~Forbidden(str[i])
    <3>1. UnitAt(str, i) = str[i] \/ UnitAt(str, i) = Replacement
      BY DEF UnitAt
    <3> QED
      BY <2>1, <2>3, <3>1, ReplacementIsAllowed
  <2> QED
    BY <2>2, <2>3
<1>6. (\A i \in 1..n : ~Forbidden(units[i])) <=> (\A i \in 1..n : ~Forbidden(str[i]))
  BY <1>5
<1>7. IsValidMqttString(str) <=> \A i \in 1..n : ~Forbidden(str[i])
  BY <1>2, ValidIsAllowed
<1>8. ByteOrderMark \in CodeUnit
  BY MarkIsUnit
<1>9. StartsWith(units, <<ByteOrderMark>>) <=> n # 0 /\ units[1] = ByteOrderMark
  BY <1>3, <1>8, StartsWithCharacter
<1>10. value = IF StartsWith(units, <<ByteOrderMark>>) THEN Tail(units) ELSE units
  BY <1>1, <1>4, CanonicalUnits
<1>11. CASE n # 0 /\ units[1] = ByteOrderMark
  <2>1. value = Tail(units)
    BY <1>9, <1>10, <1>11
  <2>2. Len(units) # 0
    BY <1>3, <1>11
  <2>3. value \in Seq(CodeUnit) /\ Len(value) = n - 1 /\ n - 1 \in Nat
        /\ \A i \in 1..(n - 1) : value[i] = units[i + 1]
    BY <1>3, <2>1, <2>2, MinusFirst
  <2>4. IsValidMqttString(value) <=> \A i \in 1..(n - 1) : ~Forbidden(value[i])
    BY <2>3, ValidIsAllowed
  <2>5. ASSUME \A i \in 1..(n - 1) : ~Forbidden(value[i])
        PROVE  \A i \in 1..n : ~Forbidden(units[i])
    <3> TAKE i \in 1..n
    <3>1. CASE i = 1
      BY <1>11, <3>1, ReplacementIsAllowed
    <3>2. CASE i # 1
      <4>1. i - 1 \in 1..(n - 1) /\ (i - 1) + 1 = i
        BY <3>2
      <4>2. value[i - 1] = units[(i - 1) + 1] /\ ~Forbidden(value[i - 1])
        BY <2>3, <2>5, <4>1
      <4> QED
        BY <4>1, <4>2
    <3> QED
      BY <3>1, <3>2
  <2>6. ASSUME \A i \in 1..n : ~Forbidden(units[i])
        PROVE  \A i \in 1..(n - 1) : ~Forbidden(value[i])
    <3> TAKE i \in 1..(n - 1)
    <3>1. i + 1 \in 1..n
      BY <1>2
    <3> QED
      BY <2>3, <2>6, <3>1
  <2> QED
    BY <1>4, <1>6, <1>7, <2>3, <2>4, <2>5, <2>6
<1>12. CASE ~(n # 0 /\ units[1] = ByteOrderMark)
  <2>1. value = units
    BY <1>9, <1>10, <1>12
  <2>2. IsValidMqttString(value) <=> \A i \in 1..n : ~Forbidden(units[i])
    BY <1>3, <2>1, ValidIsAllowed
  <2> QED
    BY <1>4, <1>6, <1>7, <2>1, <2>2
<1> QED
  BY <1>11, <1>12

-----------------------------------------------------------------------------
(* Behind a length of two bytes. *)

LEMMA OctetsAreBytes == Octet \subseteq Int /\ Thrown \notin Octet /\ Throws(RangeError)
<1>1. Octet \subseteq Int /\ Thrown \notin Octet
  BY SMT DEF Octet, Thrown
<1>2. <<Thrown>>[1] = Thrown /\ 1 \in DOMAIN <<Thrown>>
  BY SMT
<1>3. Throws(<<Thrown>>)
  BY <1>2 DEF Throws, ToSet
<1> QED
  BY <1>1, <1>3 DEF RangeError

LEMMA OctetsDoNotThrow ==
    ASSUME NEW bytes \in Seq(Octet)
    PROVE  ~Throws(bytes)
<1>1. \A i \in DOMAIN bytes : bytes[i] \in Octet
  OBVIOUS
<1> QED
  BY <1>1, OctetsAreBytes, Zenon DEF Throws, ToSet

LengthBytes(n) == <<n \div 256, n % 256>>
IsLengthBytes(first, second, n) == first \in 0..255 /\ second \in 0..255 /\ n = first * 256 + second

LEMMA LengthInTwo ==
    ASSUME NEW n \in Nat, n <= 65535
    PROVE  IsLengthBytes(n \div 256, n % 256, n)
BY SMT DEF IsLengthBytes

LEMMA LengthBytesType ==
    ASSUME NEW n \in Nat, n <= 65535
    PROVE  /\ LengthBytes(n) \in Seq(Octet) /\ Len(LengthBytes(n)) = 2
           /\ LengthBytes(n)[1] * 256 + LengthBytes(n)[2] = n
<1>1. PICK first : first = n \div 256
  OBVIOUS
<1>2. PICK second : second = n % 256
  OBVIOUS
<1>3. IsLengthBytes(first, second, n)
  BY <1>1, <1>2, LengthInTwo, SMT
<1>4. first \in Octet /\ second \in Octet /\ first \in Int /\ second \in Int
  BY <1>3, SMT DEF IsLengthBytes, Octet
<1>5. first * 256 + second = n
  BY <1>3, SMT DEF IsLengthBytes
<1>6. PICK two : two = LengthBytes(n)
  OBVIOUS
<1>7. two = <<first, second>>
  BY <1>1, <1>2, <1>6, SMT DEF LengthBytes
<1>8. two \in Seq(Octet) /\ Len(two) = 2 /\ two[1] = first /\ two[2] = second
  BY <1>4, <1>7, SMT
<1> QED
  BY <1>5, <1>6, <1>8, SMT

LEMMA LongestString == MaxStringLength \in Int /\ MaxStringLength <= 65535
BY StringAssumption, SMT

LEMMA PrefixedType ==
    ASSUME NEW bytes \in Seq(Octet)
    PROVE  /\ Throws(Prefixed(bytes)) <=> Len(bytes) > MaxStringLength
           /\ ~Throws(Prefixed(bytes)) =>
                 /\ Prefixed(bytes) = LengthBytes(Len(bytes)) \o bytes /\ Len(bytes) <= 65535
                 /\ Prefixed(bytes) \in Seq(Octet) /\ Len(Prefixed(bytes)) = 2 + Len(bytes)
<1>1. PICK n \in Nat : n = Len(bytes)
  OBVIOUS
<1>2. MaxStringLength \in Int /\ MaxStringLength <= 65535
  BY LongestString, SMT
<1>3. CASE n > MaxStringLength
  BY <1>1, <1>3, OctetsAreBytes DEF Prefixed
<1>4. CASE ~(n > MaxStringLength)
  <2>1. n <= 65535
    BY <1>2, <1>4, SMT
  <2>2. Prefixed(bytes) = LengthBytes(n) \o bytes
    BY <1>1, <1>4 DEF Prefixed, LengthBytes
  <2>3. LengthBytes(n) \in Seq(Octet) /\ Len(LengthBytes(n)) = 2
    BY <2>1, LengthBytesType, SMT
  <2>4. PICK two : two = LengthBytes(n)
    OBVIOUS
  <2>5. two \o bytes \in Seq(Octet) /\ Len(two \o bytes) = 2 + n
    <3>1. two \in Seq(Octet) /\ Len(two) = 2
      BY <2>3, <2>4
    <3>2. two \o bytes \in Seq(Octet) /\ Len(two \o bytes) = Len(two) + Len(bytes)
      BY <3>1, ConcatEntries
    <3> QED
      BY <1>1, <3>1, <3>2, SMT
  <2>6. ~Throws(Prefixed(bytes))
    BY <2>2, <2>4, <2>5, OctetsDoNotThrow
  <2> QED
    BY <1>1, <1>4, <2>1, <2>2, <2>4, <2>5, <2>6
<1> QED
  BY <1>3, <1>4

\* Held is what is held in parts, one behind the other.
LEMMA HoldsBoth ==
    ASSUME NEW E, NEW a \in Seq(E), NEW b \in Seq(E), NEW buf, NEW offset \in Nat,
           Len(buf) \in Nat, Holds(buf, offset, a \o b)
    PROVE  Holds(buf, offset, a) /\ Holds(buf, offset + Len(a), b)
<1>1. PICK n \in Nat : n = Len(a)
  OBVIOUS
<1>2. PICK m \in Nat : m = Len(b)
  OBVIOUS
<1>3. PICK both : both = a \o b
  OBVIOUS
<1>4. /\ both \in Seq(E) /\ Len(both) = n + m
      /\ \A i \in 1..n : both[i] = a[i]
      /\ \A i \in 1..m : both[n + i] = b[i]
  BY <1>1, <1>2, <1>3, ConcatEntries
<1>5. offset + (n + m) <= Len(buf) /\ \A i \in 1..(n + m) : buf[offset + i] = both[i]
  BY <1>3, <1>4 DEF Holds
<1>6. ASSUME NEW i \in 1..n PROVE buf[offset + i] = a[i]
  <2>1. i \in 1..(n + m)
    OBVIOUS
  <2> QED
    BY <1>4, <1>5, <2>1
<1>7. ASSUME NEW i \in 1..m PROVE buf[(offset + n) + i] = b[i]
  <2>1. n + i \in 1..(n + m) /\ (offset + n) + i = offset + (n + i)
    OBVIOUS
  <2> QED
    BY <1>4, <1>5, <2>1
<1>8. offset + n <= Len(buf) /\ (offset + n) + m <= Len(buf)
  BY <1>5
<1> QED
  BY <1>1, <1>2, <1>6, <1>7, <1>8 DEF Holds

LEMMA PrefixedIsRead ==
    ASSUME NEW bytes \in Seq(Octet), ~Throws(Prefixed(bytes)), NEW buf \in Seq(Octet),
           NEW offset \in Nat, Holds(buf, offset, Prefixed(bytes))
    PROVE  LengthPrefixed(buf, offset) = Ok(bytes)
<1>1. PICK n \in Nat : n = Len(bytes)
  OBVIOUS
<1>2. Prefixed(bytes) = LengthBytes(n) \o bytes /\ n <= 65535
  BY <1>1, PrefixedType
<1>3. PICK two : two = LengthBytes(n)
  OBVIOUS
<1>4. two \in Seq(Octet) /\ Len(two) = 2 /\ two[1] * 256 + two[2] = n
  BY <1>2, <1>3, LengthBytesType
<1>5. Len(buf) \in Nat
  OBVIOUS
<1>6. Holds(buf, offset, two \o bytes)
  BY <1>2, <1>3
<1>7. Holds(buf, offset, two) /\ Holds(buf, offset + 2, bytes)
  BY <1>4, <1>5, <1>6, HoldsBoth
<1>8. buf[offset + 1] = two[1] /\ buf[offset + 2] = two[2]
  BY <1>4, <1>7 DEF Holds
<1>9. offset + 2 + n <= Len(buf)
  BY <1>1, <1>7 DEF Holds
<1>10. SubSeq(buf, (offset + 2) + 1, (offset + 2) + n) = bytes
  <2>1. offset + 2 \in Nat
    OBVIOUS
  <2> QED
    BY <1>1, <1>7, <2>1, PartIsThere
<1>11. (offset + 2) + 1 = offset + 3
  OBVIOUS
<1>12. buf[offset + 1] * 256 + buf[offset + 2] = n
  BY <1>4, <1>8
<1>13. ~(offset + 2 > Len(buf)) /\ ~(offset + 2 + n > Len(buf))
  BY <1>5, <1>9
<1> QED
  BY <1>10, <1>11, <1>12, <1>13 DEF LengthPrefixed

\* What encodeMqttString() writes, decodeMqttString() reads back wherever in a buffer it stands:
\* the string as UTF-8 can say it, unless MQTT forbids one of its characters.
THEOREM StringsAreReadBack ==
    ASSUME NEW str \in Seq(CodeUnit), ~Throws(EncodeMqttString(str)),
           NEW buf \in Seq(Octet), NEW offset \in Nat, Holds(buf, offset, EncodeMqttString(str))
    PROVE  DecodeMqttString(buf, offset) =
             IF IsValidMqttString(str)
             THEN Ok([value |-> CanonicalString(str), bytesRead |-> Len(EncodeMqttString(str))])
             ELSE Err("MALFORMED_UTF8")
<1>1. PICK bytes : bytes = TextEncoderEncode(str)
  OBVIOUS
<1>2. PICK value : value = CanonicalString(str)
  OBVIOUS
<1>3. bytes \in Seq(Octet) /\ TextDecoderDecode(bytes) = Ok(value)
  BY <1>1, <1>2, DecoderInverts
<1>4. EncodeMqttString(str) = Prefixed(bytes)
  BY <1>1 DEF EncodeMqttString
<1>5. Len(Prefixed(bytes)) = 2 + Len(bytes)
  BY <1>3, <1>4, PrefixedType
<1>6. LengthPrefixed(buf, offset) = Ok(bytes)
  BY <1>3, <1>4, PrefixedIsRead
<1>7. DecodeUtf8(bytes) = Ok(value)
  BY <1>3 DEF DecodeUtf8, WellFormed, Ok
<1>8. DecodeMqttString(buf, offset) = Measured(ValidateMqttUtf8(bytes), bytes)
  BY <1>6 DEF DecodeMqttString, StringOf, Ok
<1>9. IsValidMqttString(value) <=> IsValidMqttString(str)
  BY <1>2, CanonicalIsAsValid
<1>10. CASE IsValidMqttString(str)
  <2>1. ValidateMqttUtf8(bytes) = Ok(value)
    BY <1>7, <1>9, <1>10 DEF ValidateMqttUtf8, Allowed, Ok
  <2>2. Measured(Ok(value), bytes) = Ok([value |-> value, bytesRead |-> 2 + Len(bytes)])
    BY DEF Measured, Ok
  <2> QED
    BY <1>2, <1>4, <1>5, <1>8, <1>10, <2>1, <2>2
<1>11. CASE ~IsValidMqttString(str)
  <2>1. ValidateMqttUtf8(bytes) = Err("MALFORMED_UTF8")
    BY <1>7, <1>9, <1>11 DEF ValidateMqttUtf8, Allowed, Ok
  <2>2. Measured(Err("MALFORMED_UTF8"), bytes) = Err("MALFORMED_UTF8")
    BY DEF Measured, Err
  <2> QED
    BY <1>8, <1>11, <2>1, <2>2
<1> QED
  BY <1>10, <1>11

\* What encodeMqttBinary() writes, decodeMqttBinary() reads back wherever in a buffer it stands.
THEOREM BinaryIsReadBack ==
    ASSUME NEW data \in Seq(Octet), ~Throws(EncodeMqttBinary(data)),
           NEW buf \in Seq(Octet), NEW offset \in Nat, Holds(buf, offset, EncodeMqttBinary(data))
    PROVE  DecodeMqttBinary(buf, offset) =
             Ok([value |-> data, bytesRead |-> Len(EncodeMqttBinary(data))])
<1>1. EncodeMqttBinary(data) = Prefixed(data)
  BY DEF EncodeMqttBinary
<1>2. Len(Prefixed(data)) = 2 + Len(data)
  BY <1>1, PrefixedType
<1>3. LengthPrefixed(buf, offset) = Ok(data)
  BY <1>1, PrefixedIsRead
<1>4. Measured(Ok(data), data) = Ok([value |-> data, bytesRead |-> 2 + Len(data)])
  BY DEF Measured, Ok
<1>5. Ok(data).value = data
  BY DEF Ok
<1> QED
  BY <1>1, <1>2, <1>3, <1>4, <1>5 DEF DecodeMqttBinary, BinaryOf

-----------------------------------------------------------------------------
(* Sums over sets, added up in any order. *)

\* What MapThenSumSet builds: the sum of a set from the one without some member.
SummedAfter(f, h, s) ==
    IF s = {} THEN 0 ELSE h[CHOOSE x \in s : TRUE] + f[s \ {CHOOSE x \in s : TRUE}]
IsSummed(f, h, D) == f = [s \in SUBSET D |-> SummedAfter(f, h, s)]

\* The same, added up from the first to the last.
Taken(h, s, m) == IF m \in s THEN h[m] ELSE 0
IsPartial(p, h, s, n) ==
    p \in [0..n -> Nat] /\ p[0] = 0 /\ \A m \in 1..n : p[m] = p[m - 1] + Taken(h, s, m)
Total(h, s, n) == (CHOOSE p : IsPartial(p, h, s, n))[n]

LEMMA PartialExists ==
    ASSUME NEW n \in Nat, NEW h \in [1..n -> Nat], NEW s
    PROVE  \E p : IsPartial(p, h, s, n)
<1>1. PICK next : next = [m \in 1..n |-> [y \in Nat |-> y + Taken(h, s, m)]]
  OBVIOUS
<1>2. \A m \in 1..n : Taken(h, s, m) \in Nat
  BY DEF Taken
<1>3. Steps(next, n, Nat) /\ 0 \in Nat
  BY <1>1, <1>2 DEF Steps
<1>4. PICK p : Recursion(p, 0, next, n, Nat)
  BY <1>3, RecursionExists
<1>5. ASSUME NEW m \in 1..n PROVE p[m] = p[m - 1] + Taken(h, s, m)
  <2>1. p[m] = next[m][p[m - 1]] /\ p[m - 1] \in Nat
    BY <1>4 DEF Recursion
  <2> QED
    BY <1>1, <2>1
<1> QED
  BY <1>4, <1>5 DEF IsPartial, Recursion

LEMMA PartialsAgree ==
    ASSUME NEW n \in Nat, NEW h, NEW s, NEW p, NEW q, IsPartial(p, h, s, n), IsPartial(q, h, s, n)
    PROVE  p[n] = q[n]
<1> DEFINE S == {m \in Nat : m <= n => p[m] = q[m]}
<1>1. 0 \in S
  BY DEF IsPartial
<1>2. ASSUME NEW m \in Nat, m \in S PROVE m + 1 \in S
  <2> SUFFICES ASSUME m + 1 <= n PROVE p[m + 1] = q[m + 1]
    BY <1>2
  <2>1. m + 1 \in 1..n /\ (m + 1) - 1 = m /\ m <= n
    BY <1>2
  <2>2. p[m + 1] = p[m] + Taken(h, s, m + 1) /\ q[m + 1] = q[m] + Taken(h, s, m + 1)
    BY <2>1 DEF IsPartial
  <2> QED
    BY <1>2, <2>1, <2>2
<1> HIDE DEF S
<1>3. \A m \in Nat : m \in S
  BY <1>1, <1>2, Induction
<1> QED
  BY <1>3 DEF S

LEMMA TotalIs ==
    ASSUME NEW n \in Nat, NEW h, NEW s, NEW p, IsPartial(p, h, s, n)
    PROVE  Total(h, s, n) = p[n]
<1>1. PICK q : q = CHOOSE r : IsPartial(r, h, s, n)
  OBVIOUS
<1>2. IsPartial(q, h, s, n)
  BY <1>1
<1>3. p[n] = q[n]
  BY <1>2, PartialsAgree
<1> QED
  BY <1>1, <1>3 DEF Total

LEMMA TotalType ==
    ASSUME NEW n \in Nat, NEW h \in [1..n -> Nat], NEW s
    PROVE  Total(h, s, n) \in Nat
<1>1. PICK p : IsPartial(p, h, s, n)
  BY PartialExists
<1>2. p[n] \in Nat
  BY <1>1 DEF IsPartial
<1> QED
  BY <1>1, <1>2, TotalIs

LEMMA TotalOfNothing ==
    ASSUME NEW n \in Nat, NEW h
    PROVE  Total(h, {}, n) = 0
<1>1. PICK p : p = [m \in 0..n |-> 0]
  OBVIOUS
<1>2. IsPartial(p, h, {}, n)
  BY <1>1 DEF IsPartial, Taken
<1>3. p[n] = 0
  BY <1>1
<1> QED
  BY <1>2, <1>3, TotalIs

LEMMA TotalWithout ==
    ASSUME NEW n \in Nat, NEW h \in [1..n -> Nat], NEW s \in SUBSET (1..n), NEW x \in s
    PROVE  Total(h, s, n) = h[x] + Total(h, s \ {x}, n)
<1>1. PICK p : IsPartial(p, h, s, n)
  BY PartialExists
<1>2. PICK q : IsPartial(q, h, s \ {x}, n)
  BY PartialExists
<1>3. x \in 1..n /\ h[x] \in Nat
  OBVIOUS
<1> DEFINE S == {m \in Nat : m <= n => p[m] = q[m] + (IF x <= m THEN h[x] ELSE 0)}
<1>4. 0 \in S
  BY <1>1, <1>2, <1>3 DEF IsPartial
<1>5. ASSUME NEW m \in Nat, m \in S PROVE m + 1 \in S
  <2> SUFFICES ASSUME m + 1 <= n
               PROVE  p[m + 1] = q[m + 1] + (IF x <= m + 1 THEN h[x] ELSE 0)
    BY <1>5
  <2>1. m + 1 \in 1..n /\ (m + 1) - 1 = m /\ m \in 0..n
    BY <1>5
  <2>2. /\ p[m + 1] = p[m] + Taken(h, s, m + 1)
        /\ q[m + 1] = q[m] + Taken(h, s \ {x}, m + 1)
        /\ p[m] \in Nat /\ q[m] \in Nat
    BY <1>1, <1>2, <2>1 DEF IsPartial
  <2>3. p[m] = q[m] + (IF x <= m THEN h[x] ELSE 0)
    BY <1>5, <2>1
  <2>4. CASE x = m + 1
    <3>1. Taken(h, s, m + 1) = h[x] /\ Taken(h, s \ {x}, m + 1) = 0
      BY <2>4 DEF Taken
    <3> QED
      BY <1>3, <2>2, <2>3, <2>4, <3>1
  <2>5. CASE x # m + 1
    <3>1. Taken(h, s, m + 1) = Taken(h, s \ {x}, m + 1) /\ Taken(h, s, m + 1) \in Nat
      BY <2>1, <2>5 DEF Taken
    <3>2. x <= m + 1 <=> x <= m
      BY <1>3, <2>5
    <3> QED
      BY <1>3, <2>2, <2>3, <3>1, <3>2
  <2> QED
    BY <2>4, <2>5
<1> HIDE DEF S
<1>6. \A m \in Nat : m \in S
  BY <1>4, <1>5, Induction
<1>7. p[n] = q[n] + h[x] /\ q[n] \in Nat
  <2>1. p[n] = q[n] + (IF x <= n THEN h[x] ELSE 0)
    BY <1>6 DEF S
  <2>2. q[n] \in Nat
    BY <1>2 DEF IsPartial
  <2> QED
    BY <1>3, <2>1, <2>2
<1>8. Total(h, s, n) = p[n] /\ Total(h, s \ {x}, n) = q[n]
  BY <1>1, <1>2, TotalIs
<1> QED
  BY <1>3, <1>7, <1>8

LEMMA SummedExists ==
    ASSUME NEW n \in Nat, NEW h \in [1..n -> Nat]
    PROVE  \E f : IsSummed(f, h, 1..n)
<1>1. PICK f : f = [s \in SUBSET (1..n) |-> Total(h, s, n)]
  OBVIOUS
<1>2. ASSUME NEW s \in SUBSET (1..n) PROVE f[s] = SummedAfter(f, h, s)
  <2>1. CASE s = {}
    BY <1>1, <2>1, TotalOfNothing DEF SummedAfter
  <2>2. CASE s # {}
    <3>1. PICK x : x = CHOOSE y \in s : TRUE
      OBVIOUS
    <3>2. x \in s
      BY <2>2, <3>1
    <3>3. s \ {x} \in SUBSET (1..n)
      OBVIOUS
    <3>4. f[s] = h[x] + f[s \ {x}]
      BY <1>1, <3>2, <3>3, TotalWithout
    <3> QED
      BY <2>2, <3>1, <3>4 DEF SummedAfter
  <2> QED
    BY <2>1, <2>2
<1>3. f = [s \in SUBSET (1..n) |-> SummedAfter(f, h, s)]
  BY <1>1, <1>2
<1> QED
  BY <1>3 DEF IsSummed

LEMMA SummedIsTotal ==
    ASSUME NEW n \in Nat, NEW h \in [1..n -> Nat], NEW f, IsSummed(f, h, 1..n)
    PROVE  f[1..n] = Total(h, 1..n, n)
<1>1. \A s \in SUBSET (1..n) : f[s] = SummedAfter(f, h, s)
  BY DEF IsSummed
<1>2. \A s \in SUBSET (1..n) : IsFiniteSet(s)
  <2>1. IsFiniteSet(1..n)
    BY FS_Interval
  <2> QED
    BY <2>1, FS_Subset
<1> DEFINE S == {k \in Nat : \A s \in SUBSET (1..n) : Cardinality(s) = k => f[s] = Total(h, s, n)}
<1>3. 0 \in S
  <2> SUFFICES ASSUME NEW s \in SUBSET (1..n), Cardinality(s) = 0 PROVE f[s] = Total(h, s, n)
    OBVIOUS
  <2>1. s = {}
    BY <1>2, FS_EmptySet
  <2> QED
    BY <1>1, <2>1, TotalOfNothing DEF SummedAfter
<1>4. ASSUME NEW k \in Nat, k \in S PROVE k + 1 \in S
  <2> SUFFICES ASSUME NEW s \in SUBSET (1..n), Cardinality(s) = k + 1
               PROVE  f[s] = Total(h, s, n)
    OBVIOUS
  <2>1. s # {}
    <3>1. k + 1 # 0 /\ Cardinality({}) = 0
      BY FS_EmptySet
    <3> QED
      BY <3>1
  <2>2. PICK x : x = CHOOSE y \in s : TRUE
    OBVIOUS
  <2>3. x \in s /\ s \ {x} \in SUBSET (1..n)
    BY <2>1, <2>2
  <2>4. Cardinality(s \ {x}) = k
    <3>1. Cardinality(s \ {x}) = Cardinality(s) - 1
      BY <1>2, <2>3, FS_RemoveElement
    <3> QED
      BY <1>4, <3>1
  <2>5. f[s \ {x}] = Total(h, s \ {x}, n)
    BY <1>4, <2>3, <2>4
  <2>6. f[s] = h[x] + f[s \ {x}]
    BY <1>1, <2>1, <2>2 DEF SummedAfter
  <2>7. Total(h, s, n) = h[x] + Total(h, s \ {x}, n)
    BY <2>3, TotalWithout
  <2> QED
    BY <2>5, <2>6, <2>7
<1> HIDE DEF S
<1>5. \A k \in Nat : k \in S
  BY <1>3, <1>4, Induction
<1>6. Cardinality(1..n) \in Nat
  BY <1>2, FS_CardinalityType
<1> QED
  BY <1>5, <1>6 DEF S

\* The sum of the lengths is the length of the joined sequences.
Lengths(seqs) == [i \in 1..Len(seqs) |-> Len(seqs[i])]

LEMMA LengthsAddUp ==
    ASSUME NEW E, NEW seqs \in Seq(Seq(E)), NEW n, n = Len(seqs),
           NEW h, h = Lengths(seqs), NEW f, f = CHOOSE g : IsSummed(g, h, 1..n)
    PROVE  f[1..n] = Len(FlattenSeq(seqs))
<1>2. n \in Nat /\ h \in [1..n -> Nat] /\ \A i \in 1..n : h[i] = Len(seqs[i])
  BY DEF Lengths
<1>3. IsSummed(f, h, 1..n)
  <2>1. \E g : IsSummed(g, h, 1..n)
    BY <1>2, SummedExists
  <2> QED
    BY <2>1, Zenon
<1>4. f[1..n] = Total(h, 1..n, n)
  BY <1>2, <1>3, SummedIsTotal
<1>5. HasOffsets(seqs)
  BY OffsetsExist
<1>6. PICK p : Offsets(p, seqs) /\ StandAt(p, seqs, FlattenSeq(seqs))
  BY <1>5 DEF HasOffsets
<1>7. IsPartial(p, h, 1..n, n)
  <2>1. \A m \in 1..n : p[m] = p[m - 1] + Taken(h, 1..n, m)
    BY <1>2, <1>6 DEF Offsets, Taken
  <2> QED
    BY <1>6, <2>1 DEF IsPartial, Offsets
<1>8. p[n] = Len(FlattenSeq(seqs))
  BY <1>6 DEF StandAt
<1> QED
  BY <1>2, <1>4, <1>7, <1>8, TotalIs

-----------------------------------------------------------------------------
(* The length of a string is counted without encoding it. *)

Short(code)  == code < 128
Middle(code) == code >= 128 /\ code < 2048
WidthAt(str, i) ==
    CASE EndsPair(str, i)   -> 0
      [] Short(str[i])      -> 1
      [] Middle(str[i])     -> 2
      [] StartsPair(str, i) -> 4
      [] OTHER              -> 3
WidthAfter(f, str, s) ==
    IF s = {} THEN 0 ELSE WidthAt(str, CHOOSE x \in s : TRUE) + f[s \ {CHOOSE x \in s : TRUE}]
IsCounted(f, str) == f = [s \in SUBSET (DOMAIN str) |-> WidthAfter(f, str, s)]

LEMMA LengthIsCounted ==
    ASSUME NEW str
    PROVE  Utf8ByteLength(str) = (CHOOSE f : IsCounted(f, str))[DOMAIN str]
BY DEF Utf8ByteLength, MapThenSumSet, MapThenFoldSet, IsCounted, WidthAfter, WidthAt, Short, Middle

LEMMA SurrogateIsWide ==
    ASSUME NEW code, IsHigh(code) \/ IsLow(code)
    PROVE  ~Short(code) /\ ~Middle(code)
<1>1. IsHigh(code) => code \in Nat /\ code >= 55296
  BY SMT DEF IsHigh
<1>2. IsLow(code) => code \in Nat /\ code >= 55296
  BY SMT DEF IsLow
<1>3. code \in Nat /\ code >= 55296
  BY <1>1, <1>2, SMT
<1> QED
  BY <1>3, SMT DEF Short, Middle

LEMMA PairIsWide ==
    ASSUME NEW str, NEW i, StartsPair(str, i)
    PROVE  /\ Len(Utf8Bytes(PointOfPair(str[i], str[i + 1]))) = 4
           /\ ~Short(str[i]) /\ ~Middle(str[i])
<1>1. IsHigh(str[i]) /\ IsLow(str[i + 1])
  BY Zenon DEF StartsPair
<1>2. PICK p : p = PointOfPair(str[i], str[i + 1])
  OBVIOUS
<1>3. IsPoint(p) /\ WidthOf(p) = 4
  BY <1>1, <1>2, PairIsPoint, Zenon
<1>4. IsCharacter(Utf8Bytes(p), p, 4)
  BY <1>3, CharacterIsRead, Zenon
<1>5. Len(Utf8Bytes(p)) = 4
  BY <1>4, SMT DEF IsCharacter
<1>6. ~Short(str[i]) /\ ~Middle(str[i])
  BY <1>1, SurrogateIsWide, Zenon
<1> QED
  BY <1>2, <1>5, <1>6, Zenon

LEMMA ReplacementIsWide == Len(Utf8Bytes(Replacement)) = 3
<1>1. IsPoint(Replacement)
  BY ReplacementIsPoint, Zenon
<1>2. WidthOf(Replacement) = 3
  BY SMT DEF WidthOf, Replacement
<1>3. IsCharacter(Utf8Bytes(Replacement), Replacement, 3)
  BY <1>1, <1>2, CharacterIsRead, Zenon
<1> QED
  BY <1>3, SMT DEF IsCharacter

LEMMA UnitIsAsWide ==
    ASSUME NEW code \in CodeUnit, ~IsHigh(code), ~IsLow(code)
    PROVE  Len(Utf8Bytes(code)) = IF Short(code) THEN 1 ELSE IF Middle(code) THEN 2 ELSE 3
<1>1. IsPoint(code)
  BY UnitIsPoint, Zenon
<1>2. IsCharacter(Utf8Bytes(code), code, WidthOf(code))
  BY <1>1, CharacterIsRead, Zenon
<1>3. Len(Utf8Bytes(code)) = WidthOf(code)
  BY <1>2, SMT DEF IsCharacter
<1>4. code \in Int /\ code < 65536
  BY UnitRange, SMT
<1> QED
  BY <1>3, <1>4, SMT DEF WidthOf, Short, Middle

LEMMA WidthIsLength ==
    ASSUME NEW str \in Seq(CodeUnit), NEW i \in 1..Len(str)
    PROVE  WidthAt(str, i) = Len(BytesAt(str, i))
<1>1. CASE EndsPair(str, i)
  <2>1. BytesAt(str, i) = <<>>
    BY <1>1, NothingEndsPair, Zenon
  <2>2. IsLow(str[i])
    BY <1>1, Zenon DEF EndsPair
  <2>3. ~Short(str[i]) /\ ~Middle(str[i])
    BY <2>2, SurrogateIsWide, Zenon
  <2>4. ~StartsPair(str, i)
    BY <2>2, HighOrLow, Zenon DEF StartsPair
  <2>5. WidthAt(str, i) = 0
    BY <1>1, <2>3, <2>4, Zenon DEF WidthAt
  <2>6. Len(<<>>) = 0
    OBVIOUS
  <2> QED
    BY <2>1, <2>5, <2>6, Zenon
<1>2. CASE StartsPair(str, i)
  <2>1. ~EndsPair(str, i)
    BY <1>2, PairsEnd, Zenon
  <2>2. WidthAt(str, i) = 4
    BY <1>2, <2>1, PairIsWide, Zenon DEF WidthAt
  <2>3. BytesAt(str, i) = Utf8Bytes(PointOfPair(str[i], str[i + 1]))
    BY <1>2, <2>1, Zenon DEF BytesAt
  <2> QED
    BY <1>2, <2>2, <2>3, PairIsWide, Zenon
<1>3. CASE ~EndsPair(str, i) /\ ~StartsPair(str, i) /\ (IsHigh(str[i]) \/ IsLow(str[i]))
  <2>1. ~Short(str[i]) /\ ~Middle(str[i])
    BY <1>3, SurrogateIsWide, Zenon
  <2>2. WidthAt(str, i) = 3
    BY <1>3, <2>1, Zenon DEF WidthAt
  <2>3. BytesAt(str, i) = Utf8Bytes(Replacement)
    BY <1>3, Zenon DEF BytesAt
  <2> QED
    BY <2>2, <2>3, ReplacementIsWide, Zenon
<1>4. CASE ~EndsPair(str, i) /\ ~StartsPair(str, i) /\ ~IsHigh(str[i]) /\ ~IsLow(str[i])
  <2>1. BytesAt(str, i) = Utf8Bytes(str[i])
    BY <1>4, Zenon DEF BytesAt
  <2>2. PICK code \in CodeUnit : code = str[i]
    BY SMT
  <2>3. Len(Utf8Bytes(code)) = IF Short(code) THEN 1 ELSE IF Middle(code) THEN 2 ELSE 3
    BY <1>4, <2>2, UnitIsAsWide, Zenon
  <2>5. WidthAt(str, i) = IF Short(code) THEN 1 ELSE IF Middle(code) THEN 2 ELSE 3
    <3>1. code \in Int
      BY <2>2, UnitRange, SMT
    <3>2. ~(Short(code) /\ Middle(code))
      BY <3>1, SMT DEF Short, Middle
    <3> QED
      BY <1>4, <2>2, <3>2, Zenon DEF WidthAt
  <2> QED
    BY <2>1, <2>2, <2>3, <2>5, Zenon
<1> QED
  BY <1>1, <1>2, <1>3, <1>4, Zenon

LEMMA CountedAsSummed ==
    ASSUME NEW str \in Seq(CodeUnit), NEW n, n = Len(str), NEW h, h = Lengths(Encoded(str)), NEW f
    PROVE  IsCounted(f, str) <=> IsSummed(f, h, 1..n)
<1>1. DOMAIN str = 1..n
  OBVIOUS
<1>2. \A i \in 1..n : h[i] = WidthAt(str, i)
  <2> SUFFICES ASSUME NEW i \in 1..n PROVE h[i] = WidthAt(str, i)
    OBVIOUS
  <2>1. Len(Encoded(str)) = n
    BY EncodedType, Zenon
  <2>2. h[i] = Len(Encoded(str)[i])
    BY <2>1, SMT DEF Lengths
  <2>3. Encoded(str)[i] = BytesAt(str, i)
    BY SMT DEF Encoded
  <2>4. i \in 1..Len(str)
    OBVIOUS
  <2> QED
    BY <2>2, <2>3, <2>4, WidthIsLength, Zenon
<1>3. ASSUME NEW s \in SUBSET (1..n)
      PROVE  WidthAfter(f, str, s) = SummedAfter(f, h, s)
  <2>1. CASE s = {}
    BY <2>1, Zenon DEF WidthAfter, SummedAfter
  <2>2. CASE s # {}
    <3>1. PICK x : x = CHOOSE y \in s : TRUE
      OBVIOUS
    <3>2. x \in s
      BY <2>2, <3>1, Zenon
    <3>3. h[x] = WidthAt(str, x)
      BY <1>2, <3>2, Zenon
    <3>4. WidthAfter(f, str, s) = WidthAt(str, x) + f[s \ {x}]
      BY <2>2, <3>1, Zenon DEF WidthAfter
    <3>5. SummedAfter(f, h, s) = h[x] + f[s \ {x}]
      BY <2>2, <3>1, Zenon DEF SummedAfter
    <3> QED
      BY <3>3, <3>4, <3>5, Zenon
  <2> QED
    BY <2>1, <2>2
<1>4. [s \in SUBSET (1..n) |-> WidthAfter(f, str, s)] = [s \in SUBSET (1..n) |-> SummedAfter(f, h, s)]
  BY <1>3, Zenon
<1> QED
  BY <1>1, <1>4, Zenon DEF IsCounted, IsSummed

\* A string is as long as it is counted to be without being encoded (utf8ByteLength()):
\* every high surrogate with its low one as four bytes, every lone one as the three of the
\* character put in its place.
THEOREM LengthIsCountedRight ==
    ASSUME NEW str \in Seq(CodeUnit)
    PROVE  Utf8ByteLength(str) = Len(TextEncoderEncode(str))
<1>1. PICK n : n = Len(str)
  OBVIOUS
<1>2. PICK seqs : seqs = Encoded(str)
  OBVIOUS
<1>3. seqs \in Seq(Seq(Octet)) /\ Len(seqs) = n /\ TextEncoderEncode(str) = FlattenSeq(seqs)
  BY <1>1, <1>2, EncodedType, EncodeIsJoined, Zenon
<1>4. PICK h : h = Lengths(seqs)
  OBVIOUS
<1>5. \A g : IsCounted(g, str) <=> IsSummed(g, h, 1..n)
  BY <1>1, <1>2, <1>4, CountedAsSummed, Zenon
<1>6. PICK f : f = CHOOSE g : IsSummed(g, h, 1..n)
  OBVIOUS
<1>7. f = CHOOSE g : IsCounted(g, str)
  BY <1>5, <1>6, Zenon
<1>8. f[1..n] = Len(FlattenSeq(seqs))
  BY <1>3, <1>4, <1>6, LengthsAddUp
<1>9. DOMAIN str = 1..n
  BY <1>1
<1> QED
  BY <1>3, <1>7, <1>8, <1>9, LengthIsCounted, Zenon

-----------------------------------------------------------------------------
(* Calls of the writer: their bytes, or what an encoder that throws leaves. *)

Written == Octet \cup {Thrown}

\* The numbers that two bytes hold.
Word == CodeUnit

LEMMA BytesAreOctets == Bytes = Octet /\ 0 \in Octet /\ 0 \in Written
<1>1. Radix = 128
  BY CodecAssumption
<1> QED
  BY <1>1, SMT DEF Bytes, Octet, Written

LEMMA ThrowsAt ==
    ASSUME NEW bytes \in Seq(Written)
    PROVE  Throws(bytes) <=> \E i \in 1..Len(bytes) : bytes[i] = Thrown
<1>1. DOMAIN bytes = 1..Len(bytes)
  OBVIOUS
<1> QED
  BY <1>1, Zenon DEF Throws, ToSet

LEMMA OctetsAreWritten ==
    ASSUME NEW bytes \in Seq(Octet)
    PROVE  bytes \in Seq(Written) /\ ~Throws(bytes)
<1>1. Octet \subseteq Written
  BY Zenon DEF Written
<1>2. bytes \in Seq(Written)
  BY <1>1
<1> QED
  BY <1>2, OctetsDoNotThrow

LEMMA UnlessThrown ==
    ASSUME NEW bytes \in Seq(Written), ~Throws(bytes)
    PROVE  bytes \in Seq(Octet)
<1>1. \A i \in 1..Len(bytes) : bytes[i] \in Octet
  BY ThrowsAt DEF Written
<1> QED
  BY <1>1

LEMMA ErrorIsWritten == RangeError \in Seq(Written) /\ Throws(RangeError)
<1>1. Thrown \in Written
  BY Zenon DEF Written
<1> QED
  BY <1>1, OctetsAreBytes, SMT DEF RangeError

LEMMA ThrowsBoth ==
    ASSUME NEW a \in Seq(Written), NEW b \in Seq(Written)
    PROVE  a \o b \in Seq(Written) /\ (Throws(a \o b) <=> Throws(a) \/ Throws(b))
<1>1. /\ a \o b \in Seq(Written) /\ Len(a \o b) = Len(a) + Len(b)
      /\ \A i \in 1..Len(a) : (a \o b)[i] = a[i]
      /\ \A i \in 1..Len(b) : (a \o b)[Len(a) + i] = b[i]
  BY ConcatEntries, SMT
<1>2. PICK n \in Nat : n = Len(a)
  OBVIOUS
<1>3. PICK m \in Nat : m = Len(b)
  OBVIOUS
<1>4. ASSUME Throws(a \o b) PROVE Throws(a) \/ Throws(b)
  <2>1. PICK i \in 1..(n + m) : (a \o b)[i] = Thrown
    BY <1>1, <1>2, <1>3, <1>4, ThrowsAt
  <2>2. CASE i <= n
    BY <1>1, <1>2, <2>1, <2>2, ThrowsAt
  <2>3. CASE i > n
    <3>1. i - n \in 1..m /\ n + (i - n) = i
      BY <2>1, <2>3
    <3>2. b[i - n] = Thrown
      BY <1>1, <1>2, <1>3, <2>1, <3>1
    <3> QED
      BY <1>3, <3>1, <3>2, ThrowsAt
  <2> QED
    BY <2>1, <2>2, <2>3
<1>5. ASSUME Throws(a) PROVE Throws(a \o b)
  <2>1. PICK i \in 1..n : a[i] = Thrown
    BY <1>2, <1>5, ThrowsAt
  <2>2. i \in 1..(n + m) /\ (a \o b)[i] = Thrown
    BY <1>1, <1>2, <2>1
  <2> QED
    BY <1>1, <1>2, <1>3, <2>2, ThrowsAt
<1>6. ASSUME Throws(b) PROVE Throws(a \o b)
  <2>1. PICK i \in 1..m : b[i] = Thrown
    BY <1>3, <1>6, ThrowsAt
  <2>2. n + i \in 1..(n + m) /\ (a \o b)[n + i] = Thrown
    BY <1>1, <1>2, <1>3, <2>1
  <2> QED
    BY <1>1, <1>2, <1>3, <2>2, ThrowsAt
<1> QED
  BY <1>1, <1>4, <1>5, <1>6

LEMMA NothingThrown ==
    ASSUME NEW calls \in Seq(Seq(Written)), ~Throws(FlattenSeq(calls))
    PROVE  calls \in Seq(Seq(Octet))
<1>1. PICK joined : joined = FlattenSeq(calls)
  OBVIOUS
<1>2. joined \in Seq(Written)
  BY <1>1, FlattenType
<1>3. HasOffsets(calls)
  BY OffsetsExist
<1>4. PICK f : Offsets(f, calls) /\ StandAt(f, calls, joined)
  BY <1>1, <1>3 DEF HasOffsets
<1>5. ASSUME NEW i \in 1..Len(calls) PROVE calls[i] \in Seq(Octet)
  <2>1. calls[i] \in Seq(Written)
    OBVIOUS
  <2>2. SUFFICES ASSUME Throws(calls[i]) PROVE FALSE
    BY <2>1, UnlessThrown
  <2>3. PICK k \in 1..Len(calls[i]) : calls[i][k] = Thrown
    BY <2>1, <2>2, ThrowsAt
  <2>4. /\ f[i - 1] \in Nat /\ f[i - 1] + k \in 1..Len(joined)
        /\ joined[f[i - 1] + k] = calls[i][k]
    <3>1. Holds(joined, f[i - 1], calls[i]) /\ f[i - 1] \in Nat
      BY <1>4, <1>2, StandingIsHeld
    <3>2. PICK c \in Seq(Written) : c = calls[i]
      BY <2>1
    <3>3. PICK start \in Nat : start = f[i - 1]
      BY <3>1
    <3>4. k \in 1..Len(c) /\ Holds(joined, start, c)
      BY <2>3, <3>1, <3>2, <3>3
    <3>5. joined[start + k] = c[k] /\ start + k \in 1..Len(joined)
      BY <1>2, <3>4 DEF Holds
    <3> QED
      BY <3>2, <3>3, <3>5
  <2>5. Throws(joined)
    BY <1>2, <2>3, <2>4, ThrowsAt
  <2> QED
    BY <1>1, <2>5
<1> QED
  BY <1>5

-----------------------------------------------------------------------------
(* What single calls write. *)

LEMMA Uint8IsWritten ==
    ASSUME NEW v \in Octet
    PROVE  Uint8(v) = <<v>> /\ Uint8(v) \in Seq(Octet) /\ Len(Uint8(v)) = 1
<1>1. v % 256 = v
  BY SMT DEF Octet
<1> QED
  BY <1>1 DEF Uint8

LEMMA Uint16IsWritten ==
    ASSUME NEW v \in Word
    PROVE  /\ Uint16(v) \in Seq(Octet) /\ Len(Uint16(v)) = 2
           /\ Uint16(v)[1] * 256 + Uint16(v)[2] = v
<1>1. v \in Int /\ v >= 0 /\ v < 65536
  BY UnitRange, SMT DEF Word
<1>2. (v \div 256) % 256 = v \div 256
  BY <1>1, SMT
<1>3. v \in Nat /\ v <= 65535
  BY <1>1, SMT
<1>4. Uint16(v) = LengthBytes(v)
  BY <1>2, SMT DEF Uint16, LengthBytes
<1> QED
  BY <1>3, <1>4, LengthBytesType, SMT

LEMMA Uint32IsWritten ==
    ASSUME NEW a \in Word, NEW b \in Word, NEW v, v = <<a, b>>
    PROVE  /\ Uint32(v) = Uint16(a) \o Uint16(b)
           /\ Uint32(v) \in Seq(Octet) /\ Len(Uint32(v)) = 4
<1>1. Uint32(v) = Uint16(a) \o Uint16(b)
  BY SMT DEF Uint32
<1>2. PICK first \in Seq(Octet) : first = Uint16(a)
  BY Uint16IsWritten, SMT
<1>3. PICK second \in Seq(Octet) : second = Uint16(b)
  BY Uint16IsWritten, SMT
<1>4. first \o second \in Seq(Octet) /\ Len(first \o second) = Len(first) + Len(second)
  BY ConcatEntries
<1>5. Len(first) = 2 /\ Len(second) = 2
  BY <1>2, <1>3, Uint16IsWritten, SMT
<1>6. PICK both : both = first \o second
  OBVIOUS
<1>7. both = Uint16(a) \o Uint16(b) /\ Uint32(v) = both
  BY <1>1, <1>2, <1>3, <1>6
<1>8. both \in Seq(Octet) /\ Len(both) = 4
  BY <1>4, <1>5, <1>6
<1> QED
  BY <1>7, <1>8

LEMMA VarintIsWritten ==
    ASSUME NEW v
    PROVE  /\ Varint(v) \in Seq(Written)
           /\ Throws(Varint(v)) <=> ~InRange(v)
           /\ InRange(v) => /\ Varint(v) = EncodeVariableByteInteger(v)
                            /\ Varint(v) \in Seq(Octet)
                            /\ Len(Varint(v)) = VariableByteIntegerLength(v)
                            /\ Len(Varint(v)) >= 1
<1>1. CASE InRange(v)
  <2>1. PICK bytes : bytes = EncodeVariableByteInteger(v)
    OBVIOUS
  <2>2. PICK b : b = VariableByteIntegerLength(v)
    OBVIOUS
  <2>3. bytes = [n \in 1..b |-> ByteOf(v, n)]
    BY <1>1, <2>1, <2>2, NumberIsEncoded, Zenon
  <2>4. b \in Nat /\ b >= 1
    BY <1>1, <2>2, NumberInRange, Zenon
  <2>5. \A n \in 1..b : ByteOf(v, n) \in Octet
    BY <1>1, <2>2, BytesOfNumber, BytesAreOctets, Zenon
  <2>6. bytes \in Seq(Octet) /\ Len(bytes) = b
    BY <2>3, <2>4, <2>5
  <2>7. Varint(v) = bytes
    BY <1>1, <2>1, Zenon DEF Varint
  <2> QED
    BY <1>1, <2>1, <2>2, <2>4, <2>6, <2>7, OctetsAreWritten
<1>2. CASE ~InRange(v)
  BY <1>2, ErrorIsWritten, Zenon DEF Varint
<1> QED
  BY <1>1, <1>2

LEMMA PrefixedIsWritten ==
    ASSUME NEW bytes \in Seq(Octet)
    PROVE  /\ Prefixed(bytes) \in Seq(Written)
           /\ Throws(Prefixed(bytes)) <=> Len(bytes) > MaxStringLength
           /\ ~Throws(Prefixed(bytes)) =>
                 Prefixed(bytes) \in Seq(Octet) /\ Len(Prefixed(bytes)) = 2 + Len(bytes)
<1>1. Throws(Prefixed(bytes)) <=> Len(bytes) > MaxStringLength
  BY PrefixedType, SMT
<1>2. CASE Throws(Prefixed(bytes))
  <2>1. Prefixed(bytes) = RangeError
    BY <1>1, <1>2, Zenon DEF Prefixed
  <2> QED
    BY <1>1, <1>2, <2>1, ErrorIsWritten, Zenon
<1>3. CASE ~Throws(Prefixed(bytes))
  <2>1. Prefixed(bytes) = LengthBytes(Len(bytes)) \o bytes /\ Len(bytes) <= 65535
    BY <1>3, PrefixedType, SMT
  <2>2. Len(bytes) \in Nat
    OBVIOUS
  <2>3. LengthBytes(Len(bytes)) \in Seq(Octet) /\ Len(LengthBytes(Len(bytes))) = 2
    BY <2>1, <2>2, LengthBytesType, SMT
  <2>4. Prefixed(bytes) \in Seq(Octet) /\ Len(Prefixed(bytes)) = 2 + Len(bytes)
    <3>1. PICK first \in Seq(Octet) : first = LengthBytes(Len(bytes))
      BY <2>3, SMT
    <3>2. first \o bytes \in Seq(Octet) /\ Len(first \o bytes) = Len(first) + Len(bytes)
      BY ConcatEntries
    <3> QED
      BY <2>1, <2>3, <3>1, <3>2, SMT
  <2> QED
    BY <1>1, <1>3, <2>4, OctetsAreWritten, Zenon
<1> QED
  BY <1>2, <1>3

LEMMA StringIsWritten ==
    ASSUME NEW str \in Seq(CodeUnit)
    PROVE  /\ EncodeMqttString(str) \in Seq(Written)
           /\ Throws(EncodeMqttString(str)) <=> Utf8ByteLength(str) > MaxStringLength
           /\ ~Throws(EncodeMqttString(str)) =>
                 /\ EncodeMqttString(str) \in Seq(Octet)
                 /\ Len(EncodeMqttString(str)) = 2 + Utf8ByteLength(str)
           /\ Utf8ByteLength(str) \in Nat
<1>1. PICK bytes : bytes = TextEncoderEncode(str)
  OBVIOUS
<1>2. bytes \in Seq(Octet)
  BY <1>1, EncodeIsJoined, EncodedType, FlattenType
<1>3. Utf8ByteLength(str) = Len(bytes) /\ Len(bytes) \in Nat
  BY <1>1, <1>2, LengthIsCountedRight
<1>4. EncodeMqttString(str) = Prefixed(bytes)
  BY <1>1, Zenon DEF EncodeMqttString
<1> QED
  BY <1>2, <1>3, <1>4, PrefixedIsWritten

LEMMA BinaryIsWritten ==
    ASSUME NEW data \in Seq(Octet)
    PROVE  /\ EncodeMqttBinary(data) \in Seq(Written)
           /\ ~Throws(EncodeMqttBinary(data)) =>
                 /\ EncodeMqttBinary(data) \in Seq(Octet)
                 /\ Len(EncodeMqttBinary(data)) = 2 + Len(data)
BY PrefixedIsWritten, Zenon DEF EncodeMqttBinary

-----------------------------------------------------------------------------
(* A reader in front of bytes that were written. *)

IsReader(r) ==
    /\ r = [buffer |-> r.buffer, position |-> r.position, end |-> r.end]
    /\ r.buffer \in Seq(Octet) /\ r.position \in Nat /\ r.end \in Nat
    /\ r.position <= r.end /\ r.end <= Len(r.buffer)
Ahead(r, bytes) ==
    /\ IsReader(r) /\ Holds(r.buffer, r.position, bytes)
    /\ r.position + Len(bytes) <= r.end

LEMMA AdvancedIs ==
    ASSUME NEW r, IsReader(r), NEW n \in Nat
    PROVE  /\ Advanced(r, n).buffer = r.buffer /\ Advanced(r, n).end = r.end
           /\ Advanced(r, n).position = r.position + n
           /\ Advanced(r, n) = [buffer |-> r.buffer, position |-> r.position + n, end |-> r.end]
BY SMT DEF Advanced, IsReader

LEMMA StaysPut ==
    ASSUME NEW r, IsReader(r)
    PROVE  Advanced(r, 0) = r
BY SMT DEF Advanced, IsReader

LEMMA AdvancedOn ==
    ASSUME NEW r, IsReader(r), NEW n \in Nat, NEW m \in Nat
    PROVE  Advanced(Advanced(r, n), m) = Advanced(r, n + m)
<1>1. PICK s : s = Advanced(r, n)
  OBVIOUS
<1>2. s = [buffer |-> r.buffer, position |-> r.position + n, end |-> r.end] /\ r.position \in Nat
  BY <1>1, AdvancedIs DEF IsReader
<1>3. Advanced(s, m) = [buffer |-> r.buffer, position |-> (r.position + n) + m, end |-> r.end]
  BY <1>2, SMT DEF Advanced
<1>4. Advanced(r, n + m) = [buffer |-> r.buffer, position |-> r.position + (n + m), end |-> r.end]
  BY <1>2, AdvancedIs
<1>5. (r.position + n) + m = r.position + (n + m)
  BY <1>2
<1> QED
  BY <1>1, <1>3, <1>4, <1>5

LEMMA AdvancedStays ==
    ASSUME NEW r, NEW bytes \in Seq(Octet), Ahead(r, bytes)
    PROVE  IsReader(Advanced(r, Len(bytes)))
<1>1. PICK n \in Nat : n = Len(bytes)
  OBVIOUS
<1>2. IsReader(r) /\ r.position + n <= r.end
  BY <1>1 DEF Ahead
<1> QED
  BY <1>1, <1>2, AdvancedIs, SMT DEF IsReader

LEMMA AheadBoth ==
    ASSUME NEW a \in Seq(Octet), NEW b \in Seq(Octet), NEW r, Ahead(r, a \o b)
    PROVE  Ahead(r, a) /\ Ahead(Advanced(r, Len(a)), b)
<1>1. PICK n \in Nat : n = Len(a)
  OBVIOUS
<1>2. PICK m \in Nat : m = Len(b)
  OBVIOUS
<1>3. Len(a \o b) = n + m
  BY <1>1, <1>2, ConcatEntries
<1>4. IsReader(r) /\ Holds(r.buffer, r.position, a \o b) /\ r.position + (n + m) <= r.end
  BY <1>3 DEF Ahead
<1>5. /\ r.position \in Nat /\ r.end \in Nat /\ r.position + n <= r.end
      /\ (r.position + n) + m <= r.end /\ Len(r.buffer) \in Nat
  BY <1>4 DEF IsReader
<1>6. Holds(r.buffer, r.position, a) /\ Holds(r.buffer, r.position + n, b)
  BY <1>1, <1>4, <1>5, HoldsBoth
<1>7. Ahead(r, a)
  BY <1>1, <1>4, <1>5, <1>6 DEF Ahead
<1>8. PICK s : s = Advanced(r, n)
  OBVIOUS
<1>9. s.buffer = r.buffer /\ s.position = r.position + n /\ s.end = r.end
  BY <1>4, <1>8, AdvancedIs
<1>10. IsReader(s)
  BY <1>1, <1>7, <1>8, AdvancedStays
<1>11. Ahead(s, b)
  BY <1>2, <1>5, <1>6, <1>9, <1>10 DEF Ahead
<1> QED
  BY <1>1, <1>7, <1>8, <1>11

LEMMA AheadOfPart ==
    ASSUME NEW a \in Seq(Octet), NEW r, Ahead(r, a)
    PROVE  /\ r.buffer \in Seq(Octet) /\ r.position \in Nat /\ r.end \in Nat
           /\ Holds(r.buffer, r.position, a)
           /\ HasRemaining(r, Len(a))
           /\ \A i \in 1..Len(a) : r.buffer[r.position + i] = a[i]
<1>1. /\ r.buffer \in Seq(Octet) /\ r.position \in Nat /\ r.end \in Nat
      /\ Holds(r.buffer, r.position, a) /\ r.position + Len(a) <= r.end
  BY DEF Ahead, IsReader
<1>2. HasRemaining(r, Len(a))
  BY <1>1, SMT DEF HasRemaining, Remaining
<1> QED
  BY <1>1, <1>2 DEF Holds

\* The bytes that a reader finds one behind the other.
LEMMA AheadAt ==
    ASSUME NEW a \in Seq(Octet), NEW r, Ahead(r, a), NEW j \in Nat, j < Len(a)
    PROVE  ByteAt(r, j) = a[j + 1]
<1>1. r.position \in Nat /\ j + 1 \in 1..Len(a)
  BY AheadOfPart
<1>2. r.buffer[r.position + (j + 1)] = a[j + 1]
  BY <1>1, AheadOfPart
<1>3. r.position + (j + 1) = r.position + j + 1
  BY <1>1
<1> QED
  BY <1>2, <1>3 DEF ByteAt

-----------------------------------------------------------------------------
(* Each method of the reader gives back what the method of the writer was   *)
(* given.                                                                   *)

LEMMA Uint8IsRead ==
    ASSUME NEW v \in Octet, NEW r, Ahead(r, Uint8(v))
    PROVE  ReadUint8(r) = Read(v, r, 1)
<1>1. PICK bytes \in Seq(Octet) : bytes = Uint8(v)
  BY Uint8IsWritten
<1>2. Len(bytes) = 1 /\ bytes[1] = v
  BY <1>1, Uint8IsWritten
<1>3. Ahead(r, bytes)
  BY <1>1
<1>4. HasRemaining(r, 1)
  BY <1>2, <1>3, AheadOfPart
<1>5. ByteAt(r, 0) = v
  BY <1>2, <1>3, AheadAt
<1> QED
  BY <1>4, <1>5, Zenon DEF ReadUint8

LEMMA Uint16IsRead ==
    ASSUME NEW v \in Word, NEW r, Ahead(r, Uint16(v))
    PROVE  ReadUint16(r) = Read(v, r, 2)
<1>1. PICK bytes \in Seq(Octet) : bytes = Uint16(v)
  BY Uint16IsWritten
<1>2. Len(bytes) = 2 /\ bytes[1] * 256 + bytes[2] = v
  BY <1>1, Uint16IsWritten
<1>3. Ahead(r, bytes)
  BY <1>1
<1>4. HasRemaining(r, 2)
  BY <1>2, <1>3, AheadOfPart
<1>5. ByteAt(r, 0) = bytes[1] /\ ByteAt(r, 1) = bytes[2]
  BY <1>2, <1>3, AheadAt
<1> QED
  BY <1>2, <1>4, <1>5, SMT DEF ReadUint16

LEMMA Uint32IsRead ==
    ASSUME NEW v \in Word \X Word, NEW r, Ahead(r, Uint32(v))
    PROVE  ReadUint32(r) = Read(v, r, 4)
<1>1. PICK a \in Word : a = v[1]
  OBVIOUS
<1>2. PICK b \in Word : b = v[2]
  OBVIOUS
<1>3. v = <<a, b>>
  BY <1>1, <1>2
<1>4. PICK x \in Seq(Octet) : x = Uint16(a)
  BY Uint16IsWritten
<1>5. PICK y \in Seq(Octet) : y = Uint16(b)
  BY Uint16IsWritten
<1>6. Len(x) = 2 /\ x[1] * 256 + x[2] = a /\ Len(y) = 2 /\ y[1] * 256 + y[2] = b
  BY <1>4, <1>5, Uint16IsWritten
<1>7. Uint32(v) = x \o y /\ Len(Uint32(v)) = 4 /\ Uint32(v) \in Seq(Octet)
  BY <1>3, <1>4, <1>5, Uint32IsWritten
<1>8. Ahead(r, x) /\ Ahead(Advanced(r, Len(x)), y)
  BY <1>7, AheadBoth
<1>9. HasRemaining(r, 4) /\ r.position \in Nat /\ IsReader(r)
  BY <1>7, AheadOfPart DEF Ahead
<1>10. ByteAt(r, 0) = x[1] /\ ByteAt(r, 1) = x[2]
  BY <1>6, <1>8, AheadAt
<1>11. PICK s : s = Advanced(r, 2)
  OBVIOUS
<1>12. s.buffer = r.buffer /\ s.position = r.position + 2 /\ Ahead(s, y)
  BY <1>6, <1>8, <1>9, <1>11, AdvancedIs
<1>13. ByteAt(s, 0) = y[1] /\ ByteAt(s, 1) = y[2]
  BY <1>6, <1>12, AheadAt
<1>14. ByteAt(r, 2) = y[1] /\ ByteAt(r, 3) = y[2]
  BY <1>9, <1>12, <1>13, SMT DEF ByteAt
<1>15. ReadUint32(r) = Read(<<a, b>>, r, 4)
  BY <1>6, <1>9, <1>10, <1>14, SMT DEF ReadUint32
<1> QED
  BY <1>3, <1>15

LEMMA VarintIsRead ==
    ASSUME NEW v, InRange(v), NEW r, Ahead(r, Varint(v))
    PROVE  ReadVariableByteInteger(r) = Read(v, r, Len(Varint(v)))
<1>1. PICK bytes \in Seq(Octet) : bytes = Varint(v)
  BY VarintIsWritten
<1>2. bytes = EncodeVariableByteInteger(v) /\ Len(bytes) = VariableByteIntegerLength(v)
  BY <1>1, VarintIsWritten
<1>3. PICK buf \in Seq(Octet) : buf = r.buffer
  BY <1>1, AheadOfPart
<1>4. PICK offset \in Nat : offset = r.position
  BY <1>1, AheadOfPart
<1>5. Holds(buf, offset, EncodeVariableByteInteger(v)) /\ Len(buf) \in Nat
  BY <1>1, <1>2, <1>3, <1>4, AheadOfPart
<1>6. DecodeVariableByteInteger(buf, offset)
        = [status |-> "ok", value |-> v, bytesRead |-> VariableByteIntegerLength(v)]
  BY <1>5, NumbersAreReadBack
<1> QED
  BY <1>1, <1>2, <1>3, <1>4, <1>6 DEF ReadVariableByteInteger, ReadNumber

LEMMA StringIsRead ==
    ASSUME NEW str \in Seq(CodeUnit), ~Throws(EncodeMqttString(str)), IsValidMqttString(str),
           NEW r, Ahead(r, EncodeMqttString(str))
    PROVE  ReadMqttString(r) = Read(CanonicalString(str), r, Len(EncodeMqttString(str)))
<1>1. PICK bytes \in Seq(Octet) : bytes = EncodeMqttString(str)
  BY StringIsWritten
<1>2. PICK buf \in Seq(Octet) : buf = r.buffer
  BY <1>1, AheadOfPart
<1>3. PICK offset \in Nat : offset = r.position
  BY <1>1, AheadOfPart
<1>4. Holds(buf, offset, EncodeMqttString(str))
  BY <1>1, <1>2, <1>3, AheadOfPart
<1>5. DecodeMqttString(buf, offset)
        = Ok([value |-> CanonicalString(str), bytesRead |-> Len(EncodeMqttString(str))])
  BY <1>4, StringsAreReadBack
<1> QED
  BY <1>2, <1>3, <1>5 DEF ReadMqttString, ReadDecoded, Ok

LEMMA BinaryIsRead ==
    ASSUME NEW data \in Seq(Octet), ~Throws(EncodeMqttBinary(data)),
           NEW r, Ahead(r, EncodeMqttBinary(data))
    PROVE  ReadMqttBinary(r) = Read(data, r, Len(EncodeMqttBinary(data)))
<1>1. PICK bytes \in Seq(Octet) : bytes = EncodeMqttBinary(data)
  BY BinaryIsWritten
<1>2. PICK buf \in Seq(Octet) : buf = r.buffer
  BY <1>1, AheadOfPart
<1>3. PICK offset \in Nat : offset = r.position
  BY <1>1, AheadOfPart
<1>4. Holds(buf, offset, EncodeMqttBinary(data))
  BY <1>1, <1>2, <1>3, AheadOfPart
<1>5. DecodeMqttBinary(buf, offset)
        = Ok([value |-> data, bytesRead |-> Len(EncodeMqttBinary(data))])
  BY <1>4, BinaryIsReadBack
<1> QED
  BY <1>2, <1>3, <1>5 DEF ReadMqttBinary, ReadDecoded, Ok

-----------------------------------------------------------------------------
(* The values of properties. *)

ValueTypes == {"byte", "uint16", "uint32", "varint", "string", "binary", "stringPair"}

\* A value of its type, and one that MQTT does not forbid.
Fits(type, value) ==
    CASE type = "byte"   -> value \in Octet
      [] type = "uint16" -> value \in Word
      [] type = "uint32" -> value \in Word \X Word
      [] type = "varint" -> value \in Nat
      [] type = "string" -> value \in Seq(CodeUnit)
      [] type = "binary" -> value \in Seq(Octet)
      [] type = "stringPair" -> value \in Seq(CodeUnit) \X Seq(CodeUnit)
Admitted(type, value) ==
    CASE type = "string" -> IsValidMqttString(value)
      [] type = "stringPair" -> IsValidMqttString(value[1]) /\ IsValidMqttString(value[2])
      [] OTHER -> TRUE

\* What a receiver reads of it.
ReceivedValue(type, value) ==
    CASE type = "string" -> CanonicalString(value)
      [] type = "stringPair" -> <<CanonicalString(value[1]), CanonicalString(value[2])>>
      [] OTHER -> value

LEMMA FlattenTwo ==
    ASSUME NEW E, NEW a \in Seq(E), NEW b \in Seq(E)
    PROVE  FlattenSeq(<<a, b>>) = a \o b
<1>1. PICK seqs : seqs = <<a>>
  OBVIOUS
<1>2. seqs \in Seq(Seq(E)) /\ <<a, b>> = Append(seqs, b)
  BY <1>1
<1>3. FlattenSeq(Append(seqs, b)) = FlattenSeq(seqs) \o b
  BY <1>2, FlattenAppend
<1>4. FlattenSeq(seqs) = a
  BY <1>1, FlattenOne
<1> QED
  BY <1>2, <1>3, <1>4

\* The calls that write a value, their bytes, and how many there are.
IsSized(type, value) ==
    LET calls == WritePropertyValue(type, value)
    IN /\ calls \in Seq(Seq(Written))
       /\ calls \in Seq(Seq(Octet)) =>
             /\ Len(FlattenSeq(calls)) = PropertyValueSize(type, value)
             /\ Len(FlattenSeq(calls)) >= 1

LEMMA OneIsSized ==
    ASSUME NEW type, NEW value, NEW bytes \in Seq(Written),
           WritePropertyValue(type, value) = <<bytes>>,
           bytes \in Seq(Octet) => Len(bytes) = PropertyValueSize(type, value) /\ Len(bytes) >= 1
    PROVE  IsSized(type, value)
<1>1. PICK calls : calls = <<bytes>>
  OBVIOUS
<1>2. calls \in Seq(Seq(Written)) /\ calls[1] = bytes /\ 1 \in DOMAIN calls
  BY <1>1
<1>3. calls \in Seq(Seq(Octet)) => bytes \in Seq(Octet)
  BY <1>2
<1>4. FlattenSeq(calls) = bytes
  BY <1>1, FlattenOne
<1> QED
  BY <1>1, <1>2, <1>3, <1>4 DEF IsSized

LEMMA TwoAreSized ==
    ASSUME NEW type, NEW value, NEW first \in Seq(Written), NEW second \in Seq(Written),
           WritePropertyValue(type, value) = <<first, second>>,
           first \in Seq(Octet) /\ second \in Seq(Octet) =>
              /\ Len(first) + Len(second) = PropertyValueSize(type, value)
              /\ Len(first) + Len(second) >= 1
    PROVE  IsSized(type, value)
<1>1. PICK calls : calls = <<first, second>>
  OBVIOUS
<1>2. calls \in Seq(Seq(Written)) /\ calls[1] = first /\ calls[2] = second /\ 1 \in DOMAIN calls
      /\ 2 \in DOMAIN calls
  BY <1>1
<1>3. calls \in Seq(Seq(Octet)) => first \in Seq(Octet) /\ second \in Seq(Octet)
  BY <1>2
<1>4. FlattenSeq(calls) = first \o second
  BY <1>1, FlattenTwo
<1>5. Len(first \o second) = Len(first) + Len(second)
  BY ConcatEntries
<1> QED
  BY <1>1, <1>2, <1>3, <1>4, <1>5 DEF IsSized

LEMMA ValueIsSized ==
    ASSUME NEW type \in ValueTypes, NEW value, Fits(type, value)
    PROVE  IsSized(type, value)
<1>1. CASE type = "byte"
  <2>1. value \in Octet
    BY <1>1 DEF Fits
  <2>2. WritePropertyValue(type, value) = <<Uint8(value)>> /\ PropertyValueSize(type, value) = 1
    BY <1>1 DEF WritePropertyValue, PropertyValueSize
  <2>3. PICK bytes \in Seq(Octet) : bytes = Uint8(value)
    BY <2>1, Uint8IsWritten
  <2>4. bytes \in Seq(Written) /\ Len(bytes) = 1
    BY <2>1, <2>3, Uint8IsWritten, OctetsAreWritten
  <2>5. /\ WritePropertyValue(type, value) = <<bytes>>
        /\ Len(bytes) = PropertyValueSize(type, value) /\ Len(bytes) >= 1
    BY <2>2, <2>3, <2>4
  <2> QED
    BY <2>4, <2>5, OneIsSized, Zenon
<1>2. CASE type = "uint16"
  <2>1. value \in Word
    BY <1>2 DEF Fits
  <2>2. WritePropertyValue(type, value) = <<Uint16(value)>> /\ PropertyValueSize(type, value) = 2
    BY <1>2 DEF WritePropertyValue, PropertyValueSize
  <2>3. PICK bytes \in Seq(Octet) : bytes = Uint16(value)
    BY <2>1, Uint16IsWritten
  <2>4. bytes \in Seq(Written) /\ Len(bytes) = 2
    BY <2>1, <2>3, Uint16IsWritten, OctetsAreWritten
  <2>5. /\ WritePropertyValue(type, value) = <<bytes>>
        /\ Len(bytes) = PropertyValueSize(type, value) /\ Len(bytes) >= 1
    BY <2>2, <2>3, <2>4
  <2> QED
    BY <2>4, <2>5, OneIsSized, Zenon
<1>3. CASE type = "uint32"
  <2>1. value \in Word \X Word
    BY <1>3 DEF Fits
  <2>2. WritePropertyValue(type, value) = <<Uint32(value)>> /\ PropertyValueSize(type, value) = 4
    BY <1>3 DEF WritePropertyValue, PropertyValueSize
  <2>3. PICK a \in Word : a = value[1]
    BY <2>1
  <2>4. PICK b \in Word : b = value[2]
    BY <2>1
  <2>5. value = <<a, b>>
    BY <2>1, <2>3, <2>4
  <2>6. PICK bytes \in Seq(Octet) : bytes = Uint32(value)
    BY <2>5, Uint32IsWritten
  <2>7. bytes \in Seq(Written) /\ Len(bytes) = 4
    BY <2>5, <2>6, Uint32IsWritten, OctetsAreWritten
  <2>8. /\ WritePropertyValue(type, value) = <<bytes>>
        /\ Len(bytes) = PropertyValueSize(type, value) /\ Len(bytes) >= 1
    BY <2>2, <2>6, <2>7
  <2> QED
    BY <2>7, <2>8, OneIsSized, Zenon
<1>4. CASE type = "varint"
  <2>1. /\ WritePropertyValue(type, value) = <<Varint(value)>>
        /\ PropertyValueSize(type, value) = VariableByteIntegerLength(value)
    BY <1>4 DEF WritePropertyValue, PropertyValueSize
  <2>2. /\ Varint(value) \in Seq(Written)
        /\ Varint(value) \in Seq(Octet) =>
              Len(Varint(value)) = VariableByteIntegerLength(value) /\ Len(Varint(value)) >= 1
    BY VarintIsWritten, OctetsDoNotThrow
  <2> QED
    BY <2>1, <2>2, OneIsSized
<1>5. CASE type = "string"
  <2>1. value \in Seq(CodeUnit)
    BY <1>5 DEF Fits
  <2>2. /\ WritePropertyValue(type, value) = <<EncodeMqttString(value)>>
        /\ PropertyValueSize(type, value) = 2 + Utf8ByteLength(value)
    BY <1>5 DEF WritePropertyValue, PropertyValueSize
  <2>3. PICK bytes \in Seq(Written) : bytes = EncodeMqttString(value)
    BY <2>1, StringIsWritten
  <2>4. bytes \in Seq(Octet) => Len(bytes) = 2 + Utf8ByteLength(value)
    BY <2>1, <2>3, StringIsWritten, OctetsDoNotThrow
  <2>5. Utf8ByteLength(value) \in Nat
    BY <2>1, StringIsWritten
  <2> QED
    BY <2>2, <2>3, <2>4, <2>5, OneIsSized
<1>6. CASE type = "binary"
  <2>1. value \in Seq(Octet)
    BY <1>6 DEF Fits
  <2>2. /\ WritePropertyValue(type, value) = <<EncodeMqttBinary(value)>>
        /\ PropertyValueSize(type, value) = 2 + Len(value)
    BY <1>6 DEF WritePropertyValue, PropertyValueSize
  <2>3. PICK bytes \in Seq(Written) : bytes = EncodeMqttBinary(value)
    BY <2>1, BinaryIsWritten
  <2>4. bytes \in Seq(Octet) => Len(bytes) = 2 + Len(value)
    BY <2>1, <2>3, BinaryIsWritten, OctetsDoNotThrow
  <2>5. Len(value) \in Nat
    BY <2>1
  <2> QED
    BY <2>2, <2>3, <2>4, <2>5, OneIsSized
<1>7. CASE type = "stringPair"
  <2>1. PICK key \in Seq(CodeUnit) : key = value[1]
    BY <1>7 DEF Fits
  <2>2. PICK val \in Seq(CodeUnit) : val = value[2]
    BY <1>7 DEF Fits
  <2>3. /\ WritePropertyValue(type, value) = <<EncodeMqttString(key), EncodeMqttString(val)>>
        /\ PropertyValueSize(type, value) = 2 + Utf8ByteLength(key) + 2 + Utf8ByteLength(val)
    BY <1>7, <2>1, <2>2 DEF WritePropertyValue, PropertyValueSize
  <2>4. PICK first \in Seq(Written) : first = EncodeMqttString(key)
    BY StringIsWritten
  <2>5. PICK second \in Seq(Written) : second = EncodeMqttString(val)
    BY StringIsWritten
  <2>6. first \in Seq(Octet) => Len(first) = 2 + Utf8ByteLength(key)
    BY <2>4, StringIsWritten, OctetsDoNotThrow
  <2>7. second \in Seq(Octet) => Len(second) = 2 + Utf8ByteLength(val)
    BY <2>5, StringIsWritten, OctetsDoNotThrow
  <2>8. Utf8ByteLength(key) \in Nat /\ Utf8ByteLength(val) \in Nat
    BY StringIsWritten
  <2>9. first \in Seq(Octet) /\ second \in Seq(Octet) =>
           /\ Len(first) + Len(second) = PropertyValueSize(type, value)
           /\ Len(first) + Len(second) >= 1
    <3>1. PICK k \in Nat : k = Utf8ByteLength(key)
      BY <2>8
    <3>2. PICK v \in Nat : v = Utf8ByteLength(val)
      BY <2>8
    <3>3. PropertyValueSize(type, value) = 2 + k + 2 + v
      BY <2>3, <3>1, <3>2
    <3>4. SUFFICES ASSUME first \in Seq(Octet), second \in Seq(Octet)
                   PROVE  /\ Len(first) + Len(second) = PropertyValueSize(type, value)
                          /\ Len(first) + Len(second) >= 1
      OBVIOUS
    <3>5. Len(first) = 2 + k /\ Len(second) = 2 + v
      BY <2>6, <2>7, <3>1, <3>2, <3>4, Zenon
    <3>6. (2 + k) + (2 + v) = 2 + k + 2 + v /\ (2 + k) + (2 + v) >= 1
      OBVIOUS
    <3> QED
      BY <3>3, <3>5, <3>6
  <2>10. WritePropertyValue(type, value) = <<first, second>>
    BY <2>3, <2>4, <2>5
  <2> QED
    BY <2>9, <2>10, TwoAreSized
<1> QED
  BY <1>1, <1>2, <1>3, <1>4, <1>5, <1>6, <1>7 DEF ValueTypes

LEMMA OneByteValue ==
    ASSUME NEW bytes \in Seq(Written), NEW calls, calls = <<bytes>>, calls \in Seq(Seq(Octet))
    PROVE  FlattenSeq(calls) = bytes /\ bytes \in Seq(Octet) /\ ~Throws(bytes)
<1>1. calls[1] = bytes /\ 1 \in DOMAIN calls
  OBVIOUS
<1>2. bytes \in Seq(Octet)
  BY <1>1
<1> QED
  BY <1>2, FlattenOne, OctetsDoNotThrow

LEMMA ValueIsRead ==
    ASSUME NEW type \in ValueTypes, NEW value, Fits(type, value), Admitted(type, value),
           NEW calls, calls = WritePropertyValue(type, value), calls \in Seq(Seq(Octet)),
           NEW r, Ahead(r, FlattenSeq(calls))
    PROVE  ReadPropertyValue(r, type)
             = Read(ReceivedValue(type, value), r, Len(FlattenSeq(calls)))
<1>1. CASE type = "byte"
  <2>1. value \in Octet /\ calls = <<Uint8(value)>> /\ ReceivedValue(type, value) = value
    BY <1>1 DEF Fits, WritePropertyValue, ReceivedValue
  <2>2. Uint8(value) \in Seq(Octet) /\ Len(Uint8(value)) = 1
    BY <2>1, Uint8IsWritten
  <2>3. FlattenSeq(calls) = Uint8(value)
    BY <2>1, FlattenOne
  <2>4. ReadPropertyValue(r, type) = ReadUint8(r)
    BY <1>1 DEF ReadPropertyValue
  <2> QED
    BY <2>1, <2>2, <2>3, <2>4, Uint8IsRead
<1>2. CASE type = "uint16"
  <2>1. value \in Word /\ calls = <<Uint16(value)>> /\ ReceivedValue(type, value) = value
    BY <1>2 DEF Fits, WritePropertyValue, ReceivedValue
  <2>2. Uint16(value) \in Seq(Octet) /\ Len(Uint16(value)) = 2
    BY <2>1, Uint16IsWritten
  <2>3. FlattenSeq(calls) = Uint16(value)
    BY <2>1, FlattenOne
  <2>4. ReadPropertyValue(r, type) = ReadUint16(r)
    BY <1>2 DEF ReadPropertyValue
  <2> QED
    BY <2>1, <2>2, <2>3, <2>4, Uint16IsRead
<1>3. CASE type = "uint32"
  <2>1. /\ value \in Word \X Word /\ calls = <<Uint32(value)>>
        /\ ReceivedValue(type, value) = value
    BY <1>3 DEF Fits, WritePropertyValue, ReceivedValue
  <2>2. PICK a \in Word : a = value[1]
    BY <2>1
  <2>3. PICK b \in Word : b = value[2]
    BY <2>1
  <2>4. value = <<a, b>>
    BY <2>1, <2>2, <2>3
  <2>5. Uint32(value) \in Seq(Octet) /\ Len(Uint32(value)) = 4
    BY <2>4, Uint32IsWritten
  <2>6. FlattenSeq(calls) = Uint32(value)
    BY <2>1, FlattenOne
  <2>7. ReadPropertyValue(r, type) = ReadUint32(r)
    BY <1>3 DEF ReadPropertyValue
  <2> QED
    BY <2>1, <2>5, <2>6, <2>7, Uint32IsRead
<1>4. CASE type = "varint"
  <2>1. calls = <<Varint(value)>> /\ ReceivedValue(type, value) = value
    BY <1>4 DEF WritePropertyValue, ReceivedValue
  <2>2. FlattenSeq(calls) = Varint(value) /\ ~Throws(Varint(value))
    BY <2>1, VarintIsWritten, OneByteValue
  <2>3. InRange(value)
    BY <2>2, VarintIsWritten
  <2>4. ReadPropertyValue(r, type) = ReadVariableByteInteger(r)
    BY <1>4 DEF ReadPropertyValue
  <2> QED
    BY <2>1, <2>2, <2>3, <2>4, VarintIsRead
<1>5. CASE type = "string"
  <2>1. /\ calls = <<EncodeMqttString(value)>> /\ ReceivedValue(type, value) = CanonicalString(value)
        /\ value \in Seq(CodeUnit) /\ IsValidMqttString(value)
    BY <1>5 DEF Fits, Admitted, WritePropertyValue, ReceivedValue
  <2>2. FlattenSeq(calls) = EncodeMqttString(value) /\ ~Throws(EncodeMqttString(value))
    BY <2>1, StringIsWritten, OneByteValue
  <2>3. ReadPropertyValue(r, type) = ReadMqttString(r)
    BY <1>5 DEF ReadPropertyValue
  <2> QED
    BY <2>1, <2>2, <2>3, StringIsRead
<1>6. CASE type = "binary"
  <2>1. /\ calls = <<EncodeMqttBinary(value)>> /\ ReceivedValue(type, value) = value
        /\ value \in Seq(Octet)
    BY <1>6 DEF Fits, WritePropertyValue, ReceivedValue
  <2>2. FlattenSeq(calls) = EncodeMqttBinary(value) /\ ~Throws(EncodeMqttBinary(value))
    BY <2>1, BinaryIsWritten, OneByteValue
  <2>3. ReadPropertyValue(r, type) = ReadMqttBinary(r)
    BY <1>6 DEF ReadPropertyValue
  <2> QED
    BY <2>1, <2>2, <2>3, BinaryIsRead
<1>7. CASE type = "stringPair"
  <2>1. PICK key \in Seq(CodeUnit) : key = value[1]
    BY <1>7 DEF Fits
  <2>2. PICK val \in Seq(CodeUnit) : val = value[2]
    BY <1>7 DEF Fits
  <2>3. /\ calls = <<EncodeMqttString(key), EncodeMqttString(val)>>
        /\ ReceivedValue(type, value) = <<CanonicalString(key), CanonicalString(val)>>
        /\ IsValidMqttString(key) /\ IsValidMqttString(val)
    BY <1>7, <2>1, <2>2 DEF Admitted, WritePropertyValue, ReceivedValue
  <2>4. EncodeMqttString(key) \in Seq(Octet) /\ EncodeMqttString(val) \in Seq(Octet)
    BY <2>3
  <2>5. ~Throws(EncodeMqttString(key)) /\ ~Throws(EncodeMqttString(val))
    BY <2>4, OctetsDoNotThrow
  <2>6. PICK first \in Seq(Octet) : first = EncodeMqttString(key)
    BY <2>4
  <2>7. PICK second \in Seq(Octet) : second = EncodeMqttString(val)
    BY <2>4
  <2>8. FlattenSeq(calls) = first \o second
    BY <2>3, <2>6, <2>7, FlattenTwo
  <2>9. Ahead(r, first) /\ Ahead(Advanced(r, Len(first)), second)
    BY <2>8, AheadBoth
  <2>10. PICK s : s = Advanced(r, Len(first))
    OBVIOUS
  <2>11. ReadMqttString(r) = Read(CanonicalString(key), r, Len(first))
    BY <2>3, <2>5, <2>6, <2>9, StringIsRead
  <2>12. ReadMqttString(s) = Read(CanonicalString(val), s, Len(second))
    BY <2>3, <2>5, <2>7, <2>9, <2>10, StringIsRead
  <2>13. ReadPropertyValue(r, type)
           = Read(<<CanonicalString(key), CanonicalString(val)>>, Advanced(s, Len(second)), 0)
    <3>1. ReadPropertyValue(r, type)
            = Then(ReadMqttString(r), LAMBDA k, afterKey :
              Then(ReadMqttString(afterKey), LAMBDA v, afterVal : Read(<<k, v>>, afterVal, 0)))
      BY <1>7 DEF ReadPropertyValue
    <3>2. ReadMqttString(r) = [ok |-> TRUE, value |-> CanonicalString(key), reader |-> s]
      BY <2>10, <2>11 DEF Read
    <3>3. ReadMqttString(s)
            = [ok |-> TRUE, value |-> CanonicalString(val), reader |-> Advanced(s, Len(second))]
      BY <2>12 DEF Read
    <3>4. Then(ReadMqttString(s), LAMBDA v, afterVal : Read(<<CanonicalString(key), v>>, afterVal, 0))
            = Read(<<CanonicalString(key), CanonicalString(val)>>, Advanced(s, Len(second)), 0)
      BY <3>3 DEF Then
    <3>5. ReadPropertyValue(r, type)
            = Then(ReadMqttString(s), LAMBDA v, afterVal : Read(<<CanonicalString(key), v>>, afterVal, 0))
      BY <3>1, <3>2 DEF Then
    <3> QED
      BY <3>4, <3>5
  <2>14. Advanced(Advanced(s, Len(second)), 0) = Advanced(r, Len(first \o second))
    <3>1. IsReader(r) /\ IsReader(s)
      BY <2>9, <2>10 DEF Ahead
    <3>2. IsReader(Advanced(s, Len(second)))
      BY <2>9, <2>10, AdvancedStays
    <3>3. Advanced(s, Len(second)) = Advanced(r, Len(first) + Len(second))
      BY <2>10, <3>1, AdvancedOn
    <3>4. Len(first \o second) = Len(first) + Len(second)
      BY ConcatEntries
    <3> QED
      BY <3>2, <3>3, <3>4, StaysPut
  <2>15. Read(<<CanonicalString(key), CanonicalString(val)>>, Advanced(s, Len(second)), 0)
           = Read(<<CanonicalString(key), CanonicalString(val)>>, r, Len(first \o second))
    BY <2>14 DEF Read
  <2> QED
    BY <2>3, <2>8, <2>13, <2>15
<1> QED
  BY <1>1, <1>2, <1>3, <1>4, <1>5, <1>6, <1>7 DEF ValueTypes

-----------------------------------------------------------------------------
(* The table of properties. *)

LEMMA IdsAreKnown ==
    ASSUME NEW id \in DOMAIN PropertyId
    PROVE  PropertyId[id] \in Nat /\ PropertyId[id] <= 42 /\ PropertyMeta[id] \in ValueTypes
BY SMTT(60) DEF PropertyId, PropertyMeta, ValueTypes

LEMMA IdsDiffer ==
    ASSUME NEW id \in DOMAIN PropertyId, NEW other \in DOMAIN PropertyId,
           PropertyId[id] = PropertyId[other]
    PROVE  id = other
BY SMTT(60) DEF PropertyId

LEMMA SmallIsInRange ==
    ASSUME NEW n \in Nat, n <= 42
    PROVE  InRange(n)
<1>1. Radix = 128 /\ MaxVarintLength \in Nat /\ MaxVarintLength >= 1
  BY CodecAssumption, VarintAssumption
<1>2. Power(1) = 128
  <2>1. Power(0 + 1) = Power(0) * Radix /\ Power(0) = 1
    BY PowerNext
  <2> QED
    BY <1>1, <2>1
<1>3. Power(1) <= Power(MaxVarintLength) /\ Power(MaxVarintLength) \in Nat
  BY <1>1, PowerGrows, PowerNext
<1>4. n <= Power(MaxVarintLength) - 1
  BY <1>2, <1>3
<1> QED
  BY <1>3, <1>4 DEF InRange, MaxVariableByteInteger

LEMMA IdIsFound ==
    ASSUME NEW id \in DOMAIN PropertyId, NEW number, number = PropertyId[id]
    PROVE  /\ \E known \in DOMAIN PropertyId : PropertyId[known] = number
           /\ id = CHOOSE known \in DOMAIN PropertyId : PropertyId[known] = number
<1>1. PICK found : found = CHOOSE known \in DOMAIN PropertyId : PropertyId[known] = number
  OBVIOUS
<1>2. found \in DOMAIN PropertyId /\ PropertyId[found] = number
  BY <1>1, Zenon
<1>3. found = id
  BY <1>2, IdsDiffer, Zenon
<1> QED
  BY <1>1, <1>3, Zenon

-----------------------------------------------------------------------------
(* An entry with one value. *)

IsInstance(e) ==
    /\ e = Entry(e.id, e.value) /\ e.id \in DOMAIN PropertyId
    /\ Fits(PropertyMeta[e.id], e.value)
IsAdmitted(e) == Admitted(PropertyMeta[e.id], e.value)
EntryCalls(e) == <<Varint(PropertyId[e.id])>> \o WritePropertyValue(PropertyMeta[e.id], e.value)
EntryBytes(e) == FlattenSeq(EntryCalls(e))
SizeOf(e) == VariableByteIntegerLength(PropertyId[e.id])
             + PropertyValueSize(PropertyMeta[e.id], e.value)

LEMMA EntryParts ==
    ASSUME NEW e, IsInstance(e)
    PROVE  \E first \in Seq(Octet) : \E calls \in Seq(Seq(Written)) :
              /\ first = Varint(PropertyId[e.id]) /\ EntryCalls(e) = <<first>> \o calls
              /\ Len(first) = VariableByteIntegerLength(PropertyId[e.id]) /\ Len(first) >= 1
              /\ calls = WritePropertyValue(PropertyMeta[e.id], e.value)
              /\ calls \in Seq(Seq(Octet)) =>
                    /\ Len(FlattenSeq(calls)) = PropertyValueSize(PropertyMeta[e.id], e.value)
                    /\ Len(FlattenSeq(calls)) >= 1
<1>1. PICK type : type = PropertyMeta[e.id]
  OBVIOUS
<1>2. type \in ValueTypes /\ Fits(type, e.value) /\ InRange(PropertyId[e.id])
  BY <1>1, IdsAreKnown, SmallIsInRange DEF IsInstance
<1>3. PICK calls : calls = WritePropertyValue(type, e.value)
  OBVIOUS
<1>4. /\ calls \in Seq(Seq(Written))
      /\ calls \in Seq(Seq(Octet)) =>
            /\ Len(FlattenSeq(calls)) = PropertyValueSize(type, e.value)
            /\ Len(FlattenSeq(calls)) >= 1
  BY <1>2, <1>3, ValueIsSized, Zenon DEF IsSized
<1>5. PICK first \in Seq(Octet) : first = Varint(PropertyId[e.id])
  BY <1>2, VarintIsWritten
<1>6. Len(first) = VariableByteIntegerLength(PropertyId[e.id]) /\ Len(first) >= 1
  BY <1>2, <1>5, VarintIsWritten
<1>7. EntryCalls(e) = <<first>> \o calls
  BY <1>1, <1>3, <1>5 DEF EntryCalls
<1> QED
  BY <1>1, <1>3, <1>4, <1>5, <1>6, <1>7, Zenon

LEMMA BytesBefore ==
    ASSUME NEW E, NEW first \in Seq(E), NEW calls \in Seq(Seq(E))
    PROVE  /\ <<first>> \o calls \in Seq(Seq(E))
           /\ FlattenSeq(<<first>> \o calls) = first \o FlattenSeq(calls)
           /\ FlattenSeq(calls) \in Seq(E)
<1>1. PICK one : one = <<first>>
  OBVIOUS
<1>2. one \in Seq(Seq(E))
  BY <1>1
<1>3. one \o calls \in Seq(Seq(E)) /\ FlattenSeq(one \o calls) = FlattenSeq(one) \o FlattenSeq(calls)
  BY <1>2, FlattenBoth
<1>4. FlattenSeq(one) = first
  BY <1>1, FlattenOne
<1> QED
  <2>1. FlattenSeq(calls) \in Seq(E)
    BY FlattenType
  <2>2. FlattenSeq(one \o calls) = first \o FlattenSeq(calls)
    BY <1>3, <1>4
  <2> QED
    BY <1>1, <1>3, <2>1, <2>2

LEMMA OneBehind ==
    ASSUME NEW E, NEW F, NEW first \in Seq(F), NEW calls \in Seq(Seq(F)),
           <<first>> \o calls \in Seq(Seq(E))
    PROVE  first \in Seq(E) /\ calls \in Seq(Seq(E))
<1>1. PICK one : one = <<first>>
  OBVIOUS
<1>2. one \in Seq(Seq(F)) /\ Len(one) = 1 /\ one[1] = first
  BY <1>1
<1>3. PICK all : all = one \o calls
  OBVIOUS
<1>4. all \in Seq(Seq(E)) /\ Len(all) = 1 + Len(calls) /\ all[1] = first
      /\ \A i \in 1..Len(calls) : all[1 + i] = calls[i]
  BY <1>1, <1>2, <1>3, ConcatEntries
<1>5. first \in Seq(E)
  BY <1>4
<1>6. \A i \in 1..Len(calls) : calls[i] \in Seq(E)
  <2> SUFFICES ASSUME NEW i \in 1..Len(calls) PROVE calls[i] \in Seq(E)
    OBVIOUS
  <2>1. 1 + i \in 1..Len(all) /\ all[1 + i] = calls[i]
    BY <1>4
  <2> QED
    BY <1>4, <2>1
<1> QED
  BY <1>5, <1>6

LEMMA EntryIsWritten ==
    ASSUME NEW e, IsInstance(e)
    PROVE  /\ EntryCalls(e) \in Seq(Seq(Written)) /\ EntryBytes(e) \in Seq(Written)
           /\ EntryCalls(e) \in Seq(Seq(Octet)) =>
                 /\ EntryBytes(e) \in Seq(Octet)
                 /\ Len(EntryBytes(e)) = SizeOf(e) /\ Len(EntryBytes(e)) >= 2
<1>1. PICK first \in Seq(Octet), calls \in Seq(Seq(Written)) :
              /\ first = Varint(PropertyId[e.id]) /\ EntryCalls(e) = <<first>> \o calls
              /\ Len(first) = VariableByteIntegerLength(PropertyId[e.id]) /\ Len(first) >= 1
              /\ calls = WritePropertyValue(PropertyMeta[e.id], e.value)
              /\ calls \in Seq(Seq(Octet)) =>
                    /\ Len(FlattenSeq(calls)) = PropertyValueSize(PropertyMeta[e.id], e.value)
                    /\ Len(FlattenSeq(calls)) >= 1
  BY EntryParts, Zenon
<1>2. first \in Seq(Written)
  BY OctetsAreWritten
<1>3. EntryCalls(e) \in Seq(Seq(Written))
  BY <1>1, <1>2, BytesBefore
<1>4. EntryBytes(e) \in Seq(Written)
  BY <1>3, FlattenType DEF EntryBytes
<1>5. ASSUME EntryCalls(e) \in Seq(Seq(Octet))
      PROVE  EntryBytes(e) \in Seq(Octet) /\ Len(EntryBytes(e)) = SizeOf(e)
             /\ Len(EntryBytes(e)) >= 2
  <2>1. calls \in Seq(Seq(Octet))
    BY <1>1, <1>2, <1>5, OneBehind
  <2>2. PICK rest \in Seq(Octet) : rest = FlattenSeq(calls)
    BY <2>1, FlattenType
  <2>3. EntryBytes(e) = first \o rest
    <3>1. FlattenSeq(<<first>> \o calls) = first \o FlattenSeq(calls)
      BY <2>1, BytesBefore
    <3> QED
      BY <1>1, <2>2, <3>1 DEF EntryBytes
  <2>4. Len(first \o rest) = Len(first) + Len(rest) /\ first \o rest \in Seq(Octet)
    BY ConcatEntries
  <2>5. Len(first) \in Nat /\ Len(rest) \in Nat
    OBVIOUS
  <2>6. Len(rest) = PropertyValueSize(PropertyMeta[e.id], e.value) /\ Len(rest) >= 1
    BY <1>1, <2>1, <2>2, Zenon
  <2> QED
    BY <1>1, <2>3, <2>4, <2>5, <2>6 DEF SizeOf
<1> QED
  BY <1>3, <1>4, <1>5

\* A successful read.
Gives(value, next) == [ok |-> TRUE, value |-> value, reader |-> next]

LEMMA ReadGives ==
    ASSUME NEW value, NEW r, NEW n
    PROVE  Read(value, r, n) = Gives(value, Advanced(r, n))
BY DEF Read, Gives

Known(number) == \E known \in DOMAIN PropertyId : PropertyId[known] = number
KnownAs(number) == CHOOSE known \in DOMAIN PropertyId : PropertyId[known] = number

LEMMA ReadPropertyIs ==
    ASSUME NEW r, NEW number, NEW s, ReadVariableByteInteger(r) = Gives(number, s),
           Known(number), NEW id, id = KnownAs(number), NEW type, type = PropertyMeta[id],
           NEW value, NEW t, ReadPropertyValue(s, type) = Gives(value, t)
    PROVE  ReadProperty(r) = Gives(Entry(id, value), Advanced(t, 0))
<1>1. PICK read : read = ReadVariableByteInteger(r)
  OBVIOUS
<1>2. read.ok /\ read.value = number /\ read.reader = s
  BY <1>1 DEF Gives
<1>3. PICK p : p = ReadPropertyValue(s, PropertyMeta[KnownAs(number)])
  OBVIOUS
<1>4. p.ok /\ p.value = value /\ p.reader = t
  BY <1>3 DEF Gives
<1>5. ReadProperty(r) = Read(Entry(id, p.value), p.reader, 0)
  BY <1>1, <1>2, <1>3, <1>4 DEF ReadProperty, Then, Known, KnownAs
<1> QED
  BY <1>4, <1>5 DEF Read, Gives

LEMMA EntryIsRead ==
    ASSUME NEW e, IsInstance(e), IsAdmitted(e), EntryCalls(e) \in Seq(Seq(Octet)),
           NEW r, Ahead(r, EntryBytes(e))
    PROVE  ReadProperty(r)
             = Read(Entry(e.id, ReceivedValue(PropertyMeta[e.id], e.value)), r, Len(EntryBytes(e)))
<1>1. PICK first \in Seq(Octet), calls \in Seq(Seq(Written)) :
              /\ first = Varint(PropertyId[e.id]) /\ EntryCalls(e) = <<first>> \o calls
              /\ calls = WritePropertyValue(PropertyMeta[e.id], e.value)
  BY EntryParts, Zenon
<1>2. calls \in Seq(Seq(Octet))
  BY <1>1, OctetsAreWritten, OneBehind
<1>3. PICK rest \in Seq(Octet) : rest = FlattenSeq(calls)
  BY <1>2, FlattenType
<1>4. EntryBytes(e) = first \o rest
  <2>1. FlattenSeq(<<first>> \o calls) = first \o FlattenSeq(calls)
    BY <1>2, BytesBefore
  <2> QED
    BY <1>1, <1>3, <2>1 DEF EntryBytes
<1>5. PICK s : s = Advanced(r, Len(first))
  OBVIOUS
<1>6. Ahead(r, first) /\ Ahead(s, rest)
  BY <1>4, <1>5, AheadBoth
<1>7. PICK id \in DOMAIN PropertyId : id = e.id
  BY DEF IsInstance
<1>8. PICK type : type = PropertyMeta[id]
  OBVIOUS
<1>9. type \in ValueTypes /\ Fits(type, e.value) /\ Admitted(type, e.value)
  BY <1>7, <1>8, IdsAreKnown DEF IsInstance, IsAdmitted
<1>10. PICK number : number = PropertyId[id]
  OBVIOUS
<1>11. InRange(number)
  BY <1>10, IdsAreKnown, SmallIsInRange
<1>12. ReadVariableByteInteger(r) = Read(number, r, Len(first))
  BY <1>1, <1>6, <1>7, <1>10, <1>11, VarintIsRead
<1>13. PICK value : value = ReceivedValue(type, e.value)
  OBVIOUS
<1>14. ReadPropertyValue(s, type) = Read(value, s, Len(rest))
  BY <1>1, <1>2, <1>3, <1>6, <1>7, <1>8, <1>9, <1>13, ValueIsRead
<1>15. Known(number) /\ id = KnownAs(number)
  BY <1>10, IdIsFound, Zenon DEF Known, KnownAs
<1>16. PICK t : t = Advanced(s, Len(rest))
  OBVIOUS
<1>17. ReadVariableByteInteger(r) = Gives(number, s) /\ ReadPropertyValue(s, type) = Gives(value, t)
  BY <1>5, <1>12, <1>14, <1>16, ReadGives
<1>18. ReadProperty(r) = Gives(Entry(id, value), Advanced(t, 0))
  BY <1>8, <1>15, <1>17, ReadPropertyIs, SMTT(30)
<1>19. Gives(Entry(id, value), Advanced(r, Len(first \o rest)))
         = Read(Entry(id, value), r, Len(first \o rest))
  BY ReadGives
<1>20. Advanced(Advanced(s, Len(rest)), 0) = Advanced(r, Len(first \o rest))
  <2>1. IsReader(r) /\ IsReader(s)
    BY <1>6 DEF Ahead
  <2>2. IsReader(Advanced(s, Len(rest)))
    BY <1>6, AdvancedStays
  <2>3. Advanced(s, Len(rest)) = Advanced(r, Len(first) + Len(rest))
    BY <1>5, <2>1, AdvancedOn
  <2>4. Len(first \o rest) = Len(first) + Len(rest)
    BY ConcatEntries
  <2> QED
    BY <2>2, <2>3, <2>4, StaysPut
<1> QED
  BY <1>4, <1>7, <1>8, <1>13, <1>16, <1>18, <1>19, <1>20

-----------------------------------------------------------------------------
(* Lists of lists. *)

Flattened(lists) == [i \in 1..Len(lists) |-> FlattenSeq(lists[i])]

LEMMA FlattenedType ==
    ASSUME NEW E, NEW lists \in Seq(Seq(Seq(E)))
    PROVE  Flattened(lists) \in Seq(Seq(E)) /\ Len(Flattened(lists)) = Len(lists)
           /\ \A i \in 1..Len(lists) : Flattened(lists)[i] = FlattenSeq(lists[i])
<1>1. \A i \in 1..Len(lists) : FlattenSeq(lists[i]) \in Seq(E)
  BY FlattenType
<1> QED
  BY <1>1 DEF Flattened

LEMMA FlattenNested ==
    ASSUME NEW E, NEW lists \in Seq(Seq(Seq(E)))
    PROVE  FlattenSeq(FlattenSeq(lists)) = FlattenSeq(Flattened(lists))
<1> DEFINE S == {n \in Nat : \A c \in Seq(Seq(Seq(E))) :
                    Len(c) = n => FlattenSeq(FlattenSeq(c)) = FlattenSeq(Flattened(c))}
<1>1. 0 \in S
  <2> SUFFICES ASSUME NEW c \in Seq(Seq(Seq(E))), Len(c) = 0
               PROVE  FlattenSeq(FlattenSeq(c)) = FlattenSeq(Flattened(c))
    OBVIOUS
  <2>1. c = <<>>
    OBVIOUS
  <2>2. Flattened(c) = <<>>
    <3>1. Flattened(c) \in Seq(Seq(E)) /\ Len(Flattened(c)) = 0
      BY FlattenedType
    <3> QED
      BY <3>1
  <2> QED
    BY <2>1, <2>2, FlattenNothing
<1>2. ASSUME NEW n \in Nat, n \in S PROVE n + 1 \in S
  <2> SUFFICES ASSUME NEW c \in Seq(Seq(Seq(E))), Len(c) = n + 1
               PROVE  FlattenSeq(FlattenSeq(c)) = FlattenSeq(Flattened(c))
    OBVIOUS
  <2>1. PICK front : front = SubSeq(c, 1, n)
    OBVIOUS
  <2>2. PICK last : last = c[n + 1]
    OBVIOUS
  <2>3. front \in Seq(Seq(Seq(E))) /\ Len(front) = n /\ last \in Seq(Seq(E))
        /\ \A i \in 1..n : front[i] = c[i]
    BY <2>1, <2>2
  <2>4. c = Append(front, last)
    BY <2>1, <2>2, <2>3
  <2>5. FlattenSeq(FlattenSeq(front)) = FlattenSeq(Flattened(front))
    BY <1>2, <2>3
  <2>6. FlattenSeq(c) = FlattenSeq(front) \o last
    BY <2>3, <2>4, FlattenAppend
  <2>7. FlattenSeq(front) \in Seq(Seq(E))
    BY <2>3, FlattenType
  <2>8. FlattenSeq(FlattenSeq(front) \o last) = FlattenSeq(FlattenSeq(front)) \o FlattenSeq(last)
    BY <2>3, <2>7, FlattenBoth
  <2>9. PICK x \in Seq(Seq(E)) : x = Flattened(front)
    BY <2>3, FlattenedType
  <2>10. PICK y \in Seq(E) : y = FlattenSeq(last)
    BY <2>3, FlattenType
  <2>11. PICK z \in Seq(Seq(E)) : z = Flattened(c)
    BY FlattenedType
  <2>12. z = Append(x, y)
    <3>1. Len(x) = n /\ Len(z) = n + 1
      BY <2>3, <2>9, <2>11, FlattenedType
    <3>2. Append(x, y) \in Seq(Seq(E)) /\ Len(Append(x, y)) = n + 1
      BY <3>1
    <3>3. ASSUME NEW i \in 1..(n + 1) PROVE z[i] = Append(x, y)[i]
      <4>1. z[i] = FlattenSeq(c[i])
        BY <2>11, FlattenedType
      <4>2. CASE i = n + 1
        BY <2>2, <2>10, <3>1, <4>1, <4>2
      <4>3. CASE i # n + 1
        <5>1. i \in 1..n
          BY <4>3
        <5>2. x[i] = FlattenSeq(front[i])
          BY <2>3, <2>9, <5>1, FlattenedType
        <5>3. Append(x, y)[i] = x[i]
          BY <3>1, <5>1
        <5> QED
          BY <2>3, <4>1, <5>1, <5>2, <5>3
      <4> QED
        BY <4>2, <4>3
    <3> QED
      BY <3>1, <3>2, <3>3, SameElements
  <2>13. FlattenSeq(z) = FlattenSeq(x) \o y
    BY <2>12, FlattenAppend
  <2> QED
    BY <2>5, <2>6, <2>8, <2>9, <2>10, <2>11, <2>13
<1> HIDE DEF S
<1>3. \A n \in Nat : n \in S
  BY <1>1, <1>2, Induction
<1>4. Len(lists) \in Nat
  OBVIOUS
<1> QED
  BY <1>3, <1>4 DEF S

LEMMA ElementsIn ==
    ASSUME NEW E, NEW X, NEW seq \in Seq(E), \A k \in 1..Len(seq) : seq[k] \in X
    PROVE  seq \in Seq(X)
OBVIOUS

\* What holds of the elements of joined sequences holds of the elements of each.
LEMMA PartsAreIn ==
    ASSUME NEW E, NEW X, NEW seqs \in Seq(Seq(E)), FlattenSeq(seqs) \in Seq(X)
    PROVE  seqs \in Seq(Seq(X))
<1>1. PICK joined \in Seq(E) : joined = FlattenSeq(seqs)
  BY FlattenType
<1>2. HasOffsets(seqs)
  BY OffsetsExist
<1>3. PICK f : Offsets(f, seqs) /\ StandAt(f, seqs, joined)
  BY <1>1, <1>2 DEF HasOffsets
<1>4. ASSUME NEW i \in 1..Len(seqs) PROVE seqs[i] \in Seq(X)
  <2>1. seqs[i] \in Seq(E)
    OBVIOUS
  <2>2. ASSUME NEW k \in 1..Len(seqs[i]) PROVE seqs[i][k] \in X
    <3>1. Holds(joined, f[i - 1], seqs[i]) /\ f[i - 1] \in Nat
      BY <1>3, StandingIsHeld
    <3>2. joined[f[i - 1] + k] = seqs[i][k] /\ f[i - 1] + k \in 1..Len(joined)
      BY <2>1, <3>1 DEF Holds
    <3>3. joined \in Seq(X)
      BY <1>1
    <3> QED
      BY <3>2, <3>3
  <2> QED
    BY <2>1, <2>2, ElementsIn
<1> QED
  BY <1>4, ElementsIn

-----------------------------------------------------------------------------
(* The size that stands in front of properties. *)

AllInstances(all) == Len(all) \in Nat /\ DOMAIN all = 1..Len(all) /\ \A i \in 1..Len(all) : IsInstance(all[i])
CallsOf(all) == [i \in 1..Len(all) |-> EntryCalls(all[i])]
SizeAfterOne(f, all, s) ==
    IF s = {} THEN 0 ELSE SizeOf(all[CHOOSE x \in s : TRUE]) + f[s \ {CHOOSE x \in s : TRUE}]
IsSizeSum(f, all) == f = [s \in SUBSET (DOMAIN all) |-> SizeAfterOne(f, all, s)]

LEMMA SizeIsSum ==
    ASSUME NEW all
    PROVE  CalculatePropertiesSize(all) = (CHOOSE f : IsSizeSum(f, all))[DOMAIN all]
BY DEF CalculatePropertiesSize, MapThenSumSet, MapThenFoldSet, IsSizeSum, SizeAfterOne, SizeOf

LEMMA CallsAreWritten ==
    ASSUME NEW all, AllInstances(all)
    PROVE  CallsOf(all) \in Seq(Seq(Seq(Written))) /\ Len(CallsOf(all)) = Len(all)
           /\ \A i \in 1..Len(all) : CallsOf(all)[i] = EntryCalls(all[i])
<1>1. \A i \in 1..Len(all) : EntryCalls(all[i]) \in Seq(Seq(Written))
  BY EntryIsWritten DEF AllInstances
<1> QED
  BY <1>1 DEF CallsOf, AllInstances

LEMMA SizedAsSummed ==
    ASSUME NEW all, NEW n \in Nat, DOMAIN all = 1..n, NEW h,
           \A i \in 1..n : h[i] = SizeOf(all[i]), NEW f
    PROVE  IsSizeSum(f, all) <=> IsSummed(f, h, 1..n)
<1>1. ASSUME NEW s \in SUBSET (1..n) PROVE SizeAfterOne(f, all, s) = SummedAfter(f, h, s)
  <2>1. CASE s = {}
    BY <2>1, Zenon DEF SizeAfterOne, SummedAfter
  <2>2. CASE s # {}
    <3>1. PICK x : x = CHOOSE y \in s : TRUE
      OBVIOUS
    <3>2. x \in s
      BY <2>2, <3>1, Zenon
    <3>3. h[x] = SizeOf(all[x])
      BY <3>2, Zenon
    <3>4. SizeAfterOne(f, all, s) = SizeOf(all[x]) + f[s \ {x}]
      BY <2>2, <3>1, Zenon DEF SizeAfterOne
    <3>5. SummedAfter(f, h, s) = h[x] + f[s \ {x}]
      BY <2>2, <3>1, Zenon DEF SummedAfter
    <3> QED
      BY <3>3, <3>4, <3>5, Zenon
  <2> QED
    BY <2>1, <2>2
<1>2. [s \in SUBSET (1..n) |-> SizeAfterOne(f, all, s)] = [s \in SUBSET (1..n) |-> SummedAfter(f, h, s)]
  BY <1>1, Zenon
<1> QED
  BY <1>2, Zenon DEF IsSizeSum, IsSummed

\* The size that calculatePropertiesSize() adds up of the values, before a byte of them is
\* written, is the number of bytes that encodeProperties() writes behind it.
THEOREM SizeIsWhatIsWritten ==
    ASSUME NEW all, AllInstances(all), NEW calls, calls = FlattenSeq(CallsOf(all)),
           calls \in Seq(Seq(Octet))
    PROVE  CalculatePropertiesSize(all) = Len(FlattenSeq(calls))
<1>1. PICK n \in Nat : n = Len(all)
  BY DEF AllInstances
<1>2. PICK lists \in Seq(Seq(Seq(Written))) : lists = CallsOf(all)
  BY CallsAreWritten
<1>3. Len(lists) = n /\ \A i \in 1..n : lists[i] = EntryCalls(all[i])
  BY <1>1, <1>2, CallsAreWritten
<1>4. lists \in Seq(Seq(Seq(Octet)))
  BY <1>2, PartsAreIn
<1>5. PICK seqs \in Seq(Seq(Octet)) : seqs = Flattened(lists)
  BY <1>4, FlattenedType
<1>6. Len(seqs) = n /\ \A i \in 1..n : seqs[i] = FlattenSeq(lists[i])
  BY <1>3, <1>4, <1>5, FlattenedType
<1>7. PICK h : h = Lengths(seqs)
  OBVIOUS
<1>8. \A i \in 1..n : h[i] = SizeOf(all[i])
  <2> SUFFICES ASSUME NEW i \in 1..n PROVE h[i] = SizeOf(all[i])
    OBVIOUS
  <2>1. h[i] = Len(seqs[i])
    BY <1>6, <1>7 DEF Lengths
  <2>2. seqs[i] = EntryBytes(all[i])
    BY <1>3, <1>6 DEF EntryBytes
  <2>3. lists[i] \in Seq(Seq(Octet)) /\ IsInstance(all[i])
    BY <1>1, <1>3, <1>4 DEF AllInstances
  <2>4. EntryCalls(all[i]) \in Seq(Seq(Octet))
    BY <1>3, <2>3
  <2> QED
    BY <2>1, <2>2, <2>3, <2>4, EntryIsWritten
<1>9. DOMAIN all = 1..n
  BY <1>1 DEF AllInstances
<1>10. \A g : IsSizeSum(g, all) <=> IsSummed(g, h, 1..n)
  BY <1>8, <1>9, SizedAsSummed
<1>11. PICK f : f = CHOOSE g : IsSummed(g, h, 1..n)
  OBVIOUS
<1>12. f = CHOOSE g : IsSizeSum(g, all)
  BY <1>10, <1>11, Zenon
<1>13. f[1..n] = Len(FlattenSeq(seqs))
  BY <1>5, <1>6, <1>7, <1>11, LengthsAddUp
<1>14. FlattenSeq(calls) = FlattenSeq(seqs)
  BY <1>2, <1>4, <1>5, FlattenNested
<1> QED
  BY <1>9, <1>12, <1>13, <1>14, SizeIsSum

-----------------------------------------------------------------------------
(* The entries of properties, with all their values, and what is read of    *)
(* them value by value.                                                     *)

ValuesOf(entry) == IF entry.id \in Multiple THEN entry.value ELSE <<entry.value>>
GroupFor(entry) == [v \in DOMAIN ValuesOf(entry) |-> Entry(entry.id, ValuesOf(entry)[v])]
GroupsOf(raw) == [i \in 1..Len(raw) |-> GroupFor(raw[i])]

\* Entries with at least one value each, no two of an identifier.
IsRaw(raw) ==
    /\ Len(raw) \in Nat /\ DOMAIN raw = 1..Len(raw)
    /\ \A i \in 1..Len(raw) :
          /\ raw[i].id \in DOMAIN PropertyId
          /\ Len(ValuesOf(raw[i])) \in Nat \ {0} /\ DOMAIN ValuesOf(raw[i]) = 1..Len(ValuesOf(raw[i]))
          /\ \A v \in 1..Len(ValuesOf(raw[i])) :
                Fits(PropertyMeta[raw[i].id], ValuesOf(raw[i])[v])
    /\ \A i, j \in 1..Len(raw) : raw[i].id = raw[j].id => i = j
IsAdmittedRaw(raw) ==
    \A i \in 1..Len(raw) : \A v \in 1..Len(ValuesOf(raw[i])) :
        Admitted(PropertyMeta[raw[i].id], ValuesOf(raw[i])[v])

UpTo(s, n) == [i \in 1..n |-> s[i]]

\* What a receiver has of an entry when it has read so many of its values.
ReadValues(entry, n) ==
    [v \in 1..n |-> ReceivedValue(PropertyMeta[entry.id], ValuesOf(entry)[v])]
PartialEntry(entry, n) ==
    Entry(entry.id, IF entry.id \in Multiple THEN ReadValues(entry, n)
                    ELSE ReceivedValue(PropertyMeta[entry.id], ValuesOf(entry)[1]))
ReceivedEntry(entry) == PartialEntry(entry, Len(ValuesOf(entry)))
ReceivedRaw(raw) == [i \in 1..Len(raw) |-> ReceivedEntry(raw[i])]

LEMMA FunctionIsSeq ==
    ASSUME NEW n \in Nat, NEW s, s = [i \in 1..n |-> s[i]], NEW X, \A i \in 1..n : s[i] \in X
    PROVE  s \in Seq(X) /\ Len(s) = n
BY SMT

LEMMA InstancesAreGroups ==
    ASSUME NEW raw, IsRaw(raw)
    PROVE  Instances(raw) = FlattenSeq(GroupsOf(raw))
<1>1. DOMAIN raw = 1..Len(raw)
  BY DEF IsRaw
<1> QED
  BY <1>1 DEF Instances, GroupsOf, GroupFor, ValuesOf

InstancesIn(raw) ==
    UNION {{Entry(raw[i].id, ValuesOf(raw[i])[v]) : v \in 1..Len(ValuesOf(raw[i]))} : i \in 1..Len(raw)}

LEMMA InstanceIn ==
    ASSUME NEW raw, NEW i \in 1..Len(raw), NEW v \in 1..Len(ValuesOf(raw[i]))
    PROVE  Entry(raw[i].id, ValuesOf(raw[i])[v]) \in InstancesIn(raw)
<1>1. PICK one : one = {Entry(raw[i].id, ValuesOf(raw[i])[u]) : u \in 1..Len(ValuesOf(raw[i]))}
  OBVIOUS
<1>2. Entry(raw[i].id, ValuesOf(raw[i])[v]) \in one
  BY <1>1, Zenon
<1>3. one \in {{Entry(raw[j].id, ValuesOf(raw[j])[u]) : u \in 1..Len(ValuesOf(raw[j]))} : j \in 1..Len(raw)}
  BY <1>1, Zenon
<1> QED
  BY <1>2, <1>3, Zenon DEF InstancesIn

LEMMA IsInInstances ==
    ASSUME NEW raw, NEW e \in InstancesIn(raw)
    PROVE  \E i \in 1..Len(raw) : \E v \in 1..Len(ValuesOf(raw[i])) :
              e = Entry(raw[i].id, ValuesOf(raw[i])[v])
BY Zenon DEF InstancesIn

LEMMA EntryFields ==
    ASSUME NEW id, NEW value
    PROVE  /\ Entry(id, value).id = id /\ Entry(id, value).value = value
           /\ Entry(id, value) = Entry(Entry(id, value).id, Entry(id, value).value)
BY DEF Entry

LEMMA InstancesFit ==
    ASSUME NEW raw, IsRaw(raw), NEW e \in InstancesIn(raw)
    PROVE  IsInstance(e) /\ (IsAdmittedRaw(raw) => IsAdmitted(e))
<1>a. PICK i \in 1..Len(raw) : \E v \in 1..Len(ValuesOf(raw[i])) :
             e = Entry(raw[i].id, ValuesOf(raw[i])[v])
  BY IsInInstances, Zenon
<1>1. PICK v \in 1..Len(ValuesOf(raw[i])) : e = Entry(raw[i].id, ValuesOf(raw[i])[v])
  BY <1>a, Zenon
<1>2. e.id = raw[i].id /\ e.value = ValuesOf(raw[i])[v] /\ e = Entry(e.id, e.value)
  BY <1>1, Zenon DEF Entry
<1>3. e.id \in DOMAIN PropertyId /\ Fits(PropertyMeta[e.id], e.value)
  BY <1>2, Zenon DEF IsRaw
<1>4. IsAdmittedRaw(raw) => Admitted(PropertyMeta[e.id], e.value)
  BY <1>2, Zenon DEF IsAdmittedRaw
<1> QED
  BY <1>2, <1>3, <1>4, Zenon DEF IsInstance, IsAdmitted

LEMMA GroupsType ==
    ASSUME NEW raw, IsRaw(raw)
    PROVE  /\ GroupsOf(raw) \in Seq(Seq(InstancesIn(raw))) /\ Len(GroupsOf(raw)) = Len(raw)
           /\ \A i \in 1..Len(raw) :
                 /\ Len(GroupsOf(raw)[i]) = Len(ValuesOf(raw[i]))
                 /\ \A v \in 1..Len(ValuesOf(raw[i])) :
                       GroupsOf(raw)[i][v] = Entry(raw[i].id, ValuesOf(raw[i])[v])
<1>1. ASSUME NEW i \in 1..Len(raw)
      PROVE  /\ GroupFor(raw[i]) \in Seq(InstancesIn(raw))
             /\ Len(GroupFor(raw[i])) = Len(ValuesOf(raw[i]))
             /\ \A v \in 1..Len(ValuesOf(raw[i])) :
                   GroupFor(raw[i])[v] = Entry(raw[i].id, ValuesOf(raw[i])[v])
  <2>1. PICK m \in Nat : m = Len(ValuesOf(raw[i]))
    BY DEF IsRaw
  <2>2. DOMAIN ValuesOf(raw[i]) = 1..m
    BY <2>1 DEF IsRaw
  <2>3. PICK group : group = GroupFor(raw[i])
    OBVIOUS
  <2>4. group = [v \in 1..m |-> Entry(raw[i].id, ValuesOf(raw[i])[v])]
    BY <2>2, <2>3, Zenon DEF GroupFor
  <2>5. \A v \in 1..m : Entry(raw[i].id, ValuesOf(raw[i])[v]) \in InstancesIn(raw)
    BY <2>1, InstanceIn, Zenon
  <2>6. /\ \A v \in 1..m : group[v] = Entry(raw[i].id, ValuesOf(raw[i])[v])
        /\ \A v \in 1..m : group[v] \in InstancesIn(raw)
        /\ group = [v \in 1..m |-> group[v]]
    BY <2>4, <2>5, Zenon
  <2>7. group \in Seq(InstancesIn(raw)) /\ Len(group) = m
    BY <2>6, FunctionIsSeq
  <2> QED
    BY <2>1, <2>3, <2>6, <2>7, Zenon
<1>2. PICK n \in Nat : n = Len(raw)
  BY DEF IsRaw
<1>3. PICK groups : groups = GroupsOf(raw)
  OBVIOUS
<1>4. groups = [i \in 1..n |-> GroupFor(raw[i])]
  BY <1>2, <1>3, Zenon DEF GroupsOf
<1>5. /\ \A i \in 1..n : groups[i] = GroupFor(raw[i])
      /\ \A i \in 1..n : groups[i] \in Seq(InstancesIn(raw))
      /\ groups = [i \in 1..n |-> groups[i]]
  BY <1>1, <1>2, <1>4, Zenon
<1>6. groups \in Seq(Seq(InstancesIn(raw))) /\ Len(groups) = n
  BY <1>5, FunctionIsSeq
<1> QED
  BY <1>1, <1>2, <1>3, <1>5, <1>6, Zenon

LEMMA InstancesType ==
    ASSUME NEW raw, IsRaw(raw)
    PROVE  /\ Instances(raw) \in Seq(InstancesIn(raw)) /\ AllInstances(Instances(raw))
           /\ IsAdmittedRaw(raw) => \A i \in 1..Len(Instances(raw)) : IsAdmitted(Instances(raw)[i])
<1>1. PICK all \in Seq(InstancesIn(raw)) : all = Instances(raw)
  BY InstancesAreGroups, GroupsType, FlattenType
<1>2. \A i \in 1..Len(all) : all[i] \in InstancesIn(raw)
  OBVIOUS
<1>3. Len(all) \in Nat /\ DOMAIN all = 1..Len(all)
  OBVIOUS
<1> QED
  BY <1>1, <1>2, <1>3, InstancesFit, Zenon DEF AllInstances

-----------------------------------------------------------------------------
(* One more value read. *)

LEMMA AppendIs ==
    ASSUME NEW m \in Nat, NEW s, s = [i \in 1..m |-> s[i]], NEW e
    PROVE  Append(s, e) = [i \in 1..(m + 1) |-> IF i = m + 1 THEN e ELSE s[i]]
<1>1. PICK X : X = {s[i] : i \in 1..m} \cup {e}
  OBVIOUS
<1>2. e \in X /\ \A i \in 1..m : s[i] \in X
  BY <1>1
<1>3. s \in Seq(X) /\ Len(s) = m
  BY <1>2, FunctionIsSeq
<1> QED
  BY <1>2, <1>3

LEMMA ValueIsNew ==
    ASSUME NEW front, NEW id, NEW value, ~HasId(front, id)
    PROVE  WithValue(front, id, value)
             = Append(front, Entry(id, IF id \in Multiple THEN <<value>> ELSE value))
BY DEF WithValue

IsList(s, n) == s = [i \in 1..n |-> s[i]]

LEMMA ValueIsMore ==
    ASSUME NEW m \in Nat, NEW front, IsList(front, m), NEW id \in Multiple,
           ~HasId(front, id), NEW values, NEW value
    PROVE  WithValue(Append(front, Entry(id, values)), id, value)
             = Append(front, Entry(id, Append(values, value)))
<1>12. front = [i \in 1..m |-> front[i]]
  BY DEF IsList
<1>1. PICK before : before = Append(front, Entry(id, values))
  OBVIOUS
<1>2. before = [i \in 1..(m + 1) |-> IF i = m + 1 THEN Entry(id, values) ELSE front[i]]
  BY <1>1, <1>12, AppendIs
<1>3. PICK after : after = Append(front, Entry(id, Append(values, value)))
  OBVIOUS
<1>4. after = [i \in 1..(m + 1) |-> IF i = m + 1 THEN Entry(id, Append(values, value)) ELSE front[i]]
  BY <1>3, <1>12, AppendIs
<1>5. DOMAIN before = 1..(m + 1) /\ m + 1 \in 1..(m + 1)
  BY <1>2
<1>6. before[m + 1] = Entry(id, values)
  BY <1>2, <1>5
<1>11. before[m + 1].id = id /\ before[m + 1].value = values
  BY <1>6 DEF Entry
<1>7. HasId(before, id)
  BY <1>5, <1>11, Zenon DEF HasId
<1>8. WithValue(before, id, value)
        = [i \in 1..(m + 1) |-> IF before[i].id = id THEN Entry(id, Append(before[i].value, value))
                                ELSE before[i]]
  BY <1>5, <1>7, Zenon DEF WithValue
<1>9. ASSUME NEW i \in 1..(m + 1)
      PROVE  (IF before[i].id = id THEN Entry(id, Append(before[i].value, value)) ELSE before[i])
               = (IF i = m + 1 THEN Entry(id, Append(values, value)) ELSE front[i])
  <2>1. CASE i = m + 1
    <3>1. before[i].id = id /\ before[i].value = values
      BY <1>11, <2>1
    <3> QED
      BY <2>1, <3>1, Zenon
  <2>2. CASE i # m + 1
    <3>1. i \in 1..m /\ before[i] = front[i]
      BY <1>2, <2>2
    <3>2. DOMAIN front = 1..m
      BY <1>12
    <3>3. front[i].id # id
      BY <3>1, <3>2, Zenon DEF HasId
    <3> QED
      BY <2>2, <3>1, <3>3, Zenon
  <2> QED
    BY <2>1, <2>2
<1>10. WithValue(before, id, value) = after
  BY <1>4, <1>8, <1>9, Zenon
<1> QED
  BY <1>1, <1>3, <1>7, <1>10, Zenon

-----------------------------------------------------------------------------
(* The loop that reads properties, turn by turn. *)

TurnAfter(before, r, endOffset, t) ==
    IF t = 0 THEN Read(<<>>, r, 0)
    ELSE Then(before, LAMBDA raw, next :
         IF next.position >= endOffset THEN Read(raw, next, 0)
         ELSE Then(ReadProperty(next), LAMBDA property, last :
              IF property.id \notin Multiple /\ HasId(raw, property.id)
              THEN Err("PROTOCOL_ERROR")
              ELSE Read(WithValue(raw, property.id, property.value), last, 0)))
IsTurns(f, r, endOffset, n) == f = [t \in 0..n |-> TurnAfter(f[t - 1], r, endOffset, t)]

LEMMA LoopIsTurns ==
    ASSUME NEW r, NEW endOffset
    PROVE  ReadPropertiesUntil(r, endOffset)
             = (CHOOSE f : IsTurns(f, r, endOffset, Len(r.buffer)))[(endOffset - r.position + 1) \div 2]
BY DEF ReadPropertiesUntil, IsTurns, TurnAfter

LEMMA TurnEntry ==
    ASSUME NEW f, NEW r, NEW endOffset, NEW n, IsTurns(f, r, endOffset, n), NEW t \in 0..n
    PROVE  f[t] = TurnAfter(f[t - 1], r, endOffset, t)
BY DEF IsTurns

LEMMA FirstTurn ==
    ASSUME NEW x, NEW y, NEW r, NEW endOffset
    PROVE  TurnAfter(x, r, endOffset, 0) = TurnAfter(y, r, endOffset, 0)
           /\ TurnAfter(x, r, endOffset, 0) = Read(<<>>, r, 0)
BY DEF TurnAfter

LEMMA TurnsExist ==
    ASSUME NEW r, NEW endOffset, NEW n \in Nat
    PROVE  \E f : IsTurns(f, r, endOffset, n)
<1> DEFINE S == {m \in Nat : \E f : IsTurns(f, r, endOffset, m)}
<1>1. 0 \in S
  <2> DEFINE g == [t \in 0..0 |-> Read(<<>>, r, 0)]
  <2>1. \A t \in 0..0 : t = 0 /\ g[t] = Read(<<>>, r, 0)
    OBVIOUS
  <2>2. g = [t \in 0..0 |-> g[t]]
    OBVIOUS
  <2> HIDE DEF g
  <2>3. \A t \in 0..0 : g[t] = TurnAfter(g[t - 1], r, endOffset, t)
    BY <2>1, FirstTurn
  <2>4. IsTurns(g, r, endOffset, 0)
    BY <2>2, <2>3 DEF IsTurns
  <2> QED
    BY <2>4
<1>2. ASSUME NEW m \in Nat, m \in S PROVE m + 1 \in S
  <2>1. PICK f : IsTurns(f, r, endOffset, m)
    BY <1>2
  <2> DEFINE g == [t \in 0..(m + 1) |-> IF t <= m THEN f[t] ELSE TurnAfter(f[t - 1], r, endOffset, t)]
  <2>2. \A t \in 0..(m + 1) : g[t] = IF t <= m THEN f[t] ELSE TurnAfter(f[t - 1], r, endOffset, t)
    OBVIOUS
  <2>3. g = [t \in 0..(m + 1) |-> g[t]]
    OBVIOUS
  <2> HIDE DEF g
  <2>4. ASSUME NEW t \in 0..(m + 1) PROVE g[t] = TurnAfter(g[t - 1], r, endOffset, t)
    <3>1. g[t] = TurnAfter(f[t - 1], r, endOffset, t)
      <4>1. CASE t <= m
        <5>1. t \in 0..m
          BY <4>1
        <5> QED
          BY <2>1, <2>2, <4>1, <5>1, TurnEntry
      <4>2. CASE ~(t <= m)
        BY <2>2, <4>2
      <4> QED
        BY <4>1, <4>2
    <3>2. CASE t = 0
      <4>1. TurnAfter(f[0 - 1], r, endOffset, 0) = TurnAfter(g[0 - 1], r, endOffset, 0)
        BY FirstTurn, Zenon
      <4> QED
        BY <3>1, <3>2, <4>1
    <3>3. CASE t # 0
      <4>1. t - 1 \in 0..(m + 1) /\ t - 1 <= m
        BY <3>3
      <4>2. g[t - 1] = f[t - 1]
        BY <2>2, <4>1
      <4> QED
        BY <3>1, <4>2
    <3> QED
      BY <3>2, <3>3
  <2>5. IsTurns(g, r, endOffset, m + 1)
    BY <2>3, <2>4, Zenon DEF IsTurns
  <2> QED
    BY <2>5
<1> HIDE DEF S
<1>3. \A m \in Nat : m \in S
  BY <1>1, <1>2, Induction
<1> QED
  BY <1>3 DEF S

\* A turn in front of the end reads a property; one behind it changes nothing.
LEMMA TurnTaken ==
    ASSUME NEW raw, NEW s, NEW r, NEW endOffset, NEW t, t # 0, ~(s.position >= endOffset),
           NEW id, NEW value, NEW u, ReadProperty(s) = Gives(Entry(id, value), u), IsReader(u),
           id \in Multiple \/ ~HasId(raw, id)
    PROVE  TurnAfter(Gives(raw, s), r, endOffset, t) = Gives(WithValue(raw, id, value), u)
<1>1. PICK before : before = Gives(raw, s)
  OBVIOUS
<1>2. before.ok /\ before.value = raw /\ before.reader = s
  BY <1>1 DEF Gives
<1>3. PICK p : p = ReadProperty(s)
  OBVIOUS
<1>4. p.ok /\ p.value.id = id /\ p.value.value = value /\ p.reader = u
  BY <1>3 DEF Gives, Entry
<1>5. TurnAfter(before, r, endOffset, t) = Read(WithValue(raw, id, value), u, 0)
  BY <1>2, <1>3, <1>4 DEF TurnAfter, Then
<1> QED
  BY <1>1, <1>5, ReadGives, StaysPut

LEMMA TurnIdle ==
    ASSUME NEW raw, NEW s, IsReader(s), NEW r, NEW endOffset, NEW t, t # 0, s.position >= endOffset
    PROVE  TurnAfter(Gives(raw, s), r, endOffset, t) = Gives(raw, s)
<1>1. PICK before : before = Gives(raw, s)
  OBVIOUS
<1>2. before.ok /\ before.value = raw /\ before.reader = s
  BY <1>1 DEF Gives
<1>3. TurnAfter(before, r, endOffset, t) = Read(raw, s, 0)
  BY <1>2 DEF TurnAfter, Then
<1> QED
  BY <1>1, <1>3, ReadGives, StaysPut

-----------------------------------------------------------------------------
(* The turns over entries that stand one behind the other. *)

ValueIn(e) == ReceivedValue(PropertyMeta[e.id], e.value)
Reading(f, off, all, r, n, endOffset) ==
    /\ n \in Nat /\ \E m \in Nat : n <= m /\ IsTurns(f, r, endOffset, m)
    /\ \A t \in 1..n :
          /\ ~(Advanced(r, off[t - 1]).position >= endOffset)
          /\ ReadProperty(Advanced(r, off[t - 1])) = Gives(Entry(all[t].id, ValueIn(all[t])), Advanced(r, off[t]))
          /\ IsReader(Advanced(r, off[t]))

LEMMA ValueTurn ==
    ASSUME NEW f, NEW off, NEW all, NEW r, NEW n, NEW endOffset, Reading(f, off, all, r, n, endOffset),
           NEW t \in 1..n, NEW before, f[t - 1] = Gives(before, Advanced(r, off[t - 1])),
           NEW id, id = all[t].id, id \in Multiple \/ ~HasId(before, id)
    PROVE  f[t] = Gives(WithValue(before, id, ValueIn(all[t])), Advanced(r, off[t]))
<1>1. PICK m \in Nat : n <= m /\ IsTurns(f, r, endOffset, m)
  BY DEF Reading
<1>2. n \in Nat /\ t \in 0..m /\ t # 0
  BY <1>1 DEF Reading
<1>3. f[t] = TurnAfter(f[t - 1], r, endOffset, t)
  BY <1>1, <1>2, TurnEntry
<1>4. PICK s : s = Advanced(r, off[t - 1])
  OBVIOUS
<1>5. PICK u : u = Advanced(r, off[t])
  OBVIOUS
<1>6. ~(s.position >= endOffset) /\ ReadProperty(s) = Gives(Entry(id, ValueIn(all[t])), u) /\ IsReader(u)
  BY <1>4, <1>5, Zenon DEF Reading
<1>7. TurnAfter(Gives(before, s), r, endOffset, t) = Gives(WithValue(before, id, ValueIn(all[t])), u)
  BY <1>2, <1>6, TurnTaken
<1> QED
  BY <1>3, <1>4, <1>5, <1>7

LEMMA OneIsFunction ==
    ASSUME NEW x
    PROVE  <<x>> = [u \in 1..1 |-> x]
OBVIOUS

Collected(id, values, v) ==
    IF id \in Multiple THEN [u \in 1..v |-> ReceivedValue(PropertyMeta[id], values[u])]
    ELSE ReceivedValue(PropertyMeta[id], values[1])

LEMMA CollectedFirst ==
    ASSUME NEW id, NEW values, NEW x, x = ReceivedValue(PropertyMeta[id], values[1])
    PROVE  (IF id \in Multiple THEN <<x>> ELSE x) = Collected(id, values, 1)
<1>1. CASE id \notin Multiple
  BY <1>1, Zenon DEF Collected
<1>2. CASE id \in Multiple
  <2>1. \A u \in 1..1 : x = ReceivedValue(PropertyMeta[id], values[u])
    OBVIOUS
  <2>2. [u \in 1..1 |-> x] = [u \in 1..1 |-> ReceivedValue(PropertyMeta[id], values[u])]
    BY <2>1, Zenon
  <2> QED
    BY <1>2, <2>2, OneIsFunction, Zenon DEF Collected
<1> QED
  BY <1>1, <1>2

LEMMA CollectedNext ==
    ASSUME NEW id \in Multiple, NEW values, NEW v \in Nat, NEW x,
           x = ReceivedValue(PropertyMeta[id], values[v + 1])
    PROVE  Append(Collected(id, values, v), x) = Collected(id, values, v + 1)
<1>1. PICK s : s = Collected(id, values, v)
  OBVIOUS
<1>2. s = [u \in 1..v |-> ReceivedValue(PropertyMeta[id], values[u])]
  BY <1>1, Zenon DEF Collected
<1>3. s = [u \in 1..v |-> s[u]] /\ \A u \in 1..v : s[u] = ReceivedValue(PropertyMeta[id], values[u])
  BY <1>2, Zenon
<1>4. Append(s, x) = [u \in 1..(v + 1) |-> IF u = v + 1 THEN x ELSE s[u]]
  BY <1>3, AppendIs
<1>5. ASSUME NEW u \in 1..(v + 1)
      PROVE  (IF u = v + 1 THEN x ELSE s[u]) = ReceivedValue(PropertyMeta[id], values[u])
  <2>1. CASE u = v + 1
    BY <2>1, Zenon
  <2>2. CASE u # v + 1
    <3>1. u \in 1..v
      BY <2>2
    <3> QED
      BY <1>3, <2>2, <3>1, Zenon
  <2> QED
    BY <2>1, <2>2
<1>6. [u \in 1..(v + 1) |-> IF u = v + 1 THEN x ELSE s[u]]
        = [u \in 1..(v + 1) |-> ReceivedValue(PropertyMeta[id], values[u])]
  BY <1>5, Zenon
<1> QED
  BY <1>1, <1>4, <1>6, Zenon DEF Collected

\* Entries of one identifier that follow each other, entries read of others, and what has been
\* read after some turns.
InGroup(all, base, m, id, values, n) ==
    /\ base \in Nat /\ m \in Nat /\ m >= 1 /\ base + m <= n
    /\ \A v \in 1..m : all[base + v] = Entry(id, values[v])
    /\ id \in Multiple \/ m = 1
Lacks(front, k, id) == k \in Nat /\ IsList(front, k) /\ ~HasId(front, id)
HasRead(f, off, r, t, raw) == f[t] = Gives(raw, Advanced(r, off[t]))

LEMMA GroupIsRead ==
    ASSUME NEW f, NEW off, NEW all, NEW r, NEW n, NEW endOffset, Reading(f, off, all, r, n, endOffset),
           NEW base, NEW m, NEW id, NEW values, InGroup(all, base, m, id, values, n),
           NEW k, NEW front, Lacks(front, k, id), HasRead(f, off, r, base, front)
    PROVE  HasRead(f, off, r, base + m, Append(front, Entry(id, Collected(id, values, m))))
<1>10. /\ base \in Nat /\ m \in Nat /\ m >= 1 /\ base + m <= n
       /\ \A v \in 1..m : all[base + v] = Entry(id, values[v])
       /\ id \in Multiple \/ m = 1
       /\ k \in Nat /\ IsList(front, k) /\ ~HasId(front, id)
       /\ f[base] = Gives(front, Advanced(r, off[base]))
  BY DEF InGroup, Lacks, HasRead
<1> USE <1>10
<1>1. n \in Nat
  BY DEF Reading
<1>2. ASSUME NEW v \in 1..m
      PROVE  /\ base + v \in 1..n /\ base + v \in Nat
             /\ all[base + v].id = id
             /\ ValueIn(all[base + v]) = ReceivedValue(PropertyMeta[id], values[v])
  <2>1. PICK e : e = all[base + v]
    OBVIOUS
  <2>2. e = Entry(id, values[v])
    BY <2>1, Zenon
  <2>3. e.id = id /\ e.value = values[v]
    BY <2>2 DEF Entry
  <2> QED
    BY <1>1, <2>1, <2>3 DEF ValueIn
<1>8. ASSUME NEW t \in 1..n, NEW b, f[t - 1] = Gives(b, Advanced(r, off[t - 1])),
             NEW i, i = all[t].id, i \in Multiple \/ ~HasId(b, i)
      PROVE  f[t] = Gives(WithValue(b, i, ValueIn(all[t])), Advanced(r, off[t]))
  BY ValueTurn, <1>8
<1>9. ASSUME id \in Multiple, NEW c, NEW x
      PROVE  WithValue(Append(front, Entry(id, c)), id, x) = Append(front, Entry(id, Append(c, x)))
  BY <1>9, ValueIsMore
<1> DEFINE S == {v \in Nat : v + 1 <= m =>
                    f[base + (v + 1)] = Gives(Append(front, Entry(id, Collected(id, values, v + 1))),
                                              Advanced(r, off[base + (v + 1)]))}
<1>3. 0 \in S
  <2>1. PICK t : t = base + 1
    OBVIOUS
  <2>2. 1 \in 1..m
    OBVIOUS
  <2>3. t \in 1..n /\ t - 1 = base /\ all[t].id = id
        /\ ValueIn(all[t]) = ReceivedValue(PropertyMeta[id], values[1])
    BY <1>2, <2>1, <2>2
  <2>7. f[t - 1] = Gives(front, Advanced(r, off[t - 1])) /\ id = all[t].id
    BY <2>3
  <2>4. f[t] = Gives(WithValue(front, id, ValueIn(all[t])), Advanced(r, off[t]))
    BY <1>8, <2>3, <2>7, Zenon
  <2>8. PICK x : x = ValueIn(all[t])
    OBVIOUS
  <2>9. WithValue(front, id, x) = Append(front, Entry(id, IF id \in Multiple THEN <<x>> ELSE x))
    BY ValueIsNew, Zenon
  <2>10. (IF id \in Multiple THEN <<x>> ELSE x) = Collected(id, values, 1)
    BY <2>3, <2>8, CollectedFirst, Zenon
  <2>5. WithValue(front, id, ValueIn(all[t])) = Append(front, Entry(id, Collected(id, values, 1)))
    BY <2>8, <2>9, <2>10, Zenon
  <2>6. 0 + 1 = 1
    OBVIOUS
  <2> QED
    BY <2>1, <2>4, <2>5, <2>6
<1>4. ASSUME NEW v \in Nat, v \in S PROVE v + 1 \in S
  <2>1. PICK w \in Nat : w = v + 1
    OBVIOUS
  <2> SUFFICES ASSUME w + 1 <= m
               PROVE  f[base + (w + 1)] = Gives(Append(front, Entry(id, Collected(id, values, w + 1))),
                                                Advanced(r, off[base + (w + 1)]))
    BY <2>1
  <2>2. w <= m /\ w + 1 \in 1..m /\ id \in Multiple
    BY <2>1
  <2>3. PICK before : before = Append(front, Entry(id, Collected(id, values, w)))
    OBVIOUS
  <2>4. f[base + w] = Gives(before, Advanced(r, off[base + w]))
    BY <1>4, <2>1, <2>2, <2>3
  <2>5. PICK t : t = base + (w + 1)
    OBVIOUS
  <2>6. t \in 1..n /\ t - 1 = base + w /\ all[t].id = id
        /\ ValueIn(all[t]) = ReceivedValue(PropertyMeta[id], values[w + 1])
    BY <1>2, <2>2, <2>5
  <2>7. PICK x : x = ValueIn(all[t])
    OBVIOUS
  <2>8. f[t] = Gives(WithValue(before, id, x), Advanced(r, off[t]))
    <3>1. f[t - 1] = Gives(before, Advanced(r, off[t - 1])) /\ id = all[t].id
      BY <2>4, <2>6
    <3> QED
      BY <1>8, <2>2, <2>6, <2>7, <3>1, Zenon
  <2>9. WithValue(before, id, x) = Append(front, Entry(id, Append(Collected(id, values, w), x)))
    <3>1. PICK c : c = Collected(id, values, w)
      OBVIOUS
    <3>2. WithValue(Append(front, Entry(id, c)), id, x) = Append(front, Entry(id, Append(c, x)))
      BY <1>9, <2>2
    <3> QED
      BY <2>3, <3>1, <3>2, Zenon
  <2>10. Append(Collected(id, values, w), x) = Collected(id, values, w + 1)
    BY <2>2, <2>6, <2>7, CollectedNext
  <2> QED
    BY <2>5, <2>8, <2>9, <2>10
<1> HIDE DEF S
<1>5. \A v \in Nat : v \in S
  BY <1>3, <1>4, Induction
<1>6. m - 1 \in S /\ (m - 1) + 1 = m
  BY <1>5
<1>7. \A v \in S : v + 1 <= m =>
          f[base + (v + 1)] = Gives(Append(front, Entry(id, Collected(id, values, v + 1))),
                                    Advanced(r, off[base + (v + 1)]))
  BY DEF S
<1> QED
  BY <1>6, <1>7 DEF HasRead

-----------------------------------------------------------------------------
(* Properties are read back: all entries, in their order. *)

LEMMA PieceIsAhead ==
    ASSUME NEW seqs \in Seq(Seq(Octet)), NEW joined \in Seq(Octet), NEW off, Offsets(off, seqs),
           StandAt(off, seqs, joined), NEW r, Ahead(r, joined), NEW t \in 1..Len(seqs)
    PROVE  /\ Ahead(Advanced(r, off[t - 1]), seqs[t])
           /\ Advanced(Advanced(r, off[t - 1]), Len(seqs[t])) = Advanced(r, off[t])
           /\ Advanced(r, off[t - 1]).position = r.position + off[t - 1]
           /\ IsReader(Advanced(r, off[t]))
           /\ off[t - 1] \in Nat /\ off[t] \in Nat
           /\ off[t] = off[t - 1] + Len(seqs[t]) /\ off[t] <= Len(joined)
<1>1. PICK n \in Nat : n = Len(seqs)
  OBVIOUS
<1>2. t \in 1..n /\ t \in 0..n /\ n \in 0..n /\ t \in 0..t
  BY <1>1
<1>3. PICK start : start = off[t - 1]
  OBVIOUS
<1>4. PICK piece : piece = seqs[t]
  OBVIOUS
<1>5. start \in Nat /\ off[t] = start + Len(piece) /\ piece \in Seq(Octet) /\ Holds(joined, start, piece)
  BY <1>3, <1>4, StandingIsHeld
<1>6. PICK len \in Nat : len = Len(piece)
  BY <1>5
<1>7. off[t] <= off[n] /\ off[n] = Len(joined)
  BY <1>1, <1>2, OffsetsGrow DEF StandAt
<1>8. PICK total \in Nat : total = Len(joined)
  OBVIOUS
<1>9. start + len <= total
  BY <1>5, <1>6, <1>7, <1>8
<1>10. /\ IsReader(r) /\ r.position \in Nat /\ r.end \in Nat /\ r.buffer \in Seq(Octet)
       /\ r.position + total <= r.end /\ r.end <= Len(r.buffer)
  BY <1>8 DEF Ahead, IsReader
<1>11. Holds(r.buffer, r.position, joined)
  BY DEF Ahead
<1>12. PICK s : s = Advanced(r, start)
  OBVIOUS
<1>13. /\ s.buffer = r.buffer /\ s.end = r.end /\ s.position = r.position + start
       /\ s = [buffer |-> r.buffer, position |-> r.position + start, end |-> r.end]
  BY <1>5, <1>10, <1>12, AdvancedIs
<1>14. IsReader(s)
  <2>1. s = [buffer |-> s.buffer, position |-> s.position, end |-> s.end]
    BY <1>13
  <2>2. s.position \in Nat /\ s.position <= s.end
    BY <1>5, <1>9, <1>10, <1>13
  <2> QED
    BY <1>10, <1>13, <2>1, <2>2 DEF IsReader
<1>15. Holds(s.buffer, s.position, piece)
  <2>1. PICK buf \in Seq(Octet) : buf = r.buffer
    BY <1>10
  <2>2. PICK position \in Nat : position = r.position
    BY <1>10
  <2>3. /\ position + total <= Len(buf)
        /\ \A k \in 1..total : buf[position + k] = joined[k]
    BY <1>8, <1>11, <2>1, <2>2 DEF Holds
  <2>4. \A k \in 1..len : joined[start + k] = piece[k]
    BY <1>5, <1>6 DEF Holds
  <2>5. ASSUME NEW k \in 1..len PROVE buf[(position + start) + k] = piece[k]
    <3>1. start + k \in 1..total /\ position + (start + k) = (position + start) + k
      BY <1>5, <1>9
    <3> QED
      BY <2>3, <2>4, <3>1
  <2>6. (position + start) + len <= Len(buf)
    BY <1>5, <1>9, <2>1, <2>3
  <2> QED
    BY <1>6, <1>13, <2>1, <2>2, <2>5, <2>6 DEF Holds
<1>16. s.position + len <= s.end
  BY <1>5, <1>9, <1>10, <1>13
<1>17. Ahead(s, piece)
  BY <1>6, <1>14, <1>15, <1>16 DEF Ahead
<1>18. Advanced(s, len) = Advanced(r, start + len)
  BY <1>5, <1>10, <1>12, AdvancedOn
<1>19. IsReader(Advanced(s, len))
  BY <1>5, <1>6, <1>17, AdvancedStays
<1> QED
  BY <1>3, <1>4, <1>5, <1>6, <1>7, <1>12, <1>13, <1>17, <1>18, <1>19

\* What is written of entries, and where each stands.
LEMMA EntriesAreWritten ==
    ASSUME NEW all, AllInstances(all), CallsOf(all) \in Seq(Seq(Seq(Octet)))
    PROVE  \E seqs \in Seq(Seq(Octet)) :
              /\ Len(seqs) = Len(all)
              /\ \A t \in 1..Len(all) : /\ seqs[t] = EntryBytes(all[t])
                                        /\ EntryCalls(all[t]) \in Seq(Seq(Octet))
                                        /\ Len(seqs[t]) >= 2
              /\ FlattenSeq(FlattenSeq(CallsOf(all))) = FlattenSeq(seqs)
<1>1. PICK lists \in Seq(Seq(Seq(Octet))) : lists = CallsOf(all)
  OBVIOUS
<1>2. Len(lists) = Len(all) /\ \A t \in 1..Len(all) : lists[t] = EntryCalls(all[t])
  BY <1>1, CallsAreWritten
<1>3. PICK seqs \in Seq(Seq(Octet)) : seqs = Flattened(lists)
  BY FlattenedType
<1>4. Len(seqs) = Len(all) /\ \A t \in 1..Len(all) : seqs[t] = FlattenSeq(lists[t])
  BY <1>2, <1>3, FlattenedType
<1>5. ASSUME NEW t \in 1..Len(all)
      PROVE  seqs[t] = EntryBytes(all[t]) /\ EntryCalls(all[t]) \in Seq(Seq(Octet)) /\ Len(seqs[t]) >= 2
  <2>1. seqs[t] = EntryBytes(all[t])
    BY <1>2, <1>4 DEF EntryBytes
  <2>2. lists[t] \in Seq(Seq(Octet)) /\ IsInstance(all[t])
    BY <1>2 DEF AllInstances
  <2>3. EntryCalls(all[t]) \in Seq(Seq(Octet))
    BY <1>2, <2>2
  <2> QED
    BY <2>1, <2>2, <2>3, EntryIsWritten
<1>6. FlattenSeq(FlattenSeq(lists)) = FlattenSeq(seqs)
  BY <1>3, FlattenNested
<1> QED
  BY <1>1, <1>4, <1>5, <1>6

LEMMA EntriesAreReading ==
    ASSUME NEW all, AllInstances(all), \A t \in 1..Len(all) : IsAdmitted(all[t]),
           NEW seqs \in Seq(Seq(Octet)), Len(seqs) = Len(all),
           \A t \in 1..Len(all) : /\ seqs[t] = EntryBytes(all[t])
                                  /\ EntryCalls(all[t]) \in Seq(Seq(Octet))
                                  /\ Len(seqs[t]) >= 2,
           NEW joined \in Seq(Octet), NEW off, Offsets(off, seqs), StandAt(off, seqs, joined),
           NEW r, Ahead(r, joined), NEW endOffset, endOffset = r.position + Len(joined),
           NEW f, NEW m \in Nat, Len(all) <= m, IsTurns(f, r, endOffset, m)
    PROVE  Reading(f, off, all, r, Len(all), endOffset)
<1>1. PICK n \in Nat : n = Len(all)
  BY DEF AllInstances
<1>2. ASSUME NEW t \in 1..n
      PROVE  /\ ~(Advanced(r, off[t - 1]).position >= endOffset)
             /\ ReadProperty(Advanced(r, off[t - 1])) = Gives(Entry(all[t].id, ValueIn(all[t])), Advanced(r, off[t]))
             /\ IsReader(Advanced(r, off[t]))
  <2>1. PICK e : e = all[t]
    OBVIOUS
  <2>2. IsInstance(e) /\ IsAdmitted(e) /\ EntryCalls(e) \in Seq(Seq(Octet))
    BY <1>1, <2>1 DEF AllInstances
  <2>3. seqs[t] = EntryBytes(e) /\ Len(seqs[t]) >= 2 /\ seqs[t] \in Seq(Octet)
    BY <1>1, <2>1
  <2>4. PICK s : s = Advanced(r, off[t - 1])
    OBVIOUS
  <2>5. PICK len \in Nat : len = Len(seqs[t])
    BY <2>3
  <2>6. /\ Ahead(s, seqs[t]) /\ Advanced(s, len) = Advanced(r, off[t])
        /\ s.position = r.position + off[t - 1] /\ IsReader(Advanced(r, off[t]))
        /\ off[t - 1] \in Nat /\ off[t] = off[t - 1] + len /\ off[t] <= Len(joined)
    BY <1>1, <2>4, <2>5, PieceIsAhead
  <2>7. ReadProperty(s) = Read(Entry(e.id, ValueIn(e)), s, len)
    BY <2>2, <2>3, <2>5, <2>6, EntryIsRead DEF ValueIn
  <2>8. ReadProperty(s) = Gives(Entry(e.id, ValueIn(e)), Advanced(r, off[t]))
    BY <2>6, <2>7, ReadGives
  <2>9. r.position \in Nat /\ Len(joined) \in Nat /\ len >= 2
    BY <2>3, <2>5 DEF Ahead, IsReader
  <2>10. ~(s.position >= endOffset)
    BY <2>6, <2>9
  <2> QED
    BY <2>1, <2>4, <2>6, <2>8, <2>10
<1> QED
  BY <1>1, <1>2 DEF Reading

\* Two bytes or more for each: there are enough turns.
LEMMA TwoBytesEach ==
    ASSUME NEW seqs \in Seq(Seq(Octet)), \A t \in 1..Len(seqs) : Len(seqs[t]) >= 2,
           NEW off, Offsets(off, seqs)
    PROVE  2 * Len(seqs) <= off[Len(seqs)]
<1>1. PICK n \in Nat : n = Len(seqs)
  OBVIOUS
<1>2. ASSUME NEW t \in 1..n
      PROVE  /\ off[t - 1] \in Nat /\ Len(seqs[t]) \in Nat
             /\ off[t] = off[t - 1] + Len(seqs[t]) /\ Len(seqs[t]) >= 2
  <2>1. t - 1 \in 0..n /\ t \in 1..Len(seqs)
    BY <1>1
  <2>2. seqs[t] \in Seq(Octet)
    BY <2>1
  <2>3. Len(seqs[t]) \in Nat /\ Len(seqs[t]) >= 2
    BY <2>1, <2>2
  <2>4. off[t - 1] \in Nat /\ off[t] = off[t - 1] + Len(seqs[t])
    BY <1>1, <2>1, Zenon DEF Offsets
  <2> QED
    BY <2>3, <2>4
<1> DEFINE S == {t \in Nat : t <= n => 2 * t <= off[t]}
<1>3. 0 \in S
  BY DEF Offsets
<1>4. ASSUME NEW t \in Nat, t \in S PROVE t + 1 \in S
  <2> SUFFICES ASSUME t + 1 <= n PROVE 2 * (t + 1) <= off[t + 1]
    OBVIOUS
  <2>1. t + 1 \in 1..n /\ (t + 1) - 1 = t
    OBVIOUS
  <2>2. off[t] \in Nat /\ Len(seqs[t + 1]) \in Nat /\ off[t + 1] = off[t] + Len(seqs[t + 1]) /\ Len(seqs[t + 1]) >= 2
    BY <1>2, <2>1
  <2>3. 2 * t <= off[t]
    BY <1>4
  <2> QED
    BY <2>2, <2>3
<1> HIDE DEF S
<1>5. \A t \in Nat : t \in S
  BY <1>3, <1>4, Induction
<1>6. n \in S
  BY <1>5
<1> QED
  BY <1>1, <1>6 DEF S

LEMMA TurnsStay ==
    ASSUME NEW f, NEW r, NEW endOffset, NEW m \in Nat, IsTurns(f, r, endOffset, m),
           NEW n \in Nat, NEW value, NEW s, IsReader(s), s.position >= endOffset,
           f[n] = Gives(value, s), NEW t \in Nat, n <= t, t <= m
    PROVE  f[t] = Gives(value, s)
<1> DEFINE S == {d \in Nat : n + d <= m => f[n + d] = Gives(value, s)}
<1>1. 0 \in S
  <2>1. n + 0 = n
    OBVIOUS
  <2> QED
    BY <2>1
<1>2. ASSUME NEW d \in Nat, d \in S PROVE d + 1 \in S
  <2> SUFFICES ASSUME n + (d + 1) <= m PROVE f[n + (d + 1)] = Gives(value, s)
    OBVIOUS
  <2>1. PICK k : k = n + (d + 1)
    OBVIOUS
  <2>2. k \in 0..m /\ k # 0 /\ k - 1 = n + d /\ n + d <= m
    BY <2>1
  <2>3. f[k - 1] = Gives(value, s)
    BY <1>2, <2>2
  <2>4. f[k] = TurnAfter(f[k - 1], r, endOffset, k)
    BY <2>2, TurnEntry
  <2>5. TurnAfter(Gives(value, s), r, endOffset, k) = Gives(value, s)
    BY <2>2, TurnIdle
  <2> QED
    BY <2>1, <2>3, <2>4, <2>5
<1> HIDE DEF S
<1>3. \A d \in Nat : d \in S
  BY <1>1, <1>2, Induction
<1>4. t - n \in S /\ n + (t - n) = t
  BY <1>3
<1>5. \A d \in S : n + d <= m => f[n + d] = Gives(value, s)
  BY DEF S
<1> QED
  BY <1>4, <1>5

\* All entries read: those of the groups one behind the other.
LEMMA GroupsAreRead ==
    ASSUME NEW raw, IsRaw(raw), NEW all, all = Instances(raw),
           NEW f, NEW off, NEW r, NEW endOffset, Reading(f, off, all, r, Len(all), endOffset),
           f[0] = Gives(<<>>, Advanced(r, off[0]))
    PROVE  f[Len(all)] = Gives(ReceivedRaw(raw), Advanced(r, off[Len(all)]))
<1>1. PICK n \in Nat : n = Len(raw)
  BY DEF IsRaw
<1>2. PICK groups \in Seq(Seq(InstancesIn(raw))) : groups = GroupsOf(raw)
  BY GroupsType
<1>3. Len(groups) = n /\ \A i \in 1..n :
          /\ Len(groups[i]) = Len(ValuesOf(raw[i]))
          /\ \A v \in 1..Len(ValuesOf(raw[i])) : groups[i][v] = Entry(raw[i].id, ValuesOf(raw[i])[v])
  BY <1>1, <1>2, GroupsType
<1>4. all = FlattenSeq(groups)
  BY <1>2, InstancesAreGroups
<1>5. all \in Seq(InstancesIn(raw))
  BY <1>4, FlattenType
<1>6. HasOffsets(groups)
  BY OffsetsExist
<1>7. PICK g : Offsets(g, groups) /\ StandAt(g, groups, all)
  BY <1>4, <1>6 DEF HasOffsets
<1>8. PICK total \in Nat : total = Len(all)
  BY <1>5
<1>9. g[0] = 0 /\ g[n] = total
  BY <1>3, <1>7, <1>8 DEF Offsets, StandAt
<1>10. PICK got : got = ReceivedRaw(raw)
  OBVIOUS
<1>11. got = [i \in 1..n |-> ReceivedEntry(raw[i])]
  BY <1>1, <1>10, Zenon DEF ReceivedRaw
<1> DEFINE S == {i \in Nat : i <= n => f[g[i]] = Gives(UpTo(got, i), Advanced(r, off[g[i]]))}
<1>12. 0 \in S
  <2>1. UpTo(got, 0) = <<>>
    BY DEF UpTo
  <2> QED
    BY <1>9, <2>1
<1>13. ASSUME NEW j \in Nat, j \in S PROVE j + 1 \in S
  <2>1. PICK i \in Nat : i = j + 1
    OBVIOUS
  <2> SUFFICES ASSUME i <= n PROVE f[g[i]] = Gives(UpTo(got, i), Advanced(r, off[g[i]]))
    BY <2>1
  <2>2. i \in 1..n /\ i - 1 = j /\ j <= n /\ i \in 1..Len(groups)
    BY <1>3, <2>1
  <2>3. PICK base \in Nat : base = g[j]
    BY <1>5, <1>7, <2>2, StandingIsHeld
  <2>4. PICK m \in Nat : m = Len(ValuesOf(raw[i])) /\ m >= 1
    BY <1>1, <2>2 DEF IsRaw
  <2>5. PICK id : id = raw[i].id
    OBVIOUS
  <2>6. PICK values : values = ValuesOf(raw[i])
    OBVIOUS
  <2>7. g[i] = base + m /\ Holds(all, base, groups[i]) /\ Len(groups[i]) = m
    <3>1. g[i] = g[i - 1] + Len(groups[i]) /\ Holds(all, g[i - 1], groups[i])
      BY <1>2, <1>5, <1>7, <2>2, StandingIsHeld
    <3>2. Len(groups[i]) = m
      BY <1>3, <2>2, <2>4
    <3>3. g[i - 1] = base
      BY <2>2, <2>3
    <3> QED
      BY <3>1, <3>2, <3>3
  <2>8. \A v \in 1..m : all[base + v] = Entry(id, values[v])
    BY <1>3, <2>2, <2>4, <2>5, <2>6, <2>7 DEF Holds
  <2>9. base + m <= total
    BY <1>8, <2>7 DEF Holds
  <2>10. id \in Multiple \/ m = 1
    BY <2>4, <2>5 DEF ValuesOf
  <2>11. PICK front : front = UpTo(got, j)
    OBVIOUS
  <2>12. front = [k \in 1..j |-> got[k]]
    BY <2>11, Zenon DEF UpTo
  <2>13. IsList(front, j) /\ DOMAIN front = 1..j /\ \A k \in 1..j : front[k] = got[k]
    BY <2>12, Zenon DEF IsList
  <2>14. ~HasId(front, id)
    <3>1. ASSUME NEW k \in 1..j PROVE front[k].id # id
      <4>1. k \in 1..n /\ k # i
        BY <2>1, <2>2
      <4>2. front[k] = ReceivedEntry(raw[k])
        BY <1>11, <2>13, <4>1
      <4>3. front[k].id = raw[k].id
        BY <4>2 DEF ReceivedEntry, PartialEntry, Entry
      <4>4. raw[k].id # raw[i].id
        BY <1>1, <2>2, <4>1, Zenon DEF IsRaw
      <4> QED
        BY <2>5, <4>3, <4>4
    <3> QED
      BY <2>13, <3>1, Zenon DEF HasId
  <2>15. f[base] = Gives(front, Advanced(r, off[base]))
    BY <1>13, <2>2, <2>3, <2>11
  <2>16. Reading(f, off, all, r, total, endOffset)
    BY <1>8
  <2>17. f[base + m] = Gives(Append(front, Entry(id, Collected(id, values, m))), Advanced(r, off[base + m]))
    <3>1. InGroup(all, base, m, id, values, total)
      BY <2>3, <2>4, <2>8, <2>9, <2>10 DEF InGroup
    <3>2. Lacks(front, j, id)
      BY <2>13, <2>14 DEF Lacks
    <3>3. HasRead(f, off, r, base, front)
      BY <2>15 DEF HasRead
    <3>4. HasRead(f, off, r, base + m, Append(front, Entry(id, Collected(id, values, m))))
      BY <2>16, <3>1, <3>2, <3>3, GroupIsRead
    <3> QED
      BY <3>4 DEF HasRead
  <2>18. Entry(id, Collected(id, values, m)) = ReceivedEntry(raw[i])
    BY <2>4, <2>5, <2>6, Zenon DEF ReceivedEntry, PartialEntry, ReadValues, Collected
  <2>19. Append(front, ReceivedEntry(raw[i])) = UpTo(got, i)
    <3>1. PICK e : e = ReceivedEntry(raw[i])
      OBVIOUS
    <3>2. got[i] = e
      BY <1>11, <2>2, <3>1
    <3>3. Append(front, e) = [k \in 1..(j + 1) |-> IF k = j + 1 THEN e ELSE front[k]]
      BY <2>13, AppendIs DEF IsList
    <3>4. ASSUME NEW k \in 1..(j + 1) PROVE (IF k = j + 1 THEN e ELSE front[k]) = got[k]
      <4>1. CASE k = j + 1
        BY <2>1, <3>2, <4>1
      <4>2. CASE k # j + 1
        <5>1. k \in 1..j
          BY <4>2
        <5> QED
          BY <2>13, <4>2, <5>1
      <4> QED
        BY <4>1, <4>2
    <3>5. Append(front, e) = [k \in 1..(j + 1) |-> got[k]]
      BY <3>3, <3>4, Zenon
    <3> QED
      BY <2>1, <3>1, <3>5 DEF UpTo
  <2> QED
    BY <2>7, <2>17, <2>18, <2>19
<1> HIDE DEF S
<1>14. \A i \in Nat : i \in S
  BY <1>12, <1>13, Induction
<1>15. n \in S
  BY <1>14
<1>16. f[g[n]] = Gives(UpTo(got, n), Advanced(r, off[g[n]]))
  BY <1>15 DEF S
<1>17. UpTo(got, n) = got
  BY <1>11, Zenon DEF UpTo
<1> QED
  BY <1>8, <1>9, <1>10, <1>16, <1>17

LEMMA SomeAreWritten ==
    ASSUME NEW raw, IsRaw(raw), NEW all, all = Instances(raw), Len(all) = 0
    PROVE  ReceivedRaw(raw) = <<>>
<1>1. PICK n \in Nat : n = Len(raw)
  BY DEF IsRaw
<1>2. SUFFICES ASSUME n # 0 PROVE FALSE
  BY <1>1 DEF ReceivedRaw
<1>3. PICK groups \in Seq(Seq(InstancesIn(raw))) : groups = GroupsOf(raw)
  BY GroupsType
<1>4. 1 \in 1..n
  BY <1>2
<1>5. Len(groups) = n /\ Len(groups[1]) = Len(ValuesOf(raw[1]))
  BY <1>1, <1>3, <1>4, GroupsType
<1>6. Len(groups[1]) \in Nat /\ Len(groups[1]) >= 1
  BY <1>1, <1>4, <1>5 DEF IsRaw
<1>7. all = FlattenSeq(groups)
  BY <1>3, InstancesAreGroups
<1>8. all \in Seq(InstancesIn(raw))
  BY <1>7, FlattenType
<1>9. HasOffsets(groups)
  BY OffsetsExist
<1>10. PICK g : Offsets(g, groups) /\ StandAt(g, groups, all)
  BY <1>7, <1>9 DEF HasOffsets
<1>11. Holds(all, g[1 - 1], groups[1]) /\ g[1 - 1] \in Nat
  BY <1>4, <1>5, <1>8, <1>10, StandingIsHeld
<1> QED
  BY <1>6, <1>11 DEF Holds

LEMMA TurnsWithin ==
    ASSUME NEW n \in Nat, NEW len \in Nat, 2 * n <= len, NEW position \in Nat,
           NEW turns, turns = ((position + len) - position + 1) \div 2
    PROVE  turns \in Nat /\ n <= turns /\ turns <= len
<1>1. (position + len) - position + 1 = len + 1
  OBVIOUS
<1>2. turns = (len + 1) \div 2
  BY <1>1
<1> QED
  BY <1>2

LEMMA LoopReads ==
    ASSUME NEW raw, IsRaw(raw), IsAdmittedRaw(raw), NEW all, all = Instances(raw),
           CallsOf(all) \in Seq(Seq(Seq(Octet))),
           NEW body, body = FlattenSeq(FlattenSeq(CallsOf(all))), NEW r, Ahead(r, body)
    PROVE  /\ ReadPropertiesUntil(r, r.position + Len(body)) = Gives(ReceivedRaw(raw), Advanced(r, Len(body)))
           /\ body \in Seq(Octet) /\ (Len(body) = 0 => ReceivedRaw(raw) = <<>>)
<1>1. AllInstances(all) /\ \A t \in 1..Len(all) : IsAdmitted(all[t])
  BY InstancesType
<1>2. PICK n \in Nat : n = Len(all)
  BY <1>1 DEF AllInstances
<1>3. PICK seqs \in Seq(Seq(Octet)) :
         /\ Len(seqs) = Len(all)
         /\ \A t \in 1..Len(all) : /\ seqs[t] = EntryBytes(all[t])
                                   /\ EntryCalls(all[t]) \in Seq(Seq(Octet))
                                   /\ Len(seqs[t]) >= 2
         /\ body = FlattenSeq(seqs)
  BY <1>1, EntriesAreWritten
<1>4. body \in Seq(Octet)
  BY <1>3, FlattenType
<1>5. HasOffsets(seqs)
  BY <1>3, OffsetsExist
<1>6. PICK off : Offsets(off, seqs) /\ StandAt(off, seqs, body)
  BY <1>3, <1>5 DEF HasOffsets
<1>7. PICK len \in Nat : len = Len(body)
  BY <1>4
<1>8. off[0] = 0 /\ off[n] = len
  BY <1>2, <1>3, <1>6, <1>7 DEF Offsets, StandAt
<1>9. 2 * n <= len
  <2>1. 2 * Len(seqs) <= off[Len(seqs)]
    BY <1>3, <1>6, TwoBytesEach
  <2> QED
    BY <1>2, <1>3, <1>8, <2>1
<1>10. IsReader(r) /\ r.position \in Nat /\ r.position + len <= r.end /\ r.end <= Len(r.buffer)
       /\ r.end \in Nat /\ Len(r.buffer) \in Nat
  BY <1>7 DEF Ahead, IsReader
<1>11. PICK endOffset : endOffset = r.position + len
  OBVIOUS
<1>12. PICK m \in Nat : m = Len(r.buffer)
  BY <1>10
<1>13. PICK turns : turns = (endOffset - r.position + 1) \div 2
  OBVIOUS
<1>14. turns \in Nat /\ n <= turns /\ turns <= len
  BY <1>9, <1>10, <1>11, <1>13, TurnsWithin
<1>15. turns <= m /\ n <= m
  BY <1>10, <1>12, <1>14
<1>16. PICK f : f = CHOOSE g : IsTurns(g, r, endOffset, m)
  OBVIOUS
<1>17. IsTurns(f, r, endOffset, m)
  BY <1>16, TurnsExist
<1>18. ReadPropertiesUntil(r, endOffset) = f[turns]
  BY <1>12, <1>13, <1>16, LoopIsTurns, Zenon
<1>19. Reading(f, off, all, r, n, endOffset)
  <2>1. endOffset = r.position + Len(body)
    BY <1>7, <1>11
  <2>2. Reading(f, off, all, r, Len(all), endOffset)
    BY <1>1, <1>2, <1>3, <1>4, <1>6, <1>15, <1>17, <2>1, EntriesAreReading
  <2> QED
    BY <1>2, <2>2
<1>20. f[0] = Gives(<<>>, Advanced(r, off[0]))
  <2>1. f[0] = TurnAfter(f[0 - 1], r, endOffset, 0)
    BY <1>17, TurnEntry
  <2>2. f[0] = Read(<<>>, r, 0)
    BY <2>1, FirstTurn
  <2> QED
    BY <1>8, <2>2, ReadGives
<1>21. f[n] = Gives(ReceivedRaw(raw), Advanced(r, len))
  BY <1>2, <1>8, <1>19, <1>20, GroupsAreRead
<1>22. PICK s : s = Advanced(r, len)
  OBVIOUS
<1>23. IsReader(s) /\ s.position >= endOffset
  <2>1. s.position = r.position + len
    BY <1>10, <1>22, AdvancedIs
  <2>2. IsReader(s)
    BY <1>4, <1>7, <1>22, AdvancedStays
  <2> QED
    BY <1>10, <1>11, <2>1, <2>2
<1>24. f[turns] = Gives(ReceivedRaw(raw), s)
  BY <1>14, <1>15, <1>17, <1>21, <1>22, <1>23, TurnsStay
<1>25. len = 0 => ReceivedRaw(raw) = <<>>
  <2>1. len = 0 => n = 0
    BY <1>9
  <2> QED
    BY <1>2, <2>1, SomeAreWritten
<1> QED
  BY <1>4, <1>7, <1>11, <1>18, <1>22, <1>24, <1>25

-----------------------------------------------------------------------------
(* The section of properties, its length in front. *)

LEMMA SectionIsWritten ==
    ASSUME NEW raw, IsRaw(raw), NEW all, all = Instances(raw)
    PROVE  \/ EncodeProperties(raw) = <<RangeError>>
           \/ EncodeProperties(raw) = <<Varint(CalculatePropertiesSize(all))>> \o FlattenSeq(CallsOf(all))
<1>1. AllInstances(all)
  BY InstancesType
<1>2. [i \in DOMAIN all |-> <<Varint(PropertyId[all[i].id])>>
                            \o WritePropertyValue(PropertyMeta[all[i].id], all[i].value)] = CallsOf(all)
  BY <1>1, SMT DEF CallsOf, EntryCalls, AllInstances
<1>3. \/ EncodeInstances(all) = <<RangeError>>
      \/ EncodeInstances(all)
            = <<Varint(CalculatePropertiesSize(all))>>
              \o FlattenSeq([i \in DOMAIN all |-> <<Varint(PropertyId[all[i].id])>>
                                \o WritePropertyValue(PropertyMeta[all[i].id], all[i].value)])
  BY DEF EncodeInstances
<1>4. EncodeProperties(raw) = EncodeInstances(all)
  BY DEF EncodeProperties
<1> QED
  BY <1>2, <1>3, <1>4

IsSection(all, head, body) ==
    /\ head \in Seq(Octet) /\ body \in Seq(Octet)
    /\ head = Varint(Len(body)) /\ InRange(Len(body))
    /\ CallsOf(all) \in Seq(Seq(Seq(Octet)))
    /\ body = FlattenSeq(FlattenSeq(CallsOf(all)))

LEMMA SectionParts ==
    ASSUME NEW raw, IsRaw(raw), NEW all, all = Instances(raw), NEW bytes,
           bytes = FlattenSeq(EncodeProperties(raw)), ~Throws(bytes)
    PROVE  \E head : \E body : IsSection(all, head, body) /\ bytes = head \o body
<1>1. AllInstances(all)
  BY InstancesType
<1>2. PICK lists \in Seq(Seq(Seq(Written))) : lists = CallsOf(all)
  BY <1>1, CallsAreWritten
<1>3. PICK calls \in Seq(Seq(Written)) : calls = FlattenSeq(lists)
  BY <1>2, FlattenType
<1>4. PICK size : size = CalculatePropertiesSize(all)
  OBVIOUS
<1>5. PICK head \in Seq(Written) : head = Varint(size)
  BY VarintIsWritten
<1>6. EncodeProperties(raw) = <<head>> \o calls
  <2>1. EncodeProperties(raw) # <<RangeError>>
    <3>1. FlattenSeq(<<RangeError>>) = RangeError
      BY FlattenOne
    <3> QED
      BY <3>1, ErrorIsWritten
  <2> QED
    BY <1>2, <1>3, <1>4, <1>5, <2>1, SectionIsWritten
<1>7. PICK body \in Seq(Written) : body = FlattenSeq(calls)
  BY <1>3, FlattenType
<1>8. bytes = head \o body
  <2>1. FlattenSeq(<<head>> \o calls) = head \o FlattenSeq(calls)
    BY <1>3, <1>5, BytesBefore
  <2> QED
    BY <1>6, <1>7, <2>1
<1>9. ~Throws(head) /\ ~Throws(body)
  BY <1>5, <1>7, <1>8, ThrowsBoth
<1>10. head \in Seq(Octet) /\ body \in Seq(Octet) /\ InRange(size)
  BY <1>5, <1>7, <1>9, UnlessThrown, VarintIsWritten
<1>11. calls \in Seq(Seq(Octet))
  BY <1>3, <1>7, <1>9, NothingThrown
<1>12. lists \in Seq(Seq(Seq(Octet)))
  BY <1>2, <1>3, <1>11, PartsAreIn
<1>13. size = Len(body)
  BY <1>1, <1>2, <1>3, <1>4, <1>7, <1>11, SizeIsWhatIsWritten
<1> QED
  BY <1>2, <1>3, <1>5, <1>7, <1>8, <1>10, <1>12, <1>13 DEF IsSection

LEMMA SectionIsDecoded ==
    ASSUME NEW r, NEW length, NEW start, ReadVariableByteInteger(r) = Gives(length, start)
    PROVE  DecodeProperties(r) = IF length = 0 THEN Read(<<>>, start, 0)
                                 ELSE IF ~HasRemaining(start, length) THEN Err("INCOMPLETE")
                                 ELSE ReadPropertiesUntil(start, start.position + length)
<1>1. PICK read : read = ReadVariableByteInteger(r)
  OBVIOUS
<1>2. read.ok /\ read.value = length /\ read.reader = start
  BY <1>1 DEF Gives
<1> QED
  BY <1>1, <1>2 DEF DecodeProperties, Then

\* The properties of a packet are read back: every entry in its place, with all its values in
\* their order, as they can be said in UTF-8; behind them the reader stands where they end.
\* encodeProperties() has not thrown, and no string has a character that MQTT forbids.
THEOREM PropertiesAreReadBack ==
    ASSUME NEW raw, IsRaw(raw), IsAdmittedRaw(raw), NEW bytes,
           bytes = FlattenSeq(EncodeProperties(raw)), ~Throws(bytes), NEW r, Ahead(r, bytes)
    PROVE  bytes \in Seq(Octet) /\ DecodeProperties(r) = Read(ReceivedRaw(raw), r, Len(bytes))
<1>1. PICK all : all = Instances(raw)
  OBVIOUS
<1>10. PICK head, body : IsSection(all, head, body) /\ bytes = head \o body
  BY <1>1, SectionParts
<1>2. /\ head \in Seq(Octet) /\ body \in Seq(Octet)
      /\ head = Varint(Len(body)) /\ InRange(Len(body)) /\ bytes = head \o body
      /\ CallsOf(all) \in Seq(Seq(Seq(Octet)))
      /\ body = FlattenSeq(FlattenSeq(CallsOf(all)))
  BY <1>10 DEF IsSection
<1>3. PICK start : start = Advanced(r, Len(head))
  OBVIOUS
<1>4. Ahead(r, head) /\ Ahead(start, body) /\ bytes \in Seq(Octet)
  BY <1>2, <1>3, AheadBoth
<1>5. PICK size \in Nat : size = Len(body)
  BY <1>2
<1>6. ReadVariableByteInteger(r) = Gives(size, start)
  <2>1. ReadVariableByteInteger(r) = Read(size, r, Len(head))
    BY <1>2, <1>4, <1>5, VarintIsRead
  <2> QED
    BY <1>3, <2>1, ReadGives
<1>7. /\ ReadPropertiesUntil(start, start.position + size) = Gives(ReceivedRaw(raw), Advanced(start, size))
      /\ size = 0 => ReceivedRaw(raw) = <<>>
  BY <1>1, <1>2, <1>4, <1>5, LoopReads
<1>8. DecodeProperties(r) = Gives(ReceivedRaw(raw), Advanced(start, size))
  <2>1. CASE size = 0
    <3>1. DecodeProperties(r) = Read(<<>>, start, 0)
      BY <1>6, <2>1, SectionIsDecoded
    <3> QED
      BY <1>7, <2>1, <3>1, ReadGives
  <2>2. CASE size # 0
    <3>1. HasRemaining(start, size)
      BY <1>4, <1>5 DEF HasRemaining, Remaining, Ahead, IsReader
    <3> QED
      BY <1>6, <1>7, <2>2, <3>1, SectionIsDecoded
  <2> QED
    BY <2>1, <2>2
<1>9. Advanced(start, size) = Advanced(r, Len(bytes))
  <2>1. IsReader(r)
    BY <1>4 DEF Ahead
  <2>2. Len(head \o body) = Len(head) + Len(body)
    BY <1>2, ConcatEntries
  <2>3. Len(head) \in Nat
    BY <1>2
  <2> QED
    BY <1>2, <1>3, <1>5, <2>1, <2>2, <2>3, AdvancedOn
<1> QED
  BY <1>4, <1>8, <1>9, ReadGives
=============================================================================
