------------------------ MODULE VariableByteInteger ------------------------
(***************************************************************************)
(* Variable byte integers: src/codec/varint.ts.  The digits of a number,   *)
(* least significant first, one per byte; every byte but the last carries  *)
(* a continuation bit.  A byte is digit + Radix when the bit is set.       *)
(* Offsets count from 0, as in the code.                                   *)
(***************************************************************************)
EXTENDS Integers, Sequences, FiniteSets

CONSTANTS Radix,             \* 128: a byte holds seven bits of the number
          MaxVarintLength    \* MAX_VARIABLE_BYTE_INTEGER_LENGTH, 4

ASSUME VarintAssumption == Radix \in Nat \ {0, 1} /\ MaxVarintLength \in Nat \ {0}

Bytes == 0..(2 * Radix - 1)

Continues(byte) == byte >= Radix
Digit(byte) == byte % Radix

\* How many numbers there are of n digits.
Power(n) == LET power[m \in 0..n] == IF m = 0 THEN 1 ELSE power[m - 1] * Radix IN power[n]

MaxVariableByteInteger == Power(MaxVarintLength) - 1

InRange(value) == value \in 0..MaxVariableByteInteger

\* variableByteIntegerLength() of a value in range.
VariableByteIntegerLength(value) ==
    CHOOSE n \in 1..MaxVarintLength :
        value < Power(n) /\ \A m \in 1..(n - 1) : value >= Power(m)

\* encodeVariableByteInteger() of a value in range: the loop writes a digit, divides, and
\* goes on while something is left.
EncodeVariableByteInteger(value) ==
    LET x[n \in 1..MaxVarintLength] == IF n = 1 THEN value ELSE x[n - 1] \div Radix
        bytesWritten == Cardinality({n \in 1..MaxVarintLength : n = 1 \/ x[n] > 0})
    IN [n \in 1..bytesWritten |-> (x[n] % Radix) + (IF n < bytesWritten THEN Radix ELSE 0)]

\* hasCompleteVariableByteInteger(): the last byte is there, or too many bytes are.
HasCompleteVariableByteInteger(buffer, offset) ==
    \E n \in 1..MaxVarintLength :
        /\ offset + n <= Len(buffer)
        /\ n = MaxVarintLength \/ ~Continues(buffer[offset + n])

\* The number of bytes read when the loop meets a byte without continuation bit.
EndsAt(buffer, offset, n) ==
    /\ n \in 1..MaxVarintLength
    /\ offset + n <= Len(buffer)
    /\ ~Continues(buffer[offset + n])
    /\ \A m \in 1..(n - 1) : Continues(buffer[offset + m])

AccumulatedBigEndian(buffer, offset, n) ==   \* mutated: the first digit counts most
    LET value[m \in 0..n] ==
            IF m = 0 THEN 0 ELSE value[m - 1] * Radix + Digit(buffer[offset + m])
    IN value[n]

\* The value accumulated after n bytes, each digit times the multiplier of its turn.
Accumulated(buffer, offset, n) ==
    LET multiplier[m \in 1..n] == IF m = 1 THEN 1 ELSE multiplier[m - 1] * Radix
        value[m \in 0..n] ==
            IF m = 0 THEN 0
            ELSE value[m - 1] + Digit(buffer[offset + m]) * multiplier[m]
    IN value[n]

\* decodeVariableByteInteger(): number and bytes read, or one of two errors.
DecodeVariableByteInteger(buffer, offset) ==
    IF \E n \in 1..MaxVarintLength : EndsAt(buffer, offset, n)
    THEN LET n == CHOOSE n \in 1..MaxVarintLength : EndsAt(buffer, offset, n)
         IN [status |-> "ok", value |-> Accumulated(buffer, offset, n), bytesRead |-> n]
    ELSE [status |-> IF offset + MaxVarintLength <= Len(buffer)
                     THEN "MALFORMED_VARINT" ELSE "INCOMPLETE"]
=============================================================================
