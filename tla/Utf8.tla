-------------------------------- MODULE Utf8 --------------------------------
(***************************************************************************)
(* Strings and binary data on the wire: src/codec/utf8.ts.  A string of    *)
(* the program is a sequence of UTF-16 code units; on the wire it is its   *)
(* UTF-8 bytes behind a length of two bytes.  TextEncoder and TextDecoder  *)
(* are external: what they do is written down here from the WHATWG         *)
(* encoding standard, for the options the code gives them.                 *)
(* An encoder that throws a RangeError returns bytes that contain Thrown.  *)
(***************************************************************************)
EXTENDS Integers, FiniteSetsExt, SequencesExt

CONSTANT MaxStringLength   \* 65,535: the largest length two bytes can hold

ASSUME StringAssumption == MaxStringLength \in Nat /\ MaxStringLength <= 65535

Thrown == -1               \* no byte
RangeError == <<Thrown>>
Throws(bytes) == Thrown \in ToSet(bytes)

Ok(value) == [ok |-> TRUE, value |-> value]
Err(code) == [ok |-> FALSE, code |-> code]

-----------------------------------------------------------------------------
(* Code units.  A high surrogate and the low one behind it are one character. *)

LargestUnit == 65535   \* of two bytes
CodeUnit == 0..LargestUnit

IsHigh(code) == code \in 55296..56319
IsLow(code)  == code \in 56320..57343

StartsPair(str, i) == IsHigh(str[i]) /\ i < Len(str) /\ IsLow(str[i + 1])
EndsPair(str, i)   == IsLow(str[i]) /\ i > 1 /\ IsHigh(str[i - 1])

\* isValidMqttString()
IsValidMqttString(str) ==
    \A i \in DOMAIN str : str[i] # 0 /\ str[i] \notin 1..31 /\ str[i] \notin 127..159

Utf8ByteLengthOfUnits(str) ==   \* mutated: each half of a pair counts as a character
    MapThenSumSet(LAMBDA i : IF str[i] < 128 THEN 1 ELSE IF str[i] < 2048 THEN 2 ELSE 3,
                  DOMAIN str)

\* utf8ByteLength(), which counts without encoding.
Utf8ByteLength(str) ==
    LET Width(i) == CASE EndsPair(str, i)   -> 0     \* skipped behind its high surrogate
                      [] str[i] < 128       -> 1
                      [] str[i] >= 128 /\ str[i] < 2048 -> 2
                      [] StartsPair(str, i) -> 4
                      [] OTHER              -> 3
    IN MapThenSumSet(Width, DOMAIN str)

-----------------------------------------------------------------------------
(* TextEncoder.encode() and TextDecoder("utf-8", { fatal: true }).decode(). *)

Replacement == 65533       \* U+FFFD, what a lone surrogate is encoded as
ByteOrderMark == 65279     \* U+FEFF

\* The bytes of a character: all but the first hold six bits each.
Utf8Bytes(point) ==
    LET Six(shift) == 128 + ((point \div shift) % 64) IN
    CASE point < 128             -> <<point>>
      [] point >= 128 /\ point < 2048 -> <<192 + (point \div 64), Six(1)>>
      [] point >= 2048 /\ point < 65536 -> <<224 + (point \div 4096), Six(64), Six(1)>>
      [] OTHER -> <<240 + (point \div 262144), Six(4096), Six(64), Six(1)>>

PointOfPair(high, low) == 65536 + (high - 55296) * 1024 + (low - 56320)

TextEncoderEncode(str) ==
    FlattenSeq([i \in DOMAIN str |->
        CASE EndsPair(str, i)   -> <<>>
          [] StartsPair(str, i) -> Utf8Bytes(PointOfPair(str[i], str[i + 1]))
          [] (IsHigh(str[i]) \/ IsLow(str[i])) /\ ~StartsPair(str, i) /\ ~EndsPair(str, i) ->
                Utf8Bytes(Replacement)
          [] OTHER -> Utf8Bytes(str[i])])

\* How many bytes the character beginning with this byte has; 0 if none begins so.
SequenceLength(first) ==
    CASE first < 128 -> 1 [] first \in 194..223 -> 2 [] first \in 224..239 -> 3
      [] first \in 240..244 -> 4 [] OTHER -> 0

CodeUnits(point) ==
    IF point < 65536 THEN <<point>>
    ELSE <<55296 + (point - 65536) \div 1024, 56320 + (point % 1024)>>

\* The point that n bytes stand for.
Point(bytes, n) ==
    LET Bits(i) == bytes[i + 1] % 64 IN
    CASE n = 1 -> bytes[1]
      [] n = 2 -> (bytes[1] - 192) * 64 + Bits(1)
      [] n = 3 -> (bytes[1] - 224) * 4096 + Bits(1) * 64 + Bits(2)
      [] n = 4 -> (bytes[1] - 240) * 262144 + Bits(1) * 4096 + Bits(2) * 64 + Bits(3)

\* A character is taken when its encoding is the bytes found, which excludes overlong
\* forms, surrogates and points above U+10FFFF.
EncodedAs(point, bytes) ==
    Utf8Bytes(point) = bytes /\ ~IsHigh(point) /\ ~IsLow(point) /\ point <= 1114111

\* One character in front of what the bytes behind it stand for.
Before(units, rest) == IF rest.ok THEN Ok(units \o rest.value) ELSE rest

WithoutMark(decoded) ==
    IF decoded.ok /\ decoded.value # <<>> /\ Head(decoded.value) = ByteOrderMark
    THEN Ok(Tail(decoded.value)) ELSE decoded

TextDecoderDecode(bytes) ==
    LET decoded[i \in 1..(Len(bytes) + 1)] ==
            IF i = Len(bytes) + 1 THEN Ok(<<>>)
            ELSE LET n == SequenceLength(bytes[i])
                     character == SubSeq(bytes, i, i + n - 1)
                 IN IF n > 0 /\ i + n - 1 <= Len(bytes)
                       /\ EncodedAs(Point(character, n), character)
                    THEN Before(CodeUnits(Point(character, n)), decoded[i + n])
                    ELSE Err("TypeError")
    IN WithoutMark(decoded[1])

-----------------------------------------------------------------------------
(* Encoding and decoding behind a length. *)

\* decodeUtf8() and validateMqttUtf8(): two reasons to call a string malformed.
WellFormed(decoded) == IF decoded.ok THEN decoded ELSE Err("MALFORMED_UTF8")
Allowed(decoded) == IF decoded.ok /\ ~IsValidMqttString(decoded.value)
                    THEN Err("MALFORMED_UTF8") ELSE decoded
DecodeUtf8(bytes) == WellFormed(TextDecoderDecode(bytes))
ValidateMqttUtf8(bytes) == Allowed(DecodeUtf8(bytes))

Prefixed(bytes) ==
    IF Len(bytes) > MaxStringLength THEN RangeError
    ELSE <<Len(bytes) \div 256, Len(bytes) % 256>> \o bytes

\* encodeMqttString() and encodeMqttBinary()
EncodeMqttString(str) == Prefixed(TextEncoderEncode(str))
EncodeMqttBinary(data) == Prefixed(data)

\* The bytes behind the length at an offset of a buffer, counted from 0, if they are all there.
LengthPrefixed(buffer, offset) ==
    LET length == buffer[offset + 1] * 256 + buffer[offset + 2] IN
    IF offset + 2 > Len(buffer) \/ offset + 2 + length > Len(buffer) THEN Err("INCOMPLETE")
    ELSE Ok(SubSeq(buffer, offset + 3, offset + 2 + length))

\* A value, and how many bytes it and its length took.
Measured(result, bytes) ==
    IF result.ok THEN Ok([value |-> result.value, bytesRead |-> 2 + Len(bytes)]) ELSE result

\* decodeMqttString() and decodeMqttBinary()
StringOf(prefixed) == IF prefixed.ok THEN Measured(ValidateMqttUtf8(prefixed.value), prefixed.value)
                      ELSE prefixed
BinaryOf(prefixed) == Measured(prefixed, prefixed.value)
DecodeMqttString(buffer, offset) == StringOf(LengthPrefixed(buffer, offset))
DecodeMqttBinary(buffer, offset) == BinaryOf(LengthPrefixed(buffer, offset))
=============================================================================
