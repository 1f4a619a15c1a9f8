---------------------------- MODULE BinaryWriter ----------------------------
(***************************************************************************)
(* The class BinaryWriter: src/codec/writer.ts.  A writer is its array,    *)
(* which grows by doubling, and a position.  What a method writes is given *)
(* by the operators named for the methods; WriteAll makes the calls one    *)
(* after the other.                                                        *)
(* reserve(), writeAt(), writeUint8At(), writeUtf8(), reset() and the      *)
(* class PacketSizeCalculator are used by no code of the library.          *)
(***************************************************************************)
EXTENDS Utf8, VariableByteInteger

CONSTANT DefaultInitialSize   \* DEFAULT_INITIAL_SIZE, 256

ASSUME WriterAssumption == DefaultInitialSize \in Nat \ {0}

NewWriter == [buffer |-> [i \in 1..DefaultInitialSize |-> 0], position |-> 0]

\* ensureCapacity(): the array doubles at least once, and until the bytes fit.
EnsureCapacity(writer, additionalBytes) ==
    LET required == writer.position + additionalBytes
        length   == Len(writer.buffer)
        newSize[size \in Nat] == IF size < required THEN newSize[size * 2] ELSE size
    IN IF required <= length THEN writer
       ELSE [writer EXCEPT !.buffer =
                @ \o [i \in 1..(newSize[length * 2] - length) |-> 0]]

\* One call of a method: room for its bytes, then the bytes at the position.  An array that
\* is too small for them throws.
WriteBytes(writer, bytes) ==
    LET roomy  == EnsureCapacity(writer, Len(bytes)).buffer
        behind == writer.position + Len(bytes)
    IN IF behind > Len(roomy) THEN [buffer |-> RangeError, position |-> 1]
       ELSE [buffer |-> SubSeq(roomy, 1, writer.position) \o bytes
                        \o SubSeq(roomy, behind + 1, Len(roomy)),
             position |-> behind]

Uint8(value)  == <<value % 256>>
Uint16(value) == <<(value \div 256) % 256, value % 256>>
Uint32(value) == Uint16(value[1]) \o Uint16(value[2])

\* writeVariableByteInteger()
Varint(value) == IF InRange(value) THEN EncodeVariableByteInteger(value) ELSE RangeError

\* toUint8Array() after these calls on a new writer.
WriteAll(calls) ==
    LET writer == FoldLeft(WriteBytes, NewWriter, calls)
    IN SubSeq(writer.buffer, 1, writer.position)
=============================================================================
