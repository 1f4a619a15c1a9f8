---------------------------- MODULE BinaryReader ----------------------------
(***************************************************************************)
(* The class BinaryReader: src/codec/reader.ts.  A reader is its buffer,   *)
(* the cursor and the end it may read to; a method gives the value read    *)
(* and the reader with its cursor moved, or an error.  The methods the     *)
(* packet decoder does not call (readUtf8, readMqttUtf8, skip, peek,       *)
(* readBytesView, readRemainingBytes) are left out.                        *)
(***************************************************************************)
EXTENDS Utf8, VariableByteInteger

NewReader(buffer, offset) == [buffer |-> buffer, position |-> offset, end |-> Len(buffer)]

Remaining(reader) == reader.end - reader.position
HasRemaining(reader, count) == Remaining(reader) >= count

Advanced(reader, count) == [reader EXCEPT !.position = @ + count]

\* The byte that many places behind the cursor.
ByteAt(reader, i) == reader.buffer[reader.position + i + 1]

\* A successful read: the value, and the reader count bytes further on.
Read(value, reader, count) == [ok |-> TRUE, value |-> value, reader |-> Advanced(reader, count)]

\* The early return of every decoder: go on with what was read, or hand the error on.
Then(result, Continue(_, _)) ==
    IF result.ok THEN Continue(result.value, result.reader) ELSE result

ReadUint8(reader) ==
    IF HasRemaining(reader, 1) THEN Read(ByteAt(reader, 0), reader, 1) ELSE Err("INCOMPLETE")

ReadUint16(reader) ==
    IF HasRemaining(reader, 2)
    THEN Read(ByteAt(reader, 0) * 256 + ByteAt(reader, 1), reader, 2) ELSE Err("INCOMPLETE")

\* A number of four bytes is the pair of its halves.
ReadUint32(reader) ==
    IF HasRemaining(reader, 4)
    THEN Read(<<ByteAt(reader, 0) * 256 + ByteAt(reader, 1),
                ByteAt(reader, 2) * 256 + ByteAt(reader, 3)>>, reader, 4)
    ELSE Err("INCOMPLETE")

\* Reads by a decoder of the buffer, whose end bounds them, not the end of the reader.
ReadDecoded(result, reader) ==
    IF result.ok THEN Read(result.value.value, reader, result.value.bytesRead) ELSE result

ReadNumber(result, reader) ==
    IF result.status = "ok" THEN Read(result.value, reader, result.bytesRead)
    ELSE Err(result.status)

ReadVariableByteInteger(reader) ==
    ReadNumber(DecodeVariableByteInteger(reader.buffer, reader.position), reader)
ReadMqttString(reader) == ReadDecoded(DecodeMqttString(reader.buffer, reader.position), reader)
ReadMqttBinary(reader) == ReadDecoded(DecodeMqttBinary(reader.buffer, reader.position), reader)

ReadBytes(reader, count) ==
    IF HasRemaining(reader, count)
    THEN Read(SubSeq(reader.buffer, reader.position + 1, reader.position + count), reader, count)
    ELSE Err("INCOMPLETE")

SubReaderStays(reader, length) ==   \* mutated: the outer reader does not go on
    IF HasRemaining(reader, length)
    THEN Read([reader EXCEPT !.end = reader.position + length], reader, 0)
    ELSE Err("INCOMPLETE")

\* subReader(): a reader of the next bytes; this one goes on behind them.
SubReader(reader, length) ==
    IF HasRemaining(reader, length)
    THEN Read([reader EXCEPT !.end = reader.position + length], reader, length)
    ELSE Err("INCOMPLETE")
=============================================================================
