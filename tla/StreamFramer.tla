---------------------------- MODULE StreamFramer ----------------------------
(***************************************************************************)
(* The stream framer: the class StreamFramer, over readPacketFrame(), in   *)
(* src/codec/framing.ts.  Chunks wait in a list until a read merges them   *)
(* into one buffer; packets are cut from the front of the buffer by moving *)
(* an offset, and the consumed part is dropped when it is more than half.  *)
(* A push while the buffer still holds bytes puts them back into the list. *)
(* Every method is synchronous, hence one step.                            *)
(***************************************************************************)
EXTENDS PacketFrame, SequencesExt

CONSTANTS Chunks,           \* what push() may be given
          MaxBuffered       \* bound: bytes in the framer

ASSUME FramerAssumption == Chunks \subseteq Seq(Bytes) /\ MaxBuffered \in Nat

VARIABLES chunks,         \* chunks pushed and not yet merged
          totalLength,    \* the length of the chunks together
          buffer,         \* the merged bytes; <<>> for null, a buffer is never empty
          bufferOffset,   \* the bytes of the buffer that are consumed
          result          \* what the last call returned

vars == <<chunks, totalLength, buffer, bufferOffset, result>>

NoBuffer == <<>>

Nothing == [status |-> "void"]
Complete(packet) == [status |-> "complete", packetData |-> packet]

-----------------------------------------------------------------------------
(* The class. *)

Init == /\ chunks = <<>> /\ totalLength = 0
        /\ buffer = NoBuffer /\ bufferOffset = 0
        /\ result = Nothing

HasUnconsumed == buffer # NoBuffer /\ bufferOffset < Len(buffer)

Unconsumed == SubSeq(buffer, bufferOffset + 1, Len(buffer))

PushUncounted(chunk) ==   \* mutated: the bytes put back are not counted
    /\ chunk # <<>>
    /\ chunks' = (IF HasUnconsumed THEN Append(chunks, Unconsumed) ELSE chunks) \o <<chunk>>
    /\ totalLength' = totalLength + Len(chunk)
    /\ buffer' = NoBuffer /\ bufferOffset' = 0
    /\ result' = Nothing

\* push() of a chunk; an empty one is ignored (PushEmpty).
Push(chunk) ==
    /\ chunk # <<>>
    /\ chunks' = (IF HasUnconsumed THEN Append(chunks, Unconsumed) ELSE chunks) \o <<chunk>>
    /\ totalLength' = (IF HasUnconsumed THEN Len(buffer) - bufferOffset ELSE totalLength)
                      + Len(chunk)
    /\ buffer' = NoBuffer /\ bufferOffset' = 0
    /\ result' = Nothing

PushEmpty == result' = Nothing /\ UNCHANGED <<chunks, totalLength, buffer, bufferOffset>>

\* consolidate(): the buffer and the offset a read works on.  The merged array has
\* totalLength bytes, zero where no chunk is copied.
Merged == LET all == FlattenSeq(chunks)
          IN [i \in 1..totalLength |-> IF i <= Len(all) THEN all[i] ELSE 0]
NothingToMerge == buffer # NoBuffer \/ chunks = <<>>
Consolidated == IF NothingToMerge THEN buffer
                ELSE IF Len(chunks) = 1 THEN chunks[1] ELSE Merged
ConsolidatedOffset == IF NothingToMerge THEN bufferOffset ELSE 0

CompactKeepsOffset(bytes, offset) ==   \* mutated: the offset stays when bytes are dropped
    IF offset = Len(bytes)
    THEN buffer' = NoBuffer /\ bufferOffset' = 0
    ELSE /\ buffer' = IF 2 * offset > Len(bytes) THEN SubSeq(bytes, offset + 1, Len(bytes))
                     ELSE bytes
         /\ bufferOffset' = offset

\* compact() of these bytes with the offset behind the packet just read.
Compact(bytes, offset) ==
    LET remaining == Len(bytes) - offset IN
    \/ /\ 2 * offset > Len(bytes) /\ remaining > 0
       /\ buffer' = SubSeq(bytes, offset + 1, Len(bytes)) /\ bufferOffset' = 0
    \/ /\ remaining = 0
       /\ buffer' = NoBuffer /\ bufferOffset' = 0
    \/ /\ 2 * offset <= Len(bytes) /\ remaining > 0
       /\ buffer' = bytes /\ bufferOffset' = offset

Read ==
    LET bytes  == Consolidated
        offset == ConsolidatedOffset
        frame  == ReadPacketFrame(bytes, offset)
    IN /\ IF NothingToMerge THEN UNCHANGED <<chunks, totalLength>>
          ELSE chunks' = <<>> /\ totalLength' = 0
       /\ \/ /\ offset >= Len(bytes)
             /\ buffer' = bytes /\ bufferOffset' = offset
             /\ result' = Incomplete
          \/ /\ offset < Len(bytes) /\ frame.status = "complete"
             /\ result' = Complete(SubSeq(bytes, offset + 1, offset + frame.bytesConsumed))
             /\ Compact(bytes, offset + frame.bytesConsumed)
          \/ /\ offset < Len(bytes) /\ frame.status # "complete"
             /\ buffer' = bytes /\ bufferOffset' = offset
             /\ result' = frame

Clear == /\ chunks' = <<>> /\ totalLength' = 0
         /\ buffer' = NoBuffer /\ bufferOffset' = 0
         /\ result' = Nothing

\* The getter bufferedLength.
BufferedLength == IF buffer # NoBuffer THEN Len(buffer) - bufferOffset ELSE totalLength

Next == \/ \E chunk \in Chunks : BufferedLength + Len(chunk) <= MaxBuffered /\ Push(chunk)
        \/ PushEmpty
        \/ Read
        \/ Clear

Spec == Init /\ [][Next]_vars

-----------------------------------------------------------------------------
(* Properties. *)

\* The bytes a reader has not been given yet, in the order they were pushed.
Unread == IF buffer # NoBuffer THEN Unconsumed ELSE FlattenSeq(chunks)

Stream == INSTANCE PacketStream WITH pending <- Unread

\* The bytes wait in the list or in the buffer, never in both, and an unconsumed byte is
\* left in every buffer that is kept: so push() may set the total length anew.
TypeOK == /\ chunks \in Seq(Seq(Bytes) \ {<<>>})
          /\ totalLength \in Nat
          /\ buffer \in Seq(Bytes)
          /\ buffer # NoBuffer => /\ bufferOffset \in 0..(Len(buffer) - 1)
                                  /\ chunks = <<>> /\ totalLength = 0
          /\ buffer = NoBuffer => bufferOffset = 0
          /\ result \in {Nothing, Incomplete, Invalid}
                        \cup [status : {"complete"}, packetData : Seq(Bytes)]

\* The buffered length is the number of unread bytes, over every sequence of pushes, reads
\* that find a packet, half a packet or none, and compactions.
LengthExact == BufferedLength = Len(Unread)

\* The packets read are those of the pushed bytes taken as one stream, however they were
\* cut into chunks; no byte is lost, repeated or invented, and a packet is refused as soon
\* as its header shows that it is malformed or larger than the maximum.
ImplementsStream == Stream!Spec
=============================================================================
