------------------------- MODULE StreamFramerProofs -------------------------
(***************************************************************************)
(* The framer keeps every byte: the lengths it counts are those of the     *)
(* bytes it holds, and its lists, its buffer and its offset are one queue. *)
(***************************************************************************)
EXTENDS StreamFramer, FramingLemmas

-----------------------------------------------------------------------------
(* The framer. *)

\* The total length counts the bytes of the chunks that wait.  Once they are merged the
\* buffer says how many there are, and push() sets the total anew.
Counted == buffer = NoBuffer => totalLength = Len(FlattenSeq(chunks))

FramerInv == TypeOK /\ Counted

LEMMA ChunksAreBytes ==
    ASSUME TypeOK
    PROVE  FlattenSeq(chunks) \in Seq(Bytes)
<1>1. chunks \in Seq(Seq(Bytes))
  BY DEF TypeOK
<1> QED
  BY <1>1, FlattenType

\* Merging gives the bytes that were pushed, in their order.
LEMMA MergedIsJoined ==
    ASSUME FramerInv, buffer = NoBuffer
    PROVE  Merged = FlattenSeq(chunks)
<1>1. PICK all : all = FlattenSeq(chunks)
  OBVIOUS
<1>2. all \in Seq(Bytes) /\ totalLength = Len(all)
  BY <1>1, ChunksAreBytes DEF FramerInv, Counted
<1>3. Merged = [i \in 1..Len(all) |-> IF i <= Len(all) THEN all[i] ELSE 0]
  BY <1>1, <1>2 DEF Merged
<1>4. \A i \in 1..Len(all) : (IF i <= Len(all) THEN all[i] ELSE 0) = all[i]
  BY <1>2
<1>5. Merged = [i \in 1..Len(all) |-> all[i]]
  BY <1>3, <1>4
<1>6. all = [i \in 1..Len(all) |-> all[i]]
  BY <1>2
<1> QED
  BY <1>1, <1>5, <1>6

LEMMA ReadsWhatWaits ==
    ASSUME FramerInv, buffer = NoBuffer
    PROVE  Consolidated = FlattenSeq(chunks) /\ ConsolidatedOffset = 0
<1>1. bufferOffset = 0
  BY DEF FramerInv, TypeOK
<1>2. CASE chunks = <<>>
  BY <1>1, <1>2, FlattenNothing DEF Consolidated, ConsolidatedOffset, NothingToMerge, NoBuffer
<1>3. CASE chunks # <<>> /\ Len(chunks) = 1
  <2>1. chunks \in Seq(Seq(Bytes))
    BY DEF FramerInv, TypeOK
  <2>2. PICK seq : seq = chunks[1]
    OBVIOUS
  <2>3. chunks = <<seq>>
    BY <1>3, <2>1, <2>2
  <2>4. FlattenSeq(chunks) = seq
    BY <2>3, FlattenOne
  <2>5. Consolidated = seq /\ ConsolidatedOffset = 0
    BY <1>3, <2>2 DEF Consolidated, ConsolidatedOffset, NothingToMerge, NoBuffer
  <2> QED
    BY <2>4, <2>5
<1>4. CASE chunks # <<>> /\ Len(chunks) # 1
  BY <1>4, MergedIsJoined DEF Consolidated, ConsolidatedOffset, NothingToMerge, NoBuffer
<1> QED
  BY <1>2, <1>3, <1>4

LEMMA ReadsTheBuffer ==
    ASSUME buffer # NoBuffer
    PROVE  Consolidated = buffer /\ ConsolidatedOffset = bufferOffset
  BY DEF Consolidated, ConsolidatedOffset, NothingToMerge

\* A read works on bytes of which a part, all of them or none is consumed.
LEMMA ConsolidatedType ==
    ASSUME FramerInv
    PROVE  /\ Consolidated \in Seq(Bytes)
           /\ ConsolidatedOffset \in 0..Len(Consolidated)
           /\ Consolidated # <<>> => ConsolidatedOffset < Len(Consolidated)
           /\ Consolidated = <<>> => ConsolidatedOffset = 0
<1>1. CASE buffer = NoBuffer
  <2>1. PICK all : all = FlattenSeq(chunks)
    OBVIOUS
  <2>2. all \in Seq(Bytes)
    BY <2>1, ChunksAreBytes DEF FramerInv
  <2>3. Consolidated = all /\ ConsolidatedOffset = 0
    BY <1>1, <2>1, ReadsWhatWaits
  <2>4. all # <<>> => 0 < Len(all)
    BY <2>2
  <2>5. 0 \in 0..Len(all)
    BY <2>2
  <2> QED
    BY <2>2, <2>3, <2>4, <2>5
<1>2. CASE buffer # NoBuffer
  <2>1. /\ buffer \in Seq(Bytes) /\ bufferOffset \in 0..(Len(buffer) - 1)
        /\ buffer # <<>>
    BY <1>2 DEF FramerInv, TypeOK, NoBuffer
  <2>2. bufferOffset \in 0..Len(buffer) /\ bufferOffset < Len(buffer)
    BY <2>1
  <2> QED
    BY <1>2, <2>1, <2>2, ReadsTheBuffer
<1> QED
  BY <1>1, <1>2

\* The unread bytes are those behind the offset.
LEMMA UnreadIsRest ==
    ASSUME FramerInv
    PROVE  Unread = SubSeq(Consolidated, ConsolidatedOffset + 1, Len(Consolidated))
<1>1. CASE buffer = NoBuffer
  <2>1. PICK all : all = FlattenSeq(chunks)
    OBVIOUS
  <2>2. all \in Seq(Bytes)
    BY <2>1, ChunksAreBytes DEF FramerInv
  <2>3. Consolidated = all /\ ConsolidatedOffset = 0 /\ Unread = all
    BY <1>1, <2>1, ReadsWhatWaits DEF Unread
  <2>4. SubSeq(all, 0 + 1, Len(all)) = all
    BY <2>2
  <2> QED
    BY <2>3, <2>4
<1>2. CASE buffer # NoBuffer
  BY <1>2, ReadsTheBuffer DEF Unread, Unconsumed
<1> QED
  BY <1>1, <1>2

\* Whatever a read finds, no chunk waits after it.
LEMMA ReadMerges ==
    ASSUME FramerInv, Read
    PROVE  chunks' = <<>> /\ totalLength' = 0
<1>1. CASE NothingToMerge /\ buffer # NoBuffer
  BY <1>1 DEF FramerInv, TypeOK, Read
<1>2. CASE NothingToMerge /\ buffer = NoBuffer
  <2>1. chunks = <<>>
    BY <1>2 DEF NothingToMerge
  <2>2. totalLength = 0
    BY <1>2, <2>1, FlattenNothing DEF FramerInv, Counted
  <2> QED
    BY <1>2, <2>1, <2>2 DEF Read
<1>3. CASE ~NothingToMerge
  BY <1>3 DEF Read
<1> QED
  BY <1>1, <1>2, <1>3

LEMMA UnreadType ==
    ASSUME FramerInv
    PROVE  Unread \in Seq(Bytes)
<1>1. CASE buffer = NoBuffer
  BY <1>1, ChunksAreBytes DEF FramerInv, Unread
<1>2. CASE buffer # NoBuffer
  <2>1. buffer \in Seq(Bytes) /\ bufferOffset \in 0..(Len(buffer) - 1)
    BY <1>2 DEF FramerInv, TypeOK
  <2>2. SubSeq(buffer, bufferOffset + 1, Len(buffer)) \in Seq(Bytes)
    BY <2>1
  <2> QED
    BY <1>2, <2>2 DEF Unread, Unconsumed
<1> QED
  BY <1>1, <1>2

LEMMA InitCounts == Init => FramerInv
  BY FlattenNothing DEF Init, FramerInv, TypeOK, Counted, NoBuffer, Nothing, Bytes

\* The list a push leaves: bytes put back first, the chunk last.
LEMMA PushQueues ==
    ASSUME FramerInv, NEW chunk \in Seq(Bytes), Push(chunk)
    PROVE  FramerInv' /\ Unread' = Unread \o chunk
<1>1. PICK older : older = IF HasUnconsumed THEN Append(chunks, Unconsumed) ELSE chunks
  OBVIOUS
<1>2. PICK length : length = IF HasUnconsumed THEN Len(buffer) - bufferOffset ELSE totalLength
  OBVIOUS
<1>3. /\ chunk # <<>> /\ chunks' = older \o <<chunk>> /\ totalLength' = length + Len(chunk)
      /\ buffer' = NoBuffer /\ bufferOffset' = 0 /\ result' = Nothing
  BY <1>1, <1>2 DEF Push
<1>4. /\ older \in Seq(Seq(Bytes) \ {<<>>}) /\ FlattenSeq(older) = Unread
      /\ length = Len(Unread)
  <2>1. CASE buffer = NoBuffer
    <3>1. older = chunks /\ length = totalLength /\ Unread = FlattenSeq(chunks)
      BY <1>1, <1>2, <2>1 DEF HasUnconsumed, Unread
    <3> QED
      BY <2>1, <3>1 DEF FramerInv, TypeOK, Counted
  <2>2. CASE buffer # NoBuffer
    <3>1. /\ buffer \in Seq(Bytes) /\ bufferOffset \in 0..(Len(buffer) - 1)
          /\ chunks = <<>>
      BY <2>2 DEF FramerInv, TypeOK
    <3>2. HasUnconsumed /\ Unread = Unconsumed
      BY <2>2, <3>1 DEF HasUnconsumed, Unread
    <3>3. PICK rest : rest = Unconsumed
      OBVIOUS
    <3>4. rest \in Seq(Bytes) /\ Len(rest) = Len(buffer) - bufferOffset
      BY <3>1, <3>3 DEF Unconsumed
    <3>5. rest # <<>>
      BY <3>1, <3>4
    <3>6. older = <<rest>>
      BY <1>1, <3>1, <3>2, <3>3
    <3>7. FlattenSeq(older) = rest
      BY <3>6, FlattenOne
    <3>8. older \in Seq(Seq(Bytes) \ {<<>>})
      BY <3>4, <3>5, <3>6
    <3> QED
      BY <1>2, <3>2, <3>3, <3>4, <3>7, <3>8
  <2> QED
    BY <2>1, <2>2
<1>5. PICK unread : unread = Unread
  OBVIOUS
<1>6. unread \in Seq(Bytes)
  BY <1>5, UnreadType
<1>7. chunks' = Append(older, chunk)
  BY <1>3, <1>4
<1>8. FlattenSeq(chunks') = unread \o chunk
  <2>1. older \in Seq(Seq(Bytes))
    BY <1>4
  <2>2. FlattenSeq(Append(older, chunk)) = FlattenSeq(older) \o chunk
    BY <2>1, FlattenAppend
  <2> QED
    BY <1>4, <1>5, <1>7, <2>2
<1>9. Len(unread \o chunk) = length + Len(chunk)
  BY <1>4, <1>5, <1>6
<1>10. chunks' \in Seq(Seq(Bytes) \ {<<>>})
  <2>1. chunk \in Seq(Bytes) \ {<<>>}
    BY <1>3
  <2> QED
    BY <1>4, <1>7, <2>1
<1>11. length + Len(chunk) \in Nat
  BY <1>4, <1>5, <1>6
<1>12. TypeOK'
  BY <1>3, <1>10, <1>11 DEF TypeOK, NoBuffer
<1>13. Counted'
  BY <1>3, <1>8, <1>9 DEF Counted
<1>14. Unread' = unread \o chunk
  BY <1>3, <1>8 DEF Unread
<1> QED
  BY <1>5, <1>12, <1>13, <1>14 DEF FramerInv

\* Compacting drops consumed bytes only.
LEMMA CompactKeeps ==
    ASSUME NEW bytes \in Seq(Bytes), NEW offset \in 0..Len(bytes), Compact(bytes, offset)
    PROVE  /\ buffer' \in Seq(Bytes)
           /\ buffer' = <<>> => bufferOffset' = 0 /\ offset = Len(bytes)
           /\ buffer' # <<>> =>
                 /\ bufferOffset' \in 0..(Len(buffer') - 1)
                 /\ SubSeq(buffer', bufferOffset' + 1, Len(buffer'))
                       = SubSeq(bytes, offset + 1, Len(bytes))
<1>1. PICK rest : rest = SubSeq(bytes, offset + 1, Len(bytes))
  OBVIOUS
<1>2. rest \in Seq(Bytes) /\ Len(rest) = Len(bytes) - offset
  BY <1>1
<1>3. CASE Len(bytes) - offset > 0 /\ buffer' = rest /\ bufferOffset' = 0
  <2>1. rest # <<>> /\ 0 \in 0..(Len(rest) - 1)
    BY <1>2, <1>3
  <2>2. SubSeq(rest, 0 + 1, Len(rest)) = rest
    BY <1>2
  <2> QED
    BY <1>1, <1>2, <1>3, <2>1, <2>2
<1>4. CASE Len(bytes) - offset = 0 /\ buffer' = <<>> /\ bufferOffset' = 0
  <2>1. <<>> \in Seq(Bytes)
    OBVIOUS
  <2> QED
    BY <1>4, <2>1
<1>5. CASE Len(bytes) - offset > 0 /\ buffer' = bytes /\ bufferOffset' = offset
  <2>1. bytes # <<>> /\ offset \in 0..(Len(bytes) - 1)
    BY <1>5
  <2> QED
    BY <1>5, <2>1
<1>6. \/ Len(bytes) - offset > 0 /\ buffer' = rest /\ bufferOffset' = 0
      \/ Len(bytes) - offset = 0 /\ buffer' = <<>> /\ bufferOffset' = 0
      \/ Len(bytes) - offset > 0 /\ buffer' = bytes /\ bufferOffset' = offset
  BY <1>1 DEF Compact, NoBuffer
<1> QED
  BY <1>3, <1>4, <1>5, <1>6

\* A read takes the frame it finds from the front of the unread bytes, or leaves them alone.
Found == ReadPacketFrame(Consolidated, ConsolidatedOffset)

Finds(unread, unreadAfter, found, answer) ==
    \/ unread = <<>> /\ unreadAfter = unread /\ answer = Incomplete
    \/ /\ unread # <<>> /\ found \in {Incomplete, Invalid}
       /\ unreadAfter = unread /\ answer = found
    \/ /\ unread # <<>> /\ found.status = "complete"
       /\ found.bytesConsumed \in 1..Len(unread)
       /\ answer = Complete(SubSeq(unread, 1, found.bytesConsumed))
       /\ unreadAfter = SubSeq(unread, found.bytesConsumed + 1, Len(unread))

LEMMA ReadTakes ==
    ASSUME FramerInv, Read
    PROVE  FramerInv' /\ Finds(Unread, Unread', Found, result')
<1>1. PICK bytes : bytes = Consolidated
  OBVIOUS
<1>2. PICK offset : offset = ConsolidatedOffset
  OBVIOUS
<1>3. PICK frame : frame = ReadPacketFrame(bytes, offset)
  OBVIOUS
<1>4. frame = Found
  BY <1>1, <1>2, <1>3 DEF Found
<1>5. PICK unread : unread = SubSeq(bytes, offset + 1, Len(bytes))
  OBVIOUS
<1>6. unread = Unread
  BY <1>1, <1>2, <1>5, UnreadIsRest
<1>7. /\ bytes \in Seq(Bytes) /\ offset \in 0..Len(bytes)
      /\ bytes # <<>> => offset < Len(bytes)
      /\ bytes = <<>> => offset = 0
  BY <1>1, <1>2, ConsolidatedType
<1>8. unread \in Seq(Bytes) /\ Len(unread) = Len(bytes) - offset
  BY <1>5, <1>7
<1>9. chunks' = <<>> /\ totalLength' = 0
  BY ReadMerges
<1>10. FlattenSeq(chunks') = <<>> /\ chunks' \in Seq(Seq(Bytes) \ {<<>>})
  BY <1>9, FlattenNothing
<1>11. Counted'
  BY <1>9, <1>10 DEF Counted
\* What is left behind is well formed when buffer and offset are.
<1>12. ASSUME buffer' = bytes, bufferOffset' = offset, result' \in {Incomplete, Invalid}
       PROVE  FramerInv' /\ Unread' = unread
  <2>1. TypeOK'
    <3>1. CASE bytes = <<>>
      BY <1>7, <1>9, <1>10, <1>12, <3>1 DEF TypeOK, NoBuffer
    <3>2. CASE bytes # <<>>
      BY <1>7, <1>9, <1>10, <1>12, <3>2 DEF TypeOK, NoBuffer
    <3> QED
      BY <3>1, <3>2
  <2>2. Unread' = unread
    <3>1. CASE bytes = <<>>
      <4>1. Unread' = <<>>
        BY <1>10, <1>12, <3>1 DEF Unread, NoBuffer
      <4>2. unread = <<>>
        BY <1>7, <1>8, <3>1
      <4> QED
        BY <4>1, <4>2
    <3>2. CASE bytes # <<>>
      BY <1>5, <1>12, <3>2 DEF Unread, Unconsumed, NoBuffer
    <3> QED
      BY <3>1, <3>2
  <2> QED
    BY <1>11, <2>1, <2>2 DEF FramerInv
<1>13. CASE offset >= Len(bytes) /\ buffer' = bytes /\ bufferOffset' = offset
            /\ result' = Incomplete
  <2>1. FramerInv' /\ Unread' = unread
    BY <1>12, <1>13
  <2>2. unread = <<>>
    BY <1>7, <1>8, <1>13
  <2> QED
    BY <1>6, <1>13, <2>1, <2>2 DEF Finds
<1>14. CASE offset < Len(bytes) /\ frame.status # "complete"
            /\ buffer' = bytes /\ bufferOffset' = offset /\ result' = frame
  <2>1. frame \in {Incomplete, Invalid}
    BY <1>3, <1>7, <1>14, FrameInBuffer
  <2>2. FramerInv' /\ Unread' = unread
    BY <1>12, <1>14, <2>1
  <2>3. unread # <<>>
    BY <1>7, <1>8, <1>14
  <2> QED
    BY <1>4, <1>6, <1>14, <2>1, <2>2, <2>3 DEF Finds
<1>15. CASE /\ offset < Len(bytes) /\ frame.status = "complete"
            /\ result' = Complete(SubSeq(bytes, offset + 1, offset + frame.bytesConsumed))
            /\ Compact(bytes, offset + frame.bytesConsumed)
  <2>1. PICK n : n = frame.bytesConsumed
    OBVIOUS
  <2>2. n \in Nat \ {0} /\ offset + n <= Len(bytes)
    BY <1>3, <1>7, <1>15, <2>1, FrameInBuffer DEF Incomplete, Invalid
  <2>3. PICK behind : behind = offset + n
    OBVIOUS
  <2>4. behind \in 0..Len(bytes) /\ Compact(bytes, behind)
    BY <1>7, <1>15, <2>1, <2>2, <2>3
  <2>5. /\ buffer' \in Seq(Bytes)
        /\ buffer' = <<>> => bufferOffset' = 0 /\ behind = Len(bytes)
        /\ buffer' # <<>> =>
              /\ bufferOffset' \in 0..(Len(buffer') - 1)
              /\ SubSeq(buffer', bufferOffset' + 1, Len(buffer'))
                    = SubSeq(bytes, behind + 1, Len(bytes))
    BY <1>7, <2>4, CompactKeeps
  <2>6. n \in 1..Len(unread) /\ unread # <<>>
    BY <1>7, <1>8, <2>2
  <2>7. SubSeq(unread, n + 1, Len(unread)) = SubSeq(bytes, behind + 1, Len(bytes))
    BY <1>5, <1>7, <1>8, <2>2, <2>3
  <2>8. SubSeq(unread, 1, n) = SubSeq(bytes, offset + 1, behind)
    BY <1>5, <1>7, <1>8, <2>2, <2>3
  <2>9. result' = Complete(SubSeq(unread, 1, n))
    BY <1>15, <2>1, <2>3, <2>8
  <2>10. TypeOK'
    <3>1. SubSeq(unread, 1, n) \in Seq(Bytes)
      BY <1>8, <2>6
    <3>2. result' \in [status : {"complete"}, packetData : Seq(Bytes)]
      BY <2>9, <3>1 DEF Complete
    <3> QED
      BY <1>9, <1>10, <2>5, <3>2 DEF TypeOK, NoBuffer
  <2>11. Unread' = SubSeq(unread, n + 1, Len(unread))
    <3>1. CASE buffer' = <<>>
      <4>1. Unread' = <<>>
        BY <1>10, <3>1 DEF Unread, NoBuffer
      <4>2. n = Len(unread)
        BY <1>7, <1>8, <2>2, <2>3, <2>5, <3>1
      <4>3. SubSeq(unread, n + 1, Len(unread)) = <<>>
        BY <1>8, <4>2
      <4> QED
        BY <4>1, <4>3
    <3>2. CASE buffer' # <<>>
      BY <2>5, <2>7, <3>2 DEF Unread, Unconsumed, NoBuffer
    <3> QED
      BY <3>1, <3>2
  <2> QED
    BY <1>4, <1>6, <1>11, <1>15, <2>1, <2>6, <2>9, <2>10, <2>11 DEF FramerInv, Finds
<1>16. \/ /\ offset >= Len(bytes) /\ buffer' = bytes /\ bufferOffset' = offset
          /\ result' = Incomplete
       \/ /\ offset < Len(bytes) /\ frame.status # "complete"
          /\ buffer' = bytes /\ bufferOffset' = offset /\ result' = frame
       \/ /\ offset < Len(bytes) /\ frame.status = "complete"
          /\ result' = Complete(SubSeq(bytes, offset + 1, offset + frame.bytesConsumed))
          /\ Compact(bytes, offset + frame.bytesConsumed)
  BY <1>1, <1>2, <1>3 DEF Read
<1> QED
  BY <1>13, <1>14, <1>15, <1>16

LEMMA ClearEmpties ==
    ASSUME Clear
    PROVE  FramerInv' /\ Unread' = <<>>
<1>1. chunks' \in Seq(Seq(Bytes) \ {<<>>}) /\ FlattenSeq(chunks') = <<>>
  BY FlattenNothing DEF Clear
<1>2. buffer' \in Seq(Bytes)
  BY DEF Clear, NoBuffer
<1> QED
  BY <1>1, <1>2 DEF Clear, FramerInv, TypeOK, Counted, Unread, NoBuffer

LEMMA PushEmptyKeeps ==
    ASSUME FramerInv, PushEmpty
    PROVE  FramerInv' /\ Unread' = Unread
<1>1. TypeOK'
  BY DEF PushEmpty, FramerInv, TypeOK
<1>2. Counted'
  BY DEF PushEmpty, FramerInv, Counted
<1> QED
  BY <1>1, <1>2 DEF PushEmpty, FramerInv, Unread, Unconsumed

LEMMA StutterKeeps ==
    ASSUME FramerInv, UNCHANGED vars
    PROVE  FramerInv' /\ Unread' = Unread
<1>1. TypeOK' /\ Counted'
  BY DEF vars, FramerInv, TypeOK, Counted
<1> QED
  BY <1>1 DEF vars, FramerInv, Unread, Unconsumed

LEMMA FramerInvariant == Spec => []FramerInv
<1>1. ASSUME FramerInv, [Next]_vars PROVE FramerInv'
  <2>1. ASSUME NEW chunk \in Chunks, Push(chunk) PROVE FramerInv'
    <3>1. chunk \in Seq(Bytes)
      BY FramerAssumption
    <3> QED
      BY <1>1, <2>1, <3>1, PushQueues
  <2>2. CASE PushEmpty
    BY <1>1, <2>2, PushEmptyKeeps
  <2>3. CASE Read
    BY <1>1, <2>3, ReadTakes
  <2>4. CASE Clear
    BY <2>4, ClearEmpties
  <2>5. CASE UNCHANGED vars
    BY <1>1, <2>5, StutterKeeps
  <2> QED
    BY <1>1, <2>1, <2>2, <2>3, <2>4, <2>5 DEF Next
<1> QED
  BY <1>1, InitCounts, PTL DEF Spec

LEMMA CountedIsExact ==
    ASSUME FramerInv
    PROVE  LengthExact
<1>1. CASE buffer = NoBuffer
  BY <1>1 DEF FramerInv, Counted, LengthExact, BufferedLength, Unread
<1>2. CASE buffer # NoBuffer
  <2>1. buffer \in Seq(Bytes) /\ bufferOffset \in 0..(Len(buffer) - 1)
    BY <1>2 DEF FramerInv, TypeOK
  <2>2. Len(SubSeq(buffer, bufferOffset + 1, Len(buffer))) = Len(buffer) - bufferOffset
    BY <2>1
  <2> QED
    BY <1>2, <2>2 DEF LengthExact, BufferedLength, Unread, Unconsumed
<1> QED
  BY <1>1, <1>2

\* The framer's bytes are in the list or in the buffer, never in both, and a buffer that
\* is kept has an unconsumed byte: what push() relies on when it sets the total length.
THEOREM FramerTypeCorrect == Spec => []TypeOK
<1>1. FramerInv => TypeOK
  BY DEF FramerInv
<1> QED
  BY <1>1, FramerInvariant, PTL

\* bufferedLength is the number of bytes pushed and not read, over every sequence of
\* pushes, reads, compactions and clears.
THEOREM LengthsAreExact == Spec => []LengthExact
<1>1. FramerInv => LengthExact
  BY CountedIsExact
<1> QED
  BY <1>1, FramerInvariant, PTL

-----------------------------------------------------------------------------
(* The number in a header, as it is written and as it is accumulated. *)

\* What RemainingLength builds for a header of this length.
NumberAfter(before, header, length, k) ==
    IF k = 0 THEN 0 ELSE (header[length - k + 1] % Radix) + Radix * before
IsNumber(f, header, length, n) ==
    f = [k \in 0..n |-> NumberAfter(f[k - 1], header, length, k)]

TheNumber(header) == CHOOSE f : IsNumber(f, header, Len(header), Len(header) - 1)

LEMMA RemainingIsNumber ==
    ASSUME NEW header
    PROVE  Stream!RemainingLength(header) = TheNumber(header)[Len(header) - 1]
  BY DEF Stream!RemainingLength, TheNumber, IsNumber, NumberAfter

LEMMA NumberEntry ==
    ASSUME NEW f, NEW header, NEW length, NEW n, IsNumber(f, header, length, n),
           NEW k \in 0..n
    PROVE  f[k] = NumberAfter(f[k - 1], header, length, k)
  BY DEF IsNumber

LEMMA NumberExists ==
    ASSUME NEW header, NEW length, NEW n \in Nat
    PROVE  \E f : IsNumber(f, header, length, n)
<1> DEFINE S == {k \in Nat : \E f : IsNumber(f, header, length, k)}
           After(before, k) == NumberAfter(before, header, length, k)
<1>1. 0 \in S
  <2>1. PICK f : f = [k \in 0..0 |-> 0]
    OBVIOUS
  <2>2. \A k \in 0..0 : 0 = After(f[k - 1], k)
    BY DEF NumberAfter
  <2>3. f = [k \in 0..0 |-> After(f[k - 1], k)]
    BY <2>1, <2>2
  <2>4. IsNumber(f, header, length, 0)
    BY <2>3 DEF IsNumber
  <2> QED
    BY <2>4
<1>2. ASSUME NEW m \in Nat, m \in S PROVE m + 1 \in S
  <2>1. PICK f : IsNumber(f, header, length, m)
    BY <1>2
  <2> DEFINE g == [k \in 0..(m + 1) |-> IF k <= m THEN f[k] ELSE After(f[k - 1], k)]
  <2>2. \A k \in 0..(m + 1) : g[k] = IF k <= m THEN f[k] ELSE After(f[k - 1], k)
    OBVIOUS
  <2>3. g = [k \in 0..(m + 1) |-> g[k]]
    OBVIOUS
  <2> HIDE DEF g
  <2>4. \A k \in 0..(m + 1) : g[k] = After(f[k - 1], k)
    BY <2>1, <2>2, NumberEntry
  <2>5. \A k \in 0..(m + 1) : k = 0 \/ g[k - 1] = f[k - 1]
    BY <2>2
  <2>6. \A k \in 0..(m + 1) : After(f[k - 1], k) = After(g[k - 1], k)
    BY <2>5 DEF NumberAfter
  <2>7. g = [k \in 0..(m + 1) |-> After(g[k - 1], k)]
    <3>1. \A k \in 0..(m + 1) : g[k] = After(g[k - 1], k)
      BY <2>4, <2>6
    <3> HIDE DEF After
    <3> QED
      BY <2>3, <3>1
  <2>8. IsNumber(g, header, length, m + 1)
    BY <2>7 DEF IsNumber
  <2> QED
    BY <2>8
<1>3. \A k \in Nat : k \in S
  <2> HIDE DEF S
  <2> QED
    BY <1>1, <1>2, Induction
<1> QED
  BY <1>3

LEMMA NumberType ==
    ASSUME NEW n \in Nat, NEW header \in Seq(Bytes), Len(header) = n + 1,
           NEW f, IsNumber(f, header, n + 1, n)
    PROVE  \A k \in 0..n : f[k] \in Nat
<1> DEFINE S == {k \in Nat : k \in 0..n => f[k] \in Nat}
<1>1. 0 \in S
  <2>1. f[0] = NumberAfter(f[0 - 1], header, n + 1, 0)
    BY NumberEntry
  <2> QED
    BY <2>1 DEF NumberAfter
<1>2. ASSUME NEW k \in Nat, k \in S PROVE k + 1 \in S
  <2> SUFFICES ASSUME k + 1 \in 0..n PROVE f[k + 1] \in Nat
    OBVIOUS
  <2>1. f[k + 1] = NumberAfter(f[(k + 1) - 1], header, n + 1, k + 1)
    BY NumberEntry
  <2>2. (k + 1) - 1 = k /\ k + 1 # 0 /\ f[k] \in Nat /\ Radix \in Nat
    BY <1>2, VarintAssumption
  <2>3. PICK i : i = (n + 1) - (k + 1) + 1
    OBVIOUS
  <2>4. header[i] \in Bytes
    BY <2>3
  <2>5. header[i] % Radix \in Nat
    BY <2>4, DigitType DEF Digit
  <2>6. f[k + 1] = (header[i] % Radix) + Radix * f[k]
    BY <2>1, <2>2, <2>3 DEF NumberAfter
  <2> QED
    BY <2>2, <2>5, <2>6
<1>3. \A k \in Nat : k \in S
  <2> HIDE DEF S
  <2> QED
    BY <1>1, <1>2, Induction
<1> QED
  BY <1>3

\* One turn of the loop: what is summed and what is still written stay in balance.
LEMMA Balance ==
    ASSUME NEW a \in Nat, NEW d \in Nat, NEW m \in Nat, NEW b \in Nat
    PROVE  a + m * (d + Radix * b) = (a + d * m) + (m * Radix) * b
<1>1. Radix \in Nat
  BY VarintAssumption
<1> QED
  BY <1>1

\* The sum of digits times multipliers is the number that the digits write.
LEMMA SumIsNumber ==
    ASSUME NEW n \in Nat \ {0}, NEW bytes \in Seq(Bytes), NEW offset \in Nat,
           offset + n <= Len(bytes),
           NEW header \in Seq(Bytes), Len(header) = n + 1,
           \A m \in 1..n : header[m + 1] = bytes[offset + m]
    PROVE  Accumulated(bytes, offset, n) = Stream!RemainingLength(header)
<1>1. PICK multiplier : multiplier = TheMultiplier(n)
  OBVIOUS
<1>2. PICK sum : sum = TheSum(bytes, offset, n)
  OBVIOUS
<1>3. PICK number : number = TheNumber(header)
  OBVIOUS
<1>4. IsMultiplier(multiplier, n)
  BY <1>1, MultiplierExists DEF TheMultiplier
<1>5. IsSum(sum, multiplier, bytes, offset, n)
  BY <1>1, <1>2, SumExists DEF TheSum
<1>6. IsNumber(number, header, n + 1, n)
  <2>1. (n + 1) - 1 = n
    OBVIOUS
  <2>2. \E f : IsNumber(f, header, n + 1, n)
    BY NumberExists
  <2>3. number = CHOOSE f : IsNumber(f, header, n + 1, n)
    BY <1>3, <2>1 DEF TheNumber
  <2> QED
    BY <2>2, <2>3
<1>7. \A m \in 1..n : multiplier[m] \in Nat
  BY <1>4, MultiplierType
<1>8. \A k \in 0..n : number[k] \in Nat
  BY <1>6, NumberType
<1>9. \A m \in 1..n : Digit(bytes[offset + m]) \in Nat
  <2> TAKE m \in 1..n
  <2>1. bytes[offset + m] \in Bytes
    OBVIOUS
  <2> QED
    BY <2>1, DigitType
<1>10. \A m \in 0..(n - 1) :
         sum[m + 1] = sum[m] + Digit(bytes[offset + (m + 1)]) * multiplier[m + 1]
  <2> TAKE m \in 0..(n - 1)
  <2>1. m + 1 \in 0..n /\ (m + 1) - 1 = m /\ m + 1 # 0
    OBVIOUS
  <2>2. sum[m + 1] = SumAfter(sum[(m + 1) - 1], multiplier, bytes, offset, m + 1)
    BY <1>5, <2>1, SumEntry
  <2> QED
    BY <2>1, <2>2 DEF SumAfter
<1>11. \A m \in 0..(n - 1) :
         number[n - m] = Digit(bytes[offset + (m + 1)]) + Radix * number[n - (m + 1)]
  <2> TAKE m \in 0..(n - 1)
  <2>1. PICK k : k = n - m
    OBVIOUS
  <2>2. k \in 0..n /\ k - 1 = n - (m + 1) /\ k # 0 /\ (n + 1) - k + 1 = (m + 1) + 1
    BY <2>1, SMTT(30)
  <2>3. number[k] = NumberAfter(number[k - 1], header, n + 1, k)
    BY <1>6, <2>2, NumberEntry
  <2>4. number[k] = (header[(m + 1) + 1] % Radix) + Radix * number[n - (m + 1)]
    BY <2>2, <2>3 DEF NumberAfter
  <2>5. header[(m + 1) + 1] = bytes[offset + (m + 1)]
    BY SMTT(30)
  <2> QED
    BY <2>1, <2>4, <2>5 DEF Digit
<1>12. \A m \in 1..(n - 1) : multiplier[m + 1] = multiplier[m] * Radix
  <2> TAKE m \in 1..(n - 1)
  <2>1. m + 1 \in 1..n /\ (m + 1) - 1 = m /\ m + 1 # 1
    OBVIOUS
  <2>2. multiplier[m + 1] = IF m + 1 = 1 THEN 1 ELSE multiplier[(m + 1) - 1] * Radix
    BY <1>4, <2>1, MultiplierEntry
  <2> QED
    BY <2>1, <2>2
<1>13. multiplier[1] = 1 /\ sum[0] = 0 /\ number[0] = 0
  <2>1. 1 \in 1..n /\ 0 \in 0..n
    OBVIOUS
  <2>2. multiplier[1] = 1
    BY <1>4, <2>1, MultiplierEntry
  <2>3. sum[0] = SumAfter(sum[0 - 1], multiplier, bytes, offset, 0)
    BY <1>5, <2>1, SumEntry
  <2>4. number[0] = NumberAfter(number[0 - 1], header, n + 1, 0)
    BY <1>6, <2>1, NumberEntry
  <2> QED
    BY <2>2, <2>3, <2>4 DEF SumAfter, NumberAfter
<1> DEFINE S == {m \in Nat : m \in 0..(n - 1) =>
                   /\ sum[m] \in Nat
                   /\ sum[m] + multiplier[m + 1] * number[n - m] = number[n]}
<1>14. 0 \in S
  <2>1. 0 + 1 * number[n - 0] = number[n]
    BY <1>8
  <2> QED
    BY <1>13, <2>1
<1>15. ASSUME NEW m \in Nat, m \in S PROVE m + 1 \in S
  <2> SUFFICES ASSUME m + 1 \in 0..(n - 1)
               PROVE  /\ sum[m + 1] \in Nat
                      /\ sum[m + 1] + multiplier[(m + 1) + 1] * number[n - (m + 1)]
                           = number[n]
    OBVIOUS
  <2>1. m \in 0..(n - 1) /\ m + 1 \in 1..(n - 1) /\ m + 1 \in 1..n /\ n - (m + 1) \in 0..n
    OBVIOUS
  <2>2. PICK a : a = sum[m]
    OBVIOUS
  <2>3. PICK d : d = Digit(bytes[offset + (m + 1)])
    OBVIOUS
  <2>4. PICK mult : mult = multiplier[m + 1]
    OBVIOUS
  <2>5. PICK b : b = number[n - (m + 1)]
    OBVIOUS
  <2>6. a \in Nat /\ a + mult * number[n - m] = number[n]
    BY <1>15, <2>1, <2>2, <2>4
  <2>7. d \in Nat /\ mult \in Nat /\ b \in Nat
    BY <1>7, <1>8, <1>9, <2>1, <2>3, <2>4, <2>5
  <2>8. sum[m + 1] = a + d * mult
    BY <1>10, <2>1, <2>2, <2>3, <2>4
  <2>9. number[n - m] = d + Radix * b
    BY <1>11, <2>1, <2>3, <2>5
  <2>10. multiplier[(m + 1) + 1] = mult * Radix
    BY <1>12, <2>1, <2>4
  <2>11. a + mult * (d + Radix * b) = (a + d * mult) + (mult * Radix) * b
    BY <2>6, <2>7, Balance
  <2>12. a + d * mult \in Nat
    BY <2>6, <2>7
  <2>13. (a + d * mult) + (mult * Radix) * b = number[n]
    BY <2>6, <2>9, <2>11
  <2> QED
    BY <2>5, <2>8, <2>10, <2>12, <2>13
<1>16. \A m \in Nat : m \in S
  <2> HIDE DEF S
  <2> QED
    BY <1>14, <1>15, Induction
<1>17. sum[n] = number[n]
  <2>1. PICK m : m = n - 1
    OBVIOUS
  <2>2. m \in Nat /\ m \in 0..(n - 1) /\ m + 1 = n /\ n - m = 1 /\ n - (m + 1) = 0
    BY <2>1
  <2>3. sum[m] \in Nat /\ sum[m] + multiplier[n] * number[1] = number[n]
    BY <1>16, <2>2
  <2>4. PICK d : d = Digit(bytes[offset + n])
    OBVIOUS
  <2>5. d \in Nat /\ Radix \in Nat /\ multiplier[n] \in Nat
    <3>1. n \in 1..n
      OBVIOUS
    <3>2. d \in Nat
      BY <1>9, <2>4, <3>1
    <3>3. multiplier[n] \in Nat
      BY <1>7, <3>1
    <3> QED
      BY <3>2, <3>3, VarintAssumption
  <2>6. number[1] = d + Radix * 0
    BY <1>11, <1>13, <2>2, <2>4, SMTT(30)
  <2>7. number[1] = d
    BY <2>5, <2>6
  <2>8. sum[n] = sum[m] + d * multiplier[n]
    BY <1>10, <2>2, <2>4
  <2>9. d * multiplier[n] = multiplier[n] * d
    BY <2>5
  <2> QED
    BY <2>3, <2>7, <2>8, <2>9
<1>18. Accumulated(bytes, offset, n) = sum[n]
  BY <1>2, AccumulatedIsSum
<1>19. Stream!RemainingLength(header) = number[n]
  <2>1. Stream!RemainingLength(header) = TheNumber(header)[Len(header) - 1]
    BY RemainingIsNumber
  <2>2. Len(header) - 1 = n
    OBVIOUS
  <2> QED
    BY <1>3, <2>1, <2>2
<1> QED
  BY <1>17, <1>18, <1>19

-----------------------------------------------------------------------------
(* Fixed headers, as a set of sequences and as what a parser meets. *)

LEMMA PrefixEntries ==
    ASSUME NEW E, NEW s \in Seq(E), NEW t \in Seq(E)
    PROVE  Stream!IsPrefix(s, t) <=> /\ Len(s) <= Len(t)
                                     /\ \A i \in 1..Len(s) : s[i] = t[i]
<1>1. ASSUME Len(s) <= Len(t), \A i \in 1..Len(s) : s[i] = t[i]
      PROVE  SubSeq(s, 1, Len(s)) = SubSeq(t, 1, Len(s))
  BY <1>1
<1>2. ASSUME Len(s) <= Len(t), SubSeq(s, 1, Len(s)) = SubSeq(t, 1, Len(s))
      PROVE  \A i \in 1..Len(s) : s[i] = t[i]
  <2> TAKE i \in 1..Len(s)
  <2>1. SubSeq(s, 1, Len(s))[i] = s[i] /\ SubSeq(t, 1, Len(s))[i] = t[i]
    BY <1>2
  <2> QED
    BY <1>2, <2>1
<1> QED
  BY <1>1, <1>2 DEF Stream!IsPrefix

\* A packet type, a length of bytes that continue up to its last.
IsHeader(header) ==
    /\ header \in Seq(Bytes) /\ Len(header) - 1 \in 1..MaxVarintLength
    /\ header[1] \div TypeUnit > 0
    /\ \A i \in 2..Len(header) : header[i] >= Radix <=> i < Len(header)

LEMMA HeadersAreHeaders ==
    ASSUME NEW header
    PROVE  header \in Stream!Headers <=> IsHeader(header)
<1>1. Stream!Bytes = Bytes
  BY DEF Stream!Bytes, Bytes
<1>2. ASSUME header \in Stream!Headers PROVE IsHeader(header)
  <2>1. PICK n \in 2..(MaxVarintLength + 1) : header \in [1..n -> Bytes]
    BY <1>1, <1>2 DEF Stream!Headers
  <2>2. n \in Nat /\ n - 1 \in 1..MaxVarintLength
    BY VarintAssumption
  <2>3. header \in Seq(Bytes) /\ Len(header) = n
    BY <2>1, <2>2
  <2> QED
    BY <1>2, <2>2, <2>3 DEF IsHeader, Stream!Headers
<1>3. ASSUME IsHeader(header) PROVE header \in Stream!Headers
  <2>1. PICK n : n = Len(header)
    OBVIOUS
  <2>2. header \in Seq(Bytes) /\ n \in Nat /\ n - 1 \in 1..MaxVarintLength
    BY <1>3, <2>1 DEF IsHeader
  <2>3. n \in 2..(MaxVarintLength + 1) /\ header \in [1..n -> Bytes]
    BY <2>1, <2>2, VarintAssumption
  <2>4. header \in UNION {[1..m -> Stream!Bytes] : m \in 2..(MaxVarintLength + 1)}
    BY <1>1, <2>3
  <2> QED
    BY <1>3, <2>4 DEF IsHeader, Stream!Headers
<1> QED
  BY <1>2, <1>3

Related(header, bytes) == Stream!IsPrefix(header, bytes) \/ Stream!IsPrefix(bytes, header)

LEMMA RelatedEntries ==
    ASSUME NEW header \in Seq(Bytes), NEW bytes \in Seq(Bytes), Related(header, bytes)
    PROVE  \A i \in Nat \ {0} : i <= Len(header) /\ i <= Len(bytes) => header[i] = bytes[i]
<1>1. Stream!IsPrefix(header, bytes) <=> /\ Len(header) <= Len(bytes)
                                         /\ \A i \in 1..Len(header) : header[i] = bytes[i]
  BY PrefixEntries
<1>2. Stream!IsPrefix(bytes, header) <=> /\ Len(bytes) <= Len(header)
                                         /\ \A i \in 1..Len(bytes) : bytes[i] = header[i]
  BY PrefixEntries
<1> QED
  BY <1>1, <1>2 DEF Related

LEMMA RelatedLengths ==
    ASSUME NEW header \in Seq(Bytes), NEW bytes \in Seq(Bytes)
    PROVE  /\ Stream!IsPrefix(header, bytes) => Related(header, bytes) /\ Len(header) <= Len(bytes)
           /\ Stream!IsPrefix(bytes, header) => Related(header, bytes) /\ Len(bytes) <= Len(header)
           /\ Related(header, bytes) /\ Len(header) <= Len(bytes) => Stream!IsPrefix(header, bytes)
<1>1. Stream!IsPrefix(header, bytes) => Len(header) <= Len(bytes)
  BY PrefixEntries
<1>2. Stream!IsPrefix(bytes, header) => Len(bytes) <= Len(header)
  BY PrefixEntries
<1>3. ASSUME Related(header, bytes), Len(header) <= Len(bytes)
      PROVE  Stream!IsPrefix(header, bytes)
  <2>1. \A i \in 1..Len(header) : header[i] = bytes[i]
    BY <1>3, RelatedEntries
  <2> QED
    BY <1>3, <2>1, PrefixEntries
<1> QED
  BY <1>1, <1>2, <1>3 DEF Related

\* Where a length ends, one header begins the bytes.
LEMMA HeaderThere ==
    ASSUME NEW bytes \in Seq(Bytes), NEW n, EndsAt(bytes, 1, n), bytes[1] \div TypeUnit > 0
    PROVE  LET header == SubSeq(bytes, 1, n + 1)
           IN /\ IsHeader(header) /\ Len(header) = n + 1
              /\ Stream!IsPrefix(header, bytes)
<1>1. PICK header : header = SubSeq(bytes, 1, n + 1)
  OBVIOUS
<1>2. n \in 1..MaxVarintLength /\ n \in Nat /\ n + 1 <= Len(bytes)
  BY VarintAssumption DEF EndsAt
<1>3. /\ header \in Seq(Bytes) /\ Len(header) = n + 1
      /\ \A i \in 1..(n + 1) : header[i] = bytes[i]
  BY <1>1, <1>2
<1>4. \A i \in 2..(n + 1) : header[i] >= Radix <=> i < n + 1
  <2> TAKE i \in 2..(n + 1)
  <2>1. PICK m : m = i - 1
    OBVIOUS
  <2>2. m \in 1..n /\ 1 + m = i /\ header[i] = bytes[i]
    BY <1>2, <1>3, <2>1
  <2>3. CASE m = n
    <3>1. ~Continues(bytes[i]) /\ ~(i < n + 1)
      BY <1>2, <2>2, <2>3 DEF EndsAt
    <3> QED
      BY <2>2, <3>1 DEF Continues
  <2>4. CASE m # n
    <3>1. m \in 1..(n - 1) /\ i < n + 1
      BY <1>2, <2>2, <2>4
    <3>2. Continues(bytes[i])
      BY <2>2, <3>1 DEF EndsAt
    <3> QED
      BY <2>2, <3>1, <3>2 DEF Continues
  <2> QED
    BY <2>3, <2>4
<1>5. header[1] \div TypeUnit > 0
  BY <1>2, <1>3
<1>6. IsHeader(header)
  <2>1. Len(header) - 1 = n
    BY <1>2, <1>3
  <2> QED
    BY <1>2, <1>3, <1>4, <1>5, <2>1 DEF IsHeader
<1>7. Stream!IsPrefix(header, bytes)
  BY <1>2, <1>3, PrefixEntries
<1> QED
  BY <1>1, <1>3, <1>6, <1>7

LEMMA HeaderUnique ==
    ASSUME NEW bytes \in Seq(Bytes), NEW n, EndsAt(bytes, 1, n),
           NEW header, IsHeader(header), Related(header, bytes)
    PROVE  header = SubSeq(bytes, 1, n + 1)
<1>1. n \in 1..MaxVarintLength /\ n \in Nat /\ n + 1 <= Len(bytes) /\ ~Continues(bytes[n + 1])
  BY VarintAssumption DEF EndsAt
<1>2. PICK length : length = Len(header)
  OBVIOUS
<1>3. header \in Seq(Bytes) /\ length \in Nat /\ length - 1 \in 1..MaxVarintLength
  BY <1>2 DEF IsHeader
<1>4. length >= 2
  BY <1>3
<1>5. \A i \in Nat \ {0} : i <= length /\ i <= Len(bytes) => header[i] = bytes[i]
  BY <1>2, <1>3, RelatedEntries
<1>6. \A i \in 2..length : header[i] >= Radix <=> i < length
  BY <1>2 DEF IsHeader
<1>7. ~(length < n + 1)
  <2> SUFFICES ASSUME length < n + 1 PROVE FALSE
    OBVIOUS
  <2>1. PICK m : m = length - 1
    OBVIOUS
  <2>2. m \in 1..(n - 1) /\ 1 + m = length
    BY <1>1, <1>3, <1>4, <2>1
  <2>3. Continues(bytes[length])
    BY <2>2 DEF EndsAt
  <2>4. header[length] = bytes[length]
    BY <1>1, <1>3, <1>4, <1>5
  <2>5. ~(header[length] >= Radix)
    BY <1>3, <1>4, <1>6
  <2> QED
    BY <2>3, <2>4, <2>5 DEF Continues
<1>8. ~(length > n + 1)
  <2> SUFFICES ASSUME length > n + 1 PROVE FALSE
    OBVIOUS
  <2>1. n + 1 \in 2..length /\ n + 1 < length
    BY <1>1, <1>3
  <2>2. header[n + 1] >= Radix
    BY <1>6, <2>1
  <2>3. header[n + 1] = bytes[n + 1]
    BY <1>1, <1>5, <2>1
  <2> QED
    BY <1>1, <2>2, <2>3 DEF Continues
<1>9. length = n + 1
  BY <1>1, <1>3, <1>7, <1>8
<1>10. \A i \in 1..(n + 1) : header[i] = bytes[i]
  BY <1>1, <1>5, <1>9
<1>11. PICK front : front = SubSeq(bytes, 1, n + 1)
  OBVIOUS
<1>12. front \in Seq(Bytes) /\ Len(front) = n + 1 /\ \A i \in 1..(n + 1) : front[i] = bytes[i]
  BY <1>1, <1>11
<1>13. header = front
  <2>1. Len(header) = n + 1 /\ n + 1 \in Nat
    BY <1>1, <1>2, <1>9
  <2>2. \A i \in 1..(n + 1) : header[i] = front[i]
    BY <1>10, <1>12
  <2> QED
    BY <1>3, <1>12, <2>1, <2>2
<1> QED
  BY <1>11, <1>13

\* No header is there while the length may go on, and no more than a length is there.
LEMMA HeaderNotThere ==
    ASSUME NEW bytes \in Seq(Bytes), ~HasCompleteVariableByteInteger(bytes, 1)
    PROVE  /\ Len(bytes) <= MaxVarintLength
           /\ \A header : IsHeader(header) => ~Stream!IsPrefix(header, bytes)
<1>1. \A n \in 1..MaxVarintLength :
        ~(1 + n <= Len(bytes) /\ (n = MaxVarintLength \/ ~Continues(bytes[1 + n])))
  BY DEF HasCompleteVariableByteInteger
<1>2. Len(bytes) <= MaxVarintLength
  <2>1. MaxVarintLength \in 1..MaxVarintLength /\ MaxVarintLength \in Nat
    BY VarintAssumption
  <2>2. ~(1 + MaxVarintLength <= Len(bytes))
    BY <1>1, <2>1
  <2> QED
    BY <2>1, <2>2
<1>3. ASSUME NEW header, IsHeader(header), Stream!IsPrefix(header, bytes) PROVE FALSE
  <2>1. PICK n : n = Len(header) - 1
    OBVIOUS
  <2>2. header \in Seq(Bytes) /\ n \in 1..MaxVarintLength /\ Len(header) = 1 + n /\ n \in Nat
    BY <1>3, <2>1, VarintAssumption DEF IsHeader
  <2>3. 1 + n <= Len(bytes) /\ header[1 + n] = bytes[1 + n]
    BY <1>3, <2>2, PrefixEntries
  <2>4. ~(header[1 + n] >= Radix)
    BY <1>3, <2>2 DEF IsHeader
  <2>5. ~Continues(bytes[1 + n])
    BY <2>3, <2>4 DEF Continues
  <2> QED
    BY <1>1, <2>2, <2>3, <2>5
<1> QED
  BY <1>2, <1>3

\* A length that never ends begins no header.
LEMMA HeaderMalformed ==
    ASSUME NEW bytes \in Seq(Bytes), HasCompleteVariableByteInteger(bytes, 1),
           \A n \in 1..MaxVarintLength : ~EndsAt(bytes, 1, n),
           NEW header, IsHeader(header), Related(header, bytes)
    PROVE  FALSE
<1> DEFINE T == {n \in 1..MaxVarintLength : 1 + n <= Len(bytes) /\ ~Continues(bytes[1 + n])}
<1>1. MaxVarintLength \in Nat
  BY VarintAssumption
<1>2. T = {}
  <2> SUFFICES ASSUME T # {} PROVE FALSE
    OBVIOUS
  <2>1. T \in SUBSET Nat
    BY <1>1
  <2>2. PICK n \in T : \A m \in T : n <= m
    <3> HIDE DEF T
    <3> QED
      BY <2>1, LeastMember
  <2>3. n \in 1..MaxVarintLength /\ n \in Nat /\ 1 + n <= Len(bytes) /\ ~Continues(bytes[1 + n])
    BY <1>1
  <2>4. \A m \in 1..(n - 1) : Continues(bytes[1 + m])
    <3> TAKE m \in 1..(n - 1)
    <3>1. m \in 1..MaxVarintLength /\ 1 + m <= Len(bytes) /\ ~(n <= m)
      BY <1>1, <2>3
    <3> QED
      BY <2>2, <3>1
  <2>5. EndsAt(bytes, 1, n)
    BY <2>3, <2>4 DEF EndsAt
  <2> QED
    BY <2>3, <2>5
<1>3. \A n \in 1..MaxVarintLength : 1 + n <= Len(bytes) => Continues(bytes[1 + n])
  BY <1>2
<1>4. 1 + MaxVarintLength <= Len(bytes)
  BY <1>3 DEF HasCompleteVariableByteInteger
<1>5. PICK n : n = Len(header) - 1
  OBVIOUS
<1>6. header \in Seq(Bytes) /\ n \in 1..MaxVarintLength /\ Len(header) = 1 + n /\ n \in Nat
  BY <1>1, <1>5 DEF IsHeader
<1>7. 1 + n <= Len(bytes)
  BY <1>1, <1>4, <1>6
<1>8. header[1 + n] = bytes[1 + n]
  BY <1>6, <1>7, RelatedEntries
<1>9. ~(header[1 + n] >= Radix)
  BY <1>6 DEF IsHeader
<1> QED
  BY <1>3, <1>6, <1>7, <1>8, <1>9 DEF Continues

\* Bytes whose first is of no packet type begin no header.
LEMMA HeaderOfNoType ==
    ASSUME NEW bytes \in Seq(Bytes), bytes # <<>>, ~(bytes[1] \div TypeUnit > 0),
           NEW header, IsHeader(header), Related(header, bytes)
    PROVE  FALSE
<1>1. header \in Seq(Bytes) /\ 1 <= Len(header) /\ header[1] \div TypeUnit > 0
  BY DEF IsHeader
<1>2. 1 <= Len(bytes)
  OBVIOUS
<1>3. header[1] = bytes[1]
  BY <1>1, <1>2, RelatedEntries
<1> QED
  BY <1>1, <1>3

-----------------------------------------------------------------------------
(* What a frame reader finds, in terms of the headers there are. *)

\* These bytes are those behind the offset of the buffer.
Behind(rest, bytes, offset) ==
    /\ rest \in Seq(Bytes) /\ bytes \in Seq(Bytes) /\ offset \in Nat
    /\ offset < Len(bytes) /\ Len(rest) = Len(bytes) - offset
    /\ \A i \in 1..Len(rest) : rest[i] = bytes[offset + i]

LEMMA SameLength ==
    ASSUME NEW rest, NEW bytes, NEW offset, Behind(rest, bytes, offset)
    PROVE  /\ HasCompleteVariableByteInteger(bytes, offset + 1)
                <=> HasCompleteVariableByteInteger(rest, 1)
           /\ \A n : EndsAt(bytes, offset + 1, n) <=> EndsAt(rest, 1, n)
<1>1. \A m \in 1..MaxVarintLength : 1 + m <= Len(rest) <=> (offset + 1) + m <= Len(bytes)
  BY VarintAssumption DEF Behind
<1>2. \A m \in 1..MaxVarintLength : 1 + m <= Len(rest) => rest[1 + m] = bytes[(offset + 1) + m]
  <2> TAKE m \in 1..MaxVarintLength
  <2> HAVE 1 + m <= Len(rest)
  <2>1. 1 + m \in 1..Len(rest) /\ offset + (1 + m) = (offset + 1) + m
    BY VarintAssumption DEF Behind
  <2> QED
    BY <2>1 DEF Behind
<1>3. HasCompleteVariableByteInteger(bytes, offset + 1)
        <=> HasCompleteVariableByteInteger(rest, 1)
  BY <1>1, <1>2 DEF HasCompleteVariableByteInteger
<1>4. ASSUME NEW n PROVE EndsAt(bytes, offset + 1, n) <=> EndsAt(rest, 1, n)
  <2>1. CASE n \in 1..MaxVarintLength /\ 1 + n <= Len(rest)
    <3>1. \A m \in 1..n : m \in 1..MaxVarintLength /\ 1 + m <= Len(rest)
      BY <2>1, VarintAssumption DEF Behind
    <3>2. \A m \in 1..n : rest[1 + m] = bytes[(offset + 1) + m]
      BY <1>2, <3>1
    <3>3. n \in 1..n /\ \A m \in 1..(n - 1) : m \in 1..n
      BY <2>1, VarintAssumption
    <3> QED
      BY <1>1, <2>1, <3>2, <3>3 DEF EndsAt
  <2>2. CASE ~(n \in 1..MaxVarintLength /\ 1 + n <= Len(rest))
    BY <1>1, <2>2 DEF EndsAt
  <2> QED
    BY <2>1, <2>2
<1> QED
  BY <1>3, <1>4

\* A decoded length ends where the header does, and its number is the one written there.
LEMMA DecodedHeader ==
    ASSUME NEW rest, NEW bytes, NEW offset, Behind(rest, bytes, offset),
           rest[1] \div TypeUnit > 0,
           DecodeVariableByteInteger(bytes, offset + 1).status = "ok"
    PROVE  LET length == DecodeVariableByteInteger(bytes, offset + 1)
               header == SubSeq(rest, 1, length.bytesRead + 1)
           IN /\ EndsAt(rest, 1, length.bytesRead)
              /\ IsHeader(header) /\ Stream!IsPrefix(header, rest)
              /\ Stream!Size(header) = 1 + length.bytesRead + length.value
<1> DEFINE Ends(n) == EndsAt(bytes, offset + 1, n)
<1>1. \E n \in 1..MaxVarintLength : Ends(n)
  BY DEF DecodeVariableByteInteger
<1>2. PICK n : n = CHOOSE k \in 1..MaxVarintLength : Ends(k)
  OBVIOUS
<1>3. n \in 1..MaxVarintLength /\ Ends(n)
  BY <1>1, <1>2
<1>4. DecodeVariableByteInteger(bytes, offset + 1)
        = [status |-> "ok", value |-> Accumulated(bytes, offset + 1, n), bytesRead |-> n]
  BY <1>1, <1>2 DEF DecodeVariableByteInteger
<1>5. PICK from : from = offset + 1
  OBVIOUS
<1>6. n \in Nat \ {0} /\ from \in Nat /\ from + n <= Len(bytes)
  BY <1>3, <1>5, VarintAssumption DEF EndsAt, Behind
<1>7. PICK header : header = SubSeq(rest, 1, n + 1)
  OBVIOUS
<1>8. EndsAt(rest, 1, n)
  BY <1>3, SameLength
<1>9. IsHeader(header) /\ Len(header) = n + 1 /\ Stream!IsPrefix(header, rest)
  <2>1. rest \in Seq(Bytes)
    BY DEF Behind
  <2> QED
    BY <1>7, <1>8, <2>1, HeaderThere
<1>10. header \in Seq(Bytes) /\ bytes \in Seq(Bytes)
  BY <1>9 DEF IsHeader, Behind
<1>11. \A m \in 1..n : header[m + 1] = bytes[from + m]
  <2> TAKE m \in 1..n
  <2>1. m + 1 \in 1..(n + 1) /\ m + 1 \in 1..Len(rest) /\ offset + (m + 1) = from + m
    BY <1>5, <1>6 DEF Behind
  <2>2. header[m + 1] = rest[m + 1]
    BY <1>6, <1>7, <2>1 DEF Behind
  <2>3. rest[m + 1] = bytes[offset + (m + 1)]
    BY <2>1 DEF Behind
  <2> QED
    BY <2>1, <2>2, <2>3
<1>12. Accumulated(bytes, from, n) = Stream!RemainingLength(header)
  BY <1>6, <1>9, <1>10, <1>11, SumIsNumber
<1>13. Accumulated(bytes, from, n) \in Nat
  BY <1>6, <1>10, AccumulatedType
<1>14. Stream!Size(header) = 1 + n + Accumulated(bytes, from, n)
  BY <1>6, <1>9, <1>12, <1>13 DEF Stream!Size
<1> QED
  BY <1>4, <1>5, <1>7, <1>8, <1>9, <1>14

MustWait(rest) ==
    \/ /\ Len(rest) <= MaxVarintLength
       /\ \A header \in Stream!Headers : ~Stream!IsPrefix(header, rest)
    \/ \E header \in Stream!Acceptable :
          Stream!IsPrefix(header, rest) /\ Len(rest) < Stream!Size(header)

MustRefuse(rest) == \A header \in Stream!Acceptable : ~Related(header, rest)

MayTake(rest, size) ==
    \E header \in Stream!Acceptable :
        Stream!IsPrefix(header, rest) /\ Stream!Size(header) = size /\ size <= Len(rest)

\* What readPacketFrame() answers is what the headers there are allow.
LEMMA FrameIsRight ==
    ASSUME NEW rest, NEW bytes, NEW offset, Behind(rest, bytes, offset)
    PROVE  LET frame == ReadPacketFrame(bytes, offset)
           IN \/ frame = Incomplete /\ MustWait(rest)
              \/ frame = Invalid /\ MustRefuse(rest)
              \/ frame.status = "complete" /\ MayTake(rest, frame.bytesConsumed)
<1>1. PICK frame : frame = ReadPacketFrame(bytes, offset)
  OBVIOUS
<1>2. PICK length : length = DecodeVariableByteInteger(bytes, offset + 1)
  OBVIOUS
<1>3. PICK total : total = 1 + length.bytesRead + length.value
  OBVIOUS
<1>4. rest \in Seq(Bytes) /\ rest # <<>> /\ rest[1] = bytes[offset + 1]
  BY DEF Behind
<1>5. rest[1] \in Nat /\ TypeUnit \in Nat \ {0}
  BY <1>4, VarintAssumption, FrameAssumption DEF Bytes
<1>6. rest[1] \div TypeUnit < 1 <=> ~(rest[1] \div TypeUnit > 0)
  BY <1>5
<1>7. CASE ~HasCompleteVariableByteInteger(bytes, offset + 1)
  <2>1. frame = Incomplete
    BY <1>1, <1>7 DEF ReadPacketFrame
  <2>2. ~HasCompleteVariableByteInteger(rest, 1)
    BY <1>7, SameLength
  <2>3. MustWait(rest)
    BY <1>4, <2>2, HeaderNotThere, HeadersAreHeaders DEF MustWait
  <2> QED
    BY <1>1, <2>1, <2>3
<1>8. CASE /\ HasCompleteVariableByteInteger(bytes, offset + 1)
           /\ rest[1] \div TypeUnit < 1 \/ length.status # "ok"
  <2>1. frame = Invalid
    BY <1>1, <1>2, <1>4, <1>8 DEF ReadPacketFrame
  <2>2. ASSUME NEW header \in Stream!Acceptable, Related(header, rest) PROVE FALSE
    <3>1. IsHeader(header)
      BY HeadersAreHeaders DEF Stream!Acceptable
    <3>2. CASE rest[1] \div TypeUnit < 1
      BY <1>4, <1>6, <2>2, <3>1, <3>2, HeaderOfNoType
    <3>3. CASE length.status # "ok"
      <4>1. \A n \in 1..MaxVarintLength : ~EndsAt(bytes, offset + 1, n)
        BY <1>2, <3>3 DEF DecodeVariableByteInteger
      <4>2. \A n \in 1..MaxVarintLength : ~EndsAt(rest, 1, n)
        BY <4>1, SameLength
      <4>3. HasCompleteVariableByteInteger(rest, 1)
        BY <1>8, SameLength
      <4> QED
        BY <1>4, <2>2, <3>1, <4>2, <4>3, HeaderMalformed
    <3> QED
      BY <1>8, <3>2, <3>3
  <2> QED
    BY <1>1, <2>1, <2>2 DEF MustRefuse
<1>9. CASE /\ HasCompleteVariableByteInteger(bytes, offset + 1)
           /\ ~(rest[1] \div TypeUnit < 1) /\ length.status = "ok"
  <2>1. frame = IF total > MaxPacketSize THEN Invalid
                ELSE IF offset + total > Len(bytes) THEN Incomplete
                ELSE [status |-> "complete", bytesConsumed |-> total]
    BY <1>1, <1>2, <1>3, <1>4, <1>9 DEF ReadPacketFrame
  <2>2. PICK n : n = length.bytesRead
    OBVIOUS
  <2>3. PICK header : header = SubSeq(rest, 1, n + 1)
    OBVIOUS
  <2>4. /\ EndsAt(rest, 1, n) /\ IsHeader(header) /\ Stream!IsPrefix(header, rest)
        /\ Stream!Size(header) = total
    BY <1>2, <1>3, <1>6, <1>9, <2>2, <2>3, DecodedHeader
  <2>5. header \in Stream!Headers
    BY <2>4, HeadersAreHeaders
  <2>6. total \in Nat /\ MaxPacketSize \in Nat
    <3>1. offset + 1 \in Nat /\ bytes \in Seq(Bytes)
      BY DEF Behind
    <3>2. length.value \in Nat /\ length.bytesRead \in 1..MaxVarintLength
      BY <1>2, <1>9, <3>1, DecodeType
    <3> QED
      BY <1>3, <3>2, VarintAssumption, FrameAssumption
  <2>7. CASE total > MaxPacketSize
    <3>1. ASSUME NEW other \in Stream!Acceptable, Related(other, rest) PROVE FALSE
      <4>1. IsHeader(other) /\ Stream!Size(other) <= MaxPacketSize
        BY HeadersAreHeaders DEF Stream!Acceptable
      <4>2. other = header
        BY <1>4, <2>3, <2>4, <3>1, <4>1, HeaderUnique
      <4> QED
        BY <2>4, <2>6, <2>7, <4>1, <4>2
    <3> QED
      BY <1>1, <2>1, <2>7, <3>1 DEF MustRefuse
  <2>8. CASE ~(total > MaxPacketSize)
    <3>1. header \in Stream!Acceptable
      BY <2>4, <2>5, <2>6, <2>8 DEF Stream!Acceptable
    <3>2. CASE offset + total > Len(bytes)
      <4>1. frame = Incomplete
        BY <2>1, <2>8, <3>2
      <4>2. Len(rest) < total
        BY <2>6, <3>2 DEF Behind
      <4>3. MustWait(rest)
        BY <2>4, <3>1, <4>2 DEF MustWait
      <4> QED
        BY <1>1, <4>1, <4>3
    <3>3. CASE ~(offset + total > Len(bytes))
      <4>1. frame = [status |-> "complete", bytesConsumed |-> total]
        BY <2>1, <2>8, <3>3
      <4>2. total <= Len(rest)
        BY <2>6, <3>3 DEF Behind
      <4>3. MayTake(rest, total)
        BY <2>4, <3>1, <4>2 DEF MayTake
      <4> QED
        BY <1>1, <4>1, <4>3
    <3> QED
      BY <3>2, <3>3
  <2> QED
    BY <2>7, <2>8
<1> QED
  BY <1>7, <1>8, <1>9

-----------------------------------------------------------------------------
(* The framer implements the stream. *)

LEMMA SameAnswers ==
    /\ Stream!Nothing = Nothing /\ Stream!Incomplete = Incomplete /\ Stream!Invalid = Invalid
    /\ \A packet : Stream!Complete(packet) = Complete(packet)
    /\ Stream!Bytes = Bytes
  BY DEF Stream!Nothing, Nothing, Stream!Incomplete, Incomplete, Stream!Invalid, Invalid,
         Stream!Complete, Complete, Stream!Bytes, Bytes

\* The bytes a read works on begin behind the offset.
LEMMA UnreadIsBehind ==
    ASSUME FramerInv, Unread # <<>>
    PROVE  Behind(Unread, Consolidated, ConsolidatedOffset)
<1>1. PICK bytes : bytes = Consolidated
  OBVIOUS
<1>2. PICK offset : offset = ConsolidatedOffset
  OBVIOUS
<1>3. PICK rest : rest = Unread
  OBVIOUS
<1>4. bytes \in Seq(Bytes) /\ offset \in 0..Len(bytes)
  BY <1>1, <1>2, ConsolidatedType
<1>5. rest = SubSeq(bytes, offset + 1, Len(bytes)) /\ rest # <<>>
  BY <1>1, <1>2, <1>3, UnreadIsRest
<1>6. rest \in Seq(Bytes) /\ Len(rest) = Len(bytes) - offset
  BY <1>4, <1>5
<1>7. offset < Len(bytes) /\ offset \in Nat
  BY <1>4, <1>5, <1>6
<1>8. \A i \in 1..Len(rest) : rest[i] = bytes[offset + i]
  BY <1>4, <1>5, <1>6
<1>9. Behind(rest, bytes, offset)
  BY <1>4, <1>6, <1>7, <1>8 DEF Behind
<1> QED
  BY <1>1, <1>2, <1>3, <1>9

LEMMA PushIsPush ==
    ASSUME NEW before \in Seq(Bytes), NEW chunk \in Seq(Bytes), before = Unread,
           Unread' = before \o chunk, result' = Nothing
    PROVE  Stream!Push
<1>1. PICK after : after = before \o chunk
  OBVIOUS
<1>2. after \in Seq(Bytes) /\ Len(before) <= Len(after)
      /\ \A i \in 1..Len(before) : before[i] = after[i]
  BY <1>1
<1>3. Stream!IsPrefix(before, after)
  BY <1>2, PrefixEntries
<1> QED
  BY <1>1, <1>2, <1>3, SameAnswers DEF Stream!Push

LEMMA ReadIsStream ==
    ASSUME FramerInv, Read
    PROVE  Stream!Wait \/ Stream!Refuse \/ Stream!Take
<1>1. PICK unread : unread = Unread
  OBVIOUS
<1>2. PICK frame : frame = Found
  OBVIOUS
<1>3. unread \in Seq(Bytes)
  BY <1>1, UnreadType
<1>4. Finds(unread, Unread', frame, result')
  BY <1>1, <1>2, ReadTakes
<1>5. CASE unread = <<>>
  <2>1. Unread' = Unread /\ result' = Incomplete
    BY <1>1, <1>4, <1>5 DEF Finds
  <2>2. \A header \in Stream!Headers : ~Stream!IsPrefix(header, unread)
    <3> TAKE header \in Stream!Headers
    <3>1. header \in Seq(Bytes) /\ ~(Len(header) <= 0)
      BY HeadersAreHeaders DEF IsHeader
    <3>2. Len(unread) = 0
      BY <1>5
    <3>3. Stream!IsPrefix(header, unread) => Len(header) <= Len(unread)
      BY <1>3, <3>1, PrefixEntries
    <3> QED
      BY <3>1, <3>2, <3>3
  <2>3. Len(unread) <= MaxVarintLength
    BY <1>5, VarintAssumption
  <2> QED
    BY <1>1, <2>1, <2>2, <2>3, SameAnswers DEF Stream!Wait
<1>6. CASE unread # <<>>
  <2>1. Behind(unread, Consolidated, ConsolidatedOffset)
    BY <1>1, <1>6, UnreadIsBehind
  <2>2. \/ frame = Incomplete /\ MustWait(unread)
        \/ frame = Invalid /\ MustRefuse(unread)
        \/ frame.status = "complete" /\ MayTake(unread, frame.bytesConsumed)
    BY <1>2, <2>1, FrameIsRight DEF Found
  <2>3. CASE frame = Incomplete /\ MustWait(unread)
    <3>1. Unread' = Unread /\ result' = Incomplete
      BY <1>1, <1>4, <1>6, <2>3 DEF Finds, Incomplete
    <3>2. Stream!Wait
      BY <1>1, <2>3, <3>1, SameAnswers DEF Stream!Wait, MustWait
    <3> QED
      BY <3>2
  <2>4. CASE frame = Invalid /\ MustRefuse(unread)
    <3>1. Unread' = Unread /\ result' = Invalid
      BY <1>1, <1>4, <1>6, <2>4 DEF Finds, Invalid
    <3>2. Stream!Refuse
      BY <1>1, <2>4, <3>1, SameAnswers DEF Stream!Refuse, MustRefuse, Related
    <3> QED
      BY <3>2
  <2>5. CASE frame.status = "complete" /\ MayTake(unread, frame.bytesConsumed)
    <3>1. PICK size : size = frame.bytesConsumed
      OBVIOUS
    <3>2. /\ result' = Complete(SubSeq(unread, 1, size))
          /\ Unread' = SubSeq(unread, size + 1, Len(unread))
      BY <1>4, <1>6, <2>5, <3>1 DEF Finds, Incomplete, Invalid
    <3>3. PICK header \in Stream!Acceptable :
            /\ Stream!IsPrefix(header, unread) /\ Stream!Size(header) = size
            /\ size <= Len(unread)
      BY <2>5, <3>1 DEF MayTake
    <3>4. Stream!Take
      BY <1>1, <3>2, <3>3, SameAnswers DEF Stream!Take
    <3> QED
      BY <3>4
  <2> QED
    BY <2>2, <2>3, <2>4, <2>5
<1> QED
  BY <1>5, <1>6

\* The packets read are those of the bytes pushed, however they were cut into chunks.
THEOREM StreamIsImplemented == Spec => ImplementsStream
<1>1. Init => Stream!Init
  BY FlattenNothing DEF Init, Stream!Init, Unread, NoBuffer, Nothing, Stream!Nothing
<1>2. FramerInv /\ [Next]_vars => [Stream!Next]_(Stream!vars)
  <2> SUFFICES ASSUME FramerInv, [Next]_vars PROVE [Stream!Next]_(Stream!vars)
    OBVIOUS
  <2>1. ASSUME NEW chunk \in Chunks, Push(chunk) PROVE Stream!Push
    <3>1. chunk \in Seq(Bytes)
      BY FramerAssumption
    <3>2. PICK before : before = Unread
      OBVIOUS
    <3>3. before \in Seq(Bytes)
      BY <3>2, UnreadType
    <3>4. Unread' = before \o chunk
      BY <2>1, <3>1, <3>2, PushQueues
    <3>5. result' = Nothing
      BY <2>1 DEF Push
    <3> QED
      BY <3>1, <3>2, <3>3, <3>4, <3>5, PushIsPush
  <2>2. CASE PushEmpty
    <3>1. PICK before : before = Unread
      OBVIOUS
    <3>2. before \in Seq(Bytes)
      BY <3>1, UnreadType
    <3>3. Unread' = before
      BY <2>2, <3>1, PushEmptyKeeps
    <3>4. before \o <<>> = before /\ <<>> \in Seq(Bytes)
      BY <3>2
    <3>5. result' = Nothing
      BY <2>2 DEF PushEmpty
    <3>6. Stream!Push
      BY <3>1, <3>2, <3>3, <3>4, <3>5, PushIsPush
    <3> QED
      BY <3>6 DEF Stream!Next
  <2>3. CASE Read
    BY <2>3, ReadIsStream DEF Stream!Next
  <2>4. CASE Clear
    <3>1. Unread' = <<>>
      BY <2>4, ClearEmpties
    <3>2. Stream!Clear
      BY <2>4, <3>1, SameAnswers DEF Clear, Stream!Clear
    <3> QED
      BY <3>2 DEF Stream!Next
  <2>5. CASE UNCHANGED vars
    <3>1. Unread' = Unread /\ result' = result
      BY <2>5, StutterKeeps DEF vars
    <3> QED
      BY <3>1 DEF Stream!vars
  <2> QED
    BY <2>1, <2>2, <2>3, <2>4, <2>5 DEF Next, Stream!Next
<1> QED
  BY <1>1, <1>2, FramerInvariant, PTL DEF Spec, ImplementsStream, Stream!Spec
=============================================================================
