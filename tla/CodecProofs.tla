----------------------------- MODULE CodecProofs -----------------------------
(***************************************************************************)
(* Where framer and decoder end a packet, and what topic.ts makes of a     *)
(* filter, for packets, topics and filters of any length.                  *)
(***************************************************************************)
EXTENDS WireFormatProofs

-----------------------------------------------------------------------------
(* The end of a packet. *)

ReaderAt(bytes, at, end) == [buffer |-> bytes, position |-> at, end |-> end]

LEMMA ByteIsRead ==
    ASSUME NEW bytes \in Seq(Bytes), bytes # <<>>
    PROVE  ReadUint8(NewReader(bytes, 0))
             = [ok |-> TRUE, value |-> bytes[1], reader |-> ReaderAt(bytes, 1, Len(bytes))]
<1>1. Len(bytes) \in Nat /\ Len(bytes) >= 1
  OBVIOUS
<1>2. NewReader(bytes, 0) = ReaderAt(bytes, 0, Len(bytes))
  BY DEF NewReader, ReaderAt
<1>3. HasRemaining(ReaderAt(bytes, 0, Len(bytes)), 1)
  BY <1>1 DEF HasRemaining, Remaining, ReaderAt
<1>4. ByteAt(ReaderAt(bytes, 0, Len(bytes)), 0) = bytes[1]
  BY DEF ByteAt, ReaderAt
<1>5. Advanced(ReaderAt(bytes, 0, Len(bytes)), 1) = ReaderAt(bytes, 1, Len(bytes))
  BY DEF Advanced, ReaderAt
<1> QED
  BY <1>2, <1>3, <1>4, <1>5 DEF ReadUint8, Read

LEMMA HeaderIsParsed ==
    ASSUME NEW bytes \in Seq(Bytes), bytes # <<>>,
           NEW length, length = DecodeVariableByteInteger(bytes, 1)
    PROVE  LET parsed == ParseFixedHeader(NewReader(bytes, 0)) IN
           /\ length.status = "ok" =>
                parsed = [ok |-> TRUE,
                          value |-> [packetType |-> bytes[1] \div 16, flags |-> bytes[1] % 16,
                                     remainingLength |-> length.value],
                          reader |-> ReaderAt(bytes, 1 + length.bytesRead, Len(bytes))]
           /\ length.status # "ok" => parsed = Err(length.status)
<1> DEFINE r1 == ReaderAt(bytes, 1, Len(bytes))
           r2 == ReaderAt(bytes, 1 + length.bytesRead, Len(bytes))
           number == ReadVariableByteInteger(r1)
           header(value) == [packetType |-> bytes[1] \div 16, flags |-> bytes[1] % 16,
                             remainingLength |-> value]
<1>1. ParseFixedHeader(NewReader(bytes, 0))
        = IF number.ok THEN Made(header(number.value), number.reader) ELSE number
  BY ByteIsRead DEF ParseFixedHeader, Then
<1>2. number = ReadNumber(length, r1)
  BY DEF ReadVariableByteInteger, ReaderAt
<1>3. CASE length.status = "ok"
  <2>1. number = [ok |-> TRUE, value |-> length.value, reader |-> r2]
    <3>1. Advanced(r1, length.bytesRead) = r2
      BY DEF Advanced, ReaderAt
    <3>2. ReadNumber(length, r1) = Read(length.value, r1, length.bytesRead)
      BY <1>3 DEF ReadNumber
    <3> QED
      BY <1>2, <3>1, <3>2 DEF Read
  <2>2. Made(header(length.value), r2)
          = [ok |-> TRUE, value |-> header(length.value), reader |-> Advanced(r2, 0)]
    BY DEF Made, Read
  <2>3. length.bytesRead \in Nat
    BY <1>3, DecodeType, VarintAssumption
  <2>4. Advanced(r2, 0) = r2
    BY <2>3 DEF Advanced, ReaderAt
  <2> QED
    BY <1>1, <1>3, <2>1, <2>2, <2>4
<1>4. CASE length.status # "ok"
  <2>1. number = Err(length.status)
    BY <1>2, <1>4 DEF ReadNumber
  <2> QED
    BY <1>1, <1>4, <2>1 DEF Err
<1> QED
  BY <1>3, <1>4

\* The framer waits for a length exactly where the decoder finds it incomplete.
LEMMA LengthStatus ==
    ASSUME NEW bytes \in Seq(Bytes), NEW length, length = DecodeVariableByteInteger(bytes, 1)
    PROVE  /\ ~HasCompleteVariableByteInteger(bytes, 1) => length.status = "INCOMPLETE"
           /\ length.status = "ok" => HasCompleteVariableByteInteger(bytes, 1)
<1> DEFINE Ends(n) == EndsAt(bytes, 1, n)
<1>1. MaxVarintLength \in Nat /\ MaxVarintLength >= 1 /\ Len(bytes) \in Nat
  BY VarintAssumption
<1>2. CASE \E n \in 1..MaxVarintLength : Ends(n)
  <2>1. PICK n \in 1..MaxVarintLength : Ends(n)
    BY <1>2
  <2>2. 1 + n <= Len(bytes) /\ ~Continues(bytes[1 + n])
    BY <2>1 DEF EndsAt
  <2>3. HasCompleteVariableByteInteger(bytes, 1)
    BY <2>1, <2>2 DEF HasCompleteVariableByteInteger
  <2> QED
    BY <2>3
<1>3. CASE ~\E n \in 1..MaxVarintLength : Ends(n)
  <2>1. length = [status |-> IF 1 + MaxVarintLength <= Len(bytes)
                             THEN "MALFORMED_VARINT" ELSE "INCOMPLETE"]
    BY <1>3 DEF DecodeVariableByteInteger
  <2>2. length.status = IF 1 + MaxVarintLength <= Len(bytes)
                        THEN "MALFORMED_VARINT" ELSE "INCOMPLETE"
    BY <2>1
  <2>3. 1 + MaxVarintLength <= Len(bytes) => HasCompleteVariableByteInteger(bytes, 1)
    BY <1>1 DEF HasCompleteVariableByteInteger
  <2> QED
    BY <2>2, <2>3
<1> QED
  BY <1>2, <1>3

TypesOf(byte) == {t \in DOMAIN PacketType : PacketType[t] = byte \div 16}

LEMMA TypesAreNumbered ==
    ASSUME NEW byte \in Bytes
    PROVE  /\ byte \div TypeUnit \in Int
           /\ TypesOf(byte) # {} <=> byte \div TypeUnit >= 1
<1>1. byte \in 0..255 /\ TypeUnit = 16
  BY CodecAssumption DEF Bytes
<1>2. byte \div 16 \in 0..15
  BY <1>1
<1>3. \A t \in DOMAIN PacketType : PacketType[t] >= 1
  BY DEF PacketType
<1>4. \A n \in 1..15 : \E t \in DOMAIN PacketType : PacketType[t] = n
  BY DEF PacketType
<1> QED
  BY <1>1, <1>2, <1>3, <1>4 DEF TypesOf

\* What the decoder gives of the bytes: an error of the header, an error of the body, or a
\* packet of the bytes that the header announces.
LEMMA PacketIsDecoded ==
    ASSUME NEW bytes \in Seq(Bytes), bytes # <<>>, NEW ver,
           NEW length, length = DecodeVariableByteInteger(bytes, 1),
           NEW total, total = 1 + length.bytesRead + length.value,
           NEW decoded, decoded = DecodePacket(bytes, ver, 0)
    PROVE  /\ length.status # "ok" => decoded = Err(length.status)
           /\ length.status = "ok" /\ total > Len(bytes) => decoded = Err("INCOMPLETE")
           /\ decoded.ok => /\ length.status = "ok" /\ total <= Len(bytes)
                            /\ TypesOf(bytes[1]) # {}
                            /\ decoded.bytesRead = total
<1> DEFINE read   == [packetType |-> bytes[1] \div 16, flags |-> bytes[1] % 16,
                      remainingLength |-> length.value]
           reader == ReaderAt(bytes, 1 + length.bytesRead, Len(bytes))
           error  == Err("MALFORMED_PACKET")
<1> DEFINE parsed == ParseFixedHeader(NewReader(bytes, 0))
           header == parsed.value
           inner  == SubReader(parsed.reader, header.remainingLength)
           types  == {t \in DOMAIN PacketType : PacketType[t] = header.packetType}
           made   == Decoder(CHOOSE t \in types : TRUE, inner.value, header.flags,
                             header.remainingLength, ver)
<1>1. parsed = ParseFixedHeader(NewReader(bytes, 0))
  OBVIOUS
<1>2. header = parsed.value
  OBVIOUS
<1>3. inner = SubReader(parsed.reader, header.remainingLength)
  OBVIOUS
<1>4. types = {t \in DOMAIN PacketType : PacketType[t] = header.packetType}
  OBVIOUS
<1>5. decoded = IF ~parsed.ok THEN parsed
                ELSE IF ~inner.ok THEN inner
                ELSE IF types \cap RequiredFlags0x02 # {} /\ header.flags # 2 THEN error
                ELSE IF types \cap ZeroLengthPackets # {} /\ header.remainingLength # 0
                     THEN error
                ELSE IF types = {} THEN error
                ELSE IF made.ok THEN [ok |-> TRUE, packet |-> made.value,
                                      bytesRead |-> inner.reader.position - 0]
                ELSE made
  BY DEF DecodePacket, Then
<1> HIDE DEF parsed, header, inner, types, made
<1>6. /\ length.status = "ok" => parsed = [ok |-> TRUE, value |-> read, reader |-> reader]
      /\ length.status # "ok" => parsed = Err(length.status)
  BY <1>1, HeaderIsParsed
<1>7. CASE length.status # "ok"
  <2>1. parsed = Err(length.status) /\ ~parsed.ok
    BY <1>6, <1>7 DEF Err
  <2>2. decoded = Err(length.status) /\ ~decoded.ok
    BY <1>5, <2>1
  <2> QED
    BY <1>7, <2>2
<1>8. CASE length.status = "ok"
  <2>1. parsed.ok /\ header = read /\ parsed.reader = reader
    BY <1>2, <1>6, <1>8
  <2>2. header.remainingLength = length.value /\ header.packetType = bytes[1] \div 16
    BY <2>1
  <2>3. types = TypesOf(bytes[1])
    BY <1>4, <2>2 DEF TypesOf
  <2>4. length.value \in Nat /\ length.bytesRead \in Nat /\ Len(bytes) \in Nat
    BY <1>8, DecodeType, VarintAssumption
  <2>5. inner = SubReader(reader, length.value)
    BY <1>3, <2>1, <2>2
  <2>6. HasRemaining(reader, length.value) <=> total <= Len(bytes)
    BY <2>4 DEF HasRemaining, Remaining, ReaderAt
  <2>7. CASE total > Len(bytes)
    <3>1. inner = Err("INCOMPLETE")
      BY <2>4, <2>5, <2>6, <2>7 DEF SubReader
    <3>2. ~inner.ok
      BY <3>1 DEF Err
    <3>3. decoded = Err("INCOMPLETE") /\ ~decoded.ok
      BY <1>5, <2>1, <3>1, <3>2
    <3> QED
      BY <1>8, <3>3
  <2>8. CASE total <= Len(bytes)
    <3> DEFINE narrow == [reader EXCEPT !.end = reader.position + length.value]
    <3>1. inner = Read(narrow, reader, length.value)
      BY <2>5, <2>6, <2>8 DEF SubReader
    <3>2. inner.ok /\ inner.reader = Advanced(reader, length.value)
      BY <3>1 DEF Read
    <3>3. Advanced(reader, length.value).position = total
      BY <2>4 DEF Advanced, ReaderAt
    <3>4. inner.reader.position - 0 = total
      BY <2>4, <3>2, <3>3
    <3>5. ~error.ok
      BY DEF Err
    <3> HIDE DEF error
    <3>6. decoded.ok => types # {} /\ decoded.bytesRead = total
      BY <1>5, <2>1, <3>2, <3>4, <3>5
    <3> QED
      BY <1>8, <2>3, <2>4, <2>8, <3>6
  <2> QED
    BY <2>4, <2>7, <2>8
<1> QED
  BY <1>7, <1>8

\* Whatever the bytes, the framer and the decoder end a packet at the same byte: a packet
\* decoded is a frame of as many bytes, or too large for the framer (MAX_PACKET_SIZE is less
\* than what a header can announce), and where the framer waits the decoder says INCOMPLETE.
\* readPacketFrame() and decodePacket() parse the header apart.
THEOREM PacketsAreFrames ==
    ASSUME NEW bytes \in Seq(Bytes), bytes # <<>>, NEW ver
    PROVE  LET decoded == DecodePacket(bytes, ver, 0)
               frame   == ReadPacketFrame(bytes, 0)
           IN /\ decoded.ok =>
                    frame = IF decoded.bytesRead > MaxPacketSize THEN Invalid
                            ELSE [status |-> "complete", bytesConsumed |-> decoded.bytesRead]
              /\ frame = Incomplete => ~decoded.ok /\ decoded.code = "INCOMPLETE"
<1>1. PICK length : length = DecodeVariableByteInteger(bytes, 1)
  OBVIOUS
<1>2. PICK total : total = 1 + length.bytesRead + length.value
  OBVIOUS
<1>3. PICK decoded : decoded = DecodePacket(bytes, ver, 0)
  OBVIOUS
<1>4. PICK frame : frame = ReadPacketFrame(bytes, 0)
  OBVIOUS
<1>5. frame = IF ~HasCompleteVariableByteInteger(bytes, 1) THEN Incomplete
              ELSE IF bytes[1] \div TypeUnit < 1 \/ length.status # "ok" THEN Invalid
              ELSE IF total > MaxPacketSize THEN Invalid
              ELSE IF 0 + total > Len(bytes) THEN Incomplete
              ELSE [status |-> "complete", bytesConsumed |-> total]
  BY <1>1, <1>2, <1>4 DEF ReadPacketFrame
<1>6. bytes[1] \in Bytes /\ Len(bytes) \in Nat
  OBVIOUS
<1>7. ~HasCompleteVariableByteInteger(bytes, 1) => length.status = "INCOMPLETE"
  BY <1>1, LengthStatus
<1>8. length.status = "ok" => HasCompleteVariableByteInteger(bytes, 1)
  BY <1>1, LengthStatus
<1>9. length.status = "ok" => total \in Nat
  BY <1>1, <1>2, DecodeType, VarintAssumption
<1>10. /\ length.status # "ok" => decoded = Err(length.status)
       /\ length.status = "ok" /\ total > Len(bytes) => decoded = Err("INCOMPLETE")
       /\ decoded.ok => /\ length.status = "ok" /\ total <= Len(bytes)
                        /\ TypesOf(bytes[1]) # {}
                        /\ decoded.bytesRead = total
  BY <1>1, <1>2, <1>3, PacketIsDecoded
<1>11. ASSUME decoded.ok
       PROVE  frame = IF decoded.bytesRead > MaxPacketSize THEN Invalid
                      ELSE [status |-> "complete", bytesConsumed |-> decoded.bytesRead]
  <2>1. ~(bytes[1] \div TypeUnit < 1)
    <3>1. bytes[1] \div TypeUnit >= 1
      BY <1>6, <1>10, <1>11, TypesAreNumbered
    <3>2. bytes[1] \div TypeUnit \in Int
      BY <1>6, TypesAreNumbered
    <3> QED
      BY <3>1, <3>2
  <2>2. length.status = "ok" /\ ~(0 + total > Len(bytes))
    BY <1>6, <1>9, <1>10, <1>11
  <2> QED
    BY <1>5, <1>8, <1>10, <1>11, <2>1, <2>2
<1>12. ASSUME frame = Incomplete
       PROVE  ~decoded.ok /\ decoded.code = "INCOMPLETE"
  <2>1. \/ ~HasCompleteVariableByteInteger(bytes, 1)
        \/ length.status = "ok" /\ 0 + total > Len(bytes)
    BY <1>5, <1>12 DEF Incomplete, Invalid
  <2>2. decoded = Err("INCOMPLETE")
    BY <1>7, <1>9, <1>10, <2>1
  <2> QED
    BY <2>2 DEF Err
<1> QED
  BY <1>3, <1>4, <1>11, <1>12

-----------------------------------------------------------------------------
(* The codec's steps. *)

\* What arrives are bytes, and what is received is what the decoder gives of them.
Decoded == /\ buffer \in Seq(Bytes) /\ buffer # <<>>
           /\ received = DecodePacket(buffer, version, 0)

CodecInv == /\ \E input \in Inputs : packet = input.packet /\ version = input.version
            /\ received = Unread \/ Decoded

LEMMA ArrivingDecodes ==
    ASSUME NEW bytes, NEW how, CodecInv, Arrive(bytes, how), Throws(bytes) \/ bytes \in Seq(Bytes)
    PROVE  CodecInv'
<1>1. \E input \in Inputs : packet' = input.packet /\ version' = input.version
  BY DEF CodecInv, Arrive
<1>2. CASE Throws(bytes) \/ bytes = <<>>
  BY <1>1, <1>2 DEF Arrive, CodecInv, Unread
<1>3. CASE ~(Throws(bytes) \/ bytes = <<>>)
  <2>1. buffer' = bytes /\ bytes \in Seq(Bytes) /\ version' = version
    BY <1>3 DEF Arrive
  <2>2. received' = DecodePacket(bytes, version, 0)
    BY <1>3 DEF Arrive
  <2>3. Decoded'
    BY <1>3, <2>1, <2>2 DEF Decoded
  <2> QED
    BY <1>1, <2>3 DEF CodecInv
<1> QED
  BY <1>2, <1>3

LEMMA CodecInvariant == Spec => []CodecInv
<1>1. Init => CodecInv
  BY DEF Init, CodecInv, Unread
<1>2. CodecInv /\ [Next]_vars => CodecInv'
  <2> SUFFICES ASSUME CodecInv, [Next]_vars PROVE CodecInv'
    OBVIOUS
  <2>1. CASE Send
    <3>1. PICK bytes : bytes = EncodePacket(packet, version)
      OBVIOUS
    <3>2. Throws(bytes) \/ bytes \in Seq(Bytes)
      BY <3>1, InputAssumption DEF CodecInv
    <3>3. Arrive(bytes, "intact")
      BY <2>1, <3>1 DEF Send
    <3> QED
      BY <3>2, <3>3, ArrivingDecodes
  <2>2. CASE Follow
    <3>1. PICK others \in Followers : Arrive(buffer \o others, "followed")
      BY <2>2 DEF Follow
    <3>2. others \in Seq(Bytes) /\ buffer \in Seq(Bytes)
      BY <2>2, CodecAssumption DEF Follow, CodecInv, Decoded
    <3>3. buffer \o others \in Seq(Bytes)
      BY <3>2
    <3> QED
      BY <3>1, <3>3, ArrivingDecodes
  <2>3. CASE Truncate
    <3>1. PICK n \in 0..(Len(buffer) - 1) : Arrive(SubSeq(buffer, 1, n), "truncated")
      BY <2>3 DEF Truncate
    <3>2. buffer \in Seq(Bytes)
      BY <2>3 DEF Truncate, Damageable, CodecInv, Decoded
    <3>3. SubSeq(buffer, 1, n) \in Seq(Bytes)
      BY <3>2
    <3> QED
      BY <3>1, <3>3, ArrivingDecodes
  <2>4. CASE Corrupt
    <3>1. PICK i \in DOMAIN buffer, byte \in WrongBytes :
            Arrive([buffer EXCEPT ![i] = byte], "corrupted")
      BY <2>4 DEF Corrupt
    <3>2. buffer \in Seq(Bytes) /\ byte \in Bytes
      BY <2>4, CodecAssumption DEF Corrupt, Damageable, CodecInv, Decoded
    <3>3. [buffer EXCEPT ![i] = byte] \in Seq(Bytes)
      BY <3>2
    <3> QED
      BY <3>1, <3>3, ArrivingDecodes
  <2>5. CASE UNCHANGED vars
    BY <2>5 DEF vars, CodecInv, Decoded
  <2> QED
    BY <2>1, <2>2, <2>3, <2>4, <2>5 DEF Next
<1> QED
  BY <1>1, <1>2, PTL DEF Spec

\* Whatever is sent, followed, cut or damaged on its way: see PacketsAreFrames.
THEOREM FramesAlwaysAgree == Spec => []FramesAgree
<1>1. CodecInv => FramesAgree
  <2> SUFFICES ASSUME CodecInv, received # Unread PROVE FramesAgree
    BY DEF FramesAgree
  <2>1. buffer \in Seq(Bytes) /\ buffer # <<>> /\ received = DecodePacket(buffer, version, 0)
    BY DEF CodecInv, Decoded
  <2>2. PICK bytes : bytes = buffer
    OBVIOUS
  <2>3. PICK ver : ver = version
    OBVIOUS
  <2>4. PICK decoded : decoded = DecodePacket(bytes, ver, 0)
    OBVIOUS
  <2>5. PICK frame : frame = ReadPacketFrame(bytes, 0)
    OBVIOUS
  <2>6. /\ decoded.ok =>
             frame = IF decoded.bytesRead > MaxPacketSize THEN Invalid
                     ELSE [status |-> "complete", bytesConsumed |-> decoded.bytesRead]
        /\ frame = Incomplete => ~decoded.ok /\ decoded.code = "INCOMPLETE"
    BY <2>1, <2>2, <2>4, <2>5, PacketsAreFrames
  <2> QED
    BY <2>1, <2>2, <2>3, <2>4, <2>5, <2>6 DEF FramesAgree
<1> QED
  BY <1>1, CodecInvariant, PTL

-----------------------------------------------------------------------------
(* The levels of a topic. *)

\* What ParseTopicLevels builds, the levels of the first i characters in entry i.
LevelsAfter(before, topic, i) ==
    IF i = 0 THEN << <<>> >>
    ELSE IF topic[i] = Slash THEN Append(before, <<>>)
    ELSE [before EXCEPT ![Len(before)] = Append(@, topic[i])]
IsLevels(f, topic, n) == f = [i \in 0..n |-> LevelsAfter(f[i - 1], topic, i)]

TheLevels(topic) == CHOOSE f : IsLevels(f, topic, Len(topic))

LEMMA ParsedIsLevels ==
    ASSUME NEW topic
    PROVE  ParseTopicLevels(topic) = TheLevels(topic)[Len(topic)]
  BY DEF ParseTopicLevels, TheLevels, IsLevels, LevelsAfter

LEMMA LevelsEntry ==
    ASSUME NEW f, NEW topic, NEW n, IsLevels(f, topic, n), NEW i \in 0..n
    PROVE  f[i] = LevelsAfter(f[i - 1], topic, i)
  BY DEF IsLevels

LEMMA LevelsExist ==
    ASSUME NEW topic, NEW n \in Nat
    PROVE  \E f : IsLevels(f, topic, n)
<1> DEFINE S == {i \in Nat : \E f : IsLevels(f, topic, i)}
           After(before, i) == LevelsAfter(before, topic, i)
<1>1. 0 \in S
  <2>1. PICK f : f = [i \in 0..0 |-> << <<>> >>]
    OBVIOUS
  <2>2. \A i \in 0..0 : << <<>> >> = After(f[i - 1], i)
    BY DEF LevelsAfter
  <2>3. f = [i \in 0..0 |-> After(f[i - 1], i)]
    BY <2>1, <2>2
  <2>4. IsLevels(f, topic, 0)
    BY <2>3 DEF IsLevels
  <2> QED
    BY <2>4
<1>2. ASSUME NEW m \in Nat, m \in S PROVE m + 1 \in S
  <2>1. PICK f : IsLevels(f, topic, m)
    BY <1>2
  <2> DEFINE g == [i \in 0..(m + 1) |-> IF i <= m THEN f[i] ELSE After(f[i - 1], i)]
  <2>2. \A i \in 0..(m + 1) : g[i] = IF i <= m THEN f[i] ELSE After(f[i - 1], i)
    OBVIOUS
  <2>3. g = [i \in 0..(m + 1) |-> g[i]]
    OBVIOUS
  <2> HIDE DEF g
  <2>4. \A i \in 0..(m + 1) : g[i] = After(f[i - 1], i)
    BY <2>1, <2>2, LevelsEntry
  <2>5. \A i \in 0..(m + 1) : i = 0 \/ g[i - 1] = f[i - 1]
    BY <2>2
  <2>6. \A i \in 0..(m + 1) : After(f[i - 1], i) = After(g[i - 1], i)
    BY <2>5 DEF LevelsAfter
  <2>7. \A i \in 0..(m + 1) : g[i] = After(g[i - 1], i)
    BY <2>4, <2>6
  <2>8. g = [i \in 0..(m + 1) |-> After(g[i - 1], i)]
    <3> HIDE DEF After
    <3> QED
      BY <2>3, <2>7
  <2>9. IsLevels(g, topic, m + 1)
    BY <2>8 DEF IsLevels
  <2> QED
    BY <2>9
<1>3. \A i \in Nat : i \in S
  <2> HIDE DEF S
  <2> QED
    BY <1>1, <1>2, Induction
<1> QED
  BY <1>3

\* Level k of the first i characters begins behind character start[k], which is a slash
\* unless it is none, and ends before the slash that the next one begins behind, or with
\* the last character; every character but the slashes is one of a level.
Splits(topic, levels, start, i) ==
    LET n == Len(levels) IN
    /\ levels \in Seq(Seq(CodeUnit)) /\ n >= 1
    /\ start \in [1..n -> Nat]
    /\ start[1] = 0 /\ \A k \in 2..n : start[k] \in 1..i /\ topic[start[k]] = Slash
    /\ start[n] + Len(levels[n]) = i
    /\ \A k \in 1..(n - 1) : start[k] + Len(levels[k]) = start[k + 1] - 1
    /\ \A k \in 1..n : \A o \in 1..Len(levels[k]) :
          levels[k][o] = topic[start[k] + o] /\ levels[k][o] # Slash
    /\ \A p \in 1..i : topic[p] # Slash =>
          \E k \in 1..n : \E o \in 1..Len(levels[k]) : p = start[k] + o

LEMMA NothingSplits ==
    ASSUME NEW topic
    PROVE  Splits(topic, << <<>> >>, [k \in 1..1 |-> 0], 0)
<1>1. PICK levels : levels = << <<>> >>
  OBVIOUS
<1>2. PICK start : start = [k \in 1..1 |-> 0]
  OBVIOUS
<1>3. Len(levels) = 1 /\ levels[1] = <<>> /\ Len(<<>>) = 0
  BY <1>1
<1>4. levels \in Seq(Seq(CodeUnit))
  BY <1>1
<1>5. start \in [1..1 -> Nat] /\ start[1] = 0
  BY <1>2
<1>6. Splits(topic, levels, start, 0)
  BY <1>3, <1>4, <1>5 DEF Splits
<1> QED
  BY <1>1, <1>2, <1>6

LEMMA SlashSplits ==
    ASSUME NEW topic, NEW levels, NEW start, NEW i \in Nat, Splits(topic, levels, start, i),
           topic[i + 1] = Slash
    PROVE  \E begin : Splits(topic, Append(levels, <<>>), begin, i + 1)
<1>1. PICK n : n = Len(levels)
  OBVIOUS
<1>2. PICK longer : longer = Append(levels, <<>>)
  OBVIOUS
<1>3. PICK begin : begin = [k \in 1..(n + 1) |-> IF k <= n THEN start[k] ELSE i + 1]
  OBVIOUS
<1>4. levels \in Seq(Seq(CodeUnit)) /\ n \in Nat /\ n >= 1 /\ start \in [1..n -> Nat]
  BY <1>1 DEF Splits
<1>5. /\ longer \in Seq(Seq(CodeUnit)) /\ Len(longer) = n + 1 /\ Len(longer[n + 1]) = 0
      /\ \A k \in 1..n : longer[k] = levels[k]
  <2>1. <<>> \in Seq(CodeUnit) /\ Len(<<>>) = 0
    OBVIOUS
  <2> QED
    BY <1>1, <1>2, <1>4, <2>1
<1>6. /\ \A k \in 1..n : begin[k] = start[k]
      /\ begin[n + 1] = i + 1
      /\ begin \in [1..(n + 1) -> Nat]
  BY <1>3, <1>4
<1>7. /\ start[1] = 0 /\ \A k \in 2..n : start[k] \in 1..i /\ topic[start[k]] = Slash
      /\ start[n] + Len(levels[n]) = i
      /\ \A k \in 1..(n - 1) : start[k] + Len(levels[k]) = start[k + 1] - 1
  BY <1>1 DEF Splits
<1>8. begin[1] = 0 /\ \A k \in 2..(n + 1) : begin[k] \in 1..(i + 1) /\ topic[begin[k]] = Slash
  BY <1>4, <1>6, <1>7
<1>9. begin[n + 1] + Len(longer[n + 1]) = i + 1
  BY <1>5, <1>6
<1>10. ASSUME NEW k \in 1..n
       PROVE  begin[k] + Len(longer[k]) = begin[k + 1] - 1
  <2>1. CASE k = n
    <3>1. begin[k] = start[n] /\ longer[k] = levels[n] /\ begin[k + 1] = i + 1
      BY <1>4, <1>5, <1>6, <2>1
    <3>2. begin[k] + Len(longer[k]) = i
      BY <1>7, <3>1
    <3> QED
      BY <3>1, <3>2
  <2>2. CASE k # n
    <3>1. k \in 1..(n - 1) /\ k + 1 \in 1..n
      BY <1>4, <2>2
    <3> QED
      BY <1>5, <1>6, <1>7, <3>1
  <2> QED
    BY <2>1, <2>2
<1>11. \A k \in 1..n : \A o \in 1..Len(levels[k]) :
          levels[k][o] = topic[start[k] + o] /\ levels[k][o] # Slash
  BY <1>1 DEF Splits
<1>12. ASSUME NEW k \in 1..(n + 1), NEW o \in 1..Len(longer[k])
       PROVE  longer[k][o] = topic[begin[k] + o] /\ longer[k][o] # Slash
  <2>1. k \in 1..n \/ k = n + 1
    BY <1>4
  <2>2. CASE k = n + 1
    BY <1>5, <2>2
  <2>3. CASE k \in 1..n
    <3>1. longer[k] = levels[k] /\ begin[k] = start[k]
      BY <1>5, <1>6, <2>3
    <3> QED
      BY <1>11, <2>3, <3>1
  <2> QED
    BY <2>1, <2>2, <2>3
<1>13. \A p \in 1..i : topic[p] # Slash =>
          \E k \in 1..n : \E o \in 1..Len(levels[k]) : p = start[k] + o
  BY <1>1 DEF Splits
<1>14. \A p \in 1..(i + 1) : topic[p] # Slash =>
          \E k \in 1..(n + 1) : \E o \in 1..Len(longer[k]) : p = begin[k] + o
  <2> TAKE p \in 1..(i + 1)
  <2> HAVE topic[p] # Slash
  <2>1. p \in 1..i
    OBVIOUS
  <2>2. PICK k \in 1..n : \E o \in 1..Len(levels[k]) : p = start[k] + o
    BY <1>13, <2>1
  <2>3. k \in 1..(n + 1) /\ longer[k] = levels[k] /\ begin[k] = start[k]
    <3>1. k \in 1..n
      BY <2>2
    <3>2. k \in 1..(n + 1)
      BY <1>4, <3>1
    <3> QED
      BY <1>5, <1>6, <3>1, <3>2
  <2> QED
    BY <2>2, <2>3
<1>15. Splits(topic, longer, begin, i + 1)
  <2>1. PICK m : m = n + 1
    OBVIOUS
  <2>2. m >= 1 /\ Len(longer) = m /\ longer \in Seq(Seq(CodeUnit)) /\ begin \in [1..m -> Nat]
    <3>1. m >= 1
      BY <1>4, <2>1
    <3> QED
      BY <1>5, <1>6, <2>1, <3>1
  <2>3. \A k \in 1..(m - 1) : begin[k] + Len(longer[k]) = begin[k + 1] - 1
    <3>1. m - 1 = n
      BY <1>4, <2>1
    <3> QED
      BY <1>10, <3>1
  <2>4. /\ begin[1] = 0 /\ \A k \in 2..m : begin[k] \in 1..(i + 1) /\ topic[begin[k]] = Slash
        /\ begin[m] + Len(longer[m]) = i + 1
    BY <1>8, <1>9, <2>1
  <2>5. /\ \A k \in 1..m : \A o \in 1..Len(longer[k]) :
              longer[k][o] = topic[begin[k] + o] /\ longer[k][o] # Slash
        /\ \A p \in 1..(i + 1) : topic[p] # Slash =>
              \E k \in 1..m : \E o \in 1..Len(longer[k]) : p = begin[k] + o
    BY <1>12, <1>14, <2>1
  <2> QED
    BY <2>2, <2>3, <2>4, <2>5, Zenon DEF Splits
<1> QED
  BY <1>2, <1>15

LEMMA CharacterSplits ==
    ASSUME NEW topic, NEW levels, NEW start, NEW i \in Nat, Splits(topic, levels, start, i),
           topic[i + 1] # Slash, topic[i + 1] \in CodeUnit
    PROVE  Splits(topic, [levels EXCEPT ![Len(levels)] = Append(@, topic[i + 1])], start, i + 1)
<1>1. PICK n : n = Len(levels)
  OBVIOUS
<1>2. PICK c : c = topic[i + 1]
  OBVIOUS
<1>3. PICK longer : longer = [levels EXCEPT ![n] = Append(levels[n], c)]
  OBVIOUS
<1>4. levels \in Seq(Seq(CodeUnit)) /\ n \in Nat /\ n >= 1 /\ start \in [1..n -> Nat]
  BY <1>1 DEF Splits
<1>5. levels[n] \in Seq(CodeUnit) /\ n \in 1..n
  BY <1>1, <1>4
<1>6. PICK last : last = levels[n]
  OBVIOUS
<1>7. PICK size : size = Len(last)
  OBVIOUS
<1>8. /\ last \in Seq(CodeUnit) /\ Append(last, c) \in Seq(CodeUnit)
      /\ size \in Nat /\ Len(Append(last, c)) = size + 1
      /\ Append(last, c)[size + 1] = c /\ \A o \in 1..size : Append(last, c)[o] = last[o]
  BY <1>2, <1>5, <1>6, <1>7
<1>9. /\ longer \in Seq(Seq(CodeUnit)) /\ Len(longer) = n
      /\ longer[n] = Append(last, c)
      /\ \A k \in 1..(n - 1) : longer[k] = levels[k]
  BY <1>1, <1>3, <1>4, <1>5, <1>6, <1>8
<1>10. /\ start[1] = 0 /\ \A k \in 2..n : start[k] \in 1..i /\ topic[start[k]] = Slash
       /\ start[n] + Len(levels[n]) = i
       /\ \A k \in 1..(n - 1) : start[k] + Len(levels[k]) = start[k + 1] - 1
  BY <1>1 DEF Splits
<1>11. start[n] \in Nat /\ start[n] + (size + 1) = i + 1
  BY <1>4, <1>5, <1>6, <1>7, <1>8, <1>10
<1>12. \A k \in 1..n : \A o \in 1..Len(levels[k]) :
          levels[k][o] = topic[start[k] + o] /\ levels[k][o] # Slash
  BY <1>1 DEF Splits
<1>13. ASSUME NEW k \in 1..n, NEW o \in 1..Len(longer[k])
       PROVE  longer[k][o] = topic[start[k] + o] /\ longer[k][o] # Slash
  <2>1. CASE k # n
    <3>1. k \in 1..(n - 1) /\ longer[k] = levels[k]
      BY <1>4, <1>9, <2>1
    <3> QED
      BY <1>12, <3>1
  <2>2. CASE k = n /\ o = size + 1
    <3>1. longer[k][o] = c /\ start[k] + o = i + 1
      BY <1>8, <1>9, <1>11, <2>2
    <3> QED
      BY <1>2, <3>1
  <2>3. CASE k = n /\ o # size + 1
    <3>1. o \in 1..size
      BY <1>8, <1>9, <2>3
    <3>2. longer[k][o] = last[o]
      BY <1>8, <1>9, <2>3, <3>1
    <3> QED
      BY <1>6, <1>7, <1>12, <2>3, <3>1, <3>2
  <2> QED
    BY <2>1, <2>2, <2>3
<1>14. \A p \in 1..i : topic[p] # Slash =>
          \E k \in 1..n : \E o \in 1..Len(levels[k]) : p = start[k] + o
  BY <1>1 DEF Splits
<1>15. ASSUME NEW p \in 1..(i + 1), topic[p] # Slash
       PROVE  \E k \in 1..n : \E o \in 1..Len(longer[k]) : p = start[k] + o
  <2>1. CASE p = i + 1
    <3>1. size + 1 \in 1..Len(longer[n]) /\ p = start[n] + (size + 1)
      BY <1>8, <1>9, <1>11, <2>1
    <3> QED
      BY <1>5, <3>1
  <2>2. CASE p # i + 1
    <3>1. p \in 1..i
      BY <2>2
    <3>2. PICK k \in 1..n : \E o \in 1..Len(levels[k]) : p = start[k] + o
      BY <1>14, <1>15, <3>1
    <3>3. PICK o \in 1..Len(levels[k]) : p = start[k] + o
      BY <3>2
    <3>4. o \in 1..Len(longer[k])
      <4>1. CASE k = n
        BY <1>6, <1>7, <1>8, <1>9, <3>3, <4>1
      <4>2. CASE k # n
        <5>1. k \in 1..n
          BY <3>2
        <5>2. k \in 1..(n - 1)
          BY <1>4, <4>2, <5>1
        <5>3. longer[k] = levels[k]
          BY <1>9, <5>2
        <5> QED
          BY <3>3, <5>3
      <4> QED
        BY <4>1, <4>2
    <3> QED
      BY <3>3, <3>4
  <2> QED
    BY <2>1, <2>2
<1>16. start[n] + Len(longer[n]) = i + 1
  BY <1>8, <1>9, <1>11
<1>17. \A k \in 2..n : start[k] \in 1..(i + 1) /\ topic[start[k]] = Slash
  BY <1>10
<1>18. \A k \in 1..(n - 1) : start[k] + Len(longer[k]) = start[k + 1] - 1
  BY <1>9, <1>10
<1>19. Splits(topic, longer, start, i + 1)
  BY <1>4, <1>9, <1>10, <1>13, <1>15, <1>16, <1>17, <1>18 DEF Splits
<1> QED
  BY <1>1, <1>2, <1>3, <1>19

\* A string is split at its slashes.
LEMMA ParsedSplits ==
    ASSUME NEW topic \in Seq(CodeUnit)
    PROVE  \E start : Splits(topic, ParseTopicLevels(topic), start, Len(topic))
<1>1. PICK n : n = Len(topic)
  OBVIOUS
<1>2. n \in Nat
  BY <1>1
<1>3. PICK f : f = TheLevels(topic)
  OBVIOUS
<1>4. IsLevels(f, topic, n)
  BY <1>1, <1>2, <1>3, LevelsExist DEF TheLevels
<1> DEFINE S == {i \in Nat : i \in 0..n => \E start : Splits(topic, f[i], start, i)}
<1>5. 0 \in S
  <2>1. 0 \in 0..n
    BY <1>2
  <2>2. f[0] = << <<>> >>
    BY <1>4, <2>1, LevelsEntry DEF LevelsAfter
  <2> QED
    BY <2>2, NothingSplits
<1>6. ASSUME NEW i \in Nat, i \in S PROVE i + 1 \in S
  <2> SUFFICES ASSUME i + 1 \in 0..n PROVE \E start : Splits(topic, f[i + 1], start, i + 1)
    OBVIOUS
  <2>1. PICK levels : levels = f[i]
    OBVIOUS
  <2>2. PICK start : Splits(topic, levels, start, i)
    BY <1>2, <1>6, <2>1
  <2>3. f[i + 1] = LevelsAfter(f[(i + 1) - 1], topic, i + 1)
    BY <1>4, LevelsEntry
  <2>4. (i + 1) - 1 = i /\ i + 1 # 0
    OBVIOUS
  <2>5. f[i + 1] = IF topic[i + 1] = Slash THEN Append(levels, <<>>)
                   ELSE [levels EXCEPT ![Len(levels)] = Append(@, topic[i + 1])]
    BY <2>1, <2>3, <2>4 DEF LevelsAfter
  <2>6. topic[i + 1] \in CodeUnit
    BY <1>1
  <2>7. CASE topic[i + 1] = Slash
    BY <2>2, <2>5, <2>7, SlashSplits
  <2>8. CASE topic[i + 1] # Slash
    <3>1. Splits(topic, [levels EXCEPT ![Len(levels)] = Append(@, topic[i + 1])], start, i + 1)
      BY <2>2, <2>6, <2>8, CharacterSplits
    <3> QED
      BY <2>5, <2>8, <3>1
  <2> QED
    BY <2>7, <2>8
<1>7. \A i \in Nat : i \in S
  <2> HIDE DEF S
  <2> QED
    BY <1>5, <1>6, Induction
<1>8. \E start : Splits(topic, f[n], start, n)
  BY <1>2, <1>7
<1> QED
  BY <1>1, <1>3, <1>8, ParsedIsLevels

\* The strings that joinTopicLevels() puts one behind the other.
Parts(levels) == [i \in DOMAIN levels |-> IF i = 1 THEN levels[i] ELSE <<Slash>> \o levels[i]]

LEMMA SlashIsString == <<Slash>> \in Seq(CodeUnit)
<1>1. Slash \in CodeUnit
  BY UnitRange DEF Slash
<1> QED
  BY <1>1

LEMMA PartsType ==
    ASSUME NEW levels \in Seq(Seq(CodeUnit)), NEW n, n = Len(levels)
    PROVE  /\ n \in Nat
           /\ Parts(levels) \in Seq(Seq(CodeUnit)) /\ Len(Parts(levels)) = n
           /\ \A i \in 1..n :
                 Parts(levels)[i] = IF i = 1 THEN levels[i] ELSE <<Slash>> \o levels[i]
<1>1. n \in Nat /\ DOMAIN levels = 1..n
  OBVIOUS
<1>2. <<Slash>> \in Seq(CodeUnit)
  BY SlashIsString
<1>3. \A i \in 1..n : levels[i] \in Seq(CodeUnit) /\ <<Slash>> \o levels[i] \in Seq(CodeUnit)
  BY <1>2
<1>4. PICK parts : parts = Parts(levels)
  OBVIOUS
<1>5. parts = [i \in 1..n |-> IF i = 1 THEN levels[i] ELSE <<Slash>> \o levels[i]]
  BY <1>1, <1>4 DEF Parts
<1>6. \A i \in 1..n : (IF i = 1 THEN levels[i] ELSE <<Slash>> \o levels[i]) \in Seq(CodeUnit)
  BY <1>3
<1>7. parts \in [1..n -> Seq(CodeUnit)]
  BY <1>5, <1>6
<1>8. parts \in Seq(Seq(CodeUnit)) /\ Len(parts) = n
  BY <1>1, <1>7
<1> QED
  BY <1>1, <1>4, <1>5, <1>8

LEMMA SlashJoins ==
    ASSUME NEW levels \in Seq(Seq(CodeUnit)), levels # <<>>
    PROVE  JoinTopicLevels(Append(levels, <<>>)) = Append(JoinTopicLevels(levels), Slash)
<1>1. PICK n : n = Len(levels)
  OBVIOUS
<1>2. PICK longer : longer = Append(levels, <<>>)
  OBVIOUS
<1>3. <<>> \in Seq(CodeUnit) /\ <<Slash>> \in Seq(CodeUnit) /\ <<Slash>> \o <<>> = <<Slash>>
  <2>1. PICK slash : slash = <<Slash>>
    OBVIOUS
  <2>2. slash \in Seq(CodeUnit)
    BY <2>1, SlashIsString
  <2>3. slash \o <<>> = slash
    BY <2>2, NothingAppended
  <2> QED
    BY <2>1, <2>2, <2>3
<1>4. /\ n \in Nat /\ n >= 1
      /\ longer \in Seq(Seq(CodeUnit)) /\ Len(longer) = n + 1
      /\ longer[n + 1] = <<>> /\ \A i \in 1..n : longer[i] = levels[i]
  BY <1>1, <1>2, <1>3
<1>5. PICK parts : parts = Parts(levels)
  OBVIOUS
<1>6. PICK more : more = Parts(longer)
  OBVIOUS
<1>7. /\ parts \in Seq(Seq(CodeUnit)) /\ Len(parts) = n
      /\ \A i \in 1..n : parts[i] = IF i = 1 THEN levels[i] ELSE <<Slash>> \o levels[i]
  BY <1>1, <1>5, PartsType
<1>8. /\ more \in Seq(Seq(CodeUnit)) /\ Len(more) = n + 1
      /\ \A i \in 1..(n + 1) : more[i] = IF i = 1 THEN longer[i] ELSE <<Slash>> \o longer[i]
  BY <1>4, <1>6, PartsType
<1>9. more = Append(parts, <<Slash>>)
  <2>1. PICK other : other = Append(parts, <<Slash>>)
    OBVIOUS
  <2>2. /\ other \in Seq(Seq(CodeUnit)) /\ Len(other) = n + 1
        /\ other[n + 1] = <<Slash>> /\ \A i \in 1..n : other[i] = parts[i]
    BY <1>3, <1>7, <2>1
  <2>3. ASSUME NEW i \in 1..(n + 1) PROVE more[i] = other[i]
    <3>1. CASE i = n + 1
      <4>1. i # 1 /\ longer[i] = <<>>
        BY <1>4, <3>1
      <4>2. more[i] = <<Slash>> \o <<>>
        BY <1>8, <4>1
      <4> QED
        BY <1>3, <2>2, <3>1, <4>2
    <3>2. CASE i # n + 1
      <4>1. i \in 1..n
        BY <1>4, <3>2
      <4>2. longer[i] = levels[i] /\ other[i] = parts[i]
        BY <1>4, <2>2, <4>1
      <4> QED
        BY <1>7, <1>8, <4>1, <4>2, ZenonT(60)
    <3> QED
      BY <3>1, <3>2
  <2>4. more = other
    BY <1>8, <2>2, <2>3, SameElements
  <2> QED
    BY <2>1, <2>4
<1>10. FlattenSeq(more) = FlattenSeq(parts) \o <<Slash>>
  BY <1>3, <1>7, <1>9, FlattenAppend
<1>11. FlattenSeq(parts) \in Seq(CodeUnit)
  BY <1>7, FlattenType
<1>12. FlattenSeq(more) = Append(FlattenSeq(parts), Slash)
  <2>1. PICK joined : joined = FlattenSeq(parts)
    OBVIOUS
  <2>2. joined \o <<Slash>> = Append(joined, Slash)
    BY <1>11, <2>1 DEF Slash
  <2> QED
    BY <1>10, <2>1, <2>2
<1> QED
  BY <1>2, <1>5, <1>6, <1>12 DEF JoinTopicLevels, Parts

LEMMA CharacterJoins ==
    ASSUME NEW levels \in Seq(Seq(CodeUnit)), levels # <<>>, NEW c \in CodeUnit
    PROVE  JoinTopicLevels([levels EXCEPT ![Len(levels)] = Append(@, c)])
             = Append(JoinTopicLevels(levels), c)
<1>1. PICK n : n = Len(levels)
  OBVIOUS
<1>2. n \in Nat /\ n >= 1 /\ n \in 1..n /\ levels[n] \in Seq(CodeUnit)
  BY <1>1
<1>3. PICK last : last = levels[n]
  OBVIOUS
<1>4. PICK longer : longer = [levels EXCEPT ![n] = Append(last, c)]
  OBVIOUS
<1>5. /\ longer \in Seq(Seq(CodeUnit)) /\ Len(longer) = n
      /\ longer[n] = Append(last, c) /\ \A i \in 1..(n - 1) : longer[i] = levels[i]
  <2>1. Append(last, c) \in Seq(CodeUnit)
    BY <1>2, <1>3
  <2> QED
    BY <1>1, <1>2, <1>4, <2>1
<1>6. PICK parts : parts = Parts(levels)
  OBVIOUS
<1>7. PICK more : more = Parts(longer)
  OBVIOUS
<1>8. /\ parts \in Seq(Seq(CodeUnit)) /\ Len(parts) = n
      /\ \A i \in 1..n : parts[i] = IF i = 1 THEN levels[i] ELSE <<Slash>> \o levels[i]
  BY <1>1, <1>6, PartsType
<1>9. /\ more \in Seq(Seq(CodeUnit)) /\ Len(more) = n
      /\ \A i \in 1..n : more[i] = IF i = 1 THEN longer[i] ELSE <<Slash>> \o longer[i]
  BY <1>5, <1>7, PartsType
<1>10. PICK front : front = SubSeq(parts, 1, n - 1)
  OBVIOUS
<1>11. /\ front \in Seq(Seq(CodeUnit)) /\ Len(front) = n - 1
       /\ \A i \in 1..(n - 1) : front[i] = parts[i]
  BY <1>2, <1>8, <1>10
<1>12. PICK x : x = parts[n]
  OBVIOUS
<1>13. x \in Seq(CodeUnit) /\ Append(x, c) \in Seq(CodeUnit)
  BY <1>2, <1>8, <1>12
<1>14. parts = Append(front, x)
  <2>1. PICK other : other = Append(front, x)
    OBVIOUS
  <2>2. /\ other \in Seq(Seq(CodeUnit)) /\ Len(other) = n
        /\ other[n] = x /\ \A i \in 1..(n - 1) : other[i] = front[i]
    BY <1>2, <1>11, <1>13, <2>1
  <2>3. ASSUME NEW i \in 1..n PROVE parts[i] = other[i]
    <3>1. i = n \/ i \in 1..(n - 1)
      BY <1>2
    <3> QED
      BY <1>11, <1>12, <2>2, <3>1
  <2>4. parts = other
    BY <1>8, <2>2, <2>3, SameElements
  <2> QED
    BY <2>1, <2>4
<1>15. more[n] = Append(x, c)
  <2>1. CASE n = 1
    BY <1>2, <1>3, <1>5, <1>8, <1>9, <1>12, <2>1
  <2>2. CASE n # 1
    <3>1. x = <<Slash>> \o last /\ more[n] = <<Slash>> \o Append(last, c)
      BY <1>2, <1>3, <1>5, <1>8, <1>9, <1>12, <2>2
    <3>2. <<Slash>> \o Append(last, c) = Append(<<Slash>> \o last, c)
      <4>1. PICK left : left = <<Slash>> \o Append(last, c)
        OBVIOUS
      <4>2. PICK right : right = Append(<<Slash>> \o last, c)
        OBVIOUS
      <4>3. <<Slash>> \in Seq(CodeUnit) /\ last \in Seq(CodeUnit)
        BY <1>2, <1>3, SlashIsString
      <4>4. left \in Seq(CodeUnit) /\ right \in Seq(CodeUnit) /\ Len(left) = Len(right)
        BY <4>1, <4>2, <4>3
      <4>5. \A i \in 1..Len(left) : left[i] = right[i]
        BY <4>1, <4>2, <4>3
      <4> QED
        BY <4>1, <4>2, <4>4, <4>5, SameElements
    <3> QED
      BY <3>1, <3>2
  <2> QED
    BY <2>1, <2>2
<1>16. more = Append(front, Append(x, c))
  <2>1. PICK other : other = Append(front, Append(x, c))
    OBVIOUS
  <2>2. /\ other \in Seq(Seq(CodeUnit)) /\ Len(other) = n
        /\ other[n] = Append(x, c) /\ \A i \in 1..(n - 1) : other[i] = front[i]
    BY <1>2, <1>11, <1>13, <2>1
  <2>3. ASSUME NEW i \in 1..n PROVE more[i] = other[i]
    <3>1. CASE i = n
      BY <1>15, <2>2, <3>1
    <3>2. CASE i # n
      <4>1. i \in 1..(n - 1)
        BY <1>2, <3>2
      <4>2. longer[i] = levels[i] /\ other[i] = parts[i]
        BY <1>5, <1>11, <2>2, <4>1
      <4> QED
        BY <1>8, <1>9, <4>2, ZenonT(60)
    <3> QED
      BY <3>1, <3>2
  <2>4. more = other
    BY <1>9, <2>2, <2>3, SameElements
  <2> QED
    BY <2>1, <2>4
<1>17. PICK joined : joined = FlattenSeq(front)
  OBVIOUS
<1>18. joined \in Seq(CodeUnit)
  BY <1>11, <1>17, FlattenType
<1>19. FlattenSeq(parts) = joined \o x /\ FlattenSeq(more) = joined \o Append(x, c)
  BY <1>11, <1>13, <1>14, <1>16, <1>17, FlattenAppend
<1>20. joined \o Append(x, c) = Append(joined \o x, c)
  <2>1. PICK left : left = joined \o Append(x, c)
    OBVIOUS
  <2>2. PICK right : right = Append(joined \o x, c)
    OBVIOUS
  <2>3. left \in Seq(CodeUnit) /\ right \in Seq(CodeUnit) /\ Len(left) = Len(right)
    BY <1>13, <1>18, <2>1, <2>2
  <2>4. \A i \in 1..Len(left) : left[i] = right[i]
    BY <1>13, <1>18, <2>1, <2>2
  <2> QED
    BY <2>1, <2>2, <2>3, <2>4, SameElements
<1>21. longer = [levels EXCEPT ![Len(levels)] = Append(@, c)]
  BY <1>1, <1>2, <1>3, <1>4
<1>22. JoinTopicLevels(longer) = Append(JoinTopicLevels(levels), c)
  BY <1>6, <1>7, <1>19, <1>20 DEF JoinTopicLevels, Parts
<1> QED
  BY <1>21, <1>22

\* Joining the levels of a string gives the string.
LEMMA ParsedJoins ==
    ASSUME NEW topic \in Seq(CodeUnit)
    PROVE  JoinTopicLevels(ParseTopicLevels(topic)) = topic
<1>1. PICK n : n = Len(topic)
  OBVIOUS
<1>2. n \in Nat
  BY <1>1
<1>3. PICK f : f = TheLevels(topic)
  OBVIOUS
<1>4. IsLevels(f, topic, n)
  BY <1>1, <1>2, <1>3, LevelsExist DEF TheLevels
<1> DEFINE Joined(i) == /\ f[i] \in Seq(Seq(CodeUnit)) /\ f[i] # <<>>
                        /\ JoinTopicLevels(f[i]) = SubSeq(topic, 1, i)
           S == {i \in Nat : i \in 0..n => Joined(i)}
<1>5. 0 \in S
  <2>1. 0 \in 0..n
    BY <1>2
  <2>2. f[0] = << <<>> >>
    BY <1>4, <2>1, LevelsEntry DEF LevelsAfter
  <2>3. Parts(<< <<>> >>) = << <<>> >>
    <3>1. PICK levels : levels = << <<>> >>
      OBVIOUS
    <3>2. levels \in Seq(Seq(CodeUnit)) /\ Len(levels) = 1
      BY <3>1
    <3>3. PICK parts : parts = Parts(levels)
      OBVIOUS
    <3>4. parts \in Seq(Seq(CodeUnit)) /\ Len(parts) = 1 /\ parts[1] = levels[1]
      <4>1. PICK k : k = Len(levels)
        OBVIOUS
      <4>2. /\ parts \in Seq(Seq(CodeUnit)) /\ Len(parts) = k
            /\ \A i \in 1..k : parts[i] = IF i = 1 THEN levels[i] ELSE <<Slash>> \o levels[i]
        BY <3>2, <3>3, <4>1, PartsType
      <4>3. k = 1 /\ 1 \in 1..1
        BY <3>2, <4>1
      <4> QED
        BY <4>2, <4>3
    <3>5. parts = levels
      BY <3>2, <3>4, SameElements
    <3> QED
      BY <3>1, <3>3, <3>5
  <2>4. JoinTopicLevels(f[0]) = <<>>
    BY <2>2, <2>3, FlattenOne DEF JoinTopicLevels, Parts
  <2>5. SubSeq(topic, 1, 0) = <<>>
    OBVIOUS
  <2>6. << <<>> >> \in Seq(Seq(CodeUnit)) /\ << <<>> >> # <<>>
    OBVIOUS
  <2> QED
    BY <2>2, <2>4, <2>5, <2>6
<1>6. ASSUME NEW i \in Nat, i \in S PROVE i + 1 \in S
  <2> SUFFICES ASSUME i + 1 \in 0..n PROVE Joined(i + 1)
    OBVIOUS
  <2>1. PICK levels : levels = f[i]
    OBVIOUS
  <2>2. /\ levels \in Seq(Seq(CodeUnit)) /\ levels # <<>>
        /\ JoinTopicLevels(levels) = SubSeq(topic, 1, i)
    BY <1>2, <1>6, <2>1
  <2>3. f[i + 1] = LevelsAfter(f[(i + 1) - 1], topic, i + 1)
    BY <1>4, LevelsEntry
  <2>4. (i + 1) - 1 = i /\ i + 1 # 0
    OBVIOUS
  <2>5. PICK c : c = topic[i + 1]
    OBVIOUS
  <2>6. f[i + 1] = IF c = Slash THEN Append(levels, <<>>)
                   ELSE [levels EXCEPT ![Len(levels)] = Append(@, c)]
    BY <2>1, <2>3, <2>4, <2>5 DEF LevelsAfter
  <2>7. c \in CodeUnit
    BY <1>1, <2>5
  <2>8. SubSeq(topic, 1, i + 1) = Append(SubSeq(topic, 1, i), c)
    <3>1. PICK left : left = SubSeq(topic, 1, i + 1)
      OBVIOUS
    <3>2. PICK right : right = Append(SubSeq(topic, 1, i), c)
      OBVIOUS
    <3>3. /\ left \in Seq(CodeUnit) /\ Len(left) = i + 1
          /\ \A j \in 1..(i + 1) : left[j] = topic[j]
      BY <1>1, <3>1
    <3>4. /\ right \in Seq(CodeUnit) /\ Len(right) = i + 1
          /\ right[i + 1] = c /\ \A j \in 1..i : right[j] = topic[j]
      BY <1>1, <2>7, <3>2
    <3>5. \A j \in 1..(i + 1) : left[j] = right[j]
      <4> TAKE j \in 1..(i + 1)
      <4>1. j = i + 1 \/ j \in 1..i
        OBVIOUS
      <4> QED
        BY <2>5, <3>3, <3>4, <4>1
    <3> QED
      BY <3>1, <3>2, <3>3, <3>4, <3>5, SameElements
  <2>9. JoinTopicLevels(f[i + 1]) = Append(JoinTopicLevels(levels), c)
    <3>1. CASE c = Slash
      BY <2>2, <2>6, <3>1, SlashJoins
    <3>2. CASE c # Slash
      <4>1. PICK longer : longer = [levels EXCEPT ![Len(levels)] = Append(@, c)]
        OBVIOUS
      <4>2. JoinTopicLevels(longer) = Append(JoinTopicLevels(levels), c)
        BY <2>2, <2>7, <4>1, CharacterJoins
      <4>3. f[i + 1] = longer
        BY <2>6, <3>2, <4>1
      <4> QED
        BY <4>2, <4>3
    <3> QED
      BY <3>1, <3>2
  <2>10. f[i + 1] \in Seq(Seq(CodeUnit)) /\ f[i + 1] # <<>>
    <3>1. Len(levels) \in Nat /\ Len(levels) >= 1
      BY <2>2
    <3>2. levels[Len(levels)] \in Seq(CodeUnit)
      BY <2>2, <3>1
    <3>3. <<>> \in Seq(CodeUnit) /\ Append(levels[Len(levels)], c) \in Seq(CodeUnit)
      BY <2>7, <3>2
    <3>4. Append(levels, <<>>) \in Seq(Seq(CodeUnit)) /\ Append(levels, <<>>) # <<>>
      <4>1. Append(levels, <<>>) \in Seq(Seq(CodeUnit))
        BY <2>2, <3>3
      <4>2. Len(Append(levels, <<>>)) = Len(levels) + 1
        BY <2>2, <3>3
      <4>3. Len(Append(levels, <<>>)) # 0
        BY <3>1, <4>2
      <4> QED
        BY <4>1, <4>3, SMTT(30)
    <3>5. PICK longer : longer = [levels EXCEPT ![Len(levels)] = Append(@, c)]
      OBVIOUS
    <3>6. longer \in Seq(Seq(CodeUnit)) /\ Len(longer) = Len(levels)
      BY <2>2, <3>3, <3>5
    <3>7. longer # <<>>
      BY <3>1, <3>6
    <3> QED
      BY <2>6, <3>4, <3>5, <3>6, <3>7
  <2> QED
    BY <2>2, <2>8, <2>9, <2>10
<1>7. \A i \in Nat : i \in S
  <2> HIDE DEF S
  <2> QED
    BY <1>5, <1>6, Induction
<1>8. Joined(n)
  BY <1>2, <1>7
<1>9. SubSeq(topic, 1, n) = topic
  BY <1>1
<1> QED
  BY <1>1, <1>3, <1>8, <1>9, ParsedIsLevels

-----------------------------------------------------------------------------
(* Filters. *)

\* A character of a level is first or last in it as its neighbours in the string say.
StandsAt(filter, len, n, level, k, o, p) ==
    /\ p \in 1..len /\ filter[p] = level[o]
    /\ (p = 1 \/ filter[p - 1] = Slash) <=> (o = 1)
    /\ (p = len \/ filter[p + 1] = Slash) <=> (o = Len(level))
    /\ o = Len(level) => (p = len <=> k = n)

LEMMA LevelPlaces ==
    ASSUME NEW filter \in Seq(CodeUnit), NEW levels, NEW start, NEW len, len = Len(filter),
           Splits(filter, levels, start, len), NEW n, n = Len(levels),
           NEW k, k \in 1..n, NEW level, level = levels[k],
           NEW o, o \in 1..Len(level), NEW p, p = start[k] + o
    PROVE  StandsAt(filter, len, n, level, k, o, p)
<1>1. levels \in Seq(Seq(CodeUnit)) /\ n \in Nat /\ n >= 1 /\ start \in [1..n -> Nat]
  BY DEF Splits
<1>2. PICK begin : begin = start[k]
  OBVIOUS
<1>3. level = levels[k]
  OBVIOUS
<1>4. PICK size : size = Len(level)
  OBVIOUS
<1>5. begin \in Nat /\ level \in Seq(CodeUnit) /\ size \in Nat /\ len \in Nat
  <2>1. level \in Seq(CodeUnit)
    BY <1>1, <1>3
  <2>2. begin \in Nat
    BY <1>1, <1>2
  <2>3. size \in Nat
    BY <1>4, <2>1
  <2>4. len \in Nat
    OBVIOUS
  <2> QED
    BY <2>1, <2>2, <2>3, <2>4
<1>6. o \in 1..size /\ p = begin + o
  BY <1>2, <1>3, <1>4
<1>7. \/ k = 1 /\ begin = 0
      \/ k > 1 /\ begin >= 1 /\ filter[begin] = Slash
  <2>1. start[1] = 0 /\ \A j \in 2..n : start[j] \in 1..len /\ filter[start[j]] = Slash
    BY DEF Splits
  <2>2. k = 1 \/ k \in 2..n
    BY <1>1
  <2> QED
    BY <1>2, <2>1, <2>2
<1>8. \/ k = n /\ begin + size = len
      \/ k < n /\ begin + size < len /\ filter[begin + size + 1] = Slash
  <2>1. CASE k = n
    <3>1. start[n] + Len(levels[n]) = len
      BY DEF Splits
    <3> QED
      BY <1>2, <1>3, <1>4, <2>1, <3>1
  <2>2. CASE k # n
    <3>1. k \in 1..(n - 1) /\ k + 1 \in 2..n /\ k < n
      BY <1>1, <2>2
    <3>2. start[k] + Len(levels[k]) = start[k + 1] - 1
      BY <3>1 DEF Splits
    <3>3. start[k + 1] \in 1..len /\ filter[start[k + 1]] = Slash
      BY <3>1 DEF Splits
    <3>4. begin + size + 1 = start[k + 1]
      BY <1>2, <1>3, <1>4, <1>5, <3>2, <3>3
    <3>5. begin + size < len
      BY <1>5, <3>3, <3>4
    <3> QED
      BY <3>1, <3>3, <3>4, <3>5
  <2> QED
    BY <2>1, <2>2
<1>9. \A j \in 1..size : level[j] = filter[begin + j] /\ filter[begin + j] # Slash
  BY <1>2, <1>3, <1>4, SMTT(30) DEF Splits
<1>10. p \in 1..len /\ filter[p] = level[o]
  BY <1>5, <1>6, <1>8, <1>9
<1>11. (p = 1 \/ filter[p - 1] = Slash) <=> (o = 1)
  <2>1. CASE o = 1
    BY <1>5, <1>6, <1>7, <2>1
  <2>2. CASE o # 1
    <3>1. o - 1 \in 1..size /\ p - 1 = begin + (o - 1) /\ p # 1
      BY <1>5, <1>6, <2>2
    <3> QED
      BY <1>9, <2>2, <3>1
  <2> QED
    BY <2>1, <2>2
<1>12. (p = len \/ filter[p + 1] = Slash) <=> (o = size)
  <2>1. CASE o = size
    BY <1>5, <1>6, <1>8, <2>1
  <2>2. CASE o # size
    <3>1. o + 1 \in 1..size /\ p + 1 = begin + (o + 1) /\ p # len
      BY <1>5, <1>6, <1>8, <2>2
    <3> QED
      BY <1>9, <2>2, <3>1
  <2> QED
    BY <2>1, <2>2
<1>13. o = size => (p = len <=> k = n)
  BY <1>1, <1>5, <1>6, <1>8
<1> QED
  BY <1>4, <1>10, <1>11, <1>12, <1>13 DEF StandsAt

LEMMA IncludesAt ==
    ASSUME NEW level \in Seq(CodeUnit), NEW c
    PROVE  /\ Includes(level, <<c>>) <=> \E o \in 1..Len(level) : level[o] = c
           /\ level = <<c>> <=> Len(level) = 1 /\ level[1] = c
<1>1. DOMAIN level = 1..Len(level) /\ <<c>>[1] = c
  OBVIOUS
<1>2. Includes(level, <<c>>) <=> \E o \in 1..Len(level) : level[o] = c
  BY <1>1 DEF Includes, ToSet
<1>3. ASSUME Len(level) = 1, level[1] = c PROVE level = <<c>>
  <2>1. c \in CodeUnit
    BY <1>3
  <2>2. <<c>> \in Seq(CodeUnit) /\ Len(<<c>>) = 1
    BY <2>1
  <2>3. PICK other : other = <<c>>
    OBVIOUS
  <2>4. other \in Seq(CodeUnit) /\ Len(other) = 1 /\ other[1] = c
    BY <2>2, <2>3
  <2>5. level = other
    BY <1>3, <2>4, SameElements
  <2> QED
    BY <2>3, <2>5
<1> QED
  BY <1>1, <1>2, <1>3

\* What a level may be, and where a character may be.
LevelAllowed(levels, n, k) ==
    /\ Includes(levels[k], WildcardMulti) => levels[k] = WildcardMulti /\ k = n
    /\ Includes(levels[k], WildcardSingle) => levels[k] = WildcardSingle
PlaceAllowed(filter, len, p) ==
    /\ filter[p] \in {WildcardSingle[1], WildcardMulti[1]} =>
          /\ p = 1 \/ filter[p - 1] = Slash
          /\ p = len \/ filter[p + 1] = Slash
    /\ filter[p] = WildcardMulti[1] => p = len

\* The loop over the levels allows a wildcard exactly where MQTT has it.
LEMMA ValidIsWellFormed ==
    ASSUME NEW filter \in Seq(CodeUnit)
    PROVE  IsValidTopicFilter(filter) <=> WellFormedFilter(filter)
<1>1. PICK levels : levels = ParseTopicLevels(filter)
  OBVIOUS
<1>2. PICK len : len = Len(filter)
  OBVIOUS
<1>3. PICK n : n = Len(levels)
  OBVIOUS
<1>4. PICK start : Splits(filter, levels, start, len)
  BY <1>1, <1>2, ParsedSplits
<1>5. levels \in Seq(Seq(CodeUnit)) /\ n \in Nat /\ DOMAIN levels = 1..n
  BY <1>3, <1>4 DEF Splits
<1>6. DOMAIN filter = 1..len
  BY <1>2
<1>7. IsValidTopicFilter(filter) <=>
        HasTopicLength(filter) /\ \A k \in 1..n : LevelAllowed(levels, n, k)
  BY <1>1, <1>3, <1>5 DEF IsValidTopicFilter, LevelAllowed
<1>8. WellFormedFilter(filter) <=>
        HasTopicLength(filter) /\ \A p \in 1..len : PlaceAllowed(filter, len, p)
  BY <1>2, <1>6 DEF WellFormedFilter, PlaceAllowed
<1>9. WildcardSingle = <<43>> /\ WildcardMulti = <<35>> /\ Slash = 47
  BY DEF WildcardSingle, WildcardMulti, Slash
<1>10. WildcardSingle[1] = 43 /\ WildcardMulti[1] = 35
  BY DEF WildcardSingle, WildcardMulti
<1>11. ASSUME \A k \in 1..n : LevelAllowed(levels, n, k), NEW p \in 1..len
       PROVE  PlaceAllowed(filter, len, p)
  <2> SUFFICES ASSUME NEW c \in {43, 35}, filter[p] = c
               PROVE  /\ p = 1 \/ filter[p - 1] = Slash
                      /\ p = len \/ filter[p + 1] = Slash
                      /\ c = 35 => p = len
    BY <1>10 DEF PlaceAllowed
  <2>1. filter[p] # Slash
    BY <1>9
  <2>2. PICK k \in 1..n : \E o \in 1..Len(levels[k]) : p = start[k] + o
    BY <1>3, <1>4, <2>1 DEF Splits
  <2>3. k \in 1..n
    BY <2>2
  <2>4. PICK o \in 1..Len(levels[k]) : p = start[k] + o
    BY <2>2
  <2>5. o \in 1..Len(levels[k])
    BY <2>4
  <2>6. PICK level : level = levels[k]
    OBVIOUS
  <2>7. level \in Seq(CodeUnit)
    BY <1>3, <1>5, <2>3, <2>6
  <2>8. StandsAt(filter, len, n, level, k, o, p)
    <3>1. p = start[k] + o /\ o \in 1..Len(level)
      BY <2>4, <2>5, <2>6
    <3> QED
      BY <1>2, <1>3, <1>4, <2>3, <2>6, <3>1, LevelPlaces
  <2>9. Includes(level, <<c>>)
    BY <2>5, <2>6, <2>7, <2>8, IncludesAt, ZenonT(60) DEF StandsAt
  <2>10. level = <<c>> /\ (c = 35 => k = n)
    BY <1>9, <1>11, <2>3, <2>6, <2>9 DEF LevelAllowed
  <2>11. Len(level) = 1
    BY <2>7, <2>10, IncludesAt
  <2>12. o = 1 /\ o = Len(level)
    BY <2>5, <2>6, <2>11
  <2> QED
    BY <2>8, <2>10, <2>12 DEF StandsAt
<1>12. ASSUME \A p \in 1..len : PlaceAllowed(filter, len, p), NEW k \in 1..n
       PROVE  LevelAllowed(levels, n, k)
  <2>1. PICK level : level = levels[k]
    OBVIOUS
  <2>2. level \in Seq(CodeUnit)
    BY <1>3, <1>5, <2>1
  <2>3. ASSUME NEW c \in {43, 35}, Includes(level, <<c>>)
        PROVE  level = <<c>> /\ (c = 35 => k = n)
    <3>1. PICK o \in 1..Len(level) : level[o] = c
      BY <2>2, <2>3, IncludesAt
    <3>2. o \in 1..Len(level)
      BY <3>1
    <3>3. PICK p : p = start[k] + o
      OBVIOUS
    <3>4. StandsAt(filter, len, n, level, k, o, p)
      <4>1. k \in 1..n
        BY <1>12
      <4> QED
        BY <1>2, <1>3, <1>4, <2>1, <3>2, <3>3, <4>1, LevelPlaces
    <3>5. /\ p = 1 \/ filter[p - 1] = Slash
          /\ p = len \/ filter[p + 1] = Slash
          /\ c = 35 => p = len
      BY <1>10, <1>12, <2>3, <3>1, <3>4 DEF PlaceAllowed, StandsAt
    <3>6. o = 1 /\ o = Len(level) /\ (c = 35 => k = n)
      BY <3>4, <3>5 DEF StandsAt
    <3>7. Len(level) = 1 /\ level[1] = c
      BY <3>1, <3>6
    <3> QED
      BY <2>2, <3>6, <3>7, IncludesAt
  <2> QED
    BY <1>9, <2>1, <2>3 DEF LevelAllowed
<1> QED
  BY <1>7, <1>8, <1>11, <1>12

\* The second loop makes the same tests.
LEMMA ValidatesWhatIsValid ==
    ASSUME NEW filter
    PROVE  ValidateTopicFilter(filter).ok <=> IsValidTopicFilter(filter)
<1>1. PICK levels : levels = ParseTopicLevels(filter)
  OBVIOUS
<1> DEFINE Fails(i) == \/ /\ Includes(levels[i], WildcardMulti)
                          /\ levels[i] # WildcardMulti \/ i # Len(levels)
                       \/ Includes(levels[i], WildcardSingle) /\ levels[i] # WildcardSingle
<1>2. ValidateTopicFilter(filter) =
        IF ~HasTopicLength(filter) \/ \E i \in DOMAIN levels : Fails(i)
        THEN Err("INVALID_TOPIC") ELSE Ok(filter)
  BY <1>1 DEF ValidateTopicFilter
<1>3. IsValidTopicFilter(filter) <=>
        HasTopicLength(filter) /\ \A i \in DOMAIN levels : ~Fails(i)
  BY <1>1 DEF IsValidTopicFilter
<1> HIDE DEF Fails
<1>4. ~Err("INVALID_TOPIC").ok /\ Ok(filter).ok
  BY DEF Err, Ok
<1> QED
  BY <1>2, <1>3, <1>4

\* What validateTopicFilter() leaves of the levels of a filter: # is the last one.
MultiIsLast(filterLevels) ==
    \A i \in 1..Len(filterLevels) : filterLevels[i] = WildcardMulti => i = Len(filterLevels)

\* A message is routed to a subscription if and only if the filter names the levels of its
\* topic one by one and ends with them or with #: the order in which topicMatches() tests the
\* lengths and the wildcards of each level (topic.ts) loses no case.
THEOREM MatchesAsSpecified ==
    ASSUME NEW Level, NEW topicLevels \in Seq(Level), NEW filterLevels \in Seq(Level),
           filterLevels # <<>>, MultiIsLast(filterLevels)
    PROVE  LevelsMatch(topicLevels, filterLevels) <=> FilterMatches(topicLevels, filterLevels)
<1> DEFINE n == Len(filterLevels)
           t == Len(topicLevels)
           Stops(i) == StopsAt(topicLevels, filterLevels, i)
           Agrees(i) == filterLevels[i] \in {WildcardSingle, topicLevels[i]}
<1>1. n \in Nat \ {0} /\ t \in Nat
  OBVIOUS
<1> HIDE DEF n, t
\* Where the filter has no #, the loop goes on exactly where the levels agree.
<1>2. \A i \in 1..n : filterLevels[i] # WildcardMulti => (~Stops(i) <=> i <= t /\ Agrees(i))
  BY <1>1 DEF StopsAt, t
<1>3. \A i \in 1..n : filterLevels[i] = WildcardMulti => Stops(i) /\ i = n
  BY DEF StopsAt, MultiIsLast, n
<1> HIDE DEF Stops, Agrees
<1>4. LevelsMatch(topicLevels, filterLevels) <=>
        \/ \E i \in 1..n : filterLevels[i] = WildcardMulti /\ \A j \in 1..(i - 1) : ~Stops(j)
        \/ (\A j \in 1..((n + 1) - 1) : ~Stops(j)) /\ t = n
  BY DEF LevelsMatch, Stops, n, t
<1>5. CASE filterLevels[n] = WildcardMulti
  <2>1. FilterMatches(topicLevels, filterLevels) <=>
          (t = n - 1 \/ t > n - 1) /\ \A i \in 1..(n - 1) : Agrees(i)
    BY <1>5 DEF FilterMatches, Agrees, n, t
  <2>2. LevelsMatch(topicLevels, filterLevels) <=> \A j \in 1..(n - 1) : ~Stops(j)
    BY <1>1, <1>3, <1>4, <1>5
  <2>3. \A j \in 1..(n - 1) : ~Stops(j) <=> j <= t /\ Agrees(j)
    BY <1>1, <1>2, <1>3
  <2>4. (\A j \in 1..(n - 1) : j <= t) <=> (t = n - 1 \/ t > n - 1)
    BY <1>1
  <2> QED
    BY <2>1, <2>2, <2>3, <2>4
<1>6. CASE filterLevels[n] # WildcardMulti
  <2>1. FilterMatches(topicLevels, filterLevels) <=> t = n /\ \A i \in 1..n : Agrees(i)
    BY <1>6 DEF FilterMatches, Agrees, n, t
  <2>2. \A i \in 1..n : filterLevels[i] # WildcardMulti
    BY <1>1, <1>3, <1>6
  <2>3. LevelsMatch(topicLevels, filterLevels) <=> (\A j \in 1..n : ~Stops(j)) /\ t = n
    BY <1>1, <1>4, <2>2
  <2> QED
    BY <1>1, <1>2, <2>1, <2>2, <2>3
<1> QED
  BY <1>5, <1>6

LEMMA ValidLevels ==
    ASSUME NEW filter \in Seq(CodeUnit), IsValidTopicFilter(filter),
           NEW levels, levels = ParseTopicLevels(filter)
    PROVE  levels \in Seq(Seq(CodeUnit)) /\ levels # <<>> /\ MultiIsLast(levels)
<1>1. PICK start : Splits(filter, levels, start, Len(filter))
  BY ParsedSplits
<1>2. levels \in Seq(Seq(CodeUnit)) /\ Len(levels) >= 1
  BY <1>1 DEF Splits
<1>3. levels # <<>> /\ DOMAIN levels = 1..Len(levels)
  BY <1>2
<1>4. \A i \in DOMAIN levels : Includes(levels[i], WildcardMulti) => i = Len(levels)
  BY DEF IsValidTopicFilter
<1>5. Includes(WildcardMulti, WildcardMulti)
  BY DEF Includes, ToSet, WildcardMulti
<1> QED
  BY <1>2, <1>3, <1>4, <1>5 DEF MultiIsLast

LEMMA SpecialCharacters ==
    /\ WildcardSingle = <<43>> /\ WildcardMulti = <<35>> /\ Dollar = <<36>> /\ Slash = 47
    /\ WildcardSingle[1] = 43 /\ WildcardMulti[1] = 35 /\ Dollar[1] = 36
    /\ {35, 36, 43, 47} \subseteq CodeUnit
BY UnitRange DEF WildcardSingle, WildcardMulti, Dollar, Slash

\* What topicMatches() says of a name and a filter that are valid, however long.
LEMMA RoutesAsSpecified ==
    ASSUME NEW name \in Seq(CodeUnit), NEW filter \in Seq(CodeUnit),
           IsValidTopicName(name), IsValidTopicFilter(filter)
    PROVE  TopicMatches(name, filter) <=>
              /\ FilterMatches(ParseTopicLevels(name), ParseTopicLevels(filter))
              /\ ~(name[1] = Dollar[1] /\ filter[1] \in {WildcardSingle[1], WildcardMulti[1]})
<1>1. PICK topicLevels : topicLevels = ParseTopicLevels(name)
  OBVIOUS
<1>2. PICK filterLevels : filterLevels = ParseTopicLevels(filter)
  OBVIOUS
<1>3. topicLevels \in Seq(Seq(CodeUnit))
  BY <1>1, ParsedSplits DEF Splits
<1>4. /\ filterLevels \in Seq(Seq(CodeUnit)) /\ filterLevels # <<>>
      /\ MultiIsLast(filterLevels)
  BY <1>2, ValidLevels
<1>5. LevelsMatch(topicLevels, filterLevels) <=> FilterMatches(topicLevels, filterLevels)
  BY <1>3, <1>4, MatchesAsSpecified
<1>6. Len(name) # 0 /\ Len(filter) # 0
  BY DEF IsValidTopicName, IsValidTopicFilter, HasTopicLength
<1>7. StartsWith(name, Dollar) <=> name[1] = Dollar[1]
  BY <1>6, SpecialCharacters, StartsWithCharacter
<1>8. StartsWith(filter, WildcardSingle) <=> filter[1] = WildcardSingle[1]
  BY <1>6, SpecialCharacters, StartsWithCharacter
<1>9. StartsWith(filter, WildcardMulti) <=> filter[1] = WildcardMulti[1]
  BY <1>6, SpecialCharacters, StartsWithCharacter
<1> QED
  BY <1>1, <1>2, <1>5, <1>7, <1>8, <1>9 DEF TopicMatches

\* Whatever filters a SUBSCRIBE carries, topicMatches() routes to them as MQTT 4.7 has it.
THEOREM RoutingIsAsSpecified == Spec => []RoutedAsSpecified
<1>1. CodecInv => RoutedAsSpecified
  <2> SUFFICES ASSUME CodecInv, packet.type = "SUBSCRIBE",
                      NEW filter \in Filters, NEW name \in TopicNames,
                      IsValidTopicFilter(filter), IsValidTopicName(name)
               PROVE  TopicMatches(name, filter) <=>
                        /\ FilterMatches(ParseTopicLevels(name), ParseTopicLevels(filter))
                        /\ ~ /\ name[1] = Dollar[1]
                             /\ filter[1] \in {WildcardSingle[1], WildcardMulti[1]}
    BY DEF RoutedAsSpecified
  <2>1. filter \in Seq(CodeUnit)
    BY InputAssumption DEF CodecInv, Filters
  <2>2. name \in Seq(CodeUnit)
    BY InputAssumption
  <2> QED
    BY <2>1, <2>2, RoutesAsSpecified
<1> QED
  BY <1>1, CodecInvariant, PTL

-----------------------------------------------------------------------------
(* Filters without wildcards, and shared subscriptions. *)

LEMMA NamesAreFilters ==
    ASSUME NEW filter \in Seq(CodeUnit), IsValidTopicName(filter)
    PROVE  IsValidTopicFilter(filter) /\ ValidateTopicName(filter).ok
<1>1. HasTopicLength(filter) /\ ~Includes(filter, <<43>>) /\ ~Includes(filter, <<35>>)
  BY SpecialCharacters DEF IsValidTopicName
<1>2. \A i \in DOMAIN filter : filter[i] # 43 /\ filter[i] # 35
  BY <1>1, IncludesAt
<1>3. WellFormedFilter(filter)
  BY <1>1, <1>2, SpecialCharacters DEF WellFormedFilter
<1>4. ValidateTopicName(filter).ok
  BY SpecialCharacters, <1>1 DEF ValidateTopicName, Ok
<1> QED
  BY <1>3, <1>4, ValidIsWellFormed

LEMMA NamesHaveNoWildcards ==
    ASSUME NEW filter \in Seq(CodeUnit), IsValidTopicName(filter),
           NEW levels, levels = ParseTopicLevels(filter), NEW k \in 1..Len(levels)
    PROVE  levels[k] # WildcardSingle /\ levels[k] # WildcardMulti
<1>1. PICK len : len = Len(filter)
  OBVIOUS
<1>2. PICK start : Splits(filter, levels, start, len)
  BY <1>1, ParsedSplits
<1>3. levels \in Seq(Seq(CodeUnit)) /\ start \in [1..Len(levels) -> Nat]
  BY <1>2 DEF Splits
<1>4. PICK level : level = levels[k]
  OBVIOUS
<1>5. level \in Seq(CodeUnit)
  BY <1>3, <1>4
<1>6. \A i \in 1..Len(filter) : filter[i] # 43 /\ filter[i] # 35
  BY SpecialCharacters, IncludesAt DEF IsValidTopicName
<1>7. ASSUME NEW c \in {35, 43}, level = <<c>> PROVE FALSE
  <2>1. Len(level) = 1 /\ level[1] = c
    BY <1>5, <1>7, IncludesAt
  <2>2. PICK p : p = start[k] + 1
    OBVIOUS
  <2>3. StandsAt(filter, len, Len(levels), level, k, 1, p)
    <3>1. k \in 1..Len(levels) /\ 1 \in 1..Len(level)
      BY <2>1
    <3>2. PICK n : n = Len(levels)
      OBVIOUS
    <3> QED
      BY <1>1, <1>2, <1>4, <2>2, <3>1, <3>2, LevelPlaces
  <2>4. p \in 1..Len(filter) /\ filter[p] = c
    BY <1>1, <2>1, <2>3 DEF StandsAt
  <2> QED
    BY <1>6, <2>4
<1> QED
  BY <1>4, <1>7, SpecialCharacters

\* A filter that is a topic name matches that name alone.
LEMMA NamesMatchThemselves ==
    ASSUME NEW filter \in Seq(CodeUnit), IsValidTopicName(filter), NEW name \in Seq(CodeUnit)
    PROVE  TopicMatches(name, filter) <=> name = filter
<1>1. IsValidTopicFilter(filter)
  BY NamesAreFilters
<1>2. PICK topicLevels : topicLevels = ParseTopicLevels(name)
  OBVIOUS
<1>3. PICK filterLevels : filterLevels = ParseTopicLevels(filter)
  OBVIOUS
<1>4. topicLevels \in Seq(Seq(CodeUnit))
  BY <1>2, ParsedSplits DEF Splits
<1>5. /\ filterLevels \in Seq(Seq(CodeUnit)) /\ filterLevels # <<>>
      /\ MultiIsLast(filterLevels)
  BY <1>1, <1>3, ValidLevels
<1>6. \A k \in 1..Len(filterLevels) :
          filterLevels[k] # WildcardSingle /\ filterLevels[k] # WildcardMulti
  BY <1>3, NamesHaveNoWildcards
<1>7. Len(filterLevels) \in 1..Len(filterLevels)
  BY <1>5
<1>8. FilterMatches(topicLevels, filterLevels) <=>
        /\ Len(topicLevels) = Len(filterLevels)
        /\ \A k \in 1..Len(filterLevels) : filterLevels[k] = topicLevels[k]
  BY <1>6, <1>7 DEF FilterMatches
<1>9. FilterMatches(topicLevels, filterLevels) <=> topicLevels = filterLevels
  <2>1. ASSUME /\ Len(topicLevels) = Len(filterLevels)
               /\ \A k \in 1..Len(filterLevels) : filterLevels[k] = topicLevels[k]
        PROVE  topicLevels = filterLevels
    BY <1>4, <1>5, <2>1, SameElements
  <2> QED
    BY <1>8, <2>1
<1>10. LevelsMatch(topicLevels, filterLevels) <=> topicLevels = filterLevels
  BY <1>4, <1>5, <1>9, MatchesAsSpecified
<1>11. topicLevels = filterLevels <=> name = filter
  BY <1>2, <1>3, ParsedJoins
<1>12. ~StartsWith(filter, WildcardSingle) /\ ~StartsWith(filter, WildcardMulti)
  <2>1. \A i \in 1..Len(filter) : filter[i] # 43 /\ filter[i] # 35
    BY SpecialCharacters, IncludesAt DEF IsValidTopicName
  <2>2. Len(filter) # 0 => filter[1] # 43 /\ filter[1] # 35
    BY <2>1
  <2> QED
    BY <2>2, SpecialCharacters, StartsWithCharacter
<1> QED
  BY <1>2, <1>3, <1>10, <1>11, <1>12 DEF TopicMatches

LEMMA BehindPrefix ==
    ASSUME NEW E, NEW s \in Seq(E), NEW t \in Seq(E)
    PROVE  IsPrefix(s, s \o t) /\ SubSeq(s \o t, Len(s) + 1, Len(s \o t)) = t
<1>1. PICK whole : whole = s \o t
  OBVIOUS
<1>2. /\ whole \in Seq(E) /\ Len(whole) = Len(s) + Len(t)
      /\ \A i \in 1..Len(s) : whole[i] = s[i]
      /\ \A i \in 1..Len(t) : whole[Len(s) + i] = t[i]
  BY <1>1
<1>3. SubSeq(s, 1, Len(s)) = SubSeq(whole, 1, Len(s))
  <2>1. PICK a : a = SubSeq(s, 1, Len(s))
    OBVIOUS
  <2>2. PICK b : b = SubSeq(whole, 1, Len(s))
    OBVIOUS
  <2>3. a \in Seq(E) /\ Len(a) = Len(s) /\ \A i \in 1..Len(s) : a[i] = s[i]
    BY <2>1
  <2>4. b \in Seq(E) /\ Len(b) = Len(s) /\ \A i \in 1..Len(s) : b[i] = whole[i]
    BY <1>2, <2>2
  <2>5. a = b
    BY <1>2, <2>3, <2>4, SameElements
  <2> QED
    BY <2>1, <2>2, <2>5
<1>4. SubSeq(whole, Len(s) + 1, Len(whole)) = t
  <2>1. PICK a : a = SubSeq(whole, Len(s) + 1, Len(whole))
    OBVIOUS
  <2>2. /\ a \in Seq(E) /\ Len(a) = Len(t)
        /\ \A i \in 1..Len(t) : a[i] = whole[Len(s) + i]
    BY <1>2, <2>1
  <2>3. a = t
    BY <1>2, <2>2, SameElements
  <2> QED
    BY <2>1, <2>3
<1>5. Len(s) <= Len(whole)
  BY <1>2
<1> QED
  BY <1>1, <1>3, <1>4, <1>5 DEF IsPrefix

\* indexOf("/"): the place of the first slash, if there is one.
FirstSlash(string) == SelectInSeq(string, LAMBDA c : c = Slash)

LEMMA SlashIsFirst ==
    ASSUME NEW string \in Seq(CodeUnit), NEW slash, slash = FirstSlash(string)
    PROVE  \/ slash = 0 /\ \A i \in 1..Len(string) : string[i] # Slash
           \/ /\ slash \in 1..Len(string) /\ string[slash] = Slash
              /\ \A i \in 1..(slash - 1) : string[i] # Slash
<1> DEFINE I == {i \in 1..Len(string) : string[i] = Slash}
<1>1. slash = IF I # {} THEN Min(I) ELSE 0
  BY DEF FirstSlash, SelectInSeq
<1>2. I \in SUBSET Nat
  OBVIOUS
<1>3. CASE I = {}
  BY <1>1, <1>3
<1>4. CASE I # {}
  <2>1. \E n \in I : \A m \in I : n <= m
    BY <1>2, <1>4, LeastMember
  <2>2. slash \in I /\ \A m \in I : slash <= m
    BY <1>1, <1>4, <2>1 DEF Min
  <2>3. slash \in 1..Len(string) /\ string[slash] = Slash
    BY <2>2
  <2>4. ASSUME NEW i \in 1..(slash - 1) PROVE string[i] # Slash
    <3>1. i \in 1..Len(string) /\ ~(slash <= i)
      BY <2>3
    <3> QED
      BY <2>2, <3>1
  <2> QED
    BY <2>3, <2>4
<1> QED
  BY <1>3, <1>4

\* The group that a prefix of a string names.
LEMMA GroupOf ==
    ASSUME NEW string \in Seq(CodeUnit), NEW n \in 1..Len(string), NEW S
    PROVE  ToSet(SubSeq(string, 1, n - 1)) \cap S = {} <=>
              \A i \in 1..(n - 1) : string[i] \notin S
<1>1. PICK group : group = SubSeq(string, 1, n - 1)
  OBVIOUS
<1>2. n - 1 \in Nat /\ n - 1 <= Len(string)
  OBVIOUS
<1>3. group \in Seq(CodeUnit) /\ Len(group) = n - 1 /\ \A i \in 1..(n - 1) : group[i] = string[i]
  BY <1>1, <1>2
<1>4. ToSet(group) = {group[i] : i \in 1..(n - 1)}
  BY <1>3 DEF ToSet
<1> QED
  BY <1>1, <1>3, <1>4

LEMMA PrefixCharacters ==
    /\ 36 \in CodeUnit /\ 115 \in CodeUnit /\ 104 \in CodeUnit /\ 97 \in CodeUnit
    /\ 114 \in CodeUnit /\ 101 \in CodeUnit /\ 47 \in CodeUnit
<1>1. 36 \in CodeUnit
  BY UnitRange
<1>2. 115 \in CodeUnit
  BY UnitRange
<1>3. 104 \in CodeUnit
  BY UnitRange
<1>4. 97 \in CodeUnit
  BY UnitRange
<1>5. 114 \in CodeUnit
  BY UnitRange
<1>6. 101 \in CodeUnit
  BY UnitRange
<1>7. 47 \in CodeUnit
  BY UnitRange
<1> QED
  BY <1>1, <1>2, <1>3, <1>4, <1>5, <1>6, <1>7, Zenon

LEMMA SharedPrefix ==
    ASSUME NEW filter \in Seq(CodeUnit), NEW whole, whole = SharedSubscriptionPrefix \o filter
    PROVE  /\ IsSharedSubscription(whole)
           /\ SubSeq(whole, Len(SharedSubscriptionPrefix) + 1, Len(whole)) = filter
<1>1. SharedSubscriptionPrefix \in Seq(CodeUnit)
  <2>1. <<36, 115, 104, 97, 114, 101, 47>> \in Seq(CodeUnit)
    BY PrefixCharacters
  <2> QED
    BY <2>1 DEF SharedSubscriptionPrefix
<1> QED
  BY <1>1, BehindPrefix DEF IsSharedSubscription, StartsWith

\* parseSharedSubscription() looks for the first slash behind $share/.
LEMMA SharedIsParsed ==
    ASSUME NEW filter \in Seq(CodeUnit), NEW slash, slash = FirstSlash(filter),
           NEW group, group = SubSeq(filter, 1, slash - 1),
           NEW rest, rest = SubSeq(filter, slash + 1, Len(filter))
    PROVE  ParseSharedSubscription(SharedSubscriptionPrefix \o filter).ok <=>
              /\ slash \notin {0, 1}
              /\ ~Includes(group, WildcardSingle) /\ ~Includes(group, WildcardMulti)
              /\ ValidateTopicFilter(rest).ok
<1>1. PICK whole : whole = SharedSubscriptionPrefix \o filter
  OBVIOUS
<1>2. /\ IsSharedSubscription(whole)
      /\ SubSeq(whole, Len(SharedSubscriptionPrefix) + 1, Len(whole)) = filter
  BY <1>1, SharedPrefix
<1> DEFINE Refused == \/ slash \in {0, 1}
                      \/ Includes(group, WildcardSingle) \/ Includes(group, WildcardMulti)
                      \/ ~ValidateTopicFilter(rest).ok
<1>3. ParseSharedSubscription(whole) =
        IF Refused THEN Err("INVALID_TOPIC") ELSE Ok([shareGroup |-> group, topicFilter |-> rest])
  BY <1>2 DEF ParseSharedSubscription, FirstSlash
<1> HIDE DEF Refused
<1>4. ~Err("INVALID_TOPIC").ok /\ Ok([shareGroup |-> group, topicFilter |-> rest]).ok
  BY DEF Err, Ok
<1>5. ParseSharedSubscription(whole).ok <=> ~Refused
  BY <1>3, <1>4
<1> QED
  BY <1>1, <1>5 DEF Refused

\* A group has a name without wildcards and ends at a slash; behind it is a valid filter.
LEMMA SharedAsSpecified ==
    ASSUME NEW filter \in Seq(CodeUnit)
    PROVE  ParseSharedSubscription(SharedSubscriptionPrefix \o filter).ok <=>
              \E n \in 2..Len(filter) :
                 /\ filter[n] = Slash /\ WellFormedFilter(SubSeq(filter, n + 1, Len(filter)))
                 /\ ToSet(SubSeq(filter, 1, n - 1))
                       \cap {Slash, WildcardSingle[1], WildcardMulti[1]} = {}
<1>1. PICK slash : slash = FirstSlash(filter)
  OBVIOUS
<1>2. PICK group : group = SubSeq(filter, 1, slash - 1)
  OBVIOUS
<1>3. PICK rest : rest = SubSeq(filter, slash + 1, Len(filter))
  OBVIOUS
<1>4. \/ slash = 0 /\ \A i \in 1..Len(filter) : filter[i] # Slash
      \/ /\ slash \in 1..Len(filter) /\ filter[slash] = Slash
         /\ \A i \in 1..(slash - 1) : filter[i] # Slash
  BY <1>1, SlashIsFirst
<1>5. ParseSharedSubscription(SharedSubscriptionPrefix \o filter).ok <=>
          /\ slash \notin {0, 1}
          /\ ~Includes(group, WildcardSingle) /\ ~Includes(group, WildcardMulti)
          /\ ValidateTopicFilter(rest).ok
  BY <1>1, <1>2, <1>3, SharedIsParsed
<1>6. Len(filter) \in Nat
  OBVIOUS
<1>7. slash \in 1..Len(filter) =>
        (ValidateTopicFilter(rest).ok <=> WellFormedFilter(rest))
  <2> SUFFICES ASSUME slash \in 1..Len(filter)
               PROVE  ValidateTopicFilter(rest).ok <=> WellFormedFilter(rest)
    OBVIOUS
  <2>1. rest \in Seq(CodeUnit)
    BY <1>3, <1>6
  <2> QED
    BY <2>1, ValidatesWhatIsValid, ValidIsWellFormed
<1>8. ASSUME /\ slash \notin {0, 1}
             /\ ~Includes(group, WildcardSingle) /\ ~Includes(group, WildcardMulti)
             /\ ValidateTopicFilter(rest).ok
      PROVE  /\ slash \in 2..Len(filter)
             /\ filter[slash] = Slash /\ WellFormedFilter(rest)
             /\ ToSet(group) \cap {Slash, WildcardSingle[1], WildcardMulti[1]} = {}
  <2>1. /\ slash \in 1..Len(filter) /\ slash \in 2..Len(filter) /\ filter[slash] = Slash
        /\ \A i \in 1..(slash - 1) : filter[i] # Slash
    BY <1>4, <1>6, <1>8
  <2>2. WildcardSingle[1] \notin ToSet(group) /\ WildcardMulti[1] \notin ToSet(group)
    BY <1>8 DEF Includes
  <2>3. ToSet(group) \cap {Slash} = {}
    BY <1>2, <2>1, GroupOf
  <2> QED
    BY <1>7, <1>8, <2>1, <2>2, <2>3
<1>9. ASSUME NEW n \in 2..Len(filter), filter[n] = Slash,
             WellFormedFilter(SubSeq(filter, n + 1, Len(filter))),
             ToSet(SubSeq(filter, 1, n - 1))
                \cap {Slash, WildcardSingle[1], WildcardMulti[1]} = {}
      PROVE  /\ slash \notin {0, 1}
             /\ ~Includes(group, WildcardSingle) /\ ~Includes(group, WildcardMulti)
             /\ ValidateTopicFilter(rest).ok
  <2>1. n \in 1..Len(filter) /\ n \in Nat
    BY <1>9, <1>6
  <2>2. \A i \in 1..(n - 1) : filter[i] \notin {Slash, WildcardSingle[1], WildcardMulti[1]}
    BY <1>9, <2>1, GroupOf
  <2>3. slash = n
    <3>1. slash \in 1..Len(filter) /\ filter[slash] = Slash
      BY <1>4, <1>9, <2>1
    <3>2. \A i \in 1..(slash - 1) : filter[i] # Slash
      BY <1>4, <1>9, <2>1
    <3>3. ~(n < slash)
      BY <1>9, <2>1, <3>1, <3>2
    <3>4. ~(slash < n)
      BY <1>9, <2>1, <2>2, <3>1
    <3> QED
      BY <2>1, <3>1, <3>3, <3>4
  <2>4. ~Includes(group, WildcardSingle) /\ ~Includes(group, WildcardMulti)
    BY <1>2, <1>9, <2>3 DEF Includes
  <2>5. slash \in 1..Len(filter) /\ slash \notin {0, 1}
    BY <1>9, <2>1, <2>3
  <2> QED
    BY <1>3, <1>7, <1>9, <2>3, <2>4, <2>5
<1> QED
  BY <1>2, <1>3, <1>5, <1>8, <1>9

\* Whatever filters a SUBSCRIBE carries: the two loops that validate one, in
\* isValidTopicFilter() and validateTopicFilter(), accept what MQTT 4.7 allows and nothing
\* else, splitting and joining loses nothing, a filter without wildcards matches itself
\* alone, and parseSharedSubscription() finds the group and the filter behind it.
THEOREM FiltersAreAsSpecified == Spec => []FiltersAsSpecified
<1>1. CodecInv => FiltersAsSpecified
  <2> SUFFICES ASSUME CodecInv, packet.type = "SUBSCRIBE", NEW filter \in Filters
               PROVE
                 /\ IsValidTopicFilter(filter) <=> WellFormedFilter(filter)
                 /\ ValidateTopicFilter(filter).ok <=> WellFormedFilter(filter)
                 /\ JoinTopicLevels(ParseTopicLevels(filter)) = filter
                 /\ IsValidTopicName(filter) =>
                       /\ IsValidTopicFilter(filter) /\ ValidateTopicName(filter).ok
                       /\ \A name \in TopicNames : TopicMatches(name, filter) <=> name = filter
                 /\ ParseSharedSubscription(SharedSubscriptionPrefix \o filter).ok <=>
                       \E n \in 2..Len(filter) :
                          /\ filter[n] = Slash
                          /\ WellFormedFilter(SubSeq(filter, n + 1, Len(filter)))
                          /\ ToSet(SubSeq(filter, 1, n - 1))
                                \cap {Slash, WildcardSingle[1], WildcardMulti[1]} = {}
    BY DEF FiltersAsSpecified
  <2>1. filter \in Seq(CodeUnit)
    BY InputAssumption DEF CodecInv, Filters
  <2>2. TopicNames \subseteq Seq(CodeUnit)
    BY InputAssumption
  <2>3. IsValidTopicFilter(filter) <=> WellFormedFilter(filter)
    BY <2>1, ValidIsWellFormed
  <2>4. ValidateTopicFilter(filter).ok <=> WellFormedFilter(filter)
    BY <2>3, ValidatesWhatIsValid
  <2>5. JoinTopicLevels(ParseTopicLevels(filter)) = filter
    BY <2>1, ParsedJoins
  <2>6. IsValidTopicName(filter) => IsValidTopicFilter(filter) /\ ValidateTopicName(filter).ok
    BY <2>1, NamesAreFilters
  <2>7. IsValidTopicName(filter) =>
          \A name \in TopicNames : TopicMatches(name, filter) <=> name = filter
    BY <2>1, <2>2, NamesMatchThemselves
  <2> QED
    BY <2>1, <2>3, <2>4, <2>5, <2>6, <2>7, SharedAsSpecified
<1> QED
  BY <1>1, CodecInvariant, PTL
==============================================================================
