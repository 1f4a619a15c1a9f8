---------------------------- MODULE PacketDecoder ----------------------------
(***************************************************************************)
(* decodePacket(): src/packets/decode.ts.  A decoder reads field after     *)
(* field and returns the first error; the packet it makes has the fields   *)
(* of src/packets/types.ts, without those the code leaves undefined.       *)
(***************************************************************************)
EXTENDS PacketEncoder

Version(level) == IF level = 5 THEN "5.0" ELSE "3.1.1"
MQIsdp == <<77, 81, 73, 115, 100, 112>>

\* The bit of a byte that has this weight.
IsSet(byte, weight) == (byte \div weight) % 2 = 1

\* A packet, made without reading any further.
Made(packet, reader) == Read(packet, reader, 0)

\* The section of properties there is in MQTT 5.0 only.
ReadProperties(reader, version) ==
    IF version = "5.0" THEN DecodeProperties(reader) ELSE Read(<<>>, reader, 0)

\* A packet has the field properties if the section was not empty.
With(packet, raw, Parse(_)) ==
    IF raw = <<>> THEN packet ELSE packet @@ [properties |-> Parse(raw)]

\* A field that the flags announce, read into the packet.
ReadInto(packet, field, announced, reader, ReadField(_)) ==
    IF announced THEN Then(ReadField(reader), LAMBDA value, after :
                           Made(packet @@ (field :> value), after))
    ELSE Made(packet, reader)

-----------------------------------------------------------------------------
(* CONNECT and CONNACK. *)

DecodeWillMessage(reader, version, qos, retain) ==
    Then(ReadProperties(reader, version), LAMBDA raw, r1 :
    Then(ReadMqttString(r1), LAMBDA topic, r2 :
    Then(ReadMqttBinary(r2), LAMBDA payload, r3 :
    Made(With([topic |-> topic, payload |-> payload, qos |-> qos, retain |-> retain],
              raw, ParseWillProperties), r3))))

\* The payload: what is behind the client identifier is announced by the connect flags.
DecodeConnectPayload(reader, version, flags, packet) ==
    LET ReadWill(r) == DecodeWillMessage(r, version, (flags \div 8) % 4, IsSet(flags, 32)) IN
    Then(ReadMqttString(reader), LAMBDA clientId, r1 :
    Then(ReadInto(packet @@ [clientId |-> clientId], "will", IsSet(flags, 4), r1, ReadWill),
         LAMBDA p2, r2 :
    Then(ReadInto(p2, "username", IsSet(flags, 128), r2, ReadMqttString), LAMBDA p3, r3 :
    ReadInto(p3, "password", IsSet(flags, 64), r3, ReadMqttBinary))))

DecodeConnect(reader) ==
    Then(ReadMqttString(reader), LAMBDA name, r1 :
    IF name \notin {MQTT, MQIsdp} THEN Err("PROTOCOL_ERROR")
    ELSE Then(ReadUint8(r1), LAMBDA level, r2 :
    IF level \notin {4, 5} THEN Err("PROTOCOL_ERROR")
    ELSE Then(ReadUint8(r2), LAMBDA flags, r3 :
    IF IsSet(flags, 1) THEN Err("MALFORMED_PACKET")
    ELSE Then(ReadUint16(r3), LAMBDA keepAlive, r4 :
         Then(ReadProperties(r4, Version(level)), LAMBDA raw, r5 :
         DecodeConnectPayload(r5, Version(level), flags,
            With([type |-> "CONNECT", protocolVersion |-> Version(level),
                  cleanStart |-> IsSet(flags, 2), keepAlive |-> keepAlive],
                 raw, ParseConnectProperties)))))))

DecodeConnack(reader, version) ==
    Then(ReadUint8(reader), LAMBDA ackFlags, r1 :
    IF ackFlags > 1 THEN Err("MALFORMED_PACKET")
    ELSE Then(ReadUint8(r1), LAMBDA reasonCode, r2 :
         Then(IF Remaining(r2) > 0 THEN ReadProperties(r2, version) ELSE Read(<<>>, r2, 0),
              LAMBDA raw, r3 :
         Made(With([type |-> "CONNACK", sessionPresent |-> IsSet(ackFlags, 1),
                    reasonCode |-> reasonCode], raw, ParseConnackProperties), r3))))

-----------------------------------------------------------------------------
(* PUBLISH and its acknowledgements. *)

DecodePublish(reader, flags, remainingLength, version) ==
    LET qos == (flags \div 2) % 4
        start == [type |-> "PUBLISH", qos |-> qos, retain |-> IsSet(flags, 1),
                  dup |-> IsSet(flags, 8)]
    IN IF qos = 3 THEN Err("MALFORMED_PACKET")
       ELSE Then(ReadMqttString(reader), LAMBDA topic, r1 :
            Then(ReadInto(start @@ [topic |-> topic], "packetId", qos > 0, r1, ReadUint16),
                 LAMBDA packet, r2 :
            Then(ReadProperties(r2, version), LAMBDA raw, r3 :
            LET payloadLength == remainingLength - (r3.position - reader.position) IN
            Then(IF payloadLength > 0 THEN ReadBytes(r3, payloadLength) ELSE Read(<<>>, r3, 0),
                 LAMBDA payload, r4 :
            Made(With(packet @@ [payload |-> payload], raw, ParsePublishProperties), r4)))))

\* A reason code and properties, where the remaining length has room for them.
ReadReason(packet, reader, room, version, Parse(_)) ==
    IF version # "5.0" \/ room <= 0 THEN Made(packet, reader)
    ELSE Then(ReadUint8(reader), LAMBDA reasonCode, r1 :
         Then(IF room > 1 THEN DecodeProperties(r1) ELSE Read(<<>>, r1, 0), LAMBDA raw, r2 :
         Made(With([reasonCode |-> reasonCode] @@ packet, raw, Parse), r2)))

DecodePuback(reader, remainingLength, version) ==
    Then(ReadUint16(reader), LAMBDA packetId, r1 :
    ReadReason([type |-> "PUBACK", packetId |-> packetId], r1, remainingLength - 2, version,
               ParsePubAckProperties))

DecodePubrec(reader, remainingLength, version) ==
    Then(ReadUint16(reader), LAMBDA packetId, r1 :
    ReadReason([type |-> "PUBREC", packetId |-> packetId], r1, remainingLength - 2, version,
               ParsePubAckProperties))

DecodePubrel(reader, remainingLength, version) ==
    Then(ReadUint16(reader), LAMBDA packetId, r1 :
    ReadReason([type |-> "PUBREL", packetId |-> packetId], r1, remainingLength - 2, version,
               ParsePubAckProperties))

DecodePubcomp(reader, remainingLength, version) ==
    Then(ReadUint16(reader), LAMBDA packetId, r1 :
    ReadReason([type |-> "PUBCOMP", packetId |-> packetId], r1, remainingLength - 2, version,
               ParsePubAckProperties))

-----------------------------------------------------------------------------
(* Subscriptions. *)

ReadSubscription(reader, version) ==
    Then(ReadMqttString(reader), LAMBDA topicFilter, r1 :
    Then(ReadUint8(r1), LAMBDA byte, r2 :
    Made([topicFilter |-> topicFilter,
          options |-> IF version = "5.0"
                      THEN [qos |-> byte % 4, noLocal |-> IsSet(byte, 4),
                            retainAsPublished |-> IsSet(byte, 8),
                            retainHandling |-> (byte \div 16) % 4]
                      ELSE [qos |-> byte % 4]], r2)))

ReadItem(kind, reader, version) ==
    CASE kind = "subscription" -> ReadSubscription(reader, version)
      [] kind = "filter"       -> ReadMqttString(reader)
      [] kind = "code"         -> ReadUint8(reader)

\* The loops over the payload: items of one kind until the end of the packet is reached.
\* from[position] has those read from there on.
ReadItems(kind, reader, endOffset, version) ==
    LET At(position) == [reader EXCEPT !.position = position]
        from[position \in 0..Len(reader.buffer)] ==
            IF position >= endOffset THEN Read(<<>>, At(position), 0)
            ELSE Then(ReadItem(kind, At(position), version), LAMBDA item, after :
                 Then(from[after.position], LAMBDA items, last :
                      Read(<<item>> \o items, last, 0)))
    IN from[reader.position]

DecodeSubscribe(reader, remainingLength, version) ==
    Then(ReadUint16(reader), LAMBDA packetId, r1 :
    Then(ReadProperties(r1, version), LAMBDA raw, r2 :
    Then(ReadItems("subscription", r2, reader.position + remainingLength, version),
         LAMBDA subscriptions, r3 :
    IF subscriptions = <<>> THEN Err("MALFORMED_PACKET")
    ELSE Made(With([type |-> "SUBSCRIBE", packetId |-> packetId,
                    subscriptions |-> subscriptions], raw, ParseSubscribeProperties), r3))))

DecodeSuback(reader, remainingLength, version) ==
    Then(ReadUint16(reader), LAMBDA packetId, r1 :
    Then(ReadProperties(r1, version), LAMBDA raw, r2 :
    Then(ReadItems("code", r2, reader.position + remainingLength, version),
         LAMBDA reasonCodes, r3 :
    Made(With([type |-> "SUBACK", packetId |-> packetId, reasonCodes |-> reasonCodes],
              raw, ParseSubackProperties), r3))))

DecodeUnsubscribe(reader, remainingLength, version) ==
    Then(ReadUint16(reader), LAMBDA packetId, r1 :
    Then(ReadProperties(r1, version), LAMBDA raw, r2 :
    Then(ReadItems("filter", r2, reader.position + remainingLength, version),
         LAMBDA topicFilters, r3 :
    IF topicFilters = <<>> THEN Err("MALFORMED_PACKET")
    ELSE Made(With([type |-> "UNSUBSCRIBE", packetId |-> packetId,
                    topicFilters |-> topicFilters], raw, ParseUnsubscribeProperties), r3))))

DecodeUnsuback(reader, remainingLength, version) ==
    Then(ReadUint16(reader), LAMBDA packetId, r1 :
    IF version # "5.0" THEN Made([type |-> "UNSUBACK", packetId |-> packetId], r1)
    ELSE Then(DecodeProperties(r1), LAMBDA raw, r2 :
         Then(ReadItems("code", r2, reader.position + remainingLength, version),
              LAMBDA reasonCodes, r3 :
         Made(With([type |-> "UNSUBACK", packetId |-> packetId, reasonCodes |-> reasonCodes],
                   raw, ParseUnsubackProperties), r3))))

-----------------------------------------------------------------------------
(* The rest, and any packet. *)

DecodeDisconnect(reader, remainingLength, version) ==
    ReadReason([type |-> "DISCONNECT"], reader, remainingLength, version,
               ParseDisconnectProperties)

\* The reason code of AUTH is success unless one is read.
DecodeAuth(reader, remainingLength) ==
    ReadReason([type |-> "AUTH", reasonCode |-> 0], reader, remainingLength, "5.0",
               ParseAuthProperties)

RequiredFlags0x02 == {"PUBREL", "SUBSCRIBE", "UNSUBSCRIBE"}
ZeroLengthPackets == {"PINGREQ", "PINGRESP"}

Decoder(type, reader, flags, length, version) ==
    CASE type = "CONNECT"     -> DecodeConnect(reader)
      [] type = "CONNACK"     -> DecodeConnack(reader, version)
      [] type = "PUBLISH"     -> DecodePublish(reader, flags, length, version)
      [] type = "PUBACK"      -> DecodePuback(reader, length, version)
      [] type = "PUBREC"      -> DecodePubrec(reader, length, version)
      [] type = "PUBREL"      -> DecodePubrel(reader, length, version)
      [] type = "PUBCOMP"     -> DecodePubcomp(reader, length, version)
      [] type = "SUBSCRIBE"   -> DecodeSubscribe(reader, length, version)
      [] type = "SUBACK"      -> DecodeSuback(reader, length, version)
      [] type = "UNSUBSCRIBE" -> DecodeUnsubscribe(reader, length, version)
      [] type = "UNSUBACK"    -> DecodeUnsuback(reader, length, version)
      [] type \in ZeroLengthPackets -> Made([type |-> type], reader)
      [] type = "DISCONNECT"  -> DecodeDisconnect(reader, length, version)
      [] type = "AUTH"        -> IF version # "5.0" THEN Err("PROTOCOL_ERROR")
                                 ELSE DecodeAuth(reader, length)

\* parseFixedHeader(): the number of the type, the flags and the remaining length.
ParseFixedHeader(reader) ==
    Then(ReadUint8(reader), LAMBDA byte1, r1 :
    Then(ReadVariableByteInteger(r1), LAMBDA remainingLength, r2 :
    Made([packetType |-> byte1 \div 16, flags |-> byte1 % 16,
          remainingLength |-> remainingLength], r2)))

\* decodePacket() at an offset of the buffer: the packet and the bytes that it took.
DecodePacket(buffer, version, offset) ==
    Then(ParseFixedHeader(NewReader(buffer, offset)), LAMBDA header, afterHeader :
    Then(SubReader(afterHeader, header.remainingLength), LAMBDA payloadReader, afterPacket :
    LET types == {t \in DOMAIN PacketType : PacketType[t] = header.packetType} IN
    IF types \cap RequiredFlags0x02 # {} /\ header.flags # 2 THEN Err("MALFORMED_PACKET")
    ELSE IF types \cap ZeroLengthPackets # {} /\ header.remainingLength # 0
         THEN Err("MALFORMED_PACKET")
    ELSE IF types = {} THEN Err("MALFORMED_PACKET")
    ELSE Then(Decoder(CHOOSE t \in types : TRUE, payloadReader, header.flags,
                      header.remainingLength, version), LAMBDA packet, done :
         [ok |-> TRUE, packet |-> packet, bytesRead |-> afterPacket.position - offset])))
=============================================================================
