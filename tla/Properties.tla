----------------------------- MODULE Properties -----------------------------
(***************************************************************************)
(* MQTT 5.0 properties: src/packets/properties.ts.  The application sees a *)
(* record with the fields it set; on the wire are the bytes of a list of   *)
(* identifiers and values behind their length.  Between the two is the map *)
(* RawProperties, here a sequence of entries in the order of insertion,    *)
(* with identifiers called by their names.                                 *)
(***************************************************************************)
EXTENDS BinaryReader, BinaryWriter

PropertyId ==
    [PAYLOAD_FORMAT_INDICATOR |-> 1, MESSAGE_EXPIRY_INTERVAL |-> 2,
     CONTENT_TYPE |-> 3, RESPONSE_TOPIC |-> 8, CORRELATION_DATA |-> 9,
     SUBSCRIPTION_IDENTIFIER |-> 11, SESSION_EXPIRY_INTERVAL |-> 17,
     ASSIGNED_CLIENT_IDENTIFIER |-> 18, SERVER_KEEP_ALIVE |-> 19,
     AUTHENTICATION_METHOD |-> 21, AUTHENTICATION_DATA |-> 22,
     REQUEST_PROBLEM_INFORMATION |-> 23, WILL_DELAY_INTERVAL |-> 24,
     REQUEST_RESPONSE_INFORMATION |-> 25, RESPONSE_INFORMATION |-> 26,
     SERVER_REFERENCE |-> 28, REASON_STRING |-> 31, RECEIVE_MAXIMUM |-> 33,
     TOPIC_ALIAS_MAXIMUM |-> 34, TOPIC_ALIAS |-> 35, MAXIMUM_QOS |-> 36,
     RETAIN_AVAILABLE |-> 37, USER_PROPERTY |-> 38, MAXIMUM_PACKET_SIZE |-> 39,
     WILDCARD_SUBSCRIPTION_AVAILABLE |-> 40, SUBSCRIPTION_IDENTIFIER_AVAILABLE |-> 41,
     SHARED_SUBSCRIPTION_AVAILABLE |-> 42]

\* The type of each property's value.
PropertyMeta ==
    [PAYLOAD_FORMAT_INDICATOR |-> "byte", MESSAGE_EXPIRY_INTERVAL |-> "uint32",
     CONTENT_TYPE |-> "string", RESPONSE_TOPIC |-> "string",
     CORRELATION_DATA |-> "binary", SUBSCRIPTION_IDENTIFIER |-> "varint",
     SESSION_EXPIRY_INTERVAL |-> "uint32", ASSIGNED_CLIENT_IDENTIFIER |-> "string",
     SERVER_KEEP_ALIVE |-> "uint16", AUTHENTICATION_METHOD |-> "string",
     AUTHENTICATION_DATA |-> "binary", REQUEST_PROBLEM_INFORMATION |-> "byte",
     WILL_DELAY_INTERVAL |-> "uint32", REQUEST_RESPONSE_INFORMATION |-> "byte",
     RESPONSE_INFORMATION |-> "string", SERVER_REFERENCE |-> "string",
     REASON_STRING |-> "string", RECEIVE_MAXIMUM |-> "uint16",
     TOPIC_ALIAS_MAXIMUM |-> "uint16", TOPIC_ALIAS |-> "uint16",
     MAXIMUM_QOS |-> "byte", RETAIN_AVAILABLE |-> "byte",
     USER_PROPERTY |-> "stringPair", MAXIMUM_PACKET_SIZE |-> "uint32",
     WILDCARD_SUBSCRIPTION_AVAILABLE |-> "byte",
     SUBSCRIPTION_IDENTIFIER_AVAILABLE |-> "byte",
     SHARED_SUBSCRIPTION_AVAILABLE |-> "byte"]

\* Properties that may appear several times; their value is a list.
Multiple == {"SUBSCRIPTION_IDENTIFIER", "USER_PROPERTY"}

Entry(id, value) == [id |-> id, value |-> value]

HasId(raw, id) == \E i \in DOMAIN raw : raw[i].id = id
ValueOf(raw, id) == raw[CHOOSE i \in DOMAIN raw : raw[i].id = id].value

\* The entries with one value each, as they are written.
Instances(raw) ==
    LET Values(entry) == IF entry.id \in Multiple THEN entry.value ELSE <<entry.value>>
    IN FlattenSeq([i \in DOMAIN raw |->
            [v \in DOMAIN Values(raw[i]) |-> Entry(raw[i].id, Values(raw[i])[v])]])

-----------------------------------------------------------------------------
(* Encoding. *)

\* propertyValueSize() of a value in range.
PropertyValueSize(type, value) ==
    CASE type = "byte"   -> 1
      [] type = "uint16" -> 2
      [] type = "uint32" -> 4
      [] type = "varint" -> VariableByteIntegerLength(value)
      [] type = "string" -> 2 + Utf8ByteLength(value)
      [] type = "binary" -> 2 + Len(value)
      [] type = "stringPair" -> 2 + Utf8ByteLength(value[1]) + 2 + Utf8ByteLength(value[2])

\* calculatePropertiesSize(), of all instances.
CalculatePropertiesSize(all) ==
    LET Size(entry) == VariableByteIntegerLength(PropertyId[entry.id])
                       + PropertyValueSize(PropertyMeta[entry.id], entry.value)
    IN MapThenSumSet(LAMBDA i : Size(all[i]), DOMAIN all)

\* writePropertyValue(), as the calls of the writer.
WritePropertyValue(type, value) ==
    CASE type = "byte"   -> <<Uint8(value)>>
      [] type = "uint16" -> <<Uint16(value)>>
      [] type = "uint32" -> <<Uint32(value)>>
      [] type = "varint" -> <<Varint(value)>>
      [] type = "string" -> <<EncodeMqttString(value)>>
      [] type = "binary" -> <<EncodeMqttBinary(value)>>
      [] type = "stringPair" -> <<EncodeMqttString(value[1]), EncodeMqttString(value[2])>>

\* encodeProperties(): the size is calculated, not taken from what is written.  It cannot
\* be calculated of a number too large for a variable byte integer.
EncodeInstances(all) ==
    LET OutOfRange(entry) == PropertyMeta[entry.id] = "varint" /\ ~InRange(entry.value)
    IN IF \E i \in DOMAIN all : OutOfRange(all[i]) THEN <<RangeError>>
       ELSE <<Varint(CalculatePropertiesSize(all))>>
            \o FlattenSeq([i \in DOMAIN all |->
                  <<Varint(PropertyId[all[i].id])>>
                  \o WritePropertyValue(PropertyMeta[all[i].id], all[i].value)])

EncodeProperties(raw) == EncodeInstances(Instances(raw))

EncodeEmptyProperties == <<Varint(0)>>

-----------------------------------------------------------------------------
(* Decoding. *)

ReadPropertyValue(reader, type) ==
    CASE type = "byte"   -> ReadUint8(reader)
      [] type = "uint16" -> ReadUint16(reader)
      [] type = "uint32" -> ReadUint32(reader)
      [] type = "varint" -> ReadVariableByteInteger(reader)
      [] type = "string" -> ReadMqttString(reader)
      [] type = "binary" -> ReadMqttBinary(reader)
      [] type = "stringPair" ->
            Then(ReadMqttString(reader), LAMBDA key, afterKey :
            Then(ReadMqttString(afterKey), LAMBDA val, afterVal :
                 Read(<<key, val>>, afterVal, 0)))

\* A value read is a new entry, or one more value of an entry that may have several.
WithValue(raw, id, value) ==
    IF id \notin Multiple THEN Append(raw, Entry(id, value))
    ELSE IF ~HasId(raw, id) THEN Append(raw, Entry(id, <<value>>))
    ELSE [i \in DOMAIN raw |-> IF raw[i].id = id THEN Entry(id, Append(raw[i].value, value))
                               ELSE raw[i]]

\* One turn of the loop: an identifier that is known, and a value of its type.
ReadProperty(reader) ==
    Then(ReadVariableByteInteger(reader), LAMBDA number, afterId :
    IF ~\E id \in DOMAIN PropertyId : PropertyId[id] = number THEN Err("INVALID_PROPERTY_ID")
    ELSE LET id == CHOOSE id \in DOMAIN PropertyId : PropertyId[id] = number IN
         Then(ReadPropertyValue(afterId, PropertyMeta[id]), LAMBDA value, afterValue :
              Read(Entry(id, value), afterValue, 0)))

\* The loop of decodeProperties(): it ends where the section ends, or behind that if the
\* last value does.  after[turns] is what that many turns have read; each reads two bytes or
\* more.
ReadPropertiesUntil(reader, endOffset) ==
    LET after[turns \in 0..Len(reader.buffer)] ==
            IF turns = 0 THEN Read(<<>>, reader, 0)
            ELSE Then(after[turns - 1], LAMBDA raw, next :
                 IF next.position >= endOffset THEN Read(raw, next, 0)
                 ELSE Then(ReadProperty(next), LAMBDA property, last :
                      IF property.id \notin Multiple /\ HasId(raw, property.id)
                      THEN Err("PROTOCOL_ERROR")
                      ELSE Read(WithValue(raw, property.id, property.value), last, 0)))
    IN after[(endOffset - reader.position + 1) \div 2]

\* decodeProperties()
DecodeProperties(reader) ==
    Then(ReadVariableByteInteger(reader), LAMBDA length, start :
    IF length = 0 THEN Read(<<>>, start, 0)
    ELSE IF ~HasRemaining(start, length) THEN Err("INCOMPLETE")
    ELSE ReadPropertiesUntil(start, start.position + length))

-----------------------------------------------------------------------------
(* The entries for the fields an application set: each builder names fields *)
(* and identifiers in the order of its calls.                               *)

Flags == {"requestResponseInformation", "requestProblemInformation", "retainAvailable",
          "wildcardSubscriptionAvailable", "subscriptionIdentifiersAvailable",
          "sharedSubscriptionAvailable"}
Lists == {"userProperties", "subscriptionIdentifiers"}

\* Booleans are numbers on the wire, the single subscription identifier of SUBSCRIBE is a
\* list, and an empty list is left out.
Built(props, fields) ==
    LET IsSet(field) == field \in DOMAIN props /\ (field \in Lists => props[field] # <<>>)
        RawValue(field) == CASE field \in Flags -> IF props[field] THEN 1 ELSE 0
                             [] field = "subscriptionIdentifier" -> <<props[field]>>
                             [] OTHER -> props[field]
    IN FlattenSeq([i \in DOMAIN fields |->
            IF IsSet(fields[i][1]) THEN <<Entry(fields[i][2], RawValue(fields[i][1]))>>
            ELSE <<>>])

BuildConnectProperties(props) == Built(props, <<
    <<"sessionExpiryInterval", "SESSION_EXPIRY_INTERVAL">>,
    <<"receiveMaximum", "RECEIVE_MAXIMUM">>,
    <<"maximumPacketSize", "MAXIMUM_PACKET_SIZE">>,
    <<"topicAliasMaximum", "TOPIC_ALIAS_MAXIMUM">>,
    <<"requestResponseInformation", "REQUEST_RESPONSE_INFORMATION">>,
    <<"requestProblemInformation", "REQUEST_PROBLEM_INFORMATION">>,
    <<"authenticationMethod", "AUTHENTICATION_METHOD">>,
    <<"authenticationData", "AUTHENTICATION_DATA">>,
    <<"userProperties", "USER_PROPERTY">> >>)

BuildWillProperties(props) == Built(props, <<
    <<"willDelayInterval", "WILL_DELAY_INTERVAL">>,
    <<"payloadFormatIndicator", "PAYLOAD_FORMAT_INDICATOR">>,
    <<"messageExpiryInterval", "MESSAGE_EXPIRY_INTERVAL">>,
    <<"contentType", "CONTENT_TYPE">>, <<"responseTopic", "RESPONSE_TOPIC">>,
    <<"correlationData", "CORRELATION_DATA">>, <<"userProperties", "USER_PROPERTY">> >>)

BuildConnackProperties(props) == Built(props, <<
    <<"sessionExpiryInterval", "SESSION_EXPIRY_INTERVAL">>,
    <<"receiveMaximum", "RECEIVE_MAXIMUM">>, <<"maximumQoS", "MAXIMUM_QOS">>,
    <<"retainAvailable", "RETAIN_AVAILABLE">>,
    <<"maximumPacketSize", "MAXIMUM_PACKET_SIZE">>,
    <<"assignedClientIdentifier", "ASSIGNED_CLIENT_IDENTIFIER">>,
    <<"topicAliasMaximum", "TOPIC_ALIAS_MAXIMUM">>,
    <<"reasonString", "REASON_STRING">>,
    <<"wildcardSubscriptionAvailable", "WILDCARD_SUBSCRIPTION_AVAILABLE">>,
    <<"subscriptionIdentifiersAvailable", "SUBSCRIPTION_IDENTIFIER_AVAILABLE">>,
    <<"sharedSubscriptionAvailable", "SHARED_SUBSCRIPTION_AVAILABLE">>,
    <<"serverKeepAlive", "SERVER_KEEP_ALIVE">>,
    <<"responseInformation", "RESPONSE_INFORMATION">>,
    <<"serverReference", "SERVER_REFERENCE">>,
    <<"authenticationMethod", "AUTHENTICATION_METHOD">>,
    <<"authenticationData", "AUTHENTICATION_DATA">>,
    <<"userProperties", "USER_PROPERTY">> >>)

BuildPublishProperties(props) == Built(props, <<
    <<"payloadFormatIndicator", "PAYLOAD_FORMAT_INDICATOR">>,
    <<"messageExpiryInterval", "MESSAGE_EXPIRY_INTERVAL">>,
    <<"topicAlias", "TOPIC_ALIAS">>, <<"responseTopic", "RESPONSE_TOPIC">>,
    <<"correlationData", "CORRELATION_DATA">>,
    <<"subscriptionIdentifiers", "SUBSCRIPTION_IDENTIFIER">>,
    <<"contentType", "CONTENT_TYPE">>, <<"userProperties", "USER_PROPERTY">> >>)

BuildPubAckProperties(props) == Built(props, <<
    <<"reasonString", "REASON_STRING">>, <<"userProperties", "USER_PROPERTY">> >>)

BuildSubscribeProperties(props) == Built(props, <<
    <<"subscriptionIdentifier", "SUBSCRIPTION_IDENTIFIER">>,
    <<"userProperties", "USER_PROPERTY">> >>)

BuildSubackProperties(props) == Built(props, <<
    <<"reasonString", "REASON_STRING">>, <<"userProperties", "USER_PROPERTY">> >>)

BuildUnsubscribeProperties(props) == Built(props, << <<"userProperties", "USER_PROPERTY">> >>)

BuildUnsubackProperties(props) == Built(props, <<
    <<"reasonString", "REASON_STRING">>, <<"userProperties", "USER_PROPERTY">> >>)

BuildDisconnectProperties(props) == Built(props, <<
    <<"sessionExpiryInterval", "SESSION_EXPIRY_INTERVAL">>,
    <<"reasonString", "REASON_STRING">>, <<"serverReference", "SERVER_REFERENCE">>,
    <<"userProperties", "USER_PROPERTY">> >>)

BuildAuthProperties(props) == Built(props, <<
    <<"authenticationMethod", "AUTHENTICATION_METHOD">>,
    <<"authenticationData", "AUTHENTICATION_DATA">>,
    <<"reasonString", "REASON_STRING">>, <<"userProperties", "USER_PROPERTY">> >>)

-----------------------------------------------------------------------------
(* The record an application is given: the fields of the entries there are. *)

Parsed(raw, ids) ==
    LET Value(field) == CASE field \in Flags -> ValueOf(raw, ids[field]) = 1
                          [] field = "subscriptionIdentifier" -> ValueOf(raw, ids[field])[1]
                          [] OTHER -> ValueOf(raw, ids[field])
    IN [field \in {f \in DOMAIN ids : HasId(raw, ids[f])} |-> Value(field)]

ParseConnectProperties(raw) == Parsed(raw,
    [sessionExpiryInterval |-> "SESSION_EXPIRY_INTERVAL",
     receiveMaximum |-> "RECEIVE_MAXIMUM",
     maximumPacketSize |-> "MAXIMUM_PACKET_SIZE",
     topicAliasMaximum |-> "TOPIC_ALIAS_MAXIMUM",
     requestResponseInformation |-> "REQUEST_RESPONSE_INFORMATION",
     requestProblemInformation |-> "REQUEST_PROBLEM_INFORMATION",
     authenticationMethod |-> "AUTHENTICATION_METHOD",
     authenticationData |-> "AUTHENTICATION_DATA", userProperties |-> "USER_PROPERTY"])

ParseWillProperties(raw) == Parsed(raw,
    [willDelayInterval |-> "WILL_DELAY_INTERVAL",
     payloadFormatIndicator |-> "PAYLOAD_FORMAT_INDICATOR",
     messageExpiryInterval |-> "MESSAGE_EXPIRY_INTERVAL",
     contentType |-> "CONTENT_TYPE", responseTopic |-> "RESPONSE_TOPIC",
     correlationData |-> "CORRELATION_DATA", userProperties |-> "USER_PROPERTY"])

ParseConnackProperties(raw) == Parsed(raw,
    [sessionExpiryInterval |-> "SESSION_EXPIRY_INTERVAL",
     receiveMaximum |-> "RECEIVE_MAXIMUM", maximumQoS |-> "MAXIMUM_QOS",
     retainAvailable |-> "RETAIN_AVAILABLE",
     maximumPacketSize |-> "MAXIMUM_PACKET_SIZE",
     assignedClientIdentifier |-> "ASSIGNED_CLIENT_IDENTIFIER",
     topicAliasMaximum |-> "TOPIC_ALIAS_MAXIMUM", reasonString |-> "REASON_STRING",
     wildcardSubscriptionAvailable |-> "WILDCARD_SUBSCRIPTION_AVAILABLE",
     subscriptionIdentifiersAvailable |-> "SUBSCRIPTION_IDENTIFIER_AVAILABLE",
     sharedSubscriptionAvailable |-> "SHARED_SUBSCRIPTION_AVAILABLE",
     serverKeepAlive |-> "SERVER_KEEP_ALIVE",
     responseInformation |-> "RESPONSE_INFORMATION",
     serverReference |-> "SERVER_REFERENCE",
     authenticationMethod |-> "AUTHENTICATION_METHOD",
     authenticationData |-> "AUTHENTICATION_DATA", userProperties |-> "USER_PROPERTY"])

ParsePublishProperties(raw) == Parsed(raw,
    [payloadFormatIndicator |-> "PAYLOAD_FORMAT_INDICATOR",
     messageExpiryInterval |-> "MESSAGE_EXPIRY_INTERVAL",
     topicAlias |-> "TOPIC_ALIAS", responseTopic |-> "RESPONSE_TOPIC",
     correlationData |-> "CORRELATION_DATA",
     subscriptionIdentifiers |-> "SUBSCRIPTION_IDENTIFIER",
     contentType |-> "CONTENT_TYPE", userProperties |-> "USER_PROPERTY"])

ParsePubAckProperties(raw) == Parsed(raw,
    [reasonString |-> "REASON_STRING", userProperties |-> "USER_PROPERTY"])

ParseSubscribeProperties(raw) == Parsed(raw,
    [subscriptionIdentifier |-> "SUBSCRIPTION_IDENTIFIER",
     userProperties |-> "USER_PROPERTY"])

ParseSubackProperties(raw) == Parsed(raw,
    [reasonString |-> "REASON_STRING", userProperties |-> "USER_PROPERTY"])

ParseUnsubscribeProperties(raw) == Parsed(raw, [userProperties |-> "USER_PROPERTY"])

ParseUnsubackProperties(raw) == Parsed(raw,
    [reasonString |-> "REASON_STRING", userProperties |-> "USER_PROPERTY"])

ParseDisconnectProperties(raw) == Parsed(raw,
    [sessionExpiryInterval |-> "SESSION_EXPIRY_INTERVAL",
     reasonString |-> "REASON_STRING", serverReference |-> "SERVER_REFERENCE",
     userProperties |-> "USER_PROPERTY"])

ParseAuthProperties(raw) == Parsed(raw,
    [authenticationMethod |-> "AUTHENTICATION_METHOD",
     authenticationData |-> "AUTHENTICATION_DATA", reasonString |-> "REASON_STRING",
     userProperties |-> "USER_PROPERTY"])
=============================================================================
