-------------------------------- MODULE Codec --------------------------------
(***************************************************************************)
(* A packet on its way: one side encodes it, the other frames the bytes    *)
(* and decodes them.  On the way nothing may happen to the bytes, others   *)
(* may follow in the same buffer, the last ones may be missing, or one may *)
(* be another byte: what a peer sends need not come from this encoder.     *)
(* The codec is pure; the steps are the choices an input leaves.           *)
(***************************************************************************)
EXTENDS PacketDecoder, PacketFrame, Topics

CONSTANTS Inputs,        \* records of a packet and the protocol version to encode it for
          Followers,     \* what may stand behind a packet in a buffer
          WrongBytes,    \* what a byte may be replaced by
          MaxDamaged,    \* bound: only packets up to this length are damaged
          TopicNames     \* topic names that the filters of a SUBSCRIBE are tried on

ASSUME CodecAssumption == /\ Radix = 128 /\ TypeUnit = 16
                          /\ Followers \subseteq Seq(Bytes) /\ WrongBytes \subseteq Bytes

\* Inputs are typed as in src/packets/types.ts: topics are strings, and what is encoded of
\* them is bytes, unless a call throws.
ASSUME InputAssumption ==
    /\ TopicNames \subseteq Seq(CodeUnit)
    /\ \A input \in Inputs :
          /\ input.packet.type = "SUBSCRIBE" =>
                \A i \in DOMAIN input.packet.subscriptions :
                    input.packet.subscriptions[i].topicFilter \in Seq(CodeUnit)
          /\ LET bytes == EncodePacket(input.packet, input.version)
             IN Throws(bytes) \/ bytes \in Seq(Bytes)

VARIABLES packet,    \* the packet sent
          version,   \* the protocol version of both sides
          buffer,    \* the bytes that arrive
          received,  \* what the decoder makes of them
          fate       \* what became of the bytes

vars == <<packet, version, buffer, received, fate>>

Unread == Err("unread")

Init == /\ \E input \in Inputs : packet = input.packet /\ version = input.version
        /\ buffer = <<>> /\ received = Unread /\ fate = "unsent"

Arrive(bytes, how) ==
    /\ buffer' = bytes /\ fate' = how
    /\ received' = IF Throws(bytes) \/ bytes = <<>> THEN Unread ELSE DecodePacket(bytes, version, 0)
    /\ UNCHANGED <<packet, version>>

Send == fate = "unsent" /\ Arrive(EncodePacket(packet, version), "intact")

Damageable == fate \in {"intact", "followed"} /\ received # Unread /\ Len(buffer) <= MaxDamaged

Follow == /\ fate = "intact" /\ received # Unread
          /\ \E others \in Followers : Arrive(buffer \o others, "followed")

Truncate == /\ Damageable /\ fate = "intact"
            /\ \E n \in 0..(Len(buffer) - 1) : Arrive(SubSeq(buffer, 1, n), "truncated")

Corrupt == /\ Damageable
           /\ \E i \in DOMAIN buffer, byte \in WrongBytes :
                 Arrive([buffer EXCEPT ![i] = byte], "corrupted")

Next == Send \/ Follow \/ Truncate \/ Corrupt

Spec == Init /\ [][Next]_vars

-----------------------------------------------------------------------------
(* What a packet says on the wire: the packet a receiver is entitled to.   *)

\* A lone surrogate becomes U+FFFD, and a byte order mark in front is lost.
CanonicalString(str) ==
    LET Lone(i) == ~StartsPair(str, i) /\ ~EndsPair(str, i) /\ (IsHigh(str[i]) \/ IsLow(str[i]))
        mended  == [i \in DOMAIN str |-> IF Lone(i) THEN Replacement ELSE str[i]]
    IN IF StartsWith(mended, <<ByteOrderMark>>) THEN Tail(mended) ELSE mended

StringFields == {"topic", "clientId", "username", "reasonString", "contentType", "responseTopic",
                 "assignedClientIdentifier", "responseInformation", "serverReference",
                 "authenticationMethod"}

CanonicalStrings(record) ==
    [field \in DOMAIN record |->
        IF field \in StringFields THEN CanonicalString(record[field])
        ELSE IF field = "userProperties"
             THEN [i \in DOMAIN record[field] |->
                     <<CanonicalString(record[field][i][1]), CanonicalString(record[field][i][2])>>]
        ELSE record[field]]

Without(record, fields) == [field \in DOMAIN record \ fields |-> record[field]]

\* Empty lists are not sent, nor is a section of properties without a property.
CanonicalProperties(record) ==
    LET props == CanonicalStrings(record.properties)
        sent  == Without(props, {field \in DOMAIN props \cap Lists : props[field] = <<>>})
    IN IF ~Has(record, "properties") THEN record
       ELSE IF sent = <<>> THEN Without(record, {"properties"})
       ELSE [record EXCEPT !.properties = sent]

\* MQTT 3.1.1 has no properties, and reason codes only in CONNACK and SUBACK.
InVersion(record) == IF version = "5.0" THEN CanonicalProperties(record)
                     ELSE Without(record, {"properties"})

Reasons == {"PUBACK", "PUBREC", "PUBREL", "PUBCOMP", "DISCONNECT"}

CanonicalSubscription(sub) ==
    [topicFilter |-> CanonicalString(sub.topicFilter),
     options |-> IF version = "5.0"
                 THEN sub.options @@ [noLocal |-> FALSE, retainAsPublished |-> FALSE,
                                      retainHandling |-> 0]
                 ELSE [qos |-> sub.options.qos]]

Canonical(sent) ==
    LET p == CanonicalStrings(InVersion(sent)) IN
    CASE p.type = "CONNECT" ->
            [f \in {"will"} \cap DOMAIN p |-> InVersion(CanonicalStrings(p.will))]
            @@ [p EXCEPT !.protocolVersion = version]
      [] p.type = "CONNACK" ->
            [p EXCEPT !.reasonCode = IF version = "5.0" THEN @ ELSE ConnackReturnCode311(@)]
      [] p.type = "PUBLISH" -> IF p.qos = 0 THEN Without(p, {"packetId"}) ELSE p
      [] p.type \in Reasons ->     \* success is said by silence, except before properties
            IF version = "5.0" /\ (Has(p, "properties") \/ Field(p, "reasonCode", 0) # 0)
            THEN p @@ [reasonCode |-> 0] ELSE Without(p, {"reasonCode"})
      [] p.type = "SUBSCRIBE" ->
            [p EXCEPT !.subscriptions = [i \in DOMAIN @ |-> CanonicalSubscription(@[i])]]
      [] p.type = "UNSUBSCRIBE" ->
            [p EXCEPT !.topicFilters = [i \in DOMAIN @ |-> CanonicalString(@[i])]]
      [] p.type = "SUBACK" ->
            [p EXCEPT !.reasonCodes = [i \in DOMAIN @ |->
                IF version # "5.0" /\ @[i] >= 128 THEN 128 ELSE @[i]]]
      [] p.type = "UNSUBACK" ->
            IF version = "5.0" THEN p @@ [reasonCodes |-> <<>>] ELSE Without(p, {"reasonCodes"})
      [] OTHER -> p

-----------------------------------------------------------------------------
(* Properties. *)

\* The strings of the sample packets that may be too long or not be allowed in MQTT.
Unusual == {packet[field] : field \in StringFields \cap DOMAIN packet}
Encodable == /\ \A s \in Unusual : Len(TextEncoderEncode(s)) <= MaxStringLength
             /\ \A f \in {"properties"} \cap DOMAIN packet :
                   Has(packet[f], "subscriptionIdentifier") /\ version = "5.0" =>
                       InRange(packet[f].subscriptionIdentifier)

\* Whatever packet an application sends, in either version, with any of its optional parts,
\* the receiver decodes what the wire can say of it and the number of bytes it has, whether
\* or not other bytes follow in its buffer; the encoder throws rather than send a length
\* that is cut, and a string MQTT forbids is refused by the receiver.
RoundTrip ==
    fate \in {"intact", "followed"} =>
        IF ~Encodable THEN Throws(buffer)
        ELSE IF \E s \in Unusual : ~IsValidMqttString(s)
             THEN ~received.ok /\ received.code = "MALFORMED_UTF8"
        ELSE /\ received.ok
             /\ received.packet = Canonical(packet)
             /\ received.bytesRead = Len(EncodePacket(packet, version))

\* The framer cuts the stream where the decoder believes that packets end: a packet decoded
\* is a frame of as many bytes, unless the framer takes none so large, and bytes for which
\* the framer waits are no packet yet.
FramesAgree ==
    received # Unread =>
        LET frame == ReadPacketFrame(buffer, 0) IN
        /\ received.ok =>
              frame = IF received.bytesRead > MaxPacketSize THEN Invalid
                      ELSE [status |-> "complete", bytesConsumed |-> received.bytesRead]
        /\ frame = Incomplete => ~received.ok /\ received.code = "INCOMPLETE"

\* Whatever bytes the decoder accepts from a peer, flags, properties and lengths this encoder
\* would not write included, the packet it makes of them survives being sent on.
Forwardable ==
    fate \in {"truncated", "corrupted"} /\ received.ok =>
        LET again == DecodePacket(EncodePacket(received.packet, version), version, 0)
        IN again.ok /\ again.packet = Canonical(received.packet)

Filters == {packet.subscriptions[i].topicFilter : i \in DOMAIN packet.subscriptions}

\* A message is routed to a subscription as MQTT 4.7 has it: the levels of the filter equal
\* those of the topic one by one, + stands for any level, # for the levels that are left,
\* none included, and no wildcard for a first level that begins with $.
RoutedAsSpecified ==
    packet.type = "SUBSCRIBE" /\ fate = "unsent" =>
        \A filter \in {f \in Filters : IsValidTopicFilter(f)},
           name \in {n \in TopicNames : IsValidTopicName(n)} :
              TopicMatches(name, filter) <=>
                  /\ FilterMatches(ParseTopicLevels(name), ParseTopicLevels(filter))
                  /\ ~(name[1] = Dollar[1] /\ filter[1] \in {WildcardSingle[1], WildcardMulti[1]})

\* The two validations of a filter agree with each other and with where MQTT allows a wildcard;
\* a filter without one is a topic name and matches this name alone; a shared subscription is
\* parsed if and only if its group has a name without wildcards and its filter is valid.
FiltersAsSpecified ==
    packet.type = "SUBSCRIBE" /\ fate = "unsent" =>
        \A filter \in Filters :
           /\ IsValidTopicFilter(filter) <=> WellFormedFilter(filter)
           /\ ValidateTopicFilter(filter).ok <=> WellFormedFilter(filter)
           /\ JoinTopicLevels(ParseTopicLevels(filter)) = filter
           /\ IsValidTopicName(filter) =>
                 /\ IsValidTopicFilter(filter) /\ ValidateTopicName(filter).ok
                 /\ \A name \in TopicNames : TopicMatches(name, filter) <=> name = filter
           /\ LET shared == ParseSharedSubscription(SharedSubscriptionPrefix \o filter) IN
              shared.ok <=> \E n \in 2..Len(filter) :
                 /\ filter[n] = Slash /\ WellFormedFilter(SubSeq(filter, n + 1, Len(filter)))
                 /\ ToSet(SubSeq(filter, 1, n - 1))
                       \cap {Slash, WildcardSingle[1], WildcardMulti[1]} = {}
=============================================================================
