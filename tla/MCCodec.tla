------------------------------- MODULE MCCodec -------------------------------
(* Sample packets: every type with every property alone, none and all, in    *)
(* both versions, and values at the edges of what the wire can carry.        *)
EXTENDS Codec

Repeat(c, n) == [i \in 1..n |-> c]

\* Characters of one to four bytes, a lone surrogate of each kind, and both reversed.
Strings == {<<>>, <<97>>, <<233, 8364>>, <<55357, 56832, 97>>, <<97, 55357>>,
            <<56832, 55357>>}
Longest == Repeat(8364, MaxStringLength \div 3)   \* three bytes each
UnusualStrings == Strings \cup {<<65279, 97>>, Longest, Longest \o <<97>>, <<233>> \o Longest,
                                <<97, 0>>, <<31>>, <<127>>, <<160>>, <<97, 159>>}

Binaries == {<<>>, <<0, 255>>}
Pairs == {<< <<97>>, <<98>> >>, << <<>>, <<55357, 56832>> >>}

Samples(type) ==
    CASE type = "byte"   -> {0, 1, 2, 255}
      [] type = "uint16" -> {0, 258, 65535}
      [] type = "uint32" -> {<<0, 0>>, <<1, 515>>, <<65535, 65535>>}
      [] type = "varint" -> {1, 127, 128, 16383, 16384, 2097151, 2097152, 268435455}
      [] type = "string" -> Strings
      [] type = "binary" -> Binaries

\* The fields of the interfaces in src/packets/types.ts, with a type of their values.
Fields ==
    [requestResponseInformation |-> "flag", requestProblemInformation |-> "flag",
     retainAvailable |-> "flag", wildcardSubscriptionAvailable |-> "flag",
     subscriptionIdentifiersAvailable |-> "flag", sharedSubscriptionAvailable |-> "flag",
     payloadFormatIndicator |-> "byte", maximumQoS |-> "byte",
     receiveMaximum |-> "uint16", topicAliasMaximum |-> "uint16", topicAlias |-> "uint16",
     serverKeepAlive |-> "uint16", sessionExpiryInterval |-> "uint32",
     maximumPacketSize |-> "uint32", willDelayInterval |-> "uint32",
     messageExpiryInterval |-> "uint32", authenticationMethod |-> "string",
     contentType |-> "string", responseTopic |-> "string", reasonString |-> "string",
     assignedClientIdentifier |-> "string", responseInformation |-> "string",
     serverReference |-> "string", authenticationData |-> "binary",
     correlationData |-> "binary", subscriptionIdentifier |-> "varint"]

Values(field) ==
    CASE field = "userProperties" -> {<<>>} \cup {<<p, q>> : p, q \in Pairs}
      [] field = "subscriptionIdentifiers" -> {<<>>} \cup {<<n>> : n \in Samples("varint")}
                                              \cup {<<1, 128>>}
      [] field = "subscriptionIdentifier" -> Samples("varint") \cup {268435456}
      [] OTHER -> IF Fields[field] = "flag" THEN BOOLEAN ELSE Samples(Fields[field])

\* Records of properties: none, one, all.
PropertiesWith(fields) ==
    {<<>>, [f \in fields |-> CHOOSE v \in Values(f) : TRUE]}
    \cup UNION {{f :> v : v \in Values(f)} : f \in fields}

\* A packet without properties and with each record of them.
Each(base, fields) ==
    {base} \cup {base @@ [properties |-> props] : props \in PropertiesWith(fields)}

User == "userProperties"
WillFields == {"willDelayInterval", "payloadFormatIndicator", "messageExpiryInterval",
               "contentType", "responseTopic", "correlationData", User}
ConnectFields == {"sessionExpiryInterval", "receiveMaximum", "maximumPacketSize",
                  "topicAliasMaximum", "requestResponseInformation",
                  "requestProblemInformation", "authenticationMethod",
                  "authenticationData", User}
ConnackFields == {"sessionExpiryInterval", "receiveMaximum", "maximumQoS", "retainAvailable",
                  "maximumPacketSize", "assignedClientIdentifier", "topicAliasMaximum",
                  "reasonString", "wildcardSubscriptionAvailable",
                  "subscriptionIdentifiersAvailable", "sharedSubscriptionAvailable",
                  "serverKeepAlive", "responseInformation", "serverReference",
                  "authenticationMethod", "authenticationData", User}
PublishFields == {"payloadFormatIndicator", "messageExpiryInterval", "topicAlias",
                  "responseTopic", "correlationData", "subscriptionIdentifiers",
                  "contentType", User}
ReasonFields == {"reasonString", User}
DisconnectFields == {"sessionExpiryInterval", "reasonString", "serverReference", User}
AuthFields == {"authenticationMethod", "authenticationData", "reasonString", User}

Will == [topic |-> <<97>>, payload |-> <<0>>, qos |-> 2, retain |-> TRUE]
Connect == [type |-> "CONNECT", protocolVersion |-> "5.0", clientId |-> <<>>,
            cleanStart |-> TRUE, keepAlive |-> 258]
Publish == [type |-> "PUBLISH", topic |-> <<97>>, qos |-> 0, retain |-> FALSE, dup |-> FALSE,
            payload |-> <<>>]

Connects == Each(Connect, ConnectFields)
            \cup {Connect @@ [will |-> will] : will \in Each(Will, WillFields)}
            \cup {[Connect EXCEPT !.clientId = s] : s \in UnusualStrings}
            \cup {Connect @@ [will |-> [Will EXCEPT !.qos = q, !.retain = r]] : q \in 0..2, r \in BOOLEAN}
            \cup {[Connect EXCEPT !.cleanStart = FALSE] @@ credentials @@ will :
                    credentials \in {[username |-> <<97>>], [password |-> <<1, 2>>],
                                     [username |-> <<>>, password |-> <<>>]},
                    will \in {<<>>, [will |-> Will]}}

Connacks == Each([type |-> "CONNACK", sessionPresent |-> TRUE, reasonCode |-> 0], ConnackFields)
            \cup [type : {"CONNACK"}, sessionPresent : {FALSE}, reasonCode : 1..5 \cup 128..140]

Publishes == Each(Publish, PublishFields)
             \cup {[Publish EXCEPT !.topic = s] : s \in UnusualStrings}
             \cup {[Publish EXCEPT !.qos = q, !.dup = d, !.retain = r, !.payload = <<9>>]
                     @@ [packetId |-> id] :
                     q \in 0..2, d \in BOOLEAN, r \in BOOLEAN, id \in {1, 258, 65535}}
             \cup {[Publish EXCEPT !.payload = Repeat(7, n)] : n \in {120, 123, 124, 125, 126, 300}}

Acks == UNION {Each([type |-> t, packetId |-> 258], ReasonFields)
               \cup Each([type |-> t, packetId |-> 1, reasonCode |-> 16], ReasonFields)
               \cup {[type |-> t, packetId |-> 65535, reasonCode |-> 0]} :
                 t \in {"PUBACK", "PUBREC", "PUBREL", "PUBCOMP"}}

\* Every filter of up to four of these characters, in packets by what they start with and
\* length.
Characters == <<Slash, WildcardSingle[1], WildcardMulti[1], Dollar[1], 97>>
FiltersFrom(start, length) ==
    LET open == length - Len(start) IN
    [n \in 1..(5^open) |->
        start \o [i \in 1..open |-> Characters[((n \div 5^(i - 1)) % 5) + 1]]]
SubscribeTo(filters) ==
    [type |-> "SUBSCRIBE", packetId |-> 7,
     subscriptions |-> [i \in DOMAIN filters |->
                          [topicFilter |-> filters[i], options |-> [qos |-> 1]]]]

ShortTopicNames == UNION {[1..n -> {Slash, Dollar[1], 97}] : n \in 0..3}

Options == [qos : 0..2, noLocal : BOOLEAN, retainAsPublished : BOOLEAN, retainHandling : 0..2]
Subscribes ==
    Each(SubscribeTo(<< <<97>>, <<98, 47>> >>), {"subscriptionIdentifier", User})
    \cup {SubscribeTo(<<f>>) : f \in Strings}
    \cup {SubscribeTo(FiltersFrom(<<c>>, 1)) : c \in ToSet(Characters)}
    \cup {SubscribeTo(FiltersFrom(<<c, d>>, n)) : c, d \in ToSet(Characters), n \in 2..4}
    \cup {[SubscribeTo(<< <<97>> >>) EXCEPT !.subscriptions[1].options = o] : o \in Options}

Subacks == Each([type |-> "SUBACK", packetId |-> 8, reasonCodes |-> <<0, 1, 2, 128, 135>>],
                ReasonFields)
Unsubscribes == Each([type |-> "UNSUBSCRIBE", packetId |-> 9,
                      topicFilters |-> <<<<97>>, <<55357, 56832>>>>], {User})
Unsubacks == Each([type |-> "UNSUBACK", packetId |-> 10], ReasonFields)
             \cup Each([type |-> "UNSUBACK", packetId |-> 10, reasonCodes |-> <<0, 17>>],
                       ReasonFields)
Disconnects == Each([type |-> "DISCONNECT"], DisconnectFields)
               \cup Each([type |-> "DISCONNECT", reasonCode |-> 4], DisconnectFields)
               \cup {[type |-> "DISCONNECT", reasonCode |-> 0]}
Auths == UNION {Each([type |-> "AUTH", reasonCode |-> c], AuthFields) : c \in {0, 24}}

BothVersions == Connects \cup Connacks \cup Publishes \cup Acks \cup Subscribes \cup Subacks
                \cup Unsubscribes \cup Unsubacks \cup Disconnects
                \cup {[type |-> "PINGREQ"], [type |-> "PINGRESP"]}

SampleInputs == [packet : BothVersions, version : {"3.1.1", "5.0"}]
                \cup [packet : Auths, version : {"5.0"}]

NextPackets == {<<0>>, <<3, 97, 97, 97, 97>>}
=============================================================================
