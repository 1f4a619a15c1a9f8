--------------------------- MODULE MqttWireProofs ---------------------------
(***************************************************************************)
(* Theorems about the wire for every number of packet ids, aliases, topics *)
(* and concurrent receive() calls, every alphabet of frames and every set  *)
(* of hooks that may fail.  The type invariant comes first.  Then the      *)
(* safety of the wire, property by property: for each of them the steps of *)
(* the wire are sorted by what they do to the few variables it is about;   *)
(* the theorem follows from what these kinds of steps do.                  *)
(*   - Packet ids and the outbound flows that hold them.                   *)
(*   - Messages of the client: QoS 2 messages are delivered at most once.  *)
(*   - The state of the connection and its keepalive timer, what the       *)
(*     server has acknowledged to the client, which topic aliases both     *)
(*     have, and closes that onDisconnect hears of.                        *)
(***************************************************************************)
EXTENDS MqttWire, FiniteSetTheorems, TLAPS

\* The type invariant without the counter of inputs, which every action treats alike.
WireTypeOK == LinkOK /\ FlowsOK /\ AliasesOK /\ tasks \in [Tasks -> Continuations]

-----------------------------------------------------------------------------
(* The pieces. *)

LEMMA ConstantTypes ==
    /\ MaxPacketId \in Nat \ {0} /\ MaxAlias \in Nat /\ MaxInputs \in Nat
    /\ TopicAliasMaximum \in 0..MaxAlias
  BY WireAssumption

LEMMA LoopType ==
    /\ Idle \in Continuations
    /\ \A hook \in Promises : Loop(hook) \in Continuations /\ Last(hook) \in Continuations
  BY DEF Idle, Loop, Last, Continuations, Promises

LEMMA GotoType ==
    ASSUME NEW t \in Tasks, NEW c \in Continuations,
           tasks \in [Tasks -> Continuations], Goto(t, c)
    PROVE  tasks' \in [Tasks -> Continuations]
  BY DEF Goto

\* cleanup() leaves the alias manager as it was built.
LEMMA CleanupType ==
    ASSUME AliasesOK, Cleanup
    PROVE  /\ state' = "disconnected" /\ keepAliveTimer' = FALSE /\ buffer' \in Seq(Frames)
           /\ AliasesOK'
<1>1. TopicAliases!NoMapping \in [1..MaxAlias -> Names]
  BY DEF TopicAliases!NoMapping, TopicAliases!Aliases, TopicAliases!NoTopic, Names
<1>2. 0 \in 0..MaxAlias /\ 1 \in 1..(MaxAlias + 1)
  BY ConstantTypes
<1>3. AliasesOK'
  BY <1>1, <1>2 DEF AliasesOK, Cleanup, TopicAliases!ClearAliases
<1> QED
  BY <1>3 DEF Cleanup

LEMMA ProtocolErrorType ==
    ASSUME WireTypeOK, NEW t \in Tasks, NEW rest \in Seq(Frames),
           NEW then \in {"loop", "end"}, HandleProtocolError(t, rest, then)
    PROVE  WireTypeOK'
<1>1. UNCHANGED <<settings, session, linkHistory>>
  BY DEF HandleProtocolError
<1>2. FlowsOK'
  BY <1>1 DEF WireTypeOK, FlowsOK, session, idVars, flowVars, qosHistory
<1>3. CASE /\ buffer' = rest
           /\ \E c \in Continuations : Goto(t, c)
           /\ UNCHANGED <<link, aliasVars>>
  <2>1. LinkOK' /\ AliasesOK'
    BY <1>1, <1>3 DEF WireTypeOK, LinkOK, AliasesOK, settings, link, linkHistory, learned, aliasVars
  <2>2. tasks' \in [Tasks -> Continuations]
    BY <1>3, GotoType DEF WireTypeOK
  <2> QED
    BY <1>2, <2>1, <2>2 DEF WireTypeOK
<1>4. CASE Cleanup /\ Goto(t, Return(then))
  <2>1. AliasesOK' /\ LinkOK'
    BY <1>1, <1>4, CleanupType DEF WireTypeOK, LinkOK, settings, linkHistory, learned
  <2>2. Return(then) \in Continuations
    BY LoopType DEF Return, Promises
  <2> QED
    BY <1>2, <1>4, <2>1, <2>2, GotoType DEF WireTypeOK
<1>5. [at |-> "disconnecting", on |-> "onSend", then |-> then] \in Continuations
  BY DEF Continuations, Promises
<1> QED
  BY <1>3, <1>4, <1>5, LoopType DEF HandleProtocolError
-----------------------------------------------------------------------------
(* The handlers of the client's packets. *)

LEMMA FrameFields ==
    ASSUME NEW p \in Frames
    PROVE  /\ p.type = "CONNECT" =>
                /\ p.version \in Versions /\ p.keepAlive \in Nat
                /\ p.receiveMaximum \in {Absent} \cup Nat
                /\ p.topicAliasMaximum \in {Absent} \cup (0..MaxAlias)
           /\ p.type = "PUBLISH" =>
                p.packetId \in FlowIds /\ p.topic \in Names /\ p.alias \in NoAlias..MaxAlias
           /\ p.type \in {"PUBACK", "PUBREC", "PUBREL", "PUBCOMP"} => p.packetId \in FlowIds
  BY DEF Frames

LEMMA ConnectType ==
    ASSUME WireTypeOK, NEW t \in Tasks, NEW rest \in Seq(Frames),
           NEW p \in Frames, p.type = "CONNECT", HandleConnect(t, p, rest)
    PROVE  WireTypeOK'
<1>1. CASE HandleProtocolError(t, rest, "loop")
  BY <1>1, ProtocolErrorType
<1>2. CASE ~HandleProtocolError(t, rest, "loop")
  <2>1. LinkOK'
    BY <1>2, FrameFields
    DEF HandleConnect, WireTypeOK, LinkOK, link, linkHistory, learned
  <2>2. FlowsOK' /\ AliasesOK'
    BY <1>2 DEF HandleConnect, WireTypeOK, FlowsOK, AliasesOK, session, idVars, flowVars,
                qosHistory, aliasVars
  <2>3. [at |-> "onConnect", on |-> "onConnect"] \in Continuations
    BY DEF Continuations, Promises
  <2> QED
    BY <1>2, <2>1, <2>2, <2>3, GotoType DEF HandleConnect, WireTypeOK
<1> QED
  BY <1>1, <1>2

\* A topic the manager resolves is the topic of the packet or one it has stored.
LEMMA ResolveType ==
    ASSUME AliasesOK, NEW topic \in Names, NEW alias \in NoAlias..MaxAlias,
           TopicAliases!Resolvable(topic, alias)
    PROVE  /\ TopicAliases!Resolved(topic, alias) \in Names
           /\ TopicAliases!ResolveInbound(topic, alias) => AliasesOK'
<1>1. topic = TopicAliases!NoTopic => alias \in 1..MaxAlias
  BY DEF TopicAliases!Resolvable, TopicAliases!Aliases
<1>2. inboundAliases \in [1..MaxAlias -> Names]
  BY DEF AliasesOK
<1>3. TopicAliases!Resolved(topic, alias) \in Names
  BY <1>1, <1>2 DEF TopicAliases!Resolved
<1>4. TopicAliases!ResolveInbound(topic, alias) => AliasesOK'
  BY DEF TopicAliases!ResolveInbound, AliasesOK
<1> QED
  BY <1>3, <1>4

\* The decoded alias, when there is one, is kept with the packet that waits for its PUBREL.
LEMMA StoredType ==
    ASSUME NEW topic \in Names, NEW meant \in Names, NEW alias \in NoAlias..MaxAlias
    PROVE  [topic |-> topic, meant |-> meant,
            alias |-> IF protocolVersion = "5.0" THEN alias ELSE NoAlias] \in StoredPackets
<1>1. NoAlias \in NoAlias..MaxAlias
  <2>1. MaxAlias \in Nat
    BY WireAssumption
  <2> QED
    BY <2>1 DEF NoAlias
<1> DEFINE kept == IF protocolVersion = "5.0" THEN alias ELSE NoAlias
<1>2. kept \in NoAlias..MaxAlias
  BY <1>1
<1> HIDE DEF kept
<1>3. [topic |-> topic, meant |-> meant, alias |-> kept] \in StoredPackets
  BY <1>2 DEF StoredPackets
<1> QED
  BY <1>3 DEF kept

LEMMA PublishQoSType ==
    ASSUME WireTypeOK, NEW t \in Tasks, NEW p \in Frames, p.type = "PUBLISH",
           NEW topic \in Names, UNCHANGED idVars,
           PublishQoS0(t) \/ PublishQoS1(t, p) \/ PublishQoS2(t, p, topic)
    PROVE  FlowsOK' /\ tasks' \in [Tasks -> Continuations]
<1>1. p.packetId \in FlowIds /\ p.topic \in Names /\ p.alias \in NoAlias..MaxAlias
  BY FrameFields
<1>2. /\ [at |-> "handling", on |-> "onPublish", packetId |-> p.packetId] \in Continuations
      /\ [at |-> "acknowledging", on |-> "onSend", packetId |-> p.packetId] \in Continuations
  BY <1>1 DEF Continuations, Promises
<1>3. "none" \in Promises /\ "onSend" \in Promises /\ "onPublish" \in Promises
  BY DEF Promises
<1>4. tasks' \in [Tasks -> Continuations]
  BY <1>2, <1>3, LoopType, GotoType DEF WireTypeOK, PublishQoS0, PublishQoS1, PublishQoS2
<1>5. CASE PublishQoS0(t)
  BY <1>4, <1>5 DEF PublishQoS0, WireTypeOK, FlowsOK, idVars, flowVars, qosHistory
<1>6. CASE PublishQoS1(t, p)
  BY <1>4, <1>6 DEF PublishQoS1, WireTypeOK, FlowsOK, idVars, flowVars
<1>7. CASE PublishQoS2(t, p, topic)
  <2> DEFINE stored == [topic |-> p.topic, meant |-> topic,
                        alias |-> IF protocolVersion = "5.0" THEN p.alias ELSE NoAlias]
  <2>1. stored \in StoredPackets
    BY <1>1, StoredType
  <2>2. Flows!InboundFlow(stored) \in InboundFlows
    BY <2>1 DEF InboundFlows, Flows!InboundFlow
  <2> QED
    BY <1>4, <1>7, <2>2 DEF PublishQoS2, Flows!StartQoS2Inbound, WireTypeOK, FlowsOK,
                            idVars, flowVars
<1> QED
  BY <1>5, <1>6, <1>7

LEMMA PublishType ==
    ASSUME WireTypeOK, NEW t \in Tasks, NEW rest \in Seq(Frames),
           NEW p \in Frames, p.type = "PUBLISH", HandlePublish(t, p, rest)
    PROVE  WireTypeOK'
<1> DEFINE topic == IF protocolVersion = "5.0" THEN TopicAliases!Resolved(p.topic, p.alias)
                    ELSE p.topic
<1>1. CASE Ignore(t, rest)
  BY <1>1, LoopType, GotoType
  DEF Ignore, WireTypeOK, LinkOK, FlowsOK, AliasesOK, settings, session, idVars, flowVars,
      qosHistory, aliasVars, link, linkHistory, learned, Promises
<1>2. CASE HandleProtocolError(t, rest, "loop")
  BY <1>2, ProtocolErrorType
<1>3. CASE ~Ignore(t, rest) /\ ~HandleProtocolError(t, rest, "loop")
  <2>1. /\ \/ /\ protocolVersion = "5.0" /\ TopicAliases!Resolvable(p.topic, p.alias)
              /\ TopicAliases!ResolveInbound(p.topic, p.alias)
           \/ protocolVersion # "5.0" /\ UNCHANGED aliasVars
        /\ PublishQoS0(t) \/ PublishQoS1(t, p) \/ PublishQoS2(t, p, topic)
        /\ buffer' = rest
        /\ UNCHANGED <<settings, idVars, link, linkHistory>>
    BY <1>3 DEF HandlePublish
  <2>2. LinkOK'
    BY <2>1 DEF WireTypeOK, LinkOK, settings, link, linkHistory, learned
  <2>3. AliasesOK' /\ topic \in Names
    BY <2>1, FrameFields, ResolveType DEF WireTypeOK, AliasesOK, aliasVars
  <2> HIDE DEF topic
  <2>4. FlowsOK' /\ tasks' \in [Tasks -> Continuations]
    BY <2>1, <2>3, PublishQoSType
  <2> QED
    BY <2>2, <2>3, <2>4 DEF WireTypeOK
<1> QED
  BY <1>1, <1>2, <1>3

\* Acknowledgements keep the maps of the tracker typed.
LEMMA TrackerType ==
    ASSUME FlowsOK, NEW id \in FlowIds,
           \/ Flows!HandlePuback(id) \/ Flows!HandlePubcomp(id) \/ Flows!HandlePubrel(id)
           \/ \E refused \in BOOLEAN : Flows!HandlePubrec(id, refused, 0)
    PROVE  outbound' \in [FlowIds -> OutboundFlows] /\ inbound' \in [FlowIds -> InboundFlows]
<1>1. outbound \in [FlowIds -> OutboundFlows] /\ inbound \in [FlowIds -> InboundFlows]
  BY DEF FlowsOK
<1>2. Flows!NoFlow \in OutboundFlows /\ Flows!NoFlow \in InboundFlows
  BY DEF OutboundFlows, InboundFlows
<1>3. Flows!AwaitsPubrec(id) =>
        Flows!QoS2Flow(outbound[id].packet, "awaiting-pubcomp", 0) \in OutboundFlows
  BY <1>1 DEF Flows!AwaitsPubrec, Flows!QoS2Flow, Flows!NoFlow, OutboundFlows
<1> QED
  BY <1>1, <1>2, <1>3
  DEF Flows!HandlePuback, Flows!HandlePubcomp, Flows!HandlePubrel, Flows!HandlePubrec,
      Flows!EndOutbound, Flows!flowVars

LEMMA AcknowledgementType ==
    ASSUME WireTypeOK, NEW t \in Tasks, NEW rest \in Seq(Frames), NEW p \in Frames,
           \/ p.type = "PUBACK" /\ HandlePuback(t, p, rest)
           \/ p.type = "PUBREC" /\ HandlePubrec(t, p, rest)
           \/ p.type = "PUBCOMP" /\ HandlePubcomp(t, p, rest)
    PROVE  WireTypeOK'
<1>1. p.packetId \in FlowIds /\ (p.type = "PUBREC" => p.refused \in BOOLEAN)
  BY FrameFields DEF Frames
<1>2. /\ UNCHANGED <<settings, aliasVars, link, qosHistory, linkHistory>>
      /\ buffer' = rest
      /\ \E hook \in Promises : Goto(t, Loop(hook))
  BY DEF HandlePuback, HandlePubrec, HandlePubcomp, Promises
<1>3. LinkOK' /\ AliasesOK'
  BY <1>2 DEF WireTypeOK, LinkOK, AliasesOK, settings, link, linkHistory, learned, aliasVars
<1>4. outbound' \in [FlowIds -> OutboundFlows] /\ inbound' \in [FlowIds -> InboundFlows]
  BY <1>1, TrackerType DEF HandlePuback, HandlePubrec, HandlePubcomp, WireTypeOK
<1>5. nextId' \in Ids /\ inUse' \subseteq Ids
  BY DEF HandlePuback, HandlePubrec, HandlePubcomp, PacketIds!Release, WireTypeOK, FlowsOK,
         idVars
<1>6. FlowsOK'
  BY <1>2, <1>4, <1>5 DEF WireTypeOK, FlowsOK, qosHistory
<1>7. tasks' \in [Tasks -> Continuations]
  BY <1>2, LoopType, GotoType DEF WireTypeOK
<1> QED
  BY <1>3, <1>6, <1>7 DEF WireTypeOK

LEMMA PubrelType ==
    ASSUME WireTypeOK, NEW t \in Tasks, NEW rest \in Seq(Frames),
           NEW p \in Frames, p.type = "PUBREL", HandlePubrel(t, p, rest)
    PROVE  WireTypeOK'
<1>1. p.packetId \in FlowIds
  BY FrameFields
<1>2. LinkOK' /\ AliasesOK'
  BY DEF HandlePubrel, WireTypeOK, LinkOK, AliasesOK, settings, link, linkHistory, learned,
         aliasVars
<1>3. FlowsOK'
  BY <1>1, TrackerType DEF HandlePubrel, WireTypeOK, FlowsOK, idVars, qosHistory
<1>4. Flows!HasInbound(p.packetId) => inbound[p.packetId].packet \in StoredPackets
  BY <1>1 DEF Flows!HasInbound, WireTypeOK, FlowsOK, InboundFlows
<1>5. Flows!HasInbound(p.packetId) =>
        [at |-> "releasing", on |-> "onSend", packetId |-> p.packetId,
         packet |-> inbound[p.packetId].packet] \in Continuations
  BY <1>1, <1>4 DEF Continuations, Promises
<1>6. "onSend" \in Promises
  BY DEF Promises
<1>7. tasks' \in [Tasks -> Continuations]
  BY <1>5, <1>6, LoopType, GotoType DEF HandlePubrel, WireTypeOK
<1> QED
  BY <1>2, <1>3, <1>7 DEF WireTypeOK

\* SUBSCRIBE, UNSUBSCRIBE and PINGREQ.
LEMMA RequestType ==
    ASSUME WireTypeOK, NEW t \in Tasks, NEW rest \in Seq(Frames),
           NEW hook \in Promises, HandleRequest(t, hook, rest)
    PROVE  WireTypeOK'
<1>1. [at |-> "answering", on |-> hook] \in Continuations
  BY DEF Continuations
<1>2. "none" \in Promises /\ "onSend" \in Promises
  BY DEF Promises
<1>3. tasks' \in [Tasks -> Continuations]
  BY <1>1, <1>2, LoopType, GotoType DEF HandleRequest, Ignore, WireTypeOK
<1>4. LinkOK' /\ FlowsOK' /\ AliasesOK'
  BY DEF HandleRequest, Ignore, WireTypeOK, LinkOK, FlowsOK, AliasesOK, settings, session,
         idVars, flowVars, qosHistory, aliasVars, link, linkHistory, learned
<1> QED
  BY <1>3, <1>4 DEF WireTypeOK

\* cleanup() followed by the call of onDisconnect.
LEMMA CloseType ==
    ASSUME WireTypeOK, NEW t \in Tasks, NEW c \in Continuations, Cleanup, CallOnDisconnect,
           Goto(t, c), UNCHANGED <<settings, session, learned>>
    PROVE  WireTypeOK'
<1>1. LinkOK' /\ AliasesOK'
  BY CleanupType DEF WireTypeOK, LinkOK, settings, learned, CallOnDisconnect
<1>2. FlowsOK'
  BY DEF WireTypeOK, FlowsOK, session, idVars, flowVars, qosHistory
<1> QED
  BY <1>1, <1>2, GotoType DEF WireTypeOK

LEMMA DisconnectPromise == DisconnectHook \in Promises
  BY DEF DisconnectHook, Promises

\* The loop of receive() keeps the types.
LEMMA DispatchType ==
    ASSUME WireTypeOK, NEW t \in Tasks, NEW frames \in Seq(Frames), Dispatch(t, frames)
    PROVE  WireTypeOK'
<1>1. CASE frames = <<>>
  <2>1. /\ buffer' = frames /\ Goto(t, Idle)
        /\ UNCHANGED <<settings, session, aliasVars, link, linkHistory>>
    BY <1>1 DEF Dispatch
  <2>2. LinkOK' /\ FlowsOK' /\ AliasesOK'
    BY <2>1 DEF WireTypeOK, LinkOK, FlowsOK, AliasesOK, settings, session, idVars, flowVars,
                qosHistory, aliasVars, link, linkHistory, learned
  <2> QED
    BY <2>1, <2>2, LoopType, GotoType DEF WireTypeOK
<1>2. CASE frames # <<>>
  <2> DEFINE p == Head(frames)
             rest == AfterRead(frames)
  <2>1. p \in Frames /\ rest \in Seq(Frames)
    BY <1>2 DEF AfterRead
  <2>2. \/ HandleProtocolError(t, frames, "end")
        \/ HandleProtocolError(t, rest, "loop")
        \/ Ignore(t, rest)
        \/ p.type = "CONNECT" /\ HandleConnect(t, p, rest)
        \/ p.type = "PUBLISH" /\ HandlePublish(t, p, rest)
        \/ p.type = "PUBACK" /\ HandlePuback(t, p, rest)
        \/ p.type = "PUBREC" /\ HandlePubrec(t, p, rest)
        \/ p.type = "PUBREL" /\ HandlePubrel(t, p, rest)
        \/ p.type = "PUBCOMP" /\ HandlePubcomp(t, p, rest)
        \/ \E hook \in {"onSubscribe", "onUnsubscribe", "none"} : HandleRequest(t, hook, rest)
        \/ HandleDisconnect(t)
    BY <1>2 DEF Dispatch
  <2> HIDE DEF p, rest
  <2>3. CASE Ignore(t, rest)
    BY <2>1, <2>3, LoopType, GotoType
    DEF Ignore, WireTypeOK, LinkOK, FlowsOK, AliasesOK, settings, session, idVars, flowVars,
        qosHistory, aliasVars, link, linkHistory, learned, Promises
  <2>4. CASE HandleDisconnect(t)
    BY <2>4, CloseType, LoopType, DisconnectPromise DEF HandleDisconnect
  <2>5. CASE \E hook \in {"onSubscribe", "onUnsubscribe", "none"} :
                HandleRequest(t, hook, rest)
    BY <2>1, <2>5, RequestType DEF Promises
  <2> QED
    BY <2>1, <2>2, <2>3, <2>4, <2>5, ProtocolErrorType, ConnectType, PublishType,
       AcknowledgementType, PubrelType
<1> QED
  BY <1>1, <1>2

-----------------------------------------------------------------------------
(* The calls from outside. *)

LEMMA PushType ==
    ASSUME LinkOK, NEW chunk \in Chunks
    PROVE  buffer \o chunk \in Seq(Frames)
<1>1. buffer \in Seq(Frames) /\ chunk \in Seq(Frames)
  BY WireAssumption DEF LinkOK
<1> QED
  BY <1>1

LEMMA ReceiveType ==
    ASSUME WireTypeOK, NEW t \in Tasks, NEW chunk \in Chunks, Receive(t, chunk)
    PROVE  WireTypeOK'
  BY PushType, DispatchType DEF Receive, WireTypeOK

LEMMA AllocateType ==
    ASSUME FlowsOK, NEW id \in Ids, PacketIds!Allocate(id)
    PROVE  nextId' \in Ids /\ inUse' \subseteq Ids
  BY ConstantTypes DEF FlowsOK, PacketIds!Allocate, PacketIds!Successor,
                       PacketIds!MinPacketId, Ids

LEMMA AssignType ==
    ASSUME AliasesOK, NEW topic \in Topics, TopicAliases!GetOrAssignOutbound(topic)
    PROVE  AliasesOK'
<1> USE ConstantTypes
<1>1. TopicAliases!CanAssign(topic) =>
        nextOutboundAlias \in 1..MaxAlias /\ nextOutboundAlias + 1 \in 1..(MaxAlias + 1)
  BY DEF TopicAliases!CanAssign, AliasesOK
<1>2. topic \in Names
  BY DEF Names
<1>3. nextOutboundAlias \in 1..MaxAlias => nextOutboundAlias \in 0..MaxAlias
  OBVIOUS
<1>4. CASE TopicAliases!CanAssign(topic)
  <2>1. /\ UNCHANGED <<outboundMaximum, inboundMaximum, inboundAliases>>
        /\ nextOutboundAlias' = nextOutboundAlias + 1
        /\ outboundAliases' = [outboundAliases EXCEPT ![nextOutboundAlias] = topic]
        /\ topicToOutboundAlias' = [topicToOutboundAlias EXCEPT ![topic] = nextOutboundAlias]
    BY <1>4 DEF TopicAliases!GetOrAssignOutbound
  <2>2. outboundAliases' \in [1..MaxAlias -> Names]
    BY <1>2, <2>1 DEF AliasesOK
  <2>3. topicToOutboundAlias' \in [Topics -> 0..MaxAlias]
    BY <1>1, <1>3, <1>4, <2>1 DEF AliasesOK
  <2> QED
    BY <1>1, <1>4, <2>1, <2>2, <2>3 DEF AliasesOK
<1>5. CASE ~TopicAliases!CanAssign(topic)
  BY <1>5 DEF TopicAliases!GetOrAssignOutbound, AliasesOK
<1> QED
  BY <1>4, <1>5

\* What publish() tells the client with a topic is an alias of the width of an alias.
LEMMA NewAliasType ==
    ASSUME AliasesOK, NEW topic \in Topics, TopicAliases!SendTopic(topic),
           TopicAliases!OutboundAlias(topic) # NoAlias
    PROVE  TopicAliases!OutboundAlias(topic) \in 1..MaxAlias
  BY ConstantTypes DEF TopicAliases!OutboundAlias, TopicAliases!CanAssign, AliasesOK,
                       TopicAliases!SendTopic, TopicAliases!NoAlias, NoAlias

LEMMA PublishCallType ==
    ASSUME WireTypeOK, inputs \in 0..MaxInputs, NEW topic \in Topics, NEW qos \in PublishQoS,
           Publish(topic, qos)
    PROVE  WireTypeOK'
<1> DEFINE packet == [topic |-> topic, number |-> inputs]
<1>1. packet \in SentPackets
  BY ConstantTypes DEF SentPackets
<1>2. AliasesOK'
  BY AssignType DEF Publish, WireTypeOK, AliasesOK, aliasVars
<1>3. LinkOK'
  <2>1. topic \in Names
    BY DEF Names
  <2>2. CASE UNCHANGED learned
    BY <2>2 DEF Publish, WireTypeOK, LinkOK, settings, link, learned
  <2>3. CASE /\ protocolVersion = "5.0" /\ TopicAliases!SendTopic(topic)
             /\ TopicAliases!OutboundAlias(topic) # NoAlias
             /\ Teach(TopicAliases!OutboundAlias(topic), topic)
    <3>1. TopicAliases!OutboundAlias(topic) \in 1..MaxAlias
      BY <2>3, NewAliasType DEF WireTypeOK
    <3>2. clientAliases' \in [1..MaxAlias -> Names] /\ lostAliases' \subseteq 1..MaxAlias
      BY <2>1, <2>3, <3>1 DEF Teach, WireTypeOK, LinkOK
    <3> QED
      BY <3>2 DEF Publish, WireTypeOK, LinkOK, settings, link
  <2> QED
    BY <2>2, <2>3 DEF Publish
<1>4. FlowsOK'
  <2>1. UNCHANGED qosHistory
    BY DEF Publish
  <2>2. CASE UNCHANGED <<idVars, flowVars>>
    BY <2>1, <2>2 DEF WireTypeOK, FlowsOK, idVars, flowVars, qosHistory
  <2>3. CASE \E id \in Ids : /\ PacketIds!Allocate(id)
                             /\ \/ Flows!StartQoS1Outbound(id, packet, 0)
                                \/ Flows!StartQoS2Outbound(id, packet, 0)
    <3>1. PICK id \in Ids : /\ PacketIds!Allocate(id)
                            /\ \/ Flows!StartQoS1Outbound(id, packet, 0)
                               \/ Flows!StartQoS2Outbound(id, packet, 0)
      BY <2>3
    <3>2. /\ Flows!QoS1Flow(packet, 0) \in OutboundFlows
          /\ Flows!QoS2Flow(packet, "awaiting-pubrec", 0) \in OutboundFlows
      BY <1>1 DEF Flows!QoS1Flow, Flows!QoS2Flow, OutboundFlows
    <3> HIDE DEF packet
    <3>3. outbound' \in [FlowIds -> OutboundFlows] /\ UNCHANGED inbound
      BY <3>1, <3>2 DEF Flows!StartQoS1Outbound, Flows!StartQoS2Outbound, WireTypeOK, FlowsOK
    <3> QED
      BY <2>1, <3>1, <3>3, AllocateType DEF WireTypeOK, FlowsOK, qosHistory
  <2> QED
    BY <2>2, <2>3 DEF Publish
<1> QED
  BY <1>2, <1>3, <1>4 DEF Publish, WireTypeOK

LEMMA DisconnectCallType ==
    ASSUME WireTypeOK, NEW t \in Tasks, Disconnect(t)
    PROVE  WireTypeOK'
<1>1. UNCHANGED <<settings, session, learned>>
  BY DEF Disconnect
<1>2. [at |-> "disconnecting", on |-> "onSend", then |-> "caller"] \in Continuations
  BY DEF Continuations, Promises
<1>3. CASE Cleanup /\ UNCHANGED <<tasks, opening>>
  BY <1>1, <1>3, CleanupType
  DEF WireTypeOK, LinkOK, FlowsOK, settings, session, idVars, flowVars, qosHistory, learned
<1>4. CASE /\ Goto(t, [at |-> "disconnecting", on |-> "onSend", then |-> "caller"])
           /\ UNCHANGED <<link, aliasVars, buffer, opening>>
  BY <1>1, <1>2, <1>4, GotoType
  DEF WireTypeOK, LinkOK, FlowsOK, AliasesOK, settings, session, idVars, flowVars,
      qosHistory, link, aliasVars, learned
<1>5. CASE Cleanup /\ CallOnDisconnect /\ Goto(t, Last(DisconnectHook))
  BY <1>1, <1>5, CloseType, LoopType, DisconnectPromise
<1> QED
  BY <1>3, <1>4, <1>5 DEF Disconnect

LEMMA ResetType ==
    ASSUME WireTypeOK, Reset
    PROVE  WireTypeOK'
<1>1. /\ TopicAliases!ClearAliases /\ Flows!ClearFlows /\ PacketIds!ResetIds
      /\ UNCHANGED <<tasks, begun, released, handled, pubacks>>
  BY DEF Reset, qosHistory
<1>2. /\ state' = "awaiting-connect" /\ keepAliveTimer' = FALSE /\ buffer' = <<>>
      /\ clientReceiveMaximum' = MaxPacketId /\ clientTopicAliasMaximum' = 0
      /\ clientKeepAlive' = 0 /\ opening' = "none" /\ UNCHANGED protocolVersion
  BY DEF Reset
<1>3. clientAliases' = [alias \in 1..MaxAlias |-> ""] /\ lostAliases' = {}
  BY DEF Reset
<1>4. AliasesOK'
  <2>1. TopicAliases!NoMapping \in [1..MaxAlias -> Names]
    BY DEF TopicAliases!NoMapping, TopicAliases!Aliases, TopicAliases!NoTopic, Names
  <2>2. 0 \in 0..MaxAlias /\ 1 \in 1..(MaxAlias + 1)
    BY ConstantTypes
  <2> QED
    BY <1>1, <2>1, <2>2 DEF TopicAliases!ClearAliases, WireTypeOK, AliasesOK
<1>5. LinkOK'
  <2>1. clientAliases' \in [1..MaxAlias -> Names]
    BY <1>3 DEF Names
  <2>2. 0 \in 0..MaxAlias /\ MaxPacketId \in Nat /\ buffer' \in Seq(Frames)
    BY <1>2, ConstantTypes
  <2> QED
    BY <1>2, <1>3, <2>1, <2>2 DEF WireTypeOK, LinkOK
<1>6. FlowsOK'
  <2>1. Flows!NoFlow \in OutboundFlows /\ Flows!NoFlow \in InboundFlows
    BY DEF OutboundFlows, InboundFlows
  <2>2. outbound' \in [FlowIds -> OutboundFlows] /\ inbound' \in [FlowIds -> InboundFlows]
    BY <1>1, <2>1 DEF Flows!ClearFlows, Flows!FlowIds, FlowIds
  <2>3. nextId' \in Ids /\ inUse' \subseteq Ids
    BY <1>1, ConstantTypes DEF PacketIds!ResetIds, PacketIds!MinPacketId, Ids
  <2> QED
    BY <1>1, <2>2, <2>3 DEF WireTypeOK, FlowsOK
<1> QED
  BY <1>1, <1>4, <1>5, <1>6 DEF WireTypeOK

-----------------------------------------------------------------------------
(* What follows an await. *)

\* What a suspended call remembers.
LEMMA ContinuationFields ==
    ASSUME NEW c \in Continuations
    PROVE  /\ c.at \in {"handling", "acknowledging", "releasing"} => c.packetId \in FlowIds
           /\ c.at = "releasing" => c.packet \in StoredPackets
           /\ c.at = "disconnecting" => c.then \in {"loop", "end", "caller"}
           /\ c.at = "closing" => c.then \in {"loop", "end"}
  BY DEF Continuations

\* Steps that only move a call to its next await.
LEMMA MoveType ==
    ASSUME WireTypeOK, NEW t \in Tasks, NEW c \in Continuations, Goto(t, c),
           UNCHANGED <<settings, session, aliasVars, link, buffer, linkHistory>>
    PROVE  WireTypeOK'
<1>1. LinkOK' /\ FlowsOK' /\ AliasesOK'
  BY DEF WireTypeOK, LinkOK, FlowsOK, AliasesOK, settings, session, idVars, flowVars,
         qosHistory, aliasVars, link, linkHistory, learned
<1> QED
  BY <1>1, GotoType DEF WireTypeOK

LEMMA MovesType ==
    ASSUME WireTypeOK, NEW t \in Tasks,
           \/ Finish(t) \/ OnConnectSettles(t) \/ Deliver(t) \/ Answer(t)
           \/ Reject(t) \/ EncodeFails(t)
    PROVE  WireTypeOK'
<1>1. \A place \in {"accepting", "refusing"} :
          [at |-> place, on |-> "onSend"] \in Continuations
  BY DEF Continuations, Promises
<1>2. "none" \in Promises /\ "onSend" \in Promises /\ "onPublish" \in Promises
  BY DEF Promises
<1>3. CASE OnConnectSettles(t)
  <2>1. PICK place \in {"accepting", "refusing"} : Goto(t, [at |-> place, on |-> "onSend"])
    BY <1>3 DEF OnConnectSettles
  <2> QED
    BY <1>1, <1>3, <2>1, MoveType DEF OnConnectSettles
<1>4. CASE Finish(t) \/ Reject(t) \/ EncodeFails(t)
  BY <1>4, LoopType, MoveType DEF Finish, Reject, EncodeFails, Throw
<1>5. CASE Deliver(t) \/ Answer(t)
  BY <1>2, <1>5, LoopType, MoveType DEF Deliver, Answer
<1> QED
  BY <1>3, <1>4, <1>5

LEMMA AcceptType ==
    ASSUME WireTypeOK, NEW t \in Tasks, Accept(t)
    PROVE  WireTypeOK'
<1>1. AliasesOK'
  <2>1. TopicAliases!NoMapping \in [1..MaxAlias -> Names]
    BY DEF TopicAliases!NoMapping, TopicAliases!Aliases, TopicAliases!NoTopic, Names
  <2>2. 0 \in 0..MaxAlias /\ 1 \in 1..(MaxAlias + 1) /\ clientTopicAliasMaximum \in 0..MaxAlias
        /\ TopicAliasMaximum \in 0..MaxAlias
    BY ConstantTypes DEF WireTypeOK, LinkOK
  <2> QED
    BY <2>1, <2>2 DEF Accept, TopicAliases!Construct, AliasesOK
<1>2. LinkOK'
  BY DEF Accept, WireTypeOK, LinkOK, settings, learned
<1>3. FlowsOK'
  BY DEF Accept, WireTypeOK, FlowsOK, session, idVars, flowVars, qosHistory
<1>4. tasks' \in [Tasks -> Continuations]
  BY LoopType, GotoType DEF Accept, WireTypeOK, Promises
<1> QED
  BY <1>1, <1>2, <1>3, <1>4 DEF WireTypeOK

LEMMA AcknowledgeType ==
    ASSUME WireTypeOK, NEW t \in Tasks, Acknowledge(t)
    PROVE  WireTypeOK'
<1>1. LinkOK' /\ AliasesOK'
  BY DEF Acknowledge, WireTypeOK, LinkOK, AliasesOK, settings, link, linkHistory, learned, aliasVars
<1>2. FlowsOK'
  <2>1. tasks[t].packetId \in FlowIds
    BY ContinuationFields DEF Acknowledge, At, WireTypeOK
  <2>2. handled \in [FlowIds -> Nat] /\ pubacks \in [FlowIds -> Nat]
    BY DEF WireTypeOK, FlowsOK
  <2>3. handled' \in [FlowIds -> Nat] /\ pubacks' \in [FlowIds -> Nat]
    BY <2>1, <2>2 DEF Acknowledge
  <2> QED
    BY <2>3 DEF Acknowledge, WireTypeOK, FlowsOK, idVars, flowVars
<1>3. tasks' \in [Tasks -> Continuations]
  BY LoopType, GotoType DEF Acknowledge, WireTypeOK, Promises
<1> QED
  BY <1>1, <1>2, <1>3 DEF WireTypeOK

LEMMA ReleaseMessageType ==
    ASSUME WireTypeOK, NEW t \in Tasks, ReleaseMessage(t)
    PROVE  WireTypeOK'
<1> DEFINE packet == tasks[t].packet
<1>1. packet.topic \in Names /\ packet.alias \in NoAlias..MaxAlias
  BY ContinuationFields DEF ReleaseMessage, At, WireTypeOK, StoredPackets
<1>2. CASE Throw(t)
  BY <1>2, LoopType, MoveType DEF Throw
<1>3. CASE ~Throw(t)
  <2>1. /\ \/ /\ TopicAliases!Resolvable(packet.topic, packet.alias)
              /\ TopicAliases!ResolveInbound(packet.topic, packet.alias)
           \/ UNCHANGED aliasVars
        /\ released' = [released EXCEPT ![tasks[t].packetId] = @ + 1]
        /\ Goto(t, Loop("onPublish"))
        /\ UNCHANGED <<settings, idVars, flowVars, begun, handled, pubacks, link, buffer,
                       linkHistory>>
    BY <1>3 DEF ReleaseMessage
  <2>2. AliasesOK'
    BY <1>1, <2>1, ResolveType DEF WireTypeOK, AliasesOK, aliasVars
  <2>3. LinkOK'
    BY <2>1 DEF WireTypeOK, LinkOK, settings, link, linkHistory, learned
  <2>4. released' \in [FlowIds -> Nat]
    <3>1. tasks[t].packetId \in FlowIds
      BY ContinuationFields DEF ReleaseMessage, At, WireTypeOK
    <3>2. released \in [FlowIds -> Nat]
      BY DEF WireTypeOK, FlowsOK
    <3> QED
      BY <2>1, <3>1, <3>2
  <2>5. FlowsOK'
    BY <2>1, <2>4 DEF WireTypeOK, FlowsOK, idVars, flowVars
  <2>6. tasks' \in [Tasks -> Continuations]
    BY <2>1, LoopType, GotoType DEF WireTypeOK, Promises
  <2> QED
    BY <2>2, <2>3, <2>5, <2>6 DEF WireTypeOK
<1> QED
  BY <1>2, <1>3

LEMMA ClosingType ==
    ASSUME WireTypeOK, NEW t \in Tasks,
           Refuse(t) \/ FinishDisconnect(t) \/ FinishProtocolError(t)
    PROVE  WireTypeOK'
<1>1. CASE Refuse(t)
  BY <1>1, CloseType, LoopType, DisconnectPromise DEF Refuse
<1>2. CASE FinishDisconnect(t)
  <2>1. tasks[t].then \in {"loop", "end", "caller"}
    BY <1>2, ContinuationFields DEF FinishDisconnect, At, WireTypeOK
  <2>2. tasks[t].then # "caller" =>
          [at |-> "closing", on |-> DisconnectHook, then |-> tasks[t].then] \in Continuations
    BY <2>1, DisconnectPromise DEF Continuations
  <2> QED
    BY <1>2, <2>2, CloseType, LoopType, DisconnectPromise DEF FinishDisconnect
<1>3. CASE FinishProtocolError(t)
  <2>1. Return(tasks[t].then) \in Continuations
    BY LoopType DEF Return, Promises
  <2>2. LinkOK' /\ AliasesOK'
    BY <1>3, CleanupType DEF FinishProtocolError, WireTypeOK, LinkOK, settings, linkHistory, learned
  <2>3. FlowsOK'
    BY <1>3 DEF FinishProtocolError, WireTypeOK, FlowsOK, session, idVars, flowVars,
                qosHistory
  <2> QED
    BY <1>3, <2>1, <2>2, <2>3, GotoType DEF FinishProtocolError, WireTypeOK
<1> QED
  BY <1>1, <1>2, <1>3

-----------------------------------------------------------------------------
(* The type invariant. *)

LEMMA InitType == Init => TypeOK
<1> SUFFICES ASSUME Init PROVE TypeOK
  OBVIOUS
<1>1. AliasesOK
  <2>1. TopicAliases!NoMapping \in [1..MaxAlias -> Names]
    BY DEF TopicAliases!NoMapping, TopicAliases!Aliases, TopicAliases!NoTopic, Names
  <2>2. 0 \in 0..MaxAlias /\ 1 \in 1..(MaxAlias + 1)
    BY ConstantTypes
  <2> QED
    BY <2>1, <2>2 DEF Init, TopicAliases!AliasInit, AliasesOK
<1>2. LinkOK
  <2>1. [alias \in 1..MaxAlias |-> ""] \in [1..MaxAlias -> Names]
    BY DEF Names
  <2>2. 0 \in 0..MaxAlias /\ 0 \in Nat /\ MaxPacketId \in Nat /\ <<>> \in Seq(Frames)
    BY ConstantTypes
  <2> QED
    BY <2>1, <2>2 DEF Init, LinkOK, Versions
<1>3. FlowsOK
  <2>1. Flows!NoFlow \in OutboundFlows /\ Flows!NoFlow \in InboundFlows
    BY DEF OutboundFlows, InboundFlows
  <2>2. outbound \in [FlowIds -> OutboundFlows] /\ inbound \in [FlowIds -> InboundFlows]
    BY <2>1 DEF Init, Flows!FlowInit, Flows!FlowIds, FlowIds
  <2>3. nextId \in Ids /\ inUse \subseteq Ids
    <3>1. nextId = 1 /\ inUse = {}
      BY DEF Init, PacketIds!IdInit, PacketIds!MinPacketId
    <3> QED
      BY <3>1, ConstantTypes DEF Ids
  <2>4. [id \in FlowIds |-> 0] \in [FlowIds -> Nat]
    OBVIOUS
  <2>5. \A count \in {begun, released, handled, pubacks} : count = [id \in FlowIds |-> 0]
    BY DEF Init
  <2> QED
    BY <2>2, <2>3, <2>4, <2>5 DEF FlowsOK
<1>4. TasksOK
  <2>1. tasks = [t \in Tasks |-> Idle] /\ inputs = 0
    BY DEF Init
  <2> QED
    BY <2>1, LoopType, ConstantTypes DEF TasksOK
<1> QED
  BY <1>1, <1>2, <1>3, <1>4 DEF TypeOK

LEMMA NextWireType ==
    ASSUME TypeOK, Next
    PROVE  WireTypeOK'
<1>1. WireTypeOK /\ inputs \in 0..MaxInputs
  BY DEF TypeOK, TasksOK, WireTypeOK
<1>2. CASE \E t \in Tasks, chunk \in Chunks : Receive(t, chunk)
  BY <1>1, <1>2, ReceiveType
<1>3. CASE \E topic \in Topics, qos \in PublishQoS : Publish(topic, qos)
  BY <1>1, <1>3, PublishCallType
<1>4. CASE \E t \in Tasks : Disconnect(t)
  BY <1>1, <1>4, DisconnectCallType
<1>5. CASE \E t \in Tasks : KeepAliveTimeout(t)
  <2>1. buffer \in Seq(Frames)
    BY <1>1 DEF WireTypeOK, LinkOK
  <2> QED
    BY <1>1, <1>5, <2>1, ProtocolErrorType DEF KeepAliveTimeout
<1>6. CASE \E t \in Tasks : Settle(t)
  <2>1. buffer \in Seq(Frames)
    BY <1>1 DEF WireTypeOK, LinkOK
  <2>2. \A t \in Tasks : ReadNext(t) => WireTypeOK'
    BY <1>1, <2>1, DispatchType DEF ReadNext
  <2> QED
    BY <1>1, <1>6, <2>2, MovesType, AcceptType, AcknowledgeType, ReleaseMessageType,
       ClosingType DEF Settle
<1>7. CASE Reset
  BY <1>1, <1>7, ResetType
<1>8. CASE Rest
  BY <1>1, <1>8
  DEF Rest, vars, WireTypeOK, LinkOK, FlowsOK, AliasesOK, settings, idVars, flowVars,
      aliasVars, link, qosHistory, linkHistory, learned
<1> QED
  BY <1>2, <1>3, <1>4, <1>5, <1>6, <1>7, <1>8 DEF Next

LEMMA NextType == TypeOK /\ [Next]_vars => TypeOK'
<1> SUFFICES ASSUME TypeOK, [Next]_vars PROVE TypeOK'
  OBVIOUS
<1>1. CASE Next
  <2>1. inputs' = inputs \/ (inputs < MaxInputs /\ inputs' = inputs + 1)
    BY <1>1
    DEF Next, Receive, Publish, Disconnect, KeepAliveTimeout, Reset, Rest, Input, vars,
        Settle, ReadNext, Finish, OnConnectSettles, Accept, Refuse, Deliver, Acknowledge,
        ReleaseMessage, Answer, FinishDisconnect, FinishProtocolError, Reject, EncodeFails, At
  <2>2. inputs' \in 0..MaxInputs
    BY <2>1, ConstantTypes DEF TypeOK, TasksOK
  <2> QED
    BY <1>1, <2>2, NextWireType DEF WireTypeOK, TypeOK, TasksOK
<1>2. CASE UNCHANGED vars
  BY <1>2
  DEF vars, TypeOK, TasksOK, LinkOK, FlowsOK, AliasesOK, settings, idVars, flowVars,
      aliasVars, link, qosHistory, linkHistory, learned
<1> QED
  BY <1>1, <1>2

\* Whatever the client sends, whichever hooks fail and however calls interleave, every
\* variable keeps its type.
THEOREM WireTypeCorrect == Spec => []TypeOK
<1> QED
  BY InitType, NextType, PTL DEF Spec

-----------------------------------------------------------------------------
(* Packet ids and outbound flows. *)

idFlowVars == <<idVars, outbound>>

\* An id is taken for a new flow.
Start == \E id \in Ids, packet \in SentPackets :
            /\ PacketIds!Allocate(id)
            /\ \/ Flows!StartQoS1Outbound(id, packet, 0)
               \/ Flows!StartQoS2Outbound(id, packet, 0)

\* A flow ends and gives its id back.
End == \E id \in FlowIds : Flows!EndOutbound(id) /\ PacketIds!Release(id)

\* A PUBREC moves a flow on, or, when it refuses the message, ends it and leaves its id in
\* use.
Advance(refusals) ==
    /\ \E id \in FlowIds, refused \in refusals : Flows!HandlePubrec(id, refused, 0)
    /\ UNCHANGED idVars

Clear == Flows!ClearFlows /\ PacketIds!ResetIds

OutboundStep(refusals) == Start \/ End \/ Advance(refusals) \/ Clear \/ UNCHANGED idFlowVars

\* What the PUBRECs among these frames say of the message.
RefusalsIn(frames, refusals) ==
    \A i \in 1..Len(frames) : frames[i].type = "PUBREC" => frames[i].refused \in refusals

-----------------------------------------------------------------------------
(* Every step of the wire is such a step. *)

LEMMA SessionKept == UNCHANGED session => UNCHANGED idFlowVars
  BY DEF session, idFlowVars, flowVars

LEMMA HandlersAreOutboundSteps ==
    ASSUME TypeOK, NEW t \in Tasks, NEW frames \in Seq(Frames), Dispatch(t, frames),
           NEW refusals, FALSE \in refusals, refusals \subseteq BOOLEAN,
           RefusalsIn(frames, refusals)
    PROVE  OutboundStep(refusals)
<1>1. CASE UNCHANGED session
  BY <1>1, SessionKept DEF OutboundStep
<1>2. CASE ~UNCHANGED session
  <2> DEFINE p == Head(frames)
             rest == AfterRead(frames)
  <2>1. frames # <<>>
    BY <1>2 DEF Dispatch
  <2>2. p \in Frames
    BY <2>1
  <2>3. \/ p.type = "PUBLISH" /\ HandlePublish(t, p, rest)
        \/ p.type = "PUBACK" /\ HandlePuback(t, p, rest)
        \/ p.type = "PUBREC" /\ HandlePubrec(t, p, rest)
        \/ p.type = "PUBREL" /\ HandlePubrel(t, p, rest)
        \/ p.type = "PUBCOMP" /\ HandlePubcomp(t, p, rest)
    BY <1>2, <2>1 DEF Dispatch, HandleProtocolError, HandleConnect, HandleRequest,
                      HandleDisconnect, Ignore
  <2> HIDE DEF p, rest
  <2>4. /\ p.type \in {"PUBACK", "PUBREC", "PUBREL", "PUBCOMP"} => p.packetId \in FlowIds
        /\ p.type = "PUBREC" => p.refused \in refusals
    <3>1. p.type \in {"PUBACK", "PUBREC", "PUBREL", "PUBCOMP"} => p.packetId \in FlowIds
      BY <2>2, FrameFields
    <3>2. 1 \in 1..Len(frames) /\ p = frames[1]
      BY <2>1 DEF p
    <3> QED
      BY <3>1, <3>2 DEF RefusalsIn
  <2>5. CASE p.type = "PUBLISH" /\ HandlePublish(t, p, rest)
    BY <1>2, <2>5
    DEF HandlePublish, Ignore, HandleProtocolError, PublishQoS0, PublishQoS1, PublishQoS2,
        Flows!StartQoS2Inbound, flowVars, OutboundStep, idFlowVars
  <2>6. CASE p.type = "PUBACK" /\ HandlePuback(t, p, rest)
    BY <2>4, <2>6 DEF HandlePuback, Flows!HandlePuback, Flows!flowVars, OutboundStep, End,
                      idFlowVars
  <2>7. CASE p.type = "PUBREC" /\ HandlePubrec(t, p, rest)
    BY <2>4, <2>7 DEF HandlePubrec, OutboundStep, Advance
  <2>8. CASE p.type = "PUBREL" /\ HandlePubrel(t, p, rest)
    BY <2>8 DEF HandlePubrel, Flows!HandlePubrel, OutboundStep, idFlowVars
  <2>9. CASE p.type = "PUBCOMP" /\ HandlePubcomp(t, p, rest)
    BY <2>4, <2>9 DEF HandlePubcomp, Flows!HandlePubcomp, Flows!flowVars, OutboundStep, End,
                      idFlowVars
  <2> QED
    BY <2>3, <2>5, <2>6, <2>7, <2>8, <2>9
<1> QED
  BY <1>1, <1>2

LEMMA PublishIsOutboundStep ==
    ASSUME TypeOK, NEW topic \in Topics, NEW qos \in PublishQoS, Publish(topic, qos)
    PROVE  OutboundStep({FALSE})
<1> DEFINE packet == [topic |-> topic, number |-> inputs]
<1>1. packet \in SentPackets
  BY ConstantTypes DEF SentPackets, TypeOK, TasksOK
<1>2. CASE UNCHANGED <<idVars, flowVars>>
  BY <1>2 DEF OutboundStep, idFlowVars, flowVars
<1>3. CASE \E id \in Ids : /\ PacketIds!Allocate(id)
                           /\ \/ Flows!StartQoS1Outbound(id, packet, 0)
                              \/ Flows!StartQoS2Outbound(id, packet, 0)
  BY <1>1, <1>3 DEF OutboundStep, Start
<1> QED
  BY <1>2, <1>3 DEF Publish

LEMMA StepAllowsMore ==
    ASSUME NEW refusals, FALSE \in refusals, OutboundStep({FALSE})
    PROVE  OutboundStep(refusals)
  BY DEF OutboundStep, Advance

LEMMA PushKeepsRefusals ==
    ASSUME NEW frames \in Seq(Frames), NEW chunk \in Seq(Frames), NEW refusals,
           RefusalsIn(frames, refusals), RefusalsIn(chunk, refusals)
    PROVE  RefusalsIn(frames \o chunk, refusals)
  BY DEF RefusalsIn

LEMMA NextIsOutboundStep ==
    ASSUME TypeOK, [Next]_vars, NEW refusals, FALSE \in refusals, refusals \subseteq BOOLEAN,
           RefusalsIn(buffer, refusals), \A chunk \in Chunks : RefusalsIn(chunk, refusals)
    PROVE  OutboundStep(refusals)
<1>1. buffer \in Seq(Frames)
  BY DEF TypeOK, LinkOK
<1>2. CASE \E t \in Tasks, chunk \in Chunks : Receive(t, chunk)
  <2>1. PICK t \in Tasks, chunk \in Chunks : Receive(t, chunk)
    BY <1>2
  <2>2. chunk \in Seq(Frames) /\ RefusalsIn(chunk, refusals)
    BY WireAssumption
  <2> QED
    BY <1>1, <2>1, <2>2, PushType, PushKeepsRefusals, HandlersAreOutboundSteps DEF Receive, TypeOK
<1>3. CASE \E topic \in Topics, qos \in PublishQoS : Publish(topic, qos)
  BY <1>3, PublishIsOutboundStep, StepAllowsMore
<1>4. CASE \E t \in Tasks : Disconnect(t) \/ KeepAliveTimeout(t)
  BY <1>4, SessionKept DEF Disconnect, KeepAliveTimeout, HandleProtocolError, OutboundStep
<1>5. CASE \E t \in Tasks : Settle(t)
  <2>1. CASE \E t \in Tasks : ReadNext(t)
    BY <1>1, <2>1, HandlersAreOutboundSteps DEF ReadNext
  <2>2. CASE \E t \in Tasks : Acknowledge(t) \/ ReleaseMessage(t)
    <3>1. UNCHANGED <<idVars, flowVars>>
      BY <2>2 DEF Acknowledge, ReleaseMessage, Throw, session
    <3> QED
      BY <3>1 DEF OutboundStep, idFlowVars, flowVars
  <2>3. CASE \E t \in Tasks : \/ Finish(t) \/ OnConnectSettles(t) \/ Accept(t) \/ Refuse(t)
                              \/ Deliver(t) \/ Answer(t) \/ FinishDisconnect(t)
                              \/ FinishProtocolError(t) \/ Reject(t) \/ EncodeFails(t)
    <3>1. UNCHANGED session
      BY <2>3 DEF Finish, OnConnectSettles, Accept, Refuse, Deliver, Answer,
                  FinishDisconnect, FinishProtocolError, Reject, EncodeFails, Throw
    <3> QED
      BY <3>1, SessionKept DEF OutboundStep
  <2> QED
    BY <1>5, <2>1, <2>2, <2>3 DEF Settle
<1>6. CASE Reset
  BY <1>6 DEF Reset, OutboundStep, Clear
<1>7. CASE UNCHANGED vars
  BY <1>7 DEF vars, OutboundStep, idFlowVars, flowVars
<1> QED
  BY <1>2, <1>3, <1>4, <1>5, <1>6, <1>7 DEF Next, Rest

-----------------------------------------------------------------------------
(* The theorems. *)

LEMMA NextIsSomeOutboundStep == TypeOK /\ [Next]_vars => OutboundStep(BOOLEAN)
<1>1. \A frames \in Seq(Frames) : RefusalsIn(frames, BOOLEAN)
  BY DEF RefusalsIn, Frames
<1> QED
  BY <1>1, NextIsOutboundStep, WireAssumption DEF TypeOK, LinkOK

LEMMA StepKeepsIdsHeld ==
    ASSUME TypeOK, FlowIdsHeld, OutboundStep(BOOLEAN)
    PROVE  FlowIdsHeld'
<1> USE DEF FlowIdsHeld, TypeOK, FlowsOK
<1>1. CASE Start
  BY <1>1 DEF Start, PacketIds!Allocate, Flows!StartQoS1Outbound, Flows!StartQoS2Outbound
<1>2. CASE End
  BY <1>2 DEF End, Flows!EndOutbound, PacketIds!Release
<1>3. CASE Advance(BOOLEAN)
  <2>1. PICK id \in FlowIds, refused \in BOOLEAN : Flows!HandlePubrec(id, refused, 0)
    BY <1>3 DEF Advance
  <2>2. Flows!AwaitsPubrec(id) => outbound[id] # Flows!NoFlow
    BY DEF Flows!AwaitsPubrec, Flows!NoFlow
  <2>3. \A i \in FlowIds : outbound'[i] # Flows!NoFlow => outbound[i] # Flows!NoFlow
    BY <2>1, <2>2 DEF Flows!HandlePubrec, Flows!EndOutbound, Flows!flowVars
  <2> QED
    BY <1>3, <2>3 DEF Advance, idVars
<1>4. CASE Clear
  BY <1>4 DEF Clear, Flows!ClearFlows, Flows!FlowIds, FlowIds
<1>5. CASE UNCHANGED idFlowVars
  BY <1>5 DEF idFlowVars, idVars
<1> QED
  BY <1>1, <1>2, <1>3, <1>4, <1>5 DEF OutboundStep

\* No id of a live flow is ever free for publish() to take.
THEOREM FlowsKeepTheirIds == Spec => []FlowIdsHeld
<1>1. Init => FlowIdsHeld
  BY DEF Init, Flows!FlowInit, Flows!FlowIds, FlowIds, FlowIdsHeld
<1>2. TypeOK /\ FlowIdsHeld /\ [Next]_vars => FlowIdsHeld'
  BY NextIsSomeOutboundStep, StepKeepsIdsHeld
<1> QED
  BY <1>1, <1>2, WireTypeCorrect, PTL DEF Spec

LEMMA StepReplacesNoFlow ==
    ASSUME TypeOK, FlowIdsHeld, OutboundStep(BOOLEAN), NEW id \in FlowIds,
           outbound[id] # Flows!NoFlow, outbound'[id] # Flows!NoFlow
    PROVE  outbound'[id].packet = outbound[id].packet
<1> USE DEF TypeOK, FlowsOK
<1>1. CASE Start
  <2>1. PICK new \in Ids, packet \in SentPackets :
            /\ PacketIds!Allocate(new)
            /\ \/ Flows!StartQoS1Outbound(new, packet, 0)
               \/ Flows!StartQoS2Outbound(new, packet, 0)
    BY <1>1 DEF Start
  <2>2. id # new
    BY <2>1 DEF FlowIdsHeld, PacketIds!Allocate
  <2>3. outbound'[id] = outbound[id]
    BY <2>1, <2>2 DEF Flows!StartQoS1Outbound, Flows!StartQoS2Outbound
  <2> QED
    BY <2>3
<1>2. CASE End
  BY <1>2 DEF End, Flows!EndOutbound
<1>3. CASE Advance(BOOLEAN)
  <2>1. PICK i \in FlowIds, refused \in BOOLEAN : Flows!HandlePubrec(i, refused, 0)
    BY <1>3 DEF Advance
  <2> QED
    BY <2>1 DEF Flows!HandlePubrec, Flows!EndOutbound, Flows!flowVars, Flows!QoS2Flow
<1>4. CASE Clear
  BY <1>4 DEF Clear, Flows!ClearFlows, Flows!FlowIds, FlowIds
<1>5. CASE UNCHANGED idFlowVars
  BY <1>5 DEF idFlowVars
<1> QED
  BY <1>1, <1>2, <1>3, <1>4, <1>5 DEF OutboundStep

\* publish() never overwrites a flow that waits for its acknowledgement.
THEOREM FlowsAreNotReplaced == Spec => FlowNeverReplaced
<1>1. TypeOK /\ FlowIdsHeld /\ [Next]_vars =>
        [\A id \in FlowIds : outbound[id] # Flows!NoFlow /\ outbound'[id] # Flows!NoFlow
             => outbound'[id].packet = outbound[id].packet]_vars
  BY NextIsSomeOutboundStep, StepReplacesNoFlow
<1> QED
  BY <1>1, WireTypeCorrect, FlowsKeepTheirIds, PTL DEF Spec, FlowNeverReplaced
-----------------------------------------------------------------------------
(* A client that refuses nothing. *)

RefusesNothing(frames) == RefusalsIn(frames, {FALSE})

LEMMA EmptyRefusesNothing == RefusesNothing(<<>>)
<1>1. Len(<<>>) = 0
  OBVIOUS
<1>2. 1..Len(<<>>) = {}
  BY <1>1
<1> QED
  BY <1>2 DEF RefusesNothing, RefusalsIn

LEMMA HandlersReadInOrder ==
    ASSUME NEW t \in Tasks, NEW frames \in Seq(Frames), Dispatch(t, frames)
    PROVE  buffer' = <<>> \/ buffer' = frames \/ (frames # <<>> /\ buffer' = Tail(frames))
  BY DEF Dispatch, AfterRead, HandleProtocolError, Ignore, HandleConnect, HandlePublish,
         HandlePuback, HandlePubrec, HandlePubrel, HandlePubcomp, HandleRequest,
         HandleDisconnect, Cleanup

LEMMA HandlersKeepRefusals ==
    ASSUME NEW t \in Tasks, NEW frames \in Seq(Frames), Dispatch(t, frames),
           RefusesNothing(frames)
    PROVE  RefusesNothing(buffer')
<1>1. CASE buffer' = <<>>
  BY <1>1, EmptyRefusesNothing
<1>2. CASE buffer' = frames
  BY <1>2
<1>3. CASE frames # <<>> /\ buffer' = Tail(frames)
  <2>1. Len(Tail(frames)) = Len(frames) - 1 /\ Len(frames) \in Nat
    BY <1>3
  <2>2. \A i \in 1..Len(Tail(frames)) : i + 1 \in 1..Len(frames) /\ Tail(frames)[i] = frames[i + 1]
    BY <1>3, <2>1
  <2> QED
    BY <1>3, <2>2 DEF RefusesNothing, RefusalsIn
<1> QED
  BY <1>1, <1>2, <1>3, HandlersReadInOrder

LEMMA NextKeepsRefusals ==
    ASSUME TypeOK, [Next]_vars, RefusesNothing(buffer),
           \A chunk \in Chunks : RefusesNothing(chunk)
    PROVE  RefusesNothing(buffer')
<1>1. buffer \in Seq(Frames)
  BY DEF TypeOK, LinkOK
<1>2. CASE buffer' = <<>> \/ UNCHANGED buffer
  BY <1>2, EmptyRefusesNothing
<1>3. CASE \E t \in Tasks, chunk \in Chunks : Receive(t, chunk)
  <2>1. PICK t \in Tasks, chunk \in Chunks : Receive(t, chunk)
    BY <1>3
  <2>2. chunk \in Seq(Frames) /\ RefusesNothing(chunk)
    BY WireAssumption
  <2>3. buffer \o chunk \in Seq(Frames) /\ RefusesNothing(buffer \o chunk)
    BY <1>1, <2>2, PushKeepsRefusals DEF RefusesNothing
  <2> QED
    BY <2>1, <2>3, HandlersKeepRefusals DEF Receive
<1>4. CASE \E t \in Tasks : ReadNext(t)
  BY <1>1, <1>4, HandlersKeepRefusals DEF ReadNext
<1>5. CASE \E t \in Tasks : KeepAliveTimeout(t)
  BY <1>2, <1>5 DEF KeepAliveTimeout, HandleProtocolError, Cleanup
<1>6. CASE \E t \in Tasks : Disconnect(t)
  BY <1>2, <1>6 DEF Disconnect, Cleanup
<1>7. CASE \E t \in Tasks : Settle(t) /\ ~ReadNext(t)
  BY <1>2, <1>7
  DEF Settle, Finish, OnConnectSettles, Accept, Refuse, Deliver, Acknowledge, ReleaseMessage,
      Answer, FinishDisconnect, FinishProtocolError, Reject, EncodeFails, Throw, Cleanup
<1>8. CASE \/ \E topic \in Topics, qos \in PublishQoS : Publish(topic, qos)
           \/ Reset \/ UNCHANGED vars
  BY <1>2, <1>8 DEF Publish, Reset, vars
<1> QED
  BY <1>3, <1>4, <1>5, <1>6, <1>7, <1>8 DEF Next, Rest

LEMMA StepKeepsIdsMatched ==
    ASSUME TypeOK, IdsMatchFlows, OutboundStep({FALSE})
    PROVE  IdsMatchFlows'
<1> USE DEF IdsMatchFlows, TypeOK, FlowsOK
<1>0. Ids \subseteq FlowIds
  BY ConstantTypes DEF Ids, FlowIds
<1>1. CASE Start
  BY <1>0, <1>1 DEF Start, PacketIds!Allocate, Flows!StartQoS1Outbound,
                    Flows!StartQoS2Outbound, Flows!QoS1Flow, Flows!QoS2Flow, Flows!NoFlow
<1>2. CASE End
  BY <1>0, <1>2 DEF End, Flows!EndOutbound, PacketIds!Release
<1>3. CASE Advance({FALSE})
  <2>1. PICK id \in FlowIds : Flows!HandlePubrec(id, FALSE, 0)
    BY <1>3 DEF Advance
  <2>2. \A i \in FlowIds : outbound[i] # Flows!NoFlow => outbound'[i] # Flows!NoFlow
    BY <2>1 DEF Flows!HandlePubrec, Flows!QoS2Flow, Flows!NoFlow, Flows!flowVars
  <2> QED
    BY <1>0, <1>3, <2>2 DEF Advance, idVars
<1>4. CASE Clear
  BY <1>4 DEF Clear, PacketIds!ResetIds
<1>5. CASE UNCHANGED idFlowVars
  BY <1>5 DEF idFlowVars, idVars
<1> QED
  BY <1>1, <1>2, <1>3, <1>4, <1>5 DEF OutboundStep

\* With a client that refuses no message, no packet id is lost: each one in use belongs to a
\* message that waits for its acknowledgement.
THEOREM NoIdIsLost ==
    ASSUME \A chunk \in Chunks : RefusesNothing(chunk)
    PROVE  Spec => []IdsMatchFlows
<1> DEFINE Unrefused == IdsMatchFlows /\ RefusesNothing(buffer)
<1>1. Init => Unrefused
  BY EmptyRefusesNothing DEF Init, PacketIds!IdInit, IdsMatchFlows
<1>2. TypeOK /\ Unrefused /\ [Next]_vars => Unrefused'
  BY NextIsOutboundStep, NextKeepsRefusals, StepKeepsIdsMatched DEF RefusesNothing
<1>3. Unrefused => IdsMatchFlows
  OBVIOUS
<1> HIDE DEF Unrefused
<1> QED
  BY <1>1, <1>2, <1>3, WireTypeCorrect, PTL DEF Spec

-----------------------------------------------------------------------------
(* Messages of the client. *)


\* A step after which no further call is about to deliver.
NoNewRelease == \A id \in FlowIds : Releasing(id)' \subseteq Releasing(id)

Kept == NoNewRelease /\ UNCHANGED <<inbound, begun, released>>

Accepted == /\ NoNewRelease
            /\ \E id \in FlowIds, packet \in StoredPackets :
                  /\ ~Flows!HasInbound(id)
                  /\ inbound' = [inbound EXCEPT ![id] = Flows!InboundFlow(packet)]
                  /\ begun' = [begun EXCEPT ![id] = @ + 1]
            /\ UNCHANGED released

\* PUBREL: the tracker lets go of the message, and at most this call will deliver it.
LetGo == \E id \in FlowIds, t \in Tasks :
            /\ inbound' = [inbound EXCEPT ![id] = Flows!NoFlow]
            /\ Releasing(id)' \subseteq
                   Releasing(id) \cup (IF Flows!HasInbound(id) THEN {t} ELSE {})
            /\ \A other \in FlowIds \ {id} : Releasing(other)' \subseteq Releasing(other)
            /\ UNCHANGED <<begun, released>>

Delivered == \E id \in FlowIds, t \in Tasks :
                /\ t \in Releasing(id)
                /\ released' = [released EXCEPT ![id] = @ + 1]
                /\ Releasing(id)' \subseteq Releasing(id) \ {t}
                /\ NoNewRelease
                /\ UNCHANGED <<inbound, begun>>

Cleared == Flows!ClearFlows /\ NoNewRelease /\ UNCHANGED <<begun, released>>

MessageStep == Kept \/ Accepted \/ LetGo \/ Delivered \/ Cleared

-----------------------------------------------------------------------------
(* Every step of the wire is such a step. *)

LEMMA GotoReleasesNothing ==
    ASSUME TasksOK, NEW t \in Tasks, NEW c, c.at # "releasing", Goto(t, c)
    PROVE  /\ NoNewRelease
           /\ \A id \in FlowIds : Releasing(id)' \subseteq Releasing(id) \ {t}
  BY DEF TasksOK, Goto, NoNewRelease, Releasing

LEMMA MoveKeeps ==
    ASSUME TasksOK, NEW t \in Tasks, NEW c, c.at # "releasing", Goto(t, c), UNCHANGED session
    PROVE  Kept
  BY GotoReleasesNothing DEF Kept, session, flowVars, qosHistory

LEMMA PlacesReleaseNothing ==
    /\ Idle.at # "releasing"
    /\ \A hook : Loop(hook).at # "releasing" /\ Last(hook).at # "releasing"
    /\ \A then : Return(then).at # "releasing"
  BY DEF Idle, Loop, Last, Return

LEMMA ProtocolErrorKeeps ==
    ASSUME TasksOK, NEW t \in Tasks, NEW rest, NEW then, HandleProtocolError(t, rest, then)
    PROVE  Kept
<1>1. PICK c : c.at # "releasing" /\ Goto(t, c)
  BY PlacesReleaseNothing DEF HandleProtocolError
<1> QED
  BY <1>1, MoveKeeps DEF HandleProtocolError

LEMMA PublishIsMessageStep ==
    ASSUME TypeOK, NEW t \in Tasks, NEW rest, NEW p \in Frames, p.type = "PUBLISH",
           HandlePublish(t, p, rest)
    PROVE  MessageStep
<1> DEFINE topic == IF protocolVersion = "5.0" THEN TopicAliases!Resolved(p.topic, p.alias)
                    ELSE p.topic
<1> USE DEF MessageStep
<1>1. CASE Ignore(t, rest)
  BY <1>1, MoveKeeps, PlacesReleaseNothing DEF Ignore, TypeOK
<1>2. CASE HandleProtocolError(t, rest, "loop")
  BY <1>2, ProtocolErrorKeeps DEF TypeOK
<1>3. CASE ~Ignore(t, rest) /\ ~HandleProtocolError(t, rest, "loop")
  <2>1. /\ PublishQoS0(t) \/ PublishQoS1(t, p) \/ PublishQoS2(t, p, topic)
        /\ protocolVersion = "5.0" => TopicAliases!Resolvable(p.topic, p.alias)
    BY <1>3 DEF HandlePublish
  <2>2. topic \in Names /\ p.packetId \in FlowIds /\ p.topic \in Names
        /\ p.alias \in NoAlias..MaxAlias
    BY <2>1, FrameFields, ResolveType DEF TypeOK
  <2> HIDE DEF topic
  <2>3. NoNewRelease
    BY <2>1, GotoReleasesNothing, PlacesReleaseNothing
    DEF PublishQoS0, PublishQoS1, PublishQoS2, TypeOK
  <2>4. CASE PublishQoS0(t) \/ PublishQoS1(t, p)
    BY <2>3, <2>4 DEF PublishQoS0, PublishQoS1, Kept, flowVars, qosHistory
  <2>5. CASE PublishQoS2(t, p, topic)
    <3>1. [topic |-> p.topic, meant |-> topic,
           alias |-> IF protocolVersion = "5.0" THEN p.alias ELSE NoAlias] \in StoredPackets
      BY <2>2, StoredType
    <3> QED
      BY <2>2, <2>3, <2>5, <3>1
      DEF PublishQoS2, Flows!StartQoS2Inbound, Kept, Accepted, flowVars
  <2> QED
    BY <2>1, <2>4, <2>5
<1> QED
  BY <1>1, <1>2, <1>3

LEMMA PubrelIsMessageStep ==
    ASSUME TypeOK, NEW t \in Tasks, NEW rest, NEW p \in Frames, p.type = "PUBREL",
           HandlePubrel(t, p, rest)
    PROVE  LetGo
<1> DEFINE id == p.packetId
           release == [at |-> "releasing", on |-> "onSend", packetId |-> id,
                       packet |-> inbound[id].packet]
<1>1. id \in FlowIds
  BY FrameFields
<1>2. inbound' = [inbound EXCEPT ![id] = Flows!NoFlow] /\ UNCHANGED <<begun, released>>
  BY DEF HandlePubrel, Flows!HandlePubrel, qosHistory
<1>3. CASE Goto(t, Loop("onSend"))
  BY <1>1, <1>2, <1>3, GotoReleasesNothing, PlacesReleaseNothing
  DEF LetGo, NoNewRelease, TypeOK
<1>4. CASE Flows!HasInbound(id) /\ Goto(t, release)
  <2>1. Releasing(id)' \subseteq Releasing(id) \cup {t}
    BY <1>4 DEF Goto, Releasing, TypeOK, TasksOK
  <2>2. \A other \in FlowIds \ {id} : Releasing(other)' \subseteq Releasing(other)
    BY <1>4 DEF Goto, Releasing, TypeOK, TasksOK
  <2> QED
    BY <1>1, <1>2, <1>4, <2>1, <2>2 DEF LetGo
<1> QED
  BY <1>3, <1>4 DEF HandlePubrel

LEMMA HandlersAreMessageSteps ==
    ASSUME TypeOK, NEW t \in Tasks, NEW frames \in Seq(Frames), Dispatch(t, frames)
    PROVE  MessageStep
<1> DEFINE p == Head(frames)
           rest == AfterRead(frames)
<1>1. CASE frames = <<>>
  BY <1>1, MoveKeeps, PlacesReleaseNothing DEF Dispatch, TypeOK, MessageStep
<1>2. CASE frames # <<>>
  <2>1. p \in Frames
    BY <1>2
  <2>2. \/ HandleProtocolError(t, frames, "end")
        \/ HandleProtocolError(t, rest, "loop")
        \/ Ignore(t, rest)
        \/ HandleConnect(t, p, rest)
        \/ p.type = "PUBLISH" /\ HandlePublish(t, p, rest)
        \/ HandlePuback(t, p, rest) \/ HandlePubrec(t, p, rest) \/ HandlePubcomp(t, p, rest)
        \/ p.type = "PUBREL" /\ HandlePubrel(t, p, rest)
        \/ \E hook \in {"onSubscribe", "onUnsubscribe", "none"} : HandleRequest(t, hook, rest)
        \/ HandleDisconnect(t)
    BY <1>2 DEF Dispatch
  <2> HIDE DEF p, rest
  <2> USE DEF MessageStep
  <2>3. CASE HandleConnect(t, p, rest)
    BY <2>3, ProtocolErrorKeeps, MoveKeeps DEF HandleConnect, TypeOK
  <2>4. CASE HandlePuback(t, p, rest) \/ HandlePubrec(t, p, rest) \/ HandlePubcomp(t, p, rest)
    <3>1. NoNewRelease
      BY <2>4, GotoReleasesNothing, PlacesReleaseNothing
      DEF HandlePuback, HandlePubrec, HandlePubcomp, TypeOK
    <3>2. UNCHANGED <<inbound, begun, released>>
      BY <2>4 DEF HandlePuback, HandlePubrec, HandlePubcomp, Flows!HandlePuback,
                  Flows!HandlePubrec, Flows!HandlePubcomp, Flows!EndOutbound, Flows!flowVars,
                  qosHistory
    <3> QED
      BY <3>1, <3>2 DEF Kept
  <2>5. CASE \/ Ignore(t, rest)
             \/ \E hook \in {"onSubscribe", "onUnsubscribe", "none"} :
                    HandleRequest(t, hook, rest)
             \/ HandleDisconnect(t)
    <3>1. UNCHANGED session
      BY <2>5 DEF Ignore, HandleRequest, HandleDisconnect
    <3>2. PICK c : c.at # "releasing" /\ Goto(t, c)
      BY <2>5, PlacesReleaseNothing DEF Ignore, HandleRequest, HandleDisconnect
    <3> QED
      BY <3>1, <3>2, MoveKeeps DEF TypeOK
  <2> QED
    BY <2>1, <2>2, <2>3, <2>4, <2>5, ProtocolErrorKeeps, PublishIsMessageStep,
       PubrelIsMessageStep DEF TypeOK
<1> QED
  BY <1>1, <1>2
LEMMA ReleaseIsMessageStep ==
    ASSUME TypeOK, NEW t \in Tasks, ReleaseMessage(t)
    PROVE  MessageStep
<1>1. CASE Throw(t)
  BY <1>1, MoveKeeps, PlacesReleaseNothing DEF Throw, MessageStep, TypeOK
<1>2. CASE ~Throw(t)
  <2>1. /\ released' = [released EXCEPT ![tasks[t].packetId] = @ + 1]
        /\ Goto(t, Loop("onPublish"))
        /\ UNCHANGED <<flowVars, begun>>
    BY <1>2 DEF ReleaseMessage
  <2>2. PICK id \in FlowIds : id = tasks[t].packetId /\ t \in Releasing(id)
    BY ContinuationFields DEF ReleaseMessage, At, TypeOK, TasksOK, Releasing
  <2>3. NoNewRelease /\ Releasing(id)' \subseteq Releasing(id) \ {t}
    BY <2>1, GotoReleasesNothing, PlacesReleaseNothing DEF TypeOK
  <2>4. released' = [released EXCEPT ![id] = @ + 1] /\ UNCHANGED <<inbound, begun>>
    BY <2>1, <2>2 DEF flowVars
  <2> QED
    BY <2>2, <2>3, <2>4 DEF MessageStep, Delivered
<1> QED
  BY <1>1, <1>2

LEMMA NextIsMessageStep == TypeOK /\ [Next]_vars => MessageStep
<1> SUFFICES ASSUME TypeOK, [Next]_vars PROVE MessageStep
  OBVIOUS
<1> USE DEF MessageStep
<1>1. LinkOK /\ TasksOK /\ buffer \in Seq(Frames)
  BY DEF TypeOK, LinkOK
<1>2. CASE \E t \in Tasks, chunk \in Chunks : Receive(t, chunk)
  BY <1>1, <1>2, PushType, HandlersAreMessageSteps DEF Receive
<1>3. CASE UNCHANGED <<tasks, inbound, begun, released>>
  BY <1>3 DEF Kept, NoNewRelease, Releasing
<1>4. CASE \E topic \in Topics, qos \in PublishQoS : Publish(topic, qos)
  BY <1>3, <1>4 DEF Publish, Flows!StartQoS1Outbound, Flows!StartQoS2Outbound, flowVars,
                    qosHistory
<1>5. CASE \E t \in Tasks : Disconnect(t)
  <2>1. PICK t \in Tasks : Disconnect(t)
    BY <1>5
  <2>2. UNCHANGED session
    BY <2>1 DEF Disconnect
  <2>3. UNCHANGED tasks \/ \E c : c.at # "releasing" /\ Goto(t, c)
    BY <2>1, PlacesReleaseNothing DEF Disconnect
  <2> QED
    BY <1>1, <1>3, <2>2, <2>3, MoveKeeps DEF session, flowVars, qosHistory
<1>6. CASE \E t \in Tasks : KeepAliveTimeout(t)
  BY <1>1, <1>6, ProtocolErrorKeeps DEF KeepAliveTimeout
<1>7. CASE \E t \in Tasks : Settle(t)
  <2>1. PICK t \in Tasks : Settle(t)
    BY <1>7
  <2>2. CASE ReadNext(t)
    BY <1>1, <2>2, HandlersAreMessageSteps DEF ReadNext
  <2>3. CASE ReleaseMessage(t)
    BY <2>3, ReleaseIsMessageStep
  <2>4. CASE Acknowledge(t)
    <3>1. UNCHANGED <<inbound, begun, released>>
      BY <2>4 DEF Acknowledge, flowVars
    <3>2. NoNewRelease
      BY <1>1, <2>4, GotoReleasesNothing, PlacesReleaseNothing DEF Acknowledge
    <3> QED
      BY <3>1, <3>2 DEF Kept
  <2>5. CASE \/ Finish(t) \/ OnConnectSettles(t) \/ Accept(t) \/ Refuse(t) \/ Deliver(t)
             \/ Answer(t) \/ FinishDisconnect(t) \/ FinishProtocolError(t) \/ Reject(t)
             \/ EncodeFails(t)
    <3>1. UNCHANGED session
      BY <2>5 DEF Finish, OnConnectSettles, Accept, Refuse, Deliver, Answer,
                  FinishDisconnect, FinishProtocolError, Reject, EncodeFails, Throw
    <3>2. \E c : c.at # "releasing" /\ Goto(t, c)
      <4>1. CASE OnConnectSettles(t)
        BY <4>1 DEF OnConnectSettles
      <4>2. CASE FinishDisconnect(t)
        BY <4>2, PlacesReleaseNothing DEF FinishDisconnect
      <4> QED
        BY <2>5, <4>1, <4>2, PlacesReleaseNothing
        DEF Finish, Accept, Refuse, Deliver, Answer, FinishProtocolError, Reject,
            EncodeFails, Throw
    <3> QED
      BY <1>1, <3>1, <3>2, MoveKeeps
  <2> QED
    BY <2>1, <2>2, <2>3, <2>4, <2>5 DEF Settle
<1>8. CASE Reset
  BY <1>8 DEF Reset, Cleared, NoNewRelease, Releasing, qosHistory
<1>9. CASE UNCHANGED vars
  BY <1>3, <1>9 DEF vars, flowVars, qosHistory
<1> QED
  BY <1>2, <1>4, <1>5, <1>6, <1>7, <1>8, <1>9 DEF Next, Rest

-----------------------------------------------------------------------------
(* The theorem. *)

LEMMA ReleasingFinite ==
    ASSUME NEW id \in FlowIds
    PROVE  IsFiniteSet(Releasing(id)) /\ Cardinality(Releasing(id)) \in Nat
<1>1. IsFiniteSet(Tasks) /\ Releasing(id) \subseteq Tasks
  BY WireAssumption DEF Releasing
<1> QED
  BY <1>1, FS_Subset, FS_CardinalityType

\* Fewer calls are no more calls, one call more is one more, one less one less.
LEMMA ReleasingCount ==
    ASSUME NEW id \in FlowIds, NEW t
    PROVE  /\ Releasing(id)' \subseteq Releasing(id) =>
                Cardinality(Releasing(id)') <= Cardinality(Releasing(id))
           /\ Releasing(id)' \subseteq Releasing(id) \cup {t} =>
                Cardinality(Releasing(id)') <= Cardinality(Releasing(id)) + 1
           /\ t \in Releasing(id) /\ Releasing(id)' \subseteq Releasing(id) \ {t} =>
                Cardinality(Releasing(id)') <= Cardinality(Releasing(id)) - 1
<1> DEFINE before == Releasing(id)
           after  == Releasing(id)'
<1>1. IsFiniteSet(before) /\ Cardinality(before) \in Nat
  BY ReleasingFinite
<1> HIDE DEF before, after
<1>2. after \subseteq before => Cardinality(after) <= Cardinality(before)
  BY <1>1, FS_Subset
<1>3. after \subseteq before \cup {t} => Cardinality(after) <= Cardinality(before) + 1
  <2>1. /\ IsFiniteSet(before \cup {t})
        /\ \/ Cardinality(before \cup {t}) = Cardinality(before)
           \/ Cardinality(before \cup {t}) = Cardinality(before) + 1
    BY <1>1, FS_AddElement
  <2>2. after \subseteq before \cup {t} => /\ Cardinality(after) <= Cardinality(before \cup {t})
                                           /\ IsFiniteSet(after)
    BY <2>1, FS_Subset
  <2>3. IsFiniteSet(after) => Cardinality(after) \in Nat
    BY FS_CardinalityType
  <2> QED
    BY <1>1, <2>1, <2>2, <2>3
<1>4. t \in before /\ after \subseteq before \ {t} =>
        Cardinality(after) <= Cardinality(before) - 1
  <2>1. IsFiniteSet(before \ {t})
        /\ (t \in before => Cardinality(before \ {t}) = Cardinality(before) - 1)
    BY <1>1, FS_RemoveElement
  <2>2. after \subseteq before \ {t} => Cardinality(after) <= Cardinality(before \ {t})
    BY <2>1, FS_Subset
  <2> QED
    BY <2>1, <2>2
<1> QED
  BY <1>2, <1>3, <1>4 DEF before, after

LEMMA StepKeepsAtMostOnce ==
    ASSUME TypeOK, QoS2AtMostOnce, MessageStep
    PROVE  QoS2AtMostOnce'
<1> DEFINE waiting(id) == IF Flows!HasInbound(id) THEN 1 ELSE 0
<1> SUFFICES ASSUME NEW id \in FlowIds
             PROVE  released'[id] + Cardinality(Releasing(id)') + waiting(id)' <= begun'[id]
  BY DEF QoS2AtMostOnce
<1>1. released[id] + Cardinality(Releasing(id)) + waiting(id) <= begun[id]
  BY DEF QoS2AtMostOnce
<1>2. /\ released \in [FlowIds -> Nat] /\ begun \in [FlowIds -> Nat]
      /\ inbound \in [FlowIds -> InboundFlows]
  BY DEF TypeOK, FlowsOK
<1>3. /\ Cardinality(Releasing(id)) \in Nat
      /\ Cardinality(Releasing(id)') \in Nat
  <2>1. IsFiniteSet(Tasks) /\ Releasing(id)' \subseteq Tasks
    BY WireAssumption DEF Releasing
  <2>2. Cardinality(Releasing(id)') \in Nat
    BY <2>1, FS_Subset, FS_CardinalityType
  <2> QED
    BY <2>2, ReleasingFinite
<1>4. NoNewRelease => Cardinality(Releasing(id)') <= Cardinality(Releasing(id))
  BY ReleasingCount DEF NoNewRelease
<1>5. CASE Kept
  <2>1. waiting(id)' = waiting(id) /\ released'[id] = released[id] /\ begun'[id] = begun[id]
    BY <1>5 DEF Kept, Flows!HasInbound
  <2> QED
    BY <1>1, <1>2, <1>3, <1>4, <1>5, <2>1 DEF Kept
<1>6. CASE Accepted
  <2>1. PICK new \in FlowIds, packet \in StoredPackets :
            /\ ~Flows!HasInbound(new)
            /\ inbound' = [inbound EXCEPT ![new] = Flows!InboundFlow(packet)]
            /\ begun' = [begun EXCEPT ![new] = @ + 1]
    BY <1>6 DEF Accepted
  <2>2. CASE id = new
    <3>1. waiting(id) = 0 /\ waiting(id)' <= 1 /\ waiting(id)' \in Nat
      BY <2>1, <2>2
    <3>2. begun'[id] = begun[id] + 1 /\ released'[id] = released[id]
      BY <1>2, <1>6, <2>1, <2>2 DEF Accepted
    <3> HIDE DEF waiting
    <3> QED
      BY <1>1, <1>2, <1>3, <1>4, <1>6, <3>1, <3>2 DEF Accepted
  <2>3. CASE id # new
    <3>1. waiting(id)' = waiting(id) /\ begun'[id] = begun[id] /\ released'[id] = released[id]
      BY <1>2, <1>6, <2>1, <2>3 DEF Accepted, Flows!HasInbound
    <3> QED
      BY <1>1, <1>2, <1>3, <1>4, <1>6, <3>1 DEF Accepted
  <2> QED
    BY <2>2, <2>3
<1>7. CASE LetGo
  <2>1. PICK gone \in FlowIds, t \in Tasks :
            /\ inbound' = [inbound EXCEPT ![gone] = Flows!NoFlow]
            /\ Releasing(gone)' \subseteq
                   Releasing(gone) \cup (IF Flows!HasInbound(gone) THEN {t} ELSE {})
            /\ \A other \in FlowIds \ {gone} : Releasing(other)' \subseteq Releasing(other)
            /\ UNCHANGED <<begun, released>>
    BY <1>7 DEF LetGo
  <2>2. released'[id] = released[id] /\ begun'[id] = begun[id]
    BY <2>1
  <2>3. CASE id = gone
    <3>1. waiting(id)' = 0
      BY <1>2, <2>1, <2>3 DEF Flows!HasInbound
    <3>2. Cardinality(Releasing(id)') <= Cardinality(Releasing(id)) + waiting(id)
      <4>1. CASE Flows!HasInbound(id)
        BY <2>1, <2>3, <4>1, ReleasingCount
      <4>2. CASE ~Flows!HasInbound(id)
        <5>1. Releasing(id)' \subseteq Releasing(id)
          BY <2>1, <2>3, <4>2
        <5> QED
          BY <1>3, <4>2, <5>1, ReleasingCount
      <4> QED
        BY <4>1, <4>2
    <3> QED
      BY <1>1, <1>2, <1>3, <2>2, <3>1, <3>2
  <2>4. CASE id # gone
    <3>1. waiting(id)' = waiting(id)
      BY <1>2, <2>1, <2>4 DEF Flows!HasInbound
    <3>2. Cardinality(Releasing(id)') <= Cardinality(Releasing(id))
      BY <2>1, <2>4, ReleasingCount
    <3> QED
      BY <1>1, <1>2, <1>3, <2>2, <3>1, <3>2
  <2> QED
    BY <2>3, <2>4
<1>8. CASE Delivered
  <2>1. PICK done \in FlowIds, t \in Tasks :
            /\ t \in Releasing(done)
            /\ released' = [released EXCEPT ![done] = @ + 1]
            /\ Releasing(done)' \subseteq Releasing(done) \ {t}
    BY <1>8 DEF Delivered
  <2>2. waiting(id)' = waiting(id) /\ begun'[id] = begun[id]
    BY <1>8 DEF Delivered, Flows!HasInbound
  <2>3. CASE id = done
    <3>1. Cardinality(Releasing(id)') <= Cardinality(Releasing(id)) - 1
      BY <2>1, <2>3, ReleasingCount
    <3>2. released'[id] = released[id] + 1
      BY <1>2, <2>1, <2>3
    <3> QED
      BY <1>1, <1>2, <1>3, <2>2, <3>1, <3>2
  <2>4. CASE id # done
    <3>1. released'[id] = released[id]
      BY <1>2, <2>1, <2>4
    <3> QED
      BY <1>1, <1>2, <1>3, <1>4, <1>8, <2>2, <3>1 DEF Delivered
  <2> QED
    BY <2>3, <2>4
<1>9. CASE Cleared
  <2>1. waiting(id)' = 0 /\ released'[id] = released[id] /\ begun'[id] = begun[id]
    BY <1>9 DEF Cleared, Flows!ClearFlows, Flows!FlowIds, FlowIds, Flows!HasInbound
  <2> QED
    BY <1>1, <1>2, <1>3, <1>4, <1>9, <2>1 DEF Cleared
<1> QED
  BY <1>5, <1>6, <1>7, <1>8, <1>9 DEF MessageStep

\* A QoS 2 message is delivered at most once, however many PUBREL packets the client sends
\* and however many receive() calls handle them at the same time.
THEOREM QoS2MessagesDeliveredAtMostOnce == Spec => []QoS2AtMostOnce
<1>1. Init => QoS2AtMostOnce
  <2> SUFFICES ASSUME Init, NEW id \in FlowIds
               PROVE  released[id] + Cardinality(Releasing(id))
                          + (IF Flows!HasInbound(id) THEN 1 ELSE 0) <= begun[id]
    BY DEF QoS2AtMostOnce
  <2>1. ~Flows!HasInbound(id)
    BY DEF Init, Flows!FlowInit, Flows!FlowIds, FlowIds, Flows!HasInbound
  <2>2. Releasing(id) = {}
    BY PlacesReleaseNothing DEF Init, Releasing
  <2>3. Cardinality(Releasing(id)) = 0
    BY <2>2, FS_EmptySet
  <2>4. released[id] = 0 /\ begun[id] = 0
    BY DEF Init
  <2> QED
    BY <2>1, <2>3, <2>4
<1>2. TypeOK /\ QoS2AtMostOnce /\ [Next]_vars => QoS2AtMostOnce'
  BY NextIsMessageStep, StepKeepsAtMostOnce
<1> QED
  BY <1>1, <1>2, WireTypeCorrect, PTL DEF Spec

-----------------------------------------------------------------------------
(* The connection and its timer. *)

\* What a step may do to the state and the timer: leave both, with the client's keepalive
\* time; take a CONNECT; open; close; start anew.
Stays     == UNCHANGED <<link, clientKeepAlive>>
Asked     == state = "awaiting-connect" /\ UNCHANGED link
Opened    == /\ state' = "connected" /\ keepAliveTimer' = (clientKeepAlive > 0)
             /\ UNCHANGED clientKeepAlive
Closed    == state' # "connected" /\ keepAliveTimer' = FALSE
LinkStep  == Stays \/ Asked \/ Opened \/ Closed

LEMMA CleanupCloses == Cleanup => Closed
  BY DEF Cleanup, Closed

LEMMA ProtocolErrorIsLinkStep ==
    ASSUME NEW t, NEW rest, NEW then, HandleProtocolError(t, rest, then)
    PROVE  LinkStep
  BY CleanupCloses DEF HandleProtocolError, LinkStep, Stays, settings

LEMMA HandlersAreLinkSteps ==
    ASSUME NEW t \in Tasks, NEW frames, Dispatch(t, frames)
    PROVE  LinkStep
<1>1. CASE UNCHANGED <<settings, link>>
  BY <1>1 DEF LinkStep, Stays, settings
<1>2. CASE \E rest, then : HandleProtocolError(t, rest, then)
  BY <1>2, ProtocolErrorIsLinkStep
<1>3. CASE ~UNCHANGED <<settings, link>> /\ ~\E rest, then : HandleProtocolError(t, rest, then)
  <2> DEFINE p == Head(frames)
             rest == AfterRead(frames)
  <2>1. HandleConnect(t, p, rest) \/ HandleDisconnect(t)
    BY <1>3 DEF Dispatch, Ignore, HandlePublish, HandlePuback, HandlePubrec, HandlePubrel,
                HandlePubcomp, HandleRequest
  <2> HIDE DEF p, rest
  <2>2. CASE HandleConnect(t, p, rest)
    BY <1>3, <2>2 DEF HandleConnect, LinkStep, Asked
  <2>3. CASE HandleDisconnect(t)
    BY <2>3, CleanupCloses DEF HandleDisconnect, LinkStep
  <2> QED
    BY <2>1, <2>2, <2>3
<1> QED
  BY <1>1, <1>2, <1>3

LEMMA NextIsLinkStep == [Next]_vars => LinkStep
<1> SUFFICES ASSUME [Next]_vars PROVE LinkStep
  OBVIOUS
<1>1. CASE UNCHANGED <<settings, link>>
  BY <1>1 DEF LinkStep, Stays, settings
<1>2. CASE \E t \in Tasks, chunk \in Chunks : Receive(t, chunk)
  BY <1>2, HandlersAreLinkSteps DEF Receive
<1>3. CASE \E topic \in Topics, qos \in PublishQoS : Publish(topic, qos)
  BY <1>1, <1>3 DEF Publish
<1>4. CASE \E t \in Tasks : Disconnect(t)
  BY <1>1, <1>4, CleanupCloses DEF Disconnect, LinkStep
<1>5. CASE \E t \in Tasks : KeepAliveTimeout(t)
  BY <1>5, ProtocolErrorIsLinkStep DEF KeepAliveTimeout
<1>6. CASE \E t \in Tasks : Settle(t)
  <2>1. PICK t \in Tasks : Settle(t)
    BY <1>6
  <2>2. CASE ReadNext(t)
    BY <2>2, HandlersAreLinkSteps DEF ReadNext
  <2>3. CASE Accept(t)
    BY <2>3 DEF Accept, settings, LinkStep, Opened
  <2>4. CASE Refuse(t) \/ FinishDisconnect(t) \/ FinishProtocolError(t)
    BY <2>4, CleanupCloses DEF Refuse, FinishDisconnect, FinishProtocolError, LinkStep
  <2>5. CASE \/ Finish(t) \/ OnConnectSettles(t) \/ Deliver(t) \/ Acknowledge(t)
             \/ ReleaseMessage(t) \/ Answer(t) \/ Reject(t) \/ EncodeFails(t)
    BY <1>1, <2>5 DEF Finish, OnConnectSettles, Deliver, Acknowledge, ReleaseMessage, Answer,
                      Reject, EncodeFails, Throw
  <2> QED
    BY <2>1, <2>2, <2>3, <2>4, <2>5 DEF Settle
<1>7. CASE Reset
  BY <1>7 DEF Reset, LinkStep, Closed
<1>8. CASE UNCHANGED vars
  BY <1>1, <1>8 DEF vars
<1> QED
  BY <1>2, <1>3, <1>4, <1>5, <1>6, <1>7, <1>8 DEF Next, Rest

\* The keepalive timer runs exactly while the wire is connected with a client that asked
\* for it.
THEOREM TimerRunsWhileConnected == Spec => []TimerFollowsState
<1>1. Init => TimerFollowsState
  BY DEF Init, TimerFollowsState
<1>2. TypeOK /\ TimerFollowsState /\ [Next]_vars => TimerFollowsState'
  <2> SUFFICES ASSUME TypeOK, TimerFollowsState, LinkStep PROVE TimerFollowsState'
    BY NextIsLinkStep
  <2>1. CASE Stays \/ Asked
    BY <2>1 DEF Stays, Asked, link, TimerFollowsState
  <2>2. CASE Opened \/ Closed
    BY <2>2 DEF Opened, Closed, TimerFollowsState
  <2> QED
    BY <2>1, <2>2 DEF LinkStep
<1> QED
  BY <1>1, <1>2, WireTypeCorrect, PTL DEF Spec

-----------------------------------------------------------------------------
(* PUBACK after delivery. *)

\* A PUBACK of success leaves with the message handled, or the option is off.
Answered == \E id \in FlowIds : /\ handled' = [handled EXCEPT ![id] = @ + 1]
                                /\ pubacks' = [pubacks EXCEPT ![id] = @ + 1]
Unanswered == UNCHANGED <<handled, pubacks>>
PubackStep == PubackAfterDelivery => Answered \/ Unanswered

LEMMA SessionUnanswered == UNCHANGED session \/ UNCHANGED qosHistory => PubackStep
  BY DEF session, qosHistory, PubackStep, Unanswered

LEMMA HandlersArePubackSteps ==
    ASSUME TypeOK, NEW t \in Tasks, NEW frames \in Seq(Frames), Dispatch(t, frames)
    PROVE  PubackStep
<1>1. CASE UNCHANGED session \/ UNCHANGED qosHistory
  BY <1>1, SessionUnanswered
<1>2. CASE ~UNCHANGED session /\ ~UNCHANGED qosHistory
  <2> DEFINE p == Head(frames)
             rest == AfterRead(frames)
  <2>1. frames # <<>>
    BY <1>2 DEF Dispatch
  <2>2. p \in Frames
    BY <2>1
  <2>3. p.type = "PUBLISH" /\ HandlePublish(t, p, rest)
    BY <1>2, <2>1
    DEF Dispatch, HandleProtocolError, HandleConnect, HandleRequest, HandleDisconnect, Ignore,
        HandlePuback, HandlePubrec, HandlePubrel, HandlePubcomp
  <2> HIDE DEF p, rest
  <2>4. p.packetId \in FlowIds
    BY <2>2, <2>3, FrameFields
  <2> QED
    BY <1>2, <2>3, <2>4
    DEF HandlePublish, Ignore, HandleProtocolError, PublishQoS0, PublishQoS1, PublishQoS2,
        PubackStep, Answered, Unanswered, qosHistory
<1> QED
  BY <1>1, <1>2

LEMMA AcknowledgeIsPubackStep ==
    ASSUME TypeOK, NEW t \in Tasks, Acknowledge(t)
    PROVE  PubackStep
<1>1. PICK id \in FlowIds : id = tasks[t].packetId
  BY ContinuationFields DEF Acknowledge, At, TypeOK, TasksOK
<1>2. handled \in [FlowIds -> Nat] /\ pubacks \in [FlowIds -> Nat]
  BY DEF TypeOK, FlowsOK
<1>3. \/ /\ handled' = [handled EXCEPT ![id] = handled[id] + 1]
         /\ pubacks' = [pubacks EXCEPT ![id] = pubacks[id] + 1]
      \/ /\ handled' = [handled EXCEPT ![id] = handled[id]]
         /\ pubacks' = [pubacks EXCEPT ![id] = pubacks[id]]
  BY <1>1 DEF Acknowledge
<1> QED
  BY <1>2, <1>3 DEF PubackStep, Answered, Unanswered

LEMMA NextIsPubackStep == TypeOK /\ [Next]_vars => PubackStep
<1> SUFFICES ASSUME TypeOK, [Next]_vars PROVE PubackStep
  OBVIOUS
<1>1. LinkOK /\ buffer \in Seq(Frames)
  BY DEF TypeOK, LinkOK
<1>2. CASE \E t \in Tasks, chunk \in Chunks : Receive(t, chunk)
  BY <1>1, <1>2, PushType, HandlersArePubackSteps DEF Receive
<1>3. CASE \E topic \in Topics, qos \in PublishQoS : Publish(topic, qos)
  BY <1>3, SessionUnanswered DEF Publish
<1>4. CASE \E t \in Tasks : Disconnect(t) \/ KeepAliveTimeout(t)
  BY <1>4, SessionUnanswered DEF Disconnect, KeepAliveTimeout, HandleProtocolError
<1>5. CASE \E t \in Tasks : Settle(t)
  <2>1. PICK t \in Tasks : Settle(t)
    BY <1>5
  <2>2. CASE ReadNext(t)
    BY <1>1, <2>2, HandlersArePubackSteps DEF ReadNext
  <2>3. CASE Acknowledge(t)
    BY <2>3, AcknowledgeIsPubackStep
  <2>4. CASE ReleaseMessage(t)
    BY <2>4 DEF ReleaseMessage, Throw, session, qosHistory, PubackStep, Unanswered
  <2>5. CASE \/ Finish(t) \/ OnConnectSettles(t) \/ Accept(t) \/ Refuse(t) \/ Deliver(t)
             \/ Answer(t) \/ FinishDisconnect(t) \/ FinishProtocolError(t) \/ Reject(t)
             \/ EncodeFails(t)
    BY <2>5, SessionUnanswered
    DEF Finish, OnConnectSettles, Accept, Refuse, Deliver, Answer, FinishDisconnect,
        FinishProtocolError, Reject, EncodeFails, Throw
  <2> QED
    BY <2>1, <2>2, <2>3, <2>4, <2>5 DEF Settle
<1>6. CASE Reset
  BY <1>6, SessionUnanswered DEF Reset
<1>7. CASE UNCHANGED vars
  BY <1>7, SessionUnanswered DEF vars
<1> QED
  BY <1>2, <1>3, <1>4, <1>5, <1>6, <1>7 DEF Next, Rest

\* With pubackAfterDelivery the server acknowledges no QoS 1 message its hook has not taken.
THEOREM PubackStandsForDelivery == Spec => []PubackMeansHandled
<1>1. Init => PubackMeansHandled
  <2> SUFFICES ASSUME Init, NEW id \in FlowIds PROVE pubacks[id] <= handled[id]
    BY DEF PubackMeansHandled
  <2>1. pubacks[id] = 0 /\ handled[id] = 0
    BY DEF Init
  <2> QED
    BY <2>1
<1>2. TypeOK /\ PubackMeansHandled /\ [Next]_vars => PubackMeansHandled'
  <2> SUFFICES ASSUME TypeOK, PubackMeansHandled, PubackStep PROVE PubackMeansHandled'
    BY NextIsPubackStep
  <2>1. handled \in [FlowIds -> Nat] /\ pubacks \in [FlowIds -> Nat]
    BY DEF TypeOK, FlowsOK
  <2> QED
    BY <2>1 DEF PubackStep, Answered, Unanswered, PubackMeansHandled
<1> QED
  BY <1>1, <1>2, WireTypeCorrect, PTL DEF Spec

-----------------------------------------------------------------------------
(* Outbound aliases. *)

\* What a step may do to the aliases of the server's topics: leave them, forget them all,
\* or give the next one to a topic that the client then learns with it, unless it is lost.
KeepsAliases  == UNCHANGED <<topicToOutboundAlias, nextOutboundAlias, outboundMaximum, learned>>
NoAliasesLeft == /\ topicToOutboundAlias' = [topic \in Topics |-> 0]
                 /\ lostAliases' \subseteq lostAliases
GivesAlias(topic) ==
    /\ nextOutboundAlias <= outboundMaximum
    /\ topicToOutboundAlias' = [topicToOutboundAlias EXCEPT ![topic] = nextOutboundAlias]
    /\ nextOutboundAlias' = nextOutboundAlias + 1
    /\ Teach(nextOutboundAlias, topic)
    /\ UNCHANGED outboundMaximum
AliasStep == KeepsAliases \/ NoAliasesLeft \/ \E topic \in Topics : GivesAlias(topic)

LEMMA AliasVarsKept == UNCHANGED aliasVars /\ UNCHANGED learned => AliasStep
  BY DEF aliasVars, AliasStep, KeepsAliases

LEMMA CleanupForgets == Cleanup /\ UNCHANGED learned => AliasStep
  BY DEF Cleanup, TopicAliases!ClearAliases, learned, AliasStep, NoAliasesLeft

LEMMA ProtocolErrorIsAliasStep ==
    ASSUME NEW t, NEW rest, NEW then, HandleProtocolError(t, rest, then)
    PROVE  AliasStep
  BY CleanupForgets, AliasVarsKept DEF HandleProtocolError, linkHistory

LEMMA ResolveInboundKeeps ==
    ASSUME NEW topic, NEW alias, TopicAliases!ResolveInbound(topic, alias), UNCHANGED learned
    PROVE  AliasStep
  BY DEF TopicAliases!ResolveInbound, AliasStep, KeepsAliases

LEMMA PublishCallIsAliasStep ==
    ASSUME AliasesOK, NEW topic \in Topics, NEW qos \in PublishQoS, Publish(topic, qos)
    PROVE  AliasStep
<1>1. CASE protocolVersion # "5.0"
  BY <1>1, AliasVarsKept DEF Publish
<1>2. CASE protocolVersion = "5.0"
  <2>1. /\ TopicAliases!GetOrAssignOutbound(topic)
        /\ IF TopicAliases!OutboundAlias(topic) = NoAlias \/ ~TopicAliases!SendTopic(topic)
           THEN UNCHANGED learned ELSE Teach(TopicAliases!OutboundAlias(topic), topic)
    BY <1>2 DEF Publish
  <2>2. CASE TopicAliases!CanAssign(topic)
    <3>1. TopicAliases!OutboundAlias(topic) = nextOutboundAlias /\ TopicAliases!SendTopic(topic)
      BY <2>2 DEF TopicAliases!OutboundAlias, TopicAliases!SendTopic, TopicAliases!CanAssign
    <3>2. nextOutboundAlias # NoAlias
      BY DEF AliasesOK, NoAlias
    <3>3. Teach(nextOutboundAlias, topic)
      BY <2>1, <3>1, <3>2
    <3>4. GivesAlias(topic)
      BY <2>1, <2>2, <3>3
      DEF TopicAliases!GetOrAssignOutbound, TopicAliases!CanAssign, GivesAlias
    <3> QED
      BY <3>4 DEF AliasStep
  <2>3. CASE ~TopicAliases!CanAssign(topic)
    <3>1. UNCHANGED learned
      BY <2>1, <2>3 DEF TopicAliases!OutboundAlias, TopicAliases!SendTopic, NoAlias,
                        TopicAliases!NoAlias
    <3> QED
      BY <2>1, <2>3, <3>1
      DEF TopicAliases!GetOrAssignOutbound, AliasStep, KeepsAliases
  <2> QED
    BY <2>2, <2>3
<1> QED
  BY <1>1, <1>2

LEMMA HandlersAreAliasSteps ==
    ASSUME NEW t \in Tasks, NEW frames, Dispatch(t, frames)
    PROVE  AliasStep
<1>1. CASE UNCHANGED <<aliasVars, linkHistory>>
  BY <1>1, AliasVarsKept DEF linkHistory
<1>2. CASE \E rest, then : HandleProtocolError(t, rest, then)
  BY <1>2, ProtocolErrorIsAliasStep
<1>3. CASE ~UNCHANGED <<aliasVars, linkHistory>> /\ ~\E rest, then : HandleProtocolError(t, rest, then)
  <2> DEFINE p == Head(frames)
             rest == AfterRead(frames)
  <2>1. HandlePublish(t, p, rest) \/ HandleDisconnect(t)
    BY <1>3 DEF Dispatch, Ignore, HandleConnect, HandlePuback, HandlePubrec, HandlePubrel,
                HandlePubcomp, HandleRequest
  <2> HIDE DEF p, rest
  <2>2. CASE HandlePublish(t, p, rest)
    BY <1>3, <2>2, ResolveInboundKeeps DEF HandlePublish, Ignore, linkHistory
  <2>3. CASE HandleDisconnect(t)
    BY <2>3, CleanupForgets DEF HandleDisconnect
  <2> QED
    BY <2>1, <2>2, <2>3
<1> QED
  BY <1>1, <1>2, <1>3

LEMMA NextIsAliasStep ==
    ASSUME TypeOK, [Next]_vars
    PROVE  AliasStep
<1>1. CASE \E t \in Tasks, chunk \in Chunks : Receive(t, chunk)
  BY <1>1, HandlersAreAliasSteps DEF Receive
<1>2. CASE \E topic \in Topics, qos \in PublishQoS : Publish(topic, qos)
  BY <1>2, PublishCallIsAliasStep DEF TypeOK
<1>3. CASE \E t \in Tasks : Disconnect(t)
  BY <1>3, CleanupForgets, AliasVarsKept DEF Disconnect
<1>4. CASE \E t \in Tasks : KeepAliveTimeout(t)
  BY <1>4, ProtocolErrorIsAliasStep DEF KeepAliveTimeout
<1>5. CASE \E t \in Tasks : Settle(t)
  <2>1. PICK t \in Tasks : Settle(t)
    BY <1>5
  <2>2. CASE ReadNext(t)
    BY <2>2, HandlersAreAliasSteps DEF ReadNext
  <2>3. CASE Accept(t)
    BY <2>3 DEF Accept, TopicAliases!Construct, learned, AliasStep, NoAliasesLeft
  <2>4. CASE Refuse(t) \/ FinishDisconnect(t) \/ FinishProtocolError(t)
    BY <2>4, CleanupForgets DEF Refuse, FinishDisconnect, FinishProtocolError, linkHistory
  <2>5. CASE ReleaseMessage(t)
    BY <2>5, ResolveInboundKeeps, AliasVarsKept DEF ReleaseMessage, Throw, linkHistory
  <2>6. CASE \/ Finish(t) \/ OnConnectSettles(t) \/ Deliver(t) \/ Acknowledge(t)
             \/ Answer(t) \/ Reject(t) \/ EncodeFails(t)
    BY <2>6, AliasVarsKept DEF Finish, OnConnectSettles, Deliver, Acknowledge, Answer, Reject,
                               EncodeFails, Throw, linkHistory
  <2> QED
    BY <2>1, <2>2, <2>3, <2>4, <2>5, <2>6 DEF Settle
<1>6. CASE Reset
  BY <1>6 DEF Reset, TopicAliases!ClearAliases, AliasStep, NoAliasesLeft
<1>7. CASE UNCHANGED vars
  BY <1>7, AliasVarsKept DEF vars, linkHistory
<1> QED
  BY <1>1, <1>2, <1>3, <1>4, <1>5, <1>6, <1>7 DEF Next, Rest

\* The invariant: aliases are given in order, so the next one is nobody's yet.
AliasesGivenInOrder ==
    \A topic \in Topics : TopicAliases!HasAlias(topic)
        => topicToOutboundAlias[topic] < nextOutboundAlias

LEMMA AliasStepKeepsAgreement ==
    ASSUME AliasesOK, AliasesAgree, AliasesGivenInOrder, AliasStep,
           clientAliases \in [1..MaxAlias -> Names]
    PROVE  AliasesAgree' /\ AliasesGivenInOrder'
<1>1. CASE KeepsAliases
  BY <1>1 DEF KeepsAliases, learned, AliasesAgree, AliasesGivenInOrder, TopicAliases!HasAlias
<1>2. CASE NoAliasesLeft
  BY <1>2 DEF NoAliasesLeft, AliasesAgree, AliasesGivenInOrder, TopicAliases!HasAlias
<1>3. ASSUME NEW given \in Topics, GivesAlias(given)
      PROVE  AliasesAgree' /\ AliasesGivenInOrder'
  <2>1. /\ nextOutboundAlias \in 1..outboundMaximum
        /\ outboundMaximum \in 0..MaxAlias /\ MaxAlias \in Nat
        /\ topicToOutboundAlias \in [Topics -> 0..MaxAlias]
    BY <1>3, ConstantTypes DEF AliasesOK, GivesAlias
  <2> SUFFICES ASSUME NEW topic \in Topics, topicToOutboundAlias'[topic] # 0
               PROVE  /\ topicToOutboundAlias'[topic] \in 1..outboundMaximum
                      /\ \/ clientAliases'[topicToOutboundAlias'[topic]] = topic
                         \/ topicToOutboundAlias'[topic] \in lostAliases'
                      /\ topicToOutboundAlias'[topic] < nextOutboundAlias + 1
    BY <1>3 DEF GivesAlias, AliasesAgree, AliasesGivenInOrder, TopicAliases!HasAlias
  <2>2. CASE topic = given
    <3>1. topicToOutboundAlias'[topic] = nextOutboundAlias
      BY <1>3, <2>1, <2>2 DEF GivesAlias
    <3>2. clientAliases'[nextOutboundAlias] = topic \/ nextOutboundAlias \in lostAliases'
      BY <1>3, <2>1, <2>2 DEF GivesAlias, Teach
    <3> QED
      BY <2>1, <3>1, <3>2
  <2>3. CASE topic # given
    <3>1. topicToOutboundAlias'[topic] = topicToOutboundAlias[topic]
      BY <1>3, <2>1, <2>3 DEF GivesAlias
    <3>2. /\ topicToOutboundAlias[topic] \in 1..outboundMaximum
          /\ \/ clientAliases[topicToOutboundAlias[topic]] = topic
             \/ topicToOutboundAlias[topic] \in lostAliases
          /\ topicToOutboundAlias[topic] < nextOutboundAlias
      BY <3>1 DEF AliasesAgree, AliasesGivenInOrder, TopicAliases!HasAlias
    <3>3. topicToOutboundAlias[topic] # nextOutboundAlias
      BY <2>1, <3>2
    <3>4. \/ clientAliases'[topicToOutboundAlias[topic]] = topic
          \/ topicToOutboundAlias[topic] \in lostAliases'
      BY <1>3, <2>1, <3>2, <3>3 DEF GivesAlias, Teach
    <3> QED
      BY <2>1, <3>1, <3>2, <3>4
  <2> QED
    BY <2>2, <2>3
<1> QED
  BY <1>1, <1>2, <1>3 DEF AliasStep

Agreement == AliasesAgree /\ AliasesGivenInOrder

LEMMA AgreementAtFirst == Init => Agreement
  BY DEF Init, TopicAliases!AliasInit, TopicAliases!HasAlias, AliasesAgree, AliasesGivenInOrder,
         Agreement

LEMMA AgreementKept == TypeOK /\ Agreement /\ [Next]_vars => Agreement'
  BY NextIsAliasStep, AliasStepKeepsAgreement DEF TypeOK, LinkOK, Agreement

\* Whatever hooks fail, whatever reset(), DISCONNECT and overlapping CONNECTs come between:
\* client and server agree on what each alias of the server stands for, except where publish()
\* could not send the PUBLISH that was to teach it.
THEOREM AliasesAlwaysAgree == Spec => []AliasesAgree
<1>1. Agreement => AliasesAgree
  BY DEF Agreement
<1> QED
  BY <1>1, AgreementAtFirst, AgreementKept, WireTypeCorrect, PTL DEF Spec

\* The client knows every alias that the server would send in place of a topic, and for that
\* topic.
AliasesKnown ==
    \A topic \in Topics : TopicAliases!HasAlias(topic)
        => clientAliases[topicToOutboundAlias[topic]] = topic

\* Where every packet that publish() makes can be encoded and onSend takes it, there is no
\* such exception: no alias is lost on any path, so the client knows them all.
THEOREM AliasesAreKnown ==
    ASSUME "encode" \notin Failing, "onSend" \notin Failing
    PROVE  Spec => []AliasesKnown
<1> DEFINE NoneLost == lostAliases = {}
<1>1. Init => NoneLost
  BY DEF Init
<1>2. TypeOK /\ NoneLost /\ [Next]_vars => NoneLost'
  <2> SUFFICES ASSUME NoneLost, AliasStep PROVE NoneLost'
    BY NextIsAliasStep
  <2>1. CASE KeepsAliases
    BY <2>1 DEF KeepsAliases, learned
  <2>2. CASE NoAliasesLeft
    BY <2>2 DEF NoAliasesLeft
  <2>3. CASE \E topic \in Topics : GivesAlias(topic)
    BY <2>3 DEF GivesAlias, Teach
  <2> QED
    BY <2>1, <2>2, <2>3 DEF AliasStep
<1>3. NoneLost /\ AliasesAgree => AliasesKnown
  BY DEF AliasesAgree, AliasesKnown
<1> HIDE DEF NoneLost
<1> QED
  BY <1>1, <1>2, <1>3, AliasesAlwaysAgree, WireTypeCorrect, PTL DEF Spec

-----------------------------------------------------------------------------
(* Which closes the application hears of. *)

\* No error handler gets to its last await in the step.
NoneGoesOn == Closing' \subseteq Closing

\* What a step may do to the connection, as the application sees it: leave it, where CONNECT
\* may change the version only before the first opening; open; close and report; close without
\* a report what is not open, is MQTT 3.1.1, or is due to an error handler's last cleanup;
\* start over.
StaysAsItIs == /\ UNCHANGED <<state, opening>> /\ NoneGoesOn
               /\ UNCHANGED protocolVersion \/ state = "awaiting-connect"
OpensAgain == /\ state' = "connected" /\ UNCHANGED protocolVersion /\ NoneGoesOn
              /\ opening' = IF Closing = {} THEN "open" ELSE "doomed"
Reports == state' = "disconnected" /\ opening' = "reported" /\ UNCHANGED protocolVersion
ClosesInSilence == /\ state' = "disconnected" /\ UNCHANGED <<opening, protocolVersion>>
                   /\ NoneGoesOn
                   /\ state # "connected" \/ protocolVersion # "5.0" \/ Closing # {}
StartsOver == state' = "awaiting-connect" /\ opening' = "none"
ReportStep == StaysAsItIs \/ OpensAgain \/ Reports \/ ClosesInSilence \/ StartsOver

LEMMA GotoElsewhere ==
    ASSUME TypeOK, NEW t \in Tasks, NEW continuation, Goto(t, continuation),
           continuation.at # "closing"
    PROVE  NoneGoesOn
  BY DEF TypeOK, TasksOK, Goto, Closing, NoneGoesOn

LEMMA SettlingStays ==
    ASSUME TypeOK, NEW t \in Tasks, NEW continuation, Goto(t, continuation),
           continuation.at # "closing", UNCHANGED <<state, opening>>,
           UNCHANGED protocolVersion \/ state = "awaiting-connect"
    PROVE  ReportStep
  BY GotoElsewhere DEF ReportStep, StaysAsItIs

LEMMA ReturnIsNotClosing == \A then : Return(then).at # "closing"
  BY DEF Return, Loop, Idle

LEMMA ProtocolErrorIsReportStep ==
    ASSUME TypeOK, NEW t \in Tasks, NEW rest, NEW then, HandleProtocolError(t, rest, then)
    PROVE  ReportStep
<1>1. UNCHANGED <<opening, protocolVersion>>
  BY DEF HandleProtocolError, linkHistory, settings
<1>2. CASE UNCHANGED link /\ Goto(t, Idle)
  BY <1>1, <1>2, SettlingStays DEF link, Idle
<1>3. CASE UNCHANGED link /\ Goto(t, [at |-> "disconnecting", on |-> "onSend", then |-> then])
  BY <1>1, <1>3, SettlingStays DEF link
<1>4. CASE /\ state # "connected" \/ protocolVersion # "5.0"
           /\ Cleanup
           /\ Goto(t, Return(then))
  BY <1>1, <1>4, GotoElsewhere, ReturnIsNotClosing DEF Cleanup, ReportStep, ClosesInSilence
<1> QED
  BY <1>2, <1>3, <1>4 DEF HandleProtocolError

\* Where the application installs onDisconnect, cleaning up with a call of it is a report.
LEMMA CleanupReports ==
    ASSUME "onDisconnect" \in Hooks, Cleanup, CallOnDisconnect, UNCHANGED protocolVersion
    PROVE  ReportStep
  BY DEF Cleanup, CallOnDisconnect, ReportStep, Reports

LEMMA PublishHandlerStays ==
    ASSUME TypeOK, NEW t \in Tasks, NEW p, NEW rest, HandlePublish(t, p, rest),
           ~HandleProtocolError(t, rest, "loop")
    PROVE  ReportStep
<1>1. UNCHANGED <<state, opening, protocolVersion>>
  BY DEF HandlePublish, Ignore, settings, link, linkHistory
<1>2. \E c : Goto(t, c) /\ c.at # "closing"
  <2>1. CASE PublishQoS0(t) \/ PublishQoS2(t, p, TopicAliases!Resolved(p.topic, p.alias))
             \/ PublishQoS2(t, p, p.topic)
    BY <2>1 DEF PublishQoS0, PublishQoS2, Loop
  <2>2. CASE PublishQoS1(t, p)
    BY <2>2 DEF PublishQoS1, Loop
  <2>3. CASE Ignore(t, rest)
    BY <2>3 DEF Ignore, Loop
  <2> QED
    BY <2>1, <2>2, <2>3 DEF HandlePublish
<1> QED
  BY <1>1, <1>2, SettlingStays

LEMMA HandlersAreReportSteps ==
    ASSUME TypeOK, "onDisconnect" \in Hooks, NEW t \in Tasks, NEW frames, Dispatch(t, frames)
    PROVE  ReportStep
<1> DEFINE p == Head(frames)
           rest == AfterRead(frames)
<1>1. CASE \E r, then : HandleProtocolError(t, r, then)
  BY <1>1, ProtocolErrorIsReportStep
<1>2. CASE HandleConnect(t, p, rest)
  <2>1. CASE HandleProtocolError(t, rest, "loop")
    BY <1>1, <2>1
  <2>2. CASE state = "awaiting-connect"
             /\ Goto(t, [at |-> "onConnect", on |-> "onConnect"])
             /\ UNCHANGED <<link, linkHistory>>
    BY <2>2, SettlingStays DEF link, linkHistory
  <2> QED
    BY <1>2, <2>1, <2>2 DEF HandleConnect
<1>3. CASE HandlePublish(t, p, rest)
  BY <1>1, <1>3, PublishHandlerStays
<1>4. CASE HandleDisconnect(t)
  BY <1>4, CleanupReports DEF HandleDisconnect, settings
<1>5. CASE \/ frames = <<>> /\ Goto(t, Idle) /\ UNCHANGED <<settings, link, linkHistory>>
           \/ Ignore(t, rest) \/ HandlePuback(t, p, rest) \/ HandlePubcomp(t, p, rest)
  BY <1>5, SettlingStays DEF Ignore, HandlePuback, HandlePubcomp, Loop, Idle,
                             settings, link, linkHistory
<1>6. CASE HandlePubrec(t, p, rest)
  BY <1>6, SettlingStays DEF HandlePubrec, Loop, settings, link, linkHistory
<1>7. CASE HandlePubrel(t, p, rest)
  <2>1. UNCHANGED <<state, opening, protocolVersion>>
    BY <1>7 DEF HandlePubrel, settings, link, linkHistory
  <2> QED
    BY <1>7, <2>1, SettlingStays DEF HandlePubrel, Loop
<1>8. CASE \E hook : HandleRequest(t, hook, rest)
  <2>1. UNCHANGED <<state, opening, protocolVersion>>
    BY <1>8 DEF HandleRequest, Ignore, settings, link, linkHistory
  <2> QED
    BY <1>8, <2>1, SettlingStays DEF HandleRequest, Ignore, Loop
<1> HIDE DEF p, rest
<1> QED
  BY <1>1, <1>2, <1>3, <1>4, <1>5, <1>6, <1>7, <1>8 DEF Dispatch, p, rest

LEMMA SettleIsReportStep ==
    ASSUME TypeOK, "onDisconnect" \in Hooks, NEW t \in Tasks, Settle(t)
    PROVE  ReportStep
<1>1. CASE ReadNext(t)
  BY <1>1, HandlersAreReportSteps DEF ReadNext
<1>2. CASE Accept(t)
  <2>1. NoneGoesOn
    BY <1>2, GotoElsewhere DEF Accept, Loop
  <2> QED
    BY <1>2, <2>1 DEF Accept, settings, ReportStep, OpensAgain
<1>3. CASE Refuse(t) \/ FinishDisconnect(t)
  BY <1>3, CleanupReports DEF Refuse, FinishDisconnect, settings
<1>4. CASE FinishProtocolError(t)
  <2>1. NoneGoesOn
    BY <1>4, GotoElsewhere, ReturnIsNotClosing DEF FinishProtocolError
  <2>2. t \in Closing
    BY <1>4 DEF FinishProtocolError, At, Closing
  <2> QED
    BY <1>4, <2>1, <2>2 DEF FinishProtocolError, Cleanup, settings, linkHistory,
                            ReportStep, ClosesInSilence
<1>5. CASE Finish(t) \/ Reject(t) \/ EncodeFails(t) \/ Answer(t) \/ Deliver(t)
  BY <1>5, SettlingStays DEF Finish, Reject, EncodeFails, Answer, Deliver, Throw, Idle, Loop,
                             settings, link, linkHistory
<1>6. CASE OnConnectSettles(t)
  BY <1>6, SettlingStays DEF OnConnectSettles, settings, link, linkHistory
<1>7. CASE Acknowledge(t)
  BY <1>7, SettlingStays DEF Acknowledge, Loop, settings, link, linkHistory
<1>8. CASE ReleaseMessage(t)
  <2>1. UNCHANGED <<state, opening, protocolVersion>>
    BY <1>8 DEF ReleaseMessage, Throw, settings, link, linkHistory
  <2> QED
    BY <1>8, <2>1, SettlingStays DEF ReleaseMessage, Throw, Idle, Loop
<1> QED
  BY <1>1, <1>2, <1>3, <1>4, <1>5, <1>6, <1>7, <1>8 DEF Settle

LEMMA NextIsReportStep ==
    ASSUME TypeOK, "onDisconnect" \in Hooks, [Next]_vars
    PROVE  ReportStep
<1>1. CASE \E t \in Tasks, chunk \in Chunks : Receive(t, chunk)
  BY <1>1, HandlersAreReportSteps DEF Receive
<1>2. CASE UNCHANGED <<tasks, state, opening, protocolVersion>>
  BY <1>2 DEF ReportStep, StaysAsItIs, NoneGoesOn, Closing
<1>3. CASE \E topic \in Topics, qos \in PublishQoS : Publish(topic, qos)
  BY <1>2, <1>3 DEF Publish, settings, link
<1>4. ASSUME NEW t \in Tasks, Disconnect(t)
      PROVE  ReportStep
  <2>1. UNCHANGED protocolVersion
    BY <1>4 DEF Disconnect, settings
  <2>2. CASE state # "connected" /\ Cleanup /\ UNCHANGED <<tasks, opening>>
    BY <2>1, <2>2 DEF Cleanup, ReportStep, ClosesInSilence, NoneGoesOn, Closing
  <2>3. CASE /\ Goto(t, [at |-> "disconnecting", on |-> "onSend", then |-> "caller"])
             /\ UNCHANGED <<link, opening>>
    BY <2>1, <2>3, SettlingStays DEF link
  <2>4. CASE Cleanup /\ CallOnDisconnect
    BY <2>1, <2>4, CleanupReports
  <2> QED
    BY <1>4, <2>2, <2>3, <2>4 DEF Disconnect
<1>5. CASE \E t \in Tasks : KeepAliveTimeout(t)
  BY <1>5, ProtocolErrorIsReportStep DEF KeepAliveTimeout
<1>6. CASE \E t \in Tasks : Settle(t)
  BY <1>6, SettleIsReportStep
<1>7. CASE Reset
  BY <1>7 DEF Reset, ReportStep, StartsOver
<1>8. CASE UNCHANGED vars
  BY <1>2, <1>8 DEF vars, link, settings, linkHistory
<1> QED
  BY <1>1, <1>3, <1>4, <1>5, <1>6, <1>7, <1>8 DEF Next, Rest

\* The invariant: the opening that an error handler at its last await was to close is reported,
\* and what was opened since is its to close; a connection that waits for CONNECT has not been
\* open yet.
ReportInv == /\ CloseIsReported
             /\ Closing # {} => opening # "open"
             /\ state = "awaiting-connect" => opening = "none"

\* Where the application installs onDisconnect, no opening of an MQTT 5.0 connection is closed
\* without a call of it, whatever order the calls of the client, the application and the timer
\* come in and whichever hooks fail, but for those opened while an error handler of an earlier
\* connection waits for onDisconnect, also an earlier one that reset() has forgotten.
THEOREM ClosesAreReported ==
    ASSUME "onDisconnect" \in Hooks
    PROVE  Spec => []CloseIsReported
<1>1. Init => ReportInv
  BY DEF Init, ReportInv, CloseIsReported, Closing, Idle
<1>2. TypeOK /\ ReportInv /\ [Next]_vars => ReportInv'
  <2> SUFFICES ASSUME TypeOK, ReportInv, ReportStep PROVE ReportInv'
    BY NextIsReportStep
  <2>1. state \in {"awaiting-connect", "connected", "disconnected"}
    BY DEF TypeOK, LinkOK
  <2>2. CASE StaysAsItIs
    BY <2>2 DEF StaysAsItIs, NoneGoesOn, ReportInv, CloseIsReported
  <2>3. CASE OpensAgain
    BY <2>3 DEF OpensAgain, NoneGoesOn, ReportInv, CloseIsReported
  <2>4. CASE Reports
    BY <2>4 DEF Reports, ReportInv, CloseIsReported
  <2>5. CASE ClosesInSilence
    BY <2>1, <2>5 DEF ClosesInSilence, NoneGoesOn, ReportInv, CloseIsReported
  <2>6. CASE StartsOver
    BY <2>6 DEF StartsOver, ReportInv, CloseIsReported
  <2> QED
    BY <2>2, <2>3, <2>4, <2>5, <2>6 DEF ReportStep
<1>3. ReportInv => CloseIsReported
  BY DEF ReportInv
<1> QED
  BY <1>1, <1>2, <1>3, WireTypeCorrect, PTL DEF Spec
=============================================================================
