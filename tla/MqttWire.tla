------------------------------ MODULE MqttWire ------------------------------
(***************************************************************************)
(* The server-side protocol session: class MqttWire in src/wire.ts, with   *)
(* the packet id allocator, the QoS flow tracker and the topic aliases it  *)
(* is built from.                                                          *)
(*                                                                         *)
(* JavaScript runs to completion between two awaits, so one action is the  *)
(* code between two awaits: from a call of the application, of the         *)
(* transport or of the keepalive timer to the first await, or from the     *)
(* settling of the promise a call waits for to its next await.  A call     *)
(* that waits is a task; what it waits for, and what it does next, is its  *)
(* continuation.  The transport calls receive() without waiting for the    *)
(* call before (socket.on("data", chunk => wire.receive(chunk))), so       *)
(* several receive() calls read one framer, and their tasks interleave at  *)
(* every await.                                                            *)
(*                                                                         *)
(* The framer is a queue of frames here: what the bytes of a chunk do is   *)
(* the matter of the framing layer.  Payloads, client ids, properties that *)
(* the wire only passes on, and the wall clock are left out; the keepalive *)
(* timer may find its timeout elapsed whenever it runs.                    *)
(***************************************************************************)
EXTENDS Integers, Sequences, FiniteSets

CONSTANTS MaxPacketId,          \* largest packet id, and so the largest receive maximum
          Topics, MaxAlias,     \* topic names, largest alias
          Chunks,               \* what one receive() may bring: sequences of frames
          Tasks,                \* bound: calls suspended at the same time
          MaxInputs,            \* bound: calls from outside in a behaviour
          Calls,                \* the calls the application makes besides receive()
          Hooks,                \* the optional hooks the application installs
          Failing,              \* the hooks that may throw or reject; "encode" too
          ConnackCodes,         \* what onConnect may answer
          Outcomes,             \* what onPublish may answer, NoOutcome for nothing
          PublishQoS,           \* the QoS of the application's publish() calls
          TopicAliasMaximum,    \* option topicAliasMaximum
          PubackAfterDelivery   \* option pubackAfterDelivery

Ids     == 1..MaxPacketId
FlowIds == 0..MaxPacketId     \* the decoder lets a packet id of 0 through
NoAlias == -1                 \* a property that is not there
Absent  == -1
NoOutcome == -1
Versions == {"5.0", "3.1.1"}
Names   == Topics \cup {""}   \* what a topic field may hold; empty: the alias stands for it

\* What framing and decoding make of the client's bytes.  "Malformed" is a frame the
\* decoder rejects, "BadFrame" bytes the framer rejects.
Frames ==
    [type : {"Malformed", "BadFrame", "SUBSCRIBE", "UNSUBSCRIBE", "PINGREQ", "DISCONNECT",
             "AUTH", "CONNACK", "SUBACK", "UNSUBACK", "PINGRESP"}]
    \cup [type : {"CONNECT"}, version : Versions, keepAlive : Nat,
          receiveMaximum : {Absent} \cup Nat,
          topicAliasMaximum : {Absent} \cup (0..MaxAlias)]
    \cup [type : {"PUBLISH"}, qos : 0..2, packetId : FlowIds, topic : Names,
          alias : NoAlias..MaxAlias]
    \cup [type : {"PUBACK", "PUBREL", "PUBCOMP"}, packetId : FlowIds]
    \cup [type : {"PUBREC"}, packetId : FlowIds, refused : BOOLEAN]

ASSUME WireAssumption ==
    /\ MaxPacketId \in Nat \ {0}
    /\ MaxAlias \in Nat /\ "" \notin Topics
    /\ TopicAliasMaximum \in 0..MaxAlias
    /\ Chunks \subseteq Seq(Frames)
    /\ IsFiniteSet(Tasks) /\ MaxInputs \in Nat
    /\ PublishQoS \subseteq 0..2
    /\ Outcomes \subseteq {NoOutcome} \cup (0..255) /\ ConnackCodes \subseteq 0..255
    /\ PubackAfterDelivery \in BOOLEAN

VARIABLES
    state, protocolVersion,
    clientReceiveMaximum, clientTopicAliasMaximum, clientKeepAlive,
    keepAliveTimer,   \* whether the interval is running
    buffer,           \* the framer: frames pushed and not yet read
    tasks,            \* task -> continuation
    nextId, inUse,
    outbound, inbound,
    outboundMaximum, inboundMaximum, outboundAliases, inboundAliases,
    topicToOutboundAlias, nextOutboundAlias,
    inputs            \* calls from outside so far

(* History: what an observer outside has seen. *)
VARIABLES
    begun, released,   \* per packet id: QoS 2 messages tracked, QoS 2 messages delivered
    handled, pubacks,  \* per packet id: QoS 1 messages the hook took, PUBACKs of success
    opening,           \* what became of the last opening of the connection
    clientAliases,     \* the aliases the client has learned
    lostAliases        \* the aliases whose PUBLISH with the topic never reached the client

settings  == <<protocolVersion, clientReceiveMaximum, clientTopicAliasMaximum, clientKeepAlive>>
idVars    == <<nextId, inUse>>
flowVars  == <<outbound, inbound>>
aliasVars == <<outboundMaximum, inboundMaximum, outboundAliases, inboundAliases,
               topicToOutboundAlias, nextOutboundAlias>>
link      == <<state, keepAliveTimer>>
qosHistory  == <<begun, released, handled, pubacks>>
learned     == <<clientAliases, lostAliases>>
linkHistory == <<opening, learned>>
vars == <<settings, idVars, flowVars, aliasVars, link, buffer, tasks, inputs,
          qosHistory, linkHistory>>

\* The tracker is built with the largest receive maximum and is never built again.
PacketIds == INSTANCE PacketIdAllocator
Flows     == INSTANCE QoSFlowTracker WITH ReceiveMaximum <- MaxPacketId
TopicAliases == INSTANCE TopicAliasManager

Failure(code) == code >= 128   \* reason codes from 0x80 on are failures

-----------------------------------------------------------------------------
(* Continuations.  "at" is where the call is suspended, "on" the hook whose *)
(* promise it waits for ("none" when it waits for the wire's own code).     *)

Idle == [at |-> "idle", on |-> "none"]

\* receive() is about to read the next frame.
Loop(hook) == [at |-> "loop", on |-> hook]

\* A call that has nothing left to do but wait.
Last(hook) == [at |-> "last", on |-> hook]

\* After an error, receive() reads on ("loop") and the timer's callback is done ("end").
Return(then) == IF then = "loop" THEN Loop("none") ELSE Idle

Goto(t, continuation) == tasks' = [tasks EXCEPT ![t] = continuation]

Init ==
    /\ state = "awaiting-connect" /\ protocolVersion = "5.0"
    /\ clientReceiveMaximum = MaxPacketId /\ clientTopicAliasMaximum = 0 /\ clientKeepAlive = 0
    /\ keepAliveTimer = FALSE
    /\ buffer = <<>>
    /\ tasks = [t \in Tasks |-> Idle]
    /\ PacketIds!IdInit /\ Flows!FlowInit /\ TopicAliases!AliasInit
    /\ inputs = 0
    /\ begun = [id \in FlowIds |-> 0] /\ released = [id \in FlowIds |-> 0]
    /\ handled = [id \in FlowIds |-> 0] /\ pubacks = [id \in FlowIds |-> 0]
    /\ opening = "none"
    /\ clientAliases = [alias \in 1..MaxAlias |-> ""] /\ lostAliases = {}

-----------------------------------------------------------------------------
(* Pieces that several handlers share. *)

session == <<idVars, flowVars, qosHistory>>

CleanupKeepsTimer ==   \* mutated: stopKeepalive() is forgotten
    /\ state' = "disconnected"
    /\ buffer' = <<>>
    /\ TopicAliases!ClearAliases
    /\ UNCHANGED keepAliveTimer

\* cleanup(); clearing a manager that does not exist yet leaves it empty as it is.
Cleanup == /\ state' = "disconnected"
           /\ keepAliveTimer' = FALSE
           /\ buffer' = <<>>
           /\ TopicAliases!ClearAliases

\* The call of onDisconnect, where it is installed, and what the caller then waits for.
CallOnDisconnect == opening' = IF "onDisconnect" \in Hooks THEN "reported" ELSE opening
DisconnectHook == IF "onDisconnect" \in Hooks THEN "onDisconnect" ELSE "none"

HandleProtocolErrorSilent(t, rest, then) ==   \* mutated: cleanup() without disconnect()
    Cleanup /\ Goto(t, Return(then)) /\ UNCHANGED <<settings, session, linkHistory>>

\* handleProtocolError() up to its first await.  rest is what the framer still holds.
\* An onError that throws ends the call before anything is cleaned up.
HandleProtocolError(t, rest, then) ==
    /\ \/ /\ "onError" \in Hooks \cap Failing
          /\ buffer' = rest
          /\ Goto(t, Idle)
          /\ UNCHANGED <<link, aliasVars>>
       \/ /\ state = "connected" /\ protocolVersion = "5.0"
          /\ buffer' = rest
          /\ Goto(t, [at |-> "disconnecting", on |-> "onSend", then |-> then])
          /\ UNCHANGED <<link, aliasVars>>
       \/ /\ state # "connected" \/ protocolVersion # "5.0"
          /\ Cleanup
          /\ Goto(t, Return(then))
    /\ UNCHANGED <<settings, session, linkHistory>>

\* A handler that does nothing and lets receive() read on.
Ignore(t, rest) == /\ buffer' = rest
                   /\ Goto(t, Loop("none"))
                   /\ UNCHANGED <<settings, session, aliasVars, link, linkHistory>>

\* A call rejects: nothing after the await runs, and nothing is undone.
Throw(t) == /\ Goto(t, Idle)
            /\ UNCHANGED <<settings, session, aliasVars, link, buffer, linkHistory>>

-----------------------------------------------------------------------------
(* Handlers of the client's packets, each up to its first await. *)

\* handleConnect() stores what CONNECT carries and calls onConnect; the state
\* changes only when the hook and the CONNACK are done.
HandleConnect(t, p, rest) ==
    \/ /\ state # "awaiting-connect"
       /\ HandleProtocolError(t, rest, "loop")
    \/ /\ state = "awaiting-connect"
       /\ protocolVersion' = p.version
       /\ clientReceiveMaximum' = IF p.receiveMaximum = Absent THEN clientReceiveMaximum
                                  ELSE p.receiveMaximum
       /\ clientTopicAliasMaximum' = IF p.topicAliasMaximum = Absent
                                     THEN clientTopicAliasMaximum ELSE p.topicAliasMaximum
       /\ clientKeepAlive' = p.keepAlive
       /\ buffer' = rest
       /\ Goto(t, [at |-> "onConnect", on |-> "onConnect"])
       /\ UNCHANGED <<session, aliasVars, link, linkHistory>>

\* The three ways a PUBLISH goes on once its topic is known.
PublishQoS0(t) ==
    /\ Goto(t, Loop(IF "onPublish" \in Hooks THEN "onPublish" ELSE "none"))
    /\ UNCHANGED <<flowVars, qosHistory>>

PublishQoS1Early(t, p) ==   \* mutated: the option pubackAfterDelivery is ignored
    /\ Goto(t, [at |-> "acknowledging", on |-> "onSend", packetId |-> p.packetId])
    /\ pubacks' = [pubacks EXCEPT ![p.packetId] = @ + 1]
    /\ UNCHANGED <<flowVars, begun, released, handled>>

PublishQoS1(t, p) ==
    /\ \/ /\ PubackAfterDelivery /\ "onPublish" \in Hooks
          /\ Goto(t, [at |-> "handling", on |-> "onPublish", packetId |-> p.packetId])
          /\ UNCHANGED <<handled, pubacks>>
       \/ /\ PubackAfterDelivery /\ "onPublish" \notin Hooks
          /\ Goto(t, Loop("onSend"))
          /\ handled' = [handled EXCEPT ![p.packetId] = @ + 1]
          /\ pubacks' = [pubacks EXCEPT ![p.packetId] = @ + 1]
       \/ /\ ~PubackAfterDelivery
          /\ Goto(t, [at |-> "acknowledging", on |-> "onSend", packetId |-> p.packetId])
          /\ pubacks' = [pubacks EXCEPT ![p.packetId] = @ + 1]
          /\ UNCHANGED handled
    /\ UNCHANGED <<flowVars, begun, released>>

\* meant is history: the topic the client's PUBLISH stood for when it came.  A PUBLISH of
\* MQTT 3.1.1 has no alias.
PublishQoS2(t, p, topic) ==
    /\ \/ /\ Flows!HasInbound(p.packetId)
          /\ UNCHANGED <<flowVars, begun>>
       \/ /\ ~Flows!HasInbound(p.packetId)
          /\ Flows!StartQoS2Inbound(p.packetId,
                 [topic |-> p.topic, meant |-> topic,
                  alias |-> IF protocolVersion = "5.0" THEN p.alias ELSE NoAlias])
          /\ begun' = [begun EXCEPT ![p.packetId] = @ + 1]
    /\ Goto(t, Loop("onSend"))
    /\ UNCHANGED <<released, handled, pubacks>>

\* A connected wire always has an alias manager: both are set in one step.
HandlePublish(t, p, rest) ==
    LET aliased == protocolVersion = "5.0"
        topic   == IF aliased THEN TopicAliases!Resolved(p.topic, p.alias) ELSE p.topic
    IN \/ state # "connected" /\ Ignore(t, rest)
       \/ /\ state = "connected" /\ aliased /\ ~TopicAliases!Resolvable(p.topic, p.alias)
          /\ HandleProtocolError(t, rest, "loop")
       \/ /\ state = "connected"
          /\ \/ aliased /\ TopicAliases!Resolvable(p.topic, p.alias)
                        /\ TopicAliases!ResolveInbound(p.topic, p.alias)
             \/ ~aliased /\ UNCHANGED aliasVars
          /\ \/ p.qos = 0 /\ PublishQoS0(t)
             \/ p.qos = 1 /\ PublishQoS1(t, p)
             \/ p.qos = 2 /\ PublishQoS2(t, p, topic)
          /\ buffer' = rest
          /\ UNCHANGED <<settings, idVars, link, linkHistory>>

HandlePubackAlways(t, p, rest) ==   \* mutated: the id is released whatever the result
    /\ Flows!HandlePuback(p.packetId)
    /\ PacketIds!Release(p.packetId)
    /\ buffer' = rest
    /\ Goto(t, Loop("none"))
    /\ UNCHANGED <<settings, aliasVars, link, qosHistory, linkHistory>>

HandlePuback(t, p, rest) ==
    /\ Flows!HandlePuback(p.packetId)
    /\ IF Flows!AwaitsPuback(p.packetId) THEN PacketIds!Release(p.packetId)
       ELSE UNCHANGED idVars
    /\ buffer' = rest
    /\ Goto(t, Loop("none"))
    /\ UNCHANGED <<settings, aliasVars, link, qosHistory, linkHistory>>

\* A refused flow ends in the tracker; its packet id is not released.  Only MQTT 5.0 has
\* a reason code to refuse with.
HandlePubrec(t, p, rest) ==
    LET refused == p.refused /\ protocolVersion = "5.0" IN
    /\ Flows!HandlePubrec(p.packetId, refused, 0)
    /\ Goto(t, Loop(IF Flows!AwaitsPubrec(p.packetId) /\ ~refused THEN "onSend" ELSE "none"))
    /\ buffer' = rest
    /\ UNCHANGED <<settings, idVars, aliasVars, link, qosHistory, linkHistory>>

HandlePubrelLate(t, p, rest) ==   \* mutated: the flow stays until it is delivered
    /\ Goto(t, IF Flows!HasInbound(p.packetId)
               THEN [at |-> "releasing", on |-> "onSend", packetId |-> p.packetId,
                     packet |-> inbound[p.packetId].packet]
               ELSE Loop("onSend"))
    /\ buffer' = rest
    /\ UNCHANGED <<settings, idVars, flowVars, aliasVars, link, qosHistory, linkHistory>>

HandlePubrelSilent(t, p, rest) ==   \* mutated: the flow is dropped, the message not delivered
    /\ Flows!HandlePubrel(p.packetId)
    /\ Goto(t, Loop("onSend"))
    /\ buffer' = rest
    /\ UNCHANGED <<settings, idVars, aliasVars, link, qosHistory, linkHistory>>

\* The flow is forgotten before PUBCOMP is sent and the message delivered.
HandlePubrel(t, p, rest) ==
    /\ Flows!HandlePubrel(p.packetId)
    /\ IF Flows!HasInbound(p.packetId) /\ "onPublish" \in Hooks
       THEN Goto(t, [at |-> "releasing", on |-> "onSend", packetId |-> p.packetId,
                     packet |-> inbound[p.packetId].packet])
       ELSE Goto(t, Loop("onSend"))
    /\ buffer' = rest
    /\ UNCHANGED <<settings, idVars, aliasVars, link, qosHistory, linkHistory>>

HandlePubcompLeaks(t, p, rest) ==   \* mutated: the packet id is not released
    /\ Flows!HandlePubcomp(p.packetId)
    /\ buffer' = rest
    /\ Goto(t, Loop("none"))
    /\ UNCHANGED <<settings, idVars, aliasVars, link, qosHistory, linkHistory>>

HandlePubcomp(t, p, rest) ==
    /\ Flows!HandlePubcomp(p.packetId)
    /\ IF Flows!AwaitsPubcomp(p.packetId) THEN PacketIds!Release(p.packetId)
       ELSE UNCHANGED idVars
    /\ buffer' = rest
    /\ Goto(t, Loop("none"))
    /\ UNCHANGED <<settings, aliasVars, link, qosHistory, linkHistory>>

\* handleSubscribe(), handleUnsubscribe(), handlePingreq(): hook answers, or the wire.
HandleRequest(t, hook, rest) ==
    \/ state # "connected" /\ Ignore(t, rest)
    \/ /\ state = "connected"
       /\ Goto(t, IF hook \in Hooks THEN [at |-> "answering", on |-> hook] ELSE Loop("onSend"))
       /\ buffer' = rest
       /\ UNCHANGED <<settings, session, aliasVars, link, linkHistory>>

HandleDisconnect(t) ==
    /\ Cleanup
    /\ CallOnDisconnect
    /\ Goto(t, Loop(DisconnectHook))
    /\ UNCHANGED <<settings, session, learned>>

\* AUTH is decoded only under MQTT 5.0; packets only a server sends are refused.
Refused(p) == \/ p.type \in {"Malformed", "CONNACK", "SUBACK", "UNSUBACK", "PINGRESP"}
              \/ p.type = "AUTH" /\ protocolVersion # "5.0"

NotConsumed(frames) == frames   \* mutated: the framer does not advance

\* What the framer holds after read() returned its first frame.
AfterRead(frames) == Tail(frames)

\* The loop of receive() with these frames in the framer: read, decode, handlePacket().
\* A frame the framer rejects stays where it is.
Dispatch(t, frames) ==
    \/ /\ frames = <<>>
       /\ buffer' = frames
       /\ Goto(t, Idle)
       /\ UNCHANGED <<settings, session, aliasVars, link, linkHistory>>
    \/ /\ frames # <<>>
       /\ LET p == Head(frames)  rest == AfterRead(frames) IN
          \/ p.type = "BadFrame" /\ HandleProtocolError(t, frames, "end")
          \/ Refused(p) /\ HandleProtocolError(t, rest, "loop")
          \/ p.type = "AUTH" /\ ~Refused(p) /\ Ignore(t, rest)
          \/ p.type = "CONNECT" /\ HandleConnect(t, p, rest)
          \/ p.type = "PUBLISH" /\ HandlePublish(t, p, rest)
          \/ p.type = "PUBACK"  /\ HandlePuback(t, p, rest)
          \/ p.type = "PUBREC"  /\ HandlePubrec(t, p, rest)
          \/ p.type = "PUBREL"  /\ HandlePubrel(t, p, rest)
          \/ p.type = "PUBCOMP" /\ HandlePubcomp(t, p, rest)
          \/ p.type = "SUBSCRIBE"   /\ HandleRequest(t, "onSubscribe", rest)
          \/ p.type = "UNSUBSCRIBE" /\ HandleRequest(t, "onUnsubscribe", rest)
          \/ p.type = "PINGREQ" /\ HandleRequest(t, "none", rest)
          \/ p.type = "DISCONNECT" /\ HandleDisconnect(t)

-----------------------------------------------------------------------------
(* Calls from outside. *)

Input == inputs < MaxInputs /\ inputs' = inputs + 1

\* receive(chunk): push, then the loop up to the first await.
Receive(t, chunk) == /\ Input
                     /\ tasks[t] = Idle
                     /\ Dispatch(t, buffer \o chunk)

\* sendPacket() of the first PUBLISH with this alias: the client learns it, or the encoder or
\* onSend throws or rejects before anything has reached the client.
Teach(alias, topic) ==
    \/ /\ clientAliases' = [clientAliases EXCEPT ![alias] = topic]
       /\ lostAliases' = lostAliases \ {alias}
    \/ /\ Failing \cap {"encode", "onSend"} # {}
       /\ lostAliases' = lostAliases \cup {alias}
       /\ UNCHANGED clientAliases

\* publish(topic, qos) in the state "connected", in one step: nothing follows the await
\* of onSend.  The call throws, and changes nothing, when it is not connected, when the
\* quota is used up, or when no packet id is free.  The packet is encoded and sent last: when
\* that fails, the call rejects, and the id, the flow and the alias stay as they are.
Publish(topic, qos) ==
    LET alias == IF protocolVersion = "5.0" THEN TopicAliases!OutboundAlias(topic) ELSE NoAlias
        packet == [topic |-> topic, number |-> inputs]
    IN /\ "publish" \in Calls
       /\ Input
       /\ state = "connected"
       /\ \/ qos = 0 /\ UNCHANGED <<idVars, flowVars>>
          \/ /\ qos > 0
             /\ Flows!CanSendOutbound
             /\ \E id \in Ids :
                   /\ PacketIds!Allocate(id)
                   /\ \/ qos = 1 /\ Flows!StartQoS1Outbound(id, packet, 0)
                      \/ qos = 2 /\ Flows!StartQoS2Outbound(id, packet, 0)
       /\ IF protocolVersion = "5.0" THEN TopicAliases!GetOrAssignOutbound(topic)
          ELSE UNCHANGED aliasVars
       /\ IF alias = NoAlias \/ ~TopicAliases!SendTopic(topic) THEN UNCHANGED learned
          ELSE Teach(alias, topic)
       /\ UNCHANGED <<settings, link, buffer, tasks, qosHistory, opening>>

\* disconnect() up to its first await.
Disconnect(t) ==
    /\ "disconnect" \in Calls
    /\ Input
    /\ tasks[t] = Idle
    /\ \/ /\ state # "connected"
          /\ Cleanup
          /\ UNCHANGED <<tasks, opening>>
       \/ /\ state = "connected" /\ protocolVersion = "5.0"
          /\ Goto(t, [at |-> "disconnecting", on |-> "onSend", then |-> "caller"])
          /\ UNCHANGED <<link, aliasVars, buffer, opening>>
       \/ /\ state = "connected" /\ protocolVersion # "5.0"
          /\ Cleanup
          /\ CallOnDisconnect
          /\ Goto(t, Last(DisconnectHook))
    /\ UNCHANGED <<settings, session, learned>>

ResetKeepsFlows ==   \* mutated: the ids are free again, the flows still there
    /\ "reset" \in Calls
    /\ Input
    /\ state' = "awaiting-connect" /\ keepAliveTimer' = FALSE /\ buffer' = <<>>
    /\ TopicAliases!ClearAliases
    /\ PacketIds!ResetIds
    /\ clientReceiveMaximum' = MaxPacketId /\ clientTopicAliasMaximum' = 0 /\ clientKeepAlive' = 0
    /\ clientAliases' = [alias \in 1..MaxAlias |-> ""] /\ lostAliases' = {}
    /\ opening' = "none"
    /\ UNCHANGED <<flowVars, protocolVersion, tasks, qosHistory>>

\* reset(), called when the transport has closed; the client of the next transport
\* knows no alias.  The protocol version is not reset.
Reset ==
    /\ "reset" \in Calls
    /\ Input
    /\ state' = "awaiting-connect"
    /\ keepAliveTimer' = FALSE
    /\ buffer' = <<>>
    /\ TopicAliases!ClearAliases
    /\ Flows!ClearFlows
    /\ PacketIds!ResetIds
    /\ clientReceiveMaximum' = MaxPacketId /\ clientTopicAliasMaximum' = 0 /\ clientKeepAlive' = 0
    /\ clientAliases' = [alias \in 1..MaxAlias |-> ""] /\ lostAliases' = {}
    /\ opening' = "none"
    /\ UNCHANGED <<protocolVersion, tasks, qosHistory>>

\* The interval's callback finds the timeout elapsed.
KeepAliveTimeout(t) ==
    /\ "timeout" \in Calls
    /\ Input
    /\ keepAliveTimer
    /\ tasks[t] = Idle
    /\ HandleProtocolError(t, buffer, "end")

-----------------------------------------------------------------------------
(* What follows an await. *)

At(t, place) == tasks[t].at = place /\ UNCHANGED inputs

ReadNext(t) == At(t, "loop") /\ Dispatch(t, buffer)

\* receive() and disconnect() return to their caller.
Finish(t) == /\ At(t, "last")
             /\ Goto(t, Idle)
             /\ UNCHANGED <<settings, session, aliasVars, link, buffer, linkHistory>>

\* onConnect resolves with a CONNACK, or rejects and the wire sends one of its own.
OnConnectSettles(t) ==
    /\ At(t, "onConnect")
    /\ \/ \E code \in ConnackCodes :
             Goto(t, [at |-> IF Failure(code) THEN "refusing" ELSE "accepting",
                      on |-> "onSend"])
       \/ /\ "onConnect" \in Failing
          /\ Goto(t, [at |-> "refusing", on |-> "onSend"])
    /\ UNCHANGED <<settings, session, aliasVars, link, buffer, linkHistory>>

\* The error handlers of earlier connections that have their last cleanup() still to do.
Closing == {t \in Tasks : tasks[t].at = "closing"}

\* The CONNACK of success is out: connected, whatever happened during the awaits.
Accept(t) ==
    /\ At(t, "accepting")
    /\ state' = "connected"
    /\ keepAliveTimer' = (clientKeepAlive > 0)
    /\ TopicAliases!Construct(clientTopicAliasMaximum, TopicAliasMaximum)
    /\ opening' = IF Closing = {} THEN "open" ELSE "doomed"
    /\ Goto(t, Loop("none"))
    /\ UNCHANGED <<settings, session, buffer, learned>>

Refuse(t) ==
    /\ At(t, "refusing")
    /\ Cleanup
    /\ CallOnDisconnect
    /\ Goto(t, Loop(DisconnectHook))
    /\ UNCHANGED <<settings, session, learned>>

DeliverAndReturn(t) ==   \* mutated: receive() ends with the hook instead of reading on
    /\ At(t, "acknowledging")
    /\ Goto(t, Last("onPublish"))
    /\ UNCHANGED <<settings, session, aliasVars, link, buffer, linkHistory>>

\* PUBACK is out, the message goes to onPublish.
Deliver(t) ==
    /\ At(t, "acknowledging")
    /\ Goto(t, Loop(IF "onPublish" \in Hooks THEN "onPublish" ELSE "none"))
    /\ UNCHANGED <<settings, session, aliasVars, link, buffer, linkHistory>>

\* pubackFor(): onPublish resolved with an outcome or none; a failure is answered with its
\* reason code, and under MQTT 3.1.1, which has none, with silence.
Acknowledge(t) ==
    LET id == tasks[t].packetId IN
    /\ At(t, "handling")
    /\ \E outcome \in Outcomes :
          /\ handled' = [handled EXCEPT ![id] = IF Failure(outcome) THEN @ ELSE @ + 1]
          /\ pubacks' = [pubacks EXCEPT ![id] = IF Failure(outcome) THEN @ ELSE @ + 1]
          /\ Goto(t, Loop(IF Failure(outcome) /\ protocolVersion # "5.0"
                          THEN "none" ELSE "onSend"))
    /\ UNCHANGED <<settings, idVars, flowVars, begun, released, aliasVars, link, buffer,
                   linkHistory>>

\* PUBCOMP is out; the packet as it was received is resolved again and delivered.
ReleaseMessage(t) ==
    LET packet == tasks[t].packet
        aliased == protocolVersion = "5.0"
    IN /\ At(t, "releasing")
       /\ \/ /\ aliased /\ ~TopicAliases!Resolvable(packet.topic, packet.alias)
             /\ Throw(t)
          \/ /\ \/ aliased /\ TopicAliases!Resolvable(packet.topic, packet.alias)
                           /\ TopicAliases!ResolveInbound(packet.topic, packet.alias)
                \/ ~aliased /\ UNCHANGED aliasVars
             /\ released' = [released EXCEPT ![tasks[t].packetId] = @ + 1]
             /\ Goto(t, Loop("onPublish"))
             /\ UNCHANGED <<settings, idVars, flowVars, begun, handled, pubacks, link, buffer,
                            linkHistory>>

\* The hook's SUBACK or UNSUBACK is sent.
Answer(t) == /\ At(t, "answering")
             /\ Goto(t, Loop("onSend"))
             /\ UNCHANGED <<settings, session, aliasVars, link, buffer, linkHistory>>

\* DISCONNECT is out, or failed to go out: clean up and tell the application.  A call from
\* the error handler then cleans up a second time.
FinishDisconnect(t) ==
    /\ At(t, "disconnecting")
    /\ Cleanup
    /\ CallOnDisconnect
    /\ Goto(t, IF tasks[t].then = "caller" THEN Last(DisconnectHook)
               ELSE [at |-> "closing", on |-> DisconnectHook, then |-> tasks[t].then])
    /\ UNCHANGED <<settings, session, learned>>

FinishProtocolError(t) ==
    /\ At(t, "closing")
    /\ Cleanup
    /\ Goto(t, Return(tasks[t].then))
    /\ UNCHANGED <<settings, session, linkHistory>>

\* The awaited hook rejects (or, for a packet the application made, encoding throws):
\* the exception leaves the call, except where a catch holds it.
Reject(t) ==
    /\ tasks[t].on \in Failing
    /\ tasks[t].at \notin {"onConnect", "disconnecting", "closing"}
    /\ UNCHANGED inputs
    /\ Throw(t)

\* encodePacket() throws on the properties of the application's CONNACK, SUBACK or PUBACK.
EncodeFails(t) ==
    /\ "encode" \in Failing
    /\ protocolVersion = "5.0"
    /\ tasks[t].at \in {"onConnect", "answering", "handling"}
    /\ UNCHANGED inputs
    /\ Throw(t)

Settle(t) ==
    \/ ReadNext(t) \/ Finish(t)
    \/ OnConnectSettles(t) \/ Accept(t) \/ Refuse(t)
    \/ Deliver(t) \/ Acknowledge(t) \/ ReleaseMessage(t) \/ Answer(t)
    \/ FinishDisconnect(t) \/ FinishProtocolError(t)
    \/ Reject(t) \/ EncodeFails(t)

\* Nothing is pending and no call comes: the connection stays as it is.
Rest == /\ \A t \in Tasks : tasks[t] = Idle
        /\ inputs = MaxInputs
        /\ UNCHANGED vars

Next == \/ \E t \in Tasks, chunk \in Chunks : Receive(t, chunk)
        \/ \E topic \in Topics, qos \in PublishQoS : Publish(topic, qos)
        \/ \E t \in Tasks : Disconnect(t) \/ KeepAliveTimeout(t) \/ Settle(t)
        \/ Reset
        \/ Rest

Spec == Init /\ [][Next]_vars

\* The event loop runs every continuation whose promise has settled, and hooks settle.
FairSpec == Spec /\ \A t \in Tasks : WF_vars(Settle(t))

-----------------------------------------------------------------------------
(* Properties. *)

Promises == {"none", "onSend", "onConnect", "onPublish", "onSubscribe", "onUnsubscribe",
             "onDisconnect"}
StoredPackets == [topic : Names, alias : NoAlias..MaxAlias, meant : Names]
SentPackets   == [topic : Topics, number : Nat]

Continuations ==
    [at : {"idle", "loop", "last", "onConnect", "accepting", "refusing", "answering"},
     on : Promises]
    \cup [at : {"handling", "acknowledging"}, on : Promises, packetId : FlowIds]
    \cup [at : {"releasing"}, on : Promises, packetId : FlowIds, packet : StoredPackets]
    \cup [at : {"disconnecting"}, on : Promises, then : {"loop", "end", "caller"}]
    \cup [at : {"closing"}, on : Promises, then : {"loop", "end"}]

OutboundFlows ==
    {Flows!NoFlow}
    \cup [type : {"qos1-outbound"}, packet : SentPackets, sentAt : {0}, retryCount : {0}]
    \cup [type : {"qos2-outbound"}, packet : SentPackets,
          state : {"awaiting-pubrec", "awaiting-pubcomp"}, sentAt : {0}, retryCount : {0}]
InboundFlows == {Flows!NoFlow} \cup [type : {"qos2-inbound"}, packet : StoredPackets]

LinkOK == /\ state \in {"awaiting-connect", "connected", "disconnected"}
          /\ protocolVersion \in Versions
          /\ clientReceiveMaximum \in Nat /\ clientTopicAliasMaximum \in 0..MaxAlias
          /\ clientKeepAlive \in Nat /\ keepAliveTimer \in BOOLEAN
          /\ buffer \in Seq(Frames)
          /\ opening \in {"none", "open", "doomed", "reported"}
          /\ clientAliases \in [1..MaxAlias -> Names] /\ lostAliases \subseteq 1..MaxAlias
FlowsOK == /\ nextId \in Ids /\ inUse \subseteq Ids
           /\ outbound \in [FlowIds -> OutboundFlows] /\ inbound \in [FlowIds -> InboundFlows]
           /\ \A count \in {begun, released, handled, pubacks} : count \in [FlowIds -> Nat]
AliasesOK == /\ outboundMaximum \in 0..MaxAlias /\ inboundMaximum \in 0..MaxAlias
             /\ \A aliases \in {outboundAliases, inboundAliases} :
                    aliases \in [1..MaxAlias -> Names]
             /\ topicToOutboundAlias \in [Topics -> 0..MaxAlias]
             /\ nextOutboundAlias \in 1..(MaxAlias + 1)
TasksOK == tasks \in [Tasks -> Continuations] /\ inputs \in 0..MaxInputs

\* Every variable has its type; in particular a packet id in use is one the server may
\* send, whatever packet ids the client puts into its acknowledgements, and the next alias
\* never runs past the width of an alias.
TypeOK == LinkOK /\ FlowsOK /\ AliasesOK /\ TasksOK

\* A publication whose acknowledgement is outstanding keeps its packet id: whatever the
\* client acknowledges, twice or out of order, and whichever receive() calls interleave,
\* no id of a live flow is free for publish() to take.
FlowIdsHeld == \A id \in FlowIds : outbound[id] # Flows!NoFlow => id \in inUse

\* The converse: an id in use belongs to a flow that waits for an acknowledgement, so
\* publish() runs out of packet ids only when that many messages are in flight.
IdsMatchFlows == \A id \in inUse : outbound[id] # Flows!NoFlow

\* publish() finds no free packet id only when as many messages are in flight as there are
\* packet ids: the flow control of the tracker stops it before the allocator has to.
ExhaustedOnlyByFlows ==
    PacketIds!IsExhausted => Cardinality(Flows!Live(outbound)) >= MaxPacketId

\* A live outbound flow is advanced or ended by acknowledgements, never replaced by
\* another message: publish() does not overwrite an entry of the tracker's Map.
FlowNeverReplaced ==
    [][\A id \in FlowIds : outbound[id] # Flows!NoFlow /\ outbound'[id] # Flows!NoFlow
           => outbound'[id].packet = outbound[id].packet]_vars

\* The calls of receive() that have taken this id's message out of the tracker and are
\* about to deliver it.
Releasing(id) == {t \in Tasks : tasks[t].at = "releasing" /\ tasks[t].packetId = id}

\* QoS 2 messages are delivered at most once: every delivery, done, pending or still to
\* come, is paid for by one message the tracker accepted, even when PUBREL arrives twice
\* and two receive() calls handle both at once, or a reset() falls in between.
QoS2AtMostOnce ==
    \A id \in FlowIds :
        released[id] + Cardinality(Releasing(id)) + (IF Flows!HasInbound(id) THEN 1 ELSE 0)
            <= begun[id]

\* Under pubackAfterDelivery a PUBACK of success stands for a message the hook took.
PubackMeansHandled == PubackAfterDelivery => \A id \in FlowIds : pubacks[id] <= handled[id]

\* The keepalive interval runs exactly while the wire is connected with a client that asked
\* for one: no path into or out of the state "connected" leaves a timer behind or starts
\* none, also when calls of the application fall between CONNECT and its CONNACK.
TimerFollowsState == keepAliveTimer <=> state = "connected" /\ clientKeepAlive > 0

\* What the server believes the client knows, the client knows: each topic with an
\* outbound alias has been sent to this client together with that alias, and the alias
\* has not been given to another topic since.  The only exception is what publish() said
\* itself when it rejected: it keeps the alias of a PUBLISH that could not be sent.
AliasesAgree ==
    \A topic \in Topics : TopicAliases!HasAlias(topic)
        => LET alias == topicToOutboundAlias[topic] IN
           /\ alias \in 1..outboundMaximum
           /\ clientAliases[alias] = topic \/ alias \in lostAliases

\* A QoS 2 message is delivered under the topic its PUBLISH named, also when its alias is
\* given to another topic before PUBREL comes.
DeliveredAsMeant ==
    \A t \in Tasks : tasks[t].at = "releasing" /\ protocolVersion = "5.0"
        => LET packet == tasks[t].packet IN
           TopicAliases!Resolvable(packet.topic, packet.alias)
               => TopicAliases!Resolved(packet.topic, packet.alias) = packet.meant

\* The server has no more unacknowledged messages under way than the client allowed.
ReceiveMaximumRespected ==
    state = "connected" => Cardinality(Flows!Live(outbound)) <= clientReceiveMaximum

\* A closed connection stays closed until reset().
ClosedStaysClosed == [][state = "disconnected" => state' # "connected"]_vars

\* Each time an MQTT 5.0 connection is opened and closed, onDisconnect is called for this
\* closing, whichever of DISCONNECT, disconnect() and an error closes it, whatever hooks fail
\* and whatever calls are still pending.  The only opening that closes in silence is one made
\* while an error handler of a connection before it waits for onDisconnect: the cleanup at
\* the end of that handler closes whatever is open then.  reset() is no closing, the
\* application asked for it.
CloseIsReported ==
    state = "disconnected" /\ protocolVersion = "5.0" => opening # "open"

\* Every call ends: no frame is read over and over, no continuation waits for another.
CallsReturn == \A t \in Tasks : tasks[t] # Idle ~> tasks[t] = Idle

\* Complete frames do not stay in the framer.
FramesAreRead == buffer # <<>> ~> buffer = <<>>

\* A QoS 2 message the client has released is delivered: when the tracker has let go of
\* it, a delivery per accepted message follows.
ReleasedIsDelivered ==
    \A id \in FlowIds : begun[id] > released[id] /\ ~Flows!HasInbound(id)
        ~> begun[id] = released[id] \/ Flows!HasInbound(id)
=============================================================================
