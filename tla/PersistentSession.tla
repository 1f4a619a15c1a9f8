-------------------------- MODULE PersistentSession --------------------------
(***************************************************************************)
(* A session that outlives its connections, made of the classes the        *)
(* library exports for it: PacketIdAllocator with restore() (src/state/    *)
(* packet-id.ts) and QoSFlowTracker with incrementRetry(),                 *)
(* getFlowsNeedingRetry() and restore() (src/state/qos-flow.ts).  No code  *)
(* of the library calls these methods; the application around them is      *)
(* external, and is what their comments ask for:                           *)
(*   - it saves a side's flows and ids whenever it is about to send, and   *)
(*     not when an exchange ends, so what it saved may be older;           *)
(*   - it sends again, on a new connection, what was sent on an earlier    *)
(*     one: its clock is the number of the connection, its timeout 1.      *)
(* The server's tracker is the outbound Map, the client's the inbound one. *)
(*                                                                         *)
(* Faults: a connection breaks and loses what is in flight both ways; one  *)
(* side or both crash with it, and come back with what was saved.  Within  *)
(* a connection, bytes arrive in order.  Not covered: a retry while the    *)
(* connection stands, a write to storage that fails.                       *)
(***************************************************************************)
EXTENDS Integers, Sequences, FiniteSets

CONSTANTS MaxPacketId, ReceiveMaximum,
          QoS1Messages, QoS2Messages,
          MaxConnections             \* bound: connections in a behaviour

ASSUME SessionAssumption ==
    /\ MaxPacketId \in Nat \ {0} /\ ReceiveMaximum \in Nat /\ MaxConnections \in Nat \ {0}
    /\ QoS1Messages \cap QoS2Messages = {}

Messages == QoS1Messages \cup QoS2Messages
Sides == {"server", "client"}

VARIABLES nextId, inUse,         \* the server's allocator
          outbound, inbound,     \* the server's and the client's tracker
          saved,                 \* what the two sides have in storage
          toClient, toServer,    \* what is in flight
          up, connection,        \* whether there is a connection, and its number
          crashed,               \* the sides that are down
          published, delivered   \* history: as in MessageDelivery

idVars   == <<nextId, inUse>>
flowVars == <<outbound, inbound>>
wire     == <<toClient, toServer>>
link     == <<up, connection, crashed>>
history  == <<published, delivered>>
vars == <<idVars, flowVars, saved, wire, link, history>>

PacketIds == INSTANCE PacketIdAllocator
Flows     == INSTANCE QoSFlowTracker

NoFlows == [id \in Flows!FlowIds |-> Flows!NoFlow]

Init == /\ PacketIds!IdInit /\ Flows!FlowInit
        /\ saved = [ids |-> {}, outbound |-> NoFlows, inbound |-> NoFlows]
        /\ toClient = <<>> /\ toServer = <<>>
        /\ up = TRUE /\ connection = 1 /\ crashed = {}
        /\ published = {} /\ delivered = [m \in Messages |-> 0]

-----------------------------------------------------------------------------
(* Sending is saving. *)

Packet(type, id) == [type |-> type, packetId |-> id]
Message(id, m)   == [type |-> "PUBLISH", packetId |-> id, message |-> m]

ServerSends(packet) ==
    /\ toClient' = Append(toClient, packet)
    /\ saved' = [saved EXCEPT !.ids = inUse', !.outbound = outbound']

ClientSends(packet) ==
    /\ toServer' = Append(toServer, packet)
    /\ saved' = [saved EXCEPT !.inbound = inbound']

ServerReads(type) == /\ up /\ toServer # <<>> /\ Head(toServer).type = type
                     /\ toServer' = Tail(toServer)
ClientReads(type) == /\ up /\ toClient # <<>> /\ Head(toClient).type = type
                     /\ toClient' = Tail(toClient)

-----------------------------------------------------------------------------
(* The server. *)

Publish(m) ==
    /\ up /\ m \notin published
    /\ Flows!CanSendOutbound
    /\ \E id \in PacketIds!Ids :
          /\ PacketIds!Allocate(id)
          /\ IF m \in QoS1Messages THEN Flows!StartQoS1Outbound(id, m, connection)
             ELSE Flows!StartQoS2Outbound(id, m, connection)
          /\ ServerSends(Message(id, m))
    /\ published' = published \cup {m}
    /\ UNCHANGED <<toServer, link, delivered>>

\* What the flow is waiting for an answer to is sent again.
Retry ==
    /\ up
    /\ \E id \in Flows!FlowsNeedingRetry(1, connection) :
          /\ Flows!IncrementRetry(id, connection) /\ UNCHANGED idVars
          /\ ServerSends(IF Flows!AwaitsPubcomp(id) THEN Packet("PUBREL", id)
                         ELSE Message(id, outbound[id].packet))
    /\ UNCHANGED <<toServer, link, history>>

\* An id is released when its flow ends.
ReadPuback ==
    /\ ServerReads("PUBACK")
    /\ LET id == Head(toServer).packetId IN
       /\ Flows!HandlePuback(id)
       /\ IF Flows!AwaitsPuback(id) THEN PacketIds!Release(id) ELSE UNCHANGED idVars
    /\ UNCHANGED <<saved, toClient, link, history>>

ReadPubrec ==
    /\ ServerReads("PUBREC")
    /\ LET id == Head(toServer).packetId IN
       /\ Flows!HandlePubrec(id, FALSE, connection)
       /\ UNCHANGED idVars
       /\ IF Flows!AwaitsPubrec(id) THEN ServerSends(Packet("PUBREL", id))
          ELSE UNCHANGED <<saved, toClient>>
    /\ UNCHANGED <<link, history>>

ReadPubcomp ==
    /\ ServerReads("PUBCOMP")
    /\ LET id == Head(toServer).packetId IN
       /\ Flows!HandlePubcomp(id)
       /\ IF Flows!AwaitsPubcomp(id) THEN PacketIds!Release(id) ELSE UNCHANGED idVars
    /\ UNCHANGED <<saved, toClient, link, history>>

-----------------------------------------------------------------------------
(* The client. *)

Hand(m) == delivered' = [delivered EXCEPT ![m] = @ + 1] /\ UNCHANGED published

\* A message of QoS 2 whose id the tracker holds is a duplicate; it is only answered.
ReadPublish ==
    /\ ClientReads("PUBLISH")
    /\ LET id == Head(toClient).packetId
           m  == Head(toClient).message
       IN \/ /\ m \in QoS1Messages
             /\ Hand(m) /\ UNCHANGED flowVars /\ ClientSends(Packet("PUBACK", id))
          \/ /\ m \in QoS2Messages /\ ~Flows!HasInbound(id)
             /\ Hand(m) /\ Flows!StartQoS2Inbound(id, m) /\ ClientSends(Packet("PUBREC", id))
          \/ /\ m \in QoS2Messages /\ Flows!HasInbound(id)
             /\ UNCHANGED <<flowVars, history>> /\ ClientSends(Packet("PUBREC", id))
    /\ UNCHANGED <<idVars, link>>

\* An id that is not held was released before, and is answered all the same.
ReadPubrel ==
    /\ ClientReads("PUBREL")
    /\ LET id == Head(toClient).packetId
       IN Flows!HandlePubrel(id) /\ ClientSends(Packet("PUBCOMP", id))
    /\ UNCHANGED <<idVars, link, history>>

-----------------------------------------------------------------------------
(* Faults. *)

\* The last connection stands, so that exchanges may end.
Break ==
    /\ up /\ connection < MaxConnections
    /\ up' = FALSE /\ toClient' = <<>> /\ toServer' = <<>>
    /\ \E down \in SUBSET Sides :
          /\ crashed' = down
          /\ IF "server" \in down THEN PacketIds!ResetIds /\ outbound' = NoFlows
             ELSE UNCHANGED <<idVars, outbound>>
          /\ inbound' = IF "client" \in down THEN NoFlows ELSE inbound
    /\ UNCHANGED <<saved, connection, history>>

RestartServer ==
    /\ "server" \in crashed
    /\ crashed' = crashed \ {"server"}
    /\ Flows!RestoreFlows(saved.outbound, NoFlows) /\ PacketIds!Restore(saved.ids)
    /\ UNCHANGED <<saved, wire, up, connection, history>>

RestartClient ==
    /\ "client" \in crashed
    /\ crashed' = crashed \ {"client"}
    /\ Flows!RestoreFlows(NoFlows, saved.inbound)
    /\ UNCHANGED <<idVars, saved, wire, up, connection, history>>

Connect ==
    /\ ~up /\ crashed = {}
    /\ up' = TRUE /\ connection' = connection + 1
    /\ UNCHANGED <<idVars, flowVars, saved, wire, crashed, history>>

Recover == RestartServer \/ RestartClient \/ Connect
Serve == ReadPuback \/ ReadPubrec \/ ReadPubcomp
Consume == ReadPublish \/ ReadPubrel

Next == (\E m \in Messages : Publish(m)) \/ Retry \/ Serve \/ Consume \/ Break \/ Recover

\* What arrives is read, what needs a retry is retried, and a crash or a break is mended.
Fairness == WF_vars(Retry) /\ WF_vars(Serve) /\ WF_vars(Consume) /\ WF_vars(Recover)

Spec == Init /\ [][Next]_vars /\ Fairness

-----------------------------------------------------------------------------
(* Properties. *)

\* A flow is retried once in a connection at the most, and an id has one packet in flight.
TypeOK ==
    /\ nextId \in PacketIds!Ids /\ inUse \subseteq PacketIds!Ids
    /\ saved.ids \subseteq PacketIds!Ids
    /\ \A id \in Flows!FlowIds, flows \in {outbound, saved.outbound} :
          \/ flows[id] = Flows!NoFlow
          \/ /\ flows[id].packet \in published
             /\ flows[id].sentAt \in 1..connection
             /\ flows[id].retryCount \in 0..(flows[id].sentAt - 1)
             /\ flows[id].type = IF flows[id].packet \in QoS1Messages THEN "qos1-outbound"
                                 ELSE "qos2-outbound"
    /\ \A id \in Flows!FlowIds, flows \in {inbound, saved.inbound} :
          flows[id] # Flows!NoFlow => flows[id].packet \in QoS2Messages
    /\ Len(toClient) + Len(toServer) <= MaxPacketId
    /\ up \in BOOLEAN /\ connection \in 1..MaxConnections /\ crashed \subseteq Sides
    /\ up => crashed = {}

\* The server has forgotten a message when its storage has.
Settled == {m \in published : \A id \in Flows!Live(saved.outbound) :
                                 saved.outbound[id].packet # m}

Promise == INSTANCE MessageDelivery WITH Repeatable <- QoS1Messages, settled <- Settled

\* Breaks and crashes between any two steps, storage that is older than the flows, ids that
\* are used again: a message leaves the server's storage only after it was delivered, and a
\* message of QoS 2 is delivered once.
ImplementsDelivery == Promise!Spec

\* The id of a flow, restored or not, is never free for another message; and an id that no
\* flow holds is free.
RestoredIdsMatchFlows == inUse = Flows!Live(outbound)

\* With connections that stand in the end, every exchange ends on both sides and every id
\* comes back.
ExchangesEnd == <>[](/\ inUse = {} /\ Flows!Live(outbound) = {}
                     /\ Flows!Live(inbound) = {} /\ \A m \in published : delivered[m] > 0)
=============================================================================
