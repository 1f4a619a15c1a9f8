----------------------- MODULE PersistentSessionProofs -----------------------
(***************************************************************************)
(* Packet ids and flows stay in step through breaks, crashes and restores, *)
(* for any number of ids, messages and connections.  What is in memory and *)
(* what is in storage may differ, but each of them holds an id for each of *)
(* its flows; restoring adds the one to the other.                         *)
(***************************************************************************)
EXTENDS PersistentSession, FiniteSetTheorems, TLAPS

FlowIds == Flows!FlowIds
Ids == PacketIds!Ids

\* A map of flows: what is not NoFlow is a record with a type of its own.
IsFlowMap(flows) ==
    /\ flows = [id \in FlowIds |-> flows[id]]
    /\ \A id \in Flows!Live(flows) : "type" \in DOMAIN flows[id] /\ flows[id].type # "none"

\* Storage has a field for each thing that is saved.
SavedShape == {"ids", "outbound", "inbound"} \subseteq DOMAIN saved

MemoryMatches == IsFlowMap(outbound) /\ inUse = Flows!Live(outbound) /\ inUse \subseteq Ids
StorageMatches == /\ SavedShape /\ IsFlowMap(saved.outbound)
                  /\ saved.ids = Flows!Live(saved.outbound) /\ saved.ids \subseteq Ids

IInv == MemoryMatches /\ StorageMatches

-----------------------------------------------------------------------------
(* Maps of flows. *)

LEMMA IdsAreFlowIds == Ids \subseteq FlowIds
  BY SessionAssumption DEF Ids, FlowIds, PacketIds!Ids, PacketIds!MinPacketId, Flows!FlowIds

\* Setting an entry adds its id to the live ones.
LEMMA SettingAFlow ==
    ASSUME NEW flows, IsFlowMap(flows), NEW id \in FlowIds, NEW flow,
           "type" \in DOMAIN flow, flow.type # "none"
    PROVE  /\ IsFlowMap([flows EXCEPT ![id] = flow])
           /\ Flows!Live([flows EXCEPT ![id] = flow]) = Flows!Live(flows) \cup {id}
<1>1. flow # Flows!NoFlow
  BY DEF Flows!NoFlow
<1> QED
  BY <1>1 DEF IsFlowMap, Flows!Live, FlowIds

\* Removing an entry, if there is one, takes its id from the live ones.
LEMMA RemovingAFlow ==
    ASSUME NEW flows, IsFlowMap(flows), NEW id
    PROVE  /\ IsFlowMap([flows EXCEPT ![id] = Flows!NoFlow])
           /\ Flows!Live([flows EXCEPT ![id] = Flows!NoFlow]) = Flows!Live(flows) \ {id}
  BY DEF IsFlowMap, Flows!Live, FlowIds

LEMMA NoFlowsIsAMap == IsFlowMap(NoFlows) /\ Flows!Live(NoFlows) = {}
  BY DEF IsFlowMap, NoFlows, Flows!Live, FlowIds

-----------------------------------------------------------------------------
(* The steps. *)

\* Sending from a server whose memory is in step leaves storage in step.
LEMMA SavingMatches ==
    ASSUME IInv, MemoryMatches', NEW packet, ServerSends(packet)
    PROVE  IInv'
  BY DEF IInv, MemoryMatches, StorageMatches, SavedShape, ServerSends

LEMMA InitMatches == Init => IInv
  BY NoFlowsIsAMap DEF Init, IInv, MemoryMatches, StorageMatches, SavedShape, PacketIds!IdInit,
                       Flows!FlowInit, NoFlows

LEMMA PublishMatches ==
    ASSUME IInv, NEW m \in Messages, Publish(m)
    PROVE  IInv'
<1>1. PICK id \in PacketIds!Ids :
         /\ PacketIds!Allocate(id)
         /\ IF m \in QoS1Messages THEN Flows!StartQoS1Outbound(id, m, connection)
            ELSE Flows!StartQoS2Outbound(id, m, connection)
         /\ ServerSends(Message(id, m))
  BY DEF Publish
<1>2. id \in Ids /\ id \in FlowIds
  BY <1>1, IdsAreFlowIds DEF Ids
<1> DEFINE flow == IF m \in QoS1Messages THEN Flows!QoS1Flow(m, connection)
                   ELSE Flows!QoS2Flow(m, "awaiting-pubrec", connection)
<1>3. /\ outbound' = [outbound EXCEPT ![id] = flow]
      /\ "type" \in DOMAIN flow /\ flow.type # "none"
  <2>1. outbound' = [outbound EXCEPT ![id] = flow]
    BY <1>1 DEF Flows!StartQoS1Outbound, Flows!StartQoS2Outbound
  <2> QED
    BY <2>1 DEF Flows!QoS1Flow, Flows!QoS2Flow
<1> HIDE DEF flow
<1>4. inUse' = inUse \cup {id}
  BY <1>1 DEF PacketIds!Allocate
<1>5. MemoryMatches'
  BY <1>2, <1>3, <1>4, SettingAFlow DEF IInv, MemoryMatches
<1> QED
  BY <1>1, <1>5, SavingMatches

LEMMA RetryMatches ==
    ASSUME IInv, Retry
    PROVE  IInv'
<1>1. PICK id \in Flows!FlowsNeedingRetry(1, connection) :
         /\ Flows!IncrementRetry(id, connection) /\ UNCHANGED idVars
         /\ ServerSends(IF Flows!AwaitsPubcomp(id) THEN Packet("PUBREL", id)
                        ELSE Message(id, outbound[id].packet))
  BY DEF Retry
<1>2. id \in Flows!Live(outbound) /\ id \in FlowIds
  BY <1>1 DEF Flows!FlowsNeedingRetry, Flows!Live, FlowIds
<1> DEFINE flow == [outbound[id] EXCEPT !.sentAt = connection, !.retryCount = @ + 1]
<1>3. outbound' = [outbound EXCEPT ![id] = flow]
  BY <1>1, <1>2 DEF Flows!IncrementRetry, IInv, MemoryMatches, IsFlowMap
<1>4. "type" \in DOMAIN flow /\ flow.type # "none"
  <2>1. "type" \in DOMAIN outbound[id] /\ outbound[id].type # "none"
    BY <1>2 DEF IInv, MemoryMatches, IsFlowMap
  <2>2. DOMAIN flow = DOMAIN outbound[id]
    OBVIOUS
  <2>3. flow.type = outbound[id].type
    BY <2>1
  <2> QED
    BY <2>1, <2>2, <2>3
<1>5. inUse' = inUse \cup {id}
  BY <1>1, <1>2 DEF idVars, IInv, MemoryMatches
<1> HIDE DEF flow
<1>6. MemoryMatches'
  BY <1>2, <1>3, <1>4, <1>5, SettingAFlow DEF IInv, MemoryMatches
<1> QED
  BY <1>1, <1>6, SavingMatches

\* A flow that an acknowledgement ends gives its id back.
LEMMA EndingMatches ==
    ASSUME IInv, NEW id, Flows!EndOutbound(id), PacketIds!Release(id), UNCHANGED saved
    PROVE  IInv'
<1>1. outbound' = [outbound EXCEPT ![id] = Flows!NoFlow] /\ inUse' = inUse \ {id}
  BY DEF Flows!EndOutbound, PacketIds!Release
<1>2. MemoryMatches'
  BY <1>1, RemovingAFlow DEF IInv, MemoryMatches
<1> QED
  BY <1>2 DEF IInv, StorageMatches, SavedShape

\* Steps that leave the server's memory and storage alone.
LEMMA StandingStillMatches ==
    ASSUME IInv, UNCHANGED <<inUse, outbound, saved>>
    PROVE  IInv'
  BY DEF IInv, MemoryMatches, StorageMatches, SavedShape

LEMMA ServeMatches ==
    ASSUME IInv, Serve
    PROVE  IInv'
<1> DEFINE id == Head(toServer).packetId
<1>1. CASE ReadPuback
  <2>1. CASE Flows!AwaitsPuback(id)
    BY <1>1, <2>1, EndingMatches DEF ReadPuback, Flows!HandlePuback
  <2>2. CASE ~Flows!AwaitsPuback(id)
    BY <1>1, <2>2, StandingStillMatches
       DEF ReadPuback, Flows!HandlePuback, Flows!flowVars, idVars
  <2> QED
    BY <2>1, <2>2
<1>2. CASE ReadPubcomp
  <2>1. CASE Flows!AwaitsPubcomp(id)
    BY <1>2, <2>1, EndingMatches DEF ReadPubcomp, Flows!HandlePubcomp
  <2>2. CASE ~Flows!AwaitsPubcomp(id)
    BY <1>2, <2>2, StandingStillMatches
       DEF ReadPubcomp, Flows!HandlePubcomp, Flows!flowVars, idVars
  <2> QED
    BY <2>1, <2>2
<1>3. CASE ReadPubrec
  <2>1. CASE Flows!AwaitsPubrec(id)
    <3> DEFINE flow == Flows!QoS2Flow(outbound[id].packet, "awaiting-pubcomp", connection)
    <3>1. /\ outbound' = [outbound EXCEPT ![id] = flow]
          /\ "type" \in DOMAIN flow /\ flow.type # "none"
      <4>1. outbound' = [outbound EXCEPT ![id] = flow]
        BY <1>3, <2>1 DEF ReadPubrec, Flows!HandlePubrec
      <4> QED
        BY <4>1 DEF Flows!QoS2Flow
    <3> HIDE DEF flow
    <3>2. inUse' = inUse /\ ServerSends(Packet("PUBREL", id))
      BY <1>3, <2>1 DEF ReadPubrec, idVars
    <3>3. CASE id \in FlowIds
      <4>1. id \in Flows!Live(outbound)
        BY <2>1, <3>3 DEF Flows!AwaitsPubrec, Flows!Live, Flows!NoFlow, FlowIds
      <4>2. inUse' = inUse \cup {id} /\ id \in Ids
        BY <3>2, <4>1 DEF IInv, MemoryMatches
      <4>3. MemoryMatches'
        BY <3>1, <3>3, <4>2, SettingAFlow DEF IInv, MemoryMatches
      <4> QED
        BY <3>2, <4>3, SavingMatches
    <3>4. CASE id \notin FlowIds
      <4>1. outbound' = outbound
        BY <3>1, <3>4 DEF IInv, MemoryMatches, IsFlowMap
      <4>2. MemoryMatches'
        BY <3>2, <4>1 DEF IInv, MemoryMatches
      <4> QED
        BY <3>2, <4>2, SavingMatches
    <3> QED
      BY <3>3, <3>4
  <2>2. CASE ~Flows!AwaitsPubrec(id)
    BY <1>3, <2>2, StandingStillMatches
       DEF ReadPubrec, Flows!HandlePubrec, Flows!flowVars, idVars
  <2> QED
    BY <2>1, <2>2
<1> QED
  BY <1>1, <1>2, <1>3 DEF Serve

\* The client saves its own flows, and nothing else.
LEMMA ConsumeMatches ==
    ASSUME IInv, Consume
    PROVE  IInv'
<1>1. UNCHANGED <<inUse, outbound>> /\ saved' = [saved EXCEPT !.inbound = inbound']
  BY DEF Consume, ReadPublish, ReadPubrel, ClientSends, idVars, flowVars,
         Flows!StartQoS2Inbound, Flows!HandlePubrel
<1>2. saved'.ids = saved.ids /\ saved'.outbound = saved.outbound /\ SavedShape'
  BY <1>1 DEF IInv, StorageMatches, SavedShape
<1> QED
  BY <1>1, <1>2 DEF IInv, MemoryMatches, StorageMatches

LEMMA BreakMatches ==
    ASSUME IInv, Break
    PROVE  IInv'
<1>1. \/ inUse' = {} /\ outbound' = NoFlows
      \/ UNCHANGED <<inUse, outbound>>
  BY DEF Break, PacketIds!ResetIds, idVars
<1>2. MemoryMatches'
  BY <1>1, NoFlowsIsAMap DEF IInv, MemoryMatches
<1> QED
  BY <1>2 DEF Break, IInv, StorageMatches, SavedShape

\* Flows and ids that were saved together are added together.
LEMMA RestartServerMatches ==
    ASSUME IInv, RestartServer
    PROVE  IInv'
<1>1. /\ outbound' = [id \in FlowIds |-> IF id \in Flows!Live(saved.outbound)
                                         THEN saved.outbound[id] ELSE outbound[id]]
      /\ inUse' = inUse \cup (saved.ids \cap Ids)
      /\ saved' = saved
  BY DEF RestartServer, Flows!RestoreFlows, PacketIds!Restore, FlowIds, Ids
<1>2. inUse' = inUse \cup saved.ids
  BY <1>1 DEF IInv, StorageMatches
<1>3. Flows!Live(outbound') = Flows!Live(saved.outbound) \cup Flows!Live(outbound)
  BY <1>1 DEF Flows!Live, FlowIds
<1>4. IsFlowMap(outbound')
  BY <1>1, <1>3 DEF IInv, MemoryMatches, StorageMatches, IsFlowMap, Flows!Live, FlowIds
<1>5. MemoryMatches'
  BY <1>2, <1>3, <1>4 DEF IInv, MemoryMatches, StorageMatches
<1> QED
  BY <1>1, <1>5 DEF IInv, StorageMatches, SavedShape

LEMMA RestartClientMatches ==
    ASSUME IInv, RestartClient
    PROVE  IInv'
<1>1. outbound' = [id \in FlowIds |-> outbound[id]]
  BY NoFlowsIsAMap DEF RestartClient, Flows!RestoreFlows, FlowIds
<1>2. outbound' = outbound /\ UNCHANGED <<inUse, saved>>
  BY <1>1 DEF IInv, MemoryMatches, IsFlowMap, RestartClient, idVars
<1> QED
  BY <1>2, StandingStillMatches

LEMMA NextMatches ==
    ASSUME IInv, [Next]_vars
    PROVE  IInv'
<1>1. CASE Recover
  <2>1. CASE Connect
    BY <2>1, StandingStillMatches DEF Connect, idVars, flowVars
  <2> QED
    BY <1>1, <2>1, RestartServerMatches, RestartClientMatches DEF Recover
<1>2. CASE UNCHANGED vars
  BY <1>2, StandingStillMatches DEF vars, idVars, flowVars
<1> QED
  BY <1>1, <1>2, PublishMatches, RetryMatches, ServeMatches, ConsumeMatches, BreakMatches
     DEF Next

\* Whatever breaks or crashes between any two steps, and however old the storage is that a side
\* comes back with, the ids in use are those of the flows: a restored flow's id is given to no
\* other message, and no id is lost.
THEOREM RestoredIdsAlwaysMatch == Spec => []RestoredIdsMatchFlows
<1>1. Init => IInv
  BY InitMatches
<1>2. IInv /\ [Next]_vars => IInv'
  BY NextMatches
<1>3. IInv => RestoredIdsMatchFlows
  BY DEF IInv, MemoryMatches, RestoredIdsMatchFlows
<1> QED
  BY <1>1, <1>2, <1>3, PTL DEF Spec

-----------------------------------------------------------------------------
(* The invariant of the exchanges. *)

OutboundFlows ==
    {Flows!NoFlow}
    \cup [type : {"qos1-outbound"}, packet : QoS1Messages, sentAt : Nat, retryCount : Nat]
    \cup [type : {"qos2-outbound"}, packet : QoS2Messages,
          state : {"awaiting-pubrec", "awaiting-pubcomp"}, sentAt : Nat, retryCount : Nat]
InboundFlows == {Flows!NoFlow} \cup [type : {"qos2-inbound"}, packet : QoS2Messages]

PacketsToClient == [type : {"PUBLISH"}, packetId : Ids, message : Messages]
                   \cup [type : {"PUBREL"}, packetId : Ids]
PacketsToServer == [type : {"PUBACK", "PUBREC", "PUBCOMP"}, packetId : Ids]

FlowsTyped == /\ saved \in [ids : SUBSET Ids, outbound : [FlowIds -> OutboundFlows],
                            inbound : [FlowIds -> InboundFlows]]
              /\ inbound \in [FlowIds -> InboundFlows]
WireTyped == toClient \in Seq(PacketsToClient) /\ toServer \in Seq(PacketsToServer)
LinkTyped == /\ up \in BOOLEAN /\ connection \in 1..MaxConnections /\ crashed \subseteq Sides
             /\ up => crashed = {}
             /\ ~up => toClient = <<>> /\ toServer = <<>> /\ connection < MaxConnections
HistoryTyped == published \subseteq Messages /\ delivered \in [Messages -> Nat]

\* The server has forgotten a flow that its storage still has: the exchange had ended.
Ended(id) == /\ outbound[id] = Flows!NoFlow /\ saved.inbound[id] = Flows!NoFlow
             /\ saved.outbound[id] # Flows!NoFlow
             /\ delivered[saved.outbound[id].packet] > 0

ServerInStep == IF "server" \in crashed THEN outbound = NoFlows
                ELSE \A id \in FlowIds : outbound[id] = saved.outbound[id] \/ Ended(id)
ClientInStep == inbound = IF "client" \in crashed THEN NoFlows ELSE saved.inbound

\* What the two storages hold of an exchange, and what was delivered by then.
Exchange(id) ==
    LET flow == saved.outbound[id]
        held == saved.inbound[id]
    IN \/ flow = Flows!NoFlow /\ held = Flows!NoFlow
       \/ flow.type = "qos1-outbound" /\ held = Flows!NoFlow
       \/ /\ flow.type = "qos2-outbound" /\ flow.state = "awaiting-pubrec"
          /\ \/ held = Flows!NoFlow /\ delivered[flow.packet] = 0
             \/ held = Flows!InboundFlow(flow.packet) /\ delivered[flow.packet] = 1
       \/ /\ flow.type = "qos2-outbound" /\ flow.state = "awaiting-pubcomp"
          /\ delivered[flow.packet] = 1
          /\ held \in {Flows!NoFlow, Flows!InboundFlow(flow.packet)}
Exchanges == \A id \in FlowIds : Exchange(id)

Stamped(flow) == flow.sentAt \in 1..connection /\ flow.retryCount \in 0..(flow.sentAt - 1)

SavedFlows == {id \in FlowIds : saved.outbound[id] # Flows!NoFlow}

\* Storage has one flow for a message it is responsible for; it drops only what was delivered.
Responsible == \A id \in SavedFlows : /\ saved.outbound[id].packet \in published
                                      /\ Stamped(saved.outbound[id])
OneFlowEach == \A id, other \in SavedFlows :
                  saved.outbound[id].packet = saved.outbound[other].packet => id = other
ForgottenDelivered == \A m \in published :
                         delivered[m] > 0 \/ \E id \in SavedFlows : saved.outbound[id].packet = m
NothingUnpublished == \A m \in Messages \ published : delivered[m] = 0
Books == Responsible /\ OneFlowEach /\ ForgottenDelivered /\ NothingUnpublished

\* A packet in flight belongs to a flow that was sent in this connection, and to the phase the
\* flow is in; and no id has two packets in flight.
FitsToClient(packet) ==
    LET flow == outbound[packet.packetId]
    IN /\ flow # Flows!NoFlow /\ flow.sentAt = connection
       /\ IF packet.type = "PUBREL" THEN Flows!AwaitsPubcomp(packet.packetId)
          ELSE flow.packet = packet.message /\ ~Flows!AwaitsPubcomp(packet.packetId)
FitsToServer(packet) ==
    LET flow == outbound[packet.packetId]
    IN /\ flow # Flows!NoFlow /\ flow.sentAt = connection
       /\ \/ packet.type = "PUBACK" /\ flow.type = "qos1-outbound" /\ delivered[flow.packet] > 0
          \/ /\ packet.type = "PUBREC" /\ Flows!AwaitsPubrec(packet.packetId)
             /\ inbound[packet.packetId] = Flows!InboundFlow(flow.packet)
          \/ /\ packet.type = "PUBCOMP" /\ Flows!AwaitsPubcomp(packet.packetId)
             /\ inbound[packet.packetId] = Flows!NoFlow

IdsOf(queue) == {queue[i].packetId : i \in 1..Len(queue)}
Distinct(queue) == \A i, j \in 1..Len(queue) : queue[i].packetId = queue[j].packetId => i = j

InFlight == /\ Distinct(toClient) /\ Distinct(toServer)
            /\ IdsOf(toClient) \cap IdsOf(toServer) = {}
            /\ \A i \in 1..Len(toClient) : FitsToClient(toClient[i])
            /\ \A i \in 1..Len(toServer) : FitsToServer(toServer[i])

Types == /\ nextId \in Ids /\ FlowsTyped /\ WireTyped /\ LinkTyped /\ HistoryTyped
Storage == ServerInStep /\ ClientInStep /\ Exchanges /\ Books

DeliveryInv == IInv /\ Types /\ Storage /\ InFlight

-----------------------------------------------------------------------------
(* Flows and queues. *)

LEMMA FlowShapes ==
    /\ \A flow \in OutboundFlows : flow # Flows!NoFlow <=> flow.type # "none"
    /\ \A flow \in OutboundFlows :
          flow.type = "qos1-outbound" => flow.packet \in QoS1Messages
    /\ \A flow \in OutboundFlows :
          flow.type = "qos2-outbound" => /\ flow.packet \in QoS2Messages
                                         /\ flow.state \in {"awaiting-pubrec", "awaiting-pubcomp"}
    /\ \A flow \in OutboundFlows : flow # Flows!NoFlow =>
          /\ flow.type \in {"qos1-outbound", "qos2-outbound"}
          /\ flow.packet \in Messages /\ flow.sentAt \in Nat /\ flow.retryCount \in Nat
    /\ Flows!NoFlow \in OutboundFlows /\ Flows!NoFlow \in InboundFlows
    /\ Flows!NoFlow.type = "none"
    /\ \A m : Flows!InboundFlow(m) # Flows!NoFlow
    /\ \A m \in QoS2Messages : Flows!InboundFlow(m) \in InboundFlows
    /\ \A flow \in InboundFlows : flow # Flows!NoFlow => flow.packet \in QoS2Messages
  BY DEF OutboundFlows, InboundFlows, Flows!NoFlow, Flows!InboundFlow, Messages

\* The flows in memory are typed like those in storage.
LEMMA MemoryTyped ==
    ASSUME IInv, Types, Storage
    PROVE  outbound \in [FlowIds -> OutboundFlows]
<1>1. outbound = [id \in FlowIds |-> outbound[id]]
  BY DEF IInv, MemoryMatches, IsFlowMap
<1>2. \A id \in FlowIds : outbound[id] \in OutboundFlows
  BY FlowShapes DEF Types, FlowsTyped, Storage, ServerInStep, Ended, NoFlows, FlowIds
<1> QED
  BY <1>1, <1>2

\* A queue with a packet more, and one without its first packet.
IsLonger(S, queue, longer, packet) ==
    /\ longer \in Seq(S) /\ Distinct(longer)
    /\ IdsOf(longer) = IdsOf(queue) \cup {packet.packetId}
    /\ \A i \in 1..Len(longer) :
          \/ longer[i] = packet
          \/ \E j \in 1..Len(queue) : /\ longer[i] = queue[j]
                                      /\ queue[j].packetId # packet.packetId

IsShorter(S, queue, rest, id) ==
    /\ rest \in Seq(S) /\ Distinct(rest)
    /\ IdsOf(rest) = IdsOf(queue) \ {id} /\ id \in IdsOf(queue)
    /\ \A i \in 1..Len(rest) : \E j \in 1..Len(queue) : /\ rest[i] = queue[j]
                                                        /\ queue[j].packetId # id

LEMMA AppendToQueue ==
    ASSUME NEW S, NEW queue \in Seq(S), NEW packet \in S, NEW longer,
           Distinct(queue), packet.packetId \notin IdsOf(queue),
           longer = Append(queue, packet)
    PROVE  IsLonger(S, queue, longer, packet)
  BY DEF Distinct, IdsOf, IsLonger

LEMMA TailOfQueue ==
    ASSUME NEW S, NEW queue \in Seq(S), queue # <<>>, Distinct(queue), NEW rest,
           rest = Tail(queue)
    PROVE  /\ Head(queue) \in S /\ Head(queue) = queue[1] /\ 1 \in 1..Len(queue)
           /\ IsShorter(S, queue, rest, Head(queue).packetId)
<1>1. Len(queue) \in Nat /\ Len(queue) > 0 /\ Head(queue) = queue[1] /\ queue[1] \in S
  OBVIOUS
<1>2. /\ rest \in Seq(S) /\ Len(rest) = Len(queue) - 1
      /\ \A i \in 1..Len(rest) : rest[i] = queue[i + 1]
  OBVIOUS
<1>3. Distinct(rest)
  BY <1>1, <1>2 DEF Distinct
<1>4. IdsOf(rest) \subseteq IdsOf(queue) \ {Head(queue).packetId}
  BY <1>1, <1>2 DEF Distinct, IdsOf
<1>5. ASSUME NEW i \in 1..Len(queue), queue[i].packetId # Head(queue).packetId
      PROVE  queue[i].packetId \in IdsOf(rest)
  <2>1. i - 1 \in 1..Len(rest) /\ rest[i - 1] = queue[i]
    BY <1>1, <1>2, <1>5
  <2> QED
    BY <2>1 DEF IdsOf
<1>6. IdsOf(queue) \ {Head(queue).packetId} \subseteq IdsOf(rest)
  BY <1>5 DEF IdsOf
<1>7. ASSUME NEW i \in 1..Len(rest)
      PROVE  \E j \in 1..Len(queue) : /\ rest[i] = queue[j]
                                      /\ queue[j].packetId # Head(queue).packetId
  <2>1. i + 1 \in 1..Len(queue) /\ rest[i] = queue[i + 1]
    BY <1>1, <1>2
  <2>2. queue[i + 1].packetId # queue[1].packetId
    BY <1>1, <2>1 DEF Distinct
  <2> QED
    BY <1>1, <2>1, <2>2
<1>8. Head(queue).packetId \in IdsOf(queue)
  BY <1>1 DEF IdsOf
<1> QED
  BY <1>1, <1>2, <1>3, <1>4, <1>6, <1>7, <1>8 DEF IsShorter

\* A packet fits as it did when its own flow stands still.
LEMMA FitsAsBefore ==
    ASSUME DeliveryInv, NEW id,
           outbound'[id] = outbound[id], inbound'[id] = inbound[id], id \in FlowIds,
           connection' = connection, \A m \in Messages : delivered'[m] >= delivered[m],
           delivered' \in [Messages -> Nat],
           NEW packet, packet.packetId = id
    PROVE  /\ FitsToClient(packet) => FitsToClient(packet)'
           /\ FitsToServer(packet) => FitsToServer(packet)'
<1>1. outbound[id] \in OutboundFlows
  BY MemoryTyped DEF DeliveryInv
<1>2. FitsToClient(packet) => FitsToClient(packet)'
  BY DEF FitsToClient, Flows!AwaitsPubcomp
<1>3. outbound[id] # Flows!NoFlow => /\ outbound[id].packet \in Messages
                                     /\ delivered[outbound[id].packet] \in Nat
                                     /\ delivered'[outbound[id].packet] \in Nat
  BY <1>1, FlowShapes DEF DeliveryInv, Types, HistoryTyped
<1> QED
  BY <1>2, <1>3 DEF FitsToServer, Flows!AwaitsPubcomp, Flows!AwaitsPubrec

\* A step that touches the flows of one id leaves the packets of the others fitting.
Grows == /\ delivered' \in [Messages -> Nat]
         /\ \A m \in Messages : delivered'[m] >= delivered[m]

LEMMA OthersFit ==
    ASSUME DeliveryInv, NEW id, connection' = connection, Grows,
           \A other \in FlowIds \ {id} : /\ outbound'[other] = outbound[other]
                                         /\ inbound'[other] = inbound[other]
    PROVE  /\ \A i \in 1..Len(toClient') :
                 (\E j \in 1..Len(toClient) : /\ toClient'[i] = toClient[j]
                                              /\ toClient[j].packetId # id)
                 => FitsToClient(toClient[i])'
           /\ \A i \in 1..Len(toServer') :
                 (\E j \in 1..Len(toServer) : /\ toServer'[i] = toServer[j]
                                              /\ toServer[j].packetId # id)
                 => FitsToServer(toServer[i])'
<1>1. ASSUME NEW i \in 1..Len(toClient'), NEW j \in 1..Len(toClient),
             toClient'[i] = toClient[j], toClient[j].packetId # id
      PROVE  FitsToClient(toClient[i])'
  <2>1. PICK old : old = toClient[j]
    OBVIOUS
  <2>2. old \in PacketsToClient
    BY <2>1 DEF DeliveryInv, Types, WireTyped
  <2>3. old.packetId \in FlowIds \ {id}
    BY <1>1, <2>1, <2>2, IdsAreFlowIds DEF PacketsToClient
  <2>4. FitsToClient(old)
    BY <2>1 DEF FitsToClient, DeliveryInv, InFlight
  <2>5. FitsToClient(old)'
    BY <2>3, <2>4, FitsAsBefore DEF Grows
  <2> QED
    BY <1>1, <2>1, <2>5 DEF FitsToClient
<1>2. ASSUME NEW i \in 1..Len(toServer'), NEW j \in 1..Len(toServer),
             toServer'[i] = toServer[j], toServer[j].packetId # id
      PROVE  FitsToServer(toServer[i])'
  <2>1. PICK old : old = toServer[j]
    OBVIOUS
  <2>2. old \in PacketsToServer
    BY <2>1 DEF DeliveryInv, Types, WireTyped
  <2>3. old.packetId \in FlowIds \ {id}
    BY <1>2, <2>1, <2>2, IdsAreFlowIds DEF PacketsToServer
  <2>4. FitsToServer(old)
    BY <2>1 DEF FitsToServer, DeliveryInv, InFlight
  <2>5. FitsToServer(old)'
    BY <2>3, <2>4, FitsAsBefore DEF Grows
  <2> QED
    BY <1>2, <2>1, <2>5 DEF FitsToServer
<1> QED
  BY <1>1, <1>2

-----------------------------------------------------------------------------
(* The server sends, and saves. *)

\* What is settled is what storage has no flow for.
LEMMA SettledFlows ==
    ASSUME IInv
    PROVE  Settled = {m \in published : \A id \in SavedFlows : saved.outbound[id].packet # m}
  BY DEF Settled, SavedFlows, Flows!Live, FlowIds

\* The server sets a flow, to one for the same message or for a new one, and saves all of them.
SetsFlow(id, flow) ==
    /\ outbound' = [outbound EXCEPT ![id] = flow]
    /\ flow \in OutboundFlows /\ flow # Flows!NoFlow /\ Stamped(flow)
    /\ saved' = [saved EXCEPT !.ids = inUse', !.outbound = outbound']
    /\ UNCHANGED <<inbound, delivered, link>>
    /\ \/ /\ outbound[id] # Flows!NoFlow /\ flow.packet = outbound[id].packet
          /\ published' = published
       \/ /\ outbound[id] = Flows!NoFlow /\ flow.packet \in Messages \ published
          /\ published' = published \cup {flow.packet}

LEMMA SettingTypes ==
    ASSUME DeliveryInv, NEW id \in Ids, NEW flow, SetsFlow(id, flow), inUse' \subseteq Ids
    PROVE  /\ FlowsTyped' /\ HistoryTyped'
           /\ outbound' \in [FlowIds -> OutboundFlows]
           /\ saved'.outbound = outbound' /\ saved'.inbound = saved.inbound
           /\ inbound' = inbound /\ id \in FlowIds
<1>1. outbound \in [FlowIds -> OutboundFlows]
  BY MemoryTyped DEF DeliveryInv
<1>2. outbound' \in [FlowIds -> OutboundFlows]
  BY <1>1 DEF SetsFlow
<1>3. /\ saved' \in [ids : SUBSET Ids, outbound : [FlowIds -> OutboundFlows],
                     inbound : [FlowIds -> InboundFlows]]
      /\ saved'.outbound = outbound' /\ saved'.inbound = saved.inbound
  BY <1>2 DEF SetsFlow, DeliveryInv, Types, FlowsTyped
<1>4. HistoryTyped'
  BY DEF SetsFlow, DeliveryInv, Types, HistoryTyped
<1> QED
  BY <1>2, <1>3, <1>4, IdsAreFlowIds DEF SetsFlow, DeliveryInv, Types, FlowsTyped

LEMMA SettingStorage ==
    ASSUME DeliveryInv, up, NEW id \in Ids, NEW flow, SetsFlow(id, flow), inUse' \subseteq Ids,
           Exchange(id)'
    PROVE  Storage' /\ Settled \subseteq Settled'
<1>1. /\ saved'.outbound = outbound' /\ saved'.inbound = saved.inbound
      /\ inbound' = inbound /\ delivered' = delivered
      /\ connection' = connection /\ crashed' = {} /\ crashed = {}
      /\ outbound \in [FlowIds -> OutboundFlows] /\ id \in FlowIds
      /\ outbound' \in [FlowIds -> OutboundFlows]
  BY SettingTypes, MemoryTyped DEF SetsFlow, link, DeliveryInv, Types, LinkTyped
<1>2. /\ outbound'[id] = flow
      /\ \A other \in FlowIds : other # id => outbound'[other] = outbound[other]
  BY <1>1 DEF SetsFlow
<1>3. \A x \in FlowIds : outbound[x] = saved.outbound[x] \/ Ended(x)
  BY <1>1 DEF DeliveryInv, Storage, ServerInStep
<1>4. ServerInStep' /\ ClientInStep'
  BY <1>1 DEF ServerInStep, ClientInStep, DeliveryInv, Storage
<1>5. Exchanges'
  <2> SUFFICES ASSUME NEW other \in FlowIds, other # id PROVE Exchange(other)'
    BY DEF Exchanges
  <2>1. Exchange(other)
    BY DEF DeliveryInv, Storage, Exchanges
  <2> QED
    BY <1>1, <1>2, <1>3, <2>1 DEF Exchange, Ended
<1>6. \A x \in SavedFlows' : x # id => /\ x \in SavedFlows
                                       /\ saved'.outbound[x] = saved.outbound[x]
  BY <1>1, <1>2, <1>3 DEF SavedFlows, Ended
<1>7. id \in SavedFlows' /\ saved'.outbound[id] = flow
  BY <1>1, <1>2 DEF SavedFlows, SetsFlow
<1>8. outbound[id] # Flows!NoFlow => id \in SavedFlows /\ saved.outbound[id] = outbound[id]
  BY <1>1, <1>3 DEF SavedFlows, Ended
<1>9. Responsible /\ OneFlowEach /\ ForgottenDelivered /\ NothingUnpublished
  BY DEF DeliveryInv, Storage, Books
<1>10. published \subseteq published' /\ flow.packet \in published'
  BY <1>8, <1>9 DEF SetsFlow, Responsible
<1>11. Responsible'
  BY <1>1, <1>6, <1>7, <1>9, <1>10 DEF Responsible, Stamped, SetsFlow
<1>12. OneFlowEach'
  BY <1>6, <1>7, <1>8, <1>9 DEF OneFlowEach, Responsible, SetsFlow
<1>13. ASSUME NEW m \in published, NEW x \in SavedFlows, saved.outbound[x].packet = m
       PROVE  delivered[m] > 0 \/ \E y \in SavedFlows' : saved'.outbound[y].packet = m
  <2>1. CASE Ended(x)
    BY <1>13, <2>1 DEF Ended
  <2>2. CASE outbound[x] = saved.outbound[x] /\ x # id
    BY <1>1, <1>2, <1>13, <2>2 DEF SavedFlows
  <2>3. CASE outbound[x] = saved.outbound[x] /\ x = id
    BY <1>7, <1>13, <2>3 DEF SetsFlow, SavedFlows
  <2> QED
    BY <1>3, <2>1, <2>2, <2>3 DEF SavedFlows
<1>14. ForgottenDelivered'
  BY <1>1, <1>7, <1>9, <1>13 DEF ForgottenDelivered, SetsFlow
<1>15. NothingUnpublished'
  BY <1>1, <1>9, <1>10 DEF NothingUnpublished
<1>16. ASSUME NEW m \in Settled PROVE m \in Settled'
  <2>1. m \in published /\ \A x \in SavedFlows : saved.outbound[x].packet # m
    BY SettledFlows DEF DeliveryInv
  <2>2. \A x \in SavedFlows' : saved'.outbound[x].packet # m
    BY <1>6, <1>7, <1>8, <2>1 DEF SetsFlow
  <2> QED
    BY <1>10, <2>1, <2>2 DEF Settled, SavedFlows, Flows!Live, FlowIds
<1> QED
  BY <1>4, <1>5, <1>11, <1>12, <1>14, <1>15, <1>16 DEF Storage, Books

\* No two packets with the id are in flight when it had none and is sent one.
LEMMA SettingInFlight ==
    ASSUME DeliveryInv, up, NEW id \in Ids, NEW flow, SetsFlow(id, flow),
           inUse' \subseteq Ids, flow.sentAt = connection,
           NEW packet \in PacketsToClient, packet.packetId = id,
           packet.type = "PUBLISH" => /\ packet.message = flow.packet
                                      /\ ~(flow.type = "qos2-outbound"
                                           /\ flow.state = "awaiting-pubcomp"),
           packet.type = "PUBREL" => /\ flow.type = "qos2-outbound"
                                     /\ flow.state = "awaiting-pubcomp",
           toClient' = Append(toClient, packet), id \notin IdsOf(toClient),
           \/ toServer' = toServer /\ id \notin IdsOf(toServer)
           \/ toServer # <<>> /\ Head(toServer).packetId = id /\ toServer' = Tail(toServer)
    PROVE  WireTyped' /\ InFlight'
<1>1. /\ toClient \in Seq(PacketsToClient) /\ toServer \in Seq(PacketsToServer)
      /\ Distinct(toClient) /\ Distinct(toServer) /\ IdsOf(toClient) \cap IdsOf(toServer) = {}
  BY DEF DeliveryInv, Types, WireTyped, InFlight
<1>2. IsLonger(PacketsToClient, toClient, toClient', packet)
  BY <1>1, AppendToQueue
<1>3. /\ toServer' \in Seq(PacketsToServer) /\ Distinct(toServer')
      /\ IdsOf(toServer') = IdsOf(toServer) \ {id}
      /\ \A i \in 1..Len(toServer') :
            \E j \in 1..Len(toServer) : toServer'[i] = toServer[j] /\ toServer[j].packetId # id
  <2>1. CASE toServer' = toServer /\ id \notin IdsOf(toServer)
    BY <1>1, <2>1 DEF IdsOf
  <2>2. CASE toServer # <<>> /\ Head(toServer).packetId = id /\ toServer' = Tail(toServer)
    <3>1. toServer # <<>> /\ toServer' = Tail(toServer)
      BY <2>2
    <3>2. IsShorter(PacketsToServer, toServer, toServer', Head(toServer).packetId)
      BY <1>1, <3>1, TailOfQueue, Zenon
    <3> QED
      BY <2>2, <3>2 DEF IsShorter
  <2> QED
    BY <2>1, <2>2
<1>4. /\ inbound' = inbound /\ connection' = connection /\ delivered' = delivered
      /\ outbound'[id] = flow
      /\ \A other \in FlowIds : other # id => outbound'[other] = outbound[other]
  BY SettingTypes, MemoryTyped DEF SetsFlow, link, DeliveryInv
<1>5. Grows
  BY <1>4 DEF Grows, DeliveryInv, Types, HistoryTyped
<1>6. FitsToClient(packet)'
  <2>1. packet.type \in {"PUBLISH", "PUBREL"}
    BY DEF PacketsToClient
  <2> QED
    BY <1>4, <2>1 DEF FitsToClient, Flows!AwaitsPubcomp, SetsFlow
<1>7. ASSUME NEW i \in 1..Len(toClient') PROVE FitsToClient(toClient[i])'
  <2>1. CASE toClient'[i] = packet
    BY <1>6, <2>1 DEF FitsToClient
  <2>2. CASE \E j \in 1..Len(toClient) : toClient'[i] = toClient[j] /\ toClient[j].packetId # id
    BY <1>4, <1>5, <2>2, OthersFit, ZenonT(60)
  <2> QED
    BY <1>2, <2>1, <2>2 DEF IsLonger
<1>8. \A i \in 1..Len(toServer') : FitsToServer(toServer[i])'
  BY <1>3, <1>4, <1>5, OthersFit
<1> QED
  BY <1>1, <1>2, <1>3, <1>7, <1>8 DEF WireTyped, InFlight, Distinct, IdsOf, IsLonger

\* An id whose flow was not sent in this connection has no packet in flight.
LEMMA NotInFlight ==
    ASSUME DeliveryInv, NEW id, outbound[id] = Flows!NoFlow \/ outbound[id].sentAt # connection
    PROVE  id \notin IdsOf(toClient) /\ id \notin IdsOf(toServer)
  BY DEF DeliveryInv, InFlight, IdsOf, FitsToClient, FitsToServer

\* What a step does to the history is what MessageDelivery allows.
LEMMA SettlingIsPromised ==
    ASSUME Types', Storage', Settled \subseteq Settled', delivered' = delivered,
           \/ published' = published
           \/ \E m \in Messages \ published : published' = published \cup {m}
    PROVE  Promise!Next
<1>1. Settled' \subseteq {m \in Messages : delivered[m] > 0}
  BY DEF Settled, Flows!Live, Storage, Books, ForgottenDelivered, SavedFlows, FlowIds,
         Types, HistoryTyped
<1> QED
  BY <1>1 DEF Promise!Next, Promise!Settle, Promise!Publish

Keeps == Types' /\ Storage' /\ InFlight' /\ Promise!Next

LEMMA PublishKeeps ==
    ASSUME DeliveryInv, NEW m \in Messages, Publish(m)
    PROVE  Keeps
<1>1. PICK id \in PacketIds!Ids :
         /\ PacketIds!Allocate(id)
         /\ IF m \in QoS1Messages THEN Flows!StartQoS1Outbound(id, m, connection)
            ELSE Flows!StartQoS2Outbound(id, m, connection)
         /\ ServerSends(Message(id, m))
  BY DEF Publish
<1> DEFINE flow == IF m \in QoS1Messages THEN Flows!QoS1Flow(m, connection)
                   ELSE Flows!QoS2Flow(m, "awaiting-pubrec", connection)
<1>2. /\ up /\ m \notin published /\ published' = published \cup {m}
      /\ toServer' = toServer /\ delivered' = delivered /\ link' = link
  BY DEF Publish
<1>3. id \in Ids /\ id \in FlowIds /\ outbound[id] = Flows!NoFlow
  BY <1>1, IdsAreFlowIds
     DEF PacketIds!Allocate, DeliveryInv, IInv, MemoryMatches, Flows!Live, FlowIds, Ids
<1>4. connection \in Nat \ {0} /\ MaxConnections \in Nat
  BY SessionAssumption DEF DeliveryInv, Types, LinkTyped
<1>5. /\ flow \in OutboundFlows /\ flow # Flows!NoFlow /\ flow.packet = m
      /\ flow.sentAt = connection /\ flow.retryCount = 0
      /\ flow.type = IF m \in QoS1Messages THEN "qos1-outbound" ELSE "qos2-outbound"
      /\ m \notin QoS1Messages => flow.state = "awaiting-pubrec"
  BY <1>4 DEF OutboundFlows, Flows!QoS1Flow, Flows!QoS2Flow, Flows!NoFlow, Messages
<1>6. Stamped(flow)
  BY <1>4, <1>5 DEF Stamped
<1>7. outbound' = [outbound EXCEPT ![id] = flow] /\ inbound' = inbound
  BY <1>1 DEF Flows!StartQoS1Outbound, Flows!StartQoS2Outbound
<1> HIDE DEF flow
<1>8. SetsFlow(id, flow)
  BY <1>1, <1>2, <1>3, <1>5, <1>6, <1>7 DEF SetsFlow, ServerSends
<1>9. IInv'
  BY PublishMatches DEF DeliveryInv
<1>10. inUse' \subseteq Ids
  BY <1>9 DEF IInv, MemoryMatches
<1>11. /\ saved'.outbound[id] = flow /\ saved'.inbound[id] = saved.inbound[id]
       /\ FlowsTyped' /\ HistoryTyped'
  <2>1. saved'.outbound = outbound' /\ outbound'[id] = flow
    BY <1>3, <1>7, <1>8, <1>10, SettingTypes, MemoryTyped DEF DeliveryInv
  <2> QED
    BY <2>1, <1>3, <1>8, <1>10, SettingTypes
<1>12. saved.inbound[id] = Flows!NoFlow
  <2>1. outbound[id] = saved.outbound[id] \/ Ended(id)
    BY <1>2, <1>3 DEF DeliveryInv, Storage, ServerInStep, Types, LinkTyped
  <2>2. Exchange(id)
    BY <1>3 DEF DeliveryInv, Storage, Exchanges
  <2> QED
    BY <1>3, <2>1, <2>2, FlowShapes DEF Ended, Exchange
<1>13. delivered'[m] = 0
  BY <1>2 DEF DeliveryInv, Storage, Books, NothingUnpublished
<1>14. Exchange(id)'
  BY <1>5, <1>11, <1>12, <1>13 DEF Exchange
<1>15. Storage' /\ Settled \subseteq Settled'
  BY <1>2, <1>3, <1>8, <1>10, <1>14, SettingStorage
<1>16. id \notin IdsOf(toClient) /\ id \notin IdsOf(toServer)
  BY <1>3, NotInFlight
<1> DEFINE packet == Message(id, m)
<1>17. /\ packet \in PacketsToClient /\ packet.packetId = id
       /\ packet.type = "PUBLISH" /\ packet.message = m
  BY <1>3 DEF Message, PacketsToClient
<1>18. toClient' = Append(toClient, packet)
  BY <1>1 DEF ServerSends
<1> HIDE DEF packet
<1>19. WireTyped' /\ InFlight'
  BY <1>2, <1>3, <1>5, <1>8, <1>10, <1>16, <1>17, <1>18, SettingInFlight
<1>20. nextId' \in Ids
  BY <1>1, SessionAssumption
     DEF PacketIds!Allocate, PacketIds!Successor, Ids, PacketIds!Ids, PacketIds!MinPacketId
<1>21. LinkTyped'
  BY <1>2 DEF DeliveryInv, Types, LinkTyped, link
<1>22. Types'
  BY <1>11, <1>19, <1>20, <1>21 DEF Types
<1> QED
  BY <1>2, <1>15, <1>19, <1>22, SettlingIsPromised DEF Keeps

LEMMA FlowWithField ==
    ASSUME NEW flow \in OutboundFlows, flow # Flows!NoFlow, NEW n \in Nat
    PROVE  /\ LET stamped == [flow EXCEPT !.sentAt = n]
              IN /\ stamped \in OutboundFlows /\ stamped # Flows!NoFlow
                 /\ stamped.packet = flow.packet /\ stamped.type = flow.type
                 /\ stamped.sentAt = n /\ stamped.retryCount = flow.retryCount
                 /\ flow.type = "qos2-outbound" => stamped.state = flow.state
           /\ LET counted == [flow EXCEPT !.retryCount = n]
              IN /\ counted \in OutboundFlows /\ counted # Flows!NoFlow
                 /\ counted.packet = flow.packet /\ counted.type = flow.type
                 /\ counted.sentAt = flow.sentAt /\ counted.retryCount = n
                 /\ flow.type = "qos2-outbound" => counted.state = flow.state
  BY DEF OutboundFlows, Flows!NoFlow

LEMMA RetriedFlow ==
    ASSUME NEW flow \in OutboundFlows, flow # Flows!NoFlow, NEW now \in Nat
    PROVE  LET retried == [flow EXCEPT !.sentAt = now, !.retryCount = @ + 1]
           IN /\ retried \in OutboundFlows /\ retried # Flows!NoFlow
              /\ retried.packet = flow.packet /\ retried.type = flow.type
              /\ retried.sentAt = now /\ retried.retryCount = flow.retryCount + 1
              /\ retried.type = "qos2-outbound" => retried.state = flow.state
<1> DEFINE stamped == [flow EXCEPT !.sentAt = now]
           retried == [flow EXCEPT !.sentAt = now, !.retryCount = @ + 1]
<1>1. flow.retryCount + 1 \in Nat
  BY FlowShapes
<1>2. /\ stamped \in OutboundFlows /\ stamped # Flows!NoFlow
      /\ stamped.packet = flow.packet /\ stamped.type = flow.type
      /\ stamped.sentAt = now
      /\ flow.type = "qos2-outbound" => stamped.state = flow.state
  BY FlowWithField
<1>3. retried = [stamped EXCEPT !.retryCount = flow.retryCount + 1]
  OBVIOUS
<1> SUFFICES /\ retried \in OutboundFlows /\ retried # Flows!NoFlow
             /\ retried.packet = flow.packet /\ retried.type = flow.type
             /\ retried.sentAt = now /\ retried.retryCount = flow.retryCount + 1
             /\ retried.type = "qos2-outbound" => retried.state = flow.state
  OBVIOUS
<1> HIDE DEF stamped, retried
<1> DEFINE count == flow.retryCount + 1
           counted == [stamped EXCEPT !.retryCount = count]
<1>4. count \in Nat /\ retried = counted /\ count = flow.retryCount + 1
  BY <1>1, <1>3
<1> HIDE DEF count
<1>5. /\ counted \in OutboundFlows /\ counted # Flows!NoFlow
      /\ counted.packet = stamped.packet /\ counted.type = stamped.type
      /\ counted.sentAt = stamped.sentAt /\ counted.retryCount = count
      /\ stamped.type = "qos2-outbound" => counted.state = stamped.state
  BY <1>2, <1>4, FlowWithField, ZenonT(60)
<1> HIDE DEF counted
<1> QED
  BY <1>2, <1>4, <1>5

LEMMA RetryKeeps ==
    ASSUME DeliveryInv, Retry
    PROVE  Keeps
<1>1. PICK id \in Flows!FlowsNeedingRetry(1, connection) :
         /\ Flows!IncrementRetry(id, connection) /\ UNCHANGED idVars
         /\ ServerSends(IF Flows!AwaitsPubcomp(id) THEN Packet("PUBREL", id)
                        ELSE Message(id, outbound[id].packet))
  BY DEF Retry
<1>2. up /\ toServer' = toServer /\ delivered' = delivered /\ published' = published /\ link' = link
  BY DEF Retry, history
<1>3. id \in FlowIds /\ outbound[id] # Flows!NoFlow /\ connection - outbound[id].sentAt >= 1
  BY <1>1 DEF Flows!FlowsNeedingRetry, Flows!Live, FlowIds
<1>4. id \in Ids
  BY <1>3 DEF DeliveryInv, IInv, MemoryMatches, Flows!Live, FlowIds
<1>5. /\ outbound[id] \in OutboundFlows /\ connection \in Nat
      /\ outbound[id] = saved.outbound[id] /\ id \in SavedFlows /\ Stamped(outbound[id])
  <2>1. outbound[id] = saved.outbound[id]
    BY <1>2, <1>3 DEF DeliveryInv, Storage, ServerInStep, Types, LinkTyped, Ended
  <2>2. connection \in Nat
    BY SessionAssumption DEF DeliveryInv, Types, LinkTyped
  <2>3. id \in SavedFlows /\ Stamped(outbound[id])
    BY <1>3, <2>1 DEF DeliveryInv, Storage, Books, Responsible, SavedFlows
  <2> QED
    BY <1>3, <2>1, <2>2, <2>3, MemoryTyped DEF DeliveryInv
<1> DEFINE flow == [outbound[id] EXCEPT !.sentAt = connection, !.retryCount = @ + 1]
<1>6. /\ flow \in OutboundFlows /\ flow # Flows!NoFlow
      /\ flow.packet = outbound[id].packet /\ flow.type = outbound[id].type
      /\ flow.sentAt = connection /\ flow.retryCount = outbound[id].retryCount + 1
      /\ flow.type = "qos2-outbound" => flow.state = outbound[id].state
  BY <1>3, <1>5, RetriedFlow
<1>7. Stamped(flow)
  BY <1>3, <1>5, <1>6, FlowShapes DEF Stamped
<1>8. outbound' = [outbound EXCEPT ![id] = flow] /\ inbound' = inbound
  BY <1>1, <1>3 DEF Flows!IncrementRetry, DeliveryInv, IInv, MemoryMatches, IsFlowMap
<1> HIDE DEF flow
<1>9. SetsFlow(id, flow)
  BY <1>1, <1>2, <1>3, <1>6, <1>7, <1>8 DEF SetsFlow, ServerSends
<1>10. inUse' \subseteq Ids /\ nextId' = nextId
  BY <1>1 DEF DeliveryInv, IInv, MemoryMatches, idVars
<1>11. /\ saved'.outbound[id] = flow /\ saved'.inbound[id] = saved.inbound[id]
       /\ FlowsTyped' /\ HistoryTyped'
  <2>1. saved'.outbound = outbound' /\ outbound'[id] = flow
    BY <1>3, <1>4, <1>8, <1>9, <1>10, SettingTypes, MemoryTyped DEF DeliveryInv
  <2> QED
    BY <2>1, <1>4, <1>9, <1>10, SettingTypes
<1>12. Exchange(id)'
  <2>1. Exchange(id)
    BY <1>3 DEF DeliveryInv, Storage, Exchanges
  <2> QED
    BY <1>2, <1>3, <1>5, <1>6, <1>11, <2>1 DEF Exchange
<1>13. Storage' /\ Settled \subseteq Settled'
  BY <1>2, <1>4, <1>9, <1>10, <1>12, SettingStorage
<1>14. id \notin IdsOf(toClient) /\ id \notin IdsOf(toServer)
  BY <1>3, <1>5, FlowShapes, NotInFlight
<1> DEFINE packet == IF Flows!AwaitsPubcomp(id) THEN Packet("PUBREL", id)
                     ELSE Message(id, outbound[id].packet)
<1>15. /\ packet \in PacketsToClient /\ packet.packetId = id
       /\ packet.type = "PUBLISH" => /\ packet.message = flow.packet
                                     /\ ~(flow.type = "qos2-outbound"
                                          /\ flow.state = "awaiting-pubcomp")
       /\ packet.type = "PUBREL" => /\ flow.type = "qos2-outbound"
                                    /\ flow.state = "awaiting-pubcomp"
  BY <1>3, <1>4, <1>5, <1>6, FlowShapes
     DEF Message, Packet, PacketsToClient, Flows!AwaitsPubcomp
<1>16. toClient' = Append(toClient, packet)
  BY <1>1 DEF ServerSends
<1> HIDE DEF packet
<1>17. WireTyped' /\ InFlight'
  BY <1>2, <1>4, <1>6, <1>9, <1>10, <1>14, <1>15, <1>16, SettingInFlight
<1>18. LinkTyped'
  BY <1>2 DEF DeliveryInv, Types, LinkTyped, link
<1>19. Types'
  BY <1>10, <1>11, <1>17, <1>18 DEF Types, DeliveryInv
<1> QED
  BY <1>2, <1>13, <1>17, <1>19, SettlingIsPromised DEF Keeps

-----------------------------------------------------------------------------
(* The server reads. *)

\* What a read finds at the head of a queue fits.
LEMMA HeadFits ==
    ASSUME DeliveryInv
    PROVE  /\ toServer # <<>> => /\ FitsToServer(Head(toServer))
                                 /\ Head(toServer) \in PacketsToServer
                                 /\ Head(toServer).packetId \in Ids
                                 /\ Head(toServer).packetId \in FlowIds
                                 /\ Head(toServer).packetId \in IdsOf(toServer)
           /\ toClient # <<>> => /\ FitsToClient(Head(toClient))
                                 /\ Head(toClient) \in PacketsToClient
                                 /\ Head(toClient).packetId \in Ids
                                 /\ Head(toClient).packetId \in FlowIds
                                 /\ Head(toClient).packetId \in IdsOf(toClient)
<1>1. toServer \in Seq(PacketsToServer) /\ toClient \in Seq(PacketsToClient)
  BY DEF DeliveryInv, Types, WireTyped
<1>2. ASSUME toServer # <<>>
      PROVE  /\ FitsToServer(Head(toServer)) /\ Head(toServer) \in PacketsToServer
             /\ Head(toServer).packetId \in Ids /\ Head(toServer).packetId \in FlowIds
             /\ Head(toServer).packetId \in IdsOf(toServer)
  <2>1. /\ Head(toServer) = toServer[1] /\ 1 \in 1..Len(toServer)
        /\ Head(toServer) \in PacketsToServer
    BY <1>1, <1>2
  <2>2. FitsToServer(toServer[1])
    BY <2>1 DEF DeliveryInv, InFlight
  <2>3. FitsToServer(Head(toServer))
    BY <2>1, <2>2
  <2>4. Head(toServer).packetId \in Ids
    BY <2>1 DEF PacketsToServer
  <2>5. Head(toServer).packetId \in IdsOf(toServer)
    BY <2>1 DEF IdsOf
  <2> QED
    BY <2>1, <2>3, <2>4, <2>5, IdsAreFlowIds
<1>3. ASSUME toClient # <<>>
      PROVE  /\ FitsToClient(Head(toClient)) /\ Head(toClient) \in PacketsToClient
             /\ Head(toClient).packetId \in Ids /\ Head(toClient).packetId \in FlowIds
             /\ Head(toClient).packetId \in IdsOf(toClient)
  <2>1. /\ Head(toClient) = toClient[1] /\ 1 \in 1..Len(toClient)
        /\ Head(toClient) \in PacketsToClient
    BY <1>1, <1>3
  <2>2. FitsToClient(toClient[1])
    BY <2>1 DEF DeliveryInv, InFlight
  <2>3. FitsToClient(Head(toClient))
    BY <2>1, <2>2
  <2>4. Head(toClient).packetId \in Ids
    BY <2>1 DEF PacketsToClient
  <2>5. Head(toClient).packetId \in IdsOf(toClient)
    BY <2>1 DEF IdsOf
  <2> QED
    BY <2>1, <2>3, <2>4, <2>5, IdsAreFlowIds
<1> QED
  BY <1>2, <1>3

\* Where the server is up, a flow it has is the one in storage.
LEMMA FlowIsSaved ==
    ASSUME DeliveryInv, up, NEW id \in FlowIds, outbound[id] # Flows!NoFlow
    PROVE  /\ outbound[id] = saved.outbound[id] /\ outbound[id] \in OutboundFlows
           /\ id \in SavedFlows /\ Exchange(id) /\ inbound = saved.inbound
           /\ saved.outbound[id].packet \in published
<1>1. outbound[id] = saved.outbound[id] /\ inbound = saved.inbound
  BY DEF DeliveryInv, Storage, ServerInStep, ClientInStep, Ended, Types, LinkTyped
<1>2. id \in SavedFlows /\ Exchange(id) /\ saved.outbound[id].packet \in published
  BY <1>1 DEF DeliveryInv, Storage, Exchanges, SavedFlows, Books, Responsible
<1> QED
  BY <1>1, <1>2, MemoryTyped DEF DeliveryInv

\* An answer that ends a flow.
LEMMA EndKeeps ==
    ASSUME DeliveryInv, up, toServer # <<>>, NEW id, id = Head(toServer).packetId,
           toServer' = Tail(toServer), toClient' = toClient, saved' = saved,
           UNCHANGED <<history, link, nextId>>, Flows!EndOutbound(id),
           saved.inbound[id] = Flows!NoFlow, delivered[saved.outbound[id].packet] > 0
    PROVE  Keeps
<1>1. /\ FitsToServer(Head(toServer)) /\ id \in Ids /\ id \in FlowIds /\ id \in IdsOf(toServer)
  BY HeadFits
<1>2. outbound[id] # Flows!NoFlow
  BY <1>1 DEF FitsToServer
<1>3. outbound[id] = saved.outbound[id]
  BY <1>1, <1>2, FlowIsSaved
<1>4. /\ outbound \in [FlowIds -> OutboundFlows] /\ inbound' = inbound
      /\ outbound' = [outbound EXCEPT ![id] = Flows!NoFlow]
      /\ published' = published /\ delivered' = delivered
      /\ up' = up /\ connection' = connection /\ crashed' = crashed /\ nextId' = nextId
  BY MemoryTyped DEF DeliveryInv, Flows!EndOutbound, history, link
<1>5. /\ outbound'[id] = Flows!NoFlow
      /\ \A other \in FlowIds \ {id} : outbound'[other] = outbound[other]
  BY <1>1, <1>4
<1>6. Ended(id)'
  BY <1>2, <1>3, <1>4, <1>5 DEF Ended
<1>7. crashed = {} /\ \A other \in FlowIds :
                         outbound[other] = saved.outbound[other] \/ Ended(other)
  BY DEF DeliveryInv, Types, LinkTyped, Storage, ServerInStep
<1>8. ServerInStep'
  BY <1>4, <1>5, <1>6, <1>7 DEF ServerInStep, Ended
<1>9. ClientInStep' /\ Exchanges' /\ Books'
  BY <1>4 DEF DeliveryInv, Storage, ClientInStep, Exchanges, Exchange, Books, Responsible,
              Stamped, OneFlowEach, ForgottenDelivered, NothingUnpublished, SavedFlows
<1>10. toServer \in Seq(PacketsToServer) /\ Distinct(toServer)
  BY DEF DeliveryInv, Types, WireTyped, InFlight
<1>11. IsShorter(PacketsToServer, toServer, toServer', Head(toServer).packetId)
  BY <1>10, TailOfQueue, Zenon
<1>12. Grows
  BY <1>4 DEF Grows, DeliveryInv, Types, HistoryTyped
<1>13. id \notin IdsOf(toClient)
  BY <1>1 DEF DeliveryInv, InFlight
<1>14. ASSUME NEW i \in 1..Len(toClient') PROVE FitsToClient(toClient[i])'
  <2>1. toClient'[i] = toClient[i] /\ toClient[i].packetId # id /\ i \in 1..Len(toClient)
    BY <1>13 DEF IdsOf
  <2> QED
    BY <1>4, <1>5, <1>12, <2>1, OthersFit
<1>15. ASSUME NEW i \in 1..Len(toServer') PROVE FitsToServer(toServer[i])'
  <2>1. \E j \in 1..Len(toServer) : toServer'[i] = toServer[j] /\ toServer[j].packetId # id
    BY <1>11 DEF IsShorter
  <2> QED
    BY <1>4, <1>5, <1>12, <2>1, OthersFit, ZenonT(60)
<1>16. InFlight'
  <2>1. Distinct(toServer)' /\ IdsOf(toServer)' \subseteq IdsOf(toServer)
    BY <1>11 DEF IsShorter, Distinct, IdsOf
  <2>2. Distinct(toClient)' /\ IdsOf(toClient)' = IdsOf(toClient)
    BY DEF DeliveryInv, InFlight, Distinct, IdsOf
  <2>3. IdsOf(toClient)' \cap IdsOf(toServer)' = {}
    BY <2>1, <2>2 DEF DeliveryInv, InFlight
  <2> QED
    BY <1>14, <1>15, <2>1, <2>2, <2>3 DEF InFlight
<1>17. Types'
  BY <1>4, <1>11
     DEF Types, DeliveryInv, FlowsTyped, WireTyped, LinkTyped, HistoryTyped, IsShorter
<1>18. Settled \subseteq Settled'
  BY <1>4 DEF Settled
<1> QED
  BY <1>4, <1>8, <1>9, <1>16, <1>17, <1>18, SettlingIsPromised DEF Keeps, Storage

LEMMA ReadPubackKeeps ==
    ASSUME DeliveryInv, ReadPuback
    PROVE  Keeps
<1> DEFINE id == Head(toServer).packetId
<1>1. /\ up /\ toServer # <<>> /\ Head(toServer).type = "PUBACK" /\ toServer' = Tail(toServer)
      /\ UNCHANGED <<saved, toClient, link, history>>
  BY DEF ReadPuback, ServerReads
<1>2. FitsToServer(Head(toServer)) /\ id \in FlowIds
  BY <1>1, HeadFits
<1>3. /\ outbound[id] # Flows!NoFlow /\ Flows!AwaitsPuback(id)
      /\ delivered[outbound[id].packet] > 0
  BY <1>1, <1>2 DEF FitsToServer, Flows!AwaitsPuback
<1>4. outbound[id] = saved.outbound[id] /\ Exchange(id)
  BY <1>1, <1>2, <1>3, FlowIsSaved
<1>5. saved.inbound[id] = Flows!NoFlow
  BY <1>3, <1>4 DEF Exchange, Flows!AwaitsPuback
<1>6. Flows!EndOutbound(id) /\ nextId' = nextId
  BY <1>3 DEF ReadPuback, Flows!HandlePuback, PacketIds!Release
<1> HIDE DEF id
<1>7. id = Head(toServer).packetId
  BY DEF id
<1> QED
  BY <1>1, <1>3, <1>4, <1>5, <1>6, <1>7, EndKeeps

LEMMA ReadPubcompKeeps ==
    ASSUME DeliveryInv, ReadPubcomp
    PROVE  Keeps
<1> DEFINE id == Head(toServer).packetId
<1>1. /\ up /\ toServer # <<>> /\ Head(toServer).type = "PUBCOMP" /\ toServer' = Tail(toServer)
      /\ UNCHANGED <<saved, toClient, link, history>>
  BY DEF ReadPubcomp, ServerReads
<1>2. FitsToServer(Head(toServer)) /\ id \in FlowIds
  BY <1>1, HeadFits
<1>3. /\ outbound[id] # Flows!NoFlow /\ Flows!AwaitsPubcomp(id)
      /\ inbound[id] = Flows!NoFlow
  BY <1>1, <1>2 DEF FitsToServer
<1>4. outbound[id] = saved.outbound[id] /\ Exchange(id) /\ inbound = saved.inbound
  BY <1>1, <1>2, <1>3, FlowIsSaved
<1>5. delivered[saved.outbound[id].packet] > 0
  BY <1>3, <1>4 DEF Exchange, Flows!AwaitsPubcomp
<1>6. Flows!EndOutbound(id) /\ nextId' = nextId
  BY <1>3 DEF ReadPubcomp, Flows!HandlePubcomp, PacketIds!Release
<1> HIDE DEF id
<1>7. id = Head(toServer).packetId
  BY DEF id
<1> QED
  BY <1>1, <1>3, <1>4, <1>5, <1>6, <1>7, EndKeeps

LEMMA ReadPubrecKeeps ==
    ASSUME DeliveryInv, ReadPubrec
    PROVE  Keeps
<1>1. PICK id : id = Head(toServer).packetId
  OBVIOUS
<1>2. /\ up /\ toServer # <<>> /\ Head(toServer).type = "PUBREC" /\ toServer' = Tail(toServer)
      /\ UNCHANGED <<link, history>>
  BY DEF ReadPubrec, ServerReads
<1>3. FitsToServer(Head(toServer)) /\ id \in FlowIds /\ id \in Ids /\ id \in IdsOf(toServer)
  BY <1>1, <1>2, HeadFits
<1>4. /\ outbound[id] # Flows!NoFlow /\ Flows!AwaitsPubrec(id)
      /\ inbound[id] = Flows!InboundFlow(outbound[id].packet)
  BY <1>1, <1>2, <1>3 DEF FitsToServer
<1>5. /\ outbound[id] = saved.outbound[id] /\ outbound[id] \in OutboundFlows
      /\ Exchange(id) /\ inbound = saved.inbound
  BY <1>2, <1>3, <1>4, FlowIsSaved
<1> DEFINE flow == Flows!QoS2Flow(outbound[id].packet, "awaiting-pubcomp", connection)
<1>6. connection \in Nat \ {0}
  BY SessionAssumption DEF DeliveryInv, Types, LinkTyped
<1>7. /\ flow \in OutboundFlows /\ flow # Flows!NoFlow /\ Stamped(flow)
      /\ flow.packet = outbound[id].packet /\ flow.sentAt = connection
      /\ flow.type = "qos2-outbound" /\ flow.state = "awaiting-pubcomp"
  BY <1>4, <1>5, <1>6, FlowShapes
     DEF OutboundFlows, Flows!QoS2Flow, Flows!NoFlow, Stamped, Flows!AwaitsPubrec
<1>8. outbound' = [outbound EXCEPT ![id] = flow] /\ inbound' = inbound
  BY <1>1, <1>4 DEF ReadPubrec, Flows!HandlePubrec
<1>9. ServerSends(Packet("PUBREL", id)) /\ UNCHANGED idVars
  BY <1>1, <1>4 DEF ReadPubrec
<1> HIDE DEF flow
<1>10. SetsFlow(id, flow)
  BY <1>2, <1>4, <1>7, <1>8, <1>9 DEF SetsFlow, ServerSends, history
<1>11. inUse' \subseteq Ids /\ nextId' = nextId
  BY <1>9 DEF DeliveryInv, IInv, MemoryMatches, idVars
<1>12. /\ saved'.outbound[id] = flow /\ saved'.inbound[id] = saved.inbound[id]
       /\ FlowsTyped' /\ HistoryTyped'
  <2>1. saved'.outbound = outbound' /\ outbound'[id] = flow
    BY <1>3, <1>8, <1>10, <1>11, SettingTypes, MemoryTyped DEF DeliveryInv
  <2> QED
    BY <2>1, <1>3, <1>10, <1>11, SettingTypes
<1>13. /\ delivered[outbound[id].packet] = 1
       /\ saved.inbound[id] = Flows!InboundFlow(outbound[id].packet)
  BY <1>4, <1>5, FlowShapes DEF Exchange, Flows!AwaitsPubrec
<1>14. Exchange(id)'
  BY <1>2, <1>7, <1>12, <1>13 DEF Exchange, history
<1>15. Storage' /\ Settled \subseteq Settled'
  BY <1>2, <1>3, <1>10, <1>11, <1>14, SettingStorage
<1>16. id \notin IdsOf(toClient)
  BY <1>3 DEF DeliveryInv, InFlight
<1> DEFINE packet == Packet("PUBREL", id)
<1>17. packet \in PacketsToClient /\ packet.packetId = id /\ packet.type = "PUBREL"
  BY <1>3 DEF Packet, PacketsToClient
<1>18. toClient' = Append(toClient, packet)
  BY <1>9 DEF ServerSends
<1> HIDE DEF packet
<1>19. WireTyped' /\ InFlight'
  BY <1>1, <1>2, <1>3, <1>7, <1>10, <1>11, <1>16, <1>17, <1>18, SettingInFlight
<1>20. LinkTyped'
  BY <1>2 DEF DeliveryInv, Types, LinkTyped, link
<1>21. Types'
  BY <1>11, <1>12, <1>19, <1>20 DEF Types, DeliveryInv
<1> QED
  BY <1>2, <1>15, <1>19, <1>21, SettlingIsPromised DEF Keeps, history

-----------------------------------------------------------------------------
(* The client reads, answers and saves. *)

\* The client sets the entry of the id it reads, and hands the message of the flow over or not.
Answers(id, held, packet) ==
    /\ toClient # <<>> /\ id = Head(toClient).packetId /\ toClient' = Tail(toClient)
    /\ packet \in PacketsToServer /\ packet.packetId = id /\ ClientSends(packet)
    /\ held \in InboundFlows /\ inbound' = [inbound EXCEPT ![id] = held]
    /\ UNCHANGED <<outbound, idVars, link, published>>
    /\ \/ delivered' = delivered
       \/ delivered' = [delivered EXCEPT ![outbound[id].packet] = @ + 1]

\* The flow the client answers to.
LEMMA AnswersToFlow ==
    ASSUME DeliveryInv, up, toClient # <<>>, NEW id, id = Head(toClient).packetId
    PROVE  /\ id \in FlowIds /\ id \in Ids /\ FitsToClient(Head(toClient))
           /\ outbound[id] # Flows!NoFlow /\ outbound[id] = saved.outbound[id]
           /\ outbound[id] \in OutboundFlows /\ id \in SavedFlows
           /\ Exchange(id) /\ inbound = saved.inbound
           /\ outbound[id].packet \in published /\ outbound[id].packet \in Messages
           /\ outbound[id].sentAt = connection
<1>1. id \in FlowIds /\ id \in Ids /\ FitsToClient(Head(toClient))
  BY HeadFits
<1>2. outbound[id] # Flows!NoFlow /\ outbound[id].sentAt = connection
  BY <1>1 DEF FitsToClient
<1> QED
  BY <1>1, <1>2, FlowIsSaved, FlowShapes

LEMMA AnswerTypes ==
    ASSUME DeliveryInv, up, NEW id, NEW held, NEW packet, Answers(id, held, packet)
    PROVE  /\ FlowsTyped' /\ HistoryTyped' /\ LinkTyped' /\ nextId' \in Ids /\ Grows
           /\ inbound'[id] = held
           /\ \A other \in FlowIds \ {id} : inbound'[other] = inbound[other]
           /\ saved'.inbound = inbound' /\ saved'.outbound = saved.outbound
           /\ outbound' = outbound /\ connection' = connection
<1>1. id \in FlowIds /\ inbound = saved.inbound /\ outbound[id].packet \in Messages
  BY AnswersToFlow DEF Answers
<1>2. inbound \in [FlowIds -> InboundFlows]
  BY DEF DeliveryInv, Types, FlowsTyped
<1>3. /\ inbound' \in [FlowIds -> InboundFlows] /\ inbound'[id] = held
      /\ \A other \in FlowIds \ {id} : inbound'[other] = inbound[other]
  BY <1>1, <1>2 DEF Answers
<1>4. /\ saved' \in [ids : SUBSET Ids, outbound : [FlowIds -> OutboundFlows],
                     inbound : [FlowIds -> InboundFlows]]
      /\ saved'.inbound = inbound' /\ saved'.outbound = saved.outbound
  BY <1>3 DEF Answers, ClientSends, DeliveryInv, Types, FlowsTyped
<1>5. delivered \in [Messages -> Nat]
  BY DEF DeliveryInv, Types, HistoryTyped
<1>6. Grows
  BY <1>1, <1>5 DEF Answers, Grows
<1>7. HistoryTyped'
  BY <1>6 DEF Answers, Grows, HistoryTyped, DeliveryInv, Types
<1>8. LinkTyped'
  <2>1. up' /\ crashed' = crashed /\ connection' = connection
    BY DEF Answers, link
  <2> QED
    BY <2>1 DEF DeliveryInv, Types, LinkTyped
<1> QED
  BY <1>3, <1>4, <1>6, <1>7, <1>8 DEF Answers, FlowsTyped, idVars, link, DeliveryInv, Types

LEMMA AnswerStorage ==
    ASSUME DeliveryInv, up, NEW id, NEW held, NEW packet, Answers(id, held, packet),
           Exchange(id)'
    PROVE  Storage' /\ Settled' = Settled
<1>1. /\ id \in FlowIds /\ outbound[id] # Flows!NoFlow /\ id \in SavedFlows
      /\ outbound[id] = saved.outbound[id] /\ inbound = saved.inbound
      /\ outbound[id].packet \in published
  BY AnswersToFlow DEF Answers
<1>2. /\ Grows /\ saved'.inbound = inbound' /\ saved'.outbound = saved.outbound
      /\ \A other \in FlowIds \ {id} : inbound'[other] = inbound[other]
      /\ outbound' = outbound /\ connection' = connection
      /\ published' = published /\ crashed' = crashed /\ crashed = {}
  BY AnswerTypes DEF Answers, link, DeliveryInv, Types, LinkTyped
<1>3. \A x \in FlowIds : outbound[x] = saved.outbound[x] \/ Ended(x)
  BY <1>2 DEF DeliveryInv, Storage, ServerInStep
<1>4. SavedFlows' = SavedFlows
  BY <1>2 DEF SavedFlows
<1>5. Responsible /\ OneFlowEach /\ ForgottenDelivered /\ NothingUnpublished
  BY DEF DeliveryInv, Storage, Books
<1>6. \A x \in SavedFlows : saved.outbound[x].packet \in Messages
  BY <1>5 DEF Responsible, DeliveryInv, Types, HistoryTyped
<1>7. ASSUME NEW x \in FlowIds, Ended(x) PROVE Ended(x)'
  <2>1. x # id /\ x \in SavedFlows
    BY <1>1, <1>7 DEF Ended, SavedFlows
  <2>2. /\ saved.outbound[x].packet \in Messages
        /\ delivered[saved.outbound[x].packet] \in Nat
        /\ delivered'[saved.outbound[x].packet] \in Nat
        /\ delivered'[saved.outbound[x].packet] >= delivered[saved.outbound[x].packet]
    BY <1>2, <1>6, <2>1 DEF Grows, DeliveryInv, Types, HistoryTyped
  <2> QED
    BY <1>1, <1>2, <1>7, <2>1, <2>2 DEF Ended
<1>8. ServerInStep' /\ ClientInStep'
  BY <1>2, <1>3, <1>7 DEF ServerInStep, ClientInStep
<1>9. ASSUME NEW x \in FlowIds, x # id PROVE Exchange(x)'
  <2>1. Exchange(x)
    BY DEF DeliveryInv, Storage, Exchanges
  <2>2. saved'.outbound[x] = saved.outbound[x] /\ saved'.inbound[x] = saved.inbound[x]
    BY <1>1, <1>2, <1>9
  <2>3. x \in SavedFlows => delivered'[saved.outbound[x].packet]
                            = delivered[saved.outbound[x].packet]
    <3>1. x \in SavedFlows => saved.outbound[x].packet # outbound[id].packet
      BY <1>1, <1>5, <1>9 DEF OneFlowEach
    <3> QED
      BY <1>6, <3>1 DEF Answers, DeliveryInv, Types, HistoryTyped
  <2>4. CASE x \notin SavedFlows
    BY <2>1, <2>2, <2>4, FlowShapes DEF Exchange, SavedFlows
  <2>5. CASE x \in SavedFlows
    BY <2>1, <2>2, <2>3, <2>5 DEF Exchange
  <2> QED
    BY <2>4, <2>5
<1>10. Exchanges'
  BY <1>9 DEF Exchanges
<1>11. Responsible' /\ OneFlowEach'
  BY <1>2, <1>4, <1>5 DEF Responsible, OneFlowEach, Stamped
<1>12. ForgottenDelivered'
  <2> SUFFICES ASSUME NEW m \in published
               PROVE  \/ delivered'[m] > 0
                      \/ \E x \in SavedFlows : saved.outbound[x].packet = m
    BY <1>2, <1>4 DEF ForgottenDelivered
  <2>1. m \in Messages /\ delivered[m] \in Nat
    BY DEF DeliveryInv, Types, HistoryTyped
  <2> QED
    BY <1>2, <1>5, <2>1 DEF ForgottenDelivered, Grows
<1>13. NothingUnpublished'
  BY <1>1, <1>2, <1>5 DEF NothingUnpublished, Answers, DeliveryInv, Types, HistoryTyped
<1>14. Settled' = Settled
  BY <1>2 DEF Settled
<1> QED
  BY <1>8, <1>10, <1>11, <1>12, <1>13, <1>14 DEF Storage, Books

LEMMA AnswerInFlight ==
    ASSUME DeliveryInv, up, NEW id, NEW held, NEW packet, Answers(id, held, packet),
           FitsToServer(packet)'
    PROVE  WireTyped' /\ InFlight'
<1>1. /\ toClient \in Seq(PacketsToClient) /\ toServer \in Seq(PacketsToServer)
      /\ Distinct(toClient) /\ Distinct(toServer) /\ IdsOf(toClient) \cap IdsOf(toServer) = {}
  BY DEF DeliveryInv, Types, WireTyped, InFlight
<1>2. /\ toClient # <<>> /\ toClient' = Tail(toClient) /\ id = Head(toClient).packetId
      /\ packet \in PacketsToServer /\ packet.packetId = id
      /\ toServer' = Append(toServer, packet)
  BY DEF Answers, ClientSends
<1>3. IsShorter(PacketsToClient, toClient, toClient', Head(toClient).packetId)
  BY <1>1, <1>2, TailOfQueue, Zenon
<1>4. id \in IdsOf(toClient) /\ id \notin IdsOf(toServer)
  BY <1>1, <1>2, <1>3 DEF IsShorter
<1>5. IsLonger(PacketsToServer, toServer, toServer', packet)
  BY <1>1, <1>2, <1>4, AppendToQueue
<1>6. /\ Grows /\ connection' = connection
      /\ \A other \in FlowIds \ {id} : /\ outbound'[other] = outbound[other]
                                       /\ inbound'[other] = inbound[other]
  BY AnswerTypes
<1>7. ASSUME NEW i \in 1..Len(toClient') PROVE FitsToClient(toClient[i])'
  <2>1. \E j \in 1..Len(toClient) : toClient'[i] = toClient[j] /\ toClient[j].packetId # id
    BY <1>2, <1>3 DEF IsShorter
  <2> QED
    BY <1>6, <2>1, OthersFit
<1>8. ASSUME NEW i \in 1..Len(toServer') PROVE FitsToServer(toServer[i])'
  <2>1. CASE toServer'[i] = packet
    BY <2>1 DEF FitsToServer
  <2>2. CASE \E j \in 1..Len(toServer) : toServer'[i] = toServer[j] /\ toServer[j].packetId # id
    BY <1>6, <2>2, OthersFit
  <2> QED
    BY <1>2, <1>5, <2>1, <2>2 DEF IsLonger
<1>9. Distinct(toServer)' /\ IdsOf(toServer)' = IdsOf(toServer) \cup {id}
  BY <1>2, <1>5 DEF IsLonger, Distinct, IdsOf
<1>10. Distinct(toClient)' /\ IdsOf(toClient)' = IdsOf(toClient) \ {id}
  BY <1>2, <1>3 DEF IsShorter, Distinct, IdsOf
<1>11. IdsOf(toClient)' \cap IdsOf(toServer)' = {}
  BY <1>1, <1>9, <1>10
<1>12. WireTyped'
  BY <1>3, <1>5 DEF WireTyped, IsLonger, IsShorter
<1> QED
  BY <1>7, <1>8, <1>9, <1>10, <1>11, <1>12 DEF InFlight

LEMMA ReadPubrelKeeps ==
    ASSUME DeliveryInv, ReadPubrel
    PROVE  Keeps
<1>1. PICK id : id = Head(toClient).packetId
  OBVIOUS
<1>2. /\ up /\ toClient # <<>> /\ Head(toClient).type = "PUBREL" /\ toClient' = Tail(toClient)
      /\ UNCHANGED <<idVars, link, history>>
      /\ Flows!HandlePubrel(id) /\ ClientSends(Packet("PUBCOMP", id))
  BY <1>1 DEF ReadPubrel, ClientReads
<1> DEFINE packet == Packet("PUBCOMP", id)
<1>3. /\ id \in FlowIds /\ id \in Ids /\ FitsToClient(Head(toClient)) /\ Exchange(id)
      /\ outbound[id] # Flows!NoFlow /\ outbound[id] = saved.outbound[id]
      /\ outbound[id].sentAt = connection
  BY <1>1, <1>2, AnswersToFlow
<1>4. Flows!AwaitsPubcomp(id)
  BY <1>1, <1>2, <1>3 DEF FitsToClient
<1>5. packet \in PacketsToServer /\ packet.packetId = id /\ packet.type = "PUBCOMP"
  BY <1>3 DEF Packet, PacketsToServer
<1>6. ClientSends(packet)
  BY <1>2
<1> HIDE DEF packet
<1>7. Answers(id, Flows!NoFlow, packet)
  BY <1>1, <1>2, <1>5, <1>6, FlowShapes DEF Answers, Flows!HandlePubrel, history
<1>8. /\ FlowsTyped' /\ HistoryTyped' /\ LinkTyped' /\ nextId' \in Ids
      /\ inbound'[id] = Flows!NoFlow /\ outbound' = outbound /\ connection' = connection
      /\ saved'.inbound = inbound' /\ saved'.outbound = saved.outbound
  BY <1>2, <1>7, AnswerTypes
<1>9. Exchange(id)'
  BY <1>2, <1>3, <1>4, <1>8 DEF Exchange, Flows!AwaitsPubcomp, history
<1>10. FitsToServer(packet)'
  BY <1>3, <1>4, <1>5, <1>8 DEF FitsToServer, Flows!AwaitsPubcomp
<1>11. Storage' /\ Settled' = Settled
  BY <1>2, <1>7, <1>9, AnswerStorage
<1>12. WireTyped' /\ InFlight'
  BY <1>2, <1>7, <1>10, AnswerInFlight
<1>13. Types'
  BY <1>8, <1>12 DEF Types
<1> QED
  BY <1>2, <1>11, <1>12, <1>13, SettlingIsPromised DEF Keeps, history

LEMMA ReadPublishKeeps ==
    ASSUME DeliveryInv, ReadPublish
    PROVE  Keeps
<1>1. PICK id : id = Head(toClient).packetId
  OBVIOUS
<1>2. PICK m : m = outbound[id].packet
  OBVIOUS
<1>3. /\ up /\ toClient # <<>> /\ Head(toClient).type = "PUBLISH" /\ toClient' = Tail(toClient)
      /\ UNCHANGED <<idVars, link>>
  BY DEF ReadPublish, ClientReads
<1>4. /\ id \in FlowIds /\ id \in Ids /\ FitsToClient(Head(toClient)) /\ Exchange(id)
      /\ outbound[id] # Flows!NoFlow /\ outbound[id] = saved.outbound[id]
      /\ outbound[id] \in OutboundFlows /\ inbound = saved.inbound /\ id \in SavedFlows
      /\ outbound[id].sentAt = connection /\ m \in published /\ m \in Messages
  BY <1>1, <1>2, <1>3, AnswersToFlow
<1>5. Head(toClient).message = m /\ ~Flows!AwaitsPubcomp(id)
  BY <1>1, <1>2, <1>3, <1>4 DEF FitsToClient
<1>6. /\ delivered \in [Messages -> Nat] /\ inbound \in [FlowIds -> InboundFlows]
      /\ inbound[id] \in InboundFlows
  BY <1>4 DEF DeliveryInv, Types, HistoryTyped, FlowsTyped
<1>7. m \notin Settled
  BY <1>2, <1>4 DEF Settled, Flows!Live, SavedFlows, FlowIds
<1>8. ASSUME NEW held, NEW packet, Answers(id, held, packet), Exchange(id)',
             FitsToServer(packet)', delivered' = delivered
      PROVE  Keeps
  <2>1. /\ FlowsTyped' /\ HistoryTyped' /\ LinkTyped' /\ nextId' \in Ids
    BY <1>3, <1>8, AnswerTypes
  <2>2. Storage' /\ Settled' = Settled
    BY <1>3, <1>8, AnswerStorage
  <2>3. WireTyped' /\ InFlight'
    BY <1>3, <1>8, AnswerInFlight
  <2>4. Types' /\ published' = published
    BY <1>8, <2>1, <2>3 DEF Types, Answers
  <2> QED
    BY <1>8, <2>2, <2>3, <2>4, SettlingIsPromised DEF Keeps
<1>9. ASSUME NEW held, NEW packet, Answers(id, held, packet), Exchange(id)',
             FitsToServer(packet)', delivered' = [delivered EXCEPT ![m] = @ + 1],
             m \in QoS1Messages \/ delivered[m] = 0
      PROVE  Keeps
  <2>1. /\ FlowsTyped' /\ HistoryTyped' /\ LinkTyped' /\ nextId' \in Ids
    BY <1>3, <1>9, AnswerTypes
  <2>2. Storage' /\ Settled' = Settled
    BY <1>3, <1>9, AnswerStorage
  <2>3. WireTyped' /\ InFlight'
    BY <1>3, <1>9, AnswerInFlight
  <2>4. Types' /\ published' = published
    BY <1>9, <2>1, <2>3 DEF Types, Answers
  <2>5. Settled \subseteq {n \in Messages : delivered[n] > 0}
    BY DEF Settled, Flows!Live, DeliveryInv, Storage, Books, ForgottenDelivered, SavedFlows,
           FlowIds, Types, HistoryTyped
  <2>6. Promise!Next
    BY <1>4, <1>7, <1>9, <2>2, <2>4, <2>5 DEF Promise!Next, Promise!Settle, Promise!Deliver
  <2> QED
    BY <2>2, <2>3, <2>4, <2>6 DEF Keeps
<1>10. \/ /\ m \in QoS1Messages
          /\ Hand(m) /\ UNCHANGED flowVars /\ ClientSends(Packet("PUBACK", id))
       \/ /\ m \in QoS2Messages /\ ~Flows!HasInbound(id)
          /\ Hand(m) /\ Flows!StartQoS2Inbound(id, m) /\ ClientSends(Packet("PUBREC", id))
       \/ /\ m \in QoS2Messages /\ Flows!HasInbound(id)
          /\ UNCHANGED <<flowVars, history>> /\ ClientSends(Packet("PUBREC", id))
  BY <1>1, <1>5 DEF ReadPublish
<1>11. \A type \in {"PUBACK", "PUBREC"} :
          /\ Packet(type, id) \in PacketsToServer /\ Packet(type, id).packetId = id
          /\ Packet(type, id).type = type
  BY <1>4 DEF Packet, PacketsToServer
<1>12. QoS1Messages \cap QoS2Messages = {}
  BY SessionAssumption
<1>13. CASE /\ m \in QoS1Messages
            /\ Hand(m) /\ UNCHANGED flowVars /\ ClientSends(Packet("PUBACK", id))
  <2> DEFINE packet == Packet("PUBACK", id)
             held == inbound[id]
  <2>1. delivered' = [delivered EXCEPT ![m] = @ + 1] /\ published' = published
    BY <1>13 DEF Hand
  <2>2. outbound' = outbound /\ inbound' = inbound
    BY <1>13 DEF flowVars
  <2>3. /\ packet \in PacketsToServer /\ packet.packetId = id /\ packet.type = "PUBACK"
        /\ ClientSends(packet)
    BY <1>11, <1>13
  <2> HIDE DEF packet
  <2>4. inbound' = [inbound EXCEPT ![id] = held] /\ held \in InboundFlows
    BY <1>6, <2>2
  <2>5. held = inbound[id]
    OBVIOUS
  <2> HIDE DEF held
  <2>6. Answers(id, held, packet)
    BY <1>1, <1>2, <1>3, <2>1, <2>2, <2>3, <2>4 DEF Answers
  <2>7. /\ outbound' = outbound /\ connection' = connection
        /\ saved'.inbound = saved.inbound /\ saved'.outbound = saved.outbound
    BY <1>3, <1>4, <2>2, <2>6, AnswerTypes
  <2>8. outbound[id].type = "qos1-outbound"
    BY <1>2, <1>4, <1>12, <1>13, FlowShapes
  <2>9. saved.inbound[id] = Flows!NoFlow
    BY <1>4, <2>8 DEF Exchange
  <2>10. Exchange(id)'
    BY <1>4, <2>7, <2>8, <2>9 DEF Exchange
  <2>11. delivered'[m] > 0
    BY <1>4, <1>6, <2>1
  <2>12. FitsToServer(packet)'
    BY <1>2, <1>4, <2>3, <2>7, <2>8, <2>11 DEF FitsToServer
  <2> QED
    BY <1>9, <1>13, <2>1, <2>6, <2>10, <2>12
<1>14. CASE /\ m \in QoS2Messages /\ ~Flows!HasInbound(id)
            /\ Hand(m) /\ Flows!StartQoS2Inbound(id, m) /\ ClientSends(Packet("PUBREC", id))
  <2> DEFINE packet == Packet("PUBREC", id)
             held == Flows!InboundFlow(m)
  <2>1. delivered' = [delivered EXCEPT ![m] = @ + 1] /\ published' = published
    BY <1>14 DEF Hand
  <2>2. outbound' = outbound /\ inbound' = [inbound EXCEPT ![id] = held]
    BY <1>14 DEF Flows!StartQoS2Inbound
  <2>3. /\ packet \in PacketsToServer /\ packet.packetId = id /\ packet.type = "PUBREC"
        /\ ClientSends(packet)
    BY <1>11, <1>14
  <2> HIDE DEF packet
  <2>4. held \in InboundFlows /\ held = Flows!InboundFlow(m)
    BY <1>14, FlowShapes
  <2> HIDE DEF held
  <2>5. Answers(id, held, packet)
    BY <1>1, <1>2, <1>3, <2>1, <2>2, <2>3, <2>4 DEF Answers
  <2>6. /\ outbound' = outbound /\ connection' = connection /\ inbound'[id] = held
        /\ saved'.inbound = inbound' /\ saved'.outbound = saved.outbound
    BY <1>3, <2>5, AnswerTypes
  <2>7. /\ outbound[id].type = "qos2-outbound" /\ outbound[id].state = "awaiting-pubrec"
    BY <1>2, <1>4, <1>5, <1>12, <1>14, FlowShapes DEF Flows!AwaitsPubcomp
  <2>8. delivered[m] = 0
    BY <1>2, <1>4, <1>14, <2>7, FlowShapes DEF Exchange, Flows!HasInbound
  <2>9. delivered'[m] = 1
    BY <1>4, <1>6, <2>1, <2>8
  <2>10. Exchange(id)'
    BY <1>2, <1>4, <2>4, <2>6, <2>7, <2>9 DEF Exchange
  <2>11. FitsToServer(packet)'
    BY <1>2, <1>4, <2>3, <2>4, <2>6, <2>7 DEF FitsToServer, Flows!AwaitsPubrec
  <2> QED
    BY <1>9, <2>1, <2>5, <2>8, <2>10, <2>11
<1>15. CASE /\ m \in QoS2Messages /\ Flows!HasInbound(id)
            /\ UNCHANGED <<flowVars, history>> /\ ClientSends(Packet("PUBREC", id))
  <2> DEFINE packet == Packet("PUBREC", id)
             held == inbound[id]
  <2>1. outbound' = outbound /\ inbound' = inbound /\ delivered' = delivered
        /\ published' = published
    BY <1>15 DEF flowVars, history
  <2>2. /\ packet \in PacketsToServer /\ packet.packetId = id /\ packet.type = "PUBREC"
        /\ ClientSends(packet)
    BY <1>11, <1>15
  <2> HIDE DEF packet
  <2>3. inbound' = [inbound EXCEPT ![id] = held] /\ held \in InboundFlows
    BY <1>6, <2>1
  <2> HIDE DEF held
  <2>4. Answers(id, held, packet)
    BY <1>1, <1>3, <2>1, <2>2, <2>3 DEF Answers
  <2>5. /\ outbound' = outbound /\ connection' = connection
        /\ saved'.inbound = saved.inbound /\ saved'.outbound = saved.outbound
    BY <1>3, <1>4, <2>1, <2>4, AnswerTypes
  <2>6. /\ outbound[id].type = "qos2-outbound" /\ outbound[id].state = "awaiting-pubrec"
    BY <1>2, <1>4, <1>5, <1>12, <1>15, FlowShapes DEF Flows!AwaitsPubcomp
  <2>7. inbound[id] = Flows!InboundFlow(m)
    BY <1>2, <1>4, <1>15, <2>6, FlowShapes DEF Exchange, Flows!HasInbound
  <2>8. Exchange(id)'
    BY <1>4, <2>1, <2>5 DEF Exchange
  <2>9. FitsToServer(packet)'
    BY <1>2, <1>4, <2>1, <2>2, <2>5, <2>6, <2>7 DEF FitsToServer, Flows!AwaitsPubrec
  <2> QED
    BY <1>8, <2>1, <2>4, <2>8, <2>9
<1> QED
  BY <1>10, <1>13, <1>14, <1>15

-----------------------------------------------------------------------------
(* Breaks, crashes and restarts. *)

LEMMA EmptyQueues ==
    ASSUME toClient' = <<>>, toServer' = <<>>
    PROVE  WireTyped' /\ InFlight'
  BY DEF WireTyped, InFlight, Distinct, IdsOf

\* Storage and history stand still, and a connection has gone by or not.
LEMMA StorageStands ==
    ASSUME DeliveryInv, saved' = saved, UNCHANGED history, connection' \in {connection, connection + 1}
    PROVE  /\ Exchanges' /\ Books' /\ HistoryTyped' /\ Settled' = Settled
           /\ saved' \in [ids : SUBSET Ids, outbound : [FlowIds -> OutboundFlows],
                          inbound : [FlowIds -> InboundFlows]]
<1>1. published' = published /\ delivered' = delivered
  BY DEF history
<1>2. Exchanges' /\ HistoryTyped' /\ Settled' = Settled
  BY <1>1 DEF DeliveryInv, Storage, Exchanges, Exchange, Types, HistoryTyped, Settled
<1>3. connection \in Nat
  BY SessionAssumption DEF DeliveryInv, Types, LinkTyped
<1>4. SavedFlows' = SavedFlows
  BY DEF SavedFlows
<1>5. Responsible'
  <2> SUFFICES ASSUME NEW id \in SavedFlows
               PROVE  saved.outbound[id].packet \in published /\ Stamped(saved.outbound[id])'
    BY <1>1, <1>4 DEF Responsible, Stamped
  <2>1. saved.outbound[id].packet \in published /\ Stamped(saved.outbound[id])
    BY DEF DeliveryInv, Storage, Books, Responsible
  <2> QED
    BY <1>3, <2>1 DEF Stamped
<1>6. OneFlowEach' /\ ForgottenDelivered' /\ NothingUnpublished'
  BY <1>1, <1>4 DEF DeliveryInv, Storage, Books, OneFlowEach, ForgottenDelivered,
                    NothingUnpublished
<1> QED
  BY <1>2, <1>5, <1>6 DEF Books, DeliveryInv, Types, FlowsTyped

LEMMA NoFlowsTyped == NoFlows \in [FlowIds -> InboundFlows]
  BY DEF NoFlows, FlowIds, InboundFlows

LEMMA BreakKeeps ==
    ASSUME DeliveryInv, Break
    PROVE  Keeps
<1>1. PICK down \in SUBSET Sides :
         /\ crashed' = down
         /\ IF "server" \in down THEN PacketIds!ResetIds /\ outbound' = NoFlows
            ELSE UNCHANGED <<idVars, outbound>>
         /\ inbound' = IF "client" \in down THEN NoFlows ELSE inbound
  BY DEF Break
<1>2. /\ up /\ up' = FALSE /\ toClient' = <<>> /\ toServer' = <<>> /\ saved' = saved
      /\ connection' = connection /\ connection < MaxConnections /\ UNCHANGED history
  BY DEF Break
<1>3. crashed = {}
  BY <1>2 DEF DeliveryInv, Types, LinkTyped
<1>4. /\ Exchanges' /\ Books' /\ HistoryTyped' /\ Settled' = Settled
      /\ saved' \in [ids : SUBSET Ids, outbound : [FlowIds -> OutboundFlows],
                     inbound : [FlowIds -> InboundFlows]]
  BY <1>2, StorageStands
<1>5. ServerInStep'
  BY <1>1, <1>2, <1>3 DEF ServerInStep, Ended, DeliveryInv, Storage, history
<1>6. ClientInStep' /\ inbound' \in [FlowIds -> InboundFlows]
  BY <1>1, <1>2, <1>3, NoFlowsTyped DEF ClientInStep, DeliveryInv, Storage, Types, FlowsTyped
<1>7. WireTyped' /\ InFlight'
  BY <1>2, EmptyQueues
<1>8. nextId' \in Ids
  BY <1>1, SessionAssumption
     DEF PacketIds!ResetIds, PacketIds!MinPacketId, Ids, PacketIds!Ids, idVars,
         DeliveryInv, Types
<1>9. LinkTyped'
  BY <1>1, <1>2 DEF LinkTyped, DeliveryInv, Types
<1>10. Types' /\ Storage'
  BY <1>4, <1>5, <1>6, <1>7, <1>8, <1>9 DEF Types, FlowsTyped, Storage
<1> QED
  BY <1>2, <1>4, <1>7, <1>10, SettlingIsPromised DEF Keeps, history

LEMMA RestartServerKeeps ==
    ASSUME DeliveryInv, RestartServer
    PROVE  Keeps
<1>1. /\ "server" \in crashed /\ crashed' = crashed \ {"server"} /\ saved' = saved
      /\ UNCHANGED <<wire, up, connection, history>>
      /\ outbound' = [id \in FlowIds |-> IF id \in Flows!Live(saved.outbound)
                                         THEN saved.outbound[id] ELSE outbound[id]]
      /\ inbound' = [id \in FlowIds |-> IF id \in Flows!Live(NoFlows)
                                        THEN NoFlows[id] ELSE inbound[id]]
      /\ nextId' = nextId
  BY DEF RestartServer, Flows!RestoreFlows, PacketIds!Restore, FlowIds
<1>2. ~up /\ toClient = <<>> /\ toServer = <<>> /\ outbound = NoFlows
  BY <1>1 DEF DeliveryInv, Types, LinkTyped, Storage, ServerInStep
<1>3. inbound' = inbound
  BY <1>1, NoFlowsIsAMap DEF DeliveryInv, Types, FlowsTyped
<1>4. \A id \in FlowIds : outbound'[id] = saved.outbound[id]
  BY <1>1, <1>2 DEF Flows!Live, NoFlows, FlowIds
<1>5. ServerInStep'
  BY <1>1, <1>4 DEF ServerInStep
<1>6. ClientInStep'
  BY <1>1, <1>3 DEF ClientInStep, DeliveryInv, Storage
<1>7. /\ Exchanges' /\ Books' /\ HistoryTyped' /\ Settled' = Settled
      /\ saved' \in [ids : SUBSET Ids, outbound : [FlowIds -> OutboundFlows],
                     inbound : [FlowIds -> InboundFlows]]
  BY <1>1, StorageStands
<1>8. WireTyped' /\ InFlight'
  BY <1>1, <1>2, EmptyQueues DEF wire
<1>9. LinkTyped'
  BY <1>1, <1>2 DEF LinkTyped, DeliveryInv, Types, wire
<1>10. Types' /\ Storage'
  BY <1>1, <1>3, <1>5, <1>6, <1>7, <1>8, <1>9 DEF Types, FlowsTyped, Storage, DeliveryInv
<1> QED
  BY <1>1, <1>7, <1>8, <1>10, SettlingIsPromised DEF Keeps, history

LEMMA RestartClientKeeps ==
    ASSUME DeliveryInv, RestartClient
    PROVE  Keeps
<1>1. /\ "client" \in crashed /\ crashed' = crashed \ {"client"} /\ saved' = saved
      /\ UNCHANGED <<wire, up, connection, history, idVars>>
      /\ outbound' = [id \in FlowIds |-> IF id \in Flows!Live(NoFlows)
                                         THEN NoFlows[id] ELSE outbound[id]]
      /\ inbound' = [id \in FlowIds |-> IF id \in Flows!Live(saved.inbound)
                                        THEN saved.inbound[id] ELSE inbound[id]]
  BY DEF RestartClient, Flows!RestoreFlows, FlowIds
<1>2. ~up /\ toClient = <<>> /\ toServer = <<>> /\ inbound = NoFlows
  BY <1>1 DEF DeliveryInv, Types, LinkTyped, Storage, ClientInStep
<1>3. outbound' = outbound
  BY <1>1, NoFlowsIsAMap, MemoryTyped DEF DeliveryInv
<1>4. saved.inbound \in [FlowIds -> InboundFlows]
  BY DEF DeliveryInv, Types, FlowsTyped
<1>5. inbound' = saved.inbound
  BY <1>1, <1>2, <1>4 DEF Flows!Live, NoFlows, FlowIds
<1>6. ServerInStep'
  BY <1>1, <1>3 DEF ServerInStep, Ended, DeliveryInv, Storage, history
<1>7. ClientInStep'
  BY <1>1, <1>5 DEF ClientInStep
<1>8. /\ Exchanges' /\ Books' /\ HistoryTyped' /\ Settled' = Settled
      /\ saved' \in [ids : SUBSET Ids, outbound : [FlowIds -> OutboundFlows],
                     inbound : [FlowIds -> InboundFlows]]
  BY <1>1, StorageStands
<1>9. WireTyped' /\ InFlight'
  BY <1>1, <1>2, EmptyQueues DEF wire
<1>10. LinkTyped'
  BY <1>1, <1>2 DEF LinkTyped, DeliveryInv, Types, wire
<1>11. Types' /\ Storage'
  BY <1>1, <1>4, <1>5, <1>6, <1>7, <1>8, <1>9, <1>10
     DEF Types, FlowsTyped, Storage, DeliveryInv, idVars
<1> QED
  BY <1>1, <1>8, <1>9, <1>11, SettlingIsPromised DEF Keeps, history

LEMMA ConnectKeeps ==
    ASSUME DeliveryInv, Connect
    PROVE  Keeps
<1>1. /\ ~up /\ crashed = {} /\ up' = TRUE /\ connection' = connection + 1 /\ saved' = saved
      /\ UNCHANGED <<idVars, flowVars, wire, crashed, history>>
  BY DEF Connect
<1>2. toClient = <<>> /\ toServer = <<>> /\ connection + 1 \in 1..MaxConnections
  BY <1>1, SessionAssumption DEF DeliveryInv, Types, LinkTyped
<1>3. /\ Exchanges' /\ Books' /\ HistoryTyped' /\ Settled' = Settled
      /\ saved' \in [ids : SUBSET Ids, outbound : [FlowIds -> OutboundFlows],
                     inbound : [FlowIds -> InboundFlows]]
  BY <1>1, StorageStands
<1>4. ServerInStep' /\ ClientInStep'
  BY <1>1 DEF ServerInStep, ClientInStep, Ended, DeliveryInv, Storage, flowVars, history
<1>5. WireTyped' /\ InFlight'
  BY <1>1, <1>2, EmptyQueues DEF wire
<1>6. LinkTyped'
  BY <1>1, <1>2 DEF LinkTyped, DeliveryInv, Types
<1>7. Types' /\ Storage'
  BY <1>1, <1>3, <1>4, <1>5, <1>6
     DEF Types, FlowsTyped, Storage, DeliveryInv, idVars, flowVars
<1> QED
  BY <1>1, <1>3, <1>5, <1>7, SettlingIsPromised DEF Keeps, history

-----------------------------------------------------------------------------
(* The theorems. *)

LEMMA InitDelivers == Init => DeliveryInv /\ Promise!Init
<1> SUFFICES ASSUME Init PROVE DeliveryInv /\ Promise!Init
  OBVIOUS
<1>1. /\ nextId = 1 /\ toClient = <<>> /\ toServer = <<>> /\ up = TRUE /\ connection = 1
      /\ crashed = {} /\ published = {} /\ delivered = [m \in Messages |-> 0]
      /\ inbound = NoFlows /\ outbound = NoFlows
      /\ saved = [ids |-> {}, outbound |-> NoFlows, inbound |-> NoFlows]
  BY DEF Init, PacketIds!IdInit, PacketIds!MinPacketId, Flows!FlowInit, NoFlows
<1>2. NoFlows \in [FlowIds -> InboundFlows] /\ NoFlows \in [FlowIds -> OutboundFlows]
  BY DEF NoFlows, FlowIds, InboundFlows, OutboundFlows
<1>3. /\ \A id \in FlowIds : /\ saved.outbound[id] = Flows!NoFlow
                             /\ saved.inbound[id] = Flows!NoFlow
      /\ SavedFlows = {}
  BY <1>1 DEF NoFlows, FlowIds, SavedFlows
<1>4. Types
  BY <1>1, <1>2, SessionAssumption
     DEF Types, FlowsTyped, WireTyped, LinkTyped, HistoryTyped, Ids, PacketIds!Ids,
         PacketIds!MinPacketId
<1>5. Storage
  BY <1>1, <1>3 DEF Storage, ServerInStep, ClientInStep, Exchanges, Exchange, Books,
     Responsible, OneFlowEach, ForgottenDelivered, NothingUnpublished
<1>6. InFlight
  BY <1>1 DEF InFlight, Distinct, IdsOf
<1>7. Promise!Init
  BY <1>1 DEF Promise!Init, Settled
<1> QED
  BY <1>4, <1>5, <1>6, <1>7, InitMatches DEF DeliveryInv

LEMMA StepDelivers ==
    ASSUME DeliveryInv, [Next]_vars
    PROVE  DeliveryInv' /\ [Promise!Next]_(Promise!vars)
<1>1. IInv'
  BY NextMatches DEF DeliveryInv
<1>2. CASE UNCHANGED vars
  <2>1. /\ UNCHANGED <<outbound, inbound, saved, published, delivered>>
        /\ UNCHANGED <<toServer, toClient, up, connection, crashed, nextId>>
    BY <1>2 DEF vars, idVars, flowVars, wire, link, history
  <2>2. Types'
    BY <2>1 DEF DeliveryInv, Types, FlowsTyped, WireTyped, LinkTyped, HistoryTyped
  <2>3. Storage'
    BY <2>1 DEF DeliveryInv, Storage, ServerInStep, ClientInStep, Exchanges, Exchange, Ended,
       Books, Responsible, Stamped, OneFlowEach, ForgottenDelivered, NothingUnpublished,
       SavedFlows
  <2>4. InFlight'
    <3>1. Distinct(toClient)' /\ Distinct(toServer)' /\ IdsOf(toClient)' \cap IdsOf(toServer)' = {}
      <4>1. Distinct(toClient)' <=> Distinct(toClient)
        BY <2>1 DEF Distinct
      <4>2. Distinct(toServer)' <=> Distinct(toServer)
        BY <2>1 DEF Distinct
      <4>3. IdsOf(toClient)' = IdsOf(toClient)
        BY <2>1 DEF IdsOf
      <4>4. IdsOf(toServer)' = IdsOf(toServer)
        BY <2>1 DEF IdsOf
      <4> QED
        BY <4>1, <4>2, <4>3, <4>4 DEF DeliveryInv, InFlight
    <3>2. ASSUME NEW i \in 1..Len(toClient') PROVE FitsToClient(toClient[i])'
      <4>1. FitsToClient(toClient[i]) /\ toClient'[i] = toClient[i]
        BY <2>1, <3>2 DEF DeliveryInv, InFlight
      <4> QED
        BY <2>1, <4>1 DEF FitsToClient, Flows!AwaitsPubcomp
    <3>3. ASSUME NEW i \in 1..Len(toServer') PROVE FitsToServer(toServer[i])'
      <4>1. FitsToServer(toServer[i]) /\ toServer'[i] = toServer[i]
        BY <2>1, <3>3 DEF DeliveryInv, InFlight
      <4> QED
        BY <2>1, <4>1 DEF FitsToServer, Flows!AwaitsPubcomp, Flows!AwaitsPubrec
    <3> QED
      BY <3>1, <3>2, <3>3 DEF InFlight
  <2>5. UNCHANGED Settled
    BY <2>1 DEF Settled
  <2> QED
    BY <1>1, <2>1, <2>2, <2>3, <2>4, <2>5 DEF DeliveryInv, Promise!vars
<1>3. CASE Next
  <2>1. Keeps
    BY <1>3, PublishKeeps, RetryKeeps, ReadPubackKeeps, ReadPubrecKeeps, ReadPubcompKeeps,
       ReadPublishKeeps, ReadPubrelKeeps, BreakKeeps, RestartServerKeeps, RestartClientKeeps,
       ConnectKeeps
       DEF Next, Serve, Consume, Recover
  <2> QED
    BY <1>1, <2>1 DEF Keeps, DeliveryInv
<1> QED
  BY <1>2, <1>3

\* Two queues whose packets have an id each hold no more packets than there are ids.
LEMMA QueuesBounded ==
    ASSUME NEW q, NEW r, Len(q) \in Nat, Len(r) \in Nat,
           \A i \in 1..Len(q) : q[i].packetId \in Ids,
           \A i \in 1..Len(r) : r[i].packetId \in Ids,
           Distinct(q), Distinct(r), IdsOf(q) \cap IdsOf(r) = {}
    PROVE  Len(q) + Len(r) <= MaxPacketId
<1> DEFINE n == Len(q) + Len(r)
           idAt == [i \in 1..n |-> IF i <= Len(q) THEN q[i].packetId
                                   ELSE r[i - Len(q)].packetId]
<1>1. n \in Nat
  OBVIOUS
<1>2. ASSUME NEW i \in 1..n
      PROVE  \/ i \in 1..Len(q) /\ idAt[i] = q[i].packetId
             \/ i - Len(q) \in 1..Len(r) /\ i > Len(q) /\ idAt[i] = r[i - Len(q)].packetId
  OBVIOUS
<1> HIDE DEF idAt
<1>3. idAt \in [1..n -> Ids]
  <2>1. idAt = [i \in 1..n |-> idAt[i]]
    BY DEF idAt
  <2> QED
    BY <1>2, <2>1
<1>4. ASSUME NEW i \in 1..n, NEW j \in 1..n, idAt[i] = idAt[j]
      PROVE  i = j
  <2>1. CASE i \in 1..Len(q) /\ idAt[i] = q[i].packetId
             /\ j \in 1..Len(q) /\ idAt[j] = q[j].packetId
    BY <1>4, <2>1 DEF Distinct
  <2>2. CASE /\ i - Len(q) \in 1..Len(r) /\ i > Len(q) /\ idAt[i] = r[i - Len(q)].packetId
             /\ j - Len(q) \in 1..Len(r) /\ j > Len(q) /\ idAt[j] = r[j - Len(q)].packetId
    <3>1. i - Len(q) = j - Len(q)
      BY <1>4, <2>2 DEF Distinct
    <3> QED
      BY <3>1
  <2>3. CASE /\ i \in 1..Len(q) /\ idAt[i] = q[i].packetId
             /\ j - Len(q) \in 1..Len(r) /\ idAt[j] = r[j - Len(q)].packetId
    BY <1>4, <2>3 DEF IdsOf
  <2>4. CASE /\ j \in 1..Len(q) /\ idAt[j] = q[j].packetId
             /\ i - Len(q) \in 1..Len(r) /\ idAt[i] = r[i - Len(q)].packetId
    BY <1>4, <2>4 DEF IdsOf
  <2> QED
    BY <1>2, <2>1, <2>2, <2>3, <2>4
<1>5. idAt \in Injection(1..n, Ids)
  BY <1>3, <1>4 DEF Injection, IsInjective
<1>6. IsFiniteSet(Ids) /\ Cardinality(Ids) = MaxPacketId
  <2>1. Ids = 1..MaxPacketId
    BY DEF Ids, PacketIds!Ids, PacketIds!MinPacketId
  <2>2. MaxPacketId \in Nat
    BY SessionAssumption
  <2>3. Cardinality(1..MaxPacketId) = MaxPacketId
    BY <2>2, FS_Interval
  <2>4. IsFiniteSet(1..MaxPacketId)
    BY <2>2, FS_Interval
  <2> QED
    BY <2>1, <2>3, <2>4
<1>7. Cardinality(1..n) = n
  BY <1>1, FS_Interval
<1>8. Cardinality(1..n) <= Cardinality(Ids)
  BY <1>5, <1>6, FS_Injection
<1> QED
  BY <1>6, <1>7, <1>8

LEMMA DeliveryInvTypes ==
    ASSUME DeliveryInv
    PROVE  TypeOK
<1>1. /\ nextId \in PacketIds!Ids /\ inUse \subseteq PacketIds!Ids
      /\ saved.ids \subseteq PacketIds!Ids
  BY DEF DeliveryInv, Types, IInv, MemoryMatches, StorageMatches, Ids
<1>2. \A id \in FlowIds : outbound[id] # Flows!NoFlow => /\ outbound[id] = saved.outbound[id]
                                                         /\ id \in SavedFlows
  BY DEF DeliveryInv, Storage, ServerInStep, Ended, NoFlows, FlowIds, SavedFlows
<1>3. ASSUME NEW id \in FlowIds, NEW flows \in {outbound, saved.outbound}
      PROVE  \/ flows[id] = Flows!NoFlow
             \/ /\ flows[id].packet \in published
                /\ flows[id].sentAt \in 1..connection
                /\ flows[id].retryCount \in 0..(flows[id].sentAt - 1)
                /\ flows[id].type = IF flows[id].packet \in QoS1Messages THEN "qos1-outbound"
                                    ELSE "qos2-outbound"
  <2> SUFFICES ASSUME flows[id] # Flows!NoFlow
               PROVE  /\ flows[id].packet \in published
                      /\ flows[id].sentAt \in 1..connection
                      /\ flows[id].retryCount \in 0..(flows[id].sentAt - 1)
                      /\ flows[id].type = IF flows[id].packet \in QoS1Messages
                                          THEN "qos1-outbound" ELSE "qos2-outbound"
    OBVIOUS
  <2>1. flows[id] = saved.outbound[id] /\ id \in SavedFlows
    BY <1>2 DEF SavedFlows
  <2>2. saved.outbound[id].packet \in published /\ Stamped(saved.outbound[id])
    BY <2>1 DEF DeliveryInv, Storage, Books, Responsible
  <2>3. saved.outbound[id] \in OutboundFlows
    BY <1>3 DEF DeliveryInv, Types, FlowsTyped
  <2> QED
    BY <2>1, <2>2, <2>3, FlowShapes, SessionAssumption DEF Stamped
<1>4. ASSUME NEW id \in FlowIds, NEW flows \in {inbound, saved.inbound}
      PROVE  flows[id] # Flows!NoFlow => flows[id].packet \in QoS2Messages
  BY FlowShapes DEF DeliveryInv, Types, FlowsTyped
<1>5. Len(toClient) + Len(toServer) <= MaxPacketId
  <2>1. toClient \in Seq(PacketsToClient) /\ toServer \in Seq(PacketsToServer)
    BY DEF DeliveryInv, Types, WireTyped
  <2>2. \A packet \in PacketsToClient \cup PacketsToServer : packet.packetId \in Ids
    BY DEF PacketsToClient, PacketsToServer
  <2>3. \A i \in 1..Len(toClient) : toClient[i] \in PacketsToClient
    BY <2>1
  <2>4. \A i \in 1..Len(toServer) : toServer[i] \in PacketsToServer
    BY <2>1
  <2>5. Len(toClient) \in Nat /\ Len(toServer) \in Nat
    BY <2>1
  <2> QED
    BY <2>2, <2>3, <2>4, <2>5, QueuesBounded DEF DeliveryInv, InFlight
<1>6. /\ up \in BOOLEAN /\ connection \in 1..MaxConnections /\ crashed \subseteq Sides
      /\ up => crashed = {}
  BY DEF DeliveryInv, Types, LinkTyped
<1> QED
  BY <1>1, <1>3, <1>4, <1>5, <1>6 DEF TypeOK, FlowIds

\* In every state the flows in memory and in storage are those of published messages, sent in a
\* connection there has been and retried once in each at the most, and no more packets are in
\* flight than there are ids, whatever broke, crashed or came back with old storage before.
THEOREM SessionTypeCorrect == Spec => []TypeOK
<1>1. Init => DeliveryInv
  BY InitDelivers
<1>2. DeliveryInv /\ [Next]_vars => DeliveryInv'
  BY StepDelivers
<1>3. DeliveryInv => TypeOK
  BY DeliveryInvTypes
<1> QED
  BY <1>1, <1>2, <1>3, PTL DEF Spec

\* A message leaves the server's storage only after the client was given it, and is not given to
\* it after that; a message of QoS 2 is given once: for any number of messages, ids and
\* connections, and for breaks and crashes of either side between any two steps.
THEOREM DeliveryIsImplemented == Spec => ImplementsDelivery
<1>1. Init => DeliveryInv /\ Promise!Init
  BY InitDelivers
<1>2. DeliveryInv /\ [Next]_vars => DeliveryInv' /\ [Promise!Next]_(Promise!vars)
  BY StepDelivers
<1> QED
  BY <1>1, <1>2, PTL DEF Spec, ImplementsDelivery, Promise!Spec
=============================================================================
