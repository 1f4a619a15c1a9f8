------------------------- MODULE PacketIdAllocator -------------------------
(***************************************************************************)
(* The packet id allocator of the wire: class PacketIdAllocator in         *)
(* src/state/packet-id.ts.  The class is synchronous, so every method is   *)
(* one step.  The methods are operators over nextId and inUse, so that     *)
(* MqttWire composes them with its own variables; PacketIdAllocatorSpec    *)
(* closes them into a specification of the class on its own.               *)
(***************************************************************************)
EXTENDS Integers, FiniteSets

CONSTANT MaxPacketId   \* MAX_PACKET_ID, 65535 in the code

ASSUME MaxPacketIdAssumption == MaxPacketId \in Nat \ {0}

VARIABLES nextId,   \* where the next scan starts
          inUse     \* the set of ids handed out and not released

idVars == <<nextId, inUse>>

MinPacketId == 1
Ids == MinPacketId..MaxPacketId

\* What a caller may pass where the code expects a packet id: a 16-bit field of
\* the wire holds 0, and a persisted session may hold anything.
WireIds == 0..(MaxPacketId + 1)

IdInit == nextId = MinPacketId /\ inUse = {}

SuccessorUnwrapped(n) == n + 1   \* mutated: no wraparound

\* The id after n, wrapping from the largest to the smallest.
Successor(n) == IF n >= MaxPacketId THEN MinPacketId ELSE n + 1

\* The ids the scan visits when it starts at nextId and stops at id.
Skipped(id) == IF nextId <= id THEN nextId..(id - 1)
               ELSE (nextId..MaxPacketId) \cup (MinPacketId..(id - 1))

IsExhausted == Cardinality(inUse) >= MaxPacketId

AllocateStuck(id) ==   \* mutated: the cursor stays at the id it gave out
    /\ ~IsExhausted
    /\ id \in Ids \ inUse
    /\ Skipped(id) \subseteq inUse
    /\ inUse' = inUse \cup {id}
    /\ UNCHANGED nextId

AllocateUnchecked(id) ==   \* mutated: the next id is taken whether in use or not
    /\ ~IsExhausted
    /\ id = nextId
    /\ inUse' = inUse \cup {id}
    /\ nextId' = Successor(id)

\* allocate() returning id: the scan starts at nextId, passes over ids in use,
\* and leaves nextId behind the id it takes.
Allocate(id) ==
    /\ ~IsExhausted
    /\ id \in Ids \ inUse
    /\ Skipped(id) \subseteq inUse
    /\ inUse' = inUse \cup {id}
    /\ nextId' = Successor(id)

\* allocate() throwing PacketIdExhaustedError.
AllocateThrows == IsExhausted /\ UNCHANGED idVars

Release(id) == inUse' = inUse \ {id} /\ UNCHANGED nextId

RestoreUnchecked(ids) ==   \* mutated: no range test
    inUse' = inUse \cup ids /\ UNCHANGED nextId

RestoreAsCursor(ids) ==   \* mutated: the scan starts behind the ids, which stay free
    nextId' = Successor(CHOOSE id \in {nextId} \cup ids : \A other \in ids : id >= other)
    /\ UNCHANGED inUse

\* restore(): ids outside the range are dropped in silence.
Restore(ids) == inUse' = inUse \cup (ids \cap Ids) /\ UNCHANGED nextId

ResetIds == inUse' = {} /\ nextId' = MinPacketId

=============================================================================
