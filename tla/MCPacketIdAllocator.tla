------------------------ MODULE MCPacketIdAllocator ------------------------
(***************************************************************************)
(* The allocator with a history: for each id, the ids that have been in    *)
(* use at some time since it was last handed out.                          *)
(***************************************************************************)
EXTENDS PacketIdAllocatorSpec

VARIABLE since   \* since[id]: ids seen in use since id was last allocated

mcVars == <<nextId, inUse, result, since>>

AllSeen == [id \in Ids |-> Ids]

MCInit == Init /\ since = AllSeen

\* A step that hands out an id starts the history of that id again.
Seen == [id \in Ids |-> IF result' = Pool!Given(id) THEN {id}
                        ELSE since[id] \cup inUse']

MCNext == \/ (DoAllocate \/ DoRelease \/ DoRestore) /\ since' = Seen
          \/ DoReset /\ since' = AllSeen

MCSpec == MCInit /\ [][MCNext]_mcVars

\* A released id rests as long as possible: allocate() hands an id out again only
\* when every other id has been in use since it was last handed out, so a late
\* acknowledgement of an old exchange meets its id's new owner as late as it can.
LongestRest ==
    [][\A id \in Ids : result' = Pool!Given(id) /\ id \notin inUse
                          => since[id] = Ids]_mcVars
=============================================================================
