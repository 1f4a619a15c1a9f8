----------------------- MODULE PacketIdAllocatorSpec -----------------------
(***************************************************************************)
(* The class PacketIdAllocator on its own: any sequence of calls, with any *)
(* arguments, and the value each call returns.                             *)
(***************************************************************************)
EXTENDS PacketIdAllocator

VARIABLE result   \* what the last call returned

vars == <<nextId, inUse, result>>

Pool == INSTANCE IdPool WITH held <- inUse

Init == IdInit /\ result = Pool!Nothing

DoAllocate == \/ \E id \in Ids : Allocate(id) /\ result' = Pool!Given(id)
              \/ AllocateThrows /\ result' = Pool!Exhausted

DoRelease == \E id \in WireIds : Release(id) /\ result' = Pool!Nothing

DoRestore == \E ids \in SUBSET WireIds : Restore(ids) /\ result' = Pool!Nothing

DoReset == ResetIds /\ result' = Pool!Nothing

Next == DoAllocate \/ DoRelease \/ DoRestore \/ DoReset

Spec == Init /\ [][Next]_vars

-----------------------------------------------------------------------------
(* Properties. *)

\* The cursor and the ids in use are valid packet ids whatever callers pass to
\* release() and restore(): a 0 or an out-of-range id never gets in, so the size
\* test of allocate() is exact.
TypeOK == /\ nextId \in Ids
          /\ inUse \subseteq Ids
          /\ result \in {Pool!Nothing, Pool!Exhausted} \cup {Pool!Given(id) : id \in Ids}

\* allocate() gives out an id nobody holds and refuses only when every id is held:
\* the scan with wraparound implements the abstract pool of ids.
ImplementsPool == Pool!Spec
=============================================================================
