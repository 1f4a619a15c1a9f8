---------------------- MODULE PacketIdAllocatorProofs ----------------------
(***************************************************************************)
(* The allocator is correct for every size of the id space.                *)
(***************************************************************************)
EXTENDS MCPacketIdAllocator, FiniteSetTheorems, TLAPS

\* The size test of allocate() is exact: it throws when every id is in use.
LEMMA ExhaustedMeansAllInUse ==
    ASSUME inUse \subseteq Ids
    PROVE  IsExhausted <=> inUse = Ids
<1>1. IsFiniteSet(Ids) /\ Cardinality(Ids) = MaxPacketId
  BY FS_Interval, MaxPacketIdAssumption DEF Ids, MinPacketId
<1>2. /\ IsFiniteSet(inUse)
      /\ Cardinality(inUse) <= Cardinality(Ids)
      /\ Cardinality(Ids) = Cardinality(inUse) => Ids = inUse
  BY <1>1, FS_Subset
<1>3. Cardinality(inUse) \in Nat
  BY <1>2, FS_CardinalityType
<1> QED
  BY <1>1, <1>2, <1>3, MaxPacketIdAssumption DEF IsExhausted

\* Wrapping keeps the cursor inside the id space.
LEMMA SuccessorInIds == \A n \in Ids : Successor(n) \in Ids
  BY MaxPacketIdAssumption DEF Ids, MinPacketId, Successor

LEMMA StepKeepsTypes ==
    ASSUME TypeOK, [Next]_vars
    PROVE  TypeOK'
<1>1. CASE DoAllocate
  BY <1>1, SuccessorInIds DEF DoAllocate, Allocate, AllocateThrows, TypeOK, idVars
<1>2. CASE DoRelease
  BY <1>2 DEF DoRelease, Release, TypeOK
<1>3. CASE DoRestore
  BY <1>3 DEF DoRestore, Restore, TypeOK
<1>4. CASE DoReset
  BY <1>4, MaxPacketIdAssumption DEF DoReset, ResetIds, TypeOK, Ids, MinPacketId
<1>5. CASE UNCHANGED vars
  BY <1>5 DEF vars, TypeOK
<1> QED
  BY <1>1, <1>2, <1>3, <1>4, <1>5 DEF Next

LEMMA InitHasTypes == Init => TypeOK
  BY MaxPacketIdAssumption DEF Init, IdInit, TypeOK, Ids, MinPacketId

\* The cursor and the ids in use stay valid packet ids, whatever callers release and
\* restore.
THEOREM AllocatorTypeCorrect == Spec => []TypeOK
<1>1. TypeOK /\ [Next]_vars => TypeOK'
  BY StepKeepsTypes
<1> QED
  BY <1>1, InitHasTypes, PTL DEF Spec

\* Every call of the allocator is a step of the abstract pool: the scan returns an id
\* nobody holds, and the allocator refuses only when there is none.
THEOREM AllocatorImplementsPool == Spec => ImplementsPool
<1>1. Init => Pool!Init
  BY DEF Init, IdInit, Pool!Init, Pool!Nothing
<1>2. TypeOK /\ [Next]_vars => [Pool!Next]_(Pool!vars)
  <2> SUFFICES ASSUME TypeOK, [Next]_vars PROVE [Pool!Next]_(Pool!vars)
    OBVIOUS
  <2> USE DEF Pool!Next, Pool!Nothing, Pool!Exhausted, Pool!Given
  <2>1. Ids = Pool!Ids
    BY DEF Ids, MinPacketId, Pool!Ids
  <2>2. CASE \E id \in Ids : Allocate(id) /\ result' = Pool!Given(id)
    <3>1. Pool!Acquire
      BY <2>1, <2>2 DEF Allocate, Pool!Acquire
    <3> QED
      BY <3>1
  <2>3. CASE AllocateThrows /\ result' = Pool!Exhausted
    <3>1. inUse = Ids
      BY <2>3, ExhaustedMeansAllInUse DEF AllocateThrows, TypeOK
    <3>2. Pool!Refuse
      BY <2>1, <2>3, <3>1 DEF AllocateThrows, idVars, Pool!Refuse
    <3> QED
      BY <3>2
  <2>4. CASE DoRelease
    <3>1. PICK id \in WireIds : Release(id) /\ result' = Pool!Nothing
      BY <2>4 DEF DoRelease
    <3>2. CASE id \in Ids
      BY <2>1, <3>1, <3>2 DEF Release, Pool!GiveBack
    <3>3. CASE id \notin Ids
      <4>1. inUse' = inUse
        BY <3>1, <3>3 DEF Release, TypeOK
      <4>2. Pool!Reload
        <5>1. {} \in SUBSET Pool!Ids /\ inUse' = inUse \cup {} /\ result' = Pool!Nothing
          BY <3>1, <4>1
        <5> QED
          BY <5>1 DEF Pool!Reload
      <4> QED
        BY <4>2
    <3> QED
      BY <3>2, <3>3
  <2>5. CASE DoRestore
    <3>1. Pool!Reload
      BY <2>1, <2>5 DEF DoRestore, Restore, Pool!Reload
    <3> QED
      BY <3>1
  <2>6. CASE DoReset
    BY <2>6 DEF DoReset, ResetIds, Pool!FreeAll
  <2>7. CASE UNCHANGED vars
    BY <2>7 DEF vars, Pool!vars
  <2> QED
    BY <2>2, <2>3, <2>4, <2>5, <2>6, <2>7 DEF Next, DoAllocate
<1> QED
  BY <1>1, <1>2, AllocatorTypeCorrect, PTL DEF Spec, ImplementsPool, Pool!Spec

-----------------------------------------------------------------------------
(* How long a released id rests.  The cursor stands behind the id it gave out *)
(* last and passes an id only when it is in use, so what it has passed since  *)
(* an id was handed out belongs to that id's history; when it comes back to   *)
(* the id, it has passed them all.                                            *)

\* The ids from id to the one before the cursor.
Passed(id) == IF id < nextId THEN id..(nextId - 1)
              ELSE (id..MaxPacketId) \cup (MinPacketId..(nextId - 1))

PassedAreSeen == \A id \in Ids : Passed(id) \subseteq since[id]

\* An id that is free has been free for a while: everything in use now was seen since.
HeldAreSeen == \A id \in Ids \ inUse : inUse \subseteq since[id]

RestInv == TypeOK /\ since \in [Ids -> SUBSET Ids] /\ PassedAreSeen /\ HeldAreSeen

\* What the cursor passes when it moves on to an id and behind it.
LEMMA PassedGrows ==
    ASSUME TypeOK, NEW id \in Ids, NEW taken \in Ids, nextId' = Successor(taken)
    PROVE  Passed(id)' \subseteq Passed(id) \cup Skipped(taken) \cup {taken}
<1>1. nextId \in Ids /\ MaxPacketId \in Nat
  BY MaxPacketIdAssumption DEF TypeOK
<1> SUFFICES ASSUME NEW x \in Passed(id)'
             PROVE  x \in Passed(id) \cup Skipped(taken) \cup {taken}
  OBVIOUS
<1>2. x \in Int /\ nextId' \in Ids
  BY <1>1, SuccessorInIds DEF Passed, Ids, MinPacketId
<1>3. CASE taken >= MaxPacketId
  BY <1>1, <1>2, <1>3 DEF Passed, Skipped, Successor, Ids, MinPacketId
<1>4. CASE taken < MaxPacketId
  BY <1>1, <1>2, <1>4 DEF Passed, Skipped, Successor, Ids, MinPacketId
<1> QED
  BY <1>1, <1>3, <1>4 DEF Ids, MinPacketId

\* The id that is handed out begins its history anew, with the cursor just behind it.
LEMMA PassedBegins ==
    ASSUME NEW id \in Ids, nextId' = Successor(id)
    PROVE  Passed(id)' = {id}
<1>1. CASE id >= MaxPacketId
  BY <1>1, MaxPacketIdAssumption DEF Passed, Successor, Ids, MinPacketId
<1>2. CASE id < MaxPacketId
  BY <1>2, MaxPacketIdAssumption DEF Passed, Successor, Ids, MinPacketId
<1> QED
  BY <1>1, <1>2, MaxPacketIdAssumption DEF Ids, MinPacketId

\* The scan that comes to an id has passed, together with what was passed before, every id.
LEMMA PassedAll ==
    ASSUME TypeOK, NEW id \in Ids
    PROVE  Ids \subseteq Passed(id) \cup Skipped(id)
  BY DEF TypeOK, Passed, Skipped, Ids, MinPacketId

\* Whose history a step begins anew.
LEMMA SeenOfGiven ==
    ASSUME TypeOK, DoAllocate
    PROVE  \/ \E id \in Ids : Allocate(id) /\ \A other \in Ids :
                 result' = Pool!Given(other) <=> other = id
           \/ AllocateThrows /\ \A other \in Ids : result' # Pool!Given(other)
  BY DEF DoAllocate, Pool!Given, Pool!Exhausted

LEMMA RestStep ==
    ASSUME RestInv, MCNext
    PROVE  /\ RestInv'
           /\ \A id \in Ids : result' = Pool!Given(id) /\ id \notin inUse => since[id] = Ids
<1>1. TypeOK'
  BY StepKeepsTypes DEF RestInv, MCNext, Next
<1>2. CASE DoAllocate /\ since' = Seen
  <2>1. CASE \E taken \in Ids : Allocate(taken) /\ \A other \in Ids :
                  result' = Pool!Given(other) <=> other = taken
    <3>1. PICK taken \in Ids : Allocate(taken) /\ \A other \in Ids :
                  result' = Pool!Given(other) <=> other = taken
      BY <2>1
    <3>2. /\ taken \notin inUse /\ Skipped(taken) \subseteq inUse
          /\ inUse' = inUse \cup {taken} /\ nextId' = Successor(taken)
      BY <3>1 DEF Allocate
    <3>3. /\ since'[taken] = {taken}
          /\ \A id \in Ids \ {taken} : since'[id] = since[id] \cup inUse'
      BY <1>2, <3>1 DEF Seen
    <3>4. since' \in [Ids -> SUBSET Ids]
      BY <1>1, <1>2 DEF Seen, RestInv, TypeOK
    <3>5. PassedAreSeen'
      <4> SUFFICES ASSUME NEW id \in Ids PROVE Passed(id)' \subseteq since'[id]
        BY DEF PassedAreSeen
      <4>1. CASE id = taken
        BY <3>2, <3>3, <4>1, PassedBegins
      <4>2. CASE id # taken
        <5>1. Passed(id)' \subseteq Passed(id) \cup Skipped(taken) \cup {taken}
          BY <3>2, PassedGrows DEF RestInv
        <5> QED
          BY <3>2, <3>3, <4>2, <5>1 DEF RestInv, PassedAreSeen
      <4> QED
        BY <4>1, <4>2
    <3>6. HeldAreSeen'
      BY <3>2, <3>3 DEF HeldAreSeen
    <3>7. since[taken] = Ids
      <4>1. Ids \subseteq since[taken]
        BY <3>2, PassedAll DEF RestInv, PassedAreSeen, HeldAreSeen
      <4> QED
        BY <4>1 DEF RestInv
    <3> QED
      BY <1>1, <3>1, <3>4, <3>5, <3>6, <3>7 DEF RestInv
  <2>2. CASE AllocateThrows /\ \A other \in Ids : result' # Pool!Given(other)
    <3>1. UNCHANGED <<nextId, inUse>> /\ since' = [id \in Ids |-> since[id] \cup inUse']
      BY <1>2, <2>2 DEF AllocateThrows, idVars, Seen
    <3>2. PassedAreSeen' /\ HeldAreSeen'
      BY <3>1 DEF RestInv, PassedAreSeen, HeldAreSeen, Passed
    <3> QED
      BY <1>1, <2>2, <3>1, <3>2 DEF RestInv, TypeOK
  <2> QED
    BY <1>2, <2>1, <2>2, SeenOfGiven DEF RestInv
<1>3. CASE (DoRelease \/ DoRestore) /\ since' = Seen
  <2>1. nextId' = nextId /\ \A other \in Ids : result' # Pool!Given(other)
    BY <1>3 DEF DoRelease, DoRestore, Release, Restore, Pool!Nothing, Pool!Given
  <2>2. since' = [id \in Ids |-> since[id] \cup inUse']
    BY <1>3, <2>1 DEF Seen
  <2>3. PassedAreSeen' /\ HeldAreSeen'
    BY <2>1, <2>2 DEF RestInv, PassedAreSeen, HeldAreSeen, Passed
  <2> QED
    BY <1>1, <2>1, <2>2, <2>3 DEF RestInv, TypeOK
<1>4. CASE DoReset /\ since' = AllSeen
  <2>1. /\ \A other \in Ids : result' # Pool!Given(other)
        /\ nextId' = MinPacketId /\ inUse' = {}
    BY <1>4 DEF DoReset, ResetIds, Pool!Nothing, Pool!Given
  <2>2. since' = [id \in Ids |-> Ids]
    BY <1>4 DEF AllSeen
  <2>3. PassedAreSeen'
    BY <2>1, <2>2, MaxPacketIdAssumption DEF PassedAreSeen, Passed, Ids, MinPacketId
  <2>4. HeldAreSeen'
    BY <2>1 DEF HeldAreSeen
  <2> QED
    BY <1>1, <2>1, <2>2, <2>3, <2>4 DEF RestInv
<1> QED
  BY <1>2, <1>3, <1>4 DEF MCNext

\* allocate() hands an id out again only when every other id has been in use since, whatever
\* was released or restored in between and however often the scan wrapped around: a late
\* acknowledgement of an old exchange meets its id's new owner as late as it can.
THEOREM ReleasedIdsRestLongest == MCSpec => LongestRest
<1>1. MCInit => RestInv
  <2> SUFFICES ASSUME MCInit PROVE RestInv
    OBVIOUS
  <2>1. nextId = MinPacketId /\ inUse = {} /\ since = [id \in Ids |-> Ids]
    BY DEF MCInit, Init, IdInit, AllSeen
  <2>2. PassedAreSeen
    BY <2>1, MaxPacketIdAssumption DEF PassedAreSeen, Passed, Ids, MinPacketId
  <2> QED
    BY <2>1, <2>2, InitHasTypes DEF RestInv, HeldAreSeen, MCInit
<1>2. RestInv /\ [MCNext]_mcVars => RestInv'
  <2>1. ASSUME RestInv, UNCHANGED mcVars PROVE RestInv'
    BY <2>1 DEF mcVars, RestInv, TypeOK, PassedAreSeen, HeldAreSeen, Passed
  <2> QED
    BY <2>1, RestStep
<1>3. RestInv /\ [MCNext]_mcVars
        => [\A id \in Ids : result' = Pool!Given(id) /\ id \notin inUse
                               => since[id] = Ids]_mcVars
  BY RestStep
<1> QED
  BY <1>1, <1>2, <1>3, PTL DEF MCSpec, LongestRest
=============================================================================
