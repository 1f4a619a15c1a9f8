------------------------------- MODULE IdPool -------------------------------
(***************************************************************************)
(* What the class PacketIdAllocator (src/state/packet-id.ts) promises the  *)
(* code that uses it, without the scan that finds the next free id: an id  *)
(* handed out was free, it stays held until it is released, and a caller   *)
(* is refused only when every id is held.                                  *)
(***************************************************************************)
EXTENDS Integers

CONSTANT MaxPacketId   \* the largest packet id (65535 in the code)

VARIABLES held,     \* the ids that are in use
          result    \* what the last call returned to its caller

vars == <<held, result>>

Ids == 1..MaxPacketId

Nothing   == [kind |-> "void"]
Exhausted == [kind |-> "exhausted"]
Given(id) == [kind |-> "id", id |-> id]

Init == held = {} /\ result = Nothing

\* The caller is given any id that nobody holds.
Acquire == \E id \in Ids \ held :
              held' = held \cup {id} /\ result' = Given(id)

\* The caller is refused, and only because there is nothing left to give.
Refuse == held = Ids /\ result' = Exhausted /\ UNCHANGED held

GiveBack == \E id \in Ids : held' = held \ {id} /\ result' = Nothing

\* Ids of an earlier session become held again.
Reload == \E ids \in SUBSET Ids : held' = held \cup ids /\ result' = Nothing

FreeAll == held' = {} /\ result' = Nothing

Next == Acquire \/ Refuse \/ GiveBack \/ Reload \/ FreeAll

Spec == Init /\ [][Next]_vars
=============================================================================
