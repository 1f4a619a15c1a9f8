--------------------------- MODULE MessageDelivery ---------------------------
(***************************************************************************)
(* What QoS 1 and QoS 2 promise the application: a message it published    *)
(* is delivered before the server forgets it, and never again after that;  *)
(* a message of QoS 2 is delivered once.                                   *)
(***************************************************************************)
EXTENDS Naturals

CONSTANTS Messages,
          Repeatable    \* the messages that may be delivered more than once: QoS 1

VARIABLES published,    \* the messages the server is responsible for, or was
          delivered,    \* message -> number of deliveries
          settled       \* the messages the server has forgotten

vars == <<published, delivered, settled>>

Init == published = {} /\ delivered = [m \in Messages |-> 0] /\ settled = {}

Publish == \E m \in Messages \ published :
              published' = published \cup {m} /\ UNCHANGED delivered

Deliver == \E m \in published \ settled :
              /\ m \in Repeatable \/ delivered[m] = 0
              /\ delivered' = [delivered EXCEPT ![m] = @ + 1]
              /\ UNCHANGED published

\* Messages are forgotten once delivered, one or more at a time, or with another step.
Settle == settled \subseteq settled' /\ settled' \subseteq {m \in Messages : delivered[m] > 0}

Next == Settle /\ (Publish \/ Deliver \/ UNCHANGED <<published, delivered>>)

Spec == Init /\ [][Next]_vars
=============================================================================
