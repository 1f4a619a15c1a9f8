---------------------------- MODULE PacketStream ----------------------------
(***************************************************************************)
(* What the class StreamFramer (src/codec/framing.ts) promises the code    *)
(* that reads packets from it: the bytes pushed are one queue, the cuts    *)
(* between chunks leave no trace, and each read takes the packet at the    *)
(* head of the queue or leaves the queue alone.  A packet is defined by    *)
(* the set of fixed headers there are, not by how they are parsed.         *)
(***************************************************************************)
EXTENDS Integers, Sequences, SequencesExt

CONSTANTS Radix, MaxVarintLength,
          TypeUnit,         \* the packet type of a first byte is byte \div TypeUnit
          MaxPacketSize     \* the largest packet to accept, its header included

VARIABLES pending,   \* the bytes pushed and not yet taken
          result     \* what the last call returned

vars == <<pending, result>>

Nothing    == [status |-> "void"]
Incomplete == [status |-> "incomplete"]
Invalid    == [status |-> "error"]
Complete(packet) == [status |-> "complete", packetData |-> packet]

Bytes == 0..(2 * Radix - 1)

\* A packet type, and a length with a continuation bit on every byte but the last.
Headers == {header \in UNION {[1..n -> Bytes] : n \in 2..(MaxVarintLength + 1)} :
               /\ header[1] \div TypeUnit > 0
               /\ \A i \in 2..Len(header) : header[i] >= Radix <=> i < Len(header)}

\* number[k] is the number that the last k bytes write.
RemainingLength(header) ==
    LET number[k \in 0..(Len(header) - 1)] ==
            IF k = 0 THEN 0
            ELSE (header[Len(header) - k + 1] % Radix) + Radix * number[k - 1]
    IN number[Len(header) - 1]
Size(header) == Len(header) + RemainingLength(header)

Acceptable == {header \in Headers : Size(header) <= MaxPacketSize}

Init == pending = <<>> /\ result = Nothing

\* Any bytes are appended.
Push == /\ pending' \in Seq(Bytes) /\ IsPrefix(pending, pending')
        /\ result' = Nothing

\* The packet at the head of the queue is whole.
Take == \E header \in Acceptable :
           /\ IsPrefix(header, pending)
           /\ Size(header) <= Len(pending)
           /\ result' = Complete(SubSeq(pending, 1, Size(header)))
           /\ pending' = SubSeq(pending, Size(header) + 1, Len(pending))

\* More bytes are needed: the header is not there yet, or part of the rest is missing.
\* There is no waiting for a packet that would be refused.
Wait == /\ \/ /\ Len(pending) <= MaxVarintLength
              /\ ~\E header \in Headers : IsPrefix(header, pending)
           \/ \E header \in Acceptable :
                 IsPrefix(header, pending) /\ Len(pending) < Size(header)
        /\ result' = Incomplete
        /\ UNCHANGED pending

\* The queue is refused only when no acceptable packet can begin like this.
Refuse == /\ ~\E header \in Acceptable :
                 IsPrefix(header, pending) \/ IsPrefix(pending, header)
          /\ result' = Invalid
          /\ UNCHANGED pending

Clear == pending' = <<>> /\ result' = Nothing

Next == Push \/ Take \/ Wait \/ Refuse \/ Clear

Spec == Init /\ [][Next]_vars
=============================================================================
