----------------------------- MODULE PacketFrame -----------------------------
(***************************************************************************)
(* Where a packet ends: readPacketFrame() in src/codec/framing.ts, with    *)
(* the number of bytes of a whole packet as its result.                    *)
(***************************************************************************)
EXTENDS VariableByteInteger

CONSTANTS TypeUnit,         \* 16: the packet type is the upper half of the first byte
          MaxPacketSize     \* the largest packet to accept, its header included

ASSUME FrameAssumption == TypeUnit \in Nat \ {0} /\ MaxPacketSize \in Nat

Incomplete == [status |-> "incomplete"]
Invalid    == [status |-> "error"]

\* offset is inside the buffer wherever it is called.
ReadPacketFrame(bytes, offset) ==
    LET length == DecodeVariableByteInteger(bytes, offset + 1)
        total  == 1 + length.bytesRead + length.value
    IN IF ~HasCompleteVariableByteInteger(bytes, offset + 1) THEN Incomplete
       ELSE IF bytes[offset + 1] \div TypeUnit < 1 \/ length.status # "ok" THEN Invalid
       ELSE IF total > MaxPacketSize THEN Invalid
       ELSE IF offset + total > Len(bytes) THEN Incomplete
       ELSE [status |-> "complete", bytesConsumed |-> total]
=============================================================================
