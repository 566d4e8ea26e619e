--------------------------- MODULE AbstractTransfer ---------------------------
(***************************************************************************)
(* What one RDMA flow promises to the layer above it: the receiver takes   *)
(* the bytes of the flow in order, and the flow is reported complete once, *)
(* and only when the receiver holds all of them.  How packets are cut,     *)
(* lost, repeated and acknowledged is not visible here.                    *)
(***************************************************************************)
EXTENDS Integers

CONSTANTS
  Size,      \* bytes of the flow (m_size)
  Mtu,       \* bytes the receiver can take in one step (m_mtu)
  Chunk,     \* the unit a go-back-to-zero receiver falls back to (m_chunk)
  BackTo0    \* whether the receiver may fall back (m_backto0)

VARIABLES
  delivered, \* length of the prefix the receiver holds
  done       \* the flow has been reported complete

vars == <<delivered, done>>

Init ==
  /\ delivered = 0
  /\ done = FALSE

\* The receiver takes the next packet of the flow.
Deliver ==
  /\ ~done
  /\ delivered' \in (delivered + 1) .. (delivered + Mtu)
  /\ delivered' <= Size
  /\ UNCHANGED done

\* A receiver that goes back to zero gives up the part of a chunk it holds.
FallBack ==
  /\ BackTo0
  /\ ~done
  /\ delivered' = (delivered \div Chunk) * Chunk
  /\ UNCHANGED done

Complete ==
  /\ ~done
  /\ delivered = Size
  /\ done' = TRUE
  /\ UNCHANGED delivered

Next == Deliver \/ FallBack \/ Complete

Spec == Init /\ [][Next]_vars
===============================================================================
