----------------------------- MODULE MCNicEgress -----------------------------
(***************************************************************************)
(* Three queue pairs that share a device.                                  *)
(***************************************************************************)
EXTENDS NicEgress

MCPackets == <<2, 2, 1>>
===============================================================================
