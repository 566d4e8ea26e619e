----------------------------- MODULE MCPfcSwitch -----------------------------
(***************************************************************************)
(* Two ports that feed a third.                                            *)
(***************************************************************************)
EXTENDS PfcSwitch

MCRoutes == {<<1, 3>>, <<2, 3>>}
MCHeadroom == [p \in Ports |-> IF p = 3 THEN 0 ELSE 4]
MCShift == [p \in Ports |-> IF p = 2 THEN 1 ELSE 0]
===============================================================================
