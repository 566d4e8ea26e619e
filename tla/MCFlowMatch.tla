----------------------------- MODULE MCFlowMatch -----------------------------
(***************************************************************************)
(* A flow that is sent twice (an operation that is issued again reuses the *)
(* flow ids and tags it had), one message for two receives, and two        *)
(* messages for one receive.                                               *)
(***************************************************************************)
EXTENDS FlowMatch

Message(f, t, n) == [flow |-> f, tag |-> t, size |-> n]
Receive(t, n) == [tag |-> t, size |-> n]

MCSends == <<Message(1, 1, 2), Message(1, 1, 2), Message(2, 2, 3),
             Message(3, 3, 1), Message(4, 3, 2)>>
MCRecvs == <<Receive(1, 2), Receive(1, 2), Receive(2, 1), Receive(2, 2), Receive(3, 3)>>
===============================================================================
