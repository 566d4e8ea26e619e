--------------------------- MODULE AbstractPipeline ---------------------------
(* What the pipeline stages of a replica promise together: micro-batches enter *)
(* at one end, at most as many as there are stages are inside, and they come   *)
(* out one at a time, in the order in which they entered.                      *)
EXTENDS Naturals, Sequences

VARIABLES
  depth,     \* the number of stages, fixed from the start
  flight     \* the micro-batches inside every replica, the oldest first

Init == depth \in Nat /\ \A rep \in DOMAIN flight : flight[rep] = <<>>

Enter(rep) ==
  /\ Len(flight[rep]) < Len(flight'[rep])
  /\ Len(flight'[rep]) <= depth
  /\ SubSeq(flight'[rep], 1, Len(flight[rep])) = flight[rep]

Leave(rep) ==
  /\ flight[rep] # <<>>
  /\ flight'[rep] = Tail(flight[rep])

Next ==
  /\ depth' = depth
  /\ \E rep \in DOMAIN flight :
       /\ Enter(rep) \/ Leave(rep)
       /\ flight' = [flight EXCEPT ![rep] = flight'[rep]]

Spec == Init /\ [][Next]_<<depth, flight>>
=============================================================================
