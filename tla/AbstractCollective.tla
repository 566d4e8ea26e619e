-------------------------- MODULE AbstractCollective --------------------------
(***************************************************************************)
(* What a collective operation promises to the scheduler above it: every   *)
(* rank enters each round of it and leaves it once, and nobody leaves a    *)
(* round that somebody has not entered.                                    *)
(***************************************************************************)
EXTENDS Integers

CONSTANTS Ranks, Rounds

VARIABLES entered, left   \* per rank: the rounds it has entered, and left

vars == <<entered, left>>

Init == entered = [r \in Ranks |-> 0] /\ left = [r \in Ranks |-> 0]

Enter(r) ==
  /\ entered[r] = left[r] /\ entered[r] < Rounds
  /\ entered' = [entered EXCEPT ![r] = @ + 1]
  /\ UNCHANGED left

Leave(r) ==
  /\ left[r] < entered[r]
  /\ \A q \in Ranks : entered[q] >= entered[r]
  /\ left' = [left EXCEPT ![r] = @ + 1]
  /\ UNCHANGED entered

Next == \E r \in Ranks : Enter(r) \/ Leave(r)

Spec == Init /\ [][Next]_vars
===============================================================================
