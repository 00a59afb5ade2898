------------------------------ MODULE Setbacks ------------------------------
(***************************************************************************)
(* Failures, deaths and delays that campaigns, caches, indices and the     *)
(* listener meet, a bounded number of them: what a step does after the     *)
(* last one has happened is what it does when all goes well.               *)
(***************************************************************************)
EXTENDS Integers

CONSTANT MaxSetbacks   \* bound: errors, lost replies, deaths and delays of a behaviour

ASSUME SetbacksAssumption == MaxSetbacks \in Nat

VARIABLE setbacks

SetbacksTypeOK == setbacks \in 0..MaxSetbacks
SetbacksInit   == setbacks = 0

Setback == setbacks < MaxSetbacks /\ setbacks' = setbacks + 1
Smooth  == UNCHANGED setbacks
=============================================================================
