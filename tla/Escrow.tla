------------------------------- MODULE Escrow -------------------------------
(***************************************************************************)
(* What clearing promises of an order's money (internal/clearing): the     *)
(* platform holds it from payment to receipt; then it is the seller's, or  *)
(* it goes back to the buyer, from the platform or, later, from the        *)
(* seller; it moves once along each way and the buyer's refund is final.   *)
(***************************************************************************)

CONSTANT Orders

VARIABLE place   \* where the money of an order is

Places == {"unpaid", "escrow", "seller", "buyer"}

Init == place = [o \in Orders |-> "unpaid"]

Moves(o, from, to) == place[o] = from /\ place' = [place EXCEPT ![o] = to]

Next == \E o \in Orders : \/ Moves(o, "unpaid", "escrow")
                          \/ Moves(o, "escrow", "seller")
                          \/ Moves(o, "escrow", "buyer")
                          \/ Moves(o, "seller", "buyer")

Spec == Init /\ [][Next]_place
=============================================================================
