----------------------------- MODULE MCSeckill -----------------------------
(***************************************************************************)
(* Seckill for TLC: the first ticket has a user of its own.  The tickets   *)
(* may change places, with their users.                                    *)
(***************************************************************************)
EXTENDS Seckill, TLC

CONSTANTS t1, t2, a, b
MCUserOf == [t \in Tickets |-> IF t = t1 THEN a ELSE b]
MCUsers  == {MCUserOf[t] : t \in Tickets}
MCCauses == {"soldOut", "limitExceeded"}

Symmetry == {p \in Permutations({t1, t2, a, b}) :
               {p[t1], p[t2]} = {t1, t2} /\ (p[a] = a <=> p[t1] = t1)}
=============================================================================
