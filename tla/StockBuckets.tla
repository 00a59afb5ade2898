---------------------------- MODULE StockBuckets ----------------------------
(***************************************************************************)
(* One piece in the two Redis counters of a product, as the scripts move   *)
(* it, and the retry loop around the script that takes a sold piece out of *)
(* reserved.  b is a record with the counters available and reserved.      *)
(***************************************************************************)
EXTENDS Setbacks

CONSTANT StockCommitRetries   \* stockCommitRetries (3 in the code)

ASSUME StockRetriesAssumption == StockCommitRetries \in Nat \ {0}

PieceReserved(b) == [b EXCEPT !.available = @ - 1, !.reserved = @ + 1]

\* Two scripts refuse when reserved is too short.
PieceReleased(b)  == IF b.reserved < 1 THEN b ELSE [b EXCEPT !.available = @ + 1, !.reserved = @ - 1]
PieceCommitted(b) == IF b.reserved < 1 THEN b ELSE [b EXCEPT !.reserved = @ - 1]

\* The tries of one call that fail one after the other are one setback.
TryFails(tries) == IF tries = 0 THEN Setback ELSE Smooth
=============================================================================
