------------------------------ MODULE Coupons ------------------------------
(***************************************************************************)
(* A batch of coupons: claims pass a counter in Redis and are written to   *)
(* the database, which decides; the counter is raised when it is below the *)
(* database.  Orders use coupons and give them back when they close.       *)
(***************************************************************************)
EXTENDS Setbacks, FiniteSets

CONSTANTS Holders,      \* users
          Claimers,     \* requests at a time
          Baskets,      \* orders, each of any user
          CouponTotal, PerUser

ASSUME CouponAssumption ==
  IsFiniteSet(Holders) /\ IsFiniteSet(Baskets) /\ {CouponTotal, PerUser} \subseteq Nat \ {0}

VARIABLES
  batch,      \* coupon_batch.claimed
  couponStock,      \* Redis: what is left; missing
  counted,    \* Redis: claims of each user
  rolledBack, \* Redis: users whose last claim has been rolled back
  coupon,     \* user_coupon rows: user, status, used_order_id, whether expire_at has passed
  couponClaim,      \* requests: step, user, remaining at the last read
  basket,     \* orders: step, coupon
  raiser  \* RunStockReconcile: step, remaining when it read the batch

couponVars == <<batch, couponStock, counted, rolledBack, coupon, couponClaim, basket, raiser, setbacks>>

Slots == 1..CouponTotal
Blank == [user |-> {}, status |-> "none", order |-> {}, late |-> FALSE]
NoClaim == [at |-> "idle", user |-> {}, remaining |-> 0, again |-> FALSE]

CouponTypeOK ==
  /\ batch \in 0..CouponTotal
  /\ couponStock.there \in BOOLEAN /\ couponStock.left \in Int
  /\ counted \in [Holders -> Int] /\ rolledBack \subseteq Holders
  /\ coupon \in [Slots -> [user : SUBSET Holders, status : {"none", "Unused", "Used", "Expired"},
                           order : SUBSET Baskets, late : BOOLEAN]]
  /\ couponClaim \in [Claimers -> [at : {"idle", "redis", "raise", "persist", "rollback", "soldout"},
                             user : SUBSET Holders, remaining : 0..CouponTotal, again : BOOLEAN]]
  /\ basket \in [Baskets -> [at : {"none", "quoted", "open", "closed"}, coupon : 0..CouponTotal]]
  /\ raiser \in {-1} \cup 0..CouponTotal

CouponInit ==
  /\ batch = 0 /\ couponStock \in {[there |-> TRUE, left |-> CouponTotal], [there |-> FALSE, left |-> 0]}
  /\ counted = [u \in Holders |-> 0] /\ rolledBack = {}
  /\ coupon = [i \in Slots |-> Blank]
  /\ couponClaim = [c \in Claimers |-> NoClaim]
  /\ basket = [b \in Baskets |-> [at |-> "none", coupon |-> 0]]
  /\ raiser = -1

Owned(u) == Cardinality({i \in Slots : coupon[i].user = {u}})
Redis == <<couponStock, counted, rolledBack>>
Tables == <<batch, coupon>>

ClaimTo(c, to) == couponClaim' = [couponClaim EXCEPT ![c] = IF to = "idle" THEN NoClaim ELSE [@ EXCEPT !.at = to]]

-----------------------------------------------------------------------------
(* Claim *)

\* GetBatch, in the window of the batch.
ClaimStarts(c, u) ==
  /\ couponClaim[c] = NoClaim /\ batch < CouponTotal
  /\ couponClaim' = [couponClaim EXCEPT ![c] = [at |-> "redis", user |-> {u},
                                    remaining |-> CouponTotal - batch, again |-> FALSE]]
  /\ UNCHANGED <<Redis, Tables, basket, raiser, setbacks>>

\* The script: missing, sold out, over the limit, or taken.
ClaimCouponAtomic(c, u) ==
  /\ couponClaim[c].at = "redis" /\ couponClaim[c].user = {u}
  /\ UNCHANGED <<Tables, basket, raiser>>
  /\ \/ /\ ~couponStock.there /\ Smooth /\ UNCHANGED Redis
        /\ ClaimTo(c, IF couponClaim[c].again THEN "idle" ELSE "raise")
     \/ /\ couponStock.there /\ (couponStock.left <= 0 \/ counted[u] >= PerUser) /\ Smooth
        /\ UNCHANGED Redis /\ ClaimTo(c, "idle")
     \/ /\ couponStock.there /\ couponStock.left > 0 /\ counted[u] < PerUser
        /\ couponStock' = [couponStock EXCEPT !.left = @ - 1]
        /\ counted' = [counted EXCEPT ![u] = @ + 1] /\ rolledBack' = rolledBack \ {u}
        /\ \/ Smooth /\ ClaimTo(c, "persist")
           \/ Setback /\ ClaimTo(c, "idle")

\* Mutant: only a counter that is missing is set.
MutRaised(remaining) ==
  couponStock' = IF couponStock.there THEN couponStock ELSE [there |-> TRUE, left |-> remaining]

\* The counter is raised to what the database had left, never lowered.
Raised(remaining) ==
  couponStock' = IF couponStock.there /\ couponStock.left >= remaining THEN couponStock
           ELSE [there |-> TRUE, left |-> remaining]

RaiseCouponStock(c) ==
  /\ couponClaim[c].at = "raise" /\ Raised(couponClaim[c].remaining)
  /\ couponClaim' = [couponClaim EXCEPT ![c].at = "redis", ![c].again = TRUE]
  /\ UNCHANGED <<counted, rolledBack, Tables, basket, raiser, setbacks>>

\* Mutant: the user's limit is left to Redis.
MutPersistClaim(c, u) ==
  LET full == batch >= CouponTotal IN
  /\ couponClaim[c].at = "persist" /\ couponClaim[c].user = {u} /\ UNCHANGED <<Redis, basket, raiser>>
  /\ \/ /\ ~full /\ Smooth /\ batch' = batch + 1
        /\ coupon' = [coupon EXCEPT ![batch + 1] = [Blank EXCEPT !.user = {u}, !.status = "Unused"]]
        /\ ClaimTo(c, "idle")
     \/ full /\ Smooth /\ UNCHANGED Tables /\ ClaimTo(c, "soldout")
     \/ Setback /\ UNCHANGED Tables /\ ClaimTo(c, "rollback")

\* Under the lock of the batch: the total, then the user's limit.  An error, the
\* reply of the COMMIT lost among them, is taken back in Redis.
PersistClaim(c, u) ==
  LET full == batch >= CouponTotal
      over == Owned(u) >= PerUser
  IN
  /\ couponClaim[c].at = "persist" /\ couponClaim[c].user = {u} /\ UNCHANGED <<Redis, basket, raiser>>
  /\ \/ /\ ~full /\ ~over /\ batch' = batch + 1
        /\ coupon' = [coupon EXCEPT ![batch + 1] = [Blank EXCEPT !.user = {u}, !.status = "Unused"]]
        /\ (Smooth /\ ClaimTo(c, "idle")) \/ (Setback /\ ClaimTo(c, "rollback"))
     \/ full /\ Smooth /\ UNCHANGED Tables /\ ClaimTo(c, "soldout")
     \/ /\ UNCHANGED Tables /\ ClaimTo(c, "rollback")
        /\ (~full /\ over /\ Smooth) \/ Setback

\* RollbackCouponStock and MarkCouponSoldOut, once for a user until the next
\* claim; INCR makes a counter that is not there, sold out does not.
RollbackClaim(c, u) ==
  /\ couponClaim[c].at \in {"rollback", "soldout"} /\ couponClaim[c].user = {u} /\ ClaimTo(c, "idle")
  /\ UNCHANGED <<Tables, basket, raiser>>
  /\ \/ /\ u \notin rolledBack /\ Smooth
        /\ rolledBack' = rolledBack \cup {u}
        /\ counted' = [counted EXCEPT ![u] = @ - 1]
        /\ couponStock' = IF couponClaim[c].at = "rollback" THEN [there |-> TRUE, left |-> couponStock.left + 1]
                    ELSE [couponStock EXCEPT !.left = 0]
     \/ u \in rolledBack /\ Smooth /\ UNCHANGED Redis
     \/ Setback /\ UNCHANGED Redis

-----------------------------------------------------------------------------
(* RunStockReconcile, lost keys and markers that expire *)

ReconcileReads ==
  /\ raiser = -1 /\ raiser' = CouponTotal - batch
  /\ UNCHANGED <<Redis, Tables, couponClaim, basket, setbacks>>

ReconcileRaises ==
  /\ raiser # -1 /\ raiser' = -1
  /\ Raised(raiser)
  /\ UNCHANGED <<counted, rolledBack, Tables, couponClaim, basket, setbacks>>

StockKeyLost ==
  /\ couponStock.there /\ Setback /\ couponStock' = [there |-> FALSE, left |-> 0]
  /\ UNCHANGED <<counted, rolledBack, Tables, couponClaim, basket, raiser>>

UserKeyExpires(u) ==
  /\ counted[u] # 0 /\ Setback /\ counted' = [counted EXCEPT ![u] = 0]
  /\ UNCHANGED <<couponStock, rolledBack, Tables, couponClaim, basket, raiser>>

-----------------------------------------------------------------------------
(* Coupons on orders *)

GetUsable(b, i) ==
  /\ basket[b].at = "none" /\ coupon[i].status = "Unused" /\ ~coupon[i].late
  /\ basket' = [basket EXCEPT ![b] = [at |-> "quoted", coupon |-> i]]
  /\ UNCHANGED <<Redis, Tables, couponClaim, raiser, setbacks>>

\* In the transaction of the order, which rolls back without the coupon.
UseInTx(b) ==
  LET i == basket[b].coupon
      usable == coupon[i].status = "Unused" /\ ~coupon[i].late
  IN
  /\ basket[b].at = "quoted"
  /\ \/ /\ usable /\ Smooth
        /\ coupon' = [coupon EXCEPT ![i].status = "Used", ![i].order = {b}]
        /\ basket' = [basket EXCEPT ![b].at = "open"]
     \/ /\ (~usable /\ Smooth) \/ Setback
        /\ UNCHANGED coupon /\ basket' = [basket EXCEPT ![b] = [at |-> "none", coupon |-> 0]]
  /\ UNCHANGED <<Redis, batch, couponClaim, raiser>>

\* Mutant: a coupon that has expired meanwhile stays with the closed order.
MutReleaseForOrderInTx(b) ==
  LET i == basket[b].coupon
      used == coupon[i].status = "Used" /\ coupon[i].order = {b} /\ ~coupon[i].late
  IN
  /\ basket[b].at = "open" /\ basket' = [basket EXCEPT ![b].at = "closed"]
  /\ coupon' = IF used THEN [coupon EXCEPT ![i].order = {}, ![i].status = "Unused"] ELSE coupon
  /\ UNCHANGED <<Redis, batch, couponClaim, raiser, setbacks>>

\* CancelUnpaidOrder and ApproveRefund.
ReleaseForOrderInTx(b) ==
  LET i == basket[b].coupon
      used == coupon[i].status = "Used" /\ coupon[i].order = {b}
  IN
  /\ basket[b].at = "open" /\ basket' = [basket EXCEPT ![b].at = "closed"]
  /\ coupon' = IF ~used THEN coupon
               ELSE [coupon EXCEPT ![i].order = {},
                                   ![i].status = IF coupon[i].late THEN "Expired" ELSE "Unused"]
  /\ UNCHANGED <<Redis, batch, couponClaim, raiser, setbacks>>

CouponTurnsLate(i) ==
  /\ coupon[i].status # "none" /\ ~coupon[i].late
  /\ coupon' = [coupon EXCEPT ![i].late = TRUE]
  /\ UNCHANGED <<Redis, batch, couponClaim, basket, raiser, setbacks>>

ExpireOverdue ==
  /\ \E i \in Slots : coupon[i].status = "Unused" /\ coupon[i].late
  /\ coupon' = [i \in Slots |-> IF coupon[i].status = "Unused" /\ coupon[i].late
                                  THEN [coupon[i] EXCEPT !.status = "Expired"] ELSE coupon[i]]
  /\ UNCHANGED <<Redis, batch, couponClaim, basket, raiser, setbacks>>

-----------------------------------------------------------------------------
ClaimWorks(c) ==
  \/ RaiseCouponStock(c)
  \/ \E u \in Holders : ClaimCouponAtomic(c, u) \/ PersistClaim(c, u) \/ RollbackClaim(c, u)

CouponNext ==
  \/ \E c \in Claimers : ClaimWorks(c) \/ \E u \in Holders : ClaimStarts(c, u)
  \/ ReconcileReads \/ ReconcileRaises \/ StockKeyLost \/ \E u \in Holders : UserKeyExpires(u)
  \/ \E b \in Baskets : UseInTx(b) \/ ReleaseForOrderInTx(b) \/ \E i \in Slots : GetUsable(b, i)
  \/ ExpireOverdue \/ \E i \in Slots : CouponTurnsLate(i)

CouponSpec == CouponInit /\ SetbacksInit /\ [][CouponNext]_couponVars

-----------------------------------------------------------------------------
(* Properties *)

\* Whatever the counters in Redis say, the batch is not over-issued, nobody has
\* more than the limit, and a coupon is on the order that used it and on no
\* other while that order lives.
CouponsInBounds ==
  /\ batch = Cardinality({i \in Slots : coupon[i].user # {}})
  /\ \A u \in Holders : Owned(u) <= PerUser
  /\ \A i \in Slots, b \in Baskets :
       (basket[b].at = "open" /\ basket[b].coupon = i)
         <=> (coupon[i].status = "Used" /\ coupon[i].order = {b})

\* A counter that says sold out too early, for a claim that was lost or a key
\* that was, is put right while coupons are left.
SoldOutEarly == couponStock.left <= 0 /\ batch < CouponTotal
StockComesBack == SoldOutEarly ~> ~SoldOutEarly
=============================================================================
