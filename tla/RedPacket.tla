----------------------------- MODULE RedPacket -----------------------------
(***************************************************************************)
(* One red packet: its shares are dealt from a list in Redis, its money    *)
(* lies in escrow, and the database decides.  A share is taken in Redis    *)
(* first and booked in a transaction after; a sweep pays out the shares    *)
(* that were taken and not booked, and refunds what is left.  Ledger legs  *)
(* commit with the rows they pay for, so escrow is sent minus booked minus *)
(* refunded.                                                               *)
(***************************************************************************)
EXTENDS Setbacks, Sequences, FiniteSets, Functions

CONSTANTS Guests,
          PacketTotal, PacketCount,
          MaxTakes,     \* bound: how often a user takes a share
          PacketSweeps  \* processes that reconcile at a time

ASSUME PacketAssumption ==
  /\ IsFiniteSet(Guests)
  /\ PacketCount \in Nat \ {0} /\ PacketTotal \in Nat /\ PacketTotal >= PacketCount
  /\ MaxTakes \in Nat \ {0}

VARIABLES
  packet,   \* the row: status, remaining
  packetAge,      \* of the packet: young, open, expired, held (refundHoldForReconcile past)
  shares,   \* the list of amounts
  taken,    \* the claimed hash: [share, nth take of the user, state]
  booked,   \* claims in the database, and what they paid
  refunded, \* what went back to the sender
  sender,   \* the request that creates the packet
  guest,    \* the request of each user
  sweep     \* reconcilers

packetVars == <<packet, packetAge, shares, taken, booked, refunded, sender, guest, sweep, setbacks>>

Amount == 0..PacketTotal
NoMark == [share |-> 0, nth |-> 0, state |-> "none"]
IdleGuest == [at |-> "idle", share |-> 0, takes |-> 0]
IdleSweep == [at |-> "idle", expire |-> FALSE, poolGone |-> FALSE, pending |-> FALSE,
              seen |-> [u \in Guests |-> NoMark], todo |-> {}, of |-> {}]

\* SplitRedPacket: at most twice the mean of what is left, less one, and a
\* share of 1 for each of the rest; then shuffled.
SplitRedPacket(total, count) ==
  LET rest(s, i) == total - SumFunctionOnSet(s, 1..(i - 1))
      fits(s, i) == \/ s[i] = 1
                    \/ /\ s[i] <= (rest(s, i) \div (count - i + 1)) * 2 - 1
                       /\ s[i] <= rest(s, i) - (count - i)
      dealt == {s \in [1..count -> 1..total] :
                  (\A i \in 1..(count - 1) : fits(s, i)) /\ s[count] = rest(s, count)}
      orders == Bijection(1..count, 1..count)
  IN {[i \in 1..count |-> s[p[i]]] : s \in dealt, p \in orders}

PacketTypeOK ==
  /\ packet \in [status : {"none", "active", "finished", "refunded"}, remaining : 0..PacketCount]
  /\ packetAge \in {"young", "open", "expired", "held"}
  /\ shares \in UNION {[1..n -> Amount] : n \in 0..PacketCount}
  /\ taken \in [Guests -> [share : Amount, nth : 0..MaxTakes,
                           state : {"none", "fresh", "old", "repair"}]]
  /\ booked \in [Guests -> Amount] /\ refunded \in Amount
  /\ sender.at \in {"idle", "prepare", "refund", "release", "done"}
  /\ guest \in [Guests -> [at : {"idle", "checked", "popped", "failed", "closed", "rollback"},
                           share : Amount, takes : 0..MaxTakes]]
  /\ sweep \in [PacketSweeps ->
       [at : {"idle", "pool", "marks", "claims", "mend", "claim", "refund", "release"},
        expire : BOOLEAN, poolGone : BOOLEAN, pending : BOOLEAN,
        seen : [Guests -> [share : Amount, nth : 0..MaxTakes,
                           state : {"none", "fresh", "old", "repair"}]],
        todo : SUBSET Guests, of : SUBSET Guests]]

PacketInit ==
  /\ packet = [status |-> "none", remaining |-> 0] /\ packetAge = "young"
  /\ shares = <<>> /\ taken = [u \in Guests |-> NoMark]
  /\ booked = [u \in Guests |-> 0] /\ refunded = 0
  /\ sender = [at |-> "idle", dealt |-> <<>>]
  /\ guest = [u \in Guests |-> IdleGuest]
  /\ sweep = [s \in PacketSweeps |-> IdleSweep]

GuestAt(u, at) ==
  guest' = [guest EXCEPT ![u] = [@ EXCEPT !.at = at, !.share = IF at = "idle" THEN 0 ELSE guest[u].share]]
SweepAt(s, at) ==
  sweep' = [sweep EXCEPT ![s] = [IdleSweep EXCEPT !.at = at]]

-----------------------------------------------------------------------------
(* Transactions *)

\* claimTx: the unique index, DecrRemaining, MarkFinishedIfDrained, the money.
CanClaim(u) == booked[u] = 0 /\ packet.status = "active" /\ packet.remaining > 0
PacketClosed(u) == booked[u] = 0 /\ ~CanClaim(u)

Claims(u, share) ==
  /\ booked' = [booked EXCEPT ![u] = share]
  /\ packet' = [status |-> IF packet.remaining = 1 THEN "finished" ELSE "active",
                remaining |-> packet.remaining - 1]

\* The transaction of refundRedPacketLeft, under the row's lock.
RefundLeft ==
  IF packet.status = "active"
    THEN /\ packet' = [packet EXCEPT !.status = "refunded"]
         /\ refunded' = PacketTotal - SumFunction(booked)
    ELSE UNCHANGED <<packet, refunded>>

-----------------------------------------------------------------------------
(* Create *)

CreatePacket ==
  /\ packet.status = "none"
  /\ packet' = [status |-> "active", remaining |-> PacketCount]
  /\ \E dealt \in SplitRedPacket(PacketTotal, PacketCount) :
       sender' = [at |-> "prepare", dealt |-> dealt]
  /\ UNCHANGED <<packetAge, shares, taken, booked, refunded, guest, sweep, setbacks>>

PrepareRedPacket ==
  /\ sender.at = "prepare"
  /\ \/ Smooth /\ shares' = sender.dealt /\ sender' = [at |-> "done", dealt |-> <<>>]
     \/ Setback /\ shares' \in {shares, sender.dealt} /\ sender' = [at |-> "refund", dealt |-> <<>>]
     \/ Setback /\ UNCHANGED shares /\ sender' = [at |-> "done", dealt |-> <<>>]
  /\ UNCHANGED <<packet, packetAge, taken, booked, refunded, guest, sweep>>

RefundUnprepared ==
  /\ \/ /\ sender.at = "refund" /\ UNCHANGED shares
        /\ \/ Smooth /\ RefundLeft /\ sender' = [sender EXCEPT !.at = "release"]
           \/ Setback /\ sender' = [sender EXCEPT !.at = "done"] /\ UNCHANGED <<packet, refunded>>
     \/ /\ sender.at = "release" /\ sender' = [sender EXCEPT !.at = "done"]
        /\ \/ Smooth /\ shares' = <<>>
           \/ Setback /\ UNCHANGED shares
        /\ UNCHANGED <<packet, refunded>>
  /\ UNCHANGED <<packetAge, taken, booked, guest, sweep>>

-----------------------------------------------------------------------------
(* Claim *)

CheckPacket(u) ==
  /\ guest[u].at = "idle" /\ guest[u].takes < MaxTakes
  /\ packet.status = "active" /\ packetAge \in {"young", "open"}
  /\ GuestAt(u, "checked")
  /\ UNCHANGED <<packet, packetAge, shares, taken, booked, refunded, sender, sweep, setbacks>>

\* claimRedPacketScript, whose reply may be lost.
PopShare(u) ==
  LET nth == guest[u].takes + 1 IN
  /\ guest[u].at = "checked"
  /\ \/ /\ taken[u] # NoMark \/ shares = <<>>
        /\ Smooth
        /\ GuestAt(u, "idle") /\ UNCHANGED <<shares, taken>>
     \/ /\ taken[u] = NoMark /\ shares # <<>>
        /\ shares' = Tail(shares)
        /\ taken' = [taken EXCEPT ![u] = [share |-> Head(shares), nth |-> nth, state |-> "fresh"]]
        /\ \/ Smooth /\ guest' = [guest EXCEPT ![u] =
                          [at |-> "popped", share |-> Head(shares), takes |-> nth]]
           \/ Setback /\ guest' = [guest EXCEPT ![u] = [IdleGuest EXCEPT !.takes = nth]]
  /\ UNCHANGED <<packet, packetAge, booked, refunded, sender, sweep>>

\* With a mishap the request cannot tell whether it committed.
ClaimTx(u) ==
  /\ guest[u].at = "popped"
  /\ \/ /\ CanClaim(u) /\ Claims(u, guest[u].share)
        /\ \/ Smooth /\ GuestAt(u, "idle")
           \/ Setback /\ GuestAt(u, "failed")
     \/ /\ UNCHANGED <<packet, booked>>
        /\ \/ Setback /\ GuestAt(u, "failed")
           \/ Smooth /\ booked[u] > 0 /\ GuestAt(u, "failed")
           \/ Smooth /\ PacketClosed(u) /\ GuestAt(u, "closed")
  /\ UNCHANGED <<packetAge, shares, taken, refunded, sender, sweep>>

\* The database is asked before a share goes back.
CheckClaim(u) ==
  /\ guest[u].at \in {"failed", "closed"}
  /\ \/ Setback /\ GuestAt(u, "idle")
     \/ Smooth /\ GuestAt(u, IF booked[u] = 0 /\ guest[u].at = "failed" THEN "rollback" ELSE "idle")
  /\ UNCHANGED <<packet, packetAge, shares, taken, booked, refunded, sender, sweep>>

\* Mutant: also what a sweep is paying out is given back.
MutRollbackShare(u) ==
  LET back == taken[u].state # "none" IN
  /\ guest[u].at = "rollback" /\ GuestAt(u, "idle") /\ Smooth
  /\ shares' = IF back THEN <<guest[u].share>> \o shares ELSE shares
  /\ taken' = IF back THEN [taken EXCEPT ![u] = NoMark] ELSE taken
  /\ UNCHANGED <<packet, packetAge, booked, refunded, sender, sweep>>

\* rollbackRedPacketClaimScript: not what a sweep is paying out.
RollbackShare(u) ==
  LET back == taken[u].state \in {"fresh", "old"} IN
  /\ guest[u].at = "rollback" /\ GuestAt(u, "idle")
  /\ \/ /\ Smooth \/ Setback
        /\ shares' = IF back THEN <<guest[u].share>> \o shares ELSE shares
        /\ taken' = IF back THEN [taken EXCEPT ![u] = NoMark] ELSE taken
     \/ Setback /\ UNCHANGED <<shares, taken>>
  /\ UNCHANGED <<packet, packetAge, booked, refunded, sender, sweep>>

GuestDies(u) ==
  /\ guest[u].at \notin {"idle", "checked"} /\ Setback /\ GuestAt(u, "idle")
  /\ UNCHANGED <<packet, packetAge, shares, taken, booked, refunded, sender, sweep>>

GuestWorks(u) == PopShare(u) \/ ClaimTx(u) \/ CheckClaim(u) \/ RollbackShare(u)

-----------------------------------------------------------------------------
(* reconcileRedPacket, by the reconcile cron or an operator, or by the expire *)
(* cron, which refunds after it.                                              *)

\* The result is in: the expire cron goes on to the refund, unless it waits.
Concludes(s, pending) ==
  SweepAt(s, IF sweep[s].expire /\ (pending => packetAge = "held") THEN "refund" ELSE "idle")

\* GetExpired, ListActive.
SweepStarts(s, expire) ==
  /\ sweep[s].at = "idle" /\ packet.status = "active"
  /\ expire => (packetAge \in {"expired", "held"} /\ PacketTotal > SumFunction(booked))
  /\ sweep' = [sweep EXCEPT ![s] = [IdleSweep EXCEPT !.at = "pool", !.expire = expire]]
  /\ UNCHANGED <<packet, packetAge, shares, taken, booked, refunded, sender, guest, setbacks>>

\* The pool first, then the marks, then the claims.
SweepReads(s) ==
  /\ \/ /\ sweep[s].at = "pool" /\ Smooth
        /\ sweep' = [sweep EXCEPT ![s] =
             [@ EXCEPT !.at = "marks", !.poolGone = packetAge # "young" /\ shares = <<>>]]
     \/ /\ sweep[s].at = "marks" /\ Smooth
        /\ sweep' = [sweep EXCEPT ![s] = [@ EXCEPT !.at = "claims", !.seen = taken]]
     \/ /\ sweep[s].at = "claims" /\ Smooth
        /\ LET todo == {u \in Guests : sweep[s].seen[u] # NoMark /\ booked[u] = 0}
               young == {u \in todo : sweep[s].seen[u].state = "fresh"}
           IN sweep' = [sweep EXCEPT ![s] =
                [@ EXCEPT !.at = "mend", !.todo = todo \ young, !.pending = young # {}]]
     \/ sweep[s].at \in {"pool", "marks", "claims"} /\ Setback /\ Concludes(s, TRUE)
  /\ UNCHANGED <<packet, packetAge, shares, taken, booked, refunded, sender, guest>>

\* LockRedPacketClaimForRepair.
SweepLocks(s) ==
  /\ sweep[s].at = "mend"
  /\ \E u \in sweep[s].todo :
       LET same == taken[u].nth = sweep[s].seen[u].nth
                     /\ (taken[u].state = "repair") = (sweep[s].seen[u].state = "repair")
           locked == IF same THEN [taken EXCEPT ![u].state = "repair"] ELSE taken
           rest == [sweep[s] EXCEPT !.todo = @ \ {u}]
       IN \/ /\ Smooth /\ taken' = locked
             /\ sweep' = [sweep EXCEPT ![s] =
                            IF same THEN [rest EXCEPT !.at = "claim", !.of = {u}] ELSE rest]
          \/ /\ Setback /\ taken' \in {taken, locked}
             /\ sweep' = [sweep EXCEPT ![s] = [rest EXCEPT !.pending = TRUE]]
  /\ UNCHANGED <<packet, packetAge, shares, booked, refunded, sender, guest>>

\* claimTx for the share that was locked; a closed packet ends the loop.
SweepClaims(s) ==
  /\ sweep[s].at = "claim"
  /\ \E u \in sweep[s].of :
       LET mends == [sweep[s] EXCEPT !.at = "mend", !.of = {}] IN
       \/ /\ CanClaim(u) /\ Claims(u, sweep[s].seen[u].share)
          /\ Smooth \/ Setback
          /\ sweep' = [sweep EXCEPT ![s] = mends]
       \/ /\ UNCHANGED <<packet, booked>>
          /\ \/ booked[u] > 0 /\ Smooth /\ sweep' = [sweep EXCEPT ![s] = mends]
             \/ PacketClosed(u) /\ Smooth /\ sweep' = [sweep EXCEPT ![s] = [mends EXCEPT !.todo = {}]]
             \/ Setback /\ sweep' = [sweep EXCEPT ![s] = [mends EXCEPT !.pending = TRUE]]
  /\ UNCHANGED <<packetAge, shares, taken, refunded, sender, guest>>

\* Without a pool nobody can take what is left.
SweepDecides(s) ==
  /\ sweep[s].at = "mend" /\ sweep[s].todo = {}
  /\ IF ~sweep[s].pending /\ sweep[s].poolGone
          /\ packet.status = "active" /\ packet.remaining > 0
       THEN SweepAt(s, "refund")
       ELSE Concludes(s, sweep[s].pending)
  /\ UNCHANGED <<packet, packetAge, shares, taken, booked, refunded, sender, guest, setbacks>>

SweepRefunds(s) ==
  /\ \/ /\ sweep[s].at = "refund" /\ UNCHANGED shares
        /\ \/ Smooth /\ RefundLeft /\ SweepAt(s, "release")
           \/ Setback /\ SweepAt(s, "idle") /\ UNCHANGED <<packet, refunded>>
     \/ /\ sweep[s].at = "release" /\ SweepAt(s, "idle")
        /\ \/ Smooth /\ shares' = <<>>
           \/ Setback /\ UNCHANGED shares
        /\ UNCHANGED <<packet, refunded>>
  /\ UNCHANGED <<packetAge, taken, booked, sender, guest>>

SweepDies(s) ==
  /\ sweep[s].at # "idle" /\ Setback /\ SweepAt(s, "idle")
  /\ UNCHANGED <<packet, packetAge, shares, taken, booked, refunded, sender, guest>>

SweepWorks(s) ==
  SweepReads(s) \/ SweepLocks(s) \/ SweepClaims(s) \/ SweepDecides(s) \/ SweepRefunds(s)

-----------------------------------------------------------------------------
(* Time, and Redis *)

\* claimOrphanGrace has passed since a share was taken: of interest until it is
\* booked.
MarkAges(u) ==
  /\ taken[u].state = "fresh" /\ booked[u] = 0 /\ packet.status = "active"
  /\ taken' = [taken EXCEPT ![u].state = "old"]
  /\ UNCHANGED <<packet, packetAge, shares, booked, refunded, sender, guest, sweep, setbacks>>

PacketAges ==
  /\ packet.status = "active" /\ packetAge # "held"
  /\ packetAge' = CASE packetAge = "young" -> "open" [] packetAge = "open" -> "expired" [] packetAge = "expired" -> "held"
  /\ UNCHANGED <<packet, shares, taken, booked, refunded, sender, guest, sweep, setbacks>>

RedisForgets ==
  /\ packet.status = "active" /\ Setback
  /\ shares' = <<>> /\ taken' = [u \in Guests |-> NoMark]
  /\ UNCHANGED <<packet, packetAge, booked, refunded, sender, guest, sweep>>

PacketNext ==
  \/ CreatePacket \/ PrepareRedPacket \/ RefundUnprepared
  \/ \E u \in Guests : CheckPacket(u) \/ GuestWorks(u) \/ GuestDies(u) \/ MarkAges(u)
  \/ \E s \in PacketSweeps : SweepWorks(s) \/ SweepDies(s)
                             \/ \E expire \in BOOLEAN : SweepStarts(s, expire)
  \/ PacketAges \/ RedisForgets

PacketSpec == PacketInit /\ SetbacksInit /\ [][PacketNext]_packetVars

-----------------------------------------------------------------------------
(* Properties *)

Unbooked == [u \in Guests |-> IF booked[u] = 0 THEN taken[u].share ELSE 0]

\* No share is dealt twice, whatever is rolled back, repaired or paid in the
\* meantime: what can still be taken or paid never exceeds what is in escrow.
SharesInEscrow ==
  packet.status = "active" =>
    SumFunction(shares) + SumFunction(Unbooked) <= PacketTotal - SumFunction(booked)

\* Escrow is neither overdrawn nor left with a rest, in whichever way the
\* packet comes to its end.
EscrowCovers ==
  /\ SumFunction(booked) + refunded <= PacketTotal
  /\ packet.status \in {"finished", "refunded"} => SumFunction(booked) + refunded = PacketTotal

\* The two: no share without money behind it, no money without its end.
PacketMoney == SharesInEscrow /\ EscrowCovers

\* Every packet comes to its end, also one that never got its pool or lost it.
PacketOpen == packet.status = "active"
PacketEnds == PacketOpen ~> ~PacketOpen
=============================================================================
