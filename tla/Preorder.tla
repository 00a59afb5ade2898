------------------------------ MODULE Preorder ------------------------------
(***************************************************************************)
(* Pre-orders of one product: a deposit in the deposit window, the rest in *)
(* the final window, and the deposit is forfeited afterwards.  The money   *)
(* goes straight to the seller's wallet.                                   *)
(***************************************************************************)
EXTENDS StockBuckets, FiniteSets, Functions

CONSTANTS Presales,     \* orders, each of a buyer of its own,
          SelfBought,   \* but these are the seller's
          Errands,      \* requests and cron jobs at a time
          DepositCents, FinalCents, Savings, PresaleNum

ASSUME PreorderAssumption ==
  /\ IsFiniteSet(Presales) /\ SelfBought \subseteq Presales /\ "boss" \notin Presales
  /\ IsFiniteSet(Errands)
  /\ {DepositCents, FinalCents} \subseteq Nat \ {0} /\ {Savings, PresaleNum} \subseteq Nat

VARIABLES
  season,    \* the window the clock is in
  presale,   \* order rows: preorder_stage, type
  net,       \* cents of an order that its buyer has paid, by the ledger
  purse,     \* balances
  withdrawn, \* what the seller has spent of its balance
  rack,      \* pieces: num; in Redis available, reserved
  unmoved,   \* orders with stock_commit_pending
  errand,    \* requests and jobs: step, order, failed tries
  misplaced  \* history: how often a call that reported a failure had moved a piece,
             \* or had written the order whose piece is then given back

preorderVars == <<season, presale, net, purse, withdrawn, rack, unmoved, errand, misplaced, setbacks>>

Accounts == (Presales \ SelfBought) \cup {"boss"}
Payer(o) == IF o \in SelfBought THEN "boss" ELSE o
NoErrand == [at |-> "idle", order |-> {}, tries |-> 0]

PreorderTypeOK ==
  /\ season \in {"deposit", "final", "lapsed"}
  /\ presale \in [Presales -> [stage : {"None", "DepositPaid", "FinalPaid", "Forfeited"},
                               type : {"none", "WaitPay", "WaitShip", "Closed"}]]
  /\ net \in [Presales -> Int] /\ purse \in [Accounts -> Nat] /\ withdrawn \in Nat
  /\ rack \in [num : Nat, available : Int, reserved : Nat]
  /\ errand \in [Errands ->
       [at : {"idle", "reserve", "deposit", "final", "cancel", "forfeit", "commit", "release"},
        order : {S \in SUBSET Presales : Cardinality(S) <= 1}, tries : 0..(StockCommitRetries - 1)]]
  /\ unmoved \subseteq Presales /\ misplaced \in Nat

PreorderInit ==
  /\ season = "deposit"
  /\ presale = [o \in Presales |-> [stage |-> "None", type |-> "none"]]
  /\ net = [o \in Presales |-> 0] /\ purse = [a \in Accounts |-> Savings] /\ withdrawn = 0
  /\ rack = [num |-> PresaleNum, available |-> PresaleNum, reserved |-> 0]
  /\ errand = [e \in Errands |-> NoErrand] /\ unmoved = {} /\ misplaced = 0

Sent(e, at) == errand' = [errand EXCEPT ![e] = IF at = "idle" THEN NoErrand ELSE [@ EXCEPT !.at = at]]
Begins(e, at, o) == errand[e] = NoErrand /\ errand' = [errand EXCEPT ![e] = [at |-> at, order |-> {o}, tries |-> 0]]
On(e, at, o) == errand[e] = [at |-> at, order |-> {o}, tries |-> 0]

Row(o, stage, type) == presale' = [presale EXCEPT ![o] = [stage |-> stage, type |-> type]]
Awaits(o) == presale[o] = [stage |-> "DepositPaid", type |-> "WaitPay"]

\* Both balances are read under their locks, the second after the first write.
DebitUser(o, cents) ==
  /\ purse[Payer(o)] >= cents
  /\ LET debited == [purse EXCEPT ![Payer(o)] = @ - cents]
     IN purse' = [debited EXCEPT !["boss"] = @ + cents]
  /\ net' = [net EXCEPT ![o] = @ + cents]

\* Mutant: the deposit is taken back although the seller has spent it.
MutSellerCovers == TRUE

\* Otherwise the transaction rolls back.
SellerCovers == purse["boss"] >= DepositCents

\* The buyer's balance is the one read first, unless the buyer is the seller.
RefundUser(o) ==
  LET debited == [purse EXCEPT !["boss"] = @ - DepositCents]
      before  == IF Payer(o) = "boss" THEN debited["boss"] ELSE purse[Payer(o)]
  IN /\ purse' = [debited EXCEPT ![Payer(o)] = before + DepositCents]
     /\ net' = [net EXCEPT ![o] = @ - DepositCents]

Books == <<presale, net, purse>>
NoneMisplaced == UNCHANGED <<unmoved, misplaced>>

-----------------------------------------------------------------------------
(* Requests; the window is checked when one starts *)

PayDeposit(e, o) ==
  /\ season = "deposit" /\ presale[o].type = "none"
  /\ \A d \in Errands : errand[d].order # {o}
  /\ Begins(e, "reserve", o) /\ NoneMisplaced /\ UNCHANGED <<season, Books, withdrawn, rack, setbacks>>

PayFinal(e, o) ==
  /\ season = "final" /\ presale[o].stage = "DepositPaid"
  /\ Begins(e, "final", o) /\ NoneMisplaced /\ UNCHANGED <<season, Books, withdrawn, rack, setbacks>>

CancelPreorderInDepositWindow(e, o) ==
  /\ season = "deposit" /\ presale[o].stage = "DepositPaid"
  /\ Begins(e, "cancel", o) /\ NoneMisplaced /\ UNCHANGED <<season, Books, withdrawn, rack, setbacks>>

ListUnpaidFinalBefore(e, o) ==
  /\ season = "lapsed" /\ Awaits(o)
  /\ Begins(e, "forfeit", o) /\ NoneMisplaced /\ UNCHANGED <<season, Books, withdrawn, rack, setbacks>>

-----------------------------------------------------------------------------
(* Their steps *)

Holds1    == rack' = PieceReserved(rack)
PutsBack1 == rack' = PieceReleased(rack)

ReservePiece(e) ==
  /\ errand[e].at = "reserve" /\ NoneMisplaced /\ UNCHANGED <<season, Books, withdrawn>>
  /\ \/ rack.available > 0 /\ Smooth /\ Holds1 /\ Sent(e, "deposit")
     \/ rack.available <= 0 /\ Smooth /\ UNCHANGED rack /\ Sent(e, "idle")
     \/ rack.available > 0 /\ Setback /\ (Holds1 \/ UNCHANGED rack) /\ Sent(e, "idle")

\* The order, the debit and MarkDepositPaid; the piece goes back if they fail, and
\* also if they commit and the reply is lost.
DepositTx(e, o) ==
  /\ On(e, "deposit", o) /\ UNCHANGED <<season, withdrawn, rack, unmoved>>
  /\ \/ /\ DebitUser(o, DepositCents) /\ Row(o, "DepositPaid", "WaitPay")
        /\ \/ Smooth /\ Sent(e, "idle") /\ UNCHANGED misplaced
           \/ Setback /\ Sent(e, "release") /\ misplaced' = misplaced + 1
     \/ /\ UNCHANGED <<Books, misplaced>> /\ Sent(e, "release")
        /\ (purse[Payer(o)] < DepositCents /\ Smooth) \/ Setback

\* The debit, DeductStock and MarkFinalPaid.
FinalTx(e, o) ==
  LET can == Awaits(o) /\ purse[Payer(o)] >= FinalCents /\ rack.num > 0 IN
  /\ On(e, "final", o) /\ NoneMisplaced /\ UNCHANGED <<season, withdrawn>>
  /\ \/ /\ can /\ Smooth /\ DebitUser(o, FinalCents) /\ Row(o, "FinalPaid", "WaitShip")
        /\ rack' = [rack EXCEPT !.num = @ - 1] /\ Sent(e, "commit")
     \/ /\ UNCHANGED <<Books, rack>> /\ Sent(e, "idle")
        /\ (~can /\ Smooth) \/ Setback

\* refundUser and ResetPreorderOnCancel.
CancelTx(e, o) ==
  LET can == Awaits(o) /\ SellerCovers IN
  /\ On(e, "cancel", o) /\ NoneMisplaced /\ UNCHANGED <<season, withdrawn, rack>>
  /\ \/ can /\ Smooth /\ RefundUser(o) /\ Row(o, "None", "Closed") /\ Sent(e, "release")
     \/ UNCHANGED Books /\ Sent(e, "idle") /\ ((~can /\ Smooth) \/ Setback)

\* Mutant: the row is not compared again.
MutForfeitOne(e, o) ==
  /\ On(e, "forfeit", o) /\ NoneMisplaced /\ UNCHANGED <<season, withdrawn, rack, net, purse>>
  /\ Smooth /\ Row(o, "Forfeited", "Closed") /\ Sent(e, "release")

ForfeitOne(e, o) ==
  /\ On(e, "forfeit", o) /\ NoneMisplaced /\ UNCHANGED <<season, withdrawn, rack, net, purse>>
  /\ \/ Awaits(o) /\ Smooth /\ Row(o, "Forfeited", "Closed") /\ Sent(e, "release")
     \/ UNCHANGED presale /\ Sent(e, "idle") /\ ((~Awaits(o) /\ Smooth) \/ Setback)

\* ReleaseReservation is tried once; a piece that is not in reserved is given up.
MovePiece(e) ==
  /\ \/ errand[e].at = "release" /\ Smooth /\ PutsBack1
     \/ errand[e].at = "release" /\ Setback /\ (PutsBack1 \/ UNCHANGED rack)
     \/ errand[e].at = "commit" /\ Smooth /\ rack' = PieceCommitted(rack)
  /\ Sent(e, "idle") /\ NoneMisplaced /\ UNCHANGED <<season, Books, withdrawn>>

\* The script may have run; after the last try the order is flagged, and that
\* write may fail too.
FinalCommitFails(e) ==
  /\ errand[e].at = "commit" /\ TryFails(errand[e].tries)
  /\ rack' \in {rack, PieceCommitted(rack)}
  /\ misplaced' = misplaced + (rack.reserved - rack'.reserved)
  /\ IF errand[e].tries + 1 < StockCommitRetries
       THEN errand' = [errand EXCEPT ![e] = [@ EXCEPT !.tries = errand[e].tries + 1]] /\ UNCHANGED unmoved
       ELSE Sent(e, "idle") /\ unmoved' \in {unmoved, unmoved \cup errand[e].order}
  /\ UNCHANGED <<season, Books, withdrawn>>

\* retryPendingCommits for one order, from clearing its flag to setting it again
\* when the script fails.
RetryUnmoved(o) ==
  /\ o \in unmoved
  /\ \/ Smooth /\ rack' = PieceCommitted(rack) /\ unmoved' = unmoved \ {o} /\ UNCHANGED misplaced
     \/ /\ Setback /\ rack' \in {rack, PieceCommitted(rack)}
        /\ \/ unmoved' = unmoved /\ misplaced' = misplaced + (rack.reserved - rack'.reserved)
           \/ unmoved' = unmoved \ {o} /\ UNCHANGED misplaced
  /\ UNCHANGED <<season, Books, withdrawn, errand>>

ErrandDies(e) ==
  /\ errand[e].at # "idle" /\ Setback /\ Sent(e, "idle")
  /\ NoneMisplaced /\ UNCHANGED <<season, Books, withdrawn, rack>>

-----------------------------------------------------------------------------
SeasonPasses ==
  /\ season # "lapsed" /\ season' = IF season = "deposit" THEN "final" ELSE "lapsed"
  /\ NoneMisplaced /\ UNCHANGED <<Books, withdrawn, rack, errand, setbacks>>

\* The seller pays for something of its own.
BossSpends ==
  /\ Setback /\ purse["boss"] > 0 /\ withdrawn' = withdrawn + purse["boss"]
  /\ purse' = [purse EXCEPT !["boss"] = 0]
  /\ NoneMisplaced /\ UNCHANGED <<season, presale, net, rack, errand>>

ErrandWorks(e) ==
  \/ ReservePiece(e) \/ MovePiece(e) \/ FinalCommitFails(e)
  \/ \E o \in Presales : DepositTx(e, o) \/ FinalTx(e, o) \/ CancelTx(e, o) \/ ForfeitOne(e, o)

PreorderNext ==
  \/ \E e \in Errands : ErrandWorks(e) \/ ErrandDies(e)
  \/ \E e \in Errands, o \in Presales :
       \/ PayDeposit(e, o) \/ PayFinal(e, o)
       \/ CancelPreorderInDepositWindow(e, o) \/ ListUnpaidFinalBefore(e, o)
  \/ (\E o \in Presales : RetryUnmoved(o)) \/ SeasonPasses \/ BossSpends

PreorderSpec == PreorderInit /\ SetbacksInit /\ [][PreorderNext]_preorderVars

-----------------------------------------------------------------------------
(* Properties *)

\* The final payment, a cancellation and the forfeit may meet on one order: the
\* buyer has paid what its stage says, and no cent is made or lost, the seller's
\* own pre-orders included.
PresaleMoney ==
  /\ \A o \in Presales : net[o] =
       CASE presale[o].stage = "FinalPaid" -> DepositCents + FinalCents
         [] presale[o].stage \in {"DepositPaid", "Forfeited"} -> DepositCents
         [] presale[o].stage = "None" -> 0
  /\ \A o \in Presales \ SelfBought : purse[o] = Savings - net[o]
  /\ purse["boss"] + withdrawn =
       Savings + SumFunction([o \in Presales \ SelfBought |-> net[o]])

Bound == {e \in Errands : errand[e].at \in {"deposit", "release", "commit"}}

\* Orders whose rest is due, requests under way, sales that reserved still has to
\* be told of.
PiecesHeld ==
  Cardinality({o \in Presales : Awaits(o)}) + Cardinality(Bound) + Cardinality(unmoved)

\* Every unpaid remainder has its piece in reserved, but for one piece for each
\* call that reported a failure of something it had done: no other error, death,
\* race or retry takes it.  When nothing fails, reserved is those pieces and the
\* ones on their way, and the rest of num is available.
PresalePieces ==
  /\ rack.reserved + misplaced >= PiecesHeld
  /\ setbacks = 0 =>
       /\ rack.reserved = PiecesHeld
       /\ rack.available + rack.reserved
            = rack.num + Cardinality({e \in Bound : errand[e].at = "commit"})

\* Money and pieces go with the stages.
PresaleBooks == PresaleMoney /\ PresalePieces

\* A deposit is settled one way or another, and no order waits for ever.
PresaleOpen == \E o \in Presales : Awaits(o)
PresaleEnds == PresaleOpen ~> ~PresaleOpen
=============================================================================
