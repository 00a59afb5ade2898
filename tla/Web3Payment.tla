---------------------------- MODULE Web3Payment -----------------------------
(***************************************************************************)
(* On-chain payments: the buyer takes a nonce, signs with a wallet and the *)
(* wallet is parked in Redis; a transfer into the escrow contract, found   *)
(* by the listener of ChainListener, is settled by the consumer of         *)
(* web3.payment.confirmed.  The consumer trusts the parked wallet only: a  *)
(* transfer from another one, or after the parking ended, is not settled.  *)
(*                                                                         *)
(* The event reaches the queue at least once and is delivered until a      *)
(* delivery is acknowledged; passing failures are tried again at most      *)
(* Web3Tries times and end in the dead-letter queue, poison at once.       *)
(***************************************************************************)
EXTENDS PaymentBooks

CONSTANTS Wallets,    \* addresses
          Takers,     \* deliveries that may be handled side by side
          Web3Tries,  \* levels of the retry queue
          Cents,      \* what the order costs
          CentsPerToken, UnitsPerToken, ToleranceBps, \* WEB3_*
          Amounts     \* what transfers may carry, in units

ASSUME TriesAssumption == Web3Tries \in Nat
ASSUME PriceAssumption ==
  /\ Cents \in Nat /\ CentsPerToken \in Nat \ {0} /\ UnitsPerToken \in Nat \ {0}
  /\ ToleranceBps \in 0..10000 /\ Amounts \subseteq Nat

VARIABLES
  nonce,   \* web3:nonce:<user>:<order>
  parker,  \* VerifyAndPark
  parked,  \* paydown:web3:pending:<order>
  payer,   \* wallet of the transfer, NoWallet before it
  amount,  \* and what it carries, 0 before it
  message, \* web3.payment.confirmed
  tries,
  taker    \* HandleWeb3PaymentConfirmed

web3Vars == <<nonce, parker, parked, payer, amount, message, tries, taker>>

NoWallet  == "nobody"
IdleTaker == [at |-> "idle", pays |-> FALSE]
TakerStages == {"idle", "cleared", "anomaly", "bind", "write", "isolate",
                "unpark", "retry", "poison", "ack"}

Web3TypeOK ==
  /\ nonce \in BOOLEAN /\ amount \in Amounts \cup {0}
  /\ parker \in {"idle", "payable", "consumed"}
  /\ parked \in Wallets \cup {NoWallet} /\ payer \in Wallets \cup {NoWallet}
  /\ message \in {"none", "queued", "acked", "dead"}
  /\ tries \in 0..Web3Tries
  /\ taker \in [Takers -> [at : TakerStages, pays : BOOLEAN]]

Web3Init ==
  /\ nonce = FALSE /\ parker = "idle"
  /\ parked = NoWallet /\ payer = NoWallet
  /\ amount = 0
  /\ message = "none" /\ tries = 0
  /\ taker = [k \in Takers |-> IdleTaker]

-----------------------------------------------------------------------------
(* verifyOnchainAmount *)

\* What the order costs in the smallest units of the token, rounded down.
expectedTokenBaseUnits == (Cents * UnitsPerToken) \div CentsPerToken

\* The tolerance (in basis points) is taken off the expectation, rounded down.
verifyOnchainAmount(got) ==
  got >= (expectedTokenBaseUnits * (10000 - ToleranceBps)) \div 10000

-----------------------------------------------------------------------------
(* IssueNonce, VerifyAndPark *)

ParkKeeps == UNCHANGED <<booksVars, payer, amount, message, tries, taker>>

\* A second nonce voids the first.
IssueNonce ==
  /\ "web3" \in configured /\ payRow = "WaitPay"
  /\ nonce' = TRUE
  /\ ParkKeeps /\ UNCHANGED <<parker, parked>>

NonceExpires == nonce /\ nonce' = FALSE /\ ParkKeeps /\ UNCHANGED <<parker, parked>>

ParkChecked ==
  /\ "web3" \in configured /\ payRow = "WaitPay"
  /\ parker = "idle" /\ parker' = "payable"
  /\ ParkKeeps /\ UNCHANGED <<nonce, parked>>

\* Once: GET and DEL in one script.
ConsumeNonce ==
  /\ parker = "payable" /\ nonce' = FALSE
  /\ parker' = IF nonce THEN "consumed" ELSE "idle"
  /\ ParkKeeps /\ UNCHANGED parked

\* The signature fits the wallet or the request ends; web3.payment.pending is
\* read by nobody who changes state.
SetWeb3Pending ==
  /\ parker = "consumed" /\ parker' = "idle"
  /\ parked' \in Wallets \/ UNCHANGED parked
  /\ ParkKeeps /\ UNCHANGED nonce

PendingExpires ==
  /\ parked # NoWallet /\ parked' = NoWallet
  /\ ParkKeeps /\ UNCHANGED <<nonce, parker>>

\* The transfer is buried deep enough and the outbox has published it.
TransferConfirmed ==
  /\ payer = NoWallet /\ "web3" \in configured
  /\ payer' \in Wallets /\ amount' \in Amounts /\ message' = "queued"
  /\ UNCHANGED <<booksVars, nonce, parker, parked, tries, taker>>

-----------------------------------------------------------------------------
(* The consumer *)

TakerGoes(k, from, to) ==
  taker[k].at = from /\ taker' = [taker EXCEPT ![k] = [IdleTaker EXCEPT !.at = to]]

TakerKeeps == UNCHANGED <<nonce, parker, payer, amount>>

\* The outbox may publish again what has been acknowledged.
TakerStarts(k) ==
  /\ message \in {"queued", "acked"} /\ TakerGoes(k, "idle", "cleared")
  /\ TakerKeeps /\ UNCHANGED <<booksVars, parked, message, tries>>

\* The reads before the transaction; one that fails is a passing failure.
ReadFails(k, from) == "db_error" \in PayFaults /\ TakerGoes(k, from, "retry")

IsProviderCleared(k) ==
  /\ \/ cleared = Web3 /\ TakerGoes(k, "cleared", "ack")
     \/ cleared # Web3 /\ TakerGoes(k, "cleared", "anomaly")
     \/ ReadFails(k, "cleared")
  /\ TakerKeeps /\ UNCHANGED <<booksVars, parked, message, tries>>

HasProviderAnomaly(k) ==
  /\ \/ anomaly[Web3] # "none" /\ TakerGoes(k, "anomaly", "ack")
     \/ anomaly[Web3] = "none" /\ TakerGoes(k, "anomaly", "bind")
     \/ ReadFails(k, "anomaly")
  /\ TakerKeeps /\ UNCHANGED <<booksVars, parked, message, tries>>

\* A missing wallet is tried again, another one is poison; with the right one
\* the transaction begins and reads the order.
verifyBuyerBinding(k) ==
  /\ \/ /\ parked = payer /\ taker[k].at = "bind"
        /\ taker' = [taker EXCEPT ![k] = [at |-> "write", pays |-> payRow = "WaitPay"]]
     \/ parked = NoWallet /\ TakerGoes(k, "bind", "retry")
     \/ parked \notin {payer, NoWallet} /\ TakerGoes(k, "bind", "poison")
     \/ "redis_error" \in PayFaults /\ TakerGoes(k, "bind", "retry")
  /\ TakerKeeps /\ UNCHANGED <<booksVars, parked, message, tries>>

SettleConfirmedOrder(k) ==
  LET pays   == taker[k].pays
      enough == verifyOnchainAmount(amount)
  IN
  /\ \/ ~pays /\ TakerGoes(k, "write", "unpark") /\ RecordDuplicate(Web3)
     \/ pays /\ ~enough /\ TakerGoes(k, "write", "poison") /\ UNCHANGED booksVars
     \/ pays /\ enough /\ TakerGoes(k, "write", "unpark") /\ ClearAndConfirm(Web3)
     \/ /\ pays /\ enough /\ isUnfulfillable
        /\ TakerGoes(k, "write", "isolate") /\ UNCHANGED booksVars
     \/ /\ pays /\ enough /\ KeyTaken
        /\ TakerGoes(k, "write", "retry") /\ UNCHANGED booksVars
     \/ ReadFails(k, "write") /\ UNCHANGED booksVars
  /\ TakerKeeps /\ UNCHANGED <<parked, message, tries>>

\* Mutant: the delivery is acknowledged though the anomaly was not recorded.
MutWeb3Unfulfillable(k) ==
  /\ TakerGoes(k, "isolate", "ack")
  /\ RecordAnomaly(Web3, "fulfillment_failed") \/ UNCHANGED booksVars
  /\ TakerKeeps /\ UNCHANGED <<parked, message, tries>>

Web3Unfulfillable(k) ==
  /\ \/ TakerGoes(k, "isolate", "ack") /\ RecordAnomaly(Web3, "fulfillment_failed")
     \/ ReadFails(k, "isolate") /\ UNCHANGED booksVars
  /\ TakerKeeps /\ UNCHANGED <<parked, message, tries>>

DelWeb3Pending(k) ==
  /\ TakerGoes(k, "unpark", "ack")
  /\ parked' = NoWallet \/ ("redis_error" \in PayFaults /\ UNCHANGED parked)
  /\ TakerKeeps /\ UNCHANGED <<booksVars, message, tries>>

\* The first delivery to end it decides about the message; a copy that was
\* published again changes nothing any more.
TakerEnds(k) ==
  /\ taker[k].at \in {"retry", "poison", "ack"}
  /\ taker' = [taker EXCEPT ![k] = IdleTaker]
  /\ IF message # "queued" THEN UNCHANGED <<message, tries>>
     ELSE \/ /\ taker[k].at = "ack"
             /\ message' = "acked" /\ UNCHANGED tries
          \/ /\ taker[k].at = "retry" /\ tries < Web3Tries
             /\ tries' = tries + 1 /\ UNCHANGED message
          \/ /\ taker[k].at = "poison" \/ (taker[k].at = "retry" /\ tries = Web3Tries)
             /\ message' = "dead" /\ UNCHANGED tries
  /\ TakerKeeps /\ UNCHANGED <<booksVars, parked>>

TakerDies(k) ==
  /\ "death" \in PayFaults /\ taker[k].at # "idle"
  /\ taker' = [taker EXCEPT ![k] = IdleTaker]
  /\ TakerKeeps /\ UNCHANGED <<booksVars, parked, message, tries>>

TakerWorks(k) ==
  \/ IsProviderCleared(k) \/ HasProviderAnomaly(k) \/ verifyBuyerBinding(k)
  \/ SettleConfirmedOrder(k) \/ Web3Unfulfillable(k)
  \/ DelWeb3Pending(k) \/ TakerEnds(k)

Web3Next ==
  \/ IssueNonce \/ NonceExpires \/ ParkChecked \/ ConsumeNonce \/ SetWeb3Pending
  \/ PendingExpires \/ TransferConfirmed
  \/ \E k \in Takers : TakerStarts(k) \/ TakerWorks(k) \/ TakerDies(k)
=============================================================================
