-------------------------- MODULE OrderFunds_proofs --------------------------
(***************************************************************************)
(* Proofs about OrderFunds, for any sets of orders and users, any wallets  *)
(* and any number of refund requests.                                      *)
(***************************************************************************)
EXTENDS OrderFunds, OrderLifecycle_proofs, FiniteSetTheorems

Accounts == Users \cup {"escrow", "external"}

\* A step on the money moves the row as the lifecycle does, or not at all.
LEMMA FundsStepLife ==
  ASSUME [FundsNext]_fundsVars
  PROVE  [LifeNext]_lifeVars
<1>1. CASE UNCHANGED fundsVars
  BY <1>1 DEF fundsVars
<1>2. ASSUME NEW o \in Orders, MoveRow(o)
      PROVE  [LifeNext]_lifeVars
  BY <1>2 DEF MoveRow, LifeNext
<1>3. ASSUME NEW o \in Orders, PayByWallet(o) \/ PayExternal(o)
      PROVE  [LifeNext]_lifeVars
  BY <1>3 DEF PayByWallet, PayExternal, LifeNext
<1>4. ASSUME NEW o \in Orders,
             \/ CompleteOrder(o) \/ RefundApproved(o)
             \/ \E s \in RefundAllowedFrom : RefundRejected(o, s)
      PROVE  [LifeNext]_lifeVars
  BY <1>4 DEF CompleteOrder, RefundApproved, RefundRejected, LifeNext
<1>5. ASSUME NEW o \in Orders,
             \/ SettleCompletedOrder(o) \/ SettleRefund(o) \/ SettleRefundShort(o)
             \/ RecordRefundShortfall(o) \/ ShortfallLost(o) \/ DeleteOrder(o)
             \/ \E k \in {"settle", "refund"} : Compensate(k, o) \/ WorkLost(k, o)
             \/ \E to \in {"reviewing", "resolved", "refunded", "rejected"} : OperatorDecides(o, to)
      PROVE  UNCHANGED lifeVars
  BY <1>5 DEF SettleCompletedOrder, SettleRefund, SettleRefundShort, OnlySettlement,
       RecordRefundShortfall, ShortfallLost, OnlyAnomaly, DeleteOrder, Compensate,
       WorkLost, OperatorDecides
<1>6. ASSUME NEW u \in Users, NEW d \in {-1, 1}, MovesOutside(u, d)
      PROVE  UNCHANGED lifeVars
  BY <1>6 DEF MovesOutside
<1> QED
  BY <1>1, <1>2, <1>3, <1>4, <1>5, <1>6 DEF FundsNext

LEMMA FundsSpecLife == FundsSpec => LifeSpec
<1>1. FundsInit => LifeInit
  BY DEF FundsInit
<1> QED
  BY <1>1, FundsStepLife, PTL DEF FundsSpec, LifeSpec

-----------------------------------------------------------------------------
(* Types *)

\* The steps that move money: a payment, a payout, a refund.
PayStep(o) == PayByWallet(o) \/ PayExternal(o)

Settlement(o) == SettleCompletedOrder(o) \/ SettleRefund(o)

\* All other steps leave the books and the clearing record alone.
LEMMA BooksUnchanged ==
  ASSUME [FundsNext]_fundsVars, \A o \in Orders : ~ PayStep(o) /\ ~ Settlement(o)
  PROVE  UNCHANGED <<clearing, ledger>>
<1> USE DEF PayStep, Settlement, moneyVars
<1>1. CASE UNCHANGED fundsVars
  BY <1>1 DEF fundsVars
<1>2. ASSUME NEW u \in Users, NEW d \in {-1, 1}, MovesOutside(u, d)
      PROVE  UNCHANGED <<clearing, ledger>>
  BY <1>2 DEF MovesOutside
<1>3. ASSUME NEW o \in Orders,
             \/ MoveRow(o) \/ CompleteOrder(o) \/ RefundApproved(o) \/ DeleteOrder(o)
             \/ \E s \in RefundAllowedFrom : RefundRejected(o, s)
             \/ SettleRefundShort(o) \/ RecordRefundShortfall(o) \/ ShortfallLost(o)
             \/ \E k \in {"settle", "refund"} : Compensate(k, o) \/ WorkLost(k, o)
             \/ \E to \in {"reviewing", "resolved", "refunded", "rejected"} : OperatorDecides(o, to)
      PROVE  UNCHANGED <<clearing, ledger>>
  BY <1>3 DEF MoveRow, CompleteOrder, RefundApproved, DeleteOrder, RefundRejected, OnlyOrder,
       SettleRefundShort, OnlySettlement, RecordRefundShortfall, ShortfallLost, OnlyAnomaly,
       Compensate, WorkLost, OperatorDecides
<1> QED
  BY <1>1, <1>2, <1>3 DEF FundsNext

LEMMA PostTyped ==
  ASSUME FundsTypeOK, NEW o \in Orders, NEW a \in Accounts, NEW c \in Accounts,
         NEW b \in BizTypes, Post(o, a, c, b)
  PROVE  ledger' \in SUBSET (Orders \X (Users \cup {"escrow", "external"}) \X Directions \X BizTypes)
BY DEF FundsTypeOK, Post, Accounts, Directions

LEMMA FundsTypeStep ==
  ASSUME FundsTypeOK, LifeTypeOK', [FundsNext]_fundsVars
  PROVE  FundsTypeOK'
<1> USE PartiesAssumption, WalletAssumption
<1>1. CASE UNCHANGED fundsVars
  BY <1>1 DEF fundsVars, moneyVars, FundsTypeOK
<1>2. ASSUME NEW o \in Orders,
             \/ MoveRow(o) \/ CompleteOrder(o) \/ RefundApproved(o)
             \/ \E s \in RefundAllowedFrom : RefundRejected(o, s)
             \/ \E k \in {"settle", "refund"} : Compensate(k, o)
      PROVE  FundsTypeOK'
  BY <1>2 DEF FundsTypeOK, MoveRow, CompleteOrder, RefundApproved, RefundRejected, Compensate,
       OnlyOrder, moneyVars, Work
<1>3. ASSUME NEW o \in Orders,
             \/ SettleRefundShort(o) \/ RecordRefundShortfall(o) \/ ShortfallLost(o) \/ DeleteOrder(o)
             \/ \E k \in {"settle", "refund"} : WorkLost(k, o)
             \/ \E to \in {"reviewing", "resolved", "refunded", "rejected"} : OperatorDecides(o, to)
      PROVE  FundsTypeOK'
  BY <1>3 DEF FundsTypeOK, SettleRefundShort, RecordRefundShortfall, ShortfallLost, DeleteOrder,
       WorkLost, OperatorDecides, OnlySettlement, OnlyAnomaly, Handle, moneyVars, OpenAnomalies, Work
<1>4. ASSUME NEW u \in Users, NEW d \in {-1, 1}, MovesOutside(u, d)
      PROVE  FundsTypeOK'
  <2>1. wallet[u] + d \in Nat
    BY <1>4 DEF MovesOutside, FundsTypeOK
  <2> QED
    BY <1>4, <2>1 DEF MovesOutside, FundsTypeOK
<1>5. ASSUME NEW o \in Orders, PayStep(o)
      PROVE  FundsTypeOK'
  <2>1. ledger' \in SUBSET (Orders \X (Users \cup {"escrow", "external"}) \X Directions \X BizTypes)
    BY <1>5, PostTyped DEF PayStep, PayByWallet, PayExternal, Accounts, BizTypes
  <2>2. wallet' \in [Users -> Nat]
    <3>1. CASE PayExternal(o)
      BY <3>1 DEF PayExternal, FundsTypeOK
    <3>2. CASE PayByWallet(o)
      <4>1. wallet[Buyer[o]] - 1 \in Nat
        BY <3>2 DEF PayByWallet, FundsTypeOK
      <4> QED
        BY <3>2, <4>1 DEF PayByWallet, FundsTypeOK
    <3> QED
      BY <1>5, <3>1, <3>2 DEF PayStep
  <2> QED
    BY <1>5, <2>1, <2>2 DEF PayStep, PayByWallet, PayExternal, OnlyPayment, SetClearing, FundsTypeOK
<1>6. ASSUME NEW o \in Orders, SettleCompletedOrder(o)
      PROVE  FundsTypeOK'
  <2>1. ledger' \in SUBSET (Orders \X (Users \cup {"escrow", "external"}) \X Directions \X BizTypes)
    BY <1>6, PostTyped DEF SettleCompletedOrder, Accounts, BizTypes
  <2> QED
    BY <1>6, <2>1 DEF SettleCompletedOrder, OnlySettlement, SetClearing, Handle, FundsTypeOK, Work
<1>7. ASSUME NEW o \in Orders, SettleRefund(o)
      PROVE  FundsTypeOK'
  <2>1. ledger' \in SUBSET (Orders \X (Users \cup {"escrow", "external"}) \X Directions \X BizTypes)
    BY <1>7, PostTyped DEF SettleRefund, Accounts, BizTypes
  <2>2. wallet' \in [Users -> Nat]
    <3>1. wallet[Buyer[o]] + 1 \in Nat /\ (wallet[Seller[o]] >= 1 => wallet[Seller[o]] - 1 \in Nat)
      BY DEF FundsTypeOK
    <3>2. Buyer[o] \in Users /\ Seller[o] \in Users /\ Buyer[o] # Seller[o]
      OBVIOUS
    <3> QED
      BY <1>7, <3>1, <3>2 DEF SettleRefund, FundsTypeOK
  <2> QED
    BY <1>7, <2>1, <2>2 DEF SettleRefund, OnlySettlement, SetClearing, Handle, FundsTypeOK, Work
<1> QED
  BY <1>1, <1>2, <1>3, <1>4, <1>5, <1>6, <1>7 DEF FundsNext, PayStep

\* Types, and with them that no wallet is ever overdrawn: a settlement that
\* would do so rolls back.
THEOREM FundsTypeCorrect == FundsSpec => []FundsTypeOK
<1>1. FundsInit /\ LifeTypeOK => FundsTypeOK
  BY WalletAssumption, PartiesAssumption DEF FundsInit, FundsTypeOK
<1>2. FundsSpec => []LifeTypeOK
  BY FundsSpecLife, LifeTypeCorrect, PTL
<1> QED
  BY <1>1, <1>2, FundsTypeStep, PTL DEF FundsSpec

-----------------------------------------------------------------------------
(* Wallets *)

Entries(u, d) == {e \in ledger : e[2] = u /\ e[3] = d}

\* The ledger stays finite, so that its entries can be counted.
WalletInv == FundsTypeOK /\ IsFiniteSet(ledger) /\ WalletMatchesLedger

\* A business posted adds one debit to one account and one credit to another.
LEMMA PostCounts ==
  ASSUME IsFiniteSet(ledger), NEW o, NEW a \in Accounts, NEW c \in Accounts, a # c,
         NEW b, Post(o, a, c, b)
  PROVE  /\ IsFiniteSet(ledger')
         /\ \A u \in Users, d \in Directions : Cardinality(Entries(u, d)) \in Nat
         /\ \A u \in Users :
              /\ Cardinality(Entries(u, "debit"))'
                   = Cardinality(Entries(u, "debit")) + (IF u = a THEN 1 ELSE 0)
              /\ Cardinality(Entries(u, "credit"))'
                   = Cardinality(Entries(u, "credit")) + (IF u = c THEN 1 ELSE 0)
<1> DEFINE de == <<o, a, "debit", b>>
           ce == <<o, c, "credit", b>>
<1>1. /\ ledger' = ledger \cup {de, ce} /\ de \notin ledger /\ ce \notin ledger
      /\ de[2] = a /\ de[3] = "debit" /\ ce[2] = c /\ ce[3] = "credit"
  BY DEF Post, Accounts, Directions
<1>2. IsFiniteSet(ledger')
  <2>1. IsFiniteSet(ledger \cup {de})
    BY FS_AddElement
  <2>2. IsFiniteSet((ledger \cup {de}) \cup {ce})
    BY <2>1, FS_AddElement
  <2>3. ledger' = (ledger \cup {de}) \cup {ce}
    BY <1>1
  <2> QED
    BY <2>2, <2>3
<1>3. ASSUME NEW u, NEW d
      PROVE  IsFiniteSet(Entries(u, d)) /\ Cardinality(Entries(u, d)) \in Nat
  <2>1. Entries(u, d) \subseteq ledger
    BY DEF Entries
  <2> QED
    BY <2>1, FS_Subset, FS_CardinalityType
<1>4. ASSUME NEW u
      PROVE  Cardinality(Entries(u, "debit"))'
               = Cardinality(Entries(u, "debit")) + (IF u = a THEN 1 ELSE 0)
  <2>1. CASE u = a
    <3>1. Entries(u, "debit")' = Entries(u, "debit") \cup {de} /\ de \notin Entries(u, "debit")
      BY <1>1, <2>1 DEF Entries
    <3> QED
      BY <2>1, <3>1, <1>3, FS_AddElement
  <2>2. CASE u # a
    <3>1. Entries(u, "debit")' = Entries(u, "debit")
      BY <1>1, <2>2 DEF Entries
    <3> QED
      BY <2>2, <3>1, <1>3
  <2> QED
    BY <2>1, <2>2
<1>5. ASSUME NEW u
      PROVE  Cardinality(Entries(u, "credit"))'
               = Cardinality(Entries(u, "credit")) + (IF u = c THEN 1 ELSE 0)
  <2>1. CASE u = c
    <3>1. Entries(u, "credit")' = Entries(u, "credit") \cup {ce} /\ ce \notin Entries(u, "credit")
      BY <1>1, <2>1 DEF Entries
    <3> QED
      BY <2>1, <3>1, <1>3, FS_AddElement
  <2>2. CASE u # c
    <3>1. Entries(u, "credit")' = Entries(u, "credit")
      BY <1>1, <2>2 DEF Entries
    <3> QED
      BY <2>2, <3>1, <1>3
  <2> QED
    BY <2>1, <2>2
<1> QED
  BY <1>2, <1>3, <1>4, <1>5

\* What a settlement takes from one account it gives to the other, in the
\* wallets as in the ledger; accounts that are no user's have no wallet.
LEMMA WalletPosted ==
  ASSUME WalletInv, NEW o, NEW a \in Accounts, NEW c \in Accounts, a # c, NEW b,
         Post(o, a, c, b), outside' = outside,
         \A u \in Users :
           wallet'[u] = wallet[u] - (IF u = a THEN 1 ELSE 0) + (IF u = c THEN 1 ELSE 0)
  PROVE  IsFiniteSet(ledger') /\ WalletMatchesLedger'
<1>1. IsFiniteSet(ledger)
  BY DEF WalletInv
<1>2. IsFiniteSet(ledger')
  BY <1>1, PostCounts
<1>3. ASSUME NEW u \in Users
      PROVE  wallet'[u] = InitWallet + outside'[u] + Cardinality(Entries(u, "credit"))'
                          - Cardinality(Entries(u, "debit"))'
  <2>1. /\ Cardinality(Entries(u, "debit")) \in Nat /\ Cardinality(Entries(u, "credit")) \in Nat
        /\ Cardinality(Entries(u, "debit"))'
             = Cardinality(Entries(u, "debit")) + (IF u = a THEN 1 ELSE 0)
        /\ Cardinality(Entries(u, "credit"))'
             = Cardinality(Entries(u, "credit")) + (IF u = c THEN 1 ELSE 0)
    BY <1>1, PostCounts DEF Directions
  <2>2. wallet[u] = InitWallet + outside[u] + Cardinality(Entries(u, "credit"))
                    - Cardinality(Entries(u, "debit"))
    BY DEF WalletInv, WalletMatchesLedger, Entries
  <2>3. wallet[u] \in Int /\ outside[u] \in Int /\ InitWallet \in Int
    BY WalletAssumption DEF WalletInv, FundsTypeOK
  <2>4. wallet'[u] = wallet[u] - (IF u = a THEN 1 ELSE 0) + (IF u = c THEN 1 ELSE 0)
    OBVIOUS
  <2> QED
    BY <2>1, <2>2, <2>3, <2>4
<1> QED
  BY <1>2, <1>3 DEF WalletMatchesLedger, Entries

LEMMA WalletStep ==
  ASSUME WalletInv, FundsTypeOK', [FundsNext]_fundsVars
  PROVE  WalletInv'
<1>0. wallet \in [Users -> Nat]
  BY DEF WalletInv, FundsTypeOK
<1>p. \A u \in Users : u \in Accounts /\ u # "escrow" /\ u # "external"
  BY PartiesAssumption DEF Accounts
<1>a. "escrow" \in Accounts /\ "external" \in Accounts
  BY DEF Accounts
<1>o. \A o \in Orders : Buyer[o] \in Users /\ Seller[o] \in Users /\ Buyer[o] # Seller[o]
  BY PartiesAssumption
<1>1. ASSUME NEW o \in Orders, PayByWallet(o)
      PROVE  IsFiniteSet(ledger') /\ WalletMatchesLedger'
  <2>1. \A u \in Users : wallet'[u] = wallet[u] - (IF u = Buyer[o] THEN 1 ELSE 0) + (IF u = "escrow" THEN 1 ELSE 0)
    BY <1>1, <1>0, <1>p, <1>o DEF PayByWallet
  <2> QED
    BY <1>1, <2>1, <1>p, <1>a, <1>o, WalletPosted DEF PayByWallet, OnlyPayment
<1>2. ASSUME NEW o \in Orders, PayExternal(o)
      PROVE  IsFiniteSet(ledger') /\ WalletMatchesLedger'
  <2>1. \A u \in Users : wallet'[u] = wallet[u] - (IF u = "external" THEN 1 ELSE 0) + (IF u = "escrow" THEN 1 ELSE 0)
    BY <1>2, <1>0, <1>p DEF PayExternal
  <2> QED
    BY <1>2, <2>1, <1>p, <1>a, <1>o, WalletPosted DEF PayExternal, OnlyPayment
<1>3. ASSUME NEW o \in Orders, SettleCompletedOrder(o)
      PROVE  IsFiniteSet(ledger') /\ WalletMatchesLedger'
  <2>1. \A u \in Users : wallet'[u] = wallet[u] - (IF u = "escrow" THEN 1 ELSE 0) + (IF u = Seller[o] THEN 1 ELSE 0)
    BY <1>3, <1>0, <1>p, <1>o DEF SettleCompletedOrder
  <2> QED
    BY <1>3, <2>1, <1>p, <1>a, <1>o, WalletPosted DEF SettleCompletedOrder, OnlySettlement
<1>4. ASSUME NEW o \in Orders, SettleRefund(o)
      PROVE  IsFiniteSet(ledger') /\ WalletMatchesLedger'
  <2>1. CASE /\ wallet' = [wallet EXCEPT ![Buyer[o]] = @ + 1]
             /\ Post(o, "escrow", Buyer[o], "escrow_refund")
    <3>1. \A u \in Users : wallet'[u] = wallet[u] - (IF u = "escrow" THEN 1 ELSE 0) + (IF u = Buyer[o] THEN 1 ELSE 0)
      BY <2>1, <1>0, <1>p, <1>o
    <3> QED
      BY <1>4, <2>1, <3>1, <1>p, <1>a, <1>o, WalletPosted DEF SettleRefund, OnlySettlement
  <2>2. CASE /\ wallet' = [wallet EXCEPT ![Buyer[o]] = @ + 1, ![Seller[o]] = @ - 1]
             /\ Post(o, Seller[o], Buyer[o], "refund")
    <3>0. Buyer[o] \in Users /\ Seller[o] \in Users /\ Buyer[o] # Seller[o]
      BY <1>o
    <3>1. \A u \in Users : wallet'[u] = wallet[u] - (IF u = Seller[o] THEN 1 ELSE 0) + (IF u = Buyer[o] THEN 1 ELSE 0)
      BY <2>2, <3>0, <1>0, <1>p
    <3> QED
      <4>1. Seller[o] \in Accounts /\ Buyer[o] \in Accounts /\ outside' = outside
        BY <1>4, <3>0, <1>p DEF SettleRefund, OnlySettlement
      <4> QED
        BY <2>2, <3>0, <3>1, <4>1, WalletPosted
  <2> QED
    BY <1>4, <2>1, <2>2 DEF SettleRefund
<1>5. ASSUME NEW u \in Users, NEW d \in {-1, 1}, MovesOutside(u, d)
      PROVE  IsFiniteSet(ledger') /\ WalletMatchesLedger'
  <2>1. ledger' = ledger
    BY <1>5 DEF MovesOutside
  <2>2. ASSUME NEW v \in Users PROVE wallet'[v] - outside'[v] = wallet[v] - outside[v]
    <3>1. wallet[v] \in Int /\ outside[v] \in Int
      BY DEF WalletInv, FundsTypeOK
    <3>2. CASE v = u
      <4>1. wallet'[v] = wallet[v] + d /\ outside'[v] = outside[v] + d
        BY <1>5, <3>2 DEF MovesOutside, WalletInv, FundsTypeOK
      <4> QED
        BY <3>1, <4>1
    <3>3. CASE v # u
      BY <1>5, <3>3 DEF MovesOutside, WalletInv, FundsTypeOK
    <3> QED
      BY <3>2, <3>3
  <2>3. ASSUME NEW v \in Users
        PROVE  wallet'[v] = InitWallet + outside'[v] + Cardinality(Entries(v, "credit"))'
                            - Cardinality(Entries(v, "debit"))'
    <3>1. wallet[v] = InitWallet + outside[v] + Cardinality(Entries(v, "credit"))
                      - Cardinality(Entries(v, "debit"))
      BY DEF WalletInv, WalletMatchesLedger, Entries
    <3>2. /\ wallet[v] \in Int /\ outside[v] \in Int /\ InitWallet \in Int
          /\ wallet'[v] \in Int /\ outside'[v] \in Int
      BY WalletAssumption DEF WalletInv, FundsTypeOK
    <3>3. \A x \in Directions : Cardinality(Entries(v, x)) \in Nat
      <4>1. \A x \in Directions : Entries(v, x) \subseteq ledger
        BY DEF Entries
      <4> QED
        BY <4>1, FS_Subset, FS_CardinalityType DEF WalletInv
    <3>4. /\ Cardinality(Entries(v, "credit"))' = Cardinality(Entries(v, "credit"))
          /\ Cardinality(Entries(v, "debit"))' = Cardinality(Entries(v, "debit"))
      BY <2>1 DEF Entries
    <3>5. wallet'[v] - outside'[v] = wallet[v] - outside[v]
      BY <2>2
    <3>6. Cardinality(Entries(v, "credit")) \in Int /\ Cardinality(Entries(v, "debit")) \in Int
      BY <3>3 DEF Directions
    <3> QED
      BY <3>1, <3>2, <3>4, <3>5, <3>6
  <2> QED
    BY <2>1, <2>3 DEF WalletInv, WalletMatchesLedger, Entries
<1>6. CASE UNCHANGED <<ledger, wallet, outside>>
  BY <1>6 DEF WalletInv, WalletMatchesLedger
<1>7. ASSUME NEW o \in Orders,
             \/ MoveRow(o) \/ CompleteOrder(o) \/ RefundApproved(o) \/ DeleteOrder(o)
             \/ \E s \in RefundAllowedFrom : RefundRejected(o, s)
             \/ SettleRefundShort(o) \/ RecordRefundShortfall(o) \/ ShortfallLost(o)
             \/ \E k \in {"settle", "refund"} : Compensate(k, o) \/ WorkLost(k, o)
             \/ \E to \in {"reviewing", "resolved", "refunded", "rejected"} : OperatorDecides(o, to)
      PROVE  UNCHANGED <<ledger, wallet, outside>>
  BY <1>7 DEF MoveRow, CompleteOrder, RefundApproved, DeleteOrder, RefundRejected, OnlyOrder,
       SettleRefundShort, OnlySettlement, RecordRefundShortfall, ShortfallLost, OnlyAnomaly,
       Compensate, WorkLost, OperatorDecides, moneyVars
<1>8. CASE UNCHANGED fundsVars
  BY <1>6, <1>8 DEF fundsVars, moneyVars
<1>9. IsFiniteSet(ledger') /\ WalletMatchesLedger'
  BY <1>1, <1>2, <1>3, <1>4, <1>5, <1>6, <1>7, <1>8 DEF FundsNext, WalletInv
<1> QED
  BY <1>9 DEF WalletInv

\* No settlement is lost from a wallet or paid into it twice: users.money is
\* at all times what the ledger and the user's other business add up to.
THEOREM WalletsMatchLedger == FundsSpec => []WalletMatchesLedger
<1>1. FundsInit /\ FundsTypeOK => WalletInv
  <2> SUFFICES ASSUME FundsInit, FundsTypeOK PROVE WalletInv
    OBVIOUS
  <2>1. ledger = {} /\ IsFiniteSet(ledger)
    BY FS_EmptySet DEF FundsInit
  <2>2. \A u \in Users : {e \in ledger : e[2] = u /\ e[3] = "credit"} = {}
                         /\ {e \in ledger : e[2] = u /\ e[3] = "debit"} = {}
    BY <2>1
  <2> QED
    BY <2>1, <2>2, FS_EmptySet, WalletAssumption DEF FundsInit, WalletInv, WalletMatchesLedger
<1>2. WalletInv => WalletMatchesLedger
  BY DEF WalletInv
<1> QED
  BY <1>1, <1>2, FundsTypeCorrect, WalletStep, PTL DEF FundsSpec

-----------------------------------------------------------------------------
(* The money and the order *)

LEMMA MoneyFollowsStep ==
  ASSUME FundsTypeOK, MoneyFollowsOrder, NoFulfilmentSkipped, [FundsNext]_fundsVars
  PROVE  MoneyFollowsOrder'
<1> USE DEF FundsTypeOK, LifeTypeOK, MoneyFollowsOrder, SetType, SetClearing
<1>1. CASE UNCHANGED fundsVars
  BY <1>1 DEF fundsVars, lifeVars, moneyVars
<1>2. ASSUME NEW o \in Orders, PayStep(o)
      PROVE  MoneyFollowsOrder'
  BY <1>2 DEF PayStep, PayByWallet, PayExternal, MarkOrderPaid
<1>3. ASSUME NEW o \in Orders, SettleCompletedOrder(o)
      PROVE  MoneyFollowsOrder'
  BY <1>3 DEF SettleCompletedOrder, OnlySettlement, lifeVars, NoFulfilmentSkipped
<1>4. ASSUME NEW o \in Orders, SettleRefund(o)
      PROVE  MoneyFollowsOrder'
  BY <1>4 DEF SettleRefund, OnlySettlement, lifeVars
<1>5. ASSUME NEW o \in Orders,
             \/ MoveRow(o) \/ CompleteOrder(o) \/ RefundApproved(o)
             \/ \E s \in RefundAllowedFrom : RefundRejected(o, s)
      PROVE  MoneyFollowsOrder'
  BY <1>5 DEF MoveRow, CompleteOrder, RefundApproved, RefundRejected, OnlyOrder, moneyVars,
       CreateOrder, CloseOrder, ShipOrder, ConfirmReceive, RequestRefund, ApproveRefund,
       RejectRefundRead, RejectRefund, RejectRefundGivesUp, RefundAllowedFrom
<1>6. ASSUME NEW o \in Orders,
             \/ SettleRefundShort(o) \/ RecordRefundShortfall(o) \/ ShortfallLost(o) \/ DeleteOrder(o)
             \/ \E k \in {"settle", "refund"} : Compensate(k, o) \/ WorkLost(k, o)
             \/ \E to \in {"reviewing", "resolved", "refunded", "rejected"} : OperatorDecides(o, to)
      PROVE  MoneyFollowsOrder'
  BY <1>6 DEF SettleRefundShort, RecordRefundShortfall, ShortfallLost, DeleteOrder, Compensate,
       WorkLost, OperatorDecides, OnlySettlement, OnlyAnomaly, OnlyOrder, lifeVars, moneyVars
<1>7. ASSUME NEW u \in Users, NEW d \in {-1, 1}, MovesOutside(u, d)
      PROVE  MoneyFollowsOrder'
  BY <1>7 DEF MovesOutside, lifeVars
<1> QED
  BY <1>1, <1>2, <1>3, <1>4, <1>5, <1>6, <1>7 DEF FundsNext, PayStep

\* The seller is paid only for goods that were sent, the buyer gets back only
\* what was approved, and every paid order has its money somewhere.
THEOREM MoneyFollowsTheOrder == FundsSpec => []MoneyFollowsOrder
<1>1. FundsInit => MoneyFollowsOrder
  BY ZenonT(60) DEF FundsInit, LifeInit, MoneyFollowsOrder
<1>2. FundsSpec => []NoFulfilmentSkipped
  BY FundsSpecLife, FulfilmentNeverSkipped, PTL
<1> QED
  BY <1>1, <1>2, MoneyFollowsStep, FundsTypeCorrect, PTL DEF FundsSpec

-----------------------------------------------------------------------------
(* The books *)

\* The books of one order.  The last two conjuncts make the invariant inductive:
\* an order without a record has no entry, and a refund is posted as it is
\* recorded.
BooksOf(x) ==
  /\ clearing[x] = "cleared"  <=> Escrowed(x)
  /\ clearing[x] = "settled"  <=> WithSeller(x)
  /\ clearing[x] = "refunded" <=> Returned(x)
  /\ clearing[x] = "none" => \A a \in Accounts, d \in Directions, b \in BizTypes :
                               <<x, a, d, b>> \notin ledger
  /\ \A a \in Accounts, d \in Directions, b \in {"refund", "escrow_refund"} :
       <<x, a, d, b>> \in ledger => clearing[x] = "refunded"

BooksInv == \A x \in Orders : BooksOf(x)

LEMMA OtherBooks ==
  ASSUME FundsTypeOK, BooksInv, NEW o \in Orders, NEW x \in Orders, x # o,
         NEW a, NEW c, NEW b, Post(o, a, c, b), NEW s, SetClearing(o, s)
  PROVE  BooksOf(x)'
<1>1. \A y, d, z : <<x, y, d, z>> \in ledger' <=> <<x, y, d, z>> \in ledger
  BY DEF Post
<1>2. clearing'[x] = clearing[x]
  BY DEF SetClearing, FundsTypeOK
<1>3. /\ Escrowed(x)' <=> Escrowed(x)
      /\ WithSeller(x)' <=> WithSeller(x)
      /\ Returned(x)' <=> Returned(x)
  BY <1>1 DEF Escrowed, WithSeller, Returned
<1> QED
  BY <1>1, <1>2, <1>3 DEF BooksInv, BooksOf

LEMMA PayBooks ==
  ASSUME FundsTypeOK, BooksInv, MoneyFollowsOrder, NEW o \in Orders, PayStep(o)
  PROVE  BooksInv'
<1> USE PartiesAssumption DEF Accounts, Directions, BizTypes
<1>1. PICK a \in {Buyer[o], "external"} : Post(o, a, "escrow", "order_clear")
  BY DEF PayStep, PayByWallet, PayExternal
<1>2. SetClearing(o, "cleared") /\ clearing[o] = "none"
  BY DEF PayStep, PayByWallet, PayExternal, MarkOrderPaid, MoneyFollowsOrder
<1>3. \A y \in Accounts, d \in Directions, b \in BizTypes : <<o, y, d, b>> \notin ledger
  BY <1>2 DEF BooksInv, BooksOf
<1>4. ledger' = ledger \cup {<<o, a, "debit", "order_clear">>, <<o, "escrow", "credit", "order_clear">>}
  BY <1>1 DEF Post
<1>5. clearing'[o] = "cleared"
  BY <1>2 DEF SetClearing, FundsTypeOK
<1>6. a # "escrow" /\ Buyer[o] \in Users /\ Seller[o] \in Users
  BY <1>1
<1>7. Escrowed(o)' /\ ~ WithSeller(o)' /\ ~ Returned(o)'
  BY <1>3, <1>4, <1>6 DEF Escrowed, WithSeller, Returned
<1>8. BooksOf(o)'
  BY <1>3, <1>4, <1>5, <1>7 DEF BooksOf
<1> QED
  BY <1>1, <1>2, <1>8, OtherBooks DEF BooksInv

LEMMA SettleBooks ==
  ASSUME FundsTypeOK, BooksInv, NEW o \in Orders, SettleCompletedOrder(o)
  PROVE  BooksInv'
<1> USE PartiesAssumption DEF Accounts, Directions, BizTypes
<1>1. Post(o, "escrow", Seller[o], "order_settle") /\ SetClearing(o, "settled") /\ clearing[o] = "cleared"
  BY DEF SettleCompletedOrder
<1>2. ledger' = ledger \cup {<<o, "escrow", "debit", "order_settle">>,
                             <<o, Seller[o], "credit", "order_settle">>}
  BY <1>1 DEF Post
<1>3. \A y \in Accounts, d \in Directions, b \in {"refund", "escrow_refund"} : <<o, y, d, b>> \notin ledger
  BY <1>1 DEF BooksInv, BooksOf
<1>4. clearing'[o] = "settled"
  BY <1>1 DEF SetClearing, FundsTypeOK
<1>5. ~ Escrowed(o)' /\ WithSeller(o)' /\ ~ Returned(o)'
  BY <1>2, <1>3 DEF Escrowed, WithSeller, Returned
<1>6. BooksOf(o)'
  BY <1>2, <1>3, <1>4, <1>5 DEF BooksOf
<1> QED
  BY <1>1, <1>6, OtherBooks DEF BooksInv

LEMMA RefundBooks ==
  ASSUME FundsTypeOK, BooksInv, NEW o \in Orders, SettleRefund(o)
  PROVE  BooksInv'
<1> USE PartiesAssumption DEF Accounts, Directions, BizTypes
<1>1. SetClearing(o, "refunded")
  BY DEF SettleRefund
<1>2. clearing'[o] = "refunded"
  BY <1>1 DEF SetClearing, FundsTypeOK
<1>3. CASE clearing[o] = "cleared" /\ Post(o, "escrow", Buyer[o], "escrow_refund")
  <2>1. ledger' = ledger \cup {<<o, "escrow", "debit", "escrow_refund">>,
                               <<o, Buyer[o], "credit", "escrow_refund">>}
    BY <1>3 DEF Post
  <2>2. ~ WithSeller(o)
    BY <1>3 DEF BooksInv, BooksOf
  <2>3. ~ Escrowed(o)' /\ ~ WithSeller(o)' /\ Returned(o)'
    BY <2>1, <2>2 DEF Escrowed, WithSeller, Returned
  <2>4. BooksOf(o)'
    BY <1>2, <2>3 DEF BooksOf
  <2> QED
    BY <1>1, <1>3, <2>4, OtherBooks DEF BooksInv
<1>4. CASE clearing[o] = "settled" /\ Post(o, Seller[o], Buyer[o], "refund")
  <2>1. ledger' = ledger \cup {<<o, Seller[o], "debit", "refund">>, <<o, Buyer[o], "credit", "refund">>}
    BY <1>4 DEF Post
  <2>2. ~ Escrowed(o)
    BY <1>4 DEF BooksInv, BooksOf
  <2>3. ~ Escrowed(o)' /\ ~ WithSeller(o)' /\ Returned(o)'
    BY <2>1, <2>2 DEF Escrowed, WithSeller, Returned
  <2>4. BooksOf(o)'
    BY <1>2, <2>3 DEF BooksOf
  <2> QED
    BY <1>1, <1>4, <2>4, OtherBooks DEF BooksInv
<1> QED
  BY <1>3, <1>4 DEF SettleRefund

LEMMA BooksStep ==
  ASSUME FundsTypeOK, BooksInv, MoneyFollowsOrder, [FundsNext]_fundsVars
  PROVE  BooksInv'
<1>1. CASE \A o \in Orders : ~ PayStep(o) /\ ~ Settlement(o)
  <2>1. UNCHANGED <<clearing, ledger>>
    BY <1>1, BooksUnchanged
  <2> QED
    BY <2>1 DEF BooksInv, BooksOf, Escrowed, WithSeller, Returned
<1> QED
  BY <1>1, PayBooks, SettleBooks, RefundBooks DEF Settlement

LEMMA BooksCorrect == FundsSpec => []BooksInv
<1>1. FundsInit => BooksInv
  BY DEF FundsInit, BooksInv, BooksOf, Escrowed, WithSeller, Returned
<1> QED
  BY <1>1, BooksStep, FundsTypeCorrect, MoneyFollowsTheOrder, PTL DEF FundsSpec

\* The ledger and the clearing record agree on where the money of an order
\* is, and it is in one place only.
THEOREM BooksAgree == FundsSpec => []MoneyInOnePlace
<1>1. BooksInv => MoneyInOnePlace
  BY DEF BooksInv, BooksOf, MoneyInOnePlace
<1> QED
  BY <1>1, BooksCorrect, PTL

-----------------------------------------------------------------------------
(* Deleted rows *)

LEMMA DeletedStep ==
  ASSUME FundsTypeOK, BooksInv, MoneyFollowsOrder, DeletedAtRest, [FundsNext]_fundsVars
  PROVE  DeletedAtRest'
<1> USE DEF FundsTypeOK, LifeTypeOK, DeletedAtRest, SetType, SetClearing
<1>1. CASE UNCHANGED fundsVars
  BY <1>1 DEF fundsVars, lifeVars, moneyVars
<1>2. ASSUME NEW o \in Orders, DeleteOrder(o)
      PROVE  DeletedAtRest'
  <2>1. deleted' = deleted \cup {o} /\ UNCHANGED <<type, clearing>>
    BY <1>2 DEF DeleteOrder, lifeVars, moneyVars
  <2>2. \/ type[o] = "Closed" /\ clearing[o] = "none"
        \/ type[o] = "Completed" /\ clearing[o] = "settled"
        \/ type[o] = "Refunded" /\ clearing[o] = "refunded"
    BY <1>2 DEF DeleteOrder, MoneyFollowsOrder, BooksInv, BooksOf, Accounts, Directions
  <2> QED
    BY <2>1, <2>2
<1>3. ASSUME NEW o \in Orders, PayStep(o)
      PROVE  DeletedAtRest'
  BY <1>3 DEF PayStep, PayByWallet, PayExternal, MarkOrderPaid, OnlyPayment
<1>4. ASSUME NEW o \in Orders, Settlement(o)
      PROVE  DeletedAtRest'
  BY <1>4 DEF Settlement, SettleCompletedOrder, SettleRefund, OnlySettlement, lifeVars
<1>5. ASSUME NEW o \in Orders,
             \/ MoveRow(o) \/ CompleteOrder(o) \/ RefundApproved(o)
             \/ \E s \in RefundAllowedFrom : RefundRejected(o, s)
      PROVE  DeletedAtRest'
  BY <1>5 DEF MoveRow, CompleteOrder, RefundApproved, RefundRejected, OnlyOrder, moneyVars,
       CreateOrder, CloseOrder, ShipOrder, ConfirmReceive, RequestRefund, ApproveRefund,
       RejectRefundRead, RejectRefund, RejectRefundGivesUp, RefundAllowedFrom
<1>6. ASSUME NEW o \in Orders,
             \/ SettleRefundShort(o) \/ RecordRefundShortfall(o) \/ ShortfallLost(o)
             \/ \E k \in {"settle", "refund"} : Compensate(k, o) \/ WorkLost(k, o)
             \/ \E to \in {"reviewing", "resolved", "refunded", "rejected"} : OperatorDecides(o, to)
      PROVE  DeletedAtRest'
  BY <1>6 DEF SettleRefundShort, RecordRefundShortfall, ShortfallLost, Compensate,
       WorkLost, OperatorDecides, OnlySettlement, OnlyAnomaly, OnlyOrder, lifeVars, moneyVars
<1>7. ASSUME NEW u \in Users, NEW d \in {-1, 1}, MovesOutside(u, d)
      PROVE  DeletedAtRest'
  BY <1>7 DEF MovesOutside, lifeVars
<1> QED
  BY <1>1, <1>2, <1>3, <1>4, <1>5, <1>6, <1>7 DEF FundsNext, PayStep, Settlement

\* No row is deleted while something is still to be done with its money.
THEOREM DeletedIsAtRest == FundsSpec => []DeletedAtRest
<1>1. FundsInit => DeletedAtRest
  BY DEF FundsInit, DeletedAtRest
<1> QED
  BY <1>1, DeletedStep, FundsTypeCorrect, BooksCorrect, MoneyFollowsTheOrder, PTL DEF FundsSpec

-----------------------------------------------------------------------------
(* Refinement *)

PlaceFor(status) == IF status = "refunded" THEN "buyer"
                    ELSE IF status = "settled" THEN "seller"
                    ELSE IF status = "cleared" THEN "escrow" ELSE "unpaid"

LEMMA PlaceByRecord ==
  ASSUME BooksInv
  PROVE  Place = [o \in Orders |-> PlaceFor(clearing[o])]
BY DEF BooksInv, BooksOf, Place, PlaceFor

LEMMA PlaceStep ==
  ASSUME FundsTypeOK, BooksInv, BooksInv', MoneyFollowsOrder, [FundsNext]_fundsVars
  PROVE  [EscrowOf!Next]_Place
<1>1. /\ Place = [o \in Orders |-> PlaceFor(clearing[o])]
      /\ Place' = [o \in Orders |-> PlaceFor(clearing'[o])]
  <2>1. Place = [o \in Orders |-> PlaceFor(clearing[o])]
    BY PlaceByRecord
  <2>2. Place' = [o \in Orders |-> PlaceFor(clearing'[o])]
    BY DEF BooksInv, BooksOf, Place, PlaceFor
  <2> QED
    BY <2>1, <2>2
<1>2. CASE \A o \in Orders : ~ PayStep(o) /\ ~ Settlement(o)
  BY <1>1, <1>2, BooksUnchanged
<1>3. ASSUME NEW o \in Orders, NEW s \in {"cleared", "settled", "refunded"},
             clearing' = [clearing EXCEPT ![o] = s],
             \/ clearing[o] = "none" /\ s = "cleared"
             \/ clearing[o] = "cleared" /\ s \in {"settled", "refunded"}
             \/ clearing[o] = "settled" /\ s = "refunded"
      PROVE  EscrowOf!Next
  <2>1. Place' = [Place EXCEPT ![o] = PlaceFor(s)]
    BY <1>1, <1>3 DEF FundsTypeOK
  <2>2. \/ EscrowOf!Moves(o, "unpaid", "escrow") \/ EscrowOf!Moves(o, "escrow", "seller")
        \/ EscrowOf!Moves(o, "escrow", "buyer")  \/ EscrowOf!Moves(o, "seller", "buyer")
    BY <1>1, <1>3, <2>1 DEF PlaceFor, EscrowOf!Moves
  <2> QED
    BY <2>2 DEF EscrowOf!Next
<1>4. ASSUME NEW o \in Orders, PayStep(o)
      PROVE  EscrowOf!Next
  BY <1>3, <1>4 DEF PayStep, PayByWallet, PayExternal, MarkOrderPaid, MoneyFollowsOrder, SetClearing
<1>5. ASSUME NEW o \in Orders, Settlement(o)
      PROVE  EscrowOf!Next
  BY <1>3, <1>5 DEF Settlement, SettleCompletedOrder, SettleRefund, SetClearing
<1> QED
  BY <1>2, <1>4, <1>5

\* The postings of every order, in every interleaving of events, retries,
\* compensation and deletion, are a behaviour of Escrow.
THEOREM FundsImplementEscrow == FundsSpec => ImplementsEscrow
<1>1. FundsInit => EscrowOf!Init
  BY DEF FundsInit, Place, Escrowed, WithSeller, Returned, EscrowOf!Init
<1> QED
  BY <1>1, PlaceStep, FundsTypeCorrect, BooksCorrect, MoneyFollowsTheOrder, PTL
     DEF FundsSpec, ImplementsEscrow, EscrowOf!Spec
=============================================================================
