-------------------------- MODULE OrderStock_proofs --------------------------
(***************************************************************************)
(* Proofs about OrderStock, for any finite set of orders, any stock, any   *)
(* limits and, where a theorem does not say otherwise, any failures.       *)
(*                                                                         *)
(*   StockTypeCorrect   types                                              *)
(*   NeverOversold      the DB count, under every failure of the model     *)
(*   ReservedIsExact,   the Redis counters and what they promise, as long  *)
(*   StockIsConserved,  as no reply of Redis or the DB is lost (Faults     *)
(*   UnpaidIsCovered    without lost_reply)                                *)
(***************************************************************************)
EXTENDS OrderStock, OrderLifecycle_proofs, FiniteSetTheorems

-----------------------------------------------------------------------------
(* Counting *)

LEMMA SubsetsFinite ==
  ASSUME NEW S \in SUBSET Orders
  PROVE  IsFiniteSet(S) /\ Cardinality(S) \in Nat
BY OrdersAssumption, FS_Subset, FS_CardinalityType

LEMMA CountAdd ==
  ASSUME NEW S \in SUBSET Orders, NEW o \in Orders, o \notin S
  PROVE  Cardinality(S \cup {o}) = Cardinality(S) + 1
BY SubsetsFinite, FS_AddElement

LEMMA CountRemove ==
  ASSUME NEW S \in SUBSET Orders, NEW o \in S
  PROVE  /\ Cardinality(S \ {o}) = Cardinality(S) - 1
         /\ Cardinality(S) >= 1
<1>1. IsFiniteSet(S) /\ Cardinality(S) \in Nat /\ Cardinality(S \ {o}) \in Nat
  BY SubsetsFinite
<1>2. Cardinality(S \ {o}) = Cardinality(S) - 1
  BY <1>1, FS_RemoveElement
<1> QED
  BY <1>1, <1>2

-----------------------------------------------------------------------------
(* Types *)

LEMMA MoveRowLife ==
  ASSUME NEW o \in Orders, MoveRow(o)
  PROVE  [LifeNext]_lifeVars /\ UNCHANGED stockVars
BY DEF MoveRow, LifeNext

LEMMA RowStepLife ==
  ASSUME NEW o \in Orders, CreateOrder(o) \/ MarkOrderPaid(o) \/ CloseOrder(o)
  PROVE  [LifeNext]_lifeVars
BY DEF LifeNext

LEMMA ReleaseOne ==
  ASSUME TypeOK, ReleaseScript(1)
  PROVE  /\ reserved' = reserved - 1 /\ reserved' \in Nat
         /\ available' = available + 1 /\ available' \in Int
         /\ seeded' /\ seeded' \in BOOLEAN
<1>1. reserved >= 1 /\ reserved' = reserved - 1 /\ available' = available + 1
  BY DEF ReleaseScript
<1>2. reserved' \in Nat /\ available' \in Int
  BY <1>1 DEF TypeOK
<1>3. seeded' = TRUE
  BY DEF ReleaseScript
<1> QED
  BY <1>1, <1>2, <1>3

LEMMA TypeStep ==
  ASSUME TypeOK, [Next]_vars
  PROVE  TypeOK'
<1> USE RetriesAssumption, InitNumAssumption
    DEF TypeOK, CreatorStates, TailStates, SetCreator, OnlyCreate, OnlyCommit,
        dbVars, redisVars, createVars, commitVars
<1>0. ASSUME UNCHANGED lifeVars
      PROVE  LifeTypeOK'
  BY <1>0, LifeTypeStep
<1>1. CASE UNCHANGED vars
  BY <1>1, <1>0 DEF vars, stockVars
<1>2. ASSUME NEW o \in Orders, CreateStep(o)
      PROVE  TypeOK'
  <2>1. LifeTypeOK'
    BY <1>2, <1>0, LifeTypeStep, RowStepLife
       DEF CreateStep, Reserve, TryReserve, InitStockIfAbsent, ReserveRetry,
           CreateTx, CreateTxFails, ReleaseOnTxFailure, CreatorDies
  <2>2. UNCHANGED <<dbVars, closer, commitVars, restocker>>
    BY <1>2
       DEF CreateStep, Reserve, TryReserve, InitStockIfAbsent, ReserveRetry,
           CreateTx, CreateTxFails, ReleaseOnTxFailure, CreatorDies
  <2>3. creator' \in [Orders -> CreatorStates] /\ seenNum' \in [Orders -> Nat]
    BY <1>2
       DEF CreateStep, Reserve, TryReserve, InitStockIfAbsent, ReserveRetry,
           CreateTx, CreateTxFails, ReleaseOnTxFailure, CreatorDies
  <2>4. \/ ReserveScript \/ ReleaseScript(1) \/ InitIfAbsentScript(seenNum[o])
        \/ UNCHANGED redisVars
    BY <1>2
       DEF CreateStep, Reserve, TryReserve, InitStockIfAbsent, ReserveRetry,
           CreateTx, CreateTxFails, ReleaseOnTxFailure, CreatorDies
  <2>5. seeded' \in BOOLEAN /\ available' \in Int /\ reserved' \in Nat
    <3>1. CASE ReserveScript \/ UNCHANGED redisVars
      BY <3>1 DEF ReserveScript
    <3>3. CASE ReleaseScript(1)
      BY <3>3, ReleaseOne
    <3>2. CASE InitIfAbsentScript(seenNum[o])
      <4>1. seeded' \in BOOLEAN /\ reserved' = reserved
        BY <3>2 DEF InitIfAbsentScript
      <4>2. available' = available \/ available' = seenNum[o] - reserved
        BY <3>2 DEF InitIfAbsentScript
      <4> QED
        BY <4>1, <4>2
    <3> QED
      BY <2>4, <3>1, <3>2, <3>3
  <2> QED
    BY <2>1, <2>2, <2>3, <2>5
<1>3. ASSUME NEW o \in Orders, PayStep(o)
      PROVE  TypeOK'
  <2>1. CASE PayTx(o)
    BY <2>1, LifeTypeStep, RowStepLife DEF PayTx
  <2>2. CASE CommitReservation(o)
    BY <2>2, <1>0 DEF CommitReservation, CommitScript
  <2>3. CASE CommitAttemptFails(o)
    BY <2>3, <1>0 DEF CommitAttemptFails, CommitScript
  <2>4. CASE SetStockCommitPending(o)
    BY <2>4, <1>0 DEF SetStockCommitPending
  <2>5. CASE CommitterDies(o)
    BY <2>5, <1>0 DEF CommitterDies
  <2> QED
    BY <1>3, <2>1, <2>2, <2>3, <2>4, <2>5 DEF PayStep
<1>4. ASSUME NEW o \in Orders, CancelStep(o)
      PROVE  TypeOK'
  <2>1. CASE CancelTx(o)
    BY <2>1, LifeTypeStep, RowStepLife DEF CancelTx
  <2>2. CASE ReleaseOnCancel(o)
    <3>1. ReleaseScript(1) \/ UNCHANGED redisVars
      BY <2>2 DEF ReleaseOnCancel
    <3>2. seeded' \in BOOLEAN /\ available' \in Int /\ reserved' \in Nat
      BY <3>1, ReleaseOne
    <3> QED
      BY <2>2, <3>2, <1>0 DEF ReleaseOnCancel
  <2>3. CASE CloserDies(o)
    BY <2>3, <1>0 DEF CloserDies
  <2> QED
    BY <1>4, <2>1, <2>2, <2>3 DEF CancelStep
<1>5. ASSUME NEW o \in Orders, RestockStep(o)
      PROVE  TypeOK'
  <2>1. CASE SettleRefund(o) \/ ConfirmReturnReceived(o)
    <3>1. Restock(o)
      BY <2>1 DEF SettleRefund, ConfirmReturnReceived
    <3>2. LifeTypeOK'
      BY <3>1, <1>0 DEF Restock
    <3> QED
      BY <3>1, <3>2 DEF Restock
  <2>2. CASE RestockRedis(o)
    BY <2>2, <1>0 DEF RestockRedis, RestockScript
  <2> QED
    BY <1>5, <2>1, <2>2 DEF RestockStep
<1>6. ASSUME NEW o \in Orders, MoveRow(o)
      PROVE  TypeOK'
  BY <1>6, MoveRowLife, LifeTypeStep DEF stockVars
<1> QED
  BY <1>1, <1>2, <1>3, <1>4, <1>5, <1>6 DEF Next

\* Every counter, column and handler state keeps its type; in particular
\* product.num and stock:reserved never go below zero.
THEOREM StockTypeCorrect == Spec => []TypeOK
<1>1. Init => TypeOK
  <2> SUFFICES ASSUME Init PROVE TypeOK
    OBVIOUS
  <2>1. LifeTypeOK
    BY MaxRefundsAssumption DEF Init, LifeInit, LifeTypeOK
  <2> QED
    BY <2>1, InitNumAssumption, RetriesAssumption
       DEF Init, TypeOK, CreatorStates, TailStates
<1> QED
  BY <1>1, TypeStep, PTL DEF Spec

-----------------------------------------------------------------------------
(* The DB count, under every failure *)

\* Restocking is guarded by the status, and no UPDATE leaves Refunded: that
\* is what keeps an order from being deducted again after its restock.
OversellInv ==
  /\ num + Cardinality(Deducted) = InitNum
  /\ \A o \in Orders : restocked[o] => type[o] = "Refunded"

\* What the handlers that move only the row cannot do.
LEMMA MoveRowKeepsClass ==
  ASSUME TypeOK, NEW o \in Orders, MoveRow(o), NEW p \in Orders
  PROVE  /\ type'[p] \in PaidStates <=> type[p] \in PaidStates
         /\ \A s \in {"None", "WaitPay", "Closed"} : type'[p] = s <=> type[p] = s
         /\ type[p] = "Refunded" => type'[p] = "Refunded"
<1> USE DEF TypeOK, LifeTypeOK, PaidStates, RefundAllowedFrom, SetType
<1>1. CASE UNCHANGED type
  BY <1>1
<1>2. CASE ShipOrder(o) \/ ConfirmReceive(o) \/ RequestRefund(o) \/ ApproveRefund(o)
  BY <1>2 DEF ShipOrder, ConfirmReceive, RequestRefund, ApproveRefund
<1>3. ASSUME NEW s \in RefundAllowedFrom, RejectRefund(o, s)
      PROVE  /\ type'[p] \in PaidStates <=> type[p] \in PaidStates
             /\ \A t \in {"None", "WaitPay", "Closed"} : type'[p] = t <=> type[p] = t
             /\ type[p] = "Refunded" => type'[p] = "Refunded"
  BY <1>3 DEF RejectRefund
<1> QED
  BY <1>1, <1>2, <1>3 DEF MoveRow, RejectRefundRead, RejectRefundGivesUp

LEMMA OversellStep ==
  ASSUME TypeOK, OversellInv, [Next]_vars
  PROVE  OversellInv'
<1> USE DEF OversellInv, Deducted, PaidStates, dbVars
<1>0. Deducted \in SUBSET Orders /\ Cardinality(Deducted) \in Nat
  BY SubsetsFinite
<1>1. CASE UNCHANGED <<type, restocked, num>>
  BY <1>1
<1>2. ASSUME NEW o \in Orders, CreateOrder(o) \/ CloseOrder(o), UNCHANGED dbVars
      PROVE  OversellInv'
  <2>1. Deducted' = Deducted
    BY <1>2 DEF TypeOK, LifeTypeOK, CreateOrder, CloseOrder, SetType
  <2> QED
    BY <1>2, <2>1 DEF TypeOK, LifeTypeOK, CreateOrder, CloseOrder, SetType
<1>3. ASSUME NEW o \in Orders, PayTx(o)
      PROVE  OversellInv'
  <2>1. ~restocked[o] /\ type[o] = "WaitPay"
    BY <1>3 DEF PayTx, MarkOrderPaid
  <2>2. Deducted' = Deducted \cup {o} /\ o \notin Deducted
    BY <1>3, <2>1 DEF TypeOK, LifeTypeOK, PayTx, MarkOrderPaid, SetType
  <2>3. Cardinality(Deducted') = Cardinality(Deducted) + 1
    BY <1>0, <2>2, CountAdd
  <2> QED
    BY <1>0, <1>3, <2>1, <2>3
       DEF TypeOK, LifeTypeOK, PayTx, MarkOrderPaid, SetType
<1>4. ASSUME NEW o \in Orders, Restock(o)
      PROVE  OversellInv'
  <2>1. Deducted' = Deducted \ {o} /\ o \in Deducted
    BY <1>4 DEF TypeOK, LifeTypeOK, Restock, lifeVars
  <2>2. Cardinality(Deducted') = Cardinality(Deducted) - 1
    BY <1>0, <2>1, CountRemove
  <2>3. \A p \in Orders : restocked'[p] => type'[p] = "Refunded"
    BY <1>4 DEF TypeOK, Restock, lifeVars
  <2> QED
    BY <1>0, <1>4, <2>2, <2>3 DEF TypeOK, Restock
<1>5. ASSUME NEW o \in Orders, MoveRow(o)
      PROVE  OversellInv'
  <2>1. UNCHANGED <<num, restocked>>
    BY <1>5 DEF MoveRow, stockVars
  <2>2. Deducted' = Deducted
    BY <1>5, <2>1, MoveRowKeepsClass
  <2> QED
    BY <1>5, <2>1, <2>2, MoveRowKeepsClass
<1>6. ASSUME NEW o \in Orders, CreateStep(o)
      PROVE  OversellInv'
  <2>1. UNCHANGED dbVars /\ (CreateOrder(o) \/ UNCHANGED type)
    BY <1>6
       DEF CreateStep, Reserve, TryReserve, InitStockIfAbsent, ReserveRetry,
           CreateTx, CreateTxFails, ReleaseOnTxFailure,
           CreatorDies, OnlyCreate, lifeVars
  <2> QED
    BY <1>1, <1>2, <2>1
<1>7. ASSUME NEW o \in Orders, PayStep(o), ~PayTx(o)
      PROVE  UNCHANGED <<type, restocked, num>>
  BY <1>7 DEF PayStep, CommitReservation, CommitAttemptFails,
              SetStockCommitPending, CommitterDies, OnlyCommit, lifeVars
<1>8. ASSUME NEW o \in Orders, CancelStep(o)
      PROVE  OversellInv'
  <2>1. UNCHANGED dbVars /\ (CloseOrder(o) \/ UNCHANGED type)
    BY <1>8 DEF CancelStep, CancelTx, ReleaseOnCancel, CloserDies, lifeVars
  <2> QED
    BY <1>1, <1>2, <2>1
<1>9. ASSUME NEW o \in Orders, RestockStep(o)
      PROVE  Restock(o) \/ UNCHANGED <<type, restocked, num>>
  BY <1>9 DEF RestockStep, SettleRefund, ConfirmReturnReceived, RestockRedis, lifeVars
<1> QED
  BY <1>1, <1>3, <1>4, <1>5, <1>6, <1>7, <1>8, <1>9
     DEF Next, vars, stockVars, lifeVars

\* The product is never oversold, whatever dies, fails or loses its reply.
THEOREM NeverOversold == Spec => []NoOversell
<1>1. Init => OversellInv
  <2> SUFFICES ASSUME Init PROVE OversellInv
    OBVIOUS
  <2>1. Deducted = {}
    BY DEF Init, LifeInit, Deducted, PaidStates
  <2> QED
    BY <2>1, FS_EmptySet, InitNumAssumption DEF Init, OversellInv
<1>2. TypeOK /\ OversellInv => NoOversell
  BY DEF TypeOK, OversellInv, NoOversell
<1> QED
  BY <1>1, <1>2, OversellStep, StockTypeCorrect, PTL DEF Spec

-----------------------------------------------------------------------------
(* The Redis counters, when no reply is lost *)

\* How far the handlers of an order can be when its row has a status: the
\* reason why an order owns at most one reserved piece, whichever handler
\* would give it back.
Phases(o) ==
  /\ creator[o] # "done" => type[o] = "None"
  /\ closer[o] # "idle" => type[o] = "Closed"
  /\ committer[o] # "idle" => type[o] \in PaidStates
  /\ commitPending[o] => committer[o] = "done"
  /\ ~restocked[o] => restocker[o] = "idle"
  /\ ~seeded => /\ creator[o] \in {"idle", "seeding"}
                /\ creator[o] = "seeding" => seenNum[o] = InitNum

\* ReserveScript never takes a piece that is not there.
AvailableNatural == available >= 0

StockInv ==
  /\ \A o \in Orders : Phases(o)
  /\ AvailableNatural
  /\ ReservedExact
  /\ StockConservation

NoLostReply == "lost_reply" \notin Faults

LEMMA SetsFinite ==
  /\ Holders \in SUBSET Orders /\ Cardinality(Holders) \in Nat
  /\ Unpaid \in SUBSET Orders /\ Cardinality(Unpaid) \in Nat
  /\ CommitOwed \in SUBSET Orders /\ Cardinality(CommitOwed) \in Nat
  /\ RestockOwed \in SUBSET Orders /\ Cardinality(RestockOwed) \in Nat
BY SubsetsFinite DEF Holders, Unpaid, CommitOwed, RestockOwed

\* Until the bucket exists nothing has happened to the product.
LEMMA UnseededUntouched ==
  ASSUME TypeOK, OversellInv, StockInv, ~seeded
  PROVE  /\ num = InitNum /\ reserved = 0
         /\ CommitOwed = {} /\ RestockOwed = {} /\ Holders = {}
<1>1. \A o \in Orders : creator[o] \in {"idle", "seeding"} /\ type[o] = "None"
  BY DEF StockInv, Phases
<1>2. Holders = {} /\ CommitOwed = {} /\ Deducted = {}
  BY <1>1 DEF StockInv, Phases, Holders, Holding, CommitOwed, Deducted, PaidStates
<1>3. RestockOwed = {}
  BY <1>1 DEF StockInv, Phases, OversellInv, RestockOwed
<1>4. Cardinality({}) = 0
  BY FS_EmptySet
<1> QED
  BY <1>2, <1>3, <1>4 DEF OversellInv, StockInv, ReservedExact, TypeOK

-----------------------------------------------------------------------------
\* OrderCreate.
LEMMA CreateKeepsInv ==
  ASSUME TypeOK, OversellInv, StockInv, NoLostReply,
         NEW o \in Orders, CreateStep(o)
  PROVE  StockInv'
<1> USE DEF OnlyCreate, dbVars, redisVars, createVars, commitVars, lifeVars
<1> DEFINE Keep == UNCHANGED <<closer, committer, commitPending, restocker, restocked, num>>
<1>1. Keep
  BY DEF CreateStep, Reserve, TryReserve, InitStockIfAbsent, ReserveRetry,
         CreateTx, CreateTxFails, ReleaseOnTxFailure, CreatorDies
<1>2. UNCHANGED <<CommitOwed, RestockOwed>>
  BY <1>1 DEF CommitOwed, RestockOwed
<1>3. CASE ReserveScript /\ creator[o] \in {"idle", "retry"} /\ UNCHANGED <<type, seenNum>>
           /\ SetCreator(o, "reserved")
  <2>1. \A p \in Orders : Phases(p)'
    BY <1>1, <1>3 DEF TypeOK, StockInv, Phases, ReserveScript, SetCreator
  <2>2. Holders' = Holders \cup {o} /\ o \notin Holders
    BY <1>1, <1>3 DEF TypeOK, StockInv, Phases, SetCreator, Holders, Holding, PaidStates
  <2>3. Cardinality(Holders') = Cardinality(Holders) + 1
    BY <2>2, SetsFinite, CountAdd
  <2> QED
    BY <1>1, <1>2, <1>3, <2>1, <2>3, SetsFinite
       DEF TypeOK, StockInv, AvailableNatural, ReservedExact, StockConservation, ReserveScript
<1>4. CASE /\ UNCHANGED <<redisVars, type>> /\ Holders' = Holders
           /\ \A p \in Orders : Phases(p)'
  BY <1>1, <1>2, <1>4
     DEF StockInv, AvailableNatural, ReservedExact, StockConservation
<1>5. CASE Reserve(o)
  <2>1. CASE seeded /\ available < 1 /\ SetCreator(o, "done") /\ UNCHANGED <<redisVars, seenNum>>
    <3>1. Holders' = Holders /\ \A p \in Orders : Phases(p)'
      BY <1>1, <1>5, <2>1
         DEF TypeOK, StockInv, Phases, Reserve, SetCreator, Holders, Holding, PaidStates
    <3> QED
      BY <1>4, <1>5, <2>1, <3>1 DEF Reserve
  <2>2. CASE /\ ~seeded /\ seenNum' = [seenNum EXCEPT ![o] = num]
             /\ SetCreator(o, "seeding") /\ UNCHANGED redisVars
    <3>1. num = InitNum
      BY <2>2, UnseededUntouched
    <3>2. Holders' = Holders /\ \A p \in Orders : Phases(p)'
      BY <1>1, <1>5, <2>2, <3>1
         DEF TypeOK, StockInv, Phases, Reserve, SetCreator, Holders, Holding, PaidStates
    <3> QED
      BY <1>4, <1>5, <2>2, <3>2 DEF Reserve
  <2> QED
    BY <1>3, <1>5, <2>1, <2>2 DEF Reserve, TryReserve, NoLostReply
<1>6. CASE InitStockIfAbsent(o)
  <2>1. Holders' = Holders /\ (\A p \in Orders : Phases(p)') /\ seeded' = TRUE /\ reserved' = reserved
    BY <1>1, <1>6
       DEF TypeOK, StockInv, Phases, InitStockIfAbsent, InitIfAbsentScript, SetCreator,
           Holders, Holding, PaidStates
  <2>2. CASE seeded
    BY <1>1, <1>2, <1>6, <2>1, <2>2
       DEF StockInv, AvailableNatural, ReservedExact, StockConservation,
           InitStockIfAbsent, InitIfAbsentScript
  <2>3. CASE ~seeded
    <3>1. seenNum[o] = InitNum
      BY <1>6, <2>3 DEF StockInv, Phases, InitStockIfAbsent
    <3>2. available' = InitNum
      BY <1>6, <2>3, <3>1, UnseededUntouched, InitNumAssumption
         DEF InitStockIfAbsent, InitIfAbsentScript
    <3>3. Cardinality(CommitOwed) = 0 /\ Cardinality(RestockOwed) = 0
      BY <2>3, UnseededUntouched, FS_EmptySet
    <3> QED
      BY <1>1, <1>2, <2>1, <2>3, <3>2, <3>3, UnseededUntouched, InitNumAssumption
         DEF StockInv, AvailableNatural, ReservedExact, StockConservation
  <2> QED
    BY <2>2, <2>3
<1>7. CASE ReserveRetry(o)
  <2>1. CASE SetCreator(o, "done") /\ UNCHANGED redisVars
    <3>1. Holders' = Holders /\ \A p \in Orders : Phases(p)'
      BY <1>1, <1>7, <2>1
         DEF TypeOK, StockInv, Phases, ReserveRetry, SetCreator, Holders, Holding, PaidStates
    <3> QED
      BY <1>4, <1>7, <2>1, <3>1 DEF ReserveRetry
  <2> QED
    BY <1>3, <1>7, <2>1 DEF ReserveRetry, TryReserve, NoLostReply
<1>8. CASE CreateTx(o)
  <2>1. Holders' = Holders /\ (\A p \in Orders : Phases(p)') /\ UNCHANGED redisVars
    BY <1>1, <1>8
       DEF TypeOK, LifeTypeOK, StockInv, Phases, CreateTx, CreateOrder, SetType, SetCreator,
           Holders, Holding, PaidStates
  <2> QED
    BY <1>1, <1>2, <2>1
       DEF StockInv, AvailableNatural, ReservedExact, StockConservation
<1>9. CASE CreateTxFails(o) \/ CreatorDies(o)
  <2>1. Holders' = Holders /\ (\A p \in Orders : Phases(p)') /\ UNCHANGED <<redisVars, type>>
    BY <1>1, <1>9
       DEF NoLostReply, TypeOK, StockInv, Phases, CreateTxFails, CreatorDies, SetCreator,
           Holders, Holding, PaidStates
  <2> QED
    BY <1>4, <2>1
<1>10. CASE ReleaseOnTxFailure(o)
  <2>1. o \in Holders /\ reserved >= 1
    BY <1>10, SetsFinite, CountRemove
       DEF StockInv, ReservedExact, ReleaseOnTxFailure, Holders, Holding
  <2>2. CASE SetCreator(o, "lost") /\ UNCHANGED redisVars
    <3>1. Holders' = Holders /\ (\A p \in Orders : Phases(p)')
      BY <1>1, <1>10, <2>2
         DEF TypeOK, StockInv, Phases, ReleaseOnTxFailure, SetCreator, Holders, Holding, PaidStates
    <3> QED
      BY <1>4, <1>10, <2>2, <3>1 DEF ReleaseOnTxFailure
  <2>3. CASE ReleaseScript(1) /\ SetCreator(o, "done")
    <3>1. \A p \in Orders : Phases(p)'
      BY <1>1, <1>10, <2>3
         DEF TypeOK, StockInv, Phases, ReleaseOnTxFailure, ReleaseScript, SetCreator
    <3>2. Holders' = Holders \ {o}
      BY <1>1, <1>10, <2>3
         DEF TypeOK, StockInv, Phases, ReleaseOnTxFailure, SetCreator, Holders, Holding, PaidStates
    <3>3. Cardinality(Holders') = Cardinality(Holders) - 1
      BY <2>1, <3>2, SetsFinite, CountRemove
    <3>4. seeded
      BY <2>1, UnseededUntouched
    <3> QED
      BY <1>1, <1>2, <2>3, <3>1, <3>3, <3>4, ReleaseOne, SetsFinite
         DEF TypeOK, StockInv, AvailableNatural, ReservedExact, StockConservation
  <2> QED
    BY <1>10, <2>1, <2>2, <2>3 DEF ReleaseOnTxFailure, TypeOK
<1> QED
  BY <1>5, <1>6, <1>7, <1>8, <1>9, <1>10
     DEF CreateStep

\* Payment and the commit of the reservation.
LEMMA PayKeepsInv ==
  ASSUME TypeOK, OversellInv, StockInv, NoLostReply,
         NEW o \in Orders, PayStep(o)
  PROVE  StockInv'
<1> USE DEF OnlyCommit, dbVars, redisVars, createVars, commitVars, lifeVars
<1>1. UNCHANGED <<creator, seenNum, closer, restocker, restocked>>
  BY DEF PayStep, PayTx, CommitReservation, CommitAttemptFails,
         SetStockCommitPending, CommitterDies
<1>2. RestockOwed' = RestockOwed
  BY <1>1 DEF RestockOwed
<1>3. CASE PayTx(o)
  <2>1. type[o] = "WaitPay" /\ committer[o] = "idle" /\ ~commitPending[o] /\ seeded
    BY <1>3 DEF StockInv, Phases, PayTx, MarkOrderPaid, PaidStates
  <2>2. \A p \in Orders : Phases(p)'
    BY <1>1, <1>3, <2>1
       DEF TypeOK, LifeTypeOK, StockInv, Phases, PayTx, MarkOrderPaid, SetType, PaidStates
  <2>3. Holders' = Holders
    BY <1>1, <1>3, <2>1
       DEF TypeOK, LifeTypeOK, PayTx, MarkOrderPaid, SetType, Holders, Holding
  <2>4. CommitOwed' = CommitOwed \cup {o} /\ o \notin CommitOwed
    BY <1>3, <2>1 DEF TypeOK, PayTx, CommitOwed
  <2>5. Cardinality(CommitOwed') = Cardinality(CommitOwed) + 1
    BY <2>4, SetsFinite, CountAdd
  <2>6. num' = num - 1 /\ UNCHANGED redisVars
    BY <1>3 DEF PayTx
  <2> QED
    BY <1>2, <2>1, <2>2, <2>3, <2>5, <2>6, SetsFinite
       DEF TypeOK, StockInv, AvailableNatural, ReservedExact, StockConservation
<1>4. CASE CommitReservation(o)
  <2>1. o \in Holders /\ o \in CommitOwed /\ ~commitPending[o]
    BY <1>4 DEF StockInv, Phases, CommitReservation, Holders, Holding, CommitOwed
  <2>2. reserved >= 1
    BY <2>1, SetsFinite, CountRemove DEF StockInv, ReservedExact
  <2>3. CommitScript /\ UNCHANGED num
    BY <1>4, <2>2 DEF TypeOK, CommitReservation
  <2>4. type[o] \in PaidStates /\ UNCHANGED type
    BY <1>4 DEF StockInv, Phases, CommitReservation
  <2>5. \A p \in Orders : Phases(p)'
    BY <1>1, <1>4, <2>3, <2>4 DEF TypeOK, StockInv, Phases, CommitReservation, CommitScript
  <2>6. Holders' = Holders \ {o}
    BY <1>1, <1>4, <2>1, <2>4
       DEF TypeOK, StockInv, Phases, CommitReservation, Holders, Holding, PaidStates
  <2>7. CommitOwed' = CommitOwed \ {o}
    BY <1>4, <2>1 DEF TypeOK, CommitReservation, CommitOwed
  <2>8. /\ Cardinality(Holders') = Cardinality(Holders) - 1
        /\ Cardinality(CommitOwed') = Cardinality(CommitOwed) - 1
    BY <2>1, <2>6, <2>7, SetsFinite, CountRemove
  <2> QED
    BY <1>2, <2>3, <2>5, <2>8, SetsFinite
       DEF TypeOK, StockInv, AvailableNatural, ReservedExact, StockConservation, CommitScript
<1>5. CASE CommitAttemptFails(o) \/ SetStockCommitPending(o) \/ CommitterDies(o)
  <2>1. UNCHANGED <<redisVars, type, num>>
    BY <1>5 DEF NoLostReply, CommitAttemptFails, SetStockCommitPending, CommitterDies
  <2>2. \A p \in Orders : Phases(p)'
    BY <1>1, <1>5, <2>1
       DEF TypeOK, StockInv, Phases, CommitAttemptFails, SetStockCommitPending, CommitterDies
  <2>3. Holders' = Holders /\ CommitOwed' = CommitOwed
    BY <1>1, <1>5, <2>1
       DEF TypeOK, Holders, Holding, CommitOwed,
           CommitAttemptFails, SetStockCommitPending, CommitterDies
  <2> QED
    BY <1>2, <2>1, <2>2, <2>3
       DEF StockInv, AvailableNatural, ReservedExact, StockConservation
<1> QED
  BY <1>3, <1>4, <1>5 DEF PayStep

\* Cancelling an unpaid order.
LEMMA CancelKeepsInv ==
  ASSUME TypeOK, OversellInv, StockInv,
         NEW o \in Orders, CancelStep(o)
  PROVE  StockInv'
<1> USE DEF dbVars, redisVars, createVars, commitVars, lifeVars
<1>1. UNCHANGED <<creator, seenNum, committer, commitPending, restocker, restocked, num>>
  BY DEF CancelStep, CancelTx, ReleaseOnCancel, CloserDies
<1>2. RestockOwed' = RestockOwed /\ CommitOwed' = CommitOwed
  BY <1>1 DEF RestockOwed, CommitOwed
<1>3. CASE /\ UNCHANGED redisVars /\ Holders' = Holders
           /\ \A p \in Orders : Phases(p)'
  BY <1>1, <1>2, <1>3
     DEF StockInv, AvailableNatural, ReservedExact, StockConservation
<1>4. CASE CancelTx(o)
  <2>1. type[o] = "WaitPay" /\ closer[o] = "idle" /\ UNCHANGED redisVars
    BY <1>4 DEF StockInv, Phases, CancelTx, CloseOrder
  <2>2. \A p \in Orders : Phases(p)'
    BY <1>1, <1>4, <2>1
       DEF TypeOK, LifeTypeOK, StockInv, Phases, CancelTx, CloseOrder, SetType, PaidStates
  <2>3. Holders' = Holders
    BY <1>1, <1>4, <2>1
       DEF TypeOK, LifeTypeOK, CancelTx, CloseOrder, SetType, Holders, Holding
  <2> QED
    BY <1>3, <2>1, <2>2, <2>3
<1>5. CASE CloserDies(o)
  <2>1. Holders' = Holders /\ (\A p \in Orders : Phases(p)') /\ UNCHANGED redisVars
    BY <1>1, <1>5 DEF TypeOK, StockInv, Phases, CloserDies, Holders, Holding
  <2> QED
    BY <1>3, <2>1
<1>6. CASE ReleaseOnCancel(o)
  <2>1. o \in Holders
    BY <1>6 DEF ReleaseOnCancel, Holders, Holding
  <2>2. reserved >= 1
    BY <2>1, SetsFinite, CountRemove DEF StockInv, ReservedExact
  <2>3. UNCHANGED type /\ type[o] = "Closed"
    BY <1>6 DEF StockInv, Phases, ReleaseOnCancel
  <2>4. CASE closer' = [closer EXCEPT ![o] = "lost"] /\ UNCHANGED redisVars
    <3>1. Holders' = Holders /\ (\A p \in Orders : Phases(p)')
      BY <1>1, <1>6, <2>3, <2>4
         DEF TypeOK, StockInv, Phases, ReleaseOnCancel, Holders, Holding
    <3> QED
      BY <1>3, <2>4, <3>1
  <2>5. CASE ReleaseScript(1) /\ closer' = [closer EXCEPT ![o] = "done"]
    <3>1. \A p \in Orders : Phases(p)'
      BY <1>1, <2>3, <2>5 DEF TypeOK, StockInv, Phases, ReleaseScript
    <3>2. Holders' = Holders \ {o}
      BY <1>1, <2>3, <2>5
         DEF TypeOK, StockInv, Phases, Holders, Holding, PaidStates
    <3>3. Cardinality(Holders') = Cardinality(Holders) - 1
      BY <2>1, <3>2, SetsFinite, CountRemove
    <3>4. seeded
      BY <2>1, UnseededUntouched
    <3> QED
      BY <1>1, <1>2, <2>5, <3>1, <3>3, <3>4, ReleaseOne, SetsFinite
         DEF TypeOK, StockInv, AvailableNatural, ReservedExact, StockConservation
  <2> QED
    BY <1>6, <2>2, <2>4, <2>5 DEF ReleaseOnCancel, TypeOK
<1> QED
  BY <1>4, <1>5, <1>6 DEF CancelStep

\* Refunds that put the piece back.
LEMMA RestockKeepsInv ==
  ASSUME TypeOK, OversellInv, StockInv,
         NEW o \in Orders, RestockStep(o)
  PROVE  StockInv'
<1> USE DEF dbVars, redisVars, createVars, commitVars, lifeVars
<1>1. UNCHANGED <<type, creator, seenNum, closer, committer, commitPending>>
  BY DEF RestockStep, SettleRefund, ConfirmReturnReceived, Restock, RestockRedis
<1>2. Holders' = Holders /\ CommitOwed' = CommitOwed
  BY <1>1 DEF Holders, Holding, CommitOwed
<1>3. CASE Restock(o)
  <2>1. restocker[o] = "idle" /\ seeded /\ UNCHANGED redisVars /\ num' = num + 1
    BY <1>3 DEF StockInv, Phases, Restock
  <2>2. \A p \in Orders : Phases(p)'
    BY <1>1, <1>3, <2>1 DEF TypeOK, StockInv, Phases, Restock
  <2>3. RestockOwed' = RestockOwed \cup {o} /\ o \notin RestockOwed
    BY <1>3, <2>1 DEF TypeOK, Restock, RestockOwed
  <2>4. Cardinality(RestockOwed') = Cardinality(RestockOwed) + 1
    BY <2>3, SetsFinite, CountAdd
  <2> QED
    BY <1>2, <2>1, <2>2, <2>4, SetsFinite
       DEF TypeOK, StockInv, AvailableNatural, ReservedExact, StockConservation
<1>4. CASE RestockRedis(o)
  <2>1. o \in RestockOwed /\ restocked[o] /\ seeded /\ UNCHANGED <<num, restocked>>
    BY <1>4, UnseededUntouched
       DEF StockInv, Phases, TypeOK, RestockRedis, RestockOwed
  <2>2. CASE restocker' = [restocker EXCEPT ![o] = "lost"] /\ UNCHANGED redisVars
    <3>1. RestockOwed' = RestockOwed
      BY <2>1, <2>2 DEF TypeOK, RestockOwed
    <3>2. \A p \in Orders : Phases(p)'
      BY <1>1, <2>1, <2>2 DEF TypeOK, StockInv, Phases
    <3> QED
      BY <1>2, <2>1, <2>2, <3>1, <3>2
         DEF StockInv, AvailableNatural, ReservedExact, StockConservation
  <2>3. CASE RestockScript /\ restocker' = [restocker EXCEPT ![o] = "done"]
    <3>1. RestockOwed' = RestockOwed \ {o}
      BY <2>1, <2>3 DEF TypeOK, RestockOwed
    <3>2. \A p \in Orders : Phases(p)'
      BY <1>1, <2>1, <2>3 DEF TypeOK, StockInv, Phases, RestockScript
    <3>3. Cardinality(RestockOwed') = Cardinality(RestockOwed) - 1
      BY <2>1, <3>1, SetsFinite, CountRemove
    <3>4. available' = available + 1 /\ UNCHANGED <<seeded, reserved>>
      BY <2>1, <2>3 DEF RestockScript
    <3> QED
      BY <1>2, <2>1, <3>2, <3>3, <3>4, SetsFinite
         DEF TypeOK, StockInv, AvailableNatural, ReservedExact, StockConservation
  <2> QED
    BY <1>4, <2>2, <2>3 DEF RestockRedis
<1> QED
  BY <1>3, <1>4 DEF RestockStep, SettleRefund, ConfirmReturnReceived

\* The handlers that move only the row.
LEMMA MoveRowKeepsInv ==
  ASSUME TypeOK, OversellInv, StockInv, NEW o \in Orders, MoveRow(o)
  PROVE  StockInv'
<1> USE DEF stockVars, dbVars, redisVars, createVars, commitVars
<1>1. UNCHANGED stockVars
  BY DEF MoveRow
<1>2. \A p \in Orders : /\ type'[p] \in PaidStates <=> type[p] \in PaidStates
                        /\ \A s \in {"None", "WaitPay", "Closed"} :
                             type'[p] = s <=> type[p] = s
  BY MoveRowKeepsClass
<1>3. \A p \in Orders : Phases(p)'
  BY <1>1, <1>2 DEF StockInv, Phases
<1>4. Holders' = Holders /\ CommitOwed' = CommitOwed /\ RestockOwed' = RestockOwed
  BY <1>1, <1>2 DEF Holders, Holding, CommitOwed, RestockOwed
<1> QED
  BY <1>1, <1>3, <1>4 DEF StockInv, AvailableNatural, ReservedExact, StockConservation

LEMMA StockInvStep ==
  ASSUME TypeOK, OversellInv, StockInv, NoLostReply, [Next]_vars
  PROVE  StockInv'
<1>1. CASE UNCHANGED vars
  BY <1>1 DEF vars, lifeVars, stockVars, dbVars, redisVars, createVars, commitVars,
              StockInv, Phases, AvailableNatural, ReservedExact, StockConservation,
              Holders, Holding, CommitOwed, RestockOwed
<1>2. CASE Next
  BY <1>2, CreateKeepsInv, PayKeepsInv, CancelKeepsInv, RestockKeepsInv, MoveRowKeepsInv
     DEF Next
<1> QED
  BY <1>1, <1>2

LEMMA StockInvInit ==
  ASSUME Init
  PROVE  OversellInv /\ StockInv
<1>1. Holders = {} /\ CommitOwed = {} /\ RestockOwed = {} /\ Deducted = {}
  BY DEF Init, LifeInit, Holders, Holding, CommitOwed, RestockOwed, Deducted, PaidStates
<1>2. Cardinality({}) = 0
  BY FS_EmptySet
<1>3. \A o \in Orders : Phases(o)
  BY DEF Init, LifeInit, Phases
<1>4. seeded => available = InitNum
  BY DEF Init
<1>5. available >= 0
  <2>1. CASE seeded
    BY <1>4, <2>1, InitNumAssumption
  <2>2. CASE ~seeded
    BY <2>2 DEF Init
  <2> QED
    BY <2>1, <2>2
<1>6. reserved = 0 /\ num = InitNum /\ \A o \in Orders : ~restocked[o]
  BY DEF Init
<1>7. OversellInv
  BY <1>1, <1>2, <1>6, InitNumAssumption DEF OversellInv
<1>8. StockConservation
  <2> SUFFICES ASSUME seeded
               PROVE  available + reserved + Cardinality(RestockOwed)
                        = num + Cardinality(CommitOwed)
    BY DEF StockConservation
  <2> QED
    BY <1>1, <1>2, <1>4, <1>6, InitNumAssumption
<1> QED
  BY <1>1, <1>2, <1>3, <1>5, <1>6, <1>7, <1>8
     DEF StockInv, AvailableNatural, ReservedExact

LEMMA StockInvariant ==
  ASSUME NoLostReply
  PROVE  Spec => [](TypeOK /\ OversellInv /\ StockInv)
<1>1. TypeOK /\ OversellInv /\ StockInv /\ [Next]_vars => (OversellInv /\ StockInv)'
  BY OversellStep, StockInvStep
<1> QED
  BY <1>1, StockInvInit, StockTypeCorrect, PTL DEF Spec

\* Crashes and Redis errors leave pieces behind in reserved, and never take
\* one from another order.
THEOREM ReservedIsExact == ASSUME NoLostReply PROVE Spec => []ReservedExact
<1>1. StockInv => ReservedExact
  BY DEF StockInv
<1> QED
  BY <1>1, StockInvariant, PTL

\* The two counters and product.num drift apart by exactly the steps that
\* are still to come or that will never come.
THEOREM StockIsConserved == ASSUME NoLostReply PROVE Spec => []StockConservation
<1>1. StockInv => StockConservation
  BY DEF StockInv
<1> QED
  BY <1>1, StockInvariant, PTL

\* An unpaid order can be paid: each owns a reserved piece, none of which is
\* owed to a paid order, and what is reserved is covered by product.num.
THEOREM UnpaidIsCovered == ASSUME NoLostReply PROVE Spec => []UnpaidCovered
<1>1. ASSUME TypeOK, OversellInv, StockInv
      PROVE  UnpaidCovered
  <2>1. Unpaid \cap CommitOwed = {}
    BY <1>1 DEF StockInv, Phases, Unpaid, CommitOwed, PaidStates
  <2>2. Unpaid \cup CommitOwed \in SUBSET Holders
    BY <1>1 DEF Unpaid, CommitOwed, Holders, Holding
  <2>3. /\ IsFiniteSet(Holders) /\ IsFiniteSet(Unpaid) /\ IsFiniteSet(CommitOwed)
        /\ IsFiniteSet(Unpaid \cup CommitOwed)
    BY <2>2, SetsFinite, SubsetsFinite
  <2>4. Cardinality(Unpaid \cup CommitOwed) <= Cardinality(Holders)
    BY <2>2, <2>3, FS_Subset
  <2>5. Cardinality(Unpaid \cup CommitOwed) = Cardinality(Unpaid) + Cardinality(CommitOwed)
    <3>1. Cardinality(Unpaid \cap CommitOwed) = 0
      BY <2>1, FS_EmptySet
    <3>2. Cardinality(Unpaid \cup CommitOwed)
            = Cardinality(Unpaid) + Cardinality(CommitOwed) - Cardinality(Unpaid \cap CommitOwed)
      BY <2>3, FS_Union
    <3> QED
      BY <3>1, <3>2, SetsFinite
  <2>6. CASE seeded
    BY <1>1, <2>4, <2>5, <2>6, SetsFinite
       DEF TypeOK, StockInv, AvailableNatural, ReservedExact, StockConservation, UnpaidCovered
  <2>7. CASE ~seeded
    <3>1. Unpaid = {} /\ num = InitNum
      BY <1>1, <2>2, <2>7, UnseededUntouched
    <3> QED
      BY <3>1, FS_EmptySet, InitNumAssumption DEF UnpaidCovered
  <2> QED
    BY <2>6, <2>7
<1> QED
  BY <1>1, StockInvariant, PTL
=============================================================================
