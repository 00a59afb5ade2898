------------------------ MODULE OrderLifecycle_proofs ------------------------
(***************************************************************************)
(* Proofs about OrderLifecycle: types, the transition table of state.go    *)
(* and fulfilment, for any set of orders and any limit of refund requests. *)
(***************************************************************************)
EXTENDS OrderLifecycle, TLAPS

\* The type invariant is inductive by itself; the modules that extend the
\* lifecycle cite this lemma for the part of their step that moves the row.
LEMMA LifeTypeStep ==
  ASSUME LifeTypeOK, [LifeNext]_lifeVars
  PROVE  LifeTypeOK'
<1> USE MaxRefundsAssumption DEF LifeTypeOK, RefundAllowedFrom, SetType
<1>1. CASE UNCHANGED lifeVars
  BY <1>1 DEF lifeVars
<1>2. CASE LifeNext
  <2>1. PICK o \in Orders :
          \/ CreateOrder(o) \/ MarkOrderPaid(o) \/ CloseOrder(o)
          \/ ShipOrder(o) \/ ConfirmReceive(o) \/ RequestRefund(o)
          \/ ApproveRefund(o) \/ RejectRefundRead(o)
          \/ \E s \in RefundAllowedFrom :
               RejectRefund(o, s) \/ RejectRefundGivesUp(o, s)
    BY <1>2 DEF LifeNext
  <2>2. CASE CreateOrder(o) \/ MarkOrderPaid(o) \/ CloseOrder(o)
             \/ ConfirmReceive(o) \/ ApproveRefund(o)
    BY <2>2 DEF CreateOrder, MarkOrderPaid, CloseOrder, ConfirmReceive,
                ApproveRefund, State!OrderStates
  <2>3. CASE ShipOrder(o)
    BY <2>3 DEF ShipOrder, State!OrderStates
  <2>4. CASE RequestRefund(o)
    BY <2>4 DEF RequestRefund, State!OrderStates
  <2>5. CASE RejectRefundRead(o)
    BY <2>5 DEF RejectRefundRead, RestoreType
  <2>6. ASSUME NEW s \in RefundAllowedFrom, RejectRefund(o, s)
        PROVE  LifeTypeOK'
    BY <2>6 DEF RejectRefund, State!OrderStates
  <2>7. ASSUME NEW s \in RefundAllowedFrom, RejectRefundGivesUp(o, s)
        PROVE  LifeTypeOK'
    BY <2>7 DEF RejectRefundGivesUp
  <2> QED
    BY <2>1, <2>2, <2>3, <2>4, <2>5, <2>6, <2>7
<1> QED
  BY <1>1, <1>2

\* Every column keeps the values the code gives it.
THEOREM LifeTypeCorrect == LifeSpec => []LifeTypeOK
<1>1. LifeInit => LifeTypeOK
  BY MaxRefundsAssumption DEF LifeInit, LifeTypeOK
<1> QED
  BY <1>1, LifeTypeStep, PTL DEF LifeSpec

-----------------------------------------------------------------------------
\* Every UPDATE of the handlers is a transition of state.go or leaves the
\* status alone, for every interleaving of stale rejections.
THEOREM LifecycleImplementsTable == LifeSpec => ImplementsStateTable
<1>1. LifeInit => State!Init
  BY DEF LifeInit, State!Init
<1>2. LifeTypeOK /\ [LifeNext]_lifeVars => [State!Next]_type
  <2> SUFFICES ASSUME LifeTypeOK, LifeNext, type' # type
               PROVE  State!Next
    BY DEF lifeVars
  <2>1. PICK o \in Orders :
          \/ CreateOrder(o) \/ MarkOrderPaid(o) \/ CloseOrder(o)
          \/ ShipOrder(o) \/ ConfirmReceive(o) \/ RequestRefund(o)
          \/ ApproveRefund(o)
          \/ \E s \in RefundAllowedFrom : RejectRefund(o, s)
    BY DEF LifeNext, RejectRefundRead, RejectRefundGivesUp
  <2>2. CASE CreateOrder(o)
    BY <2>2 DEF CreateOrder, SetType, State!Next, State!Insert
  <2>3. ASSUME ~ CreateOrder(o)
        PROVE  \E s \in State!OrderStates :
                 /\ type[o] # "None"
                 /\ State!CanTransition(type[o], s)
                 /\ type' = [type EXCEPT ![o] = s]
    BY <2>1, <2>3 DEF MarkOrderPaid, CloseOrder, ShipOrder, ConfirmReceive,
         RequestRefund, ApproveRefund, RejectRefund, SetType, RefundAllowedFrom,
         State!CanTransition, State!Transitions, State!OrderStates
  <2> QED
    BY <2>2, <2>3 DEF State!Next, State!Move
<1> QED
  BY <1>1, <1>2, LifeTypeCorrect, PTL DEF LifeSpec, ImplementsStateTable, State!Spec

-----------------------------------------------------------------------------
\* NoFulfilmentSkipped is not inductive: what a rejection will write is
\* fixed when a refund is requested and read later, so the statuses on
\* their way back must have been reached by a shipped order as well.
AfterShipping == {"WaitReceive", "Completed"}

ShippedInv ==
  /\ NoFulfilmentSkipped
  /\ \A o \in Orders :
       /\ refundFrom[o] \in AfterShipping => shipped[o]
       /\ rejecting[o] \cap AfterShipping # {} => shipped[o]
       /\ type[o] = "Refunding" => refundFrom[o] \in RefundAllowedFrom

\* Goods are never received or completed without having been shipped.
THEOREM FulfilmentNeverSkipped == LifeSpec => []NoFulfilmentSkipped
<1>1. LifeInit => ShippedInv
  BY DEF LifeInit, ShippedInv, NoFulfilmentSkipped, AfterShipping
<1>2. LifeTypeOK /\ ShippedInv /\ [LifeNext]_lifeVars => ShippedInv'
  <2> SUFFICES ASSUME LifeTypeOK, ShippedInv, [LifeNext]_lifeVars
               PROVE  ShippedInv'
    OBVIOUS
  <2> USE DEF LifeTypeOK, ShippedInv, NoFulfilmentSkipped, AfterShipping,
              RefundAllowedFrom, SetType
  <2>1. CASE UNCHANGED lifeVars
    BY <2>1 DEF lifeVars
  <2>2. ASSUME NEW o \in Orders, CreateOrder(o) \/ MarkOrderPaid(o) \/ CloseOrder(o)
        PROVE  ShippedInv'
    BY <2>2 DEF CreateOrder, MarkOrderPaid, CloseOrder
  <2>3. ASSUME NEW o \in Orders, ShipOrder(o)
        PROVE  ShippedInv'
    BY <2>3 DEF ShipOrder
  <2>4. ASSUME NEW o \in Orders, ConfirmReceive(o) \/ ApproveRefund(o)
        PROVE  ShippedInv'
    BY <2>4 DEF ConfirmReceive, ApproveRefund
  <2>5. ASSUME NEW o \in Orders, RequestRefund(o)
        PROVE  ShippedInv'
    BY <2>5 DEF RequestRefund
  <2>6. ASSUME NEW o \in Orders, RejectRefundRead(o)
        PROVE  ShippedInv'
    BY <2>6 DEF RejectRefundRead, RestoreType
  <2>7. ASSUME NEW o \in Orders, NEW s \in RefundAllowedFrom, RejectRefund(o, s)
        PROVE  ShippedInv'
    BY <2>7 DEF RejectRefund
  <2>8. ASSUME NEW o \in Orders, NEW s \in RefundAllowedFrom, RejectRefundGivesUp(o, s)
        PROVE  ShippedInv'
    BY <2>8 DEF RejectRefundGivesUp
  <2> QED
    BY <2>1, <2>2, <2>3, <2>4, <2>5, <2>6, <2>7, <2>8 DEF LifeNext
<1>3. ShippedInv => NoFulfilmentSkipped
  BY DEF ShippedInv
<1> QED
  BY <1>1, <1>2, <1>3, LifeTypeCorrect, PTL DEF LifeSpec
=============================================================================
