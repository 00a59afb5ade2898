---------------------------- MODULE PromoBudget ----------------------------
(***************************************************************************)
(* The daily budgets of discount rules: an order takes the best rule that  *)
(* still has budget, and a closed or refunded order gives it back once.    *)
(* The counter is reset by the first order of a day, with the day that the *)
(* order read before its UPDATE reached the row.                           *)
(***************************************************************************)
EXTENDS Setbacks, FiniteSetsExt

CONSTANTS Carts,        \* orders
          NumRules,     \* rules 1..NumRules, the larger discount first
          DailyBudget,
          MaxDay        \* bound: days of a behaviour

ASSUME PromoAssumption ==
  IsFiniteSet(Carts) /\ NumRules \in Nat \ {0} /\ DailyBudget \in Nat /\ MaxDay \in Nat \ {0}

VARIABLES
  calendar,  \* today
  rule,      \* rows: active, budget_date, consumed_today
  cart,      \* orders: step, day of CreatedAt, candidates, rule, day of the UPDATE's clock
  released,  \* promo_release rows
  overtaken  \* a clock read before midnight has moved a budget_date back

promoVars == <<calendar, rule, cart, released, overtaken, setbacks>>

Rules  == 1..NumRules
Cut(r) == NumRules + 1 - r
NoCart == [at |-> "none", made |-> 0, quoted |-> {}, rule |-> 0, clock |-> 0]

PromoTypeOK ==
  /\ calendar \in 1..MaxDay /\ overtaken \in BOOLEAN
  /\ rule \in [Rules -> [active : BOOLEAN, date : 0..MaxDay, consumed : 0..DailyBudget]]
  /\ cart \in [Carts ->
       [at : {"none", "quoted", "applies", "updates", "placed", "closed"},
        made : 0..MaxDay, quoted : SUBSET Rules, rule : 0..NumRules, clock : 0..MaxDay]]
  /\ released \in [Carts -> {"no", "restored", "lapsed"}]

PromoInit ==
  /\ calendar = 1 /\ overtaken = FALSE
  /\ rule = [r \in Rules |-> [active |-> TRUE, date |-> 0, consumed |-> 0]]
  /\ cart = [c \in Carts |-> NoCart] /\ released = [c \in Carts |-> "no"]

Used(r, day) == IF rule[r].date = day THEN rule[r].consumed ELSE 0

Step(c, to) == cart' = [cart EXCEPT ![c] = [@ EXCEPT !.at = to]]

-----------------------------------------------------------------------------
(* An order *)

CalculateBestDiscount(c) ==
  /\ cart[c] = NoCart
  /\ cart' = [cart EXCEPT ![c] = [@ EXCEPT !.at = "quoted", !.quoted =
       {r \in Rules : rule[r].active /\ Used(r, calendar) + Cut(r) <= DailyBudget}]]
  /\ UNCHANGED <<calendar, rule, released, overtaken, setbacks>>

CreateOrder(c) ==
  /\ cart[c].at = "quoted"
  /\ cart' = [cart EXCEPT ![c] = [@ EXCEPT !.made = calendar,
                                           !.at = IF cart[c].quoted = {} THEN "placed" ELSE "applies"]]
  /\ UNCHANGED <<calendar, rule, released, overtaken, setbacks>>

\* ApplyDiscountInTx: the clock is read, then the UPDATE waits for the row.
TriesRule(c) ==
  /\ cart[c].at = "applies"
  /\ cart' = [cart EXCEPT ![c] = [@ EXCEPT !.at = "updates", !.clock = calendar,
                                           !.rule = Min(cart[c].quoted)]]
  /\ UNCHANGED <<calendar, rule, released, overtaken, setbacks>>

\* The UPDATE holds the row until the order's transaction ends.
AtomicConsumeBudget(c) ==
  LET r == cart[c].rule
      today == cart[c].clock
      used == Used(r, today) + Cut(r)
      rest == cart[c].quoted \ {r}
  IN
  /\ cart[c].at = "updates"
  /\ IF rule[r].active /\ used <= DailyBudget
     THEN /\ rule' = [rule EXCEPT ![r] = [@ EXCEPT !.date = today, !.consumed = used]]
          /\ overtaken' = (overtaken \/ today < rule[r].date)
          /\ Step(c, "placed")
     ELSE /\ UNCHANGED <<rule, overtaken>>
          /\ cart' = [cart EXCEPT ![c] = [at |-> IF rest = {} THEN "placed" ELSE "applies",
                                           made |-> @.made, quoted |-> rest, rule |-> 0, clock |-> 0]]
  /\ UNCHANGED <<calendar, released, setbacks>>

\* The order's transaction rolls back, before the UPDATE or after it.
OrderFails(c) ==
  /\ cart[c].at \in {"applies", "updates"} /\ Setback
  /\ cart' = [cart EXCEPT ![c] = NoCart]
  /\ UNCHANGED <<calendar, rule, released, overtaken>>

\* Cancelled or refunded: an event with the rule and the day of CreatedAt.
OrderCloses(c) ==
  /\ cart[c].at = "placed" /\ Step(c, "closed")
  /\ UNCHANGED <<calendar, rule, released, overtaken, setbacks>>

\* Mutant: the order is not remembered as released.
MutReleaseDiscount(c) ==
  LET r == cart[c].rule
      restores == rule[r].date = cart[c].made /\ rule[r].consumed >= Cut(r)
  IN
  /\ cart[c].at = "closed" /\ r # 0
  /\ released' = [released EXCEPT ![c] = IF restores THEN "restored" ELSE "lapsed"]
  /\ rule' = IF restores THEN [rule EXCEPT ![r].consumed = @ - Cut(r)] ELSE rule
  /\ UNCHANGED <<calendar, cart, overtaken, setbacks>>

\* The event comes once or again: CreateReleaseOnce, then RestoreBudget.
ReleaseDiscount(c) ==
  LET r == cart[c].rule
      restores == rule[r].date = cart[c].made /\ rule[r].consumed >= Cut(r)
  IN
  /\ cart[c].at = "closed" /\ cart[c].rule # 0
  /\ IF released[c] # "no" THEN UNCHANGED <<rule, released>>
     ELSE /\ released' = [released EXCEPT ![c] = IF restores THEN "restored" ELSE "lapsed"]
          /\ rule' = IF restores THEN [rule EXCEPT ![r].consumed = @ - Cut(r)] ELSE rule
  /\ UNCHANGED <<calendar, cart, overtaken, setbacks>>

-----------------------------------------------------------------------------
StopRule(r) ==
  /\ rule[r].active /\ rule' = [rule EXCEPT ![r].active = FALSE]
  /\ UNCHANGED <<calendar, cart, released, overtaken, setbacks>>

Midnight ==
  /\ calendar < MaxDay /\ calendar' = calendar + 1
  /\ UNCHANGED <<rule, cart, released, overtaken, setbacks>>

PromoNext ==
  \/ \E c \in Carts :
       \/ CalculateBestDiscount(c) \/ CreateOrder(c) \/ TriesRule(c) \/ AtomicConsumeBudget(c)
       \/ OrderFails(c) \/ OrderCloses(c) \/ ReleaseDiscount(c)
  \/ (\E r \in Rules : StopRule(r)) \/ Midnight

PromoSpec == PromoInit /\ SetbacksInit /\ [][PromoNext]_promoVars

-----------------------------------------------------------------------------
(* Properties *)

\* What rule r has given on a day and not got back.
Given(r, day) ==
  LET counts(c) == /\ cart[c].at \in {"placed", "closed"} /\ released[c] # "restored"
                   /\ cart[c].rule = r /\ cart[c].clock = day
  IN SumFunction([c \in Carts |-> IF counts(c) THEN Cut(r) ELSE 0])

\* While no clock overtakes another at midnight, the counter is what the rule
\* has given on its day and no day gives more than the budget, however often an
\* order's closing is announced and whenever it is.
BudgetMatchesOrders ==
  ~overtaken => \A r \in Rules :
    /\ rule[r].consumed = Given(r, rule[r].date)
    /\ \A day \in 1..MaxDay : Given(r, day) <= DailyBudget

\* No day gives more than the budget, as the comment on AtomicConsumeBudget says.
NoDayOverspent == \A r \in Rules, day \in 1..MaxDay : Given(r, day) <= DailyBudget
=============================================================================
