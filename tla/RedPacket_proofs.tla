--------------------------- MODULE RedPacket_proofs ---------------------------
(***************************************************************************)
(* Proofs about RedPacket, for any number of users, shares, cents, sweeps, *)
(* takes and errors.  The argument: every user has one share at most, due, *)
(* whether it is marked in Redis, held by a request, read by a sweep or    *)
(* booked, as long as it is not booked twice; the shares in the list and   *)
(* the shares that are due are at most the packet, and all of it when      *)
(* there are as many as were sent.  What keeps a share the one share of    *)
(* its user is the mark: who holds or has booked a share is marked, and    *)
(* what a sweep pays is marked as under repair, until Redis forgets.       *)
(***************************************************************************)
EXTENDS RedPacket, Campaigns_proofs

MarkStates == {"none", "fresh", "old", "repair"}
MarkRow    == [share : Amount, nth : 0..MaxTakes, state : MarkStates]
GuestStages == {"idle", "checked", "popped", "failed", "closed", "rollback"}
GuestRow   == [at : GuestStages, share : Amount, takes : 0..MaxTakes]
SweepStages == {"idle", "pool", "marks", "claims", "mend", "claim", "refund", "release"}
SweepRow   == [at : SweepStages, expire : BOOLEAN, poolGone : BOOLEAN, pending : BOOLEAN,
               seen : [Guests -> MarkRow], todo : SUBSET Guests, of : SUBSET Guests]
PacketRow  == [status : {"none", "active", "finished", "refunded"}, remaining : 0..PacketCount]
Pieces     == 1..PacketTotal

PacketTyped ==
  /\ packet \in PacketRow /\ packetAge \in {"young", "open", "expired", "held"}
  /\ shares \in Seq(Pieces) /\ taken \in [Guests -> MarkRow]
  /\ booked \in [Guests -> Amount] /\ refunded \in Int
  /\ sender \in [at : {"idle", "prepare", "refund", "release", "done"}, dealt : Seq(Pieces)]
  /\ guest \in [Guests -> GuestRow] /\ sweep \in [PacketSweeps -> SweepRow]

Shared(u)  == guest[u].at \in {"popped", "failed", "closed", "rollback"}
Pays(s, u) == sweep[s].at = "claim" /\ u \in sweep[s].of
Handles(s, u) == Pays(s, u) \/ (sweep[s].at \in {"mend", "claim"} /\ u \in sweep[s].todo)

\* Before the pool is prepared, and once Redis has forgotten it for good.
Unsent == sender.at \in {"idle", "prepare"}
Gone   == ~Unsent /\ shares = <<>> /\ \A u \in Guests : taken[u] = NoMark

SenderFirst ==
  /\ sender.at = "idle" <=> packet.status = "none"
  /\ Unsent => /\ shares = <<>>
               /\ \A u \in Guests : taken[u] = NoMark /\ booked[u] = 0 /\ ~Shared(u)
               /\ \A s \in PacketSweeps : \A u \in Guests : sweep[s].seen[u] = NoMark
  /\ sender.at = "prepare" => Len(sender.dealt) = PacketCount /\ SumFunction(sender.dealt) = PacketTotal

BookedGuests == {u \in Guests : booked[u] > 0}
BookedSum    == SumFunctionOnSet(booked, Guests)

PacketCounts ==
  /\ packet.status # "none" => packet.remaining = PacketCount - Cardinality(BookedGuests)
  /\ packet.status = "active" => packet.remaining > 0
  /\ packet.status = "finished" => packet.remaining = 0
  /\ refunded = IF packet.status = "refunded" THEN PacketTotal - BookedSum ELSE 0

RealMark(m) == /\ m.state = "none" \/ m.nth = 0 => m = NoMark
               /\ m # NoMark => m.share >= 1

\* What a user has taken, and what each sweep has seen of it.
GuestMarked(u) ==
  /\ RealMark(taken[u]) /\ taken[u].nth <= guest[u].takes
  /\ guest[u].at = "checked" => guest[u].takes < MaxTakes
  /\ Shared(u) => guest[u].share >= 1
SweepSaw(s, u) ==
  /\ RealMark(sweep[s].seen[u]) /\ sweep[s].seen[u].nth <= guest[u].takes
  /\ sweep[s].seen[u] # NoMark /\ taken[u].nth = sweep[s].seen[u].nth => taken[u].share = sweep[s].seen[u].share
  /\ Handles(s, u) => sweep[s].seen[u] # NoMark

MarksReal == \A u \in Guests : GuestMarked(u)
SweepsSaw == \A s \in PacketSweeps, u \in Guests : SweepSaw(s, u)

\* Who has a share or has booked one is marked, and what a sweep pays is locked.
HeldByMark(u) ==
  /\ Shared(u) => taken[u] # NoMark
  /\ booked[u] > 0 => taken[u] # NoMark /\ (guest[u].at = "rollback" => taken[u].state = "repair")
  /\ \A s \in PacketSweeps : Pays(s, u) => taken[u].state = "repair"
MarksHold == Gone \/ \A u \in Guests : HeldByMark(u)

\* The one share of each user, however many hold it.
FitsOne(due, u) ==
  /\ booked[u] > 0 => due[u] = booked[u]
  /\ booked[u] = 0 =>
       /\ taken[u] # NoMark => due[u] = taken[u].share
       /\ Shared(u) => due[u] = guest[u].share
       /\ \A s \in PacketSweeps : Pays(s, u) => due[u] = sweep[s].seen[u].share
Fits(due) == \A u \in Guests : FitsOne(due, u)

\* n shares worth of sum, all of them dealt, and all of the packet in them.
Within(n, sum) == n <= PacketCount /\ sum <= PacketTotal /\ (n = PacketCount => sum = PacketTotal)
Entitled(due)  == {u \in Guests : due[u] > 0}
DueSum(due) == SumFunctionOnSet(due, Guests)
Dealt(due, list) == Within(Len(list) + Cardinality(Entitled(due)), SumFunction(list) + DueSum(due))

SharesDue == \E due \in [Guests -> Amount] : Fits(due) /\ Dealt(due, shares)

PacketInv ==
  PacketTyped /\ setbacks \in Nat /\ SenderFirst /\ PacketCounts /\ MarksReal /\ SweepsSaw /\ MarksHold /\ SharesDue

-----------------------------------------------------------------------------
LEMMA PacketConstants ==
  /\ IsFiniteSet(Guests) /\ PacketCount \in Nat /\ PacketCount >= 1 /\ PacketTotal \in Nat /\ PacketTotal >= 1
  /\ MaxTakes \in Nat /\ MaxTakes >= 1 /\ Pieces \subseteq Int /\ Pieces \subseteq Amount /\ 0 \in Amount
BY PacketAssumption DEF Pieces, Amount

LEMMA NoMarkFacts ==
  NoMark \in MarkRow /\ NoMark.share = 0 /\ NoMark.nth = 0 /\ NoMark.state = "none"
BY PacketConstants DEF NoMark, MarkRow, MarkStates

LEMMA IdleSweepFacts ==
  /\ IdleSweep \in SweepRow /\ IdleSweep.at = "idle" /\ IdleSweep.todo = {} /\ IdleSweep.of = {}
  /\ IdleSweep.seen = [u \in Guests |-> NoMark]
BY NoMarkFacts DEF IdleSweep, SweepRow, SweepStages

LEMMA IdleGuestFacts ==
  IdleGuest \in GuestRow /\ IdleGuest.at = "idle" /\ IdleGuest.share = 0 /\ IdleGuest.takes = 0
BY PacketConstants DEF IdleGuest, GuestRow, GuestStages

\* Whatever SplitRedPacket deals, it is the packet.
LEMMA SplitIsPacket ==
  ASSUME NEW dealt \in SplitRedPacket(PacketTotal, PacketCount)
  PROVE  dealt \in Seq(Pieces) /\ Len(dealt) = PacketCount /\ SumFunction(dealt) = PacketTotal
<1> DEFINE n == PacketCount
           S == 1..n
           R == 1..(n - 1)
<1>1. PICK s \in [S -> 1..PacketTotal], p \in Bijection(S, S) :
        /\ s[n] = PacketTotal - SumFunctionOnSet(s, 1..(n - 1))
        /\ dealt = [i \in S |-> s[p[i]]]
  BY DEF SplitRedPacket
<1>2. n \in Nat /\ n >= 1 /\ IsFiniteSet(S) /\ IsFiniteSet(R) /\ n \in S /\ R \subseteq S
  <2>1. n \in Int /\ n - 1 \in Int /\ 1 \in Int /\ n >= 1
    BY PacketConstants
  <2>2. IsFiniteSet(1..n) /\ IsFiniteSet(1..(n - 1))
    BY <2>1, FS_Interval
  <2> QED
    BY <2>1, <2>2
<1>3. p \in [S -> S] /\ (\A x \in S, y \in S : p[x] = p[y] => x = y) /\ \A y \in S : \E x \in S : p[x] = y
  BY <1>1 DEF Bijection, Injection, Surjection, IsInjective
<1>4. s \in [S -> Int] /\ s[n] \in Int
  BY <1>1, <1>2
<1>5. dealt \in [S -> Pieces] /\ dealt \in [S -> Int]
  BY <1>1, <1>3, SMTT(60) DEF Pieces
<1>6. dealt \in Seq(Pieces) /\ Len(dealt) = n /\ DOMAIN dealt = S
  BY <1>2, <1>5
<1>7. Carries(p, S, dealt, S, s)
  BY <1>1, <1>3, <1>4, <1>5 DEF Carries
<1> HIDE DEF S, R
<1>8. SumFunctionOnSet(dealt, S) = SumFunctionOnSet(s, S)
  BY <1>2, <1>7, SumCarried
<1>9. SumFunctionOnSet(s, S) = s[n] + SumFunctionOnSet(s, R)
  <2> DEFINE f == [i \in S |-> IF i = n THEN 0 ELSE s[i]]
             h == [i \in R |-> s[i]]
             q == [i \in R |-> i]
  <2>1. f \in [S -> Int] /\ f[n] = 0 /\ \A i \in S : i # n => s[i] = f[i]
    BY <1>2, <1>4
  <2>2. SumFunctionOnSet(s, S) = SumFunctionOnSet(f, S) + s[n] - f[n]
    <3> HIDE DEF f
    <3> QED
      BY <1>2, <1>4, <2>1, SumUpdate
  <2>3. h \in [R -> Int] /\ q \in [R -> S] /\ \A x \in R : h[x] = s[x] /\ q[x] = x
    BY <1>2, <1>4
  <2>4. n \notin R /\ \A y \in S : y \notin R => y = n
    BY <1>2 DEF S, R
  <2>5. \A x \in R : h[x] = f[q[x]]
    BY <1>2, <2>1, <2>3, <2>4
  <2>6. \A y \in S : (\A x \in R : q[x] # y) => f[y] = 0
    BY <1>2, <2>1, <2>3, <2>4
  <2>7. Carries(q, R, h, S, f)
    <3> HIDE DEF f, h, q
    <3> QED
      BY <2>1, <2>3, <2>5, <2>6 DEF Carries
  <2> HIDE DEF f, h, q
  <2>8. SumFunctionOnSet(h, R) = SumFunctionOnSet(f, S)
    BY <1>2, <2>7, SumCarried
  <2>9. SumFunctionOnSet(h, R) = SumFunctionOnSet(s, R) /\ SumFunctionOnSet(h, R) \in Int
    BY <1>2, <2>3, SumSame, SumInt
  <2> QED
    BY <1>4, <2>1, <2>2, <2>8, <2>9
<1>a. SumFunctionOnSet(s, R) \in Int
  <2>1. [i \in R |-> s[i]] \in [R -> Int]
    BY <1>2, <1>4
  <2>2. SumFunctionOnSet([i \in R |-> s[i]], R) \in Int
    BY <1>2, <2>1, SumInt
  <2>3. SumFunctionOnSet([i \in R |-> s[i]], R) = SumFunctionOnSet(s, R)
    BY <1>2, SumSame
  <2> QED
    BY <2>2, <2>3
<1>b. SumFunction(dealt) = SumFunctionOnSet(dealt, S)
  BY <1>6 DEF SumFunction
<1>c. s[n] = PacketTotal - SumFunctionOnSet(s, R)
  BY <1>1 DEF R
<1> QED
  BY <1>6, <1>8, <1>9, <1>a, <1>b, <1>c, PacketConstants

-----------------------------------------------------------------------------
(* Shares that are dealt, given back and lost *)

LEMMA DueMoves ==
  ASSUME NEW due \in [Guests -> Amount], NEW more \in [Guests -> Amount], NEW u \in Guests,
         \A v \in Guests : v # u => more[v] = due[v]
  PROVE  /\ Cardinality(Entitled(due)) \in Nat /\ Cardinality(Entitled(more)) \in Nat
         /\ Cardinality(Entitled(more)) = Cardinality(Entitled(due)) + Weight(more[u] > 0) - Weight(due[u] > 0)
         /\ DueSum(due) \in Nat /\ DueSum(more) \in Nat
         /\ DueSum(more) = DueSum(due) + more[u] - due[u]
<1>1. /\ Entitled(due) \in SUBSET Guests /\ Entitled(more) \in SUBSET Guests
      /\ \A v \in Guests : v # u => (v \in Entitled(more) <=> v \in Entitled(due))
      /\ u \in Entitled(due) <=> due[u] > 0
      /\ u \in Entitled(more) <=> more[u] > 0
  BY DEF Entitled
<1>2. due \in [Guests -> Int] /\ more \in [Guests -> Int] /\ due \in [Guests -> Nat] /\ more \in [Guests -> Nat]
  BY DEF Amount
<1>3. DueSum(due) \in Nat /\ DueSum(more) \in Nat
  BY <1>2, SumNat, PacketConstants DEF DueSum
<1>4. DueSum(more) = DueSum(due) + more[u] - due[u]
  BY <1>2, SumUpdate, PacketConstants DEF DueSum
<1> HIDE DEF Entitled
<1>5. /\ Cardinality(Entitled(due)) \in Nat /\ Cardinality(Entitled(more)) \in Nat
      /\ Cardinality(Entitled(more)) = Cardinality(Entitled(due)) + Weight(u \in Entitled(more)) - Weight(u \in Entitled(due))
  BY <1>1, CountMoves, PacketConstants
<1> QED
  BY <1>1, <1>3, <1>4, <1>5 DEF Weight

LEMMA ListSumNat ==
  ASSUME NEW list \in Seq(Pieces)
  PROVE  SumFunction(list) \in Nat /\ SumFunction(list) \in Int /\ Len(list) \in Nat
<1>1. list \in [1..Len(list) -> Pieces] /\ DOMAIN list = 1..Len(list) /\ Len(list) \in Nat
  OBVIOUS
<1>2. list \in [1..Len(list) -> Nat]
  BY <1>1 DEF Pieces
<1>3. IsFiniteSet(1..Len(list))
  BY <1>1, FS_Interval
<1>4. SumFunctionOnSet(list, 1..Len(list)) \in Nat
  BY <1>2, <1>3, SumNat
<1> QED
  BY <1>1, <1>4 DEF SumFunction

LEMMA HeadAndTail ==
  ASSUME NEW list \in Seq(Pieces), list # <<>>
  PROVE  /\ Tail(list) \in Seq(Pieces) /\ Len(Tail(list)) = Len(list) - 1 /\ Head(list) \in Pieces
         /\ Head(list) \in Nat /\ Head(list) >= 1 /\ Head(list) \in Amount
         /\ SumFunction(Tail(list)) = SumFunction(list) - Head(list)
<1>1. Tail(list) \in Seq(Pieces) /\ Len(Tail(list)) = Len(list) - 1 /\ Head(list) \in Pieces
  OBVIOUS
<1>2. SumFunction(list) = Head(list) + SumFunction(Tail(list))
  BY SumOfTail, PacketConstants
<1>3. Head(list) \in Nat /\ Head(list) >= 1 /\ Head(list) \in Amount
  BY <1>1 DEF Pieces, Amount
<1>4. SumFunction(Tail(list)) \in Nat
  BY <1>1, ListSumNat
<1> QED
  BY <1>1, <1>2, <1>3, <1>4

\* A user takes the first share of the list; what it had before is lost.
LEMMA DealtPops ==
  ASSUME NEW due \in [Guests -> Amount], NEW list \in Seq(Pieces), list # <<>>, Dealt(due, list),
         NEW u \in Guests, NEW more \in [Guests -> Amount],
         more[u] = Head(list), \A v \in Guests : v # u => more[v] = due[v]
  PROVE  Dealt(more, Tail(list))
<1>1. /\ Cardinality(Entitled(due)) \in Nat /\ Cardinality(Entitled(more)) \in Nat
      /\ Cardinality(Entitled(more)) = Cardinality(Entitled(due)) + Weight(more[u] > 0) - Weight(due[u] > 0)
      /\ DueSum(due) \in Nat /\ DueSum(more) \in Nat
      /\ DueSum(more) = DueSum(due) + more[u] - due[u]
  BY DueMoves
<1>2. /\ Tail(list) \in Seq(Pieces) /\ Len(Tail(list)) = Len(list) - 1 /\ Head(list) \in Nat /\ Head(list) >= 1
      /\ SumFunction(Tail(list)) = SumFunction(list) - Head(list)
  BY HeadAndTail
<1>3. SumFunction(list) \in Nat /\ Len(list) \in Nat
  BY ListSumNat
<1>4. Within(Len(list) + Cardinality(Entitled(due)), SumFunction(list) + DueSum(due))
  BY DEF Dealt
<1>5. Weight(more[u] > 0) = 1 /\ due[u] \in Nat /\ (Weight(due[u] > 0) = 0 => due[u] = 0) /\ Weight(due[u] > 0) \in {0, 1}
  BY <1>2 DEF Weight, Amount
<1> DEFINE n == Len(list) + Cardinality(Entitled(due))
           sum == SumFunction(list) + DueSum(due)
           k == Len(Tail(list)) + Cardinality(Entitled(more))
           rest == SumFunction(Tail(list)) + DueSum(more)
<1>6. k = n - Weight(due[u] > 0) /\ n \in Nat
  BY <1>1, <1>2, <1>3, <1>5, SMTT(60)
<1>7. rest = sum - due[u] /\ sum \in Nat
  BY <1>1, <1>2, <1>3, <1>5, SMTT(60)
<1>8. Within(n, sum)
  BY <1>4
<1> HIDE DEF n, sum, k, rest
<1>9. Within(k, rest)
  <2>1. CASE Weight(due[u] > 0) = 0
    BY <1>5, <1>6, <1>7, <1>8, <2>1
  <2>2. CASE Weight(due[u] > 0) = 1
    BY <1>5, <1>6, <1>7, <1>8, <2>2, PacketConstants DEF Within
  <2> QED
    BY <1>5, <2>1, <2>2
<1> QED
  BY <1>9 DEF Dealt, k, rest

\* A share goes back to the front of the list.
LEMMA DealtBack ==
  ASSUME NEW due \in [Guests -> Amount], NEW list \in Seq(Pieces), Dealt(due, list),
         NEW u \in Guests, due[u] >= 1, NEW less \in [Guests -> Amount],
         less[u] = 0, \A v \in Guests : v # u => less[v] = due[v]
  PROVE  <<due[u]>> \o list \in Seq(Pieces) /\ Dealt(less, <<due[u]>> \o list)
<1>1. /\ Cardinality(Entitled(due)) \in Nat /\ Cardinality(Entitled(less)) \in Nat
      /\ Cardinality(Entitled(less)) = Cardinality(Entitled(due)) + Weight(less[u] > 0) - Weight(due[u] > 0)
      /\ DueSum(due) \in Nat /\ DueSum(less) \in Nat
      /\ DueSum(less) = DueSum(due) + less[u] - due[u]
  BY DueMoves
<1>2. due[u] \in Pieces /\ due[u] \in Nat
  BY DEF Pieces, Amount
<1>3. /\ <<due[u]>> \o list \in Seq(Pieces) /\ Len(<<due[u]>> \o list) = Len(list) + 1
      /\ SumFunction(<<due[u]>> \o list) = due[u] + SumFunction(list)
  BY <1>2, SumOfMoreInFront, PacketConstants, ZenonT(60)
<1>4. SumFunction(list) \in Nat /\ Len(list) \in Nat
  BY ListSumNat
<1>5. Weight(less[u] > 0) = 0 /\ Weight(due[u] > 0) = 1
  BY <1>2 DEF Weight
<1>6. Len(<<due[u]>> \o list) + Cardinality(Entitled(less)) = Len(list) + Cardinality(Entitled(due))
  BY <1>1, <1>3, <1>4, <1>5
<1>7. SumFunction(<<due[u]>> \o list) + DueSum(less) = SumFunction(list) + DueSum(due)
  BY <1>1, <1>2, <1>3, <1>4
<1> QED
  BY <1>3, <1>6, <1>7 DEF Dealt

\* The list is lost.
LEMMA DealtLost ==
  ASSUME NEW due \in [Guests -> Amount], NEW list \in Seq(Pieces), Dealt(due, list)
  PROVE  Dealt(due, <<>>)
<1>1. Cardinality(Entitled(due)) \in Nat
  BY FiniteParts, PacketConstants DEF Entitled
<1>2. due \in [Guests -> Nat]
  BY DEF Amount
<1>3. DueSum(due) \in Nat
  BY <1>2, SumNat, PacketConstants DEF DueSum
<1>4. SumFunction(<<>>) = 0 /\ Len(<<>>) = 0
  <2>1. DOMAIN <<>> = {}
    OBVIOUS
  <2>2. SumFunctionOnSet(<<>>, {}) = 0
    BY SumZero, FS_EmptySet
  <2> QED
    BY <2>1, <2>2 DEF SumFunction
<1>5. SumFunction(list) \in Nat /\ Len(list) \in Nat
  BY ListSumNat
<1>6. CASE list = <<>>
  BY <1>6
<1>7. CASE list # <<>>
  <2>1. Len(list) >= 1
    BY <1>7
  <2> QED
    BY <1>1, <1>3, <1>4, <1>5, <2>1, PacketConstants DEF Dealt, Within
<1> QED
  BY <1>6, <1>7

-----------------------------------------------------------------------------
LEMMA EmptyList == SumFunction(<<>>) = 0 /\ Len(<<>>) = 0 /\ <<>> \in Seq(Pieces)
<1>1. DOMAIN <<>> = {}
  OBVIOUS
<1>2. SumFunctionOnSet(<<>>, {}) = 0
  BY SumZero, FS_EmptySet
<1>3. SumFunction(<<>>) = 0
  BY <1>1, <1>2 DEF SumFunction
<1> QED
  BY <1>3

\* Nobody has anything.
LEMMA NobodyDue ==
  ASSUME NEW list \in Seq(Pieces), Within(Len(list), SumFunction(list))
  PROVE  [u \in Guests |-> 0] \in [Guests -> Amount] /\ Dealt([u \in Guests |-> 0], list)
<1> DEFINE due == [u \in Guests |-> 0]
<1>1. due \in [Guests -> Amount] /\ \A u \in Guests : due[u] = 0
  BY PacketConstants
<1>2. Entitled(due) = {}
  BY <1>1 DEF Entitled
<1>3. Cardinality(Entitled(due)) = 0 /\ DueSum(due) = 0
  BY <1>1, <1>2, FS_EmptySet, SumZero, PacketConstants DEF DueSum
<1> HIDE DEF due
<1>4. Len(list) + Cardinality(Entitled(due)) = Len(list) /\ SumFunction(list) + DueSum(due) = SumFunction(list)
  BY <1>3, ListSumNat
<1>5. Dealt(due, list)
  BY <1>4 DEF Dealt
<1> QED
  BY <1>1, <1>5 DEF due

LEMMA PacketInitInv == PacketInit /\ SetbacksInit => PacketInv
<1> SUFFICES ASSUME PacketInit, SetbacksInit PROVE PacketInv
  OBVIOUS
<1> USE DEF PacketInit
<1>1. PacketTyped
  <2>1. packet \in PacketRow
    BY PacketConstants DEF PacketRow
  <2>2. taken \in [Guests -> MarkRow] /\ guest \in [Guests -> GuestRow] /\ sweep \in [PacketSweeps -> SweepRow]
    BY NoMarkFacts, IdleGuestFacts, IdleSweepFacts
  <2>3. shares \in Seq(Pieces) /\ sender \in [at : {"idle", "prepare", "refund", "release", "done"}, dealt : Seq(Pieces)]
    BY EmptyList
  <2>4. booked \in [Guests -> Amount]
    BY PacketConstants
  <2> QED
    BY <2>1, <2>2, <2>3, <2>4 DEF PacketTyped
<1>2. SenderFirst
  <2>1. \A s \in PacketSweeps : \A u \in Guests : sweep[s].seen[u] = NoMark
    BY IdleSweepFacts
  <2>2. \A u \in Guests : ~Shared(u)
    BY IdleGuestFacts DEF Shared
  <2> QED
    BY <2>1, <2>2 DEF SenderFirst, Unsent
<1>3. PacketCounts
  BY DEF PacketCounts
<1>4. MarksReal
  BY NoMarkFacts, IdleGuestFacts, PacketConstants DEF MarksReal, GuestMarked, RealMark, Shared
<1>5. SweepsSaw
  BY NoMarkFacts, IdleGuestFacts, IdleSweepFacts DEF SweepsSaw, SweepSaw, RealMark, Handles, Pays
<1>6. \A s \in PacketSweeps, u \in Guests : ~Pays(s, u)
  BY IdleSweepFacts DEF Pays
<1>7. MarksHold
  BY <1>6, IdleGuestFacts DEF MarksHold, HeldByMark, Shared
<1>8. SharesDue
  <2>1. Within(Len(shares), SumFunction(shares)) /\ shares \in Seq(Pieces)
    BY EmptyList, PacketConstants DEF Within
  <2>2. [u \in Guests |-> 0] \in [Guests -> Amount] /\ Dealt([u \in Guests |-> 0], shares)
    BY <2>1, NobodyDue
  <2>3. Fits([u \in Guests |-> 0])
    BY <1>6, IdleGuestFacts DEF Fits, FitsOne, Shared
  <2> QED
    BY <2>2, <2>3 DEF SharesDue
<1> QED
  BY <1>1, <1>2, <1>3, <1>4, <1>5, <1>7, <1>8 DEF PacketInv, SetbacksInit

LEMMA PacketInvOK == PacketInv => PacketTypeOK /\ PacketMoney
<1> SUFFICES ASSUME PacketInv PROVE PacketTypeOK /\ PacketMoney
  OBVIOUS
<1>1. PacketTyped /\ PacketCounts /\ MarksReal
  BY DEF PacketInv
<1>2. PICK due \in [Guests -> Amount] : Fits(due) /\ Dealt(due, shares)
  BY DEF PacketInv, SharesDue
<1>3. booked \in [Guests -> Nat] /\ due \in [Guests -> Nat] /\ shares \in Seq(Pieces)
  BY <1>1 DEF PacketTyped, Amount
<1>4. SumFunction(shares) \in Nat /\ Len(shares) \in Nat
  BY <1>3, ListSumNat
<1>5. /\ Entitled(due) \in SUBSET Guests /\ BookedGuests \in SUBSET Entitled(due)
      /\ \A u \in Guests : booked[u] <= due[u]
  BY <1>2, <1>3 DEF Entitled, BookedGuests, Fits, FitsOne
<1>6. IsFiniteSet(Entitled(due)) /\ Cardinality(Entitled(due)) \in Nat
  BY <1>5, FiniteParts, PacketConstants
<1>7. /\ IsFiniteSet(BookedGuests) /\ Cardinality(BookedGuests) \in Nat
      /\ Cardinality(BookedGuests) <= Cardinality(Entitled(due))
      /\ Cardinality(BookedGuests) = Cardinality(Entitled(due)) => BookedGuests = Entitled(due)
  BY <1>5, <1>6, FS_Subset, FS_CardinalityType
<1>8. DueSum(due) \in Nat /\ BookedSum \in Nat
  BY <1>3, SumNat, PacketConstants DEF DueSum, BookedSum
<1>9. BookedSum <= DueSum(due)
  BY <1>3, <1>5, SumMonotone, PacketConstants DEF DueSum, BookedSum
<1>a. Within(Len(shares) + Cardinality(Entitled(due)), SumFunction(shares) + DueSum(due))
  BY <1>2 DEF Dealt
<1>b. SumFunction(booked) = BookedSum
  BY <1>3 DEF SumFunction, BookedSum
<1>c. SharesInEscrow
  <2> DEFINE B == [u \in Guests |-> booked[u] + Unbooked[u]]
  <2>1. Unbooked \in [Guests -> Nat]
    BY <1>1 DEF Unbooked, PacketTyped, MarkRow, Amount
  <2>2. B \in [Guests -> Nat] /\ \A u \in Guests : B[u] = booked[u] + Unbooked[u]
    BY <1>3, <2>1
  <2>3. \A u \in Guests : B[u] <= due[u]
    <3> SUFFICES ASSUME NEW u \in Guests PROVE booked[u] + Unbooked[u] <= due[u]
      BY <2>2
    <3>1. FitsOne(due, u) /\ booked[u] \in Nat /\ due[u] \in Nat
      BY <1>2, <1>3 DEF Fits
    <3>2. CASE booked[u] > 0
      BY <3>1, <3>2 DEF FitsOne, Unbooked
    <3>3. CASE booked[u] = 0
      <4>1. Unbooked[u] = taken[u].share
        BY <3>3 DEF Unbooked
      <4>2. taken[u] = NoMark => taken[u].share = 0
        BY NoMarkFacts
      <4> QED
        BY <3>1, <3>3, <4>1, <4>2 DEF FitsOne
    <3> QED
      BY <3>1, <3>2, <3>3
  <2>i. B \in [Guests -> Int] /\ Unbooked \in [Guests -> Int] /\ booked \in [Guests -> Int] /\ due \in [Guests -> Int]
    BY <1>3, <2>1, <2>2
  <2> HIDE DEF B
  <2>4. SumFunctionOnSet(B, Guests) = BookedSum + SumFunctionOnSet(Unbooked, Guests)
    BY <2>2, <2>i, SumPlus, PacketConstants DEF BookedSum
  <2>5. SumFunctionOnSet(B, Guests) <= DueSum(due)
    BY <2>3, <2>i, SumMonotone, PacketConstants DEF DueSum
  <2>6. SumFunction(Unbooked) = SumFunctionOnSet(Unbooked, Guests) /\ SumFunctionOnSet(Unbooked, Guests) \in Nat
    BY <2>1, SumNat, PacketConstants DEF SumFunction
  <2>7. SumFunction(shares) + SumFunction(Unbooked) <= PacketTotal - SumFunction(booked)
    BY <1>4, <1>8, <1>a, <1>b, <2>4, <2>5, <2>6, PacketConstants DEF Within
  <2> QED
    BY <2>7 DEF SharesInEscrow
<1>d. packet.status = "finished" => BookedSum = PacketTotal
  <2> SUFFICES ASSUME packet.status = "finished" PROVE BookedSum = PacketTotal
    OBVIOUS
  <2>1. Cardinality(BookedGuests) = PacketCount
    BY <1>1, <1>7, PacketConstants DEF PacketCounts
  <2>2. Len(shares) = 0 /\ Cardinality(Entitled(due)) = PacketCount
    BY <1>4, <1>6, <1>7, <1>a, <2>1, PacketConstants DEF Within
  <2>3. BookedGuests = Entitled(due)
    BY <1>7, <2>1, <2>2
  <2>4. \A u \in Guests : booked[u] = due[u]
    BY <1>2, <1>3, <2>3 DEF Fits, FitsOne, BookedGuests, Entitled
  <2>5. BookedSum = DueSum(due)
    BY <2>4, SumSame, PacketConstants DEF BookedSum, DueSum
  <2>6. shares = <<>>
    BY <1>3, <2>2
  <2>7. SumFunction(shares) = 0
    BY <2>6, EmptyList
  <2> QED
    BY <1>8, <1>a, <2>2, <2>5, <2>7, PacketConstants DEF Within
<1>e. refunded = IF packet.status = "refunded" THEN PacketTotal - BookedSum ELSE 0
  BY <1>1 DEF PacketCounts
<1>f. BookedSum <= PacketTotal
  BY <1>4, <1>8, <1>9, <1>a, PacketConstants DEF Within
<1>g. EscrowCovers
  BY <1>8, <1>b, <1>d, <1>e, <1>f, PacketConstants DEF EscrowCovers
<1>h. PacketTypeOK
  <2>1. refunded \in Amount
    BY <1>8, <1>e, <1>f, PacketConstants DEF Amount
  <2>2. shares \in UNION {[1..n -> Amount] : n \in 0..PacketCount}
    <3>1. Len(shares) \in 0..PacketCount
      BY <1>4, <1>6, <1>a, PacketConstants DEF Within
    <3>2. shares \in [1..Len(shares) -> Amount]
      <4>1. shares \in [1..Len(shares) -> Pieces]
        BY <1>3
      <4> QED
        BY <4>1, PacketConstants
    <3> QED
      BY <3>1, <3>2
  <2> QED
    BY <1>1, <2>1, <2>2 DEF PacketTyped, PacketTypeOK, PacketRow, MarkRow, MarkStates, GuestRow, GuestStages,
       SweepRow, SweepStages
<1> QED
  BY <1>c, <1>g, <1>h DEF PacketMoney

-----------------------------------------------------------------------------
(* What is left alone *)

\* A step in which nothing happens to what v has.
Leaves(v) ==
  /\ guest'[v] = guest[v] /\ booked'[v] = booked[v] /\ taken'[v] = taken[v]
  /\ \A s \in PacketSweeps : Pays(s, v)' => Pays(s, v) /\ sweep'[s].seen[v] = sweep[s].seen[v]

LEMMA LeftAlone ==
  ASSUME NEW v \in Guests, Leaves(v), NEW due, NEW more, more[v] = due[v]
  PROVE  /\ GuestMarked(v) => GuestMarked(v)'
         /\ HeldByMark(v) => HeldByMark(v)'
         /\ FitsOne(due, v) => FitsOne(more, v)'
<1>1. Shared(v)' <=> Shared(v)
  BY DEF Leaves, Shared
<1>2. GuestMarked(v) => GuestMarked(v)'
  BY <1>1 DEF Leaves, GuestMarked
<1>3. HeldByMark(v) => HeldByMark(v)'
  BY <1>1 DEF Leaves, HeldByMark
<1>4. FitsOne(due, v) => FitsOne(more, v)'
  BY <1>1 DEF Leaves, FitsOne
<1> QED
  BY <1>2, <1>3, <1>4

\* A sweep that sees no more than before.
LEMMA StillSees ==
  ASSUME NEW s \in PacketSweeps, NEW v \in Guests, SweepSaw(s, v),
         sweep'[s] = sweep[s],
         \/ taken'[v].share = taken[v].share /\ taken'[v].nth = taken[v].nth
         \/ taken'[v] = NoMark,
         guest'[v].takes = guest[v].takes
  PROVE  SweepSaw(s, v)'
<1>1. RealMark(sweep'[s].seen[v]) /\ sweep'[s].seen[v].nth <= guest'[v].takes
  BY DEF SweepSaw
<1>2. /\ RealMark(sweep[s].seen[v])
      /\ sweep[s].seen[v] # NoMark /\ taken[v].nth = sweep[s].seen[v].nth => taken[v].share = sweep[s].seen[v].share
      /\ Handles(s, v)' => sweep'[s].seen[v] # NoMark
  BY DEF SweepSaw, Handles, Pays
<1>3. sweep'[s].seen[v] # NoMark /\ taken'[v].nth = sweep'[s].seen[v].nth => taken'[v].share = sweep'[s].seen[v].share
  BY <1>2, NoMarkFacts DEF RealMark
<1> QED
  BY <1>1, <1>2, <1>3 DEF SweepSaw

\* The list that is gone stays gone.
LEMMA GoneStays ==
  ASSUME Gone, shares' = <<>>, UNCHANGED taken, ~Unsent'
  PROVE  MarksHold'
BY DEF Gone, MarksHold

LEMMA CountsStay ==
  ASSUME PacketCounts, UNCHANGED <<packet, booked, refunded>>
  PROVE  PacketCounts'
BY DEF PacketCounts, BookedGuests, BookedSum

\* The transaction that books a claim of one share.
LEMMA CountsClaim ==
  ASSUME PacketTyped, PacketCounts, NEW u \in Guests, CanClaim(u), NEW share \in Amount, share >= 1,
         Claims(u, share), UNCHANGED refunded
  PROVE  /\ packet' \in PacketRow /\ booked' \in [Guests -> Amount]
         /\ booked'[u] = share /\ \A v \in Guests : v # u => booked'[v] = booked[v]
         /\ packet.status = "active" /\ packet'.status # "none"
         /\ PacketCounts'
<1>1. packet \in PacketRow /\ booked \in [Guests -> Amount] /\ packet.status = "active" /\ booked[u] = 0 /\ packet.remaining > 0
  BY DEF PacketTyped, CanClaim
<1>2. /\ booked' \in [Guests -> Amount]
      /\ booked'[u] = share /\ \A v \in Guests : v # u => booked'[v] = booked[v]
  BY <1>1 DEF Claims
<1>3. /\ packet'.status = (IF packet.remaining = 1 THEN "finished" ELSE "active")
      /\ packet'.remaining = packet.remaining - 1
      /\ packet' \in PacketRow
  <2>1. packet.remaining - 1 \in 0..PacketCount /\ packet.remaining \in Int
    BY <1>1, PacketConstants DEF PacketRow
  <2> DEFINE st == IF packet.remaining = 1 THEN "finished" ELSE "active"
             k == packet.remaining - 1
  <2>2. packet' = [status |-> st, remaining |-> k] /\ st \in {"none", "active", "finished", "refunded"} /\ k \in 0..PacketCount
    BY <2>1 DEF Claims
  <2> HIDE DEF st, k
  <2>3. packet'.status = st /\ packet'.remaining = k /\ packet' \in PacketRow
    BY <2>2 DEF PacketRow
  <2> QED
    BY <2>3 DEF st, k
<1>4. /\ BookedGuests \in SUBSET Guests /\ BookedGuests' \in SUBSET Guests
      /\ \A v \in Guests : v # u => (v \in BookedGuests' <=> v \in BookedGuests)
      /\ u \in BookedGuests' /\ u \notin BookedGuests
  <2>1. BookedGuests = {v \in Guests : booked[v] > 0} /\ BookedGuests' = {v \in Guests : booked'[v] > 0}
    BY DEF BookedGuests
  <2> HIDE DEF BookedGuests
  <2>2. share > 0 /\ ~(booked[u] > 0)
    BY <1>1 DEF Amount
  <2> QED
    BY <1>1, <1>2, <2>1, <2>2
<1> HIDE DEF BookedGuests
<1>5. /\ Cardinality(BookedGuests) \in Nat /\ Cardinality(BookedGuests') \in Nat
      /\ Cardinality(BookedGuests') = Cardinality(BookedGuests) + Weight(u \in BookedGuests') - Weight(u \in BookedGuests)
  BY <1>4, CountMoves, PacketConstants
<1>6. Cardinality(BookedGuests') = Cardinality(BookedGuests) + 1
  BY <1>4, <1>5 DEF Weight
<1>7. packet'.remaining = PacketCount - Cardinality(BookedGuests')
  <2>1. packet.remaining = PacketCount - Cardinality(BookedGuests)
    BY <1>1 DEF PacketCounts
  <2> QED
    BY <1>3, <1>5, <1>6, <2>1, PacketConstants
<1>8. packet.remaining \in Nat
  BY <1>1 DEF PacketRow
<1>9. refunded = 0
  BY <1>1 DEF PacketCounts
<1>a. PacketCounts'
  BY <1>1, <1>3, <1>7, <1>8, <1>9 DEF PacketCounts
<1> QED
  BY <1>1, <1>2, <1>3, <1>a

\* The transaction of a refund.
LEMMA CountsRefund ==
  ASSUME PacketTyped, PacketCounts, RefundLeft, UNCHANGED booked
  PROVE  /\ packet' \in PacketRow /\ refunded' \in Int
         /\ packet'.status = "none" <=> packet.status = "none"
         /\ PacketCounts'
<1>1. packet \in PacketRow /\ booked \in [Guests -> Amount] /\ refunded \in Int
  BY DEF PacketTyped
<1>2. BookedGuests' = BookedGuests /\ BookedSum' = BookedSum
  BY DEF BookedGuests, BookedSum
<1>3. CASE packet.status = "active"
  <2>1. packet' \in PacketRow /\ packet'.status = "refunded" /\ packet'.remaining = packet.remaining
    BY <1>1, <1>3 DEF RefundLeft, PacketRow
  <2>2. booked \in [Guests -> Int]
    BY <1>1 DEF Amount
  <2>3. BookedSum \in Int /\ SumFunction(booked) = BookedSum
    BY <1>1, <2>2, SumInt, PacketConstants DEF BookedSum, SumFunction
  <2>4. refunded' = PacketTotal - BookedSum
    BY <1>3, <2>3 DEF RefundLeft
  <2> QED
    BY <1>2, <1>3, <2>1, <2>3, <2>4, PacketConstants DEF PacketCounts
<1>4. CASE packet.status # "active"
  <2>1. UNCHANGED <<packet, refunded>>
    BY <1>4 DEF RefundLeft
  <2> QED
    BY <1>1, <2>1, CountsStay
<1> QED
  BY <1>3, <1>4

LEMMA PacketHazard ==
  ASSUME setbacks \in Nat, Smooth \/ Setback
  PROVE  setbacks' \in Nat
BY DEF Smooth, Setback

-----------------------------------------------------------------------------
(* Requests *)

\* The row of one user changes.
GuestTurn(u) == guest' \in [Guests -> GuestRow] /\ \A v \in Guests : v # u => guest'[v] = guest[v]

LEMMA GuestAtFacts ==
  ASSUME PacketTyped, NEW u \in Guests, NEW at \in GuestStages, GuestAt(u, at)
  PROVE  /\ GuestTurn(u) /\ guest'[u].at = at /\ guest'[u].takes = guest[u].takes
         /\ at # "idle" => guest'[u].share = guest[u].share
<1> DEFINE share == IF at = "idle" THEN 0 ELSE guest[u].share
<1>1. guest[u] \in GuestRow /\ guest \in [Guests -> GuestRow]
  BY DEF PacketTyped
<1>2. share \in Amount
  BY <1>1, PacketConstants DEF GuestRow
<1>3. guest' = [guest EXCEPT ![u] = [guest[u] EXCEPT !.at = at, !.share = share]]
  BY <1>1 DEF GuestAt
<1>4. at # "idle" => share = guest[u].share
  OBVIOUS
<1> HIDE DEF share
<1>5. /\ [guest[u] EXCEPT !.at = at] \in GuestRow /\ [guest[u] EXCEPT !.at = at].at = at
      /\ [guest[u] EXCEPT !.at = at].takes = guest[u].takes
  BY <1>1 DEF GuestRow
<1> DEFINE row == [guest[u] EXCEPT !.at = at, !.share = share]
<1>6. row \in GuestRow /\ row.at = at /\ row.takes = guest[u].takes /\ row.share = share
  <2>1. row = [[guest[u] EXCEPT !.at = at] EXCEPT !.share = share]
    OBVIOUS
  <2> QED
    BY <1>2, <1>5, <2>1 DEF GuestRow
<1> HIDE DEF row
<1>7. guest' = [guest EXCEPT ![u] = row]
  BY <1>3 DEF row
<1> QED
  BY <1>1, <1>4, <1>6, <1>7 DEF GuestTurn

\* A step of a request that books nothing and takes nothing.
LEMMA GuestQuiet ==
  ASSUME PacketInv, NEW u \in Guests, GuestTurn(u), setbacks' \in Nat,
         UNCHANGED <<packet, packetAge, shares, taken, booked, refunded, sender, sweep>>,
         guest'[u].takes = guest[u].takes,
         guest'[u].at = "checked" => guest[u].takes < MaxTakes,
         Shared(u)' => Shared(u) /\ guest'[u].share = guest[u].share,
         guest'[u].at = "rollback" => guest[u].at = "rollback" \/ booked[u] = 0
  PROVE  PacketInv'
<1> USE DEF PacketInv
<1>1. PacketTyped'
  BY DEF PacketTyped, GuestTurn
<1>2. ASSUME NEW v \in Guests, v # u PROVE Leaves(v)
  BY <1>2 DEF Leaves, GuestTurn, Pays
<1>3. \A s \in PacketSweeps, v \in Guests : Pays(s, v)' <=> Pays(s, v)
  BY DEF Pays
<1>4. SenderFirst'
  <2>1. \A v \in Guests : Shared(v)' => Shared(v)
    BY DEF Shared, GuestTurn
  <2> QED
    BY <2>1 DEF SenderFirst, Unsent
<1>5. PacketCounts'
  BY CountsStay
<1>6. MarksReal'
  <2>1. GuestMarked(u)'
    BY DEF MarksReal, GuestMarked
  <2>2. ASSUME NEW v \in Guests, v # u PROVE GuestMarked(v)'
    BY <1>2, <2>2, LeftAlone DEF MarksReal
  <2> QED
    BY <2>1, <2>2 DEF MarksReal
<1>7. SweepsSaw'
  <2> SUFFICES ASSUME NEW s \in PacketSweeps, NEW v \in Guests PROVE SweepSaw(s, v)'
    BY DEF SweepsSaw
  <2>1. SweepSaw(s, v) /\ guest'[v].takes = guest[v].takes
    BY DEF SweepsSaw, GuestTurn
  <2> QED
    BY <2>1, StillSees
<1>8. MarksHold'
  <2>1. CASE Gone
    BY <2>1, GoneStays DEF Gone, Unsent
  <2>2. CASE ~Gone
    <3>1. HeldByMark(u)'
      <4>1. HeldByMark(u)
        BY <2>2 DEF MarksHold
      <4>2. booked[u] \in Nat
        BY DEF PacketTyped, Amount
      <4> QED
        BY <1>3, <4>1, <4>2 DEF HeldByMark
    <3>2. ASSUME NEW v \in Guests, v # u PROVE HeldByMark(v)'
      BY <1>2, <2>2, <3>2, LeftAlone DEF MarksHold
    <3> QED
      BY <3>1, <3>2 DEF MarksHold
  <2> QED
    BY <2>1, <2>2
<1>9. SharesDue'
  <2>1. PICK due \in [Guests -> Amount] : Fits(due) /\ Dealt(due, shares)
    BY DEF SharesDue
  <2>2. FitsOne(due, u)'
    BY <1>3, <2>1 DEF Fits, FitsOne
  <2>3. ASSUME NEW v \in Guests, v # u PROVE FitsOne(due, v)'
    BY <1>2, <2>1, <2>3, LeftAlone DEF Fits
  <2>4. Fits(due)'
    BY <2>2, <2>3 DEF Fits
  <2>5. Dealt(due, shares')
    BY <2>1
  <2> QED
    BY <2>4, <2>5 DEF SharesDue
<1> QED
  BY <1>1, <1>4, <1>5, <1>6, <1>7, <1>8, <1>9

LEMMA CheckKeepsPacket ==
  ASSUME PacketInv, NEW u \in Guests, CheckPacket(u) \/ CheckClaim(u) \/ GuestDies(u)
  PROVE  PacketInv'
<1>1. PacketTyped /\ setbacks \in Nat
  BY DEF PacketInv
<1>2. UNCHANGED <<packet, packetAge, shares, taken, booked, refunded, sender, sweep>>
  BY DEF CheckPacket, CheckClaim, GuestDies
<1>3. setbacks' \in Nat
  BY <1>1, PacketHazard DEF CheckPacket, CheckClaim, GuestDies, Smooth
<1>4. {"idle", "checked", "rollback"} \subseteq GuestStages
  BY DEF GuestStages
<1>5. CASE GuestAt(u, "idle")
  <2>1. GuestTurn(u) /\ guest'[u].at = "idle" /\ guest'[u].takes = guest[u].takes
    BY <1>1, <1>4, <1>5, GuestAtFacts
  <2>2. ~Shared(u)'
    BY <2>1 DEF Shared
  <2> QED
    BY <1>2, <1>3, <2>1, <2>2, GuestQuiet
<1>6. CASE GuestAt(u, "checked") /\ guest[u].takes < MaxTakes
  <2>1. GuestTurn(u) /\ guest'[u].at = "checked" /\ guest'[u].takes = guest[u].takes
    BY <1>1, <1>4, <1>6, GuestAtFacts
  <2>2. ~Shared(u)'
    BY <2>1 DEF Shared
  <2> QED
    BY <1>2, <1>3, <1>6, <2>1, <2>2, GuestQuiet
<1>7. CASE GuestAt(u, "rollback") /\ guest[u].at = "failed" /\ booked[u] = 0
  <2>1. GuestTurn(u) /\ guest'[u].at = "rollback" /\ guest'[u].takes = guest[u].takes /\ guest'[u].share = guest[u].share
    BY <1>1, <1>4, <1>7, GuestAtFacts
  <2>2. Shared(u)
    BY <1>7 DEF Shared
  <2> QED
    BY <1>2, <1>3, <1>7, <2>1, <2>2, GuestQuiet
<1>8. CheckClaim(u) => GuestAt(u, "idle") \/ (GuestAt(u, "rollback") /\ guest[u].at = "failed" /\ booked[u] = 0)
  BY DEF CheckClaim
<1> QED
  BY <1>5, <1>6, <1>7, <1>8 DEF CheckPacket, GuestDies

\* The first share of the list becomes the user's.
LEMMA PopKeepsPacket ==
  ASSUME PacketInv, NEW u \in Guests, PopShare(u)
  PROVE  PacketInv'
<1>1. PacketTyped /\ setbacks \in Nat
  BY DEF PacketInv
<1>2. UNCHANGED <<packet, packetAge, booked, refunded, sender, sweep>> /\ guest[u].at = "checked"
  BY DEF PopShare
<1>3. setbacks' \in Nat
  BY <1>1, PacketHazard DEF PopShare
<1>4. CASE GuestAt(u, "idle") /\ UNCHANGED <<shares, taken>>
  <2>1. GuestTurn(u) /\ guest'[u].at = "idle" /\ guest'[u].takes = guest[u].takes
    BY <1>1, <1>4, GuestAtFacts DEF GuestStages
  <2>2. ~Shared(u)'
    BY <2>1 DEF Shared
  <2> QED
    BY <1>2, <1>3, <1>4, <2>1, <2>2, GuestQuiet
<1> DEFINE nth == guest[u].takes + 1
           first == Head(shares)
           mark == [share |-> first, nth |-> nth, state |-> "fresh"]
<1>5. ASSUME taken[u] = NoMark, shares # <<>>, shares' = Tail(shares), taken' = [taken EXCEPT ![u] = mark],
             \/ guest' = [guest EXCEPT ![u] = [at |-> "popped", share |-> first, takes |-> nth]]
             \/ guest' = [guest EXCEPT ![u] = [IdleGuest EXCEPT !.takes = nth]]
      PROVE  PacketInv'
  <2> USE DEF PacketInv
  <2>1. /\ shares \in Seq(Pieces) /\ guest[u] \in GuestRow /\ guest \in [Guests -> GuestRow]
        /\ taken \in [Guests -> MarkRow] /\ booked \in [Guests -> Amount]
    BY DEF PacketTyped
  <2>2. /\ Tail(shares) \in Seq(Pieces) /\ first \in Pieces /\ first \in Nat /\ first >= 1 /\ first \in Amount
    BY <1>5, <2>1, HeadAndTail
  <2>3. nth \in 0..MaxTakes /\ nth \in Nat /\ nth >= 1 /\ nth > guest[u].takes /\ guest[u].takes \in Nat
    <3>1. guest[u].takes < MaxTakes
      BY <1>2 DEF MarksReal, GuestMarked
    <3> QED
      BY <2>1, <3>1, PacketConstants DEF GuestRow
  <2> HIDE DEF first, nth
  <2>4. mark \in MarkRow /\ mark.share = first /\ mark.nth = nth /\ mark.state = "fresh"
    BY <2>2, <2>3 DEF MarkRow, MarkStates
  <2> HIDE DEF mark
  <2>5. taken' \in [Guests -> MarkRow] /\ taken'[u] = mark /\ \A v \in Guests : v # u => taken'[v] = taken[v]
    BY <1>5, <2>1, <2>4
  <2>6. /\ GuestTurn(u) /\ guest'[u].takes = nth /\ guest'[u].at \in {"popped", "idle"}
        /\ guest'[u].at = "popped" => guest'[u].share = first
    <3>1. [at |-> "popped", share |-> first, takes |-> nth] \in GuestRow
      BY <2>2, <2>3 DEF GuestRow, GuestStages
    <3>2. /\ [IdleGuest EXCEPT !.takes = nth] \in GuestRow /\ [IdleGuest EXCEPT !.takes = nth].takes = nth
          /\ [IdleGuest EXCEPT !.takes = nth].at = "idle"
      BY <2>3, IdleGuestFacts DEF GuestRow
    <3>3. CASE guest' = [guest EXCEPT ![u] = [at |-> "popped", share |-> first, takes |-> nth]]
      BY <2>1, <3>1, <3>3 DEF GuestTurn
    <3>4. CASE guest' = [guest EXCEPT ![u] = [IdleGuest EXCEPT !.takes = nth]]
      <4> DEFINE row == [IdleGuest EXCEPT !.takes = nth]
      <4>1. row \in GuestRow /\ row.takes = nth /\ row.at = "idle" /\ guest' = [guest EXCEPT ![u] = row]
        BY <3>2, <3>4
      <4> HIDE DEF row
      <4> QED
        BY <2>1, <4>1 DEF GuestTurn
    <3> QED
      BY <1>5, <3>3, <3>4
  <2>7. mark # NoMark /\ RealMark(mark) /\ mark.nth # 0
    BY <2>2, <2>3, <2>4, NoMarkFacts DEF RealMark
  \* Nobody else has a share of this user: there is no mark.
  <2>8. ~Gone /\ ~Unsent /\ HeldByMark(u)
    <3>1. ~Gone
      BY <1>5 DEF Gone
    <3>2. ~Unsent
      BY <1>5 DEF SenderFirst
    <3> QED
      BY <3>1, <3>2 DEF MarksHold
  <2>9. booked[u] = 0 /\ \A s \in PacketSweeps : ~Pays(s, u)
    <3>1. booked[u] \in Nat
      BY <2>1 DEF Amount
    <3>2. taken[u].state # "repair"
      BY <1>5, NoMarkFacts
    <3> QED
      BY <1>5, <2>8, <3>1, <3>2 DEF HeldByMark
  <2>a. \A s \in PacketSweeps, v \in Guests : Pays(s, v)' <=> Pays(s, v)
    BY <1>2 DEF Pays
  <2>b. ASSUME NEW v \in Guests, v # u PROVE Leaves(v)
    BY <1>2, <2>5, <2>6, <2>a, <2>b DEF Leaves, GuestTurn
  <2>c. PacketTyped'
    BY <1>2, <1>5, <2>2, <2>5, <2>6 DEF PacketTyped, GuestTurn
  <2>d. SenderFirst' /\ PacketCounts'
    BY <1>2, <2>8, CountsStay DEF SenderFirst, Unsent
  <2>e. MarksReal'
    <3>1. GuestMarked(u)'
      BY <2>2, <2>3, <2>4, <2>5, <2>6, <2>7 DEF GuestMarked, Shared
    <3>2. ASSUME NEW v \in Guests, v # u PROVE GuestMarked(v)'
      BY <2>b, <3>2, LeftAlone DEF MarksReal
    <3> QED
      BY <3>1, <3>2 DEF MarksReal
  <2>f. SweepsSaw'
    <3> SUFFICES ASSUME NEW s \in PacketSweeps, NEW v \in Guests PROVE SweepSaw(s, v)'
      BY DEF SweepsSaw
    <3>1. SweepSaw(s, v) /\ sweep' = sweep
      BY <1>2 DEF SweepsSaw
    <3>2. CASE v # u
      BY <2>5, <2>6, <3>1, <3>2, StillSees DEF GuestTurn
    <3>3. CASE v = u
      <4>1. sweep[s].seen[u].nth \in Nat
        BY <1>1 DEF PacketTyped, SweepRow, MarkRow
      <4>2. sweep[s].seen[u].nth <= guest[u].takes
        BY <3>1, <3>3 DEF SweepSaw
      <4>3. taken'[u].nth # sweep[s].seen[u].nth /\ sweep[s].seen[u].nth <= guest'[u].takes
        BY <2>3, <2>4, <2>5, <2>6, <4>1, <4>2
      <4> QED
        BY <3>1, <3>3, <4>3 DEF SweepSaw, Handles, Pays
    <3> QED
      BY <3>2, <3>3
  <2>g. MarksHold'
    <3>1. HeldByMark(u)'
      BY <1>2, <2>5, <2>6, <2>7, <2>9, <2>a DEF HeldByMark
    <3>2. ASSUME NEW v \in Guests, v # u PROVE HeldByMark(v)'
      BY <2>8, <2>b, <3>2, LeftAlone DEF MarksHold
    <3> QED
      BY <3>1, <3>2 DEF MarksHold
  <2>h. SharesDue'
    <3>1. PICK due \in [Guests -> Amount] : Fits(due) /\ Dealt(due, shares)
      BY DEF SharesDue
    <3>2. PICK more \in [Guests -> Amount] : more[u] = first /\ \A v \in Guests : v # u => more[v] = due[v]
      <4>1. /\ [due EXCEPT ![u] = first] \in [Guests -> Amount] /\ [due EXCEPT ![u] = first][u] = first
            /\ \A v \in Guests : v # u => [due EXCEPT ![u] = first][v] = due[v]
        BY <2>2
      <4> QED
        BY <4>1
    <3>3. Dealt(more, shares')
      BY <1>5, <2>1, <3>1, <3>2, DealtPops DEF first
    <3>4. FitsOne(more, u)'
      BY <1>2, <2>4, <2>5, <2>6, <2>9, <2>a, <3>2 DEF FitsOne, Shared
    <3>5. ASSUME NEW v \in Guests, v # u PROVE FitsOne(more, v)'
      BY <2>b, <3>1, <3>2, <3>5, LeftAlone DEF Fits
    <3>6. Fits(more)'
      BY <3>4, <3>5 DEF Fits
    <3> QED
      BY <3>2, <3>3, <3>6 DEF SharesDue
  <2> QED
    BY <1>3, <2>c, <2>d, <2>e, <2>f, <2>g, <2>h
<1> QED
  BY <1>4, <1>5 DEF PopShare

\* The transaction books the share the request has.
LEMMA ClaimKeepsPacket ==
  ASSUME PacketInv, NEW u \in Guests, ClaimTx(u)
  PROVE  PacketInv'
<1>1. PacketTyped /\ setbacks \in Nat
  BY DEF PacketInv
<1>2. UNCHANGED <<packetAge, shares, taken, refunded, sender, sweep>> /\ guest[u].at = "popped" /\ Shared(u)
  BY DEF ClaimTx, Shared
<1>3. setbacks' \in Nat
  BY <1>1, PacketHazard DEF ClaimTx
<1>4. PICK at \in {"idle", "failed", "closed"} : GuestAt(u, at)
  BY DEF ClaimTx
<1>5. /\ GuestTurn(u) /\ guest'[u].at = at /\ guest'[u].takes = guest[u].takes
      /\ at # "idle" => guest'[u].share = guest[u].share
  BY <1>1, <1>4, GuestAtFacts DEF GuestStages
<1>6. Shared(u)' => guest'[u].share = guest[u].share
  BY <1>5 DEF Shared
<1>7. CASE UNCHANGED <<packet, booked>>
  BY <1>2, <1>3, <1>5, <1>6, <1>7, GuestQuiet
<1>8. CASE CanClaim(u) /\ Claims(u, guest[u].share)
  <2> USE DEF PacketInv
  <2>1. guest[u].share \in Amount /\ guest[u].share >= 1
    <3>1. GuestMarked(u)
      BY DEF MarksReal
    <3> QED
      BY <1>1, <1>2, <3>1 DEF PacketTyped, GuestRow, GuestMarked
  <2>2. /\ packet' \in PacketRow /\ booked' \in [Guests -> Amount]
        /\ booked'[u] = guest[u].share /\ \A v \in Guests : v # u => booked'[v] = booked[v]
        /\ packet.status = "active" /\ packet'.status # "none"
        /\ PacketCounts'
    BY <1>2, <1>8, <2>1, CountsClaim
  <2>3. booked[u] = 0 /\ booked'[u] > 0
    BY <1>8, <2>1, <2>2 DEF CanClaim, Amount
  <2>4. ~Unsent
    BY <1>2 DEF SenderFirst
  <2>5. \A s \in PacketSweeps, v \in Guests : Pays(s, v)' <=> Pays(s, v)
    BY <1>2 DEF Pays
  <2>6. ASSUME NEW v \in Guests, v # u PROVE Leaves(v)
    BY <1>2, <1>5, <2>2, <2>5, <2>6 DEF Leaves, GuestTurn
  <2>7. PacketTyped'
    BY <1>2, <1>5, <2>2 DEF PacketTyped, GuestTurn
  <2>8. SenderFirst'
    BY <1>2, <2>2, <2>4 DEF SenderFirst, Unsent
  <2>9. MarksReal'
    <3>1. GuestMarked(u)'
      BY <1>2, <1>5, <1>6, <2>1 DEF MarksReal, GuestMarked
    <3>2. ASSUME NEW v \in Guests, v # u PROVE GuestMarked(v)'
      BY <2>6, <3>2, LeftAlone DEF MarksReal
    <3> QED
      BY <3>1, <3>2 DEF MarksReal
  <2>a. SweepsSaw'
    <3> SUFFICES ASSUME NEW s \in PacketSweeps, NEW v \in Guests PROVE SweepSaw(s, v)'
      BY DEF SweepsSaw
    <3>1. SweepSaw(s, v) /\ guest'[v].takes = guest[v].takes
      BY <1>5 DEF SweepsSaw, GuestTurn
    <3> QED
      BY <1>2, <3>1, StillSees
  <2>b. MarksHold'
    <3>1. CASE Gone
      BY <1>2, <3>1, GoneStays DEF Gone, Unsent
    <3>2. CASE ~Gone
      <4>1. HeldByMark(u)
        BY <3>2 DEF MarksHold
      <4>2. HeldByMark(u)'
        BY <1>2, <1>5, <2>5, <4>1 DEF HeldByMark
      <4>3. ASSUME NEW v \in Guests, v # u PROVE HeldByMark(v)'
        BY <2>6, <3>2, <4>3, LeftAlone DEF MarksHold
      <4> QED
        BY <4>2, <4>3 DEF MarksHold
    <3> QED
      BY <3>1, <3>2
  <2>c. SharesDue'
    <3>1. PICK due \in [Guests -> Amount] : Fits(due) /\ Dealt(due, shares)
      BY DEF SharesDue
    <3>2. due[u] = guest[u].share
      BY <1>2, <2>3, <3>1 DEF Fits, FitsOne
    <3>3. FitsOne(due, u)'
      BY <2>2, <2>3, <3>2 DEF FitsOne
    <3>4. ASSUME NEW v \in Guests, v # u PROVE FitsOne(due, v)'
      BY <2>6, <3>1, <3>4, LeftAlone DEF Fits
    <3>5. Fits(due)'
      BY <3>3, <3>4 DEF Fits
    <3>6. Dealt(due, shares')
      BY <1>2, <3>1
    <3> QED
      BY <3>5, <3>6 DEF SharesDue
  <2> QED
    BY <1>3, <2>2, <2>7, <2>8, <2>9, <2>a, <2>b, <2>c
<1> QED
  BY <1>7, <1>8 DEF ClaimTx

\* A share that is not being paid goes back to the list with its mark.
LEMMA RollbackKeepsPacket ==
  ASSUME PacketInv, NEW u \in Guests, RollbackShare(u)
  PROVE  PacketInv'
<1>1. PacketTyped /\ setbacks \in Nat
  BY DEF PacketInv
<1>2. /\ UNCHANGED <<packet, packetAge, booked, refunded, sender, sweep>> /\ guest[u].at = "rollback"
      /\ Shared(u) /\ GuestAt(u, "idle")
  BY DEF RollbackShare, Shared
<1>3. setbacks' \in Nat
  BY <1>1, PacketHazard DEF RollbackShare
<1>5. GuestTurn(u) /\ guest'[u].at = "idle" /\ guest'[u].takes = guest[u].takes /\ ~Shared(u)'
  BY <1>1, <1>2, GuestAtFacts DEF GuestStages, Shared
<1>7. CASE UNCHANGED <<shares, taken>>
  BY <1>2, <1>3, <1>5, <1>7, GuestQuiet
<1>8. CASE /\ taken[u].state \in {"fresh", "old"}
           /\ shares' = <<guest[u].share>> \o shares /\ taken' = [taken EXCEPT ![u] = NoMark]
  <2> USE DEF PacketInv
  <2>1. taken[u] # NoMark /\ ~Gone /\ ~Unsent
    <3>1. taken[u] # NoMark
      BY <1>8, NoMarkFacts
    <3> QED
      BY <1>2, <3>1 DEF Gone, SenderFirst
  <2>2. HeldByMark(u)
    BY <2>1 DEF MarksHold
  <2>3. booked[u] = 0 /\ \A s \in PacketSweeps : ~Pays(s, u)
    <3>1. booked[u] \in Nat
      BY <1>1 DEF PacketTyped, Amount
    <3> QED
      BY <1>2, <1>8, <2>2, <3>1 DEF HeldByMark
  <2>4. PICK due \in [Guests -> Amount] : Fits(due) /\ Dealt(due, shares)
    BY DEF SharesDue
  <2>5. due[u] = guest[u].share /\ due[u] >= 1
    <3>1. FitsOne(due, u) /\ GuestMarked(u)
      BY <2>4 DEF Fits, MarksReal
    <3> QED
      BY <1>2, <2>3, <3>1 DEF FitsOne, GuestMarked
  <2>6. PICK less \in [Guests -> Amount] : less[u] = 0 /\ \A v \in Guests : v # u => less[v] = due[v]
    <3>1. /\ [due EXCEPT ![u] = 0] \in [Guests -> Amount] /\ [due EXCEPT ![u] = 0][u] = 0
          /\ \A v \in Guests : v # u => [due EXCEPT ![u] = 0][v] = due[v]
      BY PacketConstants
    <3> QED
      BY <3>1
  <2>7. shares' \in Seq(Pieces) /\ Dealt(less, shares')
    <3>1. shares \in Seq(Pieces) /\ shares' = <<due[u]>> \o shares
      BY <1>1, <1>8, <2>5 DEF PacketTyped
    <3>2. <<due[u]>> \o shares \in Seq(Pieces) /\ Dealt(less, <<due[u]>> \o shares)
      BY <2>4, <2>5, <2>6, <3>1, DealtBack
    <3> QED
      BY <3>1, <3>2
  <2>8. taken' \in [Guests -> MarkRow] /\ taken'[u] = NoMark /\ \A v \in Guests : v # u => taken'[v] = taken[v]
    BY <1>1, <1>8, NoMarkFacts DEF PacketTyped
  <2>9. \A s \in PacketSweeps, v \in Guests : Pays(s, v)' <=> Pays(s, v)
    BY <1>2 DEF Pays
  <2>a. ASSUME NEW v \in Guests, v # u PROVE Leaves(v)
    BY <1>2, <1>5, <2>8, <2>9, <2>a DEF Leaves, GuestTurn
  <2>b. PacketTyped'
    BY <1>2, <1>1, <1>5, <2>7, <2>8 DEF PacketTyped, GuestTurn
  <2>c. SenderFirst' /\ PacketCounts'
    BY <1>2, <2>1, CountsStay DEF SenderFirst, Unsent
  <2>d. MarksReal'
    <3>1. GuestMarked(u)'
      <4>1. guest[u].takes \in Nat
        BY <1>1 DEF PacketTyped, GuestRow
      <4> QED
        BY <1>5, <2>8, <4>1, NoMarkFacts DEF GuestMarked, RealMark
    <3>2. ASSUME NEW v \in Guests, v # u PROVE GuestMarked(v)'
      BY <2>a, <3>2, LeftAlone DEF MarksReal
    <3> QED
      BY <3>1, <3>2 DEF MarksReal
  <2>e. SweepsSaw'
    <3> SUFFICES ASSUME NEW s \in PacketSweeps, NEW v \in Guests PROVE SweepSaw(s, v)'
      BY DEF SweepsSaw
    <3>1. SweepSaw(s, v) /\ guest'[v].takes = guest[v].takes
      BY <1>5 DEF SweepsSaw, GuestTurn
    <3>2. taken'[v] = taken[v] \/ taken'[v] = NoMark
      BY <2>8
    <3> QED
      BY <1>2, <3>1, <3>2, StillSees
  <2>f. MarksHold'
    <3>1. HeldByMark(u)'
      BY <1>2, <1>5, <2>3, <2>9 DEF HeldByMark
    <3>2. ASSUME NEW v \in Guests, v # u PROVE HeldByMark(v)'
      BY <2>1, <2>a, <3>2, LeftAlone DEF MarksHold
    <3> QED
      BY <3>1, <3>2 DEF MarksHold
  <2>g. SharesDue'
    <3>1. FitsOne(less, u)'
      BY <1>2, <1>5, <2>3, <2>8, <2>9 DEF FitsOne
    <3>2. ASSUME NEW v \in Guests, v # u PROVE FitsOne(less, v)'
      BY <2>4, <2>6, <2>a, <3>2, LeftAlone DEF Fits
    <3>3. Fits(less)'
      BY <3>1, <3>2 DEF Fits
    <3> QED
      BY <2>6, <2>7, <3>3 DEF SharesDue
  <2> QED
    BY <1>3, <2>b, <2>c, <2>d, <2>e, <2>f, <2>g
<1> QED
  BY <1>7, <1>8 DEF RollbackShare

-----------------------------------------------------------------------------
(* Steps that take, book and lock nothing *)

LEMMA SharesStay ==
  ASSUME PacketInv, UNCHANGED <<taken, booked, guest>>, PacketTyped', setbacks' \in Nat,
         SenderFirst', ~Unsent => ~Unsent', PacketCounts', SweepsSaw',
         \A s \in PacketSweeps, v \in Guests :
           Pays(s, v)' => Pays(s, v) /\ sweep'[s].seen[v] = sweep[s].seen[v],
         shares' = shares \/ shares' = <<>>
  PROVE  PacketInv'
<1> USE DEF PacketInv
<1>1. ASSUME NEW v \in Guests PROVE Leaves(v)
  BY DEF Leaves
<1>2. MarksReal'
  BY <1>1, LeftAlone DEF MarksReal
<1>3. MarksHold'
  <2>1. CASE Gone
    BY <2>1, GoneStays DEF Gone
  <2>2. CASE ~Gone
    BY <1>1, <2>2, LeftAlone DEF MarksHold
  <2> QED
    BY <2>1, <2>2
<1>4. SharesDue'
  <2>1. PICK due \in [Guests -> Amount] : Fits(due) /\ Dealt(due, shares)
    BY DEF SharesDue
  <2>2. Fits(due)'
    <3>1. ASSUME NEW v \in Guests PROVE FitsOne(due, v)'
      BY <1>1, <2>1, LeftAlone DEF Fits
    <3> QED
      BY <3>1 DEF Fits
  <2>3. Dealt(due, shares')
    <3>1. shares \in Seq(Pieces)
      BY DEF PacketTyped
    <3> QED
      BY <2>1, <3>1, DealtLost
  <2> QED
    BY <2>2, <2>3 DEF SharesDue
<1> QED
  BY <1>2, <1>3, <1>4

LEMMA SweepsStay ==
  ASSUME SweepsSaw, UNCHANGED <<taken, guest, sweep>>
  PROVE  /\ SweepsSaw'
         /\ \A s \in PacketSweeps, v \in Guests :
              Pays(s, v)' => Pays(s, v) /\ sweep'[s].seen[v] = sweep[s].seen[v]
BY DEF SweepsSaw, SweepSaw, Handles, Pays

LEMMA TimeKeepsPacket ==
  ASSUME PacketInv, PacketAges \/ UNCHANGED packetVars
  PROVE  PacketInv'
<1>1. UNCHANGED <<packet, shares, taken, booked, refunded, sender, guest, sweep, setbacks>>
  BY DEF PacketAges, packetVars
<1>2. packetAge' \in {"young", "open", "expired", "held"}
  BY DEF PacketAges, packetVars, PacketInv, PacketTyped
<1>3. PacketTyped'
  BY <1>1, <1>2 DEF PacketInv, PacketTyped
<1>4. \A v \in Guests : Shared(v)' <=> Shared(v)
  BY <1>1 DEF Shared
<1>5. SenderFirst'
  BY <1>1, <1>4 DEF PacketInv, SenderFirst, Unsent
<1>6. PacketCounts'
  BY <1>1, CountsStay DEF PacketInv
<1>7. SweepsSaw' /\ \A s \in PacketSweeps, v \in Guests :
              Pays(s, v)' => Pays(s, v) /\ sweep'[s].seen[v] = sweep[s].seen[v]
  BY <1>1, SweepsStay DEF PacketInv
<1>8. ~Unsent => ~Unsent'
  BY <1>1 DEF Unsent
<1>9. setbacks' \in Nat /\ shares' = shares
  BY <1>1 DEF PacketInv
<1> QED
  BY <1>1, <1>3, <1>5, <1>6, <1>7, <1>8, <1>9, SharesStay

\* The packet is created, or its pool is not prepared, or taken back.
LEMMA CreateKeepsPacket ==
  ASSUME PacketInv, CreatePacket
  PROVE  PacketInv'
<1> USE DEF PacketInv
<1>1. UNCHANGED <<packetAge, shares, taken, booked, refunded, guest, sweep, setbacks>>
  BY DEF CreatePacket
<1>2. PICK dealt \in SplitRedPacket(PacketTotal, PacketCount) : sender' = [at |-> "prepare", dealt |-> dealt]
  BY DEF CreatePacket
<1>3. dealt \in Seq(Pieces) /\ Len(dealt) = PacketCount /\ SumFunction(dealt) = PacketTotal
  BY <1>2, SplitIsPacket
<1>4. packet' \in PacketRow /\ packet'.status = "active" /\ packet'.remaining = PacketCount
  BY PacketConstants DEF CreatePacket, PacketRow
<1>5. packet.status = "none" /\ sender.at = "idle" /\ Unsent
  BY DEF CreatePacket, SenderFirst, Unsent
<1>6. PacketTyped'
  <2>1. sender' \in [at : {"idle", "prepare", "refund", "release", "done"}, dealt : Seq(Pieces)]
    BY <1>2, <1>3
  <2> QED
    BY <1>1, <1>4, <2>1 DEF PacketTyped
<1>7. \A v \in Guests : Shared(v)' <=> Shared(v)
  BY <1>1 DEF Shared
<1>8. SenderFirst'
  BY <1>1, <1>2, <1>3, <1>4, <1>5, <1>7 DEF SenderFirst, Unsent
<1>9. PacketCounts'
  <2>1. \A u \in Guests : booked[u] = 0
    BY <1>5 DEF SenderFirst
  <2>2. BookedGuests' = {}
    BY <1>1, <2>1 DEF BookedGuests
  <2>3. Cardinality(BookedGuests') = 0
    BY <2>2, FS_EmptySet
  <2>4. refunded = 0
    BY <1>5 DEF PacketCounts
  <2> HIDE DEF BookedGuests
  <2> QED
    BY <1>1, <1>4, <2>3, <2>4, PacketConstants DEF PacketCounts
<1>a. SweepsSaw' /\ \A s \in PacketSweeps, v \in Guests :
              Pays(s, v)' => Pays(s, v) /\ sweep'[s].seen[v] = sweep[s].seen[v]
  BY <1>1, SweepsStay
<1> QED
  BY <1>1, <1>5, <1>6, <1>8, <1>9, <1>a, SharesStay

LEMMA SendKeepsPacket ==
  ASSUME PacketInv, PrepareRedPacket
  PROVE  PacketInv'
<1> USE DEF PacketInv
<1>1. UNCHANGED <<packet, packetAge, taken, booked, refunded, guest, sweep>> /\ sender.at = "prepare" /\ Unsent
  BY DEF PrepareRedPacket, Unsent
<1>2. setbacks' \in Nat
  BY PacketHazard DEF PrepareRedPacket
<1>3. /\ sender' \in [at : {"idle", "prepare", "refund", "release", "done"}, dealt : Seq(Pieces)]
      /\ sender'.at \in {"done", "refund"}
  <2>1. PICK at \in {"done", "refund"} : sender' = [at |-> at, dealt |-> <<>>]
    BY DEF PrepareRedPacket
  <2>2. <<>> \in Seq(Pieces)
    BY EmptyList
  <2> QED
    BY <2>1, <2>2
<1>4. shares' = shares \/ shares' = sender.dealt
  BY DEF PrepareRedPacket
<1>5. PacketTyped'
  <2>1. shares' \in Seq(Pieces)
    BY <1>4 DEF PacketTyped
  <2> QED
    BY <1>1, <1>3, <2>1 DEF PacketTyped
<1>6. SenderFirst' /\ ~Unsent'
  BY <1>1, <1>3 DEF SenderFirst, Unsent
<1>7. PacketCounts'
  BY <1>1, CountsStay
<1>8. SweepsSaw' /\ \A s \in PacketSweeps, v \in Guests :
              Pays(s, v)' => Pays(s, v) /\ sweep'[s].seen[v] = sweep[s].seen[v]
  BY <1>1, SweepsStay
<1>9. CASE shares' = shares
  BY <1>1, <1>2, <1>5, <1>6, <1>7, <1>8, <1>9, SharesStay
\* Nobody has taken anything yet.
<1>a. CASE shares' = sender.dealt
  <2>1. \A v \in Guests : taken[v] = NoMark /\ booked[v] = 0 /\ ~Shared(v)
    BY <1>1 DEF SenderFirst
  <2>2. \A v \in Guests : ~Shared(v)'
    BY <1>1, <2>1 DEF Shared
  <2>3. \A s \in PacketSweeps, v \in Guests : ~Pays(s, v)'
    <3> SUFFICES ASSUME NEW s \in PacketSweeps, NEW v \in Guests, Pays(s, v) PROVE FALSE
      BY <1>8
    <3>1. sweep[s].seen[v] = NoMark /\ SweepSaw(s, v)
      BY <1>1 DEF SenderFirst, SweepsSaw
    <3> QED
      BY <3>1 DEF Handles, SweepSaw
  <2>4. MarksReal'
    <3> SUFFICES ASSUME NEW v \in Guests PROVE GuestMarked(v)'
      BY DEF MarksReal
    <3>1. GuestMarked(v)
      BY DEF MarksReal
    <3> QED
      BY <1>1, <2>2, <3>1 DEF GuestMarked
  <2>5. MarksHold'
    BY <1>1, <2>1, <2>2, <2>3 DEF MarksHold, HeldByMark
  <2>6. SharesDue'
    <3>1. shares' \in Seq(Pieces) /\ Within(Len(shares'), SumFunction(shares'))
      <4>1. sender.dealt \in Seq(Pieces) /\ Len(sender.dealt) = PacketCount /\ SumFunction(sender.dealt) = PacketTotal
        BY <1>1 DEF PacketTyped, SenderFirst
      <4> QED
        BY <1>a, <4>1, PacketConstants DEF Within
    <3>2. [u \in Guests |-> 0] \in [Guests -> Amount] /\ Dealt([u \in Guests |-> 0], shares')
      BY <3>1, NobodyDue
    <3>3. Fits([u \in Guests |-> 0])'
      BY <1>1, <2>1, <2>2, <2>3 DEF Fits, FitsOne
    <3> QED
      BY <3>2, <3>3 DEF SharesDue
  <2> QED
    BY <1>2, <1>5, <1>6, <1>7, <1>8, <2>4, <2>5, <2>6
<1> QED
  BY <1>4, <1>9, <1>a

LEMMA UnpreparedKeepsPacket ==
  ASSUME PacketInv, RefundUnprepared
  PROVE  PacketInv'
<1> USE DEF PacketInv
<1>1. UNCHANGED <<packetAge, taken, booked, guest, sweep>> /\ sender.at \in {"refund", "release"} /\ ~Unsent
  BY DEF RefundUnprepared, Unsent
<1>2. setbacks' \in Nat
  BY PacketHazard DEF RefundUnprepared
<1>3. /\ sender' \in [at : {"idle", "prepare", "refund", "release", "done"}, dealt : Seq(Pieces)]
      /\ sender'.at \in {"done", "release"}
  BY DEF RefundUnprepared, PacketTyped
<1>4. (UNCHANGED <<packet, refunded>>) \/ RefundLeft
  BY DEF RefundUnprepared
<1>5. shares' = shares \/ shares' = <<>>
  BY DEF RefundUnprepared
<1>6. packet' \in PacketRow /\ refunded' \in Int /\ (packet'.status = "none" <=> packet.status = "none") /\ PacketCounts'
  BY <1>1, <1>4, CountsStay, CountsRefund DEF PacketTyped
<1>7. PacketTyped'
  BY <1>1, <1>3, <1>5, <1>6, EmptyList DEF PacketTyped
<1>8. SenderFirst' /\ ~Unsent'
  BY <1>1, <1>3, <1>6 DEF SenderFirst, Unsent
<1>9. SweepsSaw' /\ \A s \in PacketSweeps, v \in Guests :
              Pays(s, v)' => Pays(s, v) /\ sweep'[s].seen[v] = sweep[s].seen[v]
  BY <1>1, SweepsStay
<1> QED
  BY <1>1, <1>2, <1>5, <1>6, <1>7, <1>8, <1>9, SharesStay

-----------------------------------------------------------------------------
(* Sweeps *)

\* The row of one sweep changes.
SweepTurn(s) == sweep' \in [PacketSweeps -> SweepRow] /\ \A r \in PacketSweeps : r # s => sweep'[r] = sweep[r]

LEMMA SweepQuiet ==
  ASSUME PacketInv, NEW s \in PacketSweeps, SweepTurn(s), setbacks' \in Nat,
         UNCHANGED <<packetAge, taken, booked, sender, guest>>, shares' = shares \/ shares' = <<>>,
         packet' \in PacketRow, refunded' \in Int, packet'.status = "none" <=> packet.status = "none",
         PacketCounts',
         \A v \in Guests : /\ SweepSaw(s, v)'
                           /\ Pays(s, v)' => Pays(s, v) /\ sweep'[s].seen[v] = sweep[s].seen[v]
                           /\ Unsent => sweep'[s].seen[v] = NoMark
  PROVE  PacketInv'
<1> USE DEF PacketInv
<1>1. PacketTyped'
  BY EmptyList DEF PacketTyped, SweepTurn
<1>2. Unsent' <=> Unsent
  BY DEF Unsent
<1>3. \A v \in Guests : Shared(v)' <=> Shared(v)
  BY DEF Shared
<1>4. ASSUME NEW r \in PacketSweeps, NEW v \in Guests
      PROVE  /\ SweepSaw(r, v)'
             /\ Pays(r, v)' => Pays(r, v) /\ sweep'[r].seen[v] = sweep[r].seen[v]
             /\ Unsent => sweep'[r].seen[v] = NoMark
  <2>1. CASE r = s
    BY <2>1
  <2>2. CASE r # s
    <3>1. sweep'[r] = sweep[r] /\ SweepSaw(r, v)
      BY <2>2 DEF SweepTurn, SweepsSaw
    <3>2. Unsent => sweep[r].seen[v] = NoMark
      BY DEF SenderFirst
    <3> QED
      BY <3>1, <3>2 DEF SweepSaw, Handles, Pays
  <2> QED
    BY <2>1, <2>2
<1>5. SweepsSaw'
  BY <1>4 DEF SweepsSaw
<1>6. SenderFirst'
  <2>1. /\ sender'.at = "idle" <=> packet'.status = "none"
        /\ sender'.at = "prepare" => Len(sender'.dealt) = PacketCount /\ SumFunction(sender'.dealt) = PacketTotal
    BY DEF SenderFirst
  <2>2. Unsent => shares' = <<>> /\ \A v \in Guests : taken'[v] = NoMark /\ booked'[v] = 0 /\ ~Shared(v)'
    BY <1>3 DEF SenderFirst
  <2>3. Unsent => \A r \in PacketSweeps : \A v \in Guests : sweep'[r].seen[v] = NoMark
    BY <1>4
  <2> QED
    BY <1>2, <2>1, <2>2, <2>3 DEF SenderFirst
<1>7. \A r \in PacketSweeps, v \in Guests : Pays(r, v)' => Pays(r, v) /\ sweep'[r].seen[v] = sweep[r].seen[v]
  BY <1>4
<1> QED
  BY <1>1, <1>2, <1>5, <1>6, <1>7, SharesStay

\* A sweep that starts again, ends, or goes on to the refund.
LEMMA SweepAtFacts ==
  ASSUME PacketInv, NEW s \in PacketSweeps, NEW at \in {"idle", "refund", "release"}, SweepAt(s, at)
  PROVE  /\ SweepTurn(s)
         /\ UNCHANGED <<taken, guest>> =>
              \A v \in Guests : SweepSaw(s, v)' /\ ~Pays(s, v)' /\ sweep'[s].seen[v] = NoMark
<1> DEFINE row == [IdleSweep EXCEPT !.at = at]
<1>1. /\ row \in SweepRow /\ row.at = at /\ row.seen = [u \in Guests |-> NoMark] /\ row.todo = {} /\ row.of = {}
  BY IdleSweepFacts DEF SweepRow, SweepStages
<1>2. sweep \in [PacketSweeps -> SweepRow] /\ sweep' = [sweep EXCEPT ![s] = row]
  BY DEF SweepAt, PacketInv, PacketTyped
<1> HIDE DEF row
<1>3. SweepTurn(s) /\ sweep'[s] = row
  BY <1>1, <1>2 DEF SweepTurn
<1>4. ASSUME UNCHANGED <<taken, guest>>, NEW v \in Guests
      PROVE  SweepSaw(s, v)' /\ ~Pays(s, v)' /\ sweep'[s].seen[v] = NoMark
  <2>1. sweep'[s].seen[v] = NoMark /\ sweep'[s].todo = {} /\ sweep'[s].of = {} /\ sweep'[s].at # "claim"
    BY <1>1, <1>3
  <2>2. guest[v].takes \in Nat /\ 0 <= guest[v].takes
    BY PacketConstants DEF PacketInv, PacketTyped, GuestRow
  <2> QED
    BY <1>4, <2>1, <2>2, NoMarkFacts DEF SweepSaw, RealMark, Handles, Pays
<1> QED
  BY <1>3, <1>4

LEMMA SweepEndsKeepsPacket ==
  ASSUME PacketInv, NEW s \in PacketSweeps,
         \/ SweepDies(s) \/ SweepDecides(s) \/ SweepRefunds(s)
         \/ /\ Setback /\ Concludes(s, TRUE)
            /\ UNCHANGED <<packet, packetAge, shares, taken, booked, refunded, sender, guest>>
  PROVE  PacketInv'
<1>1. PICK at \in {"idle", "refund", "release"} : SweepAt(s, at)
  BY DEF SweepDies, SweepDecides, SweepRefunds, Concludes
<1>2. UNCHANGED <<packetAge, taken, booked, sender, guest>> /\ (shares' = shares \/ shares' = <<>>)
  BY DEF SweepDies, SweepDecides, SweepRefunds
<1>3. setbacks' \in Nat
  <2>1. Smooth \/ Setback
    BY DEF SweepDies, SweepDecides, SweepRefunds, Smooth
  <2> QED
    BY <2>1, PacketHazard DEF PacketInv
<1>4. (UNCHANGED <<packet, refunded>>) \/ RefundLeft
  BY DEF SweepDies, SweepDecides, SweepRefunds
<1>5. packet' \in PacketRow /\ refunded' \in Int /\ (packet'.status = "none" <=> packet.status = "none") /\ PacketCounts'
  BY <1>2, <1>4, CountsStay, CountsRefund DEF PacketInv, PacketTyped
<1>6. SweepTurn(s)
  BY <1>1, SweepAtFacts
<1>7. \A v \in Guests : SweepSaw(s, v)' /\ ~Pays(s, v)' /\ sweep'[s].seen[v] = NoMark
  BY <1>1, <1>2, SweepAtFacts
<1> QED
  BY <1>2, <1>3, <1>5, <1>6, <1>7, SweepQuiet

\* A sweep that reads, or that learns how a payment ended.
LEMMA SweepRowQuiet ==
  ASSUME PacketInv, NEW s \in PacketSweeps, NEW row \in SweepRow, sweep' = [sweep EXCEPT ![s] = row],
         setbacks' \in Nat, UNCHANGED <<packet, packetAge, shares, taken, booked, refunded, sender, guest>>,
         row.at # "claim",
         \A v \in Guests : /\ row.seen[v] \in {sweep[s].seen[v], taken[v], NoMark}
                           /\ row.at = "mend" /\ v \in row.todo => row.seen[v] # NoMark
  PROVE  PacketInv'
<1>1. SweepTurn(s) /\ sweep'[s] = row
  BY DEF SweepTurn, PacketInv, PacketTyped
<1>2. ASSUME NEW v \in Guests
      PROVE  SweepSaw(s, v)' /\ ~Pays(s, v)' /\ (Unsent => sweep'[s].seen[v] = NoMark)
  <2>1. SweepSaw(s, v) /\ GuestMarked(v) /\ guest[v].takes \in Nat
    BY DEF PacketInv, SweepsSaw, MarksReal, PacketTyped, GuestRow
  <2>2. Unsent => taken[v] = NoMark /\ sweep[s].seen[v] = NoMark
    BY DEF PacketInv, SenderFirst
  <2>3. ~Pays(s, v)'
    BY <1>1 DEF Pays
  <2>4. RealMark(row.seen[v]) /\ row.seen[v].nth <= guest[v].takes
    BY <2>1, NoMarkFacts DEF SweepSaw, GuestMarked, RealMark
  <2>5. row.seen[v] # NoMark /\ taken[v].nth = row.seen[v].nth => taken[v].share = row.seen[v].share
    BY <2>1 DEF SweepSaw
  <2>6. SweepSaw(s, v)'
    BY <1>1, <2>4, <2>5 DEF SweepSaw, Handles, Pays
  <2> QED
    BY <1>1, <2>2, <2>3, <2>6
<1>3. PacketCounts'
  BY CountsStay DEF PacketInv
<1>4. packet' \in PacketRow /\ refunded' \in Int
  BY DEF PacketInv, PacketTyped
<1> QED
  BY <1>1, <1>2, <1>3, <1>4, SweepQuiet

LEMMA SweepStartsKeepsPacket ==
  ASSUME PacketInv, NEW s \in PacketSweeps, NEW expire \in BOOLEAN, SweepStarts(s, expire)
  PROVE  PacketInv'
<1> DEFINE row == [IdleSweep EXCEPT !.at = "pool", !.expire = expire]
<1>1. /\ row \in SweepRow /\ row.at = "pool" /\ row.seen = [u \in Guests |-> NoMark] /\ row.todo = {} /\ row.of = {}
  BY IdleSweepFacts DEF SweepRow, SweepStages
<1>2. sweep' = [sweep EXCEPT ![s] = row]
  BY DEF SweepStarts
<1>3. UNCHANGED <<packet, packetAge, shares, taken, booked, refunded, sender, guest>> /\ setbacks' \in Nat
  BY DEF SweepStarts, PacketInv
<1> HIDE DEF row
<1> QED
  BY <1>1, <1>2, <1>3, SweepRowQuiet

LEMMA SweepReadsKeepsPacket ==
  ASSUME PacketInv, NEW s \in PacketSweeps, SweepReads(s)
  PROVE  PacketInv'
<1>1. UNCHANGED <<packet, packetAge, shares, taken, booked, refunded, sender, guest>>
  BY DEF SweepReads
<1>2. setbacks' \in Nat
  BY PacketHazard DEF SweepReads, PacketInv
<1>3. /\ sweep \in [PacketSweeps -> SweepRow] /\ sweep[s] \in SweepRow /\ taken \in [Guests -> MarkRow]
      /\ \A v \in Guests : SweepSaw(s, v)
  BY DEF PacketInv, PacketTyped, SweepsSaw
<1>4. CASE /\ sweep[s].at = "pool"
           /\ sweep' = [sweep EXCEPT ![s] = [@ EXCEPT !.at = "marks", !.poolGone = packetAge # "young" /\ shares = <<>>]]
  <2>1. PICK gone \in BOOLEAN : sweep' = [sweep EXCEPT ![s] = [sweep[s] EXCEPT !.at = "marks", !.poolGone = gone]]
    <3>1. (packetAge # "young" /\ shares = <<>>) \in BOOLEAN
      OBVIOUS
    <3> QED
      BY <1>3, <1>4, <3>1
  <2> DEFINE row == [sweep[s] EXCEPT !.at = "marks", !.poolGone = gone]
  <2>2. /\ row \in SweepRow /\ row.at = "marks" /\ row.seen = sweep[s].seen
        /\ row.todo = sweep[s].todo /\ row.of = sweep[s].of
    BY <1>3 DEF SweepRow, SweepStages
  <2>3. sweep' = [sweep EXCEPT ![s] = row]
    BY <2>1
  <2> HIDE DEF row
  <2>4. \A v \in Guests : /\ row.seen[v] \in {sweep[s].seen[v], taken[v], NoMark}
                          /\ row.at = "mend" /\ v \in row.todo => row.seen[v] # NoMark
    BY <1>3, <2>2 DEF SweepSaw
  <2> QED
    BY <1>1, <1>2, <2>2, <2>3, <2>4, SweepRowQuiet
<1>5. CASE /\ sweep[s].at = "marks" /\ sweep' = [sweep EXCEPT ![s] = [@ EXCEPT !.at = "claims", !.seen = taken]]
  <2> DEFINE row == [sweep[s] EXCEPT !.at = "claims", !.seen = taken]
  <2>1. /\ row \in SweepRow /\ row.at = "claims" /\ row.seen = taken
        /\ row.todo = sweep[s].todo /\ row.of = sweep[s].of
    BY <1>3 DEF SweepRow, SweepStages
  <2>2. sweep' = [sweep EXCEPT ![s] = row]
    BY <1>3, <1>5
  <2> HIDE DEF row
  <2> QED
    BY <1>1, <1>2, <2>1, <2>2, SweepRowQuiet
<1>6. CASE sweep[s].at = "claims" /\ ~(Setback /\ Concludes(s, TRUE))
  <2> DEFINE marked == {u \in Guests : sweep[s].seen[u] # NoMark /\ booked[u] = 0}
             young == {u \in marked : sweep[s].seen[u].state = "fresh"}
  <2>1. PICK todo \in SUBSET Guests, wait \in BOOLEAN :
          /\ \A v \in todo : sweep[s].seen[v] # NoMark
          /\ sweep' = [sweep EXCEPT ![s] = [sweep[s] EXCEPT !.at = "mend", !.todo = todo, !.pending = wait]]
    <3>1. /\ marked \ young \in SUBSET Guests /\ (young # {}) \in BOOLEAN
          /\ \A v \in marked \ young : sweep[s].seen[v] # NoMark
      OBVIOUS
    <3>2. sweep' = [sweep EXCEPT ![s] = [sweep[s] EXCEPT !.at = "mend", !.todo = marked \ young, !.pending = young # {}]]
      BY <1>3, <1>6 DEF SweepReads
    <3> HIDE DEF marked, young
    <3> QED
      BY <3>1, <3>2
  <2>2. [sweep[s] EXCEPT !.at = "mend"] \in SweepRow
    BY <1>3 DEF SweepRow, SweepStages
  <2> DEFINE row == [sweep[s] EXCEPT !.at = "mend", !.todo = todo, !.pending = wait]
  <2>3. row \in SweepRow
    BY <1>3, <2>1 DEF SweepRow, SweepStages
  <2>4. row.at = "mend" /\ row.seen = sweep[s].seen
    BY <1>3 DEF SweepRow
  <2>5. row.todo = todo /\ row.of = sweep[s].of
    BY <1>3 DEF SweepRow
  <2>6. sweep' = [sweep EXCEPT ![s] = row]
    BY <2>1
  <2> HIDE DEF row
  <2>7. \A v \in Guests : /\ row.seen[v] \in {sweep[s].seen[v], taken[v], NoMark}
                          /\ row.at = "mend" /\ v \in row.todo => row.seen[v] # NoMark
    BY <1>3, <2>1, <2>4, <2>5 DEF SweepSaw
  <2> QED
    BY <1>1, <1>2, <2>3, <2>4, <2>6, <2>7, SweepRowQuiet
<1>7. CASE Setback /\ Concludes(s, TRUE)
  BY <1>1, <1>7, SweepEndsKeepsPacket
<1>8. SweepReads(s) => \/ Setback /\ Concludes(s, TRUE)
                       \/ sweep[s].at = "claims"
                       \/ sweep[s].at = "marks" /\ sweep' = [sweep EXCEPT ![s] = [@ EXCEPT !.at = "claims", !.seen = taken]]
                       \/ /\ sweep[s].at = "pool"
                          /\ sweep' = [sweep EXCEPT ![s] = [@ EXCEPT !.at = "marks", !.poolGone = packetAge # "young" /\ shares = <<>>]]
  BY DEF SweepReads
<1> QED
  BY <1>4, <1>5, <1>6, <1>7, <1>8

-----------------------------------------------------------------------------
(* Marks that age, that are locked, and that are lost *)

MarkTurn(u, st) ==
  /\ taken' \in [Guests -> MarkRow] /\ \A v \in Guests : v # u => taken'[v] = taken[v]
  /\ taken'[u].share = taken[u].share /\ taken'[u].nth = taken[u].nth /\ taken'[u].state = st

\* A share that was taken stays what it was, and may now be one that a sweep pays.
LEMMA MarkMoves ==
  ASSUME PacketInv, NEW u \in Guests, taken[u] # NoMark, NEW st \in {"old", "repair"},
         MarkTurn(u, st), setbacks' \in Nat,
         UNCHANGED <<packet, packetAge, shares, booked, refunded, sender, guest>>,
         sweep' \in [PacketSweeps -> SweepRow],
         \A s \in PacketSweeps, v \in Guests :
           /\ sweep'[s].seen[v] = sweep[s].seen[v] /\ (Handles(s, v)' => Handles(s, v))
           /\ Pays(s, v)' => \/ Pays(s, v)
                             \/ v = u /\ st = "repair" /\ sweep[s].seen[u] # NoMark /\ taken[u].nth = sweep[s].seen[u].nth,
         st = "old" => booked[u] = 0 /\ taken[u].state = "fresh"
  PROVE  PacketInv'
<1> USE DEF PacketInv
<1>1. /\ taken' \in [Guests -> MarkRow] /\ \A v \in Guests : v # u => taken'[v] = taken[v]
      /\ taken'[u].share = taken[u].share /\ taken'[u].nth = taken[u].nth /\ taken'[u].state = st
  BY DEF MarkTurn
<1>2. RealMark(taken[u]) /\ taken[u].nth # 0 /\ taken'[u] # NoMark /\ ~Gone /\ ~Unsent
  <2>1. RealMark(taken[u]) /\ taken[u].nth # 0
    BY DEF MarksReal, GuestMarked, RealMark
  <2>2. taken'[u] # NoMark
    BY <1>1, NoMarkFacts
  <2> QED
    BY <2>1, <2>2 DEF Gone, SenderFirst
<1>3. ASSUME NEW v \in Guests, v # u PROVE Leaves(v)
  BY <1>1, <1>3 DEF Leaves
<1>4. PacketTyped'
  BY <1>1 DEF PacketTyped
<1>5. SenderFirst' /\ PacketCounts'
  BY <1>2, CountsStay DEF SenderFirst, Unsent
<1>6. MarksReal'
  <2>1. GuestMarked(u)'
    BY <1>1, <1>2 DEF MarksReal, GuestMarked, RealMark, Shared
  <2>2. ASSUME NEW v \in Guests, v # u PROVE GuestMarked(v)'
    BY <1>3, <2>2, LeftAlone DEF MarksReal
  <2> QED
    BY <2>1, <2>2 DEF MarksReal
<1>7. SweepsSaw'
  <2> SUFFICES ASSUME NEW s \in PacketSweeps, NEW v \in Guests PROVE SweepSaw(s, v)'
    BY DEF SweepsSaw
  <2>1. SweepSaw(s, v) /\ taken'[v].share = taken[v].share /\ taken'[v].nth = taken[v].nth
    BY <1>1 DEF SweepsSaw
  <2>2. sweep'[s].seen[v] = sweep[s].seen[v] /\ (Handles(s, v)' => Handles(s, v))
    OBVIOUS
  <2> QED
    BY <2>1, <2>2 DEF SweepSaw
<1>8. MarksHold'
  <2>1. HeldByMark(u)'
    <3>1. HeldByMark(u) /\ booked[u] \in Nat
      BY <1>2 DEF MarksHold, PacketTyped, Amount
    <3>2. ASSUME st = "old" PROVE \A s \in PacketSweeps : ~Pays(s, u)'
      BY <3>1, <3>2 DEF HeldByMark
    <3> QED
      BY <1>1, <1>2, <3>1, <3>2 DEF HeldByMark, Shared
  <2>2. ASSUME NEW v \in Guests, v # u PROVE HeldByMark(v)'
    BY <1>2, <1>3, <2>2, LeftAlone DEF MarksHold
  <2> QED
    BY <2>1, <2>2 DEF MarksHold
<1>9. SharesDue'
  <2>1. PICK due \in [Guests -> Amount] : Fits(due) /\ Dealt(due, shares)
    BY DEF SharesDue
  <2>2. FitsOne(due, u)'
    <3>1. FitsOne(due, u)
      BY <2>1 DEF Fits
    <3>2. ASSUME NEW s \in PacketSweeps, booked[u] = 0, Pays(s, u)' PROVE due[u] = sweep'[s].seen[u].share
      <4>1. SweepSaw(s, u) /\ due[u] = taken[u].share
        BY <3>1, <3>2 DEF SweepsSaw, FitsOne
      <4>2. CASE Pays(s, u)
        BY <3>1, <3>2, <4>2 DEF FitsOne
      <4>3. CASE sweep[s].seen[u] # NoMark /\ taken[u].nth = sweep[s].seen[u].nth
        BY <4>1, <4>3 DEF SweepSaw
      <4> QED
        BY <3>2, <4>2, <4>3
    <3> QED
      BY <1>1, <3>1, <3>2 DEF FitsOne, Shared
  <2>3. ASSUME NEW v \in Guests, v # u PROVE FitsOne(due, v)'
    BY <1>3, <2>1, <2>3, LeftAlone DEF Fits
  <2>4. Fits(due)'
    BY <2>2, <2>3 DEF Fits
  <2>5. Dealt(due, shares')
    BY <2>1
  <2> QED
    BY <2>4, <2>5 DEF SharesDue
<1> QED
  BY <1>4, <1>5, <1>6, <1>7, <1>8, <1>9

LEMMA AgesKeepsPacket ==
  ASSUME PacketInv, NEW u \in Guests, MarkAges(u)
  PROVE  PacketInv'
<1>1. UNCHANGED <<packet, packetAge, shares, booked, refunded, sender, guest, sweep, setbacks>>
  BY DEF MarkAges
<1>2. taken[u] # NoMark /\ taken[u].state = "fresh" /\ booked[u] = 0 /\ taken' = [taken EXCEPT ![u].state = "old"]
  BY NoMarkFacts DEF MarkAges
<1>3. sweep' \in [PacketSweeps -> SweepRow] /\ setbacks' \in Nat
  BY <1>1 DEF PacketInv, PacketTyped
<1>4. \A s \in PacketSweeps, v \in Guests :
        /\ sweep'[s].seen[v] = sweep[s].seen[v] /\ (Handles(s, v)' => Handles(s, v)) /\ (Pays(s, v)' => Pays(s, v))
  BY <1>1 DEF Handles, Pays
<1>5. MarkTurn(u, "old")
  <2>1. taken[u] \in MarkRow /\ taken \in [Guests -> MarkRow]
    BY DEF PacketInv, PacketTyped
  <2> DEFINE mark == [taken[u] EXCEPT !.state = "old"]
  <2>2. mark \in MarkRow /\ mark.share = taken[u].share /\ mark.nth = taken[u].nth /\ mark.state = "old"
    BY <2>1 DEF MarkRow, MarkStates
  <2>3. taken' = [taken EXCEPT ![u] = mark]
    BY <1>2
  <2> HIDE DEF mark
  <2> QED
    BY <2>1, <2>2, <2>3 DEF MarkTurn
<1> QED
  BY <1>1, <1>2, <1>3, <1>4, <1>5, MarkMoves

LEMMA LocksKeepsPacket ==
  ASSUME PacketInv, NEW s \in PacketSweeps, SweepLocks(s)
  PROVE  PacketInv'
<1>1. UNCHANGED <<packet, packetAge, shares, booked, refunded, sender, guest>> /\ sweep[s].at = "mend"
  BY DEF SweepLocks
<1>2. setbacks' \in Nat
  BY PacketHazard DEF SweepLocks, PacketInv
<1> DEFINE same(u) == /\ taken[u].nth = sweep[s].seen[u].nth
                      /\ (taken[u].state = "repair") = (sweep[s].seen[u].state = "repair")
           locked(u) == IF same(u) THEN [taken EXCEPT ![u].state = "repair"] ELSE taken
           rest(u) == [sweep[s] EXCEPT !.todo = sweep[s].todo \ {u}]
<1>3. PICK u \in sweep[s].todo :
        \/ /\ taken' = locked(u)
           /\ sweep' = [sweep EXCEPT ![s] = IF same(u) THEN [rest(u) EXCEPT !.at = "claim", !.of = {u}] ELSE rest(u)]
        \/ /\ taken' \in {taken, locked(u)}
           /\ sweep' = [sweep EXCEPT ![s] = [rest(u) EXCEPT !.pending = TRUE]]
  BY DEF SweepLocks
<1>4. sweep \in [PacketSweeps -> SweepRow] /\ sweep[s] \in SweepRow /\ taken \in [Guests -> MarkRow] /\ u \in Guests
  BY DEF PacketInv, PacketTyped, SweepRow
<1>5. \A v \in sweep[s].todo : v \in Guests /\ sweep[s].seen[v] # NoMark
  BY <1>1, <1>4 DEF PacketInv, SweepsSaw, SweepSaw, Handles, SweepRow
<1>6. /\ rest(u) \in SweepRow /\ rest(u).at = "mend" /\ rest(u).seen = sweep[s].seen
      /\ rest(u).todo = sweep[s].todo \ {u} /\ rest(u).of = sweep[s].of
  BY <1>1, <1>4 DEF SweepRow
<1>7. PICK row \in SweepRow :
        /\ sweep' = [sweep EXCEPT ![s] = row] /\ row.seen = sweep[s].seen /\ row.todo = sweep[s].todo \ {u}
        /\ \/ row.at = "mend"
           \/ row.at = "claim" /\ row.of = {u} /\ same(u) /\ taken' = [taken EXCEPT ![u].state = "repair"]
  <2> DEFINE base == rest(u)
             claim == [base EXCEPT !.at = "claim", !.of = {u}]
             wait == [base EXCEPT !.pending = TRUE]
  <2> HIDE DEF rest
  <2>1. /\ claim \in SweepRow /\ claim.seen = sweep[s].seen /\ claim.todo = sweep[s].todo \ {u}
        /\ claim.at = "claim" /\ claim.of = {u}
    BY <1>4, <1>6 DEF SweepRow, SweepStages
  <2>2. wait \in SweepRow /\ wait.seen = sweep[s].seen /\ wait.todo = sweep[s].todo \ {u} /\ wait.at = "mend"
    BY <1>6 DEF SweepRow
  <2>3. \/ same(u) /\ taken' = [taken EXCEPT ![u].state = "repair"] /\ sweep' = [sweep EXCEPT ![s] = claim]
        \/ sweep' = [sweep EXCEPT ![s] = base]
        \/ sweep' = [sweep EXCEPT ![s] = wait]
    BY <1>3
  <2>4. base \in SweepRow /\ base.seen = sweep[s].seen /\ base.todo = sweep[s].todo \ {u} /\ base.at = "mend"
    BY <1>6
  <2> HIDE DEF claim, wait, base, same
  <2> QED
    BY <2>1, <2>2, <2>3, <2>4
<1>8. CASE taken' = taken /\ row.at = "mend"
  <2>1. \A v \in Guests : /\ row.seen[v] \in {sweep[s].seen[v], taken[v], NoMark}
                          /\ row.at = "mend" /\ v \in row.todo => row.seen[v] # NoMark
    BY <1>5, <1>7
  <2> QED
    BY <1>1, <1>2, <1>7, <1>8, <2>1, SweepRowQuiet
<1>b. ASSUME taken' = [taken EXCEPT ![u].state = "repair"] PROVE MarkTurn(u, "repair")
  <2>1. taken[u] \in MarkRow /\ taken \in [Guests -> MarkRow]
    BY <1>4
  <2> DEFINE mark == [taken[u] EXCEPT !.state = "repair"]
  <2>2. mark \in MarkRow /\ mark.share = taken[u].share /\ mark.nth = taken[u].nth /\ mark.state = "repair"
    BY <2>1 DEF MarkRow, MarkStates
  <2>3. taken' = [taken EXCEPT ![u] = mark]
    BY <1>b
  <2> HIDE DEF mark
  <2> QED
    BY <1>4, <2>1, <2>2, <2>3 DEF MarkTurn
<1>9. CASE same(u) /\ taken' = [taken EXCEPT ![u].state = "repair"]
  <2>1. sweep[s].seen[u] # NoMark /\ taken[u].nth = sweep[s].seen[u].nth
    BY <1>5, <1>9
  <2>2. taken[u] # NoMark
    <3>1. RealMark(sweep[s].seen[u])
      BY <1>4 DEF PacketInv, SweepsSaw, SweepSaw
    <3> QED
      BY <2>1, <3>1, NoMarkFacts DEF RealMark
  <2>3. sweep' \in [PacketSweeps -> SweepRow] /\ sweep'[s] = row /\ \A r \in PacketSweeps : r # s => sweep'[r] = sweep[r]
    BY <1>4, <1>7
  <2>4. ASSUME NEW r \in PacketSweeps, NEW v \in Guests
        PROVE  /\ sweep'[r].seen[v] = sweep[r].seen[v] /\ (Handles(r, v)' => Handles(r, v))
               /\ Pays(r, v)' => \/ Pays(r, v)
                                 \/ v = u /\ sweep[r].seen[u] # NoMark /\ taken[u].nth = sweep[r].seen[u].nth
    <3>1. CASE r # s
      BY <2>3, <3>1 DEF Handles, Pays
    <3>2. CASE r = s
      <4>1. Handles(s, v)' => Handles(s, v)
        BY <1>1, <1>7, <2>3 DEF Handles, Pays
      <4>2. Pays(s, v)' => v = u
        BY <1>7, <2>3 DEF Pays
      <4> QED
        BY <1>7, <2>1, <2>3, <3>2, <4>1, <4>2
    <3> QED
      BY <3>1, <3>2
  <2>5. MarkTurn(u, "repair")
    BY <1>b, <1>9
  <2> HIDE DEF same
  <2> QED
    BY <1>1, <1>2, <1>4, <2>2, <2>3, <2>4, <2>5, MarkMoves
<1>a. \/ taken' = taken /\ row.at = "mend"
      \/ same(u) /\ taken' = [taken EXCEPT ![u].state = "repair"]
  BY <1>3, <1>7
<1> QED
  BY <1>8, <1>9, <1>a

\* What a sweep has locked it books, unless someone has.
LEMMA PaysKeepsPacket ==
  ASSUME PacketInv, NEW s \in PacketSweeps, SweepClaims(s)
  PROVE  PacketInv'
<1>1. UNCHANGED <<packetAge, shares, taken, refunded, sender, guest>> /\ sweep[s].at = "claim"
  BY DEF SweepClaims
<1>2. setbacks' \in Nat
  BY PacketHazard DEF SweepClaims, PacketInv
<1> DEFINE mends == [sweep[s] EXCEPT !.at = "mend", !.of = {}]
<1>3. PICK u \in sweep[s].of :
        \/ CanClaim(u) /\ Claims(u, sweep[s].seen[u].share) /\ sweep' = [sweep EXCEPT ![s] = mends]
        \/ /\ UNCHANGED <<packet, booked>>
           /\ \/ sweep' = [sweep EXCEPT ![s] = mends]
              \/ sweep' = [sweep EXCEPT ![s] = [mends EXCEPT !.todo = {}]]
              \/ sweep' = [sweep EXCEPT ![s] = [mends EXCEPT !.pending = TRUE]]
  BY DEF SweepClaims
<1>4. /\ sweep \in [PacketSweeps -> SweepRow] /\ sweep[s] \in SweepRow /\ taken \in [Guests -> MarkRow]
      /\ booked \in [Guests -> Amount] /\ u \in Guests /\ sweep[s].todo \in SUBSET Guests
  BY DEF PacketInv, PacketTyped, SweepRow
<1>5. mends \in SweepRow /\ mends.at = "mend" /\ mends.seen = sweep[s].seen /\ mends.todo = sweep[s].todo
  BY <1>4 DEF SweepRow, SweepStages
<1>6. ASSUME NEW row \in SweepRow, sweep' = [sweep EXCEPT ![s] = row], UNCHANGED <<packet, booked>>,
             row.at = "mend", row.seen = sweep[s].seen, row.todo \in SUBSET sweep[s].todo
      PROVE  PacketInv'
  <2>1. \A v \in Guests : /\ row.seen[v] \in {sweep[s].seen[v], taken[v], NoMark}
                          /\ row.at = "mend" /\ v \in row.todo => row.seen[v] # NoMark
    BY <1>1, <1>6 DEF PacketInv, SweepsSaw, SweepSaw, Handles
  <2> QED
    BY <1>1, <1>2, <1>6, <2>1, SweepRowQuiet
<1>7. CASE UNCHANGED <<packet, booked>>
  <2> DEFINE base == mends
  <2>1. base \in SweepRow /\ base.at = "mend" /\ base.seen = sweep[s].seen /\ base.todo = sweep[s].todo
    BY <1>5
  <2> HIDE DEF mends
  <2> DEFINE ends == [base EXCEPT !.todo = {}]
             wait == [base EXCEPT !.pending = TRUE]
  <2>2. ends \in SweepRow /\ ends.at = "mend" /\ ends.seen = sweep[s].seen /\ ends.todo \in SUBSET sweep[s].todo
    BY <2>1 DEF SweepRow
  <2>3. wait \in SweepRow /\ wait.at = "mend" /\ wait.seen = sweep[s].seen /\ wait.todo \in SUBSET sweep[s].todo
    BY <2>1 DEF SweepRow
  <2>4. base.todo \in SUBSET sweep[s].todo
    BY <2>1
  <2>5. \/ sweep' = [sweep EXCEPT ![s] = base] \/ sweep' = [sweep EXCEPT ![s] = ends]
        \/ sweep' = [sweep EXCEPT ![s] = wait]
    BY <1>3 DEF mends
  <2> HIDE DEF base, ends, wait
  <2> QED
    BY <1>6, <1>7, <2>1, <2>2, <2>3, <2>4, <2>5
<1>8. CASE CanClaim(u) /\ Claims(u, sweep[s].seen[u].share) /\ sweep' = [sweep EXCEPT ![s] = mends]
  <2> USE DEF PacketInv
  <2> DEFINE share == sweep[s].seen[u].share
  <2>1. /\ Pays(s, u) /\ SweepSaw(s, u) /\ sweep[s].seen[u] # NoMark /\ RealMark(sweep[s].seen[u])
        /\ sweep[s].seen[u] \in MarkRow
    <3>1. Pays(s, u) /\ SweepSaw(s, u)
      BY <1>1, <1>3, <1>4 DEF Pays, SweepsSaw
    <3> QED
      BY <1>4, <3>1 DEF SweepSaw, Handles, SweepRow
  <2>2. share \in Amount /\ share >= 1
    BY <2>1 DEF RealMark, MarkRow
  <2>3. ~Unsent
    BY <1>4, <2>1 DEF SenderFirst
  <2>4. /\ packet' \in PacketRow /\ booked' \in [Guests -> Amount]
        /\ booked'[u] = share /\ \A v \in Guests : v # u => booked'[v] = booked[v]
        /\ packet.status = "active" /\ packet'.status # "none"
        /\ PacketCounts'
    <3> HIDE DEF share
    <3>1. Claims(u, share)
      BY <1>8 DEF share
    <3> QED
      BY <1>1, <1>4, <1>8, <2>2, <3>1, CountsClaim
  <2>5. booked[u] = 0 /\ booked'[u] > 0
    BY <1>8, <2>2, <2>4 DEF CanClaim, Amount
  <2>6. SweepTurn(s) /\ sweep'[s] = mends
    BY <1>4, <1>5, <1>8 DEF SweepTurn
  <2>7. ASSUME NEW r \in PacketSweeps, NEW v \in Guests
        PROVE  /\ sweep'[r].seen[v] = sweep[r].seen[v] /\ (Handles(r, v)' => Handles(r, v))
               /\ Pays(r, v)' => Pays(r, v)
    <3>1. CASE r # s
      BY <2>6, <3>1 DEF SweepTurn, Handles, Pays
    <3>2. CASE r = s
      BY <1>1, <1>5, <2>6, <3>2 DEF Handles, Pays
    <3> QED
      BY <3>1, <3>2
  <2>8. ASSUME NEW v \in Guests, v # u PROVE Leaves(v)
    BY <1>1, <2>4, <2>7, <2>8 DEF Leaves
  <2>9. PacketTyped'
    BY <1>1, <2>4, <2>6 DEF PacketTyped, SweepTurn
  <2>a. SenderFirst'
    BY <1>1, <2>3, <2>4 DEF SenderFirst, Unsent
  <2>b. MarksReal'
    <3> SUFFICES ASSUME NEW v \in Guests PROVE GuestMarked(v)'
      BY DEF MarksReal
    <3>1. GuestMarked(v)
      BY DEF MarksReal
    <3> QED
      BY <1>1, <3>1 DEF GuestMarked, Shared
  <2>c. SweepsSaw'
    <3> SUFFICES ASSUME NEW r \in PacketSweeps, NEW v \in Guests PROVE SweepSaw(r, v)'
      BY DEF SweepsSaw
    <3>1. SweepSaw(r, v)
      BY DEF SweepsSaw
    <3> QED
      BY <1>1, <2>7, <3>1 DEF SweepSaw
  <2>d. MarksHold'
    <3>1. CASE Gone
      BY <1>1, <3>1, GoneStays DEF Gone, Unsent
    <3>2. CASE ~Gone
      <4>1. HeldByMark(u)
        BY <1>4, <3>2 DEF MarksHold
      <4>2. taken[u].state = "repair"
        BY <2>1, <4>1 DEF HeldByMark
      <4>3. HeldByMark(u)'
        BY <1>1, <4>2, NoMarkFacts DEF HeldByMark
      <4>4. ASSUME NEW v \in Guests, v # u PROVE HeldByMark(v)'
        BY <2>8, <3>2, <4>4, LeftAlone DEF MarksHold
      <4> QED
        BY <4>3, <4>4 DEF MarksHold
    <3> QED
      BY <3>1, <3>2
  <2>e. SharesDue'
    <3>1. PICK due \in [Guests -> Amount] : Fits(due) /\ Dealt(due, shares)
      BY DEF SharesDue
    <3>2. due[u] = share
      BY <1>4, <2>1, <2>5, <3>1 DEF Fits, FitsOne
    <3>3. FitsOne(due, u)'
      BY <2>4, <2>5, <3>2 DEF FitsOne
    <3>4. ASSUME NEW v \in Guests, v # u PROVE FitsOne(due, v)'
      BY <2>8, <3>1, <3>4, LeftAlone DEF Fits
    <3>5. Fits(due)'
      BY <3>3, <3>4 DEF Fits
    <3>6. Dealt(due, shares')
      BY <1>1, <3>1
    <3> QED
      BY <3>5, <3>6 DEF SharesDue
  <2> QED
    BY <1>2, <2>4, <2>9, <2>a, <2>b, <2>c, <2>d, <2>e
<1> QED
  BY <1>3, <1>7, <1>8

\* Redis forgets the list and the marks, for good once they were sent.
LEMMA ForgetsKeepsPacket ==
  ASSUME PacketInv, RedisForgets
  PROVE  PacketInv'
<1> USE DEF PacketInv
<1>1. /\ UNCHANGED <<packet, packetAge, booked, refunded, sender, guest, sweep>>
      /\ shares' = <<>> /\ taken' = [u \in Guests |-> NoMark]
  BY DEF RedisForgets
<1>2. setbacks' \in Nat
  BY PacketHazard DEF RedisForgets
<1>3. PacketTyped'
  <2>1. taken' \in [Guests -> MarkRow]
    BY <1>1, NoMarkFacts
  <2> QED
    BY <1>1, <2>1, EmptyList DEF PacketTyped
<1>4. \A v \in Guests : taken'[v] = NoMark /\ (Shared(v)' <=> Shared(v))
  BY <1>1 DEF Shared
<1>5. \A s \in PacketSweeps, v \in Guests : (Pays(s, v)' <=> Pays(s, v)) /\ (Handles(s, v)' <=> Handles(s, v))
  BY <1>1 DEF Pays, Handles
<1>6. SenderFirst'
  BY <1>1, <1>4 DEF SenderFirst, Unsent
<1>7. PacketCounts'
  BY <1>1, CountsStay
<1>8. MarksReal'
  <2> SUFFICES ASSUME NEW v \in Guests PROVE GuestMarked(v)'
    BY DEF MarksReal
  <2>1. GuestMarked(v) /\ guest[v].takes \in Nat
    BY DEF MarksReal, PacketTyped, GuestRow
  <2> QED
    BY <1>1, <1>4, <2>1, NoMarkFacts DEF GuestMarked, RealMark
<1>9. SweepsSaw'
  <2> SUFFICES ASSUME NEW s \in PacketSweeps, NEW v \in Guests PROVE SweepSaw(s, v)'
    BY DEF SweepsSaw
  <2>1. SweepSaw(s, v) /\ taken'[v] = NoMark /\ sweep'[s] = sweep[s] /\ guest'[v].takes = guest[v].takes
    BY <1>1, <1>4 DEF SweepsSaw
  <2> QED
    BY <2>1, StillSees
<1>a. MarksHold'
  <2>1. CASE Unsent
    <3>1. ASSUME NEW v \in Guests PROVE HeldByMark(v)'
      <4>1. ~Shared(v) /\ booked[v] = 0
        BY <2>1 DEF SenderFirst
      <4>2. \A s \in PacketSweeps : ~Pays(s, v)
        BY <2>1 DEF SenderFirst, SweepsSaw, SweepSaw, Handles
      <4> QED
        BY <1>1, <1>4, <1>5, <4>1, <4>2 DEF HeldByMark
    <3> QED
      BY <3>1 DEF MarksHold
  <2>2. CASE ~Unsent
    BY <1>1, <1>4, <2>2 DEF MarksHold, Gone, Unsent
  <2> QED
    BY <2>1, <2>2
<1>b. SharesDue'
  <2>1. PICK due \in [Guests -> Amount] : Fits(due) /\ Dealt(due, shares)
    BY DEF SharesDue
  <2>2. ASSUME NEW v \in Guests PROVE FitsOne(due, v)'
    <3>1. FitsOne(due, v)
      BY <2>1 DEF Fits
    <3> QED
      BY <1>1, <1>4, <1>5, <3>1 DEF FitsOne
  <2>3. Fits(due)'
    BY <2>2 DEF Fits
  <2>4. Dealt(due, shares')
    <3>1. shares \in Seq(Pieces)
      BY DEF PacketTyped
    <3> QED
      BY <1>1, <2>1, <3>1, DealtLost
  <2> QED
    BY <2>3, <2>4 DEF SharesDue
<1> QED
  BY <1>2, <1>3, <1>6, <1>7, <1>8, <1>9, <1>a, <1>b

-----------------------------------------------------------------------------
LEMMA PacketStep == PacketInv /\ [PacketNext]_packetVars => PacketInv'
<1> SUFFICES ASSUME PacketInv, [PacketNext]_packetVars PROVE PacketInv'
  OBVIOUS
<1>1. CASE CreatePacket \/ PrepareRedPacket \/ RefundUnprepared
  BY <1>1, CreateKeepsPacket, SendKeepsPacket, UnpreparedKeepsPacket
<1>2. ASSUME NEW u \in Guests, CheckPacket(u) \/ GuestWorks(u) \/ GuestDies(u) \/ MarkAges(u) PROVE PacketInv'
  BY <1>2, CheckKeepsPacket, PopKeepsPacket, ClaimKeepsPacket, RollbackKeepsPacket, AgesKeepsPacket DEF GuestWorks
<1>3. ASSUME NEW s \in PacketSweeps, SweepWorks(s) \/ SweepDies(s) PROVE PacketInv'
  BY <1>3, SweepReadsKeepsPacket, LocksKeepsPacket, PaysKeepsPacket, SweepEndsKeepsPacket DEF SweepWorks
<1>4. ASSUME NEW s \in PacketSweeps, NEW expire \in BOOLEAN, SweepStarts(s, expire) PROVE PacketInv'
  BY <1>4, SweepStartsKeepsPacket
<1>5. CASE PacketAges \/ RedisForgets \/ UNCHANGED packetVars
  BY <1>5, TimeKeepsPacket, ForgetsKeepsPacket
<1> QED
  BY <1>1, <1>2, <1>3, <1>4, <1>5 DEF PacketNext

LEMMA PacketInvHolds == PacketSpec => []PacketInv
BY PacketInitInv, PacketStep, PTL DEF PacketSpec

\* A red packet's row, its list, marks, claims, refunds, requests and sweeps are
\* what the code can store and hold.
THEOREM PacketTypeCorrect == PacketSpec => []PacketTypeOK
<1>1. PacketInv => PacketTypeOK
  BY PacketInvOK
<1> QED
  BY <1>1, PacketInvHolds, PTL

\* However many users take shares, however often a claim is rolled back, repaired or
\* paid by several sweeps at once, and whatever Redis loses: the shares that can still
\* be taken or paid are in escrow, and a packet that has ended has no money left in it
\* (claimRedPacketScript, claimTx, rollbackRedPacketClaimScript, reconcileRedPacket,
\* refundRedPacketLeft).
THEOREM PacketMoneyCovered == PacketSpec => []PacketMoney
<1>1. PacketInv => PacketMoney
  BY PacketInvOK
<1> QED
  BY <1>1, PacketInvHolds, PTL
=============================================================================
