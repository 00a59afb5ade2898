-------------------------- MODULE Campaigns_proofs --------------------------
(***************************************************************************)
(* Proofs about coupons, promotion budgets, pre-orders and group buying,   *)
(* for any number of users, orders, workers, pieces and errors.  The books *)
(* of a campaign are sums over the rows it wrote, so the module begins     *)
(* with what sums over functions and sequences do when one entry changes;  *)
(* RedPacket_proofs uses that part too.                                    *)
(***************************************************************************)
EXTENDS Coupons, PromoBudget, Preorder, GroupBuy, Sequences, FiniteSetTheorems, TLAPS

-----------------------------------------------------------------------------
(* Sums                                                                    *)

\* A set of naturals with 0 and the successors of its members is all of them.
LEMMA AllNaturals ==
  ASSUME NEW N, 0 \in N, \A n \in Nat : n \in N => n + 1 \in N
  PROVE  \A n \in Nat : n \in N
<1> DEFINE T == Nat \ N
<1> SUFFICES ASSUME T # {} PROVE FALSE
  OBVIOUS
<1>1. PICK m \in T : \A n \in T : ~ (<<n, m>> \in OpToRel(<, Nat))
  BY WFMin, NatLessThanWellFounded
<1>2. \A n \in T : ~ (n < m)
  BY <1>1 DEF OpToRel
<1>3. m # 0
  OBVIOUS
<1>4. m - 1 \in Nat /\ m - 1 < m
  BY <1>3
<1>5. m - 1 \notin T
  BY <1>2, <1>4
<1>6. m - 1 \in N
  BY <1>4, <1>5
<1>7. (m - 1) + 1 \in N
  BY <1>4, <1>6
<1> QED
  BY <1>7

\* What SumFunction computes with: the sum of each subset.
AnyOf(s) == CHOOSE x \in s : TRUE
Adds(f, S, g) ==
  g = [s \in SUBSET S |-> IF s = {} THEN 0 ELSE f[AnyOf(s)] + g[s \ {AnyOf(s)}]]

LEMMA SumIs ==
  ASSUME NEW f, NEW S
  PROVE  SumFunctionOnSet(f, S) = (CHOOSE g : Adds(f, S, g))[S]
BY Zenon DEF SumFunctionOnSet, FoldFunctionOnSet, MapThenFoldSet, Adds, AnyOf

LEMMA AnyOfIn ==
  ASSUME NEW s, s # {}
  PROVE  AnyOf(s) \in s
BY DEF AnyOf

\* Taking an element off makes a finite set smaller.
LEMMA AnyOfLess ==
  ASSUME NEW s, IsFiniteSet(s), s # {}
  PROVE  /\ IsFiniteSet(s \ {AnyOf(s)})
         /\ Cardinality(s) \in Nat /\ Cardinality(s \ {AnyOf(s)}) = Cardinality(s) - 1
BY AnyOfIn, FS_RemoveElement, FS_CardinalityType

LEMMA SumDefined ==
  ASSUME NEW f, NEW S, IsFiniteSet(S)
  PROVE  \E g : Adds(f, S, g)
<1> DEFINE Small(n) == {s \in SUBSET S : Cardinality(s) <= n}
           Upto(n, g) == g = [s \in Small(n) |-> IF s = {} THEN 0 ELSE f[AnyOf(s)] + g[s \ {AnyOf(s)}]]
           N == {n \in Nat : \E g : Upto(n, g)}
<1>1. \A s \in SUBSET S : IsFiniteSet(s) /\ Cardinality(s) \in Nat
  BY FS_Subset, FS_CardinalityType
<1>2. 0 \in N
  <2>1. \A s \in Small(0) : s = {}
    BY <1>1, FS_EmptySet
  <2>2. Upto(0, [s \in Small(0) |-> 0])
    BY <2>1
  <2> QED
    BY <2>2
<1>3. ASSUME NEW n \in Nat, n \in N PROVE n + 1 \in N
  <2>1. PICK g : Upto(n, g)
    BY <1>3
  <2> DEFINE h == [s \in Small(n + 1) |-> IF s = {} THEN 0 ELSE f[AnyOf(s)] + g[s \ {AnyOf(s)}]]
  <2>2. ASSUME NEW s \in Small(n) PROVE h[s] = g[s]
    <3>1. s \in Small(n + 1)
      BY <1>1
    <3> QED
      BY <3>1, <2>1
  <2>3. ASSUME NEW s \in Small(n + 1), s # {} PROVE s \ {AnyOf(s)} \in Small(n)
    BY <1>1, <2>3, AnyOfLess
  <2>4. ASSUME NEW s \in Small(n + 1)
        PROVE  h[s] = IF s = {} THEN 0 ELSE f[AnyOf(s)] + h[s \ {AnyOf(s)}]
    <3> HIDE DEF Small
    <3>1. h[s] = IF s = {} THEN 0 ELSE f[AnyOf(s)] + g[s \ {AnyOf(s)}]
      OBVIOUS
    <3>2. s # {} => h[s \ {AnyOf(s)}] = g[s \ {AnyOf(s)}]
      BY <2>2, <2>3
    <3> HIDE DEF h
    <3> QED
      BY <3>1, <3>2
  <2>5. h = [s \in Small(n + 1) |-> h[s]]
    OBVIOUS
  <2>6. Upto(n + 1, h)
    <3> HIDE DEF h, Small
    <3> QED
      BY <2>4, <2>5
  <2> HIDE DEF h, Small, Upto
  <2>7. n + 1 \in Nat
    OBVIOUS
  <2> QED
    BY <2>6, <2>7
<1>4. Cardinality(S) \in N
  <2> HIDE DEF N
  <2> QED
    BY <1>1, <1>2, <1>3, AllNaturals
<1>5. Small(Cardinality(S)) = SUBSET S
  BY <1>1, FS_Subset
<1>6. PICK g : Upto(Cardinality(S), g)
  BY <1>4
<1>7. Adds(f, S, g)
  BY <1>5, <1>6 DEF Adds
<1> QED
  BY <1>7

\* g gives the sum of each subset of S, one element after the other.
SumsUp(f, S, g) ==
  /\ SumFunctionOnSet(f, S) = g[S] /\ g[{}] = 0
  /\ \A s \in SUBSET S : s # {} => g[s] = f[AnyOf(s)] + g[s \ {AnyOf(s)}]

LEMMA SumBySteps ==
  ASSUME NEW f, NEW S, IsFiniteSet(S)
  PROVE  \E g : SumsUp(f, S, g)
<1> DEFINE g == CHOOSE g : Adds(f, S, g)
<1>1. Adds(f, S, g)
  BY SumDefined
<1>2. SumFunctionOnSet(f, S) = g[S]
  BY SumIs
<1> HIDE DEF g
<1>3. g[{}] = 0 /\ \A s \in SUBSET S : s # {} => g[s] = f[AnyOf(s)] + g[s \ {AnyOf(s)}]
  BY <1>1 DEF Adds
<1> QED
  BY <1>2, <1>3 DEF SumsUp

\* Induction over the subsets of a finite set, for a set of them.
LEMMA AllSubsets ==
  ASSUME NEW S, IsFiniteSet(S), NEW G, {} \in G,
         \A s \in SUBSET S : s # {} /\ s \ {AnyOf(s)} \in G => s \in G
  PROVE  S \in G
<1> DEFINE N == {n \in Nat : \A s \in SUBSET S : Cardinality(s) = n => s \in G}
<1>1. \A s \in SUBSET S : IsFiniteSet(s) /\ Cardinality(s) \in Nat
  BY FS_Subset, FS_CardinalityType
<1>2. 0 \in N
  BY <1>1, FS_EmptySet
<1>3. ASSUME NEW n \in Nat, n \in N PROVE n + 1 \in N
  <2> SUFFICES ASSUME NEW s \in SUBSET S, Cardinality(s) = n + 1 PROVE s \in G
    OBVIOUS
  <2>0. Cardinality({}) = 0 /\ n + 1 # 0
    BY FS_EmptySet
  <2>1. s # {}
    BY <2>0
  <2>2. s \ {AnyOf(s)} \in SUBSET S /\ Cardinality(s \ {AnyOf(s)}) = n
    BY <1>1, <2>1, AnyOfLess
  <2> QED
    BY <1>3, <2>1, <2>2
<1>4. Cardinality(S) \in N
  <2> HIDE DEF N
  <2> QED
    BY <1>1, <1>2, <1>3, AllNaturals
<1> QED
  BY <1>4

LEMMA SumInt ==
  ASSUME NEW S, IsFiniteSet(S), NEW f \in [S -> Int]
  PROVE  SumFunctionOnSet(f, S) \in Int
<1>1. PICK g : SumsUp(f, S, g)
  BY SumBySteps
<1> DEFINE G == {s \in SUBSET S : g[s] \in Int}
<1>2. {} \in G
  BY <1>1 DEF SumsUp
<1>3. ASSUME NEW s \in SUBSET S, s # {}, s \ {AnyOf(s)} \in G PROVE s \in G
  <2>1. AnyOf(s) \in S
    BY <1>3, AnyOfIn
  <2>2. f[AnyOf(s)] \in Int /\ g[s \ {AnyOf(s)}] \in Int
    BY <1>3, <2>1
  <2>3. g[s] = f[AnyOf(s)] + g[s \ {AnyOf(s)}]
    BY <1>1, <1>3 DEF SumsUp
  <2> QED
    BY <2>2, <2>3
<1>4. S \in G
  <2> HIDE DEF G
  <2> QED
    BY <1>2, <1>3, AllSubsets
<1> QED
  BY <1>1, <1>4 DEF SumsUp

LEMMA SumNat ==
  ASSUME NEW S, IsFiniteSet(S), NEW f \in [S -> Nat]
  PROVE  SumFunctionOnSet(f, S) \in Nat
<1>1. PICK g : SumsUp(f, S, g)
  BY SumBySteps
<1> DEFINE G == {s \in SUBSET S : g[s] \in Nat}
<1>2. {} \in G
  BY <1>1 DEF SumsUp
<1>3. ASSUME NEW s \in SUBSET S, s # {}, s \ {AnyOf(s)} \in G PROVE s \in G
  <2>1. AnyOf(s) \in S
    BY <1>3, AnyOfIn
  <2>2. f[AnyOf(s)] \in Nat /\ g[s \ {AnyOf(s)}] \in Nat
    BY <1>3, <2>1
  <2>3. g[s] = f[AnyOf(s)] + g[s \ {AnyOf(s)}]
    BY <1>1, <1>3 DEF SumsUp
  <2> QED
    BY <2>2, <2>3
<1>4. S \in G
  <2> HIDE DEF G
  <2> QED
    BY <1>2, <1>3, AllSubsets
<1> QED
  BY <1>1, <1>4 DEF SumsUp

\* The sum is linear.
LEMMA SumPlus ==
  ASSUME NEW S, IsFiniteSet(S), NEW f \in [S -> Int], NEW d \in [S -> Int], NEW h \in [S -> Int],
         \A x \in S : h[x] = f[x] + d[x]
  PROVE  SumFunctionOnSet(h, S) = SumFunctionOnSet(f, S) + SumFunctionOnSet(d, S)
<1>1. PICK g : SumsUp(f, S, g)
  BY SumBySteps
<1>2. PICK e : SumsUp(d, S, e)
  BY SumBySteps
<1>3. PICK k : SumsUp(h, S, k)
  BY SumBySteps
<1> DEFINE G == {s \in SUBSET S : g[s] \in Int /\ e[s] \in Int /\ k[s] = g[s] + e[s]}
<1>4. {} \in G
  BY <1>1, <1>2, <1>3 DEF SumsUp
<1>5. ASSUME NEW s \in SUBSET S, s # {}, s \ {AnyOf(s)} \in G PROVE s \in G
  <2> DEFINE x == AnyOf(s)
             r == s \ {AnyOf(s)}
  <2>1. x \in S
    BY <1>5, AnyOfIn
  <2>2. f[x] \in Int /\ d[x] \in Int /\ h[x] = f[x] + d[x]
    BY <2>1
  <2>3. g[r] \in Int /\ e[r] \in Int /\ k[r] = g[r] + e[r]
    BY <1>5
  <2>4. g[s] = f[x] + g[r] /\ e[s] = d[x] + e[r] /\ k[s] = h[x] + k[r]
    BY <1>1, <1>2, <1>3, <1>5 DEF SumsUp
  <2> HIDE DEF x, r
  <2>5. g[s] \in Int /\ e[s] \in Int /\ k[s] = g[s] + e[s]
    BY <2>2, <2>3, <2>4
  <2> QED
    BY <2>5
<1>6. S \in G
  <2> HIDE DEF G
  <2> QED
    BY <1>4, <1>5, AllSubsets
<1> QED
  BY <1>1, <1>2, <1>3, <1>6 DEF SumsUp

\* A function that is 0 but at one place.
LEMMA SumSingle ==
  ASSUME NEW S, IsFiniteSet(S), NEW f \in [S -> Int], NEW x \in S,
         \A y \in S : y # x => f[y] = 0
  PROVE  SumFunctionOnSet(f, S) = f[x]
<1>1. PICK g : SumsUp(f, S, g)
  BY SumBySteps
<1> DEFINE G == {s \in SUBSET S : g[s] = IF x \in s THEN f[x] ELSE 0}
<1>2. {} \in G
  BY <1>1 DEF SumsUp
<1>3. ASSUME NEW s \in SUBSET S, s # {}, s \ {AnyOf(s)} \in G PROVE s \in G
  <2>1. AnyOf(s) \in S /\ AnyOf(s) \in s
    BY <1>3, AnyOfIn
  <2>2. g[s] = f[AnyOf(s)] + g[s \ {AnyOf(s)}]
    BY <1>1, <1>3 DEF SumsUp
  <2>3. f[x] \in Int
    OBVIOUS
  <2>4. CASE x = AnyOf(s)
    <3>1. g[s \ {AnyOf(s)}] = 0
      BY <1>3, <2>4
    <3> QED
      BY <2>1, <2>2, <2>3, <2>4, <3>1
  <2>5. CASE x # AnyOf(s)
    <3>1. g[s \ {AnyOf(s)}] = IF x \in s THEN f[x] ELSE 0
      BY <1>3, <2>5
    <3>2. f[AnyOf(s)] = 0
      BY <2>1, <2>5
    <3> QED
      BY <2>2, <2>3, <3>1, <3>2
  <2> QED
    BY <2>4, <2>5
<1>4. S \in G
  <2> HIDE DEF G
  <2> QED
    BY <1>2, <1>3, AllSubsets
<1> QED
  BY <1>1, <1>4 DEF SumsUp

LEMMA SumZero ==
  ASSUME NEW S, IsFiniteSet(S), NEW f, \A y \in S : f[y] = 0
  PROVE  SumFunctionOnSet(f, S) = 0
<1>1. PICK g : SumsUp(f, S, g)
  BY SumBySteps
<1> DEFINE G == {s \in SUBSET S : g[s] = 0}
<1>2. {} \in G
  BY <1>1 DEF SumsUp
<1>3. ASSUME NEW s \in SUBSET S, s # {}, s \ {AnyOf(s)} \in G PROVE s \in G
  <2>1. f[AnyOf(s)] = 0
    BY <1>3, AnyOfIn
  <2>2. g[s] = f[AnyOf(s)] + g[s \ {AnyOf(s)}] /\ g[s \ {AnyOf(s)}] = 0
    BY <1>1, <1>3 DEF SumsUp
  <2> QED
    BY <2>1, <2>2
<1>4. S \in G
  <2> HIDE DEF G
  <2> QED
    BY <1>2, <1>3, AllSubsets
<1> QED
  BY <1>1, <1>4 DEF SumsUp

\* A step that changes one value changes the sum by as much.
LEMMA SumUpdate ==
  ASSUME NEW S, IsFiniteSet(S), NEW f \in [S -> Int], NEW h \in [S -> Int], NEW x \in S,
         \A y \in S : y # x => h[y] = f[y]
  PROVE  SumFunctionOnSet(h, S) = SumFunctionOnSet(f, S) + h[x] - f[x]
<1> DEFINE d == [y \in S |-> IF y = x THEN h[x] - f[x] ELSE 0]
<1>1. d \in [S -> Int] /\ d[x] = h[x] - f[x] /\ \A y \in S : y # x => d[y] = 0
  OBVIOUS
<1>2. \A y \in S : h[y] = f[y] + d[y]
  OBVIOUS
<1> HIDE DEF d
<1>3. SumFunctionOnSet(h, S) = SumFunctionOnSet(f, S) + SumFunctionOnSet(d, S)
  BY <1>1, <1>2, SumPlus, ZenonT(60)
<1>4. SumFunctionOnSet(d, S) = d[x]
  BY <1>1, SumSingle
<1>5. SumFunctionOnSet(f, S) \in Int /\ h[x] \in Int /\ f[x] \in Int
  BY SumInt
<1> QED
  BY <1>1, <1>3, <1>4, <1>5

\* No term is more than the sum.
LEMMA SumOfMore ==
  ASSUME NEW S, IsFiniteSet(S), NEW f \in [S -> Nat], NEW x \in S
  PROVE  f[x] <= SumFunctionOnSet(f, S)
<1> DEFINE h == [f EXCEPT ![x] = 0]
<1>1. h \in [S -> Nat] /\ h[x] = 0 /\ \A y \in S : y # x => h[y] = f[y]
  OBVIOUS
<1> HIDE DEF h
<1>2. h \in [S -> Int] /\ f \in [S -> Int]
  BY <1>1
<1>3. SumFunctionOnSet(h, S) = SumFunctionOnSet(f, S) + h[x] - f[x]
  BY <1>1, <1>2, SumUpdate
<1>4. SumFunctionOnSet(h, S) \in Nat /\ SumFunctionOnSet(f, S) \in Nat
  BY <1>1, SumNat
<1> QED
  BY <1>1, <1>3, <1>4

LEMMA FiniteParts ==
  ASSUME NEW S, IsFiniteSet(S), NEW T \in SUBSET S
  PROVE  IsFiniteSet(T) /\ Cardinality(T) \in Nat
BY FS_Subset, FS_CardinalityType

Weight(b) == IF b THEN 1 ELSE 0

\* A set that changes at one element only.
LEMMA CountMoves ==
  ASSUME NEW S, IsFiniteSet(S), NEW A \in SUBSET S, NEW B \in SUBSET S, NEW x \in S,
         \A y \in S : y # x => (y \in B <=> y \in A)
  PROVE  /\ Cardinality(A) \in Nat /\ Cardinality(B) \in Nat
         /\ Cardinality(B) = Cardinality(A) + Weight(x \in B) - Weight(x \in A)
<1>1. IsFiniteSet(A) /\ IsFiniteSet(B) /\ Cardinality(A) \in Nat /\ Cardinality(B) \in Nat
  BY FiniteParts
<1>2. CASE x \in A /\ x \in B
  <2>1. A = B
    BY <1>2
  <2> QED
    BY <1>1, <1>2, <2>1 DEF Weight
<1>3. CASE x \in A /\ x \notin B
  <2>1. B = A \ {x}
    BY <1>3
  <2>2. Cardinality(B) = Cardinality(A) - 1
    BY <1>1, <1>3, <2>1, FS_RemoveElement
  <2> QED
    BY <1>1, <1>3, <2>2 DEF Weight
<1>4. CASE x \notin A /\ x \in B
  <2>1. B = A \cup {x}
    BY <1>4
  <2>2. Cardinality(B) = Cardinality(A) + 1
    BY <1>1, <1>4, <2>1, FS_AddElement
  <2> QED
    BY <1>1, <1>4, <2>2 DEF Weight
<1>5. CASE x \notin A /\ x \notin B
  <2>1. A = B
    BY <1>5
  <2> QED
    BY <1>1, <1>5, <2>1 DEF Weight
<1> QED
  BY <1>2, <1>3, <1>4, <1>5

\* Only the values on S count.
LEMMA SumSame ==
  ASSUME NEW S, IsFiniteSet(S), NEW f, NEW h, \A x \in S : h[x] = f[x]
  PROVE  SumFunctionOnSet(h, S) = SumFunctionOnSet(f, S)
<1>1. PICK g : SumsUp(f, S, g)
  BY SumBySteps
<1>2. PICK e : SumsUp(h, S, e)
  BY SumBySteps
<1> DEFINE G == {s \in SUBSET S : e[s] = g[s]}
<1>3. {} \in G
  BY <1>1, <1>2 DEF SumsUp
<1>4. ASSUME NEW s \in SUBSET S, s # {}, s \ {AnyOf(s)} \in G PROVE s \in G
  <2>1. AnyOf(s) \in S
    BY <1>4, AnyOfIn
  <2>2. h[AnyOf(s)] = f[AnyOf(s)] /\ e[s \ {AnyOf(s)}] = g[s \ {AnyOf(s)}]
    BY <1>4, <2>1
  <2>3. g[s] = f[AnyOf(s)] + g[s \ {AnyOf(s)}] /\ e[s] = h[AnyOf(s)] + e[s \ {AnyOf(s)}]
    BY <1>1, <1>2, <1>4 DEF SumsUp
  <2> QED
    BY <2>2, <2>3
<1>5. S \in G
  <2> HIDE DEF G
  <2> QED
    BY <1>3, <1>4, AllSubsets
<1> QED
  BY <1>1, <1>2, <1>5 DEF SumsUp

\* More at every place is more in all.
LEMMA SumMonotone ==
  ASSUME NEW S, IsFiniteSet(S), NEW f \in [S -> Int], NEW h \in [S -> Int], \A x \in S : f[x] <= h[x]
  PROVE  SumFunctionOnSet(f, S) <= SumFunctionOnSet(h, S)
<1> DEFINE d == [x \in S |-> h[x] - f[x]]
<1>1. d \in [S -> Nat] /\ d \in [S -> Int] /\ \A x \in S : h[x] = f[x] + d[x]
  OBVIOUS
<1> HIDE DEF d
<1>2. SumFunctionOnSet(h, S) = SumFunctionOnSet(f, S) + SumFunctionOnSet(d, S)
  BY <1>1, SumPlus
<1>3. SumFunctionOnSet(d, S) \in Nat /\ SumFunctionOnSet(f, S) \in Int
  BY <1>1, SumNat, SumInt
<1> QED
  BY <1>2, <1>3

\* p takes the places of h, one to one, to those where f is not 0.
Carries(p, S, h, T, f) ==
  /\ p \in [S -> T] /\ h \in [S -> Int] /\ f \in [T -> Int]
  /\ \A x \in S, y \in S : p[x] = p[y] => x = y
  /\ \A x \in S : h[x] = f[p[x]]
  /\ \A y \in T : (\A x \in S : p[x] # y) => f[y] = 0

LEMMA SumCarried ==
  ASSUME NEW S, IsFiniteSet(S), NEW T, IsFiniteSet(T), NEW p, NEW h, NEW f, Carries(p, S, h, T, f)
  PROVE  SumFunctionOnSet(h, S) = SumFunctionOnSet(f, T)
<1> DEFINE From(s) == [x \in S |-> IF x \in s THEN h[x] ELSE 0]
           Into(s) == [y \in T |-> IF \E x \in s : p[x] = y THEN f[y] ELSE 0]
           G == {s \in SUBSET S : SumFunctionOnSet(From(s), S) = SumFunctionOnSet(Into(s), T)}
<1>1. {} \in G
  <2>1. \A x \in S : From({})[x] = 0
    OBVIOUS
  <2>2. \A y \in T : Into({})[y] = 0
    OBVIOUS
  <2> HIDE DEF From, Into
  <2>3. SumFunctionOnSet(From({}), S) = 0 /\ SumFunctionOnSet(Into({}), T) = 0
    BY <2>1, <2>2, SumZero
  <2> QED
    BY <2>3
<1>2. ASSUME NEW s \in SUBSET S, s # {}, s \ {AnyOf(s)} \in G PROVE s \in G
  <2> DEFINE x == AnyOf(s)
             r == s \ {x}
  <2>1. x \in s /\ x \in S
    BY <1>2, AnyOfIn
  <2>2. /\ From(s) \in [S -> Int] /\ From(r) \in [S -> Int]
        /\ Into(s) \in [T -> Int] /\ Into(r) \in [T -> Int]
    BY DEF Carries
  <2>3. From(s)[x] = h[x] /\ From(r)[x] = 0 /\ \A z \in S : z # x => From(s)[z] = From(r)[z]
    BY <2>1
  <2>4. p[x] \in T /\ f[p[x]] = h[x] /\ h[x] \in Int
    BY <2>1 DEF Carries
  <2>5. Into(s)[p[x]] = f[p[x]]
    BY <2>1, <2>4
  <2>6. Into(r)[p[x]] = 0
    <3>1. ~ \E z \in r : p[z] = p[x]
      BY <2>1 DEF Carries
    <3> QED
      BY <2>4, <3>1
  <2>7. ASSUME NEW y \in T, y # p[x] PROVE Into(s)[y] = Into(r)[y]
    <3>1. (\E z \in s : p[z] = y) <=> (\E z \in r : p[z] = y)
      BY <2>7
    <3> QED
      BY <3>1
  <2>8. r \in SUBSET S /\ SumFunctionOnSet(From(r), S) = SumFunctionOnSet(Into(r), T)
    BY <1>2
  <2> HIDE DEF From, Into, x, r
  <2>9. SumFunctionOnSet(From(s), S) = SumFunctionOnSet(From(r), S) + From(s)[x] - From(r)[x]
    BY <2>1, <2>2, <2>3, SumUpdate
  <2>a. SumFunctionOnSet(Into(s), T) = SumFunctionOnSet(Into(r), T) + Into(s)[p[x]] - Into(r)[p[x]]
    BY <2>2, <2>4, <2>7, SumUpdate
  <2>b. SumFunctionOnSet(From(s), S) = SumFunctionOnSet(Into(s), T)
    BY <2>3, <2>4, <2>5, <2>6, <2>8, <2>9, <2>a
  <2> QED
    BY <2>b
<1>3. S \in G
  <2> HIDE DEF G
  <2> QED
    BY <1>1, <1>2, AllSubsets
<1>4. \A x \in S : h[x] = From(S)[x]
  OBVIOUS
<1>5. \A y \in T : f[y] = Into(S)[y]
  BY DEF Carries
<1>6. SumFunctionOnSet(From(S), S) = SumFunctionOnSet(Into(S), T)
  BY <1>3
<1> HIDE DEF From, Into, G
<1>7. SumFunctionOnSet(h, S) = SumFunctionOnSet(From(S), S)
  BY <1>4, SumSame
<1>8. SumFunctionOnSet(f, T) = SumFunctionOnSet(Into(S), T)
  BY <1>5, SumSame
<1> QED
  BY <1>6, <1>7, <1>8

\* The sum of a list, and of a list without its first.
LEMMA ListFacts ==
  ASSUME NEW V, V \subseteq Int, NEW s \in Seq(V)
  PROVE  /\ DOMAIN s = 1..Len(s) /\ IsFiniteSet(1..Len(s)) /\ s \in [1..Len(s) -> Int]
         /\ SumFunction(s) = SumFunctionOnSet(s, 1..Len(s)) /\ SumFunction(s) \in Int
<1>0. DOMAIN s = 1..Len(s) /\ Len(s) \in Nat /\ s \in [1..Len(s) -> V]
  OBVIOUS
<1>1. s \in [1..Len(s) -> Int] /\ DOMAIN s = 1..Len(s) /\ Len(s) \in Nat
  BY <1>0
<1>2. IsFiniteSet(1..Len(s))
  BY <1>1, FS_Interval
<1>3. SumFunction(s) = SumFunctionOnSet(s, 1..Len(s))
  BY <1>1 DEF SumFunction
<1> QED
  BY <1>1, <1>2, <1>3, SumInt

LEMMA SumOfTail ==
  ASSUME NEW V, V \subseteq Int, NEW s \in Seq(V), s # <<>>
  PROVE  SumFunction(s) = Head(s) + SumFunction(Tail(s))
<1> DEFINE n == Len(s)
           t == Tail(s)
           f == [i \in 1..n |-> IF i = 1 THEN 0 ELSE s[i]]
           p == [i \in 1..(n - 1) |-> i + 1]
<1>1. n \in Nat /\ n >= 1 /\ t \in Seq(V) /\ Len(t) = n - 1 /\ Head(s) = s[1]
  OBVIOUS
<1>2. s \in [1..n -> Int] /\ t \in [1..(n - 1) -> Int] /\ \A i \in 1..(n - 1) : t[i] = s[i + 1]
  <2>1. s \in [1..n -> Int]
    BY ListFacts
  <2>2. t \in [1..Len(t) -> Int]
    BY <1>1, ListFacts
  <2>3. \A i \in 1..(n - 1) : t[i] = s[i + 1]
    OBVIOUS
  <2> QED
    BY <1>1, <2>1, <2>2, <2>3
<1>3. f \in [1..n -> Int] /\ f[1] = 0 /\ \A i \in 1..n : i # 1 => f[i] = s[i]
  BY <1>1, <1>2
<1>4. /\ IsFiniteSet(1..n) /\ SumFunction(s) = SumFunctionOnSet(s, 1..n)
      /\ IsFiniteSet(1..(n - 1)) /\ SumFunction(t) = SumFunctionOnSet(t, 1..(n - 1))
      /\ SumFunction(t) \in Int
  BY <1>1, ListFacts
<1> HIDE DEF t
<1>5. Carries(p, 1..(n - 1), t, 1..n, f)
  <2>1. p \in [1..(n - 1) -> 1..n] /\ \A x \in 1..(n - 1), y \in 1..(n - 1) : p[x] = p[y] => x = y
    BY <1>1
  <2>2. \A x \in 1..(n - 1) : t[x] = f[p[x]]
    BY <1>1, <1>2, <1>3
  <2>3. ASSUME NEW y \in 1..n, \A x \in 1..(n - 1) : p[x] # y PROVE f[y] = 0
    <3>1. y = 1
      <4> SUFFICES ASSUME y # 1 PROVE FALSE
        OBVIOUS
      <4>1. y - 1 \in 1..(n - 1)
        BY <1>1
      <4>2. p[y - 1] = y
        BY <4>1
      <4> QED
        BY <2>3, <4>1, <4>2
    <3> QED
      BY <1>3, <3>1
  <2> HIDE DEF p, f
  <2> QED
    BY <1>2, <1>3, <2>1, <2>2, <2>3 DEF Carries
<1> HIDE DEF n, f, p
<1>6. SumFunctionOnSet(t, 1..(n - 1)) = SumFunctionOnSet(f, 1..n)
  BY <1>4, <1>5, SumCarried
<1>7. 1 \in 1..n /\ s[1] \in Int
  BY <1>1, <1>2
<1>8. SumFunctionOnSet(s, 1..n) = SumFunctionOnSet(f, 1..n) + s[1] - f[1]
  <2> DEFINE S == 1..n
  <2>1. s \in [S -> Int] /\ f \in [S -> Int] /\ IsFiniteSet(S) /\ 1 \in S /\ \A i \in S : i # 1 => s[i] = f[i]
    BY <1>2, <1>3, <1>4, <1>7
  <2> HIDE DEF S
  <2>2. SumFunctionOnSet(s, S) = SumFunctionOnSet(f, S) + s[1] - f[1]
    BY <2>1, SumUpdate
  <2> QED
    BY <2>2 DEF S
<1> QED
  BY <1>1, <1>3, <1>4, <1>6, <1>7, <1>8 DEF t

LEMMA SumOfMoreInFront ==
  ASSUME NEW V, V \subseteq Int, NEW s \in Seq(V), NEW x \in V
  PROVE  /\ <<x>> \o s \in Seq(V) /\ Len(<<x>> \o s) = Len(s) + 1
         /\ SumFunction(<<x>> \o s) = x + SumFunction(s)
<1> DEFINE t == <<x>> \o s
<1>1. t \in Seq(V) /\ Len(t) = Len(s) + 1 /\ t # <<>> /\ Head(t) = x
  OBVIOUS
<1>2. Tail(t) = s
  OBVIOUS
<1> HIDE DEF t
<1>3. SumFunction(t) = Head(t) + SumFunction(Tail(t))
  BY <1>1, SumOfTail
<1> QED
  BY <1>1, <1>2, <1>3 DEF t

-----------------------------------------------------------------------------
(* Coupons                                                                 *)

Bounded(n) == {i \in Slots : i <= n}
Of(u) == {i \in Slots : coupon[i].user = {u}}

CouponRow == [user : SUBSET Holders, status : {"none", "Unused", "Used", "Expired"},
              order : SUBSET Baskets, late : BOOLEAN]
ClaimRow == [at : {"idle", "redis", "raise", "persist", "rollback", "soldout"},
             user : SUBSET Holders, remaining : 0..CouponTotal, again : BOOLEAN]
BasketRow == [at : {"none", "quoted", "open", "closed"}, coupon : 0..CouponTotal]

CouponTyped ==
  /\ batch \in 0..CouponTotal
  /\ couponStock \in [there : BOOLEAN, left : Int]
  /\ counted \in [Holders -> Int] /\ rolledBack \subseteq Holders
  /\ coupon \in [Slots -> CouponRow]
  /\ couponClaim \in [Claimers -> ClaimRow]
  /\ basket \in [Baskets -> BasketRow]
  /\ raiser \in {-1} \cup 0..CouponTotal

\* The rows written are the first ones, each for one user.
CouponsFilled ==
  /\ \A i \in Slots : IF i <= batch THEN \E u \in Holders : coupon[i].user = {u}
                                    ELSE coupon[i] = Blank
  /\ \A u \in Holders : Owned(u) <= PerUser

\* A coupon is with the basket that has used it.
CouponsPlaced ==
  /\ \A b \in Baskets : basket[b].at \in {"quoted", "open"} => basket[b].coupon \in Slots
  /\ \A i \in Slots, b \in Baskets :
       (basket[b].at = "open" /\ basket[b].coupon = i)
         <=> (coupon[i].status = "Used" /\ coupon[i].order = {b})

CouponFilledPlaced == CouponsFilled /\ CouponsPlaced

CouponInv == CouponTyped /\ CouponFilledPlaced

LEMMA CouponConstants == CouponTotal \in Nat \ {0} /\ PerUser \in Nat \ {0}
BY CouponAssumption

LEMMA SlotSets ==
  ASSUME NEW S \in SUBSET Slots
  PROVE  IsFiniteSet(S) /\ Cardinality(S) \in Nat
<1>1. IsFiniteSet(Slots)
  BY CouponConstants, FS_Interval DEF Slots
<1> QED
  BY <1>1, FS_Subset, FS_CardinalityType

LEMMA BlankStatus == Blank.status = "none" /\ Blank.user = {}
BY DEF Blank

LEMMA CouponInitInv == CouponInit => CouponInv
<1> SUFFICES ASSUME CouponInit PROVE CouponInv
  OBVIOUS
<1> USE CouponConstants DEF CouponInit, Blank, NoClaim
<1>1. CouponTyped
  <2>1. Blank \in CouponRow
    BY DEF CouponRow
  <2>2. NoClaim \in ClaimRow
    BY DEF ClaimRow
  <2>3. [at |-> "none", coupon |-> 0] \in BasketRow
    BY DEF BasketRow
  <2>4. couponStock \in [there : BOOLEAN, left : Int]
    <3>1. [there |-> TRUE, left |-> CouponTotal] \in [there : BOOLEAN, left : Int]
      OBVIOUS
    <3>2. [there |-> FALSE, left |-> 0] \in [there : BOOLEAN, left : Int]
      OBVIOUS
    <3> QED
      BY <3>1, <3>2
  <2>5. counted \in [Holders -> Int]
    OBVIOUS
  <2>6. coupon \in [Slots -> CouponRow]
    BY <2>1
  <2>7. couponClaim \in [Claimers -> ClaimRow]
    BY <2>2
  <2>8. basket \in [Baskets -> BasketRow]
    BY <2>3
  <2> QED
    BY <2>4, <2>5, <2>6, <2>7, <2>8 DEF CouponTyped
<1>2. CouponsFilled
  <2>1. \A i \in Slots : coupon[i] = Blank /\ ~ (i <= batch)
    BY DEF Slots
  <2>2. ASSUME NEW u \in Holders PROVE Owned(u) <= PerUser
    <3>1. {i \in Slots : coupon[i].user = {u}} = {}
      BY <2>1
    <3>2. Owned(u) = 0
      BY <3>1, FS_EmptySet DEF Owned
    <3> QED
      BY <3>2
  <2> QED
    BY <2>1, <2>2 DEF CouponsFilled
<1>3. CouponsPlaced
  BY DEF CouponsPlaced
<1> QED
  BY <1>1, <1>2, <1>3 DEF CouponInv, CouponFilledPlaced

LEMMA CouponInvOK == CouponInv => CouponTypeOK /\ CouponsInBounds
<1> SUFFICES ASSUME CouponInv PROVE CouponTypeOK /\ CouponsInBounds
  OBVIOUS
<1> USE DEF CouponInv, CouponFilledPlaced
<1>1. CouponTypeOK
  BY DEF CouponTyped, CouponTypeOK, CouponRow, ClaimRow, BasketRow
<1>2. batch = Cardinality({i \in Slots : coupon[i].user # {}})
  <2>1. {i \in Slots : coupon[i].user # {}} = 1..batch
    <3>1. batch \in 0..CouponTotal
      BY DEF CouponTyped
    <3>2. \A i \in Slots : coupon[i].user # {} <=> i <= batch
      BY DEF CouponsFilled, Blank
    <3> QED
      BY <3>1, <3>2, CouponConstants DEF Slots
  <2>2. Cardinality(1..batch) = batch
    BY FS_Interval DEF CouponTyped
  <2> QED
    BY <2>1, <2>2
<1> QED
  BY <1>1, <1>2 DEF CouponsInBounds, CouponsFilled, CouponsPlaced

-----------------------------------------------------------------------------
(* Types *)

LEMMA ClaimToTyped ==
  ASSUME CouponTyped, NEW c \in Claimers, NEW to \in {"idle", "redis", "raise", "persist", "rollback", "soldout"},
         ClaimTo(c, to)
  PROVE  couponClaim' \in [Claimers -> ClaimRow]
<1>1. couponClaim[c] \in ClaimRow
  BY DEF CouponTyped
<1>2. NoClaim \in ClaimRow
  BY CouponConstants DEF NoClaim, ClaimRow
<1>3. [couponClaim[c] EXCEPT !.at = to] \in ClaimRow
  BY <1>1 DEF ClaimRow
<1> QED
  BY <1>2, <1>3 DEF ClaimTo, CouponTyped

LEMMA RaisedTyped ==
  ASSUME CouponTyped, NEW n \in Int, Raised(n)
  PROVE  couponStock' \in [there : BOOLEAN, left : Int]
<1>1. [there |-> TRUE, left |-> n] \in [there : BOOLEAN, left : Int]
  OBVIOUS
<1> QED
  BY <1>1 DEF Raised, CouponTyped

RedisTyped ==
  /\ couponStock \in [there : BOOLEAN, left : Int]
  /\ counted \in [Holders -> Int] /\ rolledBack \subseteq Holders

TablesTyped ==
  /\ batch \in 0..CouponTotal
  /\ coupon \in [Slots -> CouponRow]
  /\ basket \in [Baskets -> BasketRow]

LEMMA TypedParts ==
  CouponTyped <=> /\ RedisTyped /\ TablesTyped /\ couponClaim \in [Claimers -> ClaimRow]
                  /\ raiser \in {-1} \cup 0..CouponTotal
BY DEF CouponTyped, RedisTyped, TablesTyped

LEMMA CouponTypedStep == CouponTyped /\ CouponNext => CouponTyped'
<1> SUFFICES ASSUME CouponTyped, CouponNext PROVE CouponTyped'
  OBVIOUS
<1> USE CouponConstants
<1>0. /\ RedisTyped /\ TablesTyped /\ couponClaim \in [Claimers -> ClaimRow]
      /\ raiser \in {-1} \cup 0..CouponTotal
  BY TypedParts
<1>a. ASSUME UNCHANGED Redis PROVE RedisTyped'
  BY <1>0, <1>a DEF Redis, RedisTyped
<1>b. ASSUME UNCHANGED <<batch, coupon, basket>> PROVE TablesTyped'
  BY <1>0, <1>b DEF TablesTyped
<1>p. ASSUME RedisTyped', TablesTyped', couponClaim' \in [Claimers -> ClaimRow],
             raiser' \in {-1} \cup 0..CouponTotal
      PROVE  CouponTyped'
  BY <1>p DEF CouponTyped, RedisTyped, TablesTyped
<1>1. ASSUME NEW c \in Claimers, NEW u \in Holders, ClaimStarts(c, u) PROVE CouponTyped'
  <2>1. [at |-> "redis", user |-> {u}, remaining |-> CouponTotal - batch, again |-> FALSE] \in ClaimRow
    BY DEF ClaimRow, CouponTyped
  <2>2. couponClaim' \in [Claimers -> ClaimRow]
    BY <1>1, <2>1 DEF ClaimStarts, CouponTyped
  <2> QED
    BY <1>1, <1>0, <1>a, <1>b, <1>p, <2>2 DEF ClaimStarts, Tables
<1>2. ASSUME NEW c \in Claimers, NEW u \in Holders, ClaimCouponAtomic(c, u) PROVE CouponTyped'
  <2>1. couponClaim' \in [Claimers -> ClaimRow]
    BY <1>2, ClaimToTyped DEF ClaimCouponAtomic
  <2>2. RedisTyped'
    <3>1. CASE UNCHANGED Redis
      BY <1>a, <3>1
    <3>2. CASE /\ couponStock' = [couponStock EXCEPT !.left = @ - 1]
               /\ counted' = [counted EXCEPT ![u] = @ + 1] /\ rolledBack' = rolledBack \ {u}
      BY <1>0, <3>2 DEF RedisTyped
    <3> QED
      BY <1>2, <3>1, <3>2 DEF ClaimCouponAtomic
  <2> QED
    BY <1>2, <1>0, <1>b, <1>p, <2>1, <2>2 DEF ClaimCouponAtomic, Tables
<1>3. ASSUME NEW c \in Claimers, RaiseCouponStock(c) PROVE CouponTyped'
  <2>1. couponClaim[c] \in ClaimRow
    BY DEF CouponTyped
  <2>2. couponClaim[c].remaining \in Int
    BY <2>1 DEF ClaimRow
  <2>3. RedisTyped'
    BY <1>3, <1>0, <2>2, RaisedTyped DEF RaiseCouponStock, RedisTyped
  <2>4. [couponClaim[c] EXCEPT !.at = "redis", !.again = TRUE] \in ClaimRow
    BY <2>1 DEF ClaimRow
  <2>5. couponClaim' = [couponClaim EXCEPT ![c] = [couponClaim[c] EXCEPT !.at = "redis", !.again = TRUE]]
    BY <1>3 DEF RaiseCouponStock, CouponTyped
  <2>6. couponClaim' \in [Claimers -> ClaimRow]
    BY <1>0, <2>4, <2>5
  <2> QED
    BY <1>3, <1>0, <1>b, <1>p, <2>3, <2>6 DEF RaiseCouponStock, Tables
<1>4. ASSUME NEW c \in Claimers, NEW u \in Holders, PersistClaim(c, u) PROVE CouponTyped'
  <2>1. couponClaim' \in [Claimers -> ClaimRow]
    BY <1>4, ClaimToTyped DEF PersistClaim
  <2>2. TablesTyped'
    <3>1. CASE UNCHANGED Tables
      BY <1>4, <3>1, <1>b DEF PersistClaim, Tables
    <3>2. CASE /\ ~ (batch >= CouponTotal) /\ batch' = batch + 1
               /\ coupon' = [coupon EXCEPT ![batch + 1] = [Blank EXCEPT !.user = {u}, !.status = "Unused"]]
      <4>1. [Blank EXCEPT !.user = {u}, !.status = "Unused"] \in CouponRow
        BY DEF Blank, CouponRow
      <4>2. basket' = basket
        BY <1>4 DEF PersistClaim
      <4>3. batch' \in 0..CouponTotal
        BY <1>0, <3>2 DEF TablesTyped
      <4>4. coupon' \in [Slots -> CouponRow]
        BY <1>0, <3>2, <4>1 DEF TablesTyped
      <4> QED
        BY <1>0, <4>2, <4>3, <4>4 DEF TablesTyped
    <3> QED
      BY <1>4, <3>1, <3>2 DEF PersistClaim
  <2> QED
    BY <1>4, <1>0, <1>a, <1>p, <2>1, <2>2 DEF PersistClaim
<1>5. ASSUME NEW c \in Claimers, NEW u \in Holders, RollbackClaim(c, u) PROVE CouponTyped'
  <2>1. couponClaim' \in [Claimers -> ClaimRow]
    BY <1>5, ClaimToTyped DEF RollbackClaim
  <2>2. RedisTyped'
    <3>1. CASE UNCHANGED Redis
      BY <1>a, <3>1
    <3>2. CASE /\ rolledBack' = rolledBack \cup {u} /\ counted' = [counted EXCEPT ![u] = @ - 1]
               /\ couponStock' = IF couponClaim[c].at = "rollback" THEN [there |-> TRUE, left |-> couponStock.left + 1]
                                 ELSE [couponStock EXCEPT !.left = 0]
      BY <1>0, <3>2 DEF RedisTyped
    <3> QED
      BY <1>5, <3>1, <3>2 DEF RollbackClaim
  <2> QED
    BY <1>5, <1>0, <1>b, <1>p, <2>1, <2>2 DEF RollbackClaim, Tables
<1>6. ASSUME ReconcileReads PROVE CouponTyped'
  <2>1. raiser' \in {-1} \cup 0..CouponTotal
    BY <1>6 DEF ReconcileReads, CouponTyped
  <2> QED
    BY <1>6, <1>0, <1>a, <1>b, <1>p, <2>1 DEF ReconcileReads, Tables
<1>7. ASSUME ReconcileRaises PROVE CouponTyped'
  <2>1. RedisTyped'
    BY <1>7, <1>0, RaisedTyped DEF ReconcileRaises, RedisTyped
  <2> QED
    BY <1>7, <1>0, <1>b, <1>p, <2>1 DEF ReconcileRaises, Tables
<1>8. ASSUME StockKeyLost PROVE CouponTyped'
  <2>1. RedisTyped'
    BY <1>8, <1>0 DEF StockKeyLost, RedisTyped
  <2> QED
    BY <1>8, <1>0, <1>b, <1>p, <2>1 DEF StockKeyLost, Tables
<1>9. ASSUME NEW u \in Holders, UserKeyExpires(u) PROVE CouponTyped'
  <2>1. RedisTyped'
    BY <1>9, <1>0 DEF UserKeyExpires, RedisTyped
  <2> QED
    BY <1>9, <1>0, <1>b, <1>p, <2>1 DEF UserKeyExpires, Tables
<1>10. ASSUME NEW b \in Baskets, UseInTx(b) PROVE CouponTyped'
  <2>1. TablesTyped'
    <3>1. coupon' \in [Slots -> CouponRow]
      <4> DEFINE i == basket[b].coupon
      <4>1. CASE i \in Slots
        <5>1. [coupon[i] EXCEPT !.status = "Used", !.order = {b}] \in CouponRow
          BY <1>0, <4>1 DEF TablesTyped, CouponRow
        <5>2. \/ coupon' = coupon
              \/ coupon' = [coupon EXCEPT ![i] = [coupon[i] EXCEPT !.status = "Used", !.order = {b}]]
          BY <1>10, <1>0, <4>1 DEF UseInTx, TablesTyped
        <5> QED
          BY <1>0, <4>1, <5>1, <5>2 DEF TablesTyped
      <4>2. CASE i \notin Slots
        <5>1. coupon' = coupon
          BY <1>10, <1>0, <4>2 DEF UseInTx, TablesTyped
        <5> QED
          BY <5>1, <1>0 DEF TablesTyped
      <4> QED
        BY <4>1, <4>2
    <3>2. [basket[b] EXCEPT !.at = "open"] \in BasketRow /\ [at |-> "none", coupon |-> 0] \in BasketRow
      BY <1>0 DEF TablesTyped, BasketRow
    <3>3. basket' \in [Baskets -> BasketRow]
      BY <1>10, <1>0, <3>2 DEF UseInTx, TablesTyped
    <3>4. batch' = batch
      BY <1>10 DEF UseInTx
    <3> QED
      BY <1>0, <3>1, <3>3, <3>4 DEF TablesTyped
  <2> QED
    BY <1>10, <1>0, <1>a, <1>p, <2>1 DEF UseInTx
<1>11. ASSUME NEW b \in Baskets, ReleaseForOrderInTx(b) PROVE CouponTyped'
  <2>1. TablesTyped'
    <3>0. ASSUME NEW i \in Slots, NEW s \in {"Expired", "Unused"},
                 coupon' = [coupon EXCEPT ![i].order = {}, ![i].status = s]
          PROVE  coupon' \in [Slots -> CouponRow]
      BY <1>0, <3>0, ZenonT(60) DEF TablesTyped, CouponRow
    <3>1. coupon' \in [Slots -> CouponRow]
      <4> DEFINE i == basket[b].coupon
      <4>1. CASE i \in Slots
        <5>1. CASE coupon[i].late
          <6>1. coupon' = coupon \/ coupon' = [coupon EXCEPT ![i].order = {}, ![i].status = "Expired"]
            BY <1>11, <5>1 DEF ReleaseForOrderInTx
          <6> QED
            BY <3>0, <4>1, <6>1, <1>0 DEF TablesTyped
        <5>2. CASE ~ coupon[i].late
          <6>1. coupon' = coupon \/ coupon' = [coupon EXCEPT ![i].order = {}, ![i].status = "Unused"]
            BY <1>11, <5>2 DEF ReleaseForOrderInTx
          <6> QED
            BY <3>0, <4>1, <6>1, <1>0 DEF TablesTyped
        <5> QED
          BY <5>1, <5>2
      <4>2. CASE i \notin Slots
        <5>1. coupon' = coupon
          BY <1>11, <4>2, <1>0 DEF ReleaseForOrderInTx, TablesTyped
        <5> QED
          BY <5>1, <1>0 DEF TablesTyped
      <4> QED
        BY <4>1, <4>2
    <3>2. [basket[b] EXCEPT !.at = "closed"] \in BasketRow
      BY <1>0 DEF TablesTyped, BasketRow
    <3>3. basket' \in [Baskets -> BasketRow]
      BY <1>11, <1>0, <3>2 DEF ReleaseForOrderInTx, TablesTyped
    <3> QED
      BY <1>11, <1>0, <3>1, <3>3 DEF ReleaseForOrderInTx, TablesTyped
  <2> QED
    BY <1>11, <1>0, <1>a, <1>p, <2>1 DEF ReleaseForOrderInTx
<1>12. ASSUME NEW b \in Baskets, NEW i \in Slots, GetUsable(b, i) PROVE CouponTyped'
  <2>1. [at |-> "quoted", coupon |-> i] \in BasketRow
    BY DEF BasketRow, Slots
  <2>2. TablesTyped'
    BY <1>12, <1>0, <2>1 DEF GetUsable, TablesTyped, Tables
  <2> QED
    BY <1>12, <1>0, <1>a, <1>p, <2>2 DEF GetUsable
<1>13. ASSUME ExpireOverdue PROVE CouponTyped'
  <2>1. coupon' \in [Slots -> CouponRow]
    <3>1. \A i \in Slots : [coupon[i] EXCEPT !.status = "Expired"] \in CouponRow
      BY <1>0 DEF TablesTyped, CouponRow
    <3>2. coupon' = [i \in Slots |-> IF coupon[i].status = "Unused" /\ coupon[i].late
                                     THEN [coupon[i] EXCEPT !.status = "Expired"] ELSE coupon[i]]
      BY <1>13 DEF ExpireOverdue
    <3> QED
      BY <1>0, <3>1, <3>2 DEF TablesTyped
  <2>2. TablesTyped'
    BY <1>13, <1>0, <2>1 DEF ExpireOverdue, TablesTyped
  <2> QED
    BY <1>13, <1>0, <1>a, <1>p, <2>2 DEF ExpireOverdue
<1>14. ASSUME NEW i \in Slots, CouponTurnsLate(i) PROVE CouponTyped'
  <2>1. coupon' \in [Slots -> CouponRow]
    <3>1. [coupon[i] EXCEPT !.late = TRUE] \in CouponRow
      BY <1>0 DEF TablesTyped, CouponRow
    <3>2. coupon' = [coupon EXCEPT ![i] = [coupon[i] EXCEPT !.late = TRUE]]
      BY <1>14 DEF CouponTurnsLate
    <3> QED
      BY <1>0, <3>1, <3>2 DEF TablesTyped
  <2>2. TablesTyped'
    BY <1>14, <1>0, <2>1 DEF CouponTurnsLate, TablesTyped
  <2> QED
    BY <1>14, <1>0, <1>a, <1>p, <2>2 DEF CouponTurnsLate
<1> QED
  BY <1>1, <1>2, <1>3, <1>4, <1>5, <1>6, <1>7, <1>8, <1>9, <1>10, <1>11, <1>12, <1>13, <1>14
     DEF CouponNext, ClaimWorks

-----------------------------------------------------------------------------
(* Rows and baskets *)

\* What the requests and the jobs do to Redis leaves rows and baskets alone.
LEMMA CouponFrame ==
  ASSUME CouponFilledPlaced, UNCHANGED <<batch, coupon, basket>>
  PROVE  CouponFilledPlaced'
<1>1. CouponsFilled'
  BY DEF CouponFilledPlaced, CouponsFilled, Owned
<1>2. CouponsPlaced'
  BY DEF CouponFilledPlaced, CouponsPlaced
<1> QED
  BY <1>1, <1>2 DEF CouponFilledPlaced

\* The next row goes to a user below the limit.
LEMMA CouponWritten ==
  ASSUME CouponTyped, CouponFilledPlaced, NEW c \in Claimers, NEW u \in Holders, PersistClaim(c, u)
  PROVE  CouponFilledPlaced'
<1> USE CouponConstants
<1>1. CASE UNCHANGED Tables
  BY <1>1, CouponFrame DEF PersistClaim, Tables
<1>2. CASE /\ ~ (batch >= CouponTotal)
           /\ ~ (Owned(u) >= PerUser)
           /\ batch' = batch + 1
           /\ coupon' = [coupon EXCEPT ![batch + 1] = [Blank EXCEPT !.user = {u}, !.status = "Unused"]]
  <2> DEFINE n == batch + 1
  <2>1. n \in Slots /\ batch \in Nat /\ ~ (n <= batch)
    BY <1>2 DEF Slots, CouponTyped
  <2>2. coupon[n] = Blank
    BY <2>1 DEF CouponFilledPlaced, CouponsFilled
  <2>3. /\ coupon'[n] = [Blank EXCEPT !.user = {u}, !.status = "Unused"]
        /\ \A i \in Slots : i # n => coupon'[i] = coupon[i]
    BY <1>2, <2>1 DEF CouponTyped
  <2>4. coupon'[n].user = {u} /\ coupon'[n].status = "Unused"
    BY <2>3 DEF Blank
  <2>5. coupon[n].user = {} /\ coupon[n].status = "none"
    BY <2>2 DEF Blank
  <2>6. \A i \in Slots : IF i <= batch' THEN \E v \in Holders : coupon'[i].user = {v}
                                        ELSE coupon'[i] = Blank
    <3> SUFFICES ASSUME NEW i \in Slots
                 PROVE  IF i <= batch + 1 THEN \E v \in Holders : coupon'[i].user = {v}
                                          ELSE coupon'[i] = Blank
      BY <1>2
    <3>0. i \in Nat
      BY DEF Slots
    <3>1. CASE i = n
      BY <3>1, <2>4, <2>1
    <3>2. CASE i # n
      <4>1. coupon'[i] = coupon[i]
        BY <3>2, <2>3
      <4>2. i <= batch + 1 <=> i <= batch
        BY <3>0, <3>2, <2>1
      <4>3. IF i <= batch THEN \E v \in Holders : coupon[i].user = {v} ELSE coupon[i] = Blank
        BY DEF CouponFilledPlaced, CouponsFilled
      <4> QED
        BY <4>1, <4>2, <4>3
    <3> QED
      BY <3>1, <3>2
  <2>7. ASSUME NEW v \in Holders PROVE Owned(v)' <= PerUser
    <3>0. Owned(v) <= PerUser
      BY DEF CouponFilledPlaced, CouponsFilled
    <3>1. CASE v = u
      <4>1. {i \in Slots : coupon'[i].user = {u}} = {i \in Slots : coupon[i].user = {u}} \cup {n}
        BY <2>1, <2>3, <2>4
      <4>2. n \notin {i \in Slots : coupon[i].user = {u}}
        BY <2>5
      <4>3. Owned(u)' = Owned(u) + 1
        BY <4>1, <4>2, SlotSets, FS_AddElement DEF Owned
      <4>4. Owned(u) \in Nat
        BY SlotSets DEF Owned
      <4> QED
        BY <3>1, <4>3, <4>4, <1>2
    <3>2. CASE v # u
      <4>1. {i \in Slots : coupon'[i].user = {v}} = {i \in Slots : coupon[i].user = {v}}
        <5>1. coupon'[n].user # {v} /\ coupon[n].user # {v}
          BY <2>4, <2>5, <3>2
        <5> QED
          BY <2>3, <5>1
      <4> QED
        BY <4>1, <3>0 DEF Owned
    <3> QED
      BY <3>1, <3>2
  <2>8. basket' = basket
    BY DEF PersistClaim
  <2>9. \A i \in Slots, b \in Baskets :
          (coupon'[i].status = "Used" /\ coupon'[i].order = {b})
            <=> (coupon[i].status = "Used" /\ coupon[i].order = {b})
    BY <2>3, <2>4, <2>5
  <2>10. CouponsFilled'
    BY <2>6, <2>7 DEF CouponsFilled
  <2>11. CouponsPlaced'
    BY <2>8, <2>9 DEF CouponFilledPlaced, CouponsPlaced
  <2> QED
    BY <2>10, <2>11 DEF CouponFilledPlaced
<1> QED
  BY <1>1, <1>2 DEF PersistClaim

\* Orders change no user of a row.
LEMMA UsersKept ==
  ASSUME CouponFilledPlaced, UNCHANGED batch,
         \A i \in Slots : coupon'[i].user = coupon[i].user,
         \A i \in Slots : coupon[i] = Blank => coupon'[i] = Blank
  PROVE  CouponsFilled'
<1>1. ASSUME NEW v \in Holders PROVE Owned(v)' <= PerUser
  <2>1. {i \in Slots : coupon'[i].user = {v}} = {i \in Slots : coupon[i].user = {v}}
    OBVIOUS
  <2> QED
    BY <2>1 DEF Owned, CouponFilledPlaced, CouponsFilled
<1>2. \A i \in Slots : IF i <= batch' THEN \E v \in Holders : coupon'[i].user = {v}
                                      ELSE coupon'[i] = Blank
  BY DEF CouponFilledPlaced, CouponsFilled
<1> QED
  BY <1>1, <1>2 DEF CouponsFilled

LEMMA CouponUsed ==
  ASSUME CouponTyped, CouponFilledPlaced, NEW b \in Baskets, UseInTx(b)
  PROVE  CouponFilledPlaced'
<1> DEFINE i == basket[b].coupon
<1>0. basket \in [Baskets -> BasketRow] /\ coupon \in [Slots -> CouponRow]
  BY DEF CouponTyped
<1>1. basket[b].at = "quoted" /\ i \in Slots /\ batch' = batch
  BY DEF UseInTx, CouponFilledPlaced, CouponsPlaced
<1>2. CASE /\ coupon[i].status = "Unused"
           /\ coupon' = [coupon EXCEPT ![i].status = "Used", ![i].order = {b}]
           /\ basket' = [basket EXCEPT ![b].at = "open"]
  <2>1. /\ coupon'[i] = [coupon[i] EXCEPT !.status = "Used", !.order = {b}]
        /\ \A j \in Slots : j # i => coupon'[j] = coupon[j]
    BY <1>0, <1>1, <1>2
  <2>2. /\ coupon'[i].status = "Used" /\ coupon'[i].order = {b} /\ coupon'[i].user = coupon[i].user
    BY <2>1, <1>0, <1>1 DEF CouponRow
  <2>3. /\ basket'[b] = [basket[b] EXCEPT !.at = "open"]
        /\ \A d \in Baskets : d # b => basket'[d] = basket[d]
    BY <1>0, <1>2
  <2>4. basket'[b].at = "open" /\ basket'[b].coupon = i
    BY <2>3, <1>0 DEF BasketRow
  <2>5. CouponsFilled'
    <3>1. \A j \in Slots : coupon'[j].user = coupon[j].user
      BY <2>1, <2>2
    <3>2. \A j \in Slots : coupon[j] = Blank => coupon'[j] = Blank
      BY <2>1, <1>2, BlankStatus
    <3> QED
      BY <3>1, <3>2, <1>1, UsersKept
  <2>6. CouponsPlaced'
    <3>1. \A d \in Baskets : basket'[d].at \in {"quoted", "open"} => basket'[d].coupon \in Slots
      BY <2>3, <2>4, <1>1 DEF CouponFilledPlaced, CouponsPlaced
    <3>2. ASSUME NEW j \in Slots, NEW d \in Baskets
          PROVE  (basket'[d].at = "open" /\ basket'[d].coupon = j)
                    <=> (coupon'[j].status = "Used" /\ coupon'[j].order = {d})
      <4>1. (basket[d].at = "open" /\ basket[d].coupon = j)
                    <=> (coupon[j].status = "Used" /\ coupon[j].order = {d})
        BY DEF CouponFilledPlaced, CouponsPlaced
      <4>2. CASE j = i /\ d = b
        BY <4>2, <2>2, <2>4
      <4>3. CASE j = i /\ d # b
        BY <4>3, <4>1, <2>2, <2>3, <1>2
      <4>4. CASE j # i /\ d = b
        BY <4>4, <4>1, <2>1, <2>4, <1>1
      <4>5. CASE j # i /\ d # b
        BY <4>5, <4>1, <2>1, <2>3
      <4> QED
        BY <4>2, <4>3, <4>4, <4>5
    <3> QED
      BY <3>1, <3>2 DEF CouponsPlaced
  <2> QED
    BY <2>5, <2>6 DEF CouponFilledPlaced
<1>3. CASE UNCHANGED coupon /\ basket' = [basket EXCEPT ![b] = [at |-> "none", coupon |-> 0]]
  <2>1. /\ basket'[b].at = "none"
        /\ \A d \in Baskets : d # b => basket'[d] = basket[d]
    BY <1>0, <1>3
  <2>2. CouponsFilled'
    BY <1>1, <1>3, UsersKept
  <2>3. CouponsPlaced'
    BY <2>1, <1>1, <1>3 DEF CouponFilledPlaced, CouponsPlaced
  <2> QED
    BY <2>2, <2>3 DEF CouponFilledPlaced
<1> QED
  BY <1>2, <1>3 DEF UseInTx

LEMMA CouponReturned ==
  ASSUME CouponTyped, CouponFilledPlaced, NEW b \in Baskets, ReleaseForOrderInTx(b)
  PROVE  CouponFilledPlaced'
<1> DEFINE i == basket[b].coupon
           to == IF coupon[i].late THEN "Expired" ELSE "Unused"
<1>0. basket \in [Baskets -> BasketRow] /\ coupon \in [Slots -> CouponRow]
  BY DEF CouponTyped
<1>1. basket[b].at = "open" /\ i \in Slots /\ batch' = batch
  BY DEF ReleaseForOrderInTx, CouponFilledPlaced, CouponsPlaced
<1>2. coupon[i].status = "Used" /\ coupon[i].order = {b}
  BY <1>1 DEF CouponFilledPlaced, CouponsPlaced
<1>3. /\ coupon' = [coupon EXCEPT ![i].order = {}, ![i].status = to]
      /\ basket' = [basket EXCEPT ![b].at = "closed"]
  BY <1>2 DEF ReleaseForOrderInTx
<1>4. /\ coupon'[i] = [coupon[i] EXCEPT !.order = {}, !.status = to]
      /\ \A j \in Slots : j # i => coupon'[j] = coupon[j]
  BY <1>0, <1>1, <1>3
<1>5. coupon'[i].status # "Used" /\ coupon'[i].user = coupon[i].user
  BY <1>4, <1>0, <1>1 DEF CouponRow
<1>6. basket'[b].at = "closed" /\ \A d \in Baskets : d # b => basket'[d] = basket[d]
  BY <1>3, <1>0 DEF BasketRow
<1>7. CouponsFilled'
  <2>1. \A j \in Slots : coupon'[j].user = coupon[j].user
    BY <1>4, <1>5
  <2>2. \A j \in Slots : coupon[j] = Blank => coupon'[j] = Blank
    BY <1>4, <1>2, BlankStatus
  <2> QED
    BY <2>1, <2>2, <1>1, UsersKept
<1>8. CouponsPlaced'
  <2>1. \A d \in Baskets : basket'[d].at \in {"quoted", "open"} => basket'[d].coupon \in Slots
    BY <1>6 DEF CouponFilledPlaced, CouponsPlaced
  <2>2. ASSUME NEW j \in Slots, NEW d \in Baskets
        PROVE  (basket'[d].at = "open" /\ basket'[d].coupon = j)
                  <=> (coupon'[j].status = "Used" /\ coupon'[j].order = {d})
    <3>1. (basket[d].at = "open" /\ basket[d].coupon = j)
                  <=> (coupon[j].status = "Used" /\ coupon[j].order = {d})
      BY DEF CouponFilledPlaced, CouponsPlaced
    <3>2. CASE j = i
      <4>1. d # b => coupon[j].order # {d}
        BY <3>2, <1>2
      <4> QED
        BY <3>1, <3>2, <4>1, <1>5, <1>6
    <3>3. CASE j # i
      <4>1. d = b => coupon[j].order # {d} \/ coupon[j].status # "Used"
        BY <3>1, <3>3
      <4> QED
        BY <3>1, <3>3, <4>1, <1>4, <1>6
    <3> QED
      BY <3>2, <3>3
  <2> QED
    BY <2>1, <2>2 DEF CouponsPlaced
<1> QED
  BY <1>7, <1>8 DEF CouponFilledPlaced

\* Quotes and the passing of time take no coupon from an order.
LEMMA CouponAges ==
  ASSUME CouponTyped, CouponFilledPlaced,
         \/ \E b \in Baskets, i \in Slots : GetUsable(b, i)
         \/ ExpireOverdue
         \/ \E i \in Slots : CouponTurnsLate(i)
  PROVE  CouponFilledPlaced'
<1>0. basket \in [Baskets -> BasketRow] /\ coupon \in [Slots -> CouponRow]
  BY DEF CouponTyped
<1>1. ASSUME NEW b \in Baskets, NEW i \in Slots, GetUsable(b, i) PROVE CouponFilledPlaced'
  <2>1. basket[b].at = "none" /\ UNCHANGED Tables
    BY <1>1 DEF GetUsable
  <2>2. /\ basket'[b].at = "quoted" /\ basket'[b].coupon = i
        /\ \A d \in Baskets : d # b => basket'[d] = basket[d]
    BY <1>1, <1>0 DEF GetUsable
  <2>3. CouponsFilled'
    BY <2>1, UsersKept DEF Tables
  <2>4. CouponsPlaced'
    BY <2>1, <2>2 DEF CouponFilledPlaced, CouponsPlaced, Tables
  <2> QED
    BY <2>3, <2>4 DEF CouponFilledPlaced
<1>2. ASSUME UNCHANGED <<batch, basket>>,
             \A i \in Slots : /\ coupon'[i].user = coupon[i].user
                              /\ coupon'[i].order = coupon[i].order
                              /\ coupon'[i].status = "Used" <=> coupon[i].status = "Used",
             \A i \in Slots : coupon[i] = Blank => coupon'[i] = Blank
      PROVE  CouponFilledPlaced'
  <2>1. CouponsFilled'
    BY <1>2, UsersKept
  <2>2. CouponsPlaced'
    BY <1>2 DEF CouponFilledPlaced, CouponsPlaced
  <2> QED
    BY <2>1, <2>2 DEF CouponFilledPlaced
<1>3. ASSUME ExpireOverdue PROVE CouponFilledPlaced'
  <2>1. \A i \in Slots : \/ coupon'[i] = coupon[i]
                         \/ /\ coupon'[i] = [coupon[i] EXCEPT !.status = "Expired"]
                            /\ coupon[i].status = "Unused"
    BY <1>3 DEF ExpireOverdue
  <2>2. \A i \in Slots : /\ coupon'[i].user = coupon[i].user
                         /\ coupon'[i].order = coupon[i].order
                         /\ coupon'[i].status = "Used" <=> coupon[i].status = "Used"
    BY <2>1, <1>0, ZenonT(60) DEF CouponRow
  <2>3. \A i \in Slots : coupon[i] = Blank => coupon'[i] = Blank
    BY <2>1, BlankStatus
  <2> QED
    BY <1>2, <1>3, <2>2, <2>3 DEF ExpireOverdue
<1>4. ASSUME NEW k \in Slots, CouponTurnsLate(k) PROVE CouponFilledPlaced'
  <2>1. /\ coupon'[k] = [coupon[k] EXCEPT !.late = TRUE] /\ coupon[k].status # "none"
        /\ \A i \in Slots : i # k => coupon'[i] = coupon[i]
    BY <1>4, <1>0 DEF CouponTurnsLate
  <2>2. \A i \in Slots : /\ coupon'[i].user = coupon[i].user
                         /\ coupon'[i].order = coupon[i].order
                         /\ coupon'[i].status = "Used" <=> coupon[i].status = "Used"
    BY <2>1, <1>0 DEF CouponRow
  <2>3. \A i \in Slots : coupon[i] = Blank => coupon'[i] = Blank
    BY <2>1, BlankStatus
  <2> QED
    BY <1>2, <1>4, <2>2, <2>3 DEF CouponTurnsLate
<1> QED
  BY <1>1, <1>3, <1>4

LEMMA CouponStep == CouponInv /\ [CouponNext]_couponVars => CouponInv'
<1> SUFFICES ASSUME CouponInv, [CouponNext]_couponVars PROVE CouponInv'
  OBVIOUS
<1>1. CASE UNCHANGED couponVars
  <2>1. CouponTyped'
    BY <1>1 DEF CouponInv, CouponTyped, couponVars
  <2>2. CouponFilledPlaced'
    BY <1>1, CouponFrame DEF CouponInv, couponVars
  <2> QED
    BY <2>1, <2>2 DEF CouponInv
<1>2. CASE CouponNext
  <2>1. CouponTyped'
    BY <1>2, CouponTypedStep DEF CouponInv
  <2>2. ASSUME NEW c \in Claimers, ClaimWorks(c) PROVE CouponFilledPlaced'
    <3>1. CASE RaiseCouponStock(c)
      BY <3>1, CouponFrame DEF CouponInv, RaiseCouponStock, Tables
    <3>2. ASSUME NEW u \in Holders, ClaimCouponAtomic(c, u) PROVE CouponFilledPlaced'
      BY <3>2, CouponFrame DEF CouponInv, ClaimCouponAtomic, Tables
    <3>3. ASSUME NEW u \in Holders, PersistClaim(c, u) PROVE CouponFilledPlaced'
      BY <3>3, CouponWritten DEF CouponInv
    <3>4. ASSUME NEW u \in Holders, RollbackClaim(c, u) PROVE CouponFilledPlaced'
      BY <3>4, CouponFrame DEF CouponInv, RollbackClaim, Tables
    <3> QED
      BY <2>2, <3>1, <3>2, <3>3, <3>4 DEF ClaimWorks
  <2>3. ASSUME NEW c \in Claimers, NEW u \in Holders, ClaimStarts(c, u) PROVE CouponFilledPlaced'
    BY <2>3, CouponFrame DEF CouponInv, ClaimStarts, Tables
  <2>4. ASSUME ReconcileReads \/ ReconcileRaises \/ StockKeyLost \/ \E u \in Holders : UserKeyExpires(u)
        PROVE  CouponFilledPlaced'
    <3>1. UNCHANGED <<batch, coupon, basket>>
      BY <2>4 DEF ReconcileReads, ReconcileRaises, StockKeyLost, UserKeyExpires, Tables
    <3> QED
      BY <3>1, CouponFrame DEF CouponInv
  <2>5. ASSUME NEW b \in Baskets, UseInTx(b) PROVE CouponFilledPlaced'
    BY <2>5, CouponUsed DEF CouponInv
  <2>6. ASSUME NEW b \in Baskets, ReleaseForOrderInTx(b) PROVE CouponFilledPlaced'
    BY <2>6, CouponReturned DEF CouponInv
  <2>7. ASSUME \/ \E b \in Baskets, i \in Slots : GetUsable(b, i)
               \/ ExpireOverdue
               \/ \E i \in Slots : CouponTurnsLate(i)
        PROVE  CouponFilledPlaced'
    BY <2>7, CouponAges DEF CouponInv
  <2>8. CouponFilledPlaced'
    BY <1>2, <2>2, <2>3, <2>4, <2>5, <2>6, <2>7 DEF CouponNext
  <2> QED
    BY <2>1, <2>8 DEF CouponInv
<1> QED
  BY <1>1, <1>2

THEOREM CouponTypeCorrect == CouponSpec => []CouponTypeOK
<1>1. CouponInit => CouponInv
  BY CouponInitInv
<1>2. CouponInv /\ [CouponNext]_couponVars => CouponInv'
  BY CouponStep
<1>3. CouponInv => CouponTypeOK
  BY CouponInvOK
<1> QED
  BY <1>1, <1>2, <1>3, PTL DEF CouponSpec

\* The batch is never over-issued, nobody has more than the limit, and a coupon
\* is with the order that used it, whatever Redis does.
THEOREM CouponsStayInBounds == CouponSpec => []CouponsInBounds
<1>1. CouponInit => CouponInv
  BY CouponInitInv
<1>2. CouponInv /\ [CouponNext]_couponVars => CouponInv'
  BY CouponStep
<1>3. CouponInv => CouponsInBounds
  BY CouponInvOK
<1> QED
  BY <1>1, <1>2, <1>3, PTL DEF CouponSpec

-----------------------------------------------------------------------------
(* Promotion budgets                                                       *)

CartRow == [at : {"none", "quoted", "applies", "updates", "placed", "closed"},
            made : 0..MaxDay, quoted : SUBSET Rules, rule : 0..NumRules, clock : 0..MaxDay]
RuleRow == [active : BOOLEAN, date : 0..MaxDay, consumed : 0..DailyBudget]

\* What cart c has of the budget of rule r on a day.
Counts(c, r, day) ==
  /\ cart[c].at \in {"placed", "closed"} /\ released[c] # "restored"
  /\ cart[c].rule = r /\ cart[c].clock = day
Share(c, r, day) == IF Counts(c, r, day) THEN Cut(r) ELSE 0

\* An order's clock is read after it has been made, and it is released at its end.
CartsInOrder ==
  \A c \in Carts :
    /\ cart[c].made <= calendar
    /\ cart[c].at \in {"none", "quoted", "applies"} => cart[c].rule = 0
    /\ cart[c].at \in {"applies", "updates"} => cart[c].quoted # {}
    /\ cart[c].at = "updates" => cart[c].rule # 0
    /\ cart[c].rule # 0 => cart[c].made <= cart[c].clock
    /\ released[c] # "no" => cart[c].at = "closed"

\* Nothing has been given on a day after the counter's.
NothingLater ==
  \A c \in Carts, r \in Rules, day \in 0..MaxDay : Counts(c, r, day) => day <= rule[r].date
CountersFollow == \A r \in Rules : rule[r].consumed = Given(r, rule[r].date)
NoDayOver == \A r \in Rules, day \in 0..MaxDay : Given(r, day) <= DailyBudget

PromoInv ==
  /\ PromoTypeOK /\ CartsInOrder
  /\ ~overtaken => NothingLater /\ CountersFollow /\ NoDayOver

LEMMA PromoDays == MaxDay \in Nat \ {0}
BY PromoAssumption

LEMMA PromoConstants ==
  IsFiniteSet(Carts) /\ NumRules \in Nat /\ DailyBudget \in Nat /\ MaxDay \in Nat
BY PromoAssumption

LEMMA GivenIsSum ==
  ASSUME NEW r, NEW day
  PROVE  Given(r, day) = SumFunctionOnSet([c \in Carts |-> Share(c, r, day)], Carts)
BY DEF Given, Share, Counts, SumFunction

LEMMA SharesTyped ==
  ASSUME NEW r \in Rules, NEW day
  PROVE  /\ [c \in Carts |-> Share(c, r, day)] \in [Carts -> Int]
         /\ Cut(r) \in Nat /\ Given(r, day) \in Int
<1>1. Cut(r) \in Nat
  BY PromoConstants DEF Cut, Rules
<1>2. [c \in Carts |-> Share(c, r, day)] \in [Carts -> Int]
  BY <1>1 DEF Share
<1> QED
  BY <1>1, <1>2, GivenIsSum, SumInt, PromoConstants

\* A step of one cart moves a sum by its share.
LEMMA GivenMoves ==
  ASSUME NEW c \in Carts, NEW r \in Rules, NEW day,
         \A d \in Carts : d # c => cart'[d] = cart[d] /\ released'[d] = released[d]
  PROVE  Given(r, day)' = Given(r, day) + Share(c, r, day)' - Share(c, r, day)
<1> DEFINE f == [d \in Carts |-> Share(d, r, day)]
           h == [d \in Carts |-> Share(d, r, day)']
<1>1. f \in [Carts -> Int]
  BY SharesTyped
<1>2. h \in [Carts -> Int]
  BY SharesTyped DEF Share
<1>3. \A d \in Carts : d # c => h[d] = f[d]
  BY DEF Share, Counts
<1>4. f[c] = Share(c, r, day) /\ h[c] = Share(c, r, day)'
  OBVIOUS
<1>5. Given(r, day) = SumFunctionOnSet(f, Carts)
  BY GivenIsSum
<1>6. Given(r, day)' = SumFunctionOnSet(h, Carts)
  BY Zenon DEF Given, Share, Counts, SumFunction
<1> HIDE DEF f, h
<1> QED
  BY <1>1, <1>2, <1>3, <1>4, <1>5, <1>6, SumUpdate, PromoConstants

LEMMA PromoInitInv == PromoInit /\ SetbacksInit => PromoInv
<1> SUFFICES ASSUME PromoInit, SetbacksInit PROVE PromoInv
  OBVIOUS
<1> USE PromoConstants DEF PromoInit
<1>1. PromoTypeOK
  <2>1. NoCart \in CartRow
    BY DEF NoCart, CartRow
  <2>2. [active |-> TRUE, date |-> 0, consumed |-> 0] \in RuleRow
    BY DEF RuleRow
  <2>3. cart \in [Carts -> CartRow] /\ rule \in [Rules -> RuleRow]
    BY <2>1, <2>2
  <2>4. calendar \in 1..MaxDay
    BY PromoDays
  <2>5. released \in [Carts -> {"no", "restored", "lapsed"}] /\ overtaken \in BOOLEAN
    OBVIOUS
  <2> QED
    BY <2>3, <2>4, <2>5 DEF PromoTypeOK, CartRow, RuleRow
<1>2. CartsInOrder
  BY DEF CartsInOrder, NoCart
<1>3. ASSUME NEW r \in Rules, NEW day PROVE Given(r, day) = 0 /\ \A c \in Carts : ~Counts(c, r, day)
  <2>1. \A c \in Carts : ~Counts(c, r, day)
    BY DEF Counts, NoCart
  <2>2. \A c \in Carts : [d \in Carts |-> Share(d, r, day)][c] = 0
    BY <2>1 DEF Share
  <2> QED
    BY <2>1, <2>2, GivenIsSum, SumZero
<1>4. NothingLater /\ CountersFollow /\ NoDayOver
  BY <1>3 DEF NothingLater, CountersFollow, NoDayOver
<1> QED
  BY <1>1, <1>2, <1>4 DEF PromoInv

\* Counters and shares that stay as they are.
LEMMA CountersStay ==
  ASSUME PromoInv,
         \A r \in Rules : rule'[r].date = rule[r].date /\ rule'[r].consumed = rule[r].consumed,
         \A c \in Carts, r \in Rules : \A day : Counts(c, r, day)' => Counts(c, r, day),
         \A r \in Rules : \A day : Given(r, day)' = Given(r, day),
         UNCHANGED overtaken
  PROVE  ~overtaken' => NothingLater' /\ CountersFollow' /\ NoDayOver'
<1> SUFFICES ASSUME ~overtaken' PROVE NothingLater' /\ CountersFollow' /\ NoDayOver'
  OBVIOUS
<1>1. NothingLater /\ CountersFollow /\ NoDayOver
  BY DEF PromoInv
<1>2. NothingLater'
  BY <1>1 DEF NothingLater
<1>3. NoDayOver'
  BY <1>1 DEF NoDayOver
<1>4. CountersFollow'
  <2> SUFFICES ASSUME NEW r \in Rules PROVE (rule[r].consumed = Given(r, rule[r].date))'
    BY DEF CountersFollow
  <2> DEFINE day == rule[r].date
  <2>1. rule[r].consumed = Given(r, day)
    BY <1>1 DEF CountersFollow
  <2>2. PICK k : k = rule[r].date
    OBVIOUS
  <2>3. Given(r, k)' = Given(r, k)
    OBVIOUS
  <2>4. rule'[r].date = k /\ rule'[r].consumed = rule[r].consumed
    BY <2>2
  <2> QED
    BY <2>1, <2>2, <2>3, <2>4
<1> QED
  BY <1>2, <1>3, <1>4

LEMMA QuietCart ==
  ASSUME PromoInv, NEW c \in Carts,
         \A d \in Carts : d # c => cart'[d] = cart[d] /\ released'[d] = released[d],
         \A r \in Rules : \A day : Counts(c, r, day)' <=> Counts(c, r, day),
         UNCHANGED <<rule, overtaken>>
  PROVE  ~overtaken' => NothingLater' /\ CountersFollow' /\ NoDayOver'
<1>1. ASSUME NEW d \in Carts, NEW r \in Rules, NEW day, Counts(d, r, day)' PROVE Counts(d, r, day)
  <2>1. d # c => (Counts(d, r, day)' <=> Counts(d, r, day))
    BY DEF Counts
  <2> QED
    BY <1>1, <2>1
<1>2. ASSUME NEW r \in Rules, NEW day PROVE Given(r, day)' = Given(r, day)
  <2>1. Share(c, r, day)' = Share(c, r, day)
    BY DEF Share
  <2>2. Given(r, day)' = Given(r, day) + Share(c, r, day)' - Share(c, r, day)
    BY GivenMoves
  <2>3. Given(r, day) \in Int /\ Share(c, r, day) \in Int
    BY SharesTyped DEF Share
  <2> QED
    BY <2>1, <2>2, <2>3
<1> QED
  BY <1>1, <1>2, CountersStay

-----------------------------------------------------------------------------
(* The steps *)

\* A row of a cart that follows another, gives nothing and takes nothing back.
RowFollows(c, row) ==
  /\ row \in CartRow /\ row.made <= calendar
  /\ \/ cart[c].at \in {"placed", "closed"}
        /\ row.at \in {"placed", "closed"} /\ row.rule = cart[c].rule /\ row.clock = cart[c].clock
     \/ cart[c].at \notin {"placed", "closed"}
        /\ (row.at \in {"placed", "closed"} => row.rule = 0)
  /\ row.at \in {"none", "quoted", "applies"} => row.rule = 0
  /\ row.at \in {"applies", "updates"} => row.quoted # {}
  /\ row.at = "updates" => row.rule # 0
  /\ row.rule # 0 => row.made <= row.clock
  /\ released[c] # "no" => row.at = "closed"

LEMMA CartMoves ==
  ASSUME PromoInv, NEW c \in Carts, NEW row, RowFollows(c, row),
         cart' = [cart EXCEPT ![c] = row], UNCHANGED <<calendar, rule, released, overtaken>>
  PROVE  PromoInv'
<1>1. cart'[c] = row /\ \A d \in Carts : d # c => cart'[d] = cart[d]
  BY DEF PromoInv, PromoTypeOK
<1>2. cart' \in [Carts -> CartRow]
  BY DEF PromoInv, PromoTypeOK, CartRow, RowFollows
<1>3. PromoTypeOK'
  BY <1>2 DEF PromoInv, PromoTypeOK, CartRow
<1>4. CartsInOrder'
  BY <1>1 DEF PromoInv, CartsInOrder, RowFollows
<1>5. ASSUME NEW r \in Rules, NEW day PROVE Counts(c, r, day)' <=> Counts(c, r, day)
  <2>1. r # 0
    BY DEF Rules
  <2> QED
    BY <1>1, <2>1 DEF Counts, RowFollows
<1>6. ~overtaken' => NothingLater' /\ CountersFollow' /\ NoDayOver'
  BY <1>1, <1>5, QuietCart
<1> QED
  BY <1>3, <1>4, <1>6 DEF PromoInv

LEMMA RowOf ==
  ASSUME PromoInv, NEW c \in Carts
  PROVE  /\ cart[c] \in CartRow
         /\ cart[c].made <= calendar
         /\ cart[c].at \in {"none", "quoted", "applies"} => cart[c].rule = 0
         /\ cart[c].at \in {"applies", "updates"} => cart[c].quoted # {}
         /\ cart[c].at = "updates" => cart[c].rule # 0
         /\ cart[c].rule # 0 => cart[c].made <= cart[c].clock
         /\ released[c] # "no" => cart[c].at = "closed"
         /\ calendar \in 1..MaxDay
BY DEF PromoInv, PromoTypeOK, CartRow, CartsInOrder

\* The rules are tried from the largest discount on, and there is one.
LEMMA MinIsIn ==
  ASSUME NEW S \in SUBSET Rules, S # {}
  PROVE  Min(S) \in S
<1>1. S \subseteq Nat
  BY PromoConstants DEF Rules
<1>2. PICK m \in S : \A n \in S : ~ (<<n, m>> \in OpToRel(<, Nat))
  BY <1>1, WFMin, NatLessThanWellFounded
<1>3. \A n \in S : ~ (n < m)
  BY <1>1, <1>2 DEF OpToRel
<1>4. \A n \in S : m <= n
  BY <1>1, <1>3
<1> QED
  BY <1>4 DEF Min

LEMMA OrderKeeps ==
  ASSUME PromoInv, NEW c \in Carts,
         CalculateBestDiscount(c) \/ CreateOrder(c) \/ TriesRule(c) \/ OrderFails(c) \/ OrderCloses(c)
  PROVE  PromoInv'
<1>t. cart \in [Carts -> CartRow] /\ cart[c] \in CartRow /\ calendar \in 1..MaxDay
  BY RowOf DEF PromoInv, PromoTypeOK, CartRow
<1>1. CASE CalculateBestDiscount(c)
  <2> DEFINE q == {r \in Rules : rule[r].active /\ Used(r, calendar) + Cut(r) <= DailyBudget}
             row == [cart[c] EXCEPT !.at = "quoted", !.quoted = q]
  <2>1. cart[c] = NoCart /\ cart' = [cart EXCEPT ![c] = row] /\ UNCHANGED <<calendar, rule, released, overtaken>>
    BY <1>1, <1>t, Zenon DEF CalculateBestDiscount
  <2>3. cart[c].at = "none" /\ cart[c].rule = 0 /\ cart[c].made = 0
    BY <2>1 DEF NoCart
  <2>4. released[c] = "no"
    BY <2>3, RowOf
  <2>5. q \in SUBSET Rules
    OBVIOUS
  <2> HIDE DEF q
  <2>2. row \in CartRow /\ row.at = "quoted" /\ row.rule = cart[c].rule /\ row.made = cart[c].made
    BY <1>t, <2>5 DEF CartRow
  <2> HIDE DEF row
  <2>6. RowFollows(c, row)
    BY <1>t, <2>2, <2>3, <2>4 DEF RowFollows
  <2> QED
    BY <2>1, <2>6, CartMoves
<1>2. CASE CreateOrder(c)
  <2> DEFINE at == IF cart[c].quoted = {} THEN "placed" ELSE "applies"
             row == [cart[c] EXCEPT !.made = calendar, !.at = at]
  <2>1. cart[c].at = "quoted" /\ cart' = [cart EXCEPT ![c] = row] /\ UNCHANGED <<calendar, rule, released, overtaken>>
    BY <1>2, <1>t, Zenon DEF CreateOrder
  <2>2. at \in {"placed", "applies"} /\ (at = "applies" => cart[c].quoted # {})
    OBVIOUS
  <2>3. released[c] = "no" /\ cart[c].rule = 0 /\ calendar \in 0..MaxDay
    BY <1>t, <2>1, RowOf
  <2> HIDE DEF at
  <2>4. /\ row \in CartRow /\ row.at = at
        /\ row.rule = cart[c].rule /\ row.made = calendar /\ row.quoted = cart[c].quoted
    BY <1>t, <2>2, <2>3 DEF CartRow
  <2> HIDE DEF row
  <2>6. RowFollows(c, row)
    BY <1>t, <2>1, <2>2, <2>3, <2>4 DEF RowFollows
  <2> QED
    BY <2>1, <2>6, CartMoves
<1>3. CASE TriesRule(c)
  <2> DEFINE first == Min(cart[c].quoted)
             row == [cart[c] EXCEPT !.at = "updates", !.clock = calendar, !.rule = first]
  <2>1. cart[c].at = "applies" /\ cart' = [cart EXCEPT ![c] = row] /\ UNCHANGED <<calendar, rule, released, overtaken>>
    BY <1>3, <1>t, Zenon DEF TriesRule
  <2>2. cart[c].quoted # {} /\ cart[c].quoted \in SUBSET Rules /\ released[c] = "no" /\ cart[c].made <= calendar
    BY <2>1, <1>t, RowOf DEF CartRow
  <2>3. first \in Rules
    BY <2>2, MinIsIn
  <2> HIDE DEF first
  <2>4. first \in 0..NumRules /\ first # 0 /\ calendar \in 0..MaxDay
    BY <1>t, <2>3, PromoConstants DEF Rules
  <2>5. /\ row \in CartRow /\ row.at = "updates" /\ row.rule # 0
        /\ row.made = cart[c].made /\ row.clock = calendar /\ row.quoted = cart[c].quoted
    BY <1>t, <2>4 DEF CartRow
  <2> HIDE DEF row
  <2>6. RowFollows(c, row)
    BY <1>t, <2>1, <2>2, <2>5 DEF RowFollows
  <2> QED
    BY <2>1, <2>6, CartMoves
<1>4. CASE OrderFails(c)
  <2>1. /\ cart[c].at \in {"applies", "updates"} /\ cart' = [cart EXCEPT ![c] = NoCart]
        /\ UNCHANGED <<calendar, rule, released, overtaken>>
    BY <1>4 DEF OrderFails
  <2>2. NoCart \in CartRow /\ NoCart.at = "none" /\ NoCart.rule = 0 /\ NoCart.made = 0
    BY PromoConstants DEF CartRow, NoCart
  <2>3. released[c] = "no"
    BY <2>1, RowOf
  <2>6. RowFollows(c, NoCart)
    BY <1>t, <2>1, <2>2, <2>3 DEF RowFollows
  <2> QED
    BY <2>1, <2>6, CartMoves
<1>5. CASE OrderCloses(c)
  <2> DEFINE row == [cart[c] EXCEPT !.at = "closed"]
  <2>1. cart[c].at = "placed" /\ cart' = [cart EXCEPT ![c] = row] /\ UNCHANGED <<calendar, rule, released, overtaken>>
    BY <1>5, <1>t, Zenon DEF OrderCloses, Step
  <2>2. /\ row \in CartRow /\ row.at = "closed" /\ row.rule = cart[c].rule
        /\ row.made = cart[c].made /\ row.clock = cart[c].clock
    BY <1>t DEF CartRow
  <2>3. row.made <= calendar /\ (row.rule # 0 => row.made <= row.clock)
    BY <2>2, RowOf
  <2> HIDE DEF row
  <2>6. RowFollows(c, row)
    BY <1>t, <2>1, <2>2, <2>3 DEF RowFollows
  <2> QED
    BY <2>1, <2>6, CartMoves
<1> QED
  BY <1>1, <1>2, <1>3, <1>4, <1>5

\* A rule that does not fit is passed over.
LEMMA PassOverKeeps ==
  ASSUME PromoInv, NEW c \in Carts, cart[c].at = "updates",
         UNCHANGED <<calendar, rule, released, overtaken>>,
         NEW q \in SUBSET Rules,
         NEW at \in {"placed", "applies"}, at = "applies" => q # {},
         cart' = [cart EXCEPT ![c] = [at |-> at, made |-> @.made, quoted |-> q, rule |-> 0, clock |-> 0]]
  PROVE  PromoInv'
<1> DEFINE row == [at |-> at, made |-> cart[c].made, quoted |-> q, rule |-> 0, clock |-> 0]
<1>t. cart[c] \in CartRow /\ calendar \in 1..MaxDay /\ released[c] = "no" /\ cart[c].made <= calendar
  BY RowOf
<1>1. cart' = [cart EXCEPT ![c] = row]
  OBVIOUS
<1>2. /\ row \in CartRow /\ row.at = at /\ row.rule = 0
      /\ row.made = cart[c].made /\ row.clock = 0 /\ row.quoted = q
  BY <1>t, PromoConstants DEF CartRow
<1> HIDE DEF row
<1>3. RowFollows(c, row)
  BY <1>t, <1>2 DEF RowFollows
<1> QED
  BY <1>1, <1>3, CartMoves

\* A counter that is set, and the others that stay.
CounterSet(r, day, n) ==
  /\ rule' \in [Rules -> RuleRow]
  /\ rule'[r].date = day /\ rule'[r].consumed = n
  /\ \A s \in Rules : s # r => rule'[s] = rule[s]

LEMMA CounterWritten ==
  ASSUME PromoInv, NEW r \in Rules, NEW day \in 0..MaxDay, NEW n \in 0..DailyBudget,
         rule' = [rule EXCEPT ![r] = [@ EXCEPT !.date = day, !.consumed = n]]
  PROVE  CounterSet(r, day, n)
<1>1. rule \in [Rules -> RuleRow] /\ rule[r] \in RuleRow
  BY DEF PromoInv, PromoTypeOK, RuleRow
<1>2. /\ [rule[r] EXCEPT !.date = day, !.consumed = n] \in RuleRow
      /\ [rule[r] EXCEPT !.date = day, !.consumed = n].date = day
      /\ [rule[r] EXCEPT !.date = day, !.consumed = n].consumed = n
  BY <1>1 DEF RuleRow
<1> QED
  BY <1>1, <1>2 DEF CounterSet

\* What an order takes is on the counter of the day its clock says, and on no
\* other.
LEMMA ConsumeKeeps ==
  ASSUME PromoInv, NEW c \in Carts, NEW r \in Rules, NEW today \in 0..MaxDay,
         cart[c].at = "updates", cart[c].rule = r, cart[c].clock = today,
         NEW used \in Int, used = Used(r, today) + Cut(r), used <= DailyBudget,
         CounterSet(r, today, used), overtaken' = (overtaken \/ today < rule[r].date),
         Step(c, "placed"), UNCHANGED <<calendar, released, setbacks>>
  PROVE  PromoInv'
<1>t. /\ cart \in [Carts -> CartRow] /\ cart[c] \in CartRow /\ rule \in [Rules -> RuleRow] /\ rule[r] \in RuleRow
      /\ released[c] = "no" /\ cart[c].made <= calendar /\ cart[c].made <= today /\ r # 0 /\ calendar \in 1..MaxDay
  BY RowOf DEF PromoInv, PromoTypeOK, CartRow, RuleRow, Rules
<1>0. /\ rule[r].date \in 0..MaxDay /\ rule[r].consumed \in 0..DailyBudget /\ Cut(r) \in Nat
      /\ DailyBudget \in Nat /\ MaxDay \in Nat
  BY <1>t, SharesTyped, PromoConstants DEF RuleRow
<1>1. used \in 0..DailyBudget
  BY <1>0 DEF Used
<1> DEFINE row == [cart[c] EXCEPT !.at = "placed"]
<1>2. /\ row \in CartRow /\ row.at = "placed" /\ row.rule = r /\ row.clock = today
      /\ row.made = cart[c].made /\ row.quoted = cart[c].quoted
  BY <1>t DEF CartRow
<1>3. cart' = [cart EXCEPT ![c] = row]
  BY DEF Step
<1> HIDE DEF row
<1>4. /\ cart' \in [Carts -> CartRow] /\ cart'[c] = row
      /\ \A d \in Carts : d # c => cart'[d] = cart[d]
  BY <1>t, <1>2, <1>3
<1>5. /\ rule' \in [Rules -> RuleRow]
      /\ rule'[r].date = today /\ rule'[r].consumed = used
      /\ \A s \in Rules : s # r => rule'[s] = rule[s]
  BY DEF CounterSet
<1>6. PromoTypeOK'
  <2>1. overtaken' \in BOOLEAN
    BY DEF PromoInv, PromoTypeOK
  <2> QED
    BY <1>4, <1>5, <2>1 DEF PromoInv, PromoTypeOK, CartRow, RuleRow
<1>7. CartsInOrder'
  BY <1>t, <1>2, <1>4 DEF PromoInv, CartsInOrder
<1>8. ASSUME ~overtaken' PROVE NothingLater' /\ CountersFollow' /\ NoDayOver'
  <2>0. ~overtaken /\ ~ (today < rule[r].date)
    BY <1>8, Zenon
  <2>1. rule[r].date <= today /\ NothingLater /\ CountersFollow /\ NoDayOver
    BY <1>0, <2>0 DEF PromoInv
  <2>2. NothingLater'
    <3> SUFFICES ASSUME NEW d \in Carts, NEW s \in Rules, NEW day \in 0..MaxDay, Counts(d, s, day)'
                 PROVE  day <= rule'[s].date
      BY DEF NothingLater
    <3>1. CASE d = c
      BY <1>2, <1>4, <1>5, <3>1 DEF Counts
    <3>2. CASE d # c
      <4>1. Counts(d, s, day)
        BY <1>4, <3>2 DEF Counts
      <4>2. day <= rule[s].date
        BY <2>1, <4>1 DEF NothingLater
      <4>3. CASE s = r
        BY <1>0, <1>5, <2>1, <4>2, <4>3
      <4>4. CASE s # r
        BY <1>5, <4>2, <4>4
      <4> QED
        BY <4>3, <4>4
    <3> QED
      BY <3>1, <3>2
  <2>3. ASSUME NEW s \in Rules, NEW day
        PROVE  Given(s, day)' = Given(s, day) + (IF s = r /\ day = today THEN Cut(r) ELSE 0)
    <3>1. Given(s, day)' = Given(s, day) + Share(c, s, day)' - Share(c, s, day)
      BY <1>4, GivenMoves
    <3>2. ~Counts(c, s, day)
      BY DEF Counts
    <3>3. Counts(c, s, day)' <=> (s = r /\ day = today)
      BY <1>2, <1>4, <1>t DEF Counts
    <3>4. Share(c, s, day) = 0
      BY <3>2 DEF Share
    <3>5. Share(c, s, day)' = IF s = r /\ day = today THEN Cut(r) ELSE 0
      BY <3>3 DEF Share
    <3>6. Given(s, day) \in Int
      BY SharesTyped
    <3> QED
      BY <1>0, <3>1, <3>4, <3>5, <3>6
  <2>4. Given(r, today) = Used(r, today)
    <3>1. CASE rule[r].date = today
      <4>1. rule[r].consumed = Given(r, rule[r].date)
        BY <2>1 DEF CountersFollow
      <4> QED
        BY <3>1, <4>1 DEF Used
    <3>2. CASE rule[r].date # today
      <4>1. \A d \in Carts : ~Counts(d, r, today)
        <5> SUFFICES ASSUME NEW d \in Carts, Counts(d, r, today) PROVE FALSE
          OBVIOUS
        <5>1. today <= rule[r].date
          BY <2>1 DEF NothingLater
        <5> QED
          BY <1>0, <2>1, <3>2, <5>1
      <4>2. \A d \in Carts : [e \in Carts |-> Share(e, r, today)][d] = 0
        BY <4>1 DEF Share
      <4>3. Given(r, today) = 0
        BY <4>2, GivenIsSum, SumZero, PromoConstants
      <4> QED
        BY <3>2, <4>3 DEF Used
    <3> QED
      BY <3>1, <3>2
  <2>5. Given(r, today)' = used
    BY <2>3, <2>4
  <2>6. CountersFollow'
    <3> SUFFICES ASSUME NEW s \in Rules PROVE (rule[s].consumed = Given(s, rule[s].date))'
      BY DEF CountersFollow
    <3>1. CASE s = r
      <4>1. PICK k : k = today
        OBVIOUS
      <4>2. Given(r, k)' = used
        BY <2>5, <4>1
      <4> QED
        BY <1>5, <3>1, <4>1, <4>2
    <3>2. CASE s # r
      <4>1. PICK k : k = rule[s].date
        OBVIOUS
      <4>2. rule[s].consumed = Given(s, k)
        BY <2>1, <4>1 DEF CountersFollow
      <4>3. Given(s, k) \in Int
        BY SharesTyped
      <4>4. Given(s, k)' = Given(s, k)
        BY <2>3, <3>2, <4>3
      <4> QED
        BY <1>5, <3>2, <4>1, <4>2, <4>4
    <3> QED
      BY <3>1, <3>2
  <2>7. NoDayOver'
    <3> SUFFICES ASSUME NEW s \in Rules, NEW day \in 0..MaxDay PROVE Given(s, day)' <= DailyBudget
      BY DEF NoDayOver
    <3>1. Given(s, day) <= DailyBudget /\ Given(s, day) \in Int
      BY <2>1, SharesTyped DEF NoDayOver
    <3>2. CASE s = r /\ day = today
      BY <2>5, <3>2
    <3>3. CASE ~ (s = r /\ day = today)
      BY <2>3, <3>1, <3>3
    <3> QED
      BY <3>2, <3>3
  <2> QED
    BY <2>2, <2>6, <2>7
<1> QED
  BY <1>6, <1>7, <1>8 DEF PromoInv

LEMMA BudgetKeeps ==
  ASSUME PromoInv, NEW c \in Carts, AtomicConsumeBudget(c)
  PROVE  PromoInv'
<1>1. cart[c].at = "updates" /\ cart[c] \in CartRow /\ cart[c].rule # 0 /\ UNCHANGED <<calendar, released, setbacks>>
  BY RowOf DEF AtomicConsumeBudget
<1>2. PICK r \in Rules, today \in 0..MaxDay : r = cart[c].rule /\ today = cart[c].clock
  BY <1>1, PromoConstants DEF CartRow, Rules
<1>3. CASE rule[r].active /\ Used(r, today) + Cut(r) <= DailyBudget
  <2>1. rule[r].consumed \in Nat /\ Cut(r) \in Nat /\ DailyBudget \in Nat
    <3>1. rule[r] \in RuleRow
      BY DEF PromoInv, PromoTypeOK, RuleRow
    <3> QED
      BY <3>1, SharesTyped, PromoConstants DEF RuleRow
  <2>2. Used(r, today) + Cut(r) \in Int
    BY <2>1 DEF Used
  <2>3. /\ rule' = [rule EXCEPT ![r] = [@ EXCEPT !.date = today, !.consumed = Used(r, today) + Cut(r)]]
        /\ overtaken' = (overtaken \/ today < rule[r].date)
        /\ Step(c, "placed")
    BY <1>2, <1>3, Zenon DEF AtomicConsumeBudget
  <2>4. PICK used \in Int : used = Used(r, today) + Cut(r)
    BY <2>2
  <2>6. used <= DailyBudget /\ used \in 0..DailyBudget
    BY <1>3, <2>1, <2>4 DEF Used
  <2>5. CounterSet(r, today, used)
    BY <2>3, <2>4, <2>6, CounterWritten, Zenon
  <2> QED
    BY <1>1, <1>2, <2>3, <2>4, <2>5, <2>6, ConsumeKeeps
<1>4. CASE ~ (rule[r].active /\ Used(r, today) + Cut(r) <= DailyBudget)
  <2> DEFINE rest == cart[c].quoted \ {r}
             to == IF rest = {} THEN "placed" ELSE "applies"
  <2>1. /\ UNCHANGED <<rule, overtaken>>
        /\ cart' = [cart EXCEPT ![c] = [at |-> to, made |-> @.made, quoted |-> rest, rule |-> 0, clock |-> 0]]
    BY <1>2, <1>4, Zenon DEF AtomicConsumeBudget
  <2>2. rest \in SUBSET Rules /\ to \in {"placed", "applies"} /\ (to = "applies" => rest # {})
    BY <1>1 DEF CartRow
  <2> HIDE DEF rest, to
  <2> QED
    BY <1>1, <2>1, <2>2, PassOverKeeps
<1> QED
  BY <1>3, <1>4

\* A release gives back what is on the counter's day, and only once.
LEMMA ReleaseKeeps ==
  ASSUME PromoInv, NEW c \in Carts, ReleaseDiscount(c), released[c] = "no"
  PROVE  PromoInv'
<1>1. cart[c].at = "closed" /\ cart[c].rule # 0 /\ UNCHANGED <<calendar, cart, overtaken, setbacks>>
  BY DEF ReleaseDiscount
<1>2. cart[c] \in CartRow /\ cart[c].made <= cart[c].clock
  BY <1>1, RowOf
<1>3. PICK r \in Rules, today \in 0..MaxDay : r = cart[c].rule /\ today = cart[c].clock
  BY <1>1, <1>2, PromoConstants DEF CartRow, Rules
<1>4. rule \in [Rules -> RuleRow] /\ rule[r] \in RuleRow
  BY DEF PromoInv, PromoTypeOK, RuleRow
<1>5. /\ rule[r].date \in Nat /\ rule[r].consumed \in 0..DailyBudget /\ Cut(r) \in Nat /\ today \in Nat
      /\ DailyBudget \in Nat /\ cart[c].made \in Nat /\ Cut(r) > 0
  BY <1>2, <1>4, SharesTyped, PromoConstants, SMTT(60) DEF RuleRow, CartRow, Cut, Rules
<1>6. /\ released \in [Carts -> {"no", "restored", "lapsed"}]
      /\ released' \in [Carts -> {"no", "restored", "lapsed"}]
      /\ \A d \in Carts : d # c => released'[d] = released[d] /\ cart'[d] = cart[d]
  BY <1>1 DEF ReleaseDiscount, PromoInv, PromoTypeOK
<1>7. CartsInOrder'
  BY <1>1, <1>6 DEF PromoInv, CartsInOrder
<1>8. ASSUME NEW s \in Rules, NEW day
      PROVE  /\ Counts(c, s, day) <=> s = r /\ day = today
             /\ Given(s, day) \in Int /\ Given(s, day)' = Given(s, day) + Share(c, s, day)' - Share(c, s, day)
  BY <1>1, <1>3, <1>6, GivenMoves, SharesTyped DEF Counts
<1>9. CASE rule[r].date = cart[c].made /\ rule[r].consumed >= Cut(r)
  <2>1. released'[c] = "restored"
    BY <1>3, <1>6, <1>9 DEF ReleaseDiscount
  <2>2. rule' = [rule EXCEPT ![r].consumed = @ - Cut(r)]
    BY <1>3, <1>9, Zenon DEF ReleaseDiscount
  <2>3. PICK n \in 0..DailyBudget : n = rule[r].consumed - Cut(r)
    BY <1>5, <1>9
  <2>4. /\ [rule[r] EXCEPT !.consumed = n] \in RuleRow
        /\ [rule[r] EXCEPT !.consumed = n].date = rule[r].date
        /\ [rule[r] EXCEPT !.consumed = n].consumed = n
    BY <1>4 DEF RuleRow
  <2>5. rule' = [rule EXCEPT ![r] = [rule[r] EXCEPT !.consumed = n]]
    BY <2>2, <2>3, Zenon
  <2>6. /\ rule' \in [Rules -> RuleRow] /\ rule'[r].date = rule[r].date /\ rule'[r].consumed = n
        /\ \A s \in Rules : s # r => rule'[s] = rule[s]
    BY <1>4, <2>4, <2>5
  <2>7. PromoTypeOK'
    BY <1>1, <1>6, <2>6 DEF PromoInv, PromoTypeOK, RuleRow
  <2>8. ASSUME ~overtaken' PROVE NothingLater' /\ CountersFollow' /\ NoDayOver'
    <3>1. NothingLater /\ CountersFollow /\ NoDayOver
      BY <1>1, <2>8 DEF PromoInv
    <3>2. ASSUME NEW d \in Carts, NEW s \in Rules, NEW day, Counts(d, s, day)' PROVE Counts(d, s, day)
      <4>1. released[c] # "restored"
        OBVIOUS
      <4> QED
        BY <1>1, <1>6, <2>1, <3>2, <4>1 DEF Counts
    <3>3. NothingLater'
      <4> SUFFICES ASSUME NEW d \in Carts, NEW s \in Rules, NEW day \in 0..MaxDay, Counts(d, s, day)'
                   PROVE  day <= rule'[s].date
        BY DEF NothingLater
      <4>1. day <= rule[s].date
        BY <3>1, <3>2 DEF NothingLater
      <4> QED
        BY <2>6, <4>1
    <3>4. today = rule[r].date
      <4>1. Counts(c, r, today)
        BY <1>8
      <4>2. today <= rule[r].date
        BY <3>1, <4>1 DEF NothingLater
      <4> QED
        BY <1>2, <1>3, <1>5, <1>9, <4>2
    <3>5. ASSUME NEW s \in Rules, NEW day
          PROVE  Given(s, day)' = Given(s, day) - (IF s = r /\ day = today THEN Cut(r) ELSE 0)
      <4>1. ~Counts(c, s, day)'
        BY <2>1 DEF Counts
      <4>2. Share(c, s, day)' = 0
        BY <4>1 DEF Share
      <4>3. Share(c, s, day) = IF s = r /\ day = today THEN Cut(r) ELSE 0
        BY <1>8 DEF Share
      <4>4. Given(s, day) \in Int /\ Given(s, day)' = Given(s, day) + Share(c, s, day)' - Share(c, s, day)
        BY <1>8
      <4> QED
        BY <1>5, <4>2, <4>3, <4>4
    <3>6. CountersFollow'
      <4> SUFFICES ASSUME NEW s \in Rules PROVE (rule[s].consumed = Given(s, rule[s].date))'
        BY DEF CountersFollow
      <4>1. PICK k : k = rule[s].date
        OBVIOUS
      <4>2. rule[s].consumed = Given(s, k) /\ Given(s, k) \in Int
        BY <3>1, <4>1, SharesTyped DEF CountersFollow
      <4>3. Given(s, k)' = Given(s, k) - (IF s = r /\ k = today THEN Cut(r) ELSE 0)
        BY <3>5
      <4>4. rule'[s].date = k
        BY <2>6, <4>1
      <4>5. CASE s = r
        <5>1. Given(s, k)' = Given(s, k) - Cut(r)
          BY <3>4, <4>1, <4>3, <4>5
        <5>2. rule'[s].consumed = Given(s, k)'
          BY <2>3, <2>6, <4>2, <4>5, <5>1
        <5> QED
          BY <4>4, <5>2
      <4>6. CASE s # r
        <5>1. Given(s, k)' = Given(s, k)
          BY <4>2, <4>3, <4>6
        <5>2. rule'[s].consumed = Given(s, k)'
          BY <2>6, <4>2, <4>6, <5>1
        <5> QED
          BY <4>4, <5>2
      <4> QED
        BY <4>5, <4>6
    <3>7. NoDayOver'
      <4> SUFFICES ASSUME NEW s \in Rules, NEW day \in 0..MaxDay PROVE Given(s, day)' <= DailyBudget
        BY DEF NoDayOver
      <4>1. Given(s, day) <= DailyBudget /\ Given(s, day) \in Int
        BY <3>1, SharesTyped DEF NoDayOver
      <4>2. Given(s, day)' = Given(s, day) - (IF s = r /\ day = today THEN Cut(r) ELSE 0)
        BY <3>5
      <4> QED
        BY <1>5, <4>1, <4>2
    <3> QED
      BY <3>3, <3>6, <3>7
  <2> QED
    BY <1>7, <2>7, <2>8 DEF PromoInv
<1>10. CASE ~ (rule[r].date = cart[c].made /\ rule[r].consumed >= Cut(r))
  <2>1. released'[c] = "lapsed" /\ rule' = rule
    BY <1>3, <1>6, <1>10 DEF ReleaseDiscount
  <2>2. PromoTypeOK'
    BY <1>1, <1>6, <2>1 DEF PromoInv, PromoTypeOK
  <2>3. ASSUME NEW s \in Rules, NEW day PROVE Counts(c, s, day)' <=> Counts(c, s, day)
    BY <1>1, <2>1 DEF Counts
  <2>4. ~overtaken' => NothingLater' /\ CountersFollow' /\ NoDayOver'
    BY <1>1, <1>6, <2>1, <2>3, QuietCart
  <2> QED
    BY <1>7, <2>2, <2>4 DEF PromoInv
<1> QED
  BY <1>9, <1>10

\* Carts and counters that no step has touched; a rule may be stopped and a day
\* pass.
LEMMA TimeKeeps ==
  ASSUME PromoInv, UNCHANGED <<cart, released, overtaken>>,
         calendar' \in 1..MaxDay, calendar <= calendar',
         rule' \in [Rules -> RuleRow],
         \A r \in Rules : rule'[r].date = rule[r].date /\ rule'[r].consumed = rule[r].consumed
  PROVE  PromoInv'
<1>1. PromoTypeOK'
  BY DEF PromoInv, PromoTypeOK, RuleRow
<1>2. CartsInOrder'
  <2>1. \A c \in Carts : cart[c].made \in Nat /\ calendar \in Nat /\ calendar' \in Nat
    BY PromoConstants DEF PromoInv, PromoTypeOK
  <2> QED
    BY <2>1 DEF PromoInv, CartsInOrder
<1>3. \A c \in Carts, r \in Rules : \A day : Counts(c, r, day)' => Counts(c, r, day)
  BY DEF Counts
<1>4. \A r \in Rules : \A day : Given(r, day)' = Given(r, day)
  BY DEF Given
<1>5. ~overtaken' => NothingLater' /\ CountersFollow' /\ NoDayOver'
  BY <1>3, <1>4, CountersStay
<1> QED
  BY <1>1, <1>2, <1>5 DEF PromoInv

LEMMA PromoStep ==
  ASSUME PromoInv, [PromoNext]_promoVars
  PROVE  PromoInv'
<1>t. rule \in [Rules -> RuleRow] /\ calendar \in 1..MaxDay /\ MaxDay \in Nat
  BY PromoConstants DEF PromoInv, PromoTypeOK, RuleRow
<1>1. ASSUME NEW c \in Carts,
             CalculateBestDiscount(c) \/ CreateOrder(c) \/ TriesRule(c) \/ OrderFails(c) \/ OrderCloses(c)
      PROVE  PromoInv'
  BY <1>1, OrderKeeps
<1>2. ASSUME NEW c \in Carts, AtomicConsumeBudget(c) PROVE PromoInv'
  BY <1>2, BudgetKeeps
<1>3. ASSUME NEW c \in Carts, ReleaseDiscount(c) PROVE PromoInv'
  <2>1. CASE released[c] = "no"
    BY <1>3, <2>1, ReleaseKeeps
  <2>2. CASE released[c] # "no"
    <3>1. UNCHANGED <<calendar, cart, overtaken, rule, released>>
      BY <1>3, <2>2 DEF ReleaseDiscount
    <3> QED
      BY <1>t, <3>1, TimeKeeps
  <2> QED
    BY <2>1, <2>2
<1>4. ASSUME NEW r \in Rules, StopRule(r) PROVE PromoInv'
  <2>1. /\ [rule[r] EXCEPT !.active = FALSE] \in RuleRow
        /\ [rule[r] EXCEPT !.active = FALSE].date = rule[r].date
        /\ [rule[r] EXCEPT !.active = FALSE].consumed = rule[r].consumed
    BY <1>t DEF RuleRow
  <2>2. rule' = [rule EXCEPT ![r] = [rule[r] EXCEPT !.active = FALSE]]
    BY <1>4, <1>t, Zenon DEF StopRule
  <2>3. /\ rule' \in [Rules -> RuleRow]
        /\ \A s \in Rules : rule'[s].date = rule[s].date /\ rule'[s].consumed = rule[s].consumed
    BY <1>t, <2>1, <2>2
  <2>4. UNCHANGED <<cart, released, overtaken, calendar>>
    BY <1>4 DEF StopRule
  <2> QED
    BY <1>t, <2>3, <2>4, TimeKeeps
<1>5. CASE Midnight
  <2>1. calendar' \in 1..MaxDay /\ calendar <= calendar' /\ UNCHANGED <<cart, released, overtaken, rule>>
    BY <1>5, <1>t DEF Midnight
  <2> QED
    BY <1>t, <2>1, TimeKeeps
<1>6. CASE UNCHANGED promoVars
  <2>1. UNCHANGED <<calendar, cart, overtaken, rule, released>>
    BY <1>6 DEF promoVars
  <2> QED
    BY <1>t, <2>1, TimeKeeps
<1> QED
  BY <1>1, <1>2, <1>3, <1>4, <1>5, <1>6 DEF PromoNext

LEMMA PromoInvHolds == PromoSpec => []PromoInv
<1>1. PromoInv /\ [PromoNext]_promoVars => PromoInv'
  BY PromoStep
<1> QED
  BY PromoInitInv, <1>1, PTL DEF PromoSpec

\* The rows of rules and orders keep their types; the counter stays within the
\* budget.
THEOREM PromoTypeCorrect == PromoSpec => []PromoTypeOK
<1>1. PromoInv => PromoTypeOK
  BY DEF PromoInv
<1> QED
  BY PromoInvHolds, <1>1, PTL

\* Orders take a budget, give it back, fail and are announced twice, across any
\* number of midnights: as long as no clock read before midnight reaches the row
\* after one read later, the counter is what the rule has given on its day and
\* no day gives more than the budget.
THEOREM BudgetFollowsOrders == PromoSpec => []BudgetMatchesOrders
<1>1. PromoInv => BudgetMatchesOrders
  <2> SUFFICES ASSUME PromoInv, ~overtaken, NEW r \in Rules
               PROVE  /\ rule[r].consumed = Given(r, rule[r].date)
                      /\ \A day \in 1..MaxDay : Given(r, day) <= DailyBudget
    BY DEF BudgetMatchesOrders
  <2>1. CountersFollow /\ NoDayOver
    BY DEF PromoInv
  <2>2. \A day \in 1..MaxDay : day \in 0..MaxDay
    BY PromoConstants
  <2> QED
    BY <2>1, <2>2 DEF CountersFollow, NoDayOver
<1> QED
  BY PromoInvHolds, <1>1, PTL

-----------------------------------------------------------------------------
(* Pre-orders                                                              *)

PresaleRow == [stage : {"None", "DepositPaid", "FinalPaid", "Forfeited"},
               type : {"none", "WaitPay", "WaitShip", "Closed"}]
ErrandAt  == {"idle", "reserve", "deposit", "final", "cancel", "forfeit", "commit", "release"}
ErrandRow == [at : ErrandAt, order : {S \in SUBSET Presales : Cardinality(S) <= 1},
              tries : 0..(StockCommitRetries - 1)]
RackRow   == [num : Nat, available : Int, reserved : Nat]

PreorderTyped ==
  /\ season \in {"deposit", "final", "lapsed"}
  /\ presale \in [Presales -> PresaleRow]
  /\ net \in [Presales -> Int] /\ purse \in [Accounts -> Nat] /\ withdrawn \in Nat
  /\ rack \in RackRow
  /\ errand \in [Errands -> ErrandRow]
  /\ unmoved \subseteq Presales /\ misplaced \in Nat
  /\ setbacks \in Nat

\* An order that is being placed has no row, and one request that places it.
PlacedOnce ==
  \A e \in Errands, o \in Presales :
    errand[e].at \in {"reserve", "deposit"} /\ errand[e].order = {o} =>
      /\ presale[o] = [stage |-> "None", type |-> "none"]
      /\ \A d \in Errands : d # e => errand[d].order # {o}

\* A row is unpaid in the stage of its deposit only, and closed in none.
Dues(stage) ==
  IF stage = "FinalPaid" THEN DepositCents + FinalCents
  ELSE IF stage \in {"DepositPaid", "Forfeited"} THEN DepositCents ELSE 0

NetFollowsStage == \A o \in Presales : net[o] = Dues(presale[o].stage)
PursesFollowNet == \A o \in Presales \ SelfBought : purse[o] = Savings - net[o]

Buyers == Presales \ SelfBought
Earned == SumFunctionOnSet([o \in Buyers |-> net[o]], Buyers)
SellerFollowsNet == purse["boss"] + withdrawn = Savings + Earned

Unpaid     == {o \in Presales : Awaits(o)}
Committing == {e \in Bound : errand[e].at = "commit"}

\* What reserved holds for orders and requests, with the pieces that failed
\* calls took from it and without those that flagged orders are to take.
Spared  == misplaced - Cardinality(unmoved)
Covered == rack.reserved + Spared

StillClean ==
  setbacks = 0 => /\ unmoved = {} /\ misplaced = 0
                  /\ \A e \in Errands : errand[e].tries = 0

PresalePiecesFollow ==
  /\ Covered >= Cardinality(Unpaid) + Cardinality(Bound)
  /\ setbacks = 0 =>
       /\ Covered = Cardinality(Unpaid) + Cardinality(Bound)
       /\ rack.available + Covered = rack.num + Cardinality(Committing)

PresaleMoneyInv == NetFollowsStage /\ PursesFollowNet /\ SellerFollowsNet

RowsBegin == \A o \in Presales : presale[o].type = "none" => presale[o].stage = "None"

PreorderInv ==
  PreorderTyped /\ RowsBegin /\ PlacedOnce /\ PresaleMoneyInv /\ PresalePiecesFollow /\ StillClean

-----------------------------------------------------------------------------
LEMMA PreorderConstants ==
  /\ IsFiniteSet(Presales) /\ IsFiniteSet(Errands) /\ IsFiniteSet(Buyers)
  /\ SelfBought \subseteq Presales /\ "boss" \notin Presales
  /\ DepositCents \in Nat \ {0} /\ FinalCents \in Nat \ {0} /\ Savings \in Nat /\ PresaleNum \in Nat
  /\ StockCommitRetries \in Nat \ {0}
BY PreorderAssumption, StockRetriesAssumption, FS_Subset DEF Buyers

LEMMA SparedIsInt ==
  ASSUME PreorderTyped
  PROVE  Cardinality(unmoved) \in Nat /\ Spared \in Int
<1>1. Cardinality(unmoved) \in Nat
  BY FiniteParts, PreorderConstants DEF PreorderTyped
<1> QED
  BY <1>1 DEF PreorderTyped, Spared

LEMMA ErrandMoves ==
  ASSUME NEW e \in Errands, \A d \in Errands : d # e => errand'[d] = errand[d]
  PROVE  /\ Cardinality(Bound) \in Nat /\ Cardinality(Bound') \in Nat
         /\ Cardinality(Committing) \in Nat /\ Cardinality(Committing') \in Nat
         /\ Cardinality(Bound') = Cardinality(Bound)
              + Weight(errand'[e].at \in {"deposit", "release", "commit"})
              - Weight(errand[e].at \in {"deposit", "release", "commit"})
         /\ Cardinality(Committing') = Cardinality(Committing)
              + Weight(errand'[e].at = "commit") - Weight(errand[e].at = "commit")
<1>1. /\ Bound = {d \in Errands : errand[d].at \in {"deposit", "release", "commit"}}
      /\ Bound' = {d \in Errands : errand'[d].at \in {"deposit", "release", "commit"}}
      /\ Committing = {d \in Errands : errand[d].at = "commit"}
      /\ Committing' = {d \in Errands : errand'[d].at = "commit"}
  BY DEF Bound, Committing
<1>2. /\ Bound \in SUBSET Errands /\ Bound' \in SUBSET Errands
      /\ \A d \in Errands : d # e => (d \in Bound' <=> d \in Bound)
      /\ Committing \in SUBSET Errands /\ Committing' \in SUBSET Errands
      /\ \A d \in Errands : d # e => (d \in Committing' <=> d \in Committing)
  BY <1>1
<1>3. /\ e \in Bound <=> errand[e].at \in {"deposit", "release", "commit"}
      /\ e \in Bound' <=> errand'[e].at \in {"deposit", "release", "commit"}
      /\ e \in Committing <=> errand[e].at = "commit"
      /\ e \in Committing' <=> errand'[e].at = "commit"
  BY <1>1
<1> HIDE DEF Bound, Committing
<1>4. /\ Cardinality(Bound) \in Nat /\ Cardinality(Bound') \in Nat
      /\ Cardinality(Bound') = Cardinality(Bound) + Weight(e \in Bound') - Weight(e \in Bound)
  BY <1>2, CountMoves, PreorderConstants
<1>5. /\ Cardinality(Committing) \in Nat /\ Cardinality(Committing') \in Nat
      /\ Cardinality(Committing') = Cardinality(Committing) + Weight(e \in Committing') - Weight(e \in Committing)
  BY <1>2, CountMoves, PreorderConstants
<1> QED
  BY <1>3, <1>4, <1>5 DEF Weight

LEMMA RowMoves ==
  ASSUME NEW o \in Presales, \A p \in Presales : p # o => presale'[p] = presale[p]
  PROVE  /\ Cardinality(Unpaid) \in Nat /\ Cardinality(Unpaid') \in Nat
         /\ Cardinality(Unpaid') = Cardinality(Unpaid)
              + Weight(presale'[o] = [stage |-> "DepositPaid", type |-> "WaitPay"])
              - Weight(presale[o] = [stage |-> "DepositPaid", type |-> "WaitPay"])
<1>1. /\ Unpaid = {p \in Presales : presale[p] = [stage |-> "DepositPaid", type |-> "WaitPay"]}
      /\ Unpaid' = {p \in Presales : presale'[p] = [stage |-> "DepositPaid", type |-> "WaitPay"]}
  BY DEF Unpaid, Awaits
<1>2. /\ Unpaid \in SUBSET Presales /\ Unpaid' \in SUBSET Presales
      /\ \A p \in Presales : p # o => (p \in Unpaid' <=> p \in Unpaid)
      /\ o \in Unpaid <=> presale[o] = [stage |-> "DepositPaid", type |-> "WaitPay"]
      /\ o \in Unpaid' <=> presale'[o] = [stage |-> "DepositPaid", type |-> "WaitPay"]
  BY <1>1
<1> HIDE DEF Unpaid
<1>3. /\ Cardinality(Unpaid) \in Nat /\ Cardinality(Unpaid') \in Nat
      /\ Cardinality(Unpaid') = Cardinality(Unpaid) + Weight(o \in Unpaid') - Weight(o \in Unpaid)
  BY <1>2, CountMoves, PreorderConstants
<1> QED
  BY <1>2, <1>3 DEF Weight

LEMMA SameErrands ==
  ASSUME UNCHANGED errand
  PROVE  Bound' = Bound /\ Committing' = Committing
BY DEF Bound, Committing

LEMMA SameRows ==
  ASSUME UNCHANGED presale
  PROVE  Unpaid' = Unpaid /\ Cardinality(Unpaid) \in Nat
<1>1. Unpaid' = Unpaid
  BY DEF Unpaid, Awaits
<1>2. Unpaid \in SUBSET Presales
  BY DEF Unpaid
<1> QED
  BY <1>1, <1>2, FiniteParts, PreorderConstants

-----------------------------------------------------------------------------
LEMMA PreorderInitInv == PreorderInit /\ SetbacksInit => PreorderInv
<1> SUFFICES ASSUME PreorderInit, SetbacksInit PROVE PreorderInv
  OBVIOUS
<1> USE PreorderConstants DEF PreorderInit, SetbacksInit
<1>1. PreorderTyped
  <2>1. [stage |-> "None", type |-> "none"] \in PresaleRow
    BY DEF PresaleRow
  <2>2. Cardinality({}) <= 1
    BY FS_EmptySet
  <2>3. NoErrand \in ErrandRow
    BY <2>2 DEF ErrandRow, ErrandAt, NoErrand
  <2>4. presale \in [Presales -> PresaleRow]
    BY <2>1
  <2>5. errand \in [Errands -> ErrandRow]
    BY <2>3
  <2>6. net \in [Presales -> Int] /\ purse \in [Accounts -> Nat] /\ withdrawn \in Nat
    OBVIOUS
  <2>7. rack \in RackRow
    BY DEF RackRow
  <2> QED
    BY <2>4, <2>5, <2>6, <2>7 DEF PreorderTyped
<1>2. PlacedOnce
  BY DEF PlacedOnce, NoErrand
<1>3. NetFollowsStage
  BY DEF NetFollowsStage, Dues
<1>4. PursesFollowNet
  BY DEF PursesFollowNet, Accounts
<1>5. SellerFollowsNet
  <2>1. \A o \in Buyers : [p \in Buyers |-> net[p]][o] = 0
    BY DEF Buyers
  <2>2. Earned = 0
    BY <2>1, SumZero DEF Earned
  <2> QED
    BY <2>2 DEF SellerFollowsNet, Accounts
<1>6. PresalePiecesFollow
  <2>1. Unpaid = {}
    BY DEF Unpaid, Awaits
  <2>2. Bound = {} /\ Committing = {}
    BY DEF Bound, Committing, NoErrand
  <2>3. Cardinality({}) = 0
    BY FS_EmptySet
  <2>4. Cardinality(Unpaid) = 0 /\ Cardinality(Bound) = 0 /\ Cardinality(Committing) = 0 /\ Spared = 0
    BY <2>1, <2>2, <2>3 DEF Spared
  <2>5. rack.num = PresaleNum /\ rack.available = PresaleNum /\ rack.reserved = 0
    OBVIOUS
  <2> QED
    BY <2>4, <2>5 DEF PresalePiecesFollow, Covered
<1>7. RowsBegin
  BY DEF RowsBegin
<1>8. StillClean
  BY DEF StillClean, NoErrand
<1> QED
  BY <1>1, <1>2, <1>3, <1>4, <1>5, <1>6, <1>7, <1>8 DEF PreorderInv, PresaleMoneyInv

LEMMA PreorderInvOK == PreorderInv => PreorderTypeOK /\ PresaleBooks
<1> SUFFICES ASSUME PreorderInv PROVE PreorderTypeOK /\ PresaleBooks
  OBVIOUS
<1>1. PreorderTypeOK
  BY DEF PreorderInv, PreorderTyped, PreorderTypeOK, PresaleRow, RackRow, ErrandRow, ErrandAt
<1>2. PresaleMoney
  <2>1. ASSUME NEW o \in Presales
        PROVE  net[o] = CASE presale[o].stage = "FinalPaid" -> DepositCents + FinalCents
                          [] presale[o].stage \in {"DepositPaid", "Forfeited"} -> DepositCents
                          [] presale[o].stage = "None" -> 0
    <3>1. presale[o].stage \in {"None", "DepositPaid", "FinalPaid", "Forfeited"}
      BY DEF PreorderInv, PreorderTyped, PresaleRow
    <3>2. net[o] = Dues(presale[o].stage)
      BY DEF PreorderInv, PresaleMoneyInv, NetFollowsStage
    <3> QED
      BY <3>1, <3>2 DEF Dues
  <2>2. Earned = SumFunction([o \in Presales \ SelfBought |-> net[o]])
    BY DEF Earned, Buyers, SumFunction
  <2> QED
    BY <2>1, <2>2 DEF PresaleMoney, PreorderInv, PresaleMoneyInv, PursesFollowNet, SellerFollowsNet
<1>3. PresalePieces
  <2>1. /\ Cardinality(Unpaid) \in Nat /\ Cardinality(Bound) \in Nat /\ Cardinality(unmoved) \in Nat
        /\ rack.reserved \in Nat /\ misplaced \in Nat
    BY FiniteParts, PreorderConstants, SparedIsInt DEF PreorderInv, PreorderTyped, RackRow, Unpaid, Bound
  <2>2. PiecesHeld = Cardinality(Unpaid) + Cardinality(Bound) + Cardinality(unmoved)
    BY DEF PiecesHeld, Unpaid
  <2>3. rack.reserved + misplaced >= PiecesHeld
    BY <2>1, <2>2 DEF PreorderInv, PresalePiecesFollow, Covered, Spared
  <2>4. ASSUME setbacks = 0
        PROVE  rack.reserved = PiecesHeld /\ rack.available + rack.reserved = rack.num + Cardinality(Committing)
    <3>1. Cardinality(unmoved) = 0 /\ misplaced = 0
      BY <2>4, FS_EmptySet DEF PreorderInv, StillClean
    <3> QED
      BY <2>1, <2>2, <2>4, <3>1 DEF PreorderInv, PresalePiecesFollow, Covered, Spared
  <2> QED
    BY <2>3, <2>4 DEF PresalePieces, Committing
<1> QED
  BY <1>1, <1>2, <1>3 DEF PresaleBooks

-----------------------------------------------------------------------------
(* What the operators of the actions do *)

LEMMA SentFacts ==
  ASSUME PreorderTyped, NEW e \in Errands, NEW at \in ErrandAt, Sent(e, at)
  PROVE  /\ errand' \in [Errands -> ErrandRow]
         /\ \A d \in Errands : d # e => errand'[d] = errand[d]
         /\ errand'[e].at = at
         /\ errand'[e].order = IF at = "idle" THEN {} ELSE errand[e].order
         /\ errand'[e].tries = IF at = "idle" THEN 0 ELSE errand[e].tries
<1>1. errand[e] \in ErrandRow
  BY DEF PreorderTyped
<1>2. Cardinality({}) <= 1
  BY FS_EmptySet
<1>3. NoErrand \in ErrandRow /\ NoErrand.at = "idle" /\ NoErrand.order = {} /\ NoErrand.tries = 0
  BY <1>2, PreorderConstants DEF NoErrand, ErrandRow, ErrandAt
<1>4. /\ [errand[e] EXCEPT !.at = at] \in ErrandRow
      /\ [errand[e] EXCEPT !.at = at].at = at /\ [errand[e] EXCEPT !.at = at].order = errand[e].order
      /\ [errand[e] EXCEPT !.at = at].tries = errand[e].tries
  BY <1>1 DEF ErrandRow
<1>5. /\ errand'[e] = IF at = "idle" THEN NoErrand ELSE [errand[e] EXCEPT !.at = at]
      /\ \A d \in Errands : d # e => errand'[d] = errand[d]
  BY DEF Sent, PreorderTyped
<1>6. errand' \in [Errands -> ErrandRow]
  BY <1>3, <1>4 DEF Sent, PreorderTyped
<1> QED
  BY <1>3, <1>4, <1>5, <1>6

LEMMA BeginsFacts ==
  ASSUME PreorderTyped, NEW e \in Errands, NEW at \in ErrandAt \ {"idle"}, NEW o \in Presales, Begins(e, at, o)
  PROVE  /\ errand' \in [Errands -> ErrandRow]
         /\ \A d \in Errands : d # e => errand'[d] = errand[d]
         /\ errand'[e].at = at /\ errand'[e].order = {o} /\ errand'[e].tries = 0
         /\ errand[e].at = "idle"
<1>0. Cardinality({o}) = 1
  BY FS_Singleton
<1>1. Cardinality({o}) <= 1
  BY <1>0
<1>2. [at |-> at, order |-> {o}, tries |-> 0] \in ErrandRow
  BY <1>1, PreorderConstants DEF ErrandRow
<1> QED
  BY <1>2 DEF Begins, PreorderTyped, NoErrand

LEMMA RowFacts ==
  ASSUME PreorderTyped, NEW o \in Presales,
         NEW stage \in {"None", "DepositPaid", "FinalPaid", "Forfeited"},
         NEW type \in {"none", "WaitPay", "WaitShip", "Closed"},
         Row(o, stage, type)
  PROVE  /\ presale' \in [Presales -> PresaleRow]
         /\ presale'[o] = [stage |-> stage, type |-> type]
         /\ \A p \in Presales : p # o => presale'[p] = presale[p]
<1>1. [stage |-> stage, type |-> type] \in PresaleRow
  BY DEF PresaleRow
<1> QED
  BY <1>1 DEF Row, PreorderTyped

\* A change of one balance and of the seller's moves the sum with it.
LEMMA EarnedMoves ==
  ASSUME PreorderTyped, NEW o \in Presales, net' \in [Presales -> Int],
         \A p \in Presales : p # o => net'[p] = net[p]
  PROVE  /\ Earned \in Int /\ Earned' \in Int
         /\ o \in SelfBought => Earned' = Earned
         /\ o \notin SelfBought => Earned' = Earned + net'[o] - net[o]
<1> DEFINE f == [p \in Buyers |-> net[p]]
           h == [p \in Buyers |-> net'[p]]
<1>1. f \in [Buyers -> Int] /\ h \in [Buyers -> Int]
  BY DEF Buyers, PreorderTyped
<1>2. Earned = SumFunctionOnSet(f, Buyers) /\ Earned' = SumFunctionOnSet(h, Buyers)
  BY DEF Earned, Buyers
<1>3. Earned \in Int /\ Earned' \in Int
  BY <1>1, <1>2, SumInt, PreorderConstants
<1>4. ASSUME o \in SelfBought PROVE Earned' = Earned
  <2>1. f = h
    BY <1>4 DEF Buyers
  <2> QED
    BY <1>2, <2>1
<1>5. ASSUME o \notin SelfBought PROVE Earned' = Earned + net'[o] - net[o]
  <2>1. o \in Buyers
    BY <1>5 DEF Buyers
  <2>2. f[o] = net[o] /\ h[o] = net'[o] /\ \A p \in Buyers : p # o => h[p] = f[p]
    BY <2>1 DEF Buyers
  <2> HIDE DEF f, h
  <2>3. SumFunctionOnSet(h, Buyers) = SumFunctionOnSet(f, Buyers) + h[o] - f[o]
    BY <1>1, <2>1, <2>2, SumUpdate, PreorderConstants
  <2> QED
    BY <1>2, <2>2, <2>3
<1> QED
  BY <1>3, <1>4, <1>5

LEMMA DebitFacts ==
  ASSUME PreorderTyped, NEW o \in Presales, NEW cents \in Nat, DebitUser(o, cents)
  PROVE  /\ net' \in [Presales -> Int] /\ purse' \in [Accounts -> Nat]
         /\ net'[o] = net[o] + cents /\ \A p \in Presales : p # o => net'[p] = net[p]
         /\ o \in SelfBought => purse' = purse
         /\ o \notin SelfBought => /\ purse'[o] = purse[o] - cents
                                   /\ purse'["boss"] = purse["boss"] + cents
                                   /\ \A a \in Accounts : a \notin {o, "boss"} => purse'[a] = purse[a]
<1> USE PreorderConstants
<1>1. net' \in [Presales -> Int] /\ net'[o] = net[o] + cents /\ \A p \in Presales : p # o => net'[p] = net[p]
  BY DEF DebitUser, PreorderTyped
<1>2. purse \in [Accounts -> Nat] /\ "boss" \in Accounts /\ Payer(o) \in Accounts
  BY DEF PreorderTyped, Accounts, Payer
<1>3. CASE o \in SelfBought
  <2>1. purse["boss"] >= cents /\ purse' = [[purse EXCEPT !["boss"] = @ - cents] EXCEPT !["boss"] = @ + cents]
    BY <1>3 DEF DebitUser, Payer
  <2>2. purse' \in [Accounts -> Nat] /\ \A a \in Accounts : purse'[a] = purse[a]
    BY <1>2, <2>1
  <2>3. purse' = purse
    BY <1>2, <2>2
  <2> QED
    BY <1>1, <1>2, <1>3, <2>3
<1>4. CASE o \notin SelfBought
  <2>1. purse[o] >= cents /\ purse' = [[purse EXCEPT ![o] = @ - cents] EXCEPT !["boss"] = @ + cents]
    BY <1>4 DEF DebitUser, Payer
  <2>2. o \in Accounts /\ o # "boss"
    BY <1>4 DEF Accounts
  <2>3. purse[o] - cents \in Nat
    BY <1>2, <2>1, <2>2
  <2> QED
    BY <1>1, <1>2, <1>4, <2>1, <2>2, <2>3
<1> QED
  BY <1>3, <1>4

LEMMA RefundFacts ==
  ASSUME PreorderTyped, NEW o \in Presales, SellerCovers, RefundUser(o)
  PROVE  /\ net' \in [Presales -> Int] /\ purse' \in [Accounts -> Nat]
         /\ net'[o] = net[o] - DepositCents /\ \A p \in Presales : p # o => net'[p] = net[p]
         /\ o \in SelfBought => purse' = purse
         /\ o \notin SelfBought => /\ purse'[o] = purse[o] + DepositCents
                                   /\ purse'["boss"] = purse["boss"] - DepositCents
                                   /\ \A a \in Accounts : a \notin {o, "boss"} => purse'[a] = purse[a]
<1> USE PreorderConstants
<1>1. net' \in [Presales -> Int] /\ net'[o] = net[o] - DepositCents /\ \A p \in Presales : p # o => net'[p] = net[p]
  BY DEF RefundUser, PreorderTyped
<1>2. purse \in [Accounts -> Nat] /\ "boss" \in Accounts /\ purse["boss"] - DepositCents \in Nat
  BY DEF PreorderTyped, Accounts, SellerCovers
<1>3. CASE o \in SelfBought
  <2>1. purse' = [[purse EXCEPT !["boss"] = @ - DepositCents] EXCEPT
                    !["boss"] = [purse EXCEPT !["boss"] = @ - DepositCents]["boss"] + DepositCents]
    BY <1>3 DEF RefundUser, Payer
  <2>2. purse' \in [Accounts -> Nat] /\ \A a \in Accounts : purse'[a] = purse[a]
    BY <1>2, <2>1
  <2>3. purse' = purse
    BY <1>2, <2>2
  <2> QED
    BY <1>1, <1>2, <1>3, <2>3
<1>4. CASE o \notin SelfBought
  <2>2. o \in Accounts /\ o # "boss"
    BY <1>4 DEF Accounts
  <2>1. purse' = [[purse EXCEPT !["boss"] = @ - DepositCents] EXCEPT ![o] = purse[o] + DepositCents]
    BY <1>4, <2>2 DEF RefundUser, Payer
  <2> QED
    BY <1>1, <1>2, <1>4, <2>1, <2>2
<1> QED
  BY <1>3, <1>4

\* A payment or a repayment of one order keeps the books, when its stage says so.
LEMMA MoneyMoves ==
  ASSUME PreorderTyped, PresaleMoneyInv, NEW o \in Presales, NEW cents \in Int,
         net' \in [Presales -> Int], purse' \in [Accounts -> Nat],
         net'[o] = net[o] + cents, \A p \in Presales : p # o => net'[p] = net[p],
         o \in SelfBought => purse' = purse,
         o \notin SelfBought => /\ purse'[o] = purse[o] - cents
                                /\ purse'["boss"] = purse["boss"] + cents
                                /\ \A a \in Accounts : a \notin {o, "boss"} => purse'[a] = purse[a],
         \A p \in Presales : p # o => presale'[p] = presale[p],
         Dues(presale'[o].stage) = Dues(presale[o].stage) + cents,
         withdrawn' = withdrawn
  PROVE  PresaleMoneyInv'
<1> USE PreorderConstants
<1>1. NetFollowsStage'
  <2> SUFFICES ASSUME NEW p \in Presales PROVE net'[p] = Dues(presale'[p].stage)
    BY DEF NetFollowsStage, Dues
  <2>1. net[p] = Dues(presale[p].stage) /\ net[o] = Dues(presale[o].stage)
    BY DEF PresaleMoneyInv, NetFollowsStage
  <2> QED
    BY <2>1
<1>2. PursesFollowNet'
  <2> SUFFICES ASSUME NEW p \in Presales \ SelfBought PROVE purse'[p] = Savings - net'[p]
    BY DEF PursesFollowNet
  <2>1. purse[p] = Savings - net[p]
    BY DEF PresaleMoneyInv, PursesFollowNet
  <2>2. p \in Accounts /\ p # "boss" /\ net[p] \in Int
    BY DEF Accounts, PreorderTyped
  <2>3. CASE p = o
    BY <2>1, <2>2, <2>3
  <2>4. CASE p # o
    BY <2>1, <2>2, <2>4
  <2> QED
    BY <2>3, <2>4
<1>3. SellerFollowsNet'
  <2>1. purse["boss"] + withdrawn = Savings + Earned
    BY DEF PresaleMoneyInv, SellerFollowsNet
  <2>2. purse["boss"] \in Nat /\ withdrawn \in Nat /\ net[o] \in Int
    BY DEF PreorderTyped, Accounts
  <2>3. /\ Earned \in Int /\ Earned' \in Int
        /\ o \in SelfBought => Earned' = Earned
        /\ o \notin SelfBought => Earned' = Earned + net'[o] - net[o]
    BY EarnedMoves
  <2>4. purse'["boss"] + withdrawn = Savings + Earned'
    BY <2>1, <2>2, <2>3
  <2> QED
    BY <2>4 DEF SellerFollowsNet
<1> QED
  BY <1>1, <1>2, <1>3 DEF PresaleMoneyInv

LEMMA MoneyStays ==
  ASSUME PreorderTyped, PresaleMoneyInv, UNCHANGED <<net, purse, withdrawn>>,
         \A p \in Presales : Dues(presale'[p].stage) = Dues(presale[p].stage)
  PROVE  PresaleMoneyInv'
<1>1. NetFollowsStage'
  <2> SUFFICES ASSUME NEW p \in Presales PROVE net'[p] = Dues(presale'[p].stage)
    BY DEF NetFollowsStage, Dues
  <2> QED
    BY DEF PresaleMoneyInv, NetFollowsStage
<1>2. PursesFollowNet'
  BY DEF PresaleMoneyInv, PursesFollowNet
<1>3. SellerFollowsNet'
  BY DEF PresaleMoneyInv, SellerFollowsNet, Earned
<1> QED
  BY <1>1, <1>2, <1>3 DEF PresaleMoneyInv

\* One errand moves on and one row with it.
LEMMA PlacedKept ==
  ASSUME PlacedOnce, NEW e \in Errands, \A d \in Errands : d # e => errand'[d] = errand[d],
         \A o \in Presales : errand'[e].order = {o} =>
           /\ errand[e].order = {o}
           /\ errand'[e].at \in {"reserve", "deposit"} => errand[e].at \in {"reserve", "deposit"},
         \A o \in Presales, d \in Errands :
           presale'[o] # presale[o] /\ errand'[d].at \in {"reserve", "deposit"} => errand'[d].order # {o}
  PROVE  PlacedOnce'
<1> SUFFICES ASSUME NEW d \in Errands, NEW o \in Presales,
                    errand'[d].at \in {"reserve", "deposit"}, errand'[d].order = {o}
             PROVE  /\ presale'[o] = [stage |-> "None", type |-> "none"]
                    /\ \A c \in Errands : c # d => errand'[c].order # {o}
  BY DEF PlacedOnce
<1>1. errand[d].at \in {"reserve", "deposit"} /\ errand[d].order = {o}
  OBVIOUS
<1>2. presale[o] = [stage |-> "None", type |-> "none"] /\ \A c \in Errands : c # d => errand[c].order # {o}
  BY <1>1 DEF PlacedOnce
<1>3. presale'[o] = presale[o]
  OBVIOUS
<1>4. ASSUME NEW c \in Errands, c # d PROVE errand'[c].order # {o}
  BY <1>2, <1>4
<1> QED
  BY <1>2, <1>3, <1>4

LEMMA PresalePiecesMove ==
  ASSUME PreorderTyped, PresalePiecesFollow,
         NEW u \in Int, NEW b \in Int, NEW c \in Int, NEW da \in Int, NEW dr \in Int, NEW dn \in Int,
         Cardinality(Unpaid) \in Nat, Cardinality(Bound) \in Nat, Cardinality(Committing) \in Nat,
         Cardinality(Unpaid') = Cardinality(Unpaid) + u,
         Cardinality(Bound') = Cardinality(Bound) + b,
         Cardinality(Committing') = Cardinality(Committing) + c,
         rack'.available = rack.available + da, Covered' = Covered + dr, rack'.num = rack.num + dn,
         dr >= u + b,
         \/ setbacks' = setbacks /\ dr = u + b /\ da + dr = dn + c
         \/ setbacks' = setbacks + 1
         \/ setbacks' = setbacks /\ setbacks # 0
  PROVE  PresalePiecesFollow'
<1>1. rack.num \in Nat /\ rack.available \in Int /\ Covered \in Int /\ setbacks \in Nat
  BY SparedIsInt DEF PreorderTyped, RackRow, Covered
<1>2. Covered' >= Cardinality(Unpaid') + Cardinality(Bound')
  BY <1>1 DEF PresalePiecesFollow
<1>3. ASSUME setbacks' = 0
      PROVE  /\ Covered' = Cardinality(Unpaid') + Cardinality(Bound')
             /\ rack'.available + Covered' = rack'.num + Cardinality(Committing')
  <2>1. setbacks = 0 /\ dr = u + b /\ da + dr = dn + c
    BY <1>1, <1>3
  <2> QED
    BY <1>1, <2>1 DEF PresalePiecesFollow
<1> QED
  BY <1>2, <1>3 DEF PresalePiecesFollow

-----------------------------------------------------------------------------
(* The steps *)

\* A request or a job begins: no row, no money and no piece moves.
LEMMA ErrandBegins ==
  ASSUME PreorderInv, NEW e \in Errands, NEW o \in Presales,
         PayDeposit(e, o) \/ PayFinal(e, o) \/ CancelPreorderInDepositWindow(e, o) \/ ListUnpaidFinalBefore(e, o)
  PROVE  PreorderInv'
<1> USE DEF PreorderInv
<1>0. UNCHANGED <<season, presale, net, purse, withdrawn, rack, unmoved, misplaced, setbacks>>
  BY DEF PayDeposit, PayFinal, CancelPreorderInDepositWindow, ListUnpaidFinalBefore, Books, NoneMisplaced
<1>1. \/ /\ Begins(e, "reserve", o) /\ presale[o].type = "none"
         /\ \A d \in Errands : errand[d].order # {o}
      \/ \E at \in {"final", "cancel", "forfeit"} : Begins(e, at, o) /\ presale[o].stage = "DepositPaid"
  BY DEF PayDeposit, PayFinal, CancelPreorderInDepositWindow, ListUnpaidFinalBefore, Awaits
<1>2. PICK at \in {"reserve", "final", "cancel", "forfeit"} :
        /\ Begins(e, at, o)
        /\ at = "reserve" => presale[o].type = "none" /\ \A d \in Errands : errand[d].order # {o}
        /\ at # "reserve" => presale[o].stage = "DepositPaid"
  BY <1>1
<1>3. /\ errand' \in [Errands -> ErrandRow]
      /\ \A d \in Errands : d # e => errand'[d] = errand[d]
      /\ errand'[e].at = at /\ errand'[e].order = {o} /\ errand'[e].tries = 0 /\ errand[e].at = "idle"
  BY <1>2, BeginsFacts DEF ErrandAt
<1>4. PreorderTyped'
  BY <1>0, <1>3 DEF PreorderTyped
<1>5. RowsBegin'
  BY <1>0 DEF RowsBegin
<1>6. PlacedOnce'
  <2> SUFFICES ASSUME NEW d \in Errands, NEW p \in Presales,
                      errand'[d].at \in {"reserve", "deposit"}, errand'[d].order = {p}
               PROVE  /\ presale[p] = [stage |-> "None", type |-> "none"]
                      /\ \A c \in Errands : c # d => errand'[c].order # {p}
    BY <1>0 DEF PlacedOnce
  <2>1. CASE d = e
    <3>1. p = o /\ at = "reserve"
      BY <2>1, <1>3
    <3>2. presale[o].type = "none" /\ presale[o].stage = "None"
      BY <3>1, <1>2 DEF RowsBegin
    <3>3. presale[o] = [stage |-> "None", type |-> "none"]
      BY <3>2 DEF PreorderTyped, PresaleRow
    <3> QED
      BY <2>1, <3>1, <3>3, <1>2, <1>3
  <2>2. CASE d # e
    <3>1. /\ presale[p] = [stage |-> "None", type |-> "none"]
          /\ \A c \in Errands : c # d => errand[c].order # {p}
      BY <2>2, <1>3 DEF PlacedOnce
    <3>2. errand[d].order = {p} /\ presale[p].stage = "None"
      BY <2>2, <3>1, <1>3
    <3>3. p # o
      BY <3>2, <1>2
    <3> QED
      BY <2>2, <3>1, <3>3, <1>3
  <2> QED
    BY <2>1, <2>2
<1>7. PresaleMoneyInv'
  BY <1>0, MoneyStays
<1>8. PresalePiecesFollow'
  <2>1. /\ Cardinality(Bound) \in Nat /\ Cardinality(Committing) \in Nat
        /\ Cardinality(Bound') = Cardinality(Bound) + 0
        /\ Cardinality(Committing') = Cardinality(Committing) + 0
    BY <1>3, ErrandMoves DEF Weight
  <2>2. Cardinality(Unpaid) \in Nat /\ Unpaid' = Unpaid
    BY <1>0, SameRows
  <2>3. Covered' = Covered
    BY <1>0 DEF Covered, Spared
  <2> QED
    BY <1>0, <2>1, <2>2, <2>3 DEF PresalePiecesFollow
<1>9. StillClean'
  BY <1>0, <1>3 DEF StillClean
<1> QED
  BY <1>4, <1>5, <1>6, <1>7, <1>8, <1>9

\* What a step of an errand does to the rack, and what an errand holds of it.
RackMoves(dn, da, dr) ==
  /\ rack' \in RackRow
  /\ rack'.num = rack.num + dn
  /\ rack'.available = rack.available + da
  /\ Covered' = Covered + dr

Holds(at)   == Weight(at \in {"deposit", "release", "commit"})
Commits(at) == Weight(at = "commit")

\* The scripts, with reserved long enough and with reserved too short.
LEMMA ScriptFacts ==
  ASSUME PreorderTyped
  PROVE  /\ PieceReserved(rack) \in RackRow
         /\ PieceReserved(rack).num = rack.num
         /\ PieceReserved(rack).available = rack.available - 1
         /\ PieceReserved(rack).reserved = rack.reserved + 1
         /\ rack.reserved >= 1 =>
              /\ PieceReleased(rack) \in RackRow
              /\ PieceReleased(rack).num = rack.num
              /\ PieceReleased(rack).available = rack.available + 1
              /\ PieceReleased(rack).reserved = rack.reserved - 1
         /\ rack.reserved >= 1 =>
              /\ PieceCommitted(rack) \in RackRow
              /\ PieceCommitted(rack).num = rack.num
              /\ PieceCommitted(rack).available = rack.available
              /\ PieceCommitted(rack).reserved = rack.reserved - 1
         /\ rack.reserved = 0 => PieceReleased(rack) = rack /\ PieceCommitted(rack) = rack
<1>1. rack \in RackRow /\ rack.available \in Int /\ rack.reserved \in Nat
  BY DEF PreorderTyped, RackRow
<1>2. PICK n \in Nat, a \in Int, r \in Nat : rack = [num |-> n, available |-> a, reserved |-> r]
  BY <1>1 DEF RackRow
<1>3. rack.num = n /\ rack.available = a /\ rack.reserved = r
  BY <1>2
<1> DEFINE less == [rack EXCEPT !.available = @ - 1]
           more == [rack EXCEPT !.available = @ + 1]
<1>4. /\ less = [num |-> n, available |-> a - 1, reserved |-> r]
      /\ more = [num |-> n, available |-> a + 1, reserved |-> r]
  BY <1>2
<1>5. r = 0 => PieceReleased(rack) = rack /\ PieceCommitted(rack) = rack
  BY <1>3 DEF PieceReleased, PieceCommitted
<1>a. PieceReserved(rack) = [less EXCEPT !.reserved = @ + 1]
  BY DEF PieceReserved
<1>b. ASSUME r >= 1 PROVE PieceReleased(rack) = [more EXCEPT !.reserved = @ - 1]
  <2>1. ~(rack.reserved < 1)
    BY <1>2, <1>3, <1>b
  <2> QED
    BY <2>1, Zenon DEF PieceReleased
<1> HIDE DEF less, more
<1>6. /\ PieceReserved(rack) \in RackRow
      /\ PieceReserved(rack).num = n
      /\ PieceReserved(rack).available = a - 1
      /\ PieceReserved(rack).reserved = r + 1
  <2>1. PieceReserved(rack) = [num |-> n, available |-> a - 1, reserved |-> r + 1]
    BY <1>4, <1>a
  <2> QED
    BY <2>1 DEF RackRow
<1>7. ASSUME r >= 1
      PROVE  /\ PieceReleased(rack) \in RackRow
             /\ PieceReleased(rack).num = n
             /\ PieceReleased(rack).available = a + 1
             /\ PieceReleased(rack).reserved = r - 1
  <2>1. PieceReleased(rack) = [num |-> n, available |-> a + 1, reserved |-> r - 1]
    BY <1>4, <1>7, <1>b
  <2> QED
    BY <1>7, <2>1 DEF RackRow
<1>8. ASSUME r >= 1
      PROVE  /\ PieceCommitted(rack) \in RackRow
             /\ PieceCommitted(rack).num = n
             /\ PieceCommitted(rack).available = a
             /\ PieceCommitted(rack).reserved = r - 1
  <2>1. PieceCommitted(rack) = [num |-> n, available |-> a, reserved |-> r - 1]
    BY <1>2, <1>8 DEF PieceCommitted
  <2> QED
    BY <1>8, <2>1 DEF RackRow
<1> QED
  BY <1>3, <1>5, <1>6, <1>7, <1>8

LEMMA RackFacts ==
  ASSUME PreorderTyped, NoneMisplaced
  PROVE  /\ UNCHANGED rack => RackMoves(0, 0, 0)
         /\ Holds1 => RackMoves(0, -1, 1)
         /\ PutsBack1 => \/ rack.reserved >= 1 /\ RackMoves(0, 1, -1)
                         \/ rack.reserved = 0 /\ RackMoves(0, 0, 0)
         /\ rack' = PieceCommitted(rack) => \/ rack.reserved >= 1 /\ RackMoves(0, 0, -1)
                                            \/ rack.reserved = 0 /\ RackMoves(0, 0, 0)
         /\ rack.num > 0 /\ rack' = [rack EXCEPT !.num = @ - 1] => RackMoves(-1, 0, 0)
<1>1. rack \in RackRow /\ rack.num \in Nat /\ rack.available \in Int /\ rack.reserved \in Nat
  BY DEF PreorderTyped, RackRow
<1>2. Spared \in Int /\ Spared' = Spared
  BY SparedIsInt DEF NoneMisplaced, Spared
<1>3. UNCHANGED rack => RackMoves(0, 0, 0)
  BY <1>1, <1>2 DEF RackMoves, Covered
<1>4. Holds1 => RackMoves(0, -1, 1)
  BY <1>1, <1>2, ScriptFacts DEF Holds1, RackMoves, Covered
<1>5. rack.reserved >= 1 \/ rack.reserved = 0
  BY <1>1
<1>6. PutsBack1 /\ rack.reserved >= 1 => RackMoves(0, 1, -1)
  BY <1>1, <1>2, ScriptFacts DEF PutsBack1, RackMoves, Covered
<1>7. rack' = PieceCommitted(rack) /\ rack.reserved >= 1 => RackMoves(0, 0, -1)
  BY <1>1, <1>2, ScriptFacts DEF RackMoves, Covered
<1>8. rack.reserved = 0 /\ (PutsBack1 \/ rack' = PieceCommitted(rack)) => UNCHANGED rack
  BY ScriptFacts DEF PutsBack1
<1>9. rack.num > 0 /\ rack' = [rack EXCEPT !.num = @ - 1] => RackMoves(-1, 0, 0)
  BY <1>1, <1>2 DEF RackMoves, Covered, RackRow
<1> QED
  BY <1>3, <1>4, <1>5, <1>6, <1>7, <1>8, <1>9

\* The pieces that were held change with the rows, the errand and the rack, and
\* a setback only leaves more of them reserved.
Balanced(u, from, at, dn, da, dr) ==
  /\ dr >= u + Holds(at) - Holds(from)
  /\ \/ /\ setbacks' = setbacks
        /\ dr = u + Holds(at) - Holds(from)
        /\ da + dr = dn + Commits(at) - Commits(from)
     \/ setbacks' = setbacks + 1
     \/ setbacks' = setbacks /\ setbacks # 0

\* What a step of errand e does to the rack when u more orders are unpaid.
Reckoned(e, at, u) ==
  \E dn, da, dr \in Int : RackMoves(dn, da, dr) /\ Balanced(u, errand[e].at, at, dn, da, dr)

LEMMA PresalePiecesKept ==
  ASSUME PreorderTyped, PresalePiecesFollow, NEW e \in Errands, NEW at \in ErrandAt, Sent(e, at),
         NEW u \in Int, NEW dn \in Int, NEW da \in Int, NEW dr \in Int,
         RackMoves(dn, da, dr), Balanced(u, errand[e].at, at, dn, da, dr),
         Cardinality(Unpaid) \in Nat, Cardinality(Unpaid') = Cardinality(Unpaid) + u
  PROVE  PresalePiecesFollow'
<1>1. /\ \A d \in Errands : d # e => errand'[d] = errand[d]
      /\ errand'[e].at = at
  BY SentFacts
<1> DEFINE b == Holds(at) - Holds(errand[e].at)
           c == Commits(at) - Commits(errand[e].at)
<1>2. b \in Int /\ c \in Int /\ Holds(at) \in Int /\ Holds(errand[e].at) \in Int
      /\ Commits(at) \in Int /\ Commits(errand[e].at) \in Int
  BY DEF Holds, Commits, Weight
<1>3. /\ Cardinality(Bound) \in Nat /\ Cardinality(Bound') \in Nat
      /\ Cardinality(Committing) \in Nat /\ Cardinality(Committing') \in Nat
      /\ Cardinality(Bound') = Cardinality(Bound) + Holds(at) - Holds(errand[e].at)
      /\ Cardinality(Committing') = Cardinality(Committing) + Commits(at) - Commits(errand[e].at)
  BY <1>1, ErrandMoves DEF Holds, Commits
<1>4. /\ Cardinality(Bound') = Cardinality(Bound) + b
      /\ Cardinality(Committing') = Cardinality(Committing) + c
  BY <1>2, <1>3
<1>5. /\ dr >= u + b
      /\ \/ setbacks' = setbacks /\ dr = u + b /\ da + dr = dn + c
         \/ setbacks' = setbacks + 1
         \/ setbacks' = setbacks /\ setbacks # 0
  BY <1>2 DEF Balanced
<1>6. rack'.num = rack.num + dn /\ rack'.available = rack.available + da /\ Covered' = Covered + dr
  BY DEF RackMoves
<1> HIDE DEF b, c
<1> QED
  BY <1>2, <1>3, <1>4, <1>5, <1>6, PresalePiecesMove

LEMMA SetbackCounts ==
  PreorderTyped /\ (Smooth \/ Setback) => setbacks' \in Nat /\ (setbacks' = 0 => setbacks = 0)
BY DEF PreorderTyped, Smooth, Setback

\* Nothing is flagged or misplaced before something has failed.
StraysLate == unmoved' \subseteq Presales /\ misplaced' \in Nat /\ (NoneMisplaced \/ setbacks' # 0)

LEMMA NoneIsLate == PreorderTyped /\ NoneMisplaced => StraysLate
BY DEF PreorderTyped, NoneMisplaced, StraysLate

\* A step that changes one row, of the errand's own order or of one that is in
\* nobody's hands, with its money and its piece.
LEMMA StepKeeps ==
  ASSUME PreorderInv, NEW e \in Errands, NEW at \in ErrandAt, Sent(e, at), Smooth \/ Setback,
         at \in {"reserve", "deposit"} => errand[e].at = "reserve",
         UNCHANGED <<season, withdrawn>>, StraysLate,
         presale' \in [Presales -> PresaleRow], RowsBegin',
         net' \in [Presales -> Int], purse' \in [Accounts -> Nat], PresaleMoneyInv',
         NEW u \in Int, Reckoned(e, at, u),
         Cardinality(Unpaid) \in Nat, Cardinality(Unpaid') = Cardinality(Unpaid) + u,
         \A o \in Presales, d \in Errands :
           /\ presale'[o] # presale[o]
           /\ errand[d].at \in {"reserve", "deposit"} /\ errand[d].order = {o}
           => d = e /\ at \notin {"reserve", "deposit"}
  PROVE  PreorderInv'
<1> USE DEF PreorderInv
<1>1. /\ errand' \in [Errands -> ErrandRow]
      /\ \A d \in Errands : d # e => errand'[d] = errand[d]
      /\ errand'[e].at = at /\ errand'[e].order = IF at = "idle" THEN {} ELSE errand[e].order
      /\ errand'[e].tries \in {0, errand[e].tries}
  BY SentFacts
<1>0. PICK dn, da, dr \in Int : RackMoves(dn, da, dr) /\ Balanced(u, errand[e].at, at, dn, da, dr)
  BY DEF Reckoned
<1>2. PreorderTyped'
  BY <1>0, <1>1, SetbackCounts DEF PreorderTyped, RackMoves, StraysLate
<1>5. StillClean'
  BY <1>1, SetbackCounts DEF StillClean, NoneMisplaced, StraysLate
<1>3. PresalePiecesFollow'
  BY <1>0, PresalePiecesKept
<1>4. PlacedOnce'
  <2>1. \A o \in Presales : errand'[e].order = {o} =>
           /\ errand[e].order = {o}
           /\ errand'[e].at \in {"reserve", "deposit"} => errand[e].at \in {"reserve", "deposit"}
    BY <1>1
  <2>2. ASSUME NEW o \in Presales, NEW d \in Errands,
               presale'[o] # presale[o], errand'[d].at \in {"reserve", "deposit"}
        PROVE  errand'[d].order # {o}
    <3> SUFFICES ASSUME errand'[d].order = {o} PROVE FALSE
      OBVIOUS
    <3>1. errand[d].at \in {"reserve", "deposit"} /\ errand[d].order = {o}
      BY <1>1, <2>1, <2>2
    <3> QED
      BY <1>1, <2>2, <3>1
  <2> QED
    BY <1>1, <2>1, <2>2, PlacedKept
<1> QED
  BY <1>2, <1>3, <1>4, <1>5

\* A step of an errand that leaves the books alone.
LEMMA QuietStep ==
  ASSUME PreorderInv, NEW e \in Errands, NEW at \in ErrandAt, Sent(e, at), Smooth \/ Setback,
         at \in {"reserve", "deposit"} => errand[e].at = "reserve",
         UNCHANGED <<season, withdrawn, presale, net, purse>>, StraysLate,
         NEW dn \in Int, NEW da \in Int, NEW dr \in Int,
         RackMoves(dn, da, dr), Balanced(0, errand[e].at, at, dn, da, dr)
  PROVE  PreorderInv'
<1>1. PresaleMoneyInv'
  BY MoneyStays DEF PreorderInv
<1>2. RowsBegin'
  BY DEF PreorderInv, RowsBegin
<1>3. Cardinality(Unpaid) \in Nat /\ Cardinality(Unpaid') = Cardinality(Unpaid) + 0
  BY SameRows
<1>4. presale' \in [Presales -> PresaleRow] /\ net' \in [Presales -> Int] /\ purse' \in [Accounts -> Nat]
  BY DEF PreorderInv, PreorderTyped
<1>5. Reckoned(e, at, 0) /\ 0 \in Int
  BY DEF Reckoned
<1> QED
  BY <1>1, <1>2, <1>3, <1>4, <1>5, StepKeeps

LEMMA ReserveKeeps ==
  ASSUME PreorderInv, NEW e \in Errands, ReservePiece(e)
  PROVE  PreorderInv'
<1>1. UNCHANGED <<season, presale, net, purse, withdrawn>> /\ errand[e].at = "reserve" /\ NoneMisplaced
  BY DEF ReservePiece, Books
<1>2. PreorderTyped /\ {"deposit", "idle"} \subseteq ErrandAt /\ StraysLate
  BY <1>1, NoneIsLate DEF PreorderInv, ErrandAt
<1>3. CASE Smooth /\ Holds1 /\ Sent(e, "deposit")
  <2>1. Balanced(0, errand[e].at, "deposit", 0, -1, 1)
    BY <1>1, <1>3 DEF Balanced, Smooth, Holds, Commits, Weight
  <2>2. RackMoves(0, -1, 1)
    BY <1>1, <1>2, <1>3, RackFacts
  <2> QED
    BY <1>1, <1>2, <1>3, <2>1, <2>2, QuietStep
<1>4. CASE Smooth /\ UNCHANGED rack /\ Sent(e, "idle")
  <2>1. Balanced(0, errand[e].at, "idle", 0, 0, 0)
    BY <1>1, <1>4 DEF Balanced, Smooth, Holds, Commits, Weight
  <2>2. RackMoves(0, 0, 0)
    BY <1>1, <1>2, <1>4, RackFacts
  <2> QED
    BY <1>1, <1>2, <1>4, <2>1, <2>2, QuietStep
<1>5. CASE Setback /\ Holds1 /\ Sent(e, "idle")
  <2>1. Balanced(0, errand[e].at, "idle", 0, -1, 1)
    BY <1>1, <1>5 DEF Balanced, Setback, Holds, Commits, Weight
  <2>2. RackMoves(0, -1, 1)
    BY <1>1, <1>2, <1>5, RackFacts
  <2>3. -1 \in Int /\ 0 \in Int /\ 1 \in Int /\ "idle" \in ErrandAt
    BY <1>2
  <2> QED
    BY <1>1, <1>2, <1>5, <2>1, <2>2, <2>3, QuietStep, ZenonT(40)
<1>6. CASE Setback /\ UNCHANGED rack /\ Sent(e, "idle")
  <2>1. Balanced(0, errand[e].at, "idle", 0, 0, 0)
    BY <1>1, <1>6 DEF Balanced, Setback, Holds, Commits, Weight
  <2>2. RackMoves(0, 0, 0)
    BY <1>1, <1>2, <1>6, RackFacts
  <2> QED
    BY <1>1, <1>2, <1>6, <2>1, <2>2, QuietStep
<1> QED
  BY <1>3, <1>4, <1>5, <1>6 DEF ReservePiece

LEMMA UnpaidMoves ==
  ASSUME NEW o \in Presales, NEW stage, NEW type,
         presale'[o] = [stage |-> stage, type |-> type],
         \A p \in Presales : p # o => presale'[p] = presale[p]
  PROVE  /\ Cardinality(Unpaid) \in Nat /\ Cardinality(Unpaid') \in Nat
         /\ Cardinality(Unpaid') = Cardinality(Unpaid)
              + (Weight(stage = "DepositPaid" /\ type = "WaitPay") - Weight(Awaits(o)))
<1>1. presale'[o] = [stage |-> "DepositPaid", type |-> "WaitPay"]
        <=> (stage = "DepositPaid" /\ type = "WaitPay")
  OBVIOUS
<1>2. /\ Cardinality(Unpaid) \in Nat /\ Cardinality(Unpaid') \in Nat
      /\ Cardinality(Unpaid') = Cardinality(Unpaid)
           + Weight(presale'[o] = [stage |-> "DepositPaid", type |-> "WaitPay"])
           - Weight(presale[o] = [stage |-> "DepositPaid", type |-> "WaitPay"])
  BY RowMoves
<1> QED
  BY <1>1, <1>2 DEF Weight, Awaits

\* The row of an order moves on when its errand does what it was sent for.
LEMMA RowStep ==
  ASSUME PreorderInv, NEW e \in Errands, NEW o \in Presales, errand[e].order = {o},
         errand[e].at = "deposit" \/ Awaits(o),
         NEW at \in {"idle", "release", "commit"}, Sent(e, at), Smooth \/ Setback, StraysLate,
         NEW stage \in {"None", "DepositPaid", "FinalPaid", "Forfeited"},
         NEW type \in {"WaitPay", "WaitShip", "Closed"}, Row(o, stage, type),
         UNCHANGED <<season, withdrawn>>,
         net' \in [Presales -> Int], purse' \in [Accounts -> Nat], PresaleMoneyInv',
         NEW u \in Int,
         \/ errand[e].at = "deposit" /\ stage = "DepositPaid" /\ type = "WaitPay" /\ u = 1
         \/ Awaits(o) /\ stage # "DepositPaid" /\ u = -1,
         Reckoned(e, at, u)
  PROVE  PreorderInv'
<1>t. PreorderTyped /\ at \in ErrandAt
  BY DEF PreorderInv, ErrandAt
<1>1. /\ presale' \in [Presales -> PresaleRow]
      /\ presale'[o] = [stage |-> stage, type |-> type]
      /\ \A p \in Presales : p # o => presale'[p] = presale[p]
  BY <1>t, RowFacts
<1>2. RowsBegin'
  BY <1>1 DEF PreorderInv, RowsBegin
<1>3. Cardinality(Unpaid) \in Nat /\ Cardinality(Unpaid') = Cardinality(Unpaid) + u
  <2>1. errand[e].at = "deposit" => presale[o] = [stage |-> "None", type |-> "none"]
    BY DEF PreorderInv, PlacedOnce
  <2>2. errand[e].at = "deposit" => ~Awaits(o)
    BY <2>1 DEF Awaits
  <2>3. u = Weight(stage = "DepositPaid" /\ type = "WaitPay") - Weight(Awaits(o))
    BY <2>2 DEF Weight
  <2> QED
    BY <1>1, <2>3, UnpaidMoves
<1>4. ASSUME NEW p \in Presales, NEW d \in Errands, presale'[p] # presale[p],
             errand[d].at \in {"reserve", "deposit"}, errand[d].order = {p}
      PROVE  d = e /\ at \notin {"reserve", "deposit"}
  <2>1. p = o
    BY <1>1, <1>4
  <2>2. presale[o] = [stage |-> "None", type |-> "none"] /\ \A c \in Errands : c # d => errand[c].order # {o}
    BY <1>4, <2>1 DEF PreorderInv, PlacedOnce
  <2>3. ~Awaits(o)
    BY <2>2 DEF Awaits
  <2> QED
    BY <2>2, <2>3
<1>5. \A p \in Presales, d \in Errands :
        presale'[p] # presale[p] /\ errand[d].at \in {"reserve", "deposit"} /\ errand[d].order = {p}
        => d = e /\ at \notin {"reserve", "deposit"}
  BY <1>4
<1>6. at \in {"reserve", "deposit"} => errand[e].at = "reserve"
  OBVIOUS
<1> QED
  BY <1>t, <1>1, <1>2, <1>3, <1>5, <1>6, StepKeeps

\* The deposit: the order begins to wait for the rest, with its piece in reserved.
LEMMA DepositKeeps ==
  ASSUME PreorderInv, NEW e \in Errands, NEW o \in Presales, DepositTx(e, o)
  PROVE  PreorderInv'
<1>1. /\ UNCHANGED <<season, withdrawn, rack, unmoved>>
      /\ errand[e].at = "deposit" /\ errand[e].order = {o}
  BY DEF DepositTx, On
<1>2. PreorderTyped /\ {"release", "idle"} \subseteq ErrandAt
  BY DEF PreorderInv, ErrandAt
<1>3. ASSUME DebitUser(o, DepositCents), Row(o, "DepositPaid", "WaitPay"),
             \/ Smooth /\ Sent(e, "idle") /\ UNCHANGED misplaced
             \/ Setback /\ Sent(e, "release") /\ misplaced' = misplaced + 1
      PROVE  PreorderInv'
  <2>1. presale[o] = [stage |-> "None", type |-> "none"]
    BY <1>1 DEF PreorderInv, PlacedOnce
  <2>3. /\ presale'[o] = [stage |-> "DepositPaid", type |-> "WaitPay"]
        /\ \A p \in Presales : p # o => presale'[p] = presale[p]
    BY <1>2, <1>3, RowFacts
  <2>4. Dues(presale'[o].stage) = Dues(presale[o].stage) + DepositCents
    BY <2>1, <2>3, PreorderConstants DEF Dues
  <2>5. /\ net' \in [Presales -> Int] /\ purse' \in [Accounts -> Nat]
        /\ net'[o] = net[o] + DepositCents /\ \A p \in Presales : p # o => net'[p] = net[p]
        /\ o \in SelfBought => purse' = purse
        /\ o \notin SelfBought => /\ purse'[o] = purse[o] - DepositCents
                                  /\ purse'["boss"] = purse["boss"] + DepositCents
                                  /\ \A a \in Accounts : a \notin {o, "boss"} => purse'[a] = purse[a]
    BY <1>2, <1>3, DebitFacts, PreorderConstants
  <2>6. PresaleMoneyInv /\ DepositCents \in Int
    BY PreorderConstants DEF PreorderInv
  <2>7. PresaleMoneyInv'
    BY <1>1, <1>2, <2>3, <2>4, <2>5, <2>6, MoneyMoves
  <2>9. CASE Smooth /\ Sent(e, "idle") /\ UNCHANGED misplaced
    <3>1. NoneMisplaced
      BY <1>1, <2>9 DEF NoneMisplaced
    <3>2. Balanced(1, errand[e].at, "idle", 0, 0, 0)
      BY <1>1, <2>9 DEF Balanced, Smooth, Holds, Commits, Weight
    <3>3. RackMoves(0, 0, 0) /\ StraysLate
      BY <1>1, <1>2, <3>1, RackFacts, NoneIsLate
    <3>4. Reckoned(e, "idle", 1) /\ 1 \in Int
      BY <3>2, <3>3 DEF Reckoned
    <3> QED
      BY <1>1, <1>3, <2>5, <2>7, <2>9, <3>3, <3>4, RowStep
  <2>10. CASE Setback /\ Sent(e, "release") /\ misplaced' = misplaced + 1
    <3>1. StraysLate
      BY <1>1, <1>2, <2>10 DEF StraysLate, PreorderTyped, Setback
    <3>2. Balanced(1, errand[e].at, "release", 0, 0, 1)
      BY <1>1, <2>10 DEF Balanced, Setback, Holds, Commits, Weight
    <3>3. RackMoves(0, 0, 1)
      BY <1>1, <1>2, <2>10, SparedIsInt DEF RackMoves, Covered, Spared, PreorderTyped, RackRow
    <3>4. Reckoned(e, "release", 1) /\ 1 \in Int
      BY <3>2, <3>3 DEF Reckoned
    <3> QED
      BY <1>1, <1>3, <2>5, <2>7, <2>10, <3>1, <3>4, RowStep
  <2> QED
    BY <1>3, <2>9, <2>10
<1>4. CASE UNCHANGED <<Books, misplaced>> /\ Sent(e, "release") /\ (Smooth \/ Setback)
  <2>1. Balanced(0, errand[e].at, "release", 0, 0, 0)
    BY <1>1, <1>4 DEF Balanced, Smooth, Setback, Holds, Commits, Weight
  <2>2. NoneMisplaced
    BY <1>1, <1>4 DEF NoneMisplaced
  <2>3. RackMoves(0, 0, 0) /\ StraysLate
    BY <1>1, <1>2, <2>2, RackFacts, NoneIsLate
  <2> QED
    BY <1>1, <1>2, <1>4, <2>1, <2>3, QuietStep DEF Books
<1> QED
  BY <1>3, <1>4 DEF DepositTx

\* The rest: a piece leaves num and is on its way out of reserved.
LEMMA FinalKeeps ==
  ASSUME PreorderInv, NEW e \in Errands, NEW o \in Presales, FinalTx(e, o)
  PROVE  PreorderInv'
<1>1. /\ UNCHANGED <<season, withdrawn>> /\ NoneMisplaced
      /\ errand[e].at = "final" /\ errand[e].order = {o}
  BY DEF FinalTx, On
<1>2. PreorderTyped /\ {"commit", "idle"} \subseteq ErrandAt /\ StraysLate
  BY <1>1, NoneIsLate DEF PreorderInv, ErrandAt
<1>3. CASE /\ Awaits(o) /\ rack.num > 0 /\ Smooth /\ DebitUser(o, FinalCents)
           /\ Row(o, "FinalPaid", "WaitShip") /\ rack' = [rack EXCEPT !.num = @ - 1] /\ Sent(e, "commit")
  <2>1. presale[o] = [stage |-> "DepositPaid", type |-> "WaitPay"]
    BY <1>3 DEF Awaits
  <2>2. RackMoves(-1, 0, 0)
    BY <1>1, <1>2, <1>3, RackFacts
  <2>3. /\ presale'[o] = [stage |-> "FinalPaid", type |-> "WaitShip"]
        /\ \A p \in Presales : p # o => presale'[p] = presale[p]
    BY <1>2, <1>3, RowFacts
  <2>4. Dues(presale'[o].stage) = Dues(presale[o].stage) + FinalCents
    BY <2>1, <2>3, PreorderConstants DEF Dues
  <2>5. /\ net' \in [Presales -> Int] /\ purse' \in [Accounts -> Nat]
        /\ net'[o] = net[o] + FinalCents /\ \A p \in Presales : p # o => net'[p] = net[p]
        /\ o \in SelfBought => purse' = purse
        /\ o \notin SelfBought => /\ purse'[o] = purse[o] - FinalCents
                                  /\ purse'["boss"] = purse["boss"] + FinalCents
                                  /\ \A a \in Accounts : a \notin {o, "boss"} => purse'[a] = purse[a]
    BY <1>2, <1>3, DebitFacts, PreorderConstants
  <2>6. PresaleMoneyInv /\ FinalCents \in Int
    BY PreorderConstants DEF PreorderInv
  <2>7. PresaleMoneyInv'
    BY <1>1, <1>2, <2>3, <2>4, <2>5, <2>6, MoneyMoves
  <2>8. -1 \in Int
    OBVIOUS
  <2>9. Balanced(-1, errand[e].at, "commit", -1, 0, 0)
    BY <1>1, <1>3 DEF Balanced, Smooth, Holds, Commits, Weight
  <2> DEFINE m == -1
  <2>a. m \in Int /\ m = -1 /\ Reckoned(e, "commit", m)
    BY <2>2, <2>8, <2>9 DEF Reckoned
  <2>b. Awaits(o) /\ Smooth /\ Row(o, "FinalPaid", "WaitShip") /\ Sent(e, "commit")
    BY <1>3
  <2> HIDE DEF m
  <2> QED
    BY <1>1, <1>2, <2>a, <2>b, <2>5, <2>7, RowStep
<1>4. CASE UNCHANGED <<Books, rack>> /\ Sent(e, "idle") /\ (Smooth \/ Setback)
  <2>1. Balanced(0, errand[e].at, "idle", 0, 0, 0)
    BY <1>1, <1>4 DEF Balanced, Smooth, Setback, Holds, Commits, Weight
  <2>2. RackMoves(0, 0, 0)
    BY <1>1, <1>2, <1>4, RackFacts
  <2> QED
    BY <1>1, <1>2, <1>4, <2>1, <2>2, QuietStep DEF Books
<1> QED
  BY <1>3, <1>4 DEF FinalTx

\* A cancellation: the deposit goes back and its piece is to be released.
LEMMA CancelKeeps ==
  ASSUME PreorderInv, NEW e \in Errands, NEW o \in Presales, CancelTx(e, o)
  PROVE  PreorderInv'
<1>1. /\ UNCHANGED <<season, withdrawn, rack>> /\ NoneMisplaced
      /\ errand[e].at = "cancel" /\ errand[e].order = {o}
  BY DEF CancelTx, On
<1>2. PreorderTyped /\ {"release", "idle"} \subseteq ErrandAt /\ RackMoves(0, 0, 0) /\ StraysLate
  BY <1>1, RackFacts, NoneIsLate DEF PreorderInv, ErrandAt
<1>3. CASE Awaits(o) /\ SellerCovers /\ Smooth /\ RefundUser(o) /\ Row(o, "None", "Closed") /\ Sent(e, "release")
  <2>1. presale[o] = [stage |-> "DepositPaid", type |-> "WaitPay"]
    BY <1>3 DEF Awaits
  <2>3. /\ presale'[o] = [stage |-> "None", type |-> "Closed"]
        /\ \A p \in Presales : p # o => presale'[p] = presale[p]
    BY <1>2, <1>3, RowFacts
  <2>4. Dues(presale'[o].stage) = Dues(presale[o].stage) + (-DepositCents)
    BY <2>1, <2>3, PreorderConstants DEF Dues
  <2>5. /\ net' \in [Presales -> Int] /\ purse' \in [Accounts -> Nat]
        /\ net'[o] = net[o] - DepositCents /\ \A p \in Presales : p # o => net'[p] = net[p]
        /\ o \in SelfBought => purse' = purse
        /\ o \notin SelfBought => /\ purse'[o] = purse[o] + DepositCents
                                  /\ purse'["boss"] = purse["boss"] - DepositCents
                                  /\ \A a \in Accounts : a \notin {o, "boss"} => purse'[a] = purse[a]
    BY <1>2, <1>3, RefundFacts
  <2>6. PresaleMoneyInv /\ -DepositCents \in Int /\ net[o] \in Int
    BY <1>2, PreorderConstants DEF PreorderInv, PreorderTyped
  <2>a. net'[o] = net[o] + (-DepositCents)
    BY <2>5, <2>6, PreorderConstants
  <2>b. o \notin SelfBought => /\ purse'[o] = purse[o] - (-DepositCents)
                               /\ purse'["boss"] = purse["boss"] + (-DepositCents)
    <3>1. purse["boss"] \in Nat /\ (o \notin SelfBought => purse[o] \in Nat)
      BY <1>2 DEF PreorderTyped, Accounts
    <3> QED
      BY <2>5, <3>1, PreorderConstants
  <2>7. PresaleMoneyInv'
    <3> DEFINE c == -DepositCents
    <3>1. /\ c \in Int /\ net'[o] = net[o] + c /\ Dues(presale'[o].stage) = Dues(presale[o].stage) + c
          /\ o \notin SelfBought => purse'[o] = purse[o] - c /\ purse'["boss"] = purse["boss"] + c
      BY <2>4, <2>6, <2>a, <2>b
    <3> HIDE DEF c
    <3> QED
      BY <1>1, <1>2, <2>3, <2>5, <2>6, <3>1, MoneyMoves
  <2>8. -1 \in Int
    OBVIOUS
  <2>9. Balanced(-1, errand[e].at, "release", 0, 0, 0)
    BY <1>1, <1>3 DEF Balanced, Smooth, Holds, Commits, Weight
  <2> DEFINE m == -1
  <2>m. m \in Int /\ m = -1 /\ Reckoned(e, "release", m)
    BY <1>2, <2>8, <2>9 DEF Reckoned
  <2> HIDE DEF m
  <2> QED
    BY <1>1, <1>2, <1>3, <2>5, <2>7, <2>m, RowStep
<1>4. CASE UNCHANGED Books /\ Sent(e, "idle") /\ (Smooth \/ Setback)
  <2>1. Balanced(0, errand[e].at, "idle", 0, 0, 0)
    BY <1>1, <1>4 DEF Balanced, Smooth, Setback, Holds, Commits, Weight
  <2> QED
    BY <1>1, <1>2, <1>4, <2>1, QuietStep DEF Books
<1> QED
  BY <1>3, <1>4 DEF CancelTx

\* The forfeit: the seller keeps the deposit and the piece is to be released.
LEMMA ForfeitKeeps ==
  ASSUME PreorderInv, NEW e \in Errands, NEW o \in Presales, ForfeitOne(e, o)
  PROVE  PreorderInv'
<1>1. /\ UNCHANGED <<season, withdrawn, rack, net, purse>> /\ NoneMisplaced
      /\ errand[e].at = "forfeit" /\ errand[e].order = {o}
  BY DEF ForfeitOne, On
<1>2. PreorderTyped /\ {"release", "idle"} \subseteq ErrandAt /\ RackMoves(0, 0, 0) /\ StraysLate
  BY <1>1, RackFacts, NoneIsLate DEF PreorderInv, ErrandAt
<1>3. CASE Awaits(o) /\ Smooth /\ Row(o, "Forfeited", "Closed") /\ Sent(e, "release")
  <2>1. presale[o] = [stage |-> "DepositPaid", type |-> "WaitPay"]
    BY <1>3 DEF Awaits
  <2>2. /\ presale'[o] = [stage |-> "Forfeited", type |-> "Closed"]
        /\ \A p \in Presales : p # o => presale'[p] = presale[p]
    BY <1>2, <1>3, RowFacts
  <2>3. \A p \in Presales : Dues(presale'[p].stage) = Dues(presale[p].stage)
    BY <2>1, <2>2 DEF Dues
  <2>4. PresaleMoneyInv'
    BY <1>1, <2>3, MoneyStays DEF PreorderInv
  <2>5. net' \in [Presales -> Int] /\ purse' \in [Accounts -> Nat]
    BY <1>1, <1>2 DEF PreorderTyped
  <2>6. -1 \in Int
    OBVIOUS
  <2>7. Balanced(-1, errand[e].at, "release", 0, 0, 0)
    BY <1>1, <1>3 DEF Balanced, Smooth, Holds, Commits, Weight
  <2> DEFINE m == -1
  <2>m. m \in Int /\ m = -1 /\ Reckoned(e, "release", m)
    BY <1>2, <2>6, <2>7 DEF Reckoned
  <2> HIDE DEF m
  <2> QED
    BY <1>1, <1>2, <1>3, <2>4, <2>5, <2>m, RowStep
<1>4. CASE UNCHANGED presale /\ Sent(e, "idle") /\ (Smooth \/ Setback)
  <2>1. Balanced(0, errand[e].at, "idle", 0, 0, 0)
    BY <1>1, <1>4 DEF Balanced, Smooth, Setback, Holds, Commits, Weight
  <2> QED
    BY <1>1, <1>2, <1>4, <2>1, QuietStep
<1> QED
  BY <1>3, <1>4 DEF ForfeitOne

\* While nothing has failed, a request that is bound to a piece finds it in
\* reserved.
LEMMA BoundHasPiece ==
  ASSUME PreorderInv, NEW e \in Errands, errand[e].at \in {"deposit", "release", "commit"}, rack.reserved = 0
  PROVE  setbacks # 0
<1>1. e \in Bound /\ Bound \in SUBSET Errands
  BY DEF Bound
<1>2. Cardinality(Unpaid) \in Nat /\ Cardinality(Bound) \in Nat /\ IsFiniteSet(Bound)
  BY <1>1, FiniteParts, PreorderConstants, FS_Subset DEF Unpaid
<1>3. Cardinality(Bound) # 0
  BY <1>1, <1>2, FS_EmptySet
<1>4. setbacks = 0 => Cardinality(unmoved) = 0 /\ misplaced = 0
  BY FS_EmptySet DEF PreorderInv, StillClean
<1> QED
  BY <1>2, <1>3, <1>4 DEF PreorderInv, PresalePiecesFollow, Covered, Spared

LEMMA PieceKeeps ==
  ASSUME PreorderInv, NEW e \in Errands, MovePiece(e)
  PROVE  PreorderInv'
<1>1. UNCHANGED <<season, presale, net, purse, withdrawn>> /\ Sent(e, "idle") /\ NoneMisplaced
  BY DEF MovePiece, Books
<1>2. PreorderTyped /\ "idle" \in ErrandAt /\ StraysLate
  BY <1>1, NoneIsLate DEF PreorderInv, ErrandAt
<1>3. ASSUME errand[e].at = "release", PutsBack1, Smooth \/ Setback
      PROVE  PreorderInv'
  <2>1. CASE rack.reserved >= 1 /\ RackMoves(0, 1, -1)
    <3>1. Balanced(0, errand[e].at, "idle", 0, 1, -1)
      BY <1>3 DEF Balanced, Smooth, Setback, Holds, Commits, Weight
    <3> QED
      BY <1>1, <1>2, <1>3, <2>1, <3>1, QuietStep
  <2>2. CASE rack.reserved = 0 /\ RackMoves(0, 0, 0)
    <3>1. setbacks # 0
      BY <1>3, <2>2, BoundHasPiece
    <3>2. Balanced(0, errand[e].at, "idle", 0, 0, 0)
      BY <1>3, <3>1 DEF Balanced, Smooth, Setback, Holds, Commits, Weight
    <3> QED
      BY <1>1, <1>2, <1>3, <2>2, <3>2, QuietStep
  <2> QED
    BY <1>1, <1>2, <1>3, <2>1, <2>2, RackFacts
<1>4. CASE errand[e].at = "commit" /\ Smooth /\ rack' = PieceCommitted(rack)
  <2>1. CASE rack.reserved >= 1 /\ RackMoves(0, 0, -1)
    <3>1. Balanced(0, errand[e].at, "idle", 0, 0, -1)
      BY <1>4 DEF Balanced, Smooth, Holds, Commits, Weight
    <3> QED
      BY <1>1, <1>2, <1>4, <2>1, <3>1, QuietStep
  <2>2. CASE rack.reserved = 0 /\ RackMoves(0, 0, 0)
    <3>1. setbacks # 0
      BY <1>4, <2>2, BoundHasPiece
    <3>2. Balanced(0, errand[e].at, "idle", 0, 0, 0)
      BY <1>4, <3>1 DEF Balanced, Smooth, Holds, Commits, Weight
    <3> QED
      BY <1>1, <1>2, <1>4, <2>2, <3>2, QuietStep
  <2> QED
    BY <1>1, <1>2, <1>4, <2>1, <2>2, RackFacts
<1>5. CASE errand[e].at = "release" /\ Setback /\ UNCHANGED rack
  <2>1. Balanced(0, errand[e].at, "idle", 0, 0, 0)
    BY <1>5 DEF Balanced, Setback, Holds, Commits, Weight
  <2>2. RackMoves(0, 0, 0)
    BY <1>1, <1>2, <1>5, RackFacts
  <2> QED
    BY <1>1, <1>2, <1>5, <2>1, <2>2, QuietStep
<1> QED
  BY <1>3, <1>4, <1>5 DEF MovePiece

\* Flags come and go one by one.
LEMMA FlagFacts ==
  ASSUME PreorderTyped, NEW S \in SUBSET Presales, Cardinality(S) <= 1
  PROVE  /\ Cardinality(unmoved \cup S) \in Nat
         /\ Cardinality(unmoved \cup S) <= Cardinality(unmoved) + 1
         /\ \A o \in unmoved : Cardinality(unmoved \ {o}) = Cardinality(unmoved) - 1
<1>1. IsFiniteSet(unmoved) /\ IsFiniteSet(S) /\ Cardinality(unmoved) \in Nat
  BY PreorderConstants, FS_Subset, FiniteParts DEF PreorderTyped
<1>2. /\ IsFiniteSet(unmoved \cup S)
      /\ Cardinality(unmoved \cup S) = Cardinality(unmoved) + Cardinality(S) - Cardinality(unmoved \cap S)
  BY <1>1, FS_Union
<1>3. Cardinality(unmoved \cap S) \in Nat /\ Cardinality(S) \in Nat /\ Cardinality(unmoved \cup S) \in Nat
  BY <1>1, <1>2, FS_Intersection, FS_CardinalityType
<1>4. \A o \in unmoved : Cardinality(unmoved \ {o}) = Cardinality(unmoved) - 1
  BY <1>1, FS_RemoveElement
<1> QED
  BY <1>1, <1>2, <1>3, <1>4

\* A try that fails, whether or not the script has run: what it took is counted
\* as misplaced.
LEMMA TryKeeps ==
  ASSUME PreorderInv, rack' \in {rack, PieceCommitted(rack)},
         misplaced' = misplaced + (rack.reserved - rack'.reserved)
  PROVE  /\ rack' \in RackRow /\ misplaced' \in Nat
         /\ rack'.num = rack.num /\ rack'.available = rack.available
         /\ rack'.reserved \in {rack.reserved, rack.reserved - 1}
         /\ rack'.reserved + misplaced' = rack.reserved + misplaced
<1>1. PreorderTyped /\ rack \in RackRow /\ rack.reserved \in Nat /\ misplaced \in Nat
  BY DEF PreorderInv, PreorderTyped, RackRow
<1>2. rack.reserved >= 1 \/ rack.reserved = 0
  BY <1>1
<1>3. CASE rack' = rack
  BY <1>1, <1>3
<1>4. CASE rack' = PieceCommitted(rack) /\ rack.reserved >= 1
  BY <1>1, <1>4, ScriptFacts
<1>5. CASE rack' = PieceCommitted(rack) /\ rack.reserved = 0
  BY <1>1, <1>3, <1>5, ScriptFacts
<1> QED
  BY <1>2, <1>3, <1>4, <1>5

\* A step after which every request is where it was.
LEMMA StandingStep ==
  ASSUME PreorderInv, errand' \in [Errands -> ErrandRow],
         \A e \in Errands : errand'[e].at = errand[e].at /\ errand'[e].order = errand[e].order,
         UNCHANGED <<season, presale, net, purse, withdrawn>>,
         rack' \in RackRow, rack'.num = rack.num, rack'.available = rack.available,
         Covered' \in Int, Covered' >= Covered,
         unmoved' \subseteq Presales, misplaced' \in Nat, setbacks' \in Nat, setbacks' # 0
  PROVE  PreorderInv'
<1> USE DEF PreorderInv
<1>1. PreorderTyped' /\ StillClean'
  BY DEF PreorderTyped, StillClean
<1>2. RowsBegin' /\ PlacedOnce'
  BY DEF RowsBegin, PlacedOnce
<1>3. PresaleMoneyInv'
  BY MoneyStays
<1>4. Unpaid' = Unpaid /\ Bound' = Bound
  BY SameRows DEF Bound
<1>5. Cardinality(Unpaid) \in Nat /\ Cardinality(Bound) \in Nat /\ Covered \in Int
  BY FiniteParts, PreorderConstants, SparedIsInt DEF Unpaid, Bound, Covered, PreorderTyped, RackRow
<1>6. PresalePiecesFollow'
  BY <1>4, <1>5 DEF PresalePiecesFollow
<1> QED
  BY <1>1, <1>2, <1>3, <1>6

LEMMA TryFailsFacts ==
  ASSUME PreorderInv, NEW e \in Errands, TryFails(errand[e].tries)
  PROVE  setbacks' \in Nat /\ setbacks' # 0 /\ (Smooth \/ Setback)
         /\ (setbacks' = setbacks + 1 \/ (setbacks' = setbacks /\ setbacks # 0))
BY DEF PreorderInv, PreorderTyped, StillClean, TryFails, Smooth, Setback

LEMMA CommitFailsKeeps ==
  ASSUME PreorderInv, NEW e \in Errands, FinalCommitFails(e)
  PROVE  PreorderInv'
<1>1. /\ UNCHANGED <<season, presale, net, purse, withdrawn>> /\ errand[e].at = "commit"
      /\ TryFails(errand[e].tries)
  BY DEF FinalCommitFails, Books
<1>2. /\ rack' \in RackRow /\ misplaced' \in Nat
      /\ rack'.num = rack.num /\ rack'.available = rack.available
      /\ rack'.reserved + misplaced' = rack.reserved + misplaced
  BY TryKeeps DEF FinalCommitFails
<1>3. /\ setbacks' \in Nat /\ setbacks' # 0 /\ (Smooth \/ Setback)
      /\ (setbacks' = setbacks + 1 \/ (setbacks' = setbacks /\ setbacks # 0))
  BY <1>1, TryFailsFacts
<1>4. /\ PreorderTyped /\ "idle" \in ErrandAt /\ errand[e] \in ErrandRow /\ errand[e].order \in SUBSET Presales
      /\ Cardinality(errand[e].order) <= 1 /\ Cardinality(unmoved) \in Nat
      /\ rack.reserved \in Nat /\ rack'.reserved \in Nat /\ misplaced \in Nat
  BY <1>2, SparedIsInt DEF PreorderInv, PreorderTyped, ErrandAt, ErrandRow, RackRow
<1>5. CASE /\ errand[e].tries + 1 < StockCommitRetries /\ UNCHANGED unmoved
           /\ errand' = [errand EXCEPT ![e] = [@ EXCEPT !.tries = errand[e].tries + 1]]
  <2>1. errand[e].tries + 1 \in 0..(StockCommitRetries - 1)
    BY <1>4, <1>5, PreorderConstants DEF ErrandRow
  <2>2. [errand[e] EXCEPT !.tries = errand[e].tries + 1] \in ErrandRow
    BY <1>4, <2>1 DEF ErrandRow
  <2>3. /\ errand' \in [Errands -> ErrandRow]
        /\ \A d \in Errands : errand'[d].at = errand[d].at /\ errand'[d].order = errand[d].order
    BY <1>4, <1>5, <2>2 DEF PreorderTyped, ErrandRow
  <2>4. Covered' = Covered /\ Covered \in Int
    BY <1>2, <1>4, <1>5 DEF Covered, Spared
  <2>5. unmoved' \subseteq Presales
    BY <1>4, <1>5 DEF PreorderTyped
  <2> QED
    BY <1>1, <1>2, <1>3, <2>3, <2>4, <2>5, StandingStep
<1>6. CASE Sent(e, "idle") /\ unmoved' \in {unmoved, unmoved \cup errand[e].order}
  <2> DEFINE dr == Cardinality(unmoved) - Cardinality(unmoved')
  <2>1. Cardinality(unmoved') \in Nat /\ dr \in Int /\ dr >= -1
    BY <1>4, <1>6, FlagFacts
  <2>2. RackMoves(0, 0, dr)
    BY <1>2, <1>4, <2>1 DEF RackMoves, Covered, Spared, RackRow
  <2> HIDE DEF dr
  <2>3. Balanced(0, errand[e].at, "idle", 0, 0, dr)
    BY <1>1, <1>3, <2>1 DEF Balanced, Holds, Commits, Weight
  <2>4. StraysLate
    BY <1>2, <1>3, <1>4, <1>6 DEF StraysLate, PreorderTyped
  <2> QED
    BY <1>1, <1>3, <1>4, <1>6, <2>1, <2>2, <2>3, <2>4, QuietStep
<1> QED
  BY <1>5, <1>6 DEF FinalCommitFails

LEMMA RetryKeeps ==
  ASSUME PreorderInv, NEW o \in Presales, RetryUnmoved(o)
  PROVE  PreorderInv'
<1>1. /\ UNCHANGED <<season, presale, net, purse, withdrawn, errand>>
      /\ o \in unmoved /\ rack' \in {rack, PieceCommitted(rack)}
      /\ Smooth \/ Setback
  BY DEF RetryUnmoved, Books
<1>0. PreorderTyped /\ Cardinality({o}) <= 1
  BY FS_Singleton DEF PreorderInv
<1>2. /\ PreorderTyped /\ Cardinality(unmoved) \in Nat /\ Cardinality({o}) <= 1
      /\ rack.reserved \in Nat /\ misplaced \in Nat /\ errand \in [Errands -> ErrandRow]
  BY <1>0, SparedIsInt DEF PreorderTyped, RackRow
<1>3. Cardinality(unmoved \ {o}) = Cardinality(unmoved) - 1
  BY <1>1, <1>2, FlagFacts
<1>4. setbacks' \in Nat /\ setbacks' # 0
  BY <1>1, <1>2, SetbackCounts DEF PreorderInv, StillClean
<1>5. CASE UNCHANGED unmoved /\ misplaced' = misplaced + (rack.reserved - rack'.reserved)
  <2>1. /\ rack' \in RackRow /\ misplaced' \in Nat /\ rack'.reserved \in Nat
        /\ rack'.num = rack.num /\ rack'.available = rack.available
        /\ rack'.reserved + misplaced' = rack.reserved + misplaced
    BY <1>1, <1>5, TryKeeps DEF RackRow
  <2>2. Covered' = Covered /\ Covered \in Int
    BY <1>2, <1>5, <2>1 DEF Covered, Spared
  <2> QED
    BY <1>1, <1>2, <1>4, <1>5, <2>1, <2>2, StandingStep DEF PreorderTyped
<1>6. CASE unmoved' = unmoved \ {o} /\ UNCHANGED misplaced
  <2>1. /\ rack' \in RackRow /\ rack'.reserved \in Nat /\ rack'.reserved >= rack.reserved - 1
        /\ rack'.num = rack.num /\ rack'.available = rack.available
    <3>1. rack.reserved >= 1 \/ rack.reserved = 0
      BY <1>2
    <3> QED
      BY <1>1, <1>2, <3>1, ScriptFacts DEF PreorderTyped, RackRow
  <2>2. Covered' >= Covered /\ Covered' \in Int
    BY <1>2, <1>3, <1>6, <2>1 DEF Covered, Spared
  <2>3. unmoved' \subseteq Presales /\ misplaced' \in Nat
    BY <1>2, <1>6 DEF PreorderTyped
  <2> QED
    BY <1>1, <1>2, <1>4, <2>1, <2>2, <2>3, StandingStep
<1> QED
  BY <1>5, <1>6 DEF RetryUnmoved

LEMMA DeathKeeps ==
  ASSUME PreorderInv, NEW e \in Errands, ErrandDies(e)
  PROVE  PreorderInv'
<1>1. UNCHANGED <<season, presale, net, purse, withdrawn, rack>> /\ Sent(e, "idle") /\ Setback /\ NoneMisplaced
  BY DEF ErrandDies, Books
<1>2. PreorderTyped /\ "idle" \in ErrandAt /\ StraysLate
  BY <1>1, NoneIsLate DEF PreorderInv, ErrandAt
<1>3. Balanced(0, errand[e].at, "idle", 0, 0, 0)
  BY <1>1 DEF Balanced, Setback, Holds, Commits, Weight
<1>4. RackMoves(0, 0, 0)
  BY <1>1, <1>2, RackFacts
<1> QED
  BY <1>1, <1>2, <1>3, <1>4, QuietStep

\* The clock and a step that changes nothing.
LEMMA ClockKeeps ==
  ASSUME PreorderInv, season' \in {"deposit", "final", "lapsed"},
         UNCHANGED <<presale, net, purse, withdrawn, rack, unmoved, errand, misplaced, setbacks>>
  PROVE  PreorderInv'
<1> USE DEF PreorderInv
<1>1. PreorderTyped'
  BY DEF PreorderTyped
<1>2. PresaleMoneyInv'
  BY MoneyStays
<1>3. Unpaid' = Unpaid /\ Bound' = Bound /\ Committing' = Committing
  BY SameRows, SameErrands
<1>4. PresalePiecesFollow' /\ StillClean'
  BY <1>3 DEF PresalePiecesFollow, Covered, Spared, StillClean
<1> QED
  BY <1>1, <1>2, <1>4 DEF RowsBegin, PlacedOnce

\* What the seller spends is still its own money.
LEMMA SpendingKeeps ==
  ASSUME PreorderInv, BossSpends
  PROVE  PreorderInv'
<1> USE DEF PreorderInv
<1>1. purse \in [Accounts -> Nat] /\ "boss" \in Accounts /\ purse["boss"] \in Nat /\ withdrawn \in Nat
  BY DEF PreorderTyped, Accounts
<1>2. purse' \in [Accounts -> Nat] /\ withdrawn' \in Nat
  BY <1>1 DEF BossSpends
<1>3. PreorderTyped'
  BY <1>2, SetbackCounts DEF PreorderTyped, BossSpends, NoneMisplaced
<1>4. PursesFollowNet'
  <2> SUFFICES ASSUME NEW p \in Presales \ SelfBought PROVE purse'[p] = Savings - net'[p]
    BY DEF PursesFollowNet
  <2>1. purse[p] = Savings - net[p]
    BY DEF PresaleMoneyInv, PursesFollowNet
  <2>2. p \in Accounts /\ p # "boss"
    BY PreorderConstants DEF Accounts
  <2> QED
    BY <1>1, <2>1, <2>2 DEF BossSpends
<1>5. SellerFollowsNet'
  <2>1. purse["boss"] + withdrawn = Savings + Earned /\ Earned' = Earned
    BY DEF PresaleMoneyInv, SellerFollowsNet, Earned, BossSpends
  <2>2. purse'["boss"] = 0 /\ withdrawn' = withdrawn + purse["boss"]
    BY <1>1 DEF BossSpends
  <2>3. purse'["boss"] + withdrawn' = purse["boss"] + withdrawn
    BY <1>1, <2>2
  <2> QED
    BY <2>1, <2>3 DEF SellerFollowsNet
<1>6. NetFollowsStage'
  BY DEF PresaleMoneyInv, NetFollowsStage, BossSpends, Dues
<1>7. Unpaid' = Unpaid /\ Bound' = Bound /\ Committing' = Committing
  BY SameRows, SameErrands DEF BossSpends
<1>8. PresalePiecesFollow' /\ StillClean'
  BY <1>7 DEF PresalePiecesFollow, Covered, Spared, StillClean, BossSpends, NoneMisplaced, Setback, PreorderTyped
<1> QED
  BY <1>3, <1>4, <1>5, <1>6, <1>8 DEF PresaleMoneyInv, RowsBegin, PlacedOnce, BossSpends

LEMMA PreorderStep ==
  ASSUME PreorderInv, [PreorderNext]_preorderVars
  PROVE  PreorderInv'
<1>1. ASSUME NEW e \in Errands, ErrandWorks(e) PROVE PreorderInv'
  BY <1>1, ReserveKeeps, PieceKeeps, CommitFailsKeeps, DepositKeeps, FinalKeeps, CancelKeeps, ForfeitKeeps
  DEF ErrandWorks
<1>2. ASSUME NEW e \in Errands, ErrandDies(e) PROVE PreorderInv'
  BY <1>2, DeathKeeps
<1>3. ASSUME NEW e \in Errands, NEW o \in Presales,
             \/ PayDeposit(e, o) \/ PayFinal(e, o)
             \/ CancelPreorderInDepositWindow(e, o) \/ ListUnpaidFinalBefore(e, o)
      PROVE  PreorderInv'
  BY <1>3, ErrandBegins
<1>4. CASE SeasonPasses
  <2>1. /\ season' \in {"deposit", "final", "lapsed"}
        /\ UNCHANGED <<presale, net, purse, withdrawn, rack, unmoved, errand, misplaced, setbacks>>
    BY <1>4 DEF SeasonPasses, Books, NoneMisplaced
  <2> QED
    BY <2>1, ClockKeeps
<1>5. CASE BossSpends
  BY <1>5, SpendingKeeps
<1>6. CASE UNCHANGED preorderVars
  <2>1. season \in {"deposit", "final", "lapsed"}
    BY DEF PreorderInv, PreorderTyped
  <2>2. UNCHANGED <<season, presale, net, purse, withdrawn, rack, unmoved, errand, misplaced, setbacks>>
    BY <1>6 DEF preorderVars
  <2> QED
    BY <2>1, <2>2, ClockKeeps
<1>7. ASSUME NEW o \in Presales, RetryUnmoved(o) PROVE PreorderInv'
  BY <1>7, RetryKeeps
<1> QED
  BY <1>1, <1>2, <1>3, <1>4, <1>5, <1>6, <1>7 DEF PreorderNext

LEMMA PreorderInvHolds == PreorderSpec => []PreorderInv
<1>1. PreorderInv /\ [PreorderNext]_preorderVars => PreorderInv'
  BY PreorderStep
<1> QED
  BY PreorderInitInv, <1>1, PTL DEF PreorderSpec

\* The rows, balances and counters of a pre-order keep their types; neither a
\* balance nor reserved falls below zero, and no call is tried too often.
THEOREM PresaleTypeCorrect == PreorderSpec => []PreorderTypeOK
<1>1. PreorderInv => PreorderTypeOK
  BY PreorderInvOK
<1> QED
  BY PreorderInvHolds, <1>1, PTL

\* Deposit, final payment, cancellation and forfeit of an order may meet in any
\* order and fail at any step, with or without effect: the ledger says what the
\* stage says, no cent is made or lost, and every unpaid remainder has its piece
\* in reserved, but for one piece for each call that reported a failure of
\* something it had done.
THEOREM PresaleBooksBalance == PreorderSpec => []PresaleBooks
<1>1. PreorderInv => PresaleBooks
  BY PreorderInvOK
<1> QED
  BY PreorderInvHolds, <1>1, PTL

-----------------------------------------------------------------------------
(* Group buying                                                            *)

GroupRow == [status : {"none", "open", "success", "expired", "closed"},
             count : 0..TargetCount, late : BOOLEAN]
ClerkStages == {"idle", "checked", "reserved", "timed", "release", "completes", "dissolves", "stock"}
ClerkRow == [at : ClerkStages, fan : {S \in SUBSET Fans : Cardinality(S) <= 1}, cron : BOOLEAN,
             to : {"none", "success", "expired", "closed"}, owes : 0..TargetCount,
             tries : 0..(StockCommitRetries - 1)]
BucketRow == [available : Int, reserved : Nat]

GroupTyped ==
  /\ group \in GroupRow
  /\ membership \in [Fans -> {"none", "joined", "succeed", "refunded"}]
  /\ groupOrder \in [Fans -> {"none", "WaitGroup", "WaitShip", "Closed"}]
  /\ place \in [Fans -> {"wallet", "groupbuy_escrow", "merchant_escrow"}]
  /\ bucket \in BucketRow /\ shelf \in 0..Shelf
  /\ unsettled \in Nat /\ strayed \in Nat
  /\ clerk \in [Clerks -> ClerkRow]
  /\ setbacks \in Nat

\* A group has nobody before it is created and its leader from then on.
LeaderJoins == group.status = "none" <=> Members = {}

\* A clerk that dissolves knows why, and one that moves pieces has some to move.
ClerksKnow ==
  \A c \in Clerks :
    /\ clerk[c].at = "dissolves" => clerk[c].to \in {"expired", "closed"}
    /\ clerk[c].at = "stock" => clerk[c].to # "none" /\ clerk[c].owes >= 1

All == {"success", "expired", "closed"}
WaitingFans == {f \in Fans : groupOrder[f] = "WaitGroup"}

\* What reserved holds for orders and requests, with the pieces that failed
\* calls took from it and without those that flagged orders are to take.
Shielded == bucket.reserved + strayed - unsettled

GroupClean ==
  setbacks = 0 => /\ unsettled = 0 /\ strayed = 0
                  /\ \A c \in Clerks : clerk[c].tries = 0

PiecesFollow ==
  /\ Shielded >= Cardinality(WaitingFans) + Cardinality(InFlight) + StillOwed(All)
  /\ setbacks = 0 =>
       /\ Shielded = Cardinality(WaitingFans) + Cardinality(InFlight) + StillOwed(All)
       /\ bucket.available + Shielded = shelf + StillOwed({"success"})

GroupInv ==
  GroupTyped /\ LeaderJoins /\ ClerksKnow /\ MoneyWithGroup /\ PiecesFollow /\ GroupClean

-----------------------------------------------------------------------------
LEMMA GroupConstants ==
  /\ IsFiniteSet(Fans) /\ IsFiniteSet(Clerks) /\ TargetCount \in Nat /\ TargetCount >= 2 /\ Shelf \in Nat
  /\ StockCommitRetries \in Nat \ {0} /\ 0 \in 0..(StockCommitRetries - 1)
BY GroupAssumption, StockRetriesAssumption

\* What a clerk has to move in Redis.
Owed(row, kinds) == IF row.to \in kinds /\ row.at = "stock" THEN row.owes ELSE 0
OnWay(row) == row.at \in {"reserved", "timed", "release"}

LEMMA OwedIsSum ==
  ASSUME NEW kinds, clerk \in [Clerks -> ClerkRow]
  PROVE  /\ StillOwed(kinds) = SumFunctionOnSet([c \in Clerks |-> Owed(clerk[c], kinds)], Clerks)
         /\ [c \in Clerks |-> Owed(clerk[c], kinds)] \in [Clerks -> Nat]
         /\ StillOwed(kinds) \in Nat
<1>1. StillOwed(kinds) = SumFunctionOnSet([c \in Clerks |-> Owed(clerk[c], kinds)], Clerks)
  BY Zenon DEF StillOwed, Owed, SumFunction
<1>2. [c \in Clerks |-> Owed(clerk[c], kinds)] \in [Clerks -> Nat]
  BY GroupConstants DEF Owed, ClerkRow
<1> QED
  BY <1>1, <1>2, SumNat, GroupConstants

LEMMA OwedMoves ==
  ASSUME NEW kinds, clerk \in [Clerks -> ClerkRow], clerk' \in [Clerks -> ClerkRow],
         NEW c \in Clerks, \A d \in Clerks : d # c => clerk'[d] = clerk[d]
  PROVE  /\ StillOwed(kinds) \in Nat /\ StillOwed(kinds)' \in Nat
         /\ StillOwed(kinds)' = StillOwed(kinds) + Owed(clerk'[c], kinds) - Owed(clerk[c], kinds)
<1> DEFINE f == [d \in Clerks |-> Owed(clerk[d], kinds)]
           h == [d \in Clerks |-> Owed(clerk'[d], kinds)]
<1>1. f \in [Clerks -> Nat] /\ StillOwed(kinds) = SumFunctionOnSet(f, Clerks)
  BY OwedIsSum
<1>2. StillOwed(kinds)' = SumFunctionOnSet(h, Clerks)
  BY Zenon DEF StillOwed, Owed, SumFunction
<1>3. h \in [Clerks -> Nat]
  BY GroupConstants DEF Owed, ClerkRow
<1>4. \A d \in Clerks : d # c => h[d] = f[d]
  OBVIOUS
<1>5. f[c] = Owed(clerk[c], kinds) /\ h[c] = Owed(clerk'[c], kinds)
  OBVIOUS
<1> HIDE DEF f, h
<1>6. f \in [Clerks -> Int] /\ h \in [Clerks -> Int]
  BY <1>1, <1>3
<1>7. SumFunctionOnSet(h, Clerks) = SumFunctionOnSet(f, Clerks) + h[c] - f[c]
  BY <1>4, <1>6, SumUpdate, GroupConstants
<1>8. SumFunctionOnSet(h, Clerks) \in Nat /\ SumFunctionOnSet(f, Clerks) \in Nat
  BY <1>1, <1>3, SumNat, GroupConstants
<1> QED
  BY <1>1, <1>2, <1>5, <1>7, <1>8

LEMMA OnWayMoves ==
  ASSUME NEW c \in Clerks, \A d \in Clerks : d # c => clerk'[d] = clerk[d]
  PROVE  /\ Cardinality(InFlight) \in Nat /\ Cardinality(InFlight') \in Nat
         /\ Cardinality(InFlight') = Cardinality(InFlight) + Weight(OnWay(clerk'[c])) - Weight(OnWay(clerk[c]))
<1>1. /\ InFlight = {d \in Clerks : OnWay(clerk[d])}
      /\ InFlight' = {d \in Clerks : OnWay(clerk'[d])}
  BY DEF InFlight, OnWay
<1>2. /\ InFlight \in SUBSET Clerks /\ InFlight' \in SUBSET Clerks
      /\ \A d \in Clerks : d # c => (d \in InFlight' <=> d \in InFlight)
      /\ c \in InFlight <=> OnWay(clerk[c])
      /\ c \in InFlight' <=> OnWay(clerk'[c])
  BY <1>1
<1> HIDE DEF InFlight
<1>3. /\ Cardinality(InFlight) \in Nat /\ Cardinality(InFlight') \in Nat
      /\ Cardinality(InFlight') = Cardinality(InFlight) + Weight(c \in InFlight') - Weight(c \in InFlight)
  BY <1>2, CountMoves, GroupConstants
<1> QED
  BY <1>2, <1>3 DEF Weight

LEMMA FanCounts ==
  /\ Cardinality(Members) \in Nat /\ IsFiniteSet(Members)
  /\ Cardinality(WaitingFans) \in Nat /\ IsFiniteSet(WaitingFans)
<1>1. Members \in SUBSET Fans /\ WaitingFans \in SUBSET Fans
  BY DEF Members, WaitingFans
<1> QED
  BY <1>1, FiniteParts, GroupConstants

\* The orders that wait are those of the members of an open group.
LEMMA WaitingAre ==
  ASSUME GroupInv
  PROVE  /\ group.status = "open" => WaitingFans = Members
         /\ group.status # "open" => WaitingFans = {}
BY DEF GroupInv, MoneyWithGroup, WaitingFans, Members

-----------------------------------------------------------------------------
LEMMA GroupInitInv == GroupInit /\ SetbacksInit => GroupInv
<1> SUFFICES ASSUME GroupInit, SetbacksInit PROVE GroupInv
  OBVIOUS
<1> USE GroupConstants DEF GroupInit, SetbacksInit
<1>1. GroupTyped
  <2>1. Cardinality({}) <= 1
    BY FS_EmptySet
  <2>2. IdleClerk \in ClerkRow
    BY <2>1 DEF IdleClerk, ClerkRow, ClerkStages
  <2>3. clerk \in [Clerks -> ClerkRow]
    BY <2>2
  <2>4. group \in GroupRow
    BY DEF GroupRow
  <2>5. bucket \in BucketRow /\ shelf \in 0..Shelf
    BY DEF BucketRow
  <2> QED
    BY <2>3, <2>4, <2>5 DEF GroupTyped
<1>2. Members = {} /\ WaitingFans = {} /\ InFlight = {}
  BY DEF Members, WaitingFans, InFlight, IdleClerk
<1>3. LeaderJoins /\ ClerksKnow
  BY <1>2 DEF LeaderJoins, ClerksKnow, IdleClerk
<1>4. Cardinality({}) = 0
  BY FS_EmptySet
<1>5. MoneyWithGroup
  BY <1>2, <1>4 DEF MoneyWithGroup
<1>6. ASSUME NEW kinds PROVE StillOwed(kinds) = 0
  <2>1. \A c \in Clerks : [d \in Clerks |-> Owed(clerk[d], kinds)][c] = 0
    BY DEF Owed, IdleClerk
  <2> QED
    BY <1>1, <2>1, OwedIsSum, SumZero, ZenonT(60) DEF GroupTyped
<1>7. Shielded = 0 /\ bucket.available = Shelf
  BY DEF Shielded
<1>8. PiecesFollow
  BY <1>2, <1>4, <1>6, <1>7 DEF PiecesFollow
<1>9. GroupClean
  BY DEF GroupClean, IdleClerk
<1> QED
  BY <1>1, <1>3, <1>5, <1>8, <1>9 DEF GroupInv

LEMMA DueFacts ==
  ASSUME GroupTyped
  PROVE  /\ Cardinality(InFlight) \in Nat /\ StillOwed(All) \in Nat /\ Cardinality(WaitingFans) \in Nat
         /\ bucket.available \in Int /\ bucket.reserved \in Nat /\ Shielded \in Int
<1>1. InFlight \in SUBSET Clerks
  BY DEF InFlight
<1>2. Cardinality(InFlight) \in Nat
  BY <1>1, FiniteParts, GroupConstants
<1>3. StillOwed(All) \in Nat
  BY OwedIsSum DEF GroupTyped
<1>4. bucket.available \in Int /\ bucket.reserved \in Nat /\ strayed \in Nat /\ unsettled \in Nat
  BY DEF GroupTyped, BucketRow
<1> QED
  BY <1>2, <1>3, <1>4, FanCounts DEF Shielded

LEMMA GroupInvOK == GroupInv => GroupTypeOK /\ GroupBooks
<1> SUFFICES ASSUME GroupInv PROVE GroupTypeOK /\ GroupBooks
  OBVIOUS
<1>1. GroupTyped /\ strayed \in Nat /\ unsettled \in Nat
  BY DEF GroupInv, GroupTyped
<1>2. PiecesDue = Cardinality(WaitingFans) + Cardinality(InFlight) + StillOwed(All) + unsettled
  BY Zenon DEF PiecesDue, WaitingFans, All
<1>3. /\ Shielded >= Cardinality(WaitingFans) + Cardinality(InFlight) + StillOwed(All)
      /\ setbacks = 0 => /\ unsettled = 0 /\ strayed = 0
                         /\ Shielded = Cardinality(WaitingFans) + Cardinality(InFlight) + StillOwed(All)
                         /\ bucket.available + Shielded = shelf + StillOwed({"success"})
  BY DEF GroupInv, PiecesFollow, GroupClean
<1>4. PiecesWithGroup
  BY <1>1, <1>2, <1>3, DueFacts DEF PiecesWithGroup, Shielded
<1>5. GroupTypeOK
  BY <1>1 DEF GroupTyped, GroupTypeOK, GroupRow, ClerkRow, ClerkStages, BucketRow
<1> QED
  BY <1>4, <1>5 DEF GroupBooks, GroupInv

-----------------------------------------------------------------------------
(* What a step of a clerk changes *)

\* The one clerk whose turn it is.
Turns(c) == clerk' \in [Clerks -> ClerkRow] /\ \A d \in Clerks : d # c => clerk'[d] = clerk[d]
Knows(row) == /\ row.at = "dissolves" => row.to \in {"expired", "closed"}
              /\ row.at = "stock" => row.to # "none" /\ row.owes >= 1

\* Available, what reserved holds for others, and num change by a, r and s.
PiecesMove(a, r, s) ==
  /\ bucket' \in BucketRow /\ shelf' \in 0..Shelf /\ unsettled' \in Nat /\ strayed' \in Nat
  /\ bucket'.available = bucket.available + a /\ Shielded' = Shielded + r /\ shelf' = shelf + s

\* Reserved follows what waits and what the clerk has in hand; nothing strays
\* and no commit is tried again before something has failed.
Evens(c, a, r, s, w) ==
  /\ setbacks' \in Nat /\ (setbacks' = 0 => setbacks = 0)
  /\ r >= w + Weight(OnWay(clerk'[c])) - Weight(OnWay(clerk[c])) + Owed(clerk'[c], All) - Owed(clerk[c], All)
  /\ setbacks' = 0 =>
       /\ r = w + Weight(OnWay(clerk'[c])) - Weight(OnWay(clerk[c])) + Owed(clerk'[c], All) - Owed(clerk[c], All)
       /\ a + r = s + Owed(clerk'[c], {"success"}) - Owed(clerk[c], {"success"})
       /\ NoneStrays /\ clerk'[c].tries \in {0, clerk[c].tries}

LEMMA OwedNat ==
  ASSUME NEW row \in ClerkRow, NEW kinds
  PROVE  Owed(row, kinds) \in Nat /\ Weight(OnWay(row)) \in Nat
BY GroupConstants DEF Owed, ClerkRow, Weight

LEMMA PiecesKept ==
  ASSUME GroupTyped, PiecesFollow, NEW c \in Clerks, Turns(c),
         NEW a \in Int, NEW r \in Int, NEW s \in Int, NEW w \in Int,
         PiecesMove(a, r, s), Evens(c, a, r, s, w),
         Cardinality(WaitingFans') \in Nat, Cardinality(WaitingFans') = Cardinality(WaitingFans) + w
  PROVE  PiecesFollow'
<1>1. clerk \in [Clerks -> ClerkRow] /\ clerk' \in [Clerks -> ClerkRow]
  BY DEF GroupTyped, Turns
<1>2. \A d \in Clerks : d # c => clerk'[d] = clerk[d]
  BY DEF Turns
<1>3. /\ StillOwed(All) \in Nat /\ StillOwed(All)' \in Nat
      /\ StillOwed(All)' = StillOwed(All) + Owed(clerk'[c], All) - Owed(clerk[c], All)
  BY <1>1, <1>2, OwedMoves
<1>4. /\ StillOwed({"success"}) \in Nat /\ StillOwed({"success"})' \in Nat
      /\ StillOwed({"success"})' = StillOwed({"success"}) + Owed(clerk'[c], {"success"}) - Owed(clerk[c], {"success"})
  BY <1>1, <1>2, OwedMoves
<1>5. /\ Cardinality(InFlight) \in Nat /\ Cardinality(InFlight') \in Nat
      /\ Cardinality(InFlight') = Cardinality(InFlight) + Weight(OnWay(clerk'[c])) - Weight(OnWay(clerk[c]))
  BY <1>2, OnWayMoves
<1>6. clerk[c] \in ClerkRow /\ clerk'[c] \in ClerkRow
  BY <1>1
<1>7. /\ Owed(clerk[c], All) \in Nat /\ Owed(clerk'[c], All) \in Nat
      /\ Owed(clerk[c], {"success"}) \in Nat /\ Owed(clerk'[c], {"success"}) \in Nat
      /\ Weight(OnWay(clerk[c])) \in Nat /\ Weight(OnWay(clerk'[c])) \in Nat
  BY <1>6, OwedNat
<1>8. bucket.available \in Int /\ Shielded \in Int /\ shelf \in Int /\ setbacks \in Nat
  BY DueFacts DEF GroupTyped
<1>9. Cardinality(WaitingFans) \in Nat
  BY FanCounts
<1>a. Shielded' >= Cardinality(WaitingFans') + Cardinality(InFlight') + StillOwed(All)'
  BY <1>3, <1>5, <1>7, <1>8, <1>9 DEF PiecesFollow, PiecesMove, Evens
<1>b. ASSUME setbacks' = 0
      PROVE  /\ Shielded' = Cardinality(WaitingFans') + Cardinality(InFlight') + StillOwed(All)'
             /\ bucket'.available + Shielded' = shelf' + StillOwed({"success"})'
  BY <1>b, <1>3, <1>4, <1>5, <1>7, <1>8, <1>9 DEF PiecesFollow, PiecesMove, Evens
<1> QED
  BY <1>a, <1>b DEF PiecesFollow

LEMMA CleanKept ==
  ASSUME GroupClean, NEW c \in Clerks, Turns(c),
         setbacks' = 0 => setbacks = 0 /\ NoneStrays /\ clerk'[c].tries \in {0, clerk[c].tries}
  PROVE  GroupClean'
<1> SUFFICES ASSUME setbacks' = 0
             PROVE  unsettled' = 0 /\ strayed' = 0 /\ \A d \in Clerks : clerk'[d].tries = 0
  BY DEF GroupClean
<1>1. unsettled' = 0 /\ strayed' = 0 /\ \A d \in Clerks : clerk[d].tries = 0
  BY DEF GroupClean, NoneStrays
<1>2. \A d \in Clerks : d # c => clerk'[d] = clerk[d]
  BY DEF Turns
<1> QED
  BY <1>1, <1>2

\* A step of a clerk that writes no row.
LEMMA QuietClerk ==
  ASSUME GroupInv, UNCHANGED Rows, NEW c \in Clerks, Turns(c), Knows(clerk'[c]),
         NEW a \in Int, NEW r \in Int, NEW s \in Int, PiecesMove(a, r, s), Evens(c, a, r, s, 0)
  PROVE  GroupInv'
<1>1. UNCHANGED <<group, membership, groupOrder, place>>
  BY DEF Rows
<1>2. GroupTyped'
  BY <1>1 DEF GroupInv, GroupTyped, Turns, PiecesMove, Evens
<1>3. Members' = Members /\ WaitingFans' = WaitingFans
  BY <1>1 DEF Members, WaitingFans
<1>4. LeaderJoins' /\ MoneyWithGroup'
  BY <1>1, <1>3 DEF GroupInv, LeaderJoins, MoneyWithGroup
<1>5. ClerksKnow'
  BY DEF GroupInv, ClerksKnow, Turns, Knows
<1>6. GroupTyped /\ PiecesFollow /\ GroupClean
  BY DEF GroupInv
<1>7. 0 \in Int /\ Cardinality(WaitingFans') \in Nat /\ Cardinality(WaitingFans') = Cardinality(WaitingFans) + 0
  BY <1>3, FanCounts
<1>8. PiecesFollow'
  BY <1>6, <1>7, PiecesKept
<1>9. GroupClean'
  BY <1>6, CleanKept DEF Evens
<1> QED
  BY <1>2, <1>4, <1>5, <1>8, <1>9 DEF GroupInv

LEMMA TurnFacts ==
  ASSUME GroupTyped, NEW c \in Clerks, NEW row \in ClerkRow, clerk' = [clerk EXCEPT ![c] = row]
  PROVE  Turns(c) /\ clerk'[c] = row
BY DEF GroupTyped, Turns

LEMMA IdleFacts ==
  /\ IdleClerk \in ClerkRow /\ IdleClerk.at = "idle" /\ IdleClerk.to = "none"
  /\ IdleClerk.owes = 0 /\ IdleClerk.fan = {} /\ IdleClerk.cron = FALSE /\ IdleClerk.tries = 0
<1>1. Cardinality({}) <= 1
  BY FS_EmptySet
<1> QED
  BY <1>1, GroupConstants DEF IdleClerk, ClerkRow, ClerkStages

LEMMA ClerkAtFacts ==
  ASSUME GroupTyped, NEW c \in Clerks, NEW at \in ClerkStages, ClerkAt(c, at)
  PROVE  /\ Turns(c) /\ clerk'[c].at = at /\ clerk'[c].tries \in {0, clerk[c].tries}
         /\ at # "idle" => clerk'[c].to = clerk[c].to /\ clerk'[c].owes = clerk[c].owes
         /\ at \notin {"dissolves", "stock"} => Knows(clerk'[c])
<1>1. clerk[c] \in ClerkRow
  BY DEF GroupTyped
<1>2. /\ [clerk[c] EXCEPT !.at = at] \in ClerkRow
      /\ [clerk[c] EXCEPT !.at = at].at = at
      /\ [clerk[c] EXCEPT !.at = at].to = clerk[c].to
      /\ [clerk[c] EXCEPT !.at = at].owes = clerk[c].owes
      /\ [clerk[c] EXCEPT !.at = at].tries = clerk[c].tries
  BY <1>1 DEF ClerkRow
<1>3. CASE at = "idle"
  <2>1. clerk' = [clerk EXCEPT ![c] = IdleClerk]
    BY <1>3 DEF ClerkAt
  <2> QED
    BY <1>3, <2>1, TurnFacts, IdleFacts DEF Knows
<1>4. CASE at # "idle"
  <2>1. clerk' = [clerk EXCEPT ![c] = [clerk[c] EXCEPT !.at = at]]
    BY <1>4 DEF ClerkAt, GroupTyped
  <2>2. Turns(c) /\ clerk'[c] = [clerk[c] EXCEPT !.at = at]
    BY <1>2, <2>1, TurnFacts
  <2> QED
    BY <1>2, <2>2, <1>4 DEF Knows
<1> QED
  BY <1>3, <1>4

\* The scripts, with reserved long enough and with reserved too short.
LEMMA GroupScripts ==
  ASSUME GroupTyped
  PROVE  /\ PieceReserved(bucket) \in BucketRow
         /\ PieceReserved(bucket).available = bucket.available - 1
         /\ PieceReserved(bucket).reserved = bucket.reserved + 1
         /\ bucket.reserved >= 1 =>
              /\ PieceReleased(bucket) \in BucketRow
              /\ PieceReleased(bucket).available = bucket.available + 1
              /\ PieceReleased(bucket).reserved = bucket.reserved - 1
         /\ bucket.reserved >= 1 =>
              /\ PieceCommitted(bucket) \in BucketRow
              /\ PieceCommitted(bucket).available = bucket.available
              /\ PieceCommitted(bucket).reserved = bucket.reserved - 1
         /\ bucket.reserved = 0 => PieceReleased(bucket) = bucket /\ PieceCommitted(bucket) = bucket
<1>1. PICK a \in Int, r \in Nat : bucket = [available |-> a, reserved |-> r]
  BY DEF GroupTyped, BucketRow
<1>2. bucket.available = a /\ bucket.reserved = r
  BY <1>1
<1> DEFINE less == [bucket EXCEPT !.available = @ - 1]
           more == [bucket EXCEPT !.available = @ + 1]
<1>3. /\ less = [available |-> a - 1, reserved |-> r]
      /\ more = [available |-> a + 1, reserved |-> r]
  BY <1>1
<1>4. r = 0 => PieceReleased(bucket) = bucket /\ PieceCommitted(bucket) = bucket
  BY <1>2 DEF PieceReleased, PieceCommitted
<1>5. PieceReserved(bucket) = [less EXCEPT !.reserved = @ + 1]
  BY DEF PieceReserved
<1>6. ASSUME r >= 1 PROVE PieceReleased(bucket) = [more EXCEPT !.reserved = @ - 1]
  <2>1. ~(bucket.reserved < 1)
    BY <1>1, <1>2, <1>6
  <2> QED
    BY <2>1, Zenon DEF PieceReleased
<1> HIDE DEF less, more
<1>7. /\ PieceReserved(bucket) \in BucketRow
      /\ PieceReserved(bucket).available = a - 1
      /\ PieceReserved(bucket).reserved = r + 1
  <2>1. PieceReserved(bucket) = [available |-> a - 1, reserved |-> r + 1]
    BY <1>3, <1>5
  <2> QED
    BY <2>1 DEF BucketRow
<1>8. ASSUME r >= 1
      PROVE  /\ PieceReleased(bucket) \in BucketRow
             /\ PieceReleased(bucket).available = a + 1
             /\ PieceReleased(bucket).reserved = r - 1
  <2>1. PieceReleased(bucket) = [available |-> a + 1, reserved |-> r - 1]
    BY <1>3, <1>6, <1>8
  <2> QED
    BY <1>8, <2>1 DEF BucketRow
<1>9. ASSUME r >= 1
      PROVE  /\ PieceCommitted(bucket) \in BucketRow
             /\ PieceCommitted(bucket).available = a
             /\ PieceCommitted(bucket).reserved = r - 1
  <2>1. PieceCommitted(bucket) = [available |-> a, reserved |-> r - 1]
    BY <1>1, <1>9 DEF PieceCommitted
  <2> QED
    BY <1>9, <2>1 DEF BucketRow
<1> QED
  BY <1>2, <1>4, <1>7, <1>8, <1>9

LEMMA BucketFacts ==
  ASSUME GroupTyped, UNCHANGED shelf, NoneStrays
  PROVE  /\ UNCHANGED bucket => PiecesMove(0, 0, 0)
         /\ Reserves => PiecesMove(-1, 1, 0)
         /\ GivesBack => \/ bucket.reserved >= 1 /\ PiecesMove(1, -1, 0)
                         \/ bucket.reserved = 0 /\ PiecesMove(0, 0, 0)
         /\ bucket' = PieceCommitted(bucket) => \/ bucket.reserved >= 1 /\ PiecesMove(0, -1, 0)
                                                \/ bucket.reserved = 0 /\ PiecesMove(0, 0, 0)
<1>1. /\ bucket \in BucketRow /\ bucket.available \in Int /\ bucket.reserved \in Nat
      /\ shelf \in 0..Shelf /\ shelf \in Int /\ shelf' = shelf
      /\ strayed \in Nat /\ unsettled \in Nat /\ strayed' = strayed /\ unsettled' = unsettled
  BY GroupConstants DEF GroupTyped, BucketRow, NoneStrays
<1>2. UNCHANGED bucket => PiecesMove(0, 0, 0)
  BY <1>1 DEF PiecesMove, Shielded
<1>3. Reserves => PiecesMove(-1, 1, 0)
  BY <1>1, GroupScripts DEF Reserves, PiecesMove, Shielded
<1>4. bucket.reserved >= 1 \/ bucket.reserved = 0
  BY <1>1
<1>5. GivesBack /\ bucket.reserved >= 1 => PiecesMove(1, -1, 0)
  BY <1>1, GroupScripts DEF GivesBack, PiecesMove, Shielded
<1>6. bucket' = PieceCommitted(bucket) /\ bucket.reserved >= 1 => PiecesMove(0, -1, 0)
  BY <1>1, GroupScripts DEF PiecesMove, Shielded
<1>7. bucket.reserved = 0 /\ (GivesBack \/ bucket' = PieceCommitted(bucket)) => UNCHANGED bucket
  BY GroupScripts DEF GivesBack
<1> QED
  BY <1>2, <1>3, <1>4, <1>5, <1>6, <1>7

\* Who has a piece in hand finds one in reserved, unless something has failed.
LEMMA HandIsHeld ==
  ASSUME GroupInv, NEW c \in Clerks, OnWay(clerk[c]) \/ Owed(clerk[c], All) >= 1, bucket.reserved = 0
  PROVE  setbacks # 0
<1>1. GroupTyped /\ clerk \in [Clerks -> ClerkRow]
  BY DEF GroupInv, GroupTyped
<1> DEFINE f == [d \in Clerks |-> Owed(clerk[d], All)]
           h == [f EXCEPT ![c] = 0]
<1>2. StillOwed(All) = SumFunctionOnSet(f, Clerks) /\ f \in [Clerks -> Nat] /\ f[c] = Owed(clerk[c], All)
  BY <1>1, OwedIsSum
<1> HIDE DEF f
<1>3. h \in [Clerks -> Nat] /\ h[c] = 0 /\ \A d \in Clerks : d # c => h[d] = f[d]
  BY <1>2
<1> HIDE DEF h
<1>4. f \in [Clerks -> Int] /\ h \in [Clerks -> Int]
  BY <1>2, <1>3
<1>5. SumFunctionOnSet(h, Clerks) = SumFunctionOnSet(f, Clerks) + h[c] - f[c]
  BY <1>3, <1>4, SumUpdate, GroupConstants
<1>6. SumFunctionOnSet(h, Clerks) \in Nat /\ SumFunctionOnSet(f, Clerks) \in Nat
  BY <1>2, <1>3, SumNat, GroupConstants
<1>7. StillOwed(All) >= Owed(clerk[c], All) /\ Owed(clerk[c], All) \in Nat
  BY <1>2, <1>3, <1>5, <1>6
<1>8. OnWay(clerk[c]) => Cardinality(InFlight) # 0
  <2>1. InFlight \in SUBSET Clerks /\ (OnWay(clerk[c]) => c \in InFlight)
    BY DEF InFlight, OnWay
  <2> QED
    BY <2>1, FiniteParts, FS_Subset, FS_EmptySet, GroupConstants
<1>9. setbacks = 0 => /\ Shielded = 0
                      /\ Shielded = Cardinality(WaitingFans) + Cardinality(InFlight) + StillOwed(All)
  BY DEF GroupInv, GroupClean, PiecesFollow, Shielded
<1> QED
  BY <1>1, <1>7, <1>8, <1>9, DueFacts

LEMMA HazardCounts ==
  ASSUME setbacks \in Nat, Smooth \/ Setback
  PROVE  /\ setbacks' \in Nat /\ (setbacks' = 0 => setbacks = 0)
         /\ Setback => setbacks' # 0
BY DEF Smooth, Setback

\* A step of a clerk between two stages in which it owes nothing.
LEMMA StageStep ==
  ASSUME GroupInv, UNCHANGED Rows, NEW c \in Clerks, NEW at \in ClerkStages \ {"dissolves", "stock"}, ClerkAt(c, at),
         clerk[c].at # "stock", NEW a \in Int, NEW r \in Int, PiecesMove(a, r, 0), Smooth \/ Setback,
         r >= Weight(at \in {"reserved", "timed", "release"}) - Weight(OnWay(clerk[c])),
         NoneStrays,
         \/ Setback \/ setbacks # 0
         \/ /\ r = Weight(at \in {"reserved", "timed", "release"}) - Weight(OnWay(clerk[c]))
            /\ a + r = 0
  PROVE  GroupInv'
<1>1. GroupTyped /\ setbacks \in Nat
  BY DEF GroupInv, GroupTyped
<1>2. Turns(c) /\ clerk'[c].at = at /\ Knows(clerk'[c]) /\ clerk'[c].tries \in {0, clerk[c].tries}
  BY <1>1, ClerkAtFacts
<1>3. \A kinds : Owed(clerk'[c], kinds) = 0 /\ Owed(clerk[c], kinds) = 0
  BY <1>2 DEF Owed
<1>4. OnWay(clerk'[c]) <=> at \in {"reserved", "timed", "release"}
  BY <1>2 DEF OnWay
<1>5. Weight(OnWay(clerk'[c])) = Weight(at \in {"reserved", "timed", "release"})
  BY <1>4 DEF Weight
<1>6. Weight(OnWay(clerk'[c])) \in Int /\ Weight(OnWay(clerk[c])) \in Int
  BY DEF Weight
<1>7. setbacks' \in Nat /\ (setbacks' = 0 => setbacks = 0) /\ (Setback => setbacks' # 0)
  BY <1>1, HazardCounts
<1>8. Owed(clerk'[c], All) = 0 /\ Owed(clerk[c], All) = 0 /\ Owed(clerk'[c], {"success"}) = 0 /\ Owed(clerk[c], {"success"}) = 0
  BY <1>3
<1>9. Evens(c, a, r, 0, 0)
  BY <1>2, <1>5, <1>6, <1>7, <1>8 DEF Evens
<1> QED
  BY <1>2, <1>9, QuietClerk

LEMMA ReserveKeepsGroup ==
  ASSUME GroupInv, NEW c \in Clerks, ReserveOne(c)
  PROVE  GroupInv'
<1>1. UNCHANGED Rows /\ UNCHANGED shelf /\ NoneStrays /\ clerk[c].at = "checked"
  BY DEF ReserveOne
<1>2. GroupTyped /\ {"reserved", "idle"} \subseteq ClerkStages
  BY DEF GroupInv, ClerkStages
<1>3. Weight(OnWay(clerk[c])) = 0
  BY <1>1 DEF Weight, OnWay
<1>4. Weight("reserved" \in {"reserved", "timed", "release"}) = 1 /\ Weight("idle" \in {"reserved", "timed", "release"}) = 0
  BY DEF Weight
<1> DEFINE m == -1
<1>5. m \in Int /\ m + 1 = 0 /\ 0 \in Int /\ 1 \in Int
  OBVIOUS
<1>6. /\ UNCHANGED bucket => PiecesMove(0, 0, 0)
      /\ Reserves => PiecesMove(m, 1, 0)
  BY <1>1, <1>2, BucketFacts
<1> HIDE DEF m
<1>7. CASE Smooth /\ Reserves /\ ClerkAt(c, "reserved")
  BY <1>1, <1>2, <1>3, <1>4, <1>5, <1>6, <1>7, StageStep
<1>8. CASE Smooth /\ UNCHANGED bucket /\ ClerkAt(c, "idle")
  BY <1>1, <1>2, <1>3, <1>4, <1>5, <1>6, <1>8, StageStep
<1>9. CASE Setback /\ Reserves /\ ClerkAt(c, "idle")
  BY <1>1, <1>2, <1>3, <1>4, <1>5, <1>6, <1>9, StageStep
<1>a. CASE Setback /\ UNCHANGED bucket /\ ClerkAt(c, "idle")
  BY <1>1, <1>2, <1>3, <1>4, <1>5, <1>6, <1>a, StageStep
<1> QED
  BY <1>7, <1>8, <1>9, <1>a DEF ReserveOne

LEMMA TimeKeepsGroup ==
  ASSUME GroupInv, NEW c \in Clerks, TakesTime(c)
  PROVE  GroupInv'
<1>1. UNCHANGED Rows /\ UNCHANGED shelf /\ UNCHANGED bucket /\ NoneStrays /\ Smooth /\ clerk[c].at = "reserved"
  BY DEF TakesTime, Smooth
<1>2. GroupTyped /\ {"release", "timed"} \subseteq ClerkStages
  BY DEF GroupInv, ClerkStages
<1>3. Weight(OnWay(clerk[c])) = 1
  BY <1>1 DEF Weight, OnWay
<1>4. Weight("release" \in {"reserved", "timed", "release"}) = 1 /\ Weight("timed" \in {"reserved", "timed", "release"}) = 1
  BY DEF Weight
<1>5. PiecesMove(0, 0, 0)
  BY <1>1, <1>2, BucketFacts
<1>6. CASE group.late
  <2>1. ClerkAt(c, "release")
    BY <1>6 DEF TakesTime
  <2> QED
    BY <1>1, <1>2, <1>3, <1>4, <1>5, <2>1, StageStep
<1>7. CASE ~group.late
  <2>1. ClerkAt(c, "timed")
    BY <1>7 DEF TakesTime
  <2> QED
    BY <1>1, <1>2, <1>3, <1>4, <1>5, <2>1, StageStep
<1> QED
  BY <1>6, <1>7

LEMMA ReleaseKeepsGroup ==
  ASSUME GroupInv, NEW c \in Clerks, ReleaseOne(c)
  PROVE  GroupInv'
<1>1. UNCHANGED Rows /\ UNCHANGED shelf /\ NoneStrays /\ clerk[c].at = "release" /\ ClerkAt(c, "idle")
  BY DEF ReleaseOne
<1>2. GroupTyped /\ "idle" \in ClerkStages
  BY DEF GroupInv, ClerkStages
<1>3. Weight(OnWay(clerk[c])) = 1 /\ Weight("idle" \in {"reserved", "timed", "release"}) = 0
  BY <1>1 DEF Weight, OnWay
<1> DEFINE m == -1
<1>4. m \in Int /\ 0 \in Int /\ 1 \in Int /\ m = 0 - 1 /\ 1 + m = 0
  OBVIOUS
<1>5. /\ UNCHANGED bucket => PiecesMove(0, 0, 0)
      /\ GivesBack => PiecesMove(1, m, 0) \/ (bucket.reserved = 0 /\ PiecesMove(0, 0, 0))
  BY <1>1, <1>2, BucketFacts
<1> HIDE DEF m
<1>6. CASE PiecesMove(1, m, 0) /\ (Smooth \/ Setback)
  BY <1>1, <1>2, <1>3, <1>4, <1>6, StageStep
<1>7. CASE PiecesMove(0, 0, 0) /\ Setback
  BY <1>1, <1>2, <1>3, <1>4, <1>7, StageStep
<1>8. CASE bucket.reserved = 0 /\ PiecesMove(0, 0, 0) /\ (Smooth \/ Setback)
  <2>1. setbacks # 0
    BY <1>1, <1>8, HandIsHeld DEF OnWay
  <2> QED
    BY <1>1, <1>2, <1>3, <1>4, <1>8, <2>1, StageStep
<1> QED
  BY <1>5, <1>6, <1>7, <1>8 DEF ReleaseOne

\* A transaction that rolls back leaves the piece to be released.
LEMMA RollbackKeepsGroup ==
  ASSUME GroupInv, NEW c \in Clerks, clerk[c].at \in {"reserved", "timed"},
         RollsBack(c), UNCHANGED <<bucket, shelf, unsettled>>, Smooth \/ Setback
  PROVE  GroupInv'
<1>1. UNCHANGED Rows /\ ClerkAt(c, "release") /\ NoneStrays
  BY DEF RollsBack, NoneStrays
<1>2. GroupTyped /\ "release" \in ClerkStages
  BY DEF GroupInv, ClerkStages
<1>3. Weight(OnWay(clerk[c])) = 1 /\ Weight("release" \in {"reserved", "timed", "release"}) = 1
  BY <1>1 DEF Weight, OnWay
<1>4. PiecesMove(0, 0, 0)
  BY <1>1, <1>2, BucketFacts
<1> QED
  BY <1>1, <1>2, <1>3, <1>4, StageStep

LEMMA DeathKeepsGroup ==
  ASSUME GroupInv, NEW c \in Clerks, ClerkAt(c, "idle"), UNCHANGED <<Rows, bucket, shelf>>, NoneStrays,
         Setback \/ (Smooth /\ clerk[c].at \in {"idle", "checked", "completes", "dissolves"})
  PROVE  GroupInv'
<1>1. GroupTyped /\ "idle" \in ClerkStages /\ setbacks \in Nat
  BY DEF GroupInv, GroupTyped, ClerkStages
<1>2. Turns(c) /\ clerk'[c].at = "idle" /\ Knows(clerk'[c]) /\ clerk'[c].tries \in {0, clerk[c].tries}
  BY <1>1, ClerkAtFacts
<1>3. PiecesMove(0, 0, 0)
  BY <1>1, BucketFacts
<1>4. Owed(clerk'[c], All) = 0 /\ Owed(clerk'[c], {"success"}) = 0 /\ Weight(OnWay(clerk'[c])) = 0
  BY <1>2 DEF Owed, OnWay, Weight
<1>5. clerk[c] \in ClerkRow
  BY <1>1 DEF GroupTyped
<1>6. Owed(clerk[c], All) \in Nat /\ Owed(clerk[c], {"success"}) \in Nat /\ Weight(OnWay(clerk[c])) \in Nat
  BY <1>5, OwedNat
<1>7. setbacks' \in Nat /\ (setbacks' = 0 => setbacks = 0) /\ (Setback => setbacks' # 0)
  BY <1>1, HazardCounts
<1>8. CASE Setback
  <2>1. Evens(c, 0, 0, 0, 0)
    BY <1>8, <1>4, <1>6, <1>7 DEF Evens
  <2> QED
    BY <1>2, <1>3, <2>1, QuietClerk
<1>9. CASE clerk[c].at \in {"idle", "checked", "completes", "dissolves"}
  <2>1. Owed(clerk[c], All) = 0 /\ Owed(clerk[c], {"success"}) = 0 /\ Weight(OnWay(clerk[c])) = 0
    BY <1>9 DEF Owed, OnWay, Weight
  <2>2. Evens(c, 0, 0, 0, 0)
    BY <1>2, <1>4, <1>7, <2>1 DEF Evens
  <2> QED
    BY <1>2, <1>3, <2>2, QuietClerk
<1> QED
  BY <1>8, <1>9

\* A clerk that begins has nothing in hand.
LEMMA BeginKeepsGroup ==
  ASSUME GroupInv, NEW c \in Clerks, NEW job \in ClerkRow, Takes(c, job),
         job.at \in {"checked", "completes", "dissolves"},
         job.at = "dissolves" => job.to \in {"expired", "closed"}, job.tries = 0,
         UNCHANGED <<Rows, bucket, shelf, setbacks>>, NoneStrays
  PROVE  GroupInv'
<1>1. GroupTyped /\ setbacks \in Nat
  BY DEF GroupInv, GroupTyped
<1>2. clerk' = [clerk EXCEPT ![c] = job] /\ clerk[c].at = "idle"
  BY DEF Takes
<1>3. Turns(c) /\ clerk'[c] = job
  BY <1>1, <1>2, TurnFacts
<1>4. Knows(clerk'[c])
  BY <1>3 DEF Knows
<1>5. PiecesMove(0, 0, 0)
  BY <1>1, BucketFacts
<1>6. /\ Owed(clerk[c], All) = 0 /\ Owed(clerk[c], {"success"}) = 0 /\ Weight(OnWay(clerk[c])) = 0
      /\ Owed(clerk'[c], All) = 0 /\ Owed(clerk'[c], {"success"}) = 0 /\ Weight(OnWay(clerk'[c])) = 0
  BY <1>2, <1>3 DEF Owed, OnWay, Weight
<1>7. Evens(c, 0, 0, 0, 0)
  BY <1>1, <1>3, <1>6 DEF Evens
<1>8. 0 \in Int
  OBVIOUS
<1> QED
  BY <1>3, <1>4, <1>5, <1>7, <1>8, QuietClerk, ZenonT(60)

LEMMA JobsTyped ==
  /\ \A f \in Fans : /\ [IdleClerk EXCEPT !.at = "checked", !.fan = {f}] \in ClerkRow
                     /\ [IdleClerk EXCEPT !.at = "checked", !.fan = {f}].tries = 0
                     /\ [IdleClerk EXCEPT !.at = "checked", !.fan = {f}].at = "checked"
  /\ [IdleClerk EXCEPT !.at = "completes", !.cron = TRUE] \in ClerkRow
  /\ [IdleClerk EXCEPT !.at = "completes", !.cron = TRUE].tries = 0
  /\ [IdleClerk EXCEPT !.at = "completes", !.cron = TRUE].at = "completes"
  /\ \A t \in {"expired", "closed"} :
       /\ [IdleClerk EXCEPT !.at = "dissolves", !.to = t] \in ClerkRow
       /\ [IdleClerk EXCEPT !.at = "dissolves", !.to = t].tries = 0
       /\ [IdleClerk EXCEPT !.at = "dissolves", !.to = t].at = "dissolves"
       /\ [IdleClerk EXCEPT !.at = "dissolves", !.to = t].to = t
  /\ \A n \in 0..TargetCount :
       /\ [IdleClerk EXCEPT !.at = "stock", !.to = "success", !.owes = n] \in ClerkRow
       /\ [IdleClerk EXCEPT !.at = "stock", !.to = "success", !.owes = n].tries = 0
       /\ [IdleClerk EXCEPT !.at = "stock", !.to = "success", !.owes = n].at = "stock"
       /\ [IdleClerk EXCEPT !.at = "stock", !.to = "success", !.owes = n].to = "success"
       /\ [IdleClerk EXCEPT !.at = "stock", !.to = "success", !.owes = n].owes = n
<1>0. ASSUME NEW f \in Fans PROVE Cardinality({f}) <= 1
  <2>1. Cardinality({f}) = 1
    BY FS_Singleton, Zenon
  <2> QED
    BY <2>1
<1> USE IdleFacts DEF ClerkRow, ClerkStages
<1>1. ASSUME NEW f \in Fans
      PROVE  /\ [IdleClerk EXCEPT !.at = "checked", !.fan = {f}] \in ClerkRow
             /\ [IdleClerk EXCEPT !.at = "checked", !.fan = {f}].tries = 0
             /\ [IdleClerk EXCEPT !.at = "checked", !.fan = {f}].at = "checked"
  <2>1. Cardinality({f}) <= 1
    BY <1>0
  <2> DEFINE asks == [IdleClerk EXCEPT !.at = "checked"]
             mine == {f}
  <2>2. asks \in ClerkRow /\ asks.tries = 0 /\ asks.at = "checked"
    OBVIOUS
  <2>3. mine \in SUBSET Fans /\ Cardinality(mine) <= 1
    BY <2>1
  <2>4. [IdleClerk EXCEPT !.at = "checked", !.fan = mine] = [asks EXCEPT !.fan = mine]
    OBVIOUS
  <2> HIDE DEF asks, mine
  <2>5. /\ [asks EXCEPT !.fan = mine] \in ClerkRow
        /\ [asks EXCEPT !.fan = mine].tries = 0 /\ [asks EXCEPT !.fan = mine].at = "checked"
    BY <2>2, <2>3
  <2> QED
    BY <2>4, <2>5 DEF mine
<1>2. /\ [IdleClerk EXCEPT !.at = "completes", !.cron = TRUE] \in ClerkRow
      /\ [IdleClerk EXCEPT !.at = "completes", !.cron = TRUE].tries = 0
      /\ [IdleClerk EXCEPT !.at = "completes", !.cron = TRUE].at = "completes"
  OBVIOUS
<1>3. ASSUME NEW t \in {"expired", "closed"}
      PROVE  /\ [IdleClerk EXCEPT !.at = "dissolves", !.to = t] \in ClerkRow
             /\ [IdleClerk EXCEPT !.at = "dissolves", !.to = t].tries = 0
             /\ [IdleClerk EXCEPT !.at = "dissolves", !.to = t].at = "dissolves"
             /\ [IdleClerk EXCEPT !.at = "dissolves", !.to = t].to = t
  OBVIOUS
<1>4. ASSUME NEW n \in 0..TargetCount
      PROVE  /\ [IdleClerk EXCEPT !.at = "stock", !.to = "success", !.owes = n] \in ClerkRow
             /\ [IdleClerk EXCEPT !.at = "stock", !.to = "success", !.owes = n].tries = 0
             /\ [IdleClerk EXCEPT !.at = "stock", !.to = "success", !.owes = n].at = "stock"
             /\ [IdleClerk EXCEPT !.at = "stock", !.to = "success", !.owes = n].to = "success"
             /\ [IdleClerk EXCEPT !.at = "stock", !.to = "success", !.owes = n].owes = n
  OBVIOUS
<1> QED
  BY Zenon, <1>1, <1>2, <1>3, <1>4

LEMMA BeginsKeepGroup ==
  ASSUME GroupInv, NEW c \in Clerks,
         \/ \E f \in Fans : CreateChecks(c, f) \/ JoinChecks(c, f)
         \/ ListFullOpenGroups(c) \/ ExpireOpenGroupsBefore(c) \/ CloseGroup(c)
  PROVE  GroupInv'
<1>1. ASSUME NEW f \in Fans, CreateChecks(c, f) \/ JoinChecks(c, f) PROVE GroupInv'
  <2> DEFINE job == [IdleClerk EXCEPT !.at = "checked", !.fan = {f}]
  <2>1. Takes(c, job) /\ UNCHANGED <<Rows, bucket, shelf, setbacks>> /\ NoneStrays
    BY <1>1 DEF CreateChecks, JoinChecks, EntersGroup
  <2>2. job \in ClerkRow /\ job.at = "checked" /\ job.tries = 0
    BY JobsTyped
  <2> HIDE DEF job
  <2> QED
    BY <2>1, <2>2, BeginKeepsGroup
<1>2. CASE ListFullOpenGroups(c)
  <2> DEFINE job == [IdleClerk EXCEPT !.at = "completes", !.cron = TRUE]
  <2>1. Takes(c, job) /\ UNCHANGED <<Rows, bucket, shelf, setbacks>> /\ NoneStrays
    BY <1>2 DEF ListFullOpenGroups
  <2>2. job \in ClerkRow /\ job.at = "completes" /\ job.tries = 0
    BY JobsTyped
  <2> HIDE DEF job
  <2> QED
    BY <2>1, <2>2, BeginKeepsGroup
<1>3. ASSUME NEW t \in {"expired", "closed"},
             Takes(c, [IdleClerk EXCEPT !.at = "dissolves", !.to = t]), UNCHANGED <<Rows, bucket, shelf, setbacks>>,
             NoneStrays
      PROVE  GroupInv'
  <2> DEFINE job == [IdleClerk EXCEPT !.at = "dissolves", !.to = t]
  <2>1. Takes(c, job)
    BY <1>3
  <2>2. job \in ClerkRow /\ job.at = "dissolves" /\ job.to = t /\ job.tries = 0
    BY JobsTyped
  <2> HIDE DEF job
  <2> QED
    BY <1>3, <2>1, <2>2, BeginKeepsGroup
<1> QED
  BY <1>1, <1>2, <1>3 DEF ExpireOpenGroupsBefore, CloseGroup

\* A clerk that has pieces to move turns to the next one and owes one less.
LEMMA NextPieceFacts ==
  ASSUME GroupInv, NEW c \in Clerks, clerk[c].at = "stock", NextPiece(c)
  PROVE  /\ Turns(c) /\ Knows(clerk'[c]) /\ clerk'[c].tries = 0
         /\ clerk[c].to \in All /\ clerk[c].owes \in Nat /\ clerk[c].owes >= 1
         /\ Owed(clerk[c], All) = clerk[c].owes /\ Owed(clerk'[c], All) = clerk[c].owes - 1
         /\ Weight(OnWay(clerk[c])) = 0 /\ Weight(OnWay(clerk'[c])) = 0
         /\ clerk[c].to = "success" => /\ Owed(clerk[c], {"success"}) = clerk[c].owes
                                       /\ Owed(clerk'[c], {"success"}) = clerk[c].owes - 1
         /\ clerk[c].to # "success" => Owed(clerk[c], {"success"}) = 0 /\ Owed(clerk'[c], {"success"}) = 0
<1>1. GroupTyped
  BY DEF GroupInv
<1>2. clerk[c] \in ClerkRow /\ clerk[c].to \in All /\ clerk[c].owes \in Int /\ clerk[c].owes >= 1
  <2>1. clerk[c] \in ClerkRow
    BY <1>1 DEF GroupTyped
  <2>2. clerk[c].to # "none" /\ clerk[c].owes >= 1
    BY DEF GroupInv, ClerksKnow
  <2> QED
    BY <2>1, <2>2, GroupConstants DEF ClerkRow, All
<1> DEFINE less == [clerk[c] EXCEPT !.owes = clerk[c].owes - 1]
           row  == IF clerk[c].owes = 1 THEN IdleClerk ELSE [less EXCEPT !.tries = 0]
<1>3. clerk' = [clerk EXCEPT ![c] = row]
  BY <1>1 DEF NextPiece, GroupTyped
<1>4. /\ row \in ClerkRow /\ row.tries = 0
      /\ clerk[c].owes = 1 => row.at = "idle"
      /\ clerk[c].owes # 1 => row.at = "stock" /\ row.to = clerk[c].to /\ row.owes = clerk[c].owes - 1
  <2>1. CASE clerk[c].owes = 1
    BY <2>1, IdleFacts
  <2>2. CASE clerk[c].owes # 1
    <3>1. clerk[c].owes - 1 \in 0..TargetCount
      BY <1>2, <2>2, GroupConstants DEF ClerkRow
    <3>2. less \in ClerkRow /\ less.at = "stock" /\ less.to = clerk[c].to /\ less.owes = clerk[c].owes - 1
      BY <1>2, <3>1 DEF ClerkRow
    <3> HIDE DEF less
    <3>3. row = [less EXCEPT !.tries = 0]
      BY <2>2
    <3> HIDE DEF row
    <3> QED
      BY <2>2, <3>2, <3>3, GroupConstants DEF ClerkRow
  <2> QED
    BY <2>1, <2>2
<1> HIDE DEF less, row
<1>5. Turns(c) /\ clerk'[c] = row
  BY <1>1, <1>3, <1>4, TurnFacts
<1>6. Knows(clerk'[c])
  BY <1>2, <1>4, <1>5 DEF Knows, All
<1>7. /\ Owed(clerk[c], All) = clerk[c].owes /\ Owed(clerk'[c], All) = clerk[c].owes - 1
      /\ Weight(OnWay(clerk[c])) = 0 /\ Weight(OnWay(clerk'[c])) = 0
  BY <1>2, <1>4, <1>5 DEF Owed, OnWay, Weight
<1>8. /\ clerk[c].to = "success" => /\ Owed(clerk[c], {"success"}) = clerk[c].owes
                                    /\ Owed(clerk'[c], {"success"}) = clerk[c].owes - 1
      /\ clerk[c].to # "success" => Owed(clerk[c], {"success"}) = 0 /\ Owed(clerk'[c], {"success"}) = 0
  BY <1>2, <1>4, <1>5 DEF Owed
<1> QED
  BY <1>2, <1>4, <1>5, <1>6, <1>7, <1>8

\* One piece leaves reserved and the clerk owes one less.
LEMMA StockKeepsGroup ==
  ASSUME GroupInv, NEW c \in Clerks, MoveStock(c)
  PROVE  GroupInv'
<1>1. /\ GroupTyped /\ setbacks \in Nat /\ clerk[c].at = "stock" /\ NextPiece(c)
      /\ UNCHANGED <<Rows, shelf>> /\ NoneStrays
  BY DEF GroupInv, GroupTyped, MoveStock
<1>2. /\ Turns(c) /\ Knows(clerk'[c]) /\ clerk'[c].tries = 0
      /\ clerk[c].to \in All /\ clerk[c].owes \in Nat /\ clerk[c].owes >= 1
      /\ Owed(clerk[c], All) = clerk[c].owes /\ Owed(clerk'[c], All) = clerk[c].owes - 1
      /\ Weight(OnWay(clerk[c])) = 0 /\ Weight(OnWay(clerk'[c])) = 0
      /\ clerk[c].to = "success" => /\ Owed(clerk[c], {"success"}) = clerk[c].owes
                                    /\ Owed(clerk'[c], {"success"}) = clerk[c].owes - 1
      /\ clerk[c].to # "success" => Owed(clerk[c], {"success"}) = 0 /\ Owed(clerk'[c], {"success"}) = 0
  BY <1>1, NextPieceFacts
<1> DEFINE m == -1
<1>3. m \in Int /\ 0 \in Int /\ 1 \in Int /\ m = 0 - 1
  OBVIOUS
<1>4. /\ UNCHANGED bucket => PiecesMove(0, 0, 0)
      /\ GivesBack => PiecesMove(1, m, 0) \/ (bucket.reserved = 0 /\ PiecesMove(0, 0, 0))
      /\ bucket' = PieceCommitted(bucket) =>
           PiecesMove(0, m, 0) \/ (bucket.reserved = 0 /\ PiecesMove(0, 0, 0))
  BY <1>1, BucketFacts
<1> HIDE DEF m
<1>5. Smooth \/ Setback
  BY DEF MoveStock
<1>6. setbacks' \in Nat /\ (setbacks' = 0 => setbacks = 0) /\ (Setback => setbacks' # 0)
  BY <1>1, <1>5, HazardCounts
<1>7. CASE clerk[c].to = "success" /\ PiecesMove(0, m, 0)
  <2>1. Evens(c, 0, m, 0, 0)
    BY <1>1, <1>2, <1>3, <1>6, <1>7 DEF Evens
  <2> QED
    BY <1>1, <1>2, <1>3, <1>7, <2>1, QuietClerk
<1>8. CASE clerk[c].to # "success" /\ PiecesMove(1, m, 0)
  <2>1. Evens(c, 1, m, 0, 0)
    BY <1>1, <1>2, <1>3, <1>6, <1>8 DEF Evens
  <2> QED
    BY <1>1, <1>2, <1>3, <1>8, <2>1, QuietClerk
<1>9. CASE PiecesMove(0, 0, 0) /\ (Setback \/ bucket.reserved = 0)
  <2>1. setbacks' # 0
    BY <1>2, <1>6, <1>9, HandIsHeld
  <2>2. Evens(c, 0, 0, 0, 0)
    BY <1>1, <1>2, <1>6, <2>1 DEF Evens
  <2> QED
    BY <1>1, <1>2, <1>3, <1>9, <2>2, QuietClerk
<1> QED
  BY <1>4, <1>7, <1>8, <1>9 DEF MoveStock

\* A try of the commit script that fails may have run.
LEMMA TryKeepsGroup ==
  ASSUME GroupTyped, bucket' \in {bucket, PieceCommitted(bucket)}
  PROVE  /\ bucket' \in BucketRow /\ bucket'.available = bucket.available
         /\ bucket.reserved \in Nat /\ bucket'.reserved \in Nat
         /\ bucket'.reserved \in {bucket.reserved, bucket.reserved - 1}
         /\ strayed + (bucket.reserved - bucket'.reserved) \in Nat
<1>1. bucket \in BucketRow /\ bucket.reserved \in Nat /\ strayed \in Nat
  BY DEF GroupTyped, BucketRow
<1>2. bucket.reserved >= 1 \/ bucket.reserved = 0
  BY <1>1
<1>3. CASE bucket' = bucket
  BY <1>1, <1>3
<1>4. CASE bucket' = PieceCommitted(bucket) /\ bucket.reserved >= 1
  BY <1>1, <1>4, GroupScripts
<1>5. CASE bucket' = PieceCommitted(bucket) /\ bucket.reserved = 0
  BY <1>1, <1>3, <1>5, GroupScripts
<1> QED
  BY <1>2, <1>3, <1>4, <1>5

LEMMA FailedTryKeepsGroup ==
  ASSUME GroupInv, NEW c \in Clerks, CommitAttemptFails(c)
  PROVE  GroupInv'
<1>1. /\ GroupTyped /\ setbacks \in Nat /\ UNCHANGED Rows /\ UNCHANGED shelf
      /\ clerk[c].at = "stock" /\ clerk[c] \in ClerkRow /\ shelf \in 0..Shelf /\ shelf \in Int
      /\ unsettled \in Nat /\ strayed \in Nat
  BY GroupConstants DEF GroupInv, GroupTyped, CommitAttemptFails
<1>2. setbacks' \in Nat /\ setbacks' # 0 /\ (setbacks' = 0 => setbacks = 0)
  BY <1>1 DEF CommitAttemptFails, TryFails, Smooth, Setback, GroupInv, GroupClean
<1>3. /\ bucket' \in BucketRow /\ bucket'.available = bucket.available
      /\ bucket.reserved \in Nat /\ bucket'.reserved \in Nat
      /\ strayed' = strayed + (bucket.reserved - bucket'.reserved) /\ strayed' \in Nat
  BY <1>1, TryKeepsGroup DEF CommitAttemptFails
<1>4. bucket.available \in Int
  BY <1>1, DueFacts
<1>5. CASE /\ clerk[c].tries + 1 < StockCommitRetries /\ UNCHANGED unsettled
           /\ clerk' = [clerk EXCEPT ![c] = [@ EXCEPT !.tries = clerk[c].tries + 1]]
  <2> DEFINE row == [clerk[c] EXCEPT !.tries = clerk[c].tries + 1]
  <2>1. clerk[c].tries + 1 \in 0..(StockCommitRetries - 1)
    BY <1>1, <1>5, GroupConstants DEF ClerkRow
  <2>2. row \in ClerkRow /\ row.at = clerk[c].at /\ row.to = clerk[c].to /\ row.owes = clerk[c].owes
    BY <1>1, <2>1 DEF ClerkRow
  <2>3. clerk' = [clerk EXCEPT ![c] = row]
    BY <1>1, <1>5 DEF GroupTyped
  <2> HIDE DEF row
  <2>4. Turns(c) /\ clerk'[c] = row
    BY <1>1, <2>2, <2>3, TurnFacts
  <2>5. Knows(clerk'[c])
    BY <1>1, <2>2, <2>4 DEF Knows, GroupInv, ClerksKnow
  <2>6. Owed(clerk'[c], All) = Owed(clerk[c], All) /\ Weight(OnWay(clerk'[c])) = Weight(OnWay(clerk[c]))
    BY <2>2, <2>4 DEF Owed, OnWay
  <2>7. Owed(clerk[c], All) \in Nat /\ Weight(OnWay(clerk[c])) \in Nat
    BY <1>1, OwedNat
  <2>8. PiecesMove(0, 0, 0)
    BY <1>1, <1>3, <1>4, <1>5 DEF PiecesMove, Shielded
  <2>9. Evens(c, 0, 0, 0, 0)
    BY <1>2, <2>6, <2>7 DEF Evens
  <2> QED
    BY <1>1, <2>4, <2>5, <2>8, <2>9, QuietClerk
<1>6. CASE NextPiece(c) /\ unsettled' \in {unsettled, unsettled + 1}
  <2>1. /\ Turns(c) /\ Knows(clerk'[c]) /\ clerk[c].owes \in Nat
        /\ Owed(clerk[c], All) = clerk[c].owes /\ Owed(clerk'[c], All) = clerk[c].owes - 1
        /\ Weight(OnWay(clerk[c])) = 0 /\ Weight(OnWay(clerk'[c])) = 0
    BY <1>1, <1>6, NextPieceFacts
  <2> DEFINE r == unsettled - unsettled'
  <2>2. r \in Int /\ r + 1 >= 0 /\ unsettled' \in Nat /\ r = unsettled - unsettled'
    <3>1. unsettled' = unsettled \/ unsettled' = unsettled + 1
      BY <1>6
    <3> QED
      BY <1>1, <3>1
  <2> HIDE DEF r
  <2>3. PiecesMove(0, r, 0)
    BY <1>1, <1>3, <1>4, <2>2 DEF PiecesMove, Shielded
  <2>4. Evens(c, 0, r, 0, 0)
    BY <1>2, <2>1, <2>2 DEF Evens
  <2> QED
    BY <1>1, <2>1, <2>2, <2>3, <2>4, QuietClerk
<1> QED
  BY <1>5, <1>6 DEF CommitAttemptFails

-----------------------------------------------------------------------------
(* The transactions *)

\* A new member of a group that is open afterwards.
LEMMA NewMember ==
  ASSUME GroupInv, NEW f \in Fans, f \notin Members, BooksMember(f),
         group.status = "none" \/ group.status = "open",
         group' \in GroupRow, group'.status = "open", group'.count = group.count + 1,
         group.count < TargetCount
  PROVE  /\ membership' \in [Fans -> {"none", "joined", "succeed", "refunded"}]
         /\ groupOrder' \in [Fans -> {"none", "WaitGroup", "WaitShip", "Closed"}]
         /\ place' \in [Fans -> {"wallet", "groupbuy_escrow", "merchant_escrow"}]
         /\ MoneyWithGroup' /\ LeaderJoins'
         /\ Cardinality(WaitingFans') \in Nat /\ Cardinality(WaitingFans') = Cardinality(WaitingFans) + 1
<1>1. GroupTyped /\ MoneyWithGroup /\ LeaderJoins
  BY DEF GroupInv
<1>2. /\ membership' = [membership EXCEPT ![f] = "joined"]
      /\ groupOrder' = [groupOrder EXCEPT ![f] = "WaitGroup"]
      /\ place' = [place EXCEPT ![f] = "groupbuy_escrow"]
  BY DEF BooksMember, collectToEscrow
<1>3. /\ membership' \in [Fans -> {"none", "joined", "succeed", "refunded"}]
      /\ groupOrder' \in [Fans -> {"none", "WaitGroup", "WaitShip", "Closed"}]
      /\ place' \in [Fans -> {"wallet", "groupbuy_escrow", "merchant_escrow"}]
  BY <1>1, <1>2 DEF GroupTyped
<1>4. Members' = Members \cup {f} /\ f \in Members'
  BY <1>1, <1>2 DEF Members, GroupTyped
<1>5. WaitingFans = Members
  <2>1. group.status = "none" => Members = {}
    BY <1>1 DEF LeaderJoins
  <2>2. group.status # "open" => WaitingFans = {}
    BY WaitingAre
  <2>3. group.status = "open" => WaitingFans = Members
    BY WaitingAre
  <2> QED
    BY <2>1, <2>2, <2>3
<1>6. WaitingFans' = WaitingFans \cup {f}
  BY <1>1, <1>2 DEF WaitingFans, GroupTyped
<1>7. Cardinality(Members') = Cardinality(Members) + 1 /\ Cardinality(WaitingFans') = Cardinality(WaitingFans) + 1
  BY <1>4, <1>5, <1>6, FanCounts, FS_AddElement
<1>8. group.count = Cardinality(Members) /\ Cardinality(Members) \in Nat /\ Cardinality(WaitingFans) \in Nat
  BY <1>1, FanCounts DEF MoneyWithGroup
<1>9. ASSUME NEW g \in Fans
      PROVE  <<groupOrder'[g], place'[g]>> = IF g \notin Members' THEN <<"none", "wallet">>
                                                                  ELSE <<"WaitGroup", "groupbuy_escrow">>
  <2>1. CASE g = f
    BY <1>1, <1>2, <1>4, <2>1 DEF GroupTyped
  <2>2. CASE g # f
    <3>1. groupOrder'[g] = groupOrder[g] /\ place'[g] = place[g] /\ (g \in Members' <=> g \in Members)
      BY <1>1, <1>2, <1>4, <2>2 DEF GroupTyped
    <3>2. group.status = "none" => g \notin Members
      BY <1>1 DEF LeaderJoins
    <3>3. <<groupOrder[g], place[g]>> = IF g \notin Members THEN <<"none", "wallet">>
                                                             ELSE <<"WaitGroup", "groupbuy_escrow">>
      BY <1>1, <3>2 DEF MoneyWithGroup
    <3> QED
      BY <3>1, <3>3
  <2> QED
    BY <2>1, <2>2
<1>a. group'.count = Cardinality(Members') /\ Cardinality(Members') <= TargetCount
  BY <1>7, <1>8, GroupConstants
<1>b. MoneyWithGroup'
  BY <1>9, <1>a DEF MoneyWithGroup
<1>c. LeaderJoins'
  BY <1>4 DEF LeaderJoins
<1> QED
  BY <1>3, <1>7, <1>8, <1>b, <1>c

\* The transaction of a member who is in: its piece waits instead of the clerk.
LEMMA JoinedStep ==
  ASSUME GroupInv, NEW c \in Clerks, NEW f \in Fans, f \notin Members, BooksMember(f),
         group.status = "none" \/ group.status = "open", group.count < TargetCount,
         group' \in GroupRow, group'.status = "open", group'.count = group.count + 1,
         Turns(c), Knows(clerk'[c]), NEW r \in Int, PiecesMove(0, r, 0), Evens(c, 0, r, 0, 1)
  PROVE  GroupInv'
<1>1. GroupTyped /\ PiecesFollow /\ GroupClean
  BY DEF GroupInv, GroupTyped
<1>2. /\ membership' \in [Fans -> {"none", "joined", "succeed", "refunded"}]
      /\ groupOrder' \in [Fans -> {"none", "WaitGroup", "WaitShip", "Closed"}]
      /\ place' \in [Fans -> {"wallet", "groupbuy_escrow", "merchant_escrow"}]
      /\ MoneyWithGroup' /\ LeaderJoins'
      /\ Cardinality(WaitingFans') \in Nat /\ Cardinality(WaitingFans') = Cardinality(WaitingFans) + 1
  BY NewMember
<1>3. PiecesFollow'
  BY <1>1, <1>2, PiecesKept
<1>4. GroupTyped'
  BY <1>1, <1>2 DEF GroupTyped, Turns, PiecesMove, Evens
<1>5. ClerksKnow'
  BY DEF GroupInv, ClerksKnow, Turns, Knows
<1>6. GroupClean'
  BY <1>1, CleanKept DEF Evens
<1> QED
  BY <1>2, <1>3, <1>4, <1>5, <1>6 DEF GroupInv

\* How the clerk goes on: the reply of the commit arrives or is lost.
LEMMA HeardOrNot ==
  ASSUME GroupInv, NEW c \in Clerks, clerk[c].at \in {"reserved", "timed"},
         UNCHANGED <<bucket, shelf, unsettled>>,
         \/ Smooth /\ UNCHANGED strayed /\ (\E at \in {"completes", "idle"} : ClerkAt(c, at))
         \/ CommitsUnheard(c)
  PROVE  /\ Turns(c) /\ Knows(clerk'[c])
         /\ \E r \in Int : PiecesMove(0, r, 0) /\ Evens(c, 0, r, 0, 1)
<1>1. /\ GroupTyped /\ setbacks \in Nat /\ {"completes", "idle", "release"} \subseteq ClerkStages
      /\ bucket \in BucketRow /\ shelf \in 0..Shelf /\ shelf \in Int
      /\ unsettled \in Nat /\ strayed \in Nat
  BY GroupConstants DEF GroupInv, GroupTyped, ClerkStages
<1>2. Owed(clerk[c], All) = 0 /\ Owed(clerk[c], {"success"}) = 0 /\ Weight(OnWay(clerk[c])) = 1
  BY DEF Owed, OnWay, Weight
<1>3. CASE Smooth /\ UNCHANGED strayed /\ (\E at \in {"completes", "idle"} : ClerkAt(c, at))
  <2>1. PICK at \in {"completes", "idle"} : ClerkAt(c, at)
    BY <1>3
  <2>2. /\ Turns(c) /\ clerk'[c].at \in {"completes", "idle"} /\ Knows(clerk'[c])
        /\ clerk'[c].tries \in {0, clerk[c].tries}
    BY <1>1, <2>1, ClerkAtFacts
  <2>3. NoneStrays /\ setbacks' = setbacks
    BY <1>3 DEF NoneStrays, Smooth
  <2>4. PiecesMove(0, 0, 0)
    BY <1>1, <2>3, BucketFacts
  <2>5. Owed(clerk'[c], All) = 0 /\ Owed(clerk'[c], {"success"}) = 0 /\ Weight(OnWay(clerk'[c])) = 0
    BY <2>2 DEF Owed, OnWay, Weight
  <2>6. Evens(c, 0, 0, 0, 1)
    BY <1>1, <1>2, <2>2, <2>3, <2>5 DEF Evens
  <2> QED
    BY <2>2, <2>4, <2>6
<1>4. CASE CommitsUnheard(c)
  <2>1. Setback /\ ClerkAt(c, "release") /\ strayed' = strayed + 1
    BY <1>4 DEF CommitsUnheard
  <2>2. Turns(c) /\ clerk'[c].at = "release" /\ Knows(clerk'[c])
    BY <1>1, <2>1, ClerkAtFacts
  <2>3. bucket.available \in Int /\ bucket.reserved \in Nat
    BY <1>1, DueFacts
  <2>4. PiecesMove(0, 1, 0)
    BY <1>1, <2>1, <2>3 DEF PiecesMove, Shielded
  <2>5. Owed(clerk'[c], All) = 0 /\ Weight(OnWay(clerk'[c])) = 1
    BY <2>2 DEF Owed, OnWay, Weight
  <2>6. setbacks' \in Nat /\ setbacks' # 0
    BY <1>1, <2>1, HazardCounts
  <2>7. Evens(c, 0, 1, 0, 1)
    BY <1>2, <2>5, <2>6 DEF Evens
  <2> QED
    BY <2>2, <2>4, <2>7
<1> QED
  BY <1>3, <1>4

LEMMA CreateKeepsGroup ==
  ASSUME GroupInv, NEW c \in Clerks, NEW f \in Fans, CreateGroupTx(c, f)
  PROVE  GroupInv'
<1>1. /\ GroupTyped /\ setbacks \in Nat /\ UNCHANGED <<bucket, shelf, unsettled>>
      /\ clerk[c].at = "reserved" /\ group.status = "none"
  BY DEF GroupInv, GroupTyped, CreateGroupTx
<1>2. CASE /\ Creates(f)
           /\ \/ Smooth /\ UNCHANGED strayed /\ (\E at \in {"completes", "idle"} : ClerkAt(c, at))
              \/ CommitsUnheard(c)
  <2>1. Members = {} /\ group.count = 0
    BY <1>1, FS_EmptySet DEF GroupInv, LeaderJoins, MoneyWithGroup
  <2>2. group' = [group EXCEPT !.status = "open", !.count = 1] /\ BooksMember(f)
    BY <1>2 DEF Creates
  <2>3. group' \in GroupRow /\ group'.status = "open" /\ group'.count = group.count + 1
    <3>1. group \in GroupRow /\ 1 \in 0..TargetCount
      BY <1>1, GroupConstants DEF GroupTyped
    <3>2. group' = [[group EXCEPT !.status = "open"] EXCEPT !.count = 1]
      BY <2>2
    <3>3. [group EXCEPT !.status = "open"] \in GroupRow /\ [group EXCEPT !.status = "open"].status = "open"
      BY <3>1 DEF GroupRow
    <3>4. group' \in GroupRow /\ group'.status = "open" /\ group'.count = 1
      BY <3>1, <3>2, <3>3 DEF GroupRow
    <3> QED
      BY <2>1, <3>4
  <2>4. f \notin Members /\ group.count < TargetCount
    BY <2>1, GroupConstants
  <2>5. /\ Turns(c) /\ Knows(clerk'[c])
        /\ \E r \in Int : PiecesMove(0, r, 0) /\ Evens(c, 0, r, 0, 1)
    BY <1>1, <1>2, HeardOrNot
  <2>6. PICK r \in Int : PiecesMove(0, r, 0) /\ Evens(c, 0, r, 0, 1)
    BY <2>5
  <2> QED
    BY <1>1, <2>2, <2>3, <2>4, <2>5, <2>6, JoinedStep
<1>3. CASE Setback /\ RollsBack(c)
  BY <1>1, <1>3, RollbackKeepsGroup
<1> QED
  BY <1>2, <1>3 DEF CreateGroupTx

LEMMA JoinKeepsGroup ==
  ASSUME GroupInv, NEW c \in Clerks, NEW f \in Fans, JoinTx(c, f)
  PROVE  GroupInv'
<1>1. /\ GroupTyped /\ setbacks \in Nat /\ UNCHANGED <<bucket, shelf, unsettled>>
      /\ clerk[c].at = "timed"
  BY DEF GroupInv, GroupTyped, JoinTx
<1>2. CASE /\ Joinable(f) /\ Joins(f)
           /\ \/ Smooth /\ UNCHANGED strayed /\ (\E at \in {"completes", "idle"} : ClerkAt(c, at))
              \/ CommitsUnheard(c)
  <2>1. group.status = "open" /\ group.count < TargetCount /\ f \notin Members
    BY <1>2 DEF Joinable, Members
  <2>2. group' = [group EXCEPT !.count = @ + 1] /\ BooksMember(f)
    BY <1>2 DEF Joins
  <2>3. group' \in GroupRow /\ group'.status = "open" /\ group'.count = group.count + 1
    BY <1>1, <2>1, <2>2, GroupConstants DEF GroupTyped, GroupRow
  <2>4. /\ Turns(c) /\ Knows(clerk'[c])
        /\ \E r \in Int : PiecesMove(0, r, 0) /\ Evens(c, 0, r, 0, 1)
    BY <1>1, <1>2, HeardOrNot
  <2>5. PICK r \in Int : PiecesMove(0, r, 0) /\ Evens(c, 0, r, 0, 1)
    BY <2>4
  <2> QED
    BY <1>1, <2>1, <2>2, <2>3, <2>4, <2>5, JoinedStep
<1>3. CASE RollsBack(c) /\ (Smooth \/ Setback)
  BY <1>1, <1>3, RollbackKeepsGroup
<1> QED
  BY <1>2, <1>3 DEF JoinTx

\* A success sends the members' money on and owes a piece for each.
LEMMA SuccessKeepsGroup ==
  ASSUME GroupInv, NEW c \in Clerks, MarkGroupSuccess(c)
  PROVE  GroupInv'
<1>1. /\ GroupTyped /\ setbacks \in Nat /\ MoneyWithGroup /\ LeaderJoins /\ PiecesFollow
      /\ UNCHANGED bucket /\ NoneStrays /\ GroupClean /\ clerk[c].at = "completes"
  BY DEF GroupInv, GroupTyped, MarkGroupSuccess
<1>2. ASSUME group.status = "open", ~(shelf < Cardinality(Members)), Smooth,
             group' = [group EXCEPT !.status = "success"],
             membership' = [f \in Fans |-> IF f \in Members THEN "succeed" ELSE "none"],
             groupOrder' = [f \in Fans |-> IF f \in Members THEN "WaitShip" ELSE "none"],
             clearToMerchantEscrow(Members), shelf' = shelf - Cardinality(Members),
             clerk' = [clerk EXCEPT ![c] = [IdleClerk EXCEPT !.at = "stock", !.to = "success",
                                                             !.owes = Cardinality(Members)]]
      PROVE  GroupInv'
  <2> DEFINE n == Cardinality(Members)
             row == [IdleClerk EXCEPT !.at = "stock", !.to = "success", !.owes = n]
  <2>1. n \in Nat /\ n <= TargetCount /\ n # 0
    <3>1. Members # {}
      BY <1>1, <1>2 DEF LeaderJoins
    <3>2. n # 0
      BY <3>1, FanCounts, FS_EmptySet
    <3> QED
      BY <1>1, <3>2, FanCounts DEF MoneyWithGroup
  <2>2. n \in 0..TargetCount
    BY <2>1, GroupConstants
  <2>3. row \in ClerkRow /\ row.at = "stock" /\ row.to = "success" /\ row.owes = n /\ row.tries = 0
    BY <2>2, JobsTyped
  <2>4. clerk' = [clerk EXCEPT ![c] = row]
    BY <1>2
  <2> HIDE DEF row
  <2>5. Turns(c) /\ clerk'[c] = row
    BY <1>1, <2>3, <2>4, TurnFacts
  <2>6. Knows(clerk'[c])
    BY <2>1, <2>3, <2>5 DEF Knows
  <2>7. WaitingFans = Members /\ WaitingFans' = {} /\ Members' = Members
    <3>1. WaitingFans = Members
      BY <1>2, WaitingAre
    <3>2. WaitingFans' = {}
      BY <1>2 DEF WaitingFans
    <3>3. Members' = Members
      BY <1>2 DEF Members
    <3> QED
      BY <3>1, <3>2, <3>3
  <2>8. Cardinality(WaitingFans') = 0 /\ Cardinality(WaitingFans) = n
    BY <2>7, FS_EmptySet
  <2>9. group' \in GroupRow /\ group'.status = "success" /\ group'.count = group.count
    <3>1. group \in GroupRow
      BY <1>1 DEF GroupTyped
    <3> QED
      BY <1>2, <3>1 DEF GroupRow
  <2>a. place' = [f \in Fans |-> IF f \in Members THEN "merchant_escrow" ELSE place[f]]
    BY <1>2 DEF clearToMerchantEscrow
  <2>b. /\ membership' \in [Fans -> {"none", "joined", "succeed", "refunded"}]
        /\ groupOrder' \in [Fans -> {"none", "WaitGroup", "WaitShip", "Closed"}]
        /\ place' \in [Fans -> {"wallet", "groupbuy_escrow", "merchant_escrow"}]
    BY <1>1, <1>2, <2>a DEF GroupTyped
  <2>c. shelf' \in 0..Shelf /\ shelf' = shelf - n
    BY <1>1, <1>2, <2>1, GroupConstants DEF GroupTyped
  <2>d. MoneyWithGroup'
    <3>1. group'.count = Cardinality(Members') /\ Cardinality(Members') <= TargetCount
      BY <1>1, <2>7, <2>9 DEF MoneyWithGroup
    <3>2. ASSUME NEW f \in Fans
          PROVE  <<groupOrder'[f], place'[f]>> = IF f \notin Members' THEN <<"none", "wallet">>
                                                                      ELSE <<"WaitShip", "merchant_escrow">>
      <4>1. f \notin Members => place[f] = "wallet"
        BY <1>1 DEF MoneyWithGroup
      <4> QED
        BY <1>2, <2>7, <2>a, <4>1
    <3> QED
      BY <2>9, <3>1, <3>2 DEF MoneyWithGroup
  <2>e. LeaderJoins'
    BY <1>1, <1>2, <2>7, <2>9 DEF LeaderJoins
  <2> DEFINE m == 0 - n
  <2>f. m \in Int /\ m = 0 - n /\ 0 \in Int
    BY <2>1
  <2>g. PiecesMove(0, 0, m)
    <3>1. /\ bucket \in BucketRow /\ bucket.available \in Int /\ Shielded \in Int /\ shelf \in Int
          /\ strayed \in Nat /\ unsettled \in Nat
      BY <1>1, DueFacts DEF GroupTyped
    <3>2. Shielded' = Shielded /\ strayed' = strayed /\ unsettled' = unsettled
      BY <1>1 DEF Shielded, NoneStrays
    <3> QED
      BY <1>1, <2>1, <2>c, <3>1, <3>2 DEF PiecesMove
  <2>h. /\ Owed(clerk[c], All) = 0 /\ Owed(clerk[c], {"success"}) = 0 /\ Weight(OnWay(clerk[c])) = 0
        /\ Owed(clerk'[c], All) = n /\ Owed(clerk'[c], {"success"}) = n /\ Weight(OnWay(clerk'[c])) = 0
    BY <1>1, <2>3, <2>5 DEF Owed, OnWay, Weight, All
  <2>i. setbacks' = setbacks
    BY <1>2 DEF Smooth
  <2> HIDE DEF n, m
  <2>j. Evens(c, 0, 0, m, m)
    BY <1>1, <2>1, <2>3, <2>5, <2>f, <2>h, <2>i DEF Evens
  <2>k. Cardinality(WaitingFans') \in Nat /\ Cardinality(WaitingFans') = Cardinality(WaitingFans) + m
    BY <2>1, <2>8, <2>f
  <2>l. PiecesFollow'
    BY <1>1, <2>5, <2>f, <2>g, <2>j, <2>k, PiecesKept
  <2>m. GroupTyped'
    BY <1>1, <2>5, <2>9, <2>b, <2>g, <2>i DEF GroupTyped, Turns, PiecesMove
  <2>n. ClerksKnow'
    BY <2>5, <2>6 DEF GroupInv, ClerksKnow, Turns, Knows
  <2>o. GroupClean'
    BY <1>1, <2>5, <2>j, CleanKept DEF Evens
  <2> QED
    BY <2>d, <2>e, <2>l, <2>m, <2>n, <2>o DEF GroupInv
<1>3. ASSUME Smooth, UNCHANGED <<Rows, shelf>>,
             clerk' = [clerk EXCEPT ![c] = IF @.cron /\ group.late
                         THEN [IdleClerk EXCEPT !.at = "dissolves", !.to = "expired"] ELSE IdleClerk]
      PROVE  GroupInv'
  <2> DEFINE row == IF clerk[c].cron /\ group.late
                      THEN [IdleClerk EXCEPT !.at = "dissolves", !.to = "expired"] ELSE IdleClerk
  <2>1. /\ row \in ClerkRow /\ row.at \in {"idle", "dissolves"} /\ row.tries = 0
        /\ row.at = "dissolves" => row.to = "expired"
    <3>1. CASE clerk[c].cron /\ group.late
      BY <3>1, JobsTyped
    <3>2. CASE ~(clerk[c].cron /\ group.late)
      BY <3>2, IdleFacts
    <3> QED
      BY <3>1, <3>2
  <2>2. clerk' = [clerk EXCEPT ![c] = row]
    BY <1>1, <1>3 DEF GroupTyped
  <2> HIDE DEF row
  <2>3. Turns(c) /\ clerk'[c] = row
    BY <1>1, <2>1, <2>2, TurnFacts
  <2>4. Knows(clerk'[c])
    BY <2>1, <2>3 DEF Knows
  <2>5. /\ Owed(clerk[c], All) = 0 /\ Owed(clerk[c], {"success"}) = 0 /\ Weight(OnWay(clerk[c])) = 0
        /\ Owed(clerk'[c], All) = 0 /\ Owed(clerk'[c], {"success"}) = 0 /\ Weight(OnWay(clerk'[c])) = 0
    BY <1>1, <2>1, <2>3 DEF Owed, OnWay, Weight
  <2>6. setbacks' = setbacks
    BY <1>3 DEF Smooth
  <2>7. Evens(c, 0, 0, 0, 0)
    BY <1>1, <2>1, <2>3, <2>5, <2>6 DEF Evens
  <2>8. PiecesMove(0, 0, 0)
    BY <1>1, <1>3, BucketFacts
  <2> QED
    BY <1>3, <2>3, <2>4, <2>7, <2>8, QuietClerk
<1>4. CASE (Smooth \/ Setback) /\ ClerkAt(c, "idle") /\ UNCHANGED <<Rows, shelf>>
  BY <1>1, <1>4, DeathKeepsGroup
<1> QED
  BY <1>2, <1>3, <1>4 DEF MarkGroupSuccess

\* A dissolve repays every member and owes a piece for each.
LEMMA DissolveKeepsGroup ==
  ASSUME GroupInv, NEW c \in Clerks, DissolveGroup(c)
  PROVE  GroupInv'
<1>1. /\ GroupTyped /\ setbacks \in Nat /\ MoneyWithGroup /\ LeaderJoins /\ PiecesFollow
      /\ UNCHANGED <<bucket, shelf>> /\ NoneStrays /\ GroupClean /\ clerk[c].at = "dissolves"
  BY DEF GroupInv, GroupTyped, DissolveGroup
<1>2. ASSUME group.status = "open", Smooth, group' = [group EXCEPT !.status = clerk[c].to],
             membership' = [f \in Fans |-> IF f \in Members THEN "refunded" ELSE "none"],
             groupOrder' = [f \in Fans |-> IF f \in WaitingFans THEN "Closed" ELSE groupOrder[f]],
             refundFromEscrow(WaitingFans),
             clerk' = [clerk EXCEPT ![c] = [@ EXCEPT !.at = "stock", !.owes = Cardinality(WaitingFans)]]
      PROVE  GroupInv'
  <2> DEFINE n == Cardinality(WaitingFans)
             row == [clerk[c] EXCEPT !.at = "stock", !.owes = n]
  <2>1. WaitingFans = Members /\ clerk[c].to \in {"expired", "closed"} /\ clerk[c] \in ClerkRow
    BY <1>1, <1>2, WaitingAre DEF GroupInv, ClerksKnow, GroupTyped
  <2>2. n \in Nat /\ n <= TargetCount /\ n # 0
    <3>1. Members # {}
      BY <1>1, <1>2 DEF LeaderJoins
    <3>2. n # 0
      BY <2>1, <3>1, FanCounts, FS_EmptySet
    <3> QED
      BY <1>1, <2>1, <3>2, FanCounts DEF MoneyWithGroup
  <2>3. /\ row \in ClerkRow /\ row.at = "stock" /\ row.to = clerk[c].to /\ row.owes = n
        /\ row.tries = clerk[c].tries
    <3>1. n \in 0..TargetCount /\ "stock" \in ClerkStages
      BY <2>2, GroupConstants DEF ClerkStages
    <3> HIDE DEF n
    <3>2. [clerk[c] EXCEPT !.at = "stock"] \in ClerkRow
      BY <2>1, <3>1 DEF ClerkRow
    <3>3. /\ [clerk[c] EXCEPT !.at = "stock"].at = "stock" /\ [clerk[c] EXCEPT !.at = "stock"].to = clerk[c].to
          /\ [clerk[c] EXCEPT !.at = "stock"].tries = clerk[c].tries
      BY <2>1, <3>1 DEF ClerkRow
    <3>4. row = [[clerk[c] EXCEPT !.at = "stock"] EXCEPT !.owes = n]
      OBVIOUS
    <3> HIDE DEF row
    <3> QED
      BY <3>1, <3>2, <3>3, <3>4 DEF ClerkRow
  <2>4. clerk' = [clerk EXCEPT ![c] = row]
    BY <1>1, <1>2 DEF GroupTyped
  <2> HIDE DEF row
  <2>5. Turns(c) /\ clerk'[c] = row
    BY <1>1, <2>3, <2>4, TurnFacts
  <2>6. Knows(clerk'[c])
    BY <2>1, <2>2, <2>3, <2>5 DEF Knows
  <2>7. WaitingFans' = {} /\ Members' = Members
    <3>1. WaitingFans' = {}
      BY <1>2 DEF WaitingFans
    <3>2. Members' = Members
      BY <1>2 DEF Members
    <3> QED
      BY <3>1, <3>2
  <2>8. Cardinality(WaitingFans') = 0
    BY <2>7, FS_EmptySet
  <2>9. group' \in GroupRow /\ group'.status = clerk[c].to /\ group'.count = group.count
    <3>1. group \in GroupRow /\ clerk[c].to \in {"none", "open", "success", "expired", "closed"}
      BY <1>1, <2>1 DEF GroupTyped
    <3> QED
      BY <1>2, <3>1 DEF GroupRow
  <2>a. place' = [f \in Fans |-> IF f \in Members THEN "wallet" ELSE place[f]]
    BY <1>2, <2>1 DEF refundFromEscrow
  <2>b. /\ membership' \in [Fans -> {"none", "joined", "succeed", "refunded"}]
        /\ groupOrder' \in [Fans -> {"none", "WaitGroup", "WaitShip", "Closed"}]
        /\ place' \in [Fans -> {"wallet", "groupbuy_escrow", "merchant_escrow"}]
    BY <1>1, <1>2, <2>a DEF GroupTyped
  <2>d. MoneyWithGroup'
    <3>1. group'.count = Cardinality(Members') /\ Cardinality(Members') <= TargetCount
      BY <1>1, <2>7, <2>9 DEF MoneyWithGroup
    <3>2. ASSUME NEW f \in Fans
          PROVE  <<groupOrder'[f], place'[f]>> = IF f \notin Members' THEN <<"none", "wallet">>
                                                                      ELSE <<"Closed", "wallet">>
      <4>1. f \notin Members => place[f] = "wallet" /\ groupOrder[f] = "none"
        BY <1>1 DEF MoneyWithGroup
      <4> QED
        BY <1>2, <2>1, <2>7, <2>a, <4>1
    <3> QED
      BY <2>1, <2>9, <3>1, <3>2 DEF MoneyWithGroup
  <2>e. LeaderJoins'
    BY <1>1, <1>2, <2>1, <2>7, <2>9 DEF LeaderJoins
  <2> DEFINE m == 0 - n
  <2>f. m \in Int /\ m = 0 - n /\ 0 \in Int
    BY <2>2
  <2>g. PiecesMove(0, 0, 0)
    BY <1>1, BucketFacts
  <2>h. /\ Owed(clerk[c], All) = 0 /\ Owed(clerk[c], {"success"}) = 0 /\ Weight(OnWay(clerk[c])) = 0
        /\ Owed(clerk'[c], All) = n /\ Owed(clerk'[c], {"success"}) = 0 /\ Weight(OnWay(clerk'[c])) = 0
    BY <1>1, <2>1, <2>3, <2>5 DEF Owed, OnWay, Weight, All
  <2>i. setbacks' = setbacks
    BY <1>2 DEF Smooth
  <2> HIDE DEF n, m
  <2>j. Evens(c, 0, 0, 0, m)
    BY <1>1, <2>2, <2>3, <2>5, <2>f, <2>h, <2>i DEF Evens
  <2>k. Cardinality(WaitingFans') \in Nat /\ Cardinality(WaitingFans') = Cardinality(WaitingFans) + m
    BY <2>2, <2>8, <2>f DEF n
  <2>l. PiecesFollow'
    BY <1>1, <2>5, <2>f, <2>g, <2>j, <2>k, PiecesKept
  <2>m. GroupTyped'
    BY <1>1, <2>5, <2>9, <2>b, <2>g, <2>i DEF GroupTyped, Turns, PiecesMove
  <2>n. ClerksKnow'
    BY <2>5, <2>6 DEF GroupInv, ClerksKnow, Turns, Knows
  <2>o. GroupClean'
    BY <1>1, <2>5, <2>j, CleanKept DEF Evens
  <2> QED
    BY <2>d, <2>e, <2>l, <2>m, <2>n, <2>o DEF GroupInv
<1>3. CASE (Smooth \/ Setback) /\ ClerkAt(c, "idle") /\ UNCHANGED Rows
  <2>1. UNCHANGED <<Rows, bucket, shelf>>
    BY <1>1, <1>3
  <2> QED
    BY <1>1, <1>3, <2>1, DeathKeepsGroup
<1> QED
  BY <1>2, <1>3 DEF DissolveGroup, WaitingFans

\* What is not a clerk's: the cron of the flagged orders, the refund event, the
\* clock, and the merchant.
LEMMA OutsideKeepsGroup ==
  ASSUME GroupInv,
         retryPendingCommits \/ SettleExpiredRefund \/ ExpirePasses \/ MerchantLowersNum \/ UNCHANGED groupVars
  PROVE  GroupInv'
<1>1. GroupTyped /\ setbacks \in Nat /\ MoneyWithGroup /\ LeaderJoins /\ ClerksKnow /\ PiecesFollow /\ GroupClean
  BY DEF GroupInv, GroupTyped
<1>2. ASSUME UNCHANGED <<membership, groupOrder, place, clerk>>, group' \in GroupRow,
             group'.status = group.status, group'.count = group.count
      PROVE  /\ Members' = Members /\ WaitingFans' = WaitingFans /\ InFlight' = InFlight
             /\ \A kinds : StillOwed(kinds)' = StillOwed(kinds)
             /\ LeaderJoins' /\ ClerksKnow' /\ MoneyWithGroup'
  <2>1. Members' = Members /\ WaitingFans' = WaitingFans /\ InFlight' = InFlight
    BY <1>2 DEF Members, WaitingFans, InFlight
  <2>2. \A kinds : StillOwed(kinds)' = StillOwed(kinds)
    BY <1>2 DEF StillOwed
  <2>3. LeaderJoins' /\ ClerksKnow'
    BY <1>1, <1>2, <2>1 DEF LeaderJoins, ClerksKnow
  <2>4. MoneyWithGroup'
    BY <1>1, <1>2, <2>1 DEF MoneyWithGroup
  <2> QED
    BY <2>1, <2>2, <2>3, <2>4
<1>3. CASE SettleExpiredRefund \/ UNCHANGED groupVars
  <2>1. UNCHANGED <<group, membership, groupOrder, bucket, shelf, clerk, setbacks, unsettled, strayed>>
    BY <1>3 DEF SettleExpiredRefund, groupVars, NoneStrays
  <2>2. place' = place
    <3>1. CASE SettleExpiredRefund
      <4>1. \A f \in Fans : f \in Members => place[f] = "wallet"
        BY <1>1, <3>1 DEF SettleExpiredRefund, MoneyWithGroup
      <4>2. place' = [f \in Fans |-> IF f \in Members THEN "wallet" ELSE place[f]]
        BY <3>1 DEF SettleExpiredRefund, refundFromEscrow
      <4> QED
        BY <1>1, <4>1, <4>2 DEF GroupTyped
    <3>2. CASE UNCHANGED groupVars
      BY <3>2 DEF groupVars
    <3> QED
      BY <1>3, <3>1, <3>2
  <2>3. group' \in GroupRow
    BY <1>1, <2>1 DEF GroupTyped
  <2>4. GroupTyped'
    BY <1>1, <2>1, <2>2 DEF GroupTyped
  <2>5. /\ WaitingFans' = WaitingFans /\ InFlight' = InFlight /\ \A kinds : StillOwed(kinds)' = StillOwed(kinds)
        /\ LeaderJoins' /\ ClerksKnow' /\ MoneyWithGroup'
    BY <1>2, <2>1, <2>2, <2>3
  <2>6. StillOwed(All)' = StillOwed(All) /\ StillOwed({"success"})' = StillOwed({"success"})
    BY <2>5
  <2>7. PiecesFollow'
    BY <1>1, <2>1, <2>5, <2>6 DEF PiecesFollow, Shielded
  <2>8. GroupClean'
    BY <1>1, <2>1 DEF GroupClean
  <2> QED
    BY <2>4, <2>5, <2>7, <2>8 DEF GroupInv
<1>4. CASE ExpirePasses
  <2>1. UNCHANGED <<membership, groupOrder, place, bucket, shelf, clerk, setbacks, unsettled, strayed>>
    BY <1>4 DEF ExpirePasses, NoneStrays
  <2>2. group' \in GroupRow /\ group'.status = group.status /\ group'.count = group.count
    BY <1>1, <1>4 DEF ExpirePasses, GroupTyped, GroupRow
  <2>3. GroupTyped'
    BY <1>1, <2>1, <2>2 DEF GroupTyped
  <2>4. /\ WaitingFans' = WaitingFans /\ InFlight' = InFlight /\ \A kinds : StillOwed(kinds)' = StillOwed(kinds)
        /\ LeaderJoins' /\ ClerksKnow' /\ MoneyWithGroup'
    BY <1>2, <2>1, <2>2
  <2>5. StillOwed(All)' = StillOwed(All) /\ StillOwed({"success"})' = StillOwed({"success"})
    BY <2>4
  <2>6. PiecesFollow'
    BY <1>1, <2>1, <2>4, <2>5 DEF PiecesFollow, Shielded
  <2>7. GroupClean'
    BY <1>1, <2>1 DEF GroupClean
  <2> QED
    BY <2>3, <2>4, <2>6, <2>7 DEF GroupInv
<1>5. CASE MerchantLowersNum
  <2>1. /\ UNCHANGED <<group, membership, groupOrder, place, clerk, unsettled, strayed>> /\ Setback
        /\ shelf > 0 /\ shelf' = shelf - 1 /\ bucket' = [bucket EXCEPT !.available = @ - 1]
    BY <1>5 DEF MerchantLowersNum, Rows, NoneStrays
  <2>2. group' \in GroupRow /\ setbacks' \in Nat /\ setbacks' # 0
    BY <1>1, <2>1, HazardCounts DEF GroupTyped
  <2>3. bucket' \in BucketRow /\ bucket'.reserved = bucket.reserved /\ shelf' \in 0..Shelf
    BY <1>1, <2>1, GroupConstants DEF GroupTyped, BucketRow
  <2>4. GroupTyped'
    BY <1>1, <2>1, <2>2, <2>3 DEF GroupTyped
  <2>5. /\ WaitingFans' = WaitingFans /\ InFlight' = InFlight /\ \A kinds : StillOwed(kinds)' = StillOwed(kinds)
        /\ LeaderJoins' /\ ClerksKnow' /\ MoneyWithGroup'
    BY <1>2, <2>1, <2>2
  <2>6. StillOwed(All)' = StillOwed(All)
    BY <2>5
  <2>7. PiecesFollow'
    BY <1>1, <2>1, <2>2, <2>3, <2>5, <2>6 DEF PiecesFollow, Shielded
  <2>8. GroupClean'
    BY <2>2 DEF GroupClean
  <2> QED
    BY <2>4, <2>5, <2>7, <2>8 DEF GroupInv
<1>6. CASE retryPendingCommits
  <2>1. /\ UNCHANGED <<group, membership, groupOrder, place, shelf, clerk>> /\ (Smooth \/ Setback)
        /\ unsettled > 0 /\ bucket' \in {bucket, PieceCommitted(bucket)}
        /\ \/ unsettled' = unsettled /\ strayed' = strayed + (bucket.reserved - bucket'.reserved)
           \/ unsettled' = unsettled - 1 /\ strayed' = strayed
    BY <1>6 DEF retryPendingCommits, Rows
  <2>2. setbacks' \in Nat /\ setbacks' # 0
    BY <1>1, <2>1, HazardCounts DEF GroupClean
  <2>3. /\ bucket' \in BucketRow /\ bucket.reserved \in Nat /\ bucket'.reserved \in Nat
        /\ bucket'.reserved \in {bucket.reserved, bucket.reserved - 1}
        /\ strayed + (bucket.reserved - bucket'.reserved) \in Nat
        /\ strayed \in Nat /\ unsettled \in Nat /\ group' \in GroupRow
    BY <1>1, <2>1, TryKeepsGroup DEF GroupTyped
  <2>4. unsettled' \in Nat /\ strayed' \in Nat /\ Shielded' >= Shielded /\ Shielded \in Int /\ Shielded' \in Int
    BY <2>1, <2>3 DEF Shielded
  <2>5. GroupTyped'
    BY <1>1, <2>1, <2>2, <2>3, <2>4 DEF GroupTyped
  <2>6. /\ WaitingFans' = WaitingFans /\ InFlight' = InFlight /\ \A kinds : StillOwed(kinds)' = StillOwed(kinds)
        /\ LeaderJoins' /\ ClerksKnow' /\ MoneyWithGroup'
    BY <1>2, <2>1, <2>3
  <2>7. StillOwed(All)' = StillOwed(All)
    BY <2>6
  <2>8. PiecesFollow'
    BY <1>1, <2>2, <2>4, <2>6, <2>7, DueFacts DEF PiecesFollow
  <2>9. GroupClean'
    BY <2>2 DEF GroupClean
  <2> QED
    BY <2>5, <2>6, <2>8, <2>9 DEF GroupInv
<1> QED
  BY <1>3, <1>4, <1>5, <1>6

-----------------------------------------------------------------------------
LEMMA GroupStep ==
  ASSUME GroupInv, [GroupNext]_groupVars
  PROVE  GroupInv'
<1>1. ASSUME NEW c \in Clerks, ClerkWorks(c) PROVE GroupInv'
  BY <1>1, ReserveKeepsGroup, TimeKeepsGroup, ReleaseKeepsGroup, CreateKeepsGroup, JoinKeepsGroup,
     SuccessKeepsGroup, DissolveKeepsGroup, StockKeepsGroup, FailedTryKeepsGroup DEF ClerkWorks
<1>2. ASSUME NEW c \in Clerks, ClerkDies(c) PROVE GroupInv'
  BY <1>2, DeathKeepsGroup DEF ClerkDies
<1>3. ASSUME NEW c \in Clerks,
             \/ \E f \in Fans : CreateChecks(c, f) \/ JoinChecks(c, f)
             \/ ListFullOpenGroups(c) \/ ExpireOpenGroupsBefore(c) \/ CloseGroup(c)
      PROVE  GroupInv'
  BY <1>3, BeginsKeepGroup
<1>4. CASE \/ retryPendingCommits \/ SettleExpiredRefund \/ ExpirePasses \/ MerchantLowersNum
           \/ UNCHANGED groupVars
  BY <1>4, OutsideKeepsGroup
<1> QED
  BY <1>1, <1>2, <1>3, <1>4 DEF GroupNext

LEMMA GroupInvHolds == GroupSpec => []GroupInv
<1>1. GroupInv /\ [GroupNext]_groupVars => GroupInv'
  BY GroupStep
<1> QED
  BY GroupInitInv, <1>1, PTL DEF GroupSpec

\* The rows, the members' money and the clerks of a group keep their types;
\* the shelf is never oversold.
THEOREM GroupTypeCorrect == GroupSpec => []GroupTypeOK
<1>1. GroupInv => GroupTypeOK
  BY GroupInvOK
<1> QED
  BY GroupInvHolds, <1>1, PTL

\* However joins, completions, dissolves and refund events meet, the members'
\* money and orders are where the group's status says, and every order that
\* waits has its piece in reserved, but for one piece for each call that reported
\* a failure of something it had done.
THEOREM GroupBooksBalance == GroupSpec => []GroupBooks
<1>1. GroupInv => GroupBooks
  BY GroupInvOK
<1> QED
  BY GroupInvHolds, <1>1, PTL
=============================================================================
