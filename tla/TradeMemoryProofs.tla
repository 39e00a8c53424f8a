-------------------------- MODULE TradeMemoryProofs --------------------------
(***************************************************************************)
(* Theorems about what the bot remembers of its trades, for any number of  *)
(* pairs, runtimes, orders under way, transactions and strategies and any  *)
(* limits: Exposure first, TradeRecords and Scalper from the theorems of   *)
(* their own modules, Breaker, and the types of the four.                  *)
(***************************************************************************)
EXTENDS MCTradeMemory, Sequences, FiniteSetTheorems, TLAPS

(***************************************************************************)
(* Sums over the slots: of any number of orders under way.                 *)
(***************************************************************************)
\* A set that has 0 and with each number the next has them all: among the numbers it
\* missed there would be a least one, as their initial segments are finite sets.
LEMMA SetInduction ==
    ASSUME NEW N, 0 \in N, \A n \in Nat : n \in N => n + 1 \in N
    PROVE  Nat \subseteq N
<1> DEFINE before(n) == 0 .. n - 1
           missed == {before(n) : n \in Nat \ N}
           below == StrictSubsetOrdering(Nat)
<1>1. missed \subseteq FiniteSubsetsOf(Nat)
  <2>1. ASSUME NEW n \in Nat PROVE before(n) \in SUBSET Nat /\ IsFiniteSet(before(n))
    <3>1. 0 \in Int /\ n - 1 \in Int  OBVIOUS
    <3>2. IsFiniteSet(0 .. n - 1)  BY <3>1, FS_Interval
    <3> QED  BY <3>2
  <2> HIDE DEF before
  <2> QED  BY <2>1 DEF FiniteSubsetsOf
<1>2. IsWellFoundedOn(below, FiniteSubsetsOf(Nat))
  BY FS_StrictSubsetOrderingWellFounded
<1>3. \A x, y \in Nat : x < y => <<before(x), before(y)>> \in below
  BY DEF StrictSubsetOrdering
<1>4. SUFFICES ASSUME missed # {} PROVE FALSE  OBVIOUS
<1> HIDE DEF below
<1>5. PICK m \in missed : \A d \in missed : ~(<<d, m>> \in below)
  <2> HIDE DEF missed
  <2> QED  BY <1>1, <1>2, <1>4, WFMin
<1>6. PICK x \in Nat \ N : m = before(x)  OBVIOUS
<1>7. x - 1 \in Nat /\ x - 1 < x /\ (x - 1) + 1 = x  BY <1>6
<1>8. <<before(x - 1), m>> \in below  BY <1>3, <1>6, <1>7
<1>9. x - 1 \in N  BY <1>5, <1>7, <1>8
<1> QED  BY <1>6, <1>7, <1>9

\* s adds f up, slot by slot.
Prefixes(f, s) ==
    /\ s \in [0 .. Overlap -> Int]
    /\ s[0] = 0
    /\ \A c \in Slots : s[c] = s[c - 1] + f[c]

LEMMA PrefixesExist ==
    ASSUME NEW f \in [Slots -> Int] PROVE \E s : Prefixes(f, s)
<1>1. Overlap \in Nat  BY ExposureAssumption DEF ExposureAssumption
<1> DEFINE Upto(n, s) == /\ s \in [0 .. Overlap -> Int]
                         /\ s[0] = 0
                         /\ \A c \in Slots : c <= n => s[c] = s[c - 1] + f[c]
           N == {n \in Nat : n <= Overlap => \E s : Upto(n, s)}
<1>2. 0 \in N
  <2>1. Upto(0, [c \in 0 .. Overlap |-> 0])  BY <1>1 DEF Slots
  <2> QED  BY <2>1
<1>3. ASSUME NEW n \in Nat, n \in N PROVE n + 1 \in N
  <2> SUFFICES ASSUME n + 1 <= Overlap PROVE \E s : Upto(n + 1, s)  OBVIOUS
  <2>1. PICK s : Upto(n, s)  BY <1>1, <1>3
  <2> DEFINE t == [s EXCEPT ![n + 1] = s[n] + f[n + 1]]
  <2>2. n \in 0 .. Overlap /\ n + 1 \in Slots /\ n + 1 \in 0 .. Overlap  BY <1>1 DEF Slots
  <2>3. t \in [0 .. Overlap -> Int]  BY <2>1, <2>2
  <2>4. t[n + 1] = s[n] + f[n + 1] /\ \A c \in 0 .. Overlap : c # n + 1 => t[c] = s[c]
    BY <2>1, <2>2
  <2> HIDE DEF t
  <2>5. t[0] = 0  BY <1>1, <2>1, <2>4
  <2>6. ASSUME NEW c \in Slots, c <= n + 1 PROVE t[c] = t[c - 1] + f[c]
    <3>1. c \in 0 .. Overlap /\ c - 1 \in 0 .. Overlap /\ c - 1 # n + 1 /\ c \in Nat
      BY <1>1, <2>6 DEF Slots
    <3>2. t[c - 1] = s[c - 1]  BY <2>4, <3>1
    <3>3. CASE c = n + 1
      <4>1. c - 1 = n  BY <3>3
      <4> QED  BY <2>4, <3>2, <3>3, <4>1
    <3>4. CASE c # n + 1
      <4>1. c <= n  BY <2>6, <3>1, <3>4
      <4> QED  BY <2>1, <2>4, <3>1, <3>2, <3>4, <4>1
    <3> QED  BY <3>3, <3>4
  <2>7. Upto(n + 1, t)  BY <2>3, <2>5, <2>6
  <2> QED  BY <2>7
<1>4. Nat \subseteq N
  <2> HIDE DEF N
  <2> QED  BY <1>2, <1>3, SetInduction
<1>5. PICK s : Upto(Overlap, s)  BY <1>1, <1>4
<1>6. Prefixes(f, s)  BY <1>1, <1>5 DEF Prefixes, Slots
<1> QED  BY <1>6

\* Nothing else does, so the sum is where any such s ends.
LEMMA SumIsTheLast ==
    ASSUME NEW f \in [Slots -> Int], NEW s, Prefixes(f, s) PROVE Sum(f) = s[Overlap]
<1>1. Overlap \in Nat  BY ExposureAssumption DEF ExposureAssumption
<1> DEFINE Step(g) == [c \in 0 .. Overlap |-> IF c = 0 THEN 0 ELSE g[c - 1] + f[c]]
           upTo == CHOOSE g : g = Step(g)
<1>2. Sum(f) = upTo[Overlap]  BY DEF Sum
<1>3. s = Step(s)
  <2>1. ASSUME NEW c \in 0 .. Overlap PROVE s[c] = Step(s)[c]
    <3>1. CASE c = 0  BY <3>1 DEF Prefixes
    <3>2. CASE c # 0
      <4>1. c \in Slots  BY <1>1, <3>2 DEF Slots
      <4> QED  BY <3>2, <4>1 DEF Prefixes
    <3> QED  BY <3>1, <3>2
  <2> QED  BY <2>1 DEF Prefixes
<1>4. upTo = Step(upTo)  BY <1>3
<1> HIDE DEF upTo
<1> DEFINE N == {n \in Nat : n <= Overlap => upTo[n] = s[n]}
<1>5. 0 \in N
  <2>1. upTo[0] = 0  BY <1>1, <1>4
  <2> QED  BY <2>1 DEF Prefixes
<1>6. ASSUME NEW n \in Nat, n \in N PROVE n + 1 \in N
  <2> SUFFICES ASSUME n + 1 <= Overlap PROVE upTo[n + 1] = s[n + 1]  OBVIOUS
  <2>1. n + 1 \in Slots /\ n + 1 \in 0 .. Overlap /\ n + 1 # 0 /\ (n + 1) - 1 = n
    BY <1>1 DEF Slots
  <2>2. upTo[n] = s[n]  BY <1>1, <1>6
  <2>3. upTo[n + 1] = upTo[n] + f[n + 1]  BY <1>4, <2>1
  <2>4. s[n + 1] = s[n] + f[n + 1]  BY <2>1 DEF Prefixes
  <2> QED  BY <2>2, <2>3, <2>4
<1>7. Nat \subseteq N
  <2> HIDE DEF N
  <2> QED  BY <1>5, <1>6, SetInduction
<1> QED  BY <1>1, <1>2, <1>7

\* What is different at one place moves the sum by as much.
LEMMA SumMoves ==
    ASSUME NEW f \in [Slots -> Int], NEW g \in [Slots -> Int], NEW k \in Slots,
           \A c \in Slots \ {k} : g[c] = f[c]
    PROVE  /\ Sum(f) \in Int /\ Sum(g) \in Int
           /\ Sum(g) = Sum(f) + g[k] - f[k]
<1>1. Overlap \in Nat  BY ExposureAssumption DEF ExposureAssumption
<1>2. PICK s : Prefixes(f, s)  BY PrefixesExist
<1>3. s \in [0 .. Overlap -> Int]  BY <1>2 DEF Prefixes
<1> DEFINE d == g[k] - f[k]
           t == [c \in 0 .. Overlap |-> IF c < k THEN s[c] ELSE s[c] + d]
<1>4. d \in Int /\ k \in 1 .. Overlap  BY DEF Slots
<1>5. Prefixes(g, t)
  <2>1. t \in [0 .. Overlap -> Int]  BY <1>3, <1>4
  <2>2. t[0] = 0  BY <1>1, <1>2, <1>4 DEF Prefixes
  <2>3. ASSUME NEW c \in Slots PROVE t[c] = t[c - 1] + g[c]
    <3>1. c \in 0 .. Overlap /\ c - 1 \in 0 .. Overlap /\ s[c] = s[c - 1] + f[c]
      BY <1>1, <1>2 DEF Prefixes, Slots
    <3>2. s[c] \in Int /\ s[c - 1] \in Int /\ f[c] \in Int /\ g[c] \in Int  BY <1>3, <3>1
    <3>3. CASE c < k  BY <1>4, <3>1, <3>2, <3>3
    <3>4. CASE c = k
      <4>1. t[c] = s[c] + d /\ t[c - 1] = s[c - 1]  BY <1>4, <3>1, <3>4
      <4> QED  BY <1>4, <3>1, <3>2, <3>4, <4>1
    <3>5. CASE c > k
      <4>1. t[c] = s[c] + d /\ t[c - 1] = s[c - 1] + d /\ g[c] = f[c]
        BY <1>4, <3>1, <3>5
      <4> HIDE DEF t, d
      <4> QED  BY <1>4, <3>1, <3>2, <4>1
    <3> QED  BY <1>4, <3>1, <3>3, <3>4, <3>5
  <2> QED  BY <2>1, <2>2, <2>3 DEF Prefixes
<1>6. Sum(f) = s[Overlap] /\ Sum(g) = t[Overlap]  BY <1>2, <1>5, SumIsTheLast
<1>7. t[Overlap] = s[Overlap] + d /\ s[Overlap] \in Int  BY <1>1, <1>3, <1>4
<1> HIDE DEF t
<1> QED  BY <1>4, <1>6, <1>7

\* The sum of what nowhere exceeds does not exceed.
LEMMA SumsCompare ==
    ASSUME NEW f \in [Slots -> Int], NEW g \in [Slots -> Int],
           \A c \in Slots : f[c] <= g[c]
    PROVE  Sum(f) \in Int /\ Sum(g) \in Int /\ Sum(f) <= Sum(g)
<1>1. Overlap \in Nat  BY ExposureAssumption DEF ExposureAssumption
<1>2. PICK s : Prefixes(f, s)  BY PrefixesExist
<1>3. PICK t : Prefixes(g, t)  BY PrefixesExist
<1>4. \A c \in 0 .. Overlap : s[c] \in Int /\ t[c] \in Int  BY <1>2, <1>3 DEF Prefixes
<1> DEFINE N == {n \in Nat : n <= Overlap => s[n] <= t[n]}
<1>5. 0 \in N  BY <1>2, <1>3 DEF Prefixes
<1>6. ASSUME NEW n \in Nat, n \in N PROVE n + 1 \in N
  <2> SUFFICES ASSUME n + 1 <= Overlap PROVE s[n + 1] <= t[n + 1]  OBVIOUS
  <2>1. n + 1 \in Slots /\ n + 1 \in 0 .. Overlap /\ n \in 0 .. Overlap /\ (n + 1) - 1 = n
    BY <1>1 DEF Slots
  <2>2. s[n + 1] = s[n] + f[n + 1] /\ t[n + 1] = t[n] + g[n + 1]
    BY <1>2, <1>3, <2>1 DEF Prefixes
  <2>3. s[n] <= t[n] /\ f[n + 1] <= g[n + 1]  BY <1>1, <1>6, <2>1
  <2>4. f[n + 1] \in Int /\ g[n + 1] \in Int  BY <2>1
  <2> QED  BY <1>4, <2>1, <2>2, <2>3, <2>4
<1>7. Nat \subseteq N
  <2> HIDE DEF N
  <2> QED  BY <1>5, <1>6, SetInduction
<1>8. Sum(f) = s[Overlap] /\ Sum(g) = t[Overlap]  BY <1>2, <1>3, SumIsTheLast
<1> QED  BY <1>1, <1>4, <1>7, <1>8

\* The sum of the opposite is the opposite.
LEMMA SumNegates ==
    ASSUME NEW f \in [Slots -> Int], NEW g \in [Slots -> Int],
           \A c \in Slots : g[c] = 0 - f[c]
    PROVE  Sum(f) \in Int /\ Sum(g) = 0 - Sum(f)
<1>1. Overlap \in Nat  BY ExposureAssumption DEF ExposureAssumption
<1>2. PICK s : Prefixes(f, s)  BY PrefixesExist
<1>3. s \in [0 .. Overlap -> Int]  BY <1>2 DEF Prefixes
<1> DEFINE t == [c \in 0 .. Overlap |-> 0 - s[c]]
<1>4. Prefixes(g, t)
  <2>1. t \in [0 .. Overlap -> Int] /\ t[0] = 0  BY <1>1, <1>2, <1>3 DEF Prefixes
  <2>2. ASSUME NEW c \in Slots PROVE t[c] = t[c - 1] + g[c]
    <3>1. c \in 0 .. Overlap /\ c - 1 \in 0 .. Overlap /\ s[c] = s[c - 1] + f[c]
      BY <1>1, <1>2 DEF Prefixes, Slots
    <3>2. s[c] \in Int /\ s[c - 1] \in Int /\ f[c] \in Int  BY <1>3, <3>1
    <3>3. g[c] = 0 - f[c] /\ t[c] = 0 - s[c] /\ t[c - 1] = 0 - s[c - 1]  BY <3>1
    <3> HIDE DEF t
    <3> QED  BY <3>1, <3>2, <3>3
  <2> QED  BY <2>1, <2>2 DEF Prefixes
<1>5. Sum(f) = s[Overlap] /\ Sum(g) = t[Overlap]  BY <1>2, <1>4, SumIsTheLast
<1> QED  BY <1>1, <1>3, <1>5

\* The sum of one number is a product.
LEMMA SumOfTheSame ==
    ASSUME NEW m \in Nat
    PROVE  Sum([c \in Slots |-> m]) = Overlap * m /\ Overlap * m \in Nat
<1>1. Overlap \in Nat  BY ExposureAssumption DEF ExposureAssumption
<1> DEFINE f == [c \in Slots |-> m]
           t == [c \in 0 .. Overlap |-> c * m]
<1>2. Prefixes(f, t)
  <2>1. \A c \in 0 .. Overlap : c * m \in Int  OBVIOUS
  <2>2. t \in [0 .. Overlap -> Int]  BY <2>1
  <2>3. t[0] = 0  BY <1>1
  <2>4. ASSUME NEW c \in Slots PROVE t[c] = t[c - 1] + f[c]
    <3>1. c \in 0 .. Overlap /\ c - 1 \in 0 .. Overlap /\ c - 1 \in Int
      BY <1>1 DEF Slots
    <3>2. t[c] = c * m /\ t[c - 1] = (c - 1) * m /\ f[c] = m  BY <3>1
    <3>3. c * m = (c - 1) * m + m  BY <3>1
    <3> QED  BY <3>2, <3>3
  <2> QED  BY <2>2, <2>3, <2>4 DEF Prefixes
<1>3. f \in [Slots -> Int]  OBVIOUS
<1>4. Sum(f) = t[Overlap]
  <2> HIDE DEF f, t
  <2> QED  BY <1>2, <1>3, SumIsTheLast
<1> QED  BY <1>1, <1>4

LEMMA SumOfNothing ==
    ASSUME NEW f \in [Slots -> Int], \A c \in Slots : f[c] = 0 PROVE Sum(f) = 0
<1>1. Overlap \in Nat  BY ExposureAssumption DEF ExposureAssumption
<1>2. f = [c \in Slots |-> 0]  OBVIOUS
<1>3. Sum([c \in Slots |-> 0]) = Overlap * 0  BY SumOfTheSame
<1> QED  BY <1>1, <1>2, <1>3

-----------------------------------------------------------------------------
(* The inductive invariant of Exposure.                                    *)

\* What the orders under way have filled, and what those of a side may yet fill.
Moved(orders) ==
    [c \in Slots |-> IF orders[c] = None THEN 0 ELSE Signed(orders[c].buy, orders[c].filled)]
Pledged(orders, buy) ==
    [c \in Slots |-> IF orders[c] # None /\ orders[c].buy = buy THEN orders[c].amount ELSE 0]

Buys(orders) == Sum(Pledged(orders, TRUE))
Sells(orders) == Sum(Pledged(orders, FALSE))

Limit == MaxExposure + Overlap * MaxTradeSize

\* A started runtime follows a pair, and an order fills no more than its amount once
\* it has executed and nothing before.
PairIsKnown == runtime # None => tracker[runtime].pairKey \in Pairs
FillsAreExecuted ==
    \A c \in Slots : order[c] # None =>
        order[c].filled <= IF order[c].executed THEN order[c].amount ELSE 0

\* Until something happens that the tracker does not follow, the orders under way are
\* the started runtime's, of its pair.
OrderIsCurrent ==
    undisturbed => \A c \in Slots : order[c] # None =>
        /\ order[c].at = runtime
        /\ order[c].pair = tracker[runtime].pairKey

\* Wherever the position stands, what the buys under way may yet add stays within the
\* limit, and so does what the sells may take: each was placed below the risk
\* engine's limit, beside Overlap - 1 others at most.
PledgesAreBounded ==
    undisturbed /\ runtime # None =>
        /\ tracker[runtime].position.net + Buys(order) < Limit
        /\ Sells(order) - tracker[runtime].position.net < Limit

ExposureIInv ==
    /\ TypeOK
    /\ PairIsKnown
    /\ FillsAreExecuted
    /\ OrderIsCurrent
    /\ PledgesAreBounded
    /\ OnePairPerPosition
    /\ PositionIsHeld
    /\ ExposureIsBounded

LEMMA Constants ==
    /\ Overlap \in Nat /\ MaxTradeSize \in Nat \ {0} /\ MaxExposure \in Nat \ {0}
    /\ None \notin Pairs /\ None \notin Runtimes /\ None \notin Orders
    /\ Overlap * MaxTradeSize \in Nat
    /\ Limit \in Nat /\ 0 < Limit
<1>1. /\ Overlap \in Nat /\ MaxTradeSize \in Nat \ {0} /\ MaxExposure \in Nat \ {0}
      /\ None \notin Pairs /\ None \notin Runtimes /\ None \notin Orders
  BY ExposureAssumption, NoneIsNoOrder DEF ExposureAssumption, NoneIsNoOrder
<1>2. Overlap * MaxTradeSize \in Nat  BY <1>1, SumOfTheSame
<1> QED  BY <1>1, <1>2 DEF Limit

\* The fields of an order.
LEMMA OrderFields ==
    ASSUME NEW o \in Orders
    PROVE  /\ o.at \in Runtimes /\ o.pair \in Pairs /\ o.buy \in BOOLEAN
           /\ o.executed \in BOOLEAN
           /\ o.amount \in Nat /\ o.amount <= MaxTradeSize /\ o.filled \in Nat
           /\ \A n \in 0 .. o.amount : n \in Nat /\ n \in 0 .. MaxTradeSize
  BY Constants DEF Orders

\* The type of what an order moves.
LEMMA SignedIsInt ==
    ASSUME NEW buy \in BOOLEAN, NEW n \in Nat
    PROVE  /\ Signed(buy, n) \in Int
           /\ n = 0 => Signed(buy, n) = 0
  BY DEF Signed

LEMMA OrdersAdd ==
    ASSUME NEW orders \in [Slots -> Orders \cup {None}], NEW buy \in BOOLEAN
    PROVE  /\ Moved(orders) \in [Slots -> Int]
           /\ Pledged(orders, buy) \in [Slots -> Int]
           /\ \A c \in Slots : 0 <= Pledged(orders, buy)[c] /\ Pledged(orders, buy)[c] <= MaxTradeSize
<1>1. ASSUME NEW c \in Slots
      PROVE  /\ Moved(orders)[c] \in Int
             /\ Pledged(orders, buy)[c] \in Int
             /\ 0 <= Pledged(orders, buy)[c] /\ Pledged(orders, buy)[c] <= MaxTradeSize
  <2>1. CASE orders[c] = None  BY <2>1, Constants DEF Moved, Pledged
  <2>2. CASE orders[c] # None
    <3>1. orders[c] \in Orders  BY <2>2
    <3> QED  BY <2>2, <3>1, OrderFields, SignedIsInt, Constants DEF Moved, Pledged
  <2> QED  BY <2>1, <2>2
<1> QED  BY <1>1 DEF Moved, Pledged

\* What is under way when nothing is.
LEMMA NothingIsPledged ==
    ASSUME NEW orders, \A c \in Slots : orders[c] = None
    PROVE  Sum(Moved(orders)) = 0 /\ Buys(orders) = 0 /\ Sells(orders) = 0
<1>1. /\ Moved(orders) \in [Slots -> Int]
      /\ \A c \in Slots : Moved(orders)[c] = 0
  BY DEF Moved
<1>2. ASSUME NEW buy \in BOOLEAN
      PROVE  /\ Pledged(orders, buy) \in [Slots -> Int]
             /\ \A c \in Slots : Pledged(orders, buy)[c] = 0
  BY DEF Pledged
<1>3. \A buy \in BOOLEAN : Sum(Pledged(orders, buy)) = 0  BY <1>2, SumOfNothing
<1> QED  BY <1>1, <1>3, SumOfNothing DEF Buys, Sells

\* An order beside which one place is free finds less than Overlap orders pledged.
LEMMA PledgesFit ==
    ASSUME NEW orders \in [Slots -> Orders \cup {None}], NEW buy \in BOOLEAN,
           NEW c \in Slots, orders[c] = None
    PROVE  /\ Sum(Pledged(orders, buy)) \in Int
           /\ Sum(Pledged(orders, buy)) + MaxTradeSize <= Overlap * MaxTradeSize
<1> DEFINE f == Pledged(orders, buy)
           all == [d \in Slots |-> MaxTradeSize]
           rest == [all EXCEPT ![c] = 0]
<1>1. f \in [Slots -> Int] /\ \A d \in Slots : f[d] <= MaxTradeSize  BY OrdersAdd
<1>2. f[c] = 0  BY DEF Pledged
<1> HIDE DEF f
<1>3. MaxTradeSize \in Nat /\ MaxTradeSize \in Int  BY Constants
<1>4. all \in [Slots -> Int] /\ rest \in [Slots -> Int] /\ all[c] = MaxTradeSize /\ rest[c] = 0
  BY <1>3
<1>5. \A d \in Slots \ {c} : all[d] = rest[d] /\ rest[d] = MaxTradeSize  OBVIOUS
<1>6. Sum(all) = Overlap * MaxTradeSize /\ Overlap * MaxTradeSize \in Nat
  BY <1>3, SumOfTheSame
<1> HIDE DEF all, rest
<1>7. Sum(all) = Sum(rest) + MaxTradeSize - 0 /\ Sum(rest) \in Int
  BY <1>4, <1>5, SumMoves
<1>8. \A d \in Slots : f[d] <= rest[d]  BY <1>1, <1>2, <1>4, <1>5
<1>9. Sum(f) \in Int /\ Sum(f) <= Sum(rest)  BY <1>1, <1>4, <1>8, SumsCompare
<1> QED  BY <1>3, <1>6, <1>7, <1>9 DEF f

\* What has been filled was pledged.
LEMMA FillsArePledged ==
    ASSUME NEW orders \in [Slots -> Orders \cup {None}],
           \A c \in Slots : orders[c] # None => orders[c].filled <= orders[c].amount
    PROVE  /\ Sum(Moved(orders)) \in Int
           /\ Buys(orders) \in Int /\ Sells(orders) \in Int
           /\ Sum(Moved(orders)) <= Buys(orders)
           /\ 0 - Sum(Moved(orders)) <= Sells(orders)
<1> DEFINE m == Moved(orders)
           buys == Pledged(orders, TRUE)
           sells == Pledged(orders, FALSE)
           opposite == [c \in Slots |-> 0 - m[c]]
<1>1. m \in [Slots -> Int] /\ buys \in [Slots -> Int] /\ sells \in [Slots -> Int]
  BY OrdersAdd
<1>2. ASSUME NEW c \in Slots PROVE m[c] <= buys[c] /\ 0 - m[c] <= sells[c]
  <2>1. CASE orders[c] = None  BY <2>1 DEF Moved, Pledged
  <2>2. CASE orders[c] # None
    <3>1. orders[c] \in Orders  BY <2>2
    <3>2. /\ orders[c].buy \in BOOLEAN /\ orders[c].filled \in Nat /\ orders[c].amount \in Nat
          /\ orders[c].filled <= orders[c].amount
      BY <2>2, <3>1, OrderFields
    <3>3. CASE orders[c].buy
      BY <2>2, <3>2, <3>3 DEF Moved, Pledged, Signed
    <3>4. CASE ~orders[c].buy
      <4>1. orders[c].buy = FALSE  BY <3>2, <3>4
      <4> QED  BY <2>2, <3>2, <4>1 DEF Moved, Pledged, Signed
    <3> QED  BY <3>3, <3>4
  <2> QED  BY <2>1, <2>2
<1> HIDE DEF m, buys, sells
<1>3. opposite \in [Slots -> Int] /\ \A c \in Slots : opposite[c] = 0 - m[c]  BY <1>1
<1>4. \A c \in Slots : opposite[c] <= sells[c]  BY <1>2, <1>3
<1> HIDE DEF opposite
<1>5. Sum(m) \in Int /\ Sum(opposite) = 0 - Sum(m)  BY <1>1, <1>3, SumNegates
<1>6. Sum(m) <= Sum(buys) /\ Sum(buys) \in Int  BY <1>1, <1>2, SumsCompare
<1>7. Sum(opposite) <= Sum(sells) /\ Sum(sells) \in Int  BY <1>1, <1>3, <1>4, SumsCompare
<1> QED  BY <1>5, <1>6, <1>7 DEF m, buys, sells, Buys, Sells

\* What the orders fill and pledge once one of them is another.
LEMMA OrdersMove ==
    ASSUME NEW orders \in [Slots -> Orders \cup {None}],
           NEW others \in [Slots -> Orders \cup {None}],
           NEW k \in Slots, \A c \in Slots \ {k} : others[c] = orders[c]
    PROVE  /\ Sum(Moved(orders)) \in Int
           /\ Sum(Moved(others)) = Sum(Moved(orders)) + Moved(others)[k] - Moved(orders)[k]
           /\ \A buy \in BOOLEAN :
                  /\ Sum(Pledged(orders, buy)) \in Int
                  /\ Sum(Pledged(others, buy)) = Sum(Pledged(orders, buy))
                         + Pledged(others, buy)[k] - Pledged(orders, buy)[k]
<1>1. /\ Moved(orders) \in [Slots -> Int] /\ Moved(others) \in [Slots -> Int]
      /\ \A c \in Slots \ {k} : Moved(others)[c] = Moved(orders)[c]
  BY OrdersAdd DEF Moved
<1>2. ASSUME NEW buy \in BOOLEAN
      PROVE  /\ Pledged(orders, buy) \in [Slots -> Int] /\ Pledged(others, buy) \in [Slots -> Int]
             /\ \A c \in Slots \ {k} : Pledged(others, buy)[c] = Pledged(orders, buy)[c]
  BY OrdersAdd DEF Pledged
<1> QED  BY <1>1, <1>2, SumMoves

\* What is unrecorded of the pair of the runtime is what its orders have filled.
LEMMA UnrecordedIsMoved ==
    ASSUME NEW p, \A c \in Slots : order[c] # None => order[c].pair = p
    PROVE  Unrecorded(p) = Sum(Moved(order))
<1>1. Moved(order) = [c \in Slots |-> IF order[c] # None /\ order[c].pair = p
                         THEN Signed(order[c].buy, order[c].filled) ELSE 0]
  BY DEF Moved
<1> QED  BY <1>1 DEF Unrecorded

LEMMA UnrecordedIsMovedNext ==
    ASSUME NEW p, \A c \in Slots : order'[c] # None => order'[c].pair = p
    PROVE  Unrecorded(p)' = Sum(Moved(order'))
<1>1. Moved(order') = [c \in Slots |-> IF order'[c] # None /\ order'[c].pair = p
                         THEN Signed(order'[c].buy, order'[c].filled) ELSE 0]
  BY DEF Moved
<1> QED  BY <1>1 DEF Unrecorded

\* With what is pledged bounded, so is what is held.
LEMMA PledgesBoundHoldings ==
    ASSUME NEW orders \in [Slots -> Orders \cup {None}], NEW net \in Int,
           \A c \in Slots : orders[c] # None =>
               orders[c].filled <= IF orders[c].executed THEN orders[c].amount ELSE 0,
           net + Buys(orders) < Limit, Sells(orders) - net < Limit
    PROVE  Magnitude(net + Sum(Moved(orders))) < Limit
<1>1. ASSUME NEW c \in Slots, orders[c] # None PROVE orders[c].filled <= orders[c].amount
  <2>1. orders[c] \in Orders  BY <1>1
  <2>2. orders[c].amount \in Nat /\ orders[c].filled \in Nat  BY <2>1, OrderFields
  <2> QED  BY <1>1, <2>2
<1>2. /\ Sum(Moved(orders)) \in Int
      /\ Buys(orders) \in Int /\ Sells(orders) \in Int
      /\ Sum(Moved(orders)) <= Buys(orders)
      /\ 0 - Sum(Moved(orders)) <= Sells(orders)
  BY <1>1, FillsArePledged
<1>3. Limit \in Nat  BY Constants
<1> QED  BY <1>2, <1>3 DEF Magnitude

\* What the operators on a tracker give.
LEMMA FlatIsAPosition == Flat \in Positions
  BY DEF Flat, Positions

LEMMA StoredIsAPosition ==
    ASSUME row \in [Pairs -> Positions \cup {None}], NEW p \in Pairs
    PROVE  Stored(p) \in Positions
  BY FlatIsAPosition DEF Stored

LEMMA SetPairKeyRehydrates ==
    ASSUME row \in [Pairs -> Positions \cup {None}],
           NEW t \in Trackers, NEW p \in Pairs, NEW readable \in BOOLEAN, t.pairKey # p
    PROVE  /\ SetPairKey(t, p, readable) \in Trackers
           /\ SetPairKey(t, p, readable).pairKey = p
           /\ SetPairKey(t, p, readable).position = IF readable THEN Stored(p) ELSE Flat
<1> DEFINE fresh == Reset([t EXCEPT !.pairKey = p])
<1>1. fresh \in Trackers /\ fresh.pairKey = p /\ fresh.position = Flat
  BY FlatIsAPosition DEF Trackers, Reset
<1>2. SetPairKey(t, p, readable) = Rehydrate(fresh, readable)  BY DEF SetPairKey
<1> HIDE DEF fresh
<1>3. CASE readable /\ row[p] # None
  <2>1. Rehydrate(fresh, readable) = [fresh EXCEPT !.position = row[p]]
    BY <1>1, <1>3 DEF Rehydrate
  <2> QED  BY <1>1, <1>2, <1>3, <2>1 DEF Trackers, Stored
<1>4. CASE ~(readable /\ row[p] # None)
  <2>1. Rehydrate(fresh, readable) = fresh  BY <1>1, <1>4 DEF Rehydrate
  <2> QED  BY <1>1, <1>2, <1>4, <2>1 DEF Stored
<1> QED  BY <1>3, <1>4

LEMMA ResetFlattens ==
    ASSUME NEW t \in Trackers
    PROVE  /\ Reset(t) \in Trackers
           /\ Reset(t).pairKey = t.pairKey
           /\ Reset(t).position = Flat
  BY FlatIsAPosition DEF Trackers, Reset

LEMMA CountFillCounts ==
    ASSUME NEW t \in Trackers, NEW p \in Pairs, NEW n \in Int
    PROVE  /\ CountFill(t, p, n) \in Trackers
           /\ CountFill(t, p, n).pairKey = t.pairKey
           /\ p # t.pairKey => CountFill(t, p, n) = t
           /\ p = t.pairKey => CountFill(t, p, n).position = Add(t.position, p, n)
<1>1. t.position \in Positions  BY DEF Trackers
<1>2. Add(t.position, p, n) \in Positions  BY <1>1 DEF Add, Positions
<1> QED  BY <1>2 DEF CountFill, CountEveryFill, Trackers

-----------------------------------------------------------------------------
(* Every action keeps it.                                                  *)

LEMMA ExposureInitially == Init => ExposureIInv
<1> SUFFICES ASSUME Init PROVE ExposureIInv  OBVIOUS
<1> USE Constants, FlatIsAPosition DEF Init
<1>1. TypeOK
  <2>1. [pairKey |-> None, position |-> Flat] \in Trackers  BY DEF Trackers
  <2> QED  BY <2>1 DEF TypeOK
<1>2. PairIsKnown /\ FillsAreExecuted /\ OrderIsCurrent /\ PledgesAreBounded
  BY DEF PairIsKnown, FillsAreExecuted, OrderIsCurrent, PledgesAreBounded
<1>3. OnePairPerPosition  BY DEF OnePairPerPosition, Stored, Flat
<1>4. PositionIsHeld  BY DEF PositionIsHeld, Stored, Flat
<1>5. ExposureIsBounded
  <2>1. \A p \in Pairs : held[p] = 0  OBVIOUS
  <2>2. Magnitude(0) = 0  BY DEF Magnitude
  <2> QED  BY <2>1, <2>2 DEF ExposureIsBounded, Limit
<1> QED  BY <1>1, <1>2, <1>3, <1>4, <1>5 DEF ExposureIInv

LEMMA StartKeepsExposure ==
    ASSUME ExposureIInv, NEW r \in Runtimes, Start(r) PROVE ExposureIInv'
<1>0. TypeOK  BY DEF ExposureIInv
<1>1. PICK p \in Pairs, readable \in BOOLEAN :
        /\ tracker' = [tracker EXCEPT ![r] =
               SetPairKey([pairKey |-> None, position |-> Flat], p, readable)]
        /\ undisturbed' = (undisturbed /\ (readable \/ Stored(p).net = 0))
  BY DEF Start
<1> DEFINE t == SetPairKey([pairKey |-> None, position |-> Flat], p, readable)
<1>2. t \in Trackers /\ t.pairKey = p /\ t.position = IF readable THEN Stored(p) ELSE Flat
  <2>1. [pairKey |-> None, position |-> Flat] \in Trackers
    BY FlatIsAPosition, Constants DEF Trackers
  <2>2. None # p  BY Constants
  <2> QED  BY <1>0, <2>1, <2>2, SetPairKeyRehydrates DEF TypeOK
<1>3. runtime = None /\ runtime' = r /\ UNCHANGED <<order, row, held>>
  BY DEF Start
<1>4. tracker'[r] = t /\ \A q \in Runtimes \ {r} : tracker'[q] = tracker[q]
  BY <1>0, <1>1 DEF TypeOK
<1>5. \A q \in Pairs : Stored(q)' = Stored(q)  BY <1>3 DEF Stored
<1> HIDE DEF t
<1>6. TypeOK'  BY <1>0, <1>1, <1>2, <1>3, <1>4 DEF TypeOK, t
<1>7. PairIsKnown' /\ FillsAreExecuted'
  BY <1>2, <1>3, <1>4 DEF ExposureIInv, PairIsKnown, FillsAreExecuted
<1>8. undisturbed => \A c \in Slots : order[c] = None
  BY <1>0, <1>3, OrderFields, Constants DEF ExposureIInv, OrderIsCurrent, TypeOK
<1>9. OrderIsCurrent'  BY <1>1, <1>3, <1>8 DEF OrderIsCurrent
<1>10. undisturbed' => \A q \in Pairs : Stored(q).net = held[q] /\ held[q] \in Int
  BY <1>0, <1>1, <1>3 DEF ExposureIInv, PositionIsHeld, TypeOK
<1>11. undisturbed' => t.position.net = held[p]
  BY <1>1, <1>2, <1>10 DEF Flat
<1>12. OnePairPerPosition'
  <2>1. t.position.of \subseteq {p}  BY <1>2 DEF ExposureIInv, OnePairPerPosition, Flat
  <2> QED  BY <1>2, <1>4, <1>5, <2>1 DEF ExposureIInv, OnePairPerPosition
<1>13. PositionIsHeld'
  <2> SUFFICES ASSUME undisturbed' PROVE t.position.net + Unrecorded(p)' = held[p]
    BY <1>2, <1>3, <1>4, <1>5, <1>10 DEF PositionIsHeld
  <2>1. \A c \in Slots : order'[c] = None  BY <1>1, <1>3, <1>8
  <2>2. Unrecorded(p)' = Sum(Moved(order'))  BY <2>1, UnrecordedIsMovedNext
  <2>3. Sum(Moved(order')) = 0  BY <2>1, NothingIsPledged
  <2> QED  BY <1>10, <1>11, <2>2, <2>3
<1>14. ExposureIsBounded'  BY <1>1, <1>3 DEF ExposureIInv, ExposureIsBounded
<1>15. PledgesAreBounded'
  <2> SUFFICES ASSUME undisturbed'
               PROVE  /\ t.position.net + Buys(order') < Limit
                      /\ Sells(order') - t.position.net < Limit
    BY <1>3, <1>4 DEF PledgesAreBounded
  <2>1. /\ Buys(order') = 0 /\ Sells(order') = 0
    BY <1>1, <1>3, <1>8, NothingIsPledged
  <2>2. Magnitude(held[p]) < Limit  BY <1>1 DEF ExposureIInv, ExposureIsBounded, Limit
  <2> QED  BY <1>10, <1>11, <2>1, <2>2, Constants DEF Magnitude
<1> QED  BY <1>6, <1>7, <1>9, <1>12, <1>13, <1>14, <1>15 DEF ExposureIInv

LEMMA SetActivePairKeepsExposure ==
    ASSUME ExposureIInv, NEW p \in Pairs, NEW readable \in BOOLEAN, SetActivePair(p, readable)
    PROVE  ExposureIInv'
<1>0. TypeOK /\ runtime \in Runtimes /\ runtime # None
  BY DEF ExposureIInv, SetActivePair, TypeOK
<1> DEFINE old == tracker[runtime]
           new == Reset(SetPairKey(old, p, readable))
<1>1. /\ p # old.pairKey /\ UNCHANGED <<runtime, order, row, held>>
      /\ tracker' = [tracker EXCEPT ![runtime] = new]
      /\ undisturbed' => undisturbed /\ Persisted(old) /\ Idle /\ held[p] = 0
      /\ undisturbed' \in BOOLEAN
  BY <1>0 DEF SetActivePair, TypeOK
<1>2. new \in Trackers /\ new.pairKey = p /\ new.position = Flat
  BY <1>0, <1>1, SetPairKeyRehydrates, ResetFlattens DEF TypeOK
<1>3. tracker'[runtime] = new /\ \A q \in Runtimes \ {runtime} : tracker'[q] = tracker[q]
  BY <1>0, <1>1 DEF TypeOK
<1>4. \A q \in Pairs : Stored(q)' = Stored(q)  BY <1>1 DEF Stored
<1>5. old.pairKey \in Pairs /\ old \in Trackers
  BY <1>0 DEF ExposureIInv, PairIsKnown, TypeOK
<1> HIDE DEF new
<1>6. TypeOK'  BY <1>0, <1>1, <1>2, <1>3 DEF TypeOK
<1>7. PairIsKnown' /\ FillsAreExecuted'
  BY <1>0, <1>1, <1>2, <1>3 DEF ExposureIInv, PairIsKnown, FillsAreExecuted
<1>8. OrderIsCurrent'  BY <1>1 DEF OrderIsCurrent, Idle
<1>9. OnePairPerPosition'
  BY <1>2, <1>3, <1>4 DEF ExposureIInv, OnePairPerPosition, Flat
<1>10. undisturbed' =>
         /\ \A c \in Slots : order'[c] = None /\ order[c] = None
         /\ Sum(Moved(order')) = 0 /\ Sum(Moved(order)) = 0
         /\ Buys(order') = 0 /\ Sells(order') = 0
  BY <1>1, NothingIsPledged DEF Idle
<1>11. PositionIsHeld'
  <2> SUFFICES ASSUME undisturbed'
               PROVE  /\ new.position.net + Unrecorded(p)' = held[p]
                      /\ \A q \in Pairs \ {p} : Stored(q).net = held[q]
    BY <1>0, <1>1, <1>2, <1>3, <1>4 DEF PositionIsHeld
  <2>1. Unrecorded(p)' = 0  BY <1>10, UnrecordedIsMovedNext
  <2>2. Unrecorded(old.pairKey) = 0  BY <1>10, UnrecordedIsMoved
  <2>3. old.pairKey # None  BY <1>5, Constants
  <2>4. old.position.net + 0 = held[old.pairKey] /\ Stored(old.pairKey).net = old.position.net
    BY <1>0, <1>1, <1>5, <2>2, <2>3 DEF ExposureIInv, PositionIsHeld, Persisted
  <2>5. old.position.net \in Int  BY <1>5 DEF Trackers, Positions
  <2>6. \A q \in Pairs \ {old.pairKey} : Stored(q).net = held[q]
    BY <1>0, <1>1 DEF ExposureIInv, PositionIsHeld
  <2> QED  BY <1>1, <1>2, <2>1, <2>4, <2>5, <2>6 DEF Flat
<1>12. ExposureIsBounded'  BY <1>1 DEF ExposureIInv, ExposureIsBounded
<1>13. PledgesAreBounded'
  <2>1. new.position.net = 0  BY <1>2 DEF Flat
  <2> QED  BY <1>1, <1>3, <1>10, <2>1, Constants DEF PledgesAreBounded
<1> QED  BY <1>6, <1>7, <1>8, <1>9, <1>11, <1>12, <1>13 DEF ExposureIInv

\* What a kill or a crash of a runtime without an order leaves in the rows.
LEMMA RowsSayWhatIsHeld ==
    ASSUME ExposureIInv, runtime \in Runtimes, undisturbed,
           Persisted(tracker[runtime]), Idle
    PROVE  \A p \in Pairs : Stored(p).net = held[p]
<1> DEFINE t == tracker[runtime]
<1>1. runtime # None /\ t.pairKey \in Pairs /\ t.pairKey # None /\ t.position.net \in Int
  BY Constants DEF ExposureIInv, PairIsKnown, TypeOK, Trackers, Positions
<1>2. Unrecorded(t.pairKey) = 0  BY UnrecordedIsMoved, NothingIsPledged DEF Idle
<1>3. t.position.net + Unrecorded(t.pairKey) = held[t.pairKey]
  BY <1>1 DEF ExposureIInv, PositionIsHeld
<1>4. held[t.pairKey] = t.position.net  BY <1>1, <1>2, <1>3
<1>5. Stored(t.pairKey).net = t.position.net  BY <1>1 DEF Persisted
<1>6. \A p \in Pairs \ {t.pairKey} : Stored(p).net = held[p]
  BY DEF ExposureIInv, PositionIsHeld
<1> QED  BY <1>4, <1>5, <1>6

LEMMA KillKeepsExposure == ASSUME ExposureIInv, Kill PROVE ExposureIInv'
<1>0. TypeOK /\ runtime \in Runtimes  BY DEF ExposureIInv, Kill, TypeOK
<1> DEFINE old == tracker[runtime]
           new == Reset(old)
<1>1. /\ runtime' = None /\ UNCHANGED <<order, row, held>>
      /\ tracker' = [tracker EXCEPT ![runtime] = new]
      /\ undisturbed' => undisturbed /\ Persisted(old) /\ Idle
      /\ undisturbed' \in BOOLEAN
  BY <1>0 DEF Kill, TypeOK
<1>2. new \in Trackers /\ new.pairKey = old.pairKey /\ new.position = Flat
  BY <1>0, ResetFlattens DEF TypeOK
<1>3. tracker'[runtime] = new /\ \A q \in Runtimes \ {runtime} : tracker'[q] = tracker[q]
  BY <1>0, <1>1 DEF TypeOK
<1>4. \A q \in Pairs : Stored(q)' = Stored(q)  BY <1>1 DEF Stored
<1> HIDE DEF new
<1>5. TypeOK'  BY <1>0, <1>1, <1>2, <1>3 DEF TypeOK
<1>6. PairIsKnown' /\ FillsAreExecuted' /\ PledgesAreBounded'
  BY <1>1 DEF ExposureIInv, PairIsKnown, FillsAreExecuted, PledgesAreBounded
<1>7. OrderIsCurrent'  BY <1>1 DEF OrderIsCurrent, Idle
<1>8. OnePairPerPosition'
  BY <1>0, <1>2, <1>3, <1>4 DEF ExposureIInv, OnePairPerPosition, Flat
<1>9. PositionIsHeld'  BY <1>0, <1>1, <1>4, RowsSayWhatIsHeld DEF PositionIsHeld
<1>10. ExposureIsBounded'  BY <1>1 DEF ExposureIInv, ExposureIsBounded
<1> QED  BY <1>5, <1>6, <1>7, <1>8, <1>9, <1>10 DEF ExposureIInv

LEMMA CrashKeepsExposure == ASSUME ExposureIInv, Crash PROVE ExposureIInv'
<1>0. TypeOK /\ runtime \in Runtimes  BY DEF ExposureIInv, Crash, TypeOK
<1>1. /\ runtime' = None /\ UNCHANGED <<order, row, held>> /\ Idle
      /\ undisturbed' => undisturbed /\ Persisted(tracker[runtime])
      /\ undisturbed' \in BOOLEAN
  BY <1>0 DEF Crash, TypeOK
<1>2. /\ tracker' \in [Runtimes -> Trackers]
      /\ \A r \in Runtimes : tracker'[r].position = Flat
  BY FlatIsAPosition DEF Crash, Trackers
<1>3. \A q \in Pairs : Stored(q)' = Stored(q)  BY <1>1 DEF Stored
<1>4. TypeOK'  BY <1>0, <1>1, <1>2 DEF TypeOK
<1>5. PairIsKnown' /\ FillsAreExecuted' /\ OrderIsCurrent' /\ PledgesAreBounded'
  BY <1>1 DEF PairIsKnown, FillsAreExecuted, OrderIsCurrent, PledgesAreBounded, Idle
<1>6. OnePairPerPosition'
  BY <1>2, <1>3 DEF ExposureIInv, OnePairPerPosition, Flat
<1>7. PositionIsHeld'  BY <1>0, <1>1, <1>3, RowsSayWhatIsHeld DEF PositionIsHeld
<1>8. ExposureIsBounded'  BY <1>1 DEF ExposureIInv, ExposureIsBounded
<1> QED  BY <1>4, <1>5, <1>6, <1>7, <1>8 DEF ExposureIInv

LEMMA PlaceKeepsExposure ==
    ASSUME ExposureIInv, NEW c \in Slots, Place(c) PROVE ExposureIInv'
<1> DEFINE t == tracker[runtime]
<1>0. /\ TypeOK /\ runtime \in Runtimes /\ runtime # None /\ order[c] = None /\ Approved(t)
      /\ UNCHANGED <<runtime, tracker, row, held, undisturbed>>
  BY DEF ExposureIInv, Place, TypeOK
<1>1. t.pairKey \in Pairs /\ t.position.net \in Int
  BY <1>0 DEF ExposureIInv, PairIsKnown, TypeOK, Trackers, Positions
<1>2. PICK buy \in BOOLEAN, amount \in 1 .. MaxTradeSize :
        order' = [order EXCEPT ![c] =
                     [at |-> runtime, pair |-> t.pairKey, buy |-> buy, amount |-> amount,
                      filled |-> 0, executed |-> FALSE]]
  BY DEF Place
<1>3. PICK o : o = [at |-> runtime, pair |-> t.pairKey, buy |-> buy, amount |-> amount,
                    filled |-> 0, executed |-> FALSE]
  OBVIOUS
<1>4. /\ o \in Orders /\ o # None
      /\ o.at = runtime /\ o.pair = t.pairKey /\ o.buy = buy /\ o.amount = amount
      /\ o.filled = 0 /\ o.executed = FALSE
  <2>1. amount \in 1 .. MaxTradeSize /\ 0 \in 0 .. MaxTradeSize  BY Constants
  <2>2. o \in Orders  BY <1>0, <1>1, <1>3, <2>1 DEF Orders
  <2> QED  BY <1>3, <2>2, Constants
<1>5. order'[c] = o /\ \A d \in Slots \ {c} : order'[d] = order[d]
  BY <1>0, <1>2, <1>3 DEF TypeOK
<1>6. \A q \in Pairs : Stored(q)' = Stored(q)  BY <1>0 DEF Stored
<1>7. TypeOK'  BY <1>0, <1>2, <1>3, <1>4 DEF TypeOK
<1>8. order \in [Slots -> Orders \cup {None}] /\ order' \in [Slots -> Orders \cup {None}]
  BY <1>0, <1>7 DEF TypeOK
<1>9. PairIsKnown' /\ FillsAreExecuted'
  BY <1>0, <1>4, <1>5 DEF ExposureIInv, PairIsKnown, FillsAreExecuted
<1>10. OrderIsCurrent'
  BY <1>0, <1>4, <1>5 DEF ExposureIInv, OrderIsCurrent
<1>11. OnePairPerPosition'  BY <1>0, <1>6 DEF ExposureIInv, OnePairPerPosition
<1>12. PositionIsHeld'
  <2> SUFFICES ASSUME undisturbed PROVE PositionIsHeld'  BY <1>0 DEF PositionIsHeld
  <2>1. Unrecorded(t.pairKey) = Sum(Moved(order)) /\ Unrecorded(t.pairKey)' = Sum(Moved(order'))
    <3>1. \A d \in Slots : order[d] # None => order[d].pair = t.pairKey
      BY DEF ExposureIInv, OrderIsCurrent
    <3>2. \A d \in Slots : order'[d] # None => order'[d].pair = t.pairKey
      BY <1>4, <1>5, <3>1
    <3>3. Unrecorded(t.pairKey) = Sum(Moved(order))  BY <3>1, UnrecordedIsMoved
    <3>4. Unrecorded(t.pairKey)' = Sum(Moved(order'))
      BY <1>0, <3>2, UnrecordedIsMovedNext
    <3> QED  BY <3>3, <3>4
  <2>2. Moved(order)[c] = 0 /\ Moved(order')[c] = 0
    BY <1>0, <1>4, <1>5, SignedIsInt DEF Moved
  <2>3. Sum(Moved(order')) = Sum(Moved(order))
    BY <1>5, <1>8, <2>2, OrdersMove
  <2>4. t.position.net + Unrecorded(t.pairKey)' = held[t.pairKey]
    BY <1>0, <2>1, <2>3 DEF ExposureIInv, PositionIsHeld
  <2> QED  BY <1>0, <1>6, <2>4 DEF ExposureIInv, PositionIsHeld
<1>13. ExposureIsBounded'  BY <1>0 DEF ExposureIInv, ExposureIsBounded
<1>14. PledgesAreBounded'
  <2> SUFFICES ASSUME undisturbed
               PROVE  /\ t.position.net + Buys(order') < Limit
                      /\ Sells(order') - t.position.net < Limit
    BY <1>0 DEF PledgesAreBounded
  <2>1. ASSUME NEW side \in BOOLEAN
        PROVE  /\ Sum(Pledged(order', side)) \in Int
               /\ Sum(Pledged(order', side)) <= Overlap * MaxTradeSize
    <3>1. Pledged(order, side)[c] = 0  BY <1>0 DEF Pledged
    <3>2. Pledged(order', side)[c] \in Int /\ Pledged(order', side)[c] <= MaxTradeSize
      BY <1>8, OrdersAdd
    <3>3. Sum(Pledged(order', side)) = Sum(Pledged(order, side)) + Pledged(order', side)[c] - 0
      BY <1>5, <1>8, <3>1, OrdersMove
    <3>4. /\ Sum(Pledged(order, side)) \in Int
          /\ Sum(Pledged(order, side)) + MaxTradeSize <= Overlap * MaxTradeSize
      BY <1>0, <1>8, PledgesFit
    <3> QED  BY <3>2, <3>3, <3>4, Constants
  <2>2. /\ Buys(order') \in Int /\ Sells(order') \in Int
        /\ Buys(order') <= Overlap * MaxTradeSize
        /\ Sells(order') <= Overlap * MaxTradeSize
    BY <2>1 DEF Buys, Sells
  <2>3. t.position.net < MaxExposure /\ 0 - t.position.net < MaxExposure
    BY <1>0, <1>1, Constants DEF Approved, Magnitude
  <2> QED  BY <1>1, <2>2, <2>3, Constants DEF Limit
<1> QED  BY <1>7, <1>9, <1>10, <1>11, <1>12, <1>13, <1>14 DEF ExposureIInv

LEMMA ExecuteKeepsExposure ==
    ASSUME ExposureIInv, NEW c \in Slots, Execute(c) PROVE ExposureIInv'
<1> DEFINE o == order[c]
<1>0. TypeOK /\ o # None /\ ~o.executed /\ UNCHANGED <<runtime, tracker, row, undisturbed>>
  BY DEF ExposureIInv, Execute
<1>1. PICK n \in 0 .. o.amount :
        /\ order' = [order EXCEPT ![c].executed = TRUE, ![c].filled = n]
        /\ held' = [held EXCEPT ![o.pair] = @ + Signed(o.buy, n)]
  BY DEF Execute
<1>2. /\ o \in Orders /\ o.filled = 0 /\ n \in 0 .. MaxTradeSize /\ n \in Nat
      /\ o.at \in Runtimes /\ o.pair \in Pairs /\ o.buy \in BOOLEAN /\ n <= o.amount
      /\ Signed(o.buy, n) \in Int
  <2>1. o \in Orders  BY <1>0 DEF TypeOK
  <2>2. /\ o.at \in Runtimes /\ o.pair \in Pairs /\ o.buy \in BOOLEAN
        /\ o.amount \in Nat /\ o.filled \in Nat /\ n \in Nat /\ n \in 0 .. MaxTradeSize
    BY <2>1, OrderFields
  <2>3. o.filled <= 0  BY <1>0 DEF ExposureIInv, FillsAreExecuted
  <2> QED  BY <2>1, <2>2, <2>3, SignedIsInt
<1>3. PICK e : e = [o EXCEPT !.executed = TRUE, !.filled = n]  OBVIOUS
<1>4. /\ e \in Orders /\ e # None
      /\ e.at = o.at /\ e.pair = o.pair /\ e.buy = o.buy /\ e.amount = o.amount
      /\ e.filled = n /\ e.executed
  <2>1. e \in Orders  BY <1>2, <1>3 DEF Orders
  <2>2. e.at = o.at  BY <1>2, <1>3 DEF Orders
  <2>3. e.pair = o.pair  BY <1>2, <1>3 DEF Orders
  <2>4. e.buy = o.buy  BY <1>2, <1>3 DEF Orders
  <2>5. e.amount = o.amount  BY <1>2, <1>3 DEF Orders
  <2>6. e.filled = n  BY <1>2, <1>3 DEF Orders
  <2>7. e.executed  BY <1>2, <1>3 DEF Orders
  <2> QED  BY <2>1, <2>2, <2>3, <2>4, <2>5, <2>6, <2>7, Constants
<1>5. order'[c] = e /\ \A d \in Slots \ {c} : order'[d] = order[d]
  BY <1>0, <1>1, <1>3 DEF TypeOK
<1>6. \A q \in Pairs : Stored(q)' = Stored(q)  BY <1>0 DEF Stored
<1> PICK p \in Pairs : p = o.pair  BY <1>2
<1>7. held' \in [Pairs -> Int] /\ order' \in [Slots -> Orders \cup {None}]
  BY <1>0, <1>1, <1>2, <1>3, <1>4, <1>5 DEF TypeOK
<1>8. TypeOK'  BY <1>0, <1>7 DEF TypeOK
<1>9. order \in [Slots -> Orders \cup {None}]  BY <1>0 DEF TypeOK
<1>10. PairIsKnown' /\ FillsAreExecuted'
  BY <1>0, <1>2, <1>4, <1>5 DEF ExposureIInv, PairIsKnown, FillsAreExecuted
<1>11. OrderIsCurrent'
  BY <1>0, <1>4, <1>5 DEF ExposureIInv, OrderIsCurrent
<1>12. OnePairPerPosition'  BY <1>0, <1>6 DEF ExposureIInv, OnePairPerPosition
<1>13. Sum(Moved(order)) \in Int /\ Sum(Moved(order')) = Sum(Moved(order)) + Signed(o.buy, n)
  <2>1. Moved(order)[c] = 0  BY <1>2, SignedIsInt DEF Moved
  <2>2. Moved(order')[c] = Signed(o.buy, n)  BY <1>4, <1>5 DEF Moved
  <2>3. /\ Sum(Moved(order)) \in Int
        /\ Sum(Moved(order')) = Sum(Moved(order)) + Moved(order')[c] - Moved(order)[c]
    BY <1>5, <1>7, <1>9, OrdersMove
  <2> QED  BY <1>2, <2>1, <2>2, <2>3
<1>14. ASSUME NEW side \in BOOLEAN PROVE Pledged(order', side) = Pledged(order, side)
  BY <1>0, <1>4, <1>5 DEF Pledged
<1>15. Buys(order') = Buys(order) /\ Sells(order') = Sells(order)
  BY <1>14 DEF Buys, Sells
<1>16. PledgesAreBounded'  BY <1>0, <1>15 DEF ExposureIInv, PledgesAreBounded
<1>17. undisturbed =>
         /\ runtime \in Runtimes /\ runtime # None
         /\ o.pair = tracker[runtime].pairKey
         /\ tracker[runtime].position.net \in Int
         /\ tracker[runtime].position.net + Sum(Moved(order')) = held'[o.pair]
         /\ Unrecorded(p)' = Sum(Moved(order'))
  <2> SUFFICES ASSUME undisturbed
               PROVE  /\ runtime \in Runtimes /\ runtime # None
                      /\ o.pair = tracker[runtime].pairKey
                      /\ tracker[runtime].position.net \in Int
                      /\ tracker[runtime].position.net + Sum(Moved(order')) = held'[o.pair]
                      /\ Unrecorded(p)' = Sum(Moved(order'))
    OBVIOUS
  <2>1. o.at = runtime /\ o.pair = tracker[runtime].pairKey
    BY <1>0 DEF ExposureIInv, OrderIsCurrent
  <2>2. runtime \in Runtimes /\ runtime # None  BY <1>2, <2>1, Constants
  <2>3. tracker[runtime].position.net \in Int  BY <1>0, <2>2 DEF TypeOK, Trackers, Positions
  <2>4. \A d \in Slots : order[d] # None => order[d].pair = o.pair
    BY <2>1 DEF ExposureIInv, OrderIsCurrent
  <2>5. \A d \in Slots : order'[d] # None => order'[d].pair = o.pair
    BY <1>4, <1>5, <2>4
  <2>6. Unrecorded(p) = Sum(Moved(order))  BY <2>4, UnrecordedIsMoved
  <2>7. Unrecorded(p)' = Sum(Moved(order'))  BY <2>5, UnrecordedIsMovedNext
  <2>8. tracker[runtime].position.net + Sum(Moved(order)) = held[o.pair]
    BY <2>1, <2>2, <2>6 DEF ExposureIInv, PositionIsHeld
  <2>9. held'[o.pair] = held[o.pair] + Signed(o.buy, n)  BY <1>0, <1>1, <1>2 DEF TypeOK
  <2>10. tracker[runtime].position.net + Sum(Moved(order')) = held'[o.pair]
    BY <1>2, <1>13, <2>3, <2>8, <2>9
  <2> QED  BY <2>1, <2>2, <2>3, <2>7, <2>10
<1>18. \A q \in Pairs \ {o.pair} : held'[q] = held[q]  BY <1>0, <1>1, <1>2 DEF TypeOK
<1>19. PositionIsHeld'
  <2> SUFFICES ASSUME undisturbed PROVE PositionIsHeld'  BY <1>0 DEF PositionIsHeld
  <2>1. tracker'[runtime'].position.net + Unrecorded(p)' = held'[p]
    BY <1>0, <1>17
  <2>2. \A q \in Pairs \ {p} : Stored(q)'.net = held'[q]
    BY <1>6, <1>17, <1>18 DEF ExposureIInv, PositionIsHeld
  <2> QED  BY <1>0, <1>17, <2>1, <2>2 DEF PositionIsHeld
<1>20. ExposureIsBounded'
  <2> SUFFICES ASSUME undisturbed PROVE Magnitude(held'[o.pair]) < Limit
    BY <1>0, <1>18 DEF ExposureIInv, ExposureIsBounded, Limit
  <2>1. /\ tracker[runtime].position.net + Buys(order') < Limit
        /\ Sells(order') - tracker[runtime].position.net < Limit
    BY <1>15, <1>17 DEF ExposureIInv, PledgesAreBounded
  <2>2. \A d \in Slots : order'[d] # None =>
          order'[d].filled <= IF order'[d].executed THEN order'[d].amount ELSE 0
    BY <1>10 DEF FillsAreExecuted
  <2>3. Magnitude(tracker[runtime].position.net + Sum(Moved(order'))) < Limit
    BY <1>7, <1>17, <2>1, <2>2, PledgesBoundHoldings
  <2> QED  BY <1>17, <2>3
<1> QED  BY <1>8, <1>10, <1>11, <1>12, <1>16, <1>19, <1>20 DEF ExposureIInv

\* An order that goes away takes what it had filled and pledged with it.
LEMMA OrderLeaves ==
    ASSUME TypeOK, TypeOK', NEW c \in Slots, order[c] # None,
           order'[c] = None, \A d \in Slots \ {c} : order'[d] = order[d]
    PROVE  LET o == order[c]
           IN  /\ Sum(Moved(order)) \in Int
               /\ Sum(Moved(order')) = Sum(Moved(order)) - Signed(o.buy, o.filled)
               /\ Buys(order) \in Int /\ Sells(order) \in Int
               /\ o.buy => Buys(order') = Buys(order) - o.amount /\ Sells(order') = Sells(order)
               /\ ~o.buy => Buys(order') = Buys(order) /\ Sells(order') = Sells(order) - o.amount
<1> DEFINE o == order[c]
<1>1. order \in [Slots -> Orders \cup {None}] /\ order' \in [Slots -> Orders \cup {None}]
  BY DEF TypeOK
<1>2. /\ o \in Orders /\ o.buy \in BOOLEAN /\ o.amount \in Nat /\ o.filled \in Nat
      /\ Signed(o.buy, o.filled) \in Int
  <2>1. o \in Orders  BY <1>1
  <2> QED  BY <2>1, OrderFields, SignedIsInt
<1>3. /\ Sum(Moved(order)) \in Int
      /\ Sum(Moved(order')) = Sum(Moved(order)) - Signed(o.buy, o.filled)
  <2>1. Moved(order)[c] = Signed(o.buy, o.filled) /\ Moved(order')[c] = 0  BY DEF Moved
  <2>2. /\ Sum(Moved(order)) \in Int
        /\ Sum(Moved(order')) = Sum(Moved(order)) + Moved(order')[c] - Moved(order)[c]
    BY <1>1, OrdersMove
  <2> QED  BY <1>2, <2>1, <2>2
<1>4. ASSUME NEW side \in BOOLEAN
      PROVE  /\ Sum(Pledged(order, side)) \in Int
             /\ o.buy = side => Sum(Pledged(order', side)) = Sum(Pledged(order, side)) - o.amount
             /\ o.buy # side => Sum(Pledged(order', side)) = Sum(Pledged(order, side))
  <2>1. /\ o.buy = side => Pledged(order, side)[c] = o.amount
        /\ o.buy # side => Pledged(order, side)[c] = 0
        /\ Pledged(order', side)[c] = 0
    BY DEF Pledged
  <2>2. /\ Sum(Pledged(order, side)) \in Int
        /\ Sum(Pledged(order', side)) =
               Sum(Pledged(order, side)) + Pledged(order', side)[c] - Pledged(order, side)[c]
    BY <1>1, OrdersMove
  <2>3. PICK x \in Int : x = Sum(Pledged(order, side))  BY <2>2
  <2>4. PICK y : y = Sum(Pledged(order', side))  OBVIOUS
  <2>5. y = x + Pledged(order', side)[c] - Pledged(order, side)[c]  BY <2>2, <2>3, <2>4
  <2>6. /\ o.buy = side => y = x - o.amount
        /\ o.buy # side => y = x
    BY <1>2, <2>1, <2>3, <2>5
  <2> QED  BY <2>3, <2>4, <2>6
<1>5. CASE o.buy
  <2>1. o.buy = TRUE  BY <1>2, <1>5
  <2>2. Sum(Pledged(order', TRUE)) = Sum(Pledged(order, TRUE)) - o.amount  BY <1>4, <2>1
  <2>3. Sum(Pledged(order', FALSE)) = Sum(Pledged(order, FALSE))  BY <1>4, <2>1
  <2> QED  BY <1>3, <1>4, <1>5, <2>2, <2>3 DEF Buys, Sells
<1>6. CASE ~o.buy
  <2>1. o.buy = FALSE  BY <1>2, <1>6
  <2>2. Sum(Pledged(order', FALSE)) = Sum(Pledged(order, FALSE)) - o.amount  BY <1>4, <2>1
  <2>3. Sum(Pledged(order', TRUE)) = Sum(Pledged(order, TRUE))  BY <1>4, <2>1
  <2> QED  BY <1>3, <1>4, <1>6, <2>2, <2>3 DEF Buys, Sells
<1> QED  BY <1>5, <1>6

LEMMA RecordKeepsExposure ==
    ASSUME ExposureIInv, NEW c \in Slots, NEW saved \in BOOLEAN, Record(c, saved)
    PROVE  ExposureIInv'
<1> DEFINE o == order[c]
           r == o.at
           t == tracker[r]
<1>0. TypeOK /\ o # None /\ o.executed /\ UNCHANGED <<runtime, held>>
      /\ order' = [order EXCEPT ![c] = None]
  BY DEF ExposureIInv, Record
<1>1. PICK size \in RecordedSizes(o) :
        LET counted == CountFill(t, o.pair, Signed(o.buy, size))
        IN  /\ tracker' = [tracker EXCEPT ![r] = counted]
            /\ row' = IF saved /\ counted # t THEN SavedRow(counted) ELSE row
            /\ undisturbed' = (undisturbed /\ size = o.filled)
  BY DEF Record
<1> DEFINE n == Signed(o.buy, size)
           new == CountFill(t, o.pair, n)
<1>2. /\ o \in Orders /\ r \in Runtimes /\ t \in Trackers
      /\ o.pair \in Pairs /\ o.buy \in BOOLEAN /\ o.amount \in Nat /\ o.filled \in Nat
  <2>1. o \in Orders  BY <1>0 DEF TypeOK
  <2>2. /\ r \in Runtimes /\ o.pair \in Pairs /\ o.buy \in BOOLEAN
        /\ o.amount \in Nat /\ o.filled \in Nat
    BY <2>1, OrderFields
  <2> QED  BY <1>0, <2>1, <2>2 DEF TypeOK
<1>3. size \in Nat /\ n \in Int
  <2>1. size \in Nat  BY <1>2, OrderFields DEF RecordedSizes
  <2> QED  BY <1>2, <2>1, SignedIsInt
<1>4. /\ new \in Trackers
      /\ new.pairKey = t.pairKey
      /\ o.pair # t.pairKey => new = t
      /\ o.pair = t.pairKey => new.position = Add(t.position, o.pair, n)
  BY <1>2, <1>3, CountFillCounts
<1>5. /\ tracker' = [tracker EXCEPT ![r] = new]
      /\ row' = IF saved /\ new # t THEN SavedRow(new) ELSE row
      /\ undisturbed' = (undisturbed /\ size = o.filled)
  BY <1>1
<1> HIDE DEF new, n
<1>6. tracker'[r] = new /\ \A q \in Runtimes \ {r} : tracker'[q] = tracker[q]
  BY <1>0, <1>2, <1>5 DEF TypeOK
<1>7. order'[c] = None /\ \A d \in Slots \ {c} : order'[d] = order[d]
  BY <1>0 DEF TypeOK
<1>8. \/ row' = row
      \/ o.pair = t.pairKey /\ row' = [row EXCEPT ![o.pair] = new.position]
  BY <1>4, <1>5 DEF SavedRow
<1>9. /\ row' \in [Pairs -> Positions \cup {None}]
      /\ \A q \in Pairs \ {o.pair} : row'[q] = row[q]
      /\ row'[o.pair] \in {row[o.pair], new.position}
      /\ o.pair # t.pairKey => row' = row
  BY <1>0, <1>2, <1>4, <1>8 DEF TypeOK, Trackers
<1>10. TypeOK'
  BY <1>0, <1>2, <1>4, <1>5, <1>9 DEF TypeOK
<1> PICK p \in Pairs : p = o.pair  BY <1>2
<1>11. PairIsKnown' /\ FillsAreExecuted'
  <2>1. \A q \in Runtimes : tracker'[q].pairKey = tracker[q].pairKey  BY <1>4, <1>6
  <2>2. PairIsKnown'  BY <1>0, <2>1 DEF ExposureIInv, PairIsKnown, TypeOK
  <2>3. FillsAreExecuted'  BY <1>7 DEF ExposureIInv, FillsAreExecuted
  <2> QED  BY <2>2, <2>3
<1>12. OnePairPerPosition'
  <2>1. new.position.of \subseteq {t.pairKey}
    <3>1. t.position.of \subseteq {t.pairKey}  BY <1>2 DEF ExposureIInv, OnePairPerPosition
    <3>2. CASE o.pair = t.pairKey  BY <1>4, <3>1, <3>2 DEF Add
    <3>3. CASE o.pair # t.pairKey  BY <1>4, <3>1, <3>3
    <3> QED  BY <3>2, <3>3
  <2>2. \A q \in Runtimes : tracker'[q].position.of \subseteq {tracker'[q].pairKey}
    BY <1>4, <1>6, <2>1 DEF ExposureIInv, OnePairPerPosition
  <2>3. ASSUME NEW q \in Pairs PROVE Stored(q)'.of \subseteq {q}
    <3>1. CASE row'[q] = row[q]  BY <3>1 DEF ExposureIInv, OnePairPerPosition, Stored
    <3>2. CASE q = o.pair /\ o.pair = t.pairKey /\ row'[q] = new.position
      BY <2>1, <3>2 DEF Stored, Flat
    <3> QED  BY <1>9, <3>1, <3>2
  <2> QED  BY <2>2, <2>3 DEF OnePairPerPosition
<1>13. undisturbed' =>
         /\ undisturbed /\ size = o.filled /\ r = runtime /\ runtime # None
         /\ o.pair = t.pairKey /\ t.position.net \in Int
         /\ new.position.net = t.position.net + n
         /\ \A d \in Slots : order[d] # None => order[d].at = runtime /\ order[d].pair = o.pair
  <2> SUFFICES ASSUME undisturbed'
               PROVE  /\ undisturbed /\ size = o.filled /\ r = runtime /\ runtime # None
                      /\ o.pair = t.pairKey /\ t.position.net \in Int
                      /\ new.position.net = t.position.net + n
                      /\ \A d \in Slots : order[d] # None =>
                             order[d].at = runtime /\ order[d].pair = o.pair
    OBVIOUS
  <2>1. undisturbed /\ size = o.filled  BY <1>5
  <2>2. r = runtime /\ o.pair = t.pairKey
    BY <1>0, <2>1 DEF ExposureIInv, OrderIsCurrent
  <2>3. \A d \in Slots : order[d] # None => order[d].at = runtime /\ order[d].pair = o.pair
    BY <2>1, <2>2 DEF ExposureIInv, OrderIsCurrent
  <2>4. t.position.net \in Int  BY <1>2 DEF Trackers, Positions
  <2>5. new.position.net = t.position.net + n  BY <1>4, <2>2 DEF Add
  <2> QED  BY <1>2, <2>1, <2>2, <2>3, <2>4, <2>5, Constants
<1>14. OrderIsCurrent'
  BY <1>0, <1>4, <1>6, <1>7, <1>13 DEF OrderIsCurrent
<1>15. /\ Sum(Moved(order)) \in Int /\ Buys(order) \in Int /\ Sells(order) \in Int
       /\ Sum(Moved(order')) = Sum(Moved(order)) - Signed(o.buy, o.filled)
       /\ o.buy => Buys(order') = Buys(order) - o.amount /\ Sells(order') = Sells(order)
       /\ ~o.buy => Buys(order') = Buys(order) /\ Sells(order') = Sells(order) - o.amount
  BY <1>0, <1>7, <1>10, OrderLeaves
<1>16. PositionIsHeld'
  <2> SUFFICES ASSUME undisturbed' PROVE PositionIsHeld'  BY DEF PositionIsHeld
  <2>1. Unrecorded(p) = Sum(Moved(order))  BY <1>13, UnrecordedIsMoved
  <2>2. Unrecorded(p)' = Sum(Moved(order'))  BY <1>7, <1>13, UnrecordedIsMovedNext
  <2>3. t.position.net + Sum(Moved(order)) = held[o.pair]
    BY <1>13, <2>1 DEF ExposureIInv, PositionIsHeld
  <2>4. new.position.net + Sum(Moved(order')) = held[o.pair]
    BY <1>3, <1>13, <1>15, <2>3 DEF n
  <2>5. tracker'[runtime'].position.net + Unrecorded(p)' = held'[p]
    BY <1>0, <1>6, <1>13, <2>2, <2>4
  <2>6. \A q \in Pairs \ {p} : Stored(q)'.net = held'[q]
    BY <1>0, <1>9, <1>13 DEF ExposureIInv, PositionIsHeld, Stored
  <2>7. runtime' # None /\ tracker'[runtime'].pairKey = p  BY <1>0, <1>4, <1>6, <1>13
  <2> QED  BY <2>5, <2>6, <2>7 DEF PositionIsHeld
<1>17. PledgesAreBounded'
  <2> SUFFICES ASSUME undisturbed'
               PROVE  /\ new.position.net + Buys(order') < Limit
                      /\ Sells(order') - new.position.net < Limit
    BY <1>0, <1>6, <1>13 DEF PledgesAreBounded
  <2>1. t.position.net + Buys(order) < Limit /\ Sells(order) - t.position.net < Limit
    BY <1>13 DEF ExposureIInv, PledgesAreBounded
  <2>2. o.filled <= o.amount  BY <1>0 DEF ExposureIInv, FillsAreExecuted
  <2>3. Limit \in Nat  BY Constants
  <2>4. CASE o.buy
    <3>1. n = o.filled  BY <1>13, <2>4 DEF n, Signed
    <3>2. Buys(order') = Buys(order) - o.amount /\ Sells(order') = Sells(order)
      BY <1>15, <2>4
    <3> QED  BY <1>2, <1>13, <1>15, <2>1, <2>2, <2>3, <3>1, <3>2
  <2>5. CASE ~o.buy
    <3>1. n = 0 - o.filled  BY <1>13, <2>5 DEF n, Signed
    <3>2. Buys(order') = Buys(order) /\ Sells(order') = Sells(order) - o.amount
      BY <1>15, <2>5
    <3> QED  BY <1>2, <1>13, <1>15, <2>1, <2>2, <2>3, <3>1, <3>2
  <2> QED  BY <2>4, <2>5
<1>18. ExposureIsBounded'  BY <1>0, <1>5 DEF ExposureIInv, ExposureIsBounded
<1> QED  BY <1>10, <1>11, <1>12, <1>14, <1>16, <1>17, <1>18 DEF ExposureIInv

LEMMA GiveUpKeepsExposure ==
    ASSUME ExposureIInv, NEW c \in Slots, GiveUp(c) PROVE ExposureIInv'
<1> DEFINE o == order[c]
<1>0. TypeOK /\ o # None /\ UNCHANGED <<runtime, tracker, row>>
      /\ order' = [order EXCEPT ![c] = None]
  BY DEF ExposureIInv, GiveUp
<1>1. PICK n \in 0 .. o.amount :
        /\ Forgotten(o, n)
        /\ held' = IF o.executed THEN held
                   ELSE [held EXCEPT ![o.pair] = @ + Signed(o.buy, n)]
        /\ undisturbed' = (undisturbed /\ n = 0)
  BY DEF GiveUp
<1>2. /\ o \in Orders /\ n \in Nat /\ o.at \in Runtimes /\ o.pair \in Pairs /\ o.buy \in BOOLEAN
      /\ o.executed \in BOOLEAN /\ o.amount \in Nat /\ o.filled \in Nat
  <2>1. o \in Orders  BY <1>0 DEF TypeOK
  <2> QED  BY <2>1, OrderFields
<1>3. order'[c] = None /\ \A d \in Slots \ {c} : order'[d] = order[d]
  BY <1>0 DEF TypeOK
<1>4. \A q \in Pairs : Stored(q)' = Stored(q)  BY <1>0 DEF Stored
<1> PICK p \in Pairs : p = o.pair  BY <1>2
<1>5. held' \in [Pairs -> Int]
  BY <1>0, <1>1, <1>2, SignedIsInt DEF TypeOK
<1>6. undisturbed' => held' = held
  <2> SUFFICES ASSUME undisturbed' PROVE held' = held  OBVIOUS
  <2>1. Signed(o.buy, n) = 0  BY <1>1, <1>2, SignedIsInt
  <2>2. \A q \in Pairs : held'[q] = held[q]  BY <1>0, <1>1, <1>2, <2>1 DEF TypeOK
  <2> QED  BY <1>0, <1>5, <2>2 DEF TypeOK
<1>7. TypeOK'  BY <1>0, <1>1, <1>5 DEF TypeOK
<1>8. PairIsKnown' /\ FillsAreExecuted'
  BY <1>0, <1>3 DEF ExposureIInv, PairIsKnown, FillsAreExecuted
<1>9. OrderIsCurrent'
  BY <1>0, <1>1, <1>3 DEF ExposureIInv, OrderIsCurrent
<1>10. OnePairPerPosition'  BY <1>0, <1>4 DEF ExposureIInv, OnePairPerPosition
<1>11. undisturbed' => o.filled = 0
  <2> SUFFICES ASSUME undisturbed' PROVE o.filled = 0  OBVIOUS
  <2>1. CASE o.executed  BY <1>1, <2>1 DEF Forgotten
  <2>2. CASE ~o.executed
    <3>1. o.filled <= 0  BY <1>0, <2>2 DEF ExposureIInv, FillsAreExecuted
    <3> QED  BY <1>2, <3>1
  <2> QED  BY <2>1, <2>2
<1>12. /\ Sum(Moved(order)) \in Int /\ Buys(order) \in Int /\ Sells(order) \in Int
       /\ Sum(Moved(order')) = Sum(Moved(order)) - Signed(o.buy, o.filled)
       /\ o.buy => Buys(order') = Buys(order) - o.amount /\ Sells(order') = Sells(order)
       /\ ~o.buy => Buys(order') = Buys(order) /\ Sells(order') = Sells(order) - o.amount
  BY <1>0, <1>3, <1>7, OrderLeaves
<1>13. undisturbed' =>
         /\ undisturbed /\ runtime \in Runtimes /\ runtime # None
         /\ \A d \in Slots : order[d] # None => order[d].pair = o.pair
         /\ o.pair = tracker[runtime].pairKey
         /\ tracker[runtime].position.net \in Int
  <2> SUFFICES ASSUME undisturbed'
               PROVE  /\ undisturbed /\ runtime \in Runtimes /\ runtime # None
                      /\ \A d \in Slots : order[d] # None => order[d].pair = o.pair
                      /\ o.pair = tracker[runtime].pairKey
                      /\ tracker[runtime].position.net \in Int
    OBVIOUS
  <2>1. undisturbed /\ o.at = runtime /\ o.pair = tracker[runtime].pairKey
    BY <1>0, <1>1 DEF ExposureIInv, OrderIsCurrent
  <2>2. runtime \in Runtimes /\ runtime # None  BY <1>2, <2>1, Constants
  <2>3. \A d \in Slots : order[d] # None => order[d].pair = o.pair
    BY <2>1 DEF ExposureIInv, OrderIsCurrent
  <2>4. tracker[runtime].position.net \in Int  BY <1>0, <2>2 DEF TypeOK, Trackers, Positions
  <2> QED  BY <2>1, <2>2, <2>3, <2>4
<1>14. PositionIsHeld'
  <2> SUFFICES ASSUME undisturbed' PROVE PositionIsHeld'  BY DEF PositionIsHeld
  <2>1. Unrecorded(p) = Sum(Moved(order))  BY <1>13, UnrecordedIsMoved
  <2>2. Unrecorded(p)' = Sum(Moved(order'))  BY <1>3, <1>13, UnrecordedIsMovedNext
  <2>3. Signed(o.buy, o.filled) = 0  BY <1>2, <1>11, SignedIsInt
  <2>4. Unrecorded(p)' = Unrecorded(p)  BY <1>12, <2>1, <2>2, <2>3
  <2> QED  BY <1>0, <1>4, <1>6, <1>13, <2>4 DEF ExposureIInv, PositionIsHeld
<1>15. PledgesAreBounded'
  <2> SUFFICES ASSUME undisturbed'
               PROVE  /\ tracker[runtime].position.net + Buys(order') < Limit
                      /\ Sells(order') - tracker[runtime].position.net < Limit
    BY <1>0 DEF PledgesAreBounded
  <2>1. /\ tracker[runtime].position.net + Buys(order) < Limit
        /\ Sells(order) - tracker[runtime].position.net < Limit
    BY <1>13 DEF ExposureIInv, PledgesAreBounded
  <2>2. /\ Buys(order') \in Int /\ Sells(order') \in Int
        /\ Buys(order') <= Buys(order) /\ Sells(order') <= Sells(order)
    <3>1. CASE o.buy
      <4>1. Buys(order') = Buys(order) - o.amount /\ Sells(order') = Sells(order)
        BY <1>12, <3>1
      <4> QED  BY <1>2, <1>12, <4>1
    <3>2. CASE ~o.buy
      <4>1. Buys(order') = Buys(order) /\ Sells(order') = Sells(order) - o.amount
        BY <1>12, <3>2
      <4> QED  BY <1>2, <1>12, <4>1
    <3> QED  BY <3>1, <3>2
  <2>3. Limit \in Nat  BY Constants
  <2> QED  BY <1>12, <1>13, <2>1, <2>2, <2>3
<1>16. ExposureIsBounded'  BY <1>1, <1>6 DEF ExposureIInv, ExposureIsBounded
<1> QED  BY <1>7, <1>8, <1>9, <1>10, <1>14, <1>15, <1>16 DEF ExposureIInv

LEMMA ExposureInductive == ExposureIInv /\ [Next]_vars => ExposureIInv'
<1> SUFFICES ASSUME ExposureIInv, [Next]_vars PROVE ExposureIInv'  OBVIOUS
<1>1. CASE UNCHANGED vars
  BY <1>1 DEF vars, ExposureIInv, TypeOK, PairIsKnown, FillsAreExecuted, OrderIsCurrent,
      PledgesAreBounded, OnePairPerPosition, PositionIsHeld, ExposureIsBounded, Stored, Unrecorded
<1>2. CASE Next
  BY <1>2, KillKeepsExposure, CrashKeepsExposure, SetActivePairKeepsExposure, StartKeepsExposure,
     PlaceKeepsExposure, ExecuteKeepsExposure, GiveUpKeepsExposure, RecordKeepsExposure DEF Next
<1> QED  BY <1>1, <1>2

LEMMA ExposureInvariance == Spec => []ExposureIInv
  BY ExposureInitially, ExposureInductive, PTL DEF Spec

\* The types of the model of the exposure.
THEOREM ExposureTypes == Spec => []TypeOK
<1>1. ExposureIInv => TypeOK  BY DEF ExposureIInv
<1> QED  BY <1>1, ExposureInvariance, PTL

\* However late fills, switches, kills, failed writes and restarts interleave, no
\* position mixes two pairs (exposureTracker.ts:137).
THEOREM PositionsAreOfOnePair == Spec => []OnePairPerPosition
<1>1. ExposureIInv => OnePairPerPosition  BY DEF ExposureIInv
<1> QED  BY <1>1, ExposureInvariance, PTL

\* As long as every fill is seen in its size and nothing is switched, killed or lost
\* under an order, the tracker says what the account holds once what overlapping ticks
\* have yet to record is added, and the rows do after a kill or a crash
\* (exposureTracker.ts:163, :253).
THEOREM TrackedIsHeld == Spec => []PositionIsHeld
<1>1. ExposureIInv => PositionIsHeld  BY DEF ExposureIInv
<1> QED  BY <1>1, ExposureInvariance, PTL

\* And the limit of the risk engine is passed by less than the size of the orders that
\* can be under way at a time, however many that are (riskEngine.ts:157).
THEOREM LimitBoundsHoldings == Spec => []ExposureIsBounded
<1>1. ExposureIInv => ExposureIsBounded  BY DEF ExposureIInv
<1> QED  BY <1>1, ExposureInvariance, PTL

(***************************************************************************)
(* TradeRecords and Scalper: MCTradeMemory runs their steps, and what they *)
(* are proved to promise holds of it.                                      *)
(***************************************************************************)
TP == INSTANCE TradeRecordsProofs WITH order <- offer, file <- tradesFile
SP == INSTANCE ScalperProofs WITH held <- owned

allVars == <<part, vars, breakerVars, recordVars, scalperVars>>

LEMMA Assumptions == TP!TradeRecordsAssumption /\ SP!ScalperAssumption
  BY TradeMemoryAssumption
  DEF T!TradeRecordsAssumption, S!ScalperAssumption, TP!TradeRecordsAssumption, SP!ScalperAssumption,
      TP!Trades, T!Trades, TP!Statuses, T!Statuses, TP!Histories, T!Histories,
      SP!Orders, S!Orders

LEMMA RecordsInitially == MCInit => TP!Init
  BY DEF MCInit, T!Init, TP!Init, T!Empty, TP!Empty, T!Nothing, TP!Nothing

LEMMA ScalperInitially == MCInit => SP!Init
  BY DEF MCInit, S!Init, SP!Init, S!Flat, SP!Flat

\* What the two instances of TradeRecords call the same.
LEMMA RecordsOperators ==
    /\ T!Loaded = TP!Loaded /\ T!Nothing = TP!Nothing /\ T!Empty = TP!Empty
    /\ (T!Backfills <=> TP!Backfills)
    /\ (T!Loads <=> TP!Loads) /\ (T!SavesJobs <=> TP!SavesJobs)
    /\ T!historyVars = TP!historyVars /\ T!jobVars = TP!jobVars
  BY DEF T!Loaded, TP!Loaded, T!Empty, TP!Empty, T!Nothing, TP!Nothing, T!Loads, TP!Loads,
         T!Backfills, TP!Backfills,
         T!SavesJobs, TP!SavesJobs, T!historyVars, TP!historyVars, T!jobVars, TP!jobVars

LEMMA RecordsSaves == ASSUME NEW history PROVE T!Saves(history) <=> TP!Saves(history)
  BY DEF T!Saves, TP!Saves, T!Writes, TP!Writes

LEMMA RecordsRecord ==
    ASSUME NEW history, NEW h, NEW status, NEW source
    PROVE  T!Recorded(history, h, status, source) = TP!Recorded(history, h, status, source)
  BY DEF T!Recorded, TP!Recorded, T!Replaces, TP!Replaces, T!Priority, TP!Priority

LEMMA SavesRecorded ==
    ASSUME NEW h, NEW status, NEW source
    PROVE  T!Saves(T!Recorded(T!Loaded, h, status, source))
           => TP!Saves(TP!Recorded(TP!Loaded, h, status, source))
  BY RecordsOperators, RecordsSaves, RecordsRecord

\* The steps of the executor and the ingestion, of the history, the jobs and the runtime.
LEMMA RecordsHashActions ==
    ASSUME NEW h \in Hashes
    PROVE  /\ T!Place(h) => TP!Place(h)
           /\ T!Sign(h) => TP!Sign(h)
           /\ T!Validate(h) => TP!Validate(h)
           /\ T!RecordFill(h) => TP!RecordFill(h)
           /\ T!Quarantine(h) => TP!Quarantine(h)
           /\ T!Reject(h) => TP!Reject(h)
           /\ T!Return(h) => TP!Return(h)
           /\ T!Ingest(h) => TP!Ingest(h)
           /\ T!Fire(h) => TP!Fire(h)
<1>1. T!Place(h) => TP!Place(h)
  BY DEF T!Place, TP!Place, T!historyVars, TP!historyVars, T!jobVars, TP!jobVars
<1>2. T!Sign(h) => TP!Sign(h)
  BY SavesRecorded, RecordsOperators
  DEF T!Sign, TP!Sign, T!jobVars, TP!jobVars
<1>3. T!Validate(h) => TP!Validate(h)
  BY DEF T!Validate, TP!Validate, T!historyVars, TP!historyVars, T!jobVars, TP!jobVars
<1>4. T!RecordFill(h) => TP!RecordFill(h)
  BY SavesRecorded, RecordsOperators
  DEF T!RecordFill, TP!RecordFill, T!jobVars, TP!jobVars
<1>5. T!Quarantine(h) => TP!Quarantine(h)
  BY RecordsSaves, RecordsOperators
  DEF T!Quarantine, TP!Quarantine, T!jobVars, TP!jobVars
<1>6. T!Reject(h) => TP!Reject(h)
  BY SavesRecorded, RecordsOperators
  DEF T!Reject, TP!Reject, T!jobVars, TP!jobVars
<1>7. T!Return(h) => TP!Return(h)
  BY DEF T!Return, TP!Return, T!historyVars, TP!historyVars, T!jobVars, TP!jobVars
<1>8. T!Ingest(h) => TP!Ingest(h)
  BY SavesRecorded, RecordsOperators
  DEF T!Ingest, TP!Ingest, T!jobVars, TP!jobVars
<1>9. T!Fire(h) => TP!Fire(h)
  BY RecordsSaves, RecordsOperators DEF T!Fire, TP!Fire
<1> QED  BY <1>1, <1>2, <1>3, <1>4, <1>5, <1>6, <1>7, <1>8, <1>9

LEMMA RecordsOtherActions ==
    /\ T!EndUpload => TP!EndUpload
    /\ T!InitFromCloud => TP!InitFromCloud
    /\ T!Read => TP!Read
    /\ T!Schedule => TP!Schedule
    /\ T!Conclude => TP!Conclude
    /\ T!Start => TP!Start
    /\ T!Kill => TP!Kill
    /\ T!Crash => TP!Crash
<1>1. T!EndUpload => TP!EndUpload
  BY DEF T!EndUpload, TP!EndUpload, T!jobVars, TP!jobVars
<1>2. T!InitFromCloud => TP!InitFromCloud
  BY RecordsOperators DEF T!InitFromCloud, TP!InitFromCloud, T!jobVars, TP!jobVars
<1>3. T!Read => TP!Read
  BY RecordsOperators DEF T!Read, TP!Read, T!jobVars, TP!jobVars
<1>4. T!Schedule => TP!Schedule
  BY RecordsOperators DEF T!Schedule, TP!Schedule, T!historyVars, TP!historyVars
<1>5. T!Conclude => TP!Conclude
  BY RecordsOperators DEF T!Conclude, TP!Conclude, T!historyVars, TP!historyVars
<1>6. T!Start => TP!Start
  BY RecordsOperators DEF T!Start, TP!Start, T!historyVars, TP!historyVars
<1>7. T!Kill => TP!Kill
  BY RecordsOperators DEF T!Kill, TP!Kill, T!historyVars, TP!historyVars
<1>8. T!Crash => TP!Crash
  BY RecordsOperators DEF T!Crash, TP!Crash, T!MayWrite, TP!MayWrite, T!historyVars, TP!historyVars
<1> QED  BY <1>1, <1>2, <1>3, <1>4, <1>5, <1>6, <1>7, <1>8

LEMMA RecordsNext == [MCNext]_allVars => TP!Next \/ UNCHANGED recordVars
<1>1. CASE UNCHANGED allVars  BY <1>1 DEF allVars
<1>2. CASE MCNext
  BY <1>2, RecordsHashActions, RecordsOtherActions
  DEF MCNext, ExposureStep, BreakerStep, RecordStep, ScalperStep, TP!Next
<1> QED  BY <1>1, <1>2

LEMMA RecordsInvariance == MCSpec => []TP!IInv
<1>1. MCInit => TP!IInv  BY Assumptions, RecordsInitially, TP!InitIInv
<1>2. TP!IInv /\ [MCNext]_allVars => TP!IInv'
  <2>1. UNCHANGED recordVars => UNCHANGED TP!vars
    BY DEF recordVars, TP!vars, TP!historyVars, TP!jobVars
  <2> QED  BY <2>1, Assumptions, RecordsNext, TP!NextKeepsIInv
<1> QED  BY <1>1, <1>2, PTL DEF MCSpec, allVars

\* S3 is a past of the file, so that the copy that wins a merge after a crash gives
\* nothing up (tradeHistory.ts:801).
THEOREM CloudStaysBehind == MCSpec => []CloudIsBehind
<1>1. TP!CloudIsBehind => CloudIsBehind
  BY DEF CloudIsBehind, T!CloudIsBehind, TP!CloudIsBehind, T!Priority, TP!Priority,
      T!InFile, TP!InFile
<1>2. TP!IInv => CloudIsBehind  BY <1>1, Assumptions, TP!IInvKeepsCloudBehind
<1> QED  BY <1>2, RecordsInvariance, PTL

\* No kill, crash or merge makes the ingestion take a transaction of the bot for one
\* made by hand (accountTradeIngestion.ts:33).
THEOREM OwnOrdersStayBots == MCSpec => []OwnOrdersAreBots
<1>1. TP!OwnOrdersAreBots => OwnOrdersAreBots
  BY DEF OwnOrdersAreBots, T!OwnOrdersAreBots, TP!OwnOrdersAreBots
<1>2. TP!IInv => OwnOrdersAreBots  BY <1>1, TP!IInvKeepsOwnOrders
<1> QED  BY <1>2, RecordsInvariance, PTL

\* The markout of a fill is in the history or its job is: in the file when the
\* process starts, its timer armed while a runtime is started
\* (tradeMarkoutScheduler.ts:148).
THEOREM MarkoutsAreKept == MCSpec => []MarkoutIsKept
<1>1. TP!MarkoutIsKept => MarkoutIsKept
  BY DEF MarkoutIsKept, T!MarkoutIsKept, TP!MarkoutIsKept, T!InFile, TP!InFile,
      T!Awaited, TP!Awaited
<1>2. TP!IInv => MarkoutIsKept  BY <1>1, TP!IInvKeepsMarkouts
<1> QED  BY <1>2, RecordsInvariance, PTL

\* What is recorded of a transaction is not taken back by late exceptions, other
\* writers, merges, failed writes or restarts, while the file can be read
\* (tradeHistory.ts:665, :793).
THEOREM StatusIsKept == MCSpec => StatusNeverFalls
<1> DEFINE Kept == tradesFile' # Torn =>
               \A h \in Hashes : T!Priority(T!InFile(h)') >= T!Priority(T!InFile(h))
<1>1. TP!IInv /\ [MCNext]_allVars => [Kept]_T!vars
  <2>1. UNCHANGED recordVars => UNCHANGED T!vars
    BY DEF recordVars, T!vars, T!historyVars, T!jobVars
  <2>2. TP!IInv /\ TP!Next => TP!StatusKept  BY Assumptions, TP!NextKeepsStatus
  <2>3. TP!StatusKept => Kept
    BY DEF TP!StatusKept, T!Priority, TP!Priority, T!InFile, TP!InFile
  <2> QED  BY <2>1, <2>2, <2>3, RecordsNext
<1>2. [][[Kept]_T!vars]_allVars => [][Kept]_T!vars
  <2>1. UNCHANGED allVars => UNCHANGED T!vars
    BY DEF allVars, recordVars, T!vars, T!historyVars, T!jobVars
  <2> HIDE DEF Kept
  <2> QED  BY <2>1, PTL
<1>3. [][Kept]_T!vars => StatusNeverFalls
  BY PTL DEF StatusNeverFalls, T!StatusNeverFalls
<1> HIDE DEF Kept
<1> QED  BY <1>1, <1>2, <1>3, RecordsInvariance, PTL DEF MCSpec, allVars

LEMMA ScalperActions ==
    /\ \A c \in Calls :
           /\ S!Enter(c) => SP!Enter(c)
           /\ S!Exit(c) => SP!Exit(c)
           /\ S!Execute(c) => SP!Execute(c)
           /\ S!Accepted(c) => SP!Accepted(c)
           /\ S!NotAccepted(c) => SP!NotAccepted(c)
    /\ S!CooldownEnds => SP!CooldownEnds
    /\ S!SwitchPair => SP!SwitchPair
    /\ S!Restart => SP!Restart
<1>1. ASSUME NEW c \in Calls PROVE S!Enter(c) => SP!Enter(c)
  BY DEF S!Enter, SP!Enter, S!Places, SP!Places
<1>2. ASSUME NEW c \in Calls PROVE S!Exit(c) => SP!Exit(c)
  BY DEF S!Exit, SP!Exit, S!ExitSizes, SP!ExitSizes, S!Places, SP!Places
<1>3. ASSUME NEW c \in Calls PROVE S!Execute(c) => SP!Execute(c)
  BY DEF S!Execute, SP!Execute, S!Moved, SP!Moved
<1>4. ASSUME NEW c \in Calls PROVE S!Accepted(c) => SP!Accepted(c)
  BY DEF S!Accepted, SP!Accepted, S!ReportedSizes, SP!ReportedSizes, S!After, SP!After,
      S!Long, SP!Long, S!Flat, SP!Flat
<1>5. ASSUME NEW c \in Calls PROVE S!NotAccepted(c) => SP!NotAccepted(c)
  BY DEF S!NotAccepted, SP!NotAccepted, S!Moved, SP!Moved
<1>6. /\ S!CooldownEnds => SP!CooldownEnds
      /\ S!SwitchPair => SP!SwitchPair
      /\ S!Restart => SP!Restart
  BY DEF S!CooldownEnds, SP!CooldownEnds, S!SwitchPair, SP!SwitchPair, S!Restart, SP!Restart,
      S!Flat, SP!Flat
<1> QED  BY <1>1, <1>2, <1>3, <1>4, <1>5, <1>6

LEMMA ScalperNext == [MCNext]_allVars => SP!Next \/ UNCHANGED scalperVars
<1>1. CASE UNCHANGED allVars  BY <1>1 DEF allVars
<1>2. CASE MCNext
  BY <1>2, ScalperActions
  DEF MCNext, ExposureStep, BreakerStep, RecordStep, ScalperStep, SP!Next
<1> QED  BY <1>1, <1>2

LEMMA ScalperInvariance == MCSpec => []SP!IInv
<1>1. MCInit => SP!IInv  BY Assumptions, ScalperInitially, SP!InitIInv
<1>2. SP!IInv /\ [MCNext]_allVars => SP!IInv'
  <2>1. UNCHANGED scalperVars => UNCHANGED SP!vars  BY DEF scalperVars, SP!vars
  <2> QED  BY <2>1, Assumptions, ScalperNext, SP!NextKeepsIInv
<1> QED  BY <1>1, <1>2, PTL DEF MCSpec, allVars

\* As long as the scalper is followed (no exit overlaps another, no entry is reported
\* larger than it filled, no exit fills without being accepted and no switch finds a
\* position), the account holds what it believes to hold and what its orders have
\* moved since, over entries that overlap, time out or outlive a kill and over partial
\* fills; that what it sells is what it bought is SoldWasBought (scalper.ts:457).
THEOREM PositionBacked == MCSpec => []PositionIsBacked
<1>1. SP!PositionIsBacked => PositionIsBacked
  BY DEF PositionIsBacked, S!PositionIsBacked, SP!PositionIsBacked, S!Sold, SP!Sold
<1>2. SP!IInv => PositionIsBacked  BY <1>1, Assumptions, SP!IInvBacksPosition
<1> QED  BY <1>2, ScalperInvariance, PTL

(***************************************************************************)
(* Breaker: that a trip holds and that losses trip.  What a breaker adds   *)
(* up and what was really made are shown to be the same function of time,  *)
(* so nothing is expanded of how it is added up.                           *)
(***************************************************************************)
IsBreaker(b) ==
    /\ b = [loaded |-> b.loaded, saving |-> b.saving, shared |-> b.shared,
            trades |-> b.trades, trippedAt |-> b.trippedAt]
    /\ b.loaded \in BOOLEAN /\ b.saving \in BOOLEAN /\ b.shared \in BOOLEAN
    /\ b.trades \in B!Trades
    /\ b.trippedAt \in B!Times \cup {None}
BreakersTyped ==
    breaker = [i \in Instances |-> breaker[i]] /\ \A i \in Instances : IsBreaker(breaker[i])
BreakerTypes ==
    /\ now \in B!Times /\ lastTrip \in B!Times \cup {None}
    /\ intact \in BOOLEAN
    /\ strategy \in Instances \cup {None}
    /\ tick \in [Ticks -> B!TickStates \cup {None}]
    /\ BreakersTyped
    /\ file \in B!States \cup {None}
    /\ defaults \in B!Trades /\ profit \in B!Trades

\* No tick outlasts its time.
TicksAreInTime ==
    \A k \in Ticks : tick[k] # None => tick[k].since <= now /\ now <= tick[k].since + TickTime

\* While nothing is lost, only the strategy of the runtime ticks and saves,
OneAtWork ==
    intact =>
        /\ \A i \in Instances : breaker[i].saving => strategy = i /\ breaker[i].loaded
        /\ \A k \in Ticks : tick[k] # None => tick[k].at = strategy /\ breaker[strategy].loaded

\* the file is what it holds, unless a save is pending,
FileIsCurrent ==
    intact => \A i \in Instances :
        strategy = i /\ breaker[i].loaded /\ ~breaker[i].saving =>
            B!Stored.trippedAt = breaker[i].trippedAt /\ B!Stored.trades = breaker[i].trades

\* and the last trip is known to it, or to the file it will load.
KnowsAll == strategy # None /\ breaker[strategy].loaded
KnownTrip == IF KnowsAll THEN breaker[strategy].trippedAt ELSE B!Stored.trippedAt
TripIsKnown == intact /\ lastTrip # None /\ now - lastTrip <= Cooldown => KnownTrip = lastTrip

\* In a trip only the ticks go on that were past the check when it came, so nothing is
\* traded once the last of them is over, nor in the future,
TripStops ==
    intact /\ KnownTrip # None =>
        /\ \A k \in Ticks : tick[k] # None => tick[k].since <= KnownTrip
        /\ \A time \in B!Times : time > KnownTrip + TickTime => profit[time] = 0
FutureIsEmpty == \A time \in B!Times : time > now => profit[time] = 0

\* so what the trades of the window made is known as well: the end of a trip forgets
\* only what the window has left behind.
KnownTrades == IF KnowsAll THEN breaker[strategy].trades ELSE B!Stored.trades
TradesAreKnown ==
    intact /\ Window + TickTime <= Cooldown =>
        \A time \in B!Times : time >= now - Window => KnownTrades[time] = profit[time]

LossesAreKnown == TripIsKnown /\ TripStops /\ FutureIsEmpty /\ TradesAreKnown

BreakerIInv == BreakerTypes /\ TicksAreInTime /\ OneAtWork /\ FileIsCurrent /\ LossesAreKnown

LEMMA BreakerConstants ==
    /\ Window \in Nat /\ Cooldown \in Nat /\ MaxTime \in Nat /\ Edge \in Int
    /\ TickTime \in Nat
    /\ None \notin Instances /\ None \notin Nat
    /\ None \notin B!States /\ None \notin B!TickStates
    /\ \A time \in B!Times : time \in Nat /\ time \in Int /\ time # None
    /\ 0 \in B!Times
<1>1. /\ Window \in Nat /\ Cooldown \in Nat /\ MaxTime \in Nat /\ Edge \in Int
      /\ TickTime \in Nat
      /\ None \notin Instances /\ None \notin Nat
      /\ None \notin B!States /\ None \notin B!TickStates
  BY TradeMemoryAssumption DEF TradeMemoryAssumption, B!BreakerAssumption
<1> QED  BY <1>1 DEF B!Times

LEMMA NoTradesAreTrades == B!NoTrades \in B!Trades
  BY DEF B!NoTrades, B!Trades

\* What the store gives is of a state.
LEMMA StoredIsAState ==
    ASSUME BreakerIInv
    PROVE  B!Stored.trades \in B!Trades /\ B!Stored.trippedAt \in B!Times \cup {None}
  BY NoTradesAreTrades DEF BreakerIInv, BreakerTypes, B!Stored, B!Default, B!States

\* A step that keeps what is known, the time and what was made, and begins no tick.
LEMMA KeepsWhatIsKnown ==
    ASSUME BreakerIInv, UNCHANGED <<now, profit, lastTrip>>,
           \A k \in Ticks : tick'[k] # None => tick[k] # None /\ tick'[k].since = tick[k].since,
           intact' => intact /\ KnownTrip' = KnownTrip /\ KnownTrades' = KnownTrades
    PROVE  LossesAreKnown' /\ TicksAreInTime'
  BY DEF BreakerIInv, LossesAreKnown, TripIsKnown, TripStops, FutureIsEmpty, TradesAreKnown,
         TicksAreInTime

\* A breaker is replaced by one of its shape.
LEMMA BreakerReplaced ==
    ASSUME BreakersTyped, NEW i \in Instances, NEW new, IsBreaker(new),
           breaker' = [breaker EXCEPT ![i] = new]
    PROVE  /\ breaker'[i] = new
           /\ \A j \in Instances \ {i} : breaker'[j] = breaker[j]
           /\ BreakersTyped'
<1>1. DOMAIN breaker = Instances /\ breaker' = [j \in Instances |-> breaker'[j]]
  BY DEF BreakersTyped
<1>2. breaker'[i] = new /\ \A j \in Instances \ {i} : breaker'[j] = breaker[j]  BY <1>1
<1>3. \A j \in Instances : IsBreaker(breaker'[j])  BY <1>2 DEF BreakersTyped
<1> QED  BY <1>1, <1>2, <1>3 DEF BreakersTyped

LEMMA NewIsABreaker == IsBreaker(B!New) /\ B!New.loaded = FALSE /\ B!New.saving = FALSE
  BY NoTradesAreTrades DEF IsBreaker, B!New

LEMMA BreakerInitially == MCInit => BreakerIInv
<1> SUFFICES ASSUME MCInit PROVE BreakerIInv  OBVIOUS
<1>1. /\ now = 0 /\ lastTrip = None /\ intact = TRUE /\ strategy = None
      /\ tick = [k \in Ticks |-> None]
      /\ file = None /\ profit = B!NoTrades /\ defaults = B!NoTrades
      /\ breaker = [i \in Instances |-> B!New]
  BY DEF MCInit, B!Init
<1>2. BreakersTyped /\ \A i \in Instances : ~breaker[i].loaded /\ ~breaker[i].saving
  BY <1>1, NewIsABreaker DEF BreakersTyped
<1>3. BreakerTypes
  BY <1>1, <1>2, NoTradesAreTrades, BreakerConstants DEF BreakerTypes
<1>4. KnownTrip = None /\ KnownTrades = profit
  BY <1>1 DEF KnownTrip, KnownTrades, KnowsAll, B!Default, B!Stored
<1>5. LossesAreKnown /\ TicksAreInTime
  BY <1>1, <1>4
  DEF LossesAreKnown, TripIsKnown, TripStops, FutureIsEmpty, TradesAreKnown, TicksAreInTime,
      B!NoTrades
<1> QED  BY <1>1, <1>2, <1>3, <1>5, BreakerConstants DEF BreakerIInv, OneAtWork, FileIsCurrent

LEMMA StartKeepsBreaker == ASSUME BreakerIInv, NEW i \in Instances, B!Start(i) PROVE BreakerIInv'
<1>1. /\ strategy = None /\ strategy' = i
      /\ \A k \in Ticks : tick[k] # None => tick[k].at # i
      /\ breaker' = [breaker EXCEPT ![i] = B!New]
      /\ UNCHANGED <<now, tick, file, defaults, profit, lastTrip, intact>>
  BY DEF B!Start
<1>2. /\ ~breaker'[i].loaded /\ ~breaker'[i].saving
      /\ \A j \in Instances \ {i} : breaker'[j] = breaker[j]
      /\ BreakerTypes'
  <2>1. BreakersTyped  BY DEF BreakerIInv, BreakerTypes
  <2>2. /\ breaker'[i] = B!New /\ BreakersTyped'
        /\ \A j \in Instances \ {i} : breaker'[j] = breaker[j]
    BY <1>1, <2>1, NewIsABreaker, BreakerReplaced
  <2> QED  BY <1>1, <2>2, NewIsABreaker DEF BreakerIInv, BreakerTypes
<1>3. OneAtWork'
  <2>1. ASSUME intact, NEW k \in Ticks, tick[k] # None PROVE FALSE
    <3>1. tick[k].at = None  BY <1>1, <2>1 DEF BreakerIInv, OneAtWork
    <3>2. tick[k].at \in Instances  BY <2>1 DEF BreakerIInv, BreakerTypes, B!TickStates
    <3> QED  BY <3>1, <3>2, BreakerConstants
  <2>2. ASSUME intact, NEW j \in Instances, breaker'[j].saving PROVE FALSE
    BY <1>1, <1>2, <2>2, BreakerConstants DEF BreakerIInv, OneAtWork
  <2> QED  BY <1>1, <2>1, <2>2 DEF OneAtWork
<1>4. FileIsCurrent'  BY <1>1, <1>2 DEF FileIsCurrent
<1>5. LossesAreKnown' /\ TicksAreInTime'
  <2>1. ~KnowsAll /\ ~KnowsAll'  BY <1>1, <1>2, BreakerConstants DEF KnowsAll
  <2>2. KnownTrip' = KnownTrip /\ KnownTrades' = KnownTrades
    BY <1>1, <2>1 DEF KnownTrip, KnownTrades, B!Stored
  <2> QED  BY <1>1, <2>2, KeepsWhatIsKnown
<1> QED  BY <1>2, <1>3, <1>4, <1>5 DEF BreakerIInv

LEMMA LoadKeepsBreaker == ASSUME BreakerIInv, NEW i \in Instances, B!Load(i) PROVE BreakerIInv'
<1>1. /\ strategy = i /\ ~breaker[i].loaded
      /\ UNCHANGED <<now, strategy, tick, file, defaults, profit, lastTrip>>
  BY DEF B!Load
<1>2. PICK found \in {FALSE, file # None} :
        LET state == IF found THEN file ELSE [trades |-> defaults, trippedAt |-> None]
        IN  /\ breaker' = [breaker EXCEPT ![i] =
                   [loaded |-> TRUE, saving |-> @.saving, shared |-> ~found,
                    trades |-> state.trades, trippedAt |-> state.trippedAt]]
            /\ intact' = (intact /\ state = B!Stored)
  BY DEF B!Load
<1>3. PICK state, records, trip :
        /\ state = IF found THEN file ELSE [trades |-> defaults, trippedAt |-> None]
        /\ records = state.trades /\ trip = state.trippedAt
  OBVIOUS
<1>4. trip \in B!Times \cup {None} /\ records \in B!Trades
  <2>1. CASE found
    <3>1. file \in B!States  BY <1>2, <2>1 DEF BreakerIInv, BreakerTypes
    <3> QED  BY <1>3, <2>1, <3>1 DEF B!States
  <2>2. CASE ~found  BY <1>3, <2>2 DEF BreakerIInv, BreakerTypes
  <2> QED  BY <2>1, <2>2
<1>5. state = B!Stored => trip = B!Stored.trippedAt /\ records = B!Stored.trades  BY <1>3
<1>6. IsBreaker(breaker[i]) /\ BreakersTyped /\ DOMAIN breaker = Instances
  BY DEF BreakerIInv, BreakerTypes, BreakersTyped
<1>7. PICK new : new = [loaded |-> TRUE, saving |-> breaker[i].saving, shared |-> ~found,
                        trades |-> records, trippedAt |-> trip]
  OBVIOUS
<1>8. /\ breaker' = [breaker EXCEPT ![i] = new]
      /\ intact' = (intact /\ state = B!Stored)
  BY <1>2, <1>3, <1>6, <1>7
<1>9. /\ IsBreaker(new) /\ new.loaded /\ new.saving = breaker[i].saving
      /\ new.trades = records /\ new.trippedAt = trip
  BY <1>4, <1>6, <1>7 DEF IsBreaker
<1>10. /\ breaker'[i] = new /\ \A j \in Instances \ {i} : breaker'[j] = breaker[j]
       /\ BreakersTyped'
  BY <1>6, <1>8, <1>9, BreakerReplaced
<1>11. BreakerTypes'  BY <1>1, <1>8, <1>10 DEF BreakerIInv, BreakerTypes
<1>12. B!Stored' = B!Stored  BY <1>1 DEF B!Stored
<1>13. OneAtWork'
  BY <1>1, <1>8, <1>9, <1>10 DEF BreakerIInv, OneAtWork
<1>14. FileIsCurrent'  BY <1>1, <1>5, <1>8, <1>9, <1>10, <1>12 DEF FileIsCurrent
<1>15. LossesAreKnown' /\ TicksAreInTime'
  <2>1. ~KnowsAll /\ KnowsAll'  BY <1>1, <1>9, <1>10, BreakerConstants DEF KnowsAll
  <2>2. /\ KnownTrip = B!Stored.trippedAt /\ KnownTrip' = trip
        /\ KnownTrades = B!Stored.trades /\ KnownTrades' = records
    BY <1>1, <1>9, <1>10, <2>1 DEF KnownTrip, KnownTrades
  <2> QED  BY <1>1, <1>5, <1>8, <2>2, KeepsWhatIsKnown
<1> QED  BY <1>11, <1>13, <1>14, <1>15 DEF BreakerIInv

LEMMA CheckKeepsBreaker == ASSUME BreakerIInv, NEW k \in Ticks, B!Check(k) PROVE BreakerIInv'
<1>0. PICK i \in Instances : i = strategy
  BY DEF B!Check, BreakerIInv, BreakerTypes
<1>1. /\ breaker[i].loaded /\ tick[k] = None
      /\ \/ tick' = tick
         \/ /\ breaker[i].trippedAt = None \/ B!Cooled(breaker[i])
            /\ tick' = [tick EXCEPT ![k] = [at |-> i, since |-> now, ordering |-> FALSE]]
      /\ breaker' = [breaker EXCEPT ![i] =
             IF B!Cooled(breaker[i]) THEN B!Recovered(breaker[i]) ELSE breaker[i]]
      /\ UNCHANGED <<now, strategy, file, defaults, profit, lastTrip, intact>>
  BY <1>0 DEF B!Check, B!MayTrade, BreakerIInv, BreakerTypes, BreakersTyped
<1>2. PICK new : new = IF B!Cooled(breaker[i]) THEN B!Recovered(breaker[i]) ELSE breaker[i]
  OBVIOUS
<1>3. IsBreaker(breaker[i]) /\ BreakersTyped /\ DOMAIN breaker = Instances
  BY DEF BreakerIInv, BreakerTypes, BreakersTyped
<1>4. /\ IsBreaker(new) /\ new.loaded
      /\ B!Cooled(breaker[i]) => new.saving /\ new.trippedAt = None /\ new.trades = B!NoTrades
      /\ ~B!Cooled(breaker[i]) => new = breaker[i]
  <2>1. CASE B!Cooled(breaker[i])
    <3>1. new = [loaded |-> breaker[i].loaded, saving |-> TRUE, shared |-> FALSE,
                 trades |-> B!NoTrades, trippedAt |-> None]
      BY <1>2, <2>1 DEF B!Recovered
    <3> QED  BY <1>1, <1>3, <2>1, <3>1, NoTradesAreTrades DEF IsBreaker
  <2>2. CASE ~B!Cooled(breaker[i])  BY <1>1, <1>2, <1>3, <2>2
  <2> QED  BY <2>1, <2>2
<1>5. breaker' = [breaker EXCEPT ![i] = new]  BY <1>1, <1>2, <1>3
<1>6. /\ breaker'[i] = new /\ \A j \in Instances \ {i} : breaker'[j] = breaker[j]
      /\ BreakersTyped'
  BY <1>3, <1>4, <1>5, BreakerReplaced
<1>7. /\ tick' \in [Ticks -> B!TickStates \cup {None}]
      /\ \A c \in Ticks : tick'[c] # None =>
             \/ tick[c] # None /\ tick'[c] = tick[c]
             \/ /\ tick'[c].at = i /\ tick'[c].since = now
                /\ breaker[i].trippedAt = None \/ B!Cooled(breaker[i])
  <2>1. tick \in [Ticks -> B!TickStates \cup {None}] /\ now \in B!Times
    BY DEF BreakerIInv, BreakerTypes
  <2>2. PICK begun : begun = [at |-> i, since |-> now, ordering |-> FALSE]  OBVIOUS
  <2>3. begun \in B!TickStates /\ begun.at = i /\ begun.since = now
    BY <2>1, <2>2 DEF B!TickStates
  <2>4. CASE tick' = tick  BY <2>1, <2>4
  <2>5. CASE /\ breaker[i].trippedAt = None \/ B!Cooled(breaker[i])
             /\ tick' = [tick EXCEPT ![k] = begun]
    BY <2>1, <2>3, <2>5
  <2> QED  BY <1>1, <2>2, <2>4, <2>5
<1>8. BreakerTypes'  BY <1>1, <1>6, <1>7 DEF BreakerIInv, BreakerTypes
<1>9. TicksAreInTime'
  <2>1. now \in Int /\ TickTime \in Nat
    BY BreakerConstants DEF BreakerIInv, BreakerTypes
  <2> QED  BY <1>1, <1>7, <2>1 DEF BreakerIInv, TicksAreInTime
<1>10. B!Stored' = B!Stored  BY <1>1 DEF B!Stored
<1>11. OneAtWork'
  BY <1>0, <1>1, <1>4, <1>6, <1>7 DEF BreakerIInv, OneAtWork
<1>12. FileIsCurrent'  BY <1>0, <1>1, <1>4, <1>6, <1>10 DEF BreakerIInv, FileIsCurrent
<1>13. /\ KnownTrip = breaker[i].trippedAt /\ KnownTrip' = new.trippedAt
       /\ KnownTrades = breaker[i].trades /\ KnownTrades' = new.trades
  BY <1>0, <1>1, <1>4, <1>6, BreakerConstants DEF KnownTrip, KnownTrades, KnowsAll
<1>14. breaker[i].trippedAt # None =>
         /\ breaker[i].trippedAt \in Int /\ now \in Int
         /\ B!Cooled(breaker[i]) <=> now - breaker[i].trippedAt > Cooldown
  BY <1>3, BreakerConstants DEF B!Cooled, BreakerIInv, BreakerTypes, IsBreaker
<1>15. TripIsKnown'
  <2> SUFFICES ASSUME intact, lastTrip # None, now - lastTrip <= Cooldown
               PROVE  KnownTrip' = lastTrip
    BY <1>1 DEF TripIsKnown
  <2>1. breaker[i].trippedAt = lastTrip
    BY <1>13 DEF BreakerIInv, LossesAreKnown, TripIsKnown
  <2>2. ~B!Cooled(breaker[i])  BY <1>14, <2>1, BreakerConstants
  <2> QED  BY <1>4, <1>13, <2>1, <2>2
<1>16. TripStops'
  <2> SUFFICES ASSUME intact, new.trippedAt # None
               PROVE  /\ \A c \in Ticks : tick'[c] # None => tick'[c].since <= new.trippedAt
                      /\ \A time \in B!Times : time > new.trippedAt + TickTime => profit[time] = 0
    BY <1>1, <1>13 DEF TripStops
  <2>1. ~B!Cooled(breaker[i]) /\ new = breaker[i]  BY <1>4
  <2>2. \A c \in Ticks : tick'[c] # None => tick[c] # None /\ tick'[c] = tick[c]
    BY <1>7, <2>1
  <2> QED  BY <1>1, <1>13, <2>1, <2>2 DEF BreakerIInv, LossesAreKnown, TripStops
<1>17. FutureIsEmpty'  BY <1>1 DEF BreakerIInv, LossesAreKnown, FutureIsEmpty
<1>18. TradesAreKnown'
  <2> SUFFICES ASSUME intact, Window + TickTime <= Cooldown,
                      NEW time \in B!Times, time >= now - Window
               PROVE  new.trades[time] = profit[time]
    BY <1>1, <1>13 DEF TradesAreKnown
  <2>1. CASE B!Cooled(breaker[i])
    <3>1. breaker[i].trippedAt # None  BY <2>1 DEF B!Cooled
    <3>2. now - breaker[i].trippedAt > Cooldown  BY <1>14, <2>1, <3>1
    <3>3. time > breaker[i].trippedAt + TickTime  BY <1>14, <3>1, <3>2, BreakerConstants
    <3>4. profit[time] = 0
      BY <1>13, <3>1, <3>3 DEF BreakerIInv, LossesAreKnown, TripStops
    <3> QED  BY <1>4, <2>1, <3>4 DEF B!NoTrades
  <2>2. CASE ~B!Cooled(breaker[i])
    BY <1>4, <1>13, <2>2 DEF BreakerIInv, LossesAreKnown, TradesAreKnown
  <2> QED  BY <2>1, <2>2
<1> QED
  BY <1>8, <1>9, <1>11, <1>12, <1>15, <1>16, <1>17, <1>18 DEF BreakerIInv, LossesAreKnown

\* A step of the ticks alone: none begins, and those that stay keep their time.
LEMMA TicksKeepBreaker ==
    ASSUME BreakerIInv, UNCHANGED <<now, strategy, breaker, file, defaults, profit, lastTrip, intact>>,
           tick' \in [Ticks -> B!TickStates \cup {None}],
           \A k \in Ticks : tick'[k] # None =>
               tick[k] # None /\ tick'[k].since = tick[k].since /\ tick'[k].at = tick[k].at
    PROVE  BreakerIInv'
<1>1. BreakerTypes'  BY DEF BreakerIInv, BreakerTypes, BreakersTyped
<1>2. OneAtWork' /\ FileIsCurrent'
  BY DEF BreakerIInv, OneAtWork, FileIsCurrent, B!Stored
<1>3. KnownTrip' = KnownTrip /\ KnownTrades' = KnownTrades
  BY DEF KnownTrip, KnownTrades, KnowsAll, B!Stored
<1>4. LossesAreKnown' /\ TicksAreInTime'  BY <1>3, KeepsWhatIsKnown
<1> QED  BY <1>1, <1>2, <1>4 DEF BreakerIInv

LEMMA PlaceOrderKeepsBreaker ==
    ASSUME BreakerIInv, NEW k \in Ticks, B!PlaceOrder(k) PROVE BreakerIInv'
<1>1. /\ tick[k] # None /\ tick' = [tick EXCEPT ![k].ordering = TRUE]
      /\ UNCHANGED <<now, strategy, breaker, file, defaults, profit, lastTrip, intact>>
  BY DEF B!PlaceOrder
<1>2. tick \in [Ticks -> B!TickStates \cup {None}]  BY DEF BreakerIInv, BreakerTypes
<1>3. PICK placed : placed = [tick[k] EXCEPT !.ordering = TRUE]  OBVIOUS
<1>4. placed \in B!TickStates /\ placed.since = tick[k].since /\ placed.at = tick[k].at
  BY <1>1, <1>2, <1>3 DEF B!TickStates
<1>5. tick' = [tick EXCEPT ![k] = placed]  BY <1>1, <1>2, <1>3
<1> QED  BY <1>1, <1>2, <1>4, <1>5, TicksKeepBreaker

LEMMA RejectKeepsBreaker ==
    ASSUME BreakerIInv, NEW k \in Ticks, B!Reject(k) PROVE BreakerIInv'
<1>1. /\ tick' = [tick EXCEPT ![k] = None]
      /\ UNCHANGED <<now, strategy, breaker, file, defaults, profit, lastTrip, intact>>
  BY DEF B!Reject
<1>2. tick \in [Ticks -> B!TickStates \cup {None}]  BY DEF BreakerIInv, BreakerTypes
<1> QED  BY <1>1, <1>2, TicksKeepBreaker

\* What recordTrade() makes of the breaker whose trade concludes.
LEMMA ConcludeRecords ==
    ASSUME BreakerIInv, NEW k \in Ticks, B!Conclude(k)
    PROVE  \E i \in Instances, pnl \in Int, made \in B!Trades :
               /\ i = tick[k].at
               /\ made = [breaker[i].trades EXCEPT ![now] = breaker[i].trades[now] + pnl]
               /\ profit' = [profit EXCEPT ![now] = profit[now] + pnl]
               /\ breaker'[i] =
                      [loaded |-> breaker[i].loaded, saving |-> TRUE, shared |-> FALSE,
                       trades |-> B!InWindow(made),
                       trippedAt |-> IF B!Trips(B!InWindow(made)) THEN now
                                     ELSE breaker[i].trippedAt]
               /\ \A j \in Instances \ {i} :
                      breaker'[j].saving = breaker[j].saving
               /\ lastTrip' = IF B!Trips(breaker'[i].trades) THEN now ELSE lastTrip
               /\ defaults' \in B!Trades
               /\ BreakersTyped'
<1>0. PICK i \in Instances : i = tick[k].at
  BY DEF B!Conclude, BreakerIInv, BreakerTypes, B!TickStates
<1>1. PICK pnl \in {Edge, 0 - Edge} :
        LET pushed == B!Pushed(breaker[i].trades, pnl)
        IN  /\ breaker' = [j \in Instances |->
                   IF j = i THEN B!Recorded(breaker[i], pnl)
                   ELSE IF j \in B!Aliased(i) THEN [breaker[j] EXCEPT !.trades = pushed]
                   ELSE breaker[j]]
            /\ defaults' = IF breaker[i].shared THEN pushed ELSE defaults
            /\ profit' = B!Pushed(profit, pnl)
            /\ lastTrip' = IF B!Trips(breaker'[i].trades) THEN now ELSE lastTrip
  BY <1>0 DEF B!Conclude
<1>2. BreakersTyped /\ IsBreaker(breaker[i])
  BY DEF BreakerIInv, BreakerTypes, BreakersTyped
<1>3. /\ now \in B!Times /\ now \in Int /\ pnl \in Int
      /\ breaker[i].trades \in [B!Times -> Int] /\ defaults \in B!Trades
  BY <1>1, <1>2, BreakerConstants DEF BreakerIInv, BreakerTypes, IsBreaker, B!Trades
<1>4. PICK made : made = B!Pushed(breaker[i].trades, pnl)  OBVIOUS
<1>5. /\ made = [breaker[i].trades EXCEPT ![now] = breaker[i].trades[now] + pnl]
      /\ made \in B!Trades
      /\ profit' = [profit EXCEPT ![now] = profit[now] + pnl]
  BY <1>1, <1>3, <1>4 DEF B!Trades, B!Pushed
<1>6. PICK records : records = B!InWindow(made)  OBVIOUS
<1>7. records \in B!Trades  BY <1>5, <1>6 DEF B!InWindow, B!Trades
<1>8. PICK new : new = [loaded |-> breaker[i].loaded, saving |-> TRUE, shared |-> FALSE,
                        trades |-> records,
                        trippedAt |-> IF B!Trips(records) THEN now ELSE breaker[i].trippedAt]
  OBVIOUS
<1>9. B!Recorded(breaker[i], pnl) = new
  <2>1. PICK b : b = breaker[i]  OBVIOUS
  <2>2. b.saving \in BOOLEAN  BY <1>2, <2>1 DEF IsBreaker
  <2>3. B!Recorded(b, pnl) =
          [loaded |-> b.loaded, saving |-> b.saving \/ TRUE, shared |-> FALSE,
           trades |-> records, trippedAt |-> IF B!Trips(records) THEN now ELSE b.trippedAt]
    BY <1>4, <1>6, <2>1 DEF B!Recorded, B!Saves
  <2>4. (b.saving \/ TRUE) = TRUE  OBVIOUS
  <2> QED  BY <1>8, <2>1, <2>3, <2>4
<1>10. /\ breaker'[i] = new
       /\ \A j \in Instances \ {i} :
              breaker'[j] = IF j \in B!Aliased(i) THEN [breaker[j] EXCEPT !.trades = made]
                            ELSE breaker[j]
       /\ breaker' = [j \in Instances |-> breaker'[j]]
  BY <1>1, <1>4, <1>9
<1>11. IsBreaker(new)  BY <1>2, <1>3, <1>7, <1>8 DEF IsBreaker
<1>12. ASSUME NEW j \in Instances \ {i}
       PROVE  IsBreaker(breaker'[j]) /\ breaker'[j].saving = breaker[j].saving
  <2>1. PICK b : b = breaker[j]  OBVIOUS
  <2>2. IsBreaker(b)  BY <1>2, <2>1 DEF BreakersTyped
  <2>3. PICK c : c = [b EXCEPT !.trades = made]  OBVIOUS
  <2>4. c = [loaded |-> b.loaded, saving |-> b.saving, shared |-> b.shared,
             trades |-> made, trippedAt |-> b.trippedAt]
    BY <2>2, <2>3 DEF IsBreaker
  <2>5. IsBreaker(c) /\ c.saving = b.saving  BY <1>5, <2>2, <2>4 DEF IsBreaker
  <2>6. breaker'[j] = c \/ breaker'[j] = b  BY <1>10, <2>1, <2>3
  <2> QED  BY <2>1, <2>2, <2>5, <2>6
<1>13. BreakersTyped'
  <2>1. \A j \in Instances : IsBreaker(breaker'[j])  BY <1>10, <1>11, <1>12
  <2> QED  BY <1>10, <2>1 DEF BreakersTyped
<1>14. defaults' \in B!Trades  BY <1>1, <1>3, <1>4, <1>5
<1>15. lastTrip' = IF B!Trips(breaker'[i].trades) THEN now ELSE lastTrip  BY <1>1
<1>16. breaker'[i] =
         [loaded |-> breaker[i].loaded, saving |-> TRUE, shared |-> FALSE,
          trades |-> B!InWindow(made),
          trippedAt |-> IF B!Trips(B!InWindow(made)) THEN now ELSE breaker[i].trippedAt]
  BY <1>6, <1>8, <1>10
<1> QED  BY <1>0, <1>3, <1>5, <1>12, <1>13, <1>14, <1>15, <1>16

LEMMA ConcludeKeepsBreaker ==
    ASSUME BreakerIInv, NEW k \in Ticks, B!Conclude(k) PROVE BreakerIInv'
<1>1. /\ tick[k] # None /\ tick' = [tick EXCEPT ![k] = None]
      /\ UNCHANGED <<now, strategy, file, intact>>
  BY DEF B!Conclude
<1>2. PICK i \in Instances, pnl \in Int, made \in B!Trades :
        /\ i = tick[k].at
        /\ made = [breaker[i].trades EXCEPT ![now] = breaker[i].trades[now] + pnl]
        /\ profit' = [profit EXCEPT ![now] = profit[now] + pnl]
        /\ breaker'[i] =
               [loaded |-> breaker[i].loaded, saving |-> TRUE, shared |-> FALSE,
                trades |-> B!InWindow(made),
                trippedAt |-> IF B!Trips(B!InWindow(made)) THEN now
                              ELSE breaker[i].trippedAt]
        /\ \A j \in Instances \ {i} : breaker'[j].saving = breaker[j].saving
        /\ lastTrip' = IF B!Trips(breaker'[i].trades) THEN now ELSE lastTrip
        /\ defaults' \in B!Trades
        /\ BreakersTyped'
  BY ConcludeRecords
<1>3. IsBreaker(breaker[i])  BY DEF BreakerIInv, BreakerTypes, BreakersTyped
<1>4. PICK records : records = B!InWindow(made)  OBVIOUS
<1>t. /\ now \in B!Times /\ now \in Int
      /\ profit \in [B!Times -> Int] /\ breaker[i].trades \in [B!Times -> Int]
      /\ tick \in [Ticks -> B!TickStates \cup {None}]
  BY <1>3, BreakerConstants DEF BreakerIInv, BreakerTypes, IsBreaker, B!Trades
<1>r. \A time \in B!Times : time >= now - Window =>
          records[time] = IF time = now THEN breaker[i].trades[time] + pnl
                          ELSE breaker[i].trades[time]
  BY <1>2, <1>4, <1>t DEF B!InWindow
<1>p. /\ profit' \in B!Trades
      /\ \A time \in B!Times :
             profit'[time] = IF time = now THEN profit[time] + pnl ELSE profit[time]
  BY <1>2, <1>t DEF B!Trades
<1>5. PICK trips \in BOOLEAN : trips <=> B!Trips(records)
  <2>1. B!Trips(records) \in BOOLEAN  BY DEF B!Trips
  <2> QED  BY <2>1
<1>k. /\ tick' \in [Ticks -> B!TickStates \cup {None}]
      /\ \A c \in Ticks : tick'[c] # None => tick[c] # None /\ tick'[c] = tick[c]
  BY <1>1, <1>t
<1>8. /\ breaker'[i].loaded = breaker[i].loaded /\ breaker'[i].saving
      /\ breaker'[i].trades = records
      /\ breaker'[i].trippedAt = IF trips THEN now ELSE breaker[i].trippedAt
      /\ lastTrip' = IF trips THEN now ELSE lastTrip
  BY <1>1, <1>2, <1>4, <1>5
<1>9. BreakerTypes'
  <2>1. lastTrip' \in B!Times \cup {None}  BY <1>8, <1>t DEF BreakerIInv, BreakerTypes
  <2> QED  BY <1>1, <1>2, <1>k, <1>p, <2>1 DEF BreakerIInv, BreakerTypes
<1>10. intact => strategy = i /\ breaker[i].loaded
  BY <1>1, <1>2 DEF BreakerIInv, OneAtWork
<1>11. OneAtWork'
  <2> SUFFICES ASSUME intact PROVE OneAtWork'  BY <1>1 DEF OneAtWork
  <2>1. \A j \in Instances : breaker'[j].saving => strategy' = j /\ breaker'[j].loaded
    <3>1. \A j \in Instances \ {i} : ~breaker[j].saving
      BY <1>10 DEF BreakerIInv, OneAtWork
    <3> QED  BY <1>1, <1>2, <1>8, <1>10, <3>1
  <2>2. \A c \in Ticks : tick'[c] # None => tick'[c].at = strategy' /\ breaker'[strategy'].loaded
    BY <1>1, <1>8, <1>10, <1>k DEF BreakerIInv, OneAtWork
  <2> QED  BY <2>1, <2>2 DEF OneAtWork
<1>12. FileIsCurrent'  BY <1>1, <1>8, <1>10 DEF FileIsCurrent
<1>13. intact => /\ KnownTrip = breaker[i].trippedAt /\ KnownTrip' = breaker'[i].trippedAt
                 /\ KnownTrades = breaker[i].trades /\ KnownTrades' = records
  BY <1>1, <1>8, <1>10, BreakerConstants DEF KnownTrip, KnownTrades, KnowsAll
<1>14. TripIsKnown'
  BY <1>1, <1>8, <1>13 DEF BreakerIInv, LossesAreKnown, TripIsKnown
<1>15. FutureIsEmpty'
  BY <1>1, <1>p, <1>t, BreakerConstants DEF BreakerIInv, LossesAreKnown, FutureIsEmpty
<1>16. TicksAreInTime'  BY <1>1, <1>k DEF BreakerIInv, TicksAreInTime
<1>s. \A c \in Ticks : tick[c] # None =>
          tick[c].since \in Int /\ tick[c].since <= now /\ now <= tick[c].since + TickTime
  BY <1>t, BreakerConstants DEF BreakerIInv, TicksAreInTime, B!TickStates
<1>17. TripStops'
  <2> SUFFICES ASSUME intact, KnownTrip' # None
               PROVE  /\ \A c \in Ticks : tick'[c] # None => tick'[c].since <= KnownTrip'
                      /\ \A time \in B!Times : time > KnownTrip' + TickTime => profit'[time] = 0
    BY <1>1 DEF TripStops
  <2>1. CASE trips
    <3>1. KnownTrip' = now  BY <1>8, <1>13, <2>1
    <3>2. \A time \in B!Times : time > now + TickTime => time > now
      BY <1>t, BreakerConstants
    <3> QED  BY <1>1, <1>15, <1>k, <1>s, <3>1, <3>2 DEF FutureIsEmpty
  <2>2. CASE ~trips
    <3>1. KnownTrip' = KnownTrip /\ KnownTrip # None  BY <1>8, <1>13, <2>2
    <3>2. /\ \A c \in Ticks : tick[c] # None => tick[c].since <= KnownTrip
          /\ \A time \in B!Times : time > KnownTrip + TickTime => profit[time] = 0
      BY <3>1 DEF BreakerIInv, LossesAreKnown, TripStops
    <3>3. KnownTrip \in Int
      BY <1>3, <1>13, <3>1, BreakerConstants DEF IsBreaker
    <3>4. now <= KnownTrip + TickTime
      <4>1. tick[k].since <= KnownTrip  BY <1>1, <3>2
      <4>2. tick[k].since \in Int /\ now <= tick[k].since + TickTime  BY <1>1, <1>s
      <4> QED  BY <1>t, <3>3, <4>1, <4>2, BreakerConstants
    <3>5. \A time \in B!Times : time > KnownTrip + TickTime => time # now
      BY <1>t, <3>3, <3>4, BreakerConstants
    <3> QED  BY <1>k, <1>p, <3>1, <3>2, <3>5
  <2> QED  BY <2>1, <2>2
<1>18. TradesAreKnown'
  BY <1>1, <1>13, <1>p, <1>r DEF BreakerIInv, LossesAreKnown, TradesAreKnown
<1> QED
  BY <1>9, <1>11, <1>12, <1>14, <1>15, <1>16, <1>17, <1>18 DEF BreakerIInv, LossesAreKnown

LEMMA SaveKeepsBreaker == ASSUME BreakerIInv, NEW i \in Instances, B!Save(i) PROVE BreakerIInv'
<1>1. /\ breaker[i].saving
      /\ breaker' = [breaker EXCEPT ![i].saving = FALSE]
      /\ \/ /\ file' = [trades |-> breaker[i].trades, trippedAt |-> breaker[i].trippedAt]
            /\ intact' = intact
         \/ file' \in {file, None} /\ intact' = FALSE
      /\ UNCHANGED <<now, strategy, tick, defaults, profit, lastTrip>>
  BY DEF B!Save
<1>2. IsBreaker(breaker[i]) /\ BreakersTyped /\ DOMAIN breaker = Instances
  BY DEF BreakerIInv, BreakerTypes, BreakersTyped
<1>3. PICK new : new = [loaded |-> breaker[i].loaded, saving |-> FALSE,
                        shared |-> breaker[i].shared, trades |-> breaker[i].trades,
                        trippedAt |-> breaker[i].trippedAt]
  OBVIOUS
<1>4. [breaker[i] EXCEPT !.saving = FALSE] = new
  <2>1. PICK b : b = breaker[i]  OBVIOUS
  <2>2. IsBreaker(b)  BY <1>2, <2>1
  <2>3. PICK c : c = [b EXCEPT !.saving = FALSE]  OBVIOUS
  <2>4. c = [loaded |-> b.loaded, saving |-> FALSE, shared |-> b.shared,
             trades |-> b.trades, trippedAt |-> b.trippedAt]
    BY <2>2, <2>3 DEF IsBreaker
  <2> QED  BY <1>3, <2>1, <2>3, <2>4
<1>5. breaker' = [breaker EXCEPT ![i] = new]  BY <1>1, <1>2, <1>4
<1>6. /\ IsBreaker(new) /\ new.loaded = breaker[i].loaded /\ ~new.saving
      /\ new.trippedAt = breaker[i].trippedAt /\ new.trades = breaker[i].trades
  BY <1>2, <1>3 DEF IsBreaker
<1>7. /\ breaker'[i] = new /\ \A j \in Instances \ {i} : breaker'[j] = breaker[j]
      /\ BreakersTyped'
  BY <1>2, <1>5, <1>6, BreakerReplaced
<1>8. BreakerTypes'
  <2>1. [trades |-> breaker[i].trades, trippedAt |-> breaker[i].trippedAt] \in B!States
    BY <1>2 DEF IsBreaker, B!States
  <2>2. file' \in B!States \cup {None} /\ intact' \in BOOLEAN
    BY <1>1, <2>1 DEF BreakerIInv, BreakerTypes
  <2> QED  BY <1>1, <1>7, <2>2 DEF BreakerIInv, BreakerTypes
<1>9. ASSUME intact'
      PROVE  /\ intact /\ strategy = i /\ breaker[i].loaded
             /\ B!Stored'.trippedAt = breaker[i].trippedAt
             /\ B!Stored'.trades = breaker[i].trades
  <2>1. /\ intact
        /\ file' = [trades |-> breaker[i].trades, trippedAt |-> breaker[i].trippedAt]
    BY <1>1, <1>9
  <2>2. strategy = i /\ breaker[i].loaded  BY <1>1, <2>1 DEF BreakerIInv, OneAtWork
  <2>3. [trades |-> breaker[i].trades, trippedAt |-> breaker[i].trippedAt] \in B!States
    BY <1>2 DEF IsBreaker, B!States
  <2>4. file' # None  BY <2>1, <2>3, BreakerConstants
  <2>5. B!Stored' = file'  BY <2>4 DEF B!Stored
  <2> QED  BY <2>1, <2>2, <2>5
<1>10. OneAtWork'  BY <1>1, <1>6, <1>7, <1>9 DEF BreakerIInv, OneAtWork
<1>11. FileIsCurrent'  BY <1>1, <1>6, <1>7, <1>9 DEF FileIsCurrent
<1>12. LossesAreKnown' /\ TicksAreInTime'
  <2>1. ASSUME intact' PROVE KnownTrip' = KnownTrip /\ KnownTrades' = KnownTrades
    BY <1>1, <1>6, <1>7, <1>9, <2>1, BreakerConstants DEF KnownTrip, KnownTrades, KnowsAll
  <2> QED  BY <1>1, <1>9, <2>1, KeepsWhatIsKnown
<1> QED  BY <1>8, <1>10, <1>11, <1>12 DEF BreakerIInv

LEMMA KillKeepsBreaker == ASSUME BreakerIInv, B!Kill PROVE BreakerIInv'
<1>1. /\ strategy # None /\ strategy' = None
      /\ intact' = (intact /\ B!Quiet /\ ~breaker[strategy].saving)
      /\ UNCHANGED <<now, breaker, tick, file, defaults, profit, lastTrip>>
  BY DEF B!Kill
<1>2. BreakerTypes'  BY <1>1 DEF BreakerIInv, BreakerTypes, BreakersTyped, B!Quiet
<1>3. OneAtWork'  BY <1>1 DEF BreakerIInv, OneAtWork, B!Quiet
<1>4. FileIsCurrent'
  BY <1>1, BreakerConstants DEF FileIsCurrent
<1>5. ASSUME intact' PROVE KnownTrip' = KnownTrip /\ KnownTrades' = KnownTrades
  <2>1. strategy \in Instances /\ ~breaker[strategy].saving
    BY <1>1, <1>5 DEF BreakerIInv, BreakerTypes
  <2>2. KnownTrip = B!Stored.trippedAt /\ KnownTrades = B!Stored.trades
    BY <1>1, <1>5, <2>1 DEF KnownTrip, KnownTrades, KnowsAll, BreakerIInv, FileIsCurrent
  <2>3. B!Stored' = B!Stored  BY <1>1 DEF B!Stored
  <2> QED  BY <1>1, <2>2, <2>3 DEF KnownTrip, KnownTrades, KnowsAll
<1>6. LossesAreKnown' /\ TicksAreInTime'  BY <1>1, <1>5, KeepsWhatIsKnown
<1> QED  BY <1>2, <1>3, <1>4, <1>6 DEF BreakerIInv

LEMMA CrashKeepsBreaker == ASSUME BreakerIInv, B!Crash PROVE BreakerIInv'
<1>1. /\ strategy' = None /\ tick' = [k \in Ticks |-> None]
      /\ breaker' = [i \in Instances |-> B!New] /\ defaults' = B!NoTrades
      /\ \/ file' = file
         \/ file' = None /\ \E i \in Instances : breaker[i].saving
      /\ intact' = (intact /\ B!Quiet /\ \A i \in Instances : ~breaker[i].saving)
      /\ UNCHANGED <<now, profit, lastTrip>>
  BY DEF B!Crash
<1>2. \A i \in Instances : breaker'[i] = B!New  BY <1>1
<1>3. BreakerTypes'
  <2>1. BreakersTyped'  BY <1>1, <1>2, NewIsABreaker DEF BreakersTyped
  <2>2. intact' \in BOOLEAN  BY <1>1 DEF BreakerIInv, BreakerTypes, B!Quiet
  <2> QED  BY <1>1, <2>1, <2>2, NoTradesAreTrades DEF BreakerIInv, BreakerTypes
<1>4. OneAtWork'  BY <1>1, <1>2, NewIsABreaker DEF OneAtWork
<1>5. FileIsCurrent'  BY <1>1, BreakerConstants DEF FileIsCurrent
<1>6. ASSUME intact' PROVE KnownTrip' = KnownTrip /\ KnownTrades' = KnownTrades
  <2>1. intact /\ file' = file /\ \A i \in Instances : ~breaker[i].saving  BY <1>1, <1>6
  <2>2. strategy # None => strategy \in Instances  BY DEF BreakerIInv, BreakerTypes
  <2>3. KnownTrip = B!Stored.trippedAt /\ KnownTrades = B!Stored.trades
    BY <2>1, <2>2 DEF KnownTrip, KnownTrades, KnowsAll, BreakerIInv, FileIsCurrent
  <2>4. B!Stored' = B!Stored  BY <2>1 DEF B!Stored
  <2> QED  BY <1>1, <2>3, <2>4 DEF KnownTrip, KnownTrades, KnowsAll
<1>7. LossesAreKnown' /\ TicksAreInTime'  BY <1>1, <1>6, KeepsWhatIsKnown
<1> QED  BY <1>3, <1>4, <1>5, <1>7 DEF BreakerIInv

LEMMA PassKeepsBreaker == ASSUME BreakerIInv, B!Pass PROVE BreakerIInv'
<1>1. /\ now < MaxTime /\ now' = now + 1
      /\ \A k \in Ticks : tick[k] # None => now < tick[k].since + TickTime
      /\ UNCHANGED <<strategy, breaker, tick, file, defaults, profit, lastTrip, intact>>
  BY DEF B!Pass
<1>2. now \in Int /\ now' \in B!Times
  BY <1>1, BreakerConstants DEF BreakerIInv, BreakerTypes, B!Times
<1>3. BreakerTypes'  BY <1>1, <1>2 DEF BreakerIInv, BreakerTypes, BreakersTyped
<1>4. OneAtWork' /\ FileIsCurrent'
  BY <1>1 DEF BreakerIInv, OneAtWork, FileIsCurrent, B!Stored
<1>5. KnownTrip' = KnownTrip /\ KnownTrades' = KnownTrades
  BY <1>1 DEF KnownTrip, KnownTrades, KnowsAll, B!Stored
<1>6. TripIsKnown'
  <2>1. lastTrip # None /\ now' - lastTrip <= Cooldown => now - lastTrip <= Cooldown
    BY <1>1, <1>2, BreakerConstants DEF BreakerIInv, BreakerTypes
  <2> QED  BY <1>1, <1>5, <2>1 DEF BreakerIInv, LossesAreKnown, TripIsKnown
<1>7. TripStops'  BY <1>1, <1>5 DEF BreakerIInv, LossesAreKnown, TripStops
<1>8. FutureIsEmpty'
  BY <1>1, <1>2, BreakerConstants DEF BreakerIInv, LossesAreKnown, FutureIsEmpty
<1>9. TradesAreKnown'
  <2>1. \A time \in B!Times : time >= now' - Window => time >= now - Window
    BY <1>1, <1>2, BreakerConstants
  <2> QED  BY <1>1, <1>5, <2>1 DEF BreakerIInv, LossesAreKnown, TradesAreKnown
<1>10. TicksAreInTime'
  <2>1. \A k \in Ticks : tick[k] # None => tick[k].since \in Int
    BY BreakerConstants DEF BreakerIInv, BreakerTypes, B!TickStates
  <2> QED  BY <1>1, <1>2, <2>1, BreakerConstants DEF BreakerIInv, TicksAreInTime
<1> QED
  BY <1>3, <1>4, <1>6, <1>7, <1>8, <1>9, <1>10 DEF BreakerIInv, LossesAreKnown

LEMMA BreakerNext == [MCNext]_allVars => B!Next \/ UNCHANGED breakerVars
<1>1. CASE UNCHANGED allVars  BY <1>1 DEF allVars
<1>2. CASE MCNext
  BY <1>2 DEF MCNext, ExposureStep, BreakerStep, RecordStep, ScalperStep, B!Next
<1> QED  BY <1>1, <1>2

LEMMA BreakerInductive == BreakerIInv /\ [MCNext]_allVars => BreakerIInv'
<1> SUFFICES ASSUME BreakerIInv, [MCNext]_allVars PROVE BreakerIInv'  OBVIOUS
<1>1. CASE UNCHANGED breakerVars
  <2>1. UNCHANGED <<now, strategy, breaker, tick, file, defaults, profit, lastTrip, intact>>
    BY <1>1 DEF breakerVars
  <2>2. tick' \in [Ticks -> B!TickStates \cup {None}]  BY <2>1 DEF BreakerIInv, BreakerTypes
  <2> QED  BY <2>1, <2>2, TicksKeepBreaker
<1>2. CASE B!Next
  BY <1>2, StartKeepsBreaker, LoadKeepsBreaker, CheckKeepsBreaker, PlaceOrderKeepsBreaker,
     ConcludeKeepsBreaker, RejectKeepsBreaker, SaveKeepsBreaker, KillKeepsBreaker,
     CrashKeepsBreaker, PassKeepsBreaker DEF B!Next
<1> QED  BY <1>1, <1>2, BreakerNext

LEMMA BreakerInvariance == MCSpec => []BreakerIInv
  BY BreakerInitially, BreakerInductive, PTL DEF MCSpec, allVars

\* The step of TripHolds.
NoTickInTrip ==
    \A k \in Ticks :
        intact' /\ lastTrip # None /\ tick[k] = None /\ tick'[k] # None
        => now - lastTrip > Cooldown

LEMMA CheckHolds == ASSUME BreakerIInv, [MCNext]_allVars PROVE NoTickInTrip
<1> SUFFICES ASSUME NEW k \in Ticks, intact', lastTrip # None, tick[k] = None, tick'[k] # None
             PROVE  now - lastTrip > Cooldown
  BY DEF NoTickInTrip
<1>1. CASE UNCHANGED breakerVars  BY <1>1 DEF breakerVars
<1>2. CASE B!Next
  <2>0. tick \in [Ticks -> B!TickStates \cup {None}]  BY DEF BreakerIInv, BreakerTypes
  <2>1. PICK c \in Ticks : B!Check(c)
    <3>1. ASSUME NEW c \in Ticks, B!PlaceOrder(c) \/ B!Conclude(c) \/ B!Reject(c) PROVE FALSE
      BY <2>0, <3>1 DEF B!PlaceOrder, B!Conclude, B!Reject
    <3>2. ~B!Crash  BY DEF B!Crash
    <3> QED  BY <1>2, <3>1, <3>2 DEF B!Next, B!Start, B!Load, B!Save, B!Kill, B!Pass
  <2>2. PICK j \in Instances : j = strategy
    BY <2>1 DEF B!Check, BreakerIInv, BreakerTypes
  <2>3. /\ intact /\ breaker[j].loaded
        /\ breaker[j].trippedAt = None \/ B!Cooled(breaker[j])
    BY <2>1, <2>2 DEF B!Check, B!MayTrade
  <2>4. KnownTrip = breaker[j].trippedAt
    BY <2>2, <2>3, BreakerConstants DEF KnownTrip, KnowsAll
  <2>5. now \in Nat /\ lastTrip \in Nat /\ Cooldown \in Nat
    BY BreakerConstants DEF BreakerIInv, BreakerTypes
  <2>6. ASSUME now - lastTrip <= Cooldown PROVE FALSE
    <3>1. breaker[j].trippedAt = lastTrip
      BY <2>3, <2>4, <2>6 DEF BreakerIInv, LossesAreKnown, TripIsKnown
    <3> QED  BY <2>3, <2>5, <2>6, <3>1 DEF B!Cooled
  <2> QED  BY <2>5, <2>6
<1> QED  BY <1>1, <1>2, BreakerNext

\* A trip of the breaker holds for its cooldown: no tick passes the check meanwhile,
\* through kills, crashes and reloads and whatever the overlapping ticks record that
\* were past it, as long as no state was lost on the way.  Those ticks still place
\* their orders, of which this says nothing (pathArbitrage.ts:87, breakerStore.ts:1).
THEOREM TripsHold == MCSpec => TripHolds
<1>1. BreakerIInv /\ [MCNext]_allVars => [NoTickInTrip]_B!vars  BY CheckHolds
<1>2. [][[NoTickInTrip]_B!vars]_allVars => [][NoTickInTrip]_B!vars
  <2>1. UNCHANGED allVars => UNCHANGED B!vars  BY DEF allVars, breakerVars, B!vars
  <2> QED  BY <2>1, PTL
<1>3. [][NoTickInTrip]_B!vars => TripHolds
  BY PTL DEF TripHolds, B!TripHolds, NoTickInTrip
<1> QED  BY <1>1, <1>2, <1>3, BreakerInvariance, PTL DEF MCSpec, allVars

\* The step of LossTrips.
LossIsTripped == intact' /\ profit' # profit /\ B!Trips(B!InWindow(profit)') => lastTrip' = now

LEMMA ConcludeTrips ==
    ASSUME BreakerIInv, Window + TickTime <= Cooldown, [MCNext]_allVars PROVE LossIsTripped
<1> SUFFICES ASSUME intact', profit' # profit, B!Trips(B!InWindow(profit)')
             PROVE  lastTrip' = now
  BY DEF LossIsTripped
<1>1. B!Next  BY BreakerNext DEF breakerVars
<1>2. PICK k \in Ticks : B!Conclude(k)
  BY <1>1
  DEF B!Next, B!Start, B!Load, B!Check, B!PlaceOrder, B!Reject, B!Save, B!Kill, B!Crash, B!Pass
<1>3. tick[k] # None /\ UNCHANGED <<now, strategy, intact>>
  BY <1>2 DEF B!Conclude
<1>4. PICK i \in Instances, pnl \in Int, made \in B!Trades :
        /\ i = tick[k].at
        /\ breaker'[i] = [loaded |-> breaker[i].loaded, saving |-> TRUE, shared |-> FALSE,
                          trades |-> B!InWindow(made),
                          trippedAt |-> IF B!Trips(B!InWindow(made)) THEN now
                                        ELSE breaker[i].trippedAt]
        /\ lastTrip' = IF B!Trips(breaker'[i].trades) THEN now ELSE lastTrip
  BY <1>2, ConcludeRecords
<1>5. breaker'[i].loaded = breaker[i].loaded /\ breaker'[i].trades = B!InWindow(made)
  BY <1>4
<1>6. breaker'[i].trades = B!InWindow(profit)'
  <2>1. strategy = i /\ breaker[i].loaded  BY <1>3, <1>4 DEF BreakerIInv, OneAtWork
  <2>2. KnownTrades' = breaker'[i].trades
    BY <1>3, <1>5, <2>1, BreakerConstants DEF KnownTrades, KnowsAll
  <2>3. TradesAreKnown'  BY BreakerInductive DEF BreakerIInv, LossesAreKnown
  <2>4. \A time \in B!Times : time >= now - Window =>
            breaker'[i].trades[time] = profit'[time]
    BY <1>3, <2>2, <2>3 DEF TradesAreKnown
  <2> QED  BY <1>3, <1>5, <2>4 DEF B!InWindow
<1> QED  BY <1>4, <1>6

\* Losses that pass the limit within the window trip the breaker, whichever tick,
\* strategy or process recorded them, with any number of ticks that overlap and however
\* saves, reloads and recoveries fall, as long as no state was lost and the cooldown
\* outlasts the window and the longest tick (pathArbitrage.ts:110, :34).
THEOREM LossesTrip == ASSUME Window + TickTime <= Cooldown PROVE MCSpec => LossTrips
<1>1. BreakerIInv /\ [MCNext]_allVars => [LossIsTripped]_B!vars  BY ConcludeTrips
<1>2. [][[LossIsTripped]_B!vars]_allVars => [][LossIsTripped]_B!vars
  <2>1. UNCHANGED allVars => UNCHANGED B!vars  BY DEF allVars, breakerVars, B!vars
  <2> QED  BY <2>1, PTL
<1>3. [][LossIsTripped]_B!vars => LossTrips
  BY PTL DEF LossTrips, B!LossTrips, LossIsTripped
<1> QED  BY <1>1, <1>2, <1>3, BreakerInvariance, PTL DEF MCSpec, allVars

(***************************************************************************)
(* The types of the four together.                                         *)
(***************************************************************************)
LEMMA ExposureNext == [MCNext]_allVars => [Next]_vars
<1>1. CASE UNCHANGED allVars  BY <1>1 DEF allVars
<1>2. CASE MCNext
  BY <1>2 DEF MCNext, ExposureStep, BreakerStep, RecordStep, ScalperStep, Next
<1> QED  BY <1>1, <1>2

LEMMA RecordsTyped == TP!IInv => T!TypeOK
  BY DEF TP!IInv, TP!TypeOK, T!TypeOK, TP!Histories, T!Histories, TP!Trades, T!Trades,
      TP!Statuses, T!Statuses, TP!Nothing, T!Nothing

LEMMA ScalperTyped == SP!IInv => S!TypeOK
  BY DEF SP!IInv, SP!TypeOK, S!TypeOK, SP!Positions, S!Positions, SP!Orders, S!Orders

LEMMA BreakerTyped == BreakerIInv => B!TypeOK
<1> SUFFICES ASSUME BreakerIInv PROVE B!TypeOK  OBVIOUS
<1>1. file \in B!States \cup {None}  BY DEF BreakerIInv, BreakerTypes
<1>2. \A i \in Instances : IsBreaker(breaker[i])
  BY DEF BreakerIInv, BreakerTypes, BreakersTyped
<1> QED  BY <1>1, <1>2 DEF BreakerIInv, BreakerTypes, IsBreaker, B!TypeOK, B!Trades

\* The types of the four models of what is remembered.
THEOREM AllTypes == MCSpec => []AllTypeOK
<1>1. MCInit => ExposureIInv  BY ExposureInitially DEF MCInit
<1>2. ExposureIInv /\ [MCNext]_allVars => ExposureIInv'
  BY ExposureNext, ExposureInductive
<1>3. ExposureIInv /\ BreakerIInv /\ TP!IInv /\ SP!IInv => AllTypeOK
  BY BreakerTyped, RecordsTyped, ScalperTyped DEF ExposureIInv, AllTypeOK
<1> QED
  BY <1>1, <1>2, <1>3, BreakerInvariance, RecordsInvariance, ScalperInvariance, PTL
  DEF MCSpec, allVars
=============================================================================
