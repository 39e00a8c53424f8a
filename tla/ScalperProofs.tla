---------------------------- MODULE ScalperProofs ----------------------------
(***************************************************************************)
(* That the scalper's position is backed by what the account holds, for    *)
(* any pairs, sizes and number of ticks that overlap.                      *)
(***************************************************************************)
EXTENDS Scalper, TLAPS

Buys(c) == call[c] # None /\ call[c].buy
Sells(c) == call[c] # None /\ ~call[c].buy

\* A long position has a size and a flat one has none.
SizeFits == position.long <=> position.size # 0

\* Only what is done has a fill, of its amount at most.
FillsFit ==
    \A c \in Calls : call[c] # None =>
        /\ call[c].filled <= call[c].amount
        /\ ~call[c].done => call[c].filled = 0

\* One exit at a time; unless a kill dropped it, it is the exit of the position
\* and nothing else is under way.
OneExit ==
    /\ \A c, d \in Calls : Sells(c) /\ Sells(d) => c = d
    /\ \A c \in Calls : Sells(c) /\ ~call[c].dropped =>
           /\ position.size = call[c].amount
           /\ \A d \in Calls \ {c} : call[d] = None

\* What was not dropped is of the strategy's pair.
OfCurrentPair ==
    \A c \in Calls : call[c] # None /\ ~call[c].dropped => call[c].pair = pair

\* The position is being sold.
Leaves == \E c \in Calls : Sells(c) /\ ~call[c].dropped

\* The account holds n of the pair beyond what the exit under way may still sell.
Holds(p, n) ==
    /\ (\A c \in Calls : Sells(c) => call[c].pair # p) => held[p] >= n
    /\ \A c \in Calls : Sells(c) /\ call[c].pair = p =>
           held[p] + call[c].filled >= call[c].amount + n

\* It holds the position, unless that is what is sold, and what each entry under
\* way will make of it.
NothingIsOversold == \A p \in Pairs : Holds(p, 0)
PositionIsCovered == ~Leaves => Holds(pair, position.size)
EntriesAreCovered ==
    \A c \in Calls : Buys(c) /\ ~call[c].dropped => Holds(call[c].pair, call[c].filled)

IInv ==
    /\ TypeOK
    /\ SizeFits
    /\ FillsFit
    /\ followed => OneExit /\ OfCurrentPair
    /\ followed => NothingIsOversold /\ PositionIsCovered /\ EntriesAreCovered

-----------------------------------------------------------------------------
(* What the operators give.                                                *)

LEMMA OrderFields ==
    ASSUME ScalperAssumption, NEW o \in Orders
    PROVE  /\ o.pair \in Pairs /\ o.buy \in BOOLEAN /\ o.stop \in BOOLEAN
           /\ o.done \in BOOLEAN /\ o.dropped \in BOOLEAN
           /\ o.amount \in Nat \ {0} /\ o.amount <= MaxSize
           /\ o.filled \in Nat /\ o.filled <= MaxSize
           /\ o # None
<1>1. MaxSize \in Nat  BY DEF ScalperAssumption
<1> QED  BY <1>1 DEF Orders, ScalperAssumption

LEMMA PositionFields ==
    ASSUME ScalperAssumption
    PROVE  /\ \A x \in Positions : x.long \in BOOLEAN /\ x.size \in Nat
           /\ \A cools \in BOOLEAN : Flat(cools) \in Positions
                  /\ Flat(cools).size = 0 /\ ~Flat(cools).long
           /\ \A n \in 1 .. MaxSize : Long(n) \in Positions
                  /\ Long(n).size = n /\ Long(n).long
<1>1. MaxSize \in Nat  BY DEF ScalperAssumption
<1> QED  BY <1>1 DEF Positions, Flat, Long

\* A smaller claim is held too.
LEMMA HoldsLess ==
    ASSUME ScalperAssumption, TypeOK, NEW p \in Pairs, NEW n \in Nat, NEW m \in Nat,
           m <= n, Holds(p, n)
    PROVE  Holds(p, m)
<1>1. \A c \in Calls : Sells(c) => call[c].amount \in Nat /\ call[c].filled \in Nat
  BY OrderFields DEF TypeOK, Sells
<1>2. held[p] \in Int  BY DEF TypeOK
<1> QED  BY <1>1, <1>2 DEF Holds

-----------------------------------------------------------------------------
(* Every action keeps the invariant.                                       *)

LEMMA InitIInv == ASSUME ScalperAssumption, Init PROVE IInv
<1>1. position \in Positions /\ position.size = 0 /\ ~position.long
  BY PositionFields DEF Init
<1>2. /\ pair \in Pairs /\ followed \in BOOLEAN
      /\ call \in [Calls -> Orders \cup {None}] /\ \A c \in Calls : call[c] = None
      /\ held \in [Pairs -> Int] /\ \A p \in Pairs : held[p] = 0
  BY DEF Init
<1>3. TypeOK  BY <1>1, <1>2 DEF TypeOK
<1>4. SizeFits /\ FillsFit  BY <1>1, <1>2 DEF SizeFits, FillsFit
<1>5. OneExit /\ OfCurrentPair  BY <1>2 DEF OneExit, OfCurrentPair, Sells
<1>6. ASSUME NEW p \in Pairs PROVE Holds(p, 0)
  <2>1. held[p] = 0  BY <1>2
  <2>2. \A c \in Calls : ~Sells(c)  BY <1>2 DEF Sells
  <2> QED  BY <2>1, <2>2 DEF Holds
<1>7. NothingIsOversold /\ PositionIsCovered /\ EntriesAreCovered
  BY <1>1, <1>2, <1>6 DEF NothingIsOversold, PositionIsCovered, EntriesAreCovered, Buys
<1> QED  BY <1>3, <1>4, <1>5, <1>7 DEF IInv

LEMMA CooldownEndsKeepsIInv == ASSUME ScalperAssumption, IInv, CooldownEnds PROVE IInv'
<1>1. /\ position' \in Positions
      /\ position'.size = position.size /\ position'.long = position.long
  BY DEF IInv, TypeOK, CooldownEnds, Positions
<1>2. UNCHANGED <<pair, call, held, followed>>  BY DEF CooldownEnds
<1>3. TypeOK'  BY <1>1, <1>2 DEF IInv, TypeOK
<1>4. SizeFits' /\ FillsFit'  BY <1>1, <1>2 DEF IInv, SizeFits, FillsFit
<1>5. OneExit => OneExit'  BY <1>1, <1>2 DEF OneExit, Sells
<1>6. OfCurrentPair => OfCurrentPair'  BY <1>2 DEF OfCurrentPair
<1>7. NothingIsOversold => NothingIsOversold'
  BY <1>2 DEF NothingIsOversold, Holds, Sells
<1>8. PositionIsCovered => PositionIsCovered'
  BY <1>1, <1>2 DEF PositionIsCovered, Holds, Leaves, Sells
<1>9. EntriesAreCovered => EntriesAreCovered'
  BY <1>2 DEF EntriesAreCovered, Holds, Sells, Buys
<1> QED  BY <1>2, <1>3, <1>4, <1>5, <1>6, <1>7, <1>8, <1>9 DEF IInv

LEMMA SwitchPairKeepsIInv == ASSUME ScalperAssumption, IInv, SwitchPair PROVE IInv'
<1>1. /\ pair' \in Pairs /\ UNCHANGED <<position, call, held>>
      /\ followed' = (followed /\ ~position.long /\ \A c \in Calls : call[c] = None)
  BY DEF SwitchPair
<1>2. TypeOK'  BY <1>1 DEF IInv, TypeOK
<1>3. SizeFits' /\ FillsFit'  BY <1>1 DEF IInv, SizeFits, FillsFit
<1>4. ASSUME followed' PROVE OneExit' /\ OfCurrentPair'
  <2>1. \A c \in Calls : call'[c] = None  BY <1>1, <1>4
  <2> QED  BY <2>1 DEF OneExit, OfCurrentPair, Sells
<1>5. ASSUME followed' PROVE NothingIsOversold' /\ PositionIsCovered' /\ EntriesAreCovered'
  <2>1. \A c \in Calls : call'[c] = None  BY <1>1, <1>5
  <2>2. position'.size = 0
    BY <1>1, <1>5 DEF IInv, SizeFits, TypeOK, Positions
  <2>3. NothingIsOversold'
    BY <1>1, <1>5 DEF IInv, NothingIsOversold, Holds, Sells
  <2>4. PositionIsCovered'
    BY <1>1, <2>2, <2>3 DEF PositionIsCovered, NothingIsOversold, Holds
  <2>5. EntriesAreCovered'  BY <2>1 DEF EntriesAreCovered, Buys
  <2> QED  BY <2>3, <2>4, <2>5
<1> QED  BY <1>2, <1>3, <1>4, <1>5 DEF IInv

LEMMA RestartKeepsIInv == ASSUME ScalperAssumption, IInv, Restart PROVE IInv'
<1>1. /\ pair' \in Pairs /\ UNCHANGED <<held, followed>>
      /\ position' \in Positions /\ position'.size = 0 /\ ~position'.long
  BY PositionFields DEF Restart
<1>2. \A c \in Calls :
        /\ call[c] = None => call'[c] = None
        /\ call[c] # None =>
              /\ call'[c] \in Orders /\ call'[c] # None /\ call'[c].dropped
              /\ call'[c].pair = call[c].pair /\ call'[c].buy = call[c].buy
              /\ call'[c].amount = call[c].amount /\ call'[c].filled = call[c].filled
              /\ call'[c].done = call[c].done
  <2> SUFFICES ASSUME NEW c \in Calls, call[c] # None
               PROVE  /\ call'[c] \in Orders /\ call'[c].dropped
                      /\ call'[c].pair = call[c].pair /\ call'[c].buy = call[c].buy
                      /\ call'[c].amount = call[c].amount /\ call'[c].filled = call[c].filled
                      /\ call'[c].done = call[c].done
    BY OrderFields DEF Restart
  <2>1. call[c] \in Orders /\ call'[c] = [call[c] EXCEPT !.dropped = TRUE]
    BY DEF IInv, TypeOK, Restart
  <2> QED  BY <2>1 DEF Orders
<1>3. call' \in [Calls -> Orders \cup {None}]  BY <1>2 DEF Restart
<1>4. TypeOK'  BY <1>1, <1>3 DEF IInv, TypeOK
<1>5. SizeFits' /\ FillsFit'  BY <1>1, <1>2 DEF IInv, SizeFits, FillsFit
<1>6. \A c \in Calls : Sells(c)' <=> Sells(c)  BY <1>2 DEF Sells
<1>7. ASSUME followed' PROVE OneExit' /\ OfCurrentPair'
  BY <1>1, <1>2, <1>6, <1>7 DEF IInv, OneExit, OfCurrentPair, Sells
<1>8. ASSUME followed' PROVE NothingIsOversold' /\ PositionIsCovered' /\ EntriesAreCovered'
  <2>1. NothingIsOversold'
    BY <1>1, <1>2, <1>6, <1>8 DEF IInv, NothingIsOversold, Holds, Sells
  <2>2. PositionIsCovered'
    BY <1>1, <2>1 DEF PositionIsCovered, NothingIsOversold, Holds
  <2>3. EntriesAreCovered'
    BY <1>2 DEF EntriesAreCovered, Buys
  <2> QED  BY <2>1, <2>2, <2>3
<1> QED  BY <1>4, <1>5, <1>7, <1>8 DEF IInv

LEMMA PlacesPlaces ==
    ASSUME ScalperAssumption, TypeOK, NEW c \in Calls, call[c] = None,
           NEW buy \in BOOLEAN, NEW stop \in BOOLEAN, NEW amount \in 1 .. MaxSize,
           Places(c, buy, stop, amount)
    PROVE  /\ call' \in [Calls -> Orders \cup {None}]
           /\ call'[c] \in Orders /\ call'[c] # None
           /\ call'[c].pair = pair /\ call'[c].buy = buy /\ call'[c].amount = amount
           /\ call'[c].filled = 0 /\ ~call'[c].done /\ ~call'[c].dropped
           /\ \A d \in Calls \ {c} : call'[d] = call[d]
<1> DEFINE o == [pair |-> pair, buy |-> buy, stop |-> stop, amount |-> amount,
                 filled |-> 0, done |-> FALSE, dropped |-> FALSE]
<1>1. MaxSize \in Nat  BY DEF ScalperAssumption
<1>2. o \in Orders  BY <1>1 DEF TypeOK, Orders
<1>3. call' = [call EXCEPT ![c] = o]  BY DEF Places
<1>4. call'[c] = o /\ \A d \in Calls \ {c} : call'[d] = call[d]  BY <1>3 DEF TypeOK
<1>5. o # None  BY <1>2, OrderFields
<1> QED  BY <1>2, <1>3, <1>4, <1>5 DEF TypeOK

LEMMA EnterKeepsIInv == ASSUME ScalperAssumption, IInv, NEW c \in Calls, Enter(c) PROVE IInv'
<1>0. /\ TypeOK /\ call[c] = None /\ ~position.long
      /\ UNCHANGED <<pair, position, held, followed>>
  BY DEF IInv, Enter
<1>1. PICK amount \in 1 .. MaxSize : Places(c, TRUE, FALSE, amount)  BY DEF Enter
<1>2. /\ call' \in [Calls -> Orders \cup {None}]
      /\ call'[c] # None /\ call'[c].pair = pair /\ call'[c].buy
      /\ call'[c].amount = amount /\ call'[c].filled = 0 /\ ~call'[c].dropped
      /\ \A d \in Calls \ {c} : call'[d] = call[d]
  BY <1>0, <1>1, PlacesPlaces
<1>3. TypeOK'  BY <1>0, <1>2 DEF TypeOK
<1>4. SizeFits'  BY <1>0 DEF IInv, SizeFits
<1>5. FillsFit'
  <2>1. MaxSize \in Nat  BY DEF ScalperAssumption
  <2> QED  BY <1>0, <1>2, <2>1 DEF IInv, FillsFit
<1>6. \A d \in Calls : Sells(d)' <=> Sells(d)  BY <1>0, <1>2 DEF Sells
<1>7. \A d \in Calls : Sells(d) => d # c /\ call'[d] = call[d]  BY <1>0, <1>2 DEF Sells
<1>8. ASSUME followed' PROVE OneExit' /\ OfCurrentPair'
  <2>1. \A d \in Calls : Sells(d) /\ ~call[d].dropped => position.size = call[d].amount
    BY <1>0, <1>8 DEF IInv, OneExit
  <2>2. position.size = 0  BY <1>0 DEF IInv, SizeFits, TypeOK, Positions
  <2>3. \A d \in Calls : Sells(d) => call[d].dropped
    BY <1>0, <2>1, <2>2, OrderFields DEF Sells, TypeOK
  <2>4. OneExit'  BY <1>0, <1>6, <1>7, <1>8, <2>3 DEF IInv, OneExit
  <2>5. OfCurrentPair'  BY <1>0, <1>2, <1>8 DEF IInv, OfCurrentPair
  <2> QED  BY <2>4, <2>5
<1>9. ASSUME followed' PROVE NothingIsOversold' /\ PositionIsCovered' /\ EntriesAreCovered'
  <2>1. NothingIsOversold'
    BY <1>0, <1>6, <1>7, <1>9 DEF IInv, NothingIsOversold, Holds
  <2>2. Leaves' <=> Leaves  BY <1>6, <1>7 DEF Leaves
  <2>3. PositionIsCovered'
    BY <1>0, <1>6, <1>7, <1>9, <2>2 DEF IInv, PositionIsCovered, Holds
  <2>4. EntriesAreCovered'
    <3> SUFFICES ASSUME NEW d \in Calls, Buys(d)', ~call'[d].dropped
                 PROVE  Holds(call[d].pair, call[d].filled)'
      BY DEF EntriesAreCovered
    <3>1. CASE d = c
      <4>1. pair \in Pairs  BY <1>0 DEF TypeOK
      <4> QED  BY <1>2, <2>1, <3>1, <4>1 DEF NothingIsOversold, Holds
    <3>2. CASE d # c
      <4>1. Holds(call[d].pair, call[d].filled)
        BY <1>0, <1>2, <1>9, <3>2 DEF IInv, EntriesAreCovered, Buys
      <4> QED  BY <1>0, <1>2, <1>6, <1>7, <3>2, <4>1 DEF Holds
    <3> QED  BY <3>1, <3>2
  <2> QED  BY <2>1, <2>3, <2>4
<1> QED  BY <1>3, <1>4, <1>5, <1>8, <1>9 DEF IInv

LEMMA ExitKeepsIInv == ASSUME ScalperAssumption, IInv, NEW c \in Calls, Exit(c) PROVE IInv'
<1>0. /\ TypeOK /\ call[c] = None /\ position.long
      /\ UNCHANGED <<pair, position, held>>
      /\ followed' = (followed /\ \A d \in Calls : call[d] = None)
  BY DEF IInv, Exit
<1>1. PICK stop \in BOOLEAN : Places(c, FALSE, stop, position.size)  BY DEF Exit, ExitSizes
<1>2. position.size \in 1 .. MaxSize
  <2>1. MaxSize \in Nat  BY DEF ScalperAssumption
  <2> QED  BY <1>0, <2>1 DEF IInv, SizeFits, TypeOK, Positions
<1>3. /\ call' \in [Calls -> Orders \cup {None}]
      /\ call'[c] # None /\ call'[c].pair = pair /\ ~call'[c].buy
      /\ call'[c].amount = position.size /\ call'[c].filled = 0 /\ ~call'[c].dropped
      /\ \A d \in Calls \ {c} : call'[d] = call[d]
  BY <1>0, <1>1, <1>2, PlacesPlaces
<1>4. TypeOK'  BY <1>0, <1>3 DEF TypeOK
<1>5. SizeFits'  BY <1>0 DEF IInv, SizeFits
<1>6. FillsFit'  BY <1>2, <1>3 DEF IInv, FillsFit
<1>7. ASSUME followed' PROVE OneExit' /\ OfCurrentPair'
  <2>1. \A d \in Calls \ {c} : call'[d] = None  BY <1>0, <1>3, <1>7
  <2> QED  BY <1>0, <1>3, <2>1 DEF OneExit, OfCurrentPair, Sells
<1>8. ASSUME followed' PROVE NothingIsOversold' /\ PositionIsCovered' /\ EntriesAreCovered'
  <2>1. \A d \in Calls : call[d] = None  BY <1>0, <1>8
  <2>2. \A d \in Calls \ {c} : call'[d] = None  BY <1>3, <2>1
  <2>3. held[pair] >= position.size /\ \A p \in Pairs : held[p] >= 0
    BY <1>0, <1>8, <2>1 DEF IInv, NothingIsOversold, PositionIsCovered, Holds, Leaves, Sells, TypeOK
  <2>4. held \in [Pairs -> Int] /\ pair \in Pairs  BY <1>0 DEF TypeOK
  <2>5. NothingIsOversold'
    BY <1>0, <1>2, <1>3, <2>2, <2>3, <2>4 DEF NothingIsOversold, Holds, Sells
  <2>6. PositionIsCovered'  BY <1>3 DEF PositionIsCovered, Leaves, Sells
  <2>7. EntriesAreCovered'  BY <1>3, <2>2 DEF EntriesAreCovered, Buys
  <2> QED  BY <2>5, <2>6, <2>7
<1> QED  BY <1>4, <1>5, <1>6, <1>7, <1>8 DEF IInv

LEMMA ExecuteKeepsIInv == ASSUME ScalperAssumption, IInv, NEW c \in Calls, Execute(c) PROVE IInv'
<1> DEFINE o == call[c]
<1>0. TypeOK /\ o # None /\ ~o.done /\ UNCHANGED <<pair, position, followed>>
  BY DEF IInv, Execute
<1>1. PICK n \in 0 .. o.amount :
        /\ call' = [call EXCEPT ![c].done = TRUE, ![c].filled = n]
        /\ held' = Moved(o, n)
  BY DEF Execute
<1>2. /\ o \in Orders /\ o.filled = 0 /\ o.pair \in Pairs /\ o.amount \in Nat
      /\ n \in Nat /\ n <= o.amount /\ n \in 0 .. MaxSize
  <2>1. MaxSize \in Nat  BY DEF ScalperAssumption
  <2>2. o \in Orders  BY <1>0 DEF TypeOK
  <2> QED  BY <1>0, <2>1, <2>2, OrderFields DEF IInv, FillsFit
<1>3. /\ call'[c] \in Orders /\ call'[c] # None
      /\ call'[c].pair = o.pair /\ call'[c].buy = o.buy /\ call'[c].amount = o.amount
      /\ call'[c].dropped = o.dropped /\ call'[c].filled = n /\ call'[c].done
  <2>1. call'[c] = [o EXCEPT !.done = TRUE, !.filled = n]  BY <1>0, <1>1 DEF TypeOK
  <2>2. call'[c] \in Orders  BY <1>2, <2>1 DEF Orders
  <2> QED  BY <1>2, <2>1, <2>2, OrderFields DEF Orders
<1>4. \A d \in Calls \ {c} : call'[d] = call[d]  BY <1>0, <1>1 DEF TypeOK
<1>5. /\ held' \in [Pairs -> Int]
      /\ held'[o.pair] = IF o.buy THEN held[o.pair] + n ELSE held[o.pair] - n
      /\ \A p \in Pairs \ {o.pair} : held'[p] = held[p]
  BY <1>0, <1>1, <1>2 DEF TypeOK, Moved
<1>6. TypeOK'
  <2>1. call' \in [Calls -> Orders \cup {None}]  BY <1>0, <1>1, <1>3, <1>4 DEF TypeOK
  <2> QED  BY <1>0, <1>5, <2>1 DEF TypeOK
<1>7. SizeFits' /\ FillsFit'  BY <1>0, <1>2, <1>3, <1>4 DEF IInv, SizeFits, FillsFit
<1>8. \A d \in Calls :
        /\ Sells(d)' <=> Sells(d)
        /\ call'[d].pair = call[d].pair /\ call'[d].amount = call[d].amount
        /\ call'[d].dropped = call[d].dropped
        /\ call'[d] = None <=> call[d] = None
  <2>1. Sells(c)' <=> Sells(c)
    BY <1>0, <1>2, <1>3, OrderFields DEF Sells
  <2>2. \A d \in Calls \ {c} : Sells(d)' <=> Sells(d)  BY <1>4 DEF Sells
  <2> QED  BY <1>0, <1>3, <1>4, <2>1, <2>2
<1>9. ASSUME followed' PROVE OneExit' /\ OfCurrentPair'
  BY <1>0, <1>8, <1>9 DEF IInv, OneExit, OfCurrentPair
<1>10. ASSUME followed', NEW p \in Pairs, NEW m \in Nat, Holds(p, m) PROVE Holds(p, m)'
  <2>1. held[p] \in Int /\ held'[p] \in Int  BY <1>0, <1>5 DEF TypeOK
  <2>2. CASE o.buy
    <3>1. held'[p] >= held[p]  BY <1>2, <1>5, <2>1, <2>2
    <3>2. \A d \in Calls : Sells(d) => call'[d] = call[d]  BY <1>4, <2>2 DEF Sells
    <3>3. \A d \in Calls : Sells(d) => call[d].filled \in Nat /\ call[d].amount \in Nat
      BY <1>0, OrderFields DEF TypeOK, Sells
    <3> QED  BY <1>8, <1>10, <2>1, <3>1, <3>2, <3>3 DEF Holds
  <2>3. CASE ~o.buy
    <3>1. Sells(c)  BY <1>0, <2>3 DEF Sells
    <3>2. \A d \in Calls : Sells(d) => d = c  BY <1>0, <1>10, <3>1 DEF IInv, OneExit
    <3>3. CASE p = o.pair
      <4>1. held[p] + 0 >= o.amount + m  BY <1>2, <1>10, <3>1, <3>3 DEF Holds
      <4>2. held'[p] + n >= o.amount + m  BY <1>2, <1>5, <2>1, <2>3, <3>3, <4>1
      <4> QED  BY <1>3, <1>8, <3>1, <3>2, <3>3, <4>2 DEF Holds
    <3>4. CASE p # o.pair
      BY <1>5, <1>8, <1>10, <3>2, <3>4 DEF Holds
    <3> QED  BY <3>3, <3>4
  <2> QED  BY <2>2, <2>3
<1>11. ASSUME followed' PROVE NothingIsOversold' /\ PositionIsCovered' /\ EntriesAreCovered'
  <2>1. NothingIsOversold'
    BY <1>0, <1>10, <1>11 DEF IInv, NothingIsOversold
  <2>2. PositionIsCovered'
    <3>1. Leaves' <=> Leaves  BY <1>8 DEF Leaves
    <3>2. PICK p \in Pairs, m \in Nat : p = pair /\ m = position.size
      BY <1>0 DEF TypeOK, Positions
    <3>3. ~Leaves => Holds(p, m)'
      BY <1>0, <1>10, <1>11, <3>2 DEF IInv, PositionIsCovered
    <3> QED  BY <1>0, <3>1, <3>2, <3>3 DEF PositionIsCovered, Holds
  <2>3. EntriesAreCovered'
    <3> SUFFICES ASSUME NEW d \in Calls, Buys(d)', ~call'[d].dropped
                 PROVE  Holds(call[d].pair, call[d].filled)'
      BY DEF EntriesAreCovered
    <3>1. CASE d # c
      <4>1. Holds(call[d].pair, call[d].filled) /\ call'[d] = call[d]
        BY <1>0, <1>4, <1>11, <3>1 DEF IInv, EntriesAreCovered, Buys
      <4>2. PICK p \in Pairs, m \in Nat : p = call[d].pair /\ m = call[d].filled
        BY <1>0, <4>1, OrderFields DEF TypeOK, Buys
      <4>3. Holds(p, m)'  BY <1>10, <1>11, <4>1, <4>2
      <4> QED  BY <4>1, <4>2, <4>3 DEF Holds
    <3>2. CASE d = c
      <4>1. o.buy  BY <1>3, <3>2 DEF Buys
      <4>2. held'[o.pair] = held[o.pair] + n /\ held[o.pair] \in Int
        BY <1>0, <1>2, <1>5, <4>1 DEF TypeOK
      <4>3. \A e \in Calls : Sells(e) => e # c /\ call'[e] = call[e]  BY <1>4, <4>1 DEF Sells
      <4>4. \A e \in Calls : Sells(e) => call[e].filled \in Nat /\ call[e].amount \in Nat
        BY <1>0, OrderFields DEF TypeOK, Sells
      <4>5. Holds(o.pair, 0)  BY <1>0, <1>2, <1>11 DEF IInv, NothingIsOversold
      <4> QED  BY <1>2, <1>3, <1>8, <3>2, <4>2, <4>3, <4>4, <4>5 DEF Holds
    <3> QED  BY <3>1, <3>2
  <2> QED  BY <2>1, <2>2, <2>3
<1> QED  BY <1>6, <1>7, <1>9, <1>11 DEF IInv

\* The end of a call takes nothing from what is held for the others.
LEMMA EndKeepsClaims ==
    ASSUME ScalperAssumption, TypeOK, FillsFit, OneExit, NEW c \in Calls,
           call' = [call EXCEPT ![c] = None],
           NEW p \in Pairs, NEW m \in Nat, held'[p] \in Int, held'[p] >= held[p], Holds(p, m)
    PROVE  Holds(p, m)'
<1>1. call'[c] = None /\ \A d \in Calls \ {c} : call'[d] = call[d]  BY DEF TypeOK
<1>2. \A d \in Calls : Sells(d)' <=> Sells(d) /\ d # c  BY <1>1 DEF Sells
<1>3. held[p] \in Int  BY DEF TypeOK
<1>4. \A d \in Calls : Sells(d) =>
        /\ call[d].filled \in Nat /\ call[d].amount \in Nat
        /\ call[d].filled <= call[d].amount
  BY OrderFields DEF TypeOK, FillsFit, Sells
<1>5. CASE Sells(c) /\ call[c].pair = p
  <2>1. \A d \in Calls : ~Sells(d)'  BY <1>2, <1>5 DEF OneExit
  <2>2. held[p] + call[c].filled >= call[c].amount + m  BY <1>5 DEF Holds
  <2>3. held[p] >= m  BY <1>3, <1>4, <1>5, <2>2
  <2>4. held'[p] >= m  BY <1>3, <2>3
  <2> QED  BY <2>1, <2>4 DEF Holds
<1>6. CASE ~(Sells(c) /\ call[c].pair = p)
  <2>1. \A d \in Calls : Sells(d) /\ call[d].pair = p => d # c /\ call'[d] = call[d]
    BY <1>1, <1>6
  <2>2. (\A d \in Calls : Sells(d)' => call'[d].pair # p)
        => \A d \in Calls : Sells(d) => call[d].pair # p
    BY <1>2, <2>1
  <2>3. ASSUME NEW d \in Calls, Sells(d)', call'[d].pair = p
        PROVE  held'[p] + call'[d].filled >= call'[d].amount + m
    <3>1. Sells(d) /\ call'[d] = call[d]  BY <1>1, <1>2, <2>3
    <3>2. held[p] + call[d].filled >= call[d].amount + m  BY <2>3, <3>1 DEF Holds
    <3> QED  BY <1>3, <1>4, <3>1, <3>2
  <2>4. (\A d \in Calls : Sells(d)' => call'[d].pair # p) => held'[p] >= m
    <3>1. (\A d \in Calls : Sells(d) => call[d].pair # p) => held[p] >= m  BY DEF Holds
    <3> QED  BY <1>3, <2>2, <3>1
  <2> QED  BY <2>3, <2>4 DEF Holds
<1> QED  BY <1>5, <1>6

\* And it leaves the other entries covered.
LEMMA EndKeepsEntries ==
    ASSUME ScalperAssumption, TypeOK, FillsFit, OneExit, NEW c \in Calls,
           call' = [call EXCEPT ![c] = None], held' \in [Pairs -> Int],
           \A p \in Pairs : held'[p] >= held[p],
           NothingIsOversold, EntriesAreCovered
    PROVE  NothingIsOversold' /\ EntriesAreCovered'
<1>1. NothingIsOversold'  BY EndKeepsClaims DEF NothingIsOversold
<1>2. EntriesAreCovered'
  <2> SUFFICES ASSUME NEW d \in Calls, Buys(d)', ~call'[d].dropped
               PROVE  Holds(call[d].pair, call[d].filled)'
    BY DEF EntriesAreCovered
  <2>1. call'[d] = call[d] /\ call[d] # None  BY DEF TypeOK, Buys
  <2>2. PICK p \in Pairs, m \in Nat : p = call[d].pair /\ m = call[d].filled
    BY <2>1, OrderFields DEF TypeOK
  <2>3. Holds(p, m)  BY <2>1, <2>2 DEF EntriesAreCovered, Buys
  <2>4. Holds(p, m)'  BY <2>3, EndKeepsClaims
  <2> QED  BY <2>1, <2>2, <2>4 DEF Holds
<1> QED  BY <1>1, <1>2

LEMMA AcceptedKeepsIInv ==
    ASSUME ScalperAssumption, IInv, NEW c \in Calls, Accepted(c) PROVE IInv'
<1> DEFINE o == call[c]
<1>0. /\ TypeOK /\ o # None /\ o.done /\ UNCHANGED <<pair, held>>
      /\ call' = [call EXCEPT ![c] = None]
  BY DEF IInv, Accepted
<1>1. PICK size \in ReportedSizes(o) :
        /\ position' = IF o.dropped THEN position ELSE After(o, size)
        /\ followed' = (followed /\ (o.buy => size <= o.filled))
  BY DEF Accepted
<1>2. o \in Orders  BY <1>0 DEF TypeOK
<1>3. size \in 1 .. MaxSize
  <2>1. MaxSize \in Nat  BY DEF ScalperAssumption
  <2> QED  BY <1>2, <2>1, OrderFields DEF ReportedSizes
<1>4. /\ call'[c] = None /\ \A d \in Calls \ {c} : call'[d] = call[d]
      /\ call' \in [Calls -> Orders \cup {None}]
  BY <1>0 DEF TypeOK
<1>5. /\ o.dropped => position' = position
      /\ ~o.dropped /\ o.buy => position' = Long(size)
      /\ ~o.dropped /\ ~o.buy => position' = Flat(o.stop)
  BY <1>1 DEF After
<1>6. TypeOK' /\ SizeFits'
  <2>1. position' \in Positions /\ (position'.long <=> position'.size # 0)
    BY <1>0, <1>2, <1>3, <1>5, PositionFields, OrderFields DEF IInv, SizeFits, TypeOK
  <2>2. followed' \in BOOLEAN  BY <1>0, <1>1 DEF TypeOK
  <2> QED  BY <1>0, <1>4, <2>1, <2>2 DEF TypeOK, SizeFits
<1>7. FillsFit'  BY <1>4 DEF IInv, FillsFit
<1>8. \A d \in Calls : Sells(d)' <=> Sells(d) /\ d # c  BY <1>4 DEF Sells
<1>9. ASSUME followed' PROVE OneExit' /\ OfCurrentPair'
  <2>0. followed /\ OneExit /\ OfCurrentPair  BY <1>1, <1>9 DEF IInv
  <2>1. \A d, e \in Calls : Sells(d)' /\ Sells(e)' => d = e  BY <1>8, <2>0 DEF OneExit
  <2>2. ASSUME NEW d \in Calls, Sells(d)', ~call'[d].dropped
        PROVE  FALSE
    <3>1. Sells(d) /\ d # c /\ ~call[d].dropped  BY <1>4, <1>8, <2>2
    <3> QED  BY <1>0, <2>0, <3>1 DEF OneExit
  <2>3. OneExit'  BY <2>1, <2>2 DEF OneExit
  <2>4. OfCurrentPair'  BY <1>0, <1>4, <2>0 DEF OfCurrentPair
  <2> QED  BY <2>3, <2>4
<1>10. ASSUME followed' PROVE NothingIsOversold' /\ PositionIsCovered' /\ EntriesAreCovered'
  <2>0. /\ followed /\ OneExit /\ OfCurrentPair /\ FillsFit
        /\ NothingIsOversold /\ PositionIsCovered /\ EntriesAreCovered
    BY <1>1, <1>10 DEF IInv
  <2>1. /\ held' \in [Pairs -> Int] /\ held \in [Pairs -> Int] /\ pair \in Pairs
        /\ \A p \in Pairs : held'[p] >= held[p]
    BY <1>0 DEF TypeOK
  <2>2. NothingIsOversold' /\ EntriesAreCovered'
    BY <1>0, <2>0, <2>1, EndKeepsEntries
  <2>3. CASE o.dropped
    <3>1. Leaves' <=> Leaves  BY <1>4, <1>8, <2>3 DEF Leaves
    <3>2. PICK p \in Pairs, m \in Nat : p = pair /\ m = position.size
      BY <1>0 DEF TypeOK, Positions
    <3>3. ~Leaves => Holds(p, m)'
      BY <1>0, <2>0, <2>1, <3>2, EndKeepsClaims DEF PositionIsCovered
    <3>4. PositionIsCovered'
      BY <1>0, <1>5, <2>3, <3>1, <3>2, <3>3 DEF PositionIsCovered, Holds
    <3> QED  BY <2>2, <3>4
  <2>4. CASE ~o.dropped /\ o.buy
    <3>1. PICK p \in Pairs, m \in Nat, n \in Nat : p = o.pair /\ m = o.filled /\ n = size
      BY <1>2, <1>3, OrderFields
    <3>2. Holds(p, m) /\ p = pair
      BY <1>0, <2>0, <2>4, <3>1 DEF EntriesAreCovered, OfCurrentPair, Buys
    <3>3. n <= m  BY <1>1, <1>10, <2>4, <3>1
    <3>4. Holds(p, n)  BY <1>0, <3>2, <3>3, HoldsLess
    <3>5. Holds(p, n)'  BY <1>0, <2>0, <2>1, <3>4, EndKeepsClaims
    <3>6. position'.size = n  BY <1>3, <1>5, <2>4, <3>1, PositionFields
    <3>7. PositionIsCovered'  BY <1>0, <3>2, <3>5, <3>6 DEF PositionIsCovered, Holds
    <3> QED  BY <2>2, <3>7
  <2>5. CASE ~o.dropped /\ ~o.buy
    <3>1. position'.size = 0  BY <1>2, <1>5, <2>5, PositionFields, OrderFields
    <3>2. PositionIsCovered'
      BY <1>0, <2>1, <2>2, <3>1 DEF PositionIsCovered, NothingIsOversold, Holds
    <3> QED  BY <2>2, <3>2
  <2> QED  BY <2>3, <2>4, <2>5
<1> QED  BY <1>6, <1>7, <1>9, <1>10 DEF IInv

LEMMA NotAcceptedKeepsIInv ==
    ASSUME ScalperAssumption, IInv, NEW c \in Calls, NotAccepted(c) PROVE IInv'
<1> DEFINE o == call[c]
<1>0. /\ TypeOK /\ o # None /\ UNCHANGED <<pair, position>>
      /\ call' = [call EXCEPT ![c] = None]
  BY DEF IInv, NotAccepted
<1>1. PICK n \in IF o.done THEN {o.filled} ELSE 0 .. o.amount :
        /\ held' = IF o.done THEN held ELSE Moved(o, n)
        /\ followed' = (followed /\ (o.buy \/ n = 0))
  BY DEF NotAccepted
<1>2. o \in Orders /\ n \in Nat /\ o.pair \in Pairs /\ o.buy \in BOOLEAN
  <2>1. o \in Orders  BY <1>0 DEF TypeOK
  <2> QED  BY <2>1, OrderFields
<1>3. /\ call'[c] = None /\ \A d \in Calls \ {c} : call'[d] = call[d]
      /\ call' \in [Calls -> Orders \cup {None}]
  BY <1>0 DEF TypeOK
<1>4. held \in [Pairs -> Int] /\ held' \in [Pairs -> Int]
  BY <1>0, <1>1, <1>2 DEF TypeOK, Moved
<1>5. TypeOK'  BY <1>0, <1>1, <1>3, <1>4 DEF TypeOK
<1>6. SizeFits' /\ FillsFit'  BY <1>0, <1>3 DEF IInv, SizeFits, FillsFit
<1>7. \A d \in Calls : Sells(d)' <=> Sells(d) /\ d # c  BY <1>3 DEF Sells
<1>8. ASSUME followed' PROVE OneExit' /\ OfCurrentPair'
  <2>0. followed /\ OneExit /\ OfCurrentPair  BY <1>1, <1>8 DEF IInv
  <2>1. \A d \in Calls : Sells(d)' => d # c /\ Sells(d) /\ call'[d] = call[d]
    BY <1>3, <1>7
  <2>2. OneExit'  BY <1>0, <1>3, <2>0, <2>1 DEF OneExit
  <2>3. OfCurrentPair'  BY <1>0, <1>3, <2>0 DEF OfCurrentPair
  <2> QED  BY <2>2, <2>3
<1>9. ASSUME followed' PROVE NothingIsOversold' /\ PositionIsCovered' /\ EntriesAreCovered'
  <2>0. /\ followed /\ OneExit /\ OfCurrentPair /\ FillsFit /\ (o.buy \/ n = 0)
        /\ NothingIsOversold /\ PositionIsCovered /\ EntriesAreCovered
    BY <1>1, <1>9 DEF IInv
  <2>1. ASSUME NEW p \in Pairs PROVE held'[p] >= held[p]
    BY <1>0, <1>1, <1>2, <1>4, <2>0 DEF Moved
  <2>2. NothingIsOversold' /\ EntriesAreCovered'
    BY <1>0, <1>4, <2>0, <2>1, EndKeepsEntries
  <2>3. PICK p \in Pairs, m \in Nat : p = pair /\ m = position.size
    BY <1>0 DEF TypeOK, Positions
  <2>4. CASE ~Leaves
    <3>1. Holds(p, m)'
      BY <1>0, <1>4, <2>0, <2>1, <2>3, <2>4, EndKeepsClaims DEF PositionIsCovered
    <3>2. PositionIsCovered'  BY <1>0, <2>3, <3>1 DEF PositionIsCovered, Holds
    <3> QED  BY <2>2, <3>2
  <2>5. CASE Sells(c) /\ ~o.dropped
    <3>1. o.pair = p /\ o.amount = m /\ \A d \in Calls : ~Sells(d)'
      BY <1>0, <1>7, <2>0, <2>3, <2>5 DEF OneExit, OfCurrentPair
    <3>2. n = 0 /\ o.filled = 0
      <4>1. n = 0  BY <2>0, <2>5 DEF Sells
      <4> QED  BY <1>0, <1>1, <2>0, <4>1 DEF FillsFit
    <3>3. held[p] + 0 >= m + 0
      BY <2>0, <2>5, <3>1, <3>2 DEF NothingIsOversold, Holds
    <3>4. held'[p] >= m
      <4>1. held'[p] \in Int /\ held[p] \in Int  BY <1>4
      <4> QED  BY <2>1, <3>3, <4>1
    <3>5. PositionIsCovered'  BY <1>0, <2>3, <3>1, <3>4 DEF PositionIsCovered, Holds
    <3> QED  BY <2>2, <3>5
  <2>6. CASE Leaves /\ ~(Sells(c) /\ ~o.dropped)
    <3>1. PICK d \in Calls : Sells(d) /\ ~call[d].dropped  BY <2>6 DEF Leaves
    <3>2. d # c  BY <2>6, <3>1
    <3>3. Leaves'  BY <1>3, <1>7, <3>1, <3>2 DEF Leaves
    <3> QED  BY <2>2, <3>3 DEF PositionIsCovered
  <2> QED  BY <2>4, <2>5, <2>6
<1> QED  BY <1>5, <1>6, <1>8, <1>9 DEF IInv

LEMMA NextKeepsIInv == ASSUME ScalperAssumption, IInv, [Next]_vars PROVE IInv'
<1>1. CASE UNCHANGED vars
  BY <1>1 DEF vars, IInv, TypeOK, SizeFits, FillsFit, OneExit, OfCurrentPair,
      NothingIsOversold, PositionIsCovered, EntriesAreCovered, Holds, Leaves, Sells, Buys
<1>2. CASE Next
  BY <1>2, CooldownEndsKeepsIInv, SwitchPairKeepsIInv, RestartKeepsIInv, EnterKeepsIInv,
     ExitKeepsIInv, ExecuteKeepsIInv, AcceptedKeepsIInv, NotAcceptedKeepsIInv DEF Next
<1> QED  BY <1>1, <1>2

\* The claims of the invariant say what the property sums up.
LEMMA IInvBacksPosition == ASSUME ScalperAssumption, IInv PROVE PositionIsBacked
<1> SUFFICES ASSUME followed, NEW p \in Pairs
             PROVE  held[p] + Sold(p) >= IF p = pair THEN position.size ELSE 0
  BY DEF PositionIsBacked
<1> DEFINE exits == {c \in Calls : call[c] # None /\ call[c].pair = p /\ ~call[c].buy}
<1>0. TypeOK /\ held[p] \in Int /\ position.size \in Nat  BY DEF IInv, TypeOK, Positions
<1>1. CASE exits = {}
  <2>1. Sold(p) = 0  BY <1>1 DEF Sold
  <2>2. \A c \in Calls : Sells(c) => call[c].pair # p  BY <1>1 DEF Sells
  <2>3. held[p] >= 0  BY <2>2 DEF IInv, NothingIsOversold, Holds
  <2>4. p = pair => held[p] >= position.size
    <3> SUFFICES ASSUME p = pair PROVE held[p] >= position.size  OBVIOUS
    <3>1. ~Leaves  BY <2>2 DEF IInv, OfCurrentPair, Leaves, Sells
    <3> QED  BY <2>2, <3>1 DEF IInv, PositionIsCovered, Holds
  <2> QED  BY <1>0, <2>1, <2>3, <2>4
<1>2. CASE exits # {}
  <2>1. PICK c \in exits : c = CHOOSE x \in exits : TRUE  BY <1>2
  <2>2. Sells(c) /\ call[c].pair = p /\ Sold(p) = call[c].filled
    BY <2>1 DEF Sells, Sold
  <2>3. call[c].amount \in Nat /\ call[c].filled \in Nat
    BY <1>0, <2>1, OrderFields DEF TypeOK
  <2>4. held[p] + call[c].filled >= call[c].amount + 0
    BY <2>2 DEF IInv, NothingIsOversold, Holds
  <2>5. CASE call[c].dropped
    <3>1. ~Leaves  BY <2>2, <2>5 DEF IInv, OneExit, Leaves
    <3>2. p = pair => held[p] + call[c].filled >= call[c].amount + position.size
      BY <2>2, <3>1 DEF IInv, PositionIsCovered, Holds
    <3> QED  BY <1>0, <2>2, <2>3, <2>4, <3>2
  <2>6. CASE ~call[c].dropped
    <3>1. position.size = call[c].amount  BY <2>2, <2>6 DEF IInv, OneExit
    <3> QED  BY <1>0, <2>2, <2>3, <2>4, <3>1
  <2> QED  BY <2>5, <2>6
<1> QED  BY <1>1, <1>2

\* Over entries that overlap, partial fills, refused and forgotten exits, kills and
\* switches between positions, the account holds what the scalper believes to hold
\* (scalper.ts:22).
THEOREM PositionBacked == ASSUME ScalperAssumption PROVE Spec => []PositionIsBacked
<1>1. Init => IInv  BY InitIInv
<1>2. IInv /\ [Next]_vars => IInv'  BY NextKeepsIInv
<1>3. IInv => PositionIsBacked  BY IInvBacksPosition
<1> QED  BY <1>1, <1>2, <1>3, PTL DEF Spec
=============================================================================
