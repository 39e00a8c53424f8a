------------------------------- MODULE Scalper -------------------------------
(***************************************************************************)
(* The position of the scalper (scalper.ts): what the strategy believes to *)
(* hold, by the results of placeOffer(), and what the account really holds *)
(* by what the ledger filled.  The runtime calls the strategy from ticks   *)
(* that may overlap; a pair switch changes its pair and not its position;  *)
(* a kill drops the strategy, and the calls it awaits go on.               *)
(*                                                                         *)
(* Books, regimes, signals, sizing and gates are a choice of when to enter *)
(* and when to leave; prices are left out.  Bound: MaxHeld.                *)
(***************************************************************************)
EXTENDS Integers

CONSTANTS
    Pairs,
    Calls,   \* the ticks of the strategy that may be under way at a time
    MaxSize, \* the largest order the sizing gives
    MaxHeld, \* bound: no entry if it could take what is held beyond this
    None

VARIABLES
    pair,     \* ScalperStrategy.pair
    position, \* ScalperStrategy.position
    call,     \* the order each tick awaits, or None
    held,     \* what the account bought less what it sold, by pair
    followed  \* no exit has overlapped another call or filled without being accepted,
              \* no entry was reported too large, no switch came under a position or call

vars == <<pair, position, call, held, followed>>

Positions == [long : BOOLEAN, size : 0 .. MaxSize, cooling : BOOLEAN]
Flat(cooldown) == [long |-> FALSE, size |-> 0, cooling |-> cooldown]
Long(size) == [long |-> TRUE, size |-> size, cooling |-> FALSE]

Orders == [pair : Pairs, buy : BOOLEAN, stop : BOOLEAN, amount : 1 .. MaxSize,
           filled : 0 .. MaxSize, done : BOOLEAN, dropped : BOOLEAN]

ScalperAssumption ==
    /\ {MaxSize, MaxHeld} \subseteq Nat \ {0}
    /\ None \notin Pairs \cup Orders

\* Types only.
TypeOK ==
    /\ pair \in Pairs
    /\ position \in Positions
    /\ call \in [Calls -> Orders \cup {None}]
    /\ held \in [Pairs -> Int]
    /\ followed \in BOOLEAN

Init ==
    /\ pair \in Pairs
    /\ position = Flat(FALSE)
    /\ call = [c \in Calls |-> None]
    /\ held = [p \in Pairs |-> 0]
    /\ followed = TRUE

-----------------------------------------------------------------------------
(* The tick of the strategy                                                *)

Places(c, buy, stop, amount) ==
    call' = [call EXCEPT ![c] =
        [pair |-> pair, buy |-> buy, stop |-> stop, amount |-> amount,
         filled |-> 0, done |-> FALSE, dropped |-> FALSE]]

\* Flat, not cooling down, and every gate and filter lets a BUY pass.
Enter(c) ==
    /\ call[c] = None
    /\ ~position.long /\ ~position.cooling
    /\ \E amount \in 1 .. MaxSize :
           /\ held[pair] + amount <= MaxHeld
           /\ Places(c, TRUE, FALSE, amount)
    /\ UNCHANGED <<pair, position, held, followed>>

\* Mutated form: the exit takes a size computed afresh.
ExitSizesAfresh == 1 .. MaxSize

\* What the entry filled.
ExitSizes == {position.size}

\* Long, and the profit is taken or the loss stopped.
Exit(c) ==
    /\ call[c] = None
    /\ position.long
    /\ \E stop \in BOOLEAN, amount \in ExitSizes : Places(c, FALSE, stop, amount)
    /\ followed' = (followed /\ \A other \in Calls : call[other] = None)
    /\ UNCHANGED <<pair, position, held>>

\* cooldownUntil goes by.
CooldownEnds ==
    /\ position.cooling
    /\ position' = [position EXCEPT !.cooling = FALSE]
    /\ UNCHANGED <<pair, call, held, followed>>

Moved(o, n) == [held EXCEPT ![o.pair] = IF o.buy THEN @ + n ELSE @ - n]

\* The ledger executes the order, in part if it is IOC.
Execute(c) ==
    /\ call[c] # None
    /\ ~call[c].done
    /\ \E n \in 0 .. call[c].amount :
           /\ call' = [call EXCEPT ![c].done = TRUE, ![c].filled = n]
           /\ held' = Moved(call[c], n)
    /\ UNCHANGED <<pair, position, followed>>

\* The fill the executor answers with: what it sees of it, or all if it sees nothing.
ReportedSizes(o) == {IF seen = 0 THEN o.amount ELSE seen : seen \in 0 .. o.filled}

\* An entry is what was filled; an exit is complete, whatever was filled, and cools
\* down after a stop loss.
After(o, size) == IF o.buy THEN Long(size) ELSE Flat(o.stop)

\* placeOffer() returns accepted, of an order that has filled: IOC and FOK orders that
\* fill nothing are killed by the ledger.
Accepted(c) ==
    LET o == call[c]
    IN  /\ o # None
        /\ o.done
        /\ o.filled > 0
        /\ \E size \in ReportedSizes(o) :
               /\ position' = IF o.dropped THEN position ELSE After(o, size)
               /\ followed' = (followed /\ (o.buy => size <= o.filled))
        /\ call' = [call EXCEPT ![c] = None]
        /\ UNCHANGED <<pair, held>>

\* It is refused, throws or times out: the position stays, whatever the ledger does
\* with the order.
NotAccepted(c) ==
    LET o == call[c]
    IN  /\ o # None
        /\ \E n \in IF o.done THEN {o.filled} ELSE 0 .. o.amount :
               /\ held' = IF o.done THEN held ELSE Moved(o, n)
               /\ followed' = (followed /\ (o.buy \/ n = 0))
        /\ call' = [call EXCEPT ![c] = None]
        /\ UNCHANGED <<pair, position>>

-----------------------------------------------------------------------------
(* The runtime                                                             *)

\* applyNewPair(): the position, its entry price and its size stay.
SwitchPair ==
    /\ \E p \in Pairs \ {pair} : pair' = p
    /\ followed' = (followed /\ ~position.long /\ \A c \in Calls : call[c] = None)
    /\ UNCHANGED <<position, call, held>>

\* kill(), and the next start: a new strategy.
Restart ==
    /\ pair' \in Pairs
    /\ position' = Flat(FALSE)
    /\ call' = [c \in Calls |->
           IF call[c] = None THEN None ELSE [call[c] EXCEPT !.dropped = TRUE]]
    /\ UNCHANGED <<held, followed>>

Next ==
    \/ CooldownEnds \/ SwitchPair \/ Restart
    \/ \E c \in Calls :
           Enter(c) \/ Exit(c) \/ Execute(c) \/ Accepted(c) \/ NotAccepted(c)

Spec == Init /\ [][Next]_vars

-----------------------------------------------------------------------------
(* Properties                                                              *)

\* What the exit that is under way has sold of a pair.
Sold(p) ==
    LET exits == {c \in Calls : call[c] # None /\ call[c].pair = p /\ ~call[c].buy}
    IN  IF exits = {} THEN 0 ELSE call[CHOOSE c \in exits : TRUE].filled

\* As long as it is followed, the account holds what the strategy believes to hold,
\* over partial fills of both sides, entries that overlap, time out or outlive a kill,
\* and switches between positions (scalper.ts:457).  It is not followed from the first
\* exit on that begins beside another call or that fills without being accepted, entry
\* that is reported larger than it was filled, or switch of the pair while the position
\* is long or a call is under way.
PositionIsBacked ==
    followed => \A p \in Pairs :
        held[p] + Sold(p) >= IF p = pair THEN position.size ELSE 0

\* "so we always sell exactly what we bought" (scalper.ts:23): of no pair is more sold
\* than was bought.
SoldWasBought == \A p \in Pairs : held[p] >= 0
=============================================================================
