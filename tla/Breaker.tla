------------------------------ MODULE Breaker ------------------------------
(***************************************************************************)
(* The circuit breaker of the path arbitrage strategy and its store        *)
(* (pathArbitrage.ts, breakerStore.ts): trades are recorded in memory, the *)
(* breaker trips on the losses of a window and recovers after a cooldown,  *)
(* and its state is saved behind a debounce timer, to be loaded by the     *)
(* strategy of the next runtime or process.  The ticks of a strategy may   *)
(* overlap: each asks the breaker, awaits a path and then awaits its       *)
(* order.  Of the trades that are recorded at one time only what they made *)
(* together is kept.                                                       *)
(*                                                                         *)
(* The unit of time is longer than the debounce: a timer that is armed     *)
(* fires before the time is over.  One pair.  Bounds: MaxTime, |Ticks|,    *)
(* MaxProfit.                                                              *)
(***************************************************************************)
EXTENDS Integers, FiniteSetsExt

CONSTANTS
    Instances, \* strategies that still have a timer or a reference
    Ticks,     \* bound: the ticks past the check at a time
    TickTime,  \* the longest that a tick awaits its path and its order
    Window,    \* PATH_ARB_CIRCUIT_BREAKER_WINDOW_MS
    Cooldown,  \* PATH_ARB_CIRCUIT_BREAKER_COOLDOWN_MS
    MaxLoss,   \* PATH_ARB_CIRCUIT_BREAKER_MAX_LOSS_BPS
    Edge,      \* the edge of every trade
    MaxProfit, \* bound: what the trades of one time make
    MaxTime,   \* bound: the clock stops
    None

VARIABLES
    now,
    strategy,   \* the strategy of the running runtime, or None
    breaker,    \* the CircuitBreaker of each strategy
    tick,       \* the ticks past the check, which await a path or an order, or None
    file,       \* the stored state, or None if there is none that can be parsed
    defaults,   \* DEFAULT_STATE.trades, the one array all default states share
    profit,     \* what the trades begun at each time made
    lastTrip,   \* when a breaker last tripped, or None
    intact      \* no load, save, kill or crash has lost anything yet

vars == <<now, strategy, breaker, tick, file, defaults, profit, lastTrip, intact>>

Times == 0 .. MaxTime
Trades == [Times -> Int]
NoTrades == [t \in Times |-> 0]
States == [trades : Trades, trippedAt : Times \cup {None}]
Default == [trades |-> NoTrades, trippedAt |-> None]
New == [loaded |-> FALSE, saving |-> FALSE, shared |-> FALSE,
        trades |-> NoTrades, trippedAt |-> None]
TickStates == [at : Instances, since : Times, ordering : BOOLEAN]

\* Of the constants.
BreakerAssumption ==
    /\ {Window, Cooldown, TickTime, Edge, MaxTime} \subseteq Nat \ {0}
    /\ {MaxLoss, MaxProfit} \subseteq Nat
    /\ None \notin Instances \cup Int \cup States \cup TickStates

\* Types only.
TypeOK ==
    /\ now \in Times
    /\ strategy \in Instances \cup {None}
    /\ \A i \in Instances :
           /\ {breaker[i].loaded, breaker[i].saving, breaker[i].shared} \subseteq BOOLEAN
           /\ breaker[i].trades \in Trades
           /\ breaker[i].trippedAt \in Times \cup {None}
    /\ tick \in [Ticks -> TickStates \cup {None}]
    /\ file \in States \cup {None}
    /\ {defaults, profit} \subseteq Trades
    /\ lastTrip \in Times \cup {None}
    /\ intact \in BOOLEAN

Init ==
    /\ now = 0
    /\ strategy = None
    /\ breaker = [i \in Instances |-> New]
    /\ tick = [k \in Ticks |-> None]
    /\ file = None
    /\ defaults = NoTrades
    /\ profit = NoTrades
    /\ lastTrip = None
    /\ intact = TRUE

-----------------------------------------------------------------------------
(* The breaker                                                             *)

InWindow(trades) == [t \in Times |-> IF t >= now - Window THEN trades[t] ELSE 0]

Trips(trades) == MapThenSumSet(LAMBDA t : trades[t], Times) < 0 - MaxLoss

\* Mutated form: a trip ends when its trades have left the window.
CooledWithWindow(b) == b.trippedAt # None /\ InWindow(b.trades) = NoTrades

Cooled(b) == b.trippedAt # None /\ now - b.trippedAt > Cooldown

\* isTripped() of a breaker whose cooldown is over.
Recovered(b) ==
    [loaded |-> b.loaded, saving |-> TRUE, shared |-> FALSE,
     trades |-> NoTrades, trippedAt |-> None]

\* Mutated form: only a trip is saved.
SavesTrip(trips) == trips

\* recordTrade() saves every trade.
Saves(trips) == TRUE

\* The array with the trade that recordTrade() pushes.
Pushed(trades, pnl) == [trades EXCEPT ![now] = @ + pnl]

\* recordTrade(): the trades of the window become an array of the breaker's own.
Recorded(b, pnl) ==
    LET trades == InWindow(Pushed(b.trades, pnl))
    IN  [loaded |-> b.loaded,
         saving |-> b.saving \/ Saves(Trips(trades)),
         shared |-> FALSE,
         trades |-> trades,
         trippedAt |-> IF Trips(trades) THEN now ELSE b.trippedAt]

-----------------------------------------------------------------------------
(* The strategy, its runtime and the process                               *)

Start(i) ==
    /\ strategy = None
    /\ ~breaker[i].saving
    /\ \A k \in Ticks : tick[k] # None => tick[k].at # i
    /\ strategy' = i
    /\ breaker' = [breaker EXCEPT ![i] = New]
    /\ UNCHANGED <<now, tick, file, defaults, profit, lastTrip, intact>>

Stored == IF file = None THEN Default ELSE file

\* initialize(), at the first tick: a store that is missing or cannot be read gives a
\* copy of the default, with its array of trades.
Load(i) ==
    /\ strategy = i
    /\ ~breaker[i].loaded
    /\ \E found \in {FALSE, file # None} :
           LET state == IF found THEN file ELSE [trades |-> defaults, trippedAt |-> None]
           IN  /\ breaker' = [breaker EXCEPT ![i] =
                      [loaded |-> TRUE, saving |-> @.saving, shared |-> ~found,
                       trades |-> state.trades, trippedAt |-> state.trippedAt]]
               /\ intact' = (intact /\ state = Stored)
    /\ UNCHANGED <<now, strategy, tick, file, defaults, profit, lastTrip>>

MayTrade(b) == b.trippedAt = None \/ Cooled(b)

\* A tick asks the breaker: it ends there, or goes on to await a path.
Check(k) ==
    /\ strategy # None
    /\ breaker[strategy].loaded
    /\ tick[k] = None
    /\ breaker' = [breaker EXCEPT ![strategy] = IF Cooled(@) THEN Recovered(@) ELSE @]
    /\ \/ tick' = tick
       \/ /\ MayTrade(breaker[strategy])
          /\ tick' = [tick EXCEPT ![k] = [at |-> strategy, since |-> now, ordering |-> FALSE]]
    /\ UNCHANGED <<now, strategy, file, defaults, profit, lastTrip, intact>>

\* The path has an edge: the tick places its order, and does not ask the breaker again.
PlaceOrder(k) ==
    /\ tick[k] # None
    /\ ~tick[k].ordering
    /\ tick' = [tick EXCEPT ![k].ordering = TRUE]
    /\ UNCHANGED <<now, strategy, breaker, file, defaults, profit, lastTrip, intact>>

\* The breakers whose trades are the array that the breaker of strategy i pushes to.
Aliased(i) == {j \in Instances : j # i /\ breaker[i].shared /\ breaker[j].shared}

\* placeOffer() returns: an accepted trade records its edge, an error the loss of
\* it.
Conclude(k) ==
    /\ tick[k] # None
    /\ tick[k].ordering
    /\ \E pnl \in {Edge, 0 - Edge} :
           LET i == tick[k].at
               pushed == Pushed(breaker[i].trades, pnl)
           IN  /\ profit[now] + pnl <= MaxProfit
               /\ breaker' = [j \in Instances |->
                      IF j = i THEN Recorded(breaker[i], pnl)
                      ELSE IF j \in Aliased(i) THEN [breaker[j] EXCEPT !.trades = pushed]
                      ELSE breaker[j]]
               /\ defaults' = IF breaker[i].shared THEN pushed ELSE defaults
               /\ profit' = Pushed(profit, pnl)
               /\ lastTrip' = IF Trips(breaker'[i].trades) THEN now ELSE lastTrip
    /\ tick' = [tick EXCEPT ![k] = None]
    /\ UNCHANGED <<now, strategy, file, intact>>

\* There is no path with an edge, its request throws, or placeOffer() does not accept:
\* nothing is recorded.
Reject(k) ==
    /\ tick[k] # None
    /\ tick' = [tick EXCEPT ![k] = None]
    /\ UNCHANGED <<now, strategy, breaker, file, defaults, profit, lastTrip, intact>>

\* The debounce timer, of a strategy that may be gone; a write that fails is logged,
\* and may leave a file that does not parse.
Save(i) ==
    /\ breaker[i].saving
    /\ breaker' = [breaker EXCEPT ![i].saving = FALSE]
    /\ \/ /\ file' = [trades |-> breaker[i].trades, trippedAt |-> breaker[i].trippedAt]
          /\ intact' = intact
       \/ file' \in {file, None} /\ intact' = FALSE
    /\ UNCHANGED <<now, strategy, tick, defaults, profit, lastTrip>>

Quiet == \A k \in Ticks : tick[k] = None

\* kill() drops the strategy; neither its timer nor its ticks are cancelled.
Kill ==
    /\ strategy # None
    /\ intact' = (intact /\ Quiet /\ ~breaker[strategy].saving)
    /\ strategy' = None
    /\ UNCHANGED <<now, breaker, tick, file, defaults, profit, lastTrip>>

\* The process dies, perhaps in the middle of writeFileSync().
Crash ==
    /\ strategy' = None
    /\ breaker' = [i \in Instances |-> New]
    /\ tick' = [k \in Ticks |-> None]
    /\ defaults' = NoTrades
    /\ \/ file' = file
       \/ file' = None /\ \E i \in Instances : breaker[i].saving
    /\ intact' = (intact /\ Quiet /\ \A i \in Instances : ~breaker[i].saving)
    /\ UNCHANGED <<now, profit, lastTrip>>

Pass ==
    /\ now < MaxTime
    /\ \A i \in Instances : ~breaker[i].saving
    /\ \A k \in Ticks : tick[k] # None => now < tick[k].since + TickTime
    /\ now' = now + 1
    /\ UNCHANGED <<strategy, breaker, tick, file, defaults, profit, lastTrip, intact>>

Next ==
    \/ Kill \/ Crash \/ Pass
    \/ \E i \in Instances : Start(i) \/ Load(i) \/ Save(i)
    \/ \E k \in Ticks : Check(k) \/ PlaceOrder(k) \/ Conclude(k) \/ Reject(k)

Spec == Init /\ [][Next]_vars

-----------------------------------------------------------------------------
(* Properties                                                              *)

\* A trip holds for the whole cooldown: no tick passes the check meanwhile, through
\* kills, crashes and reloads and whatever the ticks record that were past it, as long
\* as no state was lost on the way (pathArbitrage.ts:87, breakerStore.ts:1).
TripHolds ==
    [][ \A k \in Ticks :
            intact' /\ lastTrip # None /\ tick[k] = None /\ tick'[k] # None
            => now - lastTrip > Cooldown ]_vars

\* A trade that takes the losses of the window past the limit trips the breaker,
\* whichever tick, strategy or process recorded the others, as long as no state was
\* lost and the cooldown outlasts the window by the time of a tick, as it does by
\* default (pathArbitrage.ts:110, :34).
LossTrips ==
    [][ intact' /\ profit' # profit /\ Trips(InWindow(profit)') => lastTrip' = now ]_vars
=============================================================================
