------------------------------ MODULE Exposure ------------------------------
(***************************************************************************)
(* The durable position of the bot: ExposureTracker                        *)
(* (exposureTracker.ts), its SQLite rows (exposureStore.ts), the notional  *)
(* limit of the risk engine that reads it (riskEngine.ts) and the calls    *)
(* the runtime and the executor make of it: start, pair switch, kill, an   *)
(* order from its approval to the recording of its fill.                   *)
(*                                                                         *)
(* Every runtime constructs a tracker; a kill leaves the orders that are   *)
(* under way with the tracker of the killed runtime.  Ticks that overlap   *)
(* place their orders beside each other.  A crash may come between any two *)
(* steps; the rows survive it.                                             *)
(*                                                                         *)
(* Sizes are whole numbers and the mid price is 1.  Bound: Overlap.        *)
(***************************************************************************)
EXTENDS Integers

CONSTANTS
    Pairs,
    Runtimes,     \* ids of the runtimes that still have a reference somewhere
    MaxTradeSize, \* the largest order the strategies ask for
    MaxExposure,  \* risk.maxExposurePerIssuer
    Overlap,      \* bound: the orders under way at a time
    None

ASSUME ExposureAssumption ==
    /\ MaxTradeSize \in Nat \ {0}
    /\ MaxExposure \in Nat \ {0}
    /\ Overlap \in Nat
    /\ None \notin Pairs \cup Runtimes

VARIABLES
    runtime,    \* the started runtime, or None
    tracker,    \* the ExposureTracker of each runtime
    order,      \* the orders under way, by slot, or None
    row,        \* exposure_state, by pair, or None
    held,       \* what the account really bought less what it sold, by pair
    undisturbed \* nothing has happened that the tracker does not follow

vars == <<runtime, tracker, order, row, held, undisturbed>>

\* A position: netPositionBase, and the pairs of the fills it adds up.
Positions == [net : Int, of : SUBSET Pairs]
Flat == [net |-> 0, of |-> {}]

Trackers == [pairKey : Pairs \cup {None}, position : Positions]
Slots == 1 .. Overlap

\* An order, with the runtime whose executor placed it.
Orders == [at : Runtimes, pair : Pairs, buy : BOOLEAN, amount : 1 .. MaxTradeSize,
           filled : 0 .. MaxTradeSize, executed : BOOLEAN]

ASSUME NoneIsNoOrder == None \notin Orders

Signed(buy, size) == IF buy THEN size ELSE 0 - size

Sum(f) ==
    LET upTo[c \in 0 .. Overlap] == IF c = 0 THEN 0 ELSE upTo[c - 1] + f[c]
    IN  upTo[Overlap]

Magnitude(n) == IF n < 0 THEN 0 - n ELSE n

\* Types only.
TypeOK ==
    /\ runtime \in Runtimes \cup {None}
    /\ tracker \in [Runtimes -> Trackers]
    /\ order \in [Slots -> Orders \cup {None}]
    /\ row \in [Pairs -> Positions \cup {None}]
    /\ held \in [Pairs -> Int]
    /\ undisturbed \in BOOLEAN

Init ==
    /\ runtime = None
    /\ tracker = [r \in Runtimes |-> [pairKey |-> None, position |-> Flat]]
    /\ order = [c \in Slots |-> None]
    /\ row = [p \in Pairs |-> None]
    /\ held = [p \in Pairs |-> 0]
    /\ undisturbed = TRUE

-----------------------------------------------------------------------------
(* ExposureTracker                                                         *)

Stored(p) == IF row[p] = None THEN Flat ELSE row[p]

\* reset(): everything but the pair key.
Reset(t) == [t EXCEPT !.position = Flat]

\* Mutated form: the tracker starts from nothing.
RehydrateNothing(t, readable) == t

\* rehydrate(): a row that is missing or cannot be read leaves the position.
Rehydrate(t, readable) ==
    IF readable /\ row[t.pairKey] # None
    THEN [t EXCEPT !.position = row[t.pairKey]]
    ELSE t

SetPairKey(t, p, readable) ==
    IF t.pairKey = p THEN t
    ELSE Rehydrate(Reset([t EXCEPT !.pairKey = p]), readable)

Add(position, p, n) == [net |-> position.net + n, of |-> position.of \cup {p}]

\* Mutated form: without the cross-pair guard.
CountEveryFill(t, p, n) == [t EXCEPT !.position = Add(@, p, n)]

\* recordFill(), in memory: a fill of another pair is ignored.
CountFill(t, p, n) == IF p # t.pairKey THEN t ELSE CountEveryFill(t, p, n)

\* Mutated form: the risk engine does not look at the exposure.
ApprovedBlindly(t) == TRUE

\* approveIntent(): no intent, of either side, once the limit is reached.
Approved(t) == Magnitude(t.position.net) < MaxExposure

-----------------------------------------------------------------------------
(* The runtime and the executor                                            *)

Idle == \A c \in Slots : order[c] = None

\* The row of the pair says what the tracker does.
Persisted(t) == t.pairKey = None \/ Stored(t.pairKey).net = t.position.net

\* A new runtime, with the configured pair: a new tracker rehydrates.
Start(r) ==
    /\ runtime = None
    /\ \A c \in Slots : order[c] # None => order[c].at # r
    /\ \E p \in Pairs, readable \in BOOLEAN :
           /\ tracker' = [tracker EXCEPT ![r] =
                  SetPairKey([pairKey |-> None, position |-> Flat], p, readable)]
           /\ undisturbed' = (undisturbed /\ (readable \/ Stored(p).net = 0))
    /\ runtime' = r
    /\ UNCHANGED <<order, row, held>>

\* setActivePair(): applyNewPair() sets the pair key, which rehydrates, and then
\* invalidateMarketCaches() resets the tracker.
SetActivePair(p, readable) ==
    /\ runtime # None
    /\ p # tracker[runtime].pairKey
    /\ tracker' = [tracker EXCEPT ![runtime] = Reset(SetPairKey(@, p, readable))]
    /\ undisturbed' = (/\ undisturbed
                       /\ Persisted(tracker[runtime])
                       /\ Idle
                       /\ held[p] = 0)
    /\ UNCHANGED <<runtime, order, row, held>>

\* kill() drops the runtime and resets its tracker, not its pair key; the
\* orders that are under way go on.
Kill ==
    /\ runtime # None
    /\ tracker' = [tracker EXCEPT ![runtime] = Reset(@)]
    /\ undisturbed' = (undisturbed /\ Persisted(tracker[runtime]) /\ Idle)
    /\ runtime' = None
    /\ UNCHANGED <<order, row, held>>

\* A tick places an order of the active pair that the risk engine approves, whatever
\* the orders of other ticks under way may yet fill.
Place(c) ==
    /\ runtime # None
    /\ order[c] = None
    /\ Approved(tracker[runtime])
    /\ \E buy \in BOOLEAN, amount \in 1 .. MaxTradeSize :
           /\ order' = [order EXCEPT ![c] =
                  [at |-> runtime, pair |-> tracker[runtime].pairKey, buy |-> buy,
                   amount |-> amount, filled |-> 0, executed |-> FALSE]]
    /\ UNCHANGED <<runtime, tracker, row, held, undisturbed>>

\* The ledger validates the order, which fills all, some or nothing of it.
Execute(c) ==
    /\ order[c] # None
    /\ ~order[c].executed
    /\ \E n \in 0 .. order[c].amount :
           /\ order' = [order EXCEPT ![c].executed = TRUE, ![c].filled = n]
           /\ held' = [held EXCEPT ![order[c].pair] = @ + Signed(order[c].buy, n)]
    /\ UNCHANGED <<runtime, tracker, row, undisturbed>>

\* parsePartialFill(): the part that offers of the executor's pair filled.  What an
\* AMM pool filled, or the pair of a switch meanwhile does not match, is not seen,
\* and a fill of which nothing is seen counts as complete.
RecordedSizes(o) == {IF seen = 0 THEN o.amount ELSE seen : seen \in 0 .. o.filled}

SavedRow(t) == [row EXCEPT ![t.pairKey] = t.position]

\* recordFill() of a validated order: counts it in the tracker of the executor
\* that placed it and writes the row, unless the fill is of another pair or the
\* transaction of the store fails, which is logged.
Record(c, saved) ==
    LET o == order[c]
    IN  /\ o # None
        /\ o.executed
        /\ \E size \in RecordedSizes(o) :
               LET counted == CountFill(tracker[o.at], o.pair, Signed(o.buy, size))
               IN  /\ tracker' = [tracker EXCEPT ![o.at] = counted]
                   /\ row' = IF saved /\ counted # tracker[o.at] THEN SavedRow(counted) ELSE row
                   /\ undisturbed' = (undisturbed /\ size = o.filled)
        /\ order' = [order EXCEPT ![c] = None]
        /\ UNCHANGED <<runtime, held>>

\* What an order that is forgotten may have done by the time it is final.
Forgotten(o, n) ==
    IF o.executed THEN n = o.filled ELSE n \in 0 .. o.amount

\* The submission times out, is refused or throws: no fill is recorded, whatever
\* the ledger does with the transaction.
GiveUp(c) ==
    /\ order[c] # None
    /\ \E n \in 0 .. order[c].amount :
           /\ Forgotten(order[c], n)
           /\ held' = IF order[c].executed THEN held
                      ELSE [held EXCEPT ![order[c].pair] = @ + Signed(order[c].buy, n)]
           /\ undisturbed' = (undisturbed /\ n = 0)
    /\ order' = [order EXCEPT ![c] = None]
    /\ UNCHANGED <<runtime, tracker, row>>

\* The process dies.  Its orders become final without it: one crash with
\* orders under way is GiveUp() of each and then the crash.
Crash ==
    /\ runtime # None
    /\ Idle
    /\ runtime' = None
    /\ tracker' = [r \in Runtimes |-> [pairKey |-> None, position |-> Flat]]
    /\ undisturbed' = (undisturbed /\ Persisted(tracker[runtime]))
    /\ UNCHANGED <<order, row, held>>

Next ==
    \/ Kill \/ Crash
    \/ \E p \in Pairs, readable \in BOOLEAN : SetActivePair(p, readable)
    \/ \E r \in Runtimes : Start(r)
    \/ \E c \in Slots :
           \/ Place(c) \/ Execute(c) \/ GiveUp(c)
           \/ \E saved \in BOOLEAN : Record(c, saved)

Spec == Init /\ [][Next]_vars

-----------------------------------------------------------------------------
(* Properties                                                              *)

\* A position, in memory or in the store, adds up the fills of its own pair only,
\* through late fills, switches, kills and restarts (exposureTracker.ts:137).
OnePairPerPosition ==
    /\ \A r \in Runtimes : tracker[r].position.of \subseteq {tracker[r].pairKey}
    /\ \A p \in Pairs : Stored(p).of \subseteq {p}

\* What the orders of a pair have filled and nobody recorded yet.
Unrecorded(p) ==
    Sum([c \in Slots |-> IF order[c] # None /\ order[c].pair = p
                         THEN Signed(order[c].buy, order[c].filled) ELSE 0])

\* Until something happens that the tracker does not follow (a fill it is not told
\* of, or not in its size; an order under way, or a row that is behind, at a kill, a
\* crash or a switch; a row that cannot be read; a switch to a pair that is held),
\* what ticks that overlap record in any order adds up: the position, and after a
\* kill or a crash the row, is what the account holds; failed writes heal with the
\* next fill (exposureTracker.ts:163, :253).
PositionIsHeld ==
    undisturbed =>
        /\ runtime # None =>
               LET p == tracker[runtime].pairKey
               IN  tracker[runtime].position.net + Unrecorded(p) = held[p]
        /\ \A p \in Pairs :
               runtime = None \/ tracker[runtime].pairKey # p => Stored(p).net = held[p]

\* Until then what the account holds exceeds the notional limit by the size of as
\* many orders as there are under way at a time: each tick is asked about the
\* position, and none about the orders of the others (riskEngine.ts:157).
ExposureIsBounded ==
    undisturbed => \A p \in Pairs : Magnitude(held[p]) < MaxExposure + Overlap * MaxTradeSize
=============================================================================
