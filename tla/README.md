# TLA+ model of the XRPL trading bot

The bot is one Node.js process. JavaScript runs to completion between two
`await`s, so nothing is ever torn in the middle of a statement; everything that
can go wrong between concurrent activities goes wrong *across an await*, and
what the process remembers can be lost *at any step*, by a kill or a crash. The
models take that as their grain: **one action is the code from one await to
the next**, with everything it does, and whatever awaits is a record with a
program counter. Nothing in the program cancels a promise, so a call that has
been overtaken still resumes, and the models let it.

Paths below are relative to `src/src/`, the TypeScript sources of the repository;
`tradingRuntime.ts:861` means that line of `runtime/tradingRuntime.ts`.

- [1 Inventory](#1-inventory): the parts of the system
- [2 Plan](#2-plan): modules, their order and their runs
- [3 Modules](#3-modules): how state and actions correspond to the code
- [4 Runs](#4-runs): what is checked, on which instance, under which fairness
- [5 Proofs](#5-proofs): what holds for every instance, and why
- [6 Where the code and its comments disagree](#6-where-the-code-and-its-comments-disagree)
- [7 What is not modelled](#7-what-is-not-modelled)

To check a run, `tlc -config MCPairSwitch.cfg MCPairSwitch`; to check the proofs
of a module, `tlapm PairSwitchProofs.tla`. `PROJECT.json` names the source lines
of every definition, the runs with their properties, and for every property a
mutated form of the code that violates it.

## 1 Inventory

How the parts are connected: the API routes and the CLI (`index.ts`) command the
**bot controller**; it asks the **runtime singleton** for the one **trading
runtime** and ticks it from an interval. A **tick** refreshes the order book over
the **shared connection**, asks the **gates** and the **risk engines**, and calls
the **strategies**, which place orders through the **offer executor**; that awaits
the XRPL node and reports failures to the risk engine and fills to the **exposure
tracker**, the **trade history** and the **markout scheduler**. A **pair switch**
can begin at any of the tick's awaits, because it comes from another HTTP request.

| Component | State | Operations | Hard behaviour | What makes it correct |
|---|---|---|---|---|
| Pair switch (`runtime/pairSwitchFsm`, `pairSwitchOrchestrator`, `setActivePair`) | phase, source and target pair, per-pair context, pending flag, runs in flight | switch, refuse, recover, complete | a switch interrupts a switch; the old run resumes; answers arrive for the old pair | never wedged; pair, context and announcement agree; execution frozen while switching |
| Tick (`tradingRuntime.tick`) | in-flight flag, order book, last verdicts | guard, refresh, gate, govern, strategies, finally | awaits between each guard and its use; verdicts of earlier ticks | one tick at a time; trades the pair of its book; trading resumes when all is well |
| Bot control (`ui/lib/botController`, `runtimeHooks`, `runtime/runtimeSingleton`, `start`, `kill`) | controller state, polling loop, current runtime, start promise, each runtime's state | run, pause, kill, read, the phases of a start | a kill during a start, a start that fails before or after its first await, reads that start the runtime | one runtime; RUNNING means ticked; failed runtimes are dropped; requests answered |
| Order flow (`execution/offerExecutor` submit path, `retryPolicy`) | calls in progress, idempotency window | place, retry, cancel | submit times out but the ledger executes; retries; two orders at once | never two live transactions of one order; the history says what is known, or that it is not |
| Risk engine (`risk/riskEngine`) | failure count, daily loss, emergency shutdown | register and reset failures, daily reset, reserve check, notional limit | counts from concurrent submissions, midnight in between | at the limit it stops and stays stopped |
| Execution gate, hard risk guard, capital protection (`execution/executionGate`, `risk/hardRiskGuard`, `risk/capitalProtection`) | last decision, cached metrics | evaluate | verdicts reused by later ticks, a cache that does not know its pair | no veto is lost, and none outlives its reason |
| Feed-stall recovery (`market/feedStallRecovery`) | stage, last events, cooldown | events, evaluate, recover | one quiet feed beside a live one | a feed that stays dead is rebuilt; a recovery is undone by events |
| Shared connection (`xrpl/sharedClient`, `xrpl/client`) | client, connection promise, endpoint failures and cooldowns, handlers | connect, rotate, disconnect, reconnect, subscribe | reconnection racing a deliberate disconnect; handlers on replaced clients | one promise that settles; events of the connected client are heard; everyone who needs a client has a live one |
| Exposure (`risk/exposureTracker`, `persistence/exposureStore`) | net position, SQLite rows | fill, pair change, load | late fills of the old pair, restart, failed writes | position equals the fills of the pair; the limit is passed by the orders under way and no more |
| Circuit breaker of path arbitrage (`strategies/pathArbitrage`, `persistence/breakerStore`) | losses in the window, trip time | check, record, trip, save, load | ticks that overlap, each with an await between check and order; debounced save and a crash | a trip holds for its cooldown, also after a restart; losses trip |
| Trade history (`analytics/tradeHistory`, `aws/s3TradeStore`, `analytics/accountTradeIngestion`) | trades by hash, one file, one S3 object, known hashes | record, merge, load, upload, ingest | torn files, uploads skipped, two writers of one trade | what is known of a trade is not taken back; the bot's trades are the bot's |
| Markouts (`analytics/tradeMarkoutScheduler`) | jobs, timers, a file | schedule, fire, retry, load | two files, kills before the timer | a fill has its markout or will have it |
| Scalper (`strategies/scalper`) | believed position, cooldown | enter, exit | unknown outcomes, partial fills, overlapping ticks, pair switches | what it believes to hold is held, so an exit sells what was bought |
| Other strategies, entry gate (`strategies/*`) | last ledger, cooldowns | tick | none of their own | — |
| Market data (`market/orderBookTracker`, `snapshotValidator`, `tradeTape`, `marketDataHealth`) | book, trade window, health signals | refresh, add trade, set pair, score | late answers, duplicates | the book is the pair's; a trade counts once |
| Order arithmetic (`execution/offerBuilder`, `orderSizing`, `depth*`, `minSizeGate`) | none | size, price, round | rounding at boundaries | amounts within limits |
| Feedback, statistics, observability, monitoring (`analytics/*`, `observability/*`) | SQLite, counters | record, query, emit | none of their own | — |
| Pair discovery, resolution and registry (`market/availabilityScanner`, `executionPairResolver`, `instrumentRegistry`) | SQLite tables, scan results | scan, resolve, look up | background scans beside a switch | a resolved pair is tradable |
| Market analysis (`market/flowMetrics`, `liquidityIntelligence`, `volatilityEstimator`, ...) | sample windows | sample, estimate | none of their own | — |
| Configuration, security, XRPL helpers, AWS secrets, UI, server, scripts | files, keys | load, check, render | none of their own | — |

The files of every row are in `PROJECT.json` (`components`), with the reason
where a part is left out or only partly modelled. The hazards of the
code, each at its line and with the properties that watch it, are there too
(`hazards`).

## 2 Plan

In this order, the behaviour that can lose money or stop the bot first.

| | Modules | Questions | State |
|---|---|---|---|
| 1 | `PairSwitch`, abstract `SwitchedPair`, `PairSwitchProofs` | Is the switch machine ever wedged? Do machine, context and pair agree? What can a tick trade across a switch? | checked, proved |
| 2 | `BotControl`, `BotControlProofs` | How many runtimes, who ticks them, is every request answered? | checked, proved |
| 3 | `OrderFlow`, `OrderFlowProofs` | Can an order execute twice? Is the history right? Does the kill switch hold? | checked, proved |
| 4 | `TradingTick`, `TradingTickProofs` | What do gate, guard, governance and stall recovery remember from tick to tick, and does trading resume? | checked, safety proved |
| 5 | `Connectivity`, `ConnectivityProofs` | Who is connected to what, after outages, rotations and recoveries? | checked, safety proved |
| 6 | `Exposure`, `Scalper`, `Breaker`, `TradeRecords`, `MCTradeMemory`, `ScalperProofs`, `TradeRecordsProofs`, `TradeMemoryProofs` | What does the bot remember of its trades, over switches, kills, crashes and failed writes? | checked, proved |

Every safety property that a run checks is a theorem now. What is left to prove is not an invariant
of a module but a relation between modules: that what `TradingTick` calls a
reconnection is what `Connectivity` does for it, and that the tick of `PairSwitch`
is the one of `TradingTick` seen from further away.

A composition worth having as well: the ticks of `PairSwitch` as the callers of
`OrderFlow`, which takes them to overlap without limit.

## 3 Modules

### PairSwitch, SwitchedPair

`setActivePair()` (`tradingRuntime.ts:2447`) changes the pair everywhere and
starts `executePairSwitch()`, whose asynchronous part goes on by itself.

| State | Code |
|---|---|
| `activePair` | `baseConfig.tradingPair` and every component `applyNewPair()` sets |
| `phase`, `sourcePair`, `targetPair` | `PairSwitchFsm` |
| `context` | `PairSwitchOrchestrator.context` without times |
| `switch` | `pairSwitchPending`, `SwitchId`, `TargetPairKey`, `LastError` |
| `run[r]` | an `executePairSwitch()` call: what it awaits, and for which pair it asked |
| `book` | whose offers `OrderBookTracker.state` holds |
| `connected` | `xrpl.isConnected()` |
| `tickInFlight`, `tick[t]` | the flag, and each `tick()` call: what it awaits, the book it works with |

The twelve phases of the machine are all there, but most are passed through
between two awaits: `SetActivePair` goes from READY to SUBSCRIBE_NEW_FEEDS in one
step, as the code does. A run that resumes advances the machine if
`CanAdvance` allows it, whosever machine it is by now, and otherwise throws into
the catch block (`FailRun`). Whether the switch began from READY or from a
machine that had to be reset makes no difference to the state afterwards, so
`SetActivePair` is one action; a key that is refused after that reset is
`RefuseActivePair`. Of the tick the module has every await up to the call of a
strategy. `BookAnswers` is a refresh: the offers of the pair that was asked for,
an empty book, or nothing. A microtask (the continuation of a promise already
resolved) runs before any other callback: `NoMicrotask`.

`SwitchedPair` is the promise to the rest of the program: the pair changes only
together with freezing, thawing leaves it alone, and execution does not stay
frozen.

### BotControl

| State | Code |
|---|---|
| `bot`, `loop` | `BotController.state` and `.loop` |
| `current`, `promise` | the globals `__xrplTradingBotRuntime` and `...StartPromise` |
| `phase[s]` | what the `start()` of runtime `s` awaits, or how it ended |
| `started[s]` | `TradingRuntime.started` |
| `fsm[s]` | `RuntimeFSM.currentState`; the operational states are one, `UP` |
| `req[r]` | an unanswered request and the runtime it waits for |

A start whose configuration is refused runs its catch and finally blocks *before*
the assignment of its promise; `BeginRejectedStart` stores the promise of a start
that has already failed. `StartResolves` and `StartRejects` settle the waiting
requests in the same step, since their continuations are microtasks. A status
poll that finds no runtime constructs one (`Poll`, `Placeholder`).

### OrderFlow

| State | Code |
|---|---|
| `call[c]` | a `placeOffer()` or `cancelOffer()` call: what it awaits, its intent, its attempt |
| `trade[o]` | the last status the trade history has of the order, and the outcome in its trace |
| `seen` | `recentIntentFingerprints` inside the window |
| `failures`, `shutdown` | `RiskEngine.consecutiveFailures`, `risk.emergencyShutdown` |
| `tx[c][a]`, `sequence` | the ledger: the transaction of each attempt, the account's next sequence |

The stages are those of `submitWithGuards`: `depth` (book, ledger index), the
idempotency guard, `autofill`, sanity checks, `sign`, `submit` (12 s), `validate`
(10 s of polling by hash), `backoff`. The ledger is external: it includes a
submitted transaction that has the next sequence number, with any result, or
drops it, at any time, also after the caller gave up. Orders come from ticks that
may overlap; a cancel comes from the orders API at any time and asks no risk
engine. A submit or a lookup that times out is recorded as REJECTED, and only the
trace says `timeout` (`SubmitFails`, `LookupExpires`). Amounts, prices and depth are reduced to the
choice of whether an order is withheld; fingerprints are model values. What the
bookkeeping of a fill that throws does to the history is in `TradeRecords`.

### TradingTick

One tick, from its start to the call of the strategies, and what it remembers.

| State | Code |
|---|---|
| `pc` | what `tick()` awaits: the book, a recovery, the sleep of THROTTLE, a strategy |
| `fsm` | `RuntimeFSM.currentState` once started |
| `truth` | the health score and the vetoes, as the data of this tick gives them |
| `halted` | `emergencyShutdown` of the risk engine's own configuration, and which of the two kinds of halt it is; a SHUTDOWN of capital protection does not reach it |
| `drawdown`, `metrics`, `cached`, `decision` | the rolling drawdown by pair, `cachedMetrics` with its age, `lastGovernanceDecision` |
| `stage`, `tapeQuiet`, `bookQuiet`, `cooling` | `FeedStallRecovery` |
| `seen` | history variable: the last tick that judged the data found it healthy |

`Judge` is one step because the code between the recovery and the strategies has
no await: gate with the state the tick found, health transition, hard risk
guard with the *last* decision, capital protection with the metrics, cached for
five seconds. RECOVERING does not occur: the tick asks `isRecovering()` before
and after an `evaluate()` that has ended its recovery by the time it returns.

### Connectivity

| State | Code |
|---|---|
| `failures`, `older`, `cooling` | the endpoint pool: `failures`, the order by `lastAttempt`, `cooldownUntil` |
| `client[c]` | an `xrpl.Client`: its endpoint; open, lost (the library reconnects it) or closed on purpose (it does not) |
| `shared`, `current`, `promise` | `sharedClient`, `currentEndpoint`, `connectPromise` |
| `dial[d]` | a `connectInternal()` and the endpoints it still has to try |
| `socket` | `XRPLWebSocket`: its client, `connected`, the client its handlers are on, failed requests, reconnects |
| `taped` | clients subscribed to the transactions stream |
| `todo`, `waits` | what the tick still has to do, and the attempt it awaits |

The tick runs a small program of operations (`establish`, `request`,
`subscribe`, `rotate`, ...), extended by what each failure makes it do:
`handleReconnect()` dials again, a third unanswered request in a row rotates away
from a zombie, a stalled feed reconnects, rotates or rebuilds. `Drop`, `Return`
and the end of an attempt run beside it. `disconnectXrplClient()` disconnects
while the client is still the shared one, so the handler of 'disconnected' dials
a connection whose promise is then forgotten: `CloseShared`.

### Exposure, Scalper, Breaker, TradeRecords

Four parts that remember what the bot did; none touches the state of another, and
`MCTradeMemory` runs each on its own.

| Module | State | Code |
|---|---|---|
| `Exposure` | `tracker[r]`, `row[p]` | the `ExposureTracker` of each runtime, `exposure_state` in SQLite |
| | `order[c]`, `held[p]` | the orders under way, of ticks that overlap, and what the account really bought less what it sold |
| `Scalper` | `position`, `call[c]` | `ScalperStrategy.position`, the `placeOffer()` calls its ticks await |
| `Breaker` | `breaker[i]`, `file` | the `CircuitBreaker` of each strategy object, the state `FileBreakerStore` reads, if there is a file that parses. Of the trades that were recorded at one time it keeps what they made together, which is all that the window and its sum tell apart |
| | `tick[k]` | the ticks past `isTripped()`: which strategy's, since when, and whether they await a path or already their order |
| | `defaults`, `breaker[i].shared` | the array of `DEFAULT_STATE`, which all default states share until a breaker filters its own; what one pushes meanwhile is found by the next |
| | `profit`, `lastTrip` | history variables: what the trades made, when a breaker last tripped |
| `TradeRecords` | `trades`, `loaded`, `file`, `cloud`, `upload` | `TradeHistoryService`, `data/trades.json`, the S3 object and `pendingUpload` |
| | `botHashes`, `jobs`, `timers`, `jobsFile` | the ingestion's hashes, the scheduler's jobs and their file |

In each, a kill drops the runtime and leaves what awaits under way, a crash
forgets everything but files and rows, and a write may fail. What the code does
*not* follow is marked by a history variable (`undisturbed`, `followed`,
`intact`, `lost`) at the step where it happens: a fill that is
reported in another size than it had, an order given up that executes, a switch with an order under
way, a kill inside the debounce. The properties are about the behaviours without
such a step, and the list of steps that set the variable is itself a statement of
what the code leaves open; what such steps lead to is `SoldWasBought`, and
described in section 6. Files are written as a whole and not
atomically: a crash in the middle of a write, or a write that fails, may leave one
that does not parse, and the load of a history that backfills its PnL is such a
write too.

`Exposure` asks the limit when an order is placed and lets up to `Overlap` of
them, of any size, execute and be recorded in any order. In `Breaker` the check,
the end of the path request and the end of the order are three steps of a tick,
`Check`, `PlaceOrder` and `Conclude`, and any number of ticks may be between them;
`TickTime` bounds how long one may be (requests of the client library and the
submit path have timeouts).

## 4 Runs

TLC explores every interleaving of each instance. The counts of `trade_memory`, which
has a symmetry set and a view, may vary a little from one execution to the next.

| Run | Instance | Distinct states | Shows |
|---|---|---|---|
| `pair_switch` | 2 pairs, and either 2 runs and a tick or 2 ticks and a run | 204,432 | `TypeOK`, `AnnouncedPair`, `ContextOfActivePair`, `NeverWedged`, `PendingIsInFlight`; `Refinement` of `SwitchedPair` with its fairness; `PendingEnds`, `LockIsReleased` |
| `bot_control` | 3 runtimes, 2 operators, 1 reader, or one operator alone | 209,851 | `TypeOK`, `FailedRuntimeIsNotCurrent`, `HaltedIsBeingKilled`, `StartedIsBooted`, `RequestsAreAnswered`; `OneRuntimeAlone`, `RunningIsTickedAlone` where commands come one at a time |
| `order_flow` | 2 orders of one intent, or an order and a cancel; 3 attempts, limit 2 | 135,919 | `TypeOK`, `OneAttemptIsLive`, `DoubtIsTraced`, `FailureLimitHalts`; `CallsReturn` |
| `tick` | 2 pairs, every silence up to the rebuild | 364,068 | `TypeOK`, `NotOnFirstHealthyTick`, `TradingResumes`, `SilenceIsRebuilt` |
| `connectivity` | 2 endpoints that go down, fall silent, refuse with 429 and return, 3 clients, 2 attempts, 2 changes of the network | 1,590,870 | `TypeOK`, `PromiseDials`, `EventsFollow`, `TapeReturns` |
| `trade_memory` | 2 pairs, 2 runtimes, 3 orders under way, of sizes 1 and 2, limit 2; 2 strategy objects, 2 ticks past the check, times 0 to 5; 2 ticks of the scalper; one order of the bot, one by hand | 852,689 | `AllTypeOK`; `OnePairPerPosition`, `PositionIsHeld`, `ExposureIsBounded`; `PositionIsBacked`; `TripHolds`, `LossTrips`; `StatusNeverFalls`, `CloudIsBehind`, `OwnOrdersAreBots`, `MarkoutIsKept` |
| six runs of one property each | as small as the counterexample allows | — | section 6 |

**Why the bounds are enough.** In `PairSwitch` a stale run can only be stale with
respect to *the newest* switch, so two runs show every way an overtaken one can
disturb another; ids are reused, so a behaviour has any number of switches. Two
pairs are the old and the new one. A tick writes nothing a run reads but the book and
the connection, which one tick changes like two, so the runs that overtake each other have one tick beside them; ticks that share
the in-flight flag have one run, which freezes and thaws the machine under either
(`overlap` says which of the two a behaviour has). In `BotControl` three runtimes are a killed
one, its successor, and the one an API read adds; the overlapping requests are
pairs. `alone` marks the behaviours in which one operator waits for each answer.
In `OrderFlow` two orders of the same intent, or an order and a cancel (`calls` says
which), are where a failure, a success and a retry of different calls
interleave; three attempts, as the code has by default, are a first, a middle and a
last one, and a limit of two is reached by different calls. `TradingTick` has no bound but the clock of
silences, which stops at the last stage. In `Connectivity` two endpoints are the
one in use and the other; a third client beside the executor's and the shared one
lets one be replaced while the old one is still referred to, two attempts are a
pending one and one that a deliberate disconnect starts beside it, and two
changes of the network are an outage and its end, anywhere in between; a client
nobody refers to is reused. In `TradeRecords` a transaction of the bot and one
by hand stand for all of either kind, since trades of different hashes share
only the file, the object and the timing of their writes. `Breaker` needs a
window, a cooldown that outlasts it by the time of a tick, and a second trip, which
five units of time give; two ticks past the check are one that trips the breaker and
one that is not stopped by it, and `MaxProfit` only bounds what they earn.
`Exposure` and `Scalper` have a runtime and its killed predecessor whose orders
are still under way. Three orders of up to two units (`Overlap`, `MaxTradeSize`) are
one more than reach the limit of two, so that fills can be partial, overlap, cancel
each other and pass it. `Scalper` has two ticks that may overlap, and `MaxHeld` admits two full
entries. The proofs of section 5 hold without these bounds.

Each part of `MCTradeMemory` is run on its own; `Parts` says which. `Exposure` is two
of them: `exposure`, which ends where `undisturbed` does, and `pairs`, which
goes on after it with two orders of one unit, for `OnePairPerPosition`, which excepts
nothing. `VIEW` identifies states the properties cannot tell apart: the properties of
a part that is no longer followed, and the tracker of a killed runtime without an
order, which is never used again. `SYMMETRY` and `VIEW` are used in `trade_memory` only,
which checks no liveness.

`CHECK_DEADLOCK FALSE` is said only of `OrderFlow`, whose calls are each made
once: it stops when all have returned.

**Fairness.** Weak fairness of the steps of a call that awaits: requests and
connections of the client library have timeouts, the tape
poll a deadline, `submit` and the hash lookup their limits
(`offerExecutor.ts:2946`), `disconnect()` settles. `TradingTick` adds that time
passes; `Connectivity` that the interval goes on ticking, that a 429 cools down,
that the library reconnects a lost client (its backoff is bounded), and strongly
that a tape that stays silent is recovered, which is what `SilenceIsRebuilt`
shows of `TradingTick`. Nobody owes the system a
switch, a command, a ledger that includes a transaction, data that is good or a
network that answers: the liveness properties assume these where they need them
(`TradingResumes`, `TapeReturns`). `SwitchedPair`
says that a frozen machine thaws. The detailed module implements it by the
fairness of its runs alone, even under a stream of switches that overtake each
other, because the end of *any* run thaws the machine: it completes it, or fails
it and recovers it in the microtask that follows.

## 5 Proofs

All obligations are discharged by TLAPS with Z3, Zenon and LS4, for every value
of the constants that satisfies the assumptions. TLC evaluates them on every run.

| Assumption | Says |
|---|---|
| `PairsAssumption`, `BotAssumption`, `OrderAssumption`, `TradingTickAssumption`, `ExposureAssumption`, `NoneIsNoOrder` | null values are not among the ids or orders, ids of different kinds are disjoint, limits are positive |
| `ConnectivityAssumption` | the same, and there are finitely many endpoints (they are parsed from a configuration), and always a client to use beside the one in use and the executor's, since the code constructs one with `new` whenever it needs it |
| `TradeMemoryAssumption` | `BreakerAssumption`, `TradeRecordsAssumption` and `ScalperAssumption`: windows, limits and sizes are numbers, null values are none of the objects |
| `Window + TickTime <= Cooldown`, of `LossesTrip` alone | the cooldown of the breaker outlasts its window by the time a tick may be past the check, as by default (600 s and 300 s, `pathArbitrage.ts:33`; a request has 20 s, an order half a minute); else a recovery forgets losses that are still in the window |
| `LoneOperator` | the operator who is alone is one of the operators |

No theorem assumes that TLC's bounds are small: sets of pairs, runs, requests,
orders, ticks, clients and attempts may be infinite, and `Overlap`, `MaxTime`,
`MaxChanges`, `MaxSize` and the like are any numbers.

**PairSwitchProofs.** `TypeCorrectness`, `NoWedge`, `PendingSafety`,
`PairAgreement`, `ContextAgreement` and `ImplementsSwitchedPair`. The inductive
invariant is the conjunction of the checked invariants themselves, and none of
them is inductive alone: that a stale run may drive the newest machine is harmless
to `NeverWedged` only because a frozen machine always belongs to a run that has not
returned, which in turn needs the type invariant's fact that a run never rests in a
phase it passes through. `ImplementsSwitchedPair` proves the safety part of the
refinement, `Spec => Abstract!Spec`: a step that changes the pair freezes, and a
step that thaws keeps it.

**BotControlProofs.** `TypeCorrectness`, `FailedRuntimeSafety`,
`NoRuntimeIsLeftHalted`, `StartedRuntimeIsBooted`, with whatever requests overlap.
The last one is not inductive: it needs `StartedAfterBoot`, that `started` is set
when the feeds are subscribed and not before, so a runtime reset by a kill in the
middle of its boot cannot count as started again. `OneRuntimeForOne` and
`RunningIsTickedForOne` are about one operator and no readers, the case in which the
two properties that section 6 refutes do hold. Their invariant, `Solo`, says
that a start or a kill in flight is always what that operator waits for
(`StartIsAwaited`, `KillIsOfCurrent`), so the finally block of a start can clear
the promise of no other, and that the assignments after the await of `kill()`
find the state that was tested before it (`BotIsStarted`, `LoopIsArmed`).

**OrderFlowProofs.** `TypeCorrectness`, `OneAttempt`, `DoubtTraced`
and `KillSwitchAtLimit` from one invariant, `CallInv`: earlier attempts of a call
were killed by the ledger, later ones do not exist, and the current one is where
the call's place says it is. A retry happens only from `backoff`, which is
reached only through a killed transaction; the ledger never revives one. What the
history records is related to the ledger only for orders that have returned, since a
retry replaces what the attempt before left; a trade that says REJECTED without a
timeout in its trace has nothing on its way to the ledger.

**TradingTickProofs.** `TypeCorrectness` and `FirstHealthyTickWaits`. The action
property relates three ticks' worth of state: the strategies are called on a
verdict of the gate, which asks for the state the *tick before* left, which was
left by a judgement of that tick's data. The invariant that joins them is
`ReadyIsSeen`: the machine is READY only if the last tick that judged its data
found it healthy. Ticks that return early, recoveries, halts and pair switches
leave the two sides alone together.

**ConnectivityProofs.** `TypeCorrectness`, `PromisesDial`, `EventsFollowTheClient`,
for any endpoints, clients and number of attempts. `PromiseDials` is inductive only
with the fact that an attempt always has an endpoint to try (`AvailableQueue`: the
pool is finite and falls back to one in cooldown, so the queue is never empty) and
that a forgotten attempt is not taken for a free one. `EventsFollow` needs
`SocketFollows`: the client the handlers are on and the client the socket uses are
the same whenever there are both, connected or not, because a lost client comes
back by itself and its event is then heard. The type invariant needs `TickGoesOn`,
that a tick that waits for an attempt has an operation left which awaits it.

**ScalperProofs, TradeRecordsProofs, TradeMemoryProofs.** The four parts of
`MCTradeMemory` have an invariant each. A lemma for each part says that a step of
the whole is one of its own or leaves it alone, so what is proved of a part is
proved of the run.

- *Exposure*: `PositionsAreOfOnePair`, `TrackedIsHeld`, `LimitBoundsHoldings`. A
  position agrees with the account only *together with the fills that are executed
  and not yet recorded* and with the rows of all other pairs, so `PositionIsHeld`
  counts them (`Unrecorded`). `OrderIsCurrent` says that while nothing is disturbed
  each order under way is the running runtime's and of its pair. The limit bounds
  what is held, and not only what is tracked, because of the former. Fills are
  recorded in any order and a sell may not fill at all, so the invariant
  (`PledgesAreBounded`) says that the position with all that the buys under way may
  yet add stays below the bound, and so does what the sells may take. The number of
  orders is any, and the sum over them a recursive function: its lemmas (`SumMoves`,
  `SumsCompare`, ...) go through the slots one at a time by `SetInduction`, which the
  module proves from the well-foundedness of finite sets.
- *Scalper*: `PositionBacked`. What the account holds of a pair must cover the
  position, or what the exit under way has left to sell of it, and what each entry
  under way has bought (`Holds`, `PositionIsCovered`, `EntriesAreCovered`). While
  `followed` holds there is one exit at a time and nothing else beside it (`OneExit`)
  unless a kill dropped it, and that one the invariant still counts: it goes on
  selling for a strategy that has forgotten it. The theorem ends where `followed`
  does, at the first exit beside another call or filled without being accepted, entry
  reported larger than it was filled, or switch while long: what the code claims
  without these exceptions is `SoldWasBought`, which section 6 refutes.
- *Breaker*: `TripsHold`, `LossesTrip`, with any number of ticks past the check. The
  last trip is known to the breaker of the running strategy or else to the file it
  will load (`TripIsKnown`); the file says what the breaker says unless a save is
  pending (`FileIsCurrent`), and while nothing is lost only the running strategy
  trades and saves (`OneAtWork`). What the trades of the window made is known in the
  same place (`TradesAreKnown`), which a recovery, the one step that forgets trades,
  keeps only because the ticks that had passed the check before the trip have ended
  `TickTime` after it (`TicksAreInTime`, `TripStops`), no other passes it meanwhile,
  and the window has then left behind what they traded. The sum
  that trips and the sum the property speaks of are of the same function of time, so
  nothing needs to be proved of sums.
- *TradeRecords*: `StatusIsKept`, `CloudStaysBehind`, `OwnOrdersStayBots`,
  `MarkoutsAreKept`. Memory, file, object in S3 and upload under way are ordered by
  `Covers` (no status falls, no markout is lost), and each operation keeps the
  order. The bot's transactions stay the bot's because the file knows of one
  *before* the ledger does (`SignedIsInFile`), which is why a process that has
  forgotten it finds it again before it ingests it. For markouts the two files are
  related: a job leaves its file only after its markout is in the history
  (`ScheduledIsInFile`, `ConcludedIsMarked`), and a timer is armed for every job but
  the one that fires (`TimersAreArmed`).

Four choices of the models are owed to the proofs. `PromiseDials` speaks of the
attempt the tick awaits as well as of the promise, as neither alone is inductive. The
order in which endpoints are tried is a relation, `older`, since the standard
`SortSeq` says nothing of ties. The stored state of a breaker has the type the
code's parser gives it, a torn file being the default, so that what is loaded is
never less than a breaker. And a breaker keeps its trades as what they made at each
time, not as a sequence, since what a filter and a fold give of a sequence takes an
induction over data.

**Only model-checked.** Everything under fairness (`Refinement`'s liveness part,
`PendingEnds`, `LockIsReleased`, `RequestsAreAnswered`, `CallsReturn`,
`TradingResumes`, `SilenceIsRebuilt`, `TapeReturns`), because the prover handles
neither liveness from fairness nor `ENABLED`. No module declares a RECURSIVE operator,
which the prover's SMT backend could not handle.

## 6 Where the code and its comments disagree

Each of these has a run that finds the counterexample.

- `NoDataMixing`: a book that was requested for the old pair is written over the
  new pair's (`orderBookTracker.ts:127`; `pairSwitchFsm.ts:4` "no data mixing").
- `OneRuntime`: the finally block of a start clears the promise of another
  (`runtimeSingleton.ts:235`; `runtimeHooks.ts:4` "single source of truth").
- `SignedOnceInWindow`: the fingerprint of an order is looked up before the autofill
  (`offerExecutor.ts:3218`) and remembered after it (`:3575`), the order of an
  overlapping tick in between.
- `SoldWasBought`: a switch of the pair while the scalper is long makes it sell of the
  new pair what it bought of the old one (`scalper.ts:67`; `:23` "we always sell exactly
  what we bought").
- `BlockIsLifted`: the hard risk guard returns before the decision it reads could
  be made anew (`tradingRuntime.ts:1289`; `capitalProtection.ts:337` "on every tick").
- `ExecutorIsServed`: the executor keeps the client of the start, which a recovery
  disconnects on purpose (`tradingRuntime.ts:524`; `riskEngine.ts:118` "will handle
  restoring the connection").

Met while reading or modelling, without a run of their own. The models have the
behaviour wherever they have the code, so that every passing run allows for it.

*Pair switch and tick*

- Ticks overlap: the in-flight guard is tested before an await and set after it
  (`tradingRuntime.ts:869`; `:861` "avoid overlapping ticks"), and the first of two
  ticks to end clears the flag of the other. `OrderFlow`, `Exposure`, `Scalper` and
  `Breaker` therefore let their orders and ticks overlap.
- SHUTDOWN sets the kill switch in a configuration of which the risk engine has its
  own clone (`tradingRuntime.ts:1348`; `:1347` "Mirror the shutdown state to
  RiskEngine"); only the last governance decision blocks.
- A tick past its gate calls a strategy after a switch has frozen execution
  (`pairSwitchFsm.ts:21` "ONLY allowed in the READY state"), also after the sleep
  of THROTTLE (`tradingRuntime.ts:1375`), on the verdict from before it.
- An overtaken run advances, fails or completes the machine of the newer switch
  (`tradingRuntime.ts:2461` "safe to interrupt").
- A switch that fails after the pair has changed is recovered to READY on the new
  pair; nothing is rolled back (`pairSwitchFsm.ts:250` speaks of a rollback). The
  rollback at `tradingRuntime.ts:2713-2733` is not reachable.
- `switchTimeoutMs` ("before force-failing", `pairSwitchOrchestrator.ts:93`) is
  never read.
- A live book beside a tape never heard counts as a stall
  (`feedStallRecovery.ts:143` takes the longer silence; the comment at `:120` says
  a live feed recovers), so a quiet market reconnects once per cooldown for ever.
- RECOVERING is unreachable (`tradingRuntime.ts:1146`): the recovery has ended when
  the tick asks.
- The metrics of capital protection are cached for five seconds whatever the pair
  key (`capitalProtection.ts:481`): the first ticks after a switch judge, and may
  shut down, the new pair by the old one's losses.

*Bot control*

- A configuration that is refused once is refused for ever: the promise of a start
  that threw before its first await is stored after it was cleared
  (`runtimeSingleton.ts:205`).
- With overlapping commands or an API read, `RunningIsTicked` fails too: `kill()`
  tests its state before the await and assigns after it (`botController.ts:122-130`).

*Orders and risk*

- A submit or a lookup that times out is recorded as REJECTED
  (`offerExecutor.ts:3777`, `:3992`), and the ledger may still execute the order;
  `tradeHistory.ts:1163` takes REJECTED for non-executions. Only the trace says
  timeout, which is what `DoubtIsTraced` promises.
- A cancel that succeeds after the failure limit was reached resets the count, and
  midnight then clears the kill switch (`riskEngine.ts:63-65`). Midnight clears
  the shutdown of the reserve check as well; the comment names only the daily loss. `recordLoss()` has no caller.
- The idempotency guard is off unless `FEATURE_AUDIT_GUARDS` is set.
- A submit that times out is recorded as needing reconciliation and nothing
  reconciles it; it does not count as a failure either. A retry that is under way
  goes on after the kill switch.
- Two submissions that overlap autofill the same sequence number; the loser counts
  towards the kill switch.
- At the notional limit intents of either side are refused (`riskEngine.ts:157`,
  `hardRiskGuard.ts:251`): the scalper's exit and its stop loss as well.

*Scalper*

- Besides switches, `SoldWasBought` fails where an entry is reported larger than it
  was filled, where an exit fills that was not accepted and is placed again, and where
  two ticks both sell the position. `PositionIsBacked` holds up to these.
- The stop loss is behind the gates of an entry: regime filter, risk approval, entry
  gate and the spread gate return before it, although `scalper.ts:529` says "stop-loss
  still allowed" of a wide spread; the stop of a market trending down
  (`:509`) is never reached while the regime filter is on, because that regime is not
  safe for it (`flowMetrics.ts:361`).
- A fill behind a timed-out entry leaves the strategy flat and the account long; one
  behind a timed-out exit leaves it long, and what was sold is sold again; an exit
  that filled in part leaves it flat with a rest nobody sells.

*Positions and records*

- A switch rehydrates the position of the new pair and then resets it
  (`tradingRuntime.ts:452`; `exposureTracker.ts:96` "then rehydrates"), so the limit
  admits as much again.
- A kill resets the tracker to a flat position and keeps its pair; the fill of an
  order still under way is then written over the row (`tradingRuntime.ts:2898`;
  `exposureStore.ts:4` "durable state").
- A tick that has passed `isTripped()` places its order after the loss of another has
  tripped the breaker (`pathArbitrage.ts:217`; `:87` "should halt trading");
  `TripHolds` is about the ticks that ask.
- `parsePartialFill()` adds up the Offer nodes of the executor's current pair
  (`offerExecutor.ts:2853`): a fill by an AMM pool, which `detectExecutionSource()`
  expects (`:2987`), or of the pair before a switch is seen in part or not at all,
  and a fill of which nothing is seen is taken for complete (`:2909`). The position,
  the scalper's size and the history then say more, or less, than was filled.
  Fills of paper trading move the same rows (`offerExecutor.ts:1341`). The tracker's key is the spelling of the configuration,
  that of a fill the canonical one: a currency configured in hexadecimal or lower
  case never counts.
- A trip within the debounce of its save is lost by a kill
  (`pathArbitrage.ts:78`). The breaker's key stays that of the pair the strategy was
  built with (`:176`). A store that is missing gives every breaker the one array of
  `DEFAULT_STATE` (`breakerStore.ts:130`), into which the first trade is pushed, so a
  later default load finds trades that are not its own.
- A torn `trades.json` drops every trade, those merged from S3 included, since
  `initFromCloud()` does not load the file first (`tradeHistory.ts:782`); the first
  save before that merge overwrites the object in S3. A save while an upload is
  pending is dropped, not queued (`s3TradeStore.ts:137`). The merge duplicates
  trades without a hash.
- The ingestion skips hashes the history knows: an order that executes after its
  timeout or after a crash stays REJECTED or PENDING
  (`accountTradeIngestion.ts:57`).
- A crash between the record of a fill and the scheduling of its markouts leaves the
  fill without any.
- `TradeTape.getRecent()` caches by length and last time (`tradeTape.ts:137`): in a
  quiet market the window never empties, and at its capacity a trade of the same
  millisecond is not seen. Its pair key has no issuer.

*Connection*

- The rotation away from a silent endpoint counts one failure
  (`sharedClient.ts:456`), which the next successful connection clears: the same
  endpoint may be dialled again and again (`client.ts:397`). The attempt of the
  handler of a deliberate disconnect may leave a second client connected that nobody
  refers to.
- The signal handlers that shut the runtime down are never effective: `main()` of
  `index.ts` ends the process first, and `stopRuntime()` and
  `shutdownRuntimeBridge()` have no caller. `server.js` closes only HTTP.

## 7 What is not modelled

- `shutdown()` of a runtime: no caller is reached, see above.
- Clients nobody refers to any more, the delays of reconnections, the Redis and
  memory stores of the breaker, paging and age limits of the history: named in
  `PROJECT.json` at their components.
- The outer catch block of `processJob()` (`tradeMarkoutScheduler.ts:342`), which drops
  the job: nothing it encloses throws while the history and its store catch their own
  errors.
- Floating-point arithmetic of prices, sizes, depth and indicators: no protocol,
  unbounded domains, unit tests. The modules take its outcome as a choice.
- The tape's window, the scores of market-data health, the background scanner and
  the pair registry: nothing the tick decides rests on their concurrency.
- Statistics over SQLite (`analytics/feedbackEngine`, `feedbackDb`, adaptive
  learner, execution quality), observability and monitoring: they only add rows and
  events; the metrics of capital protection are a choice of `TradingTick`.
- Configuration parsing, cryptography and request policies, AWS and file I/O,
  the React UI, scripts and deployment. `qualityGate.ts`, `repricePolicy.ts` and
  `trustlineGovernance.ts` have no caller in the program.

The map therefore covers a small share of the repository: the larger part of it
renders, measures or stores what the modelled part did.
