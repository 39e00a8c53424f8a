----------------------------- MODULE TradingTick -----------------------------
(***************************************************************************)
(* What one tick of the runtime decides before it calls the strategies     *)
(* (tradingRuntime.ts:839-1597): the refresh of the book, the feed-stall   *)
(* recovery (feedStallRecovery.ts), the execution gate (executionGate.ts), *)
(* the health transitions of the runtime state machine, the hard risk      *)
(* guard (hardRiskGuard.ts) and capital protection (capitalProtection.ts), *)
(* with what each of them remembers from the ticks before.                 *)
(*                                                                         *)
(* Ticks do not overlap here (PairSwitch has that case), and a pair switch *)
(* is one step.  A tick that returns before it refreshes the book          *)
(* (disconnected, CPU, reserves) changes nothing and is left out.  Silence *)
(* is counted in steps of the stage thresholds.  The drawdown limits of    *)
(* the hard risk guard and of capital protection are taken as one.         *)
(* RECOVERING is left out of the state machine: the tick compares          *)
(* isRecovering() before and after an evaluate() that has ended the        *)
(* recovery when it returns, so it never sees one.                         *)
(***************************************************************************)
EXTENDS Integers

CONSTANTS
    Pairs,
    InitialPair,
    None

ASSUME TradingTickAssumption == InitialPair \in Pairs /\ None \notin Pairs

VARIABLES
    pair,       \* baseConfig.tradingPair
    pc,         \* where the tick is: idle, refresh, recovery, judge, cooldown, strategies
    fsm,        \* the runtime state machine, once the runtime has started
    truth,      \* what the market data shows: good, unhealthy (score below the
                \* minimum), vetoed (healthy, but invalid, stale or disconnected)
    seen,       \* the last tick that judged the data found it healthy
    halted,     \* RiskEngine.risk.emergencyShutdown: no, loss, or failures (the count at its limit)
    drawdown,   \* the rolling drawdown of each pair: fine, breach, extreme
    metrics,    \* CapitalProtectionEngine.cachedMetrics, or None
    cached,     \* they are younger than metricsCacheTtlMs
    decision,   \* the drawdown of lastGovernanceDecision, or None
    stage,      \* FeedStallRecovery.stage
    tapeQuiet,  \* silence of the tape, in stages; Never if it was never heard
    bookQuiet,  \* silence of the book
    cooling     \* lastRecoveryAttemptMs is within cooldownMs

riskVars == <<halted, drawdown, metrics, cached, decision>>
feedVars == <<stage, tapeQuiet, bookQuiet, cooling>>
vars == <<pair, pc, fsm, truth, seen, riskVars, feedVars>>

Stages == 0 .. 3
Never == 4
Silences == Stages \cup {Never}
Drawdowns == {"fine", "breach", "extreme"}
Truths == {"good", "unhealthy", "vetoed"}

\* Types only.
TypeOK ==
    /\ pair \in Pairs
    /\ pc \in {"idle", "refresh", "recovery", "judge", "cooldown", "strategies"}
    /\ fsm \in {"WARMING_MARKET_CACHE", "READY", "DEGRADED"}
    /\ truth \in Truths
    /\ seen \in BOOLEAN
    /\ halted \in {"no", "loss", "failures"}
    /\ drawdown \in [Pairs -> Drawdowns]
    /\ {metrics, decision} \subseteq Drawdowns \cup {None}
    /\ cached \in BOOLEAN
    /\ stage \in Stages
    /\ {tapeQuiet, bookQuiet} \subseteq Silences
    /\ cooling \in BOOLEAN

Init ==
    /\ pair = InitialPair
    /\ pc = "idle"
    /\ fsm = "WARMING_MARKET_CACHE"
    /\ truth = "unhealthy"
    /\ seen = FALSE
    /\ halted = "no"
    /\ drawdown = [p \in Pairs |-> "fine"]
    /\ metrics = None
    /\ cached = FALSE
    /\ decision = None
    /\ stage = 0
    /\ tapeQuiet = Never
    /\ bookQuiet = Never
    /\ cooling = FALSE

-----------------------------------------------------------------------------
(* The world                                                               *)

Longer(silence) == IF silence < 3 THEN silence + 1 ELSE silence

\* A step of the stage thresholds goes by without events.
Pass ==
    /\ tapeQuiet' = Longer(tapeQuiet)
    /\ bookQuiet' = Longer(bookQuiet)
    /\ cooling' = FALSE
    /\ cached' = FALSE
    /\ UNCHANGED <<pair, pc, fsm, truth, seen, halted, drawdown, metrics, decision, stage>>

\* Fills, of the strategies or by hand, move the rolling drawdown of a pair.
DrawdownChanges ==
    /\ \E p \in Pairs, d \in Drawdowns : drawdown' = [drawdown EXCEPT ![p] = d]
    /\ UNCHANGED <<pair, pc, fsm, truth, seen, halted, metrics, cached, decision, feedVars>>

\* The risk engine throws the kill switch (OrderFlow has how).
Halt ==
    /\ halted' \in {"loss", "failures"}
    /\ UNCHANGED <<pair, pc, fsm, truth, seen, drawdown, metrics, cached, decision, feedVars>>

\* setActivePair(): lastGovernanceDecision, the cached metrics, the stall state and
\* the state machine are not among what it resets.
SwitchPair ==
    /\ \E p \in Pairs \ {pair} : pair' = p
    /\ UNCHANGED <<pc, fsm, truth, seen, riskVars, feedVars>>

\* tryResetToHealthy(): either feed is alive.
Alive(tape, book) == tape < 1 \/ book < 1

\* Any transaction of the stream.
TapeEvent ==
    /\ tapeQuiet' = 0
    /\ stage' = IF Alive(0, bookQuiet) THEN 0 ELSE stage
    /\ UNCHANGED <<pair, pc, fsm, truth, seen, riskVars, bookQuiet, cooling>>

-----------------------------------------------------------------------------
(* The tick                                                                *)

\* checkAndResetDaily(): a halt for consecutive failures stays.
Cleared(h) == IF h = "loss" THEN "no" ELSE h

\* To the await of the book.
StartTick ==
    /\ pc = "idle"
    /\ \E midnight \in BOOLEAN :
           LET h == IF midnight THEN Cleared(halted) ELSE halted
           IN  /\ halted' = h
               /\ pc' = IF h = "no" THEN "refresh" ELSE "idle"
    /\ UNCHANGED <<pair, fsm, truth, seen, drawdown, metrics, cached, decision, feedVars>>

Silence(tape, book) == IF tape > book THEN tape ELSE book

\* classifyStage(): a feed that was never heard is silent for ever.
Classified(silence) == IF silence = Never THEN 3 ELSE silence

\* Mutated form: the stage of the first attempt is kept until the feed resumes.
EscalatedOnce(s, silence) == IF s > 0 THEN s ELSE Classified(silence)

\* The escalation: the stage never falls here.
Escalated(s, silence) == IF Classified(silence) > s THEN Classified(silence) ELSE s

\* refresh() returns; evaluate() escalates, and awaits a recovery unless the last
\* one is too recent.
Refreshed ==
    /\ pc = "refresh"
    /\ \E ok \in BOOLEAN :
           LET book == IF ok THEN 0 ELSE bookQuiet
               resumed == IF ok /\ Alive(tapeQuiet, 0) THEN 0 ELSE stage
               next == Escalated(resumed, Silence(tapeQuiet, book))
               recovers == next > 0 /\ ~cooling
           IN  /\ bookQuiet' = book
               /\ stage' = next
               /\ cooling' = (cooling \/ recovers)
               /\ pc' = IF recovers THEN "recovery" ELSE "judge"
    /\ truth' \in Truths
    /\ UNCHANGED <<pair, fsm, seen, riskVars, tapeQuiet>>

\* subscribe(), rotate or rebuild ends, or fails: evaluate() returns either way.
Recovered ==
    /\ pc = "recovery"
    /\ pc' = "judge"
    /\ truth' \in Truths
    /\ UNCHANGED <<pair, fsm, seen, riskVars, feedVars>>

\* Mutated form: the gate takes the state that this tick's health gives.
GateAllowsWhenHealthy == halted = "no" /\ truth = "good"

\* evaluateExecutionGate(), with the state the tick found.
GateAllows == fsm = "READY" /\ halted = "no" /\ truth = "good"

\* Mutated form: a runtime does not leave DEGRADED while a feed is stalled.
NextFsmUnlessStalled ==
    IF truth = "unhealthy" \/ (fsm = "DEGRADED" /\ stage > 0) THEN "DEGRADED" ELSE "READY"

\* Mutated form: a degraded runtime with a stalled feed is RECOVERING.
NextFsmRecovering ==
    IF truth # "unhealthy" THEN "READY" ELSE IF stage > 0 THEN "RECOVERING" ELSE "DEGRADED"

\* The transitions after the gate: by health, whatever the other vetoes.
NextFsm ==
    IF truth = "unhealthy" THEN "DEGRADED" ELSE "READY"

\* HardRiskGuard: the drawdown is the one of the last governance decision.
HardRiskBlocks == decision \in {"breach", "extreme"}

\* getMetrics(): the cache does not know its pair.
Metrics == IF metrics # None /\ cached THEN metrics ELSE drawdown[pair]

\* Capital protection: an extreme drawdown shuts down, which sets the flag of the
\* runtime's configuration and not that of the risk engine's copy; a breach pauses;
\* otherwise the profit factor, the slippage and the like throttle, and the tick
\* sleeps, or allow the strategies to be called.
Govern ==
    /\ metrics' = Metrics
    /\ cached' = TRUE
    /\ decision' = Metrics
    /\ pc' \in IF Metrics = "fine" THEN {"strategies", "cooldown"} ELSE {"idle"}

\* From the health quorum to the strategies.
Judge ==
    /\ pc = "judge"
    /\ seen' = (truth # "unhealthy")
    /\ fsm' = NextFsm
    /\ IF GateAllows /\ ~HardRiskBlocks
       THEN Govern
       ELSE pc' = "idle" /\ UNCHANGED <<metrics, cached, decision>>
    /\ UNCHANGED <<pair, truth, halted, drawdown, feedVars>>

\* The sleep of THROTTLE ends.
CooledDown ==
    /\ pc = "cooldown"
    /\ pc' = "strategies"
    /\ UNCHANGED <<pair, fsm, truth, seen, riskVars, feedVars>>

\* The strategies return, or one throws.
EndTick ==
    /\ pc = "strategies"
    /\ pc' = "idle"
    /\ UNCHANGED <<pair, fsm, truth, seen, riskVars, feedVars>>

TickStep == StartTick \/ Refreshed \/ Recovered \/ Judge \/ CooledDown \/ EndTick

World == Pass \/ DrawdownChanges \/ Halt \/ SwitchPair \/ TapeEvent

Next == TickStep \/ World

Spec == Init /\ [][Next]_vars

\* The scheduler ticks, what a tick awaits ends, and time passes.
Fairness == WF_vars(TickStep) /\ WF_vars(Pass)

FairSpec == Spec /\ Fairness
-----------------------------------------------------------------------------
(* Properties                                                              *)

\* Strategies are called only in a tick whose predecessor was healthy too: neither
\* the first tick nor the first one after a degradation trades
\* (executionGate.ts:99, tradingRuntime.ts:1131).
NotOnFirstHealthyTick ==
    [][ pc = "judge" /\ pc' \in {"cooldown", "strategies"}
        => seen ]_vars

NoBreach == \A p \in Pairs : drawdown[p] = "fine"
AllWell == truth = "good" /\ halted = "no"
Trading == pc = "strategies"

\* Once the data is good and nothing is halted for good, the strategies are called
\* again and again, whatever the feeds' stages and the transitions before were,
\* as long as no drawdown was ever breached (tradingRuntime.ts:1131-1151).
TradingResumes == <>[]AllWell /\ []NoBreach => []<>Trading

\* Feeds that stay silent are rebuilt again and again, however the shorter silences
\* before were answered (feedStallRecovery.ts:4-11).
SilenceIsRebuilt ==
    <>[](tapeQuiet > 0 /\ bookQuiet > 0) /\ []<>(pc = "refresh")
    => []<>(pc = "recovery" /\ stage = 3)

\* A drawdown that is over does not block: evaluate() "should be called on every tick
\* BEFORE strategies execute" (capitalProtection.ts:337).
BlockIsLifted == <>[](AllWell /\ NoBreach) => []<>Trading
=============================================================================
