----------------------------- MODULE PairSwitch -----------------------------
(***************************************************************************)
(* The trading-pair switch of the runtime: the switch state machine        *)
(* (pairSwitchFsm.ts), the orchestrator whose asynchronous runs drive it   *)
(* (pairSwitchOrchestrator.ts), the synchronous setActivePair() that       *)
(* starts them, the order-book tracker both share with tick(), and the     *)
(* part of tick() that is guarded by the switch (tradingRuntime.ts).       *)
(*                                                                         *)
(* JavaScript runs to completion between two awaits, so one action is the  *)
(* code from one await to the next.  A run or a tick that awaits is a      *)
(* record with a program counter; nothing in the code cancels it.          *)
(*                                                                         *)
(* Bounds: |Runs| switches and |Ticks| ticks in flight at a time (an id is *)
(* free again when its run or tick has ended).                             *)
(***************************************************************************)
EXTENDS Naturals

CONSTANTS
    Pairs,    \* the pairs the instrument registry knows and the policy allows
    Runs,     \* ids of concurrent executePairSwitch() runs
    Ticks,    \* ids of concurrent tick() calls
    InitialPair,
    NoPair,   \* null pair key, and the pair of an empty book
    NoRun,
    NoContext

\* PairContext, without its timestamps.
Contexts == [pair : Pairs, hasBook : BOOLEAN, hasTape : BOOLEAN,
             hasBalances : BOOLEAN, dataValid : BOOLEAN]

ASSUME PairsAssumption ==
    /\ InitialPair \in Pairs
    /\ NoPair \notin Pairs
    /\ NoRun \notin Runs
    /\ NoContext \notin Contexts

VARIABLES
    activePair,   \* baseConfig.tradingPair and every component applyNewPair() sets
    phase,        \* PairSwitchFsm.phase
    sourcePair,   \* PairSwitchFsm.sourcePair
    targetPair,   \* PairSwitchFsm.targetPair
    context,      \* PairSwitchOrchestrator.context
    switch,       \* pairSwitchPending, SwitchId, TargetPairKey and LastError
    run,          \* the executePairSwitch() calls that have not returned
    book,         \* whose offers OrderBookTracker.state holds
    connected,    \* xrpl.isConnected()
    tickInFlight, \* TradingRuntime.tickInFlight
    tick          \* the tick() calls that have not returned

fsmVars    == <<phase, sourcePair, targetPair>>
switchVars == <<activePair, fsmVars, context, switch, run>>
tickVars   == <<tickInFlight, tick>>
vars       == <<switchVars, book, connected, tickVars>>

-----------------------------------------------------------------------------
(* PairSwitchFsm                                                           *)

Phases ==
    {"READY", "FREEZE_EXECUTION", "UNSUBSCRIBE_OLD_FEEDS",
     "DESTROY_PAIR_CONTEXT", "RESET_PAIR_METRICS_WINDOWS",
     "CREATE_NEW_PAIR_CONTEXT", "SUBSCRIBE_NEW_FEEDS", "WAIT_FIRST_BOOK",
     "WAIT_FIRST_TAPE", "REFRESH_BALANCES", "VALIDATE_DATA_TRUTH", "FAILED"}

ValidTransitions ==
    {<<"READY", "FREEZE_EXECUTION">>,
     <<"FREEZE_EXECUTION", "UNSUBSCRIBE_OLD_FEEDS">>,
     <<"UNSUBSCRIBE_OLD_FEEDS", "DESTROY_PAIR_CONTEXT">>,
     <<"DESTROY_PAIR_CONTEXT", "RESET_PAIR_METRICS_WINDOWS">>,
     <<"RESET_PAIR_METRICS_WINDOWS", "CREATE_NEW_PAIR_CONTEXT">>,
     <<"CREATE_NEW_PAIR_CONTEXT", "SUBSCRIBE_NEW_FEEDS">>,
     <<"SUBSCRIBE_NEW_FEEDS", "WAIT_FIRST_BOOK">>,
     <<"WAIT_FIRST_BOOK", "WAIT_FIRST_TAPE">>,
     <<"WAIT_FIRST_TAPE", "REFRESH_BALANCES">>,
     <<"REFRESH_BALANCES", "VALIDATE_DATA_TRUTH">>,
     <<"VALIDATE_DATA_TRUTH", "READY">>,
     <<"FAILED", "READY">>}
    \cup ((Phases \ {"READY", "FAILED"}) \X {"FAILED"})

\* advance() is idempotent, and throws where CanAdvance is false.
CanAdvance(from, to) == from = to \/ <<from, to>> \in ValidTransitions

IsReady == phase = "READY"

\* Mutated form: the source and the target are left behind.
ThawFsmKeepingPairs ==
    /\ phase' = "READY"
    /\ UNCHANGED <<sourcePair, targetPair>>

\* reset(), complete() and recover() leave READY with no source and no target.
ThawFsm ==
    /\ phase' = "READY"
    /\ sourcePair' = NoPair
    /\ targetPair' = NoPair

KeepFsm == UNCHANGED fsmVars

AdvanceFsm(to) == phase' = to /\ UNCHANGED <<sourcePair, targetPair>>

-----------------------------------------------------------------------------
(* Runs of the orchestrator, and what they await                           *)

FreeRun == [pc |-> "free", asked |-> NoPair]
FreeTick == [pc |-> "free", asked |-> NoPair, book |-> NoPair]

AwaitPcs == {"subscribed", "subscribe", "book", "tape", "balances"}
SettlePcs == {"succeeded", "failed"}
BodyPcs == {"reserves", "refresh", "stall", "cooldown", "strategies"}

InFlight(r) == run[r].pc # "free"
Awaiting(r) == run[r].pc \in AwaitPcs

\* The continuation of an already resolved promise is a microtask: it runs
\* before the next timer, network or HTTP callback.
NoMicrotask == \A r \in Runs : run[r].pc \notin SettlePcs \cup {"subscribed"}

\* What the tracker holds after a book request for a pair: its offers, an empty
\* book, or, when refresh() returns false, what it held.  refresh() does not ask
\* whether its pair is still the pair the request was for.
BookAnswers(asked) == {asked, NoPair, book}

\* The phases in which a run awaits.  The others are passed through in one step.
StablePhases == {"READY", "SUBSCRIBE_NEW_FEEDS", "WAIT_FIRST_BOOK",
                 "WAIT_FIRST_TAPE", "REFRESH_BALANCES", "FAILED"}

\* Types, and: no timer, request or caller ever finds the machine in one of the
\* phases that executePairSwitch() leaves again before its next await.
TypeOK ==
    /\ activePair \in Pairs
    /\ phase \in StablePhases
    /\ sourcePair \in Pairs \cup {NoPair}
    /\ targetPair \in Pairs \cup {NoPair}
    /\ context \in Contexts \cup {NoContext}
    /\ switch \in [pending : BOOLEAN, id : Runs \cup {NoRun},
                   target : Pairs \cup {NoPair}, error : BOOLEAN]
    /\ run \in [Runs -> [pc : {"free"} \cup AwaitPcs \cup SettlePcs,
                         asked : Pairs \cup {NoPair}]]
    /\ book \in Pairs \cup {NoPair}
    /\ connected \in BOOLEAN
    /\ tickInFlight \in BOOLEAN
    /\ tick \in [Ticks -> [pc : {"free", "connect"} \cup BodyPcs,
                           asked : Pairs \cup {NoPair},
                           book : Pairs \cup {NoPair}]]

Init ==
    /\ activePair = InitialPair
    /\ phase = "READY"
    /\ sourcePair = NoPair
    /\ targetPair = NoPair
    /\ context = NoContext
    /\ switch = [pending |-> FALSE, id |-> NoRun, target |-> NoPair, error |-> FALSE]
    /\ run = [r \in Runs |-> FreeRun]
    /\ book = NoPair
    /\ connected \in BOOLEAN
    /\ tickInFlight = FALSE
    /\ tick = [t \in Ticks |-> FreeTick]

-----------------------------------------------------------------------------
(* setActivePair()                                                         *)

\* Mutated form: the context of the pair before is not replaced.
SetActivePairKeepingContext(pair, r) ==
    /\ NoMicrotask
    /\ pair # activePair
    /\ ~ InFlight(r)
    /\ activePair' = pair
    /\ book' = NoPair
    /\ phase' = "SUBSCRIBE_NEW_FEEDS"
    /\ sourcePair' = activePair
    /\ targetPair' = pair
    /\ context' = IF context # NoContext THEN context ELSE
                   [pair |-> pair, hasBook |-> FALSE, hasTape |-> FALSE,
                    hasBalances |-> FALSE, dataValid |-> FALSE]
    /\ switch' = [pending |-> TRUE, id |-> r, target |-> pair, error |-> FALSE]
    /\ run' = [run EXCEPT ![r].pc = IF connected THEN "subscribed" ELSE "subscribe"]
    /\ UNCHANGED <<connected, tickVars>>

\* A valid key of another pair.  An orchestrator that is not READY is reset
\* first; then the pair, the caches and the tracker change, and the run goes
\* through the synchronous phases up to its first await.
SetActivePair(pair, r) ==
    /\ NoMicrotask
    /\ pair # activePair
    /\ ~ InFlight(r)
    /\ activePair' = pair
    /\ book' = NoPair
    /\ phase' = "SUBSCRIBE_NEW_FEEDS"
    /\ sourcePair' = activePair
    /\ targetPair' = pair
    /\ context' = [pair |-> pair, hasBook |-> FALSE, hasTape |-> FALSE,
                   hasBalances |-> FALSE, dataValid |-> FALSE]
    /\ switch' = [pending |-> TRUE, id |-> r, target |-> pair, error |-> FALSE]
    /\ run' = [run EXCEPT ![r].pc = IF connected THEN "subscribed" ELSE "subscribe"]
    /\ UNCHANGED <<connected, tickVars>>

\* An invalid, unknown or disallowed key is refused only after an orchestrator
\* that is not READY has been reset.  The run that drove it goes on.
RefuseActivePair ==
    /\ NoMicrotask
    /\ ~ IsReady
    /\ ThawFsm
    /\ context' = NoContext
    /\ UNCHANGED <<activePair, switch, run, book, connected, tickVars>>

-----------------------------------------------------------------------------
(* executePairSwitch(), from its first await on                            *)

\* A field of the context, where there is still one to write to.
Noted(ctx, field, value) ==
    IF ctx = NoContext THEN NoContext ELSE [ctx EXCEPT ![field] = value]

\* The run takes the machine to phase "to" and awaits at pc.
AdvanceRun(r, to, pc, asked, ctx) ==
    /\ AdvanceFsm(to)
    /\ context' = ctx
    /\ run' = [run EXCEPT ![r] = [pc |-> pc, asked |-> asked]]

\* Mutated form: the catch block does not fail the machine.
FailRunWithoutFailing(r, ctx) ==
    /\ KeepFsm
    /\ context' = ctx
    /\ run' = [run EXCEPT ![r] = [pc |-> "failed", asked |-> NoPair]]

\* Something threw: the catch block fails a machine that is neither READY nor
\* FAILED, and the run returns { success: false }.
FailRun(r, ctx) ==
    /\ IF phase \in {"READY", "FAILED"} THEN KeepFsm ELSE AdvanceFsm("FAILED")
    /\ context' = ctx
    /\ run' = [run EXCEPT ![r] = [pc |-> "failed", asked |-> NoPair]]

\* subscribeFeeds() resolved, having connected if it had to: the run asks for
\* the book of the pair the tracker now has.
Subscribed(r) ==
    /\ \/ run[r].pc = "subscribed" /\ UNCHANGED connected
       \/ run[r].pc = "subscribe" /\ connected' = TRUE
    /\ IF CanAdvance(phase, "WAIT_FIRST_BOOK")
       THEN AdvanceRun(r, "WAIT_FIRST_BOOK", "book", activePair, context)
       ELSE FailRun(r, context)
    /\ UNCHANGED <<activePair, switch, book, tickVars>>

\* connect() or subscribe() rejected.
SubscribeFailed(r) ==
    /\ run[r].pc = "subscribe"
    /\ FailRun(r, context)
    /\ UNCHANGED <<activePair, switch, book, connected, tickVars>>

\* hasBook is what the tracker holds when the request is over.  A tape that
\* already has a trade is not waited for.
BookReceived(r) ==
    /\ run[r].pc = "book"
    /\ book' \in BookAnswers(run[r].asked)
    /\ LET ctx == Noted(context, "hasBook", book' # NoPair)
       IN  IF CanAdvance(phase, "WAIT_FIRST_TAPE")
           THEN \/ AdvanceRun(r, "WAIT_FIRST_TAPE", "tape", NoPair, ctx)
                \/ AdvanceRun(r, "REFRESH_BALANCES", "balances", NoPair,
                              Noted(ctx, "hasTape", TRUE))
           ELSE FailRun(r, ctx)
    /\ UNCHANGED <<activePair, switch, connected, tickVars>>

\* The poll of the tape found a trade or reached its deadline.
TapeChecked(r) ==
    /\ run[r].pc = "tape"
    /\ \E hasTape \in BOOLEAN :
           LET ctx == Noted(context, "hasTape", hasTape)
           IN  IF CanAdvance(phase, "REFRESH_BALANCES")
               THEN AdvanceRun(r, "REFRESH_BALANCES", "balances", NoPair, ctx)
               ELSE FailRun(r, ctx)
    /\ UNCHANGED <<activePair, switch, book, connected, tickVars>>

\* Mutated form: a switch whose data is not valid does not complete.
BalancesRefreshedIfValid(r) ==
    /\ run[r].pc = "balances"
    /\ \E hasBalances \in BOOLEAN :
           LET ctx == Noted(context, "hasBalances", hasBalances)
           IN  IF CanAdvance(phase, "VALIDATE_DATA_TRUTH")
               THEN /\ IF connected /\ book # NoPair
                       THEN ThawFsm
                       ELSE AdvanceFsm("VALIDATE_DATA_TRUTH")
                    /\ context' = Noted(ctx, "dataValid",
                                        connected /\ book # NoPair)
                    /\ run' = [run EXCEPT ![r].pc = "succeeded"]
               ELSE FailRun(r, ctx)
    /\ UNCHANGED <<activePair, switch, book, connected, tickVars>>

\* The balances are in; the data is validated and, valid or not, the switch
\* completes.
BalancesRefreshed(r) ==
    /\ run[r].pc = "balances"
    /\ \E hasBalances \in BOOLEAN :
           LET ctx == Noted(context, "hasBalances", hasBalances)
           IN  IF CanAdvance(phase, "VALIDATE_DATA_TRUTH")
               THEN /\ ThawFsm
                    /\ context' = Noted(ctx, "dataValid",
                                        connected /\ book # NoPair)
                    /\ run' = [run EXCEPT ![r].pc = "succeeded"]
               ELSE FailRun(r, ctx)
    /\ UNCHANGED <<activePair, switch, book, connected, tickVars>>

\* The .then() of setActivePair(): whichever switch is pending is pending no
\* more, and a FAILED machine is recovered.  The pair is not rolled back.
SettleSuccess(r) ==
    /\ run[r].pc = "succeeded"
    /\ switch' = [switch EXCEPT !.pending = FALSE]
    /\ run' = [run EXCEPT ![r] = FreeRun]
    /\ UNCHANGED <<activePair, fsmVars, context, book, connected, tickVars>>

\* Mutated form: a failed run leaves its switch pending.
SettleFailureStillPending(r) ==
    /\ run[r].pc = "failed"
    /\ switch' = [switch EXCEPT !.error = TRUE]
    /\ IF phase = "FAILED" THEN ThawFsm ELSE KeepFsm
    /\ run' = [run EXCEPT ![r] = FreeRun]
    /\ UNCHANGED <<activePair, context, book, connected, tickVars>>

\* Mutated form: a failed switch is not recovered.
SettleFailureUnrecovered(r) ==
    /\ run[r].pc = "failed"
    /\ switch' = [switch EXCEPT !.pending = FALSE, !.error = TRUE]
    /\ KeepFsm
    /\ run' = [run EXCEPT ![r] = FreeRun]
    /\ UNCHANGED <<activePair, context, book, connected, tickVars>>

SettleFailure(r) ==
    /\ run[r].pc = "failed"
    /\ switch' = [switch EXCEPT !.pending = FALSE, !.error = TRUE]
    /\ IF phase = "FAILED" THEN ThawFsm ELSE KeepFsm
    /\ run' = [run EXCEPT ![r] = FreeRun]
    /\ UNCHANGED <<activePair, context, book, connected, tickVars>>

RunStep(r) ==
    \/ Subscribed(r)
    \/ SubscribeFailed(r)
    \/ BookReceived(r)
    \/ TapeChecked(r)
    \/ BalancesRefreshed(r)
    \/ SettleSuccess(r)
    \/ SettleFailure(r)

-----------------------------------------------------------------------------
(* tick(), from await to await                                             *)

TickTo(t, pc) == tick' = [tick EXCEPT ![t].pc = pc]

\* The guards have passed and the tick takes the in-flight flag.
EnterTick(t) ==
    /\ tickInFlight' = TRUE
    /\ TickTo(t, "reserves")

\* The guards of tick(); a disconnected client is connected before the flag is
\* taken.
StartTick(t) ==
    /\ NoMicrotask
    /\ tick[t].pc = "free"
    /\ IsReady
    /\ ~ tickInFlight
    /\ IF connected
       THEN EnterTick(t)
       ELSE TickTo(t, "connect") /\ UNCHANGED tickInFlight
    /\ UNCHANGED <<switchVars, book, connected>>

\* connect() is over.  Neither the switch machine nor the flag is looked at
\* again.
ConnectSettled(t) ==
    /\ tick[t].pc = "connect"
    /\ connected' \in {connected, TRUE}
    /\ IF connected'
       THEN EnterTick(t)
       ELSE tick' = [tick EXCEPT ![t] = FreeTick] /\ UNCHANGED tickInFlight
    /\ UNCHANGED <<switchVars, book>>

\* The reserves are sufficient: ask for the book of the tracker's pair.
ReservesChecked(t) ==
    /\ tick[t].pc = "reserves"
    /\ tick' = [tick EXCEPT ![t].pc = "refresh", ![t].asked = activePair]
    /\ UNCHANGED <<switchVars, book, connected, tickInFlight>>

\* The tick keeps the tracker's state of this moment as its order book.
BookRefreshed(t) ==
    /\ tick[t].pc = "refresh"
    /\ book' \in BookAnswers(tick[t].asked)
    /\ tick' = [tick EXCEPT ![t] = [pc |-> "stall", asked |-> NoPair, book |-> book']]
    /\ UNCHANGED <<switchVars, connected, tickInFlight>>

\* The feed-stall evaluation is over and the execution gate allows the tick,
\* which it never does outside READY or without a connection.
PassGate(t) ==
    /\ tick[t].pc = "stall"
    /\ IsReady
    /\ connected
    /\ TickTo(t, "cooldown")
    /\ UNCHANGED <<switchVars, book, connected, tickInFlight>>

\* After the cooldown and throttle sleeps a strategy trades on the executor's
\* pair with the tick's order book.
CallStrategy(t) ==
    /\ tick[t].pc = "cooldown"
    /\ TickTo(t, "strategies")
    /\ UNCHANGED <<switchVars, book, connected, tickInFlight>>

\* Mutated form: the return for insufficient reserves skips the finally block.
EndTickLeakingFlag(t) ==
    /\ tick[t].pc \in {"reserves", "stall", "strategies"}
    /\ tickInFlight' = (tick[t].pc = "reserves" /\ tickInFlight)
    /\ tick' = [tick EXCEPT ![t] = FreeTick]
    /\ UNCHANGED <<switchVars, book, connected>>

\* An early return, an exception or the end of the strategies: finally clears
\* the flag, whoever set it.
EndTick(t) ==
    /\ tick[t].pc \in {"reserves", "stall", "strategies"}
    /\ tickInFlight' = FALSE
    /\ tick' = [tick EXCEPT ![t] = FreeTick]
    /\ UNCHANGED <<switchVars, book, connected>>

TickStep(t) ==
    \/ ConnectSettled(t)
    \/ ReservesChecked(t)
    \/ BookRefreshed(t)
    \/ PassGate(t)
    \/ CallStrategy(t)
    \/ EndTick(t)

-----------------------------------------------------------------------------
(* The websocket, and the specification                                    *)

\* The connection drops, or the shared client reconnects on its own.
ConnectionChanges ==
    /\ NoMicrotask
    /\ connected' = ~ connected
    /\ UNCHANGED <<switchVars, book, tickVars>>

Next ==
    \/ \E pair \in Pairs, r \in Runs : SetActivePair(pair, r)
    \/ RefuseActivePair
    \/ \E r \in Runs : RunStep(r)
    \/ \E t \in Ticks : StartTick(t) \/ TickStep(t)
    \/ ConnectionChanges

Spec == Init /\ [][Next]_vars

\* Every awaited call settles: requests and connection attempts have timeouts
\* and the tape poll a deadline.  The caller of setActivePair() and the tick
\* interval owe nothing.
Fairness ==
    /\ \A r \in Runs : WF_vars(RunStep(r))
    /\ \A t \in Ticks : WF_vars(TickStep(t))

FairSpec == Spec /\ Fairness

-----------------------------------------------------------------------------
(* Properties                                                              *)

\* While the machine is frozen it announces the pair the runtime has already
\* moved to, and outside a switch it announces nothing: an interrupted,
\* failed, reset or overtaken switch leaves no source or target behind.
AnnouncedPair ==
    /\ IsReady => sourcePair = NoPair /\ targetPair = NoPair
    /\ ~ IsReady => /\ targetPair = activePair
                    /\ sourcePair \in Pairs \ {activePair}

\* The per-pair context is always the active pair's, whichever run wrote to it
\* last, and there is one during a switch.
ContextOfActivePair ==
    /\ context # NoContext => context.pair = activePair
    /\ ~ IsReady => context # NoContext

\* Execution is never wedged: a machine between READY and FAILED is driven by
\* the newest run, which has not returned, and a FAILED one will be recovered
\* by a run that has.  Nothing else would ever thaw it.
NeverWedged ==
    /\ phase \notin {"READY", "FAILED"} =>
           switch.id \in Runs /\ Awaiting(switch.id)
    /\ phase = "FAILED" => \E r \in Runs : run[r].pc = "failed"

\* The pending flag shown to the API never outlives the run of its own switch,
\* and names the pair the runtime is on.
PendingIsInFlight ==
    switch.pending => /\ switch.id \in Runs /\ InFlight(switch.id)
                      /\ switch.target = activePair

\* The runs of the switch refine the promise of SwitchedPair.
Abstract == INSTANCE SwitchedPair WITH
    pair <- activePair,
    frozen <- ~ IsReady,
    announced <- {targetPair} \ {NoPair}

Refinement == Abstract!FairSpec

\* Every pending switch is reported as finished or failed.
PendingEnds == switch.pending ~> ~ switch.pending

\* However ticks overlap that share the in-flight flag, which each takes for
\* itself and clears for all, it is given back: one that stays taken would end
\* trading until the process does.
LockIsReleased == tickInFlight ~> ~ tickInFlight

-----------------------------------------------------------------------------
(* What the comments say and the code does not keep                        *)

\* pairSwitchFsm.ts:4, "no data mixing": the order book of a tick that the gate
\* lets through is of the pair the executor trades.
NoDataMixing ==
    [][\A t \in Ticks : PassGate(t) => tick[t].book \in {activePair, NoPair}]_vars
=============================================================================
