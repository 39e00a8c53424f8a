----------------------------- MODULE BotControl -----------------------------
(***************************************************************************)
(* Who runs the bot: the controller behind the run, pause and kill routes  *)
(* (botController.ts), the hooks that connect it to the runtime            *)
(* (runtimeHooks.ts), the singleton that holds the one TradingRuntime and  *)
(* the promise of its start (runtimeSingleton.ts), and of each runtime the *)
(* parts of start(), kill() and reset() these observe (tradingRuntime.ts,  *)
(* runtimeFsm.ts).                                                         *)
(*                                                                         *)
(* Each start constructs its own runtime, so one id names both.  A runtime *)
(* constructed by a status poll and never started has no state of          *)
(* interest: it is Placeholder.  Callbacks of a settled promise run before *)
(* any other request is served, so a start settles its waiters in the same *)
(* step.                                                                   *)
(*                                                                         *)
(* Bounds: |Starts| runtimes alive at a time (an id is free again when     *)
(* nothing refers to it), |Operators| bot commands and |Readers| API reads *)
(* waiting at a time.                                                      *)
(***************************************************************************)
EXTENDS Naturals, FiniteSets

CONSTANTS
    Starts,      \* ids of starts, and of the runtimes they construct
    Operators,   \* concurrent run and kill requests
    Readers,     \* concurrent API reads that need the runtime's client
    None,
    Placeholder  \* a runtime that was constructed and never started

Requests == Operators \cup Readers

ASSUME BotAssumption ==
    /\ Operators \cap Readers = {}
    /\ None \notin Starts
    /\ Placeholder \notin Starts \cup {None}

VARIABLES
    bot,      \* BotController.state
    loop,     \* BotController.loop is armed
    current,  \* __xrplTradingBotRuntime
    promise,  \* __xrplTradingBotStartPromise
    phase,    \* what each start awaits
    started,  \* TradingRuntime.started (and xrpl, set in the same step)
    fsm,      \* RuntimeFSM.currentState; UP stands for every state from
              \* WARMING_MARKET_CACHE to RECOVERING
    req       \* the requests that have not been answered

controllerVars == <<bot, loop>>
singletonVars  == <<current, promise>>
runtimeVars    == <<phase, started, fsm>>
vars == <<controllerVars, singletonVars, runtimeVars, req>>

InFlightPhases == {"wallet", "connecting", "subscribing", "warming", "closing"}
FsmStates == {"BOOTING", "SYNCING_LEDGER", "SUBSCRIBING_FEEDS", "UP", "HALTED"}
NoRequest == [kind |-> "none", on |-> None]

Answered(r) == req[r] = NoRequest
CurrentIsStarted == current \in Starts /\ started[current]

\* A runtime that nothing can reach any more: its id may be used again.
Unreachable(s) ==
    /\ phase[s] \notin InFlightPhases
    /\ ~started[s]
    /\ s \notin {current, promise}
    /\ \A r \in Requests : req[r].on # s

\* ensureRuntimeHooks(): a request that finds no runtime constructs one.
HookedRuntime == IF current = None THEN Placeholder ELSE current

Init ==
    /\ bot = "STOPPED"
    /\ loop = FALSE
    /\ current = None
    /\ promise = None
    /\ phase = [s \in Starts |-> "unused"]
    /\ started = [s \in Starts |-> FALSE]
    /\ fsm = [s \in Starts |-> "BOOTING"]
    /\ req = [r \in Requests |-> NoRequest]

\* GET status, health, risk, ...: and a pause or kill that is refused.
Poll ==
    /\ current' = HookedRuntime
    /\ UNCHANGED <<controllerVars, promise, runtimeVars, req>>

-----------------------------------------------------------------------------
(* ensureRuntimeStarted()                                                  *)

\* The request awaits a start that is in flight.
AwaitStart(r, kind) ==
    /\ phase[promise] \in InFlightPhases
    /\ req' = [req EXCEPT ![r] = [kind |-> kind, on |-> promise]]
    /\ UNCHANGED <<promise, runtimeVars, loop>>

\* The stored promise is already rejected: the request fails at once.
AwaitRejected ==
    /\ phase[promise] = "failed"
    /\ UNCHANGED <<promise, runtimeVars, req>>

\* loadConfig() and the validation pass, and start() awaits the wallet.
BeginStart(r, kind, s) ==
    /\ phase' = [phase EXCEPT ![s] = "wallet"]
    /\ fsm' = [fsm EXCEPT ![s] = "BOOTING"]
    /\ promise' = s
    /\ current' = s
    /\ req' = [req EXCEPT ![r] = [kind |-> kind, on |-> s]]
    /\ UNCHANGED <<started, loop>>

\* loadConfig() or the validation throws before the first await, so the
\* finally block clears the promise before the rejected one is stored.
BeginRejectedStart(s) ==
    /\ phase' = [phase EXCEPT ![s] = "failed"]
    /\ promise' = s
    /\ current' = None
    /\ UNCHANGED <<started, fsm, req>>

\* POST run, for a bot that is not RUNNING.
Run(r) ==
    /\ Answered(r)
    /\ bot # "RUNNING"
    /\ \/ /\ CurrentIsStarted
          /\ bot' = "RUNNING"
          /\ loop' = TRUE
          /\ UNCHANGED <<singletonVars, runtimeVars, req>>
       \/ /\ ~CurrentIsStarted
          /\ UNCHANGED bot
          /\ \/ /\ promise # None
                /\ current' = HookedRuntime
                /\ \/ AwaitStart(r, "run")
                   \/ AwaitRejected /\ loop' = FALSE
             \/ /\ promise = None
                /\ \E s \in {t \in Starts : Unreachable(t)} :
                      \/ BeginStart(r, "run", s)
                      \/ BeginRejectedStart(s) /\ loop' = FALSE

\* getApiXrplClient(), and the first initRuntimeBridge().
Read(r) ==
    /\ Answered(r)
    /\ ~CurrentIsStarted
    /\ UNCHANGED bot
    /\ \/ promise # None /\ UNCHANGED current /\ AwaitStart(r, "read")
       \/ /\ promise = None
          /\ \E s \in {t \in Starts : Unreachable(t)} :
                \/ BeginStart(r, "read", s)
                \/ BeginRejectedStart(s) /\ UNCHANGED loop

-----------------------------------------------------------------------------
(* TradingRuntime.start(), one action per await                            *)

ValidTransitions ==
    {<<"BOOTING", "SYNCING_LEDGER">>,
     <<"SYNCING_LEDGER", "SUBSCRIBING_FEEDS">>,
     <<"SUBSCRIBING_FEEDS", "UP">>}
    \cup ((FsmStates \ {"HALTED"}) \X {"HALTED"})

\* transition() throws where it is not allowed, and start() closes.
Advance(s, to, next) ==
    \/ /\ <<fsm[s], to>> \in ValidTransitions
       /\ fsm' = [fsm EXCEPT ![s] = to]
       /\ phase' = [phase EXCEPT ![s] = next]
    \/ /\ <<fsm[s], to>> \notin ValidTransitions
       /\ phase' = [phase EXCEPT ![s] = "closing"]
       /\ UNCHANGED fsm

WalletReady(s) ==
    /\ phase[s] = "wallet"
    /\ Advance(s, "SYNCING_LEDGER", "connecting")
    /\ UNCHANGED <<started, controllerVars, singletonVars, req>>

Connected(s) ==
    /\ phase[s] = "connecting"
    /\ Advance(s, "SUBSCRIBING_FEEDS", "subscribing")
    /\ UNCHANGED <<started, controllerVars, singletonVars, req>>

\* started is set before the transition is tried.
Subscribed(s) ==
    /\ phase[s] = "subscribing"
    /\ started' = [started EXCEPT ![s] = TRUE]
    /\ Advance(s, "UP", "warming")
    /\ UNCHANGED <<controllerVars, singletonVars, req>>

\* connect(), subscribe() or the signer throws: start() disconnects.
StartFails(s) ==
    /\ phase[s] \in {"connecting", "subscribing"}
    /\ phase' = [phase EXCEPT ![s] = "closing"]
    /\ UNCHANGED <<started, fsm, controllerVars, singletonVars, req>>

Waiting(s, kind) == {r \in Requests : req[r] = [kind |-> kind, on |-> s]}
\* Mutated form: requests await whatever promise is stored.
AnswerIfStored(s) ==
    req' = [r \in Requests |->
              IF promise = s /\ r \in Waiting(s, "run") \cup Waiting(s, "read")
              THEN NoRequest ELSE req[r]]

Answer(s) ==
    req' = [r \in Requests |->
              IF r \in Waiting(s, "run") \cup Waiting(s, "read") THEN NoRequest
                                                                 ELSE req[r]]

\* The start resolves.  Its finally block clears whatever promise is stored,
\* and its waiters use whatever runtime is current.
StartResolves(s) ==
    /\ phase[s] = "warming"
    /\ phase' = [phase EXCEPT ![s] = "done"]
    /\ promise' = None
    /\ Answer(s)
    /\ IF Waiting(s, "run") = {} THEN UNCHANGED controllerVars
       ELSE IF current = None THEN loop' = FALSE /\ UNCHANGED bot
       ELSE loop' = TRUE /\ bot' = "RUNNING"
    /\ UNCHANGED <<started, fsm, current>>

\* Mutated form: the catch block leaves the runtime in the singleton.
StartRejectsKeepingRuntime(s) ==
    /\ phase[s] \in {"wallet", "closing"}
    /\ phase' = [phase EXCEPT ![s] = "failed"]
    /\ started' = [started EXCEPT ![s] = FALSE]
    /\ fsm' = [fsm EXCEPT ![s] = "BOOTING"]
    /\ promise' = None
    /\ Answer(s)
    /\ loop' = (loop /\ Waiting(s, "run") = {})
    /\ UNCHANGED <<bot, current>>

\* The wallet is refused, or start() has disconnected and reset itself; the
\* singleton's catch and finally blocks clear what is stored.
StartRejects(s) ==
    /\ phase[s] \in {"wallet", "closing"}
    /\ phase' = [phase EXCEPT ![s] = "failed"]
    /\ started' = [started EXCEPT ![s] = FALSE]
    /\ fsm' = [fsm EXCEPT ![s] = "BOOTING"]
    /\ current' = None
    /\ promise' = None
    /\ Answer(s)
    /\ loop' = (loop /\ Waiting(s, "run") = {})
    /\ UNCHANGED bot

-----------------------------------------------------------------------------
(* pause() and kill()                                                      *)

Pause ==
    /\ bot = "RUNNING"
    /\ bot' = "PAUSED"
    /\ loop' = FALSE
    /\ current' = HookedRuntime
    /\ UNCHANGED <<promise, runtimeVars, req>>

\* Mutated form: the controller keeps its state.
StoppedKeepingState ==
    /\ current' = None
    /\ promise' = None
    /\ UNCHANGED bot

\* Mutated form: the hook mixes up the two globals.
StoppedSwappingGlobals ==
    /\ current' = promise
    /\ promise' = current
    /\ bot' = "STOPPED"

\* The end of the kill hook and of BotController.kill().
Stopped ==
    /\ current' = None
    /\ promise' = None
    /\ bot' = "STOPPED"

\* The runtime has no client yet: it is reset in the same step.
KillUnstarted ==
    /\ bot # "STOPPED"
    /\ ~CurrentIsStarted
    /\ loop' = FALSE
    /\ fsm' = [s \in Starts |-> IF s = current THEN "BOOTING" ELSE fsm[s]]
    /\ Stopped
    /\ UNCHANGED <<phase, started, req>>

Kill(r) ==
    /\ Answered(r)
    /\ bot # "STOPPED"
    /\ CurrentIsStarted
    /\ loop' = FALSE
    /\ fsm' = [fsm EXCEPT ![current] = "HALTED"]
    /\ req' = [req EXCEPT ![r] = [kind |-> "kill", on |-> current]]
    /\ UNCHANGED <<bot, singletonVars, phase, started>>

\* Mutated form: reset() leaves the runtime's state machine alone.
KilledStayingHalted(r) ==
    /\ req[r].kind = "kill"
    /\ started' = [started EXCEPT ![req[r].on] = FALSE]
    /\ req' = [req EXCEPT ![r] = NoRequest]
    /\ Stopped
    /\ UNCHANGED <<loop, phase, fsm>>

\* Mutated form: reset() leaves started set.
KilledStayingStarted(r) ==
    /\ req[r].kind = "kill"
    /\ fsm' = [fsm EXCEPT ![req[r].on] = "BOOTING"]
    /\ req' = [req EXCEPT ![r] = NoRequest]
    /\ Stopped
    /\ UNCHANGED <<loop, started, phase>>

\* The client of the runtime that was current has disconnected.
Killed(r) ==
    /\ req[r].kind = "kill"
    /\ started' = [started EXCEPT ![req[r].on] = FALSE]
    /\ fsm' = [fsm EXCEPT ![req[r].on] = "BOOTING"]
    /\ req' = [req EXCEPT ![r] = NoRequest]
    /\ Stopped
    /\ UNCHANGED <<loop, phase>>

-----------------------------------------------------------------------------
StartStep(s) ==
    \/ WalletReady(s)
    \/ Connected(s)
    \/ Subscribed(s)
    \/ StartFails(s)
    \/ StartResolves(s)
    \/ StartRejects(s)

Next ==
    \/ Poll
    \/ Pause
    \/ KillUnstarted
    \/ \E r \in Operators : Run(r) \/ Kill(r) \/ Killed(r)
    \/ \E r \in Readers : Read(r)
    \/ \E s \in Starts : StartStep(s)

Spec == Init /\ [][Next]_vars

\* The wallet, connect(), subscribe(), the history download and disconnect()
\* all settle.
Fairness ==
    /\ \A s \in Starts : WF_vars(StartStep(s))
    /\ \A r \in Operators : WF_vars(Killed(r))

FairSpec == Spec /\ Fairness

-----------------------------------------------------------------------------
(* Properties of any number of concurrent requests                         *)

\* Types of the controller, the singleton, the runtimes and the requests
\* (botController.ts:45-47, runtimeSingleton.ts:146-150), and that only a
\* request that is waiting refers to a start.
TypeOK ==
    /\ bot \in {"STOPPED", "RUNNING", "PAUSED"}
    /\ loop \in BOOLEAN
    /\ current \in Starts \cup {None, Placeholder}
    /\ promise \in Starts \cup {None}
    /\ phase \in [Starts -> InFlightPhases \cup {"unused", "done", "failed"}]
    /\ started \in [Starts -> BOOLEAN]
    /\ fsm \in [Starts -> FsmStates]
    /\ req \in [Requests -> {NoRequest}
                  \cup [kind : {"run", "read", "kill"}, on : Starts]]

\* The singleton never holds a runtime whose start failed, whatever kills and
\* starts overlapped (the catch block, runtimeSingleton.ts:229-233): it would
\* be handed out as if it were starting.
FailedRuntimeIsNotCurrent == current \in Starts => phase[current] # "failed"

\* HALTED has no way out but reset(), and ensureRuntimeStarted() hands out a
\* started runtime without looking at its state: a runtime that is HALTED
\* must have a kill under way that will reset it, or the bot would report
\* RUNNING over a runtime whose tick() returns at once for ever
\* (tradingRuntime.ts:845, :1604-1612).
HaltedIsBeingKilled ==
    \A s \in Starts : fsm[s] = "HALTED" =>
        \E r \in Requests : req[r] = [kind |-> "kill", on |-> s]

\* A runtime that counts as started has come through the whole boot sequence,
\* even if it was killed in the middle of it: only the start that is closing
\* one down is excepted (tradingRuntime.ts:694-697, :831-835).
StartedIsBooted ==
    \A s \in Starts :
        started[s] /\ phase[s] # "closing" => fsm[s] \in {"UP", "HALTED"}

\* Every run, kill and read is answered: no request waits for a start or a
\* disconnection that another request has replaced (runtimeSingleton.ts:196
\* awaits the promise it read).
RequestsAreAnswered == \A r \in Requests : ~Answered(r) ~> Answered(r)

-----------------------------------------------------------------------------
(* Properties of commands given one at a time (one Operator)               *)

\* There is at most one started runtime and the singleton holds it
\* (runtimeHooks.ts:4-7 "single source of truth"): no other runtime keeps its
\* client, scanner and listeners.
OneRuntime == \A s \in Starts : started[s] => current = s

\* A bot that reports RUNNING has its loop armed and a started runtime to
\* tick, unless a kill is under way.
RunningIsTicked ==
    bot = "RUNNING" =>
        \/ loop /\ CurrentIsStarted
        \/ \E r \in Requests : req[r].kind = "kill"
=============================================================================
