-------------------------- MODULE BotControlProofs --------------------------
(***************************************************************************)
(* The properties of BotControl that hold for any number of overlapping    *)
(* commands, API reads and runtimes.  FailedRuntimeIsNotCurrent and        *)
(* HaltedIsBeingKilled are inductive given the types; StartedIsBooted      *)
(* needs in addition that a runtime counts as started only from the end of *)
(* its boot sequence on.  Last, the properties of commands given one at a  *)
(* time (MCBotControl): they need that nothing but the one operator's own  *)
(* command is ever under way.                                              *)
(***************************************************************************)
EXTENDS MCBotControl, TLAPS

\* started is set when the feeds are subscribed and never before.
StartedAfterBoot ==
    \A s \in Starts : started[s] => phase[s] \in {"warming", "closing", "done"}

IInv ==
    /\ TypeOK
    /\ FailedRuntimeIsNotCurrent
    /\ HaltedIsBeingKilled
    /\ StartedAfterBoot
    /\ StartedIsBooted

-----------------------------------------------------------------------------
(* Initial states                                                          *)

\* The initial state satisfies the inductive invariant.
LEMMA InitEstablishes == Init => IInv
<1> SUFFICES ASSUME Init PROVE IInv
    OBVIOUS
<1> USE BotAssumption DEF Init
<1>1. TypeOK
    BY DEF TypeOK, InFlightPhases, FsmStates, NoRequest
<1>2. FailedRuntimeIsNotCurrent
    BY DEF FailedRuntimeIsNotCurrent
<1>3. HaltedIsBeingKilled /\ StartedAfterBoot /\ StartedIsBooted
    BY DEF HaltedIsBeingKilled, StartedAfterBoot, StartedIsBooted
<1> QED BY <1>1, <1>2, <1>3 DEF IInv

-----------------------------------------------------------------------------
(* Requests                                                                *)

\* A request that has been answered is no kill under way, so a new one may
\* take its place.
LEMMA NewRequestKeepsKills ==
    ASSUME TypeOK, HaltedIsBeingKilled, NEW r \in Requests, Answered(r),
           NEW request, req' = [req EXCEPT ![r] = request],
           \A s \in Starts : fsm'[s] = "HALTED" => fsm[s] = "HALTED"
    PROVE  HaltedIsBeingKilled'
<1> SUFFICES ASSUME NEW s \in Starts, fsm'[s] = "HALTED"
             PROVE  \E q \in Requests : req'[q] = [kind |-> "kill", on |-> s]
    BY DEF HaltedIsBeingKilled
<1>1. PICK q \in Requests : req[q] = [kind |-> "kill", on |-> s]
    BY DEF HaltedIsBeingKilled
<1>2. req[q].kind # req[r].kind
    BY <1>1 DEF Answered, NoRequest
<1>3. req'[q] = req[q]
    BY <1>2 DEF TypeOK
<1> QED BY <1>1, <1>3

\* Beginning a start for a waiting request preserves the invariant.
LEMMA BeginStartPreserves ==
    ASSUME IInv, NEW r \in Requests, NEW kind \in {"run", "read"}, NEW s \in Starts,
           Answered(r), Unreachable(s), BeginStart(r, kind, s),
           bot' = bot, loop' = loop
    PROVE  IInv'
<1> USE BotAssumption DEF IInv, BeginStart
<1>1. TypeOK'
    BY DEF TypeOK, InFlightPhases, FsmStates
<1>2. FailedRuntimeIsNotCurrent'
    BY DEF TypeOK, FailedRuntimeIsNotCurrent
<1>3. HaltedIsBeingKilled'
    <2>1. \A t \in Starts : fsm'[t] = "HALTED" => fsm[t] = "HALTED"
        BY DEF TypeOK
    <2> QED BY <2>1, NewRequestKeepsKills
<1>4. StartedAfterBoot'
    BY DEF TypeOK, StartedAfterBoot, Unreachable
<1>5. StartedIsBooted'
    BY DEF TypeOK, StartedIsBooted, Unreachable
<1> QED BY <1>1, <1>2, <1>3, <1>4, <1>5

\* So does a start that is refused before its first await.
LEMMA BeginRejectedStartPreserves ==
    ASSUME IInv, NEW s \in Starts, Unreachable(s), BeginRejectedStart(s),
           bot' = bot, loop' \in BOOLEAN
    PROVE  IInv'
<1> USE BotAssumption DEF IInv, BeginRejectedStart
<1>1. TypeOK'
    BY DEF TypeOK
<1>2. FailedRuntimeIsNotCurrent'
    BY DEF TypeOK, FailedRuntimeIsNotCurrent
<1>3. HaltedIsBeingKilled'
    BY DEF HaltedIsBeingKilled
<1>4. StartedAfterBoot'
    BY DEF TypeOK, StartedAfterBoot, Unreachable
<1>5. StartedIsBooted'
    BY DEF TypeOK, StartedIsBooted, Unreachable
<1> QED BY <1>1, <1>2, <1>3, <1>4, <1>5

\* A request that only waits, is refused or finds the runtime started leaves
\* every runtime alone.
LEMMA RequestPreserves ==
    ASSUME IInv, NEW r \in Requests, NEW kind \in {"run", "read"}, Answered(r),
           UNCHANGED <<promise, runtimeVars>>,
           current' \in {current, None, Placeholder},
           bot' \in {"STOPPED", "RUNNING", "PAUSED"}, loop' \in BOOLEAN,
           \/ UNCHANGED req
           \/ promise \in Starts /\ req' = [req EXCEPT ![r] = [kind |-> kind, on |-> promise]]
    PROVE  IInv'
<1> USE BotAssumption DEF IInv, runtimeVars
<1>1. TypeOK'
    BY DEF TypeOK
<1>2. FailedRuntimeIsNotCurrent'
    BY DEF TypeOK, FailedRuntimeIsNotCurrent
<1>3. HaltedIsBeingKilled'
    <2>1. CASE UNCHANGED req
        BY <2>1 DEF HaltedIsBeingKilled
    <2>2. CASE req' = [req EXCEPT ![r] = [kind |-> kind, on |-> promise]]
        BY <2>2, NewRequestKeepsKills
    <2> QED BY <2>1, <2>2
<1>4. StartedAfterBoot' /\ StartedIsBooted'
    BY DEF StartedAfterBoot, StartedIsBooted
<1> QED BY <1>1, <1>2, <1>3, <1>4

LEMMA RunPreserves ==
    ASSUME IInv, NEW r \in Operators, Run(r)
    PROVE  IInv'
<1> USE BotAssumption
<1>0. /\ r \in Requests
      /\ Answered(r)
      /\ promise \in Starts \cup {None}
      /\ bot \in {"STOPPED", "RUNNING", "PAUSED"}
      /\ loop \in BOOLEAN
    BY DEF Run, Requests, IInv, TypeOK
<1>1. CASE CurrentIsStarted
    <2>1. UNCHANGED <<singletonVars, runtimeVars, req>> /\ bot' = "RUNNING" /\ loop' = TRUE
        BY <1>1 DEF Run
    <2> QED BY <1>0, <2>1, RequestPreserves DEF singletonVars
<1>2. CASE ~CurrentIsStarted /\ promise # None
    <2>1. /\ bot' = bot
          /\ current' \in {current, None, Placeholder}
          /\ \/ AwaitStart(r, "run")
             \/ AwaitRejected /\ loop' = FALSE
        BY <1>2 DEF Run, HookedRuntime
    <2>2. CASE AwaitStart(r, "run")
        BY <1>0, <1>2, <2>1, <2>2, RequestPreserves DEF AwaitStart
    <2>3. CASE AwaitRejected /\ loop' = FALSE
        BY <1>0, <2>1, <2>3, RequestPreserves DEF AwaitRejected
    <2> QED BY <2>1, <2>2, <2>3
<1>3. CASE ~CurrentIsStarted /\ promise = None
    <2>1. bot' = bot
        BY <1>3 DEF Run
    <2>2. PICK s \in Starts :
              /\ Unreachable(s)
              /\ \/ BeginStart(r, "run", s)
                 \/ BeginRejectedStart(s) /\ loop' = FALSE
        BY <1>3 DEF Run
    <2>3. CASE BeginStart(r, "run", s)
        <3>1. loop' = loop
            BY <2>3 DEF BeginStart
        <3> QED BY <1>0, <2>1, <2>2, <2>3, <3>1, BeginStartPreserves
    <2>4. CASE BeginRejectedStart(s) /\ loop' = FALSE
        BY <2>1, <2>2, <2>4, BeginRejectedStartPreserves
    <2> QED BY <2>2, <2>3, <2>4
<1> QED BY <1>1, <1>2, <1>3

LEMMA ReadPreserves ==
    ASSUME IInv, NEW r \in Readers, Read(r)
    PROVE  IInv'
<1> USE BotAssumption
<1>0. /\ r \in Requests
      /\ Answered(r)
      /\ promise \in Starts \cup {None}
      /\ bot \in {"STOPPED", "RUNNING", "PAUSED"}
      /\ loop \in BOOLEAN
      /\ bot' = bot
    BY DEF Read, Requests, IInv, TypeOK
<1>1. CASE promise # None
    <2>1. current' = current /\ AwaitStart(r, "read")
        BY <1>1 DEF Read
    <2> QED BY <1>0, <1>1, <2>1, RequestPreserves DEF AwaitStart
<1>2. CASE promise = None
    <2>1. PICK s \in Starts :
              /\ Unreachable(s)
              /\ \/ BeginStart(r, "read", s)
                 \/ BeginRejectedStart(s) /\ UNCHANGED loop
        BY <1>2 DEF Read
    <2>2. CASE BeginStart(r, "read", s)
        <3>1. loop' = loop
            BY <2>2 DEF BeginStart
        <3> QED BY <1>0, <2>1, <2>2, <3>1, BeginStartPreserves
    <2>3. CASE BeginRejectedStart(s) /\ UNCHANGED loop
        BY <1>0, <2>1, <2>3, BeginRejectedStartPreserves
    <2> QED BY <2>1, <2>2, <2>3
<1> QED BY <1>1, <1>2

\* A poll, or a pause, at most constructs a runtime that is never started.
LEMMA PollPreserves ==
    ASSUME IInv, Poll \/ Pause
    PROVE  IInv'
<1> USE BotAssumption DEF IInv, Poll, Pause, HookedRuntime, runtimeVars, controllerVars
<1>1. TypeOK'
    BY DEF TypeOK
<1>2. FailedRuntimeIsNotCurrent'
    BY DEF TypeOK, FailedRuntimeIsNotCurrent
<1>3. HaltedIsBeingKilled' /\ StartedAfterBoot' /\ StartedIsBooted'
    BY DEF HaltedIsBeingKilled, StartedAfterBoot, StartedIsBooted
<1> QED BY <1>1, <1>2, <1>3

-----------------------------------------------------------------------------
(* Starts                                                                  *)

\* A step of a start that answers nobody and moves no runtime into or out of
\* HALTED keeps the invariant, if the start itself keeps its part of it.
LEMMA BootStepPreserves ==
    ASSUME IInv, NEW s \in Starts, phase[s] \in {"wallet", "connecting", "subscribing"},
           NEW to \in {"SYNCING_LEDGER", "SUBSCRIBING_FEEDS", "UP"},
           NEW next \in {"connecting", "subscribing", "warming"},
           Advance(s, to, next),
           started' \in {started, [started EXCEPT ![s] = TRUE]},
           next = "warming" => to = "UP",
           next # "warming" => started' = started,
           UNCHANGED <<controllerVars, singletonVars, req>>
    PROVE  IInv'
<1> USE BotAssumption DEF IInv, controllerVars, singletonVars
<1>1. /\ phase' \in [Starts -> InFlightPhases \cup {"unused", "done", "failed"}]
      /\ fsm' \in [Starts -> FsmStates]
      /\ started' \in [Starts -> BOOLEAN]
    <2>1. phase' \in [Starts -> InFlightPhases \cup {"unused", "done", "failed"}]
        BY DEF TypeOK, Advance, InFlightPhases
    <2>2. fsm' \in [Starts -> FsmStates]
        BY DEF TypeOK, Advance, FsmStates
    <2>3. started' \in [Starts -> BOOLEAN]
        BY DEF TypeOK
    <2> QED BY <2>1, <2>2, <2>3
<1>2. /\ \A t \in Starts \ {s} : phase'[t] = phase[t] /\ fsm'[t] = fsm[t]
                                    /\ started'[t] = started[t]
      /\ \/ phase'[s] = next /\ fsm'[s] = to
         \/ phase'[s] = "closing" /\ fsm'[s] = fsm[s]
    BY DEF TypeOK, Advance
<1>3. TypeOK'
    BY <1>1 DEF TypeOK
<1>4. FailedRuntimeIsNotCurrent'
    BY <1>2 DEF TypeOK, FailedRuntimeIsNotCurrent
<1>5. HaltedIsBeingKilled'
    BY <1>2 DEF HaltedIsBeingKilled
<1>6. ~started[s]
    BY DEF StartedAfterBoot
<1>7. StartedAfterBoot'
    BY <1>2, <1>6 DEF StartedAfterBoot
<1>8. StartedIsBooted'
    BY <1>2, <1>6 DEF StartedIsBooted
<1> QED BY <1>3, <1>4, <1>5, <1>7, <1>8

LEMMA StartFailsPreserves ==
    ASSUME IInv, NEW s \in Starts, StartFails(s)
    PROVE  IInv'
<1> USE BotAssumption DEF IInv, StartFails, controllerVars, singletonVars
<1>1. TypeOK'
    BY DEF TypeOK, InFlightPhases
<1>2. FailedRuntimeIsNotCurrent'
    BY DEF TypeOK, FailedRuntimeIsNotCurrent
<1>3. HaltedIsBeingKilled'
    BY DEF HaltedIsBeingKilled
<1>4. StartedAfterBoot' /\ StartedIsBooted'
    BY DEF TypeOK, StartedAfterBoot, StartedIsBooted
<1> QED BY <1>1, <1>2, <1>3, <1>4

\* Answering the waiters of a start takes no kill away.
LEMMA AnswerKeepsKills ==
    ASSUME TypeOK, NEW s \in Starts, Answer(s)
    PROVE  /\ req' \in [Requests -> {NoRequest}
                            \cup [kind : {"run", "read", "kill"}, on : Starts]]
           /\ \A r \in Requests : req[r].kind = "kill" => req'[r] = req[r]
<1>1. \A r \in Waiting(s, "run") \cup Waiting(s, "read") : req[r].kind # "kill"
    BY DEF Waiting
<1> QED BY <1>1 DEF Answer, TypeOK

LEMMA StartResolvesPreserves ==
    ASSUME IInv, NEW s \in Starts, StartResolves(s)
    PROVE  IInv'
<1> USE BotAssumption DEF IInv, StartResolves, controllerVars
<1>0. /\ req' \in [Requests -> {NoRequest}
                       \cup [kind : {"run", "read", "kill"}, on : Starts]]
      /\ \A r \in Requests : req[r].kind = "kill" => req'[r] = req[r]
    BY AnswerKeepsKills
<1>1. TypeOK'
    <2>1. bot' \in {"STOPPED", "RUNNING", "PAUSED"} /\ loop' \in BOOLEAN
        BY DEF TypeOK
    <2>2. phase' \in [Starts -> InFlightPhases \cup {"unused", "done", "failed"}]
        BY DEF TypeOK
    <2> QED BY <1>0, <2>1, <2>2 DEF TypeOK
<1>2. FailedRuntimeIsNotCurrent'
    BY DEF TypeOK, FailedRuntimeIsNotCurrent
<1>3. HaltedIsBeingKilled'
    <2> SUFFICES ASSUME NEW t \in Starts, fsm'[t] = "HALTED"
                 PROVE  \E q \in Requests : req'[q] = [kind |-> "kill", on |-> t]
        BY DEF HaltedIsBeingKilled
    <2>1. fsm[t] = "HALTED"
        BY DEF TypeOK
    <2>2. PICK q \in Requests : req[q] = [kind |-> "kill", on |-> t]
        BY <2>1 DEF HaltedIsBeingKilled
    <2>3. req[q].kind = "kill"
        BY <2>2
    <2> QED BY <1>0, <2>2, <2>3
<1>4. StartedAfterBoot' /\ StartedIsBooted'
    BY DEF TypeOK, StartedAfterBoot, StartedIsBooted
<1> QED BY <1>1, <1>2, <1>3, <1>4

LEMMA StartRejectsPreserves ==
    ASSUME IInv, NEW s \in Starts, StartRejects(s)
    PROVE  IInv'
<1> USE BotAssumption DEF IInv, StartRejects
<1>0. /\ req' \in [Requests -> {NoRequest}
                       \cup [kind : {"run", "read", "kill"}, on : Starts]]
      /\ \A r \in Requests : req[r].kind = "kill" => req'[r] = req[r]
    BY AnswerKeepsKills
<1>1. TypeOK'
    <2>1. loop' \in BOOLEAN
        BY DEF TypeOK
    <2>2. /\ phase' \in [Starts -> InFlightPhases \cup {"unused", "done", "failed"}]
          /\ started' \in [Starts -> BOOLEAN]
          /\ fsm' \in [Starts -> FsmStates]
        BY DEF TypeOK, FsmStates
    <2> QED BY <1>0, <2>1, <2>2 DEF TypeOK
<1>2. FailedRuntimeIsNotCurrent'
    BY DEF FailedRuntimeIsNotCurrent
<1>3. HaltedIsBeingKilled'
    <2> SUFFICES ASSUME NEW t \in Starts, fsm'[t] = "HALTED"
                 PROVE  \E q \in Requests : req'[q] = [kind |-> "kill", on |-> t]
        BY DEF HaltedIsBeingKilled
    <2>1. fsm[t] = "HALTED"
        BY DEF TypeOK
    <2>2. PICK q \in Requests : req[q] = [kind |-> "kill", on |-> t]
        BY <2>1 DEF HaltedIsBeingKilled
    <2>3. req[q].kind = "kill"
        BY <2>2
    <2> QED BY <1>0, <2>2, <2>3
<1>4. StartedAfterBoot' /\ StartedIsBooted'
    BY DEF TypeOK, StartedAfterBoot, StartedIsBooted
<1> QED BY <1>1, <1>2, <1>3, <1>4

LEMMA StartStepPreserves ==
    ASSUME IInv, NEW s \in Starts, StartStep(s)
    PROVE  IInv'
<1>1. CASE WalletReady(s)
    <2>1. UNCHANGED <<started, controllerVars, singletonVars, req>>
        BY <1>1 DEF WalletReady
    <2> QED BY <1>1, <2>1, BootStepPreserves DEF WalletReady
<1>2. CASE Connected(s)
    <2>1. UNCHANGED <<started, controllerVars, singletonVars, req>>
        BY <1>2 DEF Connected
    <2> QED BY <1>2, <2>1, BootStepPreserves DEF Connected
<1>3. CASE Subscribed(s)
    BY <1>3, BootStepPreserves DEF Subscribed
<1>4. CASE StartFails(s)
    BY <1>4, StartFailsPreserves
<1>5. CASE StartResolves(s)
    BY <1>5, StartResolvesPreserves
<1>6. CASE StartRejects(s)
    BY <1>6, StartRejectsPreserves
<1> QED BY <1>1, <1>2, <1>3, <1>4, <1>5, <1>6 DEF StartStep

-----------------------------------------------------------------------------
(* Kills                                                                   *)

LEMMA KillUnstartedPreserves ==
    ASSUME IInv, KillUnstarted
    PROVE  IInv'
<1> USE BotAssumption DEF IInv, KillUnstarted, Stopped
<1>1. TypeOK'
    BY DEF TypeOK, FsmStates
<1>2. FailedRuntimeIsNotCurrent'
    BY DEF FailedRuntimeIsNotCurrent
<1>3. HaltedIsBeingKilled'
    BY DEF HaltedIsBeingKilled
<1>4. StartedAfterBoot'
    BY DEF StartedAfterBoot
<1>5. StartedIsBooted'
    BY DEF StartedIsBooted, CurrentIsStarted
<1> QED BY <1>1, <1>2, <1>3, <1>4, <1>5

LEMMA KillPreserves ==
    ASSUME IInv, NEW r \in Operators, Kill(r)
    PROVE  IInv'
<1> USE BotAssumption DEF IInv, Kill, singletonVars
<1>0. r \in Requests /\ current \in Starts
    BY DEF Requests, CurrentIsStarted
<1>1. TypeOK'
    BY <1>0 DEF TypeOK, FsmStates
<1>2. FailedRuntimeIsNotCurrent'
    BY DEF FailedRuntimeIsNotCurrent
<1>3. HaltedIsBeingKilled'
    <2> SUFFICES ASSUME NEW s \in Starts, fsm'[s] = "HALTED"
                 PROVE  \E q \in Requests : req'[q] = [kind |-> "kill", on |-> s]
        BY DEF HaltedIsBeingKilled
    <2>1. CASE s = current
        <3>1. req'[r] = [kind |-> "kill", on |-> s]
            BY <1>0, <2>1 DEF TypeOK
        <3> QED BY <1>0, <3>1
    <2>2. CASE s # current
        <3>1. PICK q \in Requests : req[q] = [kind |-> "kill", on |-> s]
            BY <1>0, <2>2 DEF TypeOK, HaltedIsBeingKilled
        <3>2. req[q].kind # req[r].kind
            BY <3>1 DEF Answered, NoRequest
        <3>3. req'[q] = req[q]
            BY <3>2 DEF TypeOK
        <3> QED BY <3>1, <3>3
    <2> QED BY <2>1, <2>2
<1>4. StartedAfterBoot'
    BY DEF StartedAfterBoot
<1>5. StartedIsBooted'
    BY <1>0 DEF TypeOK, StartedIsBooted
<1> QED BY <1>1, <1>2, <1>3, <1>4, <1>5

LEMMA KilledPreserves ==
    ASSUME IInv, NEW r \in Operators, Killed(r)
    PROVE  IInv'
<1> USE BotAssumption DEF IInv, Killed, Stopped
<1>0. r \in Requests /\ req[r].on \in Starts
    BY DEF Requests, TypeOK, NoRequest
<1>1. TypeOK'
    BY <1>0 DEF TypeOK, FsmStates
<1>2. FailedRuntimeIsNotCurrent'
    BY DEF FailedRuntimeIsNotCurrent
<1>3. HaltedIsBeingKilled'
    <2> SUFFICES ASSUME NEW s \in Starts, fsm'[s] = "HALTED"
                 PROVE  \E q \in Requests : req'[q] = [kind |-> "kill", on |-> s]
        BY DEF HaltedIsBeingKilled
    <2>1. s # req[r].on /\ fsm[s] = "HALTED"
        BY <1>0 DEF TypeOK
    <2>2. PICK q \in Requests : req[q] = [kind |-> "kill", on |-> s]
        BY <2>1 DEF HaltedIsBeingKilled
    <2>3. req'[q] = req[q]
        BY <2>1, <2>2 DEF TypeOK
    <2> QED BY <2>2, <2>3
<1>4. StartedAfterBoot' /\ StartedIsBooted'
    BY <1>0 DEF TypeOK, StartedAfterBoot, StartedIsBooted
<1> QED BY <1>1, <1>2, <1>3, <1>4

-----------------------------------------------------------------------------
(* Theorems                                                                *)

\* The inductive invariant is preserved by every step.
LEMMA NextPreserves == IInv /\ [Next]_vars => IInv'
<1> SUFFICES ASSUME IInv, [Next]_vars PROVE IInv'
    OBVIOUS
<1>1. CASE Poll \/ Pause
    BY <1>1, PollPreserves
<1>2. CASE KillUnstarted
    BY <1>2, KillUnstartedPreserves
<1>3. ASSUME NEW r \in Operators, Run(r) \/ Kill(r) \/ Killed(r) PROVE IInv'
    BY <1>3, RunPreserves, KillPreserves, KilledPreserves
<1>4. ASSUME NEW r \in Readers, Read(r) PROVE IInv'
    BY <1>4, ReadPreserves
<1>5. ASSUME NEW s \in Starts, StartStep(s) PROVE IInv'
    BY <1>5, StartStepPreserves
<1>6. CASE UNCHANGED vars
    BY <1>6 DEF vars, controllerVars, singletonVars, runtimeVars, IInv, TypeOK,
        FailedRuntimeIsNotCurrent, HaltedIsBeingKilled, StartedAfterBoot,
        StartedIsBooted
<1> QED BY <1>1, <1>2, <1>3, <1>4, <1>5, <1>6 DEF Next

LEMMA Invariance == Spec => []IInv
<1> QED BY InitEstablishes, NextPreserves, PTL DEF Spec

\* The controller, the singleton and the runtimes keep their types, and only a
\* request that is waiting refers to a start (botController.ts:45-47,
\* runtimeSingleton.ts:146-150).
THEOREM TypeCorrectness == Spec => []TypeOK
<1>1. IInv => TypeOK
    BY DEF IInv
<1> QED BY <1>1, Invariance, PTL

\* However many starts, kills and reads overlap, the singleton never keeps the
\* runtime of a failed start (runtimeSingleton.ts:229-233).
THEOREM FailedRuntimeSafety == Spec => []FailedRuntimeIsNotCurrent
<1>1. IInv => FailedRuntimeIsNotCurrent
    BY DEF IInv
<1> QED BY <1>1, Invariance, PTL

\* No interleaving leaves a runtime in HALTED with nobody to reset it
\* (tradingRuntime.ts:1604-1612).
THEOREM NoRuntimeIsLeftHalted == Spec => []HaltedIsBeingKilled
<1>1. IInv => HaltedIsBeingKilled
    BY DEF IInv
<1> QED BY <1>1, Invariance, PTL

\* A runtime that counts as started has completed its boot sequence, even if
\* it was killed in the middle of it (tradingRuntime.ts:694-697).
THEOREM StartedRuntimeIsBooted == Spec => []StartedIsBooted
<1>1. IInv => StartedIsBooted
    BY DEF IInv
<1> QED BY <1>1, Invariance, PTL

-----------------------------------------------------------------------------
(* One operator                                                            *)

\* Nobody else waits for anything.
OthersAnswered == \A r \in Requests \ {o1} : Answered(r)

\* The one start that may be in flight is the operator's run, of a bot that is
\* stopped; at its end the runtime is started.
StartIsAwaited ==
    \A s \in Starts : phase[s] \in InFlightPhases =>
        /\ promise = s
        /\ current = s
        /\ bot = "STOPPED"
        /\ req[o1] = [kind |-> "run", on |-> s]
        /\ phase[s] = "warming" => started[s]

\* A kill under way is one of the runtime there is.
KillIsOfCurrent ==
    req[o1].kind = "kill" => req[o1].on = current /\ current \in Starts

\* A bot that is running or paused has a started runtime,
BotIsStarted == bot # "STOPPED" => CurrentIsStarted

\* and if it is running its loop is armed.
LoopIsArmed == bot = "RUNNING" => loop \/ req[o1].kind = "kill"

Solo ==
    /\ OthersAnswered
    /\ StartIsAwaited
    /\ KillIsOfCurrent
    /\ OneRuntime
    /\ BotIsStarted
    /\ LoopIsArmed

LEMMA OneOperator == o1 \in Requests
BY LoneOperator DEF Requests, LoneOperator

LEMMA InitIsSolo == Init => Solo
BY OneOperator DEF Init, Solo, OthersAnswered, StartIsAwaited, KillIsOfCurrent, OneRuntime,
       BotIsStarted, LoopIsArmed, Answered, NoRequest, InFlightPhases

LEMMA InFlightIsRun ==
    ASSUME Solo, NEW s \in Starts, phase[s] \in InFlightPhases
    PROVE  req[o1].kind = "run"
<1>1. req[o1] = [kind |-> "run", on |-> s]
    BY DEF Solo, StartIsAwaited
<1> QED BY <1>1

\* The operator gives a command only when nothing is in flight.
LEMMA NothingInFlight ==
    ASSUME Solo, Answered(o1)
    PROVE  \A s \in Starts : phase[s] \notin InFlightPhases
<1>1. req[o1].kind = "none"
    BY DEF Answered, NoRequest
<1> QED BY <1>1, InFlightIsRun

LEMMA PollKeepsSolo == IInv /\ Solo /\ (Poll \/ Pause) => Solo'
<1> SUFFICES ASSUME IInv, Solo, Poll \/ Pause PROVE Solo'
    OBVIOUS
<1>1. /\ current \in Starts => current' = current
      /\ current' \in {current, Placeholder}
      /\ UNCHANGED <<promise, phase, started, fsm, req>>
      /\ \/ bot' = bot /\ loop' = loop
         \/ bot = "RUNNING" /\ bot' = "PAUSED"
    BY BotAssumption DEF Poll, Pause, HookedRuntime, controllerVars, runtimeVars, BotAssumption
<1>2. OthersAnswered'
    BY <1>1 DEF Solo, OthersAnswered, Answered
<1>3. StartIsAwaited'
    BY <1>1 DEF Solo, StartIsAwaited
<1>4. KillIsOfCurrent'
    BY <1>1 DEF Solo, KillIsOfCurrent
<1>5. OneRuntime'
    BY <1>1 DEF Solo, OneRuntime
<1>6. BotIsStarted' /\ LoopIsArmed'
    BY <1>1 DEF Solo, BotIsStarted, LoopIsArmed, CurrentIsStarted
<1> QED BY <1>2, <1>3, <1>4, <1>5, <1>6 DEF Solo

LEMMA KillUnstartedKeepsSolo == Solo /\ KillUnstarted => Solo'
BY DEF Solo, BotIsStarted, KillUnstarted

LEMMA RunKeepsSolo == IInv /\ Solo /\ Run(o1) => Solo'
<1> SUFFICES ASSUME IInv, Solo, Run(o1) PROVE Solo'
    OBVIOUS
<1>0. /\ \A s \in Starts : phase[s] \notin InFlightPhases
      /\ req[o1] = NoRequest
      /\ promise \in Starts \cup {None}
    BY NothingInFlight DEF Run, Answered, IInv, TypeOK
<1>1. CASE CurrentIsStarted
    <2>1. bot' = "RUNNING" /\ loop' /\ UNCHANGED <<current, promise, phase, started, fsm, req>>
        BY <1>1 DEF Run, singletonVars, runtimeVars
    <2> QED BY <1>0, <1>1, <2>1 DEF Solo, OthersAnswered, Answered, StartIsAwaited,
                KillIsOfCurrent, OneRuntime, BotIsStarted, LoopIsArmed, CurrentIsStarted
<1>2. CASE ~CurrentIsStarted
    <2>1. bot = "STOPPED" /\ bot' = bot /\ \A s \in Starts : ~started[s]
        BY <1>2 DEF Run, Solo, BotIsStarted, OneRuntime, CurrentIsStarted
    <2>2. CASE promise # None
        <3>1. UNCHANGED <<phase, started, req>>
            BY <1>0, <1>2, <2>2 DEF Run, AwaitStart, AwaitRejected, runtimeVars
        <3> QED BY <1>0, <2>1, <3>1 DEF Solo, OthersAnswered, Answered, StartIsAwaited,
                    KillIsOfCurrent, OneRuntime, BotIsStarted, LoopIsArmed, NoRequest
    <2>3. CASE promise = None
        <3>1. PICK s \in Starts : BeginStart(o1, "run", s) \/ BeginRejectedStart(s)
            BY <1>2, <2>3 DEF Run
        <3>2. CASE BeginStart(o1, "run", s)
            <4>1. /\ phase' = [phase EXCEPT ![s] = "wallet"]
                  /\ promise' = s /\ current' = s /\ started' = started
                  /\ req' = [req EXCEPT ![o1] = [kind |-> "run", on |-> s]]
                BY <3>2 DEF BeginStart
            <4>2. /\ req'[o1] = [kind |-> "run", on |-> s]
                  /\ \A r \in Requests \ {o1} : req'[r] = req[r]
                BY <4>1, OneOperator DEF IInv, TypeOK
            <4>3. StartIsAwaited'
                BY <1>0, <2>1, <4>1, <4>2 DEF StartIsAwaited, IInv, TypeOK
            <4> QED BY <2>1, <4>1, <4>2, <4>3 DEF Solo, OthersAnswered, Answered,
                        KillIsOfCurrent, OneRuntime, BotIsStarted, LoopIsArmed
        <3>3. CASE BeginRejectedStart(s)
            <4>1. /\ phase' = [phase EXCEPT ![s] = "failed"]
                  /\ started' = started /\ req' = req
                BY <3>3 DEF BeginRejectedStart
            <4>2. StartIsAwaited'
                BY <1>0, <4>1 DEF StartIsAwaited, InFlightPhases, IInv, TypeOK
            <4> QED BY <1>0, <2>1, <4>1, <4>2 DEF Solo, OthersAnswered, Answered,
                        KillIsOfCurrent, OneRuntime, BotIsStarted, LoopIsArmed, NoRequest
        <3> QED BY <3>1, <3>2, <3>3
    <2> QED BY <2>2, <2>3
<1> QED BY <1>1, <1>2

LEMMA KillKeepsSolo == IInv /\ Solo /\ Kill(o1) => Solo'
<1> SUFFICES ASSUME IInv, Solo, Kill(o1) PROVE Solo'
    OBVIOUS
<1>0. \A s \in Starts : phase[s] \notin InFlightPhases
    BY NothingInFlight DEF Kill
<1>1. /\ CurrentIsStarted
      /\ UNCHANGED <<bot, current, promise, phase, started>>
      /\ req'[o1] = [kind |-> "kill", on |-> current]
      /\ \A r \in Requests \ {o1} : req'[r] = req[r]
    BY OneOperator DEF Kill, singletonVars, IInv, TypeOK
<1> QED BY <1>0, <1>1 DEF Solo, OthersAnswered, Answered, StartIsAwaited, KillIsOfCurrent,
            OneRuntime, BotIsStarted, LoopIsArmed, CurrentIsStarted

LEMMA KilledKeepsSolo == IInv /\ Solo /\ Killed(o1) => Solo'
<1> SUFFICES ASSUME IInv, Solo, Killed(o1) PROVE Solo'
    OBVIOUS
<1>0. /\ req[o1].on = current /\ current \in Starts
      /\ \A s \in Starts : phase[s] \notin InFlightPhases
    <2>1. req[o1].kind = "kill"
        BY DEF Killed
    <2> QED BY <2>1, InFlightIsRun DEF Solo, KillIsOfCurrent
<1>1. /\ bot' = "STOPPED" /\ phase' = phase
      /\ started' = [started EXCEPT ![current] = FALSE]
      /\ req'[o1] = NoRequest
      /\ \A r \in Requests \ {o1} : req'[r] = req[r]
    BY <1>0, OneOperator DEF Killed, Stopped, IInv, TypeOK
<1>2. \A s \in Starts : ~started'[s]
    BY <1>0, <1>1 DEF Solo, OneRuntime, IInv, TypeOK
<1> QED BY <1>0, <1>1, <1>2 DEF Solo, OthersAnswered, Answered, StartIsAwaited,
            KillIsOfCurrent, OneRuntime, BotIsStarted, LoopIsArmed, NoRequest

\* A step of the start on the way to its end.
LEMMA BootStepKeepsSolo ==
    ASSUME IInv, Solo, NEW s \in Starts, phase[s] \in InFlightPhases,
           NEW next \in InFlightPhases, phase' = [phase EXCEPT ![s] = next],
           started' \in {started, [started EXCEPT ![s] = TRUE]},
           next = "warming" => started' = [started EXCEPT ![s] = TRUE],
           UNCHANGED <<controllerVars, singletonVars, req>>
    PROVE  Solo'
<1> USE DEF controllerVars, singletonVars
<1>1. OthersAnswered' /\ KillIsOfCurrent' /\ LoopIsArmed'
    BY DEF Solo, OthersAnswered, Answered, KillIsOfCurrent, LoopIsArmed
<1>2. StartIsAwaited'
    <2>1. \A t \in Starts : phase'[t] \in InFlightPhases => phase[t] \in InFlightPhases
        BY DEF IInv, TypeOK
    <2>2. ASSUME NEW t \in Starts, phase'[t] = "warming" PROVE started'[t]
        <3>1. CASE t = s
            BY <2>2, <3>1 DEF IInv, TypeOK
        <3>2. CASE t # s
            BY <2>2, <3>2 DEF Solo, StartIsAwaited, InFlightPhases, IInv, TypeOK
        <3> QED BY <3>1, <3>2
    <2>3. /\ promise' = promise /\ current' = current /\ bot' = bot /\ req' = req
        OBVIOUS
    <2> SUFFICES ASSUME NEW t \in Starts, phase'[t] \in InFlightPhases
                 PROVE  /\ promise' = t /\ current' = t /\ bot' = "STOPPED"
                        /\ req'[o1] = [kind |-> "run", on |-> t]
        BY <2>2 DEF StartIsAwaited
    <2>4. /\ promise = t /\ current = t /\ bot = "STOPPED"
          /\ req[o1] = [kind |-> "run", on |-> t]
        BY <2>1 DEF Solo, StartIsAwaited
    <2> QED BY <2>3, <2>4
<1>3. OneRuntime'
    <2>1. current' = s /\ current = s
        BY DEF Solo, StartIsAwaited
    <2>2. \A t \in Starts \ {s} : started'[t] = started[t]
        BY DEF IInv, TypeOK
    <2> QED BY <2>1, <2>2 DEF Solo, OneRuntime
<1>4. BotIsStarted'
    BY DEF Solo, StartIsAwaited, BotIsStarted
<1> QED BY <1>1, <1>2, <1>3, <1>4 DEF Solo

\* The operator's run is answered when its start is over.
LEMMA AnswerOfSolo ==
    ASSUME IInv, Solo, NEW s \in Starts, phase[s] \in InFlightPhases, Answer(s)
    PROVE  /\ o1 \in Waiting(s, "run")
           /\ \A r \in Requests : req'[r] = NoRequest
<1>1. req[o1] = [kind |-> "run", on |-> s]
    BY DEF Solo, StartIsAwaited
<1>2. o1 \in Waiting(s, "run")
    BY <1>1, OneOperator DEF Waiting
<1>3. \A r \in Requests \ {o1} : req[r] = NoRequest
    BY DEF Solo, OthersAnswered, Answered
<1> QED BY <1>2, <1>3 DEF Answer

LEMMA StartResolvesKeepsSolo ==
    ASSUME IInv, Solo, NEW s \in Starts, StartResolves(s)
    PROVE  Solo'
<1>0. /\ current = s /\ started[s]
      /\ \A t \in Starts : phase[t] \in InFlightPhases => t = s
    BY DEF Solo, StartIsAwaited, StartResolves, InFlightPhases
<1>1. /\ o1 \in Waiting(s, "run")
      /\ \A r \in Requests : req'[r] = NoRequest
    BY AnswerOfSolo DEF StartResolves, InFlightPhases
<1>2. /\ loop' = TRUE /\ bot' = "RUNNING"
      /\ phase' = [phase EXCEPT ![s] = "done"]
      /\ started' = started /\ current' = current
    BY <1>0, <1>1, BotAssumption DEF StartResolves, BotAssumption
<1>3. StartIsAwaited'
    BY <1>0, <1>2 DEF StartIsAwaited, InFlightPhases, IInv, TypeOK
<1>4. OneRuntime' /\ BotIsStarted'
    BY <1>0, <1>2 DEF Solo, OneRuntime, BotIsStarted, CurrentIsStarted
<1> QED BY <1>1, <1>2, <1>3, <1>4, OneOperator DEF Solo, OthersAnswered, Answered,
            KillIsOfCurrent, LoopIsArmed, NoRequest

LEMMA StartRejectsKeepsSolo ==
    ASSUME IInv, Solo, NEW s \in Starts, StartRejects(s)
    PROVE  Solo'
<1>0. /\ current = s /\ bot = "STOPPED" /\ phase[s] \in InFlightPhases
      /\ \A t \in Starts : phase[t] \in InFlightPhases => t = s
    BY DEF Solo, StartIsAwaited, StartRejects, InFlightPhases
<1>1. \A r \in Requests : req'[r] = NoRequest
    BY <1>0, AnswerOfSolo DEF StartRejects
<1>2. /\ bot' = "STOPPED"
      /\ phase' = [phase EXCEPT ![s] = "failed"]
      /\ started' = [started EXCEPT ![s] = FALSE]
    BY <1>0 DEF StartRejects
<1>3. StartIsAwaited'
    BY <1>0, <1>2 DEF StartIsAwaited, InFlightPhases, IInv, TypeOK
<1>4. OneRuntime' /\ BotIsStarted'
    BY <1>0, <1>2 DEF Solo, OneRuntime, BotIsStarted, IInv, TypeOK
<1> QED BY <1>1, <1>2, <1>3, <1>4, OneOperator DEF Solo, OthersAnswered, Answered,
            KillIsOfCurrent, LoopIsArmed, NoRequest

LEMMA StartStepKeepsSolo ==
    ASSUME IInv, Solo, NEW s \in Starts, StartStep(s)
    PROVE  Solo'
<1>1. CASE WalletReady(s) \/ Connected(s)
    <2>1. PICK next \in InFlightPhases \ {"warming"} : phase' = [phase EXCEPT ![s] = next]
        BY <1>1 DEF WalletReady, Connected, Advance, InFlightPhases
    <2>2. /\ phase[s] \in InFlightPhases
          /\ started' = started
          /\ UNCHANGED <<controllerVars, singletonVars, req>>
        BY <1>1 DEF WalletReady, Connected, InFlightPhases
    <2> QED BY <2>1, <2>2, BootStepKeepsSolo
<1>2. CASE Subscribed(s)
    <2>1. PICK next \in InFlightPhases : phase' = [phase EXCEPT ![s] = next]
        BY <1>2 DEF Subscribed, Advance, InFlightPhases
    <2>2. /\ phase[s] \in InFlightPhases
          /\ started' = [started EXCEPT ![s] = TRUE]
          /\ UNCHANGED <<controllerVars, singletonVars, req>>
        BY <1>2 DEF Subscribed, InFlightPhases
    <2> QED BY <2>1, <2>2, BootStepKeepsSolo
<1>3. CASE StartFails(s)
    <2>1. /\ phase[s] \in InFlightPhases
          /\ "closing" \in InFlightPhases
          /\ phase' = [phase EXCEPT ![s] = "closing"]
          /\ started' = started
          /\ UNCHANGED <<controllerVars, singletonVars, req>>
        BY <1>3 DEF StartFails, InFlightPhases
    <2> QED BY <2>1, BootStepKeepsSolo
<1>4. CASE StartResolves(s)
    BY <1>4, StartResolvesKeepsSolo
<1>5. CASE StartRejects(s)
    BY <1>5, StartRejectsKeepsSolo
<1> QED BY <1>1, <1>2, <1>3, <1>4, <1>5 DEF StartStep

\* The steps of MCBotControl are steps of BotControl.
LEMMA MCNextIsNext == [MCNext]_<<vars, alone>> => [Next]_vars /\ alone' = alone
BY DEF MCNext, Next, Shared

LEMMA MCNextKeepsSolo ==
    ASSUME IInv, alone => Solo, [MCNext]_<<vars, alone>>
    PROVE  (alone => Solo)'
<1> SUFFICES ASSUME alone' PROVE Solo'
    OBVIOUS
<1>0. alone /\ Solo
    BY MCNextIsNext
<1>1. CASE Poll \/ Pause
    BY <1>0, <1>1, PollKeepsSolo
<1>2. CASE KillUnstarted
    BY <1>0, <1>2, KillUnstartedKeepsSolo
<1>3. ASSUME NEW r \in Operators, r = o1, Run(r) \/ Kill(r) \/ Killed(r) PROVE Solo'
    BY <1>0, <1>3, RunKeepsSolo, KillKeepsSolo, KilledKeepsSolo
<1>4. ASSUME NEW s \in Starts, StartStep(s) PROVE Solo'
    BY <1>0, <1>4, StartStepKeepsSolo
<1>5. CASE UNCHANGED <<vars, alone>>
    BY <1>0, <1>5 DEF vars, controllerVars, singletonVars, runtimeVars, Solo, OthersAnswered,
        Answered, StartIsAwaited, KillIsOfCurrent, OneRuntime, BotIsStarted, LoopIsArmed,
        CurrentIsStarted
<1> QED BY <1>0, <1>1, <1>2, <1>3, <1>4, <1>5 DEF MCNext, Shared

LEMMA SoloInvariance == MCSpec => [](IInv /\ (alone => Solo))
<1>1. MCInit => IInv /\ (alone => Solo)
    BY InitEstablishes, InitIsSolo DEF MCInit
<1>2. IInv /\ (alone => Solo) /\ [MCNext]_<<vars, alone>> => (IInv /\ (alone => Solo))'
    BY NextPreserves, MCNextIsNext, MCNextKeepsSolo
<1> QED BY <1>1, <1>2, PTL DEF MCSpec

\* One operator who gives a command at a time has at most one started runtime, and
\* the singleton holds it (runtimeHooks.ts:4-7), whatever starts fail or are killed.
THEOREM OneRuntimeForOne == MCSpec => []OneRuntimeAlone
<1>1. (alone => Solo) => OneRuntimeAlone
    BY DEF OneRuntimeAlone, Solo
<1> QED BY <1>1, SoloInvariance, PTL

\* And a bot that reports RUNNING to that operator has its loop armed and a started
\* runtime, but for a kill under way (botController.ts:31).
THEOREM RunningIsTickedForOne == MCSpec => []RunningIsTickedAlone
<1>1. (alone => Solo) => RunningIsTickedAlone
    BY OneOperator DEF RunningIsTickedAlone, RunningIsTicked, Solo, BotIsStarted, LoopIsArmed
<1> QED BY <1>1, SoloInvariance, PTL
=============================================================================
