---------------------------- MODULE MCBotControl ----------------------------
(***************************************************************************)
(* Small instances of BotControl for TLC.  A behaviour has any number of   *)
(* requests at a time, or is `alone': one operator gives its commands one  *)
(* at a time and nothing else reads the singleton.                         *)
(***************************************************************************)
EXTENDS BotControl

CONSTANTS s1, s2, s3, o1, o2, a1

ASSUME LoneOperator == o1 \in Operators

VARIABLE alone

MCInit == Init /\ alone \in BOOLEAN

Shared(A) == A /\ UNCHANGED alone

MCNext ==
    \/ Shared(Poll)
    \/ Shared(Pause)
    \/ Shared(KillUnstarted)
    \/ \E r \in Operators :
           /\ alone => r = o1
           /\ Shared(Run(r)) \/ Shared(Kill(r)) \/ Shared(Killed(r))
    \/ \E r \in Readers : ~alone /\ Shared(Read(r))
    \/ \E s \in Starts : Shared(StartStep(s))

MCSpec == MCInit /\ [][MCNext]_<<vars, alone>> /\ Fairness

\* One operator: at most one runtime is started, the singleton's
\* (runtimeHooks.ts:4-7).
OneRuntimeAlone == alone => OneRuntime

\* One operator: a bot that reports RUNNING has a started runtime and its loop
\* armed, but for a kill under way (botController.ts:31).
RunningIsTickedAlone == alone => RunningIsTicked
=============================================================================
