-------------------------- MODULE PairSwitchProofs --------------------------
(***************************************************************************)
(* Theorems about PairSwitch for every set of pairs, runs and ticks: type  *)
(* correctness, the safety of the switch machine under any number of       *)
(* overtaken, reset and failed runs, and the refinement of SwitchedPair.   *)
(***************************************************************************)
EXTENDS PairSwitch, TLAPS

\* The inductive invariant.  The four facts about the machine need each other:
\* that a stale run may drive the newest switch is harmless to NeverWedged only
\* because a machine that is frozen belongs to a run that has not returned.
IInv ==
    /\ TypeOK
    /\ AnnouncedPair
    /\ ContextOfActivePair
    /\ NeverWedged
    /\ PendingIsInFlight

-----------------------------------------------------------------------------
(* Lemmas about the helpers                                                *)

\* The phases a run advances to after an await can be reached from neither
\* READY nor FAILED.
LEMMA AdvancePhases ==
    ASSUME NEW from \in StablePhases,
           NEW to \in {"WAIT_FIRST_BOOK", "WAIT_FIRST_TAPE",
                       "REFRESH_BALANCES", "VALIDATE_DATA_TRUTH"},
           CanAdvance(from, to)
    PROVE  from \notin {"READY", "FAILED"}
  BY DEF CanAdvance, ValidTransitions, Phases, StablePhases

\* Writing a boolean field keeps a context a context of the same pair.
LEMMA NotedContext ==
    ASSUME NEW ctx \in Contexts \cup {NoContext}, NEW value \in BOOLEAN,
           NEW field \in {"hasBook", "hasTape", "hasBalances", "dataValid"}
    PROVE  /\ Noted(ctx, field, value) \in Contexts \cup {NoContext}
           /\ Noted(ctx, field, value) = NoContext <=> ctx = NoContext
           /\ ctx # NoContext => Noted(ctx, field, value).pair = ctx.pair
  BY PairsAssumption DEF Noted, Contexts

\* What a run that resumes may do to the context: nothing but field writes.
SamePair(ctx) ==
    /\ ctx \in Contexts \cup {NoContext}
    /\ ctx = NoContext <=> context = NoContext
    /\ ctx # NoContext => ctx.pair = context.pair

\* A run that goes on leaves a frozen machine frozen, and stays in flight.
LEMMA AdvanceRunKeepsIInv ==
    ASSUME IInv, NEW r \in Runs, Awaiting(r),
           NEW to \in StablePhases \ {"READY", "FAILED"}, phase \notin {"READY", "FAILED"},
           NEW pc \in AwaitPcs, NEW asked \in Pairs \cup {NoPair},
           NEW ctx, SamePair(ctx), AdvanceRun(r, to, pc, asked, ctx),
           UNCHANGED <<activePair, switch, tickVars>>,
           book' \in Pairs \cup {NoPair}, connected' \in BOOLEAN
    PROVE  IInv'
  <1> USE DEF AdvanceRun, AdvanceFsm, IInv
  <1>1. /\ run' \in [Runs -> [pc : {"free"} \cup AwaitPcs \cup SettlePcs,
                              asked : Pairs \cup {NoPair}]]
        /\ run'[r].pc = pc
        /\ \A q \in Runs \ {r} : run'[q] = run[q]
    BY DEF TypeOK
  <1>2. TypeOK'
    BY <1>1 DEF TypeOK, SamePair, tickVars
  <1>3. AnnouncedPair'
    BY DEF AnnouncedPair, IsReady
  <1>4. ContextOfActivePair'
    BY DEF ContextOfActivePair, SamePair, IsReady
  <1>5. NeverWedged'
    BY <1>1 DEF NeverWedged, Awaiting
  <1>6. PendingIsInFlight'
    BY <1>1 DEF PendingIsInFlight, InFlight, AwaitPcs
  <1> QED BY <1>2, <1>3, <1>4, <1>5, <1>6

\* A run that throws leaves a machine that was frozen FAILED, and is itself the
\* run that will recover it.
LEMMA FailRunKeepsIInv ==
    ASSUME IInv, NEW r \in Runs, Awaiting(r),
           NEW ctx, SamePair(ctx), FailRun(r, ctx),
           UNCHANGED <<activePair, switch, tickVars>>,
           book' \in Pairs \cup {NoPair}, connected' \in BOOLEAN
    PROVE  IInv'
  <1> USE DEF FailRun, AdvanceFsm, KeepFsm, fsmVars, IInv
  <1>1. /\ run' \in [Runs -> [pc : {"free"} \cup AwaitPcs \cup SettlePcs,
                              asked : Pairs \cup {NoPair}]]
        /\ run'[r].pc = "failed"
        /\ \A q \in Runs \ {r} : run'[q] = run[q]
    BY DEF TypeOK, SettlePcs
  <1>2. phase' \in {"READY", "FAILED"} /\ (phase' = "READY" <=> phase = "READY")
    BY DEF TypeOK
  <1>3. TypeOK'
    BY <1>1, <1>2 DEF TypeOK, SamePair, tickVars, StablePhases
  <1>4. AnnouncedPair'
    BY <1>2 DEF AnnouncedPair, IsReady
  <1>5. ContextOfActivePair'
    BY <1>2 DEF ContextOfActivePair, SamePair, IsReady
  <1>6. NeverWedged'
    BY <1>1, <1>2 DEF NeverWedged
  <1>7. PendingIsInFlight'
    BY <1>1 DEF PendingIsInFlight, InFlight
  <1> QED BY <1>3, <1>4, <1>5, <1>6, <1>7

-----------------------------------------------------------------------------
(* The invariant holds initially and is kept by every action               *)

LEMMA InitIInv == Init => IInv
  <1> SUFFICES ASSUME Init PROVE IInv
    OBVIOUS
  <1> USE PairsAssumption DEF Init
  <1>1. TypeOK
    BY DEF TypeOK, StablePhases, FreeRun, FreeTick
  <1>2. AnnouncedPair /\ ContextOfActivePair /\ NeverWedged /\ PendingIsInFlight
    BY DEF AnnouncedPair, ContextOfActivePair, NeverWedged, PendingIsInFlight, IsReady
  <1> QED BY <1>1, <1>2 DEF IInv

LEMMA SetActivePairKeepsIInv ==
    ASSUME IInv, NEW pair \in Pairs, NEW r \in Runs, SetActivePair(pair, r)
    PROVE  IInv'
  <1> USE PairsAssumption DEF SetActivePair, IInv
  <1>1. /\ run' \in [Runs -> [pc : {"free"} \cup AwaitPcs \cup SettlePcs,
                              asked : Pairs \cup {NoPair}]]
        /\ run'[r].pc \in {"subscribed", "subscribe"}
        /\ \A q \in Runs \ {r} : run'[q] = run[q]
    BY DEF TypeOK, AwaitPcs
  <1>2. TypeOK'
    BY <1>1 DEF TypeOK, StablePhases, Contexts, tickVars
  <1>3. AnnouncedPair'
    BY DEF TypeOK, AnnouncedPair, IsReady
  <1>4. ContextOfActivePair'
    <2>1. context' \in Contexts /\ context'.pair = pair
      BY DEF Contexts
    <2> QED BY <2>1 DEF ContextOfActivePair
  <1>5. NeverWedged' /\ PendingIsInFlight'
    BY <1>1 DEF NeverWedged, PendingIsInFlight, Awaiting, InFlight, AwaitPcs
  <1> QED BY <1>2, <1>3, <1>4, <1>5

LEMMA RefuseActivePairKeepsIInv ==
    ASSUME IInv, RefuseActivePair
    PROVE  IInv'
  <1> USE PairsAssumption DEF RefuseActivePair, ThawFsm, IInv
  <1>1. TypeOK'
    BY DEF TypeOK, StablePhases, tickVars
  <1>2. AnnouncedPair' /\ ContextOfActivePair' /\ NeverWedged' /\ PendingIsInFlight'
    BY DEF AnnouncedPair, ContextOfActivePair, NeverWedged, PendingIsInFlight,
           IsReady, InFlight
  <1> QED BY <1>1, <1>2

LEMMA RunStepKeepsIInv ==
    ASSUME IInv, NEW r \in Runs, RunStep(r)
    PROVE  IInv'
  <1> USE DEF IInv
  <1>0. SamePair(context) /\ activePair \in Pairs /\ phase \in StablePhases
    BY DEF TypeOK, SamePair
  <1>1. CASE Subscribed(r)
    <2> USE <1>1 DEF Subscribed
    <2>1. Awaiting(r) /\ connected' \in BOOLEAN /\ book' \in Pairs \cup {NoPair}
      BY DEF Awaiting, AwaitPcs, TypeOK
    <2>2. CASE CanAdvance(phase, "WAIT_FIRST_BOOK")
      BY <1>0, <2>1, <2>2, AdvancePhases, AdvanceRunKeepsIInv
      DEF AwaitPcs, StablePhases
    <2>3. CASE ~ CanAdvance(phase, "WAIT_FIRST_BOOK")
      BY <1>0, <2>1, <2>3, FailRunKeepsIInv
    <2> QED BY <2>2, <2>3
  <1>2. CASE SubscribeFailed(r)
    <2>1. Awaiting(r) /\ connected' \in BOOLEAN /\ book' \in Pairs \cup {NoPair}
      BY <1>2 DEF SubscribeFailed, Awaiting, AwaitPcs, TypeOK
    <2> QED BY <1>0, <1>2, <2>1, FailRunKeepsIInv DEF SubscribeFailed
  <1>3. CASE BookReceived(r)
    <2> DEFINE ctx == Noted(context, "hasBook", book' # NoPair)
    <2> DEFINE ctxTape == Noted(ctx, "hasTape", TRUE)
    <2>1. Awaiting(r) /\ connected' \in BOOLEAN /\ book' \in Pairs \cup {NoPair}
      BY <1>3 DEF BookReceived, Awaiting, AwaitPcs, TypeOK, BookAnswers
    <2>2. SamePair(ctx)
      BY <1>0, NotedContext DEF SamePair
    <2>3. SamePair(ctxTape)
      <3> HIDE DEF ctx
      <3> QED BY <2>2, NotedContext DEF SamePair
    <2>4. CASE CanAdvance(phase, "WAIT_FIRST_TAPE")
      <3>1. phase \notin {"READY", "FAILED"}
        BY <1>0, <2>4, AdvancePhases
      <3>2. "WAIT_FIRST_TAPE" \in StablePhases \ {"READY", "FAILED"}
            /\ "REFRESH_BALANCES" \in StablePhases \ {"READY", "FAILED"}
        BY DEF StablePhases
      <3>3. CASE AdvanceRun(r, "WAIT_FIRST_TAPE", "tape", NoPair, ctx)
        <4> HIDE DEF ctx
        <4> QED BY <1>3, <2>1, <2>2, <3>1, <3>2, <3>3, AdvanceRunKeepsIInv
                DEF AwaitPcs, BookReceived
      <3>4. CASE AdvanceRun(r, "REFRESH_BALANCES", "balances", NoPair, ctxTape)
        <4> HIDE DEF ctxTape
        <4> QED BY <1>3, <2>1, <2>3, <3>1, <3>2, <3>4, AdvanceRunKeepsIInv
                DEF AwaitPcs, BookReceived
      <3> QED BY <1>3, <2>4, <3>3, <3>4 DEF BookReceived
    <2>5. CASE ~ CanAdvance(phase, "WAIT_FIRST_TAPE")
      <3>1. FailRun(r, ctx) /\ UNCHANGED <<activePair, switch, tickVars>>
        BY <1>3, <2>5 DEF BookReceived
      <3> HIDE DEF ctx
      <3> QED BY <2>1, <2>2, <3>1, FailRunKeepsIInv
    <2> QED BY <2>4, <2>5
  <1>4. CASE TapeChecked(r)
    <2>1. PICK hasTape \in BOOLEAN :
              LET ctx == Noted(context, "hasTape", hasTape)
              IN  IF CanAdvance(phase, "REFRESH_BALANCES")
                  THEN AdvanceRun(r, "REFRESH_BALANCES", "balances", NoPair, ctx)
                  ELSE FailRun(r, ctx)
      BY <1>4 DEF TapeChecked
    <2> DEFINE ctx == Noted(context, "hasTape", hasTape)
    <2>2. SamePair(ctx)
      BY <1>0, NotedContext DEF SamePair
    <2>3. /\ Awaiting(r) /\ connected' \in BOOLEAN /\ book' \in Pairs \cup {NoPair}
          /\ UNCHANGED <<activePair, switch, tickVars>>
      BY <1>4 DEF TapeChecked, Awaiting, AwaitPcs, TypeOK
    <2>4. CASE CanAdvance(phase, "REFRESH_BALANCES")
      <3>1. AdvanceRun(r, "REFRESH_BALANCES", "balances", NoPair, ctx)
        BY <2>1, <2>4
      <3> HIDE DEF ctx
      <3> QED BY <1>0, <2>2, <2>3, <2>4, <3>1, AdvancePhases, AdvanceRunKeepsIInv
              DEF AwaitPcs, StablePhases
    <2>5. CASE ~ CanAdvance(phase, "REFRESH_BALANCES")
      <3>1. FailRun(r, ctx)
        BY <2>1, <2>5
      <3> HIDE DEF ctx
      <3> QED BY <2>2, <2>3, <3>1, FailRunKeepsIInv
    <2> QED BY <2>4, <2>5
  <1>5. CASE BalancesRefreshed(r)
    <2>1. PICK hasBalances \in BOOLEAN :
              LET ctx == Noted(context, "hasBalances", hasBalances)
              IN  IF CanAdvance(phase, "VALIDATE_DATA_TRUTH")
                  THEN /\ ThawFsm
                       /\ context' = Noted(ctx, "dataValid",
                                           connected /\ book # NoPair)
                       /\ run' = [run EXCEPT ![r].pc = "succeeded"]
                  ELSE FailRun(r, ctx)
      BY <1>5 DEF BalancesRefreshed
    <2> DEFINE ctx == Noted(context, "hasBalances", hasBalances)
    <2> DEFINE ctxValid == Noted(ctx, "dataValid", connected /\ book # NoPair)
    <2>2. SamePair(ctx)
      BY <1>0, NotedContext DEF SamePair
    <2>3. SamePair(ctxValid)
      <3>1. (connected /\ book # NoPair) \in BOOLEAN
        OBVIOUS
      <3> HIDE DEF ctx
      <3> QED BY <2>2, <3>1, NotedContext DEF SamePair
    <2>4. /\ Awaiting(r) /\ connected' \in BOOLEAN /\ book' \in Pairs \cup {NoPair}
          /\ UNCHANGED <<activePair, switch, tickVars>>
          /\ run[r].pc = "balances"
      BY <1>5 DEF BalancesRefreshed, Awaiting, AwaitPcs, TypeOK
    <2>5. CASE CanAdvance(phase, "VALIDATE_DATA_TRUTH")
      <3>1. ThawFsm /\ context' = ctxValid /\ run' = [run EXCEPT ![r].pc = "succeeded"]
        BY <2>1, <2>5
      <3> HIDE DEF ctxValid
      <3>2. /\ run' \in [Runs -> [pc : {"free"} \cup AwaitPcs \cup SettlePcs,
                                  asked : Pairs \cup {NoPair}]]
            /\ run'[r].pc = "succeeded"
            /\ \A q \in Runs \ {r} : run'[q] = run[q]
        BY <3>1 DEF TypeOK, SettlePcs
      <3>3. TypeOK'
        BY <2>3, <2>4, <3>1, <3>2 DEF TypeOK, SamePair, ThawFsm, tickVars, StablePhases
      <3>4. AnnouncedPair' /\ ContextOfActivePair'
        BY <2>3, <2>4, <3>1 DEF AnnouncedPair, ContextOfActivePair, SamePair,
                                ThawFsm, IsReady
      <3>5. NeverWedged' /\ PendingIsInFlight'
        BY <2>4, <3>1, <3>2 DEF NeverWedged, PendingIsInFlight, ThawFsm, InFlight
      <3> QED BY <3>3, <3>4, <3>5
    <2>6. CASE ~ CanAdvance(phase, "VALIDATE_DATA_TRUTH")
      <3>1. FailRun(r, ctx)
        BY <2>1, <2>6
      <3> HIDE DEF ctx
      <3> QED BY <2>2, <2>4, <3>1, FailRunKeepsIInv
    <2> QED BY <2>5, <2>6
  <1>6. CASE SettleSuccess(r)
    <2> USE <1>6 DEF SettleSuccess
    <2>1. /\ run' \in [Runs -> [pc : {"free"} \cup AwaitPcs \cup SettlePcs,
                                asked : Pairs \cup {NoPair}]]
          /\ \A q \in Runs \ {r} : run'[q] = run[q]
      BY DEF TypeOK, FreeRun
    <2>2. TypeOK'
      BY <2>1 DEF TypeOK, fsmVars, tickVars
    <2>3. AnnouncedPair' /\ ContextOfActivePair' /\ PendingIsInFlight'
      BY DEF AnnouncedPair, ContextOfActivePair, PendingIsInFlight, IsReady, fsmVars,
             TypeOK
    <2>4. NeverWedged'
      BY <2>1 DEF NeverWedged, Awaiting, AwaitPcs, fsmVars, TypeOK
    <2> QED BY <2>2, <2>3, <2>4
  <1>7. CASE SettleFailure(r)
    <2> USE <1>7, PairsAssumption DEF SettleFailure, ThawFsm, KeepFsm, fsmVars
    <2>1. /\ run' \in [Runs -> [pc : {"free"} \cup AwaitPcs \cup SettlePcs,
                                asked : Pairs \cup {NoPair}]]
          /\ \A q \in Runs \ {r} : run'[q] = run[q]
      BY DEF TypeOK, FreeRun
    <2>2. TypeOK'
      BY <2>1 DEF TypeOK, tickVars, StablePhases
    <2>3. AnnouncedPair' /\ ContextOfActivePair' /\ PendingIsInFlight'
      BY DEF AnnouncedPair, ContextOfActivePair, PendingIsInFlight, IsReady, TypeOK
    <2>4. NeverWedged'
      BY <2>1 DEF NeverWedged, Awaiting, AwaitPcs, TypeOK
    <2> QED BY <2>2, <2>3, <2>4
  <1> QED BY <1>1, <1>2, <1>3, <1>4, <1>5, <1>6, <1>7 DEF RunStep

TickType == tick \in [Ticks -> [pc : {"free", "connect"} \cup BodyPcs,
                                asked : Pairs \cup {NoPair},
                                book : Pairs \cup {NoPair}]]

\* tick() and the websocket touch nothing of the machine.
LEMMA TickKeepsIInv ==
    ASSUME IInv,
           \/ \E t \in Ticks : StartTick(t) \/ TickStep(t)
           \/ ConnectionChanges
    PROVE  IInv'
  <1> USE DEF IInv
  <1>1. UNCHANGED switchVars
    BY DEF StartTick, TickStep, ConnectSettled, ReservesChecked, BookRefreshed,
           PassGate, CallStrategy, EndTick, ConnectionChanges, TickTo
  <1>2. TypeOK'
    <2>1. CASE ConnectionChanges
      BY <2>1 DEF ConnectionChanges, TypeOK, switchVars, fsmVars, tickVars
    <2>2. ASSUME NEW t \in Ticks, StartTick(t)
          PROVE  TypeOK'
      <3>1. \E pc \in {"connect", "reserves"} : tick' = [tick EXCEPT ![t].pc = pc]
        BY <2>2 DEF StartTick, EnterTick, TickTo
      <3>2. TickType'
        BY <3>1 DEF TickType, TypeOK, BodyPcs
      <3>3. UNCHANGED <<switchVars, book, connected>> /\ tickInFlight' \in BOOLEAN
        BY <2>2 DEF StartTick, EnterTick, TypeOK
      <3> QED BY <3>2, <3>3 DEF TickType, TypeOK, switchVars, fsmVars
    <2>3. ASSUME NEW t \in Ticks, ConnectSettled(t)
          PROVE  TypeOK'
      <3>1. \/ tick' = [tick EXCEPT ![t].pc = "reserves"] /\ tickInFlight' = TRUE
            \/ tick' = [tick EXCEPT ![t] = FreeTick] /\ UNCHANGED tickInFlight
        BY <2>3 DEF ConnectSettled, EnterTick, TickTo
      <3>2. connected' \in BOOLEAN /\ UNCHANGED <<switchVars, book>>
        BY <2>3 DEF ConnectSettled, TypeOK
      <3>3. TickType'
        BY <3>1 DEF TickType, TypeOK, BodyPcs, FreeTick
      <3>4. tickInFlight' \in BOOLEAN
        BY <3>1, Zenon DEF TypeOK
      <3> QED BY <3>2, <3>3, <3>4 DEF TickType, TypeOK, switchVars, fsmVars
    <2>4. ASSUME NEW t \in Ticks, ReservesChecked(t) \/ PassGate(t) \/ CallStrategy(t)
          PROVE  TypeOK'
      BY <2>4 DEF ReservesChecked, PassGate, CallStrategy, TickTo, TypeOK, switchVars,
                  fsmVars, BodyPcs
    <2>5. ASSUME NEW t \in Ticks, BookRefreshed(t)
          PROVE  TypeOK'
      BY <2>5 DEF BookRefreshed, BookAnswers, TypeOK, switchVars, fsmVars, BodyPcs
    <2>6. ASSUME NEW t \in Ticks, EndTick(t)
          PROVE  TypeOK'
      BY <2>6 DEF EndTick, FreeTick, TypeOK, switchVars, fsmVars
    <2> QED BY <2>1, <2>2, <2>3, <2>4, <2>5, <2>6 DEF TickStep
  <1>3. AnnouncedPair' /\ ContextOfActivePair' /\ NeverWedged' /\ PendingIsInFlight'
    BY <1>1 DEF AnnouncedPair, ContextOfActivePair, NeverWedged, PendingIsInFlight,
                IsReady, Awaiting, InFlight, switchVars, fsmVars
  <1> QED BY <1>2, <1>3

LEMMA StutterKeepsIInv == IInv /\ UNCHANGED vars => IInv'
  BY DEF IInv, TypeOK, AnnouncedPair, ContextOfActivePair, NeverWedged,
         PendingIsInFlight, IsReady, Awaiting, InFlight, vars, switchVars, fsmVars,
         tickVars

LEMMA NextKeepsIInv == IInv /\ [Next]_vars => IInv'
  BY SetActivePairKeepsIInv, RefuseActivePairKeepsIInv, RunStepKeepsIInv,
     TickKeepsIInv, StutterKeepsIInv
  DEF Next

LEMMA Invariance == Spec => []IInv
  BY InitIInv, NextKeepsIInv, PTL DEF Spec

-----------------------------------------------------------------------------
(* Theorems                                                                *)

\* Every variable of the switch, its runs and the ticks keeps its type.
THEOREM TypeCorrectness == Spec => []TypeOK
  BY Invariance, PTL DEF IInv

\* However many switches are interrupted, reset or overtaken, a machine that is
\* not READY has a run that will thaw or recover it (executePairSwitch() and the
\* .then() of setActivePair()).
THEOREM NoWedge == Spec => []NeverWedged
  BY Invariance, PTL DEF IInv

\* The pending flag of the API is set only while its own run has not returned.
THEOREM PendingSafety == Spec => []PendingIsInFlight
  BY Invariance, PTL DEF IInv

\* The source and target the machine announces are always those of the pair the
\* runtime trades, whichever run of whichever switch drives the machine.
THEOREM PairAgreement == Spec => []AnnouncedPair
  BY Invariance, PTL DEF IInv

\* The per-pair context that a run writes is never that of another pair than the
\* one the runtime trades, though an overtaken run still resumes.
THEOREM ContextAgreement == Spec => []ContextOfActivePair
  BY Invariance, PTL DEF IInv

\* The safety part of the refinement: every step of the runs, the API and the
\* ticks is a switch, a thaw or a stutter of SwitchedPair.
THEOREM ImplementsSwitchedPair == Spec => Abstract!Spec
  <1>1. Init => Abstract!Init
    BY DEF Init, Abstract!Init, IsReady
  <1>2. IInv /\ [Next]_vars => [Abstract!Next]_Abstract!vars
    <2> SUFFICES ASSUME IInv, [Next]_vars
                 PROVE  [Abstract!Next]_Abstract!vars
      OBVIOUS
    <2> USE DEF Abstract!Next, Abstract!vars, Abstract!Thaw, IsReady
    <2>1. ASSUME NEW pair \in Pairs, NEW r \in Runs, SetActivePair(pair, r)
          PROVE  Abstract!Switch(pair)
      BY <2>1, PairsAssumption DEF SetActivePair, Abstract!Switch
    <2>2. CASE RefuseActivePair
      BY <2>2 DEF RefuseActivePair, ThawFsm
    <2>3. ASSUME NEW r \in Runs, RunStep(r)
          PROVE  [Abstract!Next]_Abstract!vars
      <3>1. activePair' = activePair
        BY <2>3 DEF RunStep, Subscribed, SubscribeFailed, BookReceived, TapeChecked,
                    BalancesRefreshed, SettleSuccess, SettleFailure
      <3>2. \/ phase = "READY" /\ UNCHANGED fsmVars
            \/ phase # "READY" /\ phase' # "READY" /\ UNCHANGED <<sourcePair, targetPair>>
            \/ phase # "READY" /\ ThawFsm
        <4>1. phase \in StablePhases
          BY DEF IInv, TypeOK
        <4> USE DEF AdvanceRun, FailRun, AdvanceFsm, KeepFsm, fsmVars
        <4>2. CASE Subscribed(r)
          BY <4>1, <4>2, AdvancePhases DEF Subscribed
        <4>3. CASE SubscribeFailed(r)
          BY <4>3 DEF SubscribeFailed
        <4>4. CASE BookReceived(r)
          BY <4>1, <4>4, AdvancePhases DEF BookReceived
        <4>5. CASE TapeChecked(r)
          BY <4>1, <4>5, AdvancePhases DEF TapeChecked
        <4>6. CASE BalancesRefreshed(r)
          BY <4>1, <4>6, AdvancePhases DEF BalancesRefreshed
        <4>7. CASE SettleSuccess(r)
          BY <4>7 DEF SettleSuccess
        <4>8. CASE SettleFailure(r)
          BY <4>8 DEF SettleFailure
        <4> QED BY <2>3, <4>2, <4>3, <4>4, <4>5, <4>6, <4>7, <4>8 DEF RunStep
      <3> QED BY <3>1, <3>2 DEF fsmVars, ThawFsm
    <2>4. CASE UNCHANGED switchVars
      BY <2>4 DEF switchVars, fsmVars
    <2>5. ASSUME \/ \E t \in Ticks : StartTick(t) \/ TickStep(t)
                 \/ ConnectionChanges
          PROVE  UNCHANGED switchVars
      BY <2>5 DEF StartTick, TickStep, ConnectSettled, ReservesChecked, BookRefreshed,
                  PassGate, CallStrategy, EndTick, ConnectionChanges, TickTo
    <2> QED BY <2>1, <2>2, <2>3, <2>4, <2>5 DEF Next, vars
  <1> QED BY <1>1, <1>2, Invariance, PTL DEF Spec, Abstract!Spec

=========================
