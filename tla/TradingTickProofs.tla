-------------------------- MODULE TradingTickProofs --------------------------
(***************************************************************************)
(* What TradingTick promises of every tick, for any set of pairs.          *)
(***************************************************************************)
EXTENDS TradingTick, TLAPS

\* The runtime is READY only if the last tick that judged the data found it
\* healthy; the gate takes the state of the tick before.
ReadyIsSeen == fsm = "READY" => seen

IInv == TypeOK /\ ReadyIsSeen

LEMMA InitIInv == Init => IInv
<1> SUFFICES ASSUME Init PROVE IInv
  OBVIOUS
<1>1. pair \in Pairs /\ drawdown \in [Pairs -> Drawdowns]
  BY TradingTickAssumption DEF TradingTickAssumption, Init, Drawdowns
<1>2. stage \in Stages /\ {tapeQuiet, bookQuiet} \subseteq Silences
  BY DEF Init, Stages, Silences
<1> QED
  BY <1>1, <1>2 DEF Init, IInv, TypeOK, ReadyIsSeen, Truths

\* A step of the tick that only moves on.
LEMMA MovesOn ==
    ASSUME IInv,
           pc' \in {"idle", "judge", "strategies"},
           truth' \in Truths,
           UNCHANGED <<pair, fsm, seen, riskVars, feedVars>>
    PROVE  IInv'
BY DEF IInv, TypeOK, ReadyIsSeen, riskVars, feedVars

LEMMA LongerType ==
    ASSUME NEW silence \in Silences
    PROVE  Longer(silence) \in Silences
BY DEF Longer, Silences, Stages, Never

LEMMA PassKeepsIInv == IInv /\ Pass => IInv'
<1> SUFFICES ASSUME IInv, Pass PROVE IInv'
  OBVIOUS
<1>1. tapeQuiet' \in Silences /\ bookQuiet' \in Silences
  BY LongerType DEF Pass, IInv, TypeOK
<1> QED
  BY <1>1 DEF IInv, TypeOK, ReadyIsSeen, Pass

LEMMA DrawdownChangesKeepsIInv == IInv /\ DrawdownChanges => IInv'
BY DEF IInv, TypeOK, ReadyIsSeen, DrawdownChanges, feedVars

LEMMA HaltKeepsIInv == IInv /\ Halt => IInv'
BY DEF IInv, TypeOK, ReadyIsSeen, Halt, feedVars

LEMMA SwitchPairKeepsIInv == IInv /\ SwitchPair => IInv'
BY DEF IInv, TypeOK, ReadyIsSeen, SwitchPair, riskVars, feedVars

LEMMA TapeEventKeepsIInv == IInv /\ TapeEvent => IInv'
BY DEF IInv, TypeOK, ReadyIsSeen, TapeEvent, riskVars, Stages, Silences, Never

LEMMA StartTickKeepsIInv == IInv /\ StartTick => IInv'
BY DEF IInv, TypeOK, ReadyIsSeen, StartTick, Cleared, feedVars

\* The stage the escalation takes is one of the stages.
LEMMA EscalatedType ==
    ASSUME NEW s \in Stages, NEW silence \in Silences
    PROVE  Escalated(s, silence) \in Stages
BY DEF Escalated, Classified, Stages, Silences, Never

LEMMA RefreshedKeepsIInv == IInv /\ Refreshed => IInv'
<1> SUFFICES ASSUME IInv, Refreshed PROVE IInv'
  OBVIOUS
<1>1. PICK ok \in BOOLEAN, recovers \in BOOLEAN :
          LET book == IF ok THEN 0 ELSE bookQuiet
              resumed == IF ok /\ Alive(tapeQuiet, 0) THEN 0 ELSE stage
          IN  /\ bookQuiet' = book
              /\ stage' = Escalated(resumed, Silence(tapeQuiet, book))
              /\ cooling' = (cooling \/ recovers)
              /\ pc' = IF recovers THEN "recovery" ELSE "judge"
  <2>1. PICK ok \in BOOLEAN :
          LET book == IF ok THEN 0 ELSE bookQuiet
              resumed == IF ok /\ Alive(tapeQuiet, 0) THEN 0 ELSE stage
              next == Escalated(resumed, Silence(tapeQuiet, book))
              recovers == next > 0 /\ ~cooling
          IN  /\ bookQuiet' = book
              /\ stage' = next
              /\ cooling' = (cooling \/ recovers)
              /\ pc' = IF recovers THEN "recovery" ELSE "judge"
    BY DEF Refreshed
  <2> QED
    BY <2>1
<1>2. bookQuiet' \in Silences
  BY <1>1 DEF IInv, TypeOK, Silences, Stages
<1>3. Silence(tapeQuiet, IF ok THEN 0 ELSE bookQuiet) \in Silences
  BY DEF IInv, TypeOK, Silence, Silences, Stages
<1>4. stage' \in Stages
  BY <1>1, <1>3, EscalatedType DEF IInv, TypeOK, Stages
<1> QED
  BY <1>1, <1>2, <1>4 DEF IInv, TypeOK, ReadyIsSeen, Refreshed, riskVars

LEMMA RecoveredKeepsIInv == IInv /\ Recovered => IInv'
BY MovesOn DEF Recovered

\* What capital protection measures is a drawdown.
LEMMA MetricsType == IInv => Metrics \in Drawdowns
BY TradingTickAssumption DEF IInv, TypeOK, Metrics, Drawdowns

LEMMA JudgeKeepsIInv == IInv /\ Judge => IInv'
<1> SUFFICES ASSUME IInv, Judge PROVE IInv'
  OBVIOUS
<1>1. ReadyIsSeen'
  BY DEF Judge, ReadyIsSeen, NextFsm
<1>2. /\ pc' \in {"idle", "cooldown", "strategies"}
      /\ halted' \in {"no", "loss", "failures"}
      /\ {metrics', decision'} \subseteq Drawdowns \cup {None}
      /\ cached' \in BOOLEAN
  <2>1. CASE GateAllows /\ ~HardRiskBlocks
    BY <2>1, MetricsType DEF Judge, Govern, IInv, TypeOK
  <2>2. CASE ~(GateAllows /\ ~HardRiskBlocks)
    BY <2>2 DEF Judge, IInv, TypeOK
  <2> QED
    BY <2>1, <2>2
<1> QED
  BY <1>1, <1>2 DEF IInv, TypeOK, Judge, NextFsm, feedVars

LEMMA CooledDownKeepsIInv == IInv /\ CooledDown => IInv'
BY MovesOn DEF CooledDown, IInv, TypeOK

LEMMA EndTickKeepsIInv == IInv /\ EndTick => IInv'
BY MovesOn DEF EndTick, IInv, TypeOK

LEMMA NextKeepsIInv == IInv /\ [Next]_vars => IInv'
<1> SUFFICES ASSUME IInv, [Next]_vars PROVE IInv'
  OBVIOUS
<1>1. CASE TickStep
  BY <1>1, StartTickKeepsIInv, RefreshedKeepsIInv, RecoveredKeepsIInv, JudgeKeepsIInv,
     CooledDownKeepsIInv, EndTickKeepsIInv DEF TickStep
<1>2. CASE World
  BY <1>2, PassKeepsIInv, DrawdownChangesKeepsIInv, HaltKeepsIInv,
     SwitchPairKeepsIInv, TapeEventKeepsIInv DEF World
<1>3. CASE UNCHANGED vars
  BY <1>3 DEF vars, riskVars, feedVars, IInv, TypeOK, ReadyIsSeen
<1> QED
  BY <1>1, <1>2, <1>3 DEF Next

LEMMA SpecIInv == Spec => []IInv
BY InitIInv, NextKeepsIInv, PTL DEF Spec

\* Types: the stages of the recovery, the drawdowns that are remembered and the
\* states of the machine stay what the code declares (tradingRuntime.ts:839).
THEOREM TypeCorrectness == Spec => []TypeOK
BY SpecIInv, PTL DEF IInv

\* A step from the judgement to the strategies is one that the gate allowed.
LEMMA StrategiesAreGated ==
    ASSUME IInv, [Next]_vars, pc = "judge", pc' \in {"cooldown", "strategies"}
    PROVE  seen
<1>1. Judge
  BY DEF Next, TickStep, World, StartTick, Refreshed, Recovered, CooledDown, EndTick,
         Pass, DrawdownChanges, Halt, SwitchPair, TapeEvent, vars
<1>2. GateAllows
  BY <1>1 DEF Judge
<1> QED
  BY <1>2 DEF GateAllows, IInv, ReadyIsSeen

\* No tick calls the strategies unless the tick before it judged the data healthy
\* (executionGate.ts:99, tradingRuntime.ts:1131), after any sequence of refreshes,
\* recoveries, halts, pair switches and drawdowns.
THEOREM FirstHealthyTickWaits == Spec => NotOnFirstHealthyTick
<1>1. IInv /\ [Next]_vars
      => [pc = "judge" /\ pc' \in {"cooldown", "strategies"} => seen]_vars
  BY StrategiesAreGated
<1> QED
  BY <1>1, SpecIInv, PTL DEF Spec, NotOnFirstHealthyTick
=============================================================================
