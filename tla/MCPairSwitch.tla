---------------------------- MODULE MCPairSwitch ----------------------------
(***************************************************************************)
(* Small instances of PairSwitch for TLC.  In a behaviour either two runs  *)
(* of a switch may overlap, or two ticks.                                  *)
(***************************************************************************)
EXTENDS PairSwitch

CONSTANTS p1, p2, r1, r2, t1, t2

TwoPairs == {p1, p2}
MCRuns == {r1, r2}
MCTicks == {t1, t2}

VARIABLE overlap

MCInit == Init /\ overlap \in {"runs", "ticks"}

UsedRuns == IF overlap = "runs" THEN Runs ELSE {r1}
UsedTicks == IF overlap = "ticks" THEN Ticks ELSE {t1}

Shared(A) == A /\ UNCHANGED overlap

MCNext ==
    \/ \E pair \in Pairs, r \in UsedRuns : Shared(SetActivePair(pair, r))
    \/ Shared(RefuseActivePair)
    \/ \E r \in UsedRuns : Shared(RunStep(r))
    \/ \E t \in UsedTicks : Shared(StartTick(t)) \/ Shared(TickStep(t))
    \/ Shared(ConnectionChanges)

MCSpec == MCInit /\ [][MCNext]_<<vars, overlap>> /\ Fairness
=============================================================================
