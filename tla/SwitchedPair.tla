---------------------------- MODULE SwitchedPair ----------------------------
(***************************************************************************)
(* What a pair switch promises to the rest of the runtime, with the twelve *)
(* phases and the runs that drive them left out: the pair changes only as  *)
(* part of freezing execution, the books of the old pair are dropped in    *)
(* the same step, the switch machine thaws without touching the pair, and  *)
(* execution never stays frozen.                                           *)
(***************************************************************************)
CONSTANT Pairs, InitialPair

VARIABLES
    pair,      \* the pair every component trades
    frozen,    \* the tick guard blocks execution
    announced  \* the pair the switch machine says it is switching to

vars == <<pair, frozen, announced>>

Init ==
    /\ pair = InitialPair
    /\ ~ frozen
    /\ announced = {}

\* A switch, from rest or in the middle of another.
Switch(p) ==
    /\ p # pair
    /\ pair' = p
    /\ frozen' = TRUE
    /\ announced' = {p}

\* The switch completes, fails and is recovered, or is reset.
Thaw ==
    /\ frozen
    /\ frozen' = FALSE
    /\ announced' = {}
    /\ UNCHANGED pair

Next == (\E p \in Pairs : Switch(p)) \/ Thaw

Spec == Init /\ [][Next]_vars

FairSpec == Spec /\ SF_vars(Thaw)
=============================================================================
