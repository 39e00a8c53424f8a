---------------------------- MODULE MCOrderFlow ----------------------------
(***************************************************************************)
(* Small instances of OrderFlow for TLC.  In a behaviour either two orders *)
(* are placed, or an order is placed and a cancel asked for.               *)
(***************************************************************************)
EXTENDS OrderFlow

CONSTANTS o1, o2, c1, i1

MCOrders == {o1, o2}
MCCancels == {c1}
OneIntent == {i1}

VARIABLE calls

MCInit == Init /\ calls \in {MCOrders, {o1, c1}}

Shared(A) == A /\ UNCHANGED calls

MCNext ==
    \/ Shared(NewDay)
    \/ Shared(TickHalts)
    \/ \E o \in Orders \cap calls :
           \/ \E i \in Intents : Shared(PlaceOffer(o, i))
           \/ Shared(OrderStep(o))
    \/ \E c \in Cancels \cap calls : Shared(CancelOffer(c))
    \/ \E c \in calls : Shared(SubmitStep(c)) \/ Shared(Ledger(c))
    \/ \E i \in Intents : Shared(ForgetIntent(i))

MCSpec == MCInit /\ [][MCNext]_<<vars, calls>> /\ Fairness
=============================================================================
