------------------------------ MODULE OrderFlow ------------------------------
(***************************************************************************)
(* How an order reaches the ledger: OfferExecutor.placeOffer() with its    *)
(* retry loop, cancelOffer(), the submit path both share                   *)
(* (submitWithGuards in offerExecutor.ts), and the failure counter and     *)
(* kill switch of RiskEngine (riskEngine.ts) that it drives.               *)
(*                                                                         *)
(* Orders are placed by the strategies of a tick, cancels by the orders    *)
(* API, which neither waits for a tick nor asks the risk engine.  The      *)
(* ledger is external: it includes a transaction with the account's next   *)
(* sequence number, or drops it, whether or not the caller still waits.    *)
(*                                                                         *)
(* Ticks may overlap, so any number of orders may be under way at once.    *)
(*                                                                         *)
(* Each call is made once, so sequence numbers and failures are bounded by *)
(* the number of calls and MaxAttempts.  Paper trading never gets here;    *)
(* recording a trade, and what follows it, is taken not to throw.          *)
(***************************************************************************)
EXTENDS Naturals, FiniteSets

CONSTANTS
    Orders,        \* calls of placeOffer()
    Cancels,       \* calls of cancelOffer()
    Intents,       \* fingerprints: pair, side, amount, price and flags
    MaxAttempts,   \* retryConfig.maxAttempts, 1 for an order that is not IOC
    KillSwitch,    \* consecutiveFailureKillSwitch
    AuditGuards,   \* FEATURE_AUDIT_GUARDS: the idempotency guard is on
    None

Calls == Orders \cup Cancels
Attempts == 1 .. MaxAttempts

ASSUME OrderAssumption ==
    /\ Orders \cap Cancels = {}
    /\ None \notin Intents
    /\ MaxAttempts \in Nat \ {0}
    /\ KillSwitch \in Nat \ {0}
    /\ AuditGuards \in BOOLEAN

VARIABLES
    call,       \* where each call waits, for which intent, at which attempt
    trade,      \* the last trade the history has of each order, and its trace
    seen,       \* recentIntentFingerprints inside the window
    failures,   \* RiskEngine.consecutiveFailures
    shutdown,   \* risk.emergencyShutdown
    tx,         \* the transaction of each attempt of each call
    sequence    \* the account's next sequence number on the ledger

riskVars == <<failures, shutdown>>
vars == <<call, trade, seen, riskVars, tx, sequence>>

Waiting == {"depth", "autofill", "sign", "submit", "validate", "backoff"}
Included == {"success", "killed", "failed"}

Init ==
    /\ call = [c \in Calls |-> [pc |-> "unused", intent |-> None, attempt |-> 1]]
    /\ trade = [o \in Orders |-> [status |-> "none", outcome |-> "none"]]
    /\ seen = {}
    /\ failures = 0
    /\ shutdown = FALSE
    /\ tx = [c \in Calls |-> [a \in Attempts |-> [seq |-> 0, status |-> "none"]]]
    /\ sequence = 0

At(c, pc) == call[c].pc = pc
Goto(c, pc) == call' = [call EXCEPT ![c].pc = pc]
CurrentTx(c) == tx[c][call[c].attempt]
SetTx(c, new) == tx' = [tx EXCEPT ![c][call[c].attempt] = new]

\* recordTrade() and upsertTradeTrace(): the status of the trade and the
\* outcome in its trace.  Nothing is recorded of a cancel.
Record(c, status, outcome) ==
    trade' = IF c \in Orders
             THEN [trade EXCEPT ![c] = [status |-> status, outcome |-> outcome]]
             ELSE trade

\* The call returns.
Finish(c, status, outcome) == Goto(c, "done") /\ Record(c, status, outcome)

-----------------------------------------------------------------------------
(* RiskEngine                                                              *)

RegisterFailure ==
    /\ failures' = failures + 1
    /\ shutdown' = (shutdown \/ failures + 1 >= KillSwitch)

ResetFailures ==
    /\ failures' = 0
    /\ UNCHANGED shutdown

\* Mutant of NewDay: the failure count is not consulted.
NewDayClearingAll ==
    /\ shutdown
    /\ shutdown' = FALSE
    /\ UNCHANGED <<call, trade, seen, failures, tx, sequence>>

\* checkAndResetDaily(), at the first tick of a UTC day.
NewDay ==
    /\ shutdown
    /\ failures < KillSwitch
    /\ shutdown' = FALSE
    /\ UNCHANGED <<call, trade, seen, failures, tx, sequence>>

\* checkReserves() finds the balance below the floor: the tick ends.
TickHalts ==
    /\ ~shutdown
    /\ shutdown' = TRUE
    /\ UNCHANGED <<call, trade, seen, failures, tx, sequence>>

-----------------------------------------------------------------------------
(* placeOffer() and cancelOffer()                                          *)

\* approveIntent() passes, and the call awaits the book and the ledger index.
PlaceOffer(o, i) ==
    /\ At(o, "unused")
    /\ ~shutdown
    /\ call' = [call EXCEPT ![o].pc = "depth", ![o].intent = i]
    /\ UNCHANGED <<trade, seen, riskVars, tx, sequence>>

\* No depth, no market data, too much slippage, too small; or an await of
\* this stage throws out of placeOffer(), which records nothing.
WithholdOffer(o) ==
    /\ At(o, "depth")
    /\ \/ Finish(o, "REJECTED", "rejected")
       \/ Goto(o, "done") /\ UNCHANGED trade
    /\ UNCHANGED <<seen, riskVars, tx, sequence>>

CancelOffer(c) ==
    /\ At(c, "unused")
    /\ Goto(c, "autofill")
    /\ UNCHANGED <<trade, seen, riskVars, tx, sequence>>

\* Only a first attempt asks: a retry bypasses the idempotency guard.
Guarded(c) == AuditGuards /\ c \in Orders /\ call[c].attempt = 1
IsDuplicate(o) == Guarded(o) /\ call[o].intent \in seen

PreventDuplicate(o) ==
    /\ At(o, "depth")
    /\ IsDuplicate(o)
    /\ Goto(o, "done")
    /\ UNCHANGED <<trade, seen, riskVars, tx, sequence>>

StartSubmit(o) ==
    /\ At(o, "depth")
    /\ ~IsDuplicate(o)
    /\ Goto(o, "autofill")
    /\ UNCHANGED <<trade, seen, riskVars, tx, sequence>>

\* The minimum-order and price sanity checks after autofill.
SanityReject(o) ==
    /\ At(o, "autofill")
    /\ Finish(o, "REJECTED", "rejected")
    /\ UNCHANGED <<seen, riskVars, tx, sequence>>

\* autofill() read the account's sequence; the fingerprint is remembered
\* only now, and the signer is awaited.
Autofilled(c) ==
    /\ At(c, "autofill")
    /\ SetTx(c, [seq |-> sequence, status |-> "prepared"])
    /\ seen' = IF Guarded(c) THEN seen \cup {call[c].intent} ELSE seen
    /\ Goto(c, "sign")
    /\ UNCHANGED <<trade, riskVars, sequence>>

\* autofill() or the signer throws.
PrepareFails(c) ==
    /\ call[c].pc \in {"autofill", "sign"}
    /\ RegisterFailure
    /\ Finish(c, "REJECTED", "rejected")
    /\ UNCHANGED <<seen, tx, sequence>>

\* The trade is recorded as PENDING and the blob goes to the node.
Signed(c) ==
    /\ At(c, "sign")
    /\ SetTx(c, [CurrentTx(c) EXCEPT !.status = "submitted"])
    /\ Goto(c, "submit")
    /\ Record(c, "PENDING", "abandoned")
    /\ UNCHANGED <<seen, riskVars, sequence>>

\* Mutant of SubmitFails: a timeout is traced as a rejection.
SubmitFailsForGood(c) ==
    /\ At(c, "submit")
    /\ Finish(c, "REJECTED", "rejected")
    /\ UNCHANGED <<seen, riskVars, tx, sequence>>

\* The submit call times out or fails: the trade is recorded as REJECTED, its
\* trace says that finality is unknown, and the failure is not counted.
SubmitFails(c) ==
    /\ At(c, "submit")
    /\ Finish(c, "REJECTED", "timeout")
    /\ UNCHANGED <<seen, riskVars, tx, sequence>>

\* Any engine result: the hash is looked up even if it says rejected.
Submitted(c) ==
    /\ At(c, "submit")
    /\ Goto(c, "validate")
    /\ UNCHANGED <<trade, seen, riskVars, tx, sequence>>

\* The fill is recorded, or quarantined when it fails the integrity check.
Validated(c) ==
    /\ At(c, "validate")
    /\ CurrentTx(c).status = "success"
    /\ ResetFailures
    /\ \/ Finish(c, "FILLED", "filled")
       \/ Finish(c, "PENDING", "abandoned")
    /\ UNCHANGED <<seen, tx, sequence>>

\* Mutant of MayRetry: one attempt too many.
MayRetryOnceMore(c) ==
    /\ c \in Orders
    /\ CurrentTx(c).status = "killed"
    /\ call[c].attempt <= MaxAttempts

\* Only an IOC order that the ledger killed without a fill is tried again.
MayRetry(c) ==
    /\ c \in Orders
    /\ CurrentTx(c).status = "killed"
    /\ call[c].attempt < MaxAttempts

ValidatedFailure(c) ==
    /\ At(c, "validate")
    /\ CurrentTx(c).status \in Included \ {"success"}
    /\ RegisterFailure
    /\ Record(c, "REJECTED", "rejected")
    /\ \/ ~MayRetry(c) /\ Goto(c, "done")
       \/ MayRetry(c) /\ Goto(c, "backoff")
    /\ UNCHANGED <<seen, tx, sequence>>

\* Mutants of LookupExpires: silence counts as no fill, and is retried; or
\* the poll has no deadline.
LookupExpiresAsNoFill(c) ==
    /\ At(c, "validate")
    /\ RegisterFailure
    /\ IF c \in Orders /\ call[c].attempt < MaxAttempts
       THEN Goto(c, "backoff") /\ UNCHANGED trade
       ELSE Finish(c, "REJECTED", "timeout")
    /\ UNCHANGED <<seen, tx, sequence>>

LookupUntilFinal(c) ==
    /\ At(c, "validate")
    /\ CurrentTx(c).status = "dropped"
    /\ RegisterFailure
    /\ Finish(c, "REJECTED", "timeout")
    /\ UNCHANGED <<seen, tx, sequence>>

\* Ten seconds of polling by hash did not show a validated transaction: the
\* trade is recorded as REJECTED all the same, and traced as a timeout.
LookupExpires(c) ==
    /\ At(c, "validate")
    /\ RegisterFailure
    /\ Finish(c, "REJECTED", "timeout")
    /\ UNCHANGED <<seen, tx, sequence>>

Retry(o) ==
    /\ At(o, "backoff")
    /\ call' = [call EXCEPT ![o].pc = "depth", ![o].attempt = @ + 1]
    /\ UNCHANGED <<trade, seen, riskVars, tx, sequence>>

\* executionIdempotencyWindowMs has passed.
ForgetIntent(i) ==
    /\ i \in seen
    /\ seen' = seen \ {i}
    /\ UNCHANGED <<call, trade, riskVars, tx, sequence>>

-----------------------------------------------------------------------------
(* The ledger                                                              *)

\* A transaction claims a fee and a sequence number whatever its result.
Include(c, a) ==
    /\ tx[c][a].status = "submitted"
    /\ tx[c][a].seq = sequence
    /\ sequence' = sequence + 1
    /\ \E result \in Included :
          /\ result = "killed" => c \in Orders
          /\ tx' = [tx EXCEPT ![c][a].status = result]
    /\ UNCHANGED <<call, trade, seen, riskVars>>

\* Never delivered, malformed, its sequence taken, or LastLedgerSequence passed.
Drop(c, a) ==
    /\ tx[c][a].status = "submitted"
    /\ tx' = [tx EXCEPT ![c][a].status = "dropped"]
    /\ UNCHANGED <<call, trade, seen, riskVars, sequence>>

-----------------------------------------------------------------------------
OrderStep(o) ==
    \/ WithholdOffer(o)
    \/ PreventDuplicate(o)
    \/ StartSubmit(o)
    \/ SanityReject(o)
    \/ Retry(o)

SubmitStep(c) ==
    \/ Autofilled(c)
    \/ PrepareFails(c)
    \/ Signed(c)
    \/ SubmitFails(c)
    \/ Submitted(c)
    \/ Validated(c)
    \/ ValidatedFailure(c)
    \/ LookupExpires(c)

Ledger(c) == \E a \in Attempts : Include(c, a) \/ Drop(c, a)

Next ==
    \/ NewDay
    \/ TickHalts
    \/ \E o \in Orders : (\E i \in Intents : PlaceOffer(o, i)) \/ OrderStep(o)
    \/ \E c \in Cancels : CancelOffer(c)
    \/ \E c \in Calls : SubmitStep(c) \/ Ledger(c)
    \/ \E i \in Intents : ForgetIntent(i)

Spec == Init /\ [][Next]_vars

\* Every await of a call ends: the book, autofill and ledger requests time
\* out in the client library, submit after 12 s, the lookup after 10 s.
Fairness ==
    /\ \A o \in Orders : WF_vars(OrderStep(o))
    /\ \A c \in Calls : WF_vars(SubmitStep(c))

FairSpec == Spec /\ Fairness

-----------------------------------------------------------------------------
(* Properties                                                              *)

TxStatus == {"none", "prepared", "submitted", "dropped"} \cup Included
Trades == [status : {"none", "PENDING", "REJECTED", "FILLED"},
           outcome : {"none", "abandoned", "rejected", "timeout", "filled"}]

\* Types of the calls, their transactions and the risk engine; the risk
\* engine counts the failures of submitWithGuards.
TypeOK ==
    /\ call \in [Calls -> [pc : Waiting \cup {"unused", "done"},
                           intent : Intents \cup {None},
                           attempt : Attempts]]
    /\ trade \in [Orders -> Trades]
    /\ seen \subseteq Intents
    /\ failures \in Nat
    /\ shutdown \in BOOLEAN
    /\ tx \in [Calls -> [Attempts -> [seq : Nat, status : TxStatus]]]
    /\ sequence \in Nat

\* An attempt that has executed, or still may.
Live(c, a) == tx[c][a].status \in {"submitted", "success"}

\* However submits time out and answers come late, the retry loop of
\* placeOfferIntent() never has two attempts of one order that executed or
\* still may: it retries only what the ledger has killed.
OneAttemptIsLive ==
    \A o \in Orders : \A a, b \in Attempts : Live(o, a) /\ Live(o, b) => a = b

\* What the trade history says of an order that has returned is what the
\* ledger did, or the trace says that it is not known: a trade recorded as
\* REJECTED, whose trace does not say timeout, has no transaction that executed
\* or still may, whichever attempt was late, and a FILLED one has executed.
DoubtIsTraced ==
    \A o \in Orders : At(o, "done") =>
        /\ trade[o].status = "REJECTED" /\ trade[o].outcome # "timeout" =>
              \A a \in Attempts : ~Live(o, a)
        /\ trade[o].status = "FILLED" => CurrentTx(o).status = "success"

\* At the failure limit the kill switch is on, whatever day has begun and
\* whichever submissions were in flight: midnight does not clear it.
FailureLimitHalts == failures >= KillSwitch => shutdown

\* No offer is signed for the first time while the fingerprint of the same
\* intent is in the idempotency window.  The code breaks this: the fingerprint
\* is looked up before the await of autofill and remembered after it, and the
\* order of an overlapping tick is looked up in between.
SignedOnceInWindow ==
    [][\A o \in Orders : At(o, "autofill") /\ Guarded(o) /\ At(o, "sign")'
           => call[o].intent \notin seen]_vars

\* Every placeOffer() and cancelOffer() returns, so the tick that awaits it
\* goes on.
CallsReturn == \A c \in Calls : call[c].pc \in Waiting ~> At(c, "done")

=============================================================================
