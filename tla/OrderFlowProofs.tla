-------------------------- MODULE OrderFlowProofs --------------------------
(* Theorems about OrderFlow for any number of orders, cancels and attempts. *)
EXTENDS OrderFlow, TLAPS

(***************************************************************************)
(* What a call's place says of its transactions: earlier attempts were     *)
(* killed by the ledger, later ones do not exist, and the current one is   *)
(* where the call and the trade recorded of it say it is.                  *)
(***************************************************************************)
EarlierWereKilled(c) ==
    \A a \in Attempts :
        /\ a < call[c].attempt => tx[c][a].status = "killed"
        /\ a > call[c].attempt => tx[c][a].status = "none"

CurrentFits(c) ==
    /\ c \in Orders /\ call[c].pc \in Waiting => call[c].intent \in Intents
    /\ call[c].pc \in {"unused", "depth", "autofill"} => CurrentTx(c).status = "none"
    /\ call[c].pc = "sign" => CurrentTx(c).status = "prepared"
    /\ call[c].pc = "backoff" =>
          CurrentTx(c).status = "killed" /\ call[c].attempt < MaxAttempts
    /\ c \in Orders /\ call[c].pc # "done" => trade[c].status # "FILLED"
    /\ c \in Orders /\ call[c].pc = "done" =>
          /\ trade[c].status = "REJECTED" /\ trade[c].outcome # "timeout" =>
                CurrentTx(c).status \notin {"submitted", "success"}
          /\ trade[c].status = "FILLED" => CurrentTx(c).status = "success"

CallInv == \A c \in Calls : EarlierWereKilled(c) /\ CurrentFits(c)

IInv == TypeOK /\ CallInv /\ FailureLimitHalts

-----------------------------------------------------------------------------
(* Type correctness                                                        *)

CallType == [pc : Waiting \cup {"unused", "done"}, intent : Intents \cup {None}, attempt : Attempts]
TxType == [Attempts -> [seq : Nat, status : TxStatus]]

LEMMA GotoType ==
    ASSUME call \in [Calls -> CallType], NEW c, NEW pc \in Waiting \cup {"done"}, Goto(c, pc)
    PROVE  call' \in [Calls -> CallType]
  BY DEF Goto, CallType

LEMMA RecordType ==
    ASSUME trade \in [Orders -> Trades], NEW c, NEW status, NEW outcome,
           [status |-> status, outcome |-> outcome] \in Trades, Record(c, status, outcome)
    PROVE  /\ trade' \in [Orders -> Trades]
           /\ c \in Orders => trade'[c] = [status |-> status, outcome |-> outcome]
           /\ \A d \in Orders : d # c => trade'[d] = trade[d]
<1>1. CASE c \in Orders
  <2>1. trade' = [trade EXCEPT ![c] = [status |-> status, outcome |-> outcome]]
    BY <1>1 DEF Record
  <2> QED  BY <1>1, <2>1
<1>2. CASE c \notin Orders  BY <1>2 DEF Record
<1> QED  BY <1>1, <1>2

LEMMA FinishType ==
    ASSUME call \in [Calls -> CallType], trade \in [Orders -> Trades],
           NEW c, NEW status, NEW outcome,
           [status |-> status, outcome |-> outcome] \in Trades, Finish(c, status, outcome)
    PROVE  call' \in [Calls -> CallType] /\ trade' \in [Orders -> Trades]
<1>1. Goto(c, "done") /\ Record(c, status, outcome)  BY DEF Finish
<1>2. call' \in [Calls -> CallType]  BY <1>1, GotoType
<1>3. trade' \in [Orders -> Trades]  BY <1>1, RecordType
<1> QED  BY <1>2, <1>3

LEMMA SetTxType ==
    ASSUME call \in [Calls -> CallType], tx \in [Calls -> TxType],
           NEW c \in Calls, NEW new \in [seq : Nat, status : TxStatus], SetTx(c, new)
    PROVE  /\ tx' \in [Calls -> TxType]
           /\ tx'[c][call[c].attempt] = new
           /\ \A a \in Attempts : a # call[c].attempt => tx'[c][a] = tx[c][a]
           /\ \A d \in Calls : d # c => tx'[d] = tx[d]
<1>1. call[c].attempt \in Attempts /\ tx[c] \in TxType  BY DEF CallType
<1> QED  BY <1>1 DEF SetTx, TxType

LEMMA RegisterType ==
    ASSUME failures \in Nat, shutdown \in BOOLEAN, RegisterFailure
    PROVE  failures' \in Nat /\ shutdown' \in BOOLEAN
  BY OrderAssumption DEF RegisterFailure

LEMMA TypeIsInitial == Init => TypeOK
<1> SUFFICES ASSUME Init PROVE TypeOK  OBVIOUS
<1> USE OrderAssumption DEF Init, Attempts
<1>1. call \in [Calls -> CallType]  BY DEF CallType, Waiting
<1>2. trade \in [Orders -> Trades]  BY DEF Trades
<1>3. tx \in [Calls -> TxType]  BY DEF TxType, TxStatus
<1> QED  BY <1>1, <1>2, <1>3 DEF TypeOK, CallType, TxType

LEMMA TypeIsInductive == TypeOK /\ CallInv /\ [Next]_vars => TypeOK'
<1> SUFFICES ASSUME TypeOK, CallInv, [Next]_vars PROVE TypeOK'  OBVIOUS
<1> USE DEF Calls
<1>0. /\ call \in [Calls -> CallType] /\ trade \in [Orders -> Trades] /\ seen \subseteq Intents
      /\ failures \in Nat /\ shutdown \in BOOLEAN
      /\ tx \in [Calls -> TxType] /\ sequence \in Nat
  BY DEF TypeOK, CallType, TxType
<1> SUFFICES /\ call' \in [Calls -> CallType] /\ trade' \in [Orders -> Trades] /\ seen' \subseteq Intents
             /\ failures' \in Nat /\ shutdown' \in BOOLEAN
             /\ tx' \in [Calls -> TxType] /\ sequence' \in Nat
  BY DEF TypeOK, CallType, TxType
<1>a. /\ [status |-> "REJECTED", outcome |-> "rejected"] \in Trades
      /\ [status |-> "REJECTED", outcome |-> "timeout"] \in Trades
      /\ [status |-> "PENDING", outcome |-> "abandoned"] \in Trades
      /\ [status |-> "FILLED", outcome |-> "filled"] \in Trades
  BY DEF Trades
<1>b. Included \cup {"prepared", "submitted", "dropped"} \subseteq TxStatus  BY DEF TxStatus
<1>1. CASE NewDay  BY <1>0, <1>1 DEF NewDay
<1>2. CASE TickHalts  BY <1>0, <1>2 DEF TickHalts
<1>3. ASSUME NEW o \in Orders, NEW i \in Intents, PlaceOffer(o, i)
      PROVE  call' \in [Calls -> CallType] /\ UNCHANGED <<trade, seen, riskVars, tx, sequence>>
  BY <1>0, <1>3 DEF PlaceOffer, CallType, Waiting
<1>4. ASSUME NEW o \in Orders, OrderStep(o)
      PROVE  /\ call' \in [Calls -> CallType] /\ trade' \in [Orders -> Trades]
             /\ UNCHANGED <<seen, riskVars, tx, sequence>>
  <2>1. CASE WithholdOffer(o)  BY <1>0, <1>a, <2>1, FinishType, GotoType DEF WithholdOffer
  <2>2. CASE PreventDuplicate(o)  BY <1>0, <2>2, GotoType DEF PreventDuplicate
  <2>3. CASE StartSubmit(o)  BY <1>0, <2>3, GotoType DEF StartSubmit, Waiting
  <2>4. CASE SanityReject(o)  BY <1>0, <1>a, <2>4, FinishType DEF SanityReject
  <2>5. CASE Retry(o)
    <3>1. call[o].attempt + 1 \in Attempts
      BY <1>0, <2>5, OrderAssumption DEF Retry, CallInv, CurrentFits, At, Attempts, CallType
    <3> QED  BY <1>0, <2>5, <3>1 DEF Retry, CallType, Waiting
  <2> QED  BY <1>4, <2>1, <2>2, <2>3, <2>4, <2>5 DEF OrderStep
<1>5. ASSUME NEW c \in Cancels, CancelOffer(c)
      PROVE  call' \in [Calls -> CallType] /\ UNCHANGED <<trade, seen, riskVars, tx, sequence>>
  BY <1>0, <1>5, GotoType DEF CancelOffer, Waiting
<1>6. ASSUME NEW c \in Calls, SubmitStep(c)
      PROVE  /\ call' \in [Calls -> CallType] /\ trade' \in [Orders -> Trades]
             /\ seen' \subseteq Intents /\ tx' \in [Calls -> TxType]
             /\ failures' \in Nat /\ shutdown' \in BOOLEAN
             /\ UNCHANGED sequence
  <2>1. CASE Autofilled(c)
    <3>1. Guarded(c) => call[c].intent \in Intents
      BY <2>1 DEF Guarded, Autofilled, At, Waiting, CallInv, CurrentFits
    <3>2. [seq |-> sequence, status |-> "prepared"] \in [seq : Nat, status : TxStatus]  BY <1>0, <1>b
    <3>3. tx' \in [Calls -> TxType]  BY <1>0, <2>1, <3>2, SetTxType DEF Autofilled
    <3> QED  BY <1>0, <2>1, <3>1, <3>3, GotoType DEF Autofilled, riskVars, Waiting
  <2>2. CASE PrepareFails(c)  BY <1>0, <1>a, <2>2, FinishType, RegisterType DEF PrepareFails
  <2>3. CASE Signed(c)
    <3>1. CurrentTx(c) \in [seq : Nat, status : TxStatus]  BY <1>0 DEF CurrentTx, TxType, CallType
    <3>2. [CurrentTx(c) EXCEPT !.status = "submitted"] \in [seq : Nat, status : TxStatus]  BY <1>b, <3>1
    <3>3. tx' \in [Calls -> TxType]  BY <1>0, <2>3, <3>2, SetTxType DEF Signed
    <3> QED  BY <1>0, <1>a, <2>3, <3>3, GotoType, RecordType DEF Signed, riskVars, Waiting
  <2>4. CASE SubmitFails(c)  BY <1>0, <1>a, <2>4, FinishType DEF SubmitFails, riskVars
  <2>5. CASE Submitted(c)  BY <1>0, <2>5, GotoType DEF Submitted, riskVars, Waiting
  <2>6. CASE Validated(c)  BY <1>0, <1>a, <2>6, FinishType DEF Validated, ResetFailures
  <2>7. CASE ValidatedFailure(c)
    <3>1. Goto(c, "done") \/ Goto(c, "backoff")  BY <2>7 DEF ValidatedFailure
    <3>2. call' \in [Calls -> CallType]  BY <1>0, <3>1, GotoType DEF Waiting
    <3> QED  BY <1>0, <1>a, <2>7, <3>2, RecordType, RegisterType DEF ValidatedFailure
  <2>8. CASE LookupExpires(c)  BY <1>0, <1>a, <2>8, FinishType, RegisterType DEF LookupExpires
  <2> QED  BY <1>6, <2>1, <2>2, <2>3, <2>4, <2>5, <2>6, <2>7, <2>8 DEF SubmitStep
<1>7. ASSUME NEW c \in Calls, Ledger(c)
      PROVE  /\ tx' \in [Calls -> TxType] /\ sequence' \in Nat
             /\ UNCHANGED <<call, trade, seen, riskVars>>
  <2>1. ASSUME NEW a \in Attempts, Include(c, a)
        PROVE  tx' \in [Calls -> TxType] /\ sequence' \in Nat
    BY <1>0, <1>b, <2>1 DEF Include, TxType
  <2>2. ASSUME NEW a \in Attempts, Drop(c, a)
        PROVE  tx' \in [Calls -> TxType] /\ sequence' \in Nat
    BY <1>0, <1>b, <2>2 DEF Drop, TxType
  <2> QED  BY <1>7, <2>1, <2>2 DEF Ledger, Include, Drop
<1>8. ASSUME NEW i \in Intents, ForgetIntent(i)
      PROVE  seen' \subseteq Intents /\ UNCHANGED <<call, trade, riskVars, tx, sequence>>
  BY <1>0, <1>8 DEF ForgetIntent
<1>9. CASE UNCHANGED vars  BY <1>0, <1>9 DEF vars, riskVars
<1> QED
  BY <1>0, <1>1, <1>2, <1>3, <1>4, <1>5, <1>6, <1>7, <1>8, <1>9 DEF Next, riskVars, Calls

-----------------------------------------------------------------------------
(* The calls and their transactions                                        *)

LEMMA CallInvIsInitial == Init => CallInv
<1> SUFFICES ASSUME Init, NEW c \in Calls PROVE EarlierWereKilled(c) /\ CurrentFits(c)
  BY DEF CallInv
<1>1. call[c] = [pc |-> "unused", intent |-> None, attempt |-> 1]  BY DEF Init
<1>2. \A a \in Attempts : tx[c][a].status = "none"  BY DEF Init
<1>3. 1 \in Attempts  BY OrderAssumption DEF Attempts
<1>4. EarlierWereKilled(c)  BY <1>1, <1>2 DEF EarlierWereKilled, Attempts
<1>4a. c \in Orders => trade[c].status = "none"  BY DEF Init
<1>5. CurrentFits(c)  BY <1>1, <1>2, <1>3, <1>4a DEF CurrentFits, CurrentTx, Waiting
<1> QED  BY <1>4, <1>5

\* A step that leaves a call, its trade and its transactions alone leaves
\* what is said of them alone.
LEMMA OthersKeepInv ==
    ASSUME CallInv, NEW d \in Calls,
           call'[d] = call[d], d \in Orders => trade'[d] = trade[d], tx'[d] = tx[d]
    PROVE  EarlierWereKilled(d)' /\ CurrentFits(d)'
<1>1. EarlierWereKilled(d) /\ CurrentFits(d)  BY DEF CallInv
<1> QED  BY <1>1 DEF EarlierWereKilled, CurrentFits, CurrentTx

LEMMA CallInvIsInductive == TypeOK /\ CallInv /\ [Next]_vars => CallInv'
<1> SUFFICES ASSUME TypeOK, CallInv, [Next]_vars PROVE CallInv'  OBVIOUS
<1> USE DEF Calls
<1>0. /\ call \in [Calls -> CallType] /\ trade \in [Orders -> Trades]
      /\ tx \in [Calls -> TxType]
  BY DEF TypeOK, CallType, TxType
<1>z. \A c \in Calls : EarlierWereKilled(c) /\ CurrentFits(c)  BY DEF CallInv
<1>t. ASSUME UNCHANGED <<call, trade, tx>> PROVE CallInv'
  BY <1>t, OthersKeepInv DEF CallInv
\* A step of one call: the others keep their part.
<1>s. ASSUME NEW c \in Calls,
             \A d \in Calls : d # c => call'[d] = call[d] /\ (d \in Orders => trade'[d] = trade[d]) /\ tx'[d] = tx[d],
             EarlierWereKilled(c)' /\ CurrentFits(c)'
      PROVE  CallInv'
  BY <1>s, OthersKeepInv DEF CallInv
\* A call that returns, its transactions as they were.
<1>f. ASSUME NEW c \in Calls, NEW status, NEW outcome, Finish(c, status, outcome), UNCHANGED tx,
             [status |-> status, outcome |-> outcome] \in Trades,
             status = "REJECTED" /\ outcome # "timeout" =>
                 CurrentTx(c).status \notin {"submitted", "success"},
             status = "FILLED" => CurrentTx(c).status = "success"
      PROVE  CallInv'
  <2>1. call'[c] = [call[c] EXCEPT !.pc = "done"]  BY <1>0, <1>f DEF Finish, Goto
  <2>2. call'[c].pc = "done" /\ call'[c].attempt = call[c].attempt
    BY <1>0, <2>1 DEF CallType
  <2>3. EarlierWereKilled(c)'  BY <1>f, <1>z, <2>2 DEF EarlierWereKilled
  <2>4. /\ c \in Orders => trade'[c] = [status |-> status, outcome |-> outcome]
        /\ \A d \in Orders : d # c => trade'[d] = trade[d]
    BY <1>0, <1>f, RecordType DEF Finish
  <2>5. CurrentFits(c)'  BY <1>f, <2>2, <2>4 DEF CurrentFits, CurrentTx, Waiting
  <2>6. \A d \in Calls : d # c => call'[d] = call[d] /\ (d \in Orders => trade'[d] = trade[d]) /\ tx'[d] = tx[d]
    BY <1>0, <1>f, <2>4 DEF Finish, Goto
  <2> QED  BY <2>3, <2>5, <2>6, <1>s
\* A call that returns without a record, before it has a transaction.
<1>r. ASSUME NEW c \in Calls, Goto(c, "done"), UNCHANGED <<trade, tx>>,
             call[c].pc # "done", CurrentTx(c).status = "none"
      PROVE  CallInv'
  <2>1. call'[c] = [call[c] EXCEPT !.pc = "done"]  BY <1>0, <1>r DEF Goto
  <2>2. call'[c].pc = "done" /\ call'[c].attempt = call[c].attempt
    BY <1>0, <2>1 DEF CallType
  <2>3. EarlierWereKilled(c)'  BY <1>r, <1>z, <2>2 DEF EarlierWereKilled
  <2>4. c \in Orders => trade[c].status # "FILLED"  BY <1>r, <1>z DEF CurrentFits
  <2>5. CurrentFits(c)'  BY <1>r, <2>2, <2>4 DEF CurrentFits, CurrentTx, Waiting
  <2>6. \A d \in Calls : d # c => call'[d] = call[d] /\ (d \in Orders => trade'[d] = trade[d]) /\ tx'[d] = tx[d]
    BY <1>0, <1>r DEF Goto
  <2> QED  BY <2>3, <2>5, <2>6, <1>s
\* A call that waits for something else, its transactions as they were.
<1>g. ASSUME NEW c \in Calls, NEW pc \in {"autofill", "validate", "backoff"}, Goto(c, pc),
             UNCHANGED tx, \A d \in Orders : d # c => trade'[d] = trade[d],
             c \in Orders => call[c].intent \in Intents /\ trade'[c].status # "FILLED",
             pc = "autofill" => CurrentTx(c).status = "none",
             pc = "backoff" => CurrentTx(c).status = "killed" /\ call[c].attempt < MaxAttempts
      PROVE  CallInv'
  <2>1. call'[c] = [call[c] EXCEPT !.pc = pc]  BY <1>0, <1>g DEF Goto
  <2>2. /\ call'[c].pc = pc /\ call'[c].attempt = call[c].attempt
        /\ call'[c].intent = call[c].intent
    BY <1>0, <2>1 DEF CallType
  <2>3. EarlierWereKilled(c)'  BY <1>g, <1>z, <2>2 DEF EarlierWereKilled
  <2>4. CurrentFits(c)'  BY <1>g, <2>2 DEF CurrentFits, CurrentTx
  <2>5. \A d \in Calls : d # c => call'[d] = call[d] /\ (d \in Orders => trade'[d] = trade[d]) /\ tx'[d] = tx[d]
    BY <1>0, <1>g DEF Goto
  <2> QED  BY <2>3, <2>4, <2>5, <1>s
<1>1. CASE NewDay  BY <1>1, <1>t DEF NewDay
<1>2. CASE TickHalts  BY <1>2, <1>t DEF TickHalts
<1>3. ASSUME NEW o \in Orders, NEW i \in Intents, PlaceOffer(o, i) PROVE CallInv'
  <2>1. call'[o] = [call[o] EXCEPT !.pc = "depth", !.intent = i]  BY <1>0, <1>3 DEF PlaceOffer
  <2>2. call'[o].pc = "depth" /\ call'[o].attempt = call[o].attempt /\ call'[o].intent = i
    BY <1>0, <2>1 DEF CallType
  <2>3. UNCHANGED <<trade, tx>>  BY <1>3 DEF PlaceOffer
  <2>4. CurrentTx(o).status = "none"  BY <1>3, <1>z DEF PlaceOffer, At, CurrentFits
  <2>5. EarlierWereKilled(o)'  BY <1>z, <2>2, <2>3 DEF EarlierWereKilled
  <2>6. CurrentFits(o)'
    <3>1. trade'[o].status # "FILLED"  BY <1>3, <1>z, <2>3 DEF PlaceOffer, At, CurrentFits
    <3> QED  BY <2>2, <2>3, <2>4, <3>1 DEF CurrentFits, CurrentTx
  <2>7. \A d \in Calls : d # o => call'[d] = call[d] /\ (d \in Orders => trade'[d] = trade[d]) /\ tx'[d] = tx[d]
    BY <1>0, <1>3, <2>3 DEF PlaceOffer
  <2> QED  BY <2>5, <2>6, <2>7, <1>s
<1>4. ASSUME NEW o \in Orders, OrderStep(o) PROVE CallInv'
  <2>0. CurrentFits(o)  BY <1>z
  <2>1. CASE WithholdOffer(o)
    <3>1. CurrentTx(o).status = "none" /\ call[o].pc # "done"
      BY <2>0, <2>1 DEF WithholdOffer, At, CurrentFits
    <3>2. [status |-> "REJECTED", outcome |-> "rejected"] \in Trades  BY DEF Trades
    <3> QED  BY <1>f, <1>r, <2>1, <3>1, <3>2 DEF WithholdOffer
  <2>2. CASE PreventDuplicate(o)
    BY <1>r, <2>0, <2>2 DEF PreventDuplicate, At, CurrentFits
  <2>3. CASE StartSubmit(o)
    BY <1>g, <2>0, <2>3 DEF StartSubmit, At, CurrentFits, Waiting
  <2>4. CASE SanityReject(o)
    <3>1. [status |-> "REJECTED", outcome |-> "rejected"] \in Trades  BY DEF Trades
    <3> QED  BY <1>f, <2>0, <2>4, <3>1 DEF SanityReject, At, CurrentFits
  <2>5. CASE Retry(o)
    <3>1. /\ CurrentTx(o).status = "killed" /\ call[o].attempt < MaxAttempts
          /\ call[o].intent \in Intents
      BY <2>0, <2>5 DEF Retry, At, CurrentFits, Waiting
    <3>2. call'[o] = [call[o] EXCEPT !.pc = "depth", !.attempt = call[o].attempt + 1]
      BY <1>0, <2>5 DEF Retry
    <3>3. call'[o].pc = "depth" /\ call'[o].attempt = call[o].attempt + 1 /\ call'[o].intent = call[o].intent
      BY <1>0, <3>2 DEF CallType
    <3>4. UNCHANGED <<trade, tx>>  BY <2>5 DEF Retry
    <3>5. call[o].attempt \in Attempts /\ call[o].attempt + 1 \in Attempts
      BY <1>0, <3>1, OrderAssumption DEF CallType, Attempts
    <3>6. EarlierWereKilled(o)'
      <4> SUFFICES ASSUME NEW a \in Attempts
                   PROVE  /\ a < call[o].attempt + 1 => tx[o][a].status = "killed"
                          /\ a > call[o].attempt + 1 => tx[o][a].status = "none"
        BY <3>3, <3>4 DEF EarlierWereKilled
      <4>1. a < call[o].attempt + 1 => a < call[o].attempt \/ a = call[o].attempt
        BY <3>5 DEF Attempts
      <4>2. a > call[o].attempt + 1 => a > call[o].attempt  BY <3>5 DEF Attempts
      <4> QED  BY <1>z, <3>1, <4>1, <4>2 DEF EarlierWereKilled, CurrentTx
    <3>7. CurrentTx(o)'.status = "none"
      <4>1. call[o].attempt + 1 > call[o].attempt  BY <3>5 DEF Attempts
      <4> QED  BY <1>z, <3>3, <3>4, <3>5, <4>1 DEF EarlierWereKilled, CurrentTx
    <3>8. CurrentFits(o)'
      <4>1. trade'[o].status # "FILLED"  BY <1>z, <2>5, <3>4 DEF Retry, At, CurrentFits
      <4> QED  BY <3>1, <3>3, <3>7, <4>1 DEF CurrentFits
    <3>9. \A d \in Calls : d # o => call'[d] = call[d] /\ (d \in Orders => trade'[d] = trade[d]) /\ tx'[d] = tx[d]
      BY <1>0, <2>5, <3>4 DEF Retry
    <3> QED  BY <3>6, <3>8, <3>9, <1>s
  <2> QED  BY <1>4, <2>1, <2>2, <2>3, <2>4, <2>5 DEF OrderStep
<1>5. ASSUME NEW c \in Cancels, CancelOffer(c) PROVE CallInv'
  BY <1>5, <1>g, <1>z, OrderAssumption DEF CancelOffer, At, CurrentFits
<1>6. ASSUME NEW c \in Calls, SubmitStep(c) PROVE CallInv'
  <2>0. CurrentFits(c) /\ EarlierWereKilled(c)  BY <1>z
  \* A call whose current transaction is written.
  <2>w. ASSUME NEW pc \in {"sign", "submit"}, Goto(c, pc),
               NEW new \in [seq : Nat, status : TxStatus], SetTx(c, new),
               call[c].pc \in Waiting,
               pc = "sign" => new.status = "prepared",
               \A d \in Orders : d # c => trade'[d] = trade[d],
               c \in Orders => trade'[c].status # "FILLED"
        PROVE  CallInv'
    <3>1. call'[c] = [call[c] EXCEPT !.pc = pc]  BY <1>0, <2>w DEF Goto
    <3>2. /\ call'[c].pc = pc /\ call'[c].attempt = call[c].attempt
          /\ call'[c].intent = call[c].intent
      BY <1>0, <3>1 DEF CallType
    <3>3. /\ tx'[c][call[c].attempt] = new
          /\ \A a \in Attempts : a # call[c].attempt => tx'[c][a] = tx[c][a]
          /\ \A d \in Calls : d # c => tx'[d] = tx[d]
      BY <1>0, <2>w, SetTxType
    <3>4. \A a \in Attempts : a < call[c].attempt \/ a > call[c].attempt => a # call[c].attempt
      BY <1>0 DEF CallType, Attempts
    <3>5. EarlierWereKilled(c)'  BY <2>0, <3>2, <3>3, <3>4 DEF EarlierWereKilled
    <3>6. CurrentFits(c)'  BY <2>0, <2>w, <3>2, <3>3 DEF CurrentFits, CurrentTx
    <3>7. \A d \in Calls : d # c => call'[d] = call[d] /\ (d \in Orders => trade'[d] = trade[d]) /\ tx'[d] = tx[d]
      BY <1>0, <2>w, <3>3 DEF Goto
    <3> QED  BY <3>5, <3>6, <3>7, <1>s
  <2>1. CASE Autofilled(c)
    <3>1. [seq |-> sequence, status |-> "prepared"] \in [seq : Nat, status : TxStatus]
      BY DEF TypeOK, TxStatus
    <3> QED  BY <2>0, <2>1, <2>w, <3>1 DEF Autofilled, At, Waiting, CurrentFits
  <2>2. CASE PrepareFails(c)
    <3>1. CurrentTx(c).status \in {"none", "prepared"}  BY <2>0, <2>2 DEF PrepareFails, CurrentFits
    <3>2. [status |-> "REJECTED", outcome |-> "rejected"] \in Trades  BY DEF Trades
    <3> QED  BY <1>f, <2>2, <3>1, <3>2 DEF PrepareFails
  <2>3. CASE Signed(c)
    <3>1. CurrentTx(c) \in [seq : Nat, status : TxStatus]  BY <1>0 DEF CurrentTx, TxType, CallType
    <3>2. [CurrentTx(c) EXCEPT !.status = "submitted"] \in [seq : Nat, status : TxStatus]
      BY <3>1 DEF TxStatus
    <3>3. /\ c \in Orders => trade'[c].status = "PENDING"
          /\ \A d \in Orders : d # c => trade'[d] = trade[d]
      <4>1. [status |-> "PENDING", outcome |-> "abandoned"] \in Trades  BY DEF Trades
      <4> QED  BY <1>0, <2>3, <4>1, RecordType DEF Signed
    <3> QED  BY <2>3, <2>w, <3>2, <3>3 DEF Signed, At, Waiting
  <2>4. CASE SubmitFails(c)
    <3>1. [status |-> "REJECTED", outcome |-> "timeout"] \in Trades  BY DEF Trades
    <3> QED  BY <1>f, <2>4, <3>1 DEF SubmitFails
  <2>5. CASE Submitted(c)  BY <1>g, <2>0, <2>5 DEF Submitted, At, CurrentFits, Waiting
  <2>6. CASE Validated(c)
    <3>1. /\ [status |-> "FILLED", outcome |-> "filled"] \in Trades
          /\ [status |-> "PENDING", outcome |-> "abandoned"] \in Trades
      BY DEF Trades
    <3> QED  BY <1>f, <2>6, <3>1 DEF Validated
  <2>7. CASE ValidatedFailure(c)
    <3>1. CurrentTx(c).status \in {"killed", "failed"}  BY <2>7 DEF ValidatedFailure, Included
    <3>2. [status |-> "REJECTED", outcome |-> "rejected"] \in Trades  BY DEF Trades
    <3>3. CASE Goto(c, "done")
      BY <1>f, <2>7, <3>1, <3>2, <3>3 DEF ValidatedFailure, Finish
    <3>4. CASE MayRetry(c) /\ Goto(c, "backoff")
      <4>1. /\ c \in Orders => trade'[c].status = "REJECTED"
            /\ \A d \in Orders : d # c => trade'[d] = trade[d]
        BY <1>0, <2>7, <3>2, RecordType DEF ValidatedFailure
      <4> QED  BY <1>g, <2>0, <2>7, <3>4, <4>1
               DEF ValidatedFailure, MayRetry, At, CurrentFits, Waiting
    <3> QED  BY <2>7, <3>3, <3>4 DEF ValidatedFailure
  <2>8. CASE LookupExpires(c)
    <3>1. [status |-> "REJECTED", outcome |-> "timeout"] \in Trades  BY DEF Trades
    <3> QED  BY <1>f, <2>8, <3>1 DEF LookupExpires
  <2> QED  BY <1>6, <2>1, <2>2, <2>3, <2>4, <2>5, <2>6, <2>7, <2>8 DEF SubmitStep
<1>7. ASSUME NEW c \in Calls, Ledger(c) PROVE CallInv'
  <2>1. PICK a \in Attempts : Include(c, a) \/ Drop(c, a)  BY <1>7 DEF Ledger
  <2>2. tx[c][a].status = "submitted"  BY <2>1 DEF Include, Drop
  <2>3. PICK status \in Included \cup {"dropped"} : tx' = [tx EXCEPT ![c][a].status = status]
    BY <2>1 DEF Include, Drop
  <2>4. UNCHANGED <<call, trade>>  BY <2>1 DEF Include, Drop
  <2>5. \A d \in Calls : d # c => call'[d] = call[d] /\ (d \in Orders => trade'[d] = trade[d]) /\ tx'[d] = tx[d]
    BY <1>0, <2>3, <2>4
  <2>6. a = call[c].attempt
    <3>1. ~(a < call[c].attempt) /\ ~(a > call[c].attempt)
      BY <1>z, <2>2 DEF EarlierWereKilled
    <3>2. call[c].attempt \in Attempts  BY <1>0 DEF CallType
    <3> QED  BY <3>1, <3>2 DEF Attempts
  <2>7. \A b \in Attempts : b # a => tx'[c][b] = tx[c][b]  BY <1>0, <2>3 DEF TxType
  <2>8. \A b \in Attempts : b < call[c].attempt \/ b > call[c].attempt => b # a
    BY <1>0, <2>6 DEF CallType, Attempts
  <2>9. EarlierWereKilled(c)'  BY <1>z, <2>4, <2>7, <2>8 DEF EarlierWereKilled
  <2>10. CurrentFits(c)'
    <3>1. CurrentTx(c).status = "submitted"  BY <2>2, <2>6 DEF CurrentTx
    <3>2. call[c].pc \notin {"unused", "depth", "autofill", "sign", "backoff"}
      BY <1>z, <3>1 DEF CurrentFits
    <3>3. c \in Orders /\ call[c].pc = "done" =>
              /\ ~(trade[c].status = "REJECTED" /\ trade[c].outcome # "timeout")
              /\ trade[c].status # "FILLED"
      BY <1>z, <3>1 DEF CurrentFits
    <3> QED  BY <1>z, <2>4, <3>2, <3>3 DEF CurrentFits
  <2> QED  BY <2>5, <2>9, <2>10, <1>s
<1>8. ASSUME NEW i \in Intents, ForgetIntent(i) PROVE CallInv'
  BY <1>8, <1>t DEF ForgetIntent
<1>9. CASE UNCHANGED vars  BY <1>9, <1>t DEF vars
<1> QED  BY <1>1, <1>2, <1>3, <1>4, <1>5, <1>6, <1>7, <1>8, <1>9 DEF Next

-----------------------------------------------------------------------------
(* The kill switch                                                         *)

LEMMA LimitIsInductive == TypeOK /\ FailureLimitHalts /\ [Next]_vars => FailureLimitHalts'
<1> SUFFICES ASSUME TypeOK, FailureLimitHalts, [Next]_vars PROVE FailureLimitHalts'  OBVIOUS
<1> USE OrderAssumption DEF FailureLimitHalts, TypeOK
<1>1. CASE RegisterFailure  BY <1>1 DEF RegisterFailure
<1>2. CASE ResetFailures  BY <1>2 DEF ResetFailures
<1>3. CASE UNCHANGED riskVars  BY <1>3 DEF riskVars
<1>4. CASE NewDay  BY <1>4 DEF NewDay
<1>5. CASE TickHalts  BY <1>5 DEF TickHalts
<1>6. ASSUME NEW o \in Orders, OrderStep(o) PROVE UNCHANGED riskVars
  BY <1>6 DEF OrderStep, WithholdOffer, PreventDuplicate, StartSubmit, SanityReject, Retry
<1>7. ASSUME NEW c \in Calls, SubmitStep(c)
      PROVE  RegisterFailure \/ ResetFailures \/ UNCHANGED riskVars
  BY <1>7 DEF SubmitStep, Autofilled, PrepareFails, Signed, SubmitFails, Submitted, Validated,
              ValidatedFailure, LookupExpires
<1>8. ASSUME NEW c \in Calls, Ledger(c) PROVE UNCHANGED riskVars
  BY <1>8 DEF Ledger, Include, Drop
<1>9. CASE UNCHANGED vars  BY <1>3, <1>9 DEF vars
<1> QED
  BY <1>1, <1>2, <1>3, <1>4, <1>5, <1>6, <1>7, <1>8, <1>9
     DEF Next, PlaceOffer, CancelOffer, ForgetIntent

-----------------------------------------------------------------------------
(* The theorems                                                            *)

LEMMA Inductive == Spec => []IInv
<1>1. Init => IInv
  <2>1. Init => FailureLimitHalts  BY OrderAssumption DEF Init, FailureLimitHalts
  <2> QED  BY <2>1, TypeIsInitial, CallInvIsInitial DEF IInv
<1>2. IInv /\ [Next]_vars => IInv'
  BY TypeIsInductive, CallInvIsInductive, LimitIsInductive DEF IInv
<1> QED  BY <1>1, <1>2, PTL DEF Spec

\* The types of the submit path: in particular the retry loop never starts
\* an attempt beyond maxAttempts.
THEOREM TypeCorrectness == Spec => []TypeOK
<1>1. IInv => TypeOK  BY DEF IInv
<1> QED  BY <1>1, Inductive, PTL

\* For any number of orders, cancels and attempts, overlapping as they may,
\* no order has two transactions that executed or still may.
THEOREM OneAttempt == Spec => []OneAttemptIsLive
<1>1. IInv => OneAttemptIsLive
  <2> SUFFICES ASSUME IInv, NEW o \in Orders, NEW a \in Attempts, NEW b \in Attempts,
                      Live(o, a), Live(o, b)
               PROVE  a = b
    BY DEF OneAttemptIsLive
  <2>1. call[o].attempt \in Attempts  BY DEF IInv, TypeOK, Calls
  <2>2. EarlierWereKilled(o)  BY DEF IInv, CallInv, Calls
  <2>3. ~(a < call[o].attempt) /\ ~(a > call[o].attempt)  BY <2>2 DEF EarlierWereKilled, Live
  <2>4. ~(b < call[o].attempt) /\ ~(b > call[o].attempt)  BY <2>2 DEF EarlierWereKilled, Live
  <2> QED  BY <2>1, <2>3, <2>4 DEF Attempts
<1> QED  BY <1>1, Inductive, PTL

\* For any number of orders under way, what the history and the trace say of
\* an order that has returned is what the ledger did, or the trace says timeout.
THEOREM DoubtTraced == Spec => []DoubtIsTraced
<1>1. IInv => DoubtIsTraced
  <2> SUFFICES ASSUME IInv, NEW o \in Orders, At(o, "done")
               PROVE  /\ trade[o].status = "REJECTED" /\ trade[o].outcome # "timeout" =>
                            \A a \in Attempts : ~Live(o, a)
                      /\ trade[o].status = "FILLED" => CurrentTx(o).status = "success"
    BY DEF DoubtIsTraced
  <2>0. o \in Calls  BY DEF Calls
  <2>1. call[o].attempt \in Attempts  BY <2>0 DEF IInv, TypeOK
  <2>2. EarlierWereKilled(o) /\ CurrentFits(o)  BY <2>0 DEF IInv, CallInv
  <2>3. \A a \in Attempts : a < call[o].attempt \/ a = call[o].attempt \/ a > call[o].attempt
    BY <2>1 DEF Attempts
  <2>4. ASSUME trade[o].status = "REJECTED", trade[o].outcome # "timeout", NEW a \in Attempts
        PROVE  ~Live(o, a)
    <3>1. CASE a = call[o].attempt
      BY <2>2, <2>4, <3>1 DEF CurrentFits, CurrentTx, At, Live
    <3>2. CASE a < call[o].attempt \/ a > call[o].attempt
      BY <2>2, <3>2 DEF EarlierWereKilled, Live
    <3> QED  BY <2>3, <3>1, <3>2
  <2>5. trade[o].status = "FILLED" => CurrentTx(o).status = "success"
    BY <2>2 DEF CurrentFits, At
  <2> QED  BY <2>4, <2>5
<1> QED  BY <1>1, Inductive, PTL

\* Whatever order submissions, ticks and days come in, a failure count at
\* the limit means that the kill switch is on.
THEOREM KillSwitchAtLimit == Spec => []FailureLimitHalts
<1>1. IInv => FailureLimitHalts  BY DEF IInv
<1> QED  BY <1>1, Inductive, PTL
=============================================================================
