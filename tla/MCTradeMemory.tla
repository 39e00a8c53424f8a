---------------------------- MODULE MCTradeMemory ----------------------------
(***************************************************************************)
(* What the bot remembers of its trades, in memory and across kills and    *)
(* crashes: small instances of Exposure, Breaker, TradeRecords and Scalper *)
(* for TLC.  None touches the state of another, so a behaviour runs one of *)
(* them and the others rest in their initial state.  Exposure has two      *)
(* parts: "pairs" goes on after what the tracker does not follow, with two *)
(* orders of one unit; "exposure" ends there, with more orders, and of any *)
(* size.  Of the two transactions one may be the bot's.                    *)
(***************************************************************************)
EXTENDS Exposure, FiniteSets, TLC

CONSTANTS
    Parts, \* the models that a run is about
    p1, p2, r1, r2, own, manual, Instances, Ticks, TickTime, Window, Cooldown, MaxLoss, Edge, MaxProfit,
    MaxTime, Hashes, Torn, Calls, MaxSize, MaxHeld

VARIABLES
    part, \* the module that runs
    now, strategy, breaker, tick, file, defaults, profit, lastTrip, intact,
    offer, ledger, running, botHashes, trades, loaded, tradesFile, cloud, upload,
    jobs, timers, jobsFile, midway, scheduled, lost,
    pair, position, call, owned, followed

B == INSTANCE Breaker
T == INSTANCE TradeRecords WITH order <- offer, file <- tradesFile
S == INSTANCE Scalper WITH held <- owned

ASSUME TradeMemoryAssumption ==
    B!BreakerAssumption /\ T!TradeRecordsAssumption /\ S!ScalperAssumption

breakerVars == <<now, strategy, breaker, tick, file, defaults, profit, lastTrip, intact>>
recordVars == <<offer, ledger, running, botHashes, trades, loaded, tradesFile, cloud, upload,
                jobs, timers, jobsFile, midway, scheduled, lost>>
scalperVars == <<pair, position, call, owned, followed>>

MCInit ==
    /\ part \in Parts
    /\ Init /\ B!Init /\ T!Init /\ S!Init

ExposureStep(A) ==
    part \in {"pairs", "exposure"} /\ A /\ UNCHANGED <<part, breakerVars, recordVars, scalperVars>>
BreakerStep(A) ==
    part = "breaker" /\ A /\ UNCHANGED <<part, vars, recordVars, scalperVars>>
RecordStep(A) ==
    part = "records" /\ A /\ UNCHANGED <<part, vars, breakerVars, scalperVars>>
ScalperStep(A) ==
    part = "scalper" /\ A /\ UNCHANGED <<part, vars, breakerVars, recordVars>>

\* The orders of "pairs".
IsSmall(c) == c \in 1 .. 2 /\ order'[c].amount = 1

MCNext ==
    \/ \E p \in Pairs, readable \in BOOLEAN : ExposureStep(SetActivePair(p, readable))
    \/ ExposureStep(Kill)
    \/ ExposureStep(Crash)
    \/ \E r \in Runtimes : ExposureStep(Start(r))
    \/ \E c \in Slots :
           \/ ExposureStep(Place(c)) /\ (part = "pairs" => IsSmall(c))
           \/ ExposureStep(Execute(c))
           \/ \E saved \in BOOLEAN : ExposureStep(Record(c, saved))
           \/ ExposureStep(GiveUp(c))
    \/ BreakerStep(B!Kill)
    \/ BreakerStep(B!Crash)
    \/ BreakerStep(B!Pass)
    \/ \E i \in Instances :
           \/ BreakerStep(B!Start(i))
           \/ BreakerStep(B!Load(i))
           \/ BreakerStep(B!Save(i))
    \/ \E k \in Ticks :
           \/ BreakerStep(B!Check(k))
           \/ BreakerStep(B!PlaceOrder(k))
           \/ BreakerStep(B!Conclude(k))
           \/ BreakerStep(B!Reject(k))
    \/ RecordStep(T!EndUpload)
    \/ RecordStep(T!InitFromCloud)
    \/ RecordStep(T!Read)
    \/ \E h \in Hashes :
           \/ h = own /\ RecordStep(T!Place(h))
           \/ RecordStep(T!Sign(h))
           \/ RecordStep(T!Validate(h))
           \/ RecordStep(T!RecordFill(h))
           \/ RecordStep(T!Quarantine(h))
           \/ RecordStep(T!Reject(h))
           \/ RecordStep(T!Return(h))
           \/ RecordStep(T!Ingest(h))
           \/ RecordStep(T!Fire(h))
    \/ RecordStep(T!Schedule)
    \/ RecordStep(T!Conclude)
    \/ RecordStep(T!Start)
    \/ RecordStep(T!Kill)
    \/ RecordStep(T!Crash)
    \/ \E c \in Calls :
           \/ ScalperStep(S!Enter(c))
           \/ ScalperStep(S!Exit(c))
           \/ ScalperStep(S!Execute(c))
           \/ ScalperStep(S!Accepted(c))
           \/ ScalperStep(S!NotAccepted(c))
    \/ ScalperStep(S!CooldownEnds)
    \/ ScalperStep(S!SwitchPair)
    \/ ScalperStep(S!Restart)

MCSpec == MCInit /\ [][MCNext]_<<part, vars, breakerVars, recordVars, scalperVars>>

Symmetric == Permutations(Pairs) \cup Permutations(Runtimes)

Alike(c) == {d \in Slots : order[d] = order[c]}
Gone(r) == \A c \in Slots : order[c] # None => order[c].at # r

\* The strategies whose breaker is still read, and what the breakers tell apart: the
\* trades of the window, and a trip until its cooldown is over.
Used(i) ==
    \/ i = strategy \/ breaker[i].saving
    \/ \E k \in Ticks : tick[k] # None /\ tick[k].at = i

SeenBreaker(i) ==
    IF Used(i) THEN [breaker[i] EXCEPT !.trades = B!InWindow(@)] ELSE None

BreakerView ==
    <<now, strategy, [i \in Instances |-> SeenBreaker(i)], tick,
      IF file = None THEN None ELSE [file EXCEPT !.trades = B!InWindow(@)],
      B!InWindow(defaults), B!InWindow(profit),
      IF lastTrip # None /\ now - lastTrip > Cooldown THEN None ELSE lastTrip>>

\* Slots are alike, and a killed runtime without an order is never used again.
ExposureView ==
    <<runtime, {<<order[c], Cardinality(Alike(c))>> : c \in Slots}, row,
      [r \in Runtimes |-> IF runtime # r /\ Gone(r) THEN None ELSE tracker[r]]>>

\* What the properties tell apart: nothing more is claimed of what the account holds once
\* the tracker does not follow, of a breaker that lost some state, nor of a scalper that
\* is not followed.
View ==
    CASE part = "pairs" -> <<part, ExposureView>>
      [] part = "exposure" -> IF undisturbed THEN <<part, ExposureView, held>> ELSE <<part>>
      [] part = "breaker" -> IF intact THEN <<part, BreakerView>> ELSE <<part>>
      [] part = "records" -> <<part, recordVars>>
      [] part = "scalper" -> IF followed THEN <<part, scalperVars>> ELSE <<part>>

\* Types only.
AllTypeOK == TypeOK /\ B!TypeOK /\ T!TypeOK /\ S!TypeOK

\* A trip of the path arbitrage breaker stops the ticks of its cooldown, through kills
\* and crashes (pathArbitrage.ts:87).
TripHolds == B!TripHolds

\* Losses past the limit trip the breaker, whichever process recorded them
\* (pathArbitrage.ts:110).
LossTrips == B!LossTrips

\* What is recorded of a transaction is not taken back (tradeHistory.ts:665).
StatusNeverFalls == T!StatusNeverFalls

\* The copy in S3 is a past of the file (tradeHistory.ts:801).
CloudIsBehind == T!CloudIsBehind

\* The bot's transactions are not taken for manual ones (accountTradeIngestion.ts:33).
OwnOrdersAreBots == T!OwnOrdersAreBots

\* The markout of a fill is in the history or still to come
\* (tradeMarkoutScheduler.ts:148).
MarkoutIsKept == T!MarkoutIsKept

\* The account holds what the scalper believes to hold, while it is followed
\* (scalper.ts:457).
PositionIsBacked == S!PositionIsBacked

\* No more is sold than was bought (scalper.ts:23).
SoldWasBought == S!SoldWasBought
=============================================================================
