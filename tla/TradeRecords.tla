----------------------------- MODULE TradeRecords -----------------------------
(***************************************************************************)
(* The trade history (tradeHistory.ts) with its file and its copy in S3    *)
(* (s3TradeStore.ts), and the three that write to it: the executor, the    *)
(* ingestion of the account's transactions (accountTradeIngestion.ts) and  *)
(* the markout scheduler with its own file (tradeMarkoutScheduler.ts).     *)
(*                                                                         *)
(* The process may crash between any two steps, in the middle of a write,  *)
(* and starts again with what the files hold.  Each file is written as a   *)
(* whole and not atomically.  PARTIAL stands with FILLED, a trade without  *)
(* a hash (paper, refused before it was signed) is left out, one markout   *)
(* horizon stands for all, and no trade is old enough to be dropped.       *)
(***************************************************************************)
EXTENDS Naturals

CONSTANTS
    Hashes, \* the account's transactions
    None,
    Torn    \* a file that cannot be parsed

VARIABLES
    order,     \* how far the executor is with the transaction
    ledger,    \* what the ledger made of it: none yet, success, failure
    running,   \* a runtime is started
    botHashes, \* AccountTradeIngestionService.botHashes
    trades,    \* TradeHistoryService.trades, by hash
    loaded,    \* TradeHistoryService.initialized
    file,      \* data/trades.json; None if there is none
    cloud,     \* the object in S3
    upload,    \* S3TradeStore.pendingUpload: what it writes, or None
    jobs,      \* pendingJobs of the scheduler, by the hash of their trade
    timers,    \* those whose timer is armed
    jobsFile,  \* the file of the jobs
    midway,    \* what a handler that has written one file still has to do
    scheduled, \* history: the fills whose markouts were scheduled
    lost       \* history: the files of which a write has failed or was torn

historyVars == <<trades, loaded, file, cloud, upload>>
jobVars == <<jobs, timers, jobsFile>>
vars == <<order, ledger, running, botHashes, historyVars, jobVars, midway, scheduled, lost>>

Statuses == {"PENDING", "REJECTED", "FILLED"}
Trades == [status : Statuses, source : {"bot", "manual"}, marked : BOOLEAN]
Histories == [Hashes -> Trades \cup {None}]
Empty == [h \in Hashes |-> None]
Nothing == [todo |-> None, of |-> None]

\* None and Torn are nothing else.
TradeRecordsAssumption ==
    /\ None # Torn
    /\ None \notin Hashes /\ None \notin Trades /\ None \notin Histories
    /\ Torn \notin Histories /\ \A hashes \in SUBSET Hashes : hashes # Torn
    /\ None \notin {"schedule", "conclude"}

\* Types only.
TypeOK ==
    /\ order \in [Hashes -> {"none", "placed", "signed", "recorded", "over"}]
    /\ ledger \in [Hashes -> {"none", "success", "failure"}]
    /\ {running, loaded} \subseteq BOOLEAN
    /\ botHashes \subseteq Hashes
    /\ trades \in Histories /\ cloud \in Histories
    /\ file \in Histories \cup {None, Torn}
    /\ upload \in Histories \cup {None}
    /\ jobs \subseteq Hashes /\ timers \subseteq Hashes /\ scheduled \subseteq Hashes
    /\ jobsFile \in (SUBSET Hashes) \cup {Torn}
    /\ midway \in [todo : {"schedule", "conclude"}, of : Hashes] \cup {Nothing}
    /\ lost \subseteq {"history", "jobs"}

Init ==
    /\ order = [h \in Hashes |-> "none"]
    /\ ledger = [h \in Hashes |-> "none"]
    /\ running = FALSE /\ botHashes = {}
    /\ trades = Empty /\ loaded = FALSE
    /\ file = None /\ cloud = Empty /\ upload = None
    /\ jobs = {} /\ timers = {} /\ jobsFile = {}
    /\ midway = Nothing
    /\ scheduled = {}
    /\ lost = {}

-----------------------------------------------------------------------------
(* The history                                                             *)

\* statusPriority(), 0 for no trade.
Priority(trade) ==
    IF trade = None THEN 0
    ELSE CASE trade.status = "PENDING" -> 1
           [] trade.status = "REJECTED" -> 2
           [] trade.status = "FILLED" -> 4

\* Mutated form: the last record of a hash wins.
ReplacesAlways(old, new) == TRUE

\* shouldReplaceByHash()
Replaces(old, new) == Priority(new) > Priority(old)

\* recordTrade() of a hash: a replacement keeps the trace, with its markouts.
Recorded(history, h, status, source) ==
    LET trade == [status |-> status, source |-> source, marked |-> FALSE]
    IN  IF history[h] = None THEN [history EXCEPT ![h] = trade]
        ELSE IF Replaces(history[h], trade)
        THEN [history EXCEPT ![h].status = status, ![h].source = source]
        ELSE history

\* Mutated form: what cannot be parsed is taken as it is.
LoadedUnparsed == IF loaded \/ file = None THEN trades ELSE file

\* init(): the first use loads the file, which replaces whatever was merged from S3
\* before; a file that cannot be parsed leaves no trades.
Loaded ==
    IF loaded \/ file = None THEN trades
    ELSE IF file = Torn THEN Empty
    ELSE file

\* A load whose trades lack their PnL writes the file again, as it was otherwise.
Backfills == ~loaded /\ file \notin {None, Torn}

Loads ==
    /\ trades' = Loaded /\ loaded' = TRUE
    /\ \/ UNCHANGED <<file, lost>>
       \/ Backfills /\ file' = Torn /\ lost' = lost \cup {"history"}

\* Mutated form: the file is left for the next save.
WritesLater(history) == UNCHANGED <<file, lost>>

\* writeFileSync(); one that fails is logged, and may have truncated the file.
Writes(history) ==
    \/ file' = history /\ lost' = lost
    \/ file' \in {file, Torn} /\ lost' = lost \cup {"history"}

\* saveToDisk(): the file, and S3 unless an upload is pending.
Saves(history) ==
    /\ trades' = history /\ loaded' = TRUE
    /\ Writes(history)
    /\ upload' = IF upload = None THEN history ELSE upload
    /\ UNCHANGED cloud

\* The upload ends, or fails and is logged; what was saved meanwhile waits for the
\* next save.
EndUpload ==
    /\ upload # None
    /\ cloud' \in {cloud, upload}
    /\ upload' = None
    /\ UNCHANGED <<order, ledger, running, botHashes, trades, loaded, file, jobVars, midway,
                   scheduled, lost>>

\* initFromCloud(), at the end of start(): the local copy of a hash wins.
InitFromCloud ==
    /\ running
    /\ midway = Nothing
    /\ trades' = [h \in Hashes |-> IF trades[h] = None THEN cloud[h] ELSE trades[h]]
    /\ UNCHANGED <<order, ledger, running, botHashes, loaded, file, cloud, upload, jobVars, midway,
                   scheduled, lost>>

\* A read of the dashboard.
Read ==
    /\ midway = Nothing /\ ~loaded
    /\ Loads
    /\ UNCHANGED <<order, ledger, running, botHashes, cloud, upload, jobVars, midway,
                   scheduled>>

-----------------------------------------------------------------------------
(* The executor                                                            *)

Place(h) ==
    /\ running
    /\ order[h] = "none" /\ ledger[h] = "none"
    /\ order' = [order EXCEPT ![h] = "placed"]
    /\ UNCHANGED <<ledger, running, botHashes, historyVars, jobVars, midway, scheduled, lost>>

\* Mutated form: an order is recorded when its outcome is known.
SignUnrecorded(h) ==
    /\ order[h] = "placed" /\ midway = Nothing
    /\ order' = [order EXCEPT ![h] = "signed"]
    /\ botHashes' = IF running THEN botHashes \cup {h} ELSE botHashes
    /\ UNCHANGED <<ledger, running, historyVars, jobVars, midway, scheduled, lost>>

\* Before it is submitted: the hash goes to the ingestion of the runtime, unless
\* that was killed meanwhile, and the trade to the history.
Sign(h) ==
    /\ order[h] = "placed" /\ midway = Nothing
    /\ order' = [order EXCEPT ![h] = "signed"]
    /\ botHashes' = IF running THEN botHashes \cup {h} ELSE botHashes
    /\ Saves(Recorded(Loaded, h, "PENDING", "bot"))
    /\ UNCHANGED <<ledger, running, jobVars, midway, scheduled>>

\* The ledger validates a transaction of the bot, perhaps after the bot gave it up,
\* or one made by hand.
Validate(h) ==
    /\ ledger[h] = "none"
    /\ order[h] \in {"none", "signed", "over"}
    /\ ledger' \in {[ledger EXCEPT ![h] = "success"], [ledger EXCEPT ![h] = "failure"]}
    /\ UNCHANGED <<order, running, botHashes, historyVars, jobVars, midway, scheduled, lost>>

\* The validation of a success is read, and its fill passes the integrity check.
RecordFill(h) ==
    /\ order[h] = "signed" /\ ledger[h] = "success" /\ midway = Nothing
    /\ Saves(Recorded(Loaded, h, "FILLED", "bot"))
    /\ midway' = [todo |-> "schedule", of |-> h]
    /\ UNCHANGED <<order, ledger, running, botHashes, jobVars, scheduled>>

\* It does not pass: the fill is quarantined and the trade stays as it is.
Quarantine(h) ==
    /\ order[h] = "signed" /\ ledger[h] = "success" /\ midway = Nothing
    /\ order' = [order EXCEPT ![h] = "recorded"]
    /\ Saves(Loaded)
    /\ UNCHANGED <<ledger, running, botHashes, jobVars, midway, scheduled>>

\* A failure, a timeout of the validation, or an exception: of the submission, or of
\* anything that follows the recording of a fill.
Reject(h) ==
    /\ order[h] \in {"signed", "recorded"} /\ midway = Nothing
    /\ order' = [order EXCEPT ![h] = "over"]
    /\ Saves(Recorded(Loaded, h, "REJECTED", "bot"))
    /\ UNCHANGED <<ledger, running, botHashes, jobVars, midway, scheduled>>

\* Nothing that follows throws.
Return(h) ==
    /\ order[h] = "recorded"
    /\ order' = [order EXCEPT ![h] = "over"]
    /\ UNCHANGED <<ledger, running, botHashes, historyVars, jobVars, midway, scheduled, lost>>

\* processTransaction() of the account's stream: a validated success the history
\* does not know, which is the bot's if this runtime signed it.
Ingest(h) ==
    /\ running /\ midway = Nothing
    /\ ledger[h] = "success"
    /\ IF Loaded[h] # None
       THEN Loads /\ UNCHANGED <<cloud, upload>>
       ELSE Saves(Recorded(Loaded, h, "FILLED", IF h \in botHashes THEN "bot" ELSE "manual"))
    /\ UNCHANGED <<order, ledger, running, botHashes, jobVars, midway, scheduled>>

-----------------------------------------------------------------------------
(* The markouts                                                            *)

\* savePendingToDisk()
SavesJobs ==
    \/ jobsFile' = jobs' /\ lost' = lost
    \/ jobsFile' \in {jobsFile, Torn} /\ lost' = lost \cup {"jobs"}

\* schedule(), in the same step of the executor as the record of the fill; it arms
\* no timer while the scheduler is stopped.
Schedule ==
    LET h == midway.of
    IN  /\ midway.todo = "schedule"
        /\ order' = [order EXCEPT ![h] = "recorded"]
        /\ jobs' = jobs \cup {h}
        /\ timers' = IF running /\ h \notin jobs THEN timers \cup {h} ELSE timers
        /\ SavesJobs
        /\ midway' = Nothing
        /\ scheduled' = scheduled \cup {h}
        /\ UNCHANGED <<ledger, running, botHashes, historyVars>>

\* Mutated form: the job is concluded before its markout is in the history.
FireConcluding(h) ==
    /\ h \in timers \cap jobs /\ midway = Nothing
    /\ timers' = timers \ {h}
    /\ jobs' = jobs \ {h}
    /\ SavesJobs
    /\ midway' = [todo |-> "conclude", of |-> h]
    /\ UNCHANGED <<order, ledger, running, botHashes, historyVars, scheduled>>

\* processJob() with a price, or out of attempts: the markout goes to the history.
\* An attempt that will be repeated arms the timer again and changes nothing.
Fire(h) ==
    /\ h \in timers \cap jobs /\ midway = Nothing
    /\ timers' = timers \ {h}
    /\ IF Loaded[h] # None
       THEN Saves([Loaded EXCEPT ![h].marked = TRUE])
       ELSE Loads /\ UNCHANGED <<cloud, upload>>
    /\ midway' = [todo |-> "conclude", of |-> h]
    /\ UNCHANGED <<order, ledger, running, botHashes, jobs, jobsFile, scheduled>>

\* The rest of processJob().
Conclude ==
    /\ midway.todo = "conclude"
    /\ jobs' = jobs \ {midway.of}
    /\ SavesJobs
    /\ midway' = Nothing
    /\ UNCHANGED <<order, ledger, running, botHashes, historyVars, timers, scheduled>>

-----------------------------------------------------------------------------
(* The runtime and the process                                             *)

\* start(): the scheduler adds the jobs of its file to those in memory; a file that
\* cannot be parsed clears them.
Start ==
    /\ ~running /\ midway = Nothing
    /\ running' = TRUE
    /\ jobs' = IF jobsFile = Torn THEN {} ELSE jobs \cup jobsFile
    /\ timers' = jobs'
    /\ UNCHANGED <<order, ledger, botHashes, historyVars, jobsFile, midway, scheduled, lost>>

\* kill(): the runtime's ingestion goes, the scheduler stops, orders go on.
Kill ==
    /\ running /\ midway = Nothing
    /\ running' = FALSE
    /\ botHashes' = {}
    /\ timers' = {}
    /\ UNCHANGED <<order, ledger, historyVars, jobs, jobsFile, midway, scheduled, lost>>

\* Some handler that writes the history could run.
MayWrite ==
    /\ midway = Nothing
    /\ Backfills \/ \E h \in Hashes :
           \/ order[h] \in {"placed", "signed", "recorded"}
           \/ running /\ ledger[h] = "success" /\ Loaded[h] = None
           \/ h \in timers \cap jobs

\* The process dies, perhaps in the middle of the next write.
Crash ==
    /\ order' = [h \in Hashes |->
           CASE order[h] = "placed" -> "none"
             [] order[h] \in {"signed", "recorded"} -> "over"
             [] OTHER -> order[h]]
    /\ running' = FALSE /\ botHashes' = {}
    /\ trades' = Empty /\ loaded' = FALSE
    /\ cloud' \in {cloud} \cup ({upload} \ {None}) /\ upload' = None
    /\ jobs' = {} /\ timers' = {}
    /\ midway' = Nothing
    /\ \/ UNCHANGED <<file, jobsFile, lost>>
       \/ MayWrite /\ file' = Torn /\ lost' = lost \cup {"history"} /\ UNCHANGED jobsFile
       \/ midway # Nothing /\ jobsFile' = Torn /\ lost' = lost \cup {"jobs"} /\ UNCHANGED file
    /\ UNCHANGED <<ledger, scheduled>>

Next ==
    \/ EndUpload \/ InitFromCloud \/ Read
    \/ \E h \in Hashes :
           \/ Place(h) \/ Sign(h) \/ Validate(h)
           \/ RecordFill(h) \/ Quarantine(h) \/ Reject(h) \/ Return(h)
           \/ Ingest(h) \/ Fire(h)
    \/ Schedule \/ Conclude
    \/ Start \/ Kill \/ Crash

Spec == Init /\ [][Next]_vars

-----------------------------------------------------------------------------
(* Properties                                                              *)

\* What the file says of a transaction.
InFile(h) == IF file \in {None, Torn} THEN None ELSE file[h]

\* What is recorded of a transaction is not taken back, by late exceptions, other
\* writers, older copies in S3, failed writes or restarts, unless a write tears the
\* file (tradeHistory.ts:665, :793).
StatusNeverFalls ==
    [][ file' # Torn => \A h \in Hashes : Priority(InFile(h)') >= Priority(InFile(h)) ]_vars

\* S3 is a past of the file: that the local copy wins, in a merge after a crash as
\* well, gives nothing up (tradeHistory.ts:801).
CloudIsBehind ==
    "history" \notin lost => \A h \in Hashes : Priority(cloud[h]) <= Priority(InFile(h))

\* A transaction of the bot is not taken for one made by hand, after a kill or a
\* crash either (accountTradeIngestion.ts:33).
OwnOrdersAreBots ==
    "history" \notin lost => \A h \in Hashes :
        order[h] # "none" /\ trades[h] # None => trades[h].source = "bot"

\* Where the markout of a fill is to come from.
Awaited(h) ==
    IF jobs = {} /\ ~running THEN h \in jobsFile
    ELSE h \in jobs /\ (running /\ midway.of # h => h \in timers)

\* The markout of a fill is in the history or still to come: its job is in the file
\* when the process starts, and its timer armed while a runtime is started,
\* wherever a kill or a crash falls (tradeMarkoutScheduler.ts:148).
MarkoutIsKept ==
    lost = {} => \A h \in scheduled :
        \/ InFile(h) # None /\ InFile(h).marked
        \/ Awaited(h)
=============================================================================
