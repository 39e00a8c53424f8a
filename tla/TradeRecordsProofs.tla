-------------------------- MODULE TradeRecordsProofs --------------------------
(***************************************************************************)
(* What TradeRecords promises of the history, its copy in S3 and the       *)
(* markouts, for any set of transactions.                                  *)
(***************************************************************************)
EXTENDS TradeRecords, TLAPS

Marked(trade) == trade # None /\ trade.marked

\* Nothing that the old record of a transaction says is missing in the new one.
Covers(new, old) ==
    /\ Priority(old) <= Priority(new)
    /\ Marked(old) => Marked(new)

\* What is loaded has all that the file has.
TradesCoverFile == loaded => \A h \in Hashes : Covers(trades[h], InFile(h))

PlacedIsNew == \A h \in Hashes : order[h] = "placed" => ledger[h] = "none"

\* A fill is scheduled by the executor that recorded it.
ScheduledIsRecorded ==
    /\ \A h \in scheduled : order[h] \in {"recorded", "over"}
    /\ midway.todo = "schedule" => order[midway.of] = "signed"

\* Timers are armed while a runtime is started: all but the one that fires.
Concluding(h) == midway.todo = "conclude" /\ midway.of = h
TimersAreArmed ==
    /\ ~running => timers = {} /\ midway.todo # "conclude"
    /\ running => \A h \in jobs : h \in timers \/ Concluding(h)

\* Unless a write of the history was lost:
\* the file is ahead of S3,
FileCoversCloud ==
    /\ file # Torn
    /\ \A h \in Hashes :
           /\ Covers(InFile(h), cloud[h])
           /\ upload # None => Covers(InFile(h), upload[h])

\* knows what was signed,
SignedIsInFile ==
    \A h \in Hashes : order[h] \in {"signed", "recorded", "over"} => InFile(h) # None

\* and only what the bot never placed is recorded as made by hand.
ManualAtMost(h, trade) ==
    trade # None /\ trade.source # "bot" => order[h] = "none" /\ ledger[h] = "success"
ManualIsNotOwn ==
    \A h \in Hashes :
        /\ ManualAtMost(h, trades[h])
        /\ ManualAtMost(h, InFile(h))
        /\ ManualAtMost(h, cloud[h])
        /\ upload # None => ManualAtMost(h, upload[h])

\* Unless a write was lost: the file of the jobs is what is in memory, or memory was
\* lost and nothing runs,
JobsAreInFile ==
    \/ jobsFile = jobs
    \/ /\ jobs = {} /\ ~running /\ midway = Nothing
       /\ jobsFile # Torn
       /\ \A h \in Hashes : order[h] \in {"none", "over"}

\* and a job is there until its markout is in the history.
ScheduledIsInFile == \A h \in scheduled : Marked(InFile(h)) \/ h \in jobsFile
ConcludedIsMarked == \A h \in scheduled : Concluding(h) => Marked(InFile(h))

HistoryInv ==
    /\ TradesCoverFile
    /\ "history" \notin lost => FileCoversCloud /\ SignedIsInFile /\ ManualIsNotOwn

JobInv ==
    /\ ScheduledIsRecorded
    /\ TimersAreArmed
    /\ lost = {} => JobsAreInFile /\ ScheduledIsInFile /\ ConcludedIsMarked

IInv == TypeOK /\ PlacedIsNew /\ HistoryInv /\ JobInv

-----------------------------------------------------------------------------
(* What the operators on histories give.                                   *)

Records == Trades \cup {None}

LEMMA ConstantsDiffer ==
    ASSUME TradeRecordsAssumption
    PROVE  /\ None # Torn /\ None \notin Trades /\ None \notin Hashes
           /\ None \notin Histories /\ Torn \notin Histories
           /\ Torn \notin SUBSET Hashes
           /\ None # "schedule" /\ None # "conclude"
  BY DEF TradeRecordsAssumption

LEMMA SamePriority ==
    ASSUME TradeRecordsAssumption, NEW t \in Trades, NEW u \in Trades, t.status = u.status
    PROVE  Priority(t) = Priority(u)
<1>1. t # None /\ u # None  BY ConstantsDiffer
<1>2. t.status \in {"PENDING", "REJECTED", "FILLED"}  BY DEF Trades, Statuses
<1> QED  BY <1>1, <1>2 DEF Priority

LEMMA PriorityFields ==
    ASSUME TradeRecordsAssumption, NEW trade \in Records
    PROVE  /\ Priority(trade) \in Nat
           /\ Priority(trade) = 0 <=> trade = None
<1>1. CASE trade = None  BY <1>1 DEF Priority
<1>2. CASE trade \in Trades
  <2>1. trade # None  BY <1>2, ConstantsDiffer
  <2>2. trade.status \in {"PENDING", "REJECTED", "FILLED"}  BY <1>2 DEF Trades, Statuses
  <2> QED  BY <2>1, <2>2 DEF Priority
<1> QED  BY <1>1, <1>2 DEF Records

LEMMA CoversItself == ASSUME TradeRecordsAssumption, NEW trade \in Records PROVE Covers(trade, trade)
  BY PriorityFields DEF Covers

LEMMA CoversThrough ==
    ASSUME TradeRecordsAssumption,
           NEW t \in Records, NEW u \in Records, NEW v \in Records, Covers(t, u), Covers(u, v)
    PROVE  Covers(t, v)
  BY PriorityFields DEF Covers

\* What covers a record is one, and no record is covered by all.
LEMMA CoversExists ==
    ASSUME TradeRecordsAssumption, NEW t \in Records, NEW u \in Records
    PROVE  /\ Covers(t, u) /\ u # None => t # None
           /\ Covers(t, None)
<1>1. Priority(t) \in Nat /\ Priority(u) \in Nat /\ Priority(None) = 0
      /\ (Priority(t) = 0 <=> t = None) /\ (Priority(u) = 0 <=> u = None)
  BY PriorityFields DEF Priority, Records
<1> QED  BY <1>1 DEF Covers, Marked

LEMMA EmptyIsAHistory ==
    /\ Empty \in Histories
    /\ \A history \in Histories, h \in Hashes : history[h] \in Records
  BY DEF Empty, Histories, Records

LEMMA InFileIsARecord ==
    ASSUME TradeRecordsAssumption, TypeOK, NEW h \in Hashes PROVE InFile(h) \in Records
  BY DEF InFile, TypeOK, Histories, Records, TradeRecordsAssumption

LEMMA LoadedCovers ==
    ASSUME TradeRecordsAssumption, TypeOK, TradesCoverFile
    PROVE  /\ Loaded \in Histories
           /\ \A h \in Hashes : Covers(Loaded[h], InFile(h))
<1>1. CASE loaded
  <2>1. Loaded = trades  BY <1>1 DEF Loaded
  <2> QED  BY <1>1, <2>1 DEF TypeOK, TradesCoverFile
<1>2. CASE ~loaded /\ file \in {None, Torn}
  <2>1. Loaded \in {trades, Empty}  BY <1>2 DEF Loaded
  <2>2. Loaded \in Histories  BY <2>1, EmptyIsAHistory DEF TypeOK
  <2>3. \A h \in Hashes : InFile(h) = None  BY <1>2 DEF InFile
  <2>4. \A h \in Hashes : Loaded[h] \in Records  BY <2>2 DEF Histories, Records
  <2> QED  BY <2>2, <2>3, <2>4, CoversExists DEF Records
<1>3. CASE ~loaded /\ file \notin {None, Torn}
  <2>1. Loaded = file /\ file \in Histories  BY <1>3 DEF Loaded, TypeOK
  <2>2. \A h \in Hashes : InFile(h) = file[h] /\ file[h] \in Records
    BY <1>3, <2>1 DEF InFile, Histories, Records
  <2> QED  BY <2>1, <2>2, CoversItself
<1> QED  BY <1>1, <1>2, <1>3

LEMMA RecordedCovers ==
    ASSUME TradeRecordsAssumption, NEW history \in Histories, NEW h \in Hashes,
           NEW status \in Statuses, NEW source \in {"bot", "manual"},
           NEW new, new = Recorded(history, h, status, source)
    PROVE  /\ new \in Histories
           /\ new[h] # None
           /\ \A g \in Hashes \ {h} : new[g] = history[g]
           /\ \A g \in Hashes : Covers(new[g], history[g])
           /\ new[h].source = source \/ (history[h] # None /\ new[h].source = history[h].source)
<1> DEFINE trade == [status |-> status, source |-> source, marked |-> FALSE]
<1>1. trade \in Trades /\ trade.source = source  BY DEF Trades
<1>t. trade # None  BY <1>1, ConstantsDiffer
<1>2. history[h] \in Records /\ \A g \in Hashes : history[g] \in Records
  BY DEF Histories, Records
<1>3. \A g \in Hashes : Covers(history[g], history[g])  BY <1>2, CoversItself
<1>4. CASE history[h] = None
  <2>1. new = [history EXCEPT ![h] = trade]  BY <1>4 DEF Recorded
  <2>2. new \in Histories /\ new[h] = trade /\ \A g \in Hashes \ {h} : new[g] = history[g]
    BY <1>1, <2>1 DEF Histories
  <2>3. Covers(new[h], history[h])  BY <1>1, <1>4, <2>2, CoversExists DEF Records
  <2>4. \A g \in Hashes : Covers(new[g], history[g])  BY <1>3, <2>2, <2>3
  <2>5. new[h] # None /\ new[h].source = source  BY <1>1, <1>t, <2>2
  <2> QED  BY <2>2, <2>4, <2>5
<1>5. CASE history[h] # None /\ Replaces(history[h], trade)
  <2>1. new = [history EXCEPT ![h].status = status, ![h].source = source]
    BY <1>5 DEF Recorded
  <2>2. history[h] \in Trades  BY <1>2, <1>5 DEF Records
  <2> DEFINE kept == [history[h] EXCEPT !.status = status, !.source = source]
  <2>3. kept \in Trades /\ kept.status = trade.status /\ kept.source = source
        /\ kept.marked = history[h].marked
    BY <2>2 DEF Trades
  <2>4. new \in Histories /\ new[h] = kept /\ \A g \in Hashes \ {h} : new[g] = history[g]
    BY <2>1, <2>2, <2>3 DEF Histories
  <2>5. kept # None  BY <2>3, ConstantsDiffer
  <2>6. Priority(kept) = Priority(trade)  BY <1>1, <2>3, SamePriority
  <2>7. Priority(history[h]) <= Priority(kept)
    <3>1. Priority(trade) > Priority(history[h])  BY <1>5 DEF Replaces
    <3>2. Priority(trade) \in Nat /\ Priority(history[h]) \in Nat
      BY <1>1, <1>2, PriorityFields DEF Records
    <3> QED  BY <2>6, <3>1, <3>2
  <2>8. Covers(new[h], history[h])  BY <2>3, <2>4, <2>5, <2>7 DEF Covers, Marked
  <2>9. \A g \in Hashes : Covers(new[g], history[g])  BY <1>3, <2>4, <2>8
  <2>10. new[h] # None /\ new[h].source = source  BY <2>3, <2>4, <2>5
  <2> QED  BY <2>4, <2>9, <2>10
<1>6. CASE history[h] # None /\ ~Replaces(history[h], trade)
  <2>1. new = history  BY <1>6 DEF Recorded
  <2> QED  BY <1>3, <1>6, <2>1
<1> QED  BY <1>4, <1>5, <1>6

LEMMA MarkingCovers ==
    ASSUME TradeRecordsAssumption, NEW history \in Histories, NEW h \in Hashes, history[h] # None,
           NEW new, new = [history EXCEPT ![h].marked = TRUE]
    PROVE  /\ new \in Histories
           /\ Marked(new[h]) /\ new[h].source = history[h].source
           /\ \A g \in Hashes \ {h} : new[g] = history[g]
           /\ \A g \in Hashes : Covers(new[g], history[g])
<1> DEFINE marked == [history[h] EXCEPT !.marked = TRUE]
<1>1. history[h] \in Trades  BY DEF Histories
<1>2. marked \in Trades /\ marked.status = history[h].status
      /\ marked.source = history[h].source /\ marked.marked
  BY <1>1 DEF Trades
<1>3. new \in Histories /\ new[h] = marked /\ \A g \in Hashes \ {h} : new[g] = history[g]
  BY <1>1, <1>2 DEF Histories
<1>4. marked # None  BY <1>2, ConstantsDiffer
<1>5. Priority(marked) = Priority(history[h])  BY <1>1, <1>2, SamePriority
<1>6. Covers(marked, history[h])
  <2>1. Priority(marked) \in Nat  BY <1>2, PriorityFields DEF Records
  <2> QED  BY <1>2, <1>4, <1>5, <2>1 DEF Covers, Marked
<1>7. \A g \in Hashes \ {h} : Covers(history[g], history[g])
  BY CoversItself DEF Histories, Records
<1> QED  BY <1>2, <1>3, <1>4, <1>6, <1>7 DEF Marked
-----------------------------------------------------------------------------
(* What a step makes of the histories.                                     *)

Wrote(h) == order[h] \in {"signed", "recorded", "over"}
ByHand(h) == order[h] = "none" /\ ledger[h] = "success"

\* No record of the file is taken back, unless it is torn.
FileIsKept ==
    \/ file' = Torn /\ "history" \in lost'
    \/ \A h \in Hashes : Covers(InFile(h)', InFile(h))

\* What was made by hand stays so.
LEMMA ByHandStays ==
    ASSUME NEW h, NEW trade, ManualAtMost(h, trade), ByHand(h) => ByHand(h)'
    PROVE  trade # None /\ trade.source # "bot" => ByHand(h)'
  BY DEF ManualAtMost, ByHand

\* A step that leaves the histories alone.
LEMMA HistoryStays ==
    ASSUME TradeRecordsAssumption, IInv, UNCHANGED historyVars, lost \subseteq lost',
           \A h \in Hashes : Wrote(h)' => Wrote(h),
           \A h \in Hashes : ByHand(h) => ByHand(h)'
    PROVE  HistoryInv' /\ \A h \in Hashes : InFile(h)' = InFile(h)
<1>1. UNCHANGED <<trades, loaded, file, cloud, upload>>  BY DEF historyVars
<1>2. \A h \in Hashes : InFile(h)' = InFile(h)  BY <1>1 DEF InFile
<1>3. TradesCoverFile'  BY <1>1, <1>2 DEF IInv, HistoryInv, TradesCoverFile
<1>4. ASSUME "history" \notin lost' PROVE FileCoversCloud' /\ SignedIsInFile' /\ ManualIsNotOwn'
  <2>1. FileCoversCloud /\ SignedIsInFile /\ ManualIsNotOwn  BY <1>4 DEF IInv, HistoryInv
  <2>2. FileCoversCloud'  BY <1>1, <1>2, <2>1 DEF FileCoversCloud
  <2>3. SignedIsInFile'  BY <1>2, <2>1 DEF SignedIsInFile, Wrote
  <2>4. ManualIsNotOwn'  BY <1>1, <1>2, <2>1 DEF ManualIsNotOwn, ManualAtMost, ByHand
  <2> QED  BY <2>2, <2>3, <2>4
<1> QED  BY <1>2, <1>3, <1>4 DEF HistoryInv

\* A first use of the history.
LEMMA HistoryLoads ==
    ASSUME TradeRecordsAssumption, IInv, Loads, UNCHANGED <<file, cloud, upload, lost, order, ledger>>
    PROVE  /\ HistoryInv' /\ \A h \in Hashes : InFile(h)' = InFile(h)
           /\ trades' \in Histories /\ loaded' = TRUE
<1>1. TypeOK /\ TradesCoverFile  BY DEF IInv, HistoryInv
<1>2. Loaded \in Histories /\ \A h \in Hashes : Covers(Loaded[h], InFile(h))
  BY <1>1, LoadedCovers
<1>3. trades' = Loaded /\ loaded' = TRUE  BY DEF Loads
<1>4. \A h \in Hashes : InFile(h)' = InFile(h)  BY DEF InFile
<1>5. TradesCoverFile'  BY <1>2, <1>3, <1>4 DEF TradesCoverFile
<1>6. ASSUME "history" \notin lost' PROVE FileCoversCloud' /\ SignedIsInFile' /\ ManualIsNotOwn'
  <2>1. FileCoversCloud /\ SignedIsInFile /\ ManualIsNotOwn  BY <1>6 DEF IInv, HistoryInv
  <2>2. FileCoversCloud'  BY <1>4, <2>1 DEF FileCoversCloud
  <2>3. SignedIsInFile'  BY <1>4, <2>1 DEF SignedIsInFile
  <2>4. ManualIsNotOwn'
    <3>1. \A h \in Hashes : Loaded[h] \in {trades[h], InFile(h)}
      BY <1>1, <2>1 DEF Loaded, InFile, FileCoversCloud
    <3> QED  BY <1>3, <1>4, <2>1, <3>1 DEF ManualIsNotOwn, ManualAtMost
  <2> QED  BY <2>2, <2>3, <2>4
<1> QED  BY <1>2, <1>3, <1>4, <1>5, <1>6 DEF HistoryInv

\* A record of a trade, or a marking, that is saved.
LEMMA HistorySaves ==
    ASSUME TradeRecordsAssumption, IInv, NEW history \in Histories, Saves(history),
           \A h \in Hashes : Covers(history[h], Loaded[h]),
           \A h \in Hashes : Wrote(h)' => Wrote(h) \/ history[h] # None,
           \A h \in Hashes : ByHand(h) => ByHand(h)',
           "history" \notin lost =>
               \A h \in Hashes : history[h] # None /\ history[h].source # "bot" => ByHand(h)'
    PROVE  /\ HistoryInv' /\ FileIsKept
           /\ trades' \in Histories /\ loaded' = TRUE /\ cloud' \in Histories
           /\ file' \in Histories \cup {None, Torn} /\ upload' \in Histories \cup {None}
           /\ lost' = lost \/ lost' = lost \cup {"history"}
           /\ "history" \notin lost' => \A h \in Hashes : InFile(h)' = history[h]
<1>1. TypeOK /\ TradesCoverFile  BY DEF IInv, HistoryInv
<1>2. /\ trades' = history /\ loaded' = TRUE /\ cloud' = cloud
      /\ upload' = IF upload = None THEN history ELSE upload
      /\ \/ file' = history /\ lost' = lost
         \/ file' \in {file, Torn} /\ lost' = lost \cup {"history"}
  BY DEF Saves, Writes
<1>3. /\ cloud' \in Histories /\ file' \in Histories \cup {None, Torn}
      /\ upload' \in Histories \cup {None}
  BY <1>1, <1>2 DEF TypeOK
<1>4. \A h \in Hashes : Covers(history[h], InFile(h))
  <2>1. Loaded \in Histories /\ \A h \in Hashes : Covers(Loaded[h], InFile(h))
    BY <1>1, LoadedCovers
  <2> QED  BY <1>1, <2>1, CoversThrough, InFileIsARecord, EmptyIsAHistory
<1>5. \A h \in Hashes : file' = history => InFile(h)' = history[h]
  BY ConstantsDiffer DEF InFile
<1>6. \A h \in Hashes : file' = file => InFile(h)' = InFile(h)  BY DEF InFile
<1>7. \A h \in Hashes :
        history[h] \in Records /\ InFile(h) \in Records /\ Covers(history[h], history[h])
  BY <1>1, InFileIsARecord, EmptyIsAHistory, CoversItself
<1>8. FileIsKept
  BY <1>2, <1>4, <1>5, <1>6, <1>7, CoversItself DEF FileIsKept
<1>9. TradesCoverFile'
  <2>1. file' = Torn => \A h \in Hashes : InFile(h)' = None  BY DEF InFile
  <2>2. \A h \in Hashes : Covers(history[h], None)  BY <1>7, CoversExists DEF Records
  <2> QED  BY <1>2, <1>4, <1>5, <1>6, <1>7, <2>1, <2>2 DEF TradesCoverFile
<1>10. ASSUME "history" \notin lost' PROVE FileCoversCloud' /\ SignedIsInFile' /\ ManualIsNotOwn'
  <2>1. file' = history /\ lost' = lost /\ \A h \in Hashes : InFile(h)' = history[h]
    BY <1>2, <1>5, <1>10
  <2>2. FileCoversCloud /\ SignedIsInFile /\ ManualIsNotOwn  BY <1>10, <2>1 DEF IInv, HistoryInv
  <2>3. FileCoversCloud'
    <3>1. file' # Torn  BY <2>1, ConstantsDiffer
    <3>2. ASSUME NEW h \in Hashes, NEW old \in Histories, Covers(InFile(h), old[h])
          PROVE  Covers(history[h], old[h])
      BY <1>4, <1>7, <3>2, CoversThrough, EmptyIsAHistory
    <3>3. cloud \in Histories /\ upload \in Histories \cup {None}  BY <1>1 DEF TypeOK
    <3>4. \A h \in Hashes : Covers(history[h], cloud[h])
      BY <2>2, <3>2, <3>3 DEF FileCoversCloud
    <3>5. upload # None => \A h \in Hashes : Covers(history[h], upload[h])
      BY <2>2, <3>2, <3>3 DEF FileCoversCloud
    <3>6. \A h \in Hashes : Covers(history[h], upload'[h])  BY <1>2, <1>7, <3>5
    <3> QED  BY <1>2, <2>1, <3>1, <3>4, <3>6 DEF FileCoversCloud
  <2>4. SignedIsInFile'
    <3>1. ASSUME NEW h \in Hashes, Wrote(h) PROVE history[h] # None
      BY <1>4, <1>7, <2>2, <3>1, CoversExists DEF SignedIsInFile, Wrote
    <3> QED  BY <2>1, <3>1 DEF SignedIsInFile, Wrote
  <2>5. ManualIsNotOwn'
    <3>2. \A h \in Hashes : history[h] # None /\ history[h].source # "bot" => ByHand(h)'
      BY <1>10, <2>1
    <3>3. \A h \in Hashes : cloud[h] # None /\ cloud[h].source # "bot" => ByHand(h)'
      BY <2>2, ByHandStays DEF ManualIsNotOwn
    <3>4. \A h \in Hashes :
            upload # None /\ upload[h] # None /\ upload[h].source # "bot" => ByHand(h)'
      BY <2>2, ByHandStays DEF ManualIsNotOwn
    <3> QED  BY <1>2, <2>1, <3>2, <3>3, <3>4 DEF ManualIsNotOwn, ManualAtMost, ByHand
  <2> QED  BY <2>3, <2>4, <2>5
<1> QED  BY <1>2, <1>3, <1>5, <1>8, <1>9, <1>10 DEF HistoryInv
-----------------------------------------------------------------------------
(* What a step makes of the markouts.                                      *)

LEMMA MidwayFields ==
    ASSUME TradeRecordsAssumption, TypeOK
    PROVE  /\ midway.todo \in {"schedule", "conclude"} => midway.of \in Hashes
           /\ midway = Nothing => midway.todo \notin {"schedule", "conclude"}
           /\ Nothing.todo \notin {"schedule", "conclude"} /\ Nothing.of \notin Hashes
  BY ConstantsDiffer DEF TypeOK, Nothing

\* A step that leaves the jobs alone and lets no executor take up a transaction
\* whose fill is scheduled, nor, without a runtime, any.
LEMMA JobsStay ==
    ASSUME TradeRecordsAssumption, IInv, UNCHANGED <<jobs, timers, jobsFile, midway, scheduled, running>>,
           lost \subseteq lost', FileIsKept,
           \A h \in Hashes : order[h] \in {"recorded", "over"} => order'[h] \in {"recorded", "over"},
           midway.todo = "schedule" => order'[midway.of] = order[midway.of],
           ~running => \A h \in Hashes : order[h] \in {"none", "over"} => order'[h] \in {"none", "over"}
    PROVE  JobInv'
<1>1. ScheduledIsRecorded'  BY DEF IInv, JobInv, ScheduledIsRecorded, TypeOK
<1>2. TimersAreArmed'  BY DEF IInv, JobInv, TimersAreArmed, Concluding
<1>3. ASSUME lost' = {} PROVE JobsAreInFile' /\ ScheduledIsInFile' /\ ConcludedIsMarked'
  <2>1. lost = {}  BY <1>3
  <2>2. JobsAreInFile /\ ScheduledIsInFile /\ ConcludedIsMarked  BY <2>1 DEF IInv, JobInv
  <2>3. JobsAreInFile'  BY <2>2 DEF JobsAreInFile
  <2>4. \A h \in Hashes : Marked(InFile(h)) => Marked(InFile(h)')
    BY <1>3 DEF FileIsKept, Covers
  <2>5. scheduled \subseteq Hashes  BY DEF IInv, TypeOK
  <2>6. ScheduledIsInFile'  BY <2>2, <2>4, <2>5 DEF ScheduledIsInFile, Marked
  <2>7. ConcludedIsMarked'  BY <2>2, <2>4, <2>5 DEF ConcludedIsMarked, Concluding, Marked
  <2> QED  BY <2>3, <2>6, <2>7
<1> QED  BY <1>1, <1>2, <1>3 DEF JobInv

LEMMA InFileCoversItself ==
    ASSUME TradeRecordsAssumption, TypeOK, \A h \in Hashes : InFile(h)' = InFile(h)
    PROVE  /\ \A h \in Hashes : Covers(InFile(h)', InFile(h))
           /\ FileIsKept
  BY InFileIsARecord, CoversItself DEF FileIsKept

-----------------------------------------------------------------------------
(* Every action keeps the invariant.                                       *)

LEMMA InitIInv == ASSUME TradeRecordsAssumption, Init PROVE IInv
<1>1. /\ order \in [Hashes -> {"none"}] /\ ledger \in [Hashes -> {"none"}]
      /\ \A h \in Hashes : order[h] = "none"
      /\ running = FALSE /\ loaded = FALSE /\ botHashes = {}
      /\ trades = Empty /\ file = None /\ cloud = Empty /\ upload = None
      /\ jobs = {} /\ timers = {} /\ jobsFile = {} /\ midway = Nothing
      /\ scheduled = {} /\ lost = {}
  BY DEF Init
<1>2. TypeOK  BY <1>1, EmptyIsAHistory DEF TypeOK
<1>3. PlacedIsNew  BY <1>1 DEF PlacedIsNew
<1>4. \A h \in Hashes : InFile(h) = None /\ Empty[h] = None  BY <1>1 DEF InFile, Empty
<1>5. TradesCoverFile /\ SignedIsInFile  BY <1>1 DEF TradesCoverFile, SignedIsInFile
<1>6. FileCoversCloud
  BY <1>1, <1>4, ConstantsDiffer, CoversItself DEF FileCoversCloud, Records
<1>7. ManualIsNotOwn  BY <1>1, <1>4 DEF ManualIsNotOwn, ManualAtMost
<1>8. ScheduledIsRecorded /\ TimersAreArmed
  BY <1>1, <1>2, MidwayFields DEF ScheduledIsRecorded, TimersAreArmed
<1>9. JobsAreInFile /\ ScheduledIsInFile /\ ConcludedIsMarked
  BY <1>1 DEF JobsAreInFile, ScheduledIsInFile, ConcludedIsMarked
<1> QED  BY <1>2, <1>3, <1>5, <1>6, <1>7, <1>8, <1>9 DEF IInv, HistoryInv, JobInv

\* The steps that leave histories and jobs alone.
LEMMA PlaceKeepsIInv == ASSUME TradeRecordsAssumption, IInv, NEW h \in Hashes, Place(h) PROVE IInv'
<1>0. /\ TypeOK /\ running /\ order[h] = "none" /\ ledger[h] = "none"
      /\ order' = [order EXCEPT ![h] = "placed"]
      /\ UNCHANGED <<ledger, running, botHashes, historyVars, jobVars, midway, scheduled, lost>>
  BY DEF IInv, Place
<1>1. /\ UNCHANGED <<trades, loaded, file, cloud, upload>>
      /\ UNCHANGED <<jobs, timers, jobsFile>>
  BY <1>0 DEF historyVars, jobVars
<1>2. order'[h] = "placed" /\ \A g \in Hashes \ {h} : order'[g] = order[g]
  BY <1>0 DEF TypeOK
<1>3. TypeOK'
  <2>1. order' \in [Hashes -> {"none", "placed", "signed", "recorded", "over"}]
    BY <1>0 DEF TypeOK
  <2> QED  BY <1>0, <1>1, <2>1 DEF TypeOK
<1>4. PlacedIsNew'  BY <1>0, <1>2 DEF IInv, PlacedIsNew
<1>5. HistoryInv' /\ \A g \in Hashes : InFile(g)' = InFile(g)
  <2>1. \A g \in Hashes : Wrote(g)' => Wrote(g)  BY <1>0, <1>2 DEF Wrote
  <2>2. \A g \in Hashes : ByHand(g) => ByHand(g)'  BY <1>0, <1>2 DEF ByHand
  <2> QED  BY <1>0, <2>1, <2>2, HistoryStays
<1>6. JobInv'
  <2>1. FileIsKept  BY <1>0, <1>5, InFileCoversItself
  <2>2. midway.todo = "schedule" => midway.of # h
    BY <1>0 DEF IInv, JobInv, ScheduledIsRecorded
  <2>3. midway.todo = "schedule" => order'[midway.of] = order[midway.of]
    BY <1>0, <1>2, <2>2, MidwayFields
  <2> QED  BY <1>0, <1>1, <1>2, <2>1, <2>3, JobsStay
<1> QED  BY <1>3, <1>4, <1>5, <1>6 DEF IInv

LEMMA ValidateKeepsIInv == ASSUME TradeRecordsAssumption, IInv, NEW h \in Hashes, Validate(h) PROVE IInv'
<1>0. /\ TypeOK /\ ledger[h] = "none" /\ order[h] # "placed"
      /\ UNCHANGED <<order, running, botHashes, historyVars, jobVars, midway, scheduled, lost>>
  BY DEF IInv, Validate
<1>1. /\ UNCHANGED <<trades, loaded, file, cloud, upload>>
      /\ UNCHANGED <<jobs, timers, jobsFile>>
  BY <1>0 DEF historyVars, jobVars
<1>2. /\ ledger' \in [Hashes -> {"none", "success", "failure"}]
      /\ \A g \in Hashes \ {h} : ledger'[g] = ledger[g]
  BY <1>0 DEF Validate, TypeOK
<1>3. TypeOK'  BY <1>0, <1>1, <1>2 DEF TypeOK
<1>4. PlacedIsNew'  BY <1>0, <1>2 DEF IInv, PlacedIsNew
<1>5. HistoryInv' /\ \A g \in Hashes : InFile(g)' = InFile(g)
  <2>1. \A g \in Hashes : Wrote(g)' => Wrote(g)  BY <1>0 DEF Wrote
  <2>2. \A g \in Hashes : ByHand(g) => ByHand(g)'  BY <1>0, <1>2 DEF ByHand
  <2> QED  BY <1>0, <2>1, <2>2, HistoryStays
<1>6. JobInv'
  <2>1. FileIsKept  BY <1>0, <1>5, InFileCoversItself
  <2> QED  BY <1>0, <1>1, <2>1, JobsStay
<1> QED  BY <1>3, <1>4, <1>5, <1>6 DEF IInv

LEMMA ReturnKeepsIInv == ASSUME TradeRecordsAssumption, IInv, NEW h \in Hashes, Return(h) PROVE IInv'
<1>0. /\ TypeOK /\ order[h] = "recorded"
      /\ order' = [order EXCEPT ![h] = "over"]
      /\ UNCHANGED <<ledger, running, botHashes, historyVars, jobVars, midway, scheduled, lost>>
  BY DEF IInv, Return
<1>1. /\ UNCHANGED <<trades, loaded, file, cloud, upload>>
      /\ UNCHANGED <<jobs, timers, jobsFile>>
  BY <1>0 DEF historyVars, jobVars
<1>2. order'[h] = "over" /\ \A g \in Hashes \ {h} : order'[g] = order[g]
  BY <1>0 DEF TypeOK
<1>3. TypeOK'
  <2>1. order' \in [Hashes -> {"none", "placed", "signed", "recorded", "over"}]
    BY <1>0 DEF TypeOK
  <2> QED  BY <1>0, <1>1, <2>1 DEF TypeOK
<1>4. PlacedIsNew'  BY <1>0, <1>2 DEF IInv, PlacedIsNew
<1>5. HistoryInv' /\ \A g \in Hashes : InFile(g)' = InFile(g)
  <2>1. \A g \in Hashes : Wrote(g)' => Wrote(g)  BY <1>0, <1>2 DEF Wrote
  <2>2. \A g \in Hashes : ByHand(g) => ByHand(g)'  BY <1>0, <1>2 DEF ByHand
  <2> QED  BY <1>0, <2>1, <2>2, HistoryStays
<1>6. JobInv'
  <2>1. FileIsKept  BY <1>0, <1>5, InFileCoversItself
  <2>2. midway.todo = "schedule" => midway.of # h
    BY <1>0 DEF IInv, JobInv, ScheduledIsRecorded
  <2>3. midway.todo = "schedule" => order'[midway.of] = order[midway.of]
    BY <1>0, <1>2, <2>2, MidwayFields
  <2> QED  BY <1>0, <1>1, <1>2, <2>1, <2>3, JobsStay
<1> QED  BY <1>3, <1>4, <1>5, <1>6 DEF IInv

\* What is loaded knows of what was signed, and takes nothing of it for made by hand.
LEMMA LoadedKnows ==
    ASSUME TradeRecordsAssumption, IInv, "history" \notin lost, NEW h \in Hashes
    PROVE  /\ Loaded[h] # None /\ Loaded[h].source # "bot" => ByHand(h)
           /\ Wrote(h) => Loaded[h] # None
<1>1. TypeOK /\ TradesCoverFile /\ FileCoversCloud /\ SignedIsInFile /\ ManualIsNotOwn
  BY DEF IInv, HistoryInv
<1>2. Loaded[h] \in {trades[h], InFile(h)}
  BY <1>1 DEF Loaded, InFile, FileCoversCloud
<1>3. Loaded[h] # None /\ Loaded[h].source # "bot" => ByHand(h)
  BY <1>1, <1>2 DEF ManualIsNotOwn, ManualAtMost, ByHand
<1>4. Loaded \in Histories /\ Covers(Loaded[h], InFile(h))  BY <1>1, LoadedCovers
<1>5. Wrote(h) => InFile(h) # None  BY <1>1 DEF SignedIsInFile, Wrote
<1>6. Loaded[h] \in Records /\ InFile(h) \in Records
  BY <1>1, <1>4, EmptyIsAHistory, InFileIsARecord
<1>7. Wrote(h) => Loaded[h] # None  BY <1>4, <1>5, <1>6, CoversExists
<1> QED  BY <1>3, <1>7

\* What a save leaves behind, whoever saves.
Saved ==
    /\ HistoryInv' /\ FileIsKept
    /\ trades' \in Histories /\ cloud' \in Histories /\ loaded' = TRUE
    /\ file' \in Histories \cup {None, Torn} /\ upload' \in Histories \cup {None}
    /\ lost' = lost \/ lost' = lost \cup {"history"}

LEMMA BotRecords ==
    ASSUME TradeRecordsAssumption, IInv, NEW h \in Hashes, NEW status \in Statuses,
           order[h] # "none", Saves(Recorded(Loaded, h, status, "bot")),
           UNCHANGED ledger, \A g \in Hashes \ {h} : order'[g] = order[g]
    PROVE  Saved
<1> DEFINE new == Recorded(Loaded, h, status, "bot")
<1>1. Loaded \in Histories  BY LoadedCovers DEF IInv, HistoryInv
<1>2. /\ new \in Histories /\ new[h] # None
      /\ \A g \in Hashes \ {h} : new[g] = Loaded[g]
      /\ \A g \in Hashes : Covers(new[g], Loaded[g])
      /\ new[h].source = "bot" \/ (Loaded[h] # None /\ new[h].source = Loaded[h].source)
  <2>1. "bot" \in {"bot", "manual"}  OBVIOUS
  <2> HIDE DEF new
  <2> QED  BY <1>1, <2>1, RecordedCovers DEF new
<1>3. \A g \in Hashes : Wrote(g)' => Wrote(g) \/ new[g] # None
  BY <1>2 DEF Wrote
<1>4. \A g \in Hashes : ByHand(g) => ByHand(g)'  BY DEF ByHand
<1>5. "history" \notin lost =>
        \A g \in Hashes : new[g] # None /\ new[g].source # "bot" => ByHand(g)'
  <2> SUFFICES ASSUME "history" \notin lost, NEW g \in Hashes, new[g] # None, new[g].source # "bot"
               PROVE  ByHand(g)'
    OBVIOUS
  <2>1. Loaded[g] # None /\ Loaded[g].source # "bot"  BY <1>2
  <2>2. ByHand(g)  BY <2>1, LoadedKnows
  <2> QED  BY <1>4, <2>2
<1>6. Saves(new)  OBVIOUS
<1> HIDE DEF new
<1> QED  BY <1>2, <1>3, <1>4, <1>5, <1>6, HistorySaves DEF Saved

\* A save of what was loaded.
LEMMA LoadedSaves ==
    ASSUME TradeRecordsAssumption, IInv, NEW h \in Hashes, order[h] # "none", Wrote(h),
           Saves(Loaded), UNCHANGED ledger, \A g \in Hashes \ {h} : order'[g] = order[g]
    PROVE  Saved
<1>1. Loaded \in Histories  BY LoadedCovers DEF IInv, HistoryInv
<1>2. \A g \in Hashes : Covers(Loaded[g], Loaded[g])
  BY <1>1, CoversItself, EmptyIsAHistory
<1>3. \A g \in Hashes : Wrote(g)' => Wrote(g) \/ Loaded[g] # None  BY DEF Wrote
<1>4. \A g \in Hashes : ByHand(g) => ByHand(g)'  BY DEF ByHand
<1>5. "history" \notin lost =>
        \A g \in Hashes : Loaded[g] # None /\ Loaded[g].source # "bot" => ByHand(g)'
  BY <1>4, LoadedKnows
<1> QED  BY <1>1, <1>2, <1>3, <1>4, <1>5, HistorySaves DEF Saved

\* The types, after a step whose histories are known to be ones.
LEMMA SavedTypes ==
    ASSUME TypeOK, Saved,
           order' \in [Hashes -> {"none", "placed", "signed", "recorded", "over"}],
           ledger' \in [Hashes -> {"none", "success", "failure"}],
           running' \in BOOLEAN, botHashes' \subseteq Hashes,
           jobs' \subseteq Hashes, timers' \subseteq Hashes, scheduled' \subseteq Hashes,
           jobsFile' \in (SUBSET Hashes) \cup {Torn},
           midway' \in [todo : {"schedule", "conclude"}, of : Hashes] \cup {Nothing}
    PROVE  TypeOK'
<1>1. lost' \subseteq {"history", "jobs"}  BY DEF Saved, TypeOK
<1>2. {running', loaded'} \subseteq BOOLEAN  BY DEF Saved
<1> QED  BY <1>1, <1>2 DEF Saved, TypeOK

\* The steps of the executor that save.
LEMMA SignKeepsIInv == ASSUME TradeRecordsAssumption, IInv, NEW h \in Hashes, Sign(h) PROVE IInv'
<1>0. /\ TypeOK /\ order[h] = "placed" /\ midway = Nothing
      /\ order' = [order EXCEPT ![h] = "signed"]
      /\ botHashes' \subseteq botHashes \cup {h}
      /\ Saves(Recorded(Loaded, h, "PENDING", "bot"))
      /\ UNCHANGED <<ledger, running, jobVars, midway, scheduled>>
  BY DEF IInv, Sign
<1>1. UNCHANGED <<jobs, timers, jobsFile>>  BY <1>0 DEF jobVars
<1>2. order'[h] = "signed" /\ \A g \in Hashes \ {h} : order'[g] = order[g]
  BY <1>0 DEF TypeOK
<1>3. Saved
  <2>1. "PENDING" \in Statuses  BY DEF Statuses
  <2> QED  BY <1>0, <1>2, <2>1, BotRecords
<1>4. TypeOK'
  <2>1. order' \in [Hashes -> {"none", "placed", "signed", "recorded", "over"}]
    BY <1>0 DEF TypeOK
  <2>2. botHashes' \subseteq Hashes  BY <1>0 DEF TypeOK
  <2> QED  BY <1>0, <1>1, <1>3, <2>1, <2>2, SavedTypes DEF TypeOK
<1>5. PlacedIsNew'  BY <1>0, <1>2 DEF IInv, PlacedIsNew
<1>6. JobInv'
  <2>1. midway.todo # "schedule"  BY <1>0, MidwayFields
  <2>2. lost \subseteq lost'  BY <1>3 DEF Saved
  <2>3. FileIsKept  BY <1>3 DEF Saved
  <2> QED  BY <1>0, <1>1, <1>2, <2>1, <2>2, <2>3, JobsStay
<1> QED  BY <1>3, <1>4, <1>5, <1>6 DEF IInv, Saved

LEMMA QuarantineKeepsIInv == ASSUME TradeRecordsAssumption, IInv, NEW h \in Hashes, Quarantine(h) PROVE IInv'
<1>0. /\ TypeOK /\ order[h] = "signed" /\ midway = Nothing
      /\ order' = [order EXCEPT ![h] = "recorded"]
      /\ Saves(Loaded)
      /\ UNCHANGED <<ledger, running, botHashes, jobVars, midway, scheduled>>
  BY DEF IInv, Quarantine
<1>1. UNCHANGED <<jobs, timers, jobsFile>>  BY <1>0 DEF jobVars
<1>2. order'[h] = "recorded" /\ \A g \in Hashes \ {h} : order'[g] = order[g]
  BY <1>0 DEF TypeOK
<1>3. Saved  BY <1>0, <1>2, LoadedSaves DEF Wrote
<1>4. TypeOK'
  <2>1. order' \in [Hashes -> {"none", "placed", "signed", "recorded", "over"}]
    BY <1>0 DEF TypeOK
  <2> QED  BY <1>0, <1>1, <1>3, <2>1, SavedTypes DEF TypeOK
<1>5. PlacedIsNew'  BY <1>0, <1>2 DEF IInv, PlacedIsNew
<1>6. JobInv'
  <2>1. midway.todo # "schedule"  BY <1>0, MidwayFields
  <2>2. lost \subseteq lost'  BY <1>3 DEF Saved
  <2>3. FileIsKept  BY <1>3 DEF Saved
  <2> QED  BY <1>0, <1>1, <1>2, <2>1, <2>2, <2>3, JobsStay
<1> QED  BY <1>3, <1>4, <1>5, <1>6 DEF IInv, Saved

LEMMA RejectKeepsIInv == ASSUME TradeRecordsAssumption, IInv, NEW h \in Hashes, Reject(h) PROVE IInv'
<1>0. /\ TypeOK /\ order[h] \in {"signed", "recorded"} /\ midway = Nothing
      /\ order' = [order EXCEPT ![h] = "over"]
      /\ Saves(Recorded(Loaded, h, "REJECTED", "bot"))
      /\ UNCHANGED <<ledger, running, botHashes, jobVars, midway, scheduled>>
  BY DEF IInv, Reject
<1>1. UNCHANGED <<jobs, timers, jobsFile>>  BY <1>0 DEF jobVars
<1>2. order'[h] = "over" /\ \A g \in Hashes \ {h} : order'[g] = order[g]
  BY <1>0 DEF TypeOK
<1>3. Saved
  <2>1. "REJECTED" \in Statuses  BY DEF Statuses
  <2> QED  BY <1>0, <1>2, <2>1, BotRecords
<1>4. TypeOK'
  <2>1. order' \in [Hashes -> {"none", "placed", "signed", "recorded", "over"}]
    BY <1>0 DEF TypeOK
  <2> QED  BY <1>0, <1>1, <1>3, <2>1, SavedTypes DEF TypeOK
<1>5. PlacedIsNew'  BY <1>0, <1>2 DEF IInv, PlacedIsNew
<1>6. JobInv'
  <2>1. midway.todo # "schedule"  BY <1>0, MidwayFields
  <2>2. lost \subseteq lost'  BY <1>3 DEF Saved
  <2>3. FileIsKept  BY <1>3 DEF Saved
  <2> QED  BY <1>0, <1>1, <1>2, <2>1, <2>2, <2>3, JobsStay
<1> QED  BY <1>3, <1>4, <1>5, <1>6 DEF IInv, Saved

LEMMA RecordFillKeepsIInv == ASSUME TradeRecordsAssumption, IInv, NEW h \in Hashes, RecordFill(h) PROVE IInv'
<1>0. /\ TypeOK /\ order[h] = "signed" /\ midway = Nothing
      /\ midway' = [todo |-> "schedule", of |-> h]
      /\ Saves(Recorded(Loaded, h, "FILLED", "bot"))
      /\ UNCHANGED <<order, ledger, running, botHashes, jobVars, scheduled>>
  BY DEF IInv, RecordFill
<1>1. UNCHANGED <<jobs, timers, jobsFile>>  BY <1>0 DEF jobVars
<1>2. Saved
  <2>1. "FILLED" \in Statuses  BY DEF Statuses
  <2> QED  BY <1>0, <2>1, BotRecords
<1>3. TypeOK'
  <2>1. midway' \in [todo : {"schedule", "conclude"}, of : Hashes]  BY <1>0
  <2> QED  BY <1>0, <1>1, <1>2, <2>1, SavedTypes DEF TypeOK
<1>4. PlacedIsNew'  BY <1>0 DEF IInv, PlacedIsNew
<1>5. JobInv'
  <2>1. /\ midway.todo \notin {"schedule", "conclude"}
        /\ midway'.todo = "schedule" /\ midway'.of = h
    BY <1>0, MidwayFields
  <2>2. ScheduledIsRecorded'  BY <1>0, <2>1 DEF IInv, JobInv, ScheduledIsRecorded
  <2>3. TimersAreArmed'
    BY <1>0, <1>1, <2>1 DEF IInv, JobInv, TimersAreArmed, Concluding
  <2>4. ASSUME lost' = {} PROVE JobsAreInFile' /\ ScheduledIsInFile' /\ ConcludedIsMarked'
    <3>1. lost = {}  BY <1>2, <2>4 DEF Saved
    <3>2. JobsAreInFile /\ ScheduledIsInFile  BY <3>1 DEF IInv, JobInv
    <3>3. JobsAreInFile'
      <4>1. jobsFile = jobs  BY <1>0, <3>2 DEF JobsAreInFile
      <4> QED  BY <1>1, <4>1 DEF JobsAreInFile
    <3>4. \A g \in Hashes : Marked(InFile(g)) => Marked(InFile(g)')
      BY <1>2, <2>4 DEF Saved, FileIsKept, Covers
    <3>5. scheduled \subseteq Hashes  BY <1>0 DEF TypeOK
    <3>6. ScheduledIsInFile'
      BY <1>0, <1>1, <3>2, <3>4, <3>5 DEF ScheduledIsInFile, Marked
    <3>7. ConcludedIsMarked'  BY <2>1 DEF ConcludedIsMarked, Concluding
    <3> QED  BY <3>3, <3>6, <3>7
  <2> QED  BY <2>2, <2>3, <2>4 DEF JobInv
<1> QED  BY <1>2, <1>3, <1>4, <1>5 DEF IInv, Saved

\* A first use that finds nothing to save leaves as much behind.
LEMMA LoadsSaved ==
    ASSUME TradeRecordsAssumption, IInv, Loads, UNCHANGED <<cloud, upload, order, ledger>>
    PROVE  Saved
<1>1. TypeOK /\ TradesCoverFile  BY DEF IInv, HistoryInv
<1>2. CASE UNCHANGED <<file, lost>>
  <2>1. /\ HistoryInv' /\ \A h \in Hashes : InFile(h)' = InFile(h)
        /\ trades' \in Histories /\ loaded' = TRUE
    BY <1>2, HistoryLoads
  <2>2. FileIsKept  BY <1>1, <2>1, InFileCoversItself
  <2> QED  BY <1>1, <1>2, <2>1, <2>2 DEF Saved, TypeOK
<1>3. CASE file' = Torn /\ lost' = lost \cup {"history"}
  <2>1. trades' \in Histories /\ loaded' = TRUE  BY <1>1, LoadedCovers DEF Loads
  <2>2. \A h \in Hashes : InFile(h)' = None /\ trades'[h] \in Records
    BY <1>3, <2>1, EmptyIsAHistory DEF InFile
  <2>3. TradesCoverFile'  BY <2>2, CoversExists DEF TradesCoverFile, Records
  <2> QED  BY <1>1, <1>3, <2>1, <2>3 DEF Saved, HistoryInv, FileIsKept, TypeOK
<1> QED  BY <1>2, <1>3 DEF Loads

\* Ingestion, and the markouts.
LEMMA IngestKeepsIInv == ASSUME TradeRecordsAssumption, IInv, NEW h \in Hashes, Ingest(h) PROVE IInv'
<1>0. /\ TypeOK /\ midway = Nothing /\ ledger[h] = "success"
      /\ UNCHANGED <<order, ledger, running, botHashes, jobVars, midway, scheduled>>
  BY DEF IInv, Ingest
<1>1. UNCHANGED <<jobs, timers, jobsFile>>  BY <1>0 DEF jobVars
<1>2. ASSUME Loaded[h] # None PROVE Saved
  <2>1. Loads /\ UNCHANGED <<cloud, upload>>  BY <1>2 DEF Ingest
  <2> QED  BY <1>0, <2>1, LoadsSaved
<1>3. ASSUME Loaded[h] = None PROVE Saved
  <2> DEFINE source == IF h \in botHashes THEN "bot" ELSE "manual"
             new == Recorded(Loaded, h, "FILLED", source)
  <2>1. Saves(new)  BY <1>3 DEF Ingest
  <2>2. Loaded \in Histories  BY LoadedCovers DEF IInv, HistoryInv
  <2>3. /\ new \in Histories
        /\ \A g \in Hashes \ {h} : new[g] = Loaded[g]
        /\ \A g \in Hashes : Covers(new[g], Loaded[g])
    <3>1. "FILLED" \in Statuses /\ source \in {"bot", "manual"}  BY DEF Statuses
    <3> HIDE DEF new, source
    <3> QED  BY <2>2, <3>1, RecordedCovers DEF new
  <2>4. \A g \in Hashes : Wrote(g)' => Wrote(g)  BY <1>0 DEF Wrote
  <2>5. \A g \in Hashes : ByHand(g) => ByHand(g)'  BY <1>0 DEF ByHand
  <2>6. ASSUME "history" \notin lost PROVE ByHand(h)
    <3>1. ~Wrote(h)  BY <1>3, <2>6, LoadedKnows
    <3>2. order[h] # "placed"  BY <1>0 DEF IInv, PlacedIsNew
    <3> QED  BY <1>0, <3>1, <3>2 DEF ByHand, Wrote, TypeOK
  <2>7. "history" \notin lost =>
          \A g \in Hashes : new[g] # None /\ new[g].source # "bot" => ByHand(g)'
    <3> SUFFICES ASSUME "history" \notin lost, NEW g \in Hashes, g # h,
                        new[g] # None, new[g].source # "bot"
                 PROVE  ByHand(g)'
      BY <2>5, <2>6
    <3>1. Loaded[g] # None /\ Loaded[g].source # "bot"  BY <2>3
    <3> QED  BY <2>5, <3>1, LoadedKnows
  <2> HIDE DEF new
  <2> QED  BY <2>1, <2>3, <2>4, <2>5, <2>7, HistorySaves DEF Saved
<1>4. Saved  BY <1>2, <1>3
<1>5. TypeOK'  BY <1>0, <1>1, <1>4, SavedTypes DEF TypeOK
<1>6. PlacedIsNew'  BY <1>0 DEF IInv, PlacedIsNew
<1>7. JobInv'
  <2>1. midway.todo # "schedule"  BY <1>0, MidwayFields
  <2>2. lost \subseteq lost'  BY <1>4 DEF Saved
  <2>3. FileIsKept  BY <1>4 DEF Saved
  <2> QED  BY <1>0, <1>1, <2>1, <2>2, <2>3, JobsStay
<1> QED  BY <1>4, <1>5, <1>6, <1>7 DEF IInv, Saved

LEMMA FireKeepsIInv == ASSUME TradeRecordsAssumption, IInv, NEW h \in Hashes, Fire(h) PROVE IInv'
<1>0. /\ TypeOK /\ midway = Nothing /\ h \in timers /\ h \in jobs
      /\ timers' = timers \ {h}
      /\ midway' = [todo |-> "conclude", of |-> h]
      /\ UNCHANGED <<order, ledger, running, botHashes, jobs, jobsFile, scheduled>>
  BY DEF IInv, Fire
<1>1. /\ midway.todo \notin {"schedule", "conclude"}
      /\ midway'.todo = "conclude" /\ midway'.of = h
  BY <1>0, MidwayFields
<1>2. running  BY <1>0 DEF IInv, JobInv, TimersAreArmed
<1>3. Loaded \in Histories  BY LoadedCovers DEF IInv, HistoryInv
<1>4. Saved /\ (lost' = {} /\ Loaded[h] # None => Marked(InFile(h)'))
  <2>1. CASE Loaded[h] = None
    <3>1. Loads /\ UNCHANGED <<cloud, upload>>  BY <2>1 DEF Fire
    <3> QED  BY <1>0, <2>1, <3>1, LoadsSaved
  <2>2. CASE Loaded[h] # None
    <3> DEFINE new == [Loaded EXCEPT ![h].marked = TRUE]
    <3>1. Saves(new)  BY <2>2 DEF Fire
    <3>2. /\ new \in Histories
          /\ Marked(new[h]) /\ new[h].source = Loaded[h].source
          /\ \A g \in Hashes \ {h} : new[g] = Loaded[g]
          /\ \A g \in Hashes : Covers(new[g], Loaded[g])
      <4> HIDE DEF new
      <4> QED  BY <1>3, <2>2, MarkingCovers DEF new
    <3>3. \A g \in Hashes : Wrote(g)' => Wrote(g)  BY <1>0 DEF Wrote
    <3>4. \A g \in Hashes : ByHand(g) => ByHand(g)'  BY <1>0 DEF ByHand
    <3>5. "history" \notin lost =>
            \A g \in Hashes : new[g] # None /\ new[g].source # "bot" => ByHand(g)'
      <4> SUFFICES ASSUME "history" \notin lost, NEW g \in Hashes, new[g] # None,
                          new[g].source # "bot"
                   PROVE  ByHand(g)'
        OBVIOUS
      <4>1. Loaded[g] # None /\ Loaded[g].source # "bot"  BY <2>2, <3>2
      <4> QED  BY <3>4, <4>1, LoadedKnows
    <3> HIDE DEF new
    <3> QED  BY <3>1, <3>2, <3>3, <3>4, <3>5, HistorySaves DEF Saved
  <2> QED  BY <2>1, <2>2
<1>5. TypeOK'
  <2>1. midway' \in [todo : {"schedule", "conclude"}, of : Hashes]  BY <1>0
  <2> QED  BY <1>0, <1>4, <2>1, SavedTypes DEF TypeOK
<1>6. PlacedIsNew'  BY <1>0 DEF IInv, PlacedIsNew
<1>7. JobInv'
  <2>1. ScheduledIsRecorded'  BY <1>0, <1>1 DEF IInv, JobInv, ScheduledIsRecorded
  <2>2. TimersAreArmed'
    BY <1>0, <1>1, <1>2 DEF IInv, JobInv, TimersAreArmed, Concluding
  <2>3. ASSUME lost' = {} PROVE JobsAreInFile' /\ ScheduledIsInFile' /\ ConcludedIsMarked'
    <3>1. lost = {}  BY <1>4, <2>3 DEF Saved
    <3>2. JobsAreInFile /\ ScheduledIsInFile  BY <3>1 DEF IInv, JobInv
    <3>3. JobsAreInFile'  BY <1>0, <1>2, <3>2 DEF JobsAreInFile
    <3>4. \A g \in Hashes : Marked(InFile(g)) => Marked(InFile(g)')
      BY <1>4, <2>3 DEF Saved, FileIsKept, Covers
    <3>5. scheduled \subseteq Hashes  BY <1>0 DEF TypeOK
    <3>6. ScheduledIsInFile'  BY <1>0, <3>2, <3>4, <3>5 DEF ScheduledIsInFile, Marked
    <3>7. ASSUME h \in scheduled PROVE Marked(InFile(h)')
      <4>1. Wrote(h)  BY <3>7 DEF IInv, JobInv, ScheduledIsRecorded, Wrote
      <4>2. Loaded[h] # None  BY <3>1, <4>1, LoadedKnows
      <4> QED  BY <1>4, <2>3, <4>2
    <3>8. ConcludedIsMarked'  BY <1>0, <1>1, <3>7 DEF ConcludedIsMarked, Concluding, Marked
    <3> QED  BY <3>3, <3>6, <3>8
  <2> QED  BY <2>1, <2>2, <2>3 DEF JobInv
<1> QED  BY <1>4, <1>5, <1>6, <1>7 DEF IInv, Saved

LEMMA ScheduleKeepsIInv == ASSUME TradeRecordsAssumption, IInv, Schedule PROVE IInv'
<1> DEFINE h == midway.of
<1>0. /\ TypeOK /\ midway.todo = "schedule" /\ midway' = Nothing
      /\ order' = [order EXCEPT ![h] = "recorded"]
      /\ jobs' = jobs \cup {h} /\ scheduled' = scheduled \cup {h}
      /\ timers' = IF running /\ h \notin jobs THEN timers \cup {h} ELSE timers
      /\ SavesJobs
      /\ UNCHANGED <<ledger, running, botHashes, historyVars>>
  BY DEF IInv, Schedule
<1>1. UNCHANGED <<trades, loaded, file, cloud, upload>>  BY <1>0 DEF historyVars
<1>2. /\ h \in Hashes /\ order[h] = "signed" /\ midway # Nothing
      /\ midway'.todo \notin {"schedule", "conclude"}
  BY <1>0, MidwayFields DEF IInv, JobInv, ScheduledIsRecorded
<1>3. order'[h] = "recorded" /\ \A g \in Hashes \ {h} : order'[g] = order[g]
  BY <1>0, <1>2 DEF TypeOK
<1>4. \/ jobsFile' = jobs' /\ lost' = lost
      \/ jobsFile' \in {jobsFile, Torn} /\ lost' = lost \cup {"jobs"}
  BY <1>0 DEF SavesJobs
<1>5. TypeOK'
  <2>1. order' \in [Hashes -> {"none", "placed", "signed", "recorded", "over"}]
    BY <1>0 DEF TypeOK
  <2>2. jobs' \subseteq Hashes /\ timers' \subseteq Hashes /\ scheduled' \subseteq Hashes
    BY <1>0, <1>2 DEF TypeOK
  <2>3. jobsFile' \in (SUBSET Hashes) \cup {Torn} /\ lost' \subseteq {"history", "jobs"}
    BY <1>0, <1>4, <2>2 DEF TypeOK
  <2> QED  BY <1>0, <1>1, <2>1, <2>2, <2>3 DEF TypeOK
<1>6. PlacedIsNew'  BY <1>0, <1>2, <1>3 DEF IInv, PlacedIsNew
<1>7. HistoryInv' /\ \A g \in Hashes : InFile(g)' = InFile(g)
  <2>1. \A g \in Hashes : Wrote(g)' => Wrote(g)  BY <1>2, <1>3 DEF Wrote
  <2>2. \A g \in Hashes : ByHand(g) => ByHand(g)'  BY <1>0, <1>2, <1>3 DEF ByHand
  <2>3. lost \subseteq lost'  BY <1>4
  <2> QED  BY <1>0, <2>1, <2>2, <2>3, HistoryStays
<1>8. JobInv'
  <2> HIDE DEF h
  <2>1. \A g \in scheduled' : order'[g] \in {"recorded", "over"}
    <3>1. \A g \in scheduled : g \in Hashes /\ order[g] \in {"recorded", "over"}
      BY <1>0 DEF IInv, JobInv, ScheduledIsRecorded, TypeOK
    <3> QED  BY <1>0, <1>3, <3>1
  <2>2. ScheduledIsRecorded'  BY <1>2, <2>1 DEF ScheduledIsRecorded
  <2>3. TimersAreArmed'
    BY <1>0, <1>2 DEF IInv, JobInv, TimersAreArmed, Concluding
  <2>4. ASSUME lost' = {} PROVE JobsAreInFile' /\ ScheduledIsInFile' /\ ConcludedIsMarked'
    <3>1. lost = {} /\ jobsFile' = jobs'  BY <1>4, <2>4
    <3>2. JobsAreInFile /\ ScheduledIsInFile  BY <3>1 DEF IInv, JobInv
    <3>3. jobsFile = jobs  BY <1>2, <3>2 DEF JobsAreInFile
    <3>4. scheduled \subseteq Hashes  BY <1>0 DEF TypeOK
    <3>5. ScheduledIsInFile'
      BY <1>0, <1>2, <1>7, <3>1, <3>2, <3>3, <3>4 DEF ScheduledIsInFile, Marked
    <3>6. ConcludedIsMarked'  BY <1>2 DEF ConcludedIsMarked, Concluding
    <3> QED  BY <3>1, <3>5, <3>6 DEF JobsAreInFile
  <2> QED  BY <2>2, <2>3, <2>4 DEF JobInv
<1> QED  BY <1>5, <1>6, <1>7, <1>8 DEF IInv

LEMMA ConcludeKeepsIInv == ASSUME TradeRecordsAssumption, IInv, Conclude PROVE IInv'
<1> DEFINE h == midway.of
<1>0. /\ TypeOK /\ midway.todo = "conclude" /\ midway' = Nothing
      /\ jobs' = jobs \ {h}
      /\ SavesJobs
      /\ UNCHANGED <<order, ledger, running, botHashes, historyVars, timers, scheduled>>
  BY DEF IInv, Conclude
<1>1. UNCHANGED <<trades, loaded, file, cloud, upload>>  BY <1>0 DEF historyVars
<1>2. /\ h \in Hashes /\ midway # Nothing /\ Concluding(h)
      /\ midway'.todo \notin {"schedule", "conclude"}
  BY <1>0, MidwayFields DEF Concluding
<1>3. \/ jobsFile' = jobs' /\ lost' = lost
      \/ jobsFile' \in {jobsFile, Torn} /\ lost' = lost \cup {"jobs"}
  BY <1>0 DEF SavesJobs
<1>4. TypeOK'
  <2>1. jobs' \subseteq Hashes  BY <1>0 DEF TypeOK
  <2>2. jobsFile' \in (SUBSET Hashes) \cup {Torn} /\ lost' \subseteq {"history", "jobs"}
    BY <1>0, <1>3, <2>1 DEF TypeOK
  <2> QED  BY <1>0, <1>1, <2>1, <2>2 DEF TypeOK
<1>5. PlacedIsNew'  BY <1>0 DEF IInv, PlacedIsNew
<1>6. HistoryInv' /\ \A g \in Hashes : InFile(g)' = InFile(g)
  <2>1. \A g \in Hashes : Wrote(g)' => Wrote(g)  BY <1>0 DEF Wrote
  <2>2. \A g \in Hashes : ByHand(g) => ByHand(g)'  BY <1>0 DEF ByHand
  <2>3. lost \subseteq lost'  BY <1>3
  <2> QED  BY <1>0, <2>1, <2>2, <2>3, HistoryStays
<1>7. JobInv'
  <2>1. ScheduledIsRecorded'  BY <1>0, <1>2 DEF IInv, JobInv, ScheduledIsRecorded
  <2>2. TimersAreArmed'
    <3>1. \A g \in jobs' : ~Concluding(g)  BY <1>0 DEF Concluding
    <3> QED  BY <1>0, <1>2, <3>1 DEF IInv, JobInv, TimersAreArmed
  <2>3. ASSUME lost' = {} PROVE JobsAreInFile' /\ ScheduledIsInFile' /\ ConcludedIsMarked'
    <3>1. lost = {} /\ jobsFile' = jobs'  BY <1>3, <2>3
    <3>2. JobsAreInFile /\ ScheduledIsInFile /\ ConcludedIsMarked
      BY <3>1 DEF IInv, JobInv
    <3>3. jobsFile = jobs  BY <1>2, <3>2 DEF JobsAreInFile
    <3>4. scheduled \subseteq Hashes  BY <1>0 DEF TypeOK
    <3>5. \A g \in scheduled : Marked(InFile(g)) \/ g \in jobs'
      BY <1>0, <1>2, <3>2, <3>3 DEF ScheduledIsInFile, ConcludedIsMarked
    <3>6. ScheduledIsInFile'
      BY <1>0, <1>6, <3>1, <3>4, <3>5 DEF ScheduledIsInFile, Marked
    <3>7. ConcludedIsMarked'  BY <1>2 DEF ConcludedIsMarked, Concluding
    <3> QED  BY <3>1, <3>6, <3>7 DEF JobsAreInFile
  <2> QED  BY <2>1, <2>2, <2>3 DEF JobInv
<1> QED  BY <1>4, <1>5, <1>6, <1>7 DEF IInv

\* The cloud, a read, and the runtime.
LEMMA EndUploadKeepsIInv == ASSUME TradeRecordsAssumption, IInv, EndUpload PROVE IInv'
<1>0. /\ TypeOK /\ upload # None /\ cloud' \in {cloud, upload} /\ upload' = None
      /\ UNCHANGED <<order, ledger, running, botHashes, trades, loaded, file, jobVars, midway,
                     scheduled, lost>>
  BY DEF IInv, EndUpload
<1>1. UNCHANGED <<jobs, timers, jobsFile>>  BY <1>0 DEF jobVars
<1>2. TypeOK'  BY <1>0, <1>1 DEF TypeOK
<1>3. PlacedIsNew'  BY <1>0 DEF IInv, PlacedIsNew
<1>4. \A g \in Hashes : InFile(g)' = InFile(g)  BY <1>0 DEF InFile
<1>5. HistoryInv'
  <2>1. TradesCoverFile'  BY <1>0, <1>4 DEF IInv, HistoryInv, TradesCoverFile
  <2>2. ASSUME "history" \notin lost' PROVE FileCoversCloud' /\ SignedIsInFile' /\ ManualIsNotOwn'
    <3>1. FileCoversCloud /\ SignedIsInFile /\ ManualIsNotOwn
      BY <1>0, <2>2 DEF IInv, HistoryInv
    <3>2. FileCoversCloud'  BY <1>0, <1>4, <3>1 DEF FileCoversCloud
    <3>3. SignedIsInFile'  BY <1>0, <1>4, <3>1 DEF SignedIsInFile
    <3>4. ManualIsNotOwn'  BY <1>0, <1>4, <3>1 DEF ManualIsNotOwn, ManualAtMost
    <3> QED  BY <3>2, <3>3, <3>4
  <2> QED  BY <2>1, <2>2 DEF HistoryInv
<1>6. JobInv'
  <2>1. FileIsKept  BY <1>0, <1>4, InFileCoversItself
  <2> QED  BY <1>0, <1>1, <2>1, JobsStay
<1> QED  BY <1>2, <1>3, <1>5, <1>6 DEF IInv

LEMMA InitFromCloudKeepsIInv == ASSUME TradeRecordsAssumption, IInv, InitFromCloud PROVE IInv'
<1>0. /\ TypeOK
      /\ trades' = [h \in Hashes |-> IF trades[h] = None THEN cloud[h] ELSE trades[h]]
      /\ UNCHANGED <<order, ledger, running, botHashes, loaded, file, cloud, upload, jobVars,
                     midway, scheduled, lost>>
  BY DEF IInv, InitFromCloud
<1>1. UNCHANGED <<jobs, timers, jobsFile>>  BY <1>0 DEF jobVars
<1>2. \A g \in Hashes :
        /\ trades'[g] \in {trades[g], cloud[g]}
        /\ trades[g] # None => trades'[g] = trades[g]
  BY <1>0
<1>3. TypeOK'
  <2>1. trades' \in Histories  BY <1>0 DEF TypeOK, Histories
  <2> QED  BY <1>0, <1>1, <2>1 DEF TypeOK
<1>4. PlacedIsNew'  BY <1>0 DEF IInv, PlacedIsNew
<1>5. \A g \in Hashes : InFile(g)' = InFile(g)  BY <1>0 DEF InFile
<1>6. HistoryInv'
  <2>1. TradesCoverFile'
    <3>1. ASSUME NEW g \in Hashes, loaded PROVE Covers(trades'[g], InFile(g))
      <4>1. Covers(trades[g], InFile(g))  BY <3>1 DEF IInv, HistoryInv, TradesCoverFile
      <4>2. CASE trades[g] # None  BY <1>2, <4>1, <4>2
      <4>3. CASE trades[g] = None
        <5>1. InFile(g) \in Records /\ trades[g] \in Records /\ trades'[g] \in Records
          BY <1>0, <1>3, InFileIsARecord, EmptyIsAHistory DEF TypeOK
        <5>2. InFile(g) = None  BY <4>1, <4>3, <5>1, CoversExists
        <5> QED  BY <5>1, <5>2, CoversExists DEF Records
      <4> QED  BY <4>2, <4>3
    <3> QED  BY <1>0, <1>5, <3>1 DEF TradesCoverFile
  <2>2. ASSUME "history" \notin lost' PROVE FileCoversCloud' /\ SignedIsInFile' /\ ManualIsNotOwn'
    <3>1. FileCoversCloud /\ SignedIsInFile /\ ManualIsNotOwn
      BY <1>0, <2>2 DEF IInv, HistoryInv
    <3>2. FileCoversCloud'  BY <1>0, <1>5, <3>1 DEF FileCoversCloud
    <3>3. SignedIsInFile'  BY <1>0, <1>5, <3>1 DEF SignedIsInFile
    <3>4. ManualIsNotOwn'  BY <1>0, <1>2, <1>5, <3>1 DEF ManualIsNotOwn, ManualAtMost
    <3> QED  BY <3>2, <3>3, <3>4
  <2> QED  BY <2>1, <2>2 DEF HistoryInv
<1>7. JobInv'
  <2>1. FileIsKept  BY <1>0, <1>5, InFileCoversItself
  <2> QED  BY <1>0, <1>1, <2>1, JobsStay
<1> QED  BY <1>3, <1>4, <1>6, <1>7 DEF IInv

LEMMA ReadKeepsIInv == ASSUME TradeRecordsAssumption, IInv, Read PROVE IInv'
<1>0. /\ TypeOK /\ Loads
      /\ UNCHANGED <<order, ledger, running, botHashes, cloud, upload, jobVars, midway,
                     scheduled>>
  BY DEF IInv, Read
<1>1. UNCHANGED <<jobs, timers, jobsFile>>  BY <1>0 DEF jobVars
<1>2. Saved  BY <1>0, LoadsSaved
<1>3. TypeOK'  BY <1>0, <1>1, <1>2, SavedTypes DEF TypeOK
<1>4. PlacedIsNew'  BY <1>0 DEF IInv, PlacedIsNew
<1>5. JobInv'  BY <1>0, <1>1, <1>2, JobsStay DEF Saved
<1> QED  BY <1>2, <1>3, <1>4, <1>5 DEF IInv, Saved

LEMMA StartKeepsIInv == ASSUME TradeRecordsAssumption, IInv, Start PROVE IInv'
<1>0. /\ TypeOK /\ midway = Nothing /\ ~running /\ running' = TRUE
      /\ jobs' = IF jobsFile = Torn THEN {} ELSE jobs \cup jobsFile
      /\ timers' = jobs'
      /\ UNCHANGED <<order, ledger, botHashes, historyVars, jobsFile, midway, scheduled, lost>>
  BY DEF IInv, Start
<1>1. UNCHANGED <<trades, loaded, file, cloud, upload>>  BY <1>0 DEF historyVars
<1>2. midway.todo \notin {"schedule", "conclude"}  BY <1>0, MidwayFields
<1>3. TypeOK'
  <2>1. jobs' \subseteq Hashes  BY <1>0 DEF TypeOK
  <2> QED  BY <1>0, <1>1, <2>1 DEF TypeOK
<1>4. PlacedIsNew'  BY <1>0 DEF IInv, PlacedIsNew
<1>5. HistoryInv' /\ \A g \in Hashes : InFile(g)' = InFile(g)
  BY <1>0, HistoryStays DEF Wrote, ByHand
<1>6. JobInv'
  <2>1. ScheduledIsRecorded'  BY <1>0 DEF IInv, JobInv, ScheduledIsRecorded
  <2>2. TimersAreArmed'  BY <1>0 DEF TimersAreArmed
  <2>3. ASSUME lost' = {} PROVE JobsAreInFile' /\ ScheduledIsInFile' /\ ConcludedIsMarked'
    <3>1. JobsAreInFile /\ ScheduledIsInFile  BY <1>0, <2>3 DEF IInv, JobInv
    <3>2. jobsFile # Torn /\ (jobs = jobsFile \/ jobs = {})
      <4>1. jobs # Torn  BY <1>0, ConstantsDiffer DEF TypeOK
      <4> QED  BY <3>1, <4>1 DEF JobsAreInFile
    <3>3. jobs' = jobsFile'  BY <1>0, <3>2
    <3>4. scheduled \subseteq Hashes  BY <1>0 DEF TypeOK
    <3>5. ScheduledIsInFile'  BY <1>0, <1>5, <3>1, <3>4 DEF ScheduledIsInFile, Marked
    <3>6. ConcludedIsMarked'  BY <1>0, <1>2 DEF ConcludedIsMarked, Concluding
    <3> QED  BY <3>3, <3>5, <3>6 DEF JobsAreInFile
  <2> QED  BY <2>1, <2>2, <2>3 DEF JobInv
<1> QED  BY <1>3, <1>4, <1>5, <1>6 DEF IInv

LEMMA KillKeepsIInv == ASSUME TradeRecordsAssumption, IInv, Kill PROVE IInv'
<1>0. /\ TypeOK /\ midway = Nothing /\ running /\ running' = FALSE
      /\ botHashes' = {} /\ timers' = {}
      /\ UNCHANGED <<order, ledger, historyVars, jobs, jobsFile, midway, scheduled, lost>>
  BY DEF IInv, Kill
<1>1. UNCHANGED <<trades, loaded, file, cloud, upload>>  BY <1>0 DEF historyVars
<1>2. midway.todo \notin {"schedule", "conclude"}  BY <1>0, MidwayFields
<1>3. TypeOK'  BY <1>0, <1>1 DEF TypeOK
<1>4. PlacedIsNew'  BY <1>0 DEF IInv, PlacedIsNew
<1>5. HistoryInv' /\ \A g \in Hashes : InFile(g)' = InFile(g)
  BY <1>0, HistoryStays DEF Wrote, ByHand
<1>6. JobInv'
  <2>1. ScheduledIsRecorded'  BY <1>0 DEF IInv, JobInv, ScheduledIsRecorded
  <2>2. TimersAreArmed'  BY <1>0, <1>2 DEF TimersAreArmed
  <2>3. ASSUME lost' = {} PROVE JobsAreInFile' /\ ScheduledIsInFile' /\ ConcludedIsMarked'
    <3>1. JobsAreInFile /\ ScheduledIsInFile  BY <1>0, <2>3 DEF IInv, JobInv
    <3>2. JobsAreInFile'  BY <1>0, <3>1 DEF JobsAreInFile
    <3>3. scheduled \subseteq Hashes  BY <1>0 DEF TypeOK
    <3>4. ScheduledIsInFile'  BY <1>0, <1>5, <3>1, <3>3 DEF ScheduledIsInFile, Marked
    <3>5. ConcludedIsMarked'  BY <1>0, <1>2 DEF ConcludedIsMarked, Concluding
    <3> QED  BY <3>2, <3>4, <3>5
  <2> QED  BY <2>1, <2>2, <2>3 DEF JobInv
<1> QED  BY <1>3, <1>4, <1>5, <1>6 DEF IInv

LEMMA CrashKeepsIInv == ASSUME TradeRecordsAssumption, IInv, Crash PROVE IInv'
<1>0. /\ TypeOK
      /\ running' = FALSE /\ botHashes' = {}
      /\ trades' = Empty /\ loaded' = FALSE
      /\ cloud' \in {cloud} \cup ({upload} \ {None}) /\ upload' = None
      /\ jobs' = {} /\ timers' = {} /\ midway' = Nothing
      /\ UNCHANGED <<ledger, scheduled>>
  BY DEF IInv, Crash
<1>1. \/ UNCHANGED <<file, jobsFile, lost>>
      \/ file' = Torn /\ lost' = lost \cup {"history"} /\ jobsFile' = jobsFile
      \/ jobsFile' = Torn /\ lost' = lost \cup {"jobs"} /\ file' = file
  BY DEF Crash
<1>2. \A g \in Hashes :
        /\ order[g] = "placed" => order'[g] = "none"
        /\ order[g] \in {"signed", "recorded"} => order'[g] = "over"
        /\ order[g] \in {"none", "over"} => order'[g] = order[g]
  BY DEF Crash
<1>3. \A g \in Hashes : order[g] \in {"none", "placed", "signed", "recorded", "over"}
  BY <1>0 DEF TypeOK
<1>4. \A g \in Hashes : order'[g] \in {"none", "over"}  BY <1>2, <1>3
<1>5. TypeOK'
  <2>1. order' \in [Hashes -> {"none", "placed", "signed", "recorded", "over"}]
    <3> DEFINE crashed(g) == CASE order[g] = "placed" -> "none"
                               [] order[g] \in {"signed", "recorded"} -> "over"
                               [] OTHER -> order[g]
    <3>1. order' = [g \in Hashes |-> crashed(g)]  BY DEF Crash
    <3>2. \A g \in Hashes : crashed(g) \in {"none", "placed", "signed", "recorded", "over"}
      BY <1>3
    <3> QED  BY <3>1, <3>2
  <2>2. trades' \in Histories /\ cloud' \in Histories /\ upload' \in Histories \cup {None}
    BY <1>0, EmptyIsAHistory DEF TypeOK
  <2>3. /\ file' \in Histories \cup {None, Torn}
        /\ jobsFile' \in (SUBSET Hashes) \cup {Torn}
        /\ lost' \subseteq {"history", "jobs"}
    BY <1>0, <1>1 DEF TypeOK
  <2> QED  BY <1>0, <2>1, <2>2, <2>3 DEF TypeOK
<1>6. PlacedIsNew'  BY <1>4 DEF PlacedIsNew
<1>7. file' = file => \A g \in Hashes : InFile(g)' = InFile(g)  BY DEF InFile
<1>8. HistoryInv'
  <2>1. TradesCoverFile'  BY <1>0 DEF TradesCoverFile
  <2>2. ASSUME "history" \notin lost' PROVE FileCoversCloud' /\ SignedIsInFile' /\ ManualIsNotOwn'
    <3>1. file' = file /\ "history" \notin lost  BY <1>1, <2>2
    <3>2. \A g \in Hashes : InFile(g)' = InFile(g)  BY <1>7, <3>1
    <3>3. FileCoversCloud /\ SignedIsInFile /\ ManualIsNotOwn  BY <3>1 DEF IInv, HistoryInv
    <3>4. cloud' = cloud \/ (upload # None /\ cloud' = upload)  BY <1>0
    <3>5. FileCoversCloud'  BY <1>0, <3>1, <3>2, <3>3, <3>4 DEF FileCoversCloud
    <3>6. SignedIsInFile'
      BY <1>2, <1>3, <3>2, <3>3 DEF SignedIsInFile
    <3>7. \A g \in Hashes : ByHand(g) => ByHand(g)'  BY <1>0, <1>2 DEF ByHand
    <3>8. ManualIsNotOwn'
      <4>1. \A g \in Hashes : trades'[g] = None  BY <1>0 DEF Empty
      <4> QED  BY <1>0, <3>2, <3>3, <3>4, <3>7, <4>1 DEF ManualIsNotOwn, ManualAtMost, ByHand
    <3> QED  BY <3>5, <3>6, <3>8
  <2> QED  BY <2>1, <2>2 DEF HistoryInv
<1>9. JobInv'
  <2>1. midway'.todo \notin {"schedule", "conclude"}  BY <1>0, MidwayFields
  <2>2. ScheduledIsRecorded'
    <3>1. \A g \in scheduled : g \in Hashes /\ order[g] \in {"recorded", "over"}
      BY <1>0 DEF IInv, JobInv, ScheduledIsRecorded, TypeOK
    <3> QED  BY <1>0, <1>2, <2>1, <3>1 DEF ScheduledIsRecorded
  <2>3. TimersAreArmed'  BY <1>0, <2>1 DEF TimersAreArmed
  <2>4. ASSUME lost' = {} PROVE JobsAreInFile' /\ ScheduledIsInFile' /\ ConcludedIsMarked'
    <3>1. UNCHANGED <<file, jobsFile, lost>>  BY <1>1, <2>4
    <3>2. JobsAreInFile /\ ScheduledIsInFile  BY <2>4, <3>1 DEF IInv, JobInv
    <3>3. jobsFile # Torn
      <4>1. jobs # Torn  BY <1>0, ConstantsDiffer DEF TypeOK
      <4> QED  BY <3>2, <4>1 DEF JobsAreInFile
    <3>4. JobsAreInFile'  BY <1>0, <1>4, <3>1, <3>3 DEF JobsAreInFile
    <3>5. scheduled \subseteq Hashes  BY <1>0 DEF TypeOK
    <3>6. ScheduledIsInFile'
      BY <1>0, <1>7, <3>1, <3>2, <3>5 DEF ScheduledIsInFile, Marked
    <3>7. ConcludedIsMarked'  BY <2>1 DEF ConcludedIsMarked, Concluding
    <3> QED  BY <3>4, <3>6, <3>7
  <2> QED  BY <2>2, <2>3, <2>4 DEF JobInv
<1> QED  BY <1>5, <1>6, <1>8, <1>9 DEF IInv

LEMMA StutterKeepsIInv == ASSUME TradeRecordsAssumption, IInv, UNCHANGED vars PROVE IInv'
<1>1. /\ TypeOK
      /\ UNCHANGED <<order, ledger, running, botHashes, historyVars, jobVars, midway, scheduled, lost>>
  BY DEF IInv, vars
<1>2. /\ UNCHANGED <<trades, loaded, file, cloud, upload>>
      /\ UNCHANGED <<jobs, timers, jobsFile>>
  BY <1>1 DEF historyVars, jobVars
<1>3. TypeOK'  BY <1>1, <1>2 DEF TypeOK
<1>4. PlacedIsNew'  BY <1>1 DEF IInv, PlacedIsNew
<1>5. HistoryInv' /\ \A g \in Hashes : InFile(g)' = InFile(g)
  BY <1>1, HistoryStays DEF Wrote, ByHand
<1>6. FileIsKept  BY <1>1, <1>5, InFileCoversItself
<1>7. JobInv'  BY <1>1, <1>2, <1>6, JobsStay
<1> QED  BY <1>3, <1>4, <1>5, <1>7 DEF IInv

LEMMA NextKeepsIInv == ASSUME TradeRecordsAssumption, IInv, [Next]_vars PROVE IInv'
<1>1. ASSUME NEW h \in Hashes,
             \/ Place(h) \/ Sign(h) \/ Validate(h)
             \/ RecordFill(h) \/ Quarantine(h) \/ Reject(h) \/ Return(h)
             \/ Ingest(h) \/ Fire(h)
      PROVE  IInv'
  BY <1>1, PlaceKeepsIInv, SignKeepsIInv, ValidateKeepsIInv, RecordFillKeepsIInv,
     QuarantineKeepsIInv, RejectKeepsIInv, ReturnKeepsIInv, IngestKeepsIInv, FireKeepsIInv
<1> QED
  BY <1>1, EndUploadKeepsIInv, InitFromCloudKeepsIInv, ReadKeepsIInv, ScheduleKeepsIInv,
     ConcludeKeepsIInv, StartKeepsIInv, KillKeepsIInv, CrashKeepsIInv, StutterKeepsIInv
  DEF Next

-----------------------------------------------------------------------------
(* What the invariant says of the properties.                              *)

LEMMA IInvKeepsCloudBehind == ASSUME TradeRecordsAssumption, IInv PROVE CloudIsBehind
  BY DEF IInv, HistoryInv, FileCoversCloud, Covers, CloudIsBehind

LEMMA IInvKeepsOwnOrders == ASSUME IInv PROVE OwnOrdersAreBots
  BY DEF IInv, HistoryInv, ManualIsNotOwn, ManualAtMost, OwnOrdersAreBots

LEMMA IInvKeepsMarkouts == ASSUME IInv PROVE MarkoutIsKept
<1> SUFFICES ASSUME lost = {}, NEW h \in scheduled, ~Marked(InFile(h)) PROVE Awaited(h)
  BY DEF MarkoutIsKept, Marked
<1>1. /\ JobsAreInFile /\ h \in jobsFile /\ ~Concluding(h)
  BY DEF IInv, JobInv, ScheduledIsInFile, ConcludedIsMarked
<1>2. CASE jobs = {} /\ ~running  BY <1>1, <1>2 DEF Awaited
<1>3. CASE ~(jobs = {} /\ ~running)
  <2>1. h \in jobs  BY <1>1, <1>3 DEF JobsAreInFile
  <2>2. running => h \in timers  BY <1>1, <2>1 DEF IInv, JobInv, TimersAreArmed
  <2> QED  BY <1>3, <2>1, <2>2 DEF Awaited
<1> QED  BY <1>2, <1>3

-----------------------------------------------------------------------------
(* What a step makes of the file.                                          *)

LEMMA SavesCovers ==
    ASSUME TradeRecordsAssumption, IInv, NEW history \in Histories, Saves(history),
           file' # Torn, \A g \in Hashes : Covers(history[g], Loaded[g])
    PROVE  \A g \in Hashes : Covers(InFile(g)', InFile(g))
<1>1. TypeOK /\ TradesCoverFile  BY DEF IInv, HistoryInv
<1>2. Loaded \in Histories /\ \A g \in Hashes : Covers(Loaded[g], InFile(g))
  BY <1>1, LoadedCovers
<1>3. \A g \in Hashes : Covers(history[g], InFile(g)) /\ Covers(InFile(g), InFile(g))
  BY <1>1, <1>2, CoversItself, CoversThrough, InFileIsARecord, EmptyIsAHistory
<1>4. file' = history \/ file' = file  BY DEF Saves, Writes
<1>5. file' = history => \A g \in Hashes : InFile(g)' = history[g]
  BY ConstantsDiffer DEF InFile
<1>6. file' = file => \A g \in Hashes : InFile(g)' = InFile(g)  BY DEF InFile
<1> QED  BY <1>3, <1>4, <1>5, <1>6

LEMMA RecordingCovers ==
    ASSUME TradeRecordsAssumption, IInv, NEW h \in Hashes, NEW status \in Statuses,
           NEW source \in {"bot", "manual"}, Saves(Recorded(Loaded, h, status, source)),
           file' # Torn
    PROVE  \A g \in Hashes : Covers(InFile(g)', InFile(g))
<1> DEFINE new == Recorded(Loaded, h, status, source)
<1>1. Loaded \in Histories  BY LoadedCovers DEF IInv, HistoryInv
<1>2. Saves(new)  OBVIOUS
<1> HIDE DEF new
<1>3. new \in Histories /\ \A g \in Hashes : Covers(new[g], Loaded[g])
  BY <1>1, RecordedCovers DEF new
<1> QED  BY <1>2, <1>3, SavesCovers

LEMMA NextCovers ==
    ASSUME TradeRecordsAssumption, IInv, [Next]_vars, file' # Torn
    PROVE  \A g \in Hashes : Covers(InFile(g)', InFile(g))
<1>t. /\ TypeOK /\ Loaded \in Histories
      /\ "bot" \in {"bot", "manual"} /\ "manual" \in {"bot", "manual"}
      /\ {"PENDING", "REJECTED", "FILLED"} = Statuses
  BY LoadedCovers DEF IInv, HistoryInv, Statuses
<1>0. ASSUME file' = file PROVE \A g \in Hashes : Covers(InFile(g)', InFile(g))
  BY <1>t, <1>0, InFileCoversItself DEF InFile
<1>1. ASSUME NEW h \in Hashes, Sign(h) \/ RecordFill(h) \/ Reject(h)
      PROVE  \A g \in Hashes : Covers(InFile(g)', InFile(g))
  <2>1. PICK status \in Statuses : Saves(Recorded(Loaded, h, status, "bot"))
    BY <1>t, <1>1 DEF Sign, RecordFill, Reject
  <2> QED  BY <1>t, <2>1, RecordingCovers
<1>2. ASSUME NEW h \in Hashes, Quarantine(h)
      PROVE  \A g \in Hashes : Covers(InFile(g)', InFile(g))
  <2>1. \A g \in Hashes : Covers(Loaded[g], Loaded[g])
    BY <1>t, CoversItself, EmptyIsAHistory
  <2> QED  BY <1>t, <1>2, <2>1, SavesCovers DEF Quarantine
<1>3. ASSUME NEW h \in Hashes, Ingest(h)
      PROVE  \A g \in Hashes : Covers(InFile(g)', InFile(g))
  <2>1. CASE Loaded[h] # None  BY <1>0, <1>3, <2>1 DEF Ingest, Loads
  <2>2. CASE Loaded[h] = None
    <3>1. PICK source \in {"bot", "manual"} : Saves(Recorded(Loaded, h, "FILLED", source))
      BY <1>t, <1>3, <2>2 DEF Ingest
    <3> QED  BY <1>t, <3>1, RecordingCovers
  <2> QED  BY <2>1, <2>2
<1>4. ASSUME NEW h \in Hashes, Fire(h)
      PROVE  \A g \in Hashes : Covers(InFile(g)', InFile(g))
  <2>1. CASE Loaded[h] = None  BY <1>0, <1>4, <2>1 DEF Fire, Loads
  <2>2. CASE Loaded[h] # None
    <3> DEFINE new == [Loaded EXCEPT ![h].marked = TRUE]
    <3>1. Saves(new)  BY <1>4, <2>2 DEF Fire
    <3> HIDE DEF new
    <3>2. new \in Histories /\ \A g \in Hashes : Covers(new[g], Loaded[g])
      BY <1>t, <2>2, MarkingCovers DEF new
    <3> QED  BY <3>1, <3>2, SavesCovers
  <2> QED  BY <2>1, <2>2
<1>5. CASE Crash
  <2>1. file' = file  BY <1>5 DEF Crash
  <2> QED  BY <1>0, <2>1
<1>6. ASSUME NEW h \in Hashes, Place(h) \/ Validate(h) \/ Return(h) PROVE file' = file
  BY <1>6 DEF Place, Validate, Return, historyVars
<1>7. ASSUME \/ EndUpload \/ InitFromCloud \/ Read \/ Schedule \/ Conclude
             \/ Start \/ Kill \/ UNCHANGED vars
      PROVE  file' = file
  BY <1>7
  DEF EndUpload, InitFromCloud, Read, Loads, Schedule, Conclude, Start, Kill, vars, historyVars
<1> QED  BY <1>0, <1>1, <1>2, <1>3, <1>4, <1>5, <1>6, <1>7 DEF Next

\* The step of StatusNeverFalls.
StatusKept == file' # Torn => \A h \in Hashes : Priority(InFile(h)') >= Priority(InFile(h))

LEMMA NextKeepsStatus ==
    ASSUME TradeRecordsAssumption, IInv, [Next]_vars PROVE StatusKept
<1> SUFFICES ASSUME file' # Torn, NEW h \in Hashes
             PROVE  Priority(InFile(h)') >= Priority(InFile(h))
  BY DEF StatusKept
<1>1. TypeOK /\ TypeOK'  BY NextKeepsIInv DEF IInv
<1>2. InFile(h) \in Records /\ InFile(h)' \in Records
  BY <1>1, InFileIsARecord, ConstantsDiffer DEF TypeOK, InFile, Histories, Records
<1>3. Priority(InFile(h)) \in Nat /\ Priority(InFile(h)') \in Nat  BY <1>2, PriorityFields
<1>4. Priority(InFile(h)) <= Priority(InFile(h)')  BY NextCovers DEF Covers
<1> QED  BY <1>3, <1>4

-----------------------------------------------------------------------------
(* The theorems                                                            *)

THEOREM RecordsInv == ASSUME TradeRecordsAssumption PROVE Spec => []IInv
<1>1. Init => IInv  BY InitIInv
<1>2. IInv /\ [Next]_vars => IInv'  BY NextKeepsIInv
<1> QED  BY <1>1, <1>2, PTL DEF Spec

\* What is recorded of a transaction is not taken back while the file can be read
\* (tradeHistory.ts:665, :793).
THEOREM StatusIsKept == ASSUME TradeRecordsAssumption PROVE Spec => StatusNeverFalls
<1>1. IInv /\ [Next]_vars => StatusKept  BY NextKeepsStatus
<1>2. [][StatusKept]_vars => StatusNeverFalls  BY PTL DEF StatusNeverFalls, StatusKept
<1> QED  BY <1>1, <1>2, RecordsInv, PTL DEF Spec
=============================================================================
