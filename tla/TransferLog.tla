---------------------------- MODULE TransferLog ----------------------------
(***************************************************************************)
(* The log of uploads and downloads: a handler that hands out URLs opens a *)
(* trace, report/transfer (src/api/events.go) tells the scheduler how the  *)
(* nodes have served and stores the report, and the dashboard counts the   *)
(* rows (src/core/dao/asset_transfer_log.go).                              *)
(*                                                                         *)
(* A client may report a trace again, late, with another user or none. The *)
(* scheduler is told before anything is stored.                            *)
(***************************************************************************)
EXTENDS Integers, FiniteSets, FiniteSetsExt

CONSTANTS
    Traces,                \* trace_id
    Users, NoUser,         \* user_id; of a report without a token, whatever it says
    Claims,                \* the user, type and state that a report may carry
    Bodies,                \* the details of a report: sets of Parts
    Nodes,
    Reports,               \* reports under way
    LastDay, MaxReports    \* bounds on the clock and on the reports received

VARIABLES
    transferLog,           \* asset_transfer_log
    detail,                \* asset_transfer_detail, of a trace
    told,                  \* history: events sent to a scheduler, of a trace
    report,                \* reports between their steps
    today,
    opened,                \* history: the day on which a trace was first stored
    failed,                \* history: traces of which a report failed on its way
    received
transferVars == <<transferLog, detail, told, report, today, opened, failed, received>>

Created == "created"
Success == "success"
Failure == "failure"
States == {Created, Success, Failure}
Types == {"upload", "download"}
Days == 0 .. LastDay
Never == LastDay + 1

\* What one node did in one go, and whether that took a second.
Parts == [node : Nodes, state : States, elapsed : 0 .. 1]
DetailRows == [node : Nodes, state : {Success, Failure}]

NoRow == [claim |-> "none"]
NoReport == [pc |-> "none"]
UnderWay(t) == \E r \in Reports : report[r] # NoReport /\ report[r].trace = t
Stored == {t \in Traces : transferLog[t] # NoRow}

TypeOK ==
    /\ \A t \in Stored : transferLog[t] \in
         [claim : [user : Users \cup {NoUser}, type : Types, state : States],
          day : Days, rows : SUBSET DetailRows]
    /\ detail \in [Traces -> SUBSET DetailRows]
    /\ told \in [Traces -> Nat]
    /\ opened \in [Traces -> Days \cup {Never}]
    /\ failed \subseteq Traces

Init ==
    /\ transferLog = [t \in Traces |-> NoRow]
    /\ detail = [t \in Traces |-> {}]
    /\ told = [t \in Traces |-> 0]
    /\ report = [r \in Reports |-> NoReport]
    /\ today = 0
    /\ opened = [t \in Traces |-> Never]
    /\ failed = {}
    /\ received = 0

NextDay ==
    /\ today < LastDay
    /\ today' = today + 1
    /\ UNCHANGED <<transferLog, detail, told, report, opened, failed, received>>
-----------------------------------------------------------------------------
(* A trace is opened.                                                      *)

\* NewLogTrace, when it does not fail. What the handler does next, and whether
\* a scheduler gives it a URL, leaves the row as it is.
NewLogTrace(t, user, type) ==
    /\ transferLog[t] = NoRow
    /\ ~UnderWay(t)
    /\ transferLog' = [transferLog EXCEPT ![t] =
         [claim |-> [user |-> user, type |-> type, state |-> Created],
          day |-> today, rows |-> {}]]
    /\ opened' = [opened EXCEPT ![t] = today]
    /\ UNCHANGED <<detail, told, report, today, failed, received>>

\* GetUploadInfoHandler, for a file that the area does not have yet.
GetUploadInfo(t, user) == NewLogTrace(t, user, "upload")

\* UploadTempFileCar: the trace of a visitor's upload is opened as a download.
UploadTempFileCar(t) == NewLogTrace(t, NoUser, "download")
-----------------------------------------------------------------------------
(* A report.                                                               *)

\* buildAssetTransferLog: for each node one row of its successes and one of its
\* failures. GroupByNodeAndState divides by the time each took.
PartsOf(parts, node, state) == {p \in parts : p.node = node /\ p.state = state}
GroupByNodeAndState(parts) ==
    {row \in DetailRows : PartsOf(parts, row.node, row.state) # {}}

\* The list holds nil for a node without success, and the events are built of it.
Panics(parts) ==
    \/ \E p \in parts : p.state # Created /\ p.elapsed = 0
    \/ \E p \in parts : PartsOf(parts, p.node, Success) = {}

\* AssetTransferReport up to the events. The recovery of gin ends a panic; a
\* trace nobody has opened is one that the report has made up.
Receive(r, t, claim, parts) ==
    /\ report[r] = NoReport
    /\ received < MaxReports
    /\ received' = received + 1
    /\ report' = IF Panics(parts) THEN report
                 ELSE [report EXCEPT ![r] =
                    [pc |-> "tell", trace |-> t, claim |-> claim,
                     rows |-> GroupByNodeAndState(parts)]]
    /\ UNCHANGED <<transferLog, detail, told, today, opened, failed>>

\* AddNodeServiceEvent for every row; its errors are logged. Without a client of
\* the area's scheduler the first call panics.
AddNodeServiceEvents(r) ==
    /\ report[r].pc = "tell"
    /\ \/ /\ told' = [told EXCEPT ![report[r].trace] = @ + Cardinality(report[r].rows)]
          /\ report' = [report EXCEPT ![r].pc = "store"]
       \/ /\ report[r].rows # {}
          /\ report' = [report EXCEPT ![r] = NoReport]
          /\ UNCHANGED told
    /\ UNCHANGED <<transferLog, detail, today, opened, failed, received>>

\* trace_id is the primary key of the details: there is room for one.
Conflict(t, rows) == rows # {} /\ (Cardinality(rows) > 1 \/ detail[t] # {})

\* InsertOrUpdateAssetTransferLog: one transaction writes all of the row but the
\* time at which it was created, and the details.
InsertOrUpdateAssetTransferLog(r) ==
    LET t == report[r].trace
        day == IF transferLog[t] = NoRow THEN today ELSE transferLog[t].day
    IN  /\ report[r].pc = "store"
        /\ ~Conflict(t, report[r].rows)
        /\ transferLog' = [transferLog EXCEPT ![t] =
             [claim |-> report[r].claim, day |-> day, rows |-> report[r].rows]]
        /\ opened' = [opened EXCEPT ![t] = IF @ = Never THEN today ELSE @]
        /\ detail' = [detail EXCEPT ![t] = @ \cup report[r].rows]
        /\ report' = [report EXCEPT ![r] = NoReport]
        /\ UNCHANGED <<told, today, failed, received>>

\* The transaction fails and is rolled back; the client is told.
Rollback(r) ==
    /\ report[r].pc = "store"
    /\ failed' = failed \cup {report[r].trace}
    /\ report' = [report EXCEPT ![r] = NoReport]
    /\ UNCHANGED <<transferLog, detail, told, today, opened, received>>

Next ==
    \/ NextDay
    \/ \E t \in Traces, user \in Users : GetUploadInfo(t, user)
    \/ \E t \in Traces : UploadTempFileCar(t)
    \/ \E r \in Reports :
         \/ \E t \in Traces, claim \in Claims, parts \in Bodies : Receive(r, t, claim, parts)
         \/ AddNodeServiceEvents(r)
         \/ InsertOrUpdateAssetTransferLog(r)
         \/ Rollback(r)

Spec == Init /\ [][Next]_transferVars
-----------------------------------------------------------------------------
(* The statistics.                                                         *)

StatsOf(traces) ==
    [type \in Types |->
        LET those == {t \in traces : transferLog[t].claim.type = type}
        IN  [total |-> Cardinality(those),
             success |-> Cardinality({t \in those : transferLog[t].claim.state = Success}),
             failure |-> Cardinality({t \in those : transferLog[t].claim.state = Failure})]]

GetComprehensiveStatsInPeriod(start, end) ==
    StatsOf({t \in Stored : transferLog[t].day \in start .. end})

\* An empty name asks for all users.
GetComprehensiveStatsInPeriodByUser(start, end, user) ==
    StatsOf({t \in Stored : /\ transferLog[t].day \in start .. end
                            /\ user \in {NoUser, transferLog[t].claim.user}})

GetComprehensiveStatsInPeriodByUserGroupByDay(start, end, user) ==
    [d \in start .. end |->
        StatsOf({t \in Stored : /\ transferLog[t].day = d
                                /\ user \in {NoUser, transferLog[t].claim.user}})]
-----------------------------------------------------------------------------
(* Properties.                                                             *)

\* A trace counts once, in the period in which it was opened, however often and
\* however late it is reported; a user's days add up to the user's statistics.
CountedWhereOpened ==
    /\ \A first, last \in Days :
         LET stats == GetComprehensiveStatsInPeriod(first, last)
         IN  stats["upload"].total + stats["download"].total
               = Cardinality({t \in Traces : opened[t] \in first .. last})
    /\ \A user \in Users \cup {NoUser}, type \in Types :
         MapThenSumSet(
             LAMBDA d : GetComprehensiveStatsInPeriodByUserGroupByDay(0, LastDay, user)[d][type].success,
             Days)
           = GetComprehensiveStatsInPeriodByUser(0, LastDay, user)[type].success

\* A report is stored with its details or not at all, and nothing is stored that
\* no scheduler was told; unless a report has failed, it was told once.
ReportsAreWhole ==
    \A t \in Traces :
        /\ t \in Stored /\ transferLog[t].rows # {} => detail[t] = transferLog[t].rows
        /\ Cardinality(detail[t]) <= told[t]
        /\ t \notin failed /\ ~UnderWay(t) => told[t] = Cardinality(detail[t])

=============================================================================
