---------------------------- MODULE SharedAssets ----------------------------
(***************************************************************************)
(* What happens to one file, and to one group, of a user when others open  *)
(* them: the limit on visits, the limit on traffic, the number of          *)
(* downloads and its way from Redis into asset_storage_hour every ten      *)
(* minutes (src/api/events.go, src/api/common.go, src/job/cron.go).        *)
(*                                                                         *)
(* Visits of a file are counted before the count is read; those of a group *)
(* are read first. Errors of the counting statements are ignored.          *)
(***************************************************************************)
EXTENDS Integers, FiniteSets

CONSTANTS
    Visitors, Drains,     \* requests, and runs of syncDashboard, at a time
    EnableVIP,            \* the owner's users.enable_vip
    MaxVisits,            \* maxCountOfVisitShareLink
    MaxTotalFlow, NoFlow, \* the traffic the owner may use, which is more for a
                          \* VIP or a tenant's user; nothing cached
    MaxBegun, MaxIgnored  \* bounds on visits and drains begun, and errors ignored

VARIABLES
    visits,               \* asset_visit_count.count
    groupVisits,          \* user_asset_group.visit_count
    traffic,              \* SUM(total_traffic) of the owner's hours
    flowCache,            \* the same in Redis, for two minutes
    downloads,            \* the counter of downloads in Redis
    recorded,             \* SUM(download_count)
    visitor, drain,       \* local variables
    granted,              \* history: files opened and groups entered
    served,               \* history: URLs given out
    begun, ignored, overlapped
shareVars == <<visits, groupVisits, traffic, flowCache, downloads, recorded, visitor,
               drain, granted, served, begun, ignored, overlapped>>

Away == [pc |-> "away"]
Resting == [pc |-> "resting"]

TypeOK ==
    /\ {visits, groupVisits, downloads, recorded, served, begun, ignored} \subseteq Nat
    /\ traffic \in 0 .. MaxTotalFlow
    /\ flowCache \in 0 .. MaxTotalFlow \cup {NoFlow}
    /\ granted \in [{"file", "group"} -> Nat]
    /\ overlapped \in BOOLEAN

Init ==
    /\ visits = 0 /\ groupVisits = 0
    /\ traffic = 0 /\ flowCache = NoFlow
    /\ downloads = 0 /\ recorded = 0
    /\ visitor = [v \in Visitors |-> Away]
    /\ drain = [d \in Drains |-> Resting]
    /\ granted = [what \in {"file", "group"} |-> 0]
    /\ served = 0 /\ begun = 0 /\ ignored = 0
    /\ overlapped = FALSE

Goes(v, local) == visitor' = [visitor EXCEPT ![v] = local]
Fails == ignored < MaxIgnored /\ ignored' = ignored + 1
-----------------------------------------------------------------------------
(* A visitor of the file.                                                  *)

\* checkUserTotalFlow: the cached sum, or the sum itself which is then cached.
Flow == IF flowCache = NoFlow THEN traffic ELSE flowCache
FlowLeft == Flow < MaxTotalFlow

\* Both handlers ask for the traffic first, which caches it; one that finds the
\* limit reached or fails on the way ends there.
Arrive(v, steps) ==
    /\ visitor[v] = Away
    /\ begun < MaxBegun
    /\ begun' = begun + 1
    /\ \/ /\ flowCache' = Flow
          /\ \/ FlowLeft /\ \E step \in steps : Goes(v, [pc |-> step])
             \/ UNCHANGED visitor
       \/ UNCHANGED <<flowCache, visitor>>
    /\ UNCHANGED <<visits, groupVisits, traffic, downloads, recorded, drain, granted,
                   served, ignored, overlapped>>

\* A visitor of the file itself is counted, one of its group is not.
OpenAsset(v) == Arrive(v, {"count", "trace"})

\* The owner is not counted, and a trace is opened only when it is asked for.
ShareAssets(v) == Arrive(v, {"trace", "share"})

AddVisitCount(v) ==
    /\ visitor[v].pc = "count"
    /\ \/ visits' = visits + 1 /\ UNCHANGED ignored
       \/ Fails /\ UNCHANGED visits
    /\ Goes(v, [pc |-> "read"])
    /\ UNCHANGED <<groupVisits, traffic, flowCache, downloads, recorded, drain,
                   granted, served, begun, overlapped>>

Enter(v) ==
    /\ Goes(v, [pc |-> "trace"])
    /\ granted' = [granted EXCEPT !["file"] = @ + 1]

\* An error reads as no visits at all.
GetVisitCount(v) ==
    /\ visitor[v].pc = "read"
    /\ \/ /\ EnableVIP \/ visits <= MaxVisits
          /\ Enter(v)
          /\ UNCHANGED ignored
       \/ /\ ~EnableVIP
          /\ visits > MaxVisits
          /\ Goes(v, Away)
          /\ UNCHANGED <<granted, ignored>>
       \/ Fails /\ Enter(v)
    /\ UNCHANGED <<visits, groupVisits, traffic, flowCache, downloads, recorded,
                   drain, served, begun, overlapped>>

\* A row of asset_transfer_log, or an error that ends the request.
NewLogTrace(v) ==
    /\ visitor[v].pc = "trace"
    /\ \E step \in {"share", "away"} : Goes(v, [pc |-> step])
    /\ UNCHANGED <<visits, groupVisits, traffic, flowCache, downloads, recorded, drain,
                   granted, served, begun, ignored, overlapped>>

\* ShareAssetV2 of the scheduler, and IncrAssetHourDownload when it succeeds.
ShareAsset(v) ==
    /\ visitor[v].pc = "share"
    /\ \/ /\ served' = served + 1
          /\ \/ downloads' = downloads + 1 /\ UNCHANGED ignored
             \/ Fails /\ UNCHANGED downloads
       \/ UNCHANGED <<served, downloads, ignored>>
    /\ Goes(v, Away)
    /\ UNCHANGED <<visits, groupVisits, traffic, flowCache, recorded, drain, granted,
                   begun, overlapped>>
-----------------------------------------------------------------------------
(* A visitor of the group.                                                 *)

\* getAssetStatus reads the count of the group.
GetAssetStatus(v) ==
    /\ visitor[v] = Away
    /\ begun < MaxBegun
    /\ begun' = begun + 1
    /\ EnableVIP \/ groupVisits < MaxVisits
    /\ granted' = [granted EXCEPT !["group"] = @ + 1]
    /\ Goes(v, [pc |-> "group"])
    /\ UNCHANGED <<visits, groupVisits, traffic, flowCache, downloads, recorded,
                   drain, served, ignored, overlapped>>

AddAssetGroupVisitCount(v) ==
    /\ visitor[v].pc = "group"
    /\ \/ groupVisits' = groupVisits + 1 /\ UNCHANGED ignored
       \/ Fails /\ UNCHANGED groupVisits
    /\ Goes(v, Away)
    /\ UNCHANGED <<visits, traffic, flowCache, downloads, recorded, drain, granted,
                   served, begun, overlapped>>
-----------------------------------------------------------------------------
(* The dashboard.                                                          *)

FlowExpires ==
    /\ flowCache # NoFlow
    /\ flowCache' = NoFlow
    /\ UNCHANGED <<visits, groupVisits, traffic, downloads, recorded, visitor, drain,
                   granted, served, begun, ignored, overlapped>>

\* syncDashboard has asked the schedulers: of the areas' figures for a file the
\* largest is kept (storeTfOrBw). The lock lasts eight seconds and is not renewed.
SyncDashboard(d) ==
    /\ drain[d] = Resting
    /\ begun < MaxBegun
    /\ begun' = begun + 1
    /\ \E areas \in SUBSET (0 .. 1) \ {{}} : \E most \in areas :
         /\ \A t \in areas : t <= most
         /\ drain' = [drain EXCEPT ![d] = [pc |-> "get", traffic |-> most]]
    /\ overlapped' = (overlapped \/ \E e \in Drains \ {d} : drain[e] # Resting)
    /\ UNCHANGED <<visits, groupVisits, traffic, flowCache, downloads, recorded,
                   visitor, granted, served, ignored>>

\* GetAssetHourDownload: GET, then DEL.
GetDownloads(d) ==
    /\ drain[d].pc = "get"
    /\ drain' = [drain EXCEPT ![d] =
                   [pc |-> "del", traffic |-> drain[d].traffic, count |-> downloads]]
    /\ UNCHANGED <<visits, groupVisits, traffic, flowCache, downloads, recorded,
                   visitor, granted, served, begun, ignored, overlapped>>

\* mutant: the counter is left where it is
DelDownloadsNot(d) ==
    /\ drain[d].pc = "del"
    /\ drain' = [drain EXCEPT ![d].pc = "store"]
    /\ UNCHANGED <<visits, groupVisits, traffic, flowCache, downloads, recorded,
                   visitor, granted, served, begun, ignored, overlapped>>

DelDownloads(d) ==
    /\ drain[d].pc = "del"
    /\ downloads' = 0
    /\ drain' = [drain EXCEPT ![d].pc = "store"]
    /\ UNCHANGED <<visits, groupVisits, traffic, flowCache, recorded, visitor,
                   granted, served, begun, ignored, overlapped>>

\* AddAssetHourStorages, or an error that loses what was taken.
AddAssetHourStorages(d) ==
    /\ drain[d].pc = "store"
    /\ \/ /\ recorded' = recorded + drain[d].count
          /\ traffic' = IF traffic + drain[d].traffic > MaxTotalFlow THEN MaxTotalFlow
                        ELSE traffic + drain[d].traffic
       \/ UNCHANGED <<recorded, traffic>>
    /\ drain' = [drain EXCEPT ![d] = Resting]
    /\ UNCHANGED <<visits, groupVisits, flowCache, downloads, visitor, granted,
                   served, begun, ignored, overlapped>>

Next ==
    \/ \E v \in Visitors : \/ OpenAsset(v) \/ ShareAssets(v) \/ AddVisitCount(v) \/ GetVisitCount(v)
                           \/ NewLogTrace(v) \/ ShareAsset(v) \/ GetAssetStatus(v)
                           \/ AddAssetGroupVisitCount(v)
    \/ \E d \in Drains : \/ SyncDashboard(d) \/ GetDownloads(d) \/ DelDownloads(d)
                         \/ AddAssetHourStorages(d)
    \/ FlowExpires

Spec == Init /\ [][Next]_shareVars
-----------------------------------------------------------------------------
(* Properties.                                                             *)

\* However visitors overlap, a file of an owner who is not a VIP is opened no
\* more often than the limit allows, and a group as many times more as there are
\* other visitors between reading and counting; each statement whose error is
\* ignored may let one more in.
OpensBounded ==
    ~EnableVIP =>
        /\ granted["file"] <= MaxVisits + ignored
        /\ granted["group"] <= MaxVisits + Cardinality(Visitors) - 1 + ignored

\* No download is recorded that was not served, unless two drains have read the
\* counter before either of them has deleted it. Losing downloads, between GET
\* and DEL or with a failed INSERT, is what the code does.
DownloadsRecorded ==
    overlapped \/ recorded <= served

=============================================================================
