----------------------------- MODULE TempFiles ------------------------------
(***************************************************************************)
(* One file uploaded without logging in: uploading, sharing, downloading   *)
(* (src/api/temp_storage.go), its row in temp_asset, the areas that offer  *)
(* it (Redis, for a day) and the synchronisation of the other areas        *)
(* (syncUnLoginAsset of src/job/cron.go).                                  *)
(*                                                                         *)
(* The counters are read before they are incremented, and PushAreaIDs      *)
(* removes an entry that is already queued instead of leaving it there.    *)
(***************************************************************************)
EXTENDS Integers, FiniteSets

CONSTANTS
    FileAreas, FirstArea,          \* the areas an upload asks for, nearest first
    FileRequests, Syncs,           \* requests, and goroutines of the cron job
    MaxShares, MaxDownloads,       \* maxTempAssetShareCount, ...DownloadCount
    MaxFileSteps                   \* bound on the requests and rounds begun

VARIABLES
    tempAsset,     \* the row of temp_asset
    offered,       \* the areas marked IsSync in Redis
    unsynced,      \* whether the file is in the list of areas to synchronise
    stored,        \* areas whose scheduler holds the file
    fileRequest, syncJob,
    steps
tempVars == <<tempAsset, offered, unsynced, stored, fileRequest, syncJob, steps>>

NoRow == [exists |-> FALSE, shares |-> 0, downloads |-> 0]
Waiting == [pc |-> "waiting"]

TypeOK ==
    /\ tempAsset \in [exists : BOOLEAN, shares : 0 .. MaxShares + Cardinality(FileRequests),
                      downloads : 0 .. MaxDownloads + Cardinality(FileRequests)]
    /\ offered \subseteq FileAreas
    /\ unsynced \in BOOLEAN
    /\ stored \subseteq FileAreas

Init ==
    /\ tempAsset = NoRow
    /\ offered = {}
    /\ unsynced = FALSE
    /\ stored = {}
    /\ fileRequest = [r \in FileRequests |-> Waiting]
    /\ syncJob = [j \in Syncs |-> Waiting]
    /\ steps = 0

Proceed(r, step) == fileRequest' = [fileRequest EXCEPT ![r] = [pc |-> step]]
Begin == steps < MaxFileSteps /\ steps' = steps + 1

\* GetTempAssetInfo, and the counters it is asked for.
ShareAllowed == tempAsset.exists => tempAsset.shares < MaxShares
DownloadAllowed == tempAsset.exists /\ tempAsset.downloads < MaxDownloads
-----------------------------------------------------------------------------
(* Requests.                                                               *)

\* A file that is known and still offered is only counted.
UploadTempFile(r) ==
    /\ fileRequest[r] = Waiting
    /\ Begin
    /\ ShareAllowed
    /\ Proceed(r, IF tempAsset.exists /\ offered # {} THEN "share" ELSE "create")
    /\ UNCHANGED <<tempAsset, offered, unsynced, stored, syncJob>>

\* The scheduler of the first area takes the file, or the request fails. Whether
\* it is really uploaded is the visitor's affair.
CreateTempAsset(r) ==
    /\ fileRequest[r].pc = "create"
    /\ \/ Proceed(r, "push")
       \/ Proceed(r, "waiting")
    /\ UNCHANGED <<tempAsset, offered, unsynced, stored, syncJob, steps>>

\* PushAreaIDs: LREM, and LPUSH only if nothing was removed.
PushAreaIDs(r) ==
    /\ fileRequest[r].pc = "push"
    /\ unsynced' = ~unsynced
    /\ Proceed(r, "offer")
    /\ UNCHANGED <<tempAsset, offered, stored, syncJob, steps>>

\* SetUnloginAssetInfo: the first area counts as synchronised.
SetUnloginAssetInfo(r) ==
    /\ fileRequest[r].pc = "offer"
    /\ \/ offered' = {FirstArea}
       \/ UNCHANGED offered
    /\ Proceed(r, "share")
    /\ UNCHANGED <<tempAsset, unsynced, stored, syncJob, steps>>

\* ShareTempFile: the row, the areas that offer the file, and a scheduler that
\* is asked up to five times.
ShareTempFile(r) ==
    /\ fileRequest[r] = Waiting
    /\ Begin
    /\ tempAsset.exists
    /\ ShareAllowed
    /\ offered # {}
    /\ \E step \in {"share", "waiting"} : Proceed(r, step)
    /\ UNCHANGED <<tempAsset, offered, unsynced, stored, syncJob>>

\* DownloadTempFile. A scheduler that answers with an error of its own is asked
\* again without end: the retries are not counted here.
DownloadTempFile(r) ==
    /\ fileRequest[r] = Waiting
    /\ Begin
    /\ DownloadAllowed
    /\ offered # {}
    /\ Proceed(r, "download")
    /\ UNCHANGED <<tempAsset, offered, unsynced, stored, syncJob>>

DownloadFails(r) ==
    /\ fileRequest[r].pc = "download"
    /\ Proceed(r, "waiting")
    /\ UNCHANGED <<tempAsset, offered, unsynced, stored, syncJob, steps>>

\* The first share of a row is not counted; an error loses the count.
AddTempAssetShareCount(r) ==
    /\ fileRequest[r].pc = "share"
    /\ \/ tempAsset' = IF tempAsset.exists THEN [tempAsset EXCEPT !.shares = @ + 1]
                       ELSE [NoRow EXCEPT !.exists = TRUE]
       \/ UNCHANGED tempAsset
    /\ Proceed(r, "waiting")
    /\ UNCHANGED <<offered, unsynced, stored, syncJob, steps>>

AddTempAssetDownloadCount(r) ==
    /\ fileRequest[r].pc = "download"
    /\ tempAsset' = [tempAsset EXCEPT !.downloads = @ + 1]
    /\ Proceed(r, "waiting")
    /\ UNCHANGED <<offered, unsynced, stored, syncJob, steps>>
-----------------------------------------------------------------------------
(* The cron job, and what happens outside.                                 *)

\* syncUnLoginAsset: the first area has the file.
SyncUnLoginAsset(j) ==
    /\ syncJob[j] = Waiting
    /\ Begin
    /\ unsynced
    /\ FirstArea \in stored
    /\ syncJob' = [syncJob EXCEPT ![j] = [pc |-> "ask"]]
    /\ UNCHANGED <<tempAsset, offered, unsynced, stored, fileRequest>>

\* SyncAreaIDs: the areas that could be asked and hold the file ten seconds
\* later, with the first one added.
SyncAreaIDs(j) ==
    /\ syncJob[j].pc = "ask"
    /\ \E areas \in SUBSET (stored \ {FirstArea}) :
         syncJob' = [syncJob EXCEPT ![j] = [pc |-> "set", areas |-> areas \cup {FirstArea}]]
    /\ UNCHANGED <<tempAsset, offered, unsynced, stored, fileRequest, steps>>

SetSynced(j) ==
    /\ syncJob[j].pc = "set"
    /\ \/ offered' = syncJob[j].areas
       \/ UNCHANGED offered
    /\ syncJob' = [syncJob EXCEPT ![j] = [pc |-> "del"]]
    /\ UNCHANGED <<tempAsset, unsynced, stored, fileRequest, steps>>

DelAreaIDs(j) ==
    /\ syncJob[j].pc = "del"
    /\ unsynced' = FALSE
    /\ syncJob' = [syncJob EXCEPT ![j] = Waiting]
    /\ UNCHANGED <<tempAsset, offered, stored, fileRequest, steps>>

\* The visitor uploads to the first area; another one pulls the file from it
\* when a job has asked for that.
Store(a) ==
    /\ a \notin stored
    /\ \/ a = FirstArea /\ tempAsset.exists
       \/ FirstArea \in stored /\ \E j \in Syncs : syncJob[j].pc = "ask"
    /\ stored' = stored \cup {a}
    /\ UNCHANGED <<tempAsset, offered, unsynced, fileRequest, syncJob, steps>>

\* A day is over: the schedulers drop the file some time after Redis has.
Expire ==
    /\ offered # {}
    /\ offered' = {}
    /\ UNCHANGED <<tempAsset, unsynced, stored, fileRequest, syncJob, steps>>

Next ==
    \/ \E r \in FileRequests :
         \/ UploadTempFile(r) \/ CreateTempAsset(r) \/ PushAreaIDs(r)
         \/ SetUnloginAssetInfo(r) \/ ShareTempFile(r) \/ DownloadTempFile(r)
         \/ DownloadFails(r) \/ AddTempAssetShareCount(r) \/ AddTempAssetDownloadCount(r)
    \/ \E j \in Syncs : \/ SyncUnLoginAsset(j) \/ SyncAreaIDs(j) \/ SetSynced(j)
                        \/ DelAreaIDs(j)
    \/ \E a \in FileAreas : Store(a)
    \/ Expire

Spec == Init /\ [][Next]_tempVars
-----------------------------------------------------------------------------
(* Properties.                                                             *)

\* The counters pass their limits by no more than the other requests that read
\* them at the same time.
CountersBounded ==
    LET others == Cardinality(FileRequests) - 1
    IN  /\ tempAsset.shares <= MaxShares + others
        /\ tempAsset.downloads <= MaxDownloads + others

\* The comment of PushAreaIDs says that an entry is pushed "if it is not there";
\* so an entry leaves the list only when the job has synchronised its areas.
SyncStaysQueued ==
    [][unsynced /\ ~unsynced' => \E j \in Syncs : syncJob[j].pc = "del"]_tempVars

\* An area other than the first offers the file only when it holds it.
OfferedWhereStored == offered \subseteq stored \cup {FirstArea}

=============================================================================
