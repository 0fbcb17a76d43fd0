---------------------------- MODULE TenantNotify ----------------------------
(***************************************************************************)
(* What a tenant hears of the files of its users: report/transfer and the  *)
(* end of delete_asset of src/api/events.go queue notices, the tenant      *)
(* server of src/job delivers them and tries again when the tenant does    *)
(* not answer "success".  A file that goes with its group goes silently.   *)
(*                                                                         *)
(* Every file is one with an ExtraID, of a user whose tenant wants to be   *)
(* notified; of any other file nothing is queued.  A file has one life.    *)
(***************************************************************************)
EXTENDS Integers, Sequences

CONSTANTS
    Files,               \* user assets
    Reports,             \* requests under way: transfer reports and deletions
    MaxRetry,            \* asynq.MaxRetry, 8 in the code
    MaxNotices, MaxReports  \* bounds on tasks queued and on requests received

VARIABLES
    file,                \* the row of user_asset: "none", "there", deleted by its
                         \* owner ("deleted") or gone with its group ("dropped")
    transferLog,         \* asset_transfer_log.state of the file's trace
    report,              \* requests between their statements
    notices,             \* asynq tasks, in the order in which they were queued
    heard,               \* the notices the tenant has received of a file
    unsent,              \* notices lost before the queue
    reports
noticeVars == <<file, transferLog, report, notices, heard, unsent, reports>>

NoReport == [pc |-> "none"]
Kinds == {"upload", "delete"}
Notices == [kind : Kinds, of : Files, tried : 0 .. MaxRetry,
            state : {"pending", "completed", "archived"}]

TypeOK ==
    /\ file \in [Files -> {"none", "there", "deleted", "dropped"}]
    /\ transferLog \in [Files -> {"none", "success", "failure"}]
    /\ notices \in Seq(Notices)
    /\ heard \in [Files -> SUBSET Kinds]
    /\ unsent \subseteq Files \X Kinds

Init ==
    /\ file = [f \in Files |-> "none"]
    /\ transferLog = [f \in Files |-> "none"]
    /\ report = [r \in Reports |-> NoReport]
    /\ notices = <<>>
    /\ heard = [f \in Files |-> {}]
    /\ unsent = {}
    /\ reports = 0

\* The row appears with its areas and goes with the last of them.
AddAsset(f) ==
    /\ file[f] = "none"
    /\ file' = [file EXCEPT ![f] = "there"]
    /\ UNCHANGED <<transferLog, report, notices, heard, unsent, reports>>

\* An error of the client is logged or dropped: the notice is lost.
Enqueue(f, kind) ==
    \/ /\ Len(notices) < MaxNotices
       /\ notices' = Append(notices, [kind |-> kind, of |-> f, tried |-> 0, state |-> "pending"])
       /\ UNCHANGED unsent
    \/ /\ unsent' = unsent \cup {<<f, kind>>}
       /\ UNCHANGED notices
-----------------------------------------------------------------------------
(* Handlers.                                                               *)

\* InsertOrUpdateAssetTransferLog overwrites the state of an earlier report of
\* the trace; GetUserAsset decides whether a notice is due.
AssetTransferReport(r, f, state) ==
    /\ report[r] = NoReport
    /\ reports < MaxReports
    /\ reports' = reports + 1
    /\ transferLog' = [transferLog EXCEPT ![f] = state]
    /\ report' = IF state = "success" /\ file[f] = "there"
                 THEN [report EXCEPT ![r] = [pc |-> "notify", of |-> f]]
                 ELSE report
    /\ UNCHANGED <<file, notices, heard, unsent>>

\* areaIDs[0]: without an area the handler panics, and the recovery of gin
\* answers in its place.
EnqueueAssetUploadNotify(r) ==
    /\ report[r].pc = "notify"
    /\ IF file[report[r].of] = "there"
       THEN Enqueue(report[r].of, "upload")
       ELSE UNCHANGED <<notices, unsent>>
    /\ report' = [report EXCEPT ![r] = NoReport]
    /\ UNCHANGED <<file, transferLog, heard, reports>>

\* DeleteAssetHandler has read the asset and its areas before it deletes any.
DeleteAssetHandler(r, f) ==
    /\ report[r] = NoReport
    /\ reports < MaxReports
    /\ file[f] = "there"
    /\ reports' = reports + 1
    /\ report' = [report EXCEPT ![r] = [pc |-> "delete", of |-> f]]
    /\ UNCHANGED <<file, transferLog, notices, heard, unsent>>

\* All areas are deleted, and with them the row, or only some of them; what
\* another request or task has deleted meanwhile is no error. After an error the
\* handler answers and notifies nobody.
DelAssetAndUpdateSize(r) ==
    /\ report[r].pc = "delete"
    /\ \/ /\ report' = [report EXCEPT ![r].pc = "callback"]
          /\ \/ /\ file[report[r].of] = "there"
                /\ file' = [file EXCEPT ![report[r].of] = "deleted"]
             \/ UNCHANGED file
       \/ report' = [report EXCEPT ![r] = NoReport] /\ UNCHANGED file
    /\ UNCHANGED <<transferLog, notices, heard, unsent, reports>>

\* The notice is the same whether the file is gone or was deleted in part.
EnqueueAssetDeleteNotify(r) ==
    /\ report[r].pc = "callback"
    /\ Enqueue(report[r].of, "delete")
    /\ report' = [report EXCEPT ![r] = NoReport]
    /\ UNCHANGED <<file, transferLog, heard, reports>>

\* The task that deletes a group deletes the files in it and notifies nobody.
DeleteAssetByGroup(f) ==
    /\ file[f] = "there"
    /\ file' = [file EXCEPT ![f] = "dropped"]
    /\ UNCHANGED <<transferLog, report, notices, heard, unsent, reports>>
-----------------------------------------------------------------------------
(* The tenant server.                                                      *)

\* mutant: a notice that fails is not tried again
RetryNever(i) == notices' = [notices EXCEPT ![i].state = "completed"]

\* The task fails and goes back into the queue, or into the archive.
Retry(i) ==
    notices' = IF notices[i].tried < MaxRetry
               THEN [notices EXCEPT ![i].tried = @ + 1]
               ELSE [notices EXCEPT ![i].state = "archived"]

\* Whatever goes wrong before or after the tenant has read the notice is an error
\* of the task.
Deliver(i) ==
    /\ notices[i].state = "pending"
    /\ \/ /\ notices' = [notices EXCEPT ![i].state = "completed"]
          /\ heard' = [heard EXCEPT ![notices[i].of] = @ \cup {notices[i].kind}]
       \/ /\ Retry(i)
          /\ \/ UNCHANGED heard
             \/ heard' = [heard EXCEPT ![notices[i].of] = @ \cup {notices[i].kind}]
    /\ UNCHANGED <<file, transferLog, report, unsent, reports>>

\* The notice of an upload carries a link to the file or, when the scheduler has
\* given none within five seconds, an empty one.
AssetUploadNotify(i) == notices[i].kind = "upload" /\ Deliver(i)

AssetDeleteNotify(i) == notices[i].kind = "delete" /\ Deliver(i)
-----------------------------------------------------------------------------
Work == \/ \E r \in Reports : \/ EnqueueAssetUploadNotify(r)
                               \/ DelAssetAndUpdateSize(r) \/ EnqueueAssetDeleteNotify(r)
        \/ \E i \in DOMAIN notices : AssetUploadNotify(i) \/ AssetDeleteNotify(i)

Next ==
    \/ \E f \in Files : \/ AddAsset(f)
                        \/ DeleteAssetByGroup(f)
                        \/ \E r \in Reports : DeleteAssetHandler(r, f)
                        \/ \E r \in Reports, state \in {"success", "failure"} :
                             AssetTransferReport(r, f, state)
    \/ Work

\* Handlers go on, and the tenant server works as long as there are tasks.
Fairness == WF_noticeVars(Work)
Spec == Init /\ [][Next]_noticeVars /\ Fairness
-----------------------------------------------------------------------------
(* Properties.                                                             *)

Archived(f, kind) ==
    \E i \in DOMAIN notices :
        notices[i].of = f /\ notices[i].kind = kind /\ notices[i].state = "archived"

Heard(f, kind) == kind \in heard[f] \/ Archived(f, kind)

\* A file whose owner has deleted it, and a report of success for a file that is
\* there, each come to the tenant's ears as what they are, unless that very
\* notice could not be queued or was tried nine times, or the file was gone
\* before the report read its areas. Every notice that was queued is delivered,
\* also those of a deletion in part. In which order the two kinds arrive is not
\* promised: the queue is no queue for retries. Of a file that goes with its
\* group the tenant hears nothing.
TenantHears ==
    \A f \in Files :
        /\ (file[f] = "deleted") ~> (Heard(f, "delete") \/ <<f, "delete">> \in unsent)
        /\ (\E r \in Reports : report[r] = [pc |-> "notify", of |-> f])
             ~> (Heard(f, "upload") \/ <<f, "upload">> \in unsent \/ file[f] # "there")
        /\ \A kind \in Kinds :
             (\E i \in DOMAIN notices : notices[i].of = f /\ notices[i].kind = kind)
               ~> Heard(f, kind)

=============================================================================
