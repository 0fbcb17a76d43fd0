----------------------------- MODULE IpfsImport -----------------------------
(* Import of files from IPFS (api/import.go, core/dao/sync.go, the cron job   *)
(* GetSyncIPFSRecords and the asynq task it queues).                          *)
EXTENDS Integers, FiniteSets

CONSTANTS
  Users, Cids, Areas,
  DefaultArea,    \* area of the scheduler that serves an unknown area
  MaxImports      \* bound on import requests

Blank == "blank"   \* area_id of a record: AddIPFSRecords does not write it

VARIABLES
  files,     \* user_asset: <<user, cid>>
  records,   \* sync_ipfs_record: <<user, cid>>, unique
  done,      \* those with status 1
  held,      \* schedulers: <<cid, area>> pulled by now
  pulling,   \* schedulers: <<cid, area>> being pulled
  asked,     \* history: <<user, cid>> the user has asked to import
  round,     \* GetSyncIPFSRecords: cids its query found, then the finished ones
  queue,     \* asynq: <<user, cid, name of the queue>>
  imports    \* number of imports so far

vars == <<files, records, done, held, pulling, asked, round, queue, imports>>

TypeOK ==
  /\ files \subseteq Users \X Cids
  /\ records \subseteq Users \X Cids /\ done \subseteq records
  /\ held \subseteq Cids \X Areas /\ pulling \subseteq Cids \X Areas
  /\ asked \subseteq Users \X Cids
  /\ round \in [at : {"idle", "ask", "finish"}, cids : SUBSET Cids]
  /\ queue \subseteq Users \X Cids \X {"default", "explorer", "tenant"}
  /\ imports \in 0 .. MaxImports

NoRound == [at |-> "idle", cids |-> {}]

Init ==
  /\ files \in SUBSET (Users \X Cids)
  /\ records = {} /\ done = {} /\ held = {} /\ pulling = {}
  /\ asked = {} /\ round = NoRound /\ queue = {} /\ imports = 0

\* dao.GetNoExistCIDs: every cid in user_asset that is not in the list.
GetNoExistCIDs(cids) == {c \in Cids : \E v \in Users : <<v, c>> \in files} \ cids

\* dao.AddIPFSRecords: INSERT IGNORE; without values it is no statement at all.
AddIPFSRecords(u, cids) == records' = records \cup {<<u, c>> : c \in cids}

SyncIPFSInfoByCIDs(u, cids, a) ==
  /\ imports < MaxImports /\ imports' = imports + 1
  /\ asked' = asked \cup ({u} \X cids)
  /\ \/ /\ pulling' = pulling \cup (cids \X {a})   \* PullAsset of all of them
        /\ LET ncids == GetNoExistCIDs(cids)
           IN  AddIPFSRecords(u, ncids) \/ UNCHANGED records
     \/ UNCHANGED <<pulling, records>>             \* no room, no scheduler
  /\ UNCHANGED <<files, done, held, round, queue>>

Pulled(c, a) ==
  /\ <<c, a>> \in pulling
  /\ pulling' = pulling \ {<<c, a>>}
  /\ held' = held \cup {<<c, a>>}
  /\ UNCHANGED <<files, records, done, asked, round, queue, imports>>

\* The cron job: the pending records of the last hour (all have a blank area,
\* so the scheduler of the default area is asked), ...
GetUnSyncIPFSRecords ==
  /\ round.at = "idle"
  /\ \E recent \in SUBSET (records \ done) :
       /\ recent # {}
       /\ round' = [at |-> "ask", cids |-> {r[2] : r \in recent}]
  /\ UNCHANGED <<files, records, done, held, pulling, asked, queue, imports>>

\* ... GetAssetRecordsWithCIDs, ...
GetAssetRecordsWithCIDs ==
  /\ round.at = "ask"
  /\ \/ round' = [at |-> "finish", cids |-> {c \in round.cids : <<c, DefaultArea>> \in held}]
     \/ round' = NoRound
  /\ UNCHANGED <<files, records, done, held, pulling, asked, queue, imports>>

\* ... a task for every record of a finished cid, and the status of those with
\* this area.
EnqueueIPFSRecord ==
  /\ round.at = "finish"
  /\ LET ready == {r \in records : r[2] \in round.cids}
     IN  /\ queue' = queue \cup {<<r[1], r[2], "default">> : r \in ready}
         /\ done' = done \cup ready
  /\ round' = NoRound
  /\ UNCHANGED <<files, records, held, pulling, asked, imports>>

\* StartAsynqServer: the queues that are served.
Served == {"explorer", "tenant"}

\* job.operateSyncIPFSRecord
OperateSyncIPFSRecord(t) ==
  /\ t[3] \in Served
  /\ files' = files \cup {<<t[1], t[2]>>}
  /\ queue' = queue \ {t}
  /\ UNCHANGED <<records, done, held, pulling, asked, round, imports>>

Next ==
  \/ \E u \in Users, cids \in SUBSET Cids \ {{}}, a \in Areas : SyncIPFSInfoByCIDs(u, cids, a)
  \/ \E c \in Cids, a \in Areas : Pulled(c, a)
  \/ GetUnSyncIPFSRecords \/ GetAssetRecordsWithCIDs \/ EnqueueIPFSRecord
  \/ \E t \in queue : OperateSyncIPFSRecord(t)

Spec == Init /\ [][Next]_vars

\* "GetNoExistCIDs gets the cids the user does not have": an import records
\* what the user has asked for, and nothing else.
RecordsWereAsked == records \subseteq asked
=============================================================================
