------------------------------- MODULE Jobs --------------------------------
(***************************************************************************)
(* The work that goes on in the background, with the fairness of its       *)
(* loops, side by side: a behaviour picks one service and the others rest. *)
(* What a constant means is said in the module that declares it.           *)
(***************************************************************************)
EXTENDS Integers, Sequences, FiniteSets

CONSTANTS Users, Hashes, Areas, Nobody, Workers, Slots, Bounds
ASSUME SyncAssumption == IsFiniteSet(Slots) /\ Bounds \subseteq Nat \X Nat
VARIABLES area, rec, list, req, job, areaReport, sent, errors, first, removed, lost
syncVars == <<area, rec, list, req, job, areaReport, sent, errors, first, removed, lost>>
AY == INSTANCE AreaSync WITH report <- areaReport

CONSTANTS Processes, NoProcess, Runs, NoRun, Counts, MaxPages, QueueSize
ASSUME FetchAssumption == Counts \subseteq Nat /\ MaxPages \in Nat /\ QueueSize \in Nat
VARIABLES locker, schedulers, run, queue, handler, unsummed, alive, expired
fetchVars == <<locker, schedulers, run, queue, handler, unsummed, alive, expired>>
SF == INSTANCE StatFetch

CONSTANTS Assets, Reports, MaxRetry, MaxNotices, MaxReports
ASSUME NoticeAssumption == MaxRetry \in Nat
VARIABLES file, transferLog, report, notices, heard, unsent, reports
noticeVars == <<file, transferLog, report, notices, heard, unsent, reports>>
TN == INSTANCE TenantNotify WITH Files <- Assets

CONSTANTS Managers, Lifetime, Renewal, MaxRefusals
ASSUME TokenAssumption == Lifetime \in Nat
VARIABLES kuberToken, kuberTokenLock, token, manager, started, refusals
tokenVars == <<kuberToken, kuberTokenLock, token, manager, started, refusals>>
KT == INSTANCE KubeToken
-----------------------------------------------------------------------------
VARIABLE service

ServiceNames == {"sync", "fetch", "tenant", "token"}

jobVars == <<service, syncVars, fetchVars, noticeVars, tokenVars>>

Init ==
    /\ service \in ServiceNames
    /\ AY!Init /\ SF!Init /\ TN!Init /\ KT!Init
    /\ service # "sync" => errors = 0   \* one start for each of the others

\* The next step of one service; the others rest.
Next ==
    /\ UNCHANGED service
    /\ IF service = "sync" THEN AY!Next ELSE UNCHANGED syncVars
    /\ IF service = "fetch" THEN SF!Next ELSE UNCHANGED fetchVars
    /\ IF service = "tenant" THEN TN!Next ELSE UNCHANGED noticeVars
    /\ IF service = "token" THEN KT!Next ELSE UNCHANGED tokenVars

\* At the start none of the actions that are fair is enabled, so that a service
\* at rest owes no step.
Spec ==
    /\ Init /\ [][Next]_jobVars
    /\ AY!Fairness /\ SF!Fairness /\ TN!Fairness /\ KT!Fairness
-----------------------------------------------------------------------------
(* The properties of the services, under their names.                      *)

\* The type invariants.
TypeOK == AY!TypeOK /\ SF!TypeOK /\ TN!TypeOK /\ KT!TypeOK

\* A file is marked as synchronised only where a scheduler has it.
FlagsAreEarned == AY!FlagsAreEarned

\* What has to be copied is remembered somewhere.
SyncNeverForgotten == AY!SyncNeverForgotten

\* A file reaches every area.
SyncCompletes == AY!SyncCompletes

\* A round of statistics that has written nodes is summed up.
RoundsAreSummed == SF!RoundsAreSummed

\* The tenant hears of an upload and of a deletion.
TenantHears == TN!TenantHears

\* A process without a token to KubeSphere gets one.
TokenRecovers == KT!TokenRecovers

=============================================================================
