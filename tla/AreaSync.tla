------------------------------ MODULE AreaSync ------------------------------
(* How a file reaches the other areas (job/cron.go, job/common.go,           *)
(* core/oprds/redis.go): an upload pushes an entry to a Redis list, cron jobs *)
(* ask the schedulers to copy the file, and user_asset_area.is_sync follows   *)
(* what the schedulers report.                                                *)
EXTENDS Integers, FiniteSets

CONSTANTS
  Users, Hashes, Areas,
  Nobody,       \* the owner CreateAssetHandler leaves out of its entry
  Workers,      \* upload requests under way at one time
  Slots,        \* goroutines of syncUserScheduler under way at one time
  Bounds        \* a behaviour has at most so many uploads and failed calls,
                \* for one of these pairs (bound)

VARIABLES
  area,      \* user_asset_area.is_sync of each user, file and area
  rec,       \* schedulers: the asset record of a file in an area
  list,      \* sync_scheduler_list in Redis: how often it holds an entry
  req,       \* upload requests: position and local variables
  job,       \* goroutines of syncUserScheduler
  report,    \* getSyncSuccessAsset: hashes an area has reported
  sent,      \* number of uploads still to come
  errors,    \* number of failures still to come
  first,     \* history: areas files were uploaded to
  removed,   \* history: areas that have removed a file
  lost       \* history: files whose synchronisation something has disturbed

vars == <<area, rec, list, req, job, report, sent, errors, first, removed, lost>>

-----------------------------------------------------------------------------

Files == Users \X Hashes
Copies == Hashes \X Areas
Flags == {"none", "unsync", "sync"}
Owners == Users \cup {Nobody}
Record == [state : {"absent", "pulling", "ready"}, owner : Owners]
Entry == {e \in [u : Users, h : Hashes, a : Areas, o : Owners] : e.o \in {e.u, Nobody}}

Idle == [at |-> "idle"]
Upload == [at : {"create", "push", "add"}, e : Entry, missing : SUBSET Areas]
Job == [at : {"look", "query"}, e : Entry]
       \cup [at : {"sync", "update"}, e : Entry, todo : SUBSET Areas, done : SUBSET Areas]
       \cup [at : {"remove"}, e : Entry]
None == {Nobody}   \* no report

TypeOK ==
  /\ area \in [Files -> [Areas -> Flags]]
  /\ rec \in [Copies -> Record]
  /\ \A c \in Copies : rec[c].state = "absent" => rec[c].owner = Nobody
  /\ list \in [Entry -> Nat]
  /\ req \in [Workers -> {Idle} \cup Upload]
  /\ job \in [Slots -> {Idle} \cup Job]
  /\ report \in [Areas -> {None} \cup SUBSET Hashes]
  /\ sent \in Nat /\ errors \in Nat
  /\ first \in [Files -> SUBSET Areas]
  /\ removed \subseteq Copies
  /\ lost \subseteq Files

Absent == [state |-> "absent", owner |-> Nobody]

Init ==
  /\ area = [f \in Files |-> [a \in Areas |-> "none"]]
  /\ rec = [c \in Copies |-> Absent]
  /\ list = [e \in Entry |-> 0]
  /\ req = [w \in Workers |-> Idle]
  /\ job = [s \in Slots |-> Idle]
  /\ report = [a \in Areas |-> None]
  /\ \E b \in Bounds : sent = b[1] /\ errors = b[2]
  /\ first = [f \in Files |-> {}]
  /\ removed = {} /\ lost = {}

Error == errors > 0 /\ errors' = errors - 1
Disturb(u, h) == lost' = lost \cup {<<u, h>>}

\* dao.UpdateUnSyncAreaIDs
UpdateUnSyncAreaIDs(u, h, aids, flag) ==
  area' = [area EXCEPT ![<<u, h>>] =
             [a \in Areas |-> IF a \in aids /\ @[a] # "none" THEN flag ELSE @[a]]]

-----------------------------------------------------------------------------
(* An upload, as far as the areas are concerned *)

\* Areas without a row, and those whose scheduler reports the file removed.
GetUnSyncAreas(u, h, asked) ==
  {a \in asked : area[<<u, h>>][a] = "none"} \cup {a \in asked : <<h, a>> \in removed /\ rec[<<h, a>>] = Absent}

\* Both handlers; the POST handler (o = u) also marks what has to be
\* synchronised again.
CreateAsset(w, e, asked) ==
  /\ req[w] = Idle
  /\ sent > 0 /\ sent' = sent - 1
  /\ e.a \in asked
  /\ LET missing == IF e.o = Nobody THEN {a \in asked : area[<<e.u, e.h>>][a] = "none"}
                    ELSE GetUnSyncAreas(e.u, e.h, asked)
     IN  /\ IF missing = {} THEN UNCHANGED req
            ELSE req' = [req EXCEPT ![w] = [at |-> "create", e |-> e, missing |-> missing]]
         /\ IF e.o = Nobody THEN UNCHANGED area
            ELSE UpdateUnSyncAreaIDs(e.u, e.h, missing, "unsync")
  /\ UNCHANGED <<rec, list, job, report, errors, first, removed, lost>>

\* schedulerClient.CreateAsset in the first area, which then waits for the
\* file, or has it already.
SchedulerCreate(w) ==
  /\ req[w].at = "create"
  /\ LET e == req[w].e IN
     \/ /\ rec' = IF rec[<<e.h, e.a>>].state = "absent"
                  THEN [rec EXCEPT ![<<e.h, e.a>>] = [state |-> "pulling", owner |-> e.u]]
                  ELSE rec
        /\ req' = [req EXCEPT ![w].at = "push"]
        /\ UNCHANGED <<errors, lost>>
     \/ /\ Error /\ Disturb(e.u, e.h)
        /\ req' = [req EXCEPT ![w] = Idle]
        /\ UNCHANGED rec
  /\ UNCHANGED <<area, list, job, report, sent, first, removed>>

\* oprds.PushSchedulerInfo; an error is only logged.
PushSchedulerInfo(w) ==
  /\ req[w].at = "push"
  /\ req' = [req EXCEPT ![w].at = "add"]
  /\ \/ list' = [list EXCEPT ![req[w].e] = @ + 1] /\ UNCHANGED <<errors, lost>>
     \/ Error /\ Disturb(req[w].e.u, req[w].e.h) /\ UNCHANGED list
  /\ UNCHANGED <<area, rec, job, report, sent, first, removed>>

\* The area rows dao.AddAssetAndUpdateSize writes after that.
AddAreas(w) ==
  /\ req[w].at = "add"
  /\ LET e == req[w].e
         old == area[<<e.u, e.h>>]
     IN  /\ area' = [area EXCEPT ![<<e.u, e.h>>] = [a \in Areas |->
                       IF a = e.a THEN "sync"
                       ELSE IF a \in req[w].missing /\ old[a] = "none" THEN "unsync"
                       ELSE old[a]]]
         /\ first' = [first EXCEPT ![<<e.u, e.h>>] = @ \cup {e.a}]
  /\ req' = [req EXCEPT ![w] = Idle]
  /\ UNCHANGED <<rec, list, job, report, sent, errors, removed, lost>>

-----------------------------------------------------------------------------
(* syncUserScheduler: a goroutine for each entry of the list *)

Take(s, e) == job' = [job EXCEPT ![s] = [at |-> "look", e |-> e]]
Finish(s) == job' = [job EXCEPT ![s] = Idle]

\* LRANGE leaves the entry in the list: the next round, or another process,
\* may take it as well.
GetAllSchedulerInfos(s, e) ==
  /\ job[s] = Idle
  /\ list[e] > Cardinality({t \in Slots : job[t] # Idle /\ job[t].e = e})
  /\ Take(s, e)
  /\ UNCHANGED <<area, rec, list, req, report, sent, errors, first, removed, lost>>

\* The same, while another goroutine has it.
GetAgain(s, e) ==
  /\ job[s] = Idle
  /\ list[e] > 0
  /\ \E t \in Slots : job[t] # Idle /\ job[t].e = e
  /\ Take(s, e)
  /\ Disturb(e.u, e.h)
  /\ UNCHANGED <<area, rec, list, req, report, sent, errors, first, removed>>

\* GetAssetRecord and checkSyncState: the first area has the file by now.
CheckSyncState(s) ==
  /\ job[s].at = "look"
  /\ LET e == job[s].e IN
     \/ /\ IF rec[<<e.h, e.a>>].state = "ready"
           THEN job' = [job EXCEPT ![s].at = "query"]
           ELSE Finish(s)
        /\ UNCHANGED errors
     \/ Error /\ Finish(s)
  /\ UNCHANGED <<area, rec, list, req, report, sent, first, removed, lost>>

\* dao.GetUnSyncAreaIDs; it misses the areas of an upload that has pushed its
\* entry and not yet written its rows.
GetUnSyncAreaIDs(s) ==
  /\ job[s].at = "query"
  /\ LET e == job[s].e
         early == \E w \in Workers : req[w].at = "add" /\ req[w].e.u = e.u /\ req[w].e.h = e.h
     IN  /\ job' = [job EXCEPT ![s] = [at |-> "sync", e |-> e, done |-> {},
                      todo |-> {a \in Areas : area[<<e.u, e.h>>][a] = "unsync"}]]
         /\ IF early THEN Disturb(e.u, e.h) ELSE UNCHANGED lost
  /\ UNCHANGED <<area, rec, list, req, report, sent, errors, first, removed>>

\* Mutant: an area counts as synchronised once it has been asked to copy.
SyncAreaAsked(s) ==
  /\ job[s].at = "sync"
  /\ \E a \in job[s].todo :
       LET e == job[s].e IN
       /\ job' = [job EXCEPT ![s].todo = @ \ {a}, ![s].done = @ \cup {a}]
       /\ rec' = IF rec[<<e.h, a>>].state = "absent"
                 THEN [rec EXCEPT ![<<e.h, a>>] = [state |-> "pulling", owner |-> e.o]] ELSE rec
  /\ UNCHANGED <<area, list, req, report, sent, errors, first, removed, lost>>

\* Mutant: areas that do not have the file are left for the next round.
SyncAreaLater(s) ==
  /\ job[s].at = "sync"
  /\ \E a \in job[s].todo :
       LET e == job[s].e
           r == rec[<<e.h, a>>]
       IN  job' = [job EXCEPT ![s].todo = @ \ {a},
                     ![s].done = IF r.state = "ready" /\ r.owner = e.o THEN @ \cup {a} ELSE @]
  /\ UNCHANGED <<area, rec, list, req, report, sent, errors, first, removed, lost>>

\* One round of the loop in SyncShedulers: an area that has the file of this
\* owner is done, any other is asked to copy it.  A failure is only logged.
SyncArea(s) ==
  /\ job[s].at = "sync"
  /\ \E a \in job[s].todo :
       LET e == job[s].e
           r == rec[<<e.h, a>>]
           has == r.state = "ready" /\ r.owner = e.o
       IN  \/ /\ has
              /\ job' = [job EXCEPT ![s].todo = @ \ {a}, ![s].done = @ \cup {a}]
              /\ UNCHANGED <<rec, errors, lost>>
           \/ /\ ~has
              /\ job' = [job EXCEPT ![s].todo = @ \ {a}]
              /\ rec' = IF r.state = "absent"
                        THEN [rec EXCEPT ![<<e.h, a>>] = [state |-> "pulling", owner |-> e.o]]
                        ELSE rec
              /\ UNCHANGED <<errors, lost>>
           \/ /\ job' = [job EXCEPT ![s].todo = @ \ {a}]
              /\ Error /\ Disturb(e.u, e.h)
              /\ UNCHANGED rec
  /\ UNCHANGED <<area, list, req, report, sent, first, removed>>

\* GenerateTokenForDownloadSources fails: the entry stays in the list.
SyncShedulersFails(s) ==
  /\ job[s].at = "sync"
  /\ job[s].todo # {}
  /\ Error
  /\ Finish(s)
  /\ UNCHANGED <<area, rec, list, req, report, sent, first, removed, lost>>

\* dao.UpdateUnSyncAreaIDs; after an error the entry stays.
MarkSynced(s) ==
  /\ job[s].at = "sync"
  /\ job[s].todo = {}
  /\ \/ /\ UpdateUnSyncAreaIDs(job[s].e.u, job[s].e.h, job[s].done, "sync")
        /\ job' = [job EXCEPT ![s] = [at |-> "remove", e |-> job[s].e]]
        /\ UNCHANGED errors
     \/ Error /\ Finish(s) /\ UNCHANGED area
  /\ UNCHANGED <<rec, list, req, report, sent, first, removed, lost>>

\* Mutant: LREM 0, every occurrence.
DelSchedulerInfoAll(s) ==
  /\ job[s].at = "remove"
  /\ Finish(s)
  /\ list' = [list EXCEPT ![job[s].e] = 0]
  /\ UNCHANGED <<area, rec, req, report, sent, errors, first, removed, lost>>

\* Mutant: the list is a counter that is decremented.
DelSchedulerInfoCounts(s) ==
  /\ job[s].at = "remove"
  /\ Finish(s)
  /\ list' = [list EXCEPT ![job[s].e] = @ - 1]
  /\ UNCHANGED <<area, rec, req, report, sent, errors, first, removed, lost>>

\* oprds.DelSchedulerInfo: LREM 1, one occurrence, whoever pushed it.
DelSchedulerInfo(s) ==
  /\ job[s].at = "remove"
  /\ Finish(s)
  /\ list' = [list EXCEPT ![job[s].e] = IF @ > 0 THEN @ - 1 ELSE 0]
  /\ UNCHANGED <<area, rec, req, report, sent, errors, first, removed, lost>>

-----------------------------------------------------------------------------
(* getSyncSuccessAsset, and what the schedulers do *)

\* getSyncSuccessHash.  Its branch for areas that are late is dead:
\* CheckAssetHashIsExist scans a count into a slice, fails, and says no.
GetSyncSuccessHash(a) ==
  /\ report[a] = None
  /\ \E h \in Hashes : rec[<<h, a>>].state = "ready"   \* an empty report changes nothing
  /\ report' = [report EXCEPT ![a] = {h \in Hashes : rec[<<h, a>>].state = "ready"}]
  /\ UNCHANGED <<area, rec, list, req, job, sent, errors, first, removed, lost>>

\* dao.UpdateSyncAssetAreas: by hash, the rows of every user.
UpdateSyncAssetAreas(a) ==
  /\ report[a] # None
  /\ area' = [f \in Files |-> [area[f] EXCEPT ![a] =
                IF @ = "unsync" /\ f[2] \in report[a] THEN "sync" ELSE @]]
  /\ report' = [report EXCEPT ![a] = None]
  /\ UNCHANGED <<rec, list, req, job, sent, errors, first, removed, lost>>

\* A scheduler has copied the file, or the client has uploaded it.
Pulled(h, a) ==
  /\ rec[<<h, a>>].state = "pulling"
  /\ rec' = [rec EXCEPT ![<<h, a>>].state = "ready"]
  /\ UNCHANGED <<area, list, req, job, report, sent, errors, first, removed, lost>>

\* A scheduler drops the file.
Remove(h, a) ==
  /\ rec[<<h, a>>].state = "ready"
  /\ Error
  /\ rec' = [rec EXCEPT ![<<h, a>>] = Absent]
  /\ removed' = removed \cup {<<h, a>>}
  /\ lost' = lost \cup {f \in Files : f[2] = h}
  /\ UNCHANGED <<area, list, req, job, report, sent, first>>

-----------------------------------------------------------------------------

Handler(w) == SchedulerCreate(w) \/ PushSchedulerInfo(w) \/ AddAreas(w)

Goroutine(s) ==
  \/ CheckSyncState(s) \/ GetUnSyncAreaIDs(s) \/ SyncArea(s) \/ SyncShedulersFails(s)
  \/ MarkSynced(s) \/ DelSchedulerInfo(s)

Next ==
  \/ \E w \in Workers : Handler(w) \/ \E e \in Entry, asked \in SUBSET Areas : CreateAsset(w, e, asked)
  \/ \E s \in Slots : Goroutine(s) \/ \E e \in Entry : GetAllSchedulerInfos(s, e) \/ GetAgain(s, e)
  \/ \E a \in Areas : GetSyncSuccessHash(a) \/ UpdateSyncAssetAreas(a)
  \/ \E h \in Hashes, a \in Areas : Pulled(h, a) \/ Remove(h, a)

Spec == Init /\ [][Next]_vars

\* Handlers run to their end, cron starts the jobs again and again, and
\* a scheduler that was asked for a file gets it.
Fairness ==
  /\ \A w \in Workers : WF_vars(Handler(w))
  /\ \A s \in Slots : WF_vars(Goroutine(s))
  /\ \A e \in Entry : SF_vars(\E s \in Slots : GetAllSchedulerInfos(s, e))
  /\ \A a \in Areas : WF_vars(GetSyncSuccessHash(a)) /\ WF_vars(UpdateSyncAssetAreas(a))
  /\ \A h \in Hashes, a \in Areas : WF_vars(Pulled(h, a))

FairSpec == Spec /\ Fairness

-----------------------------------------------------------------------------
(* Properties *)

\* is_sync is only set for an area to which the file was uploaded, or whose
\* scheduler has it: no goroutine or report turns a copy that is still to be
\* made into one that users are sent to.
FlagsAreEarned ==
  \A f \in Files, a \in Areas :
    area[f][a] = "sync" =>
      \/ a \in first[f]
      \/ rec[<<f[2], a>>].state = "ready"
      \/ <<f[2], a>> \in removed

\* An area that is not synchronised yet is on somebody's list: an upload is
\* under way, an entry or a goroutine is going to ask its scheduler, or the
\* scheduler knows of the file.  The ways out of this are a failed call, a
\* removed copy, an entry that two goroutines work on at once, and one that is
\* taken before the rows of its upload are written.
SyncNeverForgotten ==
  \A f \in Files \ lost, a \in Areas :
    area[f][a] = "unsync" =>
      \/ \E w \in Workers : req[w] # Idle /\ req[w].e.u = f[1] /\ req[w].e.h = f[2]
      \/ \E e \in Entry : list[e] > 0 /\ e.u = f[1] /\ e.h = f[2]
      \/ rec[<<f[2], a>>].state # "absent"

\* Every area of an upload that nothing has disturbed is synchronised in the
\* end, whichever of the two cron jobs notices it.
SyncCompletes ==
  \A f \in Files, a \in Areas :
    area[f][a] = "unsync" ~> (area[f][a] = "sync" \/ f \in lost)
=============================================================================
