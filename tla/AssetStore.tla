----------------------------- MODULE AssetStore -----------------------------
(* Files of users, their copies per area, the storage quota and the tree of  *)
(* groups (api/events.go, core/dao/user_assets.go), with the asynq jobs that *)
(* finish deletions (job/handler_delete_asset_group.go).  A request is a      *)
(* chain of statements; only what one database transaction holds is atomic.  *)
EXTENDS Integers, FiniteSets, FiniteSetsExt

CONSTANTS
  Users,
  Hashes,       \* file contents; a cid and its hash are one thing here
  Areas,        \* scheduler areas
  MaxGroup,     \* bound on group ids (AUTO_INCREMENT)
  GroupLimit,   \* groups a user may have, 20 in the code
  Size,         \* size of each file
  Total,        \* users.total_storage_size
  Tenants,      \* users with a tenant_id: no quota
  Workers,      \* request goroutines under way at one time
  MaxTasks,     \* bound on the queue, for tasks that fail
  Workloads     \* a behaviour draws its requests from one of them (bound): the
                \* kinds and number of requests, the files, areas and groups
                \* they touch

ASSUME FilesAssumption ==
  /\ IsFiniteSet(Workers) /\ Workers # {}
  /\ IsFiniteSet(Hashes)
  /\ Size \in [Hashes -> Nat]
  /\ Total \in [Users -> Nat]
  /\ MaxGroup \in Nat /\ GroupLimit \in Nat /\ MaxTasks \in Nat
  /\ Tenants \subseteq Users

VARIABLES
  rows,     \* user_asset: <<user, hash>>
  group,    \* user_asset.group_id, Root for an absent row
  copies,   \* user_asset_area: the areas of a user's file
  used,     \* users.used_storage_size
  live,     \* user_asset_group: ids of a user's groups
  parent,   \* user_asset_group.parent
  nextId,   \* the last group id given out
  held,     \* schedulers: <<hash, area>> they store
  tasks,    \* asynq queue of the explorer server
  req,      \* requests: position and local variables
  sent,     \* number of requests so far, the identity of the next task
  load,     \* the workload of this behaviour
  overlap,  \* history: users with two operations under way at one time
  fault     \* history: a job crashed, or a queue or query error was swallowed

fileVars == <<rows, group, copies, used>>
groupVars == <<live, parent, nextId>>
history == <<sent, load, overlap, fault>>
vars == <<fileVars, groupVars, held, tasks, req, history>>

-----------------------------------------------------------------------------

Root == 0
Groups == 1 .. MaxGroup
GroupIds == Groups \cup {Root}
Kinds == {"upload", "delete", "moveAsset", "dropGroup", "createGroup", "moveGroup"}
Workload == [kinds : SUBSET Kinds, hashes : SUBSET Hashes, areas : SUBSET Areas,
             lastGroup : 0 .. MaxGroup, requests : Nat]

ASSUME WorkloadAssumption == Workloads \subseteq Workload

Idle == [at |-> "idle"]
UploadReq == [at : {"create", "look", "add"}, u : Users, h : Hashes, g : GroupIds,
              first : Areas, missing : SUBSET Areas, fresh : BOOLEAN]
DeleteReq == [at : {"only"}, u : Users, h : Hashes, areas : SUBSET Areas,
              todo : SUBSET Areas, whole : BOOLEAN]
DropReq == [at : {"drop", "spin"}, u : Users, g : Groups, size : Nat]
CreateReq == [at : {"insert"}, u : Users, g : GroupIds]
MoveReq == [at : {"walk", "move"}, u : Users, g : Groups, t : GroupIds, up : GroupIds]
Requests == {Idle} \cup UploadReq \cup DeleteReq \cup DropReq \cup CreateReq \cup MoveReq

FileTask == [kind : {"file"}, id : Nat, h : Hashes, a : Areas]
GroupTask == [kind : {"group"}, id : Nat, u : Users, from : SUBSET Groups,
              at : SUBSET Groups, step : {"rows", "only", "remove", "next"},
              doomed : SUBSET (Hashes \X Areas)]

TypeOK ==
  /\ rows \subseteq Users \X Hashes
  /\ group \in [Users \X Hashes -> GroupIds]
  /\ \A k \in Users \X Hashes : k \notin rows => group[k] = Root
  /\ copies \in [Users \X Hashes -> SUBSET Areas]
  /\ used \in [Users -> Int]
  /\ live \in [Users -> SUBSET Groups]
  /\ parent \in [Groups -> GroupIds]
  /\ nextId \in 0 .. MaxGroup
  /\ held \subseteq Hashes \X Areas
  /\ tasks \subseteq FileTask \cup GroupTask
  /\ req \in [Workers -> Requests]
  /\ sent \in Nat
  /\ load \in Workload
  /\ overlap \subseteq Users
  /\ fault \in BOOLEAN

FilesOf(u) == {h \in Hashes : <<u, h>> \in rows}
SizeOf(hs) == SumFunctionOnSet(Size, hs)

\* Any database a sequence of finished requests leaves, as far as the
\* workload can see it.
Init ==
  /\ load \in Workloads
  /\ rows \in SUBSET (Users \X load.hashes)
  /\ nextId \in 0 .. load.lastGroup
  /\ live \in {f \in [Users -> SUBSET (1 .. nextId)] :
                 /\ \A u, v \in Users : u # v => f[u] \cap f[v] = {}
                 /\ \A u \in Users : Cardinality(f[u]) <= GroupLimit}
  /\ parent \in {f \in [Groups -> GroupIds] : \A g \in Groups :
                   \/ f[g] = Root
                   \/ f[g] < g /\ \E u \in Users : {g, f[g]} \subseteq live[u]}
  /\ group \in {f \in [Users \X Hashes -> GroupIds] : \A u \in Users, h \in Hashes :
                  f[<<u, h>>] \in (IF <<u, h>> \in rows THEN live[u] ELSE {}) \cup {Root}}
  /\ copies \in {f \in [Users \X Hashes -> SUBSET load.areas] :
                   \A k \in Users \X Hashes : f[k] = {} <=> k \notin rows}
  /\ used = [u \in Users |-> SizeOf(FilesOf(u))]
  /\ \A u \in Users \ Tenants : used[u] <= Total[u]
  /\ held = {ha \in Hashes \X Areas : \E u \in Users : ha[2] \in copies[<<u, ha[1]>>]}
  /\ tasks = {}
  /\ req = [w \in Workers |-> Idle]
  /\ sent = 0
  /\ overlap = {}
  /\ fault = FALSE

-----------------------------------------------------------------------------
(* Requests *)

At(w, at) == req[w].at = at
Goto(w, at) == req' = [req EXCEPT ![w].at = at]
Answer(w) == req' = [req EXCEPT ![w] = Idle]

\* Something of this user is under way: a request, or a group deletion.
Busy(u) ==
  \/ \E w \in Workers : ~At(w, "idle") /\ req[w].u = u
  \/ \E t \in tasks : t.kind = "group" /\ t.u = u

\* A request of user u arrives at worker w.
Arrives(w, u, kind) ==
  /\ At(w, "idle")
  /\ kind \in load.kinds
  /\ sent < load.requests
  /\ sent' = sent + 1
  /\ overlap' = IF Busy(u) THEN overlap \cup {u} ELSE overlap
  /\ UNCHANGED <<load, fault>>

Enqueue(task) == tasks' = tasks \cup {task}

\* An EnqueueContext error, or a query error, that the caller ignores.
\* A behaviour has one fault at most (bound).
Fault == ~fault /\ fault' = TRUE
Swallowed == Fault /\ UNCHANGED tasks

\* dao.GetUserAssetNotAreaIDs
NotExistsAids(u, h, asked) == asked \ copies[<<u, h>>]

\* getUnSyncAreas adds the areas whose file the schedulers report as removed.
RemovedFrom(h, asked) == {a \in asked : <<h, a>> \notin held}

\* Mutant: room for any file as long as the quota is not exceeded yet.
HasRoomUnsized(u, h) == u \in Tenants \/ Total[u] - used[u] >= 0

HasRoom(u, h) == u \in Tenants \/ Total[u] - used[u] >= Size[h]

\* asked are the areas of the request, first the nearest of them; missing
\* are those to add.  Without any, the file exists already.
StartUpload(w, u, h, first, missing, g, at) ==
  IF missing # {} /\ HasRoom(u, h)
  THEN req' = [req EXCEPT ![w] = [at |-> at, u |-> u, h |-> h, g |-> g, first |-> first,
                                  missing |-> missing, fresh |-> FALSE]]
  ELSE UNCHANGED req

CreateAsset(w, u, h, asked, first, g) ==
  /\ Arrives(w, u, "upload")
  /\ first \in asked
  /\ StartUpload(w, u, h, first, NotExistsAids(u, h, asked), g, "create")
  /\ UNCHANGED <<fileVars, groupVars, held, tasks>>

\* The POST handler does not call a scheduler whose row is synchronised.
CreateAssetPost(w, u, h, asked, first, g) ==
  /\ Arrives(w, u, "upload")
  /\ first \in asked
  /\ \E removed \in SUBSET RemovedFrom(h, asked) :
       \E at \in {"create"} \cup (IF first \in copies[<<u, h>>] \ removed THEN {"look"} ELSE {}) :
         StartUpload(w, u, h, first, NotExistsAids(u, h, asked) \cup removed, g, at)
  /\ UNCHANGED <<fileVars, groupVars, held, tasks>>

\* The scheduler of the first area takes the file, or refuses.
SchedulerCreate(w) ==
  /\ At(w, "create")
  /\ \/ /\ held' = held \cup {<<req[w].h, req[w].first>>}
        /\ Goto(w, "look")
     \/ Answer(w) /\ UNCHANGED held
  /\ UNCHANGED <<fileVars, groupVars, tasks, history>>

\* dao.AddAssetAndUpdateSize asks for the row outside of its transaction.
LookForAsset(w) ==
  /\ At(w, "look")
  /\ req' = [req EXCEPT ![w].at = "add",
                        ![w].fresh = (<<req[w].u, req[w].h>> \notin rows)]
  /\ UNCHANGED <<fileVars, groupVars, held, tasks, history>>

\* The transaction of dao.AddAssetAndUpdateSize.
AddAssetAndUpdateSize(u, h, g, areas, fresh) ==
  /\ rows' = IF fresh THEN rows \cup {<<u, h>>} ELSE rows
  /\ group' = IF fresh THEN [group EXCEPT ![<<u, h>>] = g] ELSE group
  /\ copies' = [copies EXCEPT ![<<u, h>>] = @ \cup areas]
  /\ used' = IF fresh THEN [used EXCEPT ![u] = @ + Size[h]] ELSE used

\* The primary key (hash, user_id) turns down a second INSERT.
AddAsset(w) ==
  /\ At(w, "add")
  /\ Answer(w)
  /\ LET r == req[w]
     IN  IF r.fresh /\ <<r.u, r.h>> \in rows
         THEN UNCHANGED fileVars
         ELSE AddAssetAndUpdateSize(r.u, r.h, r.g, r.missing \cup {r.first}, r.fresh)
  /\ UNCHANGED <<groupVars, held, tasks, history>>

-----------------------------------------------------------------------------
(* Deleting a file *)

\* dao.CheckUserAseetNeedDel: the areas to delete, and whether no other is
\* left.  No area, be it that none was asked for or that the list of areas
\* could not be fetched, means all of them.
Deleted(u, h, asked) == IF asked = {} THEN copies[<<u, h>>] ELSE asked \cap copies[<<u, h>>]

DeleteAsset(w, u, h, asked) ==
  /\ Arrives(w, u, "delete")
  /\ LET areas == Deleted(u, h, asked)
     IN  IF areas # {}
         THEN req' = [req EXCEPT ![w] =
                        [at |-> "only", u |-> u, h |-> h, areas |-> areas,
                         todo |-> areas, whole |-> areas = copies[<<u, h>>]]]
         ELSE UNCHANGED req
  /\ UNCHANGED <<fileVars, groupVars, held, tasks>>

\* dao.CheckUserAssetIsOnly
IsOnly(h, a) == Cardinality({u \in Users : a \in copies[<<u, h>>]}) <= 1

\* One goroutine of DeleteAssetHandler for each area.
DeleteArea(w) ==
  /\ At(w, "only")
  /\ \E a \in req[w].todo :
       /\ req' = [req EXCEPT ![w].todo = @ \ {a}]
       /\ \/ /\ IsOnly(req[w].h, a)
             /\ Enqueue([kind |-> "file", id |-> sent, h |-> req[w].h, a |-> a])
             /\ UNCHANGED fault
          \/ ~IsOnly(req[w].h, a) /\ UNCHANGED <<tasks, fault>>
          \/ Swallowed
  /\ UNCHANGED <<fileVars, groupVars, held, sent, load, overlap>>

\* Mutant: the size of the file is not given back.
DelAssetKeepsSize(u, h, areas, whole) ==
  /\ copies' = [copies EXCEPT ![<<u, h>>] = @ \ areas]
  /\ rows' = IF whole THEN rows \ {<<u, h>>} ELSE rows
  /\ group' = IF whole THEN [group EXCEPT ![<<u, h>>] = Root] ELSE group
  /\ UNCHANGED used

\* Mutant: the row goes with the first of its areas.
DelAssetTooSoon(u, h, areas, whole) ==
  /\ copies' = [copies EXCEPT ![<<u, h>>] = @ \ areas]
  /\ rows' = rows \ {<<u, h>>}
  /\ group' = [group EXCEPT ![<<u, h>>] = Root]
  /\ used' = [used EXCEPT ![u] = Max({@ - Size[h], 0})]

\* The transaction of dao.DelAssetAndUpdateSize.
DelAssetAndUpdateSize(u, h, areas, whole) ==
  /\ copies' = [copies EXCEPT ![<<u, h>>] = @ \ areas]
  /\ rows' = IF whole THEN rows \ {<<u, h>>} ELSE rows
  /\ group' = IF whole THEN [group EXCEPT ![<<u, h>>] = Root] ELSE group
  /\ used' = IF whole THEN [used EXCEPT ![u] = Max({@ - Size[h], 0})] ELSE used

\* wg.Done runs before the area is appended, so execAreaIds holds any of the
\* areas when the handler goes on.  A row that is gone rolls the transaction
\* back, the deleted areas with it.
EraseAsset(w) ==
  /\ At(w, "only")
  /\ req[w].todo = {}
  /\ Answer(w)
  /\ \E exec \in SUBSET req[w].areas :
       LET r == req[w]
           whole == r.whole /\ exec = r.areas
       IN  IF exec = {} \/ (whole /\ <<r.u, r.h>> \notin rows)
           THEN UNCHANGED fileVars
           ELSE DelAssetAndUpdateSize(r.u, r.h, exec, whole)
  /\ UNCHANGED <<groupVars, held, tasks, history>>

\* job.deleteAsset: asynq retries it, and gives up at last.
RemoveFile(t) ==
  /\ t.kind = "file"
  /\ \/ /\ held' = held \ {<<t.h, t.a>>}
        /\ UNCHANGED fault
     \/ Fault /\ UNCHANGED held
  /\ tasks' = tasks \ {t}
  /\ UNCHANGED <<fileVars, groupVars, req, sent, load, overlap>>

-----------------------------------------------------------------------------
(* Groups *)

AllGroups == UNION {live[u] : u \in Users}

\* dao.GetUserGroupByParent
Children(u, gids) == {g \in live[u] : parent[g] \in gids}

\* The groups n levels under g.
Level(u, g) ==
  LET down[n \in 0 .. MaxGroup] == IF n = 0 THEN {g} ELSE Children(u, down[n - 1])
  IN  down

Subtree(u, g) == UNION {Level(u, g)[n] : n \in 0 .. MaxGroup}

\* dao.DeleteAssetGroupAndUpdateSize collects the ids of all levels, for ever
\* if the group is its own descendant, and adds up their files.
DropGroup(w, u, g) ==
  /\ Arrives(w, u, "dropGroup")
  /\ req' = [req EXCEPT ![w] =
       [at |-> IF Level(u, g)[MaxGroup] = {} THEN "drop" ELSE "spin",
        u |-> u, g |-> g,
        size |-> SizeOf({h \in FilesOf(u) : group[<<u, h>>] \in Subtree(u, g)})]]
  /\ UNCHANGED <<fileVars, groupVars, held, tasks>>

NewGroupTask(u, gids) ==
  [kind |-> "group", id |-> sent, u |-> u, from |-> gids, at |-> gids,
   step |-> "rows", doomed |-> {}]

\* Its transaction: the outermost row and the size go at once.
DeleteGroupRow(u, g, size) ==
  /\ live' = [live EXCEPT ![u] = @ \ {g}]
  /\ used' = [used EXCEPT ![u] = @ - size]

\* DeleteGroupHandler goes on to queue the rest.
DeleteGroup(w) ==
  /\ At(w, "drop")
  /\ Answer(w)
  /\ DeleteGroupRow(req[w].u, req[w].g, req[w].size)
  /\ \/ /\ Enqueue(NewGroupTask(req[w].u, {req[w].g}))
        /\ UNCHANGED fault
     \/ Swallowed
  /\ UNCHANGED <<rows, group, copies, parent, nextId, held, sent, load, overlap>>

\* Mutant: the groups are not counted.
CreateGroupUncounted(w, u, g) ==
  /\ Arrives(w, u, "createGroup")
  /\ req' = IF g \in live[u] \cup {Root}
            THEN [req EXCEPT ![w] = [at |-> "insert", u |-> u, g |-> g]]
            ELSE req
  /\ UNCHANGED <<fileVars, groupVars, held, tasks>>

\* dao.CreateAssetGroup: the parent and the number of groups are read, ...
CreateGroup(w, u, g) ==
  /\ Arrives(w, u, "createGroup")
  /\ req' = IF g \in live[u] \cup {Root} /\ Cardinality(live[u]) < GroupLimit
            THEN [req EXCEPT ![w] = [at |-> "insert", u |-> u, g |-> g]]
            ELSE req
  /\ UNCHANGED <<fileVars, groupVars, held, tasks>>

\* ... then the row is inserted.  The guard bounds the ids.
InsertGroup(w) ==
  /\ At(w, "insert")
  /\ nextId < MaxGroup
  /\ nextId' = nextId + 1
  /\ live' = [live EXCEPT ![req[w].u] = @ \cup {nextId'}]
  /\ parent' = [parent EXCEPT ![nextId'] = req[w].g]
  /\ Answer(w)
  /\ UNCHANGED <<fileVars, held, tasks, history>>

\* dao.MoveAssetGroup: refused for a target that is not there; otherwise it
\* walks up from the target, ...
MoveGroup(w, u, g, t) ==
  /\ Arrives(w, u, "moveGroup")
  /\ req' = IF g # t /\ t \in live[u] \cup {Root}
            THEN [req EXCEPT ![w] = [at |-> IF t = Root THEN "move" ELSE "walk",
                                     u |-> u, g |-> g, t |-> t, up |-> t]]
            ELSE req
  /\ UNCHANGED <<fileVars, groupVars, held, tasks>>

\* Mutant: the way up is not compared with the group that moves.
WalkUpUnchecked(w) ==
  /\ At(w, "walk")
  /\ LET up == req[w].up
     IN  \/ up \notin AllGroups /\ Answer(w)
         \/ up \in AllGroups /\ parent[up] = Root /\ Goto(w, "move")
         \/ /\ up \in AllGroups /\ parent[up] # Root
            /\ req' = [req EXCEPT ![w].up = parent[up]]
  /\ UNCHANGED <<fileVars, groupVars, held, tasks, history>>

\* ... one query per level, to the root or to the group itself.
WalkUp(w) ==
  /\ At(w, "walk")
  /\ LET up == req[w].up
     IN  \/ (up \notin AllGroups \/ parent[up] = req[w].g) /\ Answer(w)
         \/ up \in AllGroups /\ parent[up] = Root /\ Goto(w, "move")
         \/ /\ up \in AllGroups /\ parent[up] \notin {Root, req[w].g}
            /\ req' = [req EXCEPT ![w].up = parent[up]]
  /\ UNCHANGED <<fileVars, groupVars, held, tasks, history>>

UpdateParent(w) ==
  /\ At(w, "move")
  /\ LET r == req[w]
     IN  parent' = IF r.g \in live[r.u] THEN [parent EXCEPT ![r.g] = r.t] ELSE parent
  /\ Answer(w)
  /\ UNCHANGED <<fileVars, live, nextId, held, tasks, history>>

\* Mutant: a file that is not there is given a group.
MoveAssetBlindly(w, u, h, g) ==
  /\ Arrives(w, u, "moveAsset")
  /\ group' = [group EXCEPT ![<<u, h>>] = g]
  /\ UNCHANGED <<rows, copies, used, groupVars, held, tasks, req>>

\* MoveAssetToGroupHandler, dao.UpdateAssetGroup: one UPDATE; nothing asks
\* whether the group exists.
MoveAsset(w, u, h, g) ==
  /\ Arrives(w, u, "moveAsset")
  /\ group' = IF <<u, h>> \in rows THEN [group EXCEPT ![<<u, h>>] = g] ELSE group
  /\ UNCHANGED <<rows, copies, used, groupVars, held, tasks, req>>

-----------------------------------------------------------------------------
(* job.deleteAssetGroup: level after level, rows first *)

Become(t, new) == tasks' = (tasks \ {t}) \cup new

InGroups(u, gids) == {h \in FilesOf(u) : group[<<u, h>>] \in gids}

\* dao.DeleteUserGroupAsset, one transaction
DeleteUserGroupAsset(u, gids) ==
  LET gone == {u} \X InGroups(u, gids)
  IN  /\ rows' = rows \ gone
      /\ copies' = [k \in Users \X Hashes |-> IF k \in gone THEN {} ELSE copies[k]]
      /\ group' = [k \in Users \X Hashes |-> IF k \in gone THEN Root ELSE group[k]]
      /\ live' = [live EXCEPT ![u] = @ \ gids]

\* deleteAssetByGroup
DeleteLevel(t) ==
  /\ t.kind = "group" /\ t.step = "rows"
  /\ DeleteUserGroupAsset(t.u, t.at)
  /\ Become(t, {[t EXCEPT !.step = "only"]})
  /\ UNCHANGED <<used, parent, nextId, held, req, history>>

\* After an error the level is queued again as a task of its own, and the
\* loop goes on with the level below.
LevelFails(t) ==
  /\ t.kind = "group" /\ t.step = "rows"
  /\ Cardinality(tasks) < MaxTasks
  /\ Become(t, {[t EXCEPT !.step = "next"], [t EXCEPT !.from = t.at]})
  /\ UNCHANGED <<fileVars, groupVars, held, req, history>>

\* dao.GetOnlyAssetsByUIDAndGroupID: of the files now in these groups, those
\* with one copy in all; it runs when the rows of the level are gone.
OnlyAssets(u, gids) ==
  {ha \in InGroups(u, gids) \X Areas :
     /\ \E v \in Users : <<v, ha[1]>> \in rows /\ ha[2] \in copies[<<v, ha[1]>>]
     /\ Cardinality({va \in Users \X Areas :
          <<va[1], ha[1]>> \in rows /\ va[2] \in copies[<<va[1], ha[1]>>]}) = 1}

FindOnly(t) ==
  /\ t.kind = "group" /\ t.step = "only"
  /\ LET only == OnlyAssets(t.u, t.at)
     IN  Become(t, {[t EXCEPT !.step = IF only = {} THEN "next" ELSE "remove",
                              !.doomed = only]})
  /\ UNCHANGED <<fileVars, groupVars, held, req, history>>

\* RemoveAssetRecords in every area, errors ignored.
RemoveOnly(t) ==
  /\ t.kind = "group" /\ t.step = "remove"
  /\ \E lost \in SUBSET t.doomed : held' = held \ lost
  /\ Become(t, {[t EXCEPT !.step = "next", !.doomed = {}]})
  /\ UNCHANGED <<fileVars, groupVars, req, history>>

\* Mutant: the job stays on its level.
NextLevelSame(t) ==
  /\ t.kind = "group" /\ t.step = "next"
  /\ LET below == Children(t.u, t.at)
     IN  Become(t, IF below = {} THEN {} ELSE {[t EXCEPT !.step = "rows"]})
  /\ UNCHANGED <<fileVars, groupVars, held, req, history>>

NextLevel(t) ==
  /\ t.kind = "group" /\ t.step = "next"
  /\ LET below == Children(t.u, t.at)
     IN  Become(t, IF below = {} THEN {} ELSE {[t EXCEPT !.at = below, !.step = "rows"]})
  /\ UNCHANGED <<fileVars, groupVars, held, req, history>>

\* GetUserGroupByParent fails: pids is overwritten before it is queued again,
\* so the new task has no group; or the worker dies, and asynq starts the task
\* again from the first level.
JobFails(t) ==
  /\ t.kind = "group"
  /\ \/ t.step = "next" /\ Become(t, {})
     \/ Become(t, {[t EXCEPT !.at = t.from, !.step = "rows", !.doomed = {}]})
  /\ Fault
  /\ UNCHANGED <<fileVars, groupVars, held, req, sent, load, overlap>>

-----------------------------------------------------------------------------

Handlers(w) ==
  \/ \E u \in Users, h \in load.hashes, asked \in SUBSET load.areas,
          first \in load.areas, g \in 0 .. load.lastGroup :
       CreateAsset(w, u, h, asked, first, g) \/ CreateAssetPost(w, u, h, asked, first, g)
  \/ SchedulerCreate(w) \/ LookForAsset(w) \/ AddAsset(w)
  \/ \E u \in Users, h \in load.hashes, asked \in SUBSET load.areas : DeleteAsset(w, u, h, asked)
  \/ DeleteArea(w) \/ EraseAsset(w)
  \/ \E u \in Users, g \in 1 .. load.lastGroup : DropGroup(w, u, g)
  \/ DeleteGroup(w)
  \/ \E u \in Users, g \in 0 .. load.lastGroup : CreateGroup(w, u, g)
  \/ InsertGroup(w)
  \/ \E u \in Users, g \in 1 .. load.lastGroup, t \in 0 .. load.lastGroup : MoveGroup(w, u, g, t)
  \/ WalkUp(w) \/ UpdateParent(w)
  \/ \E u \in Users, h \in load.hashes, g \in 0 .. load.lastGroup : MoveAsset(w, u, h, g)

JobStep(t) == DeleteLevel(t) \/ FindOnly(t) \/ RemoveOnly(t) \/ NextLevel(t)

Next ==
  \/ \E w \in Workers : Handlers(w)
  \/ \E t \in tasks : RemoveFile(t) \/ JobStep(t) \/ LevelFails(t) \/ JobFails(t)

Spec == Init /\ [][Next]_vars

\* asynq serves its queue for as long as the process runs, and the database
\* does not fail for ever.
FairSpec ==
  /\ Spec
  /\ WF_vars(\E t \in tasks : DeleteLevel(t))
  /\ WF_vars(\E t \in tasks : FindOnly(t) \/ RemoveOnly(t) \/ NextLevel(t))

-----------------------------------------------------------------------------
(* Properties *)

Quiet(u) == u \notin overlap /\ ~Busy(u) /\ ~fault

\* The storage a user is charged for is the sum of the user's files, for a
\* user who waits for each operation and its background job to end: uploads,
\* partial deletions, moves and group deletions add and subtract the same
\* amounts, although each does it in another statement.
UsedIsSum ==
  \A u \in Users : Quiet(u) => used[u] = SizeOf(FilesOf(u))

\* Whatever subset of areas a deletion reaches, a file and the rows of its
\* areas come and go together, or the file could neither be deleted nor
\* uploaded again.
RowsHaveCopies ==
  \A u \in Users : Quiet(u) =>
    \A h \in Hashes : <<u, h>> \in rows <=> copies[<<u, h>>] # {}

\* For a user who waits for each operation and its background job to end,
\* groups form a tree under the root, whatever mix of creations, moves and
\* deletions came before: the walks of MoveAssetGroup and of the deletions end.
\* Two moves that overlap can make a circle, in which they do not.
GroupsFormTree ==
  \A u \in Users : Quiet(u) =>
    \A g \in live[u] : parent[g] \in live[u] \cup {Root} /\ Level(u, g)[MaxGroup] = {}

MaxSize == Max({Size[h] : h \in Hashes} \cup {0})

\* The quota is compared long before the size is added.  However uploads,
\* deletions and group deletions interleave, a user exceeds it by at most one
\* file for each other request that can be under way.
QuotaOverdraftBounded ==
  \A u \in Users \ Tenants :
    used[u] <= Total[u] + (Cardinality(Workers) - 1) * MaxSize

\* The limit on groups is compared before the row is inserted.
GroupsBounded ==
  \A u \in Users : Cardinality(live[u]) <= GroupLimit + Cardinality(Workers) - 1

\* A group deletion ends, though levels fail and are queued again and workers
\* die; together with GroupsFormTree, nothing of the group is left then.
GroupDeletionEnds == []<>(\A t \in tasks : t.kind # "group")

\* "CheckUserAssetIsOnly judges whether the user's file is the only one": a
\* file is queued for removal from an area only while no other user has it.
OnlyCopyRemoved ==
  [][\A w \in Workers : \A t \in tasks' \ tasks :
       t.kind = "file" /\ At(w, "only") /\ req'[w] # req[w] =>
         \A v \in Users \ {req[w].u} : t.a \notin copies[<<v, t.h>>]]_vars
=============================================================================
