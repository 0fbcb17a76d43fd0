---------------------------- MODULE DeviceProfile -----------------------------
(***************************************************************************)
(* The page of a node that its owner's app polls: GetDeviceProfileHandler  *)
(* of src/api/nodes.go. An answer carries the time at which its request    *)
(* came; the next request sends that time back, and is told the income     *)
(* only if a round of statistics has ended since (SumAllNodes writes its   *)
(* time to Redis) and if the checksum that the last answer left in Redis   *)
(* is another. The checksum is kept for the node, not for the client.      *)
(*                                                                         *)
(* A node without a row is asked for at its scheduler and inserted, unless *)
(* it has been asked for in vain too often: nothing resets that counter.   *)
(***************************************************************************)
EXTENDS Integers

CONSTANTS
    Clients,
    MaxUnsync,          \* CheckUnSyncNodeID's 5
    MaxIncome,          \* bounds on what the node earns, and on the clock
    LastTime

VARIABLES
    clock,
    income,             \* what the scheduler reports; 0: it does not know the node
    node,               \* device_info: the income in the row, 0 without a row
    page,               \* the job of a fetch: the income it will write
    unsync,             \* the counter in Redis
    finalizer,          \* SumAllNodes: where it stands, its time
    lastUpdate,         \* TITAN::FULL_NODE_INFO: its time, 0 without a key
    profile,            \* TITAN::NODE::PROFILE: the income of the checksum, 0 without one
    poll,               \* a client's request
    client,             \* a client: the income it shows, the time it sends back
    reported, summed,   \* history: the income a job has written, a round has found
    disturbed,          \* history: more than one client, a lost answer, an error of Redis
    late                \* history: clients who asked while a round was ending
profileVars == <<clock, income, node, page, unsync, finalizer, lastUpdate, profile, poll,
    client, reported, summed, disturbed, late>>
statVars == <<income, node, page, finalizer, lastUpdate, reported, summed>>
pollVars == <<unsync, profile, poll, client, disturbed, late>>

Idle == [pc |-> "idle"]
Incomes == 0 .. MaxIncome
Times == 0 .. LastTime

TypeOK ==
    /\ clock \in Times
    /\ income \in Incomes /\ node \in Incomes /\ page \in Incomes
    /\ unsync \in Nat
    /\ lastUpdate \in Times
    /\ profile \in Incomes
    /\ client \in [Clients -> [income : Incomes, since : Times]]
    /\ poll \in [Clients -> {Idle}
                   \cup [pc : {"device"}, now : Times, changed : BOOLEAN]
                   \cup [pc : {"insert", "filter"}, now : Times,
                         changed : BOOLEAN, income : Incomes]]

Init ==
    /\ clock = 1
    /\ income = 0 /\ node = 0 /\ page = 0
    /\ unsync = 0
    /\ finalizer = Idle
    /\ lastUpdate = 0
    /\ profile = 0
    /\ poll = [c \in Clients |-> Idle]
    /\ client = [c \in Clients |-> [income |-> 0, since |-> 0]]
    /\ reported = 0 /\ summed = 0
    /\ disturbed = FALSE
    /\ late = {}

Tick ==
    /\ clock < LastTime
    /\ clock' = clock + 1
    /\ UNCHANGED <<statVars, pollVars>>

\* The node registers with its scheduler, or earns.
Earn ==
    /\ income < MaxIncome
    /\ income' = income + 1
    /\ UNCHANGED <<clock, node, page, finalizer, lastUpdate, reported, summed, pollVars>>
-----------------------------------------------------------------------------
(* A round of statistics.                                                  *)

Fetch ==
    /\ income > 0 /\ page = 0
    /\ page' = income
    /\ UNCHANGED <<clock, income, node, finalizer, lastUpdate, reported, summed, pollVars>>

BulkUpsertDeviceInfo ==
    /\ page > 0 /\ finalizer = Idle
    /\ node' = page
    /\ reported' = page
    /\ page' = 0
    /\ UNCHANGED <<clock, income, finalizer, lastUpdate, summed, pollVars>>

\* Finalize, when there is no job: SumFullNodeInfoFromDeviceInfo.
SumFullNodeInfo ==
    /\ page = 0 /\ finalizer = Idle
    /\ finalizer' = [pc |-> "summed", income |-> node]
    /\ UNCHANGED <<clock, income, node, page, lastUpdate, reported, summed, pollVars>>

\* fullNodeInfo.Time; the files of the storage providers are summed next.
SumAllNodes ==
    /\ finalizer.pc = "summed"
    /\ finalizer' = [pc |-> "timed", income |-> finalizer.income, time |-> clock]
    /\ UNCHANGED <<clock, income, node, page, lastUpdate, reported, summed, pollVars>>

CacheFullNodeInfo ==
    /\ finalizer.pc = "timed"
    /\ lastUpdate' = finalizer.time
    /\ summed' = finalizer.income
    /\ finalizer' = Idle
    /\ UNCHANGED <<clock, income, node, page, reported, pollVars>>

\* The database or Redis fails: nothing is cached.
SumFails ==
    /\ finalizer # Idle
    /\ finalizer' = Idle
    /\ UNCHANGED <<clock, income, node, page, lastUpdate, reported, summed, pollVars>>
-----------------------------------------------------------------------------
(* GetDeviceProfileHandler.                                                *)

Goto(c, request) == poll' = [poll EXCEPT ![c] = request]

\* The time of the request, and whether a round has ended since the last.
DataChanged(c) == lastUpdate = 0 \/ client[c].since = 0 \/ lastUpdate >= client[c].since

GetDeviceProfile(c) ==
    /\ poll[c] = Idle
    /\ Goto(c, [pc |-> "device", now |-> clock, changed |-> DataChanged(c)])
    /\ disturbed' = (disturbed \/ \E d \in Clients \ {c} : client[d].since > 0 \/ poll[d] # Idle)
    /\ late' = IF finalizer.pc = "timed" THEN late \cup {c} ELSE late
    /\ UNCHANGED <<clock, statVars, unsync, profile, client>>

WithIncome(c, pc, value) ==
    [pc |-> pc, now |-> poll[c].now, changed |-> poll[c].changed, income |-> value]

GetDeviceInfo(c) ==
    /\ poll[c].pc = "device" /\ node > 0
    /\ Goto(c, WithIncome(c, "filter", node))
    /\ UNCHANGED <<clock, statVars, unsync, profile, client, disturbed, late>>

CheckUnSyncNodeID == unsync <= MaxUnsync

\* The scheduler's answer for a node without a row.
GetNodeInfoFromScheduler(c) ==
    /\ poll[c].pc = "device" /\ node = 0
    /\ CheckUnSyncNodeID
    /\ income > 0
    /\ Goto(c, WithIncome(c, "insert", income))
    /\ UNCHANGED <<clock, statVars, unsync, profile, client, disturbed, late>>

\* INSERT IGNORE: a row that is there by now stays.
BulkAddDeviceInfo(c) ==
    /\ poll[c].pc = "insert"
    /\ node' = IF node = 0 THEN poll[c].income ELSE node
    /\ Goto(c, [poll[c] EXCEPT !.pc = "filter"])
    /\ UNCHANGED <<clock, income, page, finalizer, lastUpdate, reported, summed,
                   unsync, profile, client, disturbed, late>>

\* The scheduler does not know the node, or does not answer.
NodeNotFound(c) ==
    /\ poll[c].pc = "device" /\ node = 0
    /\ unsync' = IF CheckUnSyncNodeID THEN unsync + 1 ELSE unsync
    /\ Goto(c, Idle)
    /\ UNCHANGED <<clock, statVars, profile, client, disturbed, late>>

\* An answer with an income, or without one, arrives or does not; the client shows
\* what it has been told.
Answered(c, told) ==
    /\ Goto(c, Idle)
    /\ \/ /\ client' = [client EXCEPT ![c] =
               [income |-> IF told > 0 THEN told ELSE @.income, since |-> poll[c].now]]
          /\ late' = IF told > 0 THEN late \ {c} ELSE late
          /\ UNCHANGED disturbed
       \/ /\ disturbed' = TRUE
          /\ UNCHANGED <<client, late>>

Response(c) == IF poll[c].changed THEN poll[c].income ELSE 0

\* The checksums of the answer replace those in Redis, also when the answer is
\* empty; a request without a time gets the unfiltered answer.
FilterResponse(c) ==
    /\ poll[c].pc = "filter"
    /\ profile' = Response(c)
    /\ Answered(c, IF client[c].since > 0 /\ Response(c) = profile THEN 0 ELSE Response(c))
    /\ UNCHANGED <<clock, statVars, unsync>>

\* An error of Redis leaves an empty answer.
FilterFails(c) ==
    /\ poll[c].pc = "filter"
    /\ client[c].since > 0
    /\ disturbed' = TRUE
    /\ client' = [client EXCEPT ![c].since = poll[c].now]
    /\ Goto(c, Idle)
    /\ UNCHANGED <<clock, statVars, unsync, profile, late>>

\* The key of the checksums lives for an hour.
ProfileExpires ==
    /\ profile # 0
    /\ profile' = 0
    /\ UNCHANGED <<clock, statVars, unsync, poll, client, disturbed, late>>

Poll(c) ==
    \/ GetDeviceProfile(c) \/ GetDeviceInfo(c) \/ GetNodeInfoFromScheduler(c)
    \/ BulkAddDeviceInfo(c) \/ NodeNotFound(c) \/ FilterResponse(c) \/ FilterFails(c)

Next ==
    \/ Tick \/ Earn
    \/ Fetch \/ BulkUpsertDeviceInfo
    \/ SumFullNodeInfo \/ SumAllNodes \/ CacheFullNodeInfo \/ SumFails
    \/ \E c \in Clients : Poll(c)
    \/ ProfileExpires

Spec == Init /\ [][Next]_profileVars
-----------------------------------------------------------------------------
(* Properties.                                                             *)

\* The only client of a node, as long as no answer is lost, shows at least what the
\* last round has found once it will be told that nothing has changed: the times of
\* requests and rounds, the checksums and the expiry leave no update out. The
\* exception is a request that came while a round was ending, after its time was
\* taken and before it was cached.
ProfilesFollow ==
    \A c \in Clients :
        (~disturbed /\ c \notin late /\ poll[c] = Idle /\ client[c].since > lastUpdate)
          => client[c].income >= summed

\* A query that finds no row never takes back what a job has written meanwhile.
RowsStay == node >= reported

=============================================================================
