--------------------------- MODULE AreaDirectory ----------------------------
(***************************************************************************)
(* How an API process finds the schedulers: the configurations in etcd,    *)
(* their copies in Redis, which nobody removes (core/statistics/etcd.go),  *)
(* and what a process keeps in memory, the areas by country, the clients   *)
(* and the addresses of areas (src/api/api.go, src/api/common.go). Names   *)
(* of areas have a continent and a country.                                *)
(***************************************************************************)
EXTENDS Integers, FiniteSets, FiniteSetsExt

CONSTANTS
    Areas, DefaultAreaId,
    CountryOf,           \* [Areas -> the country in the name of an area]
    Hosts, NoHost,       \* schedulers by address
    FirstEtcd,           \* [Areas -> Hosts \cup {NoHost}]
    Loaders, Request,    \* goroutines that load the configurations; of these,
                         \* Request serves the process, the others write Redis only
    MaxAreaChanges, MaxLoads

VARIABLES
    etcd, config,        \* the scheduler of an area in etcd, and in Redis
    load,                \* loadSchedulerConfigs of a loader
    lastSync,            \* lastSyncTimeStamp: never, fresh or ten minutes old
    cityAreaIDs,         \* cityAreaIDMaps: the areas known to the process
    client,              \* areaSchMaps
    ipOf, areaOf,        \* AreaIDIPMaps, AreaIPIDMaps
    astray,              \* history: areas put in front that were not asked for
    had,                 \* history: the schedulers an area has had
    behind,              \* history: areas that changed after the load last begun, or
                         \* with a load that had read them before, or were not SET
    changes, loads
areaVars == <<etcd, config, load, lastSync, cityAreaIDs, client, ipOf, areaOf, astray,
              had, behind, changes, loads>>

NotLoading == [pc |-> "not"]
NoArea == ""
Listed(seen) == {a \in Areas : seen[a] # NoHost}

TypeOK ==
    /\ {etcd, config, client, ipOf} \subseteq [Areas -> Hosts \cup {NoHost}]
    /\ areaOf \in [Hosts -> Areas \cup {NoArea}]
    /\ lastSync \in {"never", "fresh", "old"}
    /\ cityAreaIDs \subseteq Areas
    /\ astray \subseteq Areas

Init ==
    /\ etcd = FirstEtcd
    /\ config = [a \in Areas |-> NoHost]
    /\ load = [l \in Loaders |-> NotLoading]
    /\ lastSync = "never"
    /\ cityAreaIDs = {}
    /\ client = [a \in Areas |-> NoHost]
    /\ ipOf = [a \in Areas |-> NoHost]
    /\ areaOf = [h \in Hosts |-> NoArea]
    /\ astray = {}
    /\ had = [a \in Areas |-> {FirstEtcd[a]} \ {NoHost}]
    /\ behind = Listed(FirstEtcd)
    /\ changes = 0 /\ loads = 0

\* A scheduler comes, goes or moves.
EtcdChanges(a, h) ==
    /\ changes < MaxAreaChanges
    /\ etcd[a] # h
    /\ changes' = changes + 1
    /\ etcd' = [etcd EXCEPT ![a] = h]
    /\ had' = [had EXCEPT ![a] = @ \cup ({h} \ {NoHost})]
    /\ behind' = behind \cup {a}
    /\ UNCHANGED <<config, load, lastSync, cityAreaIDs, client, ipOf, areaOf, astray, loads>>
-----------------------------------------------------------------------------
(* loadSchedulerConfigs.                                                   *)

\* GetServers.
Get(l) ==
    /\ load[l] = NotLoading
    /\ loads < MaxLoads
    /\ loads' = loads + 1
    /\ load' = [load EXCEPT ![l] = [pc |-> "set", seen |-> etcd, todo |-> Listed(etcd)]]

\* The watch of etcd has seen a change, or another process has a request.
FetchSchedulers(l) ==
    /\ l # Request
    /\ Get(l)
    /\ UNCHANGED <<etcd, config, lastSync, cityAreaIDs, client, ipOf, areaOf, astray, had,
                   behind, changes>>

\* GetAndStoreAreaIDs. The time of the first call is the only one ever stored: no
\* call in the ten minutes after it asks etcd, and every later one does.
GetAndStoreAreaIDs ==
    /\ lastSync # "fresh"
    /\ lastSync' = IF lastSync = "never" THEN "fresh" ELSE lastSync
    /\ \/ Get(Request)
       \/ load[Request] = NotLoading /\ UNCHANGED <<load, loads>>    \* no etcd
    /\ UNCHANGED <<etcd, config, cityAreaIDs, client, ipOf, areaOf, astray, had, behind,
                   changes>>

TenMinutes ==
    /\ lastSync = "fresh"
    /\ lastSync' = "old"
    /\ UNCHANGED <<etcd, config, load, cityAreaIDs, client, ipOf, areaOf, astray, had,
                   behind, changes, loads>>

\* SetSchedulerConfigs, an area at a time. An area is up to date when it has not
\* changed since and no other load is about to write what it was before.
SetSchedulerConfigs(l, a) ==
    /\ load[l].pc = "set"
    /\ a \in load[l].todo
    /\ config' = [config EXCEPT ![a] = load[l].seen[a]]
    /\ load' = [load EXCEPT ![l].todo = @ \ {a}]
    /\ behind' = IF /\ load[l].seen[a] = etcd[a]
                    /\ \A k \in Loaders \ {l} : load[k] # NotLoading /\ a \in load[k].todo
                                                  => load[k].seen[a] = etcd[a]
                 THEN behind \ {a} ELSE behind \cup {a}
    /\ UNCHANGED <<etcd, lastSync, cityAreaIDs, client, ipOf, areaOf, astray, had, changes,
                   loads>>

\* SET fails: the error is logged, nil is returned, and the load goes on.
SetFails(l, a) ==
    /\ load[l].pc = "set"
    /\ a \in load[l].todo
    /\ load' = [load EXCEPT ![l].todo = @ \ {a}]
    /\ behind' = behind \cup {a}
    /\ UNCHANGED <<etcd, config, lastSync, cityAreaIDs, client, ipOf, areaOf, astray, had,
                   changes, loads>>

\* FetchSchedulersFromEtcd returns: the process that asked for the areas knows them.
Loaded(l) ==
    /\ load[l].pc = "set"
    /\ load[l].todo = {}
    /\ load' = [load EXCEPT ![l] = NotLoading]
    /\ cityAreaIDs' = IF l = Request THEN Listed(load[l].seen) ELSE cityAreaIDs
    /\ UNCHANGED <<etcd, config, lastSync, client, ipOf, areaOf, astray, had, behind,
                   changes, loads>>
-----------------------------------------------------------------------------
(* Requests.                                                               *)

\* getSchedulerClient: an area Redis does not have gets the default area's, which
\* is kept as that area's. A client that is kept is never asked for again.
GetSchedulerClient(a) ==
    /\ client[a] = NoHost
    /\ LET b == IF config[a] = NoHost THEN DefaultAreaId ELSE a
       IN  client' = [client EXCEPT ![b] = IF @ = NoHost THEN config[b] ELSE @]

UseScheduler(a) ==
    /\ GetSchedulerClient(a)
    /\ UNCHANGED <<etcd, config, load, lastSync, cityAreaIDs, ipOf, areaOf, astray, had,
                   behind, changes, loads>>

\* getAreaIDsCountry, and the areas of these countries: all of them when there
\* are none.
AreasOf(countries) ==
    LET asked == {a \in cityAreaIDs : CountryOf[a] \in countries}
    IN  IF asked = {} THEN cityAreaIDs ELSE asked

\* GetAreaIPByID, for an area a request has to do with: the address is looked up
\* once and kept, both ways.
GetAreaIPByID(a) ==
    /\ a \in cityAreaIDs
    /\ ipOf[a] = NoHost
    /\ config[a] # NoHost
    /\ ipOf' = [ipOf EXCEPT ![a] = config[a]]
    /\ areaOf' = [areaOf EXCEPT ![config[a]] = a]
    /\ UNCHANGED <<etcd, config, load, lastSync, cityAreaIDs, client, astray, had, behind,
                   changes, loads>>

\* GetNearestAreaIDByIP: the nearest of the addresses known, as an area.
Nearest(areas) == {areaOf[ipOf[a]] : a \in {b \in areas : ipOf[b] # NoHost}}

\* getAreaIDsByAreaID puts the nearest area in front of the others. The areas of
\* the visitor's country are preferred if they were asked for.
GetAreaIDsByAreaID(countries) ==
    LET aids == AreasOf(countries)
    IN  /\ Cardinality(aids) > 1
        /\ \E tadis \in {aids} \cup {{a \in aids : CountryOf[a] = k} : k \in countries} :
             \E nearest \in Nearest(tadis) : astray' = astray \cup ({nearest} \ aids)

ChooseAreas(countries) ==
    /\ GetAreaIDsByAreaID(countries)
    /\ UNCHANGED <<etcd, config, load, lastSync, cityAreaIDs, client, ipOf, areaOf, had,
                   behind, changes, loads>>
-----------------------------------------------------------------------------
Next ==
    \/ \E a \in Areas : \/ \E h \in Hosts \cup {NoHost} : EtcdChanges(a, h)
                        \/ \E l \in Loaders : SetSchedulerConfigs(l, a) \/ SetFails(l, a)
                        \/ UseScheduler(a) \/ GetAreaIPByID(a)
    \/ \E l \in Loaders : FetchSchedulers(l) \/ Loaded(l)
    \/ GetAndStoreAreaIDs
    \/ TenMinutes
    \/ \E countries \in SUBSET {CountryOf[a] : a \in Areas} : ChooseAreas(countries)

Spec == Init /\ [][Next]_areaVars
-----------------------------------------------------------------------------
(* Properties.                                                             *)

\* Redis has the scheduler of an area as soon as one load has written it since
\* the last change in etcd, unless another had read the old one before and
\* writes it after, or a SET fails later; only an area that is gone stays.
ConfigsFollow ==
    \A a \in Areas \ behind : etcd[a] # NoHost => config[a] = etcd[a]

\* A client that is kept for an area leads to a scheduler the area has had: the
\* default area's is never taken for another's.
ClientsOfArea == \A a \in Areas : client[a] = NoHost \/ client[a] \in had[a]

\* A request is given areas it has asked for. The address of the nearest one is
\* turned back into an area with a map that keeps an area's first address for
\* good, so that a scheduler's address that has passed to another area brings
\* one in that was not asked for.
AnswersAsked ==
    \/ astray = {}
    \/ \E a, b \in Areas : a # b /\ had[a] \cap had[b] # {}

=============================================================================
