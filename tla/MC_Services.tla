---------------------------- MODULE MC_Services -----------------------------
(* A small instance of each service. Values that a .cfg cannot hold are here. *)
EXTENDS Services, TLC

\* Three generations; an edge and a candidate of the youngest, which may
\* change hands. A candidate has whole points or a fraction of one, penalties take back.
ReferrerOf == "u" :> "r" @@ "r" :> "g" @@ "g" :> NoName
TypeOfNode == "edge" :> 1 @@ "cand" :> 2
OwnerAtFirst == "edge" :> "u" @@ "cand" :> "u"
ProfitsByType == <<{2, 4}, {3, 4}>>
CommissionOfLevel == 0 :> 1 @@ 1 :> 2
ThresholdOfLevel == 0 :> 2 @@ 1 :> 5

\* Two edges, of which one may lose a point; three days.
TwoGains == {"a" :> 2 @@ "b" :> 1, "a" :> -1 @@ "b" :> 0}

OneMiner == "m" :> {"owner", "worker"}

\* Two areas of one country and one that comes later; three schedulers.
TwoCountries == "a" :> "x" @@ "b" :> "x" @@ "c" :> "y"
EtcdAtFirst == "a" :> 1 @@ "b" :> 2 @@ "c" :> 0

\* The parameters around the tiers' bounds, one at a time with all durations.
Orders ==
    LET Durations == {0, 1, 24, 25, 72, 73, 168, 169, 720, 721}
        Asked(cpus, rams, storages) ==
            [cpu : cpus, ram : rams, storage : storages, duration : Durations]
    IN  Asked({0, 1, 4, 5, 8, 9, 16, 17, 32, 33}, {1}, {40})
        \cup Asked({1}, {0, 4, 5, 16, 17, 32, 33, 64, 65}, {40})
        \cup Asked({1}, {1}, {39, 100, 101, 500, 501, 2000, 2001, 4000, 4001})

\* A report without details, and reports of one node, of two, of a node that failed
\* once or only failed, and of one that took no time.
Ran(n, s, e) == [node |-> n, state |-> s, elapsed |-> e]
TwoClaims ==
    {[user |-> "u", type |-> "upload", state |-> "success"],
     [user |-> NoName, type |-> "download", state |-> "failure"]}
SixBodies ==
    {{}, {Ran("m", "success", 1)}, {Ran("m", "success", 1), Ran("n", "success", 1)},
     {Ran("m", "success", 1), Ran("m", "failure", 1)},
     {Ran("m", "failure", 1)}, {Ran("m", "success", 0)}}
=============================================================================
