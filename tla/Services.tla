------------------------------ MODULE Services ------------------------------
(***************************************************************************)
(* The parts of the explorer that share no state, side by side: a          *)
(* behaviour picks one service and the others rest. What a constant means  *)
(* is said in the module that declares it; some names that several modules *)
(* use are told apart here.                                                *)
(***************************************************************************)
EXTENDS Integers, Sequences, FiniteSets

CONSTANTS
    Requests,   \* requests under way at a time, of each service
    NoName      \* an empty username, password, address or hash

ASSUME RequestsAssumption == IsFiniteSet(Requests) /\ Requests # {}

-----------------------------------------------------------------------------
CONSTANTS Users, Referrer, Devices, NodeType, FirstOwner, Profits, Commission, ParentCommission,
    Threshold, LastLevel, KolUsers, Binders, MaxRounds, MaxFaults
VARIABLES deviceInfo, kol, users, l1Reward, detail, fin, credited, dropped, unmatched,
    rounds, faults
rewardVars == <<deviceInfo, kol, users, l1Reward, detail, fin, credited, dropped,
    unmatched, rounds, faults>>
UR == INSTANCE UserRewards WITH NoUser <- NoName
ASSUME RewardsAssumption ==
    /\ IsFiniteSet(Users) /\ NoName \notin Users /\ IsFiniteSet(Devices)
    /\ Referrer \in [Users -> Users \cup {NoName}] /\ KolUsers \subseteq Users /\ Binders \subseteq Users
    /\ NodeType \in [Devices -> {1, 2}] /\ FirstOwner \in [Devices -> Users \cup {NoName}]
    /\ Profits \in [{1, 2} -> SUBSET Int] /\ LastLevel \in Nat
    /\ Commission \in [UR!Levels -> Int] /\ ParentCommission \in [UR!Levels -> Int]

CONSTANTS Edges, RowDays, Gains, MaxFetches, MaxErrors
VARIABLES today, earned, node, daily, incentive, jobs, work, fetches, settled, errors
dailyVars == <<today, earned, node, daily, incentive, jobs, work, fetches, settled,
    errors>>
DD == INSTANCE DeviceDaily WITH Days <- RowDays
ASSUME DailyAssumption == RowDays \in Nat \ {0} /\ Gains \subseteq [Edges -> Int]

CONSTANTS Names, Wallets, MaxCodes, MaxNonces, MaxLost
ASSUME NamesAssumption == IsFiniteSet(Names) /\ MaxCodes \in Nat /\ MaxLost \in Nat
VARIABLES user, referralCode, nonce, session, request, born, issued, lost
accountVars == <<user, referralCode, nonce, session, request, born, issued, lost>>
AC == INSTANCE Accounts

CONSTANTS Owners, Nodes, NoNode, MaxSignatures, MaxOwnerRounds, MaxFailures
ASSUME OwnersAssumption == MaxSignatures \in Nat /\ NoNode \notin Nodes
VARIABLES device, signature, userCache, dailyUser, call, round, bound, fetched, failed
ownerVars == <<device, signature, userCache, dailyUser, call, round, bound, fetched,
    failed>>
DO == INSTANCE DeviceOwner WITH
    NoOwner <- NoName, Calls <- Requests, MaxFetches <- MaxOwnerRounds

CONSTANTS NodeUsers, MaxBreaks
ASSUME NodeUsersAssumption == NodeUsers # {}
VARIABLES nodeRow, underway, operation, disturbed, breaks
nodeVars == <<nodeRow, underway, operation, disturbed, breaks>>
NO == INSTANCE NodeOperation WITH Operations <- Requests

CONSTANTS LinkOwners, Targets, Urls, Passwords, LinkTime, MaxLinks
ASSUME LinksAssumption == LinkTime \in Nat \ {0}
VARIABLES links, writer, clock, promised, mixed
linkVars == <<links, writer, clock, promised, mixed>>
SL == INSTANCE ShareLinks WITH
    Owners <- LinkOwners, NoPass <- NoName, Writers <- Requests

CONSTANTS Drains, EnableVIP, MaxVisits, MaxTotalFlow, NoFlow, MaxBegun, MaxIgnored
VARIABLES visits, groupVisits, traffic, flowCache, downloads, recorded, visitor, drain,
    granted, served, begun, ignored, overlapped
shareVars == <<visits, groupVisits, traffic, flowCache, downloads, recorded, visitor,
    drain, granted, served, begun, ignored, overlapped>>
SA == INSTANCE SharedAssets WITH Visitors <- Requests
ASSUME SharesAssumption == MaxVisits \in Nat /\ MaxTotalFlow \in Nat

CONSTANTS FileAreas, FirstArea, Syncs, MaxShares, MaxDownloads, MaxFileSteps
VARIABLES tempAsset, offered, unsynced, stored, fileRequest, syncJob, steps
tempVars == <<tempAsset, offered, unsynced, stored, fileRequest, syncJob, steps>>
TF == INSTANCE TempFiles WITH FileRequests <- Requests
ASSUME FilesAssumption ==
    FirstArea \in FileAreas /\ MaxShares \in Nat \ {0} /\ MaxDownloads \in Nat

CONSTANTS StorageUsers, KeplrAddresses, MaxPasswords, MaxOutages
ASSUME PasswordsAssumption == MaxPasswords \in Nat
VARIABLES userMap, kubPwd, account, platformCall, generated, outages, unsettled
platformVars == <<userMap, kubPwd, account, platformCall, generated, outages,
    unsettled>>
PA == INSTANCE PlatformAccounts WITH
    Addresses <- KeplrAddresses, NoAddress <- NoName, PlatformCalls <- Requests

CONSTANTS KeyNames, MaxKeys, MaxKeysMade
ASSUME KeysAssumption == MaxKeysMade \in Nat
VARIABLES apiKeys, keyRequest, made, valid, raced
keyVars == <<apiKeys, keyRequest, made, valid, raced>>
AK == INSTANCE ApiKeys WITH KeyRequests <- Requests

CONSTANTS Miners, Addresses, SignerOf, LastDate
ASSUME DatesAssumption == LastDate \in Nat \ {0}
VARIABLES signInfo, signRequest, now, signatures
signVars == <<signInfo, signRequest, now, signatures>>
MS == INSTANCE MinerSign WITH SignRequests <- Requests

CONSTANTS Macs, MaxAddresses, MaxBatchFailures
ASSUME BatchesAssumption == MaxAddresses \in Nat
VARIABLES batchSet, batchHash, addresses, batchRequest, added, batchFailures, unsure
batchVars == <<batchSet, batchHash, addresses, batchRequest, added, batchFailures, unsure>>
EB == INSTANCE EdgeBatches WITH BatchRequests <- Requests

CONSTANTS Areas, DefaultAreaId, CountryOf, Hosts, NoHost, FirstEtcd, Request, MaxAreaChanges,
    MaxLoads
ASSUME AreasAssumption ==
    /\ DefaultAreaId \in Areas /\ Request \in Requests
    /\ FirstEtcd \in [Areas -> Hosts \cup {NoHost}]
VARIABLES etcd, config, load, lastSync, cityAreaIDs, client, ipOf, areaOf, astray, had,
    behind, changes, loads
areaVars == <<etcd, config, load, lastSync, cityAreaIDs, client, ipOf, areaOf, astray,
    had, behind, changes, loads>>
AD == INSTANCE AreaDirectory WITH Loaders <- Requests

CONSTANTS Params, Ages, Buyers, Hashes
VARIABLES order, age
priceVars == <<order, age>>
OP == INSTANCE OrderPrice WITH Accounts <- Buyers, NoAccount <- NoName, NoHash <- NoName
ASSUME PricesAssumption == Ages \subseteq Nat

CONSTANTS HourParts, Window, Retention, LastHour, MaxReports, MaxDelay
VARIABLES hour, profit, pages, hourRows, reports, overtaken
hourVars == <<hour, profit, pages, hourRows, reports, overtaken>>
HS == INSTANCE HourlyStats WITH clock <- hour, Parts <- HourParts
\* Rows outlive the chart by more than the time a job waits.
ASSUME HoursAssumption ==
    /\ HourParts \in Nat \ {0, 1} /\ Window \in Nat /\ Retention \in Nat /\ LastHour \in Nat
    /\ MaxReports \in Nat /\ MaxDelay \in Nat /\ MaxDelay <= (Retention - Window) * HourParts

CONSTANTS Clients, MaxUnsync, MaxAppIncome, LastTime
VARIABLES tick, income, profiled, page, unsync, finalizer, lastUpdate, profile, poll, app,
    reported, summed, mislaid, late
profileVars == <<tick, income, profiled, page, unsync, finalizer, lastUpdate, profile, poll,
    app, reported, summed, mislaid, late>>
DP == INSTANCE DeviceProfile WITH
    clock <- tick, node <- profiled, client <- app, disturbed <- mislaid,
    MaxIncome <- MaxAppIncome
ASSUME ProfilesAssumption == MaxAppIncome \in Nat /\ LastTime \in Nat \ {0}

CONSTANTS Traces, Uploaders, Claims, Bodies, TraceNodes, LastDay, MaxTransfers
VARIABLES transferLog, detailRows, told, transferReport, reportDay, opened, failedReports, received
transferVars == <<transferLog, detailRows, told, transferReport, reportDay, opened, failedReports,
    received>>
TL == INSTANCE TransferLog WITH
    detail <- detailRows, report <- transferReport, today <- reportDay, failed <- failedReports,
    Users <- Uploaders, NoUser <- NoName, Nodes <- TraceNodes, Reports <- Requests,
    MaxReports <- MaxTransfers
ASSUME TransfersAssumption ==
    /\ IsFiniteSet(Traces) /\ IsFiniteSet(TraceNodes) /\ LastDay \in Nat
    /\ Claims \subseteq [user : Uploaders \cup {NoName}, type : TL!Types, state : TL!States]
-----------------------------------------------------------------------------
VARIABLE service

ServiceNames == {"rewards", "daily", "accounts", "owner", "operation", "links", "shares",
                 "temp", "platform", "keys", "miners", "batches", "areas",
                 "prices", "hours", "profiles", "transfers"}

serviceVars ==
    <<service, rewardVars, dailyVars, accountVars, ownerVars, nodeVars, linkVars,
      shareVars, tempVars, platformVars, keyVars, signVars, batchVars,
      areaVars, priceVars, hourVars, profileVars, transferVars>>

Init ==
    /\ service \in ServiceNames
    /\ UR!Init /\ DD!Init /\ AC!Init /\ DO!Init /\ NO!Init /\ SL!Init
    /\ SA!Init /\ TF!Init /\ PA!Init /\ AK!Init /\ MS!Init /\ EB!Init /\ AD!Init
    /\ OP!Init /\ HS!Init /\ DP!Init /\ TL!Init

\* The next step of one service; the others rest.
Next ==
    /\ UNCHANGED service
    /\ IF service = "rewards" THEN UR!Next ELSE UNCHANGED rewardVars
    /\ IF service = "daily" THEN DD!Next ELSE UNCHANGED dailyVars
    /\ IF service = "accounts" THEN AC!Next ELSE UNCHANGED accountVars
    /\ IF service = "owner" THEN DO!Next ELSE UNCHANGED ownerVars
    /\ IF service = "operation" THEN NO!Next ELSE UNCHANGED nodeVars
    /\ IF service = "links" THEN SL!Next ELSE UNCHANGED linkVars
    /\ IF service = "shares" THEN SA!Next ELSE UNCHANGED shareVars
    /\ IF service = "temp" THEN TF!Next ELSE UNCHANGED tempVars
    /\ IF service = "platform" THEN PA!Next ELSE UNCHANGED platformVars
    /\ IF service = "keys" THEN AK!Next ELSE UNCHANGED keyVars
    /\ IF service = "miners" THEN MS!Next ELSE UNCHANGED signVars
    /\ IF service = "batches" THEN EB!Next ELSE UNCHANGED batchVars
    /\ IF service = "areas" THEN AD!Next ELSE UNCHANGED areaVars
    /\ IF service = "prices" THEN OP!Next ELSE UNCHANGED priceVars
    /\ IF service = "hours" THEN HS!Next ELSE UNCHANGED hourVars
    /\ IF service = "profiles" THEN DP!Next ELSE UNCHANGED profileVars
    /\ IF service = "transfers" THEN TL!Next ELSE UNCHANGED transferVars

Spec == Init /\ [][Next]_serviceVars
-----------------------------------------------------------------------------
(* The properties of the services, under their names or, where a service   *)
(* has several, under a common one. A service at rest stays in its initial *)
(* state, which belongs to its own behaviours too: there it is looked at.  *)

\* The type invariants.
TypeOK ==
    /\ service = "rewards" => UR!TypeOK
    /\ service = "daily" => DD!TypeOK
    /\ service = "accounts" => AC!TypeOK
    /\ service = "owner" => DO!TypeOK
    /\ service = "operation" => NO!TypeOK
    /\ service = "links" => SL!TypeOK
    /\ service = "shares" => SA!TypeOK
    /\ service = "temp" => TF!TypeOK
    /\ service = "platform" => PA!TypeOK
    /\ service = "keys" => AK!TypeOK
    /\ service = "miners" => MS!TypeOK
    /\ service = "batches" => EB!TypeOK
    /\ service = "areas" => AD!TypeOK
    /\ service = "prices" => OP!TypeOK
    /\ service = "hours" => HS!TypeOK
    /\ service = "profiles" => DP!TypeOK
    /\ service = "transfers" => TL!TypeOK

\* Every change of a user's profit has its commissions paid at most once, and the
\* details explain them.
RewardsCorrect ==
    service = "rewards" => UR!EveryChangePaidOnce /\ UR!ReferralsExplained

\* The rows of the days add up to the profit, the incentives to their rows.
DailyRowsAgree ==
    /\ service = "daily" => DD!DaysAddUp /\ DD!IncentivesAreExplained
    /\ service = "hours" => HS!HoursShowTheirIncome /\ HS!ChartIsBounded
    /\ service = "profiles" => DP!ProfilesFollow /\ DP!RowsStay

\* Referrers form a forest.
ReferrersAreOlder == service = "accounts" => AC!ReferrersAreOlder

\* A device belongs to nobody who has not bound it.
OwnersBound == service = "owner" => DO!OwnersBound

\* The row and the scheduler agree on a deactivation and on the reports of transfers,
\* which count where their traces were opened.
OperationsAgree ==
    /\ service = "operation" => NO!OperationsAgree
    /\ service = "transfers" => TL!CountedWhereOpened /\ TL!ReportsAreWhole

\* A link does not expire before it was changed.
ExpireDaysNotNegative == service = "links" => SL!ExpireDaysNotNegative

\* Limits on visits, shares and downloads hold up to the requests that overlap;
\* what is recorded was served, and an area that offers a file holds it.
LimitsHold ==
    /\ service = "shares" => SA!OpensBounded /\ SA!DownloadsRecorded
    /\ service = "temp" => TF!CountersBounded /\ TF!OfferedWhereStored
    /\ service = "batches" => EB!AddressesBounded
    /\ service = "prices" => OP!RefundsBounded /\ OP!EveryPartIsPriced

\* The database holds the password that KubeSphere has.
PasswordsAgree == service = "platform" => PA!PasswordsAgree

\* A key works from the answer of its creation to that of its deletion, the
\* signature of a miner verifies, the batches can be listed, a link opens with its
\* password, and clients are sent to the scheduler of their area.
KeysAsAnswered ==
    /\ service = "keys" => AK!KeysAsAnswered
    /\ service = "miners" => MS!SignaturesVerify
    /\ service = "batches" => EB!BatchesReadable
    /\ service = "links" => SL!LinksAsPromised
    /\ service = "areas" => AD!ClientsOfArea /\ AD!ConfigsFollow /\ AD!AnswersAsked

=============================================================================
