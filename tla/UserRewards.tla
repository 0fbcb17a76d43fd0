----------------------------- MODULE UserRewards -----------------------------
(***************************************************************************)
(* SumUserReward of src/core/statistics/stat_node_daily.go: once the jobs  *)
(* of a round have written device_info, the totals of every user are       *)
(* compared with what the users table holds, and the difference earns a    *)
(* commission for the user who referred them and for the one above.        *)
(*                                                                         *)
(* Four statements carry the result: user_l1_reward and users.reward are   *)
(* absolute, users.referral_reward and user_reward_detail are increments.  *)
(* Nothing ties them together, any of them may fail, and the process may   *)
(* die between two of them.                                                *)
(*                                                                         *)
(* Amounts are in thirds of a point, so that the whole points of the       *)
(* column user_l1_reward.reward can differ from the profit they stand for; *)
(* commissions are in thirds of a hundredth of a point.                    *)
(***************************************************************************)
EXTENDS Integers, FiniteSets, FiniteSetsExt

CONSTANTS
    Users, NoUser,        \* NoUser: an empty user_id or referrer_user_id
    Referrer,             \* users.referrer_user_id, written when a user registers
    Devices, NodeType,    \* node_type: 1 an edge (L2), 2 a candidate (L1)
    FirstOwner,           \* device_info.user_id at the start
    Profits,              \* bound: what schedulers report for a device of each type
    Commission, ParentCommission, Threshold, LastLevel, \* kol_level_config
    KolUsers, Binders,    \* who an administrator handles, who binds a device
    MaxRounds, MaxFaults  \* bounds on rounds, and on errors and crashes

Levels == 0 .. LastLevel
Third == 3                \* a point

VARIABLES
    deviceInfo,   \* device_info: user_id, cumulative_profit, enough online_time
    kol,          \* kol: a user's level and who set it, or none
    users,        \* users: reward, device_count, referral_reward
    l1Reward,     \* user_l1_reward: whole points
    detail,       \* user_reward_detail: <<user_id, from_user_id>>
    fin,          \* SumUserReward: where it stands and its local variables
    credited,     \* history: the changes whose commissions were paid, by user
    dropped,      \* history: the changes lost between users.reward and referral_reward
    unmatched,    \* history: users whose user_l1_reward was not the L1 part of what
                  \* users.reward held afterwards
    rounds, faults
paidVars == <<credited, dropped, unmatched>>
tableVars == <<users, l1Reward, detail>>
rewardVars == <<deviceInfo, kol, tableVars, fin, paidVars, rounds, faults>>

NoKol == [level |-> 0, comment |-> "none"]
Idle == [pc |-> "idle"]

SumOver(f, S) == MapThenSumSet(LAMBDA x : f[x], S)

\* The profit of the devices of one type that a user owns.
Profit(u, type) ==
    SumOver([d \in Devices |-> deviceInfo[d].profit],
            {d \in Devices : deviceInfo[d].user = u /\ NodeType[d] = type})
DeviceCount(u) == Cardinality({d \in Devices : deviceInfo[d].user = u})
Eligible(u) == Cardinality({d \in Devices : deviceInfo[d].user = u /\ deviceInfo[d].online})

TypeOK ==
    /\ deviceInfo \in [Devices -> [user : Users \cup {NoUser}, profit : Int,
                                   online : BOOLEAN]]
    /\ kol \in [Users -> [level : Levels, comment : {"none", "system", "admin"}]]
    /\ users \in [Users -> [reward : Int, devices : 0 .. Cardinality(Devices), referral : Int]]
    /\ l1Reward \in [Users -> Nat]
    /\ detail \in [Users \X Users -> Int]
    /\ fin.pc \in {"idle", "levels", "collect", "l1", "users", "referral", "details"}
    /\ {credited, dropped} \subseteq [Users -> Int]
    /\ unmatched \subseteq Users

Init ==
    /\ deviceInfo = [d \in Devices |-> [user |-> FirstOwner[d], profit |-> 0, online |-> FALSE]]
    /\ kol = [u \in Users |-> NoKol]
    /\ users = [u \in Users |-> [reward |-> 0, devices |-> 0, referral |-> 0]]
    /\ l1Reward = [u \in Users |-> 0]
    /\ detail = [p \in Users \X Users |-> 0]
    /\ fin = Idle
    /\ credited = [u \in Users |-> 0]
    /\ dropped = [u \in Users |-> 0]
    /\ unmatched = {}
    /\ rounds = 0
    /\ faults = 0
-----------------------------------------------------------------------------
(* What goes on around a round.                                            *)

\* A job of the fetcher writes what a scheduler says of a device, whatever the
\* row held: penalties lower the profit. Jobs and rounds are run by one goroutine,
\* one after the other. The statement for a node that is offline writes the profit
\* alike.
BulkUpsertDeviceInfo(d) ==
    /\ fin = Idle
    /\ \E x \in Profits[NodeType[d]] :
         deviceInfo' = [deviceInfo EXCEPT ![d].profit = x, ![d].online = TRUE]
    /\ UNCHANGED <<kol, tableVars, fin, paidVars, rounds, faults>>

\* A user binds a device, or the next job gives it back to who has signed for it:
\* all it has earned so far becomes the user's.
BindDevice(d, u) ==
    /\ deviceInfo[d].user = NoUser
    /\ deviceInfo' = [deviceInfo EXCEPT ![d].user = u]
    /\ UNCHANGED <<kol, tableVars, fin, paidVars, rounds, faults>>

\* Its owner unbinds it: all it has earned is nobody's.
UnbindDevice(d) ==
    /\ deviceInfo[d].user # NoUser
    /\ deviceInfo' = [deviceInfo EXCEPT ![d].user = NoUser]
    /\ UNCHANGED <<kol, tableVars, fin, paidVars, rounds, faults>>

\* An administrator makes a user a KOL; a user who is one already is refused.
AddKOL(u, level) ==
    /\ kol[u] = NoKol
    /\ kol' = [kol EXCEPT ![u] = [level |-> level, comment |-> "admin"]]
    /\ UNCHANGED <<deviceInfo, tableVars, fin, paidVars, rounds, faults>>

UpdateKOL(u, level) ==
    /\ kol[u] # NoKol
    /\ kol' = [kol EXCEPT ![u] = [level |-> level, comment |-> "admin"]]
    /\ UNCHANGED <<deviceInfo, tableVars, fin, paidVars, rounds, faults>>

DeleteKOL(u) ==
    /\ kol[u] # NoKol
    /\ kol' = [kol EXCEPT ![u] = NoKol]
    /\ UNCHANGED <<deviceInfo, tableVars, fin, paidVars, rounds, faults>>
-----------------------------------------------------------------------------
(* SumUserReward.                                                          *)

\* The totals of every user with a device, in one query.
SumAllUsersReward ==
    [u \in {v \in Users : DeviceCount(v) > 0} |->
        [l1 |-> Profit(u, 2), l2 |-> Profit(u, 1), devices |-> DeviceCount(u),
         eligible |-> Eligible(u)]]

AdminAddedKolLevel == {u \in Users : kol[u].comment = "admin"}

Start ==
    /\ fin = Idle
    /\ rounds < MaxRounds
    /\ rounds' = rounds + 1
    /\ fin' = [pc |-> "levels", sums |-> SumAllUsersReward,
               floor |-> [u \in AdminAddedKolLevel |-> kol[u].level]]
    /\ UNCHANGED <<deviceInfo, kol, tableVars, paidVars, faults>>

\* The nodes that count for a referrer: those of the users they brought in.
Referrers == {Referrer[u] : u \in DOMAIN fin.sums} \ {NoUser}
Brought(r) == MapThenSumSet(LAMBDA u : fin.sums[u].eligible,
                  {u \in DOMAIN fin.sums : Referrer[u] = r})

\* The first level whose threshold is not reached, and the last level beyond;
\* a level an administrator has set is the least.
LevelOf(r) ==
    LET reached == {l \in Levels : l = LastLevel \/ Brought(r) < Threshold[l]}
        level == Min(reached)
    IN  IF r \in DOMAIN fin.floor THEN Max({level, fin.floor[r]}) ELSE level

\* The levels are written back, whatever the table holds by now.
ApplyUserLevel ==
    /\ fin.pc = "levels"
    /\ kol' = [u \in Users |->
                 IF u \notin Referrers THEN kol[u]
                 ELSE [level |-> LevelOf(u),
                       comment |-> IF kol[u] = NoKol THEN "system" ELSE kol[u].comment]]
    /\ fin' = [pc |-> "collect", sums |-> fin.sums,
               level |-> [u \in Users |-> IF u \in Referrers THEN LevelOf(u) ELSE 0]]
    /\ UNCHANGED <<deviceInfo, tableVars, paidVars, rounds, faults>>

\* What has been earned since the last round that wrote the users table.
Changed(u) == fin.sums[u].l2 - (users[u].reward - l1Reward[u])

\* The commission of an ancestor for the change of a user.
CommissionOf(r, u) ==
    CASE r = Referrer[u] -> Changed(u) * Commission[fin.level[r]]
      [] Referrer[u] # NoUser /\ r = Referrer[Referrer[u]] ->
           Changed(u) * ParentCommission[fin.level[r]]
      [] OTHER -> 0

CollectChanges ==
    /\ fin.pc = "collect"
    /\ LET told == DOMAIN fin.sums
       IN  fin' = [pc |-> "l1",
                   rewards |-> [u \in {v \in told : \/ Changed(v) # 0
                                                    \/ fin.sums[v].devices # users[v].devices}
                                  |-> fin.sums[u]],
                   changed |-> [u \in told |-> Changed(u)],
                   details |-> [p \in Users \X Users |->
                                  IF p[2] \in told THEN CommissionOf(p[1], p[2]) ELSE 0]]
    /\ UNCHANGED <<deviceInfo, kol, tableVars, paidVars, rounds, faults>>

\* The column holds whole points, and is not written for less than one.
Rounded(x) == Third * ((x + 1) \div Third)
NotHeld(u) ==
    LET l1 == fin.rewards[u].l1
    IN  l1 % Third # 0 \/ (l1 < Third /\ l1Reward[u] # l1)

\* A list without rows is an error of the database library, and the round ends.
UpdateUserL1Rewards ==
    /\ fin.pc = "l1"
    /\ LET todos == {u \in DOMAIN fin.rewards : fin.rewards[u].l1 >= Third}
       IN  IF todos = {}
           THEN fin' = Idle /\ UNCHANGED <<l1Reward, unmatched>>
           ELSE /\ l1Reward' = [u \in Users |-> IF u \in todos THEN Rounded(fin.rewards[u].l1)
                                                ELSE l1Reward[u]]
                /\ unmatched' = unmatched \cup {u \in DOMAIN fin.rewards : NotHeld(u)}
                /\ fin' = [fin EXCEPT !.pc = "users"]
    /\ UNCHANGED <<deviceInfo, kol, users, detail, credited, dropped, rounds, faults>>

\* mutant: the L1 part of the reward is left out
UpdateUserRewardsL2 ==
    /\ fin.pc = "users"
    /\ users' = [u \in Users |->
                   IF u \notin DOMAIN fin.rewards THEN users[u]
                   ELSE [users[u] EXCEPT !.reward = fin.rewards[u].l2,
                                         !.devices = fin.rewards[u].devices]]
    /\ fin' = [fin EXCEPT !.pc = "referral"]
    /\ UNCHANGED <<deviceInfo, kol, l1Reward, detail, paidVars, rounds, faults>>

UpdateUserRewards ==
    /\ fin.pc = "users"
    /\ users' = [u \in Users |->
                   IF u \notin DOMAIN fin.rewards THEN users[u]
                   ELSE [users[u] EXCEPT !.reward = fin.rewards[u].l2 + fin.rewards[u].l1,
                                         !.devices = fin.rewards[u].devices]]
    /\ fin' = [fin EXCEPT !.pc = "referral"]
    /\ UNCHANGED <<deviceInfo, kol, l1Reward, detail, paidVars, rounds, faults>>

\* What a round would pay commissions for.
ChangeOf(u) == IF u \in DOMAIN fin.changed THEN fin.changed[u] ELSE 0

UpdateReferrerReward ==
    /\ fin.pc = "referral"
    /\ users' = [r \in Users |->
                   [users[r] EXCEPT !.referral =
                        @ + SumOver([u \in Users |-> fin.details[<<r, u>>]], Users)]]
    /\ credited' = [u \in Users |-> credited[u] + ChangeOf(u)]
    /\ fin' = [fin EXCEPT !.pc = "details"]
    /\ UNCHANGED <<deviceInfo, kol, l1Reward, detail, dropped, unmatched, rounds, faults>>

UpdateUserRewardDetails ==
    /\ fin.pc = "details"
    /\ detail' = [p \in Users \X Users |-> detail[p] + fin.details[p]]
    /\ fin' = Idle
    /\ UNCHANGED <<deviceInfo, kol, users, l1Reward, paidVars, rounds, faults>>

\* A statement fails or the process dies: the local variables are gone.
Abort ==
    /\ fin # Idle
    /\ faults < MaxFaults
    /\ faults' = faults + 1
    /\ fin' = Idle
    /\ dropped' = IF fin.pc = "referral" THEN [u \in Users |-> dropped[u] + ChangeOf(u)]
                  ELSE dropped
    /\ unmatched' = IF fin.pc = "users" THEN unmatched \cup DOMAIN fin.rewards ELSE unmatched
    /\ UNCHANGED <<deviceInfo, kol, tableVars, credited, rounds>>

Round ==
    \/ Start
    \/ ApplyUserLevel
    \/ CollectChanges
    \/ UpdateUserL1Rewards
    \/ UpdateUserRewards
    \/ UpdateReferrerReward
    \/ UpdateUserRewardDetails

Next ==
    \/ Round
    \/ Abort
    \/ \E d \in Devices : BulkUpsertDeviceInfo(d) \/ UnbindDevice(d)
    \/ \E d \in Devices, u \in Binders : BindDevice(d, u)
    \/ \E u \in KolUsers, l \in Levels : AddKOL(u, l) \/ UpdateKOL(u, l)
    \/ \E u \in KolUsers : DeleteKOL(u)

Spec == Init /\ [][Next]_rewardVars

-----------------------------------------------------------------------------
(* Properties.                                                             *)

\* Whatever statements fail, whatever penalties take back and whoever binds or
\* unbinds devices: every gain and loss in the profit that users.reward tells has
\* had its commissions paid exactly once, or lost them to a failure between the
\* two statements. Excepted are the users for whom user_l1_reward was once not
\* what users.reward contains: the integer column cannot hold the L1 profit, or a
\* failure came between these two statements.
EveryChangePaidOnce ==
    fin = Idle =>
        \A u \in Users \ unmatched :
            credited[u] + dropped[u] = users[u].reward - l1Reward[u]

\* As long as nothing has failed, and between two rounds, the referral_reward of
\* an ancestor is the sum of the details that explain it.
ReferralsExplained ==
    faults = 0 /\ fin = Idle =>
        \A u \in Users : users[u].referral = SumOver([v \in Users |-> detail[<<u, v>>]], Users)

=============================================================================
