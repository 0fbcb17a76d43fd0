----------------------------- MODULE DeviceDaily -----------------------------
(***************************************************************************)
(* What a round of statistics writes about the devices: the jobs of        *)
(* NodeFetcher.Fetch, which turn the cumulative profit a scheduler reports *)
(* into a row per day, and the parts of Finalize that read those rows, the *)
(* profit of yesterday and the incentive for the devices that were online  *)
(* longest (src/core/statistics/fetcher_node.go, stat_node_daily.go and    *)
(* src/core/dao/online_incentive.go).                                      *)
(*                                                                         *)
(* The row of a day is what remains of the cumulative profit when the days *)
(* before it are taken away. The day of the row is the day of the fetch,   *)
(* the days before are counted when the job runs, and midnight may fall    *)
(* between the two, as it may fall between any two statements.             *)
(***************************************************************************)
EXTENDS Integers, Sequences, FiniteSetsExt

CONSTANTS
    Edges,           \* the devices of node_type 1
    Days,            \* bound: the last day
    Gains,           \* what the devices may have earned, or lost as a penalty, at a fetch
    MaxFetches,      \* bounds on the fetches, and on the statements that fail
    MaxErrors

VARIABLES
    today,
    earned,          \* the cumulative profit a scheduler reports
    node,            \* device_info: cumulative_profit, yesterday_profit, online_incentive_profit
    daily,           \* device_info_daily: income by day
    incentive,       \* device_online_incentive: reward by day, or NoRow
    jobs,            \* the queue of the fetcher
    work,            \* the goroutine that runs the jobs and Finalize
    fetches,
    settled,         \* history: the last job of a device ran on the day of its fetch
    errors
dailyVars == <<today, earned, node, daily, incentive, jobs, work, fetches, settled, errors>>

NoRow == -1
Waiting == [pc |-> "idle"]
AllDays == 1 .. Days

SumOver(f, S) == MapThenSumSet(LAMBDA x : f[x], S)

TypeOK ==
    /\ today \in AllDays
    /\ earned \in [Edges -> Int]
    /\ node \in [Edges -> [profit : Int, yesterday : Int, incentive : Int]]
    /\ daily \in [Edges -> [AllDays -> Int]]
    /\ incentive \in [Edges -> [AllDays -> Nat \cup {NoRow}]]
    /\ Len(jobs) <= fetches
    /\ work.pc \in {"idle", "info", "before", "daily", "wait", "profit", "check", "generate"}

Init ==
    /\ today = 1
    /\ earned = [d \in Edges |-> 0]
    /\ node = [d \in Edges |-> [profit |-> 0, yesterday |-> 0, incentive |-> 0]]
    /\ daily = [d \in Edges |-> [t \in AllDays |-> 0]]
    /\ incentive = [d \in Edges |-> [t \in AllDays |-> NoRow]]
    /\ jobs = <<>>
    /\ work = Waiting
    /\ fetches = 0
    /\ settled = [d \in Edges |-> TRUE]
    /\ errors = 0

Midnight ==
    /\ today < Days
    /\ today' = today + 1
    /\ UNCHANGED <<earned, node, daily, incentive, jobs, work, settled, errors, fetches>>

\* A page of nodes becomes a job: what is reported of them, and the day it was
\* asked.
Fetch ==
    /\ fetches < MaxFetches
    /\ fetches' = fetches + 1
    /\ \E gain \in Gains :
         /\ earned' = [d \in Edges |-> earned[d] + gain[d]]
         /\ jobs' = Append(jobs, [day |-> today, profit |-> earned'])
    /\ UNCHANGED <<today, node, daily, incentive, work, settled, errors>>
-----------------------------------------------------------------------------
(* A job. An error is logged and the next statement runs.                  *)

TakeJob ==
    /\ work.pc = "idle"
    /\ jobs # <<>>
    /\ work' = [pc |-> "info", day |-> Head(jobs).day, profit |-> Head(jobs).profit]
    /\ jobs' = Tail(jobs)
    /\ UNCHANGED <<today, earned, node, daily, incentive, settled, errors, fetches>>

UpsertDeviceInfo ==
    /\ work.pc = "info"
    /\ node' = [d \in Edges |-> [node[d] EXCEPT !.profit = work.profit[d]]]
    /\ work' = [work EXCEPT !.pc = "before"]
    /\ settled' = [d \in Edges |-> FALSE]
    /\ UNCHANGED <<today, earned, daily, incentive, jobs, errors, fetches>>

\* mutant: today's row is counted too
SumDeviceDailyToday ==
    /\ work.pc = "before"
    /\ work' = [pc |-> "daily", day |-> work.day, profit |-> work.profit,
                before |-> [d \in Edges |-> SumOver(daily[d], 1 .. today)],
                onTime |-> work.day = today]
    /\ UNCHANGED <<today, earned, node, daily, incentive, jobs, settled, errors, fetches>>

\* The sum of the rows up to the end of yesterday, as it is now.
SumDeviceDailyBeforeDate ==
    /\ work.pc = "before"
    /\ work' = [pc |-> "daily", day |-> work.day, profit |-> work.profit,
                before |-> [d \in Edges |-> SumOver(daily[d], 1 .. today - 1)],
                onTime |-> work.day = today]
    /\ UNCHANGED <<today, earned, node, daily, incentive, jobs, settled, errors, fetches>>

UpsertDeviceInfoDaily ==
    /\ work.pc = "daily"
    /\ daily' = [d \in Edges |-> [daily[d] EXCEPT ![work.day] = work.profit[d] - work.before[d]]]
    /\ settled' = [d \in Edges |-> work.onTime /\ node[d].profit = work.profit[d]]
    /\ work' = [pc |-> "wait"]
    /\ UNCHANGED <<today, earned, node, incentive, jobs, errors, fetches>>

\* The statement fails: a failed query ends SumDailyReward.
JobFails ==
    /\ work.pc \in {"info", "before", "daily"}
    /\ errors < MaxErrors
    /\ errors' = errors + 1
    /\ settled' = [d \in Edges |-> FALSE]
    /\ work' = IF work.pc = "info" THEN [work EXCEPT !.pc = "before"] ELSE [pc |-> "wait"]
    /\ UNCHANGED <<today, earned, node, daily, incentive, jobs, fetches>>

\* hasFinished: ten seconds without a job, or the next job.
HasFinished ==
    /\ work.pc = "wait"
    /\ \/ jobs # <<>> /\ work' = Waiting
       \/ jobs = <<>> /\ work' = [pc |-> "profit"]
    /\ UNCHANGED <<today, earned, node, daily, incentive, jobs, settled, errors, fetches>>
-----------------------------------------------------------------------------
(* Finalize.                                                               *)

SumDeviceInfoProfit ==
    /\ work.pc = "profit"
    /\ node' = [d \in Edges |-> [node[d] EXCEPT !.yesterday =
                                   IF today = 1 THEN 0 ELSE daily[d][today - 1]]]
    /\ work' = [pc |-> "check"]
    /\ UNCHANGED <<today, earned, daily, incentive, jobs, settled, errors, fetches>>

\* Is there a row for yesterday?
IsGeneratedOnlineIncentive ==
    /\ work.pc = "check"
    /\ work' = IF \E d \in Edges, t \in AllDays : t >= today - 1 /\ incentive[d][t] # NoRow
               THEN Waiting ELSE [pc |-> "generate"]
    /\ UNCHANGED <<today, earned, node, daily, incentive, jobs, settled, errors, fetches>>

\* One transaction: a row for each of the devices that were online longest
\* (the online times are left open), then an increment for every device with a
\* row since yesterday. A row that exists already undoes it all.
GenerateEligibleOnlineDevices ==
    /\ work.pc = "generate"
    /\ today > 1
    /\ \E S \in SUBSET Edges \ {{}} :
         LET rows == [d \in Edges |-> IF d \in S
                        THEN [incentive[d] EXCEPT ![today - 1] = Max({0, node[d].yesterday})]
                        ELSE incentive[d]]
         IN  IF \E d \in S : incentive[d][today - 1] # NoRow
             THEN UNCHANGED <<node, incentive>>
             ELSE /\ incentive' = rows
                  /\ node' = [d \in Edges |->
                       IF \E t \in AllDays : t >= today - 1 /\ rows[d][t] # NoRow
                       THEN [node[d] EXCEPT !.incentive = @ + node[d].yesterday]
                       ELSE node[d]]
    /\ work' = Waiting
    /\ UNCHANGED <<today, earned, daily, jobs, settled, errors, fetches>>

\* No device was online yesterday, or a statement of Finalize fails: the error
\* is logged and the part is skipped.
Skip(pc, next) ==
    /\ work.pc = pc
    /\ work' = next
    /\ UNCHANGED <<today, earned, node, daily, incentive, jobs, settled, fetches>>

FinalizeFails ==
    \/ /\ errors < MaxErrors
       /\ errors' = errors + 1
       /\ \/ Skip("profit", [pc |-> "check"])
          \/ Skip("check", Waiting)
    \/ Skip("generate", Waiting) /\ UNCHANGED errors

Next ==
    \/ Midnight
    \/ Fetch
    \/ TakeJob
    \/ UpsertDeviceInfo
    \/ SumDeviceDailyBeforeDate
    \/ UpsertDeviceInfoDaily
    \/ JobFails
    \/ HasFinished
    \/ SumDeviceInfoProfit
    \/ IsGeneratedOnlineIncentive
    \/ GenerateEligibleOnlineDevices
    \/ FinalizeFails

Spec == Init /\ [][Next]_dailyVars
-----------------------------------------------------------------------------
(* Properties.                                                             *)

\* The rows of a device add up to its cumulative profit as soon as a job has
\* run on the day of its fetch, even when an earlier job ran after midnight or
\* failed and left the sum short.
DaysAddUp ==
    \A d \in Edges : settled[d] => SumOver(daily[d], AllDays) = node[d].profit

\* online_incentive_profit is explained by the rows of device_online_incentive:
\* it never holds more, and it holds less only when a device was paid for a day
\* on which it had lost.
IncentivesAreExplained ==
    \A d \in Edges :
        LET paid == {t \in AllDays : incentive[d][t] # NoRow}
        IN  /\ node[d].incentive <= SumOver(incentive[d], paid)
            /\ (\A t \in paid : incentive[d][t] > 0)
                 => node[d].incentive = SumOver(incentive[d], paid)

=============================================================================
