-------------------------- MODULE Statistics_proof --------------------------
(***************************************************************************)
(* Proofs about the statistics of Services: the rows of days and hours,    *)
(* the page of a node and the rewards of users. With the invariants of     *)
(* Services_proof they close the types of all services.                    *)
(***************************************************************************)
EXTENDS Services_proof

-----------------------------------------------------------------------------
(* The rows of the days: DeviceDaily.                                      *)

DailyJobs == [day : DD!AllDays, profit : [Edges -> Int]]

DailyTypes ==
    /\ DD!TypeOK
    /\ fetches \in Nat /\ settled \in [Edges -> BOOLEAN] /\ jobs \in Seq(DailyJobs)
    /\ work \in [pc : {"idle", "wait", "profit", "check", "generate"}]
         \cup [pc : {"info", "before"}, day : DD!AllDays, profit : [Edges -> Int]]
         \cup [pc : {"daily"}, day : DD!AllDays, profit : [Edges -> Int],
               before : [Edges -> Int], onTime : BOOLEAN]

\* No job and no row is of a day to come.
NoneAhead ==
    /\ \A i \in DOMAIN jobs : jobs[i].day <= today
    /\ work.pc \in {"info", "before", "daily"} => work.day <= today
    /\ \A d \in Edges, t \in DD!AllDays : t > today => daily[d][t] = 0

\* A job that has counted on its day: the rows before it are still the same, and
\* there are none after it.
CountedInTime ==
    work.pc = "daily" /\ work.onTime => \A d \in Edges :
        /\ work.before[d] = Total(daily[d], 1 .. work.day - 1)
        /\ \A t \in DD!AllDays : t > work.day => daily[d][t] = 0

AddedUp == \A d \in Edges : settled[d] => Total(daily[d], DD!AllDays) = node[d].profit

Paid(d) == {t \in DD!AllDays : incentive[d][t] # DD!NoRow}

\* Once it has been checked that there is no row for yesterday, there is none,
\* also after midnight.
NotYetPaid ==
    work.pc = "generate" => \A d \in Edges, t \in DD!AllDays :
        t >= today - 1 => incentive[d][t] = DD!NoRow

Explained ==
    \A d \in Edges :
        /\ node[d].incentive <= Total(incentive[d], Paid(d))
        /\ (\A t \in Paid(d) : incentive[d][t] > 0)
             => node[d].incentive = Total(incentive[d], Paid(d))

DailyInv ==
    DailyTypes /\ NoneAhead /\ CountedInTime /\ AddedUp /\ NotYetPaid /\ Explained

LEMMA SumsOfDays == ASSUME NEW f, NEW S PROVE DD!SumOver(f, S) = Total(f, S)
BY Zenon DEF DD!SumOver, DD!MapThenSumSet, DD!MapThenFoldSet, Total, MapThenSumSet, MapThenFoldSet

LEMMA DaysFinite ==
  /\ DD!AllDays \subseteq Nat /\ IsFiniteSet(DD!AllDays) /\ 1 \in DD!AllDays
  /\ \A S \in SUBSET DD!AllDays : IsFiniteSet(S)
  /\ \A t \in DD!AllDays : 1 .. t - 1 \subseteq DD!AllDays
<1>1. IsFiniteSet(DD!AllDays)
  BY DailyAssumption, FS_Interval DEF DD!AllDays
<1>2. /\ DD!AllDays \subseteq Nat /\ 1 \in DD!AllDays
      /\ \A t \in DD!AllDays : 1 .. t - 1 \subseteq DD!AllDays
  BY DailyAssumption DEF DD!AllDays
<1>3. \A S \in SUBSET DD!AllDays : IsFiniteSet(S)
  BY <1>1, FS_Subset
<1>4. QED
  BY <1>1, <1>2, <1>3

LEMMA DailyInit == DD!Init => DailyInv
<1> SUFFICES ASSUME DD!Init PROVE DailyInv
  OBVIOUS
<1>1. DailyTypes
  BY DaysFinite DEF DD!Init, DailyTypes, DD!TypeOK, DD!Waiting, DD!NoRow
<1>2. NoneAhead /\ CountedInTime /\ NotYetPaid
  BY DEF DD!Init, NoneAhead, CountedInTime, NotYetPaid, DD!Waiting
<1>3. AddedUp
  BY DaysFinite, TotalZero DEF DD!Init, AddedUp
<1>4. Explained
  <2>1. \A d \in Edges : Paid(d) = {} /\ node[d].incentive = 0
    BY DEF DD!Init, Paid
  <2>2. QED
    BY <2>1, TotalEmpty DEF Explained
<1>5. QED
  BY <1>1, <1>2, <1>3, <1>4 DEF DailyInv

LEMMA WorkFields ==
  ASSUME DailyTypes
  PROVE  /\ work.pc \in {"idle", "wait", "profit", "check", "generate", "info", "before", "daily"}
         /\ work.pc \in {"info", "before", "daily"} =>
              work.day \in DD!AllDays /\ work.profit \in [Edges -> Int]
         /\ work.pc = "daily" => work.before \in [Edges -> Int] /\ work.onTime \in BOOLEAN
         /\ work.pc \in {"info", "before"} =>
              work \in [pc : {"info", "before"}, day : DD!AllDays, profit : [Edges -> Int]]
         /\ today \in Nat /\ RowDays \in Nat /\ today <= RowDays /\ today >= 1
<1>1. today \in Nat /\ RowDays \in Nat /\ today <= RowDays /\ today >= 1
  BY DailyAssumption DEF DailyTypes, DD!TypeOK, DD!AllDays
<1>2. QED
  BY <1>1 DEF DailyTypes

\* Steps that write neither rows nor the profits of nodes.
LEMMA DailyMoves ==
  ASSUME DailyInv, DailyTypes', UNCHANGED <<node, daily, incentive>>, today' = today,
         \A i \in DOMAIN jobs' : jobs'[i].day <= today,
         work'.pc \in {"info", "before", "daily"} => work'.day <= today,
         CountedInTime', NotYetPaid',
         \A d \in Edges : settled'[d] => settled[d]
  PROVE  DailyInv'
<1>1. NoneAhead' /\ AddedUp' /\ Explained'
  BY DEF DailyInv, NoneAhead, AddedUp, Explained, Paid
<1>2. QED
  BY <1>1 DEF DailyInv

LEMMA DayStep == ASSUME DailyInv, DD!Midnight \/ DD!Fetch PROVE DailyInv'
<1>0. DailyTypes /\ NoneAhead /\ CountedInTime /\ AddedUp /\ NotYetPaid /\ Explained
  BY DEF DailyInv
<1>1. CASE DD!Midnight
  <2>1. today' = today + 1 /\ today < RowDays
        /\ UNCHANGED <<earned, node, daily, incentive, jobs, work, settled, errors, fetches>>
    BY <1>1 DEF DD!Midnight
  <2>2. today' \in DD!AllDays /\ today \in Nat /\ today' > today
    BY <1>0, <2>1, WorkFields DEF DD!AllDays
  <2>3. DailyTypes'
    BY <1>0, <2>1, <2>2 DEF DailyTypes, DD!TypeOK
  <2>4. NoneAhead' /\ NotYetPaid'
    <3>1. \A i \in DOMAIN jobs : jobs[i].day \in Nat
      <4>1. \A i \in DOMAIN jobs : jobs[i] \in DailyJobs
        BY <1>0 DEF DailyTypes
      <4>2. QED
        BY <4>1, DaysFinite DEF DailyJobs
    <3>2. work.pc \in {"info", "before", "daily"} => work.day \in Nat
      BY <1>0, WorkFields, DaysFinite
    <3>3. \A t \in DD!AllDays : t \in Nat
      BY DaysFinite
    <3>4. QED
      BY <1>0, <2>1, <2>2, <3>1, <3>2, <3>3 DEF NoneAhead, NotYetPaid
  <2>5. CountedInTime' /\ AddedUp' /\ Explained'
    BY <1>0, <2>1 DEF CountedInTime, AddedUp, Explained, Paid
  <2>6. QED
    BY <2>3, <2>4, <2>5 DEF DailyInv
<1>2. CASE DD!Fetch
  <2>1. PICK gain \in Gains : /\ earned' = [d \in Edges |-> earned[d] + gain[d]]
                              /\ jobs' = Append(jobs, [day |-> today, profit |-> earned'])
    BY <1>2 DEF DD!Fetch
  <2>2. /\ fetches' = fetches + 1 /\ fetches \in Nat
        /\ UNCHANGED <<today, node, daily, incentive, work, settled, errors>>
    BY <1>0, <1>2 DEF DD!Fetch, DailyTypes
  <2>3. earned' \in [Edges -> Int]
    BY <1>0, <2>1, DailyAssumption DEF DailyTypes, DD!TypeOK
  <2> DEFINE new == [day |-> today, profit |-> earned']
  <2>4. new \in DailyJobs /\ new.day = today
    BY <1>0, <2>3 DEF DailyTypes, DD!TypeOK, DailyJobs
  <2>5. jobs' = Append(jobs, new) /\ jobs \in Seq(DailyJobs)
    BY <1>0, <2>1 DEF DailyTypes
  <2> HIDE DEF new
  <2>6. /\ jobs' \in Seq(DailyJobs) /\ Len(jobs') = Len(jobs) + 1 /\ Len(jobs) \in Nat
        /\ \A i \in DOMAIN jobs' : jobs'[i] = new \/ (i \in DOMAIN jobs /\ jobs'[i] = jobs[i])
    BY <2>4, <2>5
  <2>7. DailyTypes'
    BY <1>0, <2>2, <2>3, <2>6 DEF DailyTypes, DD!TypeOK
  <2>8. \A i \in DOMAIN jobs' : jobs'[i].day <= today
    BY <1>0, <2>4, <2>6, WorkFields DEF NoneAhead
  <2>9. CountedInTime' /\ NotYetPaid'
    BY <1>0, <2>2 DEF CountedInTime, NotYetPaid
  <2>10. QED
    BY <1>0, <2>2, <2>7, <2>8, <2>9, DailyMoves DEF NoneAhead
<1>3. QED
  BY <1>1, <1>2

\* The steps of a job before it writes its row.
LEMMA JobStep ==
  ASSUME DailyInv,
         \/ DD!TakeJob \/ DD!UpsertDeviceInfo \/ DD!SumDeviceDailyBeforeDate \/ DD!JobFails
         \/ DD!HasFinished
  PROVE  DailyInv'
<1>0. DailyTypes /\ NoneAhead /\ CountedInTime /\ AddedUp /\ NotYetPaid /\ Explained
  BY DEF DailyInv
<1>1. CASE DD!TakeJob
  <2> DEFINE new == [pc |-> "info", day |-> Head(jobs).day, profit |-> Head(jobs).profit]
  <2>1. /\ work' = new /\ jobs' = Tail(jobs) /\ jobs # <<>>
        /\ UNCHANGED <<today, earned, node, daily, incentive, settled, errors, fetches>>
    BY <1>1 DEF DD!TakeJob
  <2>2. jobs \in Seq(DailyJobs) /\ Head(jobs) = jobs[1] /\ 1 \in DOMAIN jobs /\ Head(jobs) \in DailyJobs
    BY <1>0, <2>1 DEF DailyTypes
  <2>3. /\ jobs' \in Seq(DailyJobs) /\ Len(jobs') = Len(jobs) - 1 /\ Len(jobs) \in Nat
        /\ \A i \in DOMAIN jobs' : i + 1 \in DOMAIN jobs /\ jobs'[i] = jobs[i + 1]
    BY <2>1, <2>2
  <2>4. /\ new \in [pc : {"info", "before"}, day : DD!AllDays, profit : [Edges -> Int]]
        /\ new.pc = "info" /\ new.day = Head(jobs).day
    BY <2>2 DEF DailyJobs
  <2> HIDE DEF new
  <2>5. DailyTypes'
    <3>1. Len(jobs') <= fetches'
      BY <1>0, <2>1, <2>3 DEF DailyTypes, DD!TypeOK
    <3>2. QED
      BY <1>0, <2>1, <2>3, <2>4, <3>1 DEF DailyTypes, DD!TypeOK
  <2>6. new.day <= today /\ \A i \in DOMAIN jobs' : jobs'[i].day <= today
    BY <1>0, <2>2, <2>3, <2>4 DEF NoneAhead
  <2>7. CountedInTime' /\ NotYetPaid'
    BY <2>1, <2>4 DEF CountedInTime, NotYetPaid
  <2>8. QED
    BY <2>1, <2>5, <2>6, <2>7, DailyMoves
<1>2. CASE DD!UpsertDeviceInfo
  <2>1. /\ work.pc = "info" /\ work' = [work EXCEPT !.pc = "before"]
        /\ node' = [d \in Edges |-> [node[d] EXCEPT !.profit = work.profit[d]]]
        /\ settled' = [d \in Edges |-> FALSE]
        /\ UNCHANGED <<today, earned, daily, incentive, jobs, errors, fetches>>
    BY <1>2 DEF DD!UpsertDeviceInfo
  <2>2. /\ work' \in [pc : {"info", "before"}, day : DD!AllDays, profit : [Edges -> Int]]
        /\ work'.pc = "before" /\ work'.day = work.day
    BY <1>0, <2>1, WorkFields
  <2>3. /\ node' \in [Edges -> [profit : Int, yesterday : Int, incentive : Int]]
        /\ \A d \in Edges : node'[d].incentive = node[d].incentive
    BY <1>0, <2>1, WorkFields, ZenonT(40) DEF DailyTypes, DD!TypeOK
  <2>4. DailyTypes'
    BY <1>0, <2>1, <2>2, <2>3 DEF DailyTypes, DD!TypeOK
  <2>5. NoneAhead'
    BY <1>0, <2>1, <2>2 DEF NoneAhead
  <2>6. CountedInTime' /\ AddedUp' /\ NotYetPaid'
    BY <2>1, <2>2 DEF CountedInTime, AddedUp, NotYetPaid
  <2>7. Explained'
    <3>1. incentive' = incentive /\ \A d \in Edges : node'[d].incentive = node[d].incentive
      BY <2>1, <2>3, Zenon
    <3>2. Explained
      BY <1>0, Zenon
    <3>3. QED
      BY <3>1, <3>2, Zenon DEF Explained, Paid
  <2>8. QED
    BY <2>4, <2>5, <2>6, <2>7 DEF DailyInv
<1>3. CASE DD!SumDeviceDailyBeforeDate
  <2> DEFINE sums == [d \in Edges |-> DD!SumOver(daily[d], 1 .. today - 1)]
             new == [pc |-> "daily", day |-> work.day, profit |-> work.profit, before |-> sums,
                     onTime |-> work.day = today]
  <2>1. /\ work.pc = "before" /\ work' = new
        /\ UNCHANGED <<today, earned, node, daily, incentive, jobs, settled, errors, fetches>>
    BY <1>3 DEF DD!SumDeviceDailyBeforeDate
  <2>2. \A d \in Edges : sums[d] = Total(daily[d], 1 .. today - 1) /\ sums[d] \in Int
    <3> TAKE d \in Edges
    <3>1. 1 .. today - 1 \subseteq DD!AllDays
      BY <1>0, DaysFinite DEF DailyTypes, DD!TypeOK
    <3>2. IsFiniteSet(1 .. today - 1) /\ IntOn(daily[d], 1 .. today - 1)
      BY <1>0, <3>1, DaysFinite DEF DailyTypes, DD!TypeOK, IntOn
    <3>3. QED
      BY <3>2, TotalType, SumsOfDays
  <2> HIDE DEF sums
  <2>3. sums \in [Edges -> Int]
    BY <2>2 DEF sums
  <2>4. /\ new \in [pc : {"daily"}, day : DD!AllDays, profit : [Edges -> Int],
                    before : [Edges -> Int], onTime : BOOLEAN]
        /\ new.pc = "daily" /\ new.day = work.day /\ new.before = sums
        /\ new.onTime => work.day = today
    BY <1>0, <2>1, <2>3, WorkFields
  <2> HIDE DEF new
  <2>5. DailyTypes'
    BY <1>0, <2>1, <2>4 DEF DailyTypes, DD!TypeOK
  <2>6. CountedInTime'
    BY <1>0, <2>1, <2>2, <2>4 DEF CountedInTime, NoneAhead
  <2>7. NotYetPaid'
    BY <2>1, <2>4 DEF NotYetPaid
  <2>8. QED
    BY <1>0, <2>1, <2>4, <2>5, <2>6, <2>7, DailyMoves DEF NoneAhead
<1>4. CASE DD!JobFails
  <2>1. /\ work.pc \in {"info", "before", "daily"}
        /\ settled' = [d \in Edges |-> FALSE]
        /\ work' = IF work.pc = "info" THEN [work EXCEPT !.pc = "before"] ELSE [pc |-> "wait"]
        /\ UNCHANGED <<today, earned, node, daily, incentive, jobs, fetches>>
    BY <1>4 DEF DD!JobFails
  <2>2. \/ work' \in [pc : {"info", "before"}, day : DD!AllDays, profit : [Edges -> Int]]
           /\ work'.pc = "before" /\ work'.day = work.day
        \/ work' = [pc |-> "wait"] /\ work'.pc = "wait"
    BY <1>0, <2>1, WorkFields
  <2>3. DailyTypes'
    BY <1>0, <2>1, <2>2 DEF DailyTypes, DD!TypeOK
  <2>4. CountedInTime' /\ NotYetPaid'
    BY <2>2 DEF CountedInTime, NotYetPaid
  <2>5. QED
    BY <1>0, <2>1, <2>2, <2>3, <2>4, DailyMoves DEF NoneAhead
<1>5. CASE DD!HasFinished
  <2>1. /\ work' = [pc |-> "idle"] \/ work' = [pc |-> "profit"]
        /\ UNCHANGED <<today, earned, node, daily, incentive, jobs, settled, errors, fetches>>
    BY <1>5 DEF DD!HasFinished, DD!Waiting
  <2>2. work'.pc \in {"idle", "profit"}
    BY <2>1
  <2>3. DailyTypes'
    BY <1>0, <2>1, <2>2 DEF DailyTypes, DD!TypeOK
  <2>4. CountedInTime' /\ NotYetPaid'
    BY <2>2 DEF CountedInTime, NotYetPaid
  <2>5. QED
    BY <1>0, <2>1, <2>2, <2>3, <2>4, DailyMoves DEF NoneAhead
<1>6. QED
  BY <1>1, <1>2, <1>3, <1>4, <1>5

\* The row is written: with the days before it, it adds up.
LEMMA RowStep == ASSUME DailyInv, DD!UpsertDeviceInfoDaily PROVE DailyInv'
<1>0. DailyTypes /\ NoneAhead /\ CountedInTime /\ AddedUp /\ NotYetPaid /\ Explained
  BY DEF DailyInv
<1>1. /\ work.pc = "daily" /\ work' = [pc |-> "wait"]
      /\ daily' = [d \in Edges |->
                     [daily[d] EXCEPT ![work.day] = work.profit[d] - work.before[d]]]
      /\ settled' = [d \in Edges |-> work.onTime /\ node[d].profit = work.profit[d]]
      /\ UNCHANGED <<today, earned, node, incentive, jobs, errors, fetches>>
  BY DEF DD!UpsertDeviceInfoDaily
<1>2. /\ work.day \in DD!AllDays /\ work.profit \in [Edges -> Int] /\ work.before \in [Edges -> Int]
      /\ work.onTime \in BOOLEAN /\ work.day <= today
  BY <1>0, <1>1, WorkFields DEF NoneAhead
<1>3. ASSUME NEW d \in Edges
      PROVE  /\ daily[d] \in [DD!AllDays -> Int] /\ daily'[d] \in [DD!AllDays -> Int]
             /\ daily'[d][work.day] = work.profit[d] - work.before[d]
             /\ \A t \in DD!AllDays : t # work.day => daily'[d][t] = daily[d][t]
  BY <1>0, <1>1, <1>2 DEF DailyTypes, DD!TypeOK
<1>4. DailyTypes'
  <2>1. daily' \in [Edges -> [DD!AllDays -> Int]]
    BY <1>1, <1>3
  <2>2. work' \in [pc : {"idle", "wait", "profit", "check", "generate"}]
    BY <1>1
  <2>3. settled' \in [Edges -> BOOLEAN]
    BY <1>1, <1>2
  <2>4. QED
    BY <1>0, <1>1, <2>1, <2>2, <2>3 DEF DailyTypes, DD!TypeOK
<1>5. NoneAhead'
  <2>1. \A t \in DD!AllDays : t > today => t # work.day
    BY <1>0, <1>2, WorkFields, DaysFinite
  <2>2. QED
    BY <1>0, <1>1, <1>3, <2>1 DEF NoneAhead
<1>6. CountedInTime' /\ NotYetPaid' /\ Explained'
  BY <1>0, <1>1 DEF CountedInTime, NotYetPaid, Explained, Paid
<1>7. ASSUME NEW d \in Edges, settled'[d] PROVE Total(daily'[d], DD!AllDays) = node[d].profit
  <2> DEFINE before == 1 .. work.day - 1
             after == {t \in DD!AllDays : t > work.day}
  <2>1. work.onTime /\ node[d].profit = work.profit[d]
    BY <1>1, <1>7
  <2>2. /\ work.before[d] = Total(daily[d], before)
        /\ \A t \in after : daily[d][t] = 0
    BY <1>0, <1>1, <2>1 DEF CountedInTime
  <2>3. /\ work.day \notin before /\ work.day \notin after /\ before \cap after = {}
        /\ before \subseteq DD!AllDays /\ after \subseteq DD!AllDays
        /\ DD!AllDays = (before \cup {work.day}) \cup after
        /\ (before \cup {work.day}) \cap after = {}
    BY <1>2, WorkFields, <1>0 DEF DD!AllDays
  <2>4. IsFiniteSet(before) /\ IsFiniteSet(after) /\ IsFiniteSet(before \cup {work.day})
    BY <1>2, <2>3, DaysFinite
  <2>5. IntOn(daily'[d], DD!AllDays) /\ IntOn(daily[d], DD!AllDays)
    BY <1>3 DEF IntOn
  <2> HIDE DEF before, after
  <2>6. Total(daily'[d], before) = Total(daily[d], before) /\ Total(daily[d], before) \in Int
    <3>1. \A t \in before : daily'[d][t] = daily[d][t]
      BY <1>3, <2>3
    <3>2. QED
      BY <2>3, <2>4, <2>5, <3>1, TotalSame, TotalType DEF IntOn
  <2>7. Total(daily'[d], before \cup {work.day})
          = Total(daily'[d], before) + (work.profit[d] - work.before[d])
    BY <1>2, <1>3, <2>3, <2>5, DaysFinite, TotalAdd
  <2>8. Total(daily'[d], after) = 0
    BY <1>3, <2>2, <2>3, <2>4, TotalZero
  <2>9. Total(daily'[d], DD!AllDays)
          = Total(daily'[d], before \cup {work.day}) + Total(daily'[d], after)
    BY <2>3, <2>4, <2>5, TotalUnion
  <2>10. work.profit[d] \in Int /\ work.before[d] \in Int
    BY <1>2
  <2>11. QED
    BY <2>1, <2>2, <2>6, <2>7, <2>8, <2>9, <2>10
<1>8. AddedUp'
  BY <1>1, <1>7 DEF AddedUp
<1>9. QED
  BY <1>4, <1>5, <1>6, <1>8 DEF DailyInv

\* The steps of Finalize that pay nothing.
LEMMA FinalizeStep ==
  ASSUME DailyInv,
         DD!SumDeviceInfoProfit \/ DD!IsGeneratedOnlineIncentive \/ DD!FinalizeFails
  PROVE  DailyInv'
<1>0. DailyTypes /\ NoneAhead /\ CountedInTime /\ AddedUp /\ NotYetPaid /\ Explained
  BY DEF DailyInv
<1>1. CASE DD!SumDeviceInfoProfit
  <2>1. /\ work' = [pc |-> "check"] /\ work'.pc = "check"
        /\ node' = [d \in Edges |-> [node[d] EXCEPT !.yesterday =
                                       IF today = 1 THEN 0 ELSE daily[d][today - 1]]]
        /\ UNCHANGED <<today, earned, daily, incentive, jobs, settled, errors, fetches>>
    BY <1>1 DEF DD!SumDeviceInfoProfit
  <2>2. \A d \in Edges : (IF today = 1 THEN 0 ELSE daily[d][today - 1]) \in Int
    <3>1. today # 1 => today - 1 \in DD!AllDays
      BY <1>0, WorkFields DEF DD!AllDays
    <3>2. QED
      BY <1>0, <3>1 DEF DailyTypes, DD!TypeOK
  <2>3. /\ node' \in [Edges -> [profit : Int, yesterday : Int, incentive : Int]]
        /\ \A d \in Edges : node'[d].incentive = node[d].incentive /\ node'[d].profit = node[d].profit
    BY <1>0, <2>1, <2>2, SMTT(40) DEF DailyTypes, DD!TypeOK
  <2>4. DailyTypes'
    BY <1>0, <2>1, <2>3 DEF DailyTypes, DD!TypeOK
  <2>5. NoneAhead' /\ CountedInTime' /\ NotYetPaid'
    BY <1>0, <2>1 DEF NoneAhead, CountedInTime, NotYetPaid
  <2>6. AddedUp' /\ Explained'
    <3>1. daily' = daily /\ settled' = settled /\ incentive' = incentive
      BY <2>1
    <3>2. AddedUp'
      BY <1>0, <2>3, <3>1 DEF AddedUp
    <3>3. Explained'
      BY <1>0, <2>3, <3>1 DEF Explained, Paid
    <3>4. QED
      BY <3>2, <3>3
  <2>7. QED
    BY <2>4, <2>5, <2>6 DEF DailyInv
<1>2. CASE DD!IsGeneratedOnlineIncentive
  <2>1. /\ \/ work' = [pc |-> "idle"] /\ work'.pc = "idle"
           \/ /\ work' = [pc |-> "generate"]
              /\ \A d \in Edges, t \in DD!AllDays : t >= today - 1 => incentive[d][t] = DD!NoRow
        /\ UNCHANGED <<today, earned, node, daily, incentive, jobs, settled, errors, fetches>>
    BY <1>2 DEF DD!IsGeneratedOnlineIncentive, DD!Waiting
  <2>2. work' = [pc |-> work'.pc] /\ work'.pc \in {"idle", "generate"}
    BY <2>1
  <2>3. DailyTypes'
    BY <1>0, <2>1, <2>2 DEF DailyTypes, DD!TypeOK
  <2>4. CountedInTime' /\ NotYetPaid'
    BY <2>1, <2>2 DEF CountedInTime, NotYetPaid
  <2>5. QED
    BY <1>0, <2>1, <2>2, <2>3, <2>4, DailyMoves DEF NoneAhead
<1>3. CASE DD!FinalizeFails
  <2>1. /\ work' = [pc |-> "check"] \/ work' = [pc |-> "idle"]
        /\ UNCHANGED <<today, earned, node, daily, incentive, jobs, settled, fetches>>
    BY <1>3 DEF DD!FinalizeFails, DD!Skip, DD!Waiting
  <2>2. work' = [pc |-> work'.pc] /\ work'.pc \in {"check", "idle"}
    BY <2>1
  <2>3. DailyTypes'
    BY <1>0, <2>1, <2>2 DEF DailyTypes, DD!TypeOK
  <2>4. CountedInTime' /\ NotYetPaid'
    BY <2>2 DEF CountedInTime, NotYetPaid
  <2>5. QED
    BY <1>0, <2>1, <2>2, <2>3, <2>4, DailyMoves DEF NoneAhead
<1>4. QED
  BY <1>1, <1>2, <1>3

LEMMA NoLoss ==
  ASSUME NEW y \in Int
  PROVE  DD!Max({0, y}) = IF y > 0 THEN y ELSE 0
<1> DEFINE m == IF y > 0 THEN y ELSE 0
<1>1. /\ m \in {0, y} /\ m >= 0 /\ m >= y
      /\ \A x \in {0, y} : x >= 0 /\ x >= y => x = m
  OBVIOUS
<1>2. DD!Max({0, y}) = CHOOSE x \in {0, y} : \A z \in {0, y} : x >= z
  BY Zenon DEF DD!Max
<1> HIDE DEF m
<1>3. \A x \in {0, y} : (\A z \in {0, y} : x >= z) <=> x = m
  BY <1>1
<1>4. QED
  BY <1>1, <1>2, <1>3 DEF m

\* The incentive of yesterday: a row for some devices, and its amount for all of
\* them, because there are no rows since yesterday but these.
LEMMA IncentiveStep == ASSUME DailyInv, DD!GenerateEligibleOnlineDevices PROVE DailyInv'
<1>0. DailyTypes /\ NoneAhead /\ CountedInTime /\ AddedUp /\ NotYetPaid /\ Explained
  BY DEF DailyInv
<1> DEFINE yesterday == today - 1
<1>1. PICK S \in SUBSET Edges :
        LET rows == [d \in Edges |-> IF d \in S
                       THEN [incentive[d] EXCEPT ![yesterday] = DD!Max({0, node[d].yesterday})]
                       ELSE incentive[d]]
        IN  \/ UNCHANGED <<node, incentive>>
            \/ /\ incentive' = rows
               /\ node' = [d \in Edges |->
                    IF \E t \in DD!AllDays : t >= yesterday /\ rows[d][t] # DD!NoRow
                    THEN [node[d] EXCEPT !.incentive = @ + node[d].yesterday]
                    ELSE node[d]]
  BY DEF DD!GenerateEligibleOnlineDevices
<1>2. /\ work.pc = "generate" /\ work' = [pc |-> "idle"] /\ work'.pc = "idle" /\ today > 1
      /\ UNCHANGED <<today, earned, daily, jobs, settled, errors, fetches>>
  BY DEF DD!GenerateEligibleOnlineDevices, DD!Waiting
<1>3. yesterday \in DD!AllDays
  BY <1>0, <1>2, WorkFields DEF DD!AllDays
<1>4. \A d \in Edges, t \in DD!AllDays : t >= yesterday => incentive[d][t] = DD!NoRow
  BY <1>0, <1>2 DEF NotYetPaid
<1>5. ASSUME DailyTypes', Explained', \A d \in Edges : node'[d].profit = node[d].profit
      PROVE  DailyInv'
  BY <1>0, <1>2, <1>5 DEF DailyInv, NoneAhead, CountedInTime, NotYetPaid, AddedUp
<1>6. CASE UNCHANGED <<node, incentive>>
  <2>1. DailyTypes'
    BY <1>0, <1>2, <1>6 DEF DailyTypes, DD!TypeOK
  <2>2. QED
    BY <1>0, <1>5, <1>6, <2>1 DEF Explained, Paid
<1> DEFINE rows == [d \in Edges |-> IF d \in S
                      THEN [incentive[d] EXCEPT ![yesterday] = DD!Max({0, node[d].yesterday})]
                      ELSE incentive[d]]
<1>7. CASE /\ incentive' = rows
           /\ node' = [d \in Edges |->
                IF \E t \in DD!AllDays : t >= yesterday /\ rows[d][t] # DD!NoRow
                THEN [node[d] EXCEPT !.incentive = @ + node[d].yesterday]
                ELSE node[d]]
  <2>1. ASSUME NEW d \in Edges
        PROVE  /\ incentive[d] \in [DD!AllDays -> Nat \cup {DD!NoRow}]
               /\ node[d] \in [profit : Int, yesterday : Int, incentive : Int]
    BY <1>0 DEF DailyTypes, DD!TypeOK
  <2>2. ASSUME NEW d \in S
        PROVE  /\ incentive'[d] \in [DD!AllDays -> Nat \cup {DD!NoRow}]
               /\ incentive'[d][yesterday] = IF node[d].yesterday > 0 THEN node[d].yesterday ELSE 0
               /\ \A t \in DD!AllDays : t # yesterday => incentive'[d][t] = incentive[d][t]
    <3>1. d \in Edges /\ node[d].yesterday \in Int
      BY <2>1
    <3>2. incentive'[d] = [incentive[d] EXCEPT ![yesterday] = DD!Max({0, node[d].yesterday})]
      BY <1>7, <3>1
    <3>3. DD!Max({0, node[d].yesterday}) = IF node[d].yesterday > 0 THEN node[d].yesterday ELSE 0
      BY <3>1, NoLoss
    <3> HIDE DEF yesterday, rows
    <3>4. DD!Max({0, node[d].yesterday}) \in Nat
      BY <3>1, <3>3
    <3>5. QED
      BY <1>3, <2>1, <3>1, <3>2, <3>3, <3>4
  <2>3. ASSUME NEW d \in Edges \ S PROVE incentive'[d] = incentive[d]
    BY <1>7
  <2>4. ASSUME NEW d \in Edges
        PROVE  /\ node'[d] \in [profit : Int, yesterday : Int, incentive : Int]
               /\ node'[d].profit = node[d].profit
               /\ node'[d].incentive = IF d \in S THEN node[d].incentive + node[d].yesterday
                                       ELSE node[d].incentive
    <3>1. (\E t \in DD!AllDays : t >= yesterday /\ rows[d][t] # DD!NoRow) <=> d \in S
      <4>1. d \in S => incentive'[d][yesterday] # DD!NoRow /\ yesterday >= yesterday
        BY <1>0, <2>1, <2>2, WorkFields DEF DD!NoRow
      <4>2. d \notin S => \A t \in DD!AllDays : t >= yesterday => incentive'[d][t] = DD!NoRow
        BY <1>4, <2>3
      <4> HIDE DEF yesterday
      <4>3. QED
        BY <1>3, <1>7, <4>1, <4>2
    <3>2. node'[d] = IF d \in S THEN [node[d] EXCEPT !.incentive = @ + node[d].yesterday] ELSE node[d]
      BY <1>7, <3>1
    <3>3. QED
      BY <2>1, <3>2
  <2> HIDE DEF rows, yesterday
  <2>5. DailyTypes'
    <3>1. incentive' \in [Edges -> [DD!AllDays -> Nat \cup {DD!NoRow}]]
      <4>1. \A d \in Edges : incentive'[d] \in [DD!AllDays -> Nat \cup {DD!NoRow}]
        BY <2>1, <2>2, <2>3
      <4>2. incentive' = [d \in Edges |-> incentive'[d]]
        BY <1>7 DEF rows
      <4>3. QED
        BY <4>1, <4>2
    <3>2. node' \in [Edges -> [profit : Int, yesterday : Int, incentive : Int]]
      <4>1. node' = [d \in Edges |-> node'[d]]
        BY <1>7
      <4>2. QED
        BY <2>4, <4>1
    <3>3. QED
      BY <1>0, <1>2, <3>1, <3>2 DEF DailyTypes, DD!TypeOK
  <2>6. Explained'
    <3> SUFFICES ASSUME NEW d \in Edges
                 PROVE  /\ node'[d].incentive <= Total(incentive'[d], Paid(d)')
                        /\ (\A t \in Paid(d)' : incentive'[d][t] > 0)
                             => node'[d].incentive = Total(incentive'[d], Paid(d)')
      BY DEF Explained
    <3>1. CASE d \notin S
      <4>1. Paid(d)' = Paid(d) /\ incentive'[d] = incentive[d] /\ node'[d].incentive = node[d].incentive
        BY <2>3, <2>4, <3>1 DEF Paid
      <4>2. QED
        BY <1>0, <4>1 DEF Explained
    <3>2. CASE d \in S
      <4>1. /\ yesterday \notin Paid(d) /\ Paid(d)' = Paid(d) \cup {yesterday}
            /\ Paid(d) \subseteq DD!AllDays
            /\ \A t \in Paid(d) : incentive'[d][t] = incentive[d][t]
        <5>1. yesterday \notin Paid(d)
          <6>1. yesterday >= yesterday
            BY <1>3, DaysFinite
          <6>2. QED
            BY <1>3, <1>4, <6>1 DEF Paid
        <5>2. incentive'[d][yesterday] # DD!NoRow
          BY <2>1, <2>2, <3>2 DEF DD!NoRow
        <5>3. QED
          BY <1>3, <2>2, <3>2, <5>1, <5>2 DEF Paid
      <4>2. IntOn(incentive'[d], DD!AllDays) /\ IntOn(incentive[d], Paid(d)) /\ IsFiniteSet(Paid(d))
        <5>1. \A t \in DD!AllDays : incentive'[d][t] \in Int /\ incentive[d][t] \in Int
          BY <2>1, <2>2, <3>2 DEF DD!NoRow
        <5>2. QED
          BY <4>1, <5>1, DaysFinite DEF IntOn
      <4>3. Total(incentive'[d], Paid(d)')
              = Total(incentive'[d], Paid(d)) + incentive'[d][yesterday]
        BY <1>3, <4>1, <4>2, DaysFinite, TotalAdd
      <4>4. /\ Total(incentive'[d], Paid(d)) = Total(incentive[d], Paid(d))
            /\ Total(incentive[d], Paid(d)) \in Int
        BY <4>1, <4>2, TotalSame, TotalType
      <4>5. /\ node[d].incentive <= Total(incentive[d], Paid(d))
            /\ (\A t \in Paid(d) : incentive[d][t] > 0)
                 => node[d].incentive = Total(incentive[d], Paid(d))
        BY <1>0 DEF Explained
      <4>6. /\ node[d].incentive \in Int /\ node[d].yesterday \in Int
            /\ node'[d].incentive = node[d].incentive + node[d].yesterday
            /\ incentive'[d][yesterday] = IF node[d].yesterday > 0 THEN node[d].yesterday ELSE 0
        BY <2>1, <2>2, <2>4, <3>2
      <4>7. node'[d].incentive <= Total(incentive'[d], Paid(d)')
        BY <4>3, <4>4, <4>5, <4>6
      <4>8. ASSUME \A t \in Paid(d)' : incentive'[d][t] > 0
            PROVE  node'[d].incentive = Total(incentive'[d], Paid(d)')
        <5>1. incentive'[d][yesterday] > 0 /\ \A t \in Paid(d) : incentive[d][t] > 0
          BY <4>1, <4>8
        <5>2. QED
          BY <4>3, <4>4, <4>5, <4>6, <5>1
      <4>9. QED
        BY <4>7, <4>8
    <3>3. QED
      BY <3>1, <3>2
  <2>7. QED
    BY <1>5, <2>4, <2>5, <2>6
<1>8. QED
  BY <1>1, <1>6, <1>7

LEMMA DailyNext == DailyInv /\ [DD!Next]_dailyVars => DailyInv'
<1> SUFFICES ASSUME DailyInv, [DD!Next]_dailyVars PROVE DailyInv'
  OBVIOUS
<1>1. CASE UNCHANGED dailyVars
  BY <1>1 DEF dailyVars, DailyInv, DailyTypes, DD!TypeOK, NoneAhead, CountedInTime, AddedUp,
         NotYetPaid, Explained, Paid
<1>2. QED
  BY <1>1, DayStep, JobStep, RowStep, FinalizeStep, IncentiveStep DEF DD!Next

LEMMA DailyNow == DailyInv => DD!DaysAddUp /\ DD!IncentivesAreExplained /\ DD!TypeOK
<1> SUFFICES ASSUME DailyInv PROVE DD!DaysAddUp /\ DD!IncentivesAreExplained /\ DD!TypeOK
  OBVIOUS
<1>1. DD!DaysAddUp
  BY SumsOfDays DEF DailyInv, AddedUp, DD!DaysAddUp
<1>2. DD!IncentivesAreExplained
  BY SumsOfDays DEF DailyInv, Explained, Paid, DD!IncentivesAreExplained
<1>3. QED
  BY <1>1, <1>2 DEF DailyInv, DailyTypes

\* The rows of the days.
LEMMA DailyInvariant == Spec => []DailyInv
<1>1. Init => DailyInv
  BY DailyInit DEF Init
<1>2. DailyInv /\ [Next]_serviceVars => DailyInv'
  BY DailyNext DEF Next, serviceVars
<1>3. QED
  BY <1>1, <1>2, PTL DEF Spec
-----------------------------------------------------------------------------
(* The chart of the last hours: HourlyStats.                               *)

\* Reports grow with their times.
ReportsGrow ==
    /\ \A t \in HS!Times : reports[t] <= profit /\ (t > hour => reports[t] = 0)
    /\ \A s, t \in HS!Times : s < t /\ reports[t] > 0 => reports[s] < reports[t]

\* A job that waits knows the report of its time, and has not waited long.
PagesInTime ==
    \A row \in pages :
        /\ row.time \in HS!Times /\ row.created = row.time /\ row.time <= hour
        /\ row.income = reports[row.time] /\ row.income > 0
        /\ hour - row.time <= MaxDelay

\* A row tells what was reported at its time or one later. It was written at most
\* the delay of a job after it was created.
FromReport(row) ==
    \E t \in HS!Times :
        t \in {row.time, row.time + 1} /\ reports[t] > 0 /\ row.income = reports[t]
RowsInOrder(rows) ==
    /\ \A i \in DOMAIN rows :
         FromReport(rows[i]) /\ rows[i].time <= rows[i].created /\ rows[i].created <= hour
    /\ \A i, j \in DOMAIN rows : i < j => rows[i].created <= rows[j].created + MaxDelay

\* The redundant row of a report of minute 0 whose job has run: it is there unless it
\* may have been deleted, and tells that report unless it was overtaken.
Recent(t) == t - 1 >= hour - Retention * HourParts + MaxDelay
RedundantRows(rows) ==
    \A t \in HS!Times : t % HourParts = 0 /\ HS!Written(t) /\ Recent(t) =>
        \E i \in DOMAIN rows :
            rows[i].time = t - 1 /\ (t - 1 \in overtaken \/ rows[i].income = reports[t])

HourTypes ==
    /\ HS!TypeOK /\ reports \in [HS!Times -> 0 .. MaxReports] /\ overtaken \subseteq HS!Times \cup {-1}
HourInv ==
    HourTypes /\ ReportsGrow /\ PagesInTime /\ RowsInOrder(hourRows) /\ RedundantRows(hourRows)

\* A set of numbers within bounds has a least and a greatest one.
LEMMA LeastOf ==
  ASSUME NEW a \in Int, NEW b \in Int, NEW B \in SUBSET (a .. b), B # {}
  PROVE  \E k \in B : \A j \in B : k <= j
<1> DEFINE upTo == {a .. k : k \in B}
           whole == a .. b
<1>1. IsFiniteSet(whole)
  BY FS_Interval
<1>2. upTo \in SUBSET (SUBSET whole) /\ upTo # {}
  <2>1. \A k \in B : a .. k \subseteq whole
    OBVIOUS
  <2>2. QED
    BY <2>1
<1> HIDE DEF upTo, whole
<1>3. PICK t \in upTo : \A r \in upTo : r \subseteq t => r = t
  BY <1>1, <1>2, SmallestSubset
<1>4. PICK k \in B : t = a .. k
  BY <1>3 DEF upTo
<1>5. ASSUME NEW j \in B, j < k PROVE FALSE
  <2>1. a .. j \in upTo /\ a .. j \subseteq a .. k /\ k \in a .. k /\ k \notin a .. j
    BY <1>5 DEF upTo
  <2>2. QED
    BY <1>3, <1>4, <2>1
<1>6. QED
  BY <1>5

LEMMA GreatestOf ==
  ASSUME NEW a \in Int, NEW b \in Int, NEW B \in SUBSET (a .. b), B # {}
  PROVE  \E k \in B : \A j \in B : j <= k
<1> DEFINE C == {-j : j \in B}
<1>1. C \in SUBSET ((-b) .. (-a)) /\ C # {} /\ -a \in Int /\ -b \in Int
  OBVIOUS
<1>2. \A j \in B : -j \in C
  OBVIOUS
<1>3. \A k \in C : \E j \in B : k = -j
  OBVIOUS
<1> HIDE DEF C
<1>4. PICK k \in C : \A j \in C : k <= j
  BY <1>1, LeastOf
<1>5. PICK g \in B : k = -g
  BY <1>3, <1>4
<1>6. \A j \in B : j <= g
  BY <1>2, <1>4, <1>5
<1>7. QED
  BY <1>6

LEMMA GreatestIs ==
  ASSUME NEW a \in Int, NEW b \in Int, NEW B \in SUBSET (a .. b), B # {}
  PROVE  HS!Max(B) \in B /\ \A j \in B : j <= HS!Max(B)
<1>1. HS!Max(B) = CHOOSE x \in B : \A y \in B : x >= y
  BY Zenon DEF HS!Max
<1>2. \E k \in B : \A j \in B : k >= j
  BY GreatestOf
<1>3. QED
  BY <1>1, <1>2

\* Hours and times.
LEMMA HourOf ==
  ASSUME NEW t \in Nat, NEW h \in Int
  PROVE  /\ HS!Hour(t) \in Nat
         /\ HS!Hour(t) = h <=> h * HourParts <= t /\ t < h * HourParts + HourParts
<1>1. HourParts \in Nat /\ HourParts > 1
  BY HoursAssumption
<1> DEFINE q == t \div HourParts
<1>2. q \in Nat /\ q * HourParts <= t /\ t < q * HourParts + HourParts
  BY <1>1
<1> HIDE DEF q
<1>3. ASSUME h * HourParts <= t, t < h * HourParts + HourParts PROVE q = h
  <2>1. CASE q < h
    <3>1. (q + 1) * HourParts <= h * HourParts
      BY <1>1, <1>2, <2>1
    <3>2. QED
      BY <1>1, <1>2, <1>3, <3>1
  <2>2. CASE h < q
    <3>1. (h + 1) * HourParts <= q * HourParts
      BY <1>1, <1>2, <2>2
    <3>2. QED
      BY <1>1, <1>2, <1>3, <3>1
  <2>3. QED
    BY <1>2, <2>1, <2>2
<1>4. QED
  BY <1>2, <1>3 DEF q, HS!Hour

LEMMA FullHour == ASSUME NEW h \in Nat PROVE (h * HourParts) % HourParts = 0
<1>1. HourParts \in Nat /\ HourParts > 1
  BY HoursAssumption
<1>2. QED
  BY <1>1

LEMMA TimesAre ==
  /\ HS!Times \subseteq Nat /\ 0 \in HS!Times
  /\ \A t \in HS!Times, s \in Nat : s <= t => s \in HS!Times
<1>1. HourParts \in Nat /\ HourParts > 1 /\ LastHour \in Nat
  BY HoursAssumption
<1> DEFINE all == HourParts * (LastHour + 1)
<1>2. all \in Nat /\ all >= 1
  BY <1>1
<1>3. HS!Times = 0 .. all - 1
  BY DEF HS!Times
<1> HIDE DEF all
<1>4. QED
  BY <1>2, <1>3

LEMMA RowFields ==
  ASSUME NEW row \in HS!Rows
  PROVE  /\ row.time \in HS!Times \cup {-1} /\ row.time \in Int /\ row.time >= -1
         /\ row.income \in 0 .. MaxReports /\ row.income \in Int /\ row.income >= 0
         /\ row.created \in HS!Times /\ row.created \in Nat
<1>1. /\ row.time \in HS!Times \cup {-1} /\ row.income \in 0 .. MaxReports
      /\ row.created \in HS!Times
  BY DEF HS!Rows
<1>2. row.income \in Int /\ row.income >= 0
  BY <1>1, HoursAssumption
<1>3. row.created \in Nat
  BY <1>1, TimesAre
<1>4. row.time \in Int /\ row.time >= -1
  <2>1. CASE row.time \in HS!Times
    <3>1. row.time \in Nat
      BY <2>1, TimesAre
    <3>2. QED
      BY <3>1
  <2>2. CASE row.time = -1
    BY <2>2
  <2>3. QED
    BY <1>1, <2>1, <2>2
<1>5. QED
  BY <1>1, <1>2, <1>3, <1>4

\* Writing a row replaces the one of its time, or adds one.
OneOfATime(rows) == \A i, j \in DOMAIN rows : rows[i].time = rows[j].time => i = j
IsUpsert(new, old, row) ==
    /\ new \in Seq(HS!Rows) /\ OneOfATime(new) /\ DOMAIN old \subseteq DOMAIN new
    /\ \A i \in DOMAIN old : old[i].time # row.time => new[i] = old[i]
    /\ \A i \in DOMAIN old :
         old[i].time = row.time => new[i] = [row EXCEPT !.created = old[i].created]
    /\ \A i \in DOMAIN new \ DOMAIN old : new[i] = row /\ \A j \in DOMAIN old : j < i
    /\ \E i \in DOMAIN new : new[i].time = row.time /\ new[i].income = row.income

LEMMA Upserted ==
  ASSUME NEW old \in Seq(HS!Rows), OneOfATime(old), NEW row \in HS!Rows,
         NEW new, new = HS!Upsert(old, row)
  PROVE  IsUpsert(new, old, row)
<1> DEFINE same == {i \in DOMAIN old : old[i].time = row.time}
<1>0. /\ DOMAIN old = 1 .. Len(old) /\ Len(old) \in Nat
      /\ \A i \in DOMAIN old : old[i] \in HS!Rows
  OBVIOUS
<1>1. CASE same = {}
  <2>1. new = Append(old, row)
    BY <1>1, Zenon DEF HS!Upsert
  <2>2. /\ new \in Seq(HS!Rows) /\ DOMAIN new = 1 .. Len(old) + 1
        /\ \A i \in DOMAIN old : new[i] = old[i]
        /\ new[Len(old) + 1] = row
    BY <1>0, <2>1
  <2>3. \A i \in DOMAIN old : old[i].time # row.time
    BY <1>1
  <2>4. OneOfATime(new)
    <3> SUFFICES ASSUME NEW i \in DOMAIN new, NEW j \in DOMAIN new, new[i].time = new[j].time
                 PROVE  i = j
      BY DEF OneOfATime
    <3>1. CASE i \in DOMAIN old /\ j \in DOMAIN old
      BY <2>2, <3>1 DEF OneOfATime
    <3>2. CASE i \notin DOMAIN old
      BY <1>0, <2>2, <2>3, <3>2
    <3>3. CASE j \notin DOMAIN old
      BY <1>0, <2>2, <2>3, <3>3
    <3>4. QED
      BY <3>1, <3>2, <3>3
  <2>5. \A i \in DOMAIN new \ DOMAIN old : i = Len(old) + 1
    BY <1>0, <2>2
  <2>6. \A j \in DOMAIN old : j < Len(old) + 1
    BY <1>0
  <2>7. Len(old) + 1 \in DOMAIN new /\ DOMAIN old \subseteq DOMAIN new
    BY <1>0, <2>2
  <2>8. QED
    BY <2>2, <2>3, <2>4, <2>5, <2>6, <2>7 DEF IsUpsert
<1>2. CASE same # {}
  <2>1. new = [i \in DOMAIN old |->
                 IF i \in same THEN [row EXCEPT !.created = old[i].created] ELSE old[i]]
    BY <1>2, Zenon DEF HS!Upsert
  <2>2. \A i \in DOMAIN old : [row EXCEPT !.created = old[i].created] \in HS!Rows
    BY <1>0 DEF HS!Rows
  <2>3. /\ DOMAIN new = DOMAIN old
        /\ \A i \in DOMAIN old : old[i].time # row.time => new[i] = old[i]
        /\ \A i \in DOMAIN old : old[i].time = row.time => new[i] = [row EXCEPT !.created = old[i].created]
    BY <2>1
  <2> HIDE DEF same
  <2>4. \A i \in DOMAIN new : new[i] \in HS!Rows
    BY <1>0, <2>2, <2>3
  <2>5. new \in Seq(HS!Rows)
    <3>1. new = [i \in 1 .. Len(old) |-> new[i]]
      BY <1>0, <2>1
    <3>2. QED
      BY <1>0, <2>3, <2>4, <3>1
  <2>6. \A i \in DOMAIN old : new[i].time = old[i].time
    BY <1>0, <2>3 DEF HS!Rows
  <2>7. OneOfATime(new)
    BY <2>3, <2>6 DEF OneOfATime
  <2>8. \E i \in DOMAIN new : new[i].time = row.time /\ new[i].income = row.income
    <3>1. PICK i \in DOMAIN old : old[i].time = row.time
      BY <1>2 DEF same
    <3>2. new[i].time = row.time /\ new[i].income = row.income
      BY <2>3, <3>1 DEF HS!Rows
    <3>3. QED
      BY <2>3, <3>1, <3>2
  <2>9. QED
    BY <2>3, <2>5, <2>7, <2>8 DEF IsUpsert
<1>3. QED
  BY <1>1, <1>2

\* A row of a report, written in time, leaves the rows in order.
LEMMA UpsertInOrder ==
  ASSUME hour \in HS!Times, NEW old \in Seq(HS!Rows), OneOfATime(old), RowsInOrder(old),
         NEW row \in HS!Rows, FromReport(row), row.time <= row.created, row.created <= hour,
         hour <= row.created + MaxDelay, NEW new, new = HS!Upsert(old, row)
  PROVE  RowsInOrder(new)
<1>0. /\ DOMAIN old = 1 .. Len(old) /\ Len(old) \in Nat
      /\ \A i \in DOMAIN old : old[i] \in HS!Rows
  OBVIOUS
<1>a. IsUpsert(new, old, row)
  BY Upserted
<1>1. /\ new \in Seq(HS!Rows) /\ DOMAIN old \subseteq DOMAIN new
      /\ \A i \in DOMAIN old : old[i].time # row.time => new[i] = old[i]
      /\ \A i \in DOMAIN old : old[i].time = row.time => new[i] = [row EXCEPT !.created = old[i].created]
      /\ \A i \in DOMAIN new \ DOMAIN old : new[i] = row /\ \A j \in DOMAIN old : j < i
  BY <1>a DEF IsUpsert
<1>2. \A i \in DOMAIN old :
        /\ new[i].created = old[i].created
        /\ FromReport(new[i]) /\ new[i].time <= new[i].created /\ new[i].created <= hour
  <2> TAKE i \in DOMAIN old
  <2>0. FromReport(old[i]) /\ old[i].time <= old[i].created /\ old[i].created <= hour
    BY DEF RowsInOrder
  <2>1. CASE old[i].time # row.time
    BY <1>1, <2>0, <2>1
  <2>2. CASE old[i].time = row.time
    <3>1. /\ new[i].time = row.time /\ new[i].income = row.income /\ new[i].created = old[i].created
      BY <1>1, <2>2 DEF HS!Rows
    <3>2. FromReport(new[i])
      BY <3>1 DEF FromReport
    <3>3. QED
      BY <2>0, <2>2, <3>1, <3>2
  <2>3. QED
    BY <2>1, <2>2
<1>3. \A i \in DOMAIN new : new[i].created \in Int
  <2>1. \A i \in DOMAIN new : new[i] \in HS!Rows
    BY <1>1
  <2>2. QED
    BY <2>1, RowFields
<1>4. \A i \in DOMAIN new :
        FromReport(new[i]) /\ new[i].time <= new[i].created /\ new[i].created <= hour
  BY <1>1, <1>2
<1>5. ASSUME NEW i \in DOMAIN new, NEW j \in DOMAIN new, i < j
      PROVE  new[i].created <= new[j].created + MaxDelay
  <2>1. CASE j \in DOMAIN old
    <3>1. i \in DOMAIN old
      <4>1. i \in Int /\ j \in Int
        BY <1>0, <1>1, <2>1
      <4>2. QED
        BY <1>1, <1>5, <2>1, <4>1
    <3>2. QED
      BY <1>2, <1>5, <2>1, <3>1 DEF RowsInOrder
  <2>2. CASE j \notin DOMAIN old
    <3>1. new[j] = row /\ new[i].created <= hour
      BY <1>1, <1>4, <2>2
    <3>2. hour \in Int /\ row.created \in Int /\ MaxDelay \in Int
      BY HoursAssumption, TimesAre, RowFields
    <3>3. QED
      BY <1>3, <3>1, <3>2
  <2>3. QED
    BY <2>1, <2>2
<1>6. QED
  BY <1>4, <1>5 DEF RowsInOrder

LEMMA HoursInit == HS!Init => HourInv
<1> SUFFICES ASSUME HS!Init PROVE HourInv
  OBVIOUS
<1>1. HourTypes
  <2>1. MaxReports \in Nat /\ 0 \in 0 .. MaxReports
    BY HoursAssumption
  <2>2. QED
    BY <2>1, TimesAre DEF HS!Init, HourTypes, HS!TypeOK
<1>2. ReportsGrow /\ PagesInTime /\ RowsInOrder(hourRows)
  BY DEF HS!Init, ReportsGrow, PagesInTime, RowsInOrder
<1>3. RedundantRows(hourRows)
  BY DEF HS!Init, RedundantRows, HS!Written
<1>4. QED
  BY <1>1, <1>2, <1>3 DEF HourInv

LEMMA HourFacts ==
  ASSUME HourInv
  PROVE  /\ hour \in HS!Times /\ hour \in Nat /\ profit \in 0 .. MaxReports /\ profit \in Nat
         /\ pages \subseteq HS!Rows /\ hourRows \in Seq(HS!Rows) /\ OneOfATime(hourRows)
         /\ DOMAIN hourRows = 1 .. Len(hourRows) /\ Len(hourRows) \in Nat
         /\ \A i \in DOMAIN hourRows : hourRows[i] \in HS!Rows
         /\ \A t \in HS!Times : reports[t] \in 0 .. MaxReports /\ reports[t] \in Nat /\ t \in Nat
         /\ ReportsGrow /\ PagesInTime /\ RowsInOrder(hourRows) /\ RedundantRows(hourRows)
<1>1. /\ hour \in HS!Times /\ profit \in 0 .. MaxReports /\ pages \subseteq HS!Rows
      /\ hourRows \in Seq(HS!Rows) /\ OneOfATime(hourRows)
      /\ \A t \in HS!Times : reports[t] \in 0 .. MaxReports
      /\ ReportsGrow /\ PagesInTime /\ RowsInOrder(hourRows) /\ RedundantRows(hourRows)
  BY DEF HourInv, HourTypes, HS!TypeOK, OneOfATime
<1>2. profit \in Nat /\ \A t \in HS!Times : reports[t] \in Nat
  BY <1>1, HoursAssumption
<1>3. hour \in Nat /\ \A t \in HS!Times : t \in Nat
  BY <1>1, TimesAre
<1>4. /\ DOMAIN hourRows = 1 .. Len(hourRows) /\ Len(hourRows) \in Nat
      /\ \A i \in DOMAIN hourRows : hourRows[i] \in HS!Rows
  BY <1>1
<1>5. QED
  BY <1>1, <1>2, <1>3, <1>4

LEMMA HourPasses == ASSUME HourInv, HS!TimePasses PROVE HourInv'
<1>0. /\ hour \in HS!Times /\ hour \in Nat
      /\ \A t \in HS!Times : t \in Nat
      /\ ReportsGrow /\ PagesInTime /\ RowsInOrder(hourRows) /\ RedundantRows(hourRows)
      /\ DOMAIN hourRows = 1 .. Len(hourRows) /\ Len(hourRows) \in Nat
      /\ \A i \in DOMAIN hourRows : hourRows[i] \in HS!Rows
  BY HourFacts
<1>1. /\ hour + 1 \in HS!Times /\ hour' = hour + 1
      /\ \A row \in pages : hour - row.time < MaxDelay
      /\ UNCHANGED <<profit, pages, hourRows, reports, overtaken>>
  BY DEF HS!TimePasses
<1>2. HourTypes'
  BY <1>1 DEF HourInv, HourTypes, HS!TypeOK, HS!Times, HS!Rows
<1>3. ReportsGrow'
  BY <1>0, <1>1 DEF ReportsGrow
<1>4. PagesInTime'
  <2> SUFFICES ASSUME NEW row \in pages
               PROVE  row.time <= hour + 1 /\ hour + 1 - row.time <= MaxDelay
    BY <1>0, <1>1 DEF PagesInTime, HS!Times
  <2>1. row.time \in HS!Times /\ row.time <= hour /\ hour - row.time < MaxDelay
    BY <1>0, <1>1 DEF PagesInTime
  <2>2. row.time \in Nat /\ MaxDelay \in Nat
    BY <1>0, <2>1, HoursAssumption
  <2>3. QED
    BY <1>0, <2>1, <2>2
<1>5. RowsInOrder(hourRows)'
  <2>1. \A i \in DOMAIN hourRows : hourRows[i].created \in Nat /\ hourRows[i].created <= hour
    BY <1>0, RowFields DEF RowsInOrder
  <2>2. \A i \in DOMAIN hourRows : hourRows[i].created <= hour + 1
    BY <1>0, <2>1
  <2>3. QED
    BY <1>0, <1>1, <2>2 DEF RowsInOrder, FromReport
<1>6. RedundantRows(hourRows)'
  <2>1. ASSUME NEW t \in HS!Times, Recent(t)' PROVE Recent(t)
    <3> DEFINE kept == Retention * HourParts
    <3>1. kept \in Int /\ MaxDelay \in Nat /\ t \in Nat
      BY <1>0, HoursAssumption
    <3>2. t - 1 >= hour + 1 - kept + MaxDelay
      BY <1>0, <1>1, <2>1, <3>1 DEF Recent
    <3> HIDE DEF kept
    <3>3. t - 1 >= hour - kept + MaxDelay
      BY <1>0, <3>1, <3>2
    <3>4. QED
      BY <3>3 DEF kept, Recent
  <2>2. \A t \in HS!Times : HS!Written(t)' => HS!Written(t)
    BY <1>1 DEF HS!Written
  <2>3. QED
    BY <1>0, <1>1, <2>1, <2>2 DEF RedundantRows
<1>7. QED
  BY <1>2, <1>3, <1>4, <1>5, <1>6 DEF HourInv

LEMMA HourReported == ASSUME HourInv, HS!Report PROVE HourInv'
<1>0. /\ hour \in HS!Times /\ hour \in Nat /\ profit \in 0 .. MaxReports /\ profit \in Nat
      /\ \A t \in HS!Times : reports[t] \in 0 .. MaxReports /\ reports[t] \in Nat /\ t \in Nat
      /\ ReportsGrow /\ PagesInTime /\ RowsInOrder(hourRows) /\ RedundantRows(hourRows)
      /\ \A i \in DOMAIN hourRows : hourRows[i] \in HS!Rows
  BY HourFacts
<1> DEFINE row == [time |-> hour, income |-> profit + 1, created |-> hour]
<1>1. /\ profit < MaxReports /\ reports[hour] = 0 /\ profit' = profit + 1
      /\ pages' = pages \cup {row}
      /\ reports' = [reports EXCEPT ![hour] = profit + 1]
      /\ UNCHANGED <<hour, hourRows, overtaken>>
  BY DEF HS!Report, HS!ToDeviceInfoHour
<1>2. profit + 1 \in 0 .. MaxReports /\ row \in HS!Rows
  <2>1. profit + 1 \in 0 .. MaxReports
    BY <1>0, <1>1, HoursAssumption
  <2>2. QED
    BY <1>0, <2>1 DEF HS!Rows
<1>3. HourTypes'
  BY <1>1, <1>2 DEF HourInv, HourTypes, HS!TypeOK, HS!Times, HS!Rows
<1>4. /\ reports'[hour] = profit + 1
      /\ \A t \in HS!Times : t # hour => reports'[t] = reports[t]
      /\ \A t \in HS!Times : reports[t] > 0 => reports'[t] = reports[t]
  <2>1. reports \in [HS!Times -> 0 .. MaxReports]
    BY DEF HourInv, HourTypes
  <2>2. QED
    BY <1>0, <1>1, <2>1
<1>5. ReportsGrow'
  <2>1. \A t \in HS!Times :
          reports'[t] \in Nat /\ reports'[t] <= profit + 1 /\ (t > hour => reports'[t] = 0)
    <3> TAKE t \in HS!Times
    <3>1. CASE t = hour
      BY <1>0, <1>4, <3>1
    <3>2. CASE t # hour
      BY <1>0, <1>4, <3>2 DEF ReportsGrow
    <3>3. QED
      BY <3>1, <3>2
  <2>2. ASSUME NEW s \in HS!Times, NEW t \in HS!Times, s < t, reports'[t] > 0
        PROVE  reports'[s] < reports'[t]
    <3>1. CASE t = hour
      <4>1. reports'[s] = reports[s] /\ reports[s] <= profit
        BY <1>0, <1>4, <2>2, <3>1 DEF ReportsGrow
      <4>2. QED
        BY <1>0, <1>4, <3>1, <4>1
    <3>2. CASE s = hour
      BY <1>0, <2>1, <2>2, <3>2
    <3>3. CASE s # hour /\ t # hour
      BY <1>0, <1>4, <2>2, <3>3 DEF ReportsGrow
    <3>4. QED
      BY <3>1, <3>2, <3>3
  <2>3. QED
    BY <1>1, <2>1, <2>2 DEF ReportsGrow, HS!Times
<1>6. PagesInTime'
  <2> SUFFICES ASSUME NEW r \in pages'
               PROVE  /\ r.time \in HS!Times /\ r.created = r.time /\ r.time <= hour
                      /\ r.income = reports'[r.time] /\ r.income > 0
                      /\ hour - r.time <= MaxDelay
    BY <1>1 DEF PagesInTime, HS!Times
  <2>1. CASE r \in pages
    <3>1. /\ r.time \in HS!Times /\ r.created = r.time /\ r.time <= hour
          /\ r.income = reports[r.time] /\ r.income > 0 /\ hour - r.time <= MaxDelay
      BY <1>0, <2>1 DEF PagesInTime
    <3>2. reports'[r.time] = reports[r.time]
      BY <1>4, <3>1
    <3>3. QED
      BY <3>1, <3>2
  <2>2. CASE r = row
    <3>1. r.time = hour /\ r.created = hour /\ r.income = profit + 1
      BY <2>2
    <3>2. QED
      BY <1>0, <1>4, <3>1, HoursAssumption
  <2>3. QED
    BY <1>1, <2>1, <2>2
<1>7. RowsInOrder(hourRows)'
  <2>1. ASSUME NEW i \in DOMAIN hourRows PROVE FromReport(hourRows[i])'
    <3>1. PICK t \in HS!Times :
            t \in {hourRows[i].time, hourRows[i].time + 1} /\ reports[t] > 0
              /\ hourRows[i].income = reports[t]
      BY <1>0 DEF RowsInOrder, FromReport
    <3>2. reports'[t] = reports[t]
      BY <1>4, <3>1
    <3>3. QED
      BY <1>1, <3>1, <3>2 DEF FromReport, HS!Times
  <2>2. QED
    BY <1>0, <1>1, <2>1 DEF RowsInOrder
<1>8. RedundantRows(hourRows)'
  <2>1. ASSUME NEW t \in HS!Times, HS!Written(t)'
        PROVE  HS!Written(t) /\ reports'[t] = reports[t]
    <3>1. reports'[t] > 0 /\ \A r \in pages' : r.time # t
      BY <2>1 DEF HS!Written
    <3>2. t # hour
      <4>1. row \in pages' /\ row.time = hour
        BY <1>1
      <4>2. QED
        BY <3>1, <4>1
    <3>3. QED
      BY <1>1, <1>4, <3>1, <3>2 DEF HS!Written
  <2>2. \A t \in HS!Times : Recent(t)' <=> Recent(t)
    BY <1>1 DEF Recent
  <2>3. QED
    BY <1>0, <1>1, <2>1, <2>2 DEF RedundantRows, HS!Times
<1>9. QED
  BY <1>3, <1>5, <1>6, <1>7, <1>8 DEF HourInv

LEMMA HourWritten ==
  ASSUME HourInv, NEW row \in pages, HS!AddDeviceInfoHours(row)
  PROVE  HourInv'
<1>0. /\ hour \in HS!Times /\ hour \in Nat /\ pages \subseteq HS!Rows
      /\ hourRows \in Seq(HS!Rows) /\ OneOfATime(hourRows)
      /\ \A i \in DOMAIN hourRows : hourRows[i] \in HS!Rows
      /\ \A t \in HS!Times : reports[t] \in 0 .. MaxReports /\ reports[t] \in Nat /\ t \in Nat
      /\ ReportsGrow /\ PagesInTime /\ RowsInOrder(hourRows) /\ RedundantRows(hourRows)
  BY HourFacts
<1> DEFINE first == HS!Upsert(hourRows, row)
           back == [row EXCEPT !.time = row.time - 1]
           second == HS!Upsert(first, back)
           replaced == {old.time : old \in {old \in HS!ToSet(hourRows) :
                                              old.time = row.time /\ old.income > row.income}}
           zero == row.time % HourParts = 0
<1>1. /\ hourRows' = IF ~zero THEN first ELSE second
      /\ overtaken' = overtaken \cup replaced
      /\ pages' = pages \ {row}
      /\ UNCHANGED <<hour, profit, reports>>
  BY Zenon DEF HS!AddDeviceInfoHours
<1>2. /\ row \in HS!Rows /\ row.time \in HS!Times /\ row.created = row.time /\ row.time <= hour
      /\ row.income = reports[row.time] /\ row.income > 0 /\ hour - row.time <= MaxDelay
      /\ row.time \in Nat /\ row.created \in Nat /\ MaxDelay \in Nat /\ HourParts \in Nat
  BY <1>0, HoursAssumption DEF PagesInTime
<1>3. /\ back \in HS!Rows /\ back.time = row.time - 1 /\ back.income = row.income
      /\ back.created = row.created
  <2>1. row.time - 1 \in HS!Times \cup {-1}
    <3>1. CASE row.time = 0
      BY <3>1
    <3>2. CASE row.time # 0
      <4>1. row.time - 1 \in Nat /\ row.time - 1 <= row.time
        BY <1>2, <3>2
      <4>2. QED
        BY <1>2, <4>1, TimesAre
    <3>3. QED
      BY <3>1, <3>2
  <2>2. QED
    BY <1>2, <2>1 DEF HS!Rows
<1>4. FromReport(row) /\ FromReport(back)
  <2>1. row.time - 1 + 1 = row.time
    BY <1>2
  <2>2. row.time \in {back.time, back.time + 1} /\ row.time \in {row.time, row.time + 1}
    BY <1>3, <2>1
  <2>3. reports[row.time] > 0 /\ row.income = reports[row.time] /\ back.income = reports[row.time]
    BY <1>2, <1>3
  <2> HIDE DEF back
  <2>4. QED
    BY <1>2, <2>2, <2>3 DEF FromReport
<1>5. /\ row.time <= row.created /\ row.created <= hour /\ hour <= row.created + MaxDelay
      /\ back.time <= back.created /\ back.created <= hour /\ hour <= back.created + MaxDelay
  BY <1>0, <1>2, <1>3
<1> HIDE DEF first, back, second, replaced, zero
<1>6. IsUpsert(first, hourRows, row) /\ RowsInOrder(first)
  <2>1. first = HS!Upsert(hourRows, row)
    BY DEF first
  <2>2. IsUpsert(first, hourRows, row)
    BY <1>0, <1>2, <2>1, Upserted
  <2>3. RowsInOrder(first)
    BY <1>0, <1>2, <1>4, <1>5, <2>1, UpsertInOrder
  <2>4. QED
    BY <2>2, <2>3
<1>7. first \in Seq(HS!Rows) /\ OneOfATime(first)
  BY <1>6 DEF IsUpsert
<1>8. IsUpsert(second, first, back) /\ RowsInOrder(second)
  <2>1. second = HS!Upsert(first, back)
    BY DEF second
  <2>2. IsUpsert(second, first, back)
    BY <1>3, <1>7, <2>1, Upserted
  <2>3. RowsInOrder(second)
    BY <1>0, <1>3, <1>4, <1>5, <1>6, <1>7, <2>1, UpsertInOrder
  <2>4. QED
    BY <2>2, <2>3
<1>9. second \in Seq(HS!Rows) /\ OneOfATime(second)
  BY <1>8 DEF IsUpsert
<1>10. replaced \subseteq {row.time}
  BY DEF replaced
<1>11. HourTypes'
  <2>1. hourRows' \in Seq(HS!Rows) /\ OneOfATime(hourRows')
    BY <1>1, <1>7, <1>9
  <2>2. overtaken' \subseteq HS!Times \cup {-1}
    BY <1>1, <1>2, <1>10 DEF HourInv, HourTypes
  <2>3. QED
    BY <1>1, <2>1, <2>2 DEF HourInv, HourTypes, HS!TypeOK, HS!Times, HS!Rows, OneOfATime
<1>12. ReportsGrow' /\ PagesInTime'
  BY <1>0, <1>1 DEF ReportsGrow, PagesInTime, HS!Times
<1>13. RowsInOrder(hourRows)'
  <2>1. RowsInOrder(hourRows')
    BY <1>1, <1>6, <1>8
  <2>2. QED
    BY <1>1, <2>1 DEF RowsInOrder, FromReport, HS!Times
<1>14. ASSUME NEW t \in HS!Times, t % HourParts = 0, HS!Written(t)', Recent(t)
       PROVE  \E i \in DOMAIN hourRows' :
                /\ hourRows'[i].time = t - 1
                /\ t - 1 \in overtaken' \/ hourRows'[i].income = reports[t]
  <2>0. t \in Nat /\ reports[t] > 0 /\ \A r \in pages' : r.time # t
    BY <1>0, <1>1, <1>14 DEF HS!Written
  <2>1. CASE t = row.time
    <3>1. hourRows' = second
      BY <1>1, <1>14, <2>1 DEF zero
    <3>2. PICK i \in DOMAIN second : second[i].time = back.time /\ second[i].income = back.income
      BY <1>8 DEF IsUpsert
    <3>3. QED
      BY <1>2, <1>3, <2>1, <3>1, <3>2
  <2>2. CASE t # row.time
    <3>1. HS!Written(t)
      BY <1>1, <2>0, <2>2 DEF HS!Written
    <3>2. PICK i \in DOMAIN hourRows :
            hourRows[i].time = t - 1 /\ (t - 1 \in overtaken \/ hourRows[i].income = reports[t])
      BY <1>0, <1>14, <3>1 DEF RedundantRows
    <3>3. /\ i \in DOMAIN first /\ first[i].time = t - 1
          /\ t - 1 \in overtaken' \/ first[i].income = reports[t]
      <4>0. i \in DOMAIN first
        BY <1>6 DEF IsUpsert
      <4>1. CASE row.time # t - 1
        <5>1. first[i] = hourRows[i]
          BY <1>6, <3>2, <4>1 DEF IsUpsert
        <5>2. QED
          BY <1>1, <3>2, <4>0, <5>1
      <4>2. CASE row.time = t - 1
        <5>1. first[i] = [row EXCEPT !.created = hourRows[i].created]
          BY <1>6, <3>2, <4>2 DEF IsUpsert
        <5>2. first[i].time = t - 1
          BY <1>2, <4>2, <5>1 DEF HS!Rows
        <5>3. CASE t - 1 \in overtaken
          BY <1>1, <4>0, <5>2, <5>3
        <5>4. CASE hourRows[i].income = reports[t]
          <6>1. row.time < t
            BY <1>2, <2>0, <4>2
          <6>2. reports[row.time] < reports[t]
            BY <1>0, <1>2, <2>0, <6>1 DEF ReportsGrow
          <6>3. hourRows[i].income > row.income
            BY <1>0, <1>2, <5>4, <6>2
          <6>4. hourRows[i] \in HS!ToSet(hourRows)
            BY DEF HS!ToSet
          <6>5. t - 1 \in replaced
            BY <3>2, <4>2, <6>3, <6>4 DEF replaced
          <6>6. QED
            BY <1>1, <4>0, <5>2, <6>5
        <5>5. QED
          BY <3>2, <5>3, <5>4
      <4>3. QED
        BY <4>1, <4>2
    <3>4. CASE ~zero
      BY <1>1, <3>3, <3>4
    <3>5. CASE zero
      <4>1. t - 1 # row.time - 1
        BY <1>2, <2>0, <2>2
      <4>2. i \in DOMAIN second /\ second[i] = first[i]
        BY <1>3, <1>8, <3>3, <4>1 DEF IsUpsert
      <4>3. QED
        BY <1>1, <3>3, <3>5, <4>2
    <3>6. QED
      BY <3>4, <3>5
  <2>3. QED
    BY <2>1, <2>2
<1>15. RedundantRows(hourRows)'
  <2>1. \A t \in HS!Times : Recent(t)' <=> Recent(t)
    BY <1>1 DEF Recent
  <2>2. QED
    BY <1>1, <1>14, <2>1 DEF RedundantRows, HS!Times
<1>16. QED
  BY <1>11, <1>12, <1>13, <1>15 DEF HourInv

LEMMA HourCleaned == ASSUME HourInv, HS!CleanUp PROVE HourInv'
<1>0. /\ hour \in HS!Times /\ hour \in Nat
      /\ hourRows \in Seq(HS!Rows) /\ OneOfATime(hourRows)
      /\ DOMAIN hourRows = 1 .. Len(hourRows) /\ Len(hourRows) \in Nat
      /\ \A i \in DOMAIN hourRows : hourRows[i] \in HS!Rows
      /\ \A t \in HS!Times : t \in Nat
      /\ ReportsGrow /\ PagesInTime /\ RowsInOrder(hourRows) /\ RedundantRows(hourRows)
  BY HourFacts
<1> DEFINE kept == Retention * HourParts
           old == {i \in DOMAIN hourRows : hourRows[i].created < hour - kept}
           last == HS!Max(old)
<1>1. /\ old # {} /\ hourRows' = SubSeq(hourRows, last + 1, Len(hourRows))
      /\ UNCHANGED <<hour, profit, pages, reports, overtaken>>
  BY Zenon DEF HS!CleanUp
<1>2. last \in old
  <2>1. old \in SUBSET (1 .. Len(hourRows)) /\ 1 \in Int /\ Len(hourRows) \in Int /\ old # {}
    BY <1>0, <1>1
  <2> HIDE DEF old
  <2>2. HS!Max(old) \in old
    BY <2>1, GreatestIs
  <2>3. QED
    BY <2>2
<1>3. kept \in Int /\ MaxDelay \in Nat
  BY HoursAssumption
<1>4. last \in DOMAIN hourRows /\ last \in Nat /\ hourRows[last].created < hour - kept
  BY <1>0, <1>2
<1> HIDE DEF old, last
<1>5. /\ hourRows' \in Seq(HS!Rows)
      /\ DOMAIN hourRows' = 1 .. Len(hourRows) - last
      /\ \A i \in DOMAIN hourRows' : i + last \in DOMAIN hourRows /\ hourRows'[i] = hourRows[i + last]
      /\ \A i \in DOMAIN hourRows : i > last => i - last \in DOMAIN hourRows' /\ hourRows'[i - last] = hourRows[i]
  <2>1. /\ hourRows' = [i \in 1 .. Len(hourRows) - last |-> hourRows[i + last]]
        /\ Len(hourRows) - last \in Nat
    BY <1>0, <1>1, <1>4
  <2>2. /\ DOMAIN hourRows' = 1 .. Len(hourRows) - last
        /\ \A i \in DOMAIN hourRows' : i + last \in DOMAIN hourRows /\ hourRows'[i] = hourRows[i + last]
    BY <1>0, <1>4, <2>1
  <2>3. \A i \in DOMAIN hourRows : i > last => i - last \in DOMAIN hourRows' /\ hourRows'[i - last] = hourRows[i]
    BY <1>0, <1>4, <2>1
  <2>4. hourRows' \in Seq(HS!Rows)
    BY <1>0, <2>1, <2>2
  <2>5. QED
    BY <2>2, <2>3, <2>4
<1>6. HourTypes'
  <2>1. ASSUME NEW i \in DOMAIN hourRows', NEW j \in DOMAIN hourRows',
               hourRows'[i].time = hourRows'[j].time
        PROVE  i = j
    <3>1. i + last = j + last
      BY <1>0, <1>5, <2>1 DEF OneOfATime
    <3>2. i \in Int /\ j \in Int
      BY <1>5
    <3>3. QED
      BY <1>4, <3>1, <3>2
  <2>2. QED
    BY <1>1, <1>5, <2>1 DEF HourInv, HourTypes, HS!TypeOK, HS!Times, HS!Rows, OneOfATime
<1>7. ReportsGrow' /\ PagesInTime'
  BY <1>0, <1>1 DEF ReportsGrow, PagesInTime, HS!Times
<1>8. RowsInOrder(hourRows)'
  <2>1. \A i \in DOMAIN hourRows' :
          /\ FromReport(hourRows'[i]) /\ hourRows'[i].time <= hourRows'[i].created
          /\ hourRows'[i].created <= hour
    BY <1>0, <1>5 DEF RowsInOrder
  <2>2. ASSUME NEW i \in DOMAIN hourRows', NEW j \in DOMAIN hourRows', i < j
        PROVE  hourRows'[i].created <= hourRows'[j].created + MaxDelay
    <3>1. i + last < j + last
      BY <1>0, <1>4, <1>5, <2>2
    <3>2. QED
      BY <1>0, <1>5, <3>1 DEF RowsInOrder
  <2>3. QED
    BY <1>1, <2>1, <2>2 DEF RowsInOrder, FromReport, HS!Times
<1>9. RedundantRows(hourRows)'
  <2>1. ASSUME NEW t \in HS!Times, Recent(t), NEW i \in DOMAIN hourRows, hourRows[i].time = t - 1
        PROVE  i > last
    <3>1. /\ hourRows[i].time <= hourRows[i].created
          /\ hourRows[i].created \in Nat /\ hourRows[last].created \in Nat
      BY <1>0, <1>4, RowFields DEF RowsInOrder
    <3>2. t - 1 >= hour - kept + MaxDelay
      BY <2>1 DEF Recent
    <3> HIDE DEF kept
    <3>3. i \in Int /\ t \in Nat
      BY <1>0
    <3>4. hourRows[i].created >= hour - kept + MaxDelay
      BY <1>0, <1>3, <2>1, <3>1, <3>2, <3>3
    <3>5. CASE i < last
      <4>1. hourRows[i].created <= hourRows[last].created + MaxDelay
        BY <1>0, <1>4, <3>5 DEF RowsInOrder
      <4>2. QED
        BY <1>0, <1>3, <1>4, <3>1, <3>4, <4>1
    <3>6. CASE i = last
      BY <1>0, <1>3, <1>4, <3>1, <3>4, <3>6
    <3>7. QED
      BY <1>4, <3>3, <3>5, <3>6
  <2>2. \A t \in HS!Times : (Recent(t)' <=> Recent(t)) /\ (HS!Written(t)' <=> HS!Written(t))
    BY <1>1 DEF Recent, HS!Written
  <2>3. ASSUME NEW t \in HS!Times, t % HourParts = 0, HS!Written(t), Recent(t)
        PROVE  \E i \in DOMAIN hourRows' :
                 /\ hourRows'[i].time = t - 1
                 /\ t - 1 \in overtaken' \/ hourRows'[i].income = reports'[t]
    <3>1. PICK i \in DOMAIN hourRows :
            hourRows[i].time = t - 1 /\ (t - 1 \in overtaken \/ hourRows[i].income = reports[t])
      BY <1>0, <2>3 DEF RedundantRows
    <3>2. i > last
      BY <2>1, <2>3, <3>1
    <3>3. QED
      BY <1>1, <1>5, <3>1, <3>2, ZenonT(40)
  <2>4. QED
    BY <2>2, <2>3 DEF RedundantRows, HS!Times
<1>10. QED
  BY <1>6, <1>7, <1>8, <1>9 DEF HourInv

LEMMA HoursNext == HourInv /\ HS!Next => HourInv'
<1> SUFFICES ASSUME HourInv, HS!Next PROVE HourInv'
  OBVIOUS
<1>1. CASE HS!TimePasses
  BY <1>1, HourPasses
<1>2. CASE HS!Report
  BY <1>2, HourReported
<1>3. CASE \E row \in pages : HS!AddDeviceInfoHours(row)
  BY <1>3, HourWritten
<1>4. CASE HS!CleanUp
  BY <1>4, HourCleaned
<1>5. QED
  BY <1>1, <1>2, <1>3, <1>4 DEF HS!Next

LEMMA FullHours ==
  ASSUME NEW a \in Int, NEW b \in Int, a <= b
  PROVE  a * HourParts \in Int /\ b * HourParts \in Int /\ a * HourParts <= b * HourParts
<1>1. HourParts \in Nat
  BY HoursAssumption
<1>2. QED
  BY <1>1

LEMMA HoursOrdered ==
  ASSUME NEW s \in Nat, NEW t \in Nat, HS!Hour(s) < HS!Hour(t)
  PROVE  s < t
<1>1. HS!Hour(s) \in Int /\ HS!Hour(t) \in Int /\ HourParts \in Nat
  BY HourOf, HoursAssumption
<1> DEFINE a == HS!Hour(s)
           b == HS!Hour(t)
<1>2. s < a * HourParts + HourParts /\ b * HourParts <= t
  BY <1>1, HourOf
<1>3. a + 1 <= b /\ a \in Int /\ b \in Int
  BY <1>1
<1> HIDE DEF a, b
<1>4. (a + 1) * HourParts <= b * HourParts /\ a * HourParts \in Int /\ b * HourParts \in Int
  BY <1>3, FullHours
<1>5. (a + 1) * HourParts = a * HourParts + HourParts
  BY <1>1, <1>3
<1>6. QED
  BY <1>1, <1>2, <1>4, <1>5

\* The rows grow with their times.
HoursTold == HS!ToSet(hourRows)

LEMMA RowsGrow ==
  ASSUME HourInv
  PROVE  /\ \A r \in HoursTold : r \in HS!Rows /\ r.income <= profit
         /\ \A r, s \in HoursTold : r.time = s.time => r = s
         /\ \A r, s \in HoursTold : r.time <= s.time => r.income <= s.income
<1>0. /\ profit \in Nat /\ OneOfATime(hourRows)
      /\ \A i \in DOMAIN hourRows : hourRows[i] \in HS!Rows
      /\ \A t \in HS!Times : reports[t] \in Nat /\ t \in Nat
      /\ ReportsGrow /\ RowsInOrder(hourRows)
  BY HourFacts
<1>1. \A r \in HoursTold : \E i \in DOMAIN hourRows : r = hourRows[i]
  BY DEF HoursTold, HS!ToSet
<1>2. \A r \in HoursTold : FromReport(r) /\ r \in HS!Rows /\ r.time \in Int /\ r.income \in Int
  BY <1>0, <1>1, RowFields DEF RowsInOrder
<1>3. \A r, s \in HoursTold : r.time = s.time => r = s
  BY <1>0, <1>1 DEF OneOfATime
<1>4. \A r \in HoursTold : r.income <= profit
  BY <1>0, <1>2 DEF FromReport, ReportsGrow
<1>5. ASSUME NEW r \in HoursTold, NEW s \in HoursTold, r.time <= s.time
      PROVE  r.income <= s.income
  <2>1. CASE r.time = s.time
    BY <1>2, <1>3, <2>1
  <2>2. CASE r.time # s.time
    <3>1. PICK a \in HS!Times : a \in {r.time, r.time + 1} /\ reports[a] > 0 /\ r.income = reports[a]
      BY <1>2 DEF FromReport
    <3>2. PICK b \in HS!Times : b \in {s.time, s.time + 1} /\ reports[b] > 0 /\ s.income = reports[b]
      BY <1>2 DEF FromReport
    <3>3. a <= b /\ a \in Nat /\ b \in Nat /\ reports[a] \in Nat /\ reports[b] \in Nat
      BY <1>0, <1>2, <1>5, <2>2, <3>1, <3>2
    <3>4. CASE a = b
      BY <3>1, <3>2, <3>3, <3>4
    <3>5. CASE a < b
      <4>1. reports[a] < reports[b]
        BY <1>0, <3>2, <3>5 DEF ReportsGrow
      <4>2. QED
        BY <3>1, <3>2, <3>3, <4>1
    <3>6. QED
      BY <3>3, <3>4, <3>5
  <2>3. QED
    BY <2>1, <2>2
<1>6. QED
  BY <1>2, <1>3, <1>4, <1>5

\* What an hour is worth: the greatest income of its rows.
LEMMA MaxIncomeIs ==
  ASSUME HourInv, NEW h, HS!RowsOf(h) # {}
  PROVE  /\ HS!MaxIncome(h) \in Nat /\ HS!MaxIncome(h) <= profit
         /\ \E r \in HS!RowsOf(h) : HS!MaxIncome(h) = r.income
         /\ \A r \in HS!RowsOf(h) : r.income <= HS!MaxIncome(h)
<1> DEFINE incomes == {row.income : row \in HS!RowsOf(h)}
<1>1. \A r \in HS!RowsOf(h) : r \in HoursTold
  BY DEF HS!RowsOf, HoursTold
<1>2. \A r \in HS!RowsOf(h) : r.income \in 0 .. MaxReports /\ r.income <= profit
  BY <1>1, RowsGrow, RowFields
<1>3. incomes \in SUBSET (0 .. MaxReports) /\ incomes # {} /\ 0 \in Int /\ MaxReports \in Int
  BY <1>2, HoursAssumption
<1>4. HS!MaxIncome(h) = HS!Max(incomes)
  BY Zenon DEF HS!MaxIncome
<1> HIDE DEF incomes
<1>5. HS!Max(incomes) \in incomes /\ \A x \in incomes : x <= HS!Max(incomes)
  BY <1>3, GreatestIs
<1>6. QED
  <2>1. PICK r \in HS!RowsOf(h) : HS!MaxIncome(h) = r.income
    BY <1>4, <1>5 DEF incomes
  <2>2. r.income \in Nat
    BY <1>2, HoursAssumption
  <2>3. \A x \in HS!RowsOf(h) : x.income <= HS!MaxIncome(h)
    BY <1>4, <1>5 DEF incomes
  <2>4. QED
    BY <1>2, <2>1, <2>2, <2>3

LEMMA FirstHourIs ==
  ASSUME HourInv
  PROVE  /\ HS!FirstHour \in Int /\ HS!Now \in Nat /\ HS!FirstHour <= HS!Now
         /\ HS!FirstHour = HS!Now - Window
         /\ HS!Now * HourParts <= hour /\ hour < HS!Now * HourParts + HourParts
<1>1. hour \in Nat /\ Window \in Nat
  BY HourFacts, HoursAssumption
<1>2. HS!Now \in Nat
  BY <1>1, HourOf DEF HS!Now
<1>3. HS!Now * HourParts <= hour /\ hour < HS!Now * HourParts + HourParts
  BY <1>1, <1>2, HourOf DEF HS!Now
<1>4. QED
  BY <1>1, <1>2, <1>3 DEF HS!FirstHour

\* The row that stands for the time before the chart.
LEMMA LatestIs ==
  ASSUME HourInv
  PROVE  /\ HS!GetLatestDeviceStat \in Nat /\ HS!GetLatestDeviceStat <= profit
         /\ \A s \in HoursTold : s.time >= HS!FirstHour * HourParts =>
              HS!GetLatestDeviceStat <= s.income
         /\ \A s \in HoursTold :
              (\A r \in HoursTold : r.time >= HS!FirstHour * HourParts /\ s.time <= r.time) =>
                HS!GetLatestDeviceStat = s.income
<1> DEFINE cut == HS!FirstHour * HourParts
           before == {row \in HS!ToSet(hourRows) : row.time < cut}
           last == CHOOSE row \in before : \A other \in before : row.time >= other.time
           first == CHOOSE row \in HS!ToSet(hourRows) :
                      \A other \in HS!ToSet(hourRows) : row.time <= other.time
<1>0. /\ profit \in Nat
      /\ \A r \in HoursTold : /\ r \in HS!Rows /\ r.income <= profit /\ r.income \in Nat
                              /\ r.time \in Int /\ r.time >= -1
                              /\ r.time \in HS!Times \cup {-1}
      /\ \A r, s \in HoursTold : r.time = s.time => r = s
      /\ \A r, s \in HoursTold : r.time <= s.time => r.income <= s.income
  BY RowsGrow, HourFacts, RowFields
<1>1. HS!GetLatestDeviceStat = IF before # {} THEN last.income
                               ELSE IF hourRows = <<>> THEN 0 ELSE first.income
  BY Zenon DEF HS!GetLatestDeviceStat
<1>2. cut \in Int
  BY FirstHourIs, FullHours
<1>3. PICK low \in Int, top \in Int : \A r \in HoursTold : r.time \in low .. top
  <2> DEFINE all == HourParts * (LastHour + 1)
  <2>1. HS!Times = 0 .. all - 1
    BY DEF HS!Times
  <2>2. all \in Nat
    BY HoursAssumption
  <2> HIDE DEF all
  <2>3. \A r \in HoursTold : r.time \in -1 .. all
    BY <1>0, <2>1, <2>2
  <2>4. -1 \in Int /\ all \in Int
    BY <2>2
  <2>5. QED
    BY <2>3, <2>4
<1>4. before # {} => last \in before /\ \A other \in before : last.time >= other.time
  <2> SUFFICES ASSUME before # {}
               PROVE  \E row \in before : \A other \in before : row.time >= other.time
    OBVIOUS
  <2> DEFINE times == {r.time : r \in before}
  <2>1. times \in SUBSET (low .. top) /\ times # {}
    BY <1>3 DEF HoursTold
  <2>2. \A k \in times : \E r \in before : k = r.time
    OBVIOUS
  <2>3. \A r \in before : r.time \in times
    OBVIOUS
  <2> HIDE DEF times
  <2>4. PICK k \in times : \A j \in times : j <= k
    BY <2>1, GreatestOf
  <2>5. PICK r \in before : k = r.time
    BY <2>2
  <2>6. \A other \in before : r.time >= other.time
    <3> TAKE other \in before
    <3>1. other.time <= r.time
      BY <2>3, <2>4, <2>5
    <3>2. other.time \in Int /\ r.time \in Int
      BY <1>0 DEF HoursTold
    <3>3. QED
      BY <3>1, <3>2
  <2>7. QED
    BY <2>6
<1>5. hourRows # <<>> =>
        first \in HoursTold /\ \A other \in HoursTold : first.time <= other.time
  <2> SUFFICES ASSUME hourRows # <<>>
               PROVE  \E row \in HoursTold : \A other \in HoursTold : row.time <= other.time
    BY DEF HoursTold
  <2> DEFINE times == {r.time : r \in HoursTold}
  <2>0. HoursTold # {}
    <3>1. DOMAIN hourRows = 1 .. Len(hourRows) /\ hourRows \in Seq(HS!Rows)
      BY HourFacts
    <3>2. 1 \in DOMAIN hourRows
      BY <3>1
    <3>3. QED
      BY <3>2 DEF HoursTold, HS!ToSet
  <2>1. times \in SUBSET (low .. top) /\ times # {}
    BY <1>3, <2>0
  <2>2. \A k \in times : \E r \in HoursTold : k = r.time
    OBVIOUS
  <2>3. \A r \in HoursTold : r.time \in times
    OBVIOUS
  <2> HIDE DEF times
  <2>4. PICK k \in times : \A j \in times : k <= j
    BY <2>1, LeastOf
  <2>5. PICK r \in HoursTold : k = r.time
    BY <2>2
  <2>6. QED
    BY <2>3, <2>4, <2>5
<1>6. hourRows = <<>> => HoursTold = {}
  BY DEF HoursTold, HS!ToSet
<1> HIDE DEF last, first
<1>7. \A r \in before : r \in HoursTold /\ r.time < cut
  BY DEF HoursTold
<1>8. \A r \in HoursTold : r.time < cut => r \in before
  BY DEF HoursTold
<1> HIDE DEF before, cut
<1>9. CASE before # {}
  <2>1. last \in HoursTold /\ last.time < cut /\ HS!GetLatestDeviceStat = last.income
    BY <1>1, <1>4, <1>7, <1>9
  <2>2. \A s \in HoursTold : s.time >= cut => last.time <= s.time
    BY <1>0, <1>2, <2>1
  <2>3. \A s \in HoursTold : s.time >= cut => last.income <= s.income
    BY <1>0, <2>1, <2>2
  <2>4. ~ last.time >= cut
    BY <1>0, <1>2, <2>1
  <2>5. QED
    BY <1>0, <2>1, <2>3, <2>4 DEF cut
<1>10. CASE before = {} /\ hourRows = <<>>
  BY <1>0, <1>1, <1>6, <1>10
<1>11. CASE before = {} /\ hourRows # <<>>
  <2>1. first \in HoursTold /\ HS!GetLatestDeviceStat = first.income
        /\ \A other \in HoursTold : first.time <= other.time
    BY <1>1, <1>5, <1>11
  <2>2. \A s \in HoursTold : first.income <= s.income
    BY <1>0, <2>1
  <2>3. ASSUME NEW s \in HoursTold, \A r \in HoursTold : s.time <= r.time
        PROVE  first.income = s.income
    <3>1. s.time = first.time
      BY <1>0, <2>1, <2>3
    <3>2. QED
      BY <1>0, <2>1, <3>1
  <2>4. QED
    BY <1>0, <2>1, <2>2, <2>3
<1>12. QED
  BY <1>9, <1>10, <1>11

\* What the device had earned by the end of an hour, as far as the rows tell: the
\* chart shows by how much it grows.
LevelTold(k) ==
    LET before == {g \in HS!FirstHour .. k : HS!RowsOf(g) # {}}
    IN  IF before = {} THEN HS!GetLatestDeviceStat ELSE HS!MaxIncome(HS!Max(before))

LEMMA LevelIs ==
  ASSUME HourInv, NEW k \in Int
  PROVE  /\ LevelTold(k) \in Nat /\ LevelTold(k) <= profit
         /\ HS!RowsOf(k) = {} => LevelTold(k) = LevelTold(k - 1)
         /\ (HS!RowsOf(k) # {} /\ HS!FirstHour <= k) => LevelTold(k) = HS!MaxIncome(k)
         /\ (\A g \in HS!FirstHour .. k : HS!RowsOf(g) = {}) => LevelTold(k) = HS!GetLatestDeviceStat
<1> DEFINE before(m) == {g \in HS!FirstHour .. m : HS!RowsOf(g) # {}}
<1>1. \A m : LevelTold(m) = IF before(m) = {} THEN HS!GetLatestDeviceStat ELSE HS!MaxIncome(HS!Max(before(m)))
  BY Zenon DEF LevelTold
<1>2. HS!FirstHour \in Int
  BY FirstHourIs
<1>3. before(k) # {} =>
        HS!Max(before(k)) \in before(k) /\ \A g \in before(k) : g <= HS!Max(before(k))
  <2> DEFINE B == before(k)
  <2>1. B \in SUBSET (HS!FirstHour .. k)
    OBVIOUS
  <2> HIDE DEF B
  <2>2. B # {} => HS!Max(B) \in B /\ \A g \in B : g <= HS!Max(B)
    BY <1>2, <2>1, GreatestIs
  <2>3. QED
    BY <2>2 DEF B
<1>4. LevelTold(k) \in Nat /\ LevelTold(k) <= profit
  <2>1. CASE before(k) = {}
    BY <1>1, <2>1, LatestIs
  <2>2. CASE before(k) # {}
    <3>1. HS!RowsOf(HS!Max(before(k))) # {}
      BY <1>3, <2>2
    <3>2. QED
      BY <1>1, <2>2, <3>1, MaxIncomeIs
  <2>3. QED
    BY <2>1, <2>2
<1>5. HS!RowsOf(k) = {} => LevelTold(k) = LevelTold(k - 1)
  <2> SUFFICES ASSUME HS!RowsOf(k) = {} PROVE LevelTold(k) = LevelTold(k - 1)
    OBVIOUS
  <2>1. \A g : g \in before(k) <=> g \in before(k - 1)
    <3> TAKE g
    <3>1. CASE g = k
      BY <1>2, <3>1
    <3>2. CASE g # k
      BY <1>2, <3>2
    <3>3. QED
      BY <3>1, <3>2
  <2> HIDE DEF before
  <2>2. before(k) = before(k - 1)
    BY <2>1
  <2>3. QED
    BY <1>1, <2>2
<1>6. HS!RowsOf(k) # {} /\ HS!FirstHour <= k => LevelTold(k) = HS!MaxIncome(k)
  <2> SUFFICES ASSUME HS!RowsOf(k) # {}, HS!FirstHour <= k PROVE LevelTold(k) = HS!MaxIncome(k)
    OBVIOUS
  <2>1. k \in before(k) /\ \A g \in before(k) : g \in Int /\ g <= k
    BY <1>2
  <2>2. HS!Max(before(k)) \in before(k) /\ k <= HS!Max(before(k))
    BY <1>3, <2>1
  <2> HIDE DEF before
  <2>3. HS!Max(before(k)) = k
    BY <2>1, <2>2
  <2>4. QED
    BY <1>1, <2>1, <2>3
<1>7. (\A g \in HS!FirstHour .. k : HS!RowsOf(g) = {}) => LevelTold(k) = HS!GetLatestDeviceStat
  BY <1>1
<1>8. QED
  BY <1>4, <1>5, <1>6, <1>7

LEMMA RowsOfHour ==
  ASSUME HourInv, NEW h \in Int, NEW r \in HS!RowsOf(h)
  PROVE  r \in HoursTold /\ r.time \in Nat /\ HS!Hour(r.time) = h /\ h >= 0
<1>1. r \in HoursTold /\ r.time >= 0 /\ HS!Hour(r.time) = h
  BY DEF HS!RowsOf, HoursTold
<1>2. r.time \in Nat
  BY <1>1, RowsGrow, RowFields
<1>3. HS!Hour(r.time) \in Nat
  BY <1>2, HourOf
<1>4. QED
  BY <1>1, <1>2, <1>3

LEMMA LevelGrows ==
  ASSUME HourInv, NEW k \in Int, HS!FirstHour <= k
  PROVE  LevelTold(k - 1) <= LevelTold(k)
<1>1. CASE HS!RowsOf(k) = {}
  BY <1>1, LevelIs
<1>2. CASE HS!RowsOf(k) # {}
  <2> DEFINE before == {g \in HS!FirstHour .. k - 1 : HS!RowsOf(g) # {}}
             top == HS!Max(before)
  <2>1. LevelTold(k) = HS!MaxIncome(k)
    BY <1>2, LevelIs
  <2>2. LevelTold(k - 1) = IF before = {} THEN HS!GetLatestDeviceStat ELSE HS!MaxIncome(top)
    BY Zenon DEF LevelTold
  <2>3. PICK s \in HS!RowsOf(k) : HS!MaxIncome(k) = s.income
    BY <1>2, MaxIncomeIs
  <2>4. s \in HoursTold /\ s.time \in Nat /\ HS!Hour(s.time) = k
    BY <2>3, RowsOfHour
  <2>5. HS!FirstHour \in Int
    BY FirstHourIs
  <2>6. CASE before = {}
    <3>1. k * HourParts <= s.time
      BY <2>4, HourOf
    <3>2. HS!FirstHour * HourParts <= k * HourParts /\ HS!FirstHour * HourParts \in Int
            /\ k * HourParts \in Int
      BY <2>5, FullHours
    <3>3. s.time >= HS!FirstHour * HourParts
      BY <2>4, <3>1, <3>2
    <3>4. HS!GetLatestDeviceStat <= s.income
      BY <2>4, <3>3, LatestIs
    <3>5. QED
      BY <2>1, <2>2, <2>3, <2>6, <3>4
  <2>7. CASE before # {}
    <3>1. before \in SUBSET (HS!FirstHour .. k - 1) /\ k - 1 \in Int
      OBVIOUS
    <3> HIDE DEF before
    <3>2. top \in before
      BY <2>5, <2>7, <3>1, GreatestIs
    <3> HIDE DEF top
    <3>3. top \in Int /\ top < k /\ HS!RowsOf(top) # {}
      BY <2>5, <3>1, <3>2 DEF before
    <3>4. PICK r \in HS!RowsOf(top) : HS!MaxIncome(top) = r.income
      BY <3>3, MaxIncomeIs
    <3>5. r \in HoursTold /\ r.time \in Nat /\ HS!Hour(r.time) = top
      BY <3>3, <3>4, RowsOfHour
    <3>6. r.time < s.time
      BY <2>4, <3>3, <3>5, HoursOrdered
    <3>7. r.income <= s.income
      BY <2>4, <3>5, <3>6, RowsGrow
    <3>8. QED
      BY <2>1, <2>2, <2>3, <2>7, <3>4, <3>7
  <2>8. QED
    BY <2>6, <2>7
<1>3. QED
  BY <1>1, <1>2

LEMMA ChartIs ==
  ASSUME HourInv, NEW h \in HS!Shown
  PROVE  /\ h \in Int /\ h >= 0 /\ HS!FirstHour < h /\ h <= HS!Now
         /\ HS!Append24HoursData[h] = LevelTold(h) - LevelTold(h - 1)
<1>1. HS!FirstHour \in Int /\ HS!Now \in Nat
  BY FirstHourIs
<1>2. h \in Int /\ h >= 0 /\ HS!FirstHour < h /\ h <= HS!Now
  BY <1>1 DEF HS!Shown
<1>3. HS!Append24HoursData[h] = IF HS!RowsOf(h) = {} THEN 0 ELSE HS!GetDeviceInfoHourList(h)
  BY DEF HS!Append24HoursData
<1>4. HS!GetDeviceInfoHourList(h) = HS!MaxIncome(h) - LevelTold(h - 1)
  BY Zenon DEF HS!GetDeviceInfoHourList, LevelTold
<1>5. CASE HS!RowsOf(h) = {}
  BY <1>2, <1>3, <1>5, LevelIs
<1>6. CASE HS!RowsOf(h) # {}
  BY <1>1, <1>2, <1>3, <1>4, <1>6, LevelIs
<1>7. QED
  BY <1>2, <1>5, <1>6

LEMMA ChartBounded == ASSUME HourInv PROVE HS!ChartIsBounded
<1> DEFINE chart == HS!Append24HoursData
           upTo(k) == {h \in HS!Shown : h <= k}
           wrong == {k \in HS!FirstHour .. HS!Now :
                       Total(chart, upTo(k)) # LevelTold(k) - LevelTold(HS!FirstHour)}
<1>1. HS!FirstHour \in Int /\ HS!Now \in Int /\ HS!FirstHour <= HS!Now
  BY FirstHourIs
<1>2. \A h \in HS!Shown :
        /\ h \in Int /\ h >= 0 /\ HS!FirstHour < h /\ h <= HS!Now
        /\ chart[h] = LevelTold(h) - LevelTold(h - 1)
  BY ChartIs
<1>3. \A h \in Int : LevelTold(h) \in Nat /\ LevelTold(h) <= profit
  BY LevelIs
<1>4. profit \in Nat
  BY HourFacts
<1> HIDE DEF chart
<1>5. \A h \in HS!Shown : chart[h] \in Int /\ chart[h] >= 0
  <2> TAKE h \in HS!Shown
  <2>1. h \in Int /\ HS!FirstHour <= h /\ chart[h] = LevelTold(h) - LevelTold(h - 1)
    BY <1>1, <1>2
  <2>2. LevelTold(h - 1) <= LevelTold(h) /\ LevelTold(h) \in Nat /\ LevelTold(h - 1) \in Nat
    BY <1>3, <2>1, LevelGrows
  <2>3. QED
    BY <2>1, <2>2
<1>6. IsFiniteSet(HS!Shown) /\ \A k : IsFiniteSet(upTo(k)) /\ IntOn(chart, upTo(k))
  <2>1. HS!Shown \in SUBSET (HS!FirstHour .. HS!Now)
    BY <1>1, <1>2
  <2>2. IsFiniteSet(HS!FirstHour .. HS!Now)
    BY <1>1, FS_Interval
  <2>3. IsFiniteSet(HS!Shown)
    BY <2>1, <2>2, FS_Subset
  <2>4. \A k : upTo(k) \in SUBSET HS!Shown
    OBVIOUS
  <2>5. \A k : IsFiniteSet(upTo(k))
    BY <2>3, <2>4, FS_Subset
  <2>6. QED
    BY <1>5, <2>3, <2>5 DEF IntOn
<1>7. wrong = {}
  <2> SUFFICES ASSUME wrong # {} PROVE FALSE
    OBVIOUS
  <2>1. wrong \in SUBSET (HS!FirstHour .. HS!Now)
    OBVIOUS
  <2> HIDE DEF wrong
  <2>2. PICK k \in wrong : \A j \in wrong : k <= j
    BY <1>1, <2>1, LeastOf
  <2>3. k \in Int /\ HS!FirstHour <= k /\ k <= HS!Now
    BY <1>1, <2>1, <2>2
  <2>4. Total(chart, upTo(k)) # LevelTold(k) - LevelTold(HS!FirstHour)
    BY <2>2 DEF wrong
  <2>5. CASE k = HS!FirstHour
    <3>1. upTo(k) = {}
      BY <1>1, <1>2, <2>5
    <3>2. Total(chart, upTo(k)) = 0
      BY <3>1, TotalEmpty
    <3>3. QED
      BY <1>3, <2>3, <2>4, <2>5, <3>2
  <2>6. CASE k # HS!FirstHour
    <3>0. k - 1 \in HS!FirstHour .. HS!Now /\ k - 1 \in Int
      BY <1>1, <2>3, <2>6
    <3>1. Total(chart, upTo(k - 1)) = LevelTold(k - 1) - LevelTold(HS!FirstHour)
      <4>1. k - 1 \notin wrong
        BY <2>2, <2>3
      <4>2. QED
        BY <3>0, <4>1 DEF wrong
    <3>2. CASE k \in HS!Shown
      <4>0. (\A h \in HS!Shown : h \in Int) /\ k \in Int
        BY <1>2, <2>3
      <4>1. upTo(k - 1) \in SUBSET upTo(k) /\ k \in upTo(k) \ upTo(k - 1)
        <5>1. \A h \in HS!Shown : h <= k - 1 => h <= k
          BY <4>0
        <5>2. k <= k /\ ~ k <= k - 1
          BY <4>0
        <5>3. QED
          BY <3>2, <5>1, <5>2
      <4>2. upTo(k - 1) \cup {k} = upTo(k)
        <5>a. \A h \in HS!Shown : h <= k <=> h <= k - 1 \/ h = k
          BY <4>0
        <5>1. \A h : h \in upTo(k) <=> h \in upTo(k - 1) \cup {k}
          BY <3>2, <5>a
        <5> HIDE DEF upTo
        <5>2. QED
          BY <5>1
      <4>3. IsFiniteSet(upTo(k)) /\ IntOn(chart, upTo(k))
        BY <1>6
      <4> HIDE DEF upTo
      <4>4. Total(chart, upTo(k - 1) \cup {k}) = Total(chart, upTo(k - 1)) + chart[k]
        BY <4>1, <4>3, TotalAdd
      <4>5. chart[k] = LevelTold(k) - LevelTold(k - 1)
        BY <1>2, <3>2
      <4>6. LevelTold(k) \in Int /\ LevelTold(k - 1) \in Int /\ LevelTold(HS!FirstHour) \in Int
        BY <1>1, <1>3, <2>3, <3>0
      <4>7. Total(chart, upTo(k)) = LevelTold(k - 1) - LevelTold(HS!FirstHour) + (LevelTold(k) - LevelTold(k - 1))
        BY <3>1, <4>2, <4>4, <4>5
      <4>8. QED
        BY <2>4, <4>6, <4>7
    <3>3. CASE k \notin HS!Shown
      <4>1. \A h : h \in upTo(k) <=> h \in upTo(k - 1)
        BY <1>2, <2>3, <3>3
      <4>2. upTo(k) = upTo(k - 1)
        <5> HIDE DEF upTo
        <5>1. QED
          BY <4>1
      <4>3. k < 0
        <5>1. k \in HS!FirstHour + 1 .. HS!Now
          BY <1>1, <2>3, <2>6
        <5>2. QED
          BY <2>3, <3>3, <5>1 DEF HS!Shown
      <4>4. HS!RowsOf(k) = {}
        BY <2>3, <4>3, RowsOfHour
      <4>5. LevelTold(k) = LevelTold(k - 1)
        BY <2>3, <4>4, LevelIs
      <4>6. QED
        BY <2>4, <3>1, <4>2, <4>5
    <3>4. QED
      BY <3>2, <3>3
  <2>7. QED
    BY <2>5, <2>6
<1>8. Total(chart, HS!Shown) <= profit
  <2>1. HS!Now \notin wrong
    BY <1>7
  <2>2. Total(chart, upTo(HS!Now)) = LevelTold(HS!Now) - LevelTold(HS!FirstHour)
    BY <1>1, <2>1
  <2>3. \A h : h \in upTo(HS!Now) <=> h \in HS!Shown
    BY <1>2
  <2>4. upTo(HS!Now) = HS!Shown
    <3> HIDE DEF upTo
    <3>1. QED
      BY <2>3
  <2> HIDE DEF upTo, wrong
  <2>5. QED
    BY <1>1, <1>3, <1>4, <2>2, <2>4
<1>9. HS!MapThenSumSet(LAMBDA h : chart[h], HS!Shown) = Total(chart, HS!Shown)
  BY Zenon DEF HS!MapThenSumSet, HS!MapThenFoldSet, Total, MapThenSumSet, MapThenFoldSet
<1>10. (\A h \in HS!Shown : HS!Append24HoursData[h] >= 0)
        /\ HS!MapThenSumSet(LAMBDA h : HS!Append24HoursData[h], HS!Shown) <= profit
  BY <1>5, <1>8, <1>9 DEF chart
<1>11. QED
  BY <1>10, Zenon DEF HS!ChartIsBounded

LEMMA HoursShow == ASSUME HourInv PROVE HS!HoursShowTheirIncome
<1> SUFFICES ASSUME NEW h \in HS!Shown, h < HS!Now, HS!Written(h * HourParts),
                    HS!Written((h + 1) * HourParts),
                    {h * HourParts - 1, (h + 1) * HourParts - 1} \cap overtaken = {}
             PROVE  HS!Append24HoursData[h]
                      = reports[(h + 1) * HourParts] - reports[h * HourParts]
  BY Zenon DEF HS!HoursShowTheirIncome
<1>0. /\ hour \in HS!Times /\ hour \in Nat
      /\ RedundantRows(hourRows) /\ RowsInOrder(hourRows)
  BY HourFacts
<1>1. /\ HS!FirstHour \in Int /\ HS!Now \in Nat /\ HS!FirstHour = HS!Now - Window
      /\ HS!Now * HourParts <= hour /\ hour < HS!Now * HourParts + HourParts
  BY FirstHourIs
<1>2. /\ h \in Int /\ h >= 0 /\ HS!FirstHour < h /\ h <= HS!Now
      /\ HS!Append24HoursData[h] = LevelTold(h) - LevelTold(h - 1)
  BY ChartIs
<1>3. /\ HourParts \in Nat /\ HourParts > 1 /\ Retention \in Int /\ Window \in Int
      /\ MaxDelay \in Nat /\ MaxDelay <= (Retention - Window) * HourParts
  BY HoursAssumption
<1> DEFINE begin == h * HourParts
           end == (h + 1) * HourParts
           full == HS!Now * HourParts
           kept == Retention * HourParts
           back == HS!FirstHour * HourParts
<1>4. /\ begin \in Nat /\ end \in Nat /\ full \in Nat /\ kept \in Int /\ back \in Int
      /\ end = begin + HourParts
  BY <1>1, <1>2, <1>3
<1>5. end <= full /\ back + HourParts <= begin
  <2>1. h + 1 <= HS!Now /\ HS!FirstHour + 1 <= h
    BY <1>1, <1>2
  <2>2. end <= full /\ (HS!FirstHour + 1) * HourParts <= begin
    BY <1>1, <1>2, <2>1, FullHours
  <2>3. (HS!FirstHour + 1) * HourParts = back + HourParts
    BY <1>1, <1>3
  <2>4. QED
    BY <2>2, <2>3
<1>6. MaxDelay <= kept - full + back
  <2>1. (Retention - Window) * HourParts = kept - Window * HourParts
    BY <1>3
  <2>2. back = full - Window * HourParts
    BY <1>1, <1>3
  <2>3. Window * HourParts \in Int
    BY <1>3
  <2> HIDE DEF kept, full, back
  <2>4. QED
    BY <1>3, <1>4, <2>1, <2>2, <2>3
<1>7. begin % HourParts = 0 /\ end % HourParts = 0
  BY <1>2, FullHour
<1>a. HS!Written(begin) /\ HS!Written(end) /\ begin - 1 \notin overtaken /\ end - 1 \notin overtaken
  OBVIOUS
<1>b. hour < full + HourParts /\ full <= hour
  BY <1>1
<1>c. \A t \in HS!Times : Recent(t) <=> t - 1 >= hour - kept + MaxDelay
  BY DEF Recent
<1> SUFFICES LevelTold(h) = reports[end] /\ LevelTold(h - 1) = reports[begin]
  BY <1>2
<1>d. \A s \in Nat : HS!Hour(s) = h <=> begin <= s /\ s < begin + HourParts
  BY <1>2, HourOf
<1>e. \A s \in Nat : HS!Hour(s) = h - 1 <=> begin - HourParts <= s /\ s < begin
  <2>1. (h - 1) * HourParts = begin - HourParts
    BY <1>2, <1>3
  <2> HIDE DEF begin
  <2>2. \A s \in Nat : HS!Hour(s) = h - 1 <=> begin - HourParts <= s /\ s < begin - HourParts + HourParts
    BY <1>2, <2>1, HourOf
  <2>3. QED
    BY <1>3, <1>4, <2>2
<1>z. h = 0 => begin = 0
  BY <1>3
<1>f. h > 0 => begin >= HourParts
  <2>1. h > 0 => 1 * HourParts <= h * HourParts
    BY <1>2, FullHours
  <2>2. QED
    BY <1>3, <2>1
<1>g. back = HS!FirstHour * HourParts
  OBVIOUS
<1> HIDE DEF begin, end, full, kept, back
<1>8. begin \in HS!Times /\ end \in HS!Times
  BY <1>0, <1>3, <1>4, <1>5, <1>b, TimesAre
<1>9. Recent(begin) /\ Recent(end)
  <2>1. begin - 1 >= hour - kept + MaxDelay
    BY <1>0, <1>3, <1>4, <1>5, <1>6, <1>b
  <2>2. end - 1 >= hour - kept + MaxDelay
    BY <1>0, <1>3, <1>4, <1>5, <1>6, <1>b
  <2>3. QED
    BY <1>8, <1>c, <2>1, <2>2
<1>10. PICK i \in DOMAIN hourRows : hourRows[i].time = begin - 1 /\ hourRows[i].income = reports[begin]
  BY <1>0, <1>7, <1>8, <1>9, <1>a DEF RedundantRows
<1>11. PICK j \in DOMAIN hourRows : hourRows[j].time = end - 1 /\ hourRows[j].income = reports[end]
  BY <1>0, <1>7, <1>8, <1>9, <1>a DEF RedundantRows
<1> DEFINE r == hourRows[i]
           s == hourRows[j]
<1>12. /\ r \in HoursTold /\ s \in HoursTold /\ r.time = begin - 1 /\ s.time = end - 1
       /\ r.income = reports[begin] /\ s.income = reports[end]
  BY <1>10, <1>11 DEF HoursTold, HS!ToSet
<1> HIDE DEF r, s
<1>13. /\ \A x \in HoursTold : x.time \in Int /\ x.time >= -1 /\ x.income \in Int
       /\ \A x, y \in HoursTold : x.time <= y.time => x.income <= y.income
  BY RowsGrow, RowFields
<1>14. \A g, x : x \in HS!RowsOf(g) <=> x \in HoursTold /\ x.time >= 0 /\ HS!Hour(x.time) = g
  BY DEF HS!RowsOf, HoursTold
<1>15. LevelTold(h) = reports[end]
  <2>1. s.time \in Nat /\ HS!Hour(s.time) = h
    BY <1>3, <1>4, <1>12, <1>d
  <2>2. s \in HS!RowsOf(h)
    BY <1>12, <1>14, <2>1
  <2>3. PICK x \in HS!RowsOf(h) : HS!MaxIncome(h) = x.income
    BY <2>2, MaxIncomeIs
  <2>4. s.income <= HS!MaxIncome(h)
    BY <2>2, MaxIncomeIs
  <2>5. x.income <= s.income
    <3>1. x \in HoursTold /\ x.time \in Nat /\ HS!Hour(x.time) = h
      BY <1>13, <1>14, <2>3
    <3>2. x.time < begin + HourParts
      BY <1>d, <3>1
    <3>3. x.time <= s.time
      BY <1>3, <1>4, <1>12, <3>1, <3>2
    <3>4. QED
      BY <1>12, <1>13, <3>1, <3>3
  <2>6. HS!MaxIncome(h) = s.income
    BY <1>12, <1>13, <1>14, <2>3, <2>4, <2>5
  <2>7. LevelTold(h) = HS!MaxIncome(h)
    BY <1>1, <1>2, <2>2, LevelIs
  <2>8. QED
    BY <1>12, <2>6, <2>7
<1>16. LevelTold(h - 1) = reports[begin]
  <2>1. CASE h > 0
    <3>1. r.time \in Nat /\ HS!Hour(r.time) = h - 1
      BY <1>3, <1>4, <1>12, <1>e, <1>f, <2>1
    <3>2. r \in HS!RowsOf(h - 1)
      BY <1>12, <1>14, <3>1
    <3>3. PICK x \in HS!RowsOf(h - 1) : HS!MaxIncome(h - 1) = x.income
      BY <3>2, MaxIncomeIs
    <3>4. r.income <= HS!MaxIncome(h - 1)
      BY <3>2, MaxIncomeIs
    <3>5. x.income <= r.income
      <4>1. x \in HoursTold /\ x.time \in Nat /\ HS!Hour(x.time) = h - 1
        BY <1>13, <1>14, <3>3
      <4>2. x.time < begin
        BY <1>e, <4>1
      <4>3. x.time <= r.time
        BY <1>4, <1>12, <4>1, <4>2
      <4>4. QED
        BY <1>12, <1>13, <4>1, <4>3
    <3>6. HS!MaxIncome(h - 1) = r.income
      BY <1>12, <1>13, <1>14, <3>3, <3>4, <3>5
    <3>7. LevelTold(h - 1) = HS!MaxIncome(h - 1)
      <4>1. h - 1 \in Int /\ HS!FirstHour <= h - 1
        BY <1>1, <1>2
      <4>2. QED
        BY <3>2, <4>1, LevelIs
    <3>8. QED
      BY <1>12, <3>6, <3>7
  <2>2. CASE h = 0
    <3>1. \A g \in HS!FirstHour .. h - 1 : HS!RowsOf(g) = {}
      <4> SUFFICES ASSUME NEW g \in HS!FirstHour .. h - 1, NEW x \in HS!RowsOf(g) PROVE FALSE
        OBVIOUS
      <4>1. g \in Int /\ g < 0
        BY <1>1, <2>2
      <4>2. QED
        BY <4>1, RowsOfHour
    <3>2. LevelTold(h - 1) = HS!GetLatestDeviceStat
      BY <1>2, <3>1, LevelIs
    <3>3. back <= -1
      BY <1>3, <1>4, <1>5, <1>z, <2>2
    <3>4. \A x \in HoursTold : x.time >= HS!FirstHour * HourParts /\ r.time <= x.time
      <4>1. r.time = -1
        BY <1>12, <1>z, <2>2
      <4>2. \A x \in HoursTold : x.time >= back /\ r.time <= x.time
        BY <1>4, <1>13, <3>3, <4>1
      <4>3. QED
        BY <1>g, <4>2
    <3>5. HS!GetLatestDeviceStat = r.income
      BY <1>12, <3>4, LatestIs
    <3>6. QED
      BY <1>12, <3>2, <3>5
  <2>3. QED
    BY <1>2, <2>1, <2>2
<1>17. QED
  BY <1>15, <1>16

LEMMA HoursNow == HourInv => HS!HoursShowTheirIncome /\ HS!ChartIsBounded /\ HS!TypeOK
BY ChartBounded, HoursShow DEF HourInv, HourTypes

LEMMA HoursRest == HourInv /\ UNCHANGED hourVars => HourInv'
BY DEF hourVars, HourInv, HourTypes, HS!TypeOK, HS!Times, HS!Rows, ReportsGrow, PagesInTime,
       RowsInOrder, FromReport, RedundantRows, Recent, HS!Written

\* The chart.
LEMMA HoursInvariant == Spec => []HourInv
<1>1. Init => HourInv
  BY HoursInit DEF Init
<1>2. HourInv /\ [Next]_serviceVars => HourInv'
  BY HoursRest, HoursNext DEF Next, serviceVars
<1>3. QED
  BY <1>1, <1>2, PTL DEF Spec
-----------------------------------------------------------------------------
(* The page of a node: DeviceProfile.                                      *)

RoundSteps ==
    {DP!Idle} \cup [pc : {"summed"}, income : DP!Incomes]
              \cup [pc : {"timed"}, income : DP!Incomes, time : DP!Times]

ProfileTypes ==
    /\ DP!TypeOK
    /\ finalizer \in RoundSteps /\ reported \in DP!Incomes /\ summed \in DP!Incomes
    /\ mislaid \in BOOLEAN /\ late \subseteq Clients

\* Nothing carries a time that is still to come.
NotAhead ==
    /\ finalizer.pc = "timed" => finalizer.time <= tick
    /\ \A c \in Clients :
         /\ app[c].since <= tick
         /\ poll[c] # DP!Idle => poll[c].now <= tick

\* The row, and the page that will replace it, are as new as what rounds have found.
RowsInTime ==
    /\ profiled <= income /\ page <= income /\ profiled >= summed /\ profiled >= reported
    /\ page > 0 => page >= summed
    /\ finalizer # DP!Idle => /\ profiled >= finalizer.income
                              /\ page > 0 => page >= finalizer.income
    /\ \A c \in Clients : poll[c].pc \in {"insert", "filter"} =>
         poll[c].income > 0 /\ poll[c].income <= income

\* A value that somebody knows at a time: it is as new as what was found before, by the
\* last round or by the one that is ending.
AsNew(value, time) ==
    /\ time > lastUpdate => value >= summed
    /\ finalizer.pc = "timed" /\ time > finalizer.time => value >= finalizer.income

Active(c) == app[c].since > 0 \/ poll[c] # DP!Idle

\* What a request has read is as new as the request; a request that is to be told
\* nothing belongs to a client who needs nothing; one that came while a round was
\* ending is remembered.
PollsFollow ==
    \A c \in Clients :
        /\ poll[c].pc \in {"insert", "filter"} => AsNew(poll[c].income, poll[c].now)
        /\ poll[c] # DP!Idle /\ finalizer.pc = "timed" /\ poll[c].now > finalizer.time => c \in late
        /\ ~mislaid /\ c \notin late /\ poll[c] # DP!Idle /\ ~poll[c].changed
             => AsNew(app[c].income, poll[c].now)

\* The client that is left alone: the checksum is that of what it shows.
ClientsFollow ==
    ~mislaid =>
        /\ \A c, d \in Clients : Active(c) /\ Active(d) => c = d
        /\ \A c \in Clients : c \notin late => AsNew(app[c].income, app[c].since)
        /\ \A c \in Clients : profile > 0 /\ app[c].since > 0 => app[c].income = profile

ProfileInv == ProfileTypes /\ NotAhead /\ RowsInTime /\ PollsFollow /\ ClientsFollow

LEMMA ProfileInit == DP!Init => ProfileInv
<1> SUFFICES ASSUME DP!Init PROVE ProfileInv
  OBVIOUS
<1>1. 0 \in DP!Incomes /\ 0 \in DP!Times /\ 1 \in DP!Times
  BY ProfilesAssumption DEF DP!Incomes, DP!Times
<1>2. ProfileTypes
  BY <1>1 DEF DP!Init, ProfileTypes, DP!TypeOK, RoundSteps, DP!Idle
<1>3. NotAhead /\ RowsInTime /\ PollsFollow /\ ClientsFollow
  BY DEF DP!Init, NotAhead, RowsInTime, PollsFollow, ClientsFollow, Active, AsNew, DP!Idle
<1>4. QED
  BY <1>2, <1>3 DEF ProfileInv

\* What the positions of rounds and requests say.
LEMMA RoundFields ==
  ASSUME ProfileTypes
  PROVE  /\ finalizer = DP!Idle <=> finalizer.pc = "idle"
         /\ finalizer.pc \in {"idle", "summed", "timed"}
         /\ finalizer # DP!Idle => finalizer.income \in Nat
         /\ finalizer.pc = "timed" => finalizer.time \in Nat
         /\ {tick, income, profiled, page, lastUpdate, profile, reported, summed} \subseteq Nat
BY ProfilesAssumption DEF ProfileTypes, DP!TypeOK, RoundSteps, DP!Idle, DP!Incomes, DP!Times

LEMMA PollFields ==
  ASSUME ProfileTypes, NEW c \in Clients
  PROVE  /\ poll[c] = DP!Idle <=> poll[c].pc = "idle"
         /\ poll[c].pc \in {"idle", "device", "insert", "filter"}
         /\ poll[c] # DP!Idle => poll[c].now \in Nat /\ poll[c].changed \in BOOLEAN
         /\ poll[c].pc \in {"insert", "filter"} => poll[c].income \in Nat
         /\ app[c].since \in Nat /\ app[c].income \in Nat
BY ProfilesAssumption DEF ProfileTypes, DP!TypeOK, RoundSteps, DP!Idle, DP!Incomes, DP!Times

\* Steps of the clock and of the rounds.
LEMMA RoundStep ==
  ASSUME ProfileInv,
         \/ DP!Tick \/ DP!Earn \/ DP!Fetch \/ DP!BulkUpsertDeviceInfo \/ DP!SumFullNodeInfo
         \/ DP!SumAllNodes \/ DP!CacheFullNodeInfo \/ DP!SumFails
  PROVE  ProfileInv'
<1>0. ProfileTypes /\ NotAhead /\ RowsInTime /\ PollsFollow /\ ClientsFollow
  BY DEF ProfileInv
<1>1. UNCHANGED DP!pollVars
  BY DEF DP!Tick, DP!Earn, DP!Fetch, DP!BulkUpsertDeviceInfo, DP!SumFullNodeInfo,
         DP!SumAllNodes, DP!CacheFullNodeInfo, DP!SumFails
<1>2. UNCHANGED <<unsync, profile, poll, app, mislaid, late>>
  BY <1>1 DEF DP!pollVars
<1>3. ProfileTypes'
  <2>1. /\ tick \in Nat /\ tick' \in DP!Times /\ tick' >= tick
        /\ income' \in DP!Incomes /\ profiled' \in DP!Incomes /\ page' \in DP!Incomes
        /\ lastUpdate' \in DP!Times /\ reported' \in DP!Incomes /\ summed' \in DP!Incomes
    BY <1>0, RoundFields, ProfilesAssumption
       DEF DP!Tick, DP!Earn, DP!Fetch, DP!BulkUpsertDeviceInfo, DP!SumFullNodeInfo,
           DP!SumAllNodes, DP!CacheFullNodeInfo, DP!SumFails, DP!statVars, ProfileTypes,
           DP!TypeOK, RoundSteps, DP!Idle, DP!Incomes, DP!Times
  <2>2. finalizer' \in RoundSteps
    BY <1>0, RoundFields
       DEF DP!Tick, DP!Earn, DP!Fetch, DP!BulkUpsertDeviceInfo, DP!SumFullNodeInfo,
           DP!SumAllNodes, DP!CacheFullNodeInfo, DP!SumFails, DP!statVars, ProfileTypes,
           DP!TypeOK, RoundSteps, DP!Idle
  <2>3. QED
    BY <1>0, <1>2, <2>1, <2>2 DEF ProfileTypes, DP!TypeOK
<1>4. NotAhead'
  BY <1>0, <1>2, RoundFields, PollFields
     DEF DP!Tick, DP!Earn, DP!Fetch, DP!BulkUpsertDeviceInfo, DP!SumFullNodeInfo,
         DP!SumAllNodes, DP!CacheFullNodeInfo, DP!SumFails, DP!statVars, NotAhead, DP!Idle
<1>5. RowsInTime'
  BY <1>0, <1>2, RoundFields, PollFields
     DEF DP!Tick, DP!Earn, DP!Fetch, DP!BulkUpsertDeviceInfo, DP!SumFullNodeInfo,
         DP!SumAllNodes, DP!CacheFullNodeInfo, DP!SumFails, DP!statVars, RowsInTime, DP!Idle
<1>6. \/ UNCHANGED <<finalizer, lastUpdate, summed>>
      \/ finalizer'.pc # "timed" /\ UNCHANGED <<lastUpdate, summed>>
      \/ DP!SumAllNodes
      \/ DP!CacheFullNodeInfo
  BY DEF DP!Tick, DP!Earn, DP!Fetch, DP!BulkUpsertDeviceInfo, DP!SumFullNodeInfo,
         DP!SumFails, DP!statVars, DP!Idle
<1>7. ASSUME NEW v \in Nat, NEW t \in Nat, t <= tick, AsNew(v, t) PROVE AsNew(v, t)'
  BY <1>0, <1>6, <1>7, RoundFields
     DEF AsNew, DP!SumAllNodes, DP!CacheFullNodeInfo, DP!Idle
<1>8. PollsFollow'
  <2> SUFFICES ASSUME NEW c \in Clients
               PROVE  /\ poll[c].pc \in {"insert", "filter"} => AsNew(poll[c].income, poll[c].now)'
                      /\ poll[c] # DP!Idle /\ finalizer'.pc = "timed" /\ poll[c].now > finalizer'.time
                           => c \in late
                      /\ ~mislaid /\ c \notin late /\ poll[c] # DP!Idle /\ ~poll[c].changed
                           => AsNew(app[c].income, poll[c].now)'
    BY <1>2 DEF PollsFollow, AsNew
  <2>1. poll[c].pc \in {"insert", "filter"} => AsNew(poll[c].income, poll[c].now)'
    BY <1>0, <1>2, <1>7, PollFields DEF PollsFollow, NotAhead
  <2>2. poll[c] # DP!Idle /\ finalizer'.pc = "timed" /\ poll[c].now > finalizer'.time => c \in late
    BY <1>0, <1>6, RoundFields, PollFields
       DEF PollsFollow, NotAhead, DP!SumAllNodes, DP!CacheFullNodeInfo, DP!Idle
  <2>3. ~mislaid /\ c \notin late /\ poll[c] # DP!Idle /\ ~poll[c].changed
           => AsNew(app[c].income, poll[c].now)'
    BY <1>0, <1>2, <1>7, PollFields DEF PollsFollow, NotAhead
  <2>4. QED
    BY <2>1, <2>2, <2>3
<1>9. ClientsFollow'
  <2>1. ASSUME ~mislaid, NEW c \in Clients, c \notin late PROVE AsNew(app[c].income, app[c].since)'
    BY <1>0, <1>2, <1>7, <2>1, PollFields DEF ClientsFollow, NotAhead
  <2>2. QED
    BY <1>0, <1>2, <2>1 DEF ClientsFollow, Active, AsNew
<1>10. QED
  BY <1>3, <1>4, <1>5, <1>8, <1>9 DEF ProfileInv

\* A step of a request that is no answer: it moves on, and the client knows no more.
LEMMA PollMoves ==
  ASSUME ProfileInv, NEW c \in Clients, NEW asked \in [pc : {"device"}, now : DP!Times, changed : BOOLEAN]
           \cup [pc : {"insert", "filter"}, now : DP!Times, changed : BOOLEAN, income : DP!Incomes],
         poll' = [poll EXCEPT ![c] = asked],
         UNCHANGED <<tick, income, page, finalizer, lastUpdate, reported, summed, profile, app>>,
         profiled' = profiled \/ (profiled = 0 /\ profiled' \in DP!Incomes /\ profiled' <= income),
         unsync' = unsync, mislaid' \in BOOLEAN, late' \subseteq Clients, late \subseteq late',
         mislaid => mislaid', asked.now <= tick,
         asked.pc \in {"insert", "filter"} =>
           /\ asked.income > 0 /\ asked.income <= income /\ AsNew(asked.income, asked.now),
         finalizer.pc = "timed" /\ asked.now > finalizer.time => c \in late',
         ~mislaid' /\ c \notin late' /\ ~asked.changed => AsNew(app[c].income, asked.now),
         ~mislaid' => \A d \in Clients : Active(d) => d = c
  PROVE  ProfileInv'
<1>0. ProfileTypes /\ NotAhead /\ RowsInTime /\ PollsFollow /\ ClientsFollow
  BY DEF ProfileInv
<1>1. /\ poll' \in [Clients -> {DP!Idle}
                       \cup [pc : {"device"}, now : DP!Times, changed : BOOLEAN]
                       \cup [pc : {"insert", "filter"}, now : DP!Times, changed : BOOLEAN,
                             income : DP!Incomes]]
      /\ poll'[c] = asked /\ \A d \in Clients : d # c => poll'[d] = poll[d]
  BY <1>0 DEF ProfileTypes, DP!TypeOK
<1>2. ProfileTypes'
  BY <1>0, <1>1 DEF ProfileTypes, DP!TypeOK
<1>3. NotAhead'
  BY <1>0, <1>1 DEF NotAhead
<1>4. RowsInTime'
  <2>1. /\ {income, profiled, profiled', page, reported, summed} \subseteq Nat
        /\ finalizer # DP!Idle => finalizer.income \in Nat
    BY <1>0, RoundFields DEF DP!Incomes
  <2>2. /\ profiled' <= income /\ profiled' >= summed /\ profiled' >= reported
        /\ finalizer # DP!Idle => profiled' >= finalizer.income
    BY <1>0, <2>1 DEF RowsInTime
  <2>3. \A d \in Clients : poll'[d].pc \in {"insert", "filter"} =>
          poll'[d].income > 0 /\ poll'[d].income <= income
    BY <1>0, <1>1 DEF RowsInTime
  <2>4. QED
    BY <1>0, <2>2, <2>3 DEF RowsInTime
<1>5. PollsFollow'
  <2>1. \A d \in Clients : /\ poll'[d].pc \in {"insert", "filter"} => AsNew(poll'[d].income, poll'[d].now)
                           /\ poll'[d] # DP!Idle /\ finalizer.pc = "timed" /\ poll'[d].now > finalizer.time
                                => d \in late'
    BY <1>0, <1>1 DEF PollsFollow
  <2>2. \A d \in Clients : ~mislaid' /\ d \notin late' /\ poll'[d] # DP!Idle /\ ~poll'[d].changed
                             => AsNew(app[d].income, poll'[d].now)
    BY <1>0, <1>1 DEF PollsFollow
  <2>3. QED
    BY <2>1, <2>2 DEF PollsFollow, AsNew
<1>6. ClientsFollow'
  BY <1>0, <1>1 DEF ClientsFollow, Active, AsNew
<1>7. QED
  BY <1>2, <1>3, <1>4, <1>5, <1>6 DEF ProfileInv

LEMMA RequestStep ==
  ASSUME ProfileInv, NEW c \in Clients, DP!GetDeviceProfile(c)
  PROVE  ProfileInv'
<1> DEFINE asked == [pc |-> "device", now |-> tick, changed |-> DP!DataChanged(c)]
<1>0. ProfileTypes /\ NotAhead /\ RowsInTime /\ PollsFollow /\ ClientsFollow
  BY DEF ProfileInv
<1>1. /\ asked \in [pc : {"device"}, now : DP!Times, changed : BOOLEAN]
      /\ poll' = [poll EXCEPT ![c] = asked]
      /\ UNCHANGED <<tick, income, page, finalizer, lastUpdate, reported, summed, profile, app>>
      /\ profiled' = profiled /\ unsync' = unsync
  BY <1>0 DEF DP!GetDeviceProfile, DP!Goto, DP!statVars, DP!DataChanged, ProfileTypes, DP!TypeOK
<1>2. asked.now = tick /\ asked.pc = "device" /\ asked.changed = DP!DataChanged(c)
  OBVIOUS
<1>3. /\ late' \subseteq Clients /\ late \subseteq late' /\ mislaid' \in BOOLEAN
      /\ mislaid => mislaid'
      /\ finalizer.pc = "timed" => c \in late'
      /\ finalizer.pc # "timed" => late' = late
  BY <1>0 DEF DP!GetDeviceProfile, ProfileTypes
<1>4. ~mislaid' => \A d \in Clients : Active(d) => d = c
  BY <1>0, PollFields DEF DP!GetDeviceProfile, Active
<1>5. ~mislaid' /\ c \notin late' /\ ~DP!DataChanged(c) => AsNew(app[c].income, tick)
  <2> SUFFICES ASSUME ~mislaid', c \notin late', ~DP!DataChanged(c)
               PROVE  AsNew(app[c].income, tick)
    OBVIOUS
  <2>1. ~mislaid /\ c \notin late /\ finalizer.pc # "timed"
    BY <1>3, Zenon
  <2>2. AsNew(app[c].income, app[c].since)
    BY <1>0, <2>1 DEF ClientsFollow
  <2>3. app[c].since \in Nat /\ lastUpdate \in Nat /\ app[c].since > lastUpdate
    BY <1>0, RoundFields, PollFields DEF DP!DataChanged
  <2>4. QED
    BY <2>1, <2>2, <2>3 DEF AsNew
<1>6. /\ asked.now <= tick
      /\ asked.pc \notin {"insert", "filter"}
      /\ finalizer.pc = "timed" /\ asked.now > finalizer.time => c \in late'
      /\ ~mislaid' /\ c \notin late' /\ ~asked.changed => AsNew(app[c].income, asked.now)
  <2>1. asked.now <= tick /\ asked.pc \notin {"insert", "filter"}
    BY <1>0, <1>2, RoundFields
  <2>2. finalizer.pc = "timed" /\ asked.now > finalizer.time => c \in late'
    BY <1>3
  <2>3. ~mislaid' /\ c \notin late' /\ ~asked.changed => AsNew(app[c].income, asked.now)
    BY <1>2, <1>5, Zenon
  <2>4. QED
    BY <2>1, <2>2, <2>3
<1> HIDE DEF asked
<1>7. QED
  BY <1>1, <1>3, <1>4, <1>6, PollMoves

\* The steps between the request and its answer.
LEMMA ReadStep ==
  ASSUME ProfileInv, NEW c \in Clients,
         DP!GetDeviceInfo(c) \/ DP!GetNodeInfoFromScheduler(c) \/ DP!BulkAddDeviceInfo(c)
  PROVE  ProfileInv'
<1>0. ProfileTypes /\ NotAhead /\ RowsInTime /\ PollsFollow /\ ClientsFollow
  BY DEF ProfileInv
<1>1. poll[c] # DP!Idle /\ poll[c].pc \in {"device", "insert", "filter"}
  BY PollFields, <1>0 DEF DP!GetDeviceInfo, DP!GetNodeInfoFromScheduler, DP!BulkAddDeviceInfo
<1>2. /\ UNCHANGED <<tick, income, page, finalizer, lastUpdate, reported, summed, profile, app>>
      /\ unsync' = unsync /\ mislaid' = mislaid /\ late' = late
  BY DEF DP!GetDeviceInfo, DP!GetNodeInfoFromScheduler, DP!BulkAddDeviceInfo, DP!statVars
<1>3. poll[c].now \in DP!Times /\ poll[c].changed \in BOOLEAN /\ poll[c].now <= tick
  BY <1>0, <1>1 DEF ProfileTypes, DP!TypeOK, NotAhead, DP!Idle
<1>4. /\ finalizer.pc = "timed" /\ poll[c].now > finalizer.time => c \in late
      /\ ~mislaid /\ c \notin late /\ ~poll[c].changed => AsNew(app[c].income, poll[c].now)
      /\ ~mislaid => \A d \in Clients : Active(d) => d = c
  BY <1>0, <1>1 DEF PollsFollow, ClientsFollow, Active
<1>5. profiled' = profiled \/ (profiled = 0 /\ profiled' \in DP!Incomes /\ profiled' <= income)
  BY <1>0, RoundFields DEF DP!GetDeviceInfo, DP!GetNodeInfoFromScheduler, DP!BulkAddDeviceInfo,
         DP!statVars, RowsInTime, ProfileTypes, DP!TypeOK, DP!Idle
<1>6. PICK asked \in [pc : {"insert", "filter"}, now : DP!Times, changed : BOOLEAN,
                        income : DP!Incomes] :
        /\ poll' = [poll EXCEPT ![c] = asked]
        /\ asked.now = poll[c].now /\ asked.changed = poll[c].changed
        /\ asked.income > 0 /\ asked.income <= income
        /\ AsNew(asked.income, asked.now)
  <2>1. CASE DP!GetDeviceInfo(c)
    <3> DEFINE asked == [pc |-> "filter", now |-> poll[c].now, changed |-> poll[c].changed,
                           income |-> profiled]
    <3>1. poll' = [poll EXCEPT ![c] = asked] /\ profiled > 0
      BY <2>1 DEF DP!GetDeviceInfo, DP!Goto, DP!WithIncome
    <3>2. asked \in [pc : {"insert", "filter"}, now : DP!Times, changed : BOOLEAN,
                        income : DP!Incomes]
      BY <1>0, <1>3 DEF ProfileTypes, DP!TypeOK
    <3>3. profiled <= income /\ AsNew(profiled, poll[c].now)
      BY <1>0, RoundFields DEF RowsInTime, AsNew, DP!Idle
    <3>4. QED
      BY <3>1, <3>2, <3>3
  <2>2. CASE DP!GetNodeInfoFromScheduler(c)
    <3> DEFINE asked == [pc |-> "insert", now |-> poll[c].now, changed |-> poll[c].changed,
                           income |-> income]
    <3>1. poll' = [poll EXCEPT ![c] = asked] /\ income > 0
      BY <2>2 DEF DP!GetNodeInfoFromScheduler, DP!Goto, DP!WithIncome
    <3>2. asked \in [pc : {"insert", "filter"}, now : DP!Times, changed : BOOLEAN,
                        income : DP!Incomes]
      BY <1>0, <1>3 DEF ProfileTypes, DP!TypeOK
    <3>3. income <= income /\ AsNew(income, poll[c].now)
      BY <1>0, RoundFields DEF RowsInTime, AsNew, DP!Idle
    <3>4. QED
      BY <3>1, <3>2, <3>3
  <2>3. CASE DP!BulkAddDeviceInfo(c)
    <3> DEFINE asked == [poll[c] EXCEPT !.pc = "filter"]
    <3>1. poll' = [poll EXCEPT ![c] = asked] /\ poll[c].pc = "insert"
      BY <2>3 DEF DP!BulkAddDeviceInfo, DP!Goto
    <3>2. poll[c] \in [pc : {"insert", "filter"}, now : DP!Times, changed : BOOLEAN,
                        income : DP!Incomes]
      BY <1>0, <3>1 DEF ProfileTypes, DP!TypeOK, DP!Idle
    <3>3. /\ asked \in [pc : {"insert", "filter"}, now : DP!Times, changed : BOOLEAN,
                        income : DP!Incomes]
          /\ asked.now = poll[c].now /\ asked.changed = poll[c].changed
          /\ asked.income = poll[c].income
      BY <3>2
    <3>4. poll[c].income > 0 /\ poll[c].income <= income /\ AsNew(poll[c].income, poll[c].now)
      BY <1>0, <3>1 DEF RowsInTime, PollsFollow
    <3>5. QED
      BY <3>1, <3>3, <3>4
  <2>4. QED
    BY <2>1, <2>2, <2>3
<1>7. mislaid \in BOOLEAN /\ late \subseteq Clients
  BY <1>0 DEF ProfileTypes
<1>8. QED
  BY <1>2, <1>3, <1>4, <1>5, <1>6, <1>7, PollMoves

\* A request ends: with what its client knows from now on.
LEMMA PollEnds ==
  ASSUME ProfileInv, NEW c \in Clients, NEW known, known \in [income : DP!Incomes, since : DP!Times],
         known.since <= tick, poll[c] # DP!Idle,
         poll' = [poll EXCEPT ![c] = DP!Idle], app' = [app EXCEPT ![c] = known],
         UNCHANGED <<tick, income, profiled, page, finalizer, lastUpdate, reported, summed>>,
         unsync' \in Nat, mislaid' \in BOOLEAN, late' \subseteq Clients,
         \A d \in Clients : d # c /\ d \in late => d \in late',
         mislaid => mislaid', profile' \in DP!Incomes,
         ~mislaid' => /\ c \notin late' => AsNew(known.income, known.since)
                      /\ profile' > 0 /\ known.since > 0 => known.income = profile'
  PROVE  ProfileInv'
<1>0. ProfileTypes /\ NotAhead /\ RowsInTime /\ PollsFollow /\ ClientsFollow
  BY DEF ProfileInv
<1>1. /\ poll' \in [Clients -> {DP!Idle}
                       \cup [pc : {"device"}, now : DP!Times, changed : BOOLEAN]
                       \cup [pc : {"insert", "filter"}, now : DP!Times, changed : BOOLEAN,
                             income : DP!Incomes]]
      /\ poll'[c] = DP!Idle /\ \A d \in Clients : d # c => poll'[d] = poll[d]
      /\ app' \in [Clients -> [income : DP!Incomes, since : DP!Times]]
      /\ app'[c] = known /\ \A d \in Clients : d # c => app'[d] = app[d]
  BY <1>0 DEF ProfileTypes, DP!TypeOK
<1>2. ProfileTypes'
  BY <1>0, <1>1 DEF ProfileTypes, DP!TypeOK
<1>3. NotAhead'
  BY <1>0, <1>1 DEF NotAhead
<1>4. RowsInTime'
  BY <1>0, <1>1 DEF RowsInTime, DP!Idle
<1>5. PollsFollow'
  BY <1>0, <1>1 DEF PollsFollow, AsNew, DP!Idle
<1>6. ClientsFollow'
  <2> SUFFICES ASSUME ~mislaid'
               PROVE  /\ \A a, b \in Clients : Active(a)' /\ Active(b)' => a = b
                      /\ \A a \in Clients : a \notin late' => AsNew(app'[a].income, app'[a].since)
                      /\ \A a \in Clients : profile' > 0 /\ app'[a].since > 0
                           => app'[a].income = profile'
    BY DEF ClientsFollow, AsNew
  <2>1. \A d \in Clients : d # c => ~Active(d) /\ app[d].since = 0
    BY <1>0, PollFields DEF ClientsFollow, Active
  <2>2. \A a, b \in Clients : Active(a)' /\ Active(b)' => a = b
    BY <1>1, <2>1 DEF Active
  <2>3. \A a \in Clients : a \notin late' => AsNew(app'[a].income, app'[a].since)
    BY <1>0, <1>1 DEF ClientsFollow
  <2>4. QED
    BY <1>1, <2>1, <2>2, <2>3
<1>7. QED
  BY <1>2, <1>3, <1>4, <1>5, <1>6 DEF ProfileInv

LEMMA AnswerStep ==
  ASSUME ProfileInv, NEW c \in Clients, DP!FilterResponse(c)
  PROVE  ProfileInv'
<1> DEFINE response == DP!Response(c)
           tells == IF app[c].since > 0 /\ response = profile THEN 0 ELSE response
           known == [income |-> IF tells > 0 THEN tells ELSE app[c].income, since |-> poll[c].now]
<1>0. ProfileTypes /\ NotAhead /\ RowsInTime /\ PollsFollow /\ ClientsFollow
  BY DEF ProfileInv
<1>1. /\ poll[c] # DP!Idle /\ poll[c].pc = "filter" /\ poll[c].now \in DP!Times
      /\ poll[c].income \in DP!Incomes /\ poll[c].now <= tick /\ poll[c].changed \in BOOLEAN
  BY <1>0, PollFields DEF DP!FilterResponse, ProfileTypes, DP!TypeOK, NotAhead, DP!Idle
<1>2. /\ response \in DP!Incomes /\ tells \in DP!Incomes /\ profile \in DP!Incomes
      /\ ~poll[c].changed => response = 0
      /\ poll[c].changed => response = poll[c].income /\ response > 0
  BY <1>0, <1>1, ProfilesAssumption DEF DP!Response, RowsInTime, DP!Incomes, ProfileTypes, DP!TypeOK
<1>3. /\ poll' = [poll EXCEPT ![c] = DP!Idle] /\ profile' = response
      /\ UNCHANGED <<tick, income, profiled, page, finalizer, lastUpdate, reported, summed, unsync>>
      /\ \/ /\ app' = [app EXCEPT ![c] = known] /\ mislaid' = mislaid
            /\ late' = IF tells > 0 THEN late \ {c} ELSE late
         \/ mislaid' = TRUE /\ UNCHANGED <<app, late>>
  BY <1>0 DEF DP!FilterResponse, DP!Answered, DP!Goto, DP!statVars, ProfileTypes, DP!TypeOK
<1>4. CASE mislaid' = TRUE /\ UNCHANGED <<app, late>>
  <2>1. app' = [app EXCEPT ![c] = app[c]] /\ app[c] \in [income : DP!Incomes, since : DP!Times]
    BY <1>0, <1>4 DEF ProfileTypes, DP!TypeOK
  <2>2. app[c].since <= tick /\ late \subseteq Clients /\ unsync \in Nat
    BY <1>0 DEF NotAhead, ProfileTypes, DP!TypeOK
  <2> HIDE DEF response
  <2>3. QED
    BY <1>1, <1>2, <1>3, <1>4, <2>1, <2>2, PollEnds
<1>5. CASE /\ app' = [app EXCEPT ![c] = known] /\ mislaid' = mislaid
           /\ late' = IF tells > 0 THEN late \ {c} ELSE late
  <2>1. known \in [income : DP!Incomes, since : DP!Times]
    BY <1>0, <1>1, <1>2 DEF ProfileTypes, DP!TypeOK
  <2>2. known.since = poll[c].now /\ known.income = IF tells > 0 THEN tells ELSE app[c].income
    OBVIOUS
  <2>3. late \subseteq Clients /\ unsync \in Nat /\ mislaid \in BOOLEAN
    BY <1>0 DEF ProfileTypes, DP!TypeOK
  <2> HIDE DEF known, response
  <2>4. response \in Nat /\ profile \in Nat
    BY <1>2 DEF DP!Incomes
  <2>5. ~mislaid /\ response > 0 => known.income = response
    BY <1>0, <2>2, <2>4, PollFields DEF ClientsFollow
  <2>6. ~mislaid /\ c \notin late' => AsNew(known.income, known.since)
    <3>1. CASE poll[c].changed
      BY <1>0, <1>1, <1>2, <2>2, <2>5, <3>1 DEF PollsFollow
    <3>2. CASE ~poll[c].changed
      <4>1. tells = 0
        BY <1>2, <3>2
      <4>2. QED
        BY <1>0, <1>1, <1>5, <2>2, <3>2, <4>1 DEF PollsFollow
    <3>3. QED
      BY <1>1, <3>1, <3>2
  <2>7. late' \subseteq Clients /\ \A d \in Clients : d # c /\ d \in late => d \in late'
    BY <1>5, <2>3
  <2>8. QED
    BY <1>1, <1>2, <1>3, <1>5, <2>1, <2>2, <2>3, <2>5, <2>6, <2>7, PollEnds
<1>6. QED
  BY <1>3, <1>4, <1>5

LEMMA ProfileNext == ProfileInv /\ [DP!Next]_profileVars => ProfileInv'
<1> SUFFICES ASSUME ProfileInv, [DP!Next]_profileVars PROVE ProfileInv'
  OBVIOUS
<1>0. ProfileTypes /\ NotAhead /\ RowsInTime /\ PollsFollow /\ ClientsFollow
  BY DEF ProfileInv
<1>1. ASSUME NEW c \in Clients, DP!NodeNotFound(c) PROVE ProfileInv'
  <2>1. /\ poll[c] # DP!Idle /\ app[c] \in [income : DP!Incomes, since : DP!Times]
        /\ app' = [app EXCEPT ![c] = app[c]] /\ app[c].since <= tick
        /\ poll' = [poll EXCEPT ![c] = DP!Idle]
        /\ UNCHANGED <<tick, income, profiled, page, finalizer, lastUpdate, reported, summed>>
        /\ profile' = profile /\ mislaid' = mislaid /\ late' = late
    BY <1>0, <1>1, PollFields
       DEF DP!NodeNotFound, DP!Goto, DP!statVars, ProfileTypes, DP!TypeOK, NotAhead, DP!Idle
  <2>2. unsync' \in Nat /\ mislaid \in BOOLEAN /\ late \subseteq Clients /\ profile \in DP!Incomes
    BY <1>0, <1>1 DEF DP!NodeNotFound, ProfileTypes, DP!TypeOK
  <2>3. ~mislaid => /\ c \notin late => AsNew(app[c].income, app[c].since)
                    /\ profile > 0 /\ app[c].since > 0 => app[c].income = profile
    BY <1>0 DEF ClientsFollow
  <2>4. QED
    BY <2>1, <2>2, <2>3, PollEnds
<1>2. ASSUME NEW c \in Clients, DP!FilterFails(c) PROVE ProfileInv'
  <2> DEFINE known == [app[c] EXCEPT !.since = poll[c].now]
  <2>1. /\ poll[c] # DP!Idle /\ poll[c].now \in DP!Times /\ poll[c].now <= tick
        /\ app[c] \in [income : DP!Incomes, since : DP!Times]
    BY <1>0, <1>2, PollFields DEF DP!FilterFails, ProfileTypes, DP!TypeOK, NotAhead, DP!Idle
  <2>2. known \in [income : DP!Incomes, since : DP!Times] /\ known.since = poll[c].now
    BY <2>1
  <2>3. /\ app' = [app EXCEPT ![c] = known] /\ poll' = [poll EXCEPT ![c] = DP!Idle]
        /\ UNCHANGED <<tick, income, profiled, page, finalizer, lastUpdate, reported, summed>>
        /\ profile' = profile /\ mislaid' = TRUE /\ late' = late /\ unsync' = unsync
    BY <1>0, <1>2 DEF DP!FilterFails, DP!Goto, DP!statVars, ProfileTypes, DP!TypeOK
  <2>4. unsync \in Nat /\ late \subseteq Clients /\ profile \in DP!Incomes
    BY <1>0 DEF ProfileTypes, DP!TypeOK
  <2> HIDE DEF known
  <2>5. QED
    BY <2>1, <2>2, <2>3, <2>4, PollEnds
<1>3. CASE DP!ProfileExpires
  <2>1. /\ profile' = 0 /\ UNCHANGED <<tick, income, profiled, page, finalizer, lastUpdate, reported,
                               summed, unsync, poll, app, mislaid, late>>
        /\ 0 \in DP!Incomes
    BY <1>3, ProfilesAssumption DEF DP!ProfileExpires, DP!statVars, DP!Incomes
  <2>2. QED
    BY <1>0, <2>1 DEF ProfileInv, ProfileTypes, DP!TypeOK, NotAhead, RowsInTime, PollsFollow,
           ClientsFollow, AsNew, Active
<1>4. CASE UNCHANGED profileVars
  BY <1>0, <1>4 DEF profileVars, ProfileInv, ProfileTypes, DP!TypeOK, NotAhead, RowsInTime, PollsFollow,
         ClientsFollow, AsNew, Active
<1>5. QED
  BY <1>1, <1>2, <1>3, <1>4, RoundStep, RequestStep, ReadStep, AnswerStep DEF DP!Next, DP!Poll

LEMMA ProfileNow == ProfileInv => DP!ProfilesFollow /\ DP!RowsStay /\ DP!TypeOK
BY DEF ProfileInv, ProfileTypes, RowsInTime, ClientsFollow, AsNew, DP!ProfilesFollow, DP!RowsStay

\* The page of a node.
LEMMA ProfileInvariant == Spec => []ProfileInv
<1>1. Init => ProfileInv
  BY ProfileInit DEF Init
<1>2. ProfileInv /\ [Next]_serviceVars => ProfileInv'
  BY ProfileNext DEF Next, serviceVars
<1>3. QED
  BY <1>1, <1>2, PTL DEF Spec
-----------------------------------------------------------------------------
(* The rewards of users and of those who brought them: UserRewards.         *)

RewardSums == [l1 : Int, l2 : Int, devices : 0 .. UR!Cardinality(Devices), eligible : Nat]
SumsTyped(sums) == DOMAIN sums \subseteq Users /\ \A u \in DOMAIN sums : sums[u] \in RewardSums

\* The local variables of a round.
RoundTypes ==
    /\ fin.pc = "idle" => fin = UR!Idle
    /\ fin.pc = "levels" =>
         SumsTyped(fin.sums) /\ \A u \in DOMAIN fin.floor : fin.floor[u] \in UR!Levels
    /\ fin.pc = "collect" => SumsTyped(fin.sums) /\ fin.level \in [Users -> UR!Levels]
    /\ fin.pc \in {"l1", "users", "referral", "details"} =>
         /\ fin = [pc |-> fin.pc, rewards |-> fin.rewards, changed |-> fin.changed,
                   details |-> fin.details]
         /\ SumsTyped(fin.rewards) /\ DOMAIN fin.rewards \subseteq DOMAIN fin.changed
         /\ DOMAIN fin.changed \subseteq Users
         /\ \A u \in DOMAIN fin.changed : fin.changed[u] \in Int
         /\ fin.details \in [Users \X Users -> Int]

RewardTypes ==
    /\ UR!TypeOK /\ credited \in [Users -> Int] /\ dropped \in [Users -> Int]
    /\ faults \in Nat /\ RoundTypes

\* The changes a user's ancestors have been paid for, or have lost to a failure.
PaidOrLost(u) == credited[u] + dropped[u]
PaidFor(u) == PaidOrLost(u) = users[u].reward - l1Reward[u]

\* Between its statements a round is about to pay for the difference between the
\* two tables: of each user it writes, the local change covers what the L2 profit
\* has over what has been paid, and of the others there is nothing to pay.
CommissionsExact ==
    /\ fin.pc \in {"idle", "levels", "collect", "l1", "details"} =>
         \A u \in Users \ unmatched : PaidFor(u)
    /\ fin.pc \in {"l1", "users"} =>
         /\ \A u \in DOMAIN fin.rewards \ unmatched :
              PaidOrLost(u) + fin.changed[u] = fin.rewards[u].l2
         /\ \A u \in DOMAIN fin.changed \ DOMAIN fin.rewards : fin.changed[u] = 0
    /\ fin.pc = "users" =>
         /\ \A u \in DOMAIN fin.rewards \ unmatched : l1Reward[u] = fin.rewards[u].l1
         /\ \A u \in Users \ (DOMAIN fin.rewards \cup unmatched) : PaidFor(u)
    /\ fin.pc = "referral" =>
         \A u \in Users \ unmatched :
             PaidOrLost(u) + UR!ChangeOf(u) = users[u].reward - l1Reward[u]

Explaining(u) == UR!SumOver([v \in Users |-> detail[<<u, v>>]], Users)
Underway(u) == UR!SumOver([v \in Users |-> fin.details[<<u, v>>]], Users)
DetailsExplain ==
    faults = 0 => \A u \in Users :
        users[u].referral = Explaining(u) + IF fin.pc = "details" THEN Underway(u) ELSE 0

RewardInv == RewardTypes /\ CommissionsExact /\ DetailsExplain

LEMMA SumsOfRewards == ASSUME NEW f, NEW S PROVE UR!SumOver(f, S) = Total(f, S)
BY Zenon DEF UR!SumOver, UR!MapThenSumSet, UR!MapThenFoldSet, Total, MapThenSumSet, MapThenFoldSet

LEMMA CountsOfRewards == ASSUME NEW S PROVE UR!Cardinality(S) = Cardinality(S)
BY Zenon DEF UR!Cardinality, Cardinality

ProfitOf == [d \in Devices |-> deviceInfo[d].profit]
DevicesOf(u, type) == {d \in Devices : deviceInfo[d].user = u /\ NodeType[d] = type}

LEMMA ProfitIs ==
  ASSUME RewardTypes, NEW u, NEW type
  PROVE  UR!Profit(u, type) \in Int
<1>1. UR!Profit(u, type) = Total(ProfitOf, DevicesOf(u, type))
  BY SumsOfRewards, Zenon DEF UR!Profit, ProfitOf, DevicesOf
<1>2. IsFiniteSet(DevicesOf(u, type))
  BY RewardsAssumption, FS_Subset DEF DevicesOf
<1>3. IntOn(ProfitOf, DevicesOf(u, type))
  BY DEF RewardTypes, UR!TypeOK, ProfitOf, IntOn, DevicesOf
<1>4. QED
  BY <1>1, <1>2, <1>3, TotalType

LEMMA RewardInits == UR!Init => RewardInv
<1> SUFFICES ASSUME UR!Init PROVE RewardInv
  OBVIOUS
<1>0. fin = [pc |-> "idle"] /\ fin.pc = "idle" /\ faults = 0
  BY DEF UR!Init, UR!Idle
<1>1. RewardTypes
  <2>1. UR!Cardinality(Devices) \in Nat
    BY RewardsAssumption, FS_CardinalityType, CountsOfRewards
  <2>2. 0 \in UR!Levels /\ 0 \in 0 .. UR!Cardinality(Devices)
    BY <2>1, RewardsAssumption DEF UR!Levels
  <2>3. deviceInfo \in [Devices -> [user : Users \cup {NoName}, profit : Int,
                                    online : BOOLEAN]]
    BY <2>2, RewardsAssumption DEF UR!Init
  <2>a. kol \in [Users -> [level : UR!Levels, comment : {"none", "system", "admin"}]]
    BY <2>2 DEF UR!Init, UR!NoKol
  <2>b. users \in [Users -> [reward : Int, devices : 0 .. UR!Cardinality(Devices), referral : Int]]
    BY <2>2 DEF UR!Init
  <2>c. /\ l1Reward \in [Users -> Nat] /\ detail \in [Users \X Users -> Int]
        /\ credited \in [Users -> Int] /\ dropped \in [Users -> Int] /\ unmatched = {}
    BY DEF UR!Init
  <2>d. fin.pc \in {"idle", "levels", "collect", "l1", "users", "referral", "details"}
    BY <1>0
  <2>4. UR!TypeOK
    BY <2>3, <2>a, <2>b, <2>c, <2>d DEF UR!TypeOK
  <2>5. RoundTypes
    BY <1>0 DEF RoundTypes, UR!Idle
  <2>6. QED
    BY <1>0, <2>4, <2>5, <2>c DEF RewardTypes
<1>3. CommissionsExact
  BY <1>0 DEF UR!Init, CommissionsExact, PaidFor, PaidOrLost
<1>4. DetailsExplain
  <2> SUFFICES ASSUME NEW u \in Users PROVE users[u].referral = Explaining(u) + 0
    BY <1>0 DEF DetailsExplain
  <2> DEFINE f == [v \in Users |-> detail[<<u, v>>]]
  <2>1. \A v \in Users : f[v] = 0
    BY DEF UR!Init
  <2> HIDE DEF f
  <2>2. Total(f, Users) = 0
    BY <2>1, RewardsAssumption, TotalZero
  <2>3. Explaining(u) = Total(f, Users)
    BY SumsOfRewards, Zenon DEF f, Explaining
  <2>4. users[u].referral = 0
    BY DEF UR!Init
  <2>5. QED
    BY <2>2, <2>3, <2>4
<1>5. QED
  BY <1>1, <1>3, <1>4 DEF RewardInv

LEMMA RewardFacts ==
  ASSUME RewardTypes
  PROVE  /\ deviceInfo \in [Devices -> [user : Users \cup {NoName}, profit : Int,
                                        online : BOOLEAN]]
         /\ kol \in [Users -> [level : UR!Levels, comment : {"none", "system", "admin"}]]
         /\ users \in [Users -> [reward : Int, devices : 0 .. UR!Cardinality(Devices), referral : Int]]
         /\ l1Reward \in [Users -> Nat] /\ detail \in [Users \X Users -> Int]
         /\ credited \in [Users -> Int] /\ dropped \in [Users -> Int]
         /\ unmatched \subseteq Users /\ faults \in Nat
         /\ \A u \in Users : /\ users[u].reward \in Int /\ users[u].referral \in Int
                             /\ users[u].devices \in 0 .. UR!Cardinality(Devices)
                             /\ l1Reward[u] \in Nat /\ credited[u] \in Int /\ dropped[u] \in Int
                             /\ kol[u].level \in UR!Levels
BY DEF RewardTypes, UR!TypeOK

LEMMA BoundsOfLevels ==
  ASSUME NEW B \in SUBSET UR!Levels, B # {}
  PROVE  UR!Min(B) \in B /\ UR!Max(B) \in B
<1>1. B \in SUBSET (0 .. LastLevel) /\ 0 \in Int /\ LastLevel \in Int
  BY RewardsAssumption DEF UR!Levels
<1>2. \E k \in B : \A j \in B : k <= j
  BY <1>1, LeastOf
<1>3. \E k \in B : \A j \in B : k >= j
  BY <1>1, GreatestOf
<1>4. UR!Min(B) = CHOOSE x \in B : \A y \in B : x <= y
  BY Zenon DEF UR!Min
<1>5. UR!Max(B) = CHOOSE x \in B : \A y \in B : x >= y
  BY Zenon DEF UR!Max
<1>6. QED
  BY <1>2, <1>3, <1>4, <1>5

LEMMA LevelIn ==
  ASSUME RewardTypes, fin.pc = "levels", NEW r
  PROVE  UR!LevelOf(r) \in UR!Levels
<1> DEFINE reached == {l \in UR!Levels : l = LastLevel \/ UR!Brought(r) < Threshold[l]}
           level == UR!Min(reached)
<1>1. UR!LevelOf(r) = IF r \in DOMAIN fin.floor THEN UR!Max({level, fin.floor[r]}) ELSE level
  BY Zenon DEF UR!LevelOf
<1>2. reached \in SUBSET UR!Levels /\ reached # {}
  <2>1. LastLevel \in UR!Levels
    BY RewardsAssumption DEF UR!Levels
  <2>2. QED
    BY <2>1
<1> HIDE DEF reached
<1>3. level \in UR!Levels
  BY <1>2, BoundsOfLevels
<1> HIDE DEF level
<1>4. CASE r \in DOMAIN fin.floor
  <2>1. fin.floor[r] \in UR!Levels
    BY <1>4 DEF RewardTypes, RoundTypes
  <2>2. {level, fin.floor[r]} \in SUBSET UR!Levels /\ {level, fin.floor[r]} # {}
    BY <1>3, <2>1
  <2>3. UR!Max({level, fin.floor[r]}) \in UR!Levels
    BY <2>2, BoundsOfLevels
  <2>4. QED
    BY <1>1, <1>4, <2>3
<1>5. CASE r \notin DOMAIN fin.floor
  BY <1>1, <1>3, <1>5
<1>6. QED
  BY <1>4, <1>5

\* Steps around a round.
LEMMA TypesAround ==
  ASSUME RewardTypes,
         \/ \E d \in Devices : UR!BulkUpsertDeviceInfo(d) \/ UR!UnbindDevice(d)
         \/ \E d \in Devices, u \in Binders : UR!BindDevice(d, u)
         \/ \E u \in KolUsers, l \in UR!Levels : UR!AddKOL(u, l) \/ UR!UpdateKOL(u, l)
         \/ \E u \in KolUsers : UR!DeleteKOL(u)
  PROVE  RewardTypes' /\ UNCHANGED <<users, l1Reward, detail, fin, credited, dropped, unmatched, faults>>
<1>0. KolUsers \subseteq Users /\ Binders \subseteq Users /\ LastLevel \in Nat
  BY RewardsAssumption
<1>1. UNCHANGED <<users, l1Reward, detail, fin, credited, dropped, unmatched, faults>>
  BY DEF UR!BulkUpsertDeviceInfo, UR!BindDevice, UR!UnbindDevice, UR!AddKOL, UR!UpdateKOL,
         UR!DeleteKOL, UR!tableVars, UR!paidVars
<1>2. deviceInfo' \in [Devices -> [user : Users \cup {NoName}, profit : Int,
                                   online : BOOLEAN]]
  <2>0. deviceInfo \in [Devices -> [user : Users \cup {NoName}, profit : Int,
                                    online : BOOLEAN]]
    BY RewardFacts
  <2>1. CASE \E d \in Devices : UR!BulkUpsertDeviceInfo(d)
    <3>0. PICK d \in Devices : UR!BulkUpsertDeviceInfo(d)
      BY <2>1
    <3>1. PICK x \in Profits[NodeType[d]] :
            deviceInfo' = [deviceInfo EXCEPT ![d].profit = x, ![d].online = TRUE]
      BY <3>0 DEF UR!BulkUpsertDeviceInfo
    <3>2. x \in Int
      BY RewardsAssumption
    <3>3. QED
      BY <2>0, <3>1, <3>2
  <2>2. CASE \E d \in Devices, u \in Binders : UR!BindDevice(d, u)
    BY <1>0, <2>0, <2>2 DEF UR!BindDevice
  <2>3. CASE \E d \in Devices : UR!UnbindDevice(d)
    BY <2>0, <2>3 DEF UR!UnbindDevice
  <2>4. CASE UNCHANGED deviceInfo
    BY <2>0, <2>4
  <2>5. QED
    BY <2>1, <2>2, <2>3, <2>4 DEF UR!AddKOL, UR!UpdateKOL, UR!DeleteKOL
<1>3. kol' \in [Users -> [level : UR!Levels, comment : {"none", "system", "admin"}]]
  <2>0. kol \in [Users -> [level : UR!Levels, comment : {"none", "system", "admin"}]]
        /\ 0 \in UR!Levels
    BY <1>0, RewardFacts DEF UR!Levels
  <2>1. CASE \E u \in KolUsers, l \in UR!Levels : UR!AddKOL(u, l) \/ UR!UpdateKOL(u, l)
    BY <1>0, <2>0, <2>1 DEF UR!AddKOL, UR!UpdateKOL
  <2>2. CASE \E u \in KolUsers : UR!DeleteKOL(u)
    BY <1>0, <2>0, <2>2 DEF UR!DeleteKOL, UR!NoKol
  <2>3. CASE UNCHANGED kol
    BY <2>0, <2>3
  <2>4. QED
    BY <2>1, <2>2, <2>3 DEF UR!BulkUpsertDeviceInfo, UR!BindDevice, UR!UnbindDevice
<1>4. RoundTypes'
  BY <1>1 DEF RewardTypes, RoundTypes, SumsTyped, RewardSums, UR!Idle, UR!Levels
<1>5. QED
  BY <1>1, <1>2, <1>3, <1>4 DEF RewardTypes, UR!TypeOK

LEMMA SumsAre ==
  ASSUME RewardTypes
  PROVE  /\ SumsTyped(UR!SumAllUsersReward)
         /\ \A u \in DOMAIN UR!SumAllUsersReward :
              /\ u \in Users
              /\ UR!SumAllUsersReward[u].l1 = UR!Profit(u, 2)
              /\ UR!SumAllUsersReward[u].l2 = UR!Profit(u, 1)
<1>1. \A u : UR!Profit(u, 1) \in Int /\ UR!Profit(u, 2) \in Int
  BY ProfitIs
<1>2. \A S \in SUBSET Devices : UR!Cardinality(S) \in 0 .. UR!Cardinality(Devices)
  <2> TAKE S \in SUBSET Devices
  <2>1. /\ Cardinality(S) \in Nat /\ Cardinality(Devices) \in Nat
        /\ Cardinality(S) <= Cardinality(Devices)
    BY RewardsAssumption, FS_Subset, FS_CardinalityType
  <2>2. QED
    BY <2>1, CountsOfRewards
<1>3. \A u : UR!DeviceCount(u) \in 0 .. UR!Cardinality(Devices)
  BY <1>2 DEF UR!DeviceCount
<1>4. \A u : UR!Eligible(u) \in Nat
  <2>1. UR!Cardinality(Devices) \in Nat
    BY RewardsAssumption, FS_CardinalityType, CountsOfRewards
  <2>2. QED
    BY <1>2, <2>1 DEF UR!Eligible
<1>5. \A u \in DOMAIN UR!SumAllUsersReward :
        /\ u \in Users
        /\ UR!SumAllUsersReward[u] = [l1 |-> UR!Profit(u, 2), l2 |-> UR!Profit(u, 1),
                                      devices |-> UR!DeviceCount(u), eligible |-> UR!Eligible(u)]
  BY DEF UR!SumAllUsersReward
<1>6. QED
  BY <1>1, <1>3, <1>4, <1>5 DEF SumsTyped, RewardSums

LEMMA ChangesAre ==
  ASSUME RewardTypes, fin.pc = "collect", NEW u \in DOMAIN fin.sums
  PROVE  /\ u \in Users /\ fin.sums[u] \in RewardSums /\ UR!Changed(u) \in Int
         /\ UR!Changed(u) = fin.sums[u].l2 - (users[u].reward - l1Reward[u])
         /\ \A r \in Users : UR!CommissionOf(r, u) \in Int
<1>1. u \in Users /\ fin.sums[u] \in RewardSums /\ fin.level \in [Users -> UR!Levels]
  BY DEF RewardTypes, RoundTypes, SumsTyped
<1>2. fin.sums[u].l2 \in Int /\ users[u].reward \in Int /\ l1Reward[u] \in Nat
  BY <1>1, RewardFacts DEF RewardSums
<1>3. UR!Changed(u) \in Int /\ UR!Changed(u) = fin.sums[u].l2 - (users[u].reward - l1Reward[u])
  BY <1>2 DEF UR!Changed
<1>4. ASSUME NEW r \in Users PROVE UR!CommissionOf(r, u) \in Int
  <2>1. Commission[fin.level[r]] \in Int /\ ParentCommission[fin.level[r]] \in Int
    BY <1>1, RewardsAssumption
  <2> DEFINE c == Commission[fin.level[r]]
             p == ParentCommission[fin.level[r]]
             n == UR!Changed(u)
  <2>2. n * c \in Int /\ n * p \in Int
    <3>1. n \in Int /\ c \in Int /\ p \in Int
      BY <1>3, <2>1
    <3> HIDE DEF n, c, p
    <3>2. QED
      BY <3>1
  <2>3. UR!CommissionOf(r, u) \in {n * c, n * p, 0}
    BY DEF UR!CommissionOf
  <2> HIDE DEF n, c, p
  <2>4. QED
    BY <2>2, <2>3
<1>5. QED
  BY <1>1, <1>3, <1>4

LEMMA RoundedIs ==
  ASSUME NEW x \in Int, x >= UR!Third
  PROVE  /\ UR!Rounded(x) \in Nat
         /\ x % UR!Third = 0 => UR!Rounded(x) = x
BY DEF UR!Rounded, UR!Third

\* Types after a step that leaves devices and levels alone.
LEMMA TypesKept ==
  ASSUME RewardTypes, UNCHANGED deviceInfo,
         kol' \in [Users -> [level : UR!Levels, comment : {"none", "system", "admin"}]],
         users' \in [Users -> [reward : Int, devices : 0 .. UR!Cardinality(Devices), referral : Int]],
         l1Reward' \in [Users -> Nat], detail' \in [Users \X Users -> Int],
         credited' \in [Users -> Int], dropped' \in [Users -> Int],
         unmatched' \in SUBSET Users, faults' \in Nat, RoundTypes',
         fin'.pc \in {"idle", "levels", "collect", "l1", "users", "referral", "details"}
  PROVE  RewardTypes'
BY DEF RewardTypes, UR!TypeOK

LEMMA StartTypes == ASSUME RewardTypes, UR!Start PROVE RewardTypes'
<1>1. fin' = [pc |-> "levels", sums |-> UR!SumAllUsersReward,
              floor |-> [u \in UR!AdminAddedKolLevel |-> kol[u].level]]
      /\ UNCHANGED <<deviceInfo, kol, users, l1Reward, detail, credited, dropped, unmatched, faults>>
  BY DEF UR!Start, UR!tableVars, UR!paidVars
<1>2. SumsTyped(UR!SumAllUsersReward)
  BY SumsAre
<1>3. \A u \in UR!AdminAddedKolLevel : kol[u].level \in UR!Levels
  BY RewardFacts DEF UR!AdminAddedKolLevel
<1>4. fin'.pc = "levels" /\ SumsTyped(fin'.sums)
      /\ \A u \in DOMAIN fin'.floor : fin'.floor[u] \in UR!Levels
  BY <1>1, <1>2, <1>3
<1>5. RoundTypes'
  BY <1>4 DEF RoundTypes, SumsTyped, RewardSums, UR!Levels
<1>6. QED
  BY <1>1, <1>4, <1>5, RewardFacts, TypesKept

LEMMA LevelTypes == ASSUME RewardTypes, UR!ApplyUserLevel PROVE RewardTypes'
<1>1. /\ fin.pc = "levels"
      /\ kol' = [u \in Users |->
                   IF u \notin UR!Referrers THEN kol[u]
                   ELSE [level |-> UR!LevelOf(u),
                         comment |-> IF kol[u] = UR!NoKol THEN "system" ELSE kol[u].comment]]
      /\ fin' = [pc |-> "collect", sums |-> fin.sums,
                 level |-> [u \in Users |-> IF u \in UR!Referrers THEN UR!LevelOf(u) ELSE 0]]
      /\ UNCHANGED <<deviceInfo, users, l1Reward, detail, credited, dropped, unmatched, faults>>
  BY DEF UR!ApplyUserLevel, UR!tableVars, UR!paidVars
<1>2. \A u : UR!LevelOf(u) \in UR!Levels
  BY <1>1, LevelIn
<1>3. kol' \in [Users -> [level : UR!Levels, comment : {"none", "system", "admin"}]]
  BY <1>1, <1>2, RewardFacts
<1>4. SumsTyped(fin.sums)
  BY <1>1 DEF RewardTypes, RoundTypes
<1>5. 0 \in UR!Levels
  BY RewardsAssumption DEF UR!Levels
<1>6. fin'.pc = "collect" /\ fin'.sums = fin.sums /\ fin'.level \in [Users -> UR!Levels]
  BY <1>1, <1>2, <1>5
<1>7. RoundTypes'
  BY <1>4, <1>6 DEF RoundTypes, SumsTyped, RewardSums, UR!Levels
<1>8. QED
  BY <1>1, <1>3, <1>6, <1>7, RewardFacts, TypesKept

LEMMA CollectIs ==
  ASSUME RewardTypes, UR!CollectChanges
  PROVE  /\ fin.pc = "collect" /\ fin'.pc = "l1"
         /\ DOMAIN fin'.rewards \subseteq DOMAIN fin.sums /\ DOMAIN fin'.changed = DOMAIN fin.sums
         /\ \A u \in DOMAIN fin'.rewards : fin'.rewards[u] = fin.sums[u]
         /\ \A u \in DOMAIN fin.sums :
              /\ fin'.changed[u] = UR!Changed(u)
              /\ u \notin DOMAIN fin'.rewards => fin'.changed[u] = 0
         /\ UNCHANGED <<deviceInfo, kol, users, l1Reward, detail, credited, dropped, unmatched, faults>>
         /\ RewardTypes'
<1> DEFINE counted == DOMAIN fin.sums
           some == {v \in counted : UR!Changed(v) # 0 \/ fin.sums[v].devices # users[v].devices}
           rew == [u \in some |-> fin.sums[u]]
           chg == [u \in counted |-> UR!Changed(u)]
           det == [p \in Users \X Users |-> IF p[2] \in counted THEN UR!CommissionOf(p[1], p[2]) ELSE 0]
<1>1. /\ fin.pc = "collect" /\ fin' = [pc |-> "l1", rewards |-> rew, changed |-> chg, details |-> det]
      /\ UNCHANGED <<deviceInfo, kol, users, l1Reward, detail, credited, dropped, unmatched, faults>>
  BY DEF UR!CollectChanges, UR!tableVars, UR!paidVars
<1>2. SumsTyped(fin.sums)
  BY <1>1 DEF RewardTypes, RoundTypes
<1>3. /\ DOMAIN rew \subseteq counted /\ DOMAIN chg = counted
      /\ \A u \in DOMAIN rew : rew[u] = fin.sums[u]
      /\ \A u \in counted : chg[u] = UR!Changed(u) /\ (u \notin DOMAIN rew => chg[u] = 0)
  OBVIOUS
<1>4. \A u \in counted : UR!Changed(u) \in Int
  BY <1>1, ChangesAre
<1>5. det \in [Users \X Users -> Int]
  <2>1. \A p \in Users \X Users : (IF p[2] \in counted THEN UR!CommissionOf(p[1], p[2]) ELSE 0) \in Int
    BY <1>1, ChangesAre
  <2>2. QED
    BY <2>1
<1> HIDE DEF rew, chg, det
<1>6. /\ fin'.pc = "l1" /\ fin'.rewards = rew /\ fin'.changed = chg /\ fin'.details = det
      /\ fin' = [pc |-> fin'.pc, rewards |-> fin'.rewards, changed |-> fin'.changed,
                 details |-> fin'.details]
  BY <1>1
<1>7. SumsTyped(rew) /\ counted \subseteq Users
  BY <1>2, <1>3 DEF SumsTyped
<1>8. RoundTypes'
  <2>1. \A u \in DOMAIN chg : chg[u] \in Int
    BY <1>3, <1>4
  <2>2. QED
    BY <1>3, <1>5, <1>6, <1>7, <2>1 DEF RoundTypes, SumsTyped, RewardSums
<1>9. RewardTypes'
  BY <1>1, <1>6, <1>8, RewardFacts, TypesKept
<1>10. QED
  BY <1>1, <1>3, <1>6, <1>9

\* The fields of a round that writes.
LEMMA WritingFields ==
  ASSUME RewardTypes, fin.pc \in {"l1", "users", "referral", "details"}
  PROVE  /\ fin = [pc |-> fin.pc, rewards |-> fin.rewards, changed |-> fin.changed,
                   details |-> fin.details]
         /\ SumsTyped(fin.rewards) /\ DOMAIN fin.rewards \subseteq DOMAIN fin.changed
         /\ DOMAIN fin.changed \subseteq Users
         /\ \A u \in DOMAIN fin.changed : fin.changed[u] \in Int
         /\ fin.details \in [Users \X Users -> Int]
         /\ \A u \in DOMAIN fin.rewards :
              /\ u \in Users /\ fin.rewards[u].l1 \in Int /\ fin.rewards[u].l2 \in Int
              /\ fin.rewards[u].devices \in 0 .. UR!Cardinality(Devices)
BY DEF RewardTypes, RoundTypes, SumsTyped, RewardSums

\* A statement that moves on within a round, or to its end.
LEMMA MovesOn ==
  ASSUME RewardTypes, fin.pc \in {"l1", "users", "referral", "details"},
         NEW next \in {"users", "referral", "details"}, fin' = [fin EXCEPT !.pc = next]
  PROVE  /\ fin'.pc = next /\ fin'.rewards = fin.rewards /\ fin'.changed = fin.changed
         /\ fin'.details = fin.details /\ RoundTypes'
<1>1. /\ fin = [pc |-> fin.pc, rewards |-> fin.rewards, changed |-> fin.changed,
                details |-> fin.details]
      /\ SumsTyped(fin.rewards) /\ DOMAIN fin.rewards \subseteq DOMAIN fin.changed
      /\ DOMAIN fin.changed \subseteq Users
      /\ \A u \in DOMAIN fin.changed : fin.changed[u] \in Int
      /\ fin.details \in [Users \X Users -> Int]
  BY WritingFields
<1>2. fin' = [pc |-> next, rewards |-> fin.rewards, changed |-> fin.changed,
              details |-> fin.details]
  BY <1>1
<1>3. /\ fin'.pc = next /\ fin'.rewards = fin.rewards /\ fin'.changed = fin.changed
      /\ fin'.details = fin.details
  BY <1>2
<1>4. fin' = [pc |-> fin'.pc, rewards |-> fin'.rewards, changed |-> fin'.changed,
              details |-> fin'.details]
  BY <1>2, <1>3
<1>5. RoundTypes'
  BY <1>1, <1>3, <1>4 DEF RoundTypes, SumsTyped, RewardSums
<1>6. QED
  BY <1>3, <1>5

LEMMA EndsRound == ASSUME fin' = UR!Idle PROVE fin'.pc = "idle" /\ RoundTypes'
BY DEF UR!Idle, RoundTypes

\* The first statement in two cases.
LEMMA L1Is ==
  ASSUME RewardTypes, UR!UpdateUserL1Rewards
  PROVE  /\ fin.pc = "l1" /\ UNCHANGED <<deviceInfo, kol, users, detail, credited, dropped, faults>>
         /\ \/ fin'.pc = "idle" /\ RoundTypes' /\ UNCHANGED <<l1Reward, unmatched>>
            \/ /\ fin'.pc = "users" /\ fin'.rewards = fin.rewards /\ fin'.changed = fin.changed
               /\ RoundTypes'
               /\ l1Reward' = [u \in Users |->
                    IF u \in DOMAIN fin.rewards /\ fin.rewards[u].l1 >= UR!Third
                    THEN UR!Rounded(fin.rewards[u].l1) ELSE l1Reward[u]]
               /\ unmatched' = unmatched \cup {u \in DOMAIN fin.rewards : UR!NotHeld(u)}
<1> DEFINE todos == {u \in DOMAIN fin.rewards : fin.rewards[u].l1 >= UR!Third}
<1>1. /\ fin.pc = "l1"
      /\ IF todos = {} THEN fin' = UR!Idle /\ UNCHANGED <<l1Reward, unmatched>>
         ELSE /\ l1Reward' = [u \in Users |-> IF u \in todos THEN UR!Rounded(fin.rewards[u].l1)
                                              ELSE l1Reward[u]]
              /\ unmatched' = unmatched \cup {u \in DOMAIN fin.rewards : UR!NotHeld(u)}
              /\ fin' = [fin EXCEPT !.pc = "users"]
      /\ UNCHANGED <<deviceInfo, kol, users, detail, credited, dropped, faults>>
  BY Zenon DEF UR!UpdateUserL1Rewards
<1>2. CASE todos = {}
  BY <1>1, <1>2, EndsRound
<1>3. CASE todos # {}
  <2>1. fin'.pc = "users" /\ fin'.rewards = fin.rewards /\ fin'.changed = fin.changed /\ RoundTypes'
    BY <1>1, <1>3, MovesOn
  <2>2. l1Reward' = [u \in Users |->
          IF u \in DOMAIN fin.rewards /\ fin.rewards[u].l1 >= UR!Third
          THEN UR!Rounded(fin.rewards[u].l1) ELSE l1Reward[u]]
    BY <1>1, <1>3
  <2>3. QED
    BY <1>1, <1>3, <2>1, <2>2
<1>4. QED
  BY <1>2, <1>3

LEMMA L1Types == ASSUME RewardTypes, UR!UpdateUserL1Rewards PROVE RewardTypes'
<1>1. CASE UNCHANGED <<l1Reward, unmatched>>
  BY <1>1, L1Is, RewardFacts, TypesKept
<1>2. CASE l1Reward' = [u \in Users |->
             IF u \in DOMAIN fin.rewards /\ fin.rewards[u].l1 >= UR!Third
             THEN UR!Rounded(fin.rewards[u].l1) ELSE l1Reward[u]]
           /\ unmatched' = unmatched \cup {u \in DOMAIN fin.rewards : UR!NotHeld(u)}
  <2>0. fin.pc = "l1"
    BY L1Is
  <2>1. \A u \in DOMAIN fin.rewards :
          u \in Users /\ (fin.rewards[u].l1 >= UR!Third => UR!Rounded(fin.rewards[u].l1) \in Nat)
    BY <2>0, WritingFields, RoundedIs
  <2>2. l1Reward' \in [Users -> Nat]
    BY <1>2, <2>1, RewardFacts
  <2>3. unmatched' \in SUBSET Users
    BY <1>2, <2>1, RewardFacts
  <2>4. QED
    BY <2>2, <2>3, L1Is, RewardFacts, TypesKept
<1>3. QED
  BY <1>1, <1>2, L1Is

LEMMA UsersTypes == ASSUME RewardTypes, UR!UpdateUserRewards PROVE RewardTypes'
<1>1. /\ fin.pc = "users"
      /\ users' = [u \in Users |->
                     IF u \notin DOMAIN fin.rewards THEN users[u]
                     ELSE [users[u] EXCEPT !.reward = fin.rewards[u].l2 + fin.rewards[u].l1,
                                           !.devices = fin.rewards[u].devices]]
      /\ fin' = [fin EXCEPT !.pc = "referral"]
      /\ UNCHANGED <<deviceInfo, kol, l1Reward, detail, credited, dropped, unmatched, faults>>
  BY DEF UR!UpdateUserRewards, UR!tableVars, UR!paidVars
<1>2. \A u \in DOMAIN fin.rewards :
        /\ fin.rewards[u].l2 + fin.rewards[u].l1 \in Int
        /\ fin.rewards[u].devices \in 0 .. UR!Cardinality(Devices)
  <2> TAKE u \in DOMAIN fin.rewards
  <2>1. /\ fin.rewards[u].l2 \in Int /\ fin.rewards[u].l1 \in Int
        /\ fin.rewards[u].devices \in 0 .. UR!Cardinality(Devices)
    BY <1>1, WritingFields, ZenonT(40)
  <2>2. QED
    BY <2>1
<1>3. users' \in [Users -> [reward : Int, devices : 0 .. UR!Cardinality(Devices), referral : Int]]
  <2> DEFINE row == [reward : Int, devices : 0 .. UR!Cardinality(Devices), referral : Int]
  <2>1. \A u \in Users : users[u] \in row
    BY RewardFacts
  <2>2. \A u \in DOMAIN fin.rewards :
          u \in Users => [users[u] EXCEPT !.reward = fin.rewards[u].l2 + fin.rewards[u].l1,
                                          !.devices = fin.rewards[u].devices] \in row
    BY <1>2, <2>1
  <2> HIDE DEF row
  <2>3. QED
    BY <1>1, <2>1, <2>2 DEF row
<1>4. RoundTypes' /\ fin'.pc = "referral"
  BY <1>1, MovesOn
<1>5. QED
  BY <1>1, <1>3, <1>4, RewardFacts, TypesKept, ZenonT(40)

LEMMA UnderwayIs ==
  ASSUME RewardTypes, fin.pc \in {"l1", "users", "referral", "details"}, NEW u \in Users
  PROVE  Underway(u) \in Int /\ Underway(u) = Total([v \in Users |-> fin.details[<<u, v>>]], Users)
<1> DEFINE f == [v \in Users |-> fin.details[<<u, v>>]]
<1>1. fin.details \in [Users \X Users -> Int]
  BY WritingFields
<1>2. IntOn(f, Users)
  BY <1>1 DEF IntOn
<1>3. Underway(u) = Total(f, Users)
  BY SumsOfRewards, Zenon DEF Underway
<1> HIDE DEF f
<1>4. Total(f, Users) \in Int
  BY <1>2, RewardsAssumption, TotalType
<1>5. QED
  BY <1>3, <1>4 DEF f

LEMMA ReferralTypes ==
  ASSUME RewardTypes, UR!UpdateReferrerReward
  PROVE  /\ RewardTypes' /\ fin.pc = "referral" /\ fin'.pc = "details" /\ fin'.details = fin.details
         /\ \A u \in Users : /\ users'[u].reward = users[u].reward
                             /\ users'[u].referral = users[u].referral + Underway(u)
                             /\ credited'[u] = credited[u] + UR!ChangeOf(u)
         /\ UNCHANGED <<deviceInfo, kol, l1Reward, detail, dropped, unmatched, faults>>
<1>1. /\ fin.pc = "referral"
      /\ users' = [r \in Users |-> [users[r] EXCEPT !.referral = users[r].referral + Underway(r)]]
      /\ credited' = [u \in Users |-> credited[u] + UR!ChangeOf(u)]
      /\ fin' = [fin EXCEPT !.pc = "details"]
      /\ UNCHANGED <<deviceInfo, kol, l1Reward, detail, dropped, unmatched, faults>>
  BY Zenon DEF UR!UpdateReferrerReward, Underway
<1>2. \A u \in Users : Underway(u) \in Int
  BY <1>1, UnderwayIs
<1>3. \A u \in Users : UR!ChangeOf(u) \in Int
  BY <1>1, WritingFields DEF UR!ChangeOf
<1>4. /\ users' \in [Users -> [reward : Int, devices : 0 .. UR!Cardinality(Devices), referral : Int]]
      /\ \A u \in Users : users'[u].reward = users[u].reward
                          /\ users'[u].referral = users[u].referral + Underway(u)
  <2> DEFINE row == [reward : Int, devices : 0 .. UR!Cardinality(Devices), referral : Int]
             new(u) == [users[u] EXCEPT !.referral = users[u].referral + Underway(u)]
  <2>1. \A u \in Users : users[u] \in row /\ users[u].referral + Underway(u) \in Int
    BY <1>2, RewardFacts
  <2>2. \A u \in Users : /\ new(u) \in row /\ new(u).reward = users[u].reward
                          /\ new(u).referral = users[u].referral + Underway(u)
    BY <2>1
  <2>3. users' = [u \in Users |-> new(u)]
    BY <1>1
  <2> HIDE DEF row, new
  <2>4. QED
    BY <2>2, <2>3 DEF row
<1>5. credited' \in [Users -> Int] /\ \A u \in Users : credited'[u] = credited[u] + UR!ChangeOf(u)
  <2>1. \A u \in Users : credited[u] + UR!ChangeOf(u) \in Int
    BY <1>3, RewardFacts
  <2>2. QED
    BY <1>1, <2>1
<1>6. RoundTypes' /\ fin'.pc = "details" /\ fin'.details = fin.details
  BY <1>1, MovesOn
<1>7. RewardTypes'
  BY <1>1, <1>4, <1>5, <1>6, RewardFacts, TypesKept
<1>8. QED
  BY <1>1, <1>4, <1>5, <1>6, <1>7

LEMMA DetailTypes == ASSUME RewardTypes, UR!UpdateUserRewardDetails PROVE RewardTypes'
<1>1. /\ fin.pc = "details" /\ detail' = [p \in Users \X Users |-> detail[p] + fin.details[p]]
      /\ fin' = UR!Idle /\ UNCHANGED <<deviceInfo, kol, users, l1Reward, credited, dropped, unmatched, faults>>
  BY DEF UR!UpdateUserRewardDetails, UR!tableVars, UR!paidVars
<1>2. \A p \in Users \X Users : detail[p] + fin.details[p] \in Int
  BY <1>1, WritingFields, RewardFacts
<1>3. detail' \in [Users \X Users -> Int]
  BY <1>1, <1>2
<1>4. QED
  BY <1>1, <1>3, EndsRound, RewardFacts, TypesKept

LEMMA AbortIs ==
  ASSUME RewardTypes, UR!Abort
  PROVE  /\ fin.pc \in {"levels", "collect", "l1", "users", "referral", "details"}
         /\ fin'.pc = "idle" /\ RoundTypes' /\ faults' = faults + 1
         /\ UNCHANGED <<deviceInfo, kol, users, l1Reward, detail, credited>>
         /\ dropped' = IF fin.pc = "referral" THEN [u \in Users |-> dropped[u] + UR!ChangeOf(u)]
                       ELSE dropped
         /\ unmatched' = IF fin.pc = "users" THEN unmatched \cup DOMAIN fin.rewards ELSE unmatched
<1>1. /\ fin' = UR!Idle /\ fin # UR!Idle
      /\ fin.pc \in {"idle", "levels", "collect", "l1", "users", "referral", "details"}
  BY DEF UR!Abort, RewardTypes, UR!TypeOK
<1>2. fin.pc # "idle"
  BY <1>1 DEF RewardTypes, RoundTypes
<1>3. QED
  BY <1>1, <1>2, EndsRound DEF UR!Abort, UR!tableVars

LEMMA AbortTypes == ASSUME RewardTypes, UR!Abort PROVE RewardTypes'
<1>1. dropped' \in [Users -> Int]
  <2>1. CASE fin.pc = "referral"
    <3>1. \A u \in Users : dropped[u] + UR!ChangeOf(u) \in Int
      BY <2>1, WritingFields, RewardFacts DEF UR!ChangeOf
    <3>2. QED
      BY <2>1, <3>1, AbortIs
  <2>2. CASE fin.pc # "referral"
    BY <2>2, AbortIs, RewardFacts
  <2>3. QED
    BY <2>1, <2>2
<1>2. unmatched' \in SUBSET Users
  <2>1. CASE fin.pc = "users"
    BY <2>1, AbortIs, WritingFields, RewardFacts
  <2>2. CASE fin.pc # "users"
    BY <2>2, AbortIs, RewardFacts
  <2>3. QED
    BY <2>1, <2>2
<1>3. faults' \in Nat
  BY AbortIs, RewardFacts
<1>4. QED
  BY <1>1, <1>2, <1>3, AbortIs, RewardFacts, TypesKept

LEMMA RewardTypesNext == RewardTypes /\ UR!Next => RewardTypes'
<1> SUFFICES ASSUME RewardTypes, UR!Next PROVE RewardTypes'
  OBVIOUS
<1>1. CASE UR!Round
  BY <1>1, StartTypes, LevelTypes, CollectIs, L1Types, UsersTypes, ReferralTypes, DetailTypes
     DEF UR!Round
<1>2. CASE UR!Abort
  BY <1>2, AbortTypes
<1>3. CASE /\ ~UR!Round /\ ~UR!Abort
  BY <1>3, TypesAround DEF UR!Next
<1>4. QED
  BY <1>1, <1>2, <1>3

-----------------------------------------------------------------------------
(* What has been paid for.                                                 *)

\* A step that leaves the tables of the commissions and what has been paid alone.
LEMMA PaidStays ==
  ASSUME CommissionsExact, UNCHANGED <<users, l1Reward, credited, dropped, unmatched>>,
         fin.pc \in {"idle", "levels", "collect", "l1", "details"},
         fin'.pc \in {"idle", "levels", "collect", "details"}
  PROVE  CommissionsExact'
BY DEF CommissionsExact, PaidFor, PaidOrLost

LEMMA CollectPays ==
  ASSUME RewardTypes, CommissionsExact, UR!CollectChanges
  PROVE  CommissionsExact'
<1>1. /\ fin.pc = "collect" /\ fin'.pc = "l1"
      /\ DOMAIN fin'.rewards \subseteq DOMAIN fin.sums /\ DOMAIN fin'.changed = DOMAIN fin.sums
      /\ \A u \in DOMAIN fin'.rewards : fin'.rewards[u] = fin.sums[u]
      /\ \A u \in DOMAIN fin.sums :
           /\ fin'.changed[u] = UR!Changed(u)
           /\ u \notin DOMAIN fin'.rewards => fin'.changed[u] = 0
      /\ UNCHANGED <<users, l1Reward, credited, dropped, unmatched>>
  BY CollectIs
<1>2. ASSUME NEW u \in DOMAIN fin'.rewards, u \notin unmatched
      PROVE  credited[u] + dropped[u] + fin'.changed[u] = fin'.rewards[u].l2
  <2>1. /\ u \in Users /\ fin.sums[u].l2 \in Int
        /\ fin'.changed[u] = fin.sums[u].l2 - (users[u].reward - l1Reward[u])
        /\ fin'.rewards[u] = fin.sums[u]
    BY <1>1, <1>2, ChangesAre DEF RewardSums
  <2>2. credited[u] + dropped[u] = users[u].reward - l1Reward[u]
    BY <1>1, <1>2, <2>1 DEF CommissionsExact, PaidFor, PaidOrLost
  <2>3. /\ users[u].reward \in Int /\ l1Reward[u] \in Int
        /\ credited[u] \in Int /\ dropped[u] \in Int
    BY <2>1, RewardFacts
  <2>4. QED
    BY <2>1, <2>2, <2>3
<1>3. QED
  BY <1>1, <1>2 DEF CommissionsExact, PaidFor, PaidOrLost

LEMMA L1Pays ==
  ASSUME RewardTypes, CommissionsExact, UR!UpdateUserL1Rewards
  PROVE  CommissionsExact'
<1>1. fin.pc = "l1" /\ UNCHANGED <<users, credited, dropped>>
  BY L1Is
<1>2. \A u \in DOMAIN fin.rewards : u \in Users /\ fin.rewards[u].l1 \in Int
  BY <1>1, WritingFields
<1>3. CASE fin'.pc = "idle" /\ UNCHANGED <<l1Reward, unmatched>>
  BY <1>1, <1>3, PaidStays
<1>4. CASE /\ fin'.pc = "users" /\ fin'.rewards = fin.rewards /\ fin'.changed = fin.changed
           /\ l1Reward' = [u \in Users |->
                IF u \in DOMAIN fin.rewards /\ fin.rewards[u].l1 >= UR!Third
                THEN UR!Rounded(fin.rewards[u].l1) ELSE l1Reward[u]]
           /\ unmatched' = unmatched \cup {u \in DOMAIN fin.rewards : UR!NotHeld(u)}
  <2>1. ASSUME NEW u \in DOMAIN fin.rewards, ~UR!NotHeld(u)
        PROVE  l1Reward'[u] = fin.rewards[u].l1
    <3>1. /\ fin.rewards[u].l1 % UR!Third = 0
          /\ ~(fin.rewards[u].l1 < UR!Third) \/ l1Reward[u] = fin.rewards[u].l1
      BY <2>1, Zenon DEF UR!NotHeld
    <3>2. CASE fin.rewards[u].l1 >= UR!Third
      BY <1>2, <1>4, <3>1, <3>2, RoundedIs
    <3>3. CASE ~(fin.rewards[u].l1 >= UR!Third)
      <4>1. fin.rewards[u].l1 < UR!Third
        BY <1>2, <3>3 DEF UR!Third
      <4>2. QED
        BY <1>2, <1>4, <3>1, <3>3, <4>1
    <3>4. QED
      BY <3>2, <3>3
  <2>2. \A u \in Users \ DOMAIN fin.rewards : l1Reward'[u] = l1Reward[u]
    BY <1>4
  <2>3. QED
    BY <1>1, <1>4, <2>1, <2>2 DEF CommissionsExact, PaidFor, PaidOrLost
<1>5. QED
  BY <1>3, <1>4, L1Is

LEMMA UsersPay ==
  ASSUME RewardTypes, CommissionsExact, UR!UpdateUserRewards
  PROVE  CommissionsExact'
<1>0. users' = [u \in Users |->
                  IF u \notin DOMAIN fin.rewards THEN users[u]
                  ELSE [users[u] EXCEPT !.reward = fin.rewards[u].l2 + fin.rewards[u].l1,
                                        !.devices = fin.rewards[u].devices]]
  BY Zenon DEF UR!UpdateUserRewards
<1>1. /\ fin.pc = "users" /\ fin' = [fin EXCEPT !.pc = "referral"]
      /\ UNCHANGED <<l1Reward, credited, dropped, unmatched>>
  BY Zenon DEF UR!UpdateUserRewards, UR!paidVars
<1>2. /\ DOMAIN fin.rewards \subseteq DOMAIN fin.changed
      /\ \A u \in DOMAIN fin.rewards :
           u \in Users /\ fin.rewards[u].l1 \in Int /\ fin.rewards[u].l2 \in Int
  BY <1>1, WritingFields
<1>3. fin'.pc = "referral" /\ fin'.changed = fin.changed
  BY <1>1, MovesOn
<1>4. /\ \A u \in DOMAIN fin.rewards : users'[u].reward = fin.rewards[u].l2 + fin.rewards[u].l1
      /\ \A u \in Users \ DOMAIN fin.rewards : users'[u].reward = users[u].reward
  <2>1. \A u \in Users \ DOMAIN fin.rewards : users'[u] = users[u]
    BY <1>0, Zenon
  <2>2. ASSUME NEW u \in DOMAIN fin.rewards
        PROVE  users'[u].reward = fin.rewards[u].l2 + fin.rewards[u].l1
    <3>1. users'[u] = [users[u] EXCEPT !.reward = fin.rewards[u].l2 + fin.rewards[u].l1,
                                       !.devices = fin.rewards[u].devices]
      BY <1>0, <1>2, Zenon
    <3>2. users[u] \in [reward : Int, devices : 0 .. UR!Cardinality(Devices), referral : Int]
      BY <1>2, RewardFacts
    <3>3. QED
      BY <3>1, <3>2
  <2>3. QED
    BY <2>1, <2>2
<1>5. ASSUME NEW u \in Users \ unmatched
      PROVE  credited[u] + dropped[u] + UR!ChangeOf(u) = users'[u].reward - l1Reward[u]
  <2>1. credited[u] \in Int /\ dropped[u] \in Int
    BY RewardFacts
  <2>2. CASE u \in DOMAIN fin.rewards
    <3>1. /\ l1Reward[u] = fin.rewards[u].l1
          /\ credited[u] + dropped[u] + UR!ChangeOf(u) = fin.rewards[u].l2
      BY <1>1, <1>2, <2>2 DEF CommissionsExact, PaidOrLost, UR!ChangeOf
    <3>2. QED
      BY <1>2, <1>4, <2>2, <3>1
  <2>3. CASE u \notin DOMAIN fin.rewards
    <3>1. UR!ChangeOf(u) = 0
      BY <1>1, <2>3, SMTT(40) DEF CommissionsExact, UR!ChangeOf
    <3>2. PaidFor(u)
      BY <1>1, <2>3 DEF CommissionsExact
    <3>3. QED
      BY <1>4, <2>1, <2>3, <3>1, <3>2 DEF PaidFor, PaidOrLost
  <2>4. QED
    BY <2>2, <2>3
<1>6. QED
  BY <1>1, <1>3, <1>5, SMTT(40) DEF CommissionsExact, PaidOrLost, UR!ChangeOf

LEMMA ReferralPays ==
  ASSUME RewardTypes, CommissionsExact, UR!UpdateReferrerReward
  PROVE  CommissionsExact'
<1>1. /\ fin.pc = "referral" /\ fin'.pc = "details"
      /\ \A u \in Users : /\ users'[u].reward = users[u].reward
                          /\ credited'[u] = credited[u] + UR!ChangeOf(u)
      /\ UNCHANGED <<l1Reward, dropped, unmatched>>
  BY ReferralTypes
<1>2. ASSUME NEW u \in Users \ unmatched
      PROVE  credited'[u] + dropped[u] = users[u].reward - l1Reward[u]
  <2>1. credited[u] \in Int /\ dropped[u] \in Int /\ UR!ChangeOf(u) \in Int
    BY <1>1, WritingFields, RewardFacts DEF UR!ChangeOf
  <2>2. credited[u] + dropped[u] + UR!ChangeOf(u) = users[u].reward - l1Reward[u]
    BY <1>1 DEF CommissionsExact, PaidOrLost
  <2>3. QED
    BY <1>1, <2>1, <2>2
<1>3. QED
  BY <1>1, <1>2 DEF CommissionsExact, PaidFor, PaidOrLost

LEMMA AbortPays ==
  ASSUME RewardTypes, CommissionsExact, UR!Abort
  PROVE  CommissionsExact'
<1>1. fin'.pc = "idle" /\ UNCHANGED <<users, l1Reward, credited>>
  BY AbortIs
<1>2. SUFFICES ASSUME NEW u \in Users \ unmatched'
               PROVE  credited[u] + dropped'[u] = users[u].reward - l1Reward[u]
  BY <1>1 DEF CommissionsExact, PaidFor, PaidOrLost
<1>3. CASE fin.pc = "referral"
  <2>1. dropped'[u] = dropped[u] + UR!ChangeOf(u) /\ unmatched' = unmatched
    BY <1>3, AbortIs
  <2>2. credited[u] \in Int /\ dropped[u] \in Int /\ UR!ChangeOf(u) \in Int
    BY <1>3, WritingFields, RewardFacts DEF UR!ChangeOf
  <2>3. credited[u] + dropped[u] + UR!ChangeOf(u) = users[u].reward - l1Reward[u]
    BY <1>2, <1>3, <2>1 DEF CommissionsExact, PaidOrLost
  <2>4. QED
    BY <2>1, <2>2, <2>3
<1>4. CASE fin.pc = "users"
  <2>1. dropped' = dropped /\ unmatched' = unmatched \cup DOMAIN fin.rewards
    BY <1>4, AbortIs
  <2>2. QED
    BY <1>2, <1>4, <2>1 DEF CommissionsExact, PaidFor, PaidOrLost
<1>5. CASE fin.pc \in {"levels", "collect", "l1", "details"}
  <2>1. dropped' = dropped /\ unmatched' = unmatched
    BY <1>5, AbortIs
  <2>2. QED
    BY <1>2, <1>5, <2>1 DEF CommissionsExact, PaidFor, PaidOrLost
<1>6. QED
  BY <1>3, <1>4, <1>5, AbortIs

LEMMA CommissionsNext == RewardTypes /\ CommissionsExact /\ UR!Next => CommissionsExact'
<1> SUFFICES ASSUME RewardTypes, CommissionsExact, UR!Next PROVE CommissionsExact'
  OBVIOUS
<1>1. CASE UR!Start \/ UR!ApplyUserLevel
  <2>1. /\ fin.pc \in {"idle", "levels"} /\ fin'.pc \in {"levels", "collect"}
        /\ UNCHANGED <<users, l1Reward, credited, dropped, unmatched>>
    BY <1>1 DEF UR!Start, UR!ApplyUserLevel, UR!Idle, UR!tableVars, UR!paidVars
  <2>2. QED
    BY <2>1, PaidStays
<1>2. CASE UR!UpdateUserRewardDetails
  <2>1. /\ fin.pc = "details" /\ fin'.pc = "idle"
        /\ UNCHANGED <<users, l1Reward, credited, dropped, unmatched>>
    BY <1>2 DEF UR!UpdateUserRewardDetails, UR!Idle, UR!paidVars
  <2>2. QED
    BY <2>1, PaidStays
<1>3. CASE UR!CollectChanges \/ UR!UpdateUserL1Rewards \/ UR!UpdateUserRewards
           \/ UR!UpdateReferrerReward \/ UR!Abort
  BY <1>3, CollectPays, L1Pays, UsersPay, ReferralPays, AbortPays
<1>4. CASE \/ \E d \in Devices : UR!BulkUpsertDeviceInfo(d) \/ UR!UnbindDevice(d)
           \/ \E d \in Devices, u \in Binders : UR!BindDevice(d, u)
           \/ \E u \in KolUsers, l \in UR!Levels : UR!AddKOL(u, l) \/ UR!UpdateKOL(u, l)
           \/ \E u \in KolUsers : UR!DeleteKOL(u)
  <2>1. UNCHANGED <<users, l1Reward, detail, fin, credited, dropped, unmatched, faults>>
    BY <1>4, TypesAround
  <2>2. QED
    BY <2>1 DEF CommissionsExact, PaidFor, PaidOrLost, UR!ChangeOf
<1>5. QED
  BY <1>1, <1>2, <1>3, <1>4 DEF UR!Next, UR!Round
-----------------------------------------------------------------------------
(* What explains the referral rewards.                                     *)

LEMMA ExplainingIs ==
  ASSUME RewardTypes, NEW u \in Users
  PROVE  Explaining(u) \in Int /\ Explaining(u) = Total([v \in Users |-> detail[<<u, v>>]], Users)
<1> DEFINE f == [v \in Users |-> detail[<<u, v>>]]
<1>1. IntOn(f, Users)
  BY RewardFacts DEF IntOn
<1>2. Explaining(u) = Total(f, Users)
  BY SumsOfRewards, Zenon DEF Explaining
<1> HIDE DEF f
<1>3. Total(f, Users) \in Int
  BY <1>1, RewardsAssumption, TotalType
<1>4. QED
  BY <1>2, <1>3 DEF f

\* The two increments: referral_reward first, then the details that explain it.
LEMMA ReferralExplains ==
  ASSUME RewardTypes, DetailsExplain, UR!UpdateReferrerReward
  PROVE  DetailsExplain'
<1>1. /\ fin.pc = "referral" /\ fin'.pc = "details" /\ fin'.details = fin.details
      /\ \A u \in Users : users'[u].referral = users[u].referral + Underway(u)
      /\ UNCHANGED <<detail, faults>>
  BY ReferralTypes
<1> SUFFICES ASSUME faults = 0, NEW u \in Users
             PROVE  users'[u].referral = Explaining(u) + Underway(u)
  BY <1>1 DEF DetailsExplain, Explaining, Underway
<1>2. users[u].referral = Explaining(u) + 0
  BY <1>1 DEF DetailsExplain
<1>3. Explaining(u) \in Int
  BY ExplainingIs
<1>4. QED
  BY <1>1, <1>2, <1>3

LEMMA DetailExplains ==
  ASSUME RewardTypes, DetailsExplain, UR!UpdateUserRewardDetails
  PROVE  DetailsExplain'
<1>1. /\ fin.pc = "details" /\ detail' = [p \in Users \X Users |-> detail[p] + fin.details[p]]
      /\ fin' = UR!Idle /\ UNCHANGED <<users, faults>>
  BY DEF UR!UpdateUserRewardDetails, UR!tableVars, UR!paidVars
<1>2. fin'.pc = "idle"
  BY <1>1, EndsRound
<1> SUFFICES ASSUME faults = 0, NEW u \in Users
             PROVE  users[u].referral = Explaining(u)' + 0
  BY <1>1, <1>2 DEF DetailsExplain
<1> DEFINE f == [v \in Users |-> detail[<<u, v>>]]
           g == [v \in Users |-> fin.details[<<u, v>>]]
           h == [v \in Users |-> detail'[<<u, v>>]]
<1>3. users[u].referral = Explaining(u) + Underway(u)
  BY <1>1 DEF DetailsExplain
<1>4. Explaining(u) = Total(f, Users) /\ Explaining(u) \in Int
  BY ExplainingIs
<1>5. Underway(u) = Total(g, Users) /\ Underway(u) \in Int
  BY <1>1, UnderwayIs
<1>6. Explaining(u)' = Total(h, Users)
  BY SumsOfRewards, Zenon DEF Explaining
<1>7. IntOn(f, Users) /\ IntOn(g, Users) /\ \A v \in Users : h[v] = f[v] + g[v]
  <2>1. detail \in [Users \X Users -> Int] /\ fin.details \in [Users \X Users -> Int]
    BY <1>1, WritingFields, RewardFacts
  <2>2. QED
    BY <1>1, <2>1 DEF IntOn
<1> HIDE DEF f, g, h
<1>8. Total(h, Users) = Total(f, Users) + Total(g, Users)
  BY <1>7, RewardsAssumption, TotalPlus
<1>9. QED
  BY <1>3, <1>4, <1>5, <1>6, <1>8

LEMMA DetailsNext == RewardTypes /\ DetailsExplain /\ UR!Next => DetailsExplain'
<1> SUFFICES ASSUME RewardTypes, DetailsExplain, UR!Next PROVE DetailsExplain'
  OBVIOUS
<1>1. ASSUME fin.pc # "details", fin'.pc # "details", UNCHANGED <<detail, faults>>,
             \A u \in Users : users'[u].referral = users[u].referral
      PROVE  DetailsExplain'
  <2> SUFFICES ASSUME faults = 0, NEW u \in Users PROVE users'[u].referral = Explaining(u) + 0
    BY <1>1, Zenon DEF DetailsExplain, Explaining
  <2>1. users[u].referral = Explaining(u) + 0
    BY <1>1, Zenon DEF DetailsExplain
  <2>2. QED
    BY <1>1, <2>1, Zenon
<1>2. CASE UR!Start \/ UR!ApplyUserLevel
  <2>1. fin.pc # "details" /\ fin'.pc # "details" /\ UNCHANGED <<detail, faults, users>>
    BY <1>2 DEF UR!Start, UR!ApplyUserLevel, UR!Idle, UR!tableVars
  <2>2. QED
    BY <1>1, <2>1, Zenon
<1>3. CASE UR!CollectChanges
  <2>1. fin.pc # "details" /\ fin'.pc # "details" /\ UNCHANGED <<detail, faults, users>>
    BY <1>3, CollectIs
  <2>2. QED
    BY <1>1, <2>1, Zenon
<1>4. CASE UR!UpdateUserL1Rewards
  <2>1. fin.pc = "l1" /\ UNCHANGED <<detail, faults, users>>
    BY <1>4, Zenon DEF UR!UpdateUserL1Rewards
  <2>2. fin' = UR!Idle \/ fin' = [fin EXCEPT !.pc = "users"]
    BY <1>4, Zenon DEF UR!UpdateUserL1Rewards
  <2>3. CASE fin' = UR!Idle
    <3>1. fin'.pc = "idle"
      BY <2>3, EndsRound
    <3>2. QED
      BY <1>1, <2>1, <3>1
  <2>4. CASE fin' = [fin EXCEPT !.pc = "users"]
    <3>1. fin'.pc = "users"
      BY <2>1, <2>4, MovesOn
    <3>2. QED
      BY <1>1, <2>1, <3>1
  <2>5. QED
    BY <2>2, <2>3, <2>4
<1>5. CASE UR!UpdateUserRewards
  <2>1. /\ fin.pc = "users" /\ fin' = [fin EXCEPT !.pc = "referral"] /\ UNCHANGED <<detail, faults>>
        /\ users' = [u \in Users |->
                       IF u \notin DOMAIN fin.rewards THEN users[u]
                       ELSE [users[u] EXCEPT !.reward = fin.rewards[u].l2 + fin.rewards[u].l1,
                                             !.devices = fin.rewards[u].devices]]
    BY <1>5, Zenon DEF UR!UpdateUserRewards
  <2>2. fin'.pc = "referral"
    BY <2>1, MovesOn, Zenon
  <2>3. \A u \in Users : users'[u].referral = users[u].referral
    BY <2>1, RewardFacts, Zenon
  <2>4. QED
    BY <1>1, <2>1, <2>2, <2>3, Zenon
<1>6. CASE UR!UpdateReferrerReward
  BY <1>6, ReferralExplains
<1>7. CASE UR!UpdateUserRewardDetails
  BY <1>7, DetailExplains
<1>8. CASE UR!Abort
  <2>1. faults' = faults + 1 /\ faults \in Nat
    BY <1>8 DEF UR!Abort, RewardTypes
  <2>2. faults' # 0
    BY <2>1
  <2>3. QED
    BY <2>2, Zenon DEF DetailsExplain
<1>9. CASE \/ \E d \in Devices : UR!BulkUpsertDeviceInfo(d) \/ UR!UnbindDevice(d)
           \/ \E d \in Devices, u \in Binders : UR!BindDevice(d, u)
           \/ \E u \in KolUsers, l \in UR!Levels : UR!AddKOL(u, l) \/ UR!UpdateKOL(u, l)
           \/ \E u \in KolUsers : UR!DeleteKOL(u)
  <2>1. UNCHANGED <<users, l1Reward, detail, fin, credited, dropped, unmatched, faults>>
    BY <1>9, TypesAround
  <2>2. QED
    BY <2>1, Zenon DEF DetailsExplain, Explaining, Underway
<1>10. QED
  BY <1>2, <1>3, <1>4, <1>5, <1>6, <1>7, <1>8, <1>9 DEF UR!Next, UR!Round

LEMMA RewardsNow == RewardInv => UR!EveryChangePaidOnce /\ UR!ReferralsExplained
<1> SUFFICES ASSUME RewardInv, fin = UR!Idle
             PROVE  UR!EveryChangePaidOnce /\ UR!ReferralsExplained
  BY Zenon DEF UR!EveryChangePaidOnce, UR!ReferralsExplained
<1>0. fin.pc = "idle"
  BY DEF UR!Idle
<1>1. UR!EveryChangePaidOnce
  BY <1>0 DEF RewardInv, CommissionsExact, PaidFor, PaidOrLost, UR!EveryChangePaidOnce
<1>2. ASSUME faults = 0, NEW u \in Users PROVE users[u].referral = Explaining(u)
  <2>1. users[u].referral = Explaining(u) + 0 /\ Explaining(u) \in Int
    BY <1>0, <1>2, ExplainingIs DEF RewardInv, DetailsExplain
  <2>2. QED
    BY <2>1
<1>3. QED
  BY <1>1, <1>2, Zenon DEF UR!ReferralsExplained, Explaining

LEMMA RewardRests == RewardInv /\ UNCHANGED rewardVars => RewardInv'
<1> SUFFICES ASSUME RewardInv, UNCHANGED rewardVars PROVE RewardInv'
  OBVIOUS
<1>1. RewardTypes'
  BY DEF rewardVars, RewardInv, RewardTypes, UR!TypeOK, UR!Levels, RoundTypes, SumsTyped,
         RewardSums, UR!Idle
<1>2. CommissionsExact'
  BY DEF rewardVars, RewardInv, CommissionsExact, PaidFor, PaidOrLost, UR!ChangeOf
<1>3. DetailsExplain'
  BY Zenon DEF rewardVars, RewardInv, DetailsExplain, Explaining, Underway
<1>4. QED
  BY <1>1, <1>2, <1>3 DEF RewardInv

\* The rewards: their types, and what the tables tell.
LEMMA RewardInvariant == Spec => []RewardInv
<1>1. Init => RewardInv
  BY RewardInits DEF Init
<1>2. RewardInv /\ [Next]_serviceVars => RewardInv'
  BY RewardRests, RewardTypesNext, CommissionsNext, DetailsNext
     DEF Next, serviceVars, RewardInv
<1>3. QED
  BY <1>1, <1>2, PTL DEF Spec
-----------------------------------------------------------------------------
(* The theorems.                                                           *)

\* The rows of the days add up to the profit of a device, and incentives to their
\* rows, whatever jobs are late or lost; the chart shows for an hour what was reported
\* in it and no more than the profit; and a page follows the reports of its node.
THEOREM RowsAgree == Spec => []DailyRowsAgree
<1>1. DailyInv /\ HourInv /\ ProfileInv => DailyRowsAgree
  BY DailyNow, HoursNow, ProfileNow DEF DailyRowsAgree
<1>2. QED
  BY <1>1, DailyInvariant, HoursInvariant, ProfileInvariant, PTL

\* Whatever profits the schedulers report, fractions, penalties and rebound devices
\* included, and however the four statements of SumUserReward fail: a change in the
\* profit that users.reward tells is paid for once or, between two statements, lost,
\* for every user whose L1 profit user_l1_reward has always held; and without failures
\* the rows of user_reward_detail explain users.referral_reward.
THEOREM CommissionsArePaidOnce == Spec => []RewardsCorrect
<1>1. RewardInv => RewardsCorrect
  BY RewardsNow DEF RewardsCorrect
<1>2. QED
  BY <1>1, RewardInvariant, PTL

\* The tables, caches and requests of all services keep their types; a user has no
\* more referral codes than MaxCodes and the requests that overlap explain.
THEOREM TypesAreKept == Spec => []TypeOK
<1> DEFINE Types ==
      /\ OperationInv /\ LinkInv /\ ShareInv /\ FileInv /\ PlatformInv /\ KeyInv
      /\ SignInv /\ BatchInv /\ AreaInv /\ PriceInv /\ TransferInv
<1>1. DOP!TypeOK => DO!TypeOK
  BY DEF DOP!TypeOK, DO!TypeOK
<1>2. Spec => []DO!TypeOK
  BY <1>1, OwnersAssumption, OwnersSpec, DOP!OwnerTypeCorrect, PTL
<1>3. Types => /\ NO!TypeOK /\ SL!TypeOK /\ SA!TypeOK /\ TF!TypeOK /\ PA!TypeOK
               /\ AK!TypeOK /\ MS!TypeOK /\ EB!TypeOK /\ AD!TypeOK /\ OP!TypeOK /\ TL!TypeOK
  BY LinkNow, ShareNow, FileNow, PlatformNow, KeyNow, BatchNow, AreaNow, PriceNow, TransferNow
     DEF OperationInv, SignInv
<1>4. Spec => []Types
  BY OperationInvariant, LinkInvariant, ShareInvariant, FileInvariant, PlatformInvariant,
     KeyInvariant, SignInvariant, BatchInvariant, AreaInvariant, PriceInvariant,
     TransferInvariant, PTL
<1>5. /\ AccountInv /\ CodeInv => AC!TypeOK
      /\ DailyInv => DD!TypeOK
      /\ HourInv => HS!TypeOK
      /\ ProfileInv => DP!TypeOK
      /\ RewardInv => UR!TypeOK
  BY AccountNow, DailyNow, HoursNow, ProfileNow DEF RewardInv, RewardTypes
<1> HIDE DEF Types
<1>6. /\ Types /\ DO!TypeOK /\ AccountInv /\ CodeInv /\ DailyInv /\ HourInv /\ ProfileInv
      /\ RewardInv
      => TypeOK
  BY <1>3, <1>5, Zenon DEF TypeOK
<1>7. QED
  BY <1>2, <1>4, <1>6, AccountInvariant, CodeInvariant, DailyInvariant, HoursInvariant,
     ProfileInvariant, RewardInvariant, PTL

=============================================================================
