----------------------------- MODULE HourlyStats ------------------------------
(***************************************************************************)
(* The chart of a device's last 24 hours: the rows AddDeviceInfoHours      *)
(* writes at each report (src/core/statistics/stat_node_daily.go), the     *)
(* hourly clean-up of rows that are two days old (src/core/cleanup), and   *)
(* what queryDeviceStatisticHourly makes of the rows that are there        *)
(* (src/core/dao/rewards.go).                                              *)
(*                                                                         *)
(* A row holds the cumulative profit under the time at which its fetch     *)
(* began; the job that writes it runs later, in any order with those of    *)
(* other processes. A report of minute 0 is also written one minute back,  *)
(* into the hour that has just ended, so that the difference between two   *)
(* hours counts all of it. With the crontab of config.toml-example there   *)
(* is a report at that minute too, whose job, if it is late, replaces the  *)
(* redundant row. An hour is Parts units of time, the first and the last   *)
(* of which are minute 0 and minute 59.                                    *)
(***************************************************************************)
EXTENDS Integers, Sequences, SequencesExt, FiniteSetsExt

CONSTANTS
    Parts,              \* units of time in an hour
    Window,             \* the chart's 24 hours
    Retention,          \* the clean-up's 48 hours
    LastHour,           \* bound on the clock
    MaxReports,         \* bound on the reports
    MaxDelay            \* bound on the time a job waits: far less than the 48 hours

VARIABLES
    clock,
    profit,             \* the cumulative profit of the device
    pages,              \* jobs that have not run: rows to be written
    hourRows,           \* device_info_hour in the order of its ids
    reports,            \* history: the profit at each time a fetch began
    overtaken           \* history: times whose row a later job has replaced by an older one
hourVars == <<clock, profit, pages, hourRows, reports, overtaken>>

Hour(t) == t \div Parts
Now == Hour(clock)
Times == 0 .. Parts * (LastHour + 1) - 1
Rows == [time : Times \cup {-1}, income : 0 .. MaxReports, created : Times]

TypeOK ==
    /\ clock \in Times
    /\ profit \in 0 .. MaxReports
    /\ pages \subseteq Rows
    /\ hourRows \in Seq(Rows)
    \* uniq_device_id_time
    /\ \A i, j \in DOMAIN hourRows : hourRows[i].time = hourRows[j].time => i = j

Init ==
    /\ clock = 0
    /\ profit = 0
    /\ pages = {}
    /\ hourRows = <<>>
    /\ reports = [t \in Times |-> 0]
    /\ overtaken = {}

-----------------------------------------------------------------------------
TimePasses ==
    /\ clock + 1 \in Times
    /\ \A row \in pages : clock - row.time < MaxDelay
    /\ clock' = clock + 1
    /\ UNCHANGED <<profit, pages, hourRows, reports, overtaken>>

\* ToDeviceInfoHour: the time of the row is the time at which the fetch began.
ToDeviceInfoHour == [time |-> clock, income |-> profit', created |-> clock]

\* A page of nodes with the device, which has earned something meanwhile. A
\* fetch at a time.
Report ==
    /\ profit < MaxReports
    /\ reports[clock] = 0
    /\ profit' = profit + 1
    /\ pages' = pages \cup {ToDeviceInfoHour}
    /\ reports' = [reports EXCEPT ![clock] = profit']
    /\ UNCHANGED <<clock, hourRows, overtaken>>

\* ON DUPLICATE KEY UPDATE leaves id and created_at as they are.
Upsert(table, row) ==
    LET same == {i \in DOMAIN table : table[i].time = row.time}
    IN  IF same = {} THEN Append(table, row)
        ELSE [i \in DOMAIN table |->
                IF i \in same THEN [row EXCEPT !.created = table[i].created] ELSE table[i]]

\* The row, and in minute 0 the redundant one. A statement that fails is logged.
AddDeviceInfoHours(row) ==
    /\ row \in pages
    /\ LET written == Upsert(hourRows, row)
       IN  hourRows' = IF row.time % Parts # 0 THEN written
                       ELSE Upsert(written, [row EXCEPT !.time = row.time - 1])
    /\ overtaken' = overtaken \cup {old.time : old \in
                      {old \in ToSet(hourRows) : old.time = row.time /\ old.income > row.income}}
    /\ pages' = pages \ {row}
    /\ UNCHANGED <<clock, profit, reports>>

\* All rows up to the last one created before the time of the deletion.
CleanUp ==
    LET old == {i \in DOMAIN hourRows : hourRows[i].created < clock - Retention * Parts}
    IN  /\ old # {}
        /\ hourRows' = SubSeq(hourRows, Max(old) + 1, Len(hourRows))
        /\ UNCHANGED <<clock, profit, pages, reports, overtaken>>

Next ==
    \/ TimePasses
    \/ Report
    \/ \E row \in pages : AddDeviceInfoHours(row)
    \/ CleanUp

Spec == Init /\ [][Next]_hourVars
-----------------------------------------------------------------------------
(* The chart.                                                              *)

RowsOf(h) == {row \in ToSet(hourRows) : row.time >= 0 /\ Hour(row.time) = h}
MaxIncome(h) == Max({row.income : row \in RowsOf(h)})

\* The query begins at the full hour 24 hours ago; the hours shown begin one later.
FirstHour == Now - Window
Shown == {h \in FirstHour + 1 .. Now : h >= 0}

\* The last row before the query's range, or else the first of all.
GetLatestDeviceStat ==
    LET before == {row \in ToSet(hourRows) : row.time < FirstHour * Parts}
    IN  IF before # {} THEN (CHOOSE row \in before : \A other \in before : row.time >= other.time).income
        ELSE IF hourRows = <<>> THEN 0
        ELSE (CHOOSE row \in ToSet(hourRows) :
                \A other \in ToSet(hourRows) : row.time <= other.time).income

\* What an hour has brought beyond the hour with rows before it.
GetDeviceInfoHourList(h) ==
    LET before == {g \in FirstHour .. h - 1 : RowsOf(g) # {}}
    IN  MaxIncome(h) - (IF before = {} THEN GetLatestDeviceStat ELSE MaxIncome(Max(before)))

\* Hours without rows show nothing.
Append24HoursData ==
    [h \in Shown |-> IF RowsOf(h) = {} THEN 0 ELSE GetDeviceInfoHourList(h)]
-----------------------------------------------------------------------------
(* Properties.                                                             *)

Written(t) == reports[t] > 0 /\ \A row \in pages : row.time # t

\* An hour that was reported at its beginning and at its end shows what lies
\* between the two reports, whatever jobs are late and whatever the clean-up has
\* deleted meanwhile, unless the redundant row of one of them was overtaken by a
\* job of the minute before.
HoursShowTheirIncome ==
    \A h \in Shown :
        (h < Now /\ Written(h * Parts) /\ Written((h + 1) * Parts)
            /\ {h * Parts - 1, (h + 1) * Parts - 1} \cap overtaken = {})
          => Append24HoursData[h] = reports[(h + 1) * Parts] - reports[h * Parts]

\* The chart neither invents nor takes back income: no hour is negative as long as
\* the profit grows, and all together show no more than the device has earned.
ChartIsBounded ==
    /\ \A h \in Shown : Append24HoursData[h] >= 0
    /\ MapThenSumSet(LAMBDA h : Append24HoursData[h], Shown) <= profit

=============================================================================
