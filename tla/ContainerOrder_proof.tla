------------------------- MODULE ContainerOrder_proof -------------------------
(* Proofs about ContainerOrder, for every set of orders, instances and       *)
(* requests and every bound on the hours.                                    *)
EXTENDS ContainerOrder, TLAPS

-----------------------------------------------------------------------------
(* Types *)

LEMMA CasJobType ==
  ASSUME NEW o \in Orders, NEW new \in RowStatus,
         NEW old \in RowStatus \cup {"none", "deleted"}, NEW h \in 0 .. MaxHours
  PROVE  /\ CasJob(o, new, old, h) \in Jobs
         /\ [CasJob(o, new, old, h) EXCEPT !.op = "create"] \in Jobs
         /\ [CasJob(o, new, old, h) EXCEPT !.op = "quota"] \in Jobs
         /\ [CasJob(o, new, old, h) EXCEPT !.op = "delete"] \in Jobs
BY DEF CasJob, Jobs, Ops

LEMMA TerminateJobType ==
  ASSUME NEW o \in Orders, NEW new \in RowStatus,
         NEW old \in RowStatus \cup {"none", "deleted"}
  PROVE  TerminateJob(o, new, old) \in Jobs
<1>1. 0 \in 0 .. MaxHours
  BY HoursAssumption
<1>2. QED
  BY <1>1, CasJobType DEF TerminateJob

\* A process whose job has a call to make has a job.
LEMMA JobAtOp ==
  ASSUME TypeOK, NEW p \in Procs, job[p].op # "none"
  PROVE  job[p] \in Jobs
BY DEF TypeOK, NoJob

LEMMA JobAdvances ==
  ASSUME NEW j \in Jobs, NEW op \in Ops
  PROVE  /\ [j EXCEPT !.op = op] \in Jobs
         /\ [j EXCEPT !.op = op, !.new = "Failed"] \in Jobs
BY DEF Jobs, RowStatus

LEMMA TypeInit == Init => TypeOK
<1> SUFFICES ASSUME Init PROVE TypeOK
  OBVIOUS
<1>1. 0 \in 0 .. MaxHours
  BY HoursAssumption
<1>2. NoInfo \in Info /\ NoList \in [Orders -> Info]
  BY <1>1 DEF NoInfo, NoList, Info
<1>3. timer \in [Timers -> [phase : Phases \cup {"idle"}, step : {"load", "query", "each"},
                            list : [Orders -> Info]]]
  BY <1>2 DEF Init, Idle
<1>4. chain \in [Orders -> [st : {"none", "Active", "Expired"}, hours : 0 .. MaxHours]]
  BY <1>1 DEF Init, NoList, NoInfo
<1>5. QED
  BY <1>1, <1>3, <1>4 DEF Init, TypeOK

\* The pieces the timer actions assign.
LEMMA ContinueType ==
  ASSUME TypeOK, NEW p \in Timers, NEW phase \in Phases,
         NEW step \in {"load", "query", "each"}, NEW list \in [Orders -> Info],
         Continue(p, phase, step, list)
  PROVE  timer' \in [Timers -> [phase : Phases \cup {"idle"}, step : {"load", "query", "each"},
                                list : [Orders -> Info]]]
<1>1. 0 \in 0 .. MaxHours
  BY HoursAssumption
<1>2. Idle \in [phase : Phases \cup {"idle"}, step : {"load", "query", "each"},
                list : [Orders -> Info]]
  BY <1>1 DEF Idle, NoList, NoInfo, Info
<1>3. QED
  BY <1>2 DEF Continue, TypeOK

LEMMA IterateType ==
  ASSUME TypeOK, NEW p \in Timers, NEW phase \in Phases, NEW o \in Orders,
         NEW j \in Jobs \cup {NoJob}, Iterate(p, phase, o, j)
  PROVE  TypeOK'
<1>1. NoInfo \in Info
  BY HoursAssumption DEF NoInfo, Info
<1>2. [timer[p].list EXCEPT ![o] = NoInfo] \in [Orders -> Info]
  BY <1>1 DEF TypeOK
<1>3. timer' \in [Timers -> [phase : Phases \cup {"idle"}, step : {"load", "query", "each"},
                             list : [Orders -> Info]]]
  BY <1>2, ContinueType DEF Iterate
<1>4. job' \in [Procs -> Jobs \cup {NoJob}]
  BY DEF Iterate, TypeOK, Procs
<1>5. QED
  BY <1>3, <1>4 DEF Iterate, TypeOK, rowVars

LEMMA OutsideType == TypeOK /\ Outside => TypeOK'
<1> SUFFICES ASSUME TypeOK, Outside PROVE TypeOK'
  OBVIOUS
<1>1. CASE LockExpires
  BY <1>1 DEF TypeOK, LockExpires, rowVars
<1>2. ASSUME NEW i \in Instances, Start(i) PROVE TypeOK'
  BY <1>2 DEF TypeOK, Start, rowVars
<1>3. ASSUME NEW i \in Instances, Kill(i) PROVE TypeOK'
  <2>1. Idle \in [phase : Phases \cup {"idle"}, step : {"load", "query", "each"},
                  list : [Orders -> Info]]
    BY HoursAssumption DEF Idle, NoList, NoInfo, Info
  <2>2. QED
    BY <1>3, <2>1 DEF TypeOK, Kill, rowVars
<1>4. ASSUME NEW o \in Orders, Overdue(o) PROVE TypeOK'
  BY <1>4 DEF TypeOK, Overdue
<1>5. ASSUME NEW o \in Orders, TenMinutes(o) PROVE TypeOK'
  BY <1>5 DEF TypeOK, TenMinutes
<1>6. ASSUME NEW o \in Orders, ChainExpire(o) PROVE TypeOK'
  BY <1>6, SMTT(40) DEF TypeOK, ChainExpire, rowVars
<1>7. ASSUME NEW o \in Orders, NEW h \in Hours, ChainPay(o, h) PROVE TypeOK'
  BY <1>7, HoursAssumption, SMTT(40) DEF TypeOK, ChainPay, rowVars, Hours
<1>8. ASSUME NEW o \in Orders, NEW h \in Hours, ChainRenew(o, h) PROVE TypeOK'
  BY <1>8, HoursAssumption DEF TypeOK, ChainRenew, rowVars, Hours
<1>9. QED
  BY <1>1, <1>2, <1>3, <1>4, <1>5, <1>6, <1>7, <1>8 DEF Outside, Crash

LEMMA ApiType == ASSUME TypeOK, NEW p \in Handlers, Api(p) PROVE TypeOK'
<1>0. /\ Requested \subseteq 0 .. MaxHours
      /\ 0 \in 0 .. MaxHours
      /\ p \in Procs
  BY HoursAssumption DEF Procs
<1>1. ASSUME NEW o \in Orders, TerminateOrder(p, o) PROVE TypeOK'
  <2>1. TerminateJob(o, "Termination", "Done") \in Jobs
    BY TerminateJobType DEF RowStatus
  <2>2. QED
    BY <1>1, <2>1 DEF TypeOK, TerminateOrder, rowVars
<1>2. ASSUME NEW o \in Orders, RenewalOrder(p, o) PROVE TypeOK'
  <2>1. CasJob(o, "Renewal", "Done", 0) \in Jobs
    BY <1>0, CasJobType DEF RowStatus
  <2>2. QED
    BY <1>2, <2>1 DEF TypeOK, RenewalOrder, rowVars
<1>3. ASSUME NEW o \in Orders, NEW h \in Requested, CreateOrder(p, o, h) PROVE TypeOK'
  BY <1>0, <1>3 DEF TypeOK, CreateOrder, Insert, RowStatus
<1>4. ASSUME NEW o \in Orders, NEW n \in Orders, NEW h \in Requested,
             UpgradeOrder(p, o, n, h)
      PROVE  TypeOK'
  <2>1. CasJob(o, "Abandoned", "Done", 0) \in Jobs
    BY <1>0, CasJobType DEF RowStatus
  <2>2. job' \in [Procs -> Jobs \cup {NoJob}]
    BY <1>4, <2>1 DEF TypeOK, UpgradeOrder
  <2>3. /\ status' \in [Orders -> RowStatus \cup {"none", "deleted"}]
        /\ space' \in [Orders -> Orders]
        /\ hours' \in [Orders -> 0 .. MaxHours]
    BY <1>0, <1>4 DEF TypeOK, UpgradeOrder, Insert, RowStatus
  <2>4. QED
    BY <1>4, <2>2, <2>3 DEF TypeOK, UpgradeOrder, Insert
<1>5. QED
  BY <1>1, <1>2, <1>3, <1>4 DEF Api

LEMMA CallType == ASSUME TypeOK, NEW p \in Procs, Call(p) PROVE TypeOK'
<1>1. CASE DeleteUserSpace(p)
  <2>1. job[p] \in Jobs
    BY <1>1, JobAtOp, SMTT(40) DEF DeleteUserSpace
  <2>2. job' \in [Procs -> Jobs \cup {NoJob}]
    BY <1>1, <2>1, JobAdvances DEF DeleteUserSpace, Then, TypeOK, Ops
  <2>3. kub' \in [Orders -> {"none", "up", "gone"}]
    BY <1>1, <2>1 DEF DeleteUserSpace, TypeOK, Jobs
  <2>4. QED
    BY <1>1, <2>2, <2>3 DEF DeleteUserSpace, TypeOK, rowVars
<1>2. CASE ReleaseOrder(p)
  <2>1. job[p] \in Jobs
    BY <1>2, JobAtOp, SMTT(40) DEF ReleaseOrder
  <2>2. job' \in [Procs -> Jobs \cup {NoJob}]
    BY <1>2, <2>1, JobAdvances DEF ReleaseOrder, Then, TypeOK, Ops
  <2>3. chain' \in [Orders -> [st : {"none", "Active", "Expired"}, hours : 0 .. MaxHours]]
    <3>1. \/ chain' = [chain EXCEPT ![job[p].id].st = "Expired"]
          \/ chain' = chain
      BY <1>2 DEF ReleaseOrder
    <3>2. job[p].id \in Orders
      BY <2>1 DEF Jobs
    <3>3. QED
      BY <3>1, <3>2 DEF TypeOK
  <2>4. QED
    BY <1>2, <2>2, <2>3 DEF ReleaseOrder, TypeOK, rowVars
<1>3. CASE CreateSpace(p)
  <2>1. job[p] \in Jobs
    BY <1>3, JobAtOp DEF CreateSpace
  <2>2. job' \in [Procs -> Jobs \cup {NoJob}]
    <3>1. /\ [job[p] EXCEPT !.op = "cas"] \in Jobs
          /\ [job[p] EXCEPT !.op = "cas", !.new = "Failed"] \in Jobs
      BY <2>1, JobAdvances DEF Ops
    <3>2. \/ job' = [job EXCEPT ![p] = [job[p] EXCEPT !.op = "cas"]]
          \/ job' = [job EXCEPT ![p] = [job[p] EXCEPT !.op = "cas", !.new = "Failed"]]
      BY <1>3, <2>1 DEF CreateSpace, TypeOK, Jobs
    <3>3. QED
      BY <3>1, <3>2 DEF TypeOK
  <2>3. kub' \in [Orders -> {"none", "up", "gone"}]
    BY <1>3, <2>1, SMTT(40) DEF CreateSpace, TypeOK, Jobs
  <2>4. QED
    BY <1>3, <2>2, <2>3 DEF CreateSpace, TypeOK, rowVars
<1>4. CASE UpdateQuotas(p)
  <2>1. job[p] \in Jobs
    BY <1>4, JobAtOp, SMTT(40) DEF UpdateQuotas
  <2>2. job' \in [Procs -> Jobs \cup {NoJob}]
    BY <1>4, <2>1, JobAdvances DEF UpdateQuotas, Then, TypeOK, Ops
  <2>3. QED
    BY <1>4, <2>2 DEF UpdateQuotas, TypeOK, rowVars
<1>5. CASE UpdateOrder(p)
  <2>1. job[p] \in Jobs
    BY <1>5, JobAtOp DEF UpdateOrder
  <2>2. QED
    BY <1>5, <2>1 DEF UpdateOrder, Update, TypeOK, Jobs
<1>6. CASE UpdateOrderFails(p)
  BY <1>6 DEF UpdateOrderFails, TypeOK, rowVars
<1>7. QED
  BY <1>1, <1>2, <1>3, <1>4, <1>5, <1>6 DEF Call

LEMMA QueryType == ASSUME TypeOK, NEW p \in Timers, Query(p) PROVE TypeOK'
<1>0. 0 \in 0 .. MaxHours
  BY HoursAssumption
<1>1. ASSUME NEW phase \in Phases, LoadRows(p, phase) PROVE TypeOK'
  <2> DEFINE found == [o \in Orders |-> IF Selected(phase, o)
                                        THEN [st |-> status[o], hours |-> 0]
                                        ELSE NoInfo]
  <2>1. \A o \in Orders : Selected(phase, o) => status[o] \in RowStatus
    BY DEF Selected, Sweepable, RowStatus, TypeOK
  <2>2. found \in [Orders -> Info]
    BY <1>0, <2>1 DEF Info, NoInfo
  <2>3. timer' \in [Timers -> [phase : Phases \cup {"idle"}, step : {"load", "query", "each"},
                               list : [Orders -> Info]]]
    BY <1>1, <2>2, ContinueType DEF LoadRows
  <2>4. QED
    BY <1>1, <2>3 DEF LoadRows, TypeOK, rowVars
<1>2. ASSUME NEW phase \in Phases, GetOrders(p, phase) PROVE TypeOK'
  <2> DEFINE found == [o \in Orders |->
                         IF timer[p].list[o] = NoInfo THEN NoInfo ELSE chain[o]]
  <2>1. found \in [Orders -> Info]
    BY <1>0 DEF Info, NoInfo, TypeOK
  <2>2. timer' \in [Timers -> [phase : Phases \cup {"idle"}, step : {"load", "query", "each"},
                               list : [Orders -> Info]]]
    BY <1>2, <2>1, ContinueType DEF GetOrders
  <2>3. QED
    BY <1>2, <2>2 DEF GetOrders, TypeOK, rowVars
<1>3. CASE DeleteOrders(p)
  BY <1>3 DEF DeleteOrders, TypeOK
<1>4. QED
  BY <1>1, <1>2, <1>3 DEF Query

LEMMA StepType ==
  ASSUME TypeOK, ListInv, NEW p \in Timers, NEW o \in Orders, Step(p, o)
  PROVE  TypeOK'
<1>0. /\ 0 \in 0 .. MaxHours
      /\ NoJob \in Jobs \cup {NoJob}
      /\ status[o] \in RowStatus \cup {"none", "deleted"}
      /\ Item(p, o) \in Info
      /\ Item(p, o).hours \in 0 .. MaxHours
  BY HoursAssumption DEF TypeOK, Item, Info
<1>1. CASE PaidItem(p, o)
  <2>1. CasJob(o, "Paid", "Created", Item(p, o).hours) \in Jobs
    BY <1>0, CasJobType DEF RowStatus
  <2>2. QED
    BY <1>0, <1>1, <2>1, IterateType DEF PaidItem, Phases, PhasesOf
<1>2. CASE PaidItemPanics(p, o)
  <2>1. p[1] \in Instances
    BY DEF Timers
  <2>2. Idle \in [phase : Phases \cup {"idle"}, step : {"load", "query", "each"},
                  list : [Orders -> Info]]
    BY HoursAssumption DEF Idle, NoList, NoInfo, Info
  <2>3. QED
    BY <1>2, <2>1, <2>2 DEF PaidItemPanics, Kill, TypeOK, rowVars
<1>3. CASE CreateItem(p, o)
  <2>1. [CasJob(o, "Done", "Paid", 0) EXCEPT !.op = "create"] \in Jobs
    BY <1>0, CasJobType DEF RowStatus
  <2>2. QED
    BY <1>3, <2>1, IterateType DEF CreateItem, Phases, PhasesOf
<1>4. CASE RenewalItem(p, o)
  <2>1. /\ TerminateJob(o, "Expired", status[o]) \in Jobs
        /\ CasJob(o, "Done", "Renewal", 0) \in Jobs
        /\ CasJob(o, "Done", "Renewal", Item(p, o).hours) \in Jobs
    BY <1>0, TerminateJobType, CasJobType DEF RowStatus
  <2>2. QED
    BY <1>0, <1>4, <2>1, IterateType DEF RenewalItem, Phases, PhasesOf
<1>5. CASE UpgradeItem(p, o)
  <2>1. /\ CasJob(o, "Expired", "Upgrade", 0) \in Jobs
        /\ [CasJob(o, "Done", "Upgrade", Item(p, o).hours) EXCEPT !.op = "quota"] \in Jobs
    BY <1>0, CasJobType DEF RowStatus
  <2>2. QED
    BY <1>5, <2>1, IterateType DEF UpgradeItem, Phases, PhasesOf
<1>6. CASE AbandonedItem(p, o)
  <2>1. /\ CasJob(o, "Expired", "Abandoned", 0) \in Jobs
        /\ CasJob(o, "Done", "Abandoned", 0) \in Jobs
    BY <1>0, CasJobType DEF RowStatus
  <2>2. QED
    BY <1>0, <1>6, <2>1, IterateType DEF AbandonedItem, Phases, PhasesOf
<1>7. CASE ExpiredItem(p, o)
  <2>1. Item(p, o) # NoInfo /\ timer[p].phase = "expired"
    BY <1>7 DEF ExpiredItem, Iterate, At, Item
  <2>2. Item(p, o).st \in RowStatus
    BY <2>1 DEF ListInv, Sweepable, RowStatus
  <2>3. TerminateJob(o, "Expired", Item(p, o).st) \in Jobs
    BY <2>2, TerminateJobType DEF RowStatus
  <2>4. QED
    BY <1>7, <2>3, IterateType DEF ExpiredItem, Phases, PhasesOf
<1>8. CASE ActiveItem(p, o)
  <2>1. TerminateJob(o, "Expired", "Done") \in Jobs
    BY TerminateJobType DEF RowStatus
  <2>2. CASE Item(p, o).st # "Active"
    BY <1>8, <2>1, <2>2, IterateType DEF ActiveItem, Phases, PhasesOf
  <2>3. CASE Item(p, o).st = "Active"
    <3>1. [timer[p].list EXCEPT ![o] = NoInfo] \in [Orders -> Info]
      BY <1>0 DEF TypeOK, NoInfo, Info
    <3>2. timer' \in [Timers -> [phase : Phases \cup {"idle"}, step : {"load", "query", "each"},
                                 list : [Orders -> Info]]]
      BY <1>8, <2>3, <3>1, ContinueType DEF ActiveItem, Phases, PhasesOf
    <3>3. QED
      BY <1>8, <2>3, <3>2 DEF ActiveItem, TypeOK
  <2>4. QED
    BY <2>2, <2>3
<1>9. QED
  BY <1>1, <1>2, <1>3, <1>4, <1>5, <1>6, <1>7, <1>8 DEF Step

LEMMA TimerType == ASSUME TypeOK, ListInv, NEW p \in Timers, Timer(p) PROVE TypeOK'
<1>1. ASSUME NEW phase \in Phases, GetOrdersFails(p, phase) PROVE TypeOK'
  <2>1. NoList \in [Orders -> Info]
    BY HoursAssumption DEF NoList, NoInfo, Info
  <2>2. timer' \in [Timers -> [phase : Phases \cup {"idle"}, step : {"load", "query", "each"},
                               list : [Orders -> Info]]]
    BY <1>1, <2>1, ContinueType DEF GetOrdersFails
  <2>3. QED
    BY <1>1, <2>2 DEF GetOrdersFails, TypeOK, rowVars
<1>2. QED
  BY <1>1, QueryType, StepType DEF Timer

\* Typing needs the list invariant: checkOrderExpired compares the row with a
\* status out of its list.
LEMMA TypeNext == TypeOK /\ ListInv /\ [Next]_vars => TypeOK'
<1> SUFFICES ASSUME TypeOK, ListInv, [Next]_vars PROVE TypeOK'
  OBVIOUS
<1>1. CASE UNCHANGED vars
  BY <1>1 DEF vars, rowVars, TypeOK
<1>2. QED
  BY <1>1, OutsideType, ApiType, CallType, TimerType DEF Next

-----------------------------------------------------------------------------
(* Payment *)

\* What the contract has been paid stays paid: no step lowers a record.
Grows == \A o \in Orders, h \in 0 .. MaxHours : PaidFor(o, h) => PaidFor(o, h)'

LEMMA SameChain == ASSUME UNCHANGED chain, ChainInv PROVE ChainInv' /\ Grows
BY DEF ChainInv, Grows, PaidFor

LEMMA RecordEnds ==
  ASSUME TypeOK, ChainInv, NEW o \in Orders, chain[o].st = "Active",
         chain' = [chain EXCEPT ![o].st = "Expired"]
  PROVE  ChainInv' /\ Grows
BY DEF ChainInv, Grows, PaidFor, TypeOK, NoInfo

LEMMA ChainNext == TypeOK /\ ChainInv /\ [Next]_vars => ChainInv' /\ Grows
<1> SUFFICES ASSUME TypeOK, ChainInv, [Next]_vars PROVE ChainInv' /\ Grows
  OBVIOUS
<1>1. CASE Outside
  <2>1. ASSUME NEW o \in Orders, ChainExpire(o) PROVE ChainInv' /\ Grows
    BY <2>1, RecordEnds DEF ChainExpire
  <2>2. ASSUME NEW o \in Orders, NEW h \in Hours, ChainPay(o, h) PROVE ChainInv' /\ Grows
    <3>1. /\ chain[o].st = "none"
          /\ chain'[o] = [st |-> "Active", hours |-> h]
          /\ h \in 1 .. MaxHours
      BY <2>2 DEF ChainPay, Hours
    <3>2. ASSUME NEW q \in Orders, q # o
          PROVE  /\ chain'[q].hours = chain[q].hours
                 /\ chain'[q].st = "none" <=> chain[q].st = "none"
                 /\ chain[q] = NoInfo => chain'[q] = NoInfo
      BY <2>2, <3>2 DEF ChainPay, TypeOK, NoInfo
    <3>3. ASSUME NEW q \in Orders PROVE chain'[q] = NoInfo \/ PaidFor(q, chain[q].hours)'
      <4>1. CASE q = o
        BY <3>1, <4>1, HoursAssumption DEF PaidFor
      <4>2. CASE q # o
        BY <3>2, <4>2 DEF ChainInv, PaidFor
      <4>3. QED
        BY <4>1, <4>2
    <3>4. ASSUME NEW q \in Orders, NEW k \in 0 .. MaxHours, PaidFor(q, k)
          PROVE  PaidFor(q, k)'
      <4>1. q # o
        BY <3>1, <3>4 DEF PaidFor
      <4>2. QED
        BY <3>2, <3>4, <4>1 DEF PaidFor
    <3>5. QED
      BY <3>3, <3>4 DEF ChainInv, Grows
  <2>3. ASSUME NEW o \in Orders, NEW h \in Hours, ChainRenew(o, h) PROVE ChainInv' /\ Grows
    BY <2>3, HoursAssumption DEF ChainRenew, ChainInv, Grows, PaidFor, TypeOK, NoInfo, Hours
  <2>4. QED
    BY <1>1, <2>1, <2>2, <2>3, SameChain
       DEF Outside, LockExpires, Start, Crash, Kill, Overdue, TenMinutes
<1>2. ASSUME NEW p \in Handlers, Api(p) PROVE ChainInv' /\ Grows
  BY <1>2, SameChain DEF Api, TerminateOrder, RenewalOrder, CreateOrder, UpgradeOrder
<1>3. ASSUME NEW p \in Procs, Call(p) PROVE ChainInv' /\ Grows
  <2>1. CASE ReleaseOrder(p)
    <3>1. \/ /\ chain[job[p].id].st = "Active"
             /\ chain' = [chain EXCEPT ![job[p].id].st = "Expired"]
          \/ chain' = chain
      BY <2>1 DEF ReleaseOrder
    <3>2. job[p].id \in Orders
      BY <2>1, JobAtOp DEF ReleaseOrder, Jobs
    <3>3. QED
      BY <3>1, <3>2, RecordEnds, SameChain
  <2>2. QED
    BY <1>3, <2>1, SameChain
       DEF Call, DeleteUserSpace, CreateSpace, UpdateQuotas, UpdateOrder, Update, UpdateOrderFails
<1>4. ASSUME NEW p \in Timers, Timer(p) PROVE ChainInv' /\ Grows
  <2>1. UNCHANGED chain
    BY <1>4 DEF Timer, Query, LoadRows, GetOrders, GetOrdersFails, DeleteOrders, Step,
                PaidItem, PaidItemPanics, Kill, CreateItem, RenewalItem, UpgradeItem,
                AbandonedItem, ExpiredItem, ActiveItem, Iterate
  <2>2. QED
    BY <2>1, SameChain
<1>5. CASE UNCHANGED vars
  BY <1>5, SameChain DEF vars
<1>6. QED
  BY <1>1, <1>2, <1>3, <1>4, <1>5 DEF Next

\* Rows that keep their status and duration stay covered.
LEMMA SameRows ==
  ASSUME TypeOK, CoveredByPayment, Grows, UNCHANGED <<status, hours>>
  PROVE  CoveredByPayment'
BY DEF CoveredByPayment, Grows, PaidFor, TypeOK

LEMMA CoveredNext ==
  ASSUME TypeOK, JobInv, CoveredByPayment, Grows, Next
  PROVE  CoveredByPayment'
<1>1. CASE Outside
  BY <1>1, SameRows
     DEF Outside, LockExpires, Start, Crash, Kill, Overdue, TenMinutes,
         ChainExpire, ChainPay, ChainRenew, rowVars
<1>2. ASSUME NEW p \in Handlers, Api(p) PROVE CoveredByPayment'
  <2>1. ASSUME NEW o \in Orders, NEW st \in {"Created", "Upgrade"}, NEW ws, NEW h,
               Insert(o, st, ws, h)
        PROVE  CoveredByPayment'
    <3>1. ASSUME NEW q \in Orders, status'[q] \in Served PROVE PaidFor(q, hours[q])'
      <4>1. q # o
        BY <2>1, <3>1 DEF Insert, TypeOK, Served
      <4>2. status'[q] = status[q] /\ hours'[q] = hours[q]
        BY <2>1, <4>1 DEF Insert, TypeOK
      <4>3. QED
        BY <3>1, <4>2 DEF CoveredByPayment, Grows, PaidFor, TypeOK
    <3>2. QED
      BY <3>1 DEF CoveredByPayment
  <2>2. QED
    BY <1>2, <2>1, SameRows
       DEF Api, TerminateOrder, RenewalOrder, CreateOrder, UpgradeOrder, rowVars
<1>3. ASSUME NEW p \in Procs, Call(p) PROVE CoveredByPayment'
  <2>1. CASE UpdateOrder(p)
    <3>1. job[p] \in Jobs /\ job[p] # NoJob
      BY <2>1, JobAtOp DEF UpdateOrder, NoJob
    <3>2. job[p].id \in Orders /\ job[p].hours \in 0 .. MaxHours
      BY <3>1 DEF Jobs
    <3>3. ASSUME NEW q \in Orders, status'[q] \in Served PROVE PaidFor(q, hours[q])'
      <4>1. CASE q = job[p].id /\ Hit(p)
        <5>1. status'[q] = job[p].new /\ status[q] = job[p].old
          BY <2>1, <3>2, <4>1 DEF UpdateOrder, Update, Hit, TypeOK
        <5>2. CASE job[p].hours > 0
          <6>1. PaidFor(q, job[p].hours) /\ hours'[q] = job[p].hours
            BY <2>1, <3>1, <3>2, <4>1, <5>2 DEF UpdateOrder, Update, JobInv, TypeOK
          <6>2. QED
            BY <3>2, <6>1 DEF Grows, PaidFor
        <5>3. CASE ~(job[p].hours > 0)
          <6>1. status[q] \in Served /\ hours'[q] = hours[q]
            BY <2>1, <3>1, <3>3, <5>1, <5>3 DEF UpdateOrder, Update, JobInv
          <6>2. QED
            BY <6>1 DEF CoveredByPayment, Grows, PaidFor, TypeOK
        <5>4. QED
          BY <5>2, <5>3
      <4>2. CASE ~(q = job[p].id /\ Hit(p))
        <5>1. status'[q] = status[q] /\ hours'[q] = hours[q]
          BY <2>1, <3>2, <4>2 DEF UpdateOrder, Update, TypeOK
        <5>2. QED
          BY <3>3, <5>1 DEF CoveredByPayment, Grows, PaidFor, TypeOK
      <4>3. QED
        BY <4>1, <4>2
    <3>4. QED
      BY <3>3 DEF CoveredByPayment
  <2>2. QED
    BY <1>3, <2>1, SameRows
       DEF Call, DeleteUserSpace, ReleaseOrder, CreateSpace, UpdateQuotas,
           UpdateOrderFails, rowVars
<1>4. ASSUME NEW p \in Timers, Timer(p) PROVE CoveredByPayment'
  <2>1. CASE DeleteOrders(p)
    <3>1. \A q \in Orders : status'[q] \in Served => status'[q] = status[q]
      BY <2>1 DEF DeleteOrders, Served, TypeOK
    <3>2. QED
      BY <2>1, <3>1 DEF DeleteOrders, CoveredByPayment, Grows, PaidFor, TypeOK
  <2>2. CASE ~DeleteOrders(p)
    <3>1. UNCHANGED <<status, hours>>
      BY <1>4, <2>2 DEF Timer, Query, LoadRows, GetOrders, GetOrdersFails, Step,
                PaidItem, PaidItemPanics, Kill, CreateItem, RenewalItem, UpgradeItem,
                AbandonedItem, ExpiredItem, ActiveItem, Iterate, rowVars
    <3>2. QED
      BY <3>1, SameRows
  <2>3. QED
    BY <2>1, <2>2
<1>5. QED
  BY <1>1, <1>2, <1>3, <1>4 DEF Next

\* A list that is shortened, or left alone, stays covered.
Shortened(p) ==
  \/ timer'[p] = Idle
  \/ timer'[p] = timer[p]
  \/ /\ timer'[p].phase = timer[p].phase
     /\ timer'[p].step = timer[p].step
     /\ \A o \in Orders : timer'[p].list[o] \in {NoInfo, timer[p].list[o]}

ListOK(p) ==
  \A o \in Orders : Item(p, o) # NoInfo =>
    /\ timer[p].phase = "expired" => timer[p].step = "each" /\ Item(p, o).st \in Sweepable
    /\ timer[p].phase \in {"paid", "renewal", "upgrade"} /\ timer[p].step = "each"
         => PaidFor(o, Item(p, o).hours)

LEMMA ShortenedList ==
  ASSUME TypeOK, Grows, NEW p \in Timers, ListOK(p), Shortened(p)
  PROVE  ListOK(p)'
<1> SUFFICES ASSUME NEW o \in Orders, Item(p, o)' # NoInfo
             PROVE  /\ timer'[p].phase = "expired"
                         => timer'[p].step = "each" /\ Item(p, o)'.st \in Sweepable
                    /\ timer'[p].phase \in {"paid", "renewal", "upgrade"} /\ timer'[p].step = "each"
                         => PaidFor(o, Item(p, o).hours)'
  BY DEF ListOK, Sweepable
<1>1. /\ timer'[p].phase = timer[p].phase
      /\ timer'[p].step = timer[p].step
      /\ Item(p, o)' = Item(p, o)
  BY DEF Shortened, Item, Idle, NoList
<1>2. Item(p, o).hours \in 0 .. MaxHours
  BY DEF TypeOK, Item, Info
<1>3. PaidFor(o, Item(p, o).hours) => PaidFor(o, Item(p, o).hours)'
  <2>1. PaidFor(o, Item(p, o).hours) =>
          chain'[o].st # "none" /\ Item(p, o).hours \in 1 .. chain'[o].hours
    BY <1>2 DEF Grows, PaidFor
  <2>2. QED
    BY <1>1, <2>1 DEF PaidFor
<1>4. QED
  BY <1>1, <1>3 DEF ListOK

\* One timer step changes one list.
LEMMA OneList ==
  ASSUME TypeOK, ListInv, Grows, NEW p \in Timers, NEW t,
         timer' = [timer EXCEPT ![p] = t], ListOK(p)'
  PROVE  ListInv'
<1>1. \A q \in Timers : q # p => Shortened(q)
  BY DEF Shortened, TypeOK
<1>2. \A q \in Timers : ListOK(q)
  BY DEF ListInv, ListOK
<1>3. \A q \in Timers : ListOK(q)'
  BY <1>1, <1>2, ShortenedList
<1>4. QED
  BY <1>3 DEF ListInv, ListOK

LEMMA AllShortened ==
  ASSUME TypeOK, ListInv, Grows, \A p \in Timers : Shortened(p)
  PROVE  ListInv'
<1>1. \A q \in Timers : ListOK(q)
  BY DEF ListInv, ListOK
<1>2. \A q \in Timers : ListOK(q)'
  BY <1>1, ShortenedList
<1>3. QED
  BY <1>2 DEF ListInv, ListOK
LEMMA ListNext ==
  ASSUME TypeOK, ChainInv, ListInv, Grows, [Next]_vars
  PROVE  ListInv'
<1>1. CASE UNCHANGED timer
  BY <1>1, AllShortened DEF Shortened
<1>2. ASSUME NEW i \in Instances, Kill(i) PROVE ListInv'
  <2>1. \A q \in Timers : Shortened(q)
    BY <1>2 DEF Kill, Shortened
  <2>2. QED
    BY <2>1, AllShortened
<1>3. ASSUME NEW p \in Timers, NEW phase \in Phases,
             NEW step \in {"load", "query", "each"}, NEW list \in [Orders -> Info],
             Continue(p, phase, step, list),
             \A o \in Orders : list[o] # NoInfo =>
               /\ phase = "expired" => step = "each" /\ list[o].st \in Sweepable
               /\ phase \in {"paid", "renewal", "upgrade"} /\ step = "each"
                    => PaidFor(o, list[o].hours)'
      PROVE  ListInv'
  <2>1. CASE list = NoList
    <3>1. timer' = [timer EXCEPT ![p] = Idle]
      BY <1>3, <2>1 DEF Continue
    <3>2. \A o \in Orders : Item(p, o)' = NoInfo
      BY <3>1 DEF Item, Idle, NoList, TypeOK
    <3>3. ListOK(p)'
      BY <3>2 DEF ListOK
    <3>4. QED
      BY <3>1, <3>3, OneList
  <2>2. CASE list # NoList
    <3>1. timer' = [timer EXCEPT ![p] = [phase |-> phase, step |-> step, list |-> list]]
      BY <1>3, <2>2 DEF Continue
    <3>2. timer'[p] = [phase |-> phase, step |-> step, list |-> list]
      BY <3>1 DEF TypeOK
    <3>3. ListOK(p)'
      BY <1>3, <3>2 DEF ListOK, Item, PaidFor
    <3>4. QED
      BY <3>1, <3>3, OneList
  <2>3. QED
    BY <2>1, <2>2
<1>4. ASSUME NEW p \in Timers, NEW phase \in Phases, NEW o \in Orders, At(p, phase, "each"),
             Continue(p, phase, "each", [timer[p].list EXCEPT ![o] = NoInfo])
      PROVE  ListInv'
  <2> DEFINE rest == [timer[p].list EXCEPT ![o] = NoInfo]
  <2>1. rest \in [Orders -> Info]
    BY HoursAssumption DEF TypeOK, NoInfo, Info
  <2>2. ASSUME NEW q \in Orders, rest[q] # NoInfo
        PROVE  rest[q] = Item(p, q) /\ Item(p, q).hours \in 0 .. MaxHours
    BY <2>2 DEF Item, TypeOK, Info
  <2>3. ASSUME NEW q \in Orders, rest[q] # NoInfo
        PROVE  /\ phase = "expired" => rest[q].st \in Sweepable
               /\ phase \in {"paid", "renewal", "upgrade"} => PaidFor(q, Item(p, q).hours)
    BY <1>4, <2>2, <2>3 DEF ListInv, At
  <2>4. ASSUME NEW q \in Orders, rest[q] # NoInfo, phase \in {"paid", "renewal", "upgrade"}
        PROVE  chain'[q].st # "none" /\ rest[q].hours \in 1 .. chain'[q].hours
    BY <2>2, <2>3, <2>4 DEF Grows, PaidFor
  <2>5. QED
    BY <1>3, <1>4, <2>1, <2>3, <2>4 DEF PaidFor
<1>5. ASSUME NEW p \in Timers, Query(p) PROVE ListInv'
  <2>1. ASSUME NEW phase \in Phases, LoadRows(p, phase) PROVE ListInv'
    <3> DEFINE found == [o \in Orders |-> IF Selected(phase, o)
                                          THEN [st |-> status[o], hours |-> 0]
                                          ELSE NoInfo]
               step == IF phase \in {"create", "expired"} THEN "each" ELSE "query"
    <3>1. \A o \in Orders : Selected(phase, o) => status[o] \in RowStatus
      BY DEF Selected, Sweepable, RowStatus, TypeOK
    <3>2. found \in [Orders -> Info]
      BY <3>1, HoursAssumption DEF Info, NoInfo
    <3>3. \A o \in Orders : found[o] # NoInfo =>
            (phase = "expired" => step = "each" /\ found[o].st \in Sweepable)
      BY DEF Selected
    <3>4. Continue(p, phase, step, found)
      BY <2>1 DEF LoadRows
    <3>5. /\ step \in {"load", "query", "each"}
          /\ ~(phase \in {"paid", "renewal", "upgrade"} /\ step = "each")
      OBVIOUS
    <3> HIDE DEF found, step
    <3>6. QED
      BY <1>3, <3>2, <3>3, <3>4, <3>5
  <2>2. ASSUME NEW phase \in Phases, GetOrders(p, phase) PROVE ListInv'
    <3> DEFINE found == [o \in Orders |->
                           IF timer[p].list[o] = NoInfo THEN NoInfo ELSE chain[o]]
    <3>1. found \in [Orders -> Info]
      BY HoursAssumption DEF Info, NoInfo, TypeOK
    <3>2. ASSUME NEW o \in Orders, found[o] # NoInfo
          PROVE  /\ phase # "expired"
                 /\ chain'[o].st # "none" /\ found[o].hours \in 1 .. chain'[o].hours
      BY <2>2, <3>2 DEF GetOrders, At, ListInv, Item, ChainInv, PaidFor
    <3>3. Continue(p, phase, "each", found)
      BY <2>2 DEF GetOrders
    <3> HIDE DEF found
    <3>4. QED
      BY <1>3, <3>1, <3>2, <3>3 DEF PaidFor
  <2>3. CASE DeleteOrders(p)
    BY <1>1, <2>3 DEF DeleteOrders
  <2>4. QED
    BY <1>5, <2>1, <2>2, <2>3 DEF Query
<1>6. ASSUME NEW p \in Timers, NEW phase \in Phases, GetOrdersFails(p, phase) PROVE ListInv'
  <2>1. NoList \in [Orders -> Info]
    BY HoursAssumption DEF NoList, NoInfo, Info
  <2>2. \A o \in Orders : NoList[o] = NoInfo
    BY DEF NoList
  <2>3. QED
    BY <1>3, <1>6, <2>1, <2>2 DEF GetOrdersFails
<1>7. ASSUME NEW p \in Timers, NEW o \in Orders, Step(p, o) PROVE ListInv'
  <2>1. ASSUME NEW phase \in Phases, NEW j, Iterate(p, phase, o, j) PROVE ListInv'
    BY <1>4, <2>1 DEF Iterate
  <2>2. CASE PaidItemPanics(p, o)
    BY <1>2, <2>2 DEF PaidItemPanics, Timers
  <2>3. CASE ActiveItem(p, o)
    BY <1>4, <2>1, <2>3 DEF ActiveItem, Phases, PhasesOf
  <2>4. QED
    BY <1>7, <2>1, <2>2, <2>3
       DEF Step, PaidItem, CreateItem, RenewalItem, UpgradeItem, AbandonedItem,
           ExpiredItem, Phases, PhasesOf
<1>8. QED
  <2>1. ASSUME Outside PROVE ListInv'
    BY <1>1, <1>2, <2>1
       DEF Outside, LockExpires, Start, Crash, Overdue, TenMinutes, ChainExpire, ChainPay, ChainRenew
  <2>2. ASSUME NEW p \in Handlers, Api(p) PROVE ListInv'
    BY <1>1, <2>2 DEF Api, TerminateOrder, RenewalOrder, CreateOrder, UpgradeOrder
  <2>3. ASSUME NEW p \in Procs, Call(p) PROVE ListInv'
    BY <1>1, <2>3 DEF Call, DeleteUserSpace, ReleaseOrder, CreateSpace, UpdateQuotas,
                      UpdateOrder, Update, UpdateOrderFails
  <2>4. ASSUME NEW p \in Timers, Timer(p) PROVE ListInv'
    BY <1>5, <1>6, <1>7, <2>4 DEF Timer
  <2>5. QED
    BY <1>1, <2>1, <2>2, <2>3, <2>4 DEF Next, vars
JobOK(j) ==
  j # NoJob =>
    /\ j.hours > 0 => PaidFor(j.id, j.hours)
    /\ j.new \in Served => j.old \in Served \/ j.hours > 0
    /\ j.op = "create" => j.old \in Served

\* A job already there stays covered.
LEMMA JobStays ==
  ASSUME TypeOK, JobInv, Grows, NEW p \in Procs
  PROVE  JobOK(job[p])'  \/ job'[p] # job[p]
<1> SUFFICES ASSUME job'[p] = job[p], job[p] # NoJob PROVE JobOK(job[p])'
  BY DEF JobOK
<1>1. job[p].id \in Orders /\ job[p].hours \in 0 .. MaxHours
  BY DEF TypeOK, Jobs
<1>2. job[p].hours > 0 =>
        chain'[job[p].id].st # "none" /\ job[p].hours \in 1 .. chain'[job[p].id].hours
  BY <1>1 DEF JobInv, Grows, PaidFor
<1>3. QED
  BY <1>2 DEF JobInv, JobOK, PaidFor

\* One process changes its job.
LEMMA OneJob ==
  ASSUME TypeOK, JobInv, Grows, NEW p \in Procs, NEW j,
         job' = [job EXCEPT ![p] = j], JobOK(j)'
  PROVE  JobInv'
<1>1. ASSUME NEW q \in Procs PROVE JobOK(job[q])'
  <2>1. CASE q = p
    BY <2>1 DEF JobOK, TypeOK, PaidFor
  <2>2. CASE q # p
    <3>1. job'[q] = job[q]
      BY <2>2 DEF TypeOK
    <3>2. QED
      BY <3>1, JobStays
  <2>3. QED
    BY <2>1, <2>2
<1>2. QED
  BY <1>1 DEF JobInv, JobOK

LEMMA SameJobs ==
  ASSUME TypeOK, JobInv, Grows, \A p \in Procs : job'[p] \in {job[p], NoJob}
  PROVE  JobInv'
<1>1. ASSUME NEW q \in Procs PROVE JobOK(job[q])'
  BY JobStays DEF JobOK
<1>2. QED
  BY <1>1 DEF JobInv, JobOK

\* A loop iteration over an order the list says is paid for.
LEMMA OneIteration ==
  ASSUME TypeOK, JobInv, Grows, NEW p \in Timers, NEW o \in Orders, NEW phase, NEW j,
         Iterate(p, phase, o, j), JobOK(j)
  PROVE  JobInv'
<1>1. JobOK(j)'
  BY DEF JobOK, Iterate, PaidFor
<1>2. p \in Procs /\ job' = [job EXCEPT ![p] = j]
  BY DEF Procs, Iterate
<1>3. QED
  BY <1>1, <1>2, OneJob

LEMMA JobNext ==
  ASSUME TypeOK, ListInv, JobInv, Grows, [Next]_vars
  PROVE  JobInv'
<1>1. CASE UNCHANGED job
  BY <1>1, SameJobs
<1>2. ASSUME NEW i \in Instances, Kill(i) PROVE JobInv'
  BY <1>2, SameJobs DEF Kill
<1>3. ASSUME NEW p \in Handlers, Api(p) PROVE JobInv'
  <2>1. p \in Procs
    BY DEF Procs
  <2>2. ASSUME NEW o \in Orders, TerminateOrder(p, o) PROVE JobInv'
    <3>1. JobOK(TerminateJob(o, "Termination", "Done"))'
      BY DEF JobOK, TerminateJob, CasJob, Served
    <3>2. job' = [job EXCEPT ![p] = TerminateJob(o, "Termination", "Done")]
      BY <2>2 DEF TerminateOrder
    <3>3. QED
      BY <2>1, <3>1, <3>2, OneJob
  <2>3. ASSUME NEW o \in Orders, NEW new \in {"Renewal", "Abandoned"},
               job' = [job EXCEPT ![p] = CasJob(o, new, "Done", 0)]
        PROVE  JobInv'
    <3>1. JobOK(CasJob(o, new, "Done", 0))'
      BY DEF JobOK, CasJob, Served
    <3>2. QED
      BY <2>1, <2>3, <3>1, OneJob
  <2>4. QED
    BY <1>1, <1>3, <2>2, <2>3 DEF Api, RenewalOrder, CreateOrder, UpgradeOrder
<1>4. ASSUME NEW p \in Procs, Call(p) PROVE JobInv'
  <2>1. job[p] \in Jobs /\ job[p] # NoJob
    BY <1>4, JobAtOp DEF Call, DeleteUserSpace, ReleaseOrder, CreateSpace, UpdateQuotas,
                         UpdateOrder, UpdateOrderFails, NoJob
  <2>2. /\ job[p].id \in Orders
        /\ job[p].hours \in 0 .. MaxHours
        /\ job[p].hours > 0 => chain'[job[p].id].st # "none"
                                /\ job[p].hours \in 1 .. chain'[job[p].id].hours
        /\ job[p].new \in Served => job[p].old \in Served \/ job[p].hours > 0
    BY <2>1 DEF JobInv, Grows, PaidFor, Jobs
  <2>3. ASSUME NEW op \in {"release", "cas"}, Then(p, op) PROVE JobInv'
    <3>1. job' = [job EXCEPT ![p] = [job[p] EXCEPT !.op = op]]
      BY <2>1, <2>3 DEF Then, Jobs, TypeOK
    <3>2. ASSUME NEW j, j = [job[p] EXCEPT !.op = op] PROVE JobOK(j)'
      BY <2>1, <2>2, <3>2 DEF JobOK, PaidFor, Jobs
    <3>3. QED
      BY <3>1, <3>2, OneJob
  <2>4. CASE CreateSpace(p)
    <3>1. CASE job' = [job EXCEPT ![p].op = "cas"]
      BY <2>3, <3>1 DEF Then
    <3>2. CASE job' = [job EXCEPT ![p].op = "cas", ![p].new = "Failed"]
      <4>1. job' = [job EXCEPT ![p] = [job[p] EXCEPT !.op = "cas", !.new = "Failed"]]
        BY <2>1, <3>2 DEF Jobs, TypeOK
      <4>2. job[p].old \in Served
        BY <2>1, <2>4 DEF JobInv, CreateSpace
      <4>3. ASSUME NEW j, j = [job[p] EXCEPT !.op = "cas", !.new = "Failed"]
            PROVE  JobOK(j)'
        BY <2>1, <2>2, <4>2, <4>3 DEF JobOK, PaidFor, Jobs
      <4>4. QED
        BY <4>1, <4>3, OneJob
    <3>3. QED
      BY <2>4, <3>1, <3>2 DEF CreateSpace
  <2>5. QED
    BY <1>4, <2>3, <2>4, SameJobs
       DEF Call, DeleteUserSpace, ReleaseOrder, UpdateQuotas, UpdateOrder, Update,
           UpdateOrderFails, TypeOK
<1>5. ASSUME NEW p \in Timers, Timer(p) PROVE JobInv'
  <2>1. ASSUME NEW o \in Orders, Step(p, o) PROVE JobInv'
    <3>1. ASSUME NEW phase \in {"paid", "renewal", "upgrade"}, NEW j, Iterate(p, phase, o, j)
          PROVE  Item(p, o).hours > 0 /\ PaidFor(o, Item(p, o).hours)
      <4>1. PaidFor(o, Item(p, o).hours)
        BY <3>1 DEF Iterate, At, ListInv, Item
      <4>2. Item(p, o).hours \in Nat /\ chain[o].hours \in Nat
        BY HoursAssumption DEF TypeOK, Item, Info
      <4>3. QED
        BY <4>1, <4>2 DEF PaidFor
    <3>2. JobOK(NoJob)
      BY DEF JobOK
    <3>3. \A old : JobOK(TerminateJob(o, "Expired", old))
      BY DEF JobOK, TerminateJob, CasJob, Served
    <3>4. \A old : JobOK(CasJob(o, "Expired", old, 0))
      BY DEF JobOK, CasJob, Served
    <3>5. \A old \in {"Renewal", "Abandoned"} : JobOK(CasJob(o, "Done", old, 0))
      BY DEF JobOK, CasJob, Served
    <3>6. CASE PaidItem(p, o)
      <4>1. ASSUME Iterate(p, "paid", o, CasJob(o, "Paid", "Created", Item(p, o).hours))
            PROVE  JobOK(CasJob(o, "Paid", "Created", Item(p, o).hours))
        BY <3>1, <4>1 DEF JobOK, CasJob
      <4>2. QED
        BY <3>2, <3>6, <4>1, OneIteration DEF PaidItem
    <3>7. CASE PaidItemPanics(p, o)
      BY <1>2, <3>7 DEF PaidItemPanics, Timers
    <3>8. CASE CreateItem(p, o)
      <4>1. JobOK([CasJob(o, "Done", "Paid", 0) EXCEPT !.op = "create"])
        BY DEF JobOK, CasJob, Served
      <4>2. QED
        BY <3>8, <4>1, OneIteration DEF CreateItem
    <3>9. CASE RenewalItem(p, o)
      <4>1. ASSUME NEW j, Iterate(p, "renewal", o, j)
            PROVE  JobOK(CasJob(o, "Done", "Renewal", Item(p, o).hours))
        BY <3>1, <4>1 DEF JobOK, CasJob
      <4>2. ASSUME NEW j \in {NoJob, CasJob(o, "Done", "Renewal", Item(p, o).hours)},
                   Iterate(p, "renewal", o, j)
            PROVE  JobInv'
        BY <3>2, <4>1, <4>2, OneIteration
      <4>3. CASE Iterate(p, "renewal", o, TerminateJob(o, "Expired", status[o]))
        BY <3>3, <4>3, OneIteration
      <4>4. CASE Iterate(p, "renewal", o, CasJob(o, "Done", "Renewal", 0))
        BY <3>5, <4>4, OneIteration
      <4>5. QED
        BY <3>9, <4>2, <4>3, <4>4 DEF RenewalItem
    <3>10. CASE UpgradeItem(p, o)
      <4> DEFINE grow == [CasJob(o, "Done", "Upgrade", Item(p, o).hours) EXCEPT !.op = "quota"]
      <4>1. ASSUME Iterate(p, "upgrade", o, grow) PROVE JobOK(grow)
        BY <3>1, <4>1 DEF JobOK, CasJob
      <4>2. QED
        BY <3>4, <3>10, <4>1, OneIteration DEF UpgradeItem
    <3>11. CASE AbandonedItem(p, o)
      BY <3>2, <3>4, <3>5, <3>11, OneIteration DEF AbandonedItem
    <3>12. CASE ExpiredItem(p, o)
      BY <3>3, <3>12, OneIteration DEF ExpiredItem
    <3>13. CASE ActiveItem(p, o)
      BY <1>1, <3>3, <3>13, OneIteration DEF ActiveItem
    <3>14. QED
      BY <2>1, <3>6, <3>7, <3>8, <3>9, <3>10, <3>11, <3>12, <3>13 DEF Step
  <2>2. QED
    BY <1>1, <1>5, <2>1 DEF Timer, Query, LoadRows, GetOrders, GetOrdersFails, DeleteOrders
<1>6. QED
  <2>1. ASSUME Outside PROVE JobInv'
    BY <1>1, <1>2, <2>1
       DEF Outside, LockExpires, Start, Crash, Overdue, TenMinutes, ChainExpire, ChainPay, ChainRenew
  <2>2. QED
    BY <1>1, <1>3, <1>4, <1>5, <2>1 DEF Next, vars

-----------------------------------------------------------------------------
(* The theorems *)

LEMMA PaymentInit == Init => PaymentInv
<1>1. Init => TypeOK
  BY TypeInit
<1>2. Init => ChainInv /\ ListInv /\ JobInv /\ CoveredByPayment
  BY DEF Init, ChainInv, ListInv, JobInv, CoveredByPayment, NoList, Item, Idle, Served
<1>3. QED
  BY <1>1, <1>2 DEF PaymentInv

LEMMA PaymentNext == PaymentInv /\ [Next]_vars => PaymentInv'
<1> SUFFICES ASSUME PaymentInv, [Next]_vars PROVE PaymentInv'
  OBVIOUS
<1>0. TypeOK /\ ChainInv /\ ListInv /\ JobInv /\ CoveredByPayment
  BY DEF PaymentInv
<1>1. TypeOK'
  BY <1>0, TypeNext
<1>2. ChainInv' /\ Grows
  BY <1>0, ChainNext
<1>3. ListInv'
  BY <1>0, <1>2, ListNext
<1>4. JobInv'
  BY <1>0, <1>2, JobNext
<1>5. CoveredByPayment'
  <2>1. CASE Next
    BY <1>0, <1>2, <2>1, CoveredNext
  <2>2. CASE UNCHANGED vars
    BY <1>0, <1>2, <2>2, SameRows DEF vars, rowVars
  <2>3. QED
    BY <2>1, <2>2
<1>6. QED
  BY <1>1, <1>2, <1>3, <1>4, <1>5 DEF PaymentInv

\* The conjunction of the types, of what the processes have read of the chain
\* and of CoveredByPayment is an invariant: it holds initially and every step
\* of every process preserves it.
THEOREM PaymentInvariant == Spec => []PaymentInv
BY PaymentInit, PaymentNext, PTL DEF Spec

\* Rows, contract records, result lists and jobs are always of their types,
\* whatever the orders, instances, request handlers and hours.
THEOREM TypeCorrect == Spec => []TypeOK
<1>1. PaymentInv => TypeOK
  BY DEF PaymentInv
<1>2. QED
  BY <1>1, PaymentInvariant, PTL

\* No order is ever served unpaid: the UPDATEs of checkOrderPaid,
\* checkOrderRenewal and checkOrderUpgrade never record more hours than the
\* chain holds, with any number of executors, requests and crashes.
THEOREM OrdersCoveredByPayment == Spec => []CoveredByPayment
<1>1. PaymentInv => CoveredByPayment
  BY DEF PaymentInv
<1>2. QED
  BY <1>1, PaymentInvariant, PTL

\* The contract's hours for an order never shrink and never disappear, so
\* whatever a process has read of them stays a lower bound.
THEOREM PaymentOnlyGrows == Spec => [][Grows]_vars
<1>1. PaymentInv /\ [Next]_vars => [Grows]_vars
  BY ChainNext DEF PaymentInv
<1>2. QED
  BY <1>1, PaymentInvariant, PTL DEF Spec

-----------------------------------------------------------------------------
(* What a step can do to one row, one workspace, one job and one list *)

\* The UPDATE that ends the job of p finds its row.
Hits(p, o) ==
  /\ job[p] # NoJob /\ job[p].op = "cas" /\ job[p].id = o /\ status[o] = job[p].old
  /\ status'[o] = job[p].new
  /\ job'[p] = NoJob

LEMMA UpdateEffect ==
  ASSUME TypeOK, NEW p \in Procs, UpdateOrder(p)
  PROVE  /\ job[p] \in Jobs /\ job[p] # NoJob /\ job'[p] = NoJob
         /\ UNCHANGED <<space, kub>>
         /\ \A o \in Orders :
              \/ status'[o] = status[o] /\ hours'[o] = hours[o]
              \/ Hits(p, o) /\ hours'[o] = IF job[p].hours > 0 THEN job[p].hours ELSE hours[o]
<1>1. job[p] \in Jobs /\ job[p] # NoJob
  BY JobAtOp DEF UpdateOrder, NoJob
<1>2. job[p].id \in Orders
  BY <1>1 DEF Jobs
<1>3. job'[p] = NoJob /\ UNCHANGED <<space, kub>>
  BY DEF UpdateOrder, Update, TypeOK
<1>4. CASE ~Hit(p)
  BY <1>1, <1>3, <1>4 DEF UpdateOrder, Update
<1>5. CASE Hit(p)
  <2>1. /\ status' = [status EXCEPT ![job[p].id] = job[p].new]
        /\ hours' = IF job[p].hours > 0 THEN [hours EXCEPT ![job[p].id] = job[p].hours] ELSE hours
    BY <1>5 DEF UpdateOrder, Update
  <2>2. job[p].op = "cas" /\ status[job[p].id] = job[p].old
    BY <1>5 DEF UpdateOrder, Hit
  <2>3. ASSUME NEW o \in Orders, o # job[p].id PROVE status'[o] = status[o] /\ hours'[o] = hours[o]
    BY <1>2, <2>1, <2>3 DEF TypeOK
  <2>4. /\ status'[job[p].id] = job[p].new
        /\ hours'[job[p].id] = IF job[p].hours > 0 THEN job[p].hours ELSE hours[job[p].id]
    BY <1>2, <2>1 DEF TypeOK
  <2>5. QED
    BY <1>1, <1>2, <1>3, <2>2, <2>3, <2>4 DEF Hits
<1>6. QED
  BY <1>1, <1>3, <1>4, <1>5

\* What a step does to the row of an order.
RowStep(o) ==
  \/ status'[o] = status[o] /\ hours'[o] = hours[o] /\ space'[o] = space[o]
  \/ /\ status[o] = "none"
     /\ \/ status'[o] = "Created" /\ space'[o] = o
        \/ status'[o] = "Upgrade" /\ \E q \in Orders : status[q] = "Done" /\ space'[o] = space[q]
  \/ status[o] = "Created" /\ status'[o] = "deleted" /\ hours'[o] = hours[o] /\ space'[o] = space[o]
  \/ \E p \in Procs :
       /\ job[p] \in Jobs /\ Hits(p, o)
       /\ space'[o] = space[o]
       /\ hours'[o] = IF job[p].hours > 0 THEN job[p].hours ELSE hours[o]

LEMMA RowEffect ==
  ASSUME TypeOK, [Next]_vars, NEW o \in Orders
  PROVE  RowStep(o)
<1>1. ASSUME NEW p \in Handlers, Api(p) PROVE RowStep(o)
  <2>1. ASSUME NEW q \in Orders, NEW h \in Requested, CreateOrder(p, q, h) PROVE RowStep(o)
    BY <2>1 DEF CreateOrder, Insert, RowStep, TypeOK
  <2>2. ASSUME NEW q \in Orders, NEW n \in Orders, NEW h \in Requested, UpgradeOrder(p, q, n, h)
        PROVE  RowStep(o)
    BY <2>2 DEF UpgradeOrder, Insert, RowStep, TypeOK
  <2>3. QED
    BY <1>1, <2>1, <2>2 DEF Api, TerminateOrder, RenewalOrder, rowVars, RowStep
<1>2. ASSUME NEW p \in Procs, Call(p) PROVE RowStep(o)
  <2>1. CASE UpdateOrder(p)
    BY <2>1, UpdateEffect DEF RowStep
  <2>2. QED
    BY <1>2, <2>1 DEF Call, DeleteUserSpace, ReleaseOrder, CreateSpace, UpdateQuotas,
                      UpdateOrderFails, rowVars, RowStep
<1>3. ASSUME NEW p \in Timers, Timer(p) PROVE RowStep(o)
  <2>1. CASE DeleteOrders(p)
    BY <2>1 DEF DeleteOrders, RowStep, TypeOK
  <2>2. CASE UNCHANGED <<status, hours, space>>
    BY <2>2 DEF RowStep
  <2>3. ASSUME NEW q \in Orders, Step(p, q) PROVE UNCHANGED <<status, hours, space>>
    BY <2>3 DEF Step, PaidItem, PaidItemPanics, CreateItem, RenewalItem, UpgradeItem,
                AbandonedItem, ExpiredItem, ActiveItem, Iterate, Kill, rowVars
  <2>4. QED
    BY <1>3, <2>1, <2>2, <2>3 DEF Timer, Query, LoadRows, GetOrders, GetOrdersFails, rowVars
<1>4. CASE Outside
  BY <1>4 DEF Outside, LockExpires, Start, Crash, Kill, Overdue, TenMinutes, ChainExpire,
              ChainPay, ChainRenew, rowVars, RowStep
<1>5. QED
  BY <1>1, <1>2, <1>3, <1>4 DEF Next, vars, rowVars, RowStep

\* What a step does to a workspace.
SpaceStep(w) ==
  \/ kub'[w] = kub[w]
  \/ \E p \in Procs : /\ job[p] \in Jobs /\ job[p].op = "delete" /\ w = space[job[p].id]
                      /\ kub'[w] = "gone"
  \/ \E p \in Procs : /\ job[p] \in Jobs /\ job[p].op = "create" /\ w = space[job[p].id]
                      /\ kub'[w] = "up"

LEMMA SpaceEffect ==
  ASSUME TypeOK, [Next]_vars, NEW w \in Orders
  PROVE  SpaceStep(w)
<1>1. ASSUME NEW p \in Procs, Call(p) PROVE SpaceStep(w)
  <2>1. CASE DeleteUserSpace(p)
    <3>1. job[p] \in Jobs /\ job[p].op = "delete"
      BY <2>1, JobAtOp DEF DeleteUserSpace
    <3>2. QED
      BY <2>1, <3>1 DEF DeleteUserSpace, TypeOK, SpaceStep, Jobs
  <2>2. CASE CreateSpace(p)
    <3>1. job[p] \in Jobs /\ job[p].op = "create"
      BY <2>2, JobAtOp DEF CreateSpace
    <3>2. QED
      BY <2>2, <3>1 DEF CreateSpace, TypeOK, SpaceStep, Jobs
  <2>3. QED
    BY <1>1, <2>1, <2>2 DEF Call, ReleaseOrder, UpdateQuotas, UpdateOrder, Update,
                            UpdateOrderFails, SpaceStep
<1>2. ASSUME NEW p \in Timers, Timer(p) PROVE UNCHANGED kub
  <2>1. ASSUME NEW q \in Orders, Step(p, q) PROVE UNCHANGED kub
    BY <2>1 DEF Step, PaidItem, PaidItemPanics, CreateItem, RenewalItem, UpgradeItem,
                AbandonedItem, ExpiredItem, ActiveItem, Iterate, Kill
  <2>2. QED
    BY <1>2, <2>1 DEF Timer, Query, LoadRows, GetOrders, GetOrdersFails, DeleteOrders
<1>3. ASSUME NEW p \in Handlers, Api(p) PROVE UNCHANGED kub
  BY <1>3 DEF Api, TerminateOrder, RenewalOrder, CreateOrder, UpgradeOrder
<1>4. CASE Outside
  BY <1>4 DEF Outside, LockExpires, Start, Crash, Kill, Overdue, TenMinutes, ChainExpire,
              ChainPay, ChainRenew, SpaceStep
<1>5. QED
  BY <1>1, <1>2, <1>3, <1>4 DEF Next, vars, SpaceStep

\* A job goes on to its next call.
Advanced(p) ==
  /\ job[p] \in Jobs /\ job'[p] \in Jobs
  /\ job'[p].id = job[p].id /\ job'[p].old = job[p].old /\ job'[p].hours = job[p].hours
  /\ job'[p].op \in {"release", "cas"}
  /\ \/ job'[p].new = job[p].new /\ job[p].op \notin {"create", "cas"}
     \/ /\ job[p].op = "create" /\ job'[p].op = "cas"
        /\ \/ job'[p].new = job[p].new /\ kub'[space[job[p].id]] = "up"
           \/ job'[p].new = "Failed"

\* A handler has read a row that is Done.
Requests(p) ==
  /\ p \in Handlers
  /\ \E o \in Orders :
       /\ status[o] = "Done"
       /\ job'[p] \in {TerminateJob(o, "Termination", "Done"), CasJob(o, "Renewal", "Done", 0),
                       CasJob(o, "Abandoned", "Done", 0)}

\* What the loops over the lists decide on.
Decision(p, phase, o, j) ==
  \/ /\ phase = "paid"
     /\ j = CasJob(o, "Paid", "Created", Item(p, o).hours)
  \/ /\ phase = "create"
     /\ j = [CasJob(o, "Done", "Paid", 0) EXCEPT !.op = "create"]
  \/ /\ phase = "renewal"
     /\ \/ j = TerminateJob(o, "Expired", status[o])
        \/ j = CasJob(o, "Done", "Renewal", 0)
        \/ j = CasJob(o, "Done", "Renewal", Item(p, o).hours) /\ Item(p, o).hours > hours[o]
  \/ /\ phase = "upgrade"
     /\ \/ j = CasJob(o, "Expired", "Upgrade", 0)
        \/ j = [CasJob(o, "Done", "Upgrade", Item(p, o).hours) EXCEPT !.op = "quota"]
  \/ /\ phase = "abandoned"
     /\ j \in {CasJob(o, "Expired", "Abandoned", 0), CasJob(o, "Done", "Abandoned", 0)}
  \/ /\ phase = "expired"
     /\ j = TerminateJob(o, "Expired", Item(p, o).st)
  \/ /\ phase = "active"
     /\ j = TerminateJob(o, "Expired", "Done")

Decides(p) ==
  /\ p \in Timers
  /\ \E o \in Orders, phase \in Phases :
       Iterate(p, phase, o, job'[p]) /\ Decision(p, phase, o, job'[p])

JobStep(p) == job'[p] \in {job[p], NoJob} \/ Advanced(p) \/ Requests(p) \/ Decides(p)

LEMMA CallEffect ==
  ASSUME TypeOK, NEW p \in Procs, Call(p)
  PROVE  job'[p] = NoJob \/ Advanced(p)
<1>1. job[p] \in Jobs
  BY JobAtOp DEF Call, DeleteUserSpace, ReleaseOrder, CreateSpace, UpdateQuotas,
                 UpdateOrder, UpdateOrderFails
<1>2. job \in [Procs -> Jobs \cup {NoJob}]
  BY DEF TypeOK
<1>3. ASSUME NEW op \in {"release", "cas"}, Then(p, op), job[p].op \notin {"create", "cas"}
      PROVE  Advanced(p)
  <2>1. job'[p] = [job[p] EXCEPT !.op = op]
    BY <1>1, <1>2, <1>3, SMTT(40) DEF Then
  <2>2. job'[p] \in Jobs
    BY <1>1, <2>1, JobAdvances, ZenonT(40) DEF Ops
  <2>3. QED
    BY <1>1, <1>3, <2>1, <2>2 DEF Advanced, Jobs
<1>4. CASE CreateSpace(p)
  <2>1. \/ job'[p] = [job[p] EXCEPT !.op = "cas"] /\ kub'[space[job[p].id]] = "up"
        \/ job'[p] = [job[p] EXCEPT !.op = "cas", !.new = "Failed"]
    <3>1. space[job[p].id] \in Orders /\ kub \in [Orders -> {"none", "up", "gone"}]
      BY <1>1 DEF TypeOK, Jobs
    <3>2. CASE /\ kub' = [kub EXCEPT ![space[job[p].id]] = "up"]
               /\ job' = [job EXCEPT ![p].op = "cas"]
      BY <1>1, <1>2, <3>1, <3>2
    <3>3. CASE job' = [job EXCEPT ![p].op = "cas", ![p].new = "Failed"]
      <4>1. job' = [job EXCEPT ![p] = [job[p] EXCEPT !.op = "cas", !.new = "Failed"]]
        BY <1>1, <1>2, <3>3 DEF Jobs
      <4>2. QED
        BY <1>2, <4>1
    <3>4. QED
      BY <1>4, <3>2, <3>3 DEF CreateSpace
  <2>2. job'[p] \in Jobs
    BY <1>1, <2>1, JobAdvances DEF Ops
  <2>3. QED
    BY <1>1, <1>4, <2>1, <2>2 DEF Advanced, Jobs, CreateSpace
<1>5. CASE UpdateOrder(p) \/ UpdateOrderFails(p)
  BY <1>2, <1>5 DEF UpdateOrder, Update, UpdateOrderFails
<1>6. QED
  BY <1>2, <1>3, <1>4, <1>5 DEF Call, DeleteUserSpace, ReleaseOrder, UpdateQuotas

LEMMA IterationEffect ==
  ASSUME TypeOK, NEW p \in Timers, NEW o \in Orders, NEW phase \in Phases, NEW j,
         Iterate(p, phase, o, j), j = NoJob \/ Decision(p, phase, o, j), NEW q \in Procs
  PROVE  JobStep(q)
<1>1. p \in Procs /\ job' = [job EXCEPT ![p] = j]
  BY DEF Iterate, Procs
<1>2. CASE q = p
  <2>1. job'[q] = j
    BY <1>1, <1>2 DEF TypeOK
  <2>2. QED
    BY <1>2, <2>1 DEF JobStep, Decides
<1>3. CASE q # p
  BY <1>1, <1>3 DEF TypeOK, JobStep
<1>4. QED
  BY <1>2, <1>3

LEMMA JobEffect ==
  ASSUME TypeOK, [Next]_vars, NEW q \in Procs
  PROVE  JobStep(q)
<1>0. job \in [Procs -> Jobs \cup {NoJob}]
  BY DEF TypeOK
<1>1. ASSUME NEW i \in Instances, Kill(i) PROVE JobStep(q)
  BY <1>1 DEF Kill, JobStep
<1>2. ASSUME NEW p \in Handlers, Api(p) PROVE JobStep(q)
  <2>1. p \in Procs
    BY DEF Procs
  <2>2. ASSUME NEW o \in Orders, status[o] = "Done",
               NEW j \in {TerminateJob(o, "Termination", "Done"), CasJob(o, "Renewal", "Done", 0),
                          CasJob(o, "Abandoned", "Done", 0)},
               job' = [job EXCEPT ![p] = j]
        PROVE  JobStep(q)
    <3>1. CASE q = p
      <4>1. job'[p] = j
        BY <1>0, <2>1, <2>2
      <4>2. Requests(p)
        BY <2>2, <4>1 DEF Requests
      <4>3. QED
        BY <3>1, <4>2 DEF JobStep
    <3>2. CASE q # p
      BY <1>0, <2>2, <3>2 DEF JobStep
    <3>3. QED
      BY <3>1, <3>2
  <2>3. QED
    BY <1>2, <2>2 DEF Api, TerminateOrder, RenewalOrder, CreateOrder, UpgradeOrder, JobStep
<1>3. ASSUME NEW p \in Procs, Call(p) PROVE JobStep(q)
  <2>1. CASE q = p
    BY <1>3, <2>1, CallEffect DEF JobStep
  <2>2. CASE q # p
    <3>1. job'[q] = job[q]
      BY <1>0, <1>3, <2>2 DEF Call, DeleteUserSpace, ReleaseOrder, CreateSpace, UpdateQuotas,
                              UpdateOrder, Update, UpdateOrderFails, Then
    <3>2. QED
      BY <3>1 DEF JobStep
  <2>3. QED
    BY <2>1, <2>2
<1>4. ASSUME NEW p \in Timers, NEW o \in Orders, Step(p, o) PROVE JobStep(q)
  <2>0. {"paid", "create", "renewal", "upgrade", "abandoned", "expired", "active"} \subseteq Phases
    BY DEF Phases, PhasesOf
  <2>1. CASE PaidItemPanics(p, o)
    BY <1>1, <2>1 DEF PaidItemPanics, Timers
  <2>2. CASE ActiveItem(p, o) /\ UNCHANGED job
    BY <2>2 DEF JobStep
  <2>3. CASE ~PaidItemPanics(p, o) /\ ~(ActiveItem(p, o) /\ UNCHANGED job)
    <3>1. PICK phase, j :
            /\ phase \in Phases
            /\ Iterate(p, phase, o, j) /\ (j = NoJob \/ Decision(p, phase, o, j))
      <4>1. CASE PaidItem(p, o)
        BY <2>0, <4>1 DEF PaidItem, Decision
      <4>2. CASE CreateItem(p, o)
        BY <2>0, <4>2 DEF CreateItem, Decision
      <4>3. CASE RenewalItem(p, o)
        BY <2>0, <4>3 DEF RenewalItem, Decision
      <4>4. CASE UpgradeItem(p, o)
        BY <2>0, <4>4 DEF UpgradeItem, Decision
      <4>5. CASE AbandonedItem(p, o)
        BY <2>0, <4>5 DEF AbandonedItem, Decision
      <4>6. CASE ExpiredItem(p, o)
        BY <2>0, <4>6 DEF ExpiredItem, Decision
      <4>7. CASE ActiveItem(p, o)
        BY <2>0, <2>3, <4>7 DEF ActiveItem, Decision
      <4>8. QED
        BY <1>4, <2>3, <4>1, <4>2, <4>3, <4>4, <4>5, <4>6, <4>7 DEF Step
    <3>2. QED
      BY <3>1, IterationEffect
  <2>4. QED
    BY <2>1, <2>2, <2>3
<1>5. ASSUME NEW p \in Timers, Timer(p) PROVE JobStep(q)
  BY <1>4, <1>5 DEF Timer, Query, LoadRows, GetOrders, GetOrdersFails, DeleteOrders, JobStep
<1>6. CASE Outside
  BY <1>1, <1>6 DEF Outside, LockExpires, Start, Crash, Overdue, TenMinutes, ChainExpire,
              ChainPay, ChainRenew, JobStep
<1>7. QED
  BY <1>2, <1>3, <1>5, <1>6 DEF Next, vars, JobStep

\* A list only loses items, unless a timer that is free loads a new one.
Kept(p) ==
  \/ timer'[p] = Idle
  \/ /\ timer'[p].phase = timer[p].phase
     /\ timer[p] # Idle
     /\ \A o \in Orders : Item(p, o)' # NoInfo => Item(p, o) # NoInfo

Loaded(p) ==
  /\ TimerFree(p)
  /\ timer[p] = Idle
  /\ timer'[p].phase \in PhasesOf(p[2]) \ {"delete"}
  /\ \A o \in Orders : Item(p, o)' # NoInfo => Selected(timer'[p].phase, o)
  /\ UNCHANGED <<rowVars, kub, up, job>>

ListStep(p) == timer'[p] = timer[p] \/ Kept(p) \/ Loaded(p)

LEMMA ContinueEffect ==
  ASSUME TypeOK, NEW p \in Timers, NEW phase, NEW step, NEW list \in [Orders -> Info],
         Continue(p, phase, step, list)
  PROVE  /\ timer'[p] = Idle \/ timer'[p].phase = phase
         /\ \A q \in Timers : q # p => timer'[q] = timer[q]
         /\ \A o \in Orders : Item(p, o)' \in {NoInfo, list[o]}
BY DEF Continue, TypeOK, Item, Idle, NoList

\* The timer is at work, and its list loses the items that disagree with list.
LEMMA ContinueKeeps ==
  ASSUME TypeOK, NEW p \in Timers, NEW phase \in Phases, NEW step, NEW list \in [Orders -> Info],
         timer[p].phase = phase,
         \A o \in Orders : list[o] # NoInfo => Item(p, o) # NoInfo,
         Continue(p, phase, step, list), NEW q \in Timers
  PROVE  ListStep(q)
<1>1. timer[p] # Idle
  BY DEF Idle, Phases, PhasesOf
<1>2. CASE q = p
  <2>1. timer'[p] = Idle \/ timer'[p].phase = phase
    BY ContinueEffect
  <2>2. \A o \in Orders : Item(p, o)' # NoInfo => Item(p, o) # NoInfo
    BY ContinueEffect
  <2>3. QED
    BY <1>1, <1>2, <2>1, <2>2 DEF ListStep, Kept
<1>3. CASE q # p
  BY <1>3, ContinueEffect DEF ListStep
<1>4. QED
  BY <1>2, <1>3

LEMMA ListEffect ==
  ASSUME TypeOK, [Next]_vars, NEW q \in Timers
  PROVE  ListStep(q)
<1>0. NoInfo \in Info
  BY HoursAssumption DEF NoInfo, Info
<1>1. ASSUME NEW i \in Instances, Kill(i) PROVE ListStep(q)
  BY <1>1 DEF Kill, ListStep, Kept
<1>2. ASSUME NEW p \in Timers, NEW phase \in Phases, NEW o \in Orders, At(p, phase, "each"),
             Continue(p, phase, "each", [timer[p].list EXCEPT ![o] = NoInfo])
      PROVE  ListStep(q)
  <2>1. timer[p].list \in [Orders -> Info] /\ timer[p].phase = phase
    BY <1>2 DEF TypeOK, At
  <2> DEFINE rest == [timer[p].list EXCEPT ![o] = NoInfo]
  <2>2. rest \in [Orders -> Info] /\ \A r \in Orders : rest[r] # NoInfo => Item(p, r) # NoInfo
    BY <1>0, <2>1 DEF Item
  <2> HIDE DEF rest
  <2>3. Continue(p, phase, "each", rest)
    BY <1>2 DEF rest
  <2>4. QED
    BY <2>1, <2>2, <2>3, ContinueKeeps
<1>3. ASSUME NEW p \in Timers, Query(p) PROVE ListStep(q)
  <2>1. ASSUME NEW phase \in Phases, LoadRows(p, phase) PROVE ListStep(q)
    <3> DEFINE found == [o \in Orders |-> IF Selected(phase, o)
                                          THEN [st |-> status[o], hours |-> 0]
                                          ELSE NoInfo]
               step == IF phase \in {"create", "expired"} THEN "each" ELSE "query"
    <3>1. \A o \in Orders : Selected(phase, o) => status[o] \in RowStatus
      BY DEF Selected, Sweepable, RowStatus, TypeOK
    <3>2. found \in [Orders -> Info] /\ \A o \in Orders : found[o] # NoInfo => Selected(phase, o)
      BY <3>1, HoursAssumption DEF Info, NoInfo
    <3>3. Continue(p, phase, step, found)
      BY <2>1 DEF LoadRows
    <3>4. /\ TimerFree(p) /\ timer[p] = Idle /\ phase \in PhasesOf(p[2]) \ {"delete"}
          /\ UNCHANGED <<rowVars, kub, up, job>>
      BY <2>1 DEF LoadRows
    <3> HIDE DEF found, step
    <3>5. CASE q = p
      <4>1. \A o \in Orders : Item(p, o)' # NoInfo => Selected(phase, o)
        BY <3>2, <3>3, ContinueEffect
      <4>2. timer'[p] = Idle \/ timer'[p].phase = phase
        BY <3>2, <3>3, ContinueEffect
      <4>3. QED
        BY <3>4, <3>5, <4>1, <4>2 DEF ListStep, Kept, Loaded
    <3>6. CASE q # p
      BY <3>2, <3>3, <3>6, ContinueEffect DEF ListStep
    <3>7. QED
      BY <3>5, <3>6
  <2>2. ASSUME NEW phase \in Phases, GetOrders(p, phase) PROVE ListStep(q)
    <3> DEFINE found == [o \in Orders |->
                           IF timer[p].list[o] = NoInfo THEN NoInfo ELSE chain[o]]
    <3>1. found \in [Orders -> Info]
      BY HoursAssumption DEF Info, NoInfo, TypeOK
    <3>2. \A o \in Orders : found[o] # NoInfo => Item(p, o) # NoInfo
      BY DEF Item
    <3>3. Continue(p, phase, "each", found) /\ timer[p].phase = phase
      BY <2>2 DEF GetOrders, At
    <3> HIDE DEF found
    <3>4. QED
      BY <3>1, <3>2, <3>3, ContinueKeeps
  <2>3. QED
    BY <1>3, <2>1, <2>2 DEF Query, DeleteOrders, ListStep
<1>4. ASSUME NEW p \in Timers, NEW phase \in Phases, GetOrdersFails(p, phase) PROVE ListStep(q)
  <2>1. /\ NoList \in [Orders -> Info] /\ \A o \in Orders : NoList[o] = NoInfo
        /\ timer[p].phase = phase
        /\ Continue(p, phase, "each", NoList)
    BY <1>0, <1>4 DEF NoList, GetOrdersFails, At
  <2>2. QED
    BY <2>1, ContinueKeeps
<1>5. ASSUME NEW p \in Timers, NEW o \in Orders, Step(p, o) PROVE ListStep(q)
  <2>1. ASSUME NEW phase \in Phases, NEW j, Iterate(p, phase, o, j) PROVE ListStep(q)
    BY <1>2, <2>1 DEF Iterate
  <2>2. CASE PaidItemPanics(p, o)
    BY <1>1, <2>2 DEF PaidItemPanics, Timers
  <2>3. CASE ActiveItem(p, o)
    BY <1>2, <2>1, <2>3 DEF ActiveItem, Phases, PhasesOf
  <2>4. QED
    BY <1>5, <2>1, <2>2, <2>3
       DEF Step, PaidItem, CreateItem, RenewalItem, UpgradeItem, AbandonedItem,
           ExpiredItem, Phases, PhasesOf
<1>6. ASSUME Outside PROVE ListStep(q)
  BY <1>1, <1>6 DEF Outside, LockExpires, Start, Crash, Overdue, TenMinutes, ChainExpire,
              ChainPay, ChainRenew, ListStep
<1>7. ASSUME NEW p \in Handlers, Api(p) PROVE ListStep(q)
  BY <1>7 DEF Api, TerminateOrder, RenewalOrder, CreateOrder, UpgradeOrder, ListStep
<1>8. ASSUME NEW p \in Procs, Call(p) PROVE ListStep(q)
  BY <1>8 DEF Call, DeleteUserSpace, ReleaseOrder, CreateSpace, UpdateQuotas,
              UpdateOrder, Update, UpdateOrderFails, ListStep
<1>9. ASSUME NEW p \in Timers, Timer(p) PROVE ListStep(q)
  BY <1>3, <1>4, <1>5, <1>9 DEF Timer
<1>10. QED
  BY <1>6, <1>7, <1>8, <1>9 DEF Next, vars, ListStep

\* An instance stops running timers only by dying, and its timers die with it.
UpStep(p) ==
  \/ up'[p[1]] = up[p[1]]
  \/ up[p[1]] = "new"
  \/ timer'[p] = Idle /\ job'[p] = NoJob

LEMMA UpEffect ==
  ASSUME TypeOK, [Next]_vars, NEW p \in Timers
  PROVE  UpStep(p)
<1>0. p[1] \in Instances /\ p \in Procs
  BY DEF Timers, Procs
<1>1. ASSUME NEW i \in Instances, Kill(i) PROVE UpStep(p)
  BY <1>0, <1>1 DEF Kill, UpStep, TypeOK
<1>2. ASSUME NEW i \in Instances, Start(i) PROVE UpStep(p)
  BY <1>0, <1>2 DEF Start, UpStep, TypeOK
<1>3. ASSUME Outside PROVE UpStep(p)
  BY <1>1, <1>2, <1>3 DEF Outside, LockExpires, Crash, Overdue, TenMinutes, ChainExpire,
              ChainPay, ChainRenew, UpStep
<1>4. ASSUME NEW q \in Handlers, Api(q) PROVE UpStep(p)
  BY <1>4 DEF Api, TerminateOrder, RenewalOrder, CreateOrder, UpgradeOrder, UpStep
<1>5. ASSUME NEW q \in Procs, Call(q) PROVE UpStep(p)
  BY <1>5 DEF Call, DeleteUserSpace, ReleaseOrder, CreateSpace, UpdateQuotas,
              UpdateOrder, Update, UpdateOrderFails, UpStep
<1>6. ASSUME NEW q \in Timers, Timer(q) PROVE UpStep(p)
  <2>1. ASSUME NEW o \in Orders, Step(q, o) PROVE UpStep(p)
    <3>1. CASE PaidItemPanics(q, o)
      BY <1>1, <3>1 DEF PaidItemPanics, Timers
    <3>2. CASE UNCHANGED up
      BY <3>2 DEF UpStep
    <3>3. QED
      BY <2>1, <3>1, <3>2
         DEF Step, PaidItem, CreateItem, RenewalItem, UpgradeItem, AbandonedItem,
             ExpiredItem, ActiveItem, Iterate
  <2>2. QED
    BY <1>6, <2>1 DEF Timer, Query, LoadRows, GetOrders, GetOrdersFails, DeleteOrders, UpStep
<1>7. QED
  BY <1>3, <1>4, <1>5, <1>6 DEF Next, vars, UpStep

-----------------------------------------------------------------------------
(* One life: no job brings back an order that is over *)

\* A row that has begun stays begun, one that is over stays over.
LEMMA BegunStays ==
  ASSUME TypeOK, LifeInv, [Next]_vars, NEW o \in Orders
  PROVE  /\ status[o] \in Begun => status'[o] \in Begun
         /\ status[o] \in Over => status'[o] \in Over
BY RowEffect DEF RowStep, Hits, LifeInv, LifeJob, Begun, Served, Over

LEMMA LifeInit == Init => LifeInv
<1> SUFFICES ASSUME Init PROVE LifeInv
  OBVIOUS
<1>1. \A p \in Procs : job[p] = NoJob
  BY DEF Init
<1>2. \A p \in Timers : timer[p].phase = "idle"
  BY DEF Init, Idle
<1>3. \A o \in Orders : chain[o].st = "none"
  BY DEF Init, NoList, NoInfo
<1>4. QED
  BY <1>1, <1>2, <1>3 DEF LifeInv

\* The loops go on only with orders that were in the list.
LEMMA DecisionLives ==
  ASSUME TypeOK, ListInv, LifeInv, NEW p \in Timers, Decides(p)
  PROVE  job'[p] = NoJob \/ LifeJob(job'[p])
<1>1. PICK o \in Orders, phase \in Phases :
        Iterate(p, phase, o, job'[p]) /\ Decision(p, phase, o, job'[p])
  BY DEF Decides
<1>2. timer[p].phase = phase /\ timer[p].step = "each" /\ Item(p, o) # NoInfo
  BY <1>1 DEF Iterate, At, Item
<1>3. phase = "renewal" => status[o] \in Begun
  BY <1>2 DEF LifeInv
<1>4. phase = "expired" => Item(p, o).st \in Sweepable
  BY <1>2 DEF ListInv
<1>5. CASE phase = "renewal" /\ job'[p] = TerminateJob(o, "Expired", status[o])
  BY <1>3, <1>5 DEF LifeJob, TerminateJob, CasJob, Begun, Served, Over
<1>6. CASE phase = "expired"
  <2>1. job'[p] = TerminateJob(o, "Expired", Item(p, o).st)
    BY <1>1, <1>6 DEF Decision
  <2>2. QED
    BY <1>4, <1>6, <2>1 DEF LifeJob, TerminateJob, CasJob, Begun, Served, Over, Sweepable
<1>7. CASE /\ phase # "expired"
           /\ ~(phase = "renewal" /\ job'[p] = TerminateJob(o, "Expired", status[o]))
  BY <1>1, <1>7 DEF Decision, LifeJob, TerminateJob, CasJob, Begun, Served, Over
<1>8. QED
  BY <1>5, <1>6, <1>7

\* Only a placed order is paid for.
LEMMA PlacedFirst ==
  ASSUME TypeOK, [Next]_vars, NEW o \in Orders, chain'[o].st # "none"
  PROVE  chain[o].st # "none" \/ status[o] # "none"
<1>1. ASSUME NEW q \in Orders, NEW h \in Hours, ChainPay(q, h)
      PROVE  chain[o].st # "none" \/ status[o] # "none"
  BY <1>1 DEF ChainPay, TypeOK
<1>2. ASSUME Outside PROVE chain[o].st # "none" \/ status[o] # "none"
  <2>1. ASSUME NEW q \in Orders, NEW h \in Hours, ChainRenew(q, h) PROVE chain'[o].st = chain[o].st
    BY <2>1 DEF ChainRenew, TypeOK
  <2>2. ASSUME NEW q \in Orders, ChainExpire(q) PROVE chain[o].st # "none"
    BY <2>2 DEF ChainExpire, TypeOK
  <2>3. QED
    BY <1>1, <1>2, <2>1, <2>2
       DEF Outside, LockExpires, Start, Crash, Kill, Overdue, TenMinutes
<1>3. ASSUME NEW p \in Handlers, Api(p) PROVE UNCHANGED chain
  BY <1>3 DEF Api, TerminateOrder, RenewalOrder, CreateOrder, UpgradeOrder
<1>4. ASSUME NEW p \in Procs, Call(p) PROVE chain[o].st # "none"
  <2>1. CASE ReleaseOrder(p)
    <3>1. job[p].id \in Orders
      BY <2>1, JobAtOp DEF ReleaseOrder, Jobs
    <3>2. \/ chain' = [chain EXCEPT ![job[p].id].st = "Expired"] /\ chain[job[p].id].st = "Active"
          \/ chain' = chain
      BY <2>1 DEF ReleaseOrder
    <3>3. QED
      BY <3>1, <3>2 DEF TypeOK
  <2>2. QED
    BY <1>4, <2>1 DEF Call, DeleteUserSpace, CreateSpace, UpdateQuotas, UpdateOrder, Update,
                      UpdateOrderFails
<1>5. ASSUME NEW p \in Timers, Timer(p) PROVE UNCHANGED chain
  BY <1>5 DEF Timer, Query, LoadRows, GetOrders, GetOrdersFails, DeleteOrders, Step,
              PaidItem, PaidItemPanics, Kill, CreateItem, RenewalItem, UpgradeItem,
              AbandonedItem, ExpiredItem, ActiveItem, Iterate
<1>6. QED
  BY <1>2, <1>3, <1>4, <1>5 DEF Next, vars

LEMMA LifeNext ==
  ASSUME TypeOK, ListInv, LifeInv, [Next]_vars
  PROVE  LifeInv'
<1>1. ASSUME NEW p \in Procs, job'[p] # NoJob PROVE LifeJob(job'[p])
  <2>1. CASE job'[p] = job[p]
    BY <1>1, <2>1 DEF LifeInv
  <2>2. CASE Advanced(p)
    <3>1. LifeJob(job[p])
      BY <2>2 DEF Advanced, LifeInv, NoJob, Jobs, Ops
    <3>2. QED
      BY <2>2, <3>1 DEF Advanced, LifeJob, Begun, Served, Over
  <2>3. CASE Requests(p)
    BY <2>3 DEF Requests, LifeJob, TerminateJob, CasJob, Begun, Served, Over
  <2>4. CASE Decides(p)
    BY <1>1, <2>4, DecisionLives DEF Decides
  <2>5. QED
    BY <1>1, <2>1, <2>2, <2>3, <2>4, JobEffect DEF JobStep
<1>2. ASSUME NEW p \in Timers, NEW o \in Orders, timer'[p].phase = "renewal", Item(p, o)' # NoInfo
      PROVE  status'[o] \in Begun
  <2>1. CASE timer'[p] = timer[p]
    BY <1>2, <2>1, BegunStays DEF LifeInv, Item
  <2>2. CASE Kept(p)
    BY <1>2, <2>2, BegunStays DEF LifeInv, Kept, Idle
  <2>3. CASE Loaded(p)
    BY <1>2, <2>3 DEF Loaded, Selected, Begun, Served, rowVars
  <2>4. QED
    BY <2>1, <2>2, <2>3, ListEffect DEF ListStep
<1>3. ASSUME NEW o \in Orders, chain'[o].st # "none" PROVE status'[o] # "none"
  <2>1. status[o] # "none"
    BY <1>3, PlacedFirst DEF LifeInv
  <2>2. QED
    BY <2>1, RowEffect DEF RowStep, Hits, Jobs, RowStatus
<1>4. QED
  BY <1>1, <1>2, <1>3 DEF LifeInv, LifeJob

\* No job of a handler or timer, however old the list it was made from, brings
\* an order back that is over or a row that is not there.
THEOREM LifeInvariant == Spec => []LifeInv
<1>1. PaymentInv /\ LifeInv /\ [Next]_vars => LifeInv'
  BY LifeNext DEF PaymentInv
<1>2. QED
  BY <1>1, LifeInit, PaymentInvariant, PTL DEF Spec

-----------------------------------------------------------------------------
(* The orders implement OrderLifecycle *)

LEMMA LifeStart == Init => Life!Init
<1> SUFFICES ASSUME Init PROVE Life!Init
  OBVIOUS
<1>1. \A o \in Orders : LifeState(o) = "absent" /\ chain[o].hours = 0
  BY DEF Init, LifeState, Over, NoList, NoInfo
<1>2. /\ [o \in Orders |-> LifeState(o)] = [o \in Orders |-> "absent"]
      /\ [o \in Orders |-> chain[o].hours] = [o \in Orders |-> 0]
      /\ [o \in Orders |-> IF LifeState(o) = "served" THEN hours[o] ELSE 0]
           = [o \in Orders |-> 0]
  BY <1>1
<1>3. QED
  BY <1>2 DEF Life!Init

\* Steps that keep every row's status and hours and every paid duration.
LEMMA LifeStutter ==
  ASSUME UNCHANGED <<status, hours>>, \A o \in Orders : chain'[o].hours = chain[o].hours
  PROVE  UNCHANGED Life!lifeVars
<1>1. \A o \in Orders : LifeState(o)' = LifeState(o)
  BY DEF LifeState
<1>2. QED
  BY <1>1 DEF Life!lifeVars

LEMMA LifeFund ==
  ASSUME TypeOK, NEW o \in Orders, NEW h \in Hours, status[o] # "none", h > chain[o].hours,
         chain'[o].hours = h, \A q \in Orders : q # o => chain'[q].hours = chain[q].hours,
         UNCHANGED <<status, hours>>
  PROVE  Life!Next
<1>1. \A q \in Orders : LifeState(q)' = LifeState(q)
  BY DEF LifeState
<1>2. LifeState(o) # "absent"
  BY DEF LifeState, TypeOK
<1>3. h \in Life!Hours
  BY DEF Hours, Life!Hours
<1>4. Life!Fund(o, h)
  BY <1>1, <1>2 DEF Life!Fund
<1>5. QED
  BY <1>3, <1>4 DEF Life!Next


\* One row changes, and the contract does not.
LEMMA LifeOneRow ==
  ASSUME TypeOK, UNCHANGED chain, NEW o \in Orders,
         \A q \in Orders : q # o => status'[q] = status[q] /\ hours'[q] = hours[q],
         \/ LifeState(o) = "absent" /\ LifeState(o)' = "unpaid"
         \/ /\ LifeState(o) \in {"unpaid", "served"}
            /\ \/ LifeState(o)' = "over"
               \/ LifeState(o)' = "served" /\ hours'[o] \in 1 .. chain[o].hours
         \/ LifeState(o) = "over" /\ LifeState(o)' = "over"
  PROVE  [Life!Next]_Life!lifeVars
<1> DEFINE granted(q) == IF LifeState(q) = "served" THEN hours[q] ELSE 0
<1>1. \A q \in Orders : q # o => LifeState(q)' = LifeState(q) /\ granted(q)' = granted(q)
  BY DEF LifeState
<1>2. CASE LifeState(o) = "absent" /\ LifeState(o)' = "unpaid"
  <2>1. Life!Place(o)
    BY <1>1, <1>2 DEF Life!Place
  <2>2. QED
    BY <2>1 DEF Life!Next
<1>3. CASE LifeState(o) \in {"unpaid", "served"} /\ LifeState(o)' = "over"
  <2>1. Life!End(o)
    BY <1>1, <1>3 DEF Life!End
  <2>2. QED
    BY <2>1 DEF Life!Next
<1>4. CASE /\ LifeState(o) \in {"unpaid", "served"} /\ LifeState(o)' = "served"
           /\ hours'[o] \in 1 .. chain[o].hours
  <2>1. chain[o].hours \in 0 .. MaxHours
    BY DEF TypeOK
  <2>2. hours'[o] \in Life!Hours /\ hours'[o] <= chain[o].hours
    BY <1>4, <2>1, HoursAssumption DEF Life!Hours
  <2>3. ASSUME NEW h \in Life!Hours, h = hours'[o] PROVE Life!Next
    <3>1. Life!Grant(o, h)
      BY <1>1, <1>4, <2>2, <2>3 DEF Life!Grant
    <3>2. QED
      BY <3>1 DEF Life!Next
  <2>4. QED
    BY <2>2, <2>3
<1>5. CASE LifeState(o) = "over" /\ LifeState(o)' = "over"
  <2>1. UNCHANGED Life!lifeVars
    BY <1>1, <1>5 DEF Life!lifeVars
  <2>2. QED
    BY <2>1
<1>6. QED
  BY <1>2, <1>3, <1>4, <1>5

LEMMA LifeDrop ==
  ASSUME TypeOK, UNCHANGED <<chain, hours>>, NEW S \in SUBSET Orders,
         \A o \in S : status[o] = "Created",
         status' = [o \in Orders |-> IF o \in S THEN "deleted" ELSE status[o]]
  PROVE  Life!Next
<1>1. \A o \in S : LifeState(o) = "unpaid" /\ LifeState(o)' = "dropped"
  BY DEF LifeState, Over
<1>2. \A o \in Orders \ S : LifeState(o)' = LifeState(o)
  BY DEF LifeState
<1>3. Life!Drop(S)
  BY <1>1, <1>2 DEF Life!Drop
<1>4. QED
  BY <1>3 DEF Life!Next

\* The UPDATE at the end of a job.
LEMMA LifeUpdate ==
  ASSUME PaymentInv, LifeInv, CoveredByPayment', NEW p \in Procs, UpdateOrder(p)
  PROVE  [Life!Next]_Life!lifeVars
<1>0. TypeOK /\ UNCHANGED chain
  BY DEF PaymentInv, UpdateOrder, Update
<1>1. job[p] \in Jobs /\ LifeJob(job[p])
  BY <1>0, UpdateEffect DEF LifeInv
<1>2. CASE ~Hit(p)
  <2>1. UNCHANGED <<status, hours>>
    BY <1>2 DEF UpdateOrder, Update
  <2>2. QED
    BY <1>0, <2>1, LifeStutter
<1>3. CASE Hit(p)
  <2>0. PICK o \in Orders : o = job[p].id
    BY <1>1 DEF Jobs
  <2>1. status[o] = job[p].old /\ status'[o] = job[p].new
    BY <1>0, <1>1, <1>3, <2>0 DEF Hit, UpdateOrder, Update, TypeOK
  <2>2. \A q \in Orders : q # o => status'[q] = status[q] /\ hours'[q] = hours[q]
    BY <1>0, <2>0 DEF UpdateOrder, Update, TypeOK
  <2>3. LifeState(o) \in {"unpaid", "served", "over"}
    BY <1>1, <2>1 DEF LifeState, LifeJob
  <2>4. LifeState(o)' \in {"served", "over"} /\ (LifeState(o) = "over" => LifeState(o)' = "over")
    BY <1>1, <2>1 DEF LifeState, LifeJob, Begun, Served, Over
  <2>5. LifeState(o)' = "served" => hours'[o] \in 1 .. chain[o].hours
    <3>1. LifeState(o)' = "served" => status'[o] \in Served
      BY <1>1, <2>1 DEF LifeState, LifeJob, Begun, Served, Over
    <3>2. QED
      BY <1>0, <2>1, <3>1 DEF CoveredByPayment, PaidFor
  <2>6. QED
    BY <1>0, <2>1, <2>2, <2>3, <2>4, <2>5, LifeOneRow
<1>4. QED
  BY <1>2, <1>3

LEMMA LifeInsert ==
  ASSUME TypeOK, UNCHANGED chain, NEW o \in Orders, NEW st \in {"Created", "Upgrade"},
         NEW ws, NEW h, Insert(o, st, ws, h)
  PROVE  [Life!Next]_Life!lifeVars
<1>1. LifeState(o) = "absent" /\ LifeState(o)' = "unpaid"
  BY DEF Insert, LifeState, Over, TypeOK
<1>2. \A q \in Orders : q # o => status'[q] = status[q] /\ hours'[q] = hours[q]
  BY DEF Insert, TypeOK
<1>3. QED
  BY <1>1, <1>2, LifeOneRow

LEMMA LifeChain ==
  ASSUME PaymentInv, LifeInv, Outside
  PROVE  [Life!Next]_Life!lifeVars
<1>0. TypeOK /\ ChainInv
  BY DEF PaymentInv
<1>1. ASSUME NEW o \in Orders, NEW h \in Hours, ChainPay(o, h) PROVE Life!Next
  <2>1. chain[o].hours = 0 /\ 0 < h
    BY <1>0, <1>1, HoursAssumption DEF ChainPay, ChainInv, PaidFor, NoInfo, Hours
  <2>2. chain'[o].hours = h /\ \A q \in Orders : q # o => chain'[q].hours = chain[q].hours
    BY <1>0, <1>1 DEF ChainPay, TypeOK
  <2>3. status[o] # "none" /\ UNCHANGED <<status, hours>>
    BY <1>1 DEF ChainPay, rowVars
  <2>4. QED
    BY <1>0, <2>1, <2>2, <2>3, LifeFund
<1>2. ASSUME NEW o \in Orders, NEW h \in Hours, ChainRenew(o, h) PROVE Life!Next
  <2>1. status[o] # "none"
    BY <1>2 DEF ChainRenew, LifeInv
  <2>2. chain'[o].hours = h /\ \A q \in Orders : q # o => chain'[q].hours = chain[q].hours
    BY <1>0, <1>2 DEF ChainRenew, TypeOK
  <2>3. h > chain[o].hours /\ UNCHANGED <<status, hours>>
    BY <1>2 DEF ChainRenew, rowVars
  <2>4. QED
    BY <1>0, <2>1, <2>2, <2>3, LifeFund
<1>3. ASSUME NEW o \in Orders, ChainExpire(o) PROVE UNCHANGED Life!lifeVars
  <2>1. \A q \in Orders : chain'[q].hours = chain[q].hours
    BY <1>0, <1>3 DEF ChainExpire, TypeOK
  <2>2. QED
    BY <1>3, <2>1, LifeStutter DEF ChainExpire, rowVars
<1>4. QED
  BY <1>1, <1>2, <1>3, LifeStutter
     DEF Outside, LockExpires, Start, Crash, Kill, Overdue, TenMinutes, rowVars

LEMMA LifeStep ==
  ASSUME PaymentInv, LifeInv, CoveredByPayment', [Next]_vars
  PROVE  [Life!Next]_Life!lifeVars
<1>0. TypeOK
  BY DEF PaymentInv
<1>1. ASSUME NEW p \in Handlers, Api(p) PROVE [Life!Next]_Life!lifeVars
  <2>1. ASSUME NEW o \in Orders, NEW h \in Requested, CreateOrder(p, o, h)
        PROVE  [Life!Next]_Life!lifeVars
    BY <1>0, <2>1, LifeInsert DEF CreateOrder
  <2>2. ASSUME NEW o \in Orders, NEW n \in Orders, NEW h \in Requested, UpgradeOrder(p, o, n, h)
        PROVE  [Life!Next]_Life!lifeVars
    BY <1>0, <2>2, LifeInsert DEF UpgradeOrder
  <2>3. QED
    BY <1>1, <2>1, <2>2, LifeStutter DEF Api, TerminateOrder, RenewalOrder, rowVars
<1>2. ASSUME NEW p \in Procs, Call(p) PROVE [Life!Next]_Life!lifeVars
  <2>1. CASE UpdateOrder(p)
    BY <2>1, LifeUpdate
  <2>2. CASE ReleaseOrder(p)
    <3>1. job[p].id \in Orders
      BY <1>0, <2>2, JobAtOp DEF ReleaseOrder, Jobs
    <3>2. \/ chain' = [chain EXCEPT ![job[p].id].st = "Expired"]
          \/ chain' = chain
      BY <2>2 DEF ReleaseOrder
    <3>3. \A q \in Orders : chain'[q].hours = chain[q].hours
      BY <1>0, <3>1, <3>2 DEF TypeOK
    <3>4. QED
      BY <2>2, <3>3, LifeStutter DEF ReleaseOrder, rowVars
  <2>3. QED
    BY <1>2, <2>1, <2>2, LifeStutter
       DEF Call, DeleteUserSpace, CreateSpace, UpdateQuotas, UpdateOrderFails, rowVars
<1>3. ASSUME NEW p \in Timers, Timer(p) PROVE [Life!Next]_Life!lifeVars
  <2>1. CASE DeleteOrders(p)
    <3>1. PICK S \in (SUBSET {o \in Orders : status[o] = "Created"}) \ {{}} :
            status' = [o \in Orders |-> IF o \in S THEN "deleted" ELSE status[o]]
      BY <2>1 DEF DeleteOrders
    <3>2. S \in SUBSET Orders /\ \A o \in S : status[o] = "Created"
      BY <3>1
    <3>3. UNCHANGED <<chain, hours>>
      BY <2>1 DEF DeleteOrders
    <3>4. QED
      BY <1>0, <3>1, <3>2, <3>3, LifeDrop
  <2>2. ASSUME NEW q \in Orders, Step(p, q) PROVE UNCHANGED <<status, hours, chain>>
    BY <2>2 DEF Step, PaidItem, PaidItemPanics, CreateItem, RenewalItem, UpgradeItem,
                AbandonedItem, ExpiredItem, ActiveItem, Iterate, Kill, rowVars
  <2>3. QED
    BY <1>3, <2>1, <2>2, LifeStutter
       DEF Timer, Query, LoadRows, GetOrders, GetOrdersFails, rowVars
<1>4. QED
  BY <1>1, <1>2, <1>3, LifeChain, LifeStutter DEF Next, vars, rowVars

\* The handlers, the timers, the contract and the crashes of any number of
\* instances implement the life of an order that OrderLifecycle promises.
THEOREM OrdersImplementLifecycle == Spec => ImplementsLifecycle
<1>1. PaymentInv => CoveredByPayment
  BY DEF PaymentInv
<1>2. PaymentInv /\ PaymentInv' /\ LifeInv /\ [Next]_vars => [Life!Next]_Life!lifeVars
  BY <1>1, LifeStep DEF PaymentInv
<1>3. QED
  BY <1>2, LifeStart, PaymentInvariant, LifeInvariant, PTL
     DEF Spec, ImplementsLifecycle, Life!Spec

-----------------------------------------------------------------------------
(* Launched orders: what jobs and lists concern has come that far *)

\* The parts of LaunchInv.
LaunchJobs == \A p \in Procs : job[p] # NoJob => LaunchJob(job[p])
LaunchItems == \A p \in Timers, o \in Orders : Item(p, o) # NoInfo => LaunchItem(timer[p].phase, o)
LaunchSpaces == \A o \in Orders : LaunchSpace(o)

LEMMA LaunchParts == LaunchInv <=> LaunchJobs /\ LaunchItems /\ LaunchSpaces
BY DEF LaunchInv, LaunchJobs, LaunchItems, LaunchSpaces

\* A launched order stays launched, a paid one is launched at most.
LEMMA LaunchedStays ==
  ASSUME TypeOK, LaunchJobs, [Next]_vars, NEW o \in Orders, status[o] \in Launched \cup {"Paid"}
  PROVE  /\ status'[o] \in Launched \cup {"Paid"} /\ space'[o] = space[o]
         /\ status[o] \in Launched => status'[o] \in Launched
<1>1. CASE \E p \in Procs : Hits(p, o) /\ space'[o] = space[o]
  BY <1>1 DEF Hits, LaunchJobs, LaunchJob, Launched, RowStatus
<1>2. QED
  BY <1>1, RowEffect DEF RowStep, Launched, RowStatus

\* An order that is not launched shares its workspace with no launched one, so
\* no job deletes it.
LEMMA WorkspaceStays ==
  ASSUME TypeOK, LaunchJobs, LaunchSpaces, [Next]_vars, NEW o \in Orders,
         status[o] \notin Launched
  PROVE  kub'[o] = kub[o] \/ kub'[o] = "up"
<1>1. ASSUME NEW p \in Procs, job[p] \in Jobs, job[p].op = "delete" PROVE o # space[job[p].id]
  <2>1. job[p] # NoJob /\ job[p].id \in Orders
    BY <1>1 DEF NoJob, Jobs
  <2>2. status[job[p].id] \in Launched
    BY <1>1, <2>1 DEF LaunchJobs, LaunchJob
  <2>3. QED
    BY <2>1, <2>2 DEF LaunchSpaces, LaunchSpace
<1>2. QED
  BY <1>1, SpaceEffect DEF SpaceStep

\* A job that was there before the step.
LEMMA OldJobLaunched ==
  ASSUME TypeOK, TypeOK', LaunchJobs, LaunchSpaces, [Next]_vars,
         NEW p \in Procs, job[p] # NoJob, job'[p] # NoJob, job'[p] = job[p] \/ Advanced(p)
  PROVE  LaunchJob(job[p])'
<1>0. /\ job[p] \in Jobs /\ job'[p] \in Jobs
      /\ job'[p].id = job[p].id /\ job'[p].old = job[p].old
  BY DEF TypeOK, Advanced
<1>1. PICK o \in Orders : o = job[p].id
  BY <1>0 DEF Jobs
<1>2. LaunchJob(job[p])
  BY DEF LaunchJobs
<1>3. /\ job'[p].new \in Launched \/ (job'[p].old = "Created" /\ job'[p].new = "Paid")
      /\ job'[p].op \in {job[p].op, "release", "cas"}
      /\ job'[p].old = "Paid" => job'[p].op \in {"create", "cas"}
  BY <1>0, <1>2 DEF Advanced, LaunchJob, Launched, RowStatus
<1>4. /\ job[p].old \in Launched => status'[o] \in Launched
      /\ job[p].old = "Paid" => status'[o] \in Launched \cup {"Paid"}
  BY <1>1, <1>2, LaunchedStays DEF LaunchJob
<1>5. ASSUME job[p].old = "Paid", job'[p].new = "Done", job'[p].op = "cas", status'[o] = "Paid"
      PROVE  kub'[space'[o]] = "up"
  <2>1. status[o] = "Paid" /\ space'[o] = space[o]
    BY <1>1, <1>2, <1>5, LaunchedStays DEF LaunchJob, Launched
  <2>2. space[o] = o /\ status[o] \notin Launched
    BY <2>1 DEF LaunchSpaces, LaunchSpace, Launched
  <2>3. kub[o] = "up" \/ kub'[o] = "up"
    <3>1. CASE job'[p] = job[p]
      BY <1>1, <1>2, <1>5, <2>1, <2>2, <3>1 DEF LaunchJob
    <3>2. CASE Advanced(p)
      BY <1>1, <1>2, <1>5, <2>2, <3>2 DEF LaunchJob, Advanced
    <3>3. QED
      BY <3>1, <3>2
  <2>4. kub'[o] = kub[o] \/ kub'[o] = "up"
    BY <2>2, WorkspaceStays
  <2>5. QED
    BY <2>1, <2>2, <2>3, <2>4
<1>6. job'[p].op = "create" => job'[p].old = "Paid"
  BY <1>0, <1>2, <1>3 DEF LaunchJob
<1>7. job'[p].op = "delete" => job'[p].old \in Launched
  BY <1>0, <1>2, <1>3 DEF LaunchJob
<1>8. QED
  BY <1>0, <1>1, <1>3, <1>4, <1>5, <1>6, <1>7 DEF LaunchJob

\* A job made in this step.
LEMMA RequestLaunched ==
  ASSUME TypeOK, LaunchJobs, [Next]_vars, NEW p \in Procs, Requests(p)
  PROVE  LaunchJob(job[p])'
<1>1. PICK o \in Orders :
        /\ status[o] = "Done"
        /\ job'[p] \in {TerminateJob(o, "Termination", "Done"), CasJob(o, "Renewal", "Done", 0),
                        CasJob(o, "Abandoned", "Done", 0)}
  BY DEF Requests
<1>2. status'[o] \in Launched
  BY <1>1, LaunchedStays DEF Launched, RowStatus
<1>3. /\ job'[p].id = o /\ job'[p].old = "Done" /\ job'[p].op # "create"
      /\ job'[p].new \in {"Termination", "Renewal", "Abandoned"}
  BY <1>1 DEF TerminateJob, CasJob
<1>4. QED
  BY <1>2, <1>3 DEF LaunchJob, Launched, RowStatus

LEMMA DecisionLaunched ==
  ASSUME TypeOK, ListInv, LaunchItems, NEW p \in Timers, Decides(p)
  PROVE  LaunchJob(job[p])'
<1>1. PICK o \in Orders, phase \in Phases :
        Iterate(p, phase, o, job'[p]) /\ Decision(p, phase, o, job'[p])
  BY DEF Decides
<1>2. /\ timer[p].phase = phase /\ timer[p].step = "each" /\ Item(p, o) # NoInfo
      /\ status'[o] = status[o]
  BY <1>1 DEF Iterate, At, Item, rowVars
<1>3. LaunchItem(phase, o) /\ (phase = "expired" => Item(p, o).st \in Sweepable)
  BY <1>2 DEF LaunchItems, ListInv
<1>4. CASE phase = "paid"
  BY <1>1, <1>4 DEF Decision, CasJob, LaunchJob, Launched
<1>5. CASE phase = "create"
  <2>1. /\ job'[p].id = o /\ job'[p].old = "Paid" /\ job'[p].new = "Done"
        /\ job'[p].op = "create" /\ status'[o] \in Launched \cup {"Paid"}
    BY <1>1, <1>2, <1>3, <1>5 DEF Decision, CasJob, LaunchItem
  <2>2. QED
    BY <2>1 DEF LaunchJob, Launched, RowStatus
<1>6. CASE phase \notin {"paid", "create"}
  <2>1. status'[o] \in Launched
    BY <1>1, <1>2, <1>3, <1>6 DEF Decision, LaunchItem
  <2>2. /\ job'[p].id = o /\ job'[p].old \in Launched /\ job'[p].new \in {"Done", "Expired"}
        /\ job'[p].op # "create"
    BY <1>1, <1>2, <1>3, <1>6, <2>1
       DEF Decision, TerminateJob, CasJob, Sweepable, Launched, RowStatus
  <2>3. QED
    BY <2>1, <2>2 DEF LaunchJob, Launched, RowStatus
<1>7. QED
  BY <1>4, <1>5, <1>6

LEMMA LaunchNext ==
  ASSUME TypeOK, TypeOK', ListInv, LaunchInv, [Next]_vars
  PROVE  LaunchInv'
<1>0. LaunchJobs /\ LaunchItems /\ LaunchSpaces
  BY LaunchParts
<1>1. ASSUME NEW p \in Procs, job'[p] # NoJob PROVE LaunchJob(job[p])'
  <2>1. CASE job'[p] = job[p] \/ Advanced(p)
    <3>1. job[p] # NoJob
      BY <1>1, <2>1 DEF Advanced, NoJob, Jobs, Ops
    <3>2. QED
      BY <1>0, <1>1, <2>1, <3>1, OldJobLaunched
  <2>2. CASE Requests(p)
    BY <1>0, <2>2, RequestLaunched
  <2>3. CASE Decides(p)
    BY <1>0, <2>3, DecisionLaunched DEF Decides
  <2>4. QED
    BY <1>1, <2>1, <2>2, <2>3, JobEffect DEF JobStep
<1>2. ASSUME NEW p \in Timers, NEW o \in Orders, Item(p, o)' # NoInfo
      PROVE  LaunchItem(timer[p].phase, o)'
  <2>1. CASE Loaded(p)
    BY <1>2, <2>1 DEF Loaded, Selected, LaunchItem, Sweepable, Launched, RowStatus, rowVars
  <2>2. CASE timer'[p] = timer[p] \/ Kept(p)
    <3>1. Item(p, o) # NoInfo /\ timer'[p].phase = timer[p].phase
      BY <1>2, <2>2 DEF Kept, Item, Idle, NoList
    <3>2. LaunchItem(timer[p].phase, o)
      BY <1>0, <3>1 DEF LaunchItems
    <3>3. QED
      BY <1>0, <3>1, <3>2, LaunchedStays DEF LaunchItem
  <2>3. QED
    BY <2>1, <2>2, ListEffect DEF ListStep
<1>3. ASSUME NEW o \in Orders PROVE LaunchSpace(o)'
  <2>1. LaunchSpace(o)
    BY <1>0 DEF LaunchSpaces
  <2>2. \A q \in Orders : status[q] \in Launched => status'[q] \in Launched
    BY <1>0, LaunchedStays
  <2>3. CASE status[o] \in Launched
    <3>1. status'[o] \in Launched /\ space'[o] = space[o] /\ space[o] \in Orders
      BY <1>0, <2>3, LaunchedStays DEF TypeOK
    <3>2. QED
      BY <2>1, <2>2, <2>3, <3>1 DEF LaunchSpace
  <2>4. CASE status[o] \notin Launched
    <3>1. space[o] = o /\ kub[o] # "gone" /\ kub'[o] # "gone"
      BY <1>0, <2>1, <2>4, WorkspaceStays DEF LaunchSpace
    <3>2. CASE space'[o] = o
      BY <3>1, <3>2 DEF LaunchSpace
    <3>3. CASE space'[o] # o
      <4>1. PICK q \in Orders : status[q] = "Done" /\ space'[o] = space[q] /\ status'[o] = "Upgrade"
        BY <3>1, <3>3, RowEffect DEF RowStep
      <4>2. status'[o] \in Launched /\ status[q] \in Launched
        BY <4>1 DEF Launched, RowStatus
      <4>3. space[q] = q \/ status[space[q]] \in Launched
        BY <1>0, <4>2 DEF LaunchSpaces, LaunchSpace
      <4>4. status'[space[q]] \in Launched
        BY <2>2, <4>2, <4>3 DEF TypeOK
      <4>5. QED
        BY <4>1, <4>2, <4>4 DEF LaunchSpace
    <3>4. QED
      BY <3>2, <3>3
  <2>5. QED
    BY <2>3, <2>4
<1>4. LaunchJobs' /\ LaunchItems' /\ LaunchSpaces'
  BY <1>1, <1>2, <1>3 DEF LaunchJobs, LaunchItems, LaunchSpaces, LaunchJob
<1>5. QED
  BY <1>4 DEF LaunchInv, LaunchJobs, LaunchItems, LaunchSpaces

LEMMA LaunchInit == Init => LaunchInv
<1> SUFFICES ASSUME Init PROVE LaunchInv
  OBVIOUS
<1>1. /\ \A p \in Procs : job[p] = NoJob
      /\ \A p \in Timers : timer[p] = Idle
  BY DEF Init
<1>2. \A o \in Orders : status[o] = "none" /\ space[o] = o /\ kub[o] = "none"
  BY DEF Init
<1>3. LaunchJobs /\ LaunchItems
  BY <1>1 DEF LaunchJobs, LaunchItems, Idle, Item, NoList
<1>4. LaunchSpaces
  BY <1>2 DEF LaunchSpaces, LaunchSpace, Launched, RowStatus
<1>5. QED
  BY <1>3, <1>4, LaunchParts

\* Jobs and lists, however old, concern orders that have come as far as they
\* say, and a workspace is deleted only after its order was launched.
THEOREM LaunchInvariant == Spec => []LaunchInv
<1>1. PaymentInv /\ PaymentInv' /\ LaunchInv /\ [Next]_vars => LaunchInv'
  BY LaunchNext DEF PaymentInv
<1>2. QED
  BY <1>1, LaunchInit, PaymentInvariant, PTL DEF Spec

\* With any number of executors, a paid order is marked running only while the
\* workspace that createSpaceFromOrders made for it is there.
THEOREM RunningOrdersHaveSpaces == Spec => RunningHasSpace
<1>1. ASSUME PaymentInv, LaunchInv, [Next]_vars, NEW o \in Orders, status[o] = "Paid",
             status'[o] = "Done"
      PROVE  kub[space[o]] = "up"
  <2>1. TypeOK /\ LaunchJobs
    BY <1>1, LaunchParts DEF PaymentInv
  <2>2. PICK p \in Procs : Hits(p, o)
    BY <1>1, <2>1, RowEffect DEF RowStep
  <2>3. QED
    BY <1>1, <2>1, <2>2 DEF Hits, LaunchJobs, LaunchJob
<1>2. PaymentInv /\ LaunchInv /\ [Next]_vars
        => [\A o \in Orders : status[o] = "Paid" /\ status'[o] = "Done" => kub[space[o]] = "up"]_vars
  BY <1>1
<1>3. QED
  BY <1>2, PaymentInvariant, LaunchInvariant, PTL DEF Spec, RunningHasSpace

-----------------------------------------------------------------------------
(* One executor: the timers do not work from stale lists *)

\* The parts of ExecutorInv.
KindsOK == \A p \in Procs : job[p] # NoJob => KindOK(p, job[p])
JobsNow == \A p \in Procs : job[p] # NoJob => JobNow(job[p])

Busy(p) == timer[p] # Idle \/ job[p] # NoJob

TimersOK ==
  \A p \in Timers :
    /\ timer[p].phase \in PhasesOf(p[2]) \cup {"idle"}
    /\ Busy(p) => up[p[1]] = "exec"
    /\ job[p] # NoJob => Item(p, job[p].id) = NoInfo

ItemsNow == \A p \in Timers, o \in Orders : Item(p, o) # NoInfo => ItemNow(timer[p].phase, o)

LEMMA ExecutorParts ==
  ExecutorInv <=> KindsOK /\ JobsNow /\ TimersOK /\ ItemsNow
BY DEF ExecutorInv, KindsOK, JobsNow, TimersOK, ItemsNow, Busy

LEMMA TimersAreNoHandlers == Timers \cap Handlers = {} /\ Procs = Timers \cup Handlers
BY HandlersAssumption DEF Timers, Procs

LEMMA WritesOf ==
  ASSUME NEW p \in Procs
  PROVE  /\ p \in Handlers =>
              Writes(p) = {"Done"} \X {"Termination", "Renewal", "Abandoned"} /\ p[2] # "timer1"
         /\ p \in Timers /\ p[2] = "timer1" => Writes(p) = Timer1Writes
         /\ p \in Timers /\ p[2] = "timer2" => Writes(p) = Sweepable \X {"Expired"}
<1>1. p \in Handlers => p[2] # "timer1"
  BY HandlersAssumption
<1>2. QED
  BY <1>1, TimersAreNoHandlers DEF Writes

LEMMA OneBusyTimer ==
  ASSUME OneExecutor, TimersOK, NEW p \in Timers, NEW q \in Timers,
         Busy(p), Busy(q), p[2] = q[2]
  PROVE  p = q
<1>1. p[1] = q[1]
  BY DEF OneExecutor, TimersOK, Timers
<1>2. QED
  BY <1>1 DEF Timers

\* Who can have a job that finds this status.
LEMMA JobOwner ==
  ASSUME TypeOK, KindsOK, NEW p \in Procs, job[p] # NoJob
  PROVE  /\ job[p].old = "Paid" \/ job[p].hours > 0 => p \in Timers /\ p[2] = "timer1"
         /\ job[p].old = "Paid" => job[p].new \in {"Done", "Failed"}
         /\ job[p].hours > 0 => job[p].old \in {"Created", "Renewal", "Upgrade"}
         /\ job[p].old = "Renewal" =>
              p \in Timers /\ (job[p].new = "Expired" \/ p[2] = "timer1")
         /\ job[p].old = "Expired" => job[p].new = "Expired"
         /\ job[p].old # "Termination"
<1>1. <<job[p].old, job[p].new>> \in Writes(p) /\ KindOK(p, job[p])
  BY DEF KindsOK, KindOK
<1>2. CASE p \in Handlers
  <2>1. /\ job[p].old = "Done"
        /\ job[p].new \in {"Termination", "Renewal", "Abandoned"}
    BY <1>1, <1>2, WritesOf
  <2>2. p[2] # "timer1"
    BY <1>2, WritesOf
  <2>3. QED
    BY <1>1, <2>1, <2>2 DEF KindOK
<1>3. CASE p \in Timers /\ p[2] = "timer1"
  <2>1. <<job[p].old, job[p].new>> \in Timer1Writes
    BY <1>1, <1>3, WritesOf
  <2>2. QED
    BY <1>1, <1>3, <2>1 DEF KindOK, Timer1Writes
<1>4. CASE p \in Timers /\ p[2] = "timer2"
  <2>1. job[p].old \in Sweepable /\ job[p].new = "Expired"
    BY <1>1, <1>4, WritesOf
  <2>2. QED
    BY <1>1, <1>4, <2>1 DEF KindOK, Sweepable
<1>5. QED
  BY <1>2, <1>3, <1>4, TimersAreNoHandlers DEF Timers

-----------------------------------------------------------------------------
(* Its parts, one by one *)

LEMMA KindsNext ==
  ASSUME TypeOK, ListInv, LaunchJobs, KindsOK, TimersOK, ItemsNow, [Next]_vars
  PROVE  KindsOK'
<1> SUFFICES ASSUME NEW p \in Procs, job'[p] # NoJob PROVE KindOK(p, job'[p])
  BY DEF KindsOK, KindOK, Writes
<1>1. CASE job'[p] = job[p]
  BY <1>1 DEF KindsOK
<1>2. CASE Advanced(p)
  <2>1. job[p] # NoJob
    BY <1>2 DEF Advanced, NoJob, Jobs, Ops
  <2>2. KindOK(p, job[p])
    BY <2>1 DEF KindsOK
  <2>3. CASE job'[p].new = job[p].new
    BY <1>2, <2>1, <2>2, <2>3 DEF KindOK, Advanced
  <2>4. CASE job[p].op = "create" /\ job'[p].new = "Failed"
    <3>0. job[p].old = "Paid"
      BY <2>1, <2>4 DEF LaunchJobs, LaunchJob
    <3>1. p \in Timers /\ p[2] = "timer1"
      BY <2>1, <3>0, JobOwner
    <3>2. Writes(p) = Timer1Writes
      BY <3>1, WritesOf
    <3>3. <<"Paid", "Failed">> \in Writes(p)
      BY <3>2 DEF Timer1Writes
    <3>4. QED
      BY <1>2, <2>2, <2>4, <3>0, <3>3 DEF KindOK, Advanced
  <2>5. QED
    BY <1>2, <2>3, <2>4 DEF Advanced
<1>3. CASE Requests(p)
  <2>1. /\ p \in Handlers
        /\ job'[p].old = "Done" /\ job'[p].new \in {"Termination", "Renewal", "Abandoned"}
        /\ job'[p].hours = 0
    BY <1>3 DEF Requests, TerminateJob, CasJob
  <2>2. QED
    BY <2>1, WritesOf DEF KindOK
<1>4. CASE Decides(p)
  <2>1. PICK o \in Orders, phase \in Phases :
          Iterate(p, phase, o, job'[p]) /\ Decision(p, phase, o, job'[p])
    BY <1>4 DEF Decides
  <2>2. /\ timer[p].phase = phase /\ timer[p].step = "each" /\ Item(p, o) # NoInfo
        /\ p \in Timers
    BY <1>4, <2>1 DEF Decides, Iterate, At, Item
  <2>3. phase \in PhasesOf(p[2])
    BY <2>2 DEF TimersOK, Phases, PhasesOf
  <2>4. phase = "renewal" => status[o] \in {"Renewal", "Expired"}
    BY <2>2 DEF ItemsNow, ItemNow
  <2>5. phase = "expired" => Item(p, o).st \in Sweepable
    BY <2>2 DEF ListInv
  <2>6. CASE p[2] = "timer1"
    <3>1. Writes(p) = Timer1Writes
      BY <2>2, <2>6, WritesOf
    <3>2. phase \in {"paid", "create", "renewal", "upgrade", "abandoned"}
      BY <2>3, <2>6 DEF PhasesOf
    <3>3. <<job'[p].old, job'[p].new>> \in Timer1Writes
      BY <2>1, <2>4, <3>2 DEF Decision, Timer1Writes, TerminateJob, CasJob
    <3>4. job'[p].hours > 0 => job'[p].old \in {"Created", "Renewal", "Upgrade"}
      BY <2>1, <2>4, <3>2 DEF Decision, TerminateJob, CasJob
    <3>5. QED
      BY <2>6, <3>1, <3>3, <3>4 DEF KindOK
  <2>7. CASE p[2] = "timer2"
    <3>1. Writes(p) = Sweepable \X {"Expired"}
      BY <2>2, <2>7, WritesOf
    <3>2. phase \in {"expired", "active"}
      BY <2>1, <2>3, <2>7 DEF PhasesOf, Decision
    <3>3. /\ job'[p].old \in Sweepable /\ job'[p].new = "Expired"
          /\ job'[p].hours = 0
      BY <2>1, <2>5, <3>2 DEF Decision, TerminateJob, CasJob, Sweepable
    <3>4. QED
      BY <3>1, <3>3 DEF KindOK, Sweepable
  <2>8. QED
    BY <2>2, <2>6, <2>7 DEF Timers
<1>5. QED
  BY <1>1, <1>2, <1>3, <1>4, JobEffect DEF JobStep

LEMMA TimersNext ==
  ASSUME TypeOK, TypeOK', TimersOK, [Next]_vars
  PROVE  TimersOK'
<1> SUFFICES ASSUME NEW p \in Timers
             PROVE  /\ timer'[p].phase \in PhasesOf(p[2]) \cup {"idle"}
                    /\ Busy(p)' => up'[p[1]] = "exec"
                    /\ job'[p] # NoJob => timer'[p].list[job'[p].id] = NoInfo
  BY DEF TimersOK, Item
<1>0. p \in Procs /\ p \notin Handlers /\ p[1] \in Instances
  BY TimersAreNoHandlers DEF Timers
<1>1. timer'[p].phase \in PhasesOf(p[2]) \cup {"idle"}
  BY ListEffect DEF ListStep, Kept, Loaded, TimersOK, Idle
<1>2. Busy(p)' => up'[p[1]] = "exec"
  <2>1. ASSUME Busy(p)', ~Busy(p) PROVE TimerFree(p)
    <3>1. CASE timer'[p] # Idle
      BY <2>1, <3>1, ListEffect DEF ListStep, Kept, Loaded, Busy
    <3>2. CASE job'[p] # NoJob
      <4>1. Decides(p)
        BY <1>0, <2>1, <3>2, JobEffect DEF JobStep, Busy, Advanced, Requests, NoJob, Jobs, Ops
      <4>2. QED
        BY <4>1 DEF Decides, Iterate, At
    <3>3. QED
      BY <2>1, <3>1, <3>2 DEF Busy
  <2>2. Busy(p)' => up[p[1]] = "exec"
    BY <2>1 DEF TimersOK, TimerFree
  <2>3. QED
    BY <2>2, UpEffect DEF UpStep, Busy
<1>3. ASSUME job'[p] # NoJob PROVE timer'[p].list[job'[p].id] = NoInfo
  <2>1. CASE Decides(p)
    <3>1. PICK o \in Orders, phase \in Phases :
            Iterate(p, phase, o, job'[p]) /\ Decision(p, phase, o, job'[p])
      BY <2>1 DEF Decides
    <3>2. job'[p].id = o
      BY <3>1 DEF Decision, TerminateJob, CasJob
    <3>3. [timer[p].list EXCEPT ![o] = NoInfo] \in [Orders -> Info]
      BY HoursAssumption DEF TypeOK, NoInfo, Info
    <3>4. Item(p, o)' \in {NoInfo, [timer[p].list EXCEPT ![o] = NoInfo][o]}
      BY <3>1, <3>3, ContinueEffect DEF Iterate
    <3>5. Item(p, o)' = NoInfo
      BY <3>4 DEF TypeOK
    <3>6. QED
      BY <3>2, <3>5 DEF Item
  <2>2. CASE job[p] # NoJob /\ job'[p].id = job[p].id
    <3>1. job[p].id \in Orders /\ Item(p, job[p].id) = NoInfo
      BY <1>0, <2>2 DEF TypeOK, Jobs, TimersOK
    <3>2. timer'[p] = timer[p] \/ Kept(p)
      BY <2>2, ListEffect DEF ListStep, Loaded, TimerFree
    <3>3. ASSUME NEW o \in Orders, Item(p, o) = NoInfo PROVE timer'[p].list[o] = NoInfo
      BY <3>2, <3>3 DEF Kept, Idle, NoList, Item
    <3>4. QED
      BY <2>2, <3>1, <3>3
  <2>3. QED
    BY <1>0, <1>3, <2>1, <2>2, JobEffect DEF JobStep, Advanced, Requests, NoJob, Jobs, Ops
<1>4. QED
  BY <1>1, <1>2, <1>3

\* The next two facts are where one executor is needed: what timer1 has read of
\* an order it works on, no other process changes.
LEMMA PaidStays ==
  ASSUME TypeOK, OneExecutor, KindsOK, TimersOK, [Next]_vars,
         NEW p \in Timers, p[2] = "timer1", Busy(p),
         NEW o \in Orders, status[o] = "Paid", job[p] = NoJob \/ job[p].id # o \/ job'[p] # NoJob
  PROVE  status'[o] = "Paid" /\ space'[o] = space[o]
<1>1. ASSUME NEW q \in Procs, Hits(q, o) PROVE FALSE
  <2>1. job[q] # NoJob /\ job[q].old = "Paid" /\ job[q].id = o /\ job'[q] = NoJob
    BY <1>1 DEF Hits
  <2>2. q \in Timers /\ q[2] = "timer1" /\ Busy(q)
    BY <2>1, JobOwner DEF Busy
  <2>3. QED
    BY <2>1, <2>2, OneBusyTimer
<1>2. QED
  BY <1>1, RowEffect DEF RowStep

LEMMA HoursStay ==
  ASSUME TypeOK, OneExecutor, KindsOK, TimersOK, [Next]_vars,
         NEW p \in Timers, p[2] = "timer1", Busy(p), job'[p] # NoJob,
         NEW o \in Orders, status[o] \in Launched
  PROVE  hours'[o] = hours[o]
<1>1. ASSUME NEW q \in Procs, Hits(q, o), job[q].hours > 0 PROVE FALSE
  <2>1. job[q] # NoJob /\ job'[q] = NoJob
    BY <1>1 DEF Hits
  <2>2. q \in Timers /\ q[2] = "timer1" /\ Busy(q)
    BY <1>1, <2>1, JobOwner DEF Busy
  <2>3. QED
    BY <2>1, <2>2, OneBusyTimer
<1>2. QED
  BY <1>1, RowEffect DEF RowStep, Launched, RowStatus

LEMMA JobsNext ==
  ASSUME TypeOK, TypeOK', ListInv, OneExecutor, LaunchJobs, LaunchItems, KindsOK, JobsNow,
         TimersOK, ItemsNow, [Next]_vars
  PROVE  JobsNow'
<1> SUFFICES ASSUME NEW p \in Procs, job'[p] # NoJob PROVE JobNow(job[p])'
  BY DEF JobsNow, JobNow
<1>1. CASE job'[p] = job[p] \/ Advanced(p)
  <2>0. /\ job[p] # NoJob
        /\ job'[p].id = job[p].id /\ job'[p].old = job[p].old /\ job'[p].hours = job[p].hours
    BY <1>1 DEF Advanced, NoJob, Jobs, Ops
  <2>1. PICK o \in Orders : o = job[p].id
    BY <2>0 DEF TypeOK, Jobs
  <2>2. JobNow(job[p]) /\ LaunchJob(job[p])
    BY <2>0 DEF JobsNow, LaunchJobs
  <2>3. job[p].old = "Paid" => status'[o] = "Paid"
    BY <1>1, <2>0, <2>1, <2>2, PaidStays, JobOwner DEF Busy, JobNow
  <2>4. ASSUME job[p].old = "Renewal", job[p].hours > 0 PROVE job[p].hours > hours'[o]
    <3>1. status[o] \in Launched /\ job[p].hours > hours[o]
      BY <2>1, <2>2, <2>4 DEF JobNow, LaunchJob, Launched, RowStatus
    <3>2. p \in Timers /\ p[2] = "timer1" /\ Busy(p)
      BY <2>0, <2>4, JobOwner DEF Busy
    <3>3. QED
      BY <3>1, <3>2, HoursStay
  <2>5. QED
    BY <2>0, <2>1, <2>3, <2>4 DEF JobNow
<1>2. CASE Requests(p)
  <2>1. job'[p].old = "Done"
    BY <1>2 DEF Requests, TerminateJob, CasJob
  <2>2. QED
    BY <2>1 DEF JobNow
<1>3. CASE Decides(p)
  <2>1. PICK o \in Orders, phase \in Phases :
          Iterate(p, phase, o, job'[p]) /\ Decision(p, phase, o, job'[p])
    BY <1>3 DEF Decides
  <2>2. /\ timer[p].phase = phase /\ timer[p].step = "each" /\ Item(p, o) # NoInfo
        /\ status'[o] = status[o] /\ hours'[o] = hours[o] /\ p \in Timers
    BY <1>3, <2>1 DEF Decides, Iterate, At, Item, rowVars
  <2>3. /\ ItemNow(phase, o) /\ LaunchItem(phase, o)
        /\ phase = "expired" => Item(p, o).st \in Sweepable
    BY <2>2 DEF ItemsNow, LaunchItems, ListInv
  <2>4. job'[p].id = o
    BY <2>1 DEF Decision, TerminateJob, CasJob
  <2>5. job'[p].old = "Paid" => status[o] = "Paid"
    BY <2>1, <2>3 DEF Decision, TerminateJob, CasJob, ItemNow, Sweepable
  <2>6. job'[p].old = "Renewal" /\ job'[p].hours > 0 => job'[p].hours > hours[o]
    BY <2>1, <2>3 DEF Decision, TerminateJob, CasJob, ItemNow, Sweepable
  <2>7. QED
    BY <2>2, <2>4, <2>5, <2>6 DEF JobNow
<1>4. QED
  BY <1>1, <1>2, <1>3, JobEffect DEF JobStep

LEMMA ItemsNext ==
  ASSUME TypeOK, OneExecutor, KindsOK, TimersOK, ItemsNow, [Next]_vars
  PROVE  ItemsNow'
<1> SUFFICES ASSUME NEW p \in Timers, NEW o \in Orders, Item(p, o)' # NoInfo
             PROVE  ItemNow(timer[p].phase, o)'
  BY DEF ItemsNow
<1>1. CASE Loaded(p)
  BY <1>1 DEF Loaded, Selected, ItemNow, rowVars
<1>2. CASE timer'[p] = timer[p] \/ Kept(p)
  <2>1. /\ Item(p, o) # NoInfo /\ timer'[p].phase = timer[p].phase
        /\ timer[p] # Idle
    BY <1>2 DEF Kept, Item, Idle, NoList
  <2>2. ItemNow(timer[p].phase, o) /\ Busy(p)
    BY <2>1 DEF ItemsNow, Busy
  <2>3. job[p] = NoJob \/ job[p].id # o
    BY <2>1 DEF TimersOK
  <2>4. ASSUME timer[p].phase \in {"create", "renewal"} PROVE p[2] = "timer1"
    BY <2>4 DEF TimersOK, PhasesOf
  <2>5. timer[p].phase = "create" => status'[o] = "Paid"
    BY <2>2, <2>3, <2>4, PaidStays DEF ItemNow
  <2>6. ASSUME timer[p].phase = "renewal" PROVE status'[o] \in {"Renewal", "Expired"}
    <3>1. status[o] \in {"Renewal", "Expired"}
      BY <2>2, <2>6 DEF ItemNow
    <3>2. ASSUME NEW q \in Procs, Hits(q, o) PROVE job[q].new = "Expired"
      <4>1. job[q] # NoJob /\ job[q].old = status[o] /\ job[q].id = o
        BY <3>2 DEF Hits
      <4>2. CASE job[q].old = "Expired"
        BY <4>1, <4>2, JobOwner
      <4>3. CASE job[q].old = "Renewal" /\ q \in Timers /\ q[2] = "timer1"
        BY <2>2, <2>3, <2>4, <2>6, <4>1, <4>3, OneBusyTimer DEF Busy
      <4>4. QED
        BY <3>1, <4>1, <4>2, <4>3, JobOwner
    <3>3. QED
      BY <3>1, <3>2, RowEffect DEF RowStep, Hits
  <2>7. QED
    BY <2>1, <2>5, <2>6 DEF ItemNow
<1>3. QED
  BY <1>1, <1>2, ListEffect DEF ListStep

LEMMA ExecutorInit == Init => ExecutorInv
<1> SUFFICES ASSUME Init PROVE ExecutorInv
  OBVIOUS
<1>1. /\ \A p \in Procs : job[p] = NoJob
      /\ \A p \in Timers : timer[p] = Idle /\ job[p] = NoJob
  BY DEF Init, Procs
<1>2. KindsOK /\ JobsNow /\ TimersOK /\ ItemsNow
  BY <1>1 DEF KindsOK, JobsNow, TimersOK, ItemsNow, Busy, Idle, Item, NoList
<1>3. QED
  BY <1>2, ExecutorParts

LEMMA ExecutorNext ==
  ASSUME PaymentInv, TypeOK', LaunchInv, OneExecutor, ExecutorInv, [Next]_vars
  PROVE  ExecutorInv'
<1>1. TypeOK /\ ListInv /\ LaunchJobs /\ LaunchItems
  BY LaunchParts DEF PaymentInv
<1>2. KindsOK /\ JobsNow /\ TimersOK /\ ItemsNow
  BY ExecutorParts
<1>3. KindsOK' /\ TimersOK' /\ JobsNow' /\ ItemsNow'
  BY <1>1, <1>2, KindsNext, TimersNext, JobsNext, ItemsNext
<1>4. QED
  BY <1>3 DEF ExecutorInv, KindsOK, JobsNow, TimersOK, ItemsNow, Busy

\* As long as at most one instance runs the timers, what the timers have loaded
\* and decided stays true of the rows until they act on it.
THEOREM ExecutorInvariant == Spec /\ []OneExecutor => []ExecutorInv
<1>1. PaymentInv /\ PaymentInv' /\ LaunchInv /\ OneExecutor /\ ExecutorInv /\ [Next]_vars
        => ExecutorInv'
  BY ExecutorNext DEF PaymentInv
<1>2. QED
  BY <1>1, ExecutorInit, PaymentInvariant, LaunchInvariant, PTL DEF Spec

\* As long as at most one instance runs the timers, an order that has expired
\* or was terminated keeps that status for good.
THEOREM OverStaysOver == Spec /\ []OneExecutor => EndedForGood
<1>1. ASSUME PaymentInv, ExecutorInv, [Next]_vars, NEW o \in Orders, status[o] \in Over
      PROVE  status'[o] = status[o]
  <2>1. TypeOK /\ KindsOK
    BY <1>1, ExecutorParts DEF PaymentInv
  <2>2. ASSUME NEW p \in Procs, Hits(p, o) PROVE status'[o] = status[o]
    BY <1>1, <2>1, <2>2, JobOwner DEF Hits, Over
  <2>3. QED
    BY <1>1, <2>1, <2>2, RowEffect DEF RowStep, Over
<1>2. PaymentInv /\ ExecutorInv /\ [Next]_vars
        => [\A o \in Orders : status[o] \in Over => status'[o] = status[o]]_vars
  BY <1>1
<1>3. QED
  BY <1>2, PaymentInvariant, ExecutorInvariant, PTL DEF Spec, EndedForGood

\* As long as at most one instance runs the timers, a workspace that Terminate
\* has deleted is not created again.
THEOREM DeletedStaysDeleted == Spec /\ []OneExecutor => NoRebirth
<1>1. ASSUME PaymentInv, LaunchInv, ExecutorInv, [Next]_vars, NEW o \in Orders, kub[o] = "gone"
      PROVE  kub'[o] = "gone"
  <2>1. TypeOK /\ LaunchJobs /\ LaunchSpaces /\ JobsNow
    BY <1>1, ExecutorParts, LaunchParts DEF PaymentInv
  <2>2. ASSUME NEW p \in Procs, job[p] \in Jobs, job[p].op = "create" PROVE o # space[job[p].id]
    <3>1. job[p] # NoJob /\ job[p].id \in Orders
      BY <2>2 DEF NoJob, Jobs
    <3>2. status[job[p].id] = "Paid"
      BY <2>1, <2>2, <3>1 DEF LaunchJobs, LaunchJob, JobsNow, JobNow
    <3>3. space[job[p].id] = job[p].id /\ kub[job[p].id] # "gone"
      BY <2>1, <3>1, <3>2 DEF LaunchSpaces, LaunchSpace, Launched
    <3>4. QED
      BY <1>1, <3>3
  <2>3. QED
    BY <1>1, <2>1, <2>2, SpaceEffect DEF SpaceStep
<1>2. PaymentInv /\ LaunchInv /\ ExecutorInv /\ [Next]_vars
        => [\A o \in Orders : kub[o] = "gone" => kub'[o] = "gone"]_vars
  BY <1>1
<1>3. QED
  BY <1>2, PaymentInvariant, LaunchInvariant, ExecutorInvariant, PTL DEF Spec, NoRebirth
=============================================================================
