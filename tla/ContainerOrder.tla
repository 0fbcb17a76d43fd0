--------------------------- MODULE ContainerOrder ---------------------------
(* Container platform orders: the rows of container_platform_orders, the API  *)
(* handlers and the two timer goroutines that move them (core/order,         *)
(* api/platform.go), the order contract on the chain and the KubeSphere      *)
(* workspaces.  Every process reads first and writes later; only the         *)
(* compare-and-set on the old status (dao.UpdateOrderStatus,                 *)
(* UpdateOrderInfo) ties a write to what was read.                           *)
EXTENDS Naturals, FiniteSets

CONSTANTS
  Orders,      \* order ids (uuids); an upgrade takes a fresh one
  Instances,   \* server processes (a restart is a new one) on one database
  Handlers,    \* request goroutines <<instance, name>>
  MaxHours,    \* bound on the hours of an order
  Requested    \* durations customers ask for

ASSUME HandlersAssumption ==
  \A h \in Handlers : h[1] \in Instances /\ h[2] \notin {"timer1", "timer2"}

ASSUME HoursAssumption == MaxHours \in Nat /\ Requested \subseteq 1 .. MaxHours

VARIABLES
  status,    \* row: status, "none" before the INSERT, "deleted" after DELETE
  space,     \* row: workspace_id, the id of the order that created it
  hours,     \* row: duration
  due,       \* row: expired_at < NOW()
  stale,     \* row: updated_at is more than 10 minutes ago
  chain,     \* contract: the order's record
  kub,       \* KubeSphere: the workspace named after each order id
  lock,      \* Redis: container_platform_order_exec_lock is set
  up,        \* instance: not started, API only, API and timers, or dead
  timer,     \* timer goroutine: its position in the loop and its result list
  job        \* process: the calls it has decided on and not made yet

rowVars == <<status, space, hours, due, stale>>
vars == <<rowVars, chain, kub, lock, up, timer, job>>

-----------------------------------------------------------------------------
(* State *)

Hours == 1 .. MaxHours

\* core.OrderStatus; Timeout is never assigned by the code.
RowStatus == {"Created", "Paid", "Done", "Expired", "Failed", "Upgrade",
              "Renewal", "Abandoned", "Termination"}

NoInfo == [st |-> "none", hours |-> 0]
Info == [st : {"none", "Active", "Expired"} \cup RowStatus, hours : 0 .. MaxHours]
NoList == [o \in Orders |-> NoInfo]

Timers == Instances \X {"timer1", "timer2"}
Procs == Timers \cup Handlers

\* The functions startTimer and startTimer2 call in each round.  A function
\* returns at once when its query fails or selects nothing, so between two
\* functions with something to do any number of others may have come and
\* gone: a timer is idle, or inside one of them.
PhasesOf(thread) ==
  IF thread = "timer1"
  THEN {"paid", "create", "renewal", "upgrade", "abandoned"}
  ELSE {"delete", "expired", "active"}
Phases == PhasesOf("timer1") \cup PhasesOf("timer2")

Idle == [phase |-> "idle", step |-> "load", list |-> NoList]

\* A job is the rest of a handler's or of a loop iteration's calls:
\* the next call op on order id, and the status (and hours, 0 if they are
\* not part of the UPDATE) the final compare-and-set will write.
NoJob == [op |-> "none"]
Ops == {"delete", "release", "create", "quota", "cas"}
Jobs == [op : Ops, id : Orders, new : RowStatus,
         old : RowStatus \cup {"none", "deleted"}, hours : 0 .. MaxHours]

CasJob(o, new, old, h) ==
  [op |-> "cas", id |-> o, new |-> new, old |-> old, hours |-> h]
TerminateJob(o, new, old) == [CasJob(o, new, old, 0) EXCEPT !.op = "delete"]

TypeOK ==
  /\ status \in [Orders -> RowStatus \cup {"none", "deleted"}]
  /\ space \in [Orders -> Orders]
  /\ hours \in [Orders -> 0 .. MaxHours]
  /\ due \in [Orders -> BOOLEAN]
  /\ stale \in [Orders -> BOOLEAN]
  /\ chain \in [Orders -> [st : {"none", "Active", "Expired"}, hours : 0 .. MaxHours]]
  /\ kub \in [Orders -> {"none", "up", "gone"}]
  /\ lock \in BOOLEAN
  /\ up \in [Instances -> {"new", "api", "exec", "dead"}]
  /\ timer \in [Timers -> [phase : Phases \cup {"idle"}, step : {"load", "query", "each"},
                           list : [Orders -> Info]]]
  /\ job \in [Procs -> Jobs \cup {NoJob}]

Init ==
  /\ status = [o \in Orders |-> "none"]
  /\ space = [o \in Orders |-> o]
  /\ hours = [o \in Orders |-> 0]
  /\ due = [o \in Orders |-> FALSE]
  /\ stale = [o \in Orders |-> FALSE]
  /\ chain = NoList
  /\ kub = [o \in Orders |-> "none"]
  /\ lock = FALSE
  /\ up = [i \in Instances |-> "new"]
  /\ timer = [p \in Timers |-> Idle]
  /\ job = [p \in Procs |-> NoJob]

-----------------------------------------------------------------------------
(* Instances, the executor lock, time and the outside world *)

\* NewOrderManager: SetNX on the lock; an error or a lost race leaves the
\* instance without timers for as long as it lives.
Start(i) ==
  /\ up[i] = "new"
  /\ \/ /\ ~lock
        /\ lock' = TRUE
        /\ up' = [up EXCEPT ![i] = "exec"]
     \/ /\ up' = [up EXCEPT ![i] = "api"]
        /\ UNCHANGED lock
  /\ UNCHANGED <<rowVars, chain, kub, timer, job>>

\* The lock has a TTL of 50 seconds and nobody renews it.  Only an instance
\* still to start can tell that it is gone.
LockExpires ==
  /\ lock
  /\ \E i \in Instances : up[i] = "new"
  /\ lock' = FALSE
  /\ UNCHANGED <<rowVars, chain, kub, up, timer, job>>

\* The process dies: jobs in progress are lost, rows, chain and kub stay.
Kill(i) ==
  /\ up' = [up EXCEPT ![i] = "dead"]
  /\ timer' = [p \in Timers |-> IF p[1] = i THEN Idle ELSE timer[p]]
  /\ job' = [p \in Procs |-> IF p[1] = i THEN NoJob ELSE job[p]]
  /\ UNCHANGED <<rowVars, chain, kub, lock>>

Alive(i) == up[i] \in {"api", "exec"}

Crash(i) == Alive(i) /\ Kill(i)

\* The statuses checkOrderExpired loads.
Sweepable == {"Done", "Failed", "Upgrade", "Renewal"}

\* Timestamps pass.  due and stale are tracked where a query can see them.
Overdue(o) ==
  /\ status[o] \in Sweepable
  /\ ~due[o]
  /\ due' = [due EXCEPT ![o] = TRUE]
  /\ UNCHANGED <<status, space, hours, stale, chain, kub, lock, up, timer, job>>

TenMinutes(o) ==
  /\ status[o] \in {"Renewal", "Abandoned"}
  /\ ~stale[o]
  /\ stale' = [stale EXCEPT ![o] = TRUE]
  /\ UNCHANGED <<status, space, hours, due, chain, kub, lock, up, timer, job>>

\* The customer pays for an order id he was given.  Paying for an upgrade
\* ends the order it replaces.
ChainPay(o, h) ==
  /\ status[o] # "none"
  /\ chain[o].st = "none"
  /\ chain' = [q \in Orders |->
       IF q = o THEN [st |-> "Active", hours |-> h]
       ELSE IF space[q] = space[o] /\ chain[q].st = "Active"
            THEN [chain[q] EXCEPT !.st = "Expired"]
            ELSE chain[q]]
  /\ UNCHANGED <<rowVars, kub, lock, up, timer, job>>

ChainRenew(o, h) ==
  /\ chain[o].st = "Active"
  /\ h > chain[o].hours
  /\ chain' = [chain EXCEPT ![o].hours = h]
  /\ UNCHANGED <<rowVars, kub, lock, up, timer, job>>

ChainExpire(o) ==
  /\ chain[o].st = "Active"
  /\ chain' = [chain EXCEPT ![o].st = "Expired"]
  /\ UNCHANGED <<rowVars, kub, lock, up, timer, job>>

-----------------------------------------------------------------------------
(* API handlers: the row is read here, the calls that follow are the job *)

ApiFree(p) == Alive(p[1]) /\ job[p] = NoJob

\* INSERT of a row with a fresh id.
Insert(o, st, ws, h) ==
  /\ status[o] = "none"
  /\ status' = [status EXCEPT ![o] = st]
  /\ space' = [space EXCEPT ![o] = ws]
  /\ hours' = [hours EXCEPT ![o] = h]
  /\ UNCHANGED <<due, stale>>

CreateOrder(p, o, h) ==
  /\ ApiFree(p)
  /\ Insert(o, "Created", o, h)
  /\ UNCHANGED <<chain, kub, lock, up, timer, job>>

TerminateOrder(p, o) ==
  /\ ApiFree(p)
  /\ status[o] = "Done"
  /\ job' = [job EXCEPT ![p] = TerminateJob(o, "Termination", "Done")]
  /\ UNCHANGED <<rowVars, chain, kub, lock, up, timer>>

RenewalOrder(p, o) ==
  /\ ApiFree(p)
  /\ status[o] = "Done"
  /\ job' = [job EXCEPT ![p] = CasJob(o, "Renewal", "Done", 0)]
  /\ UNCHANGED <<rowVars, chain, kub, lock, up, timer>>

\* The new row shares the old order's workspace; the old row is marked
\* Abandoned by a second statement.
UpgradeOrder(p, o, n, h) ==
  /\ ApiFree(p)
  /\ status[o] = "Done"
  /\ Insert(n, "Upgrade", space[o], h)
  /\ job' = [job EXCEPT ![p] = CasJob(o, "Abandoned", "Done", 0)]
  /\ UNCHANGED <<chain, kub, lock, up, timer>>

-----------------------------------------------------------------------------
(* The calls a job is made of *)

Then(p, op) == job' = [job EXCEPT ![p].op = op]

\* Errors of DeleteUserSpace and ReleaseOrder are logged, never retried, and
\* Terminate goes on.
DeleteUserSpace(p) ==
  /\ job[p].op = "delete"
  /\ LET ws == space[job[p].id]
     IN  \/ kub[ws] = "up" /\ kub' = [kub EXCEPT ![ws] = "gone"]
         \/ UNCHANGED kub
  /\ Then(p, "release")
  /\ UNCHANGED <<rowVars, chain, lock, up, timer>>

ReleaseOrder(p) ==
  /\ job[p].op = "release"
  /\ LET o == job[p].id
     IN  \/ chain[o].st = "Active" /\ chain' = [chain EXCEPT ![o].st = "Expired"]
         \/ UNCHANGED chain
  /\ Then(p, "cas")
  /\ UNCHANGED <<rowVars, kub, lock, up, timer>>

\* Mutant: the error does not turn the new status into Failed.
CreateSpaceIgnoresError(p) ==
  /\ job[p].op = "create"
  /\ LET ws == space[job[p].id]
     IN  kub' \in {kub, [kub EXCEPT ![ws] = "up"]}
  /\ job' = [job EXCEPT ![p].op = "cas"]
  /\ UNCHANGED <<rowVars, chain, lock, up, timer>>

\* CreateSpaceAndResourceQuotas makes three calls; the first refuses a name in
\* use, and a failure of a later one leaves the workspace behind.
CreateSpace(p) ==
  /\ job[p].op = "create"
  /\ LET ws == space[job[p].id]
     IN  \/ /\ kub[ws] # "up"
            /\ kub' = [kub EXCEPT ![ws] = "up"]
            /\ job' = [job EXCEPT ![p].op = "cas"]
         \/ /\ kub' \in {kub, [kub EXCEPT ![ws] = "up"]}
            /\ job' = [job EXCEPT ![p].op = "cas", ![p].new = "Failed"]
  /\ UNCHANGED <<rowVars, chain, lock, up, timer>>

\* UpdateUserResourceQuotas needs the workspace; on an error the loop goes on
\* to the next order.
UpdateQuotas(p) ==
  /\ job[p].op = "quota"
  /\ \/ kub[space[job[p].id]] = "up" /\ Then(p, "cas")
     \/ job' = [job EXCEPT ![p] = NoJob]
  /\ UNCHANGED <<rowVars, chain, kub, lock, up, timer>>

\* UpdateOrderStatus (hours = 0) and UpdateOrderInfo.  Zero rows affected is
\* not an error.  written is what the statement puts into duration.
Update(p, hit, info, written) ==
  LET o == job[p].id
  IN  /\ status' = IF hit THEN [status EXCEPT ![o] = job[p].new] ELSE status
      /\ stale' = IF hit THEN [stale EXCEPT ![o] = FALSE] ELSE stale
      /\ hours' = IF hit /\ info THEN [hours EXCEPT ![o] = written] ELSE hours
      /\ due' = IF hit /\ info THEN [due EXCEPT ![o] = FALSE] ELSE due
      /\ job' = [job EXCEPT ![p] = NoJob]
      /\ UNCHANGED <<space, chain, kub, lock, up, timer>>

Hit(p) == status[job[p].id] = job[p].old

\* Mutants: no AND status=?; duration added.
UpdateOrderBlind(p) ==
  job[p].op = "cas" /\ Update(p, TRUE, job[p].hours > 0, job[p].hours)
UpdateOrderAdds(p) ==
  job[p].op = "cas" /\ Update(p, Hit(p), job[p].hours > 0, hours[job[p].id] + job[p].hours)

UpdateOrder(p) ==
  job[p].op = "cas" /\ Update(p, Hit(p), job[p].hours > 0, job[p].hours)

\* The database refuses the UPDATE: logged, nothing is retried.
UpdateOrderFails(p) ==
  /\ job[p].op = "cas"
  /\ job' = [job EXCEPT ![p] = NoJob]
  /\ UNCHANGED <<rowVars, chain, kub, lock, up, timer>>

-----------------------------------------------------------------------------
(* Timer goroutines *)

TimerFree(p) == up[p[1]] = "exec" /\ job[p] = NoJob

At(p, phase, step) ==
  /\ TimerFree(p)
  /\ timer[p].phase = phase
  /\ timer[p].step = step

\* Go on with a result list; the function ends when it is empty.
Continue(p, phase, step, list) ==
  timer' = [timer EXCEPT ![p] = IF list = NoList THEN Idle
                                ELSE [phase |-> phase, step |-> step, list |-> list]]

\* Mutant: failed orders are picked up again.
SelectedRetryFailed(phase, o) ==
  CASE phase = "paid"      -> status[o] = "Created"
    [] phase = "create"    -> status[o] \in {"Paid", "Failed"}
    [] phase = "expired"   -> status[o] \in Sweepable /\ due[o]
    [] OTHER               -> FALSE

\* The rows a phase selects.
Selected(phase, o) ==
  CASE phase = "paid"      -> status[o] = "Created"
    [] phase = "create"    -> status[o] = "Paid"
    [] phase = "renewal"   -> status[o] = "Renewal"
    [] phase = "upgrade"   -> status[o] = "Upgrade"
    [] phase = "abandoned" -> status[o] = "Abandoned"
    [] phase = "active"    -> status[o] = "Done"
    [] phase = "expired"   -> status[o] \in Sweepable /\ due[o]
    [] OTHER               -> FALSE

\* Mutant: checkOrderUpgrade walks its ids without asking the chain.
LoadRowsNoQuery(p, phase) ==
  /\ TimerFree(p)
  /\ timer[p] = Idle
  /\ phase \in PhasesOf(p[2]) \ {"delete"}
  /\ Continue(p, phase, IF phase \in {"create", "expired", "upgrade"} THEN "each" ELSE "query",
              [o \in Orders |-> IF Selected(phase, o)
                                THEN [st |-> status[o], hours |-> 0]
                                ELSE NoInfo])
  /\ UNCHANGED <<rowVars, chain, kub, lock, up, job>>

\* LoadOrderIDsByStatus, LoadOrdersByStatus and LoadExpiredOrders.
LoadRows(p, phase) ==
  /\ TimerFree(p)
  /\ timer[p] = Idle
  /\ phase \in PhasesOf(p[2]) \ {"delete"}
  /\ \E o \in Orders : Selected(phase, o)
  /\ Continue(p, phase, IF phase \in {"create", "expired"} THEN "each" ELSE "query",
              [o \in Orders |-> IF Selected(phase, o)
                                THEN [st |-> status[o], hours |-> 0]
                                ELSE NoInfo])
  /\ UNCHANGED <<rowVars, chain, kub, lock, up, job>>

\* chain.GetOrders: the records of those ids the contract knows.
GetOrders(p, phase) ==
  /\ At(p, phase, "query")
  /\ Continue(p, phase, "each", [o \in Orders |->
       IF timer[p].list[o] = NoInfo THEN NoInfo ELSE chain[o]])
  /\ UNCHANGED <<rowVars, chain, kub, lock, up, job>>

\* A chain error: the function returns and the next one runs.
GetOrdersFails(p, phase) ==
  /\ At(p, phase, "query")
  /\ Continue(p, phase, "each", NoList)
  /\ UNCHANGED <<rowVars, chain, kub, lock, up, job>>

\* Take o from the list; j is what the iteration goes on to do.
Iterate(p, phase, o, j) ==
  /\ At(p, phase, "each")
  /\ timer[p].list[o] # NoInfo
  /\ Continue(p, phase, "each", [timer[p].list EXCEPT ![o] = NoInfo])
  /\ job' = [job EXCEPT ![p] = j]
  /\ UNCHANGED <<rowVars, chain, kub, lock, up>>

Item(p, o) == timer[p].list[o]

PaidItem(p, o) ==
  \/ /\ Item(p, o).st # "Active"
     /\ Iterate(p, "paid", o, NoJob)
  \/ /\ Item(p, o).st = "Active"
     /\ status[o] # "deleted"
     /\ Iterate(p, "paid", o, CasJob(o, "Paid", "Created", Item(p, o).hours))

\* LoadOrderByID fails, and the log call dereferences the nil order.
PaidItemPanics(p, o) ==
  /\ At(p, "paid", "each")
  /\ Item(p, o).st = "Active"
  /\ status[o] = "deleted"
  /\ Kill(p[1])

\* Mutant: the compare-and-set expects the status before the payment.
CreateItemWrongOld(p, o) ==
  Iterate(p, "create", o, [CasJob(o, "Done", "Created", 0) EXCEPT !.op = "create"])

CreateItem(p, o) ==
  Iterate(p, "create", o, [CasJob(o, "Done", "Paid", 0) EXCEPT !.op = "create"])

\* Mutant: no time limit on a renewal.
RenewalItemNoTimeout(p, o) ==
  \/ /\ Item(p, o).st = "Expired"
     /\ Iterate(p, "renewal", o, TerminateJob(o, "Expired", status[o]))
  \/ /\ Item(p, o).st # "Expired"
     /\ Iterate(p, "renewal", o,
          IF Item(p, o).hours > hours[o]
          THEN CasJob(o, "Done", "Renewal", Item(p, o).hours)
          ELSE NoJob)

RenewalItem(p, o) ==
  \/ /\ Item(p, o).st = "Expired"
     /\ Iterate(p, "renewal", o, TerminateJob(o, "Expired", status[o]))
  \/ /\ Item(p, o).st # "Expired"
     /\ stale[o]
     /\ Iterate(p, "renewal", o, CasJob(o, "Done", "Renewal", 0))
  \/ /\ Item(p, o).st # "Expired"
     /\ ~stale[o]
     /\ Iterate(p, "renewal", o,
          IF Item(p, o).hours > hours[o]
          THEN CasJob(o, "Done", "Renewal", Item(p, o).hours)
          ELSE NoJob)

UpgradeItem(p, o) ==
  \/ /\ Item(p, o).st = "Expired"
     /\ Iterate(p, "upgrade", o, CasJob(o, "Expired", "Upgrade", 0))
  \/ /\ Item(p, o).st # "Expired"
     /\ Iterate(p, "upgrade", o,
          [CasJob(o, "Done", "Upgrade", Item(p, o).hours) EXCEPT !.op = "quota"])

AbandonedItem(p, o) ==
  \/ /\ Item(p, o).st = "Expired"
     /\ Iterate(p, "abandoned", o, CasJob(o, "Expired", "Abandoned", 0))
  \/ /\ Item(p, o).st # "Expired"
     /\ Iterate(p, "abandoned", o,
          IF stale[o] THEN CasJob(o, "Done", "Abandoned", 0) ELSE NoJob)

\* Mutant: the DELETE forgets its status=? and takes paid orders along.
DeleteOrdersAny(p) ==
  /\ p[2] = "timer2"
  /\ TimerFree(p)
  /\ timer[p] = Idle
  /\ \E S \in (SUBSET {o \in Orders : status[o] \in {"Created", "Paid"}}) \ {{}} :
       status' = [o \in Orders |-> IF o \in S THEN "deleted" ELSE status[o]]
  /\ UNCHANGED <<space, hours, due, stale, chain, kub, lock, up, timer, job>>

\* One DELETE statement; which Created rows are 5 minutes old is left open.
DeleteOrders(p) ==
  /\ p[2] = "timer2"
  /\ TimerFree(p)
  /\ timer[p] = Idle
  /\ \E S \in (SUBSET {o \in Orders : status[o] = "Created"}) \ {{}} :
       status' = [o \in Orders |-> IF o \in S THEN "deleted" ELSE status[o]]
  /\ UNCHANGED <<space, hours, due, stale, chain, kub, lock, up, timer, job>>

ExpiredItem(p, o) ==
  Iterate(p, "expired", o, TerminateJob(o, "Expired", Item(p, o).st))

\* Mutant: an order the chain has ended is touched instead of terminated.
ActiveItemIgnoresChain(p, o) ==
  /\ At(p, "active", "each")
  /\ Item(p, o) # NoInfo
  /\ stale' = [stale EXCEPT ![o] = FALSE]
  /\ Continue(p, "active", "each", [timer[p].list EXCEPT ![o] = NoInfo])
  /\ UNCHANGED <<status, space, hours, due, chain, kub, lock, up, job>>

\* An Active order only has its updated_at touched.
ActiveItem(p, o) ==
  \/ /\ Item(p, o).st = "Active"
     /\ At(p, "active", "each")
     /\ stale' = [stale EXCEPT ![o] = FALSE]
     /\ Continue(p, "active", "each", [timer[p].list EXCEPT ![o] = NoInfo])
     /\ UNCHANGED <<status, space, hours, due, chain, kub, lock, up, job>>
  \/ /\ Item(p, o).st # "Active"
     /\ Iterate(p, "active", o, TerminateJob(o, "Expired", "Done"))

-----------------------------------------------------------------------------
(* Specification *)

Outside ==
  \/ LockExpires
  \/ \E i \in Instances : Start(i) \/ Crash(i)
  \/ \E o \in Orders : Overdue(o) \/ TenMinutes(o) \/ ChainExpire(o)
  \/ \E o \in Orders, h \in Hours : ChainPay(o, h) \/ ChainRenew(o, h)

Api(p) ==
  \/ \E o \in Orders : TerminateOrder(p, o) \/ RenewalOrder(p, o)
  \/ \E o \in Orders, h \in Requested : CreateOrder(p, o, h)
  \/ \E o, n \in Orders, h \in Requested : UpgradeOrder(p, o, n, h)

Call(p) ==
  \/ DeleteUserSpace(p) \/ ReleaseOrder(p)
  \/ CreateSpace(p) \/ UpdateQuotas(p)
  \/ UpdateOrder(p) \/ UpdateOrderFails(p)

Query(p) ==
  \/ \E phase \in Phases : LoadRows(p, phase) \/ GetOrders(p, phase)
  \/ DeleteOrders(p)

Step(p, o) ==
  \/ PaidItem(p, o) \/ PaidItemPanics(p, o) \/ CreateItem(p, o)
  \/ RenewalItem(p, o) \/ UpgradeItem(p, o) \/ AbandonedItem(p, o)
  \/ ExpiredItem(p, o) \/ ActiveItem(p, o)

Timer(p) ==
  \/ Query(p)
  \/ \E phase \in Phases : GetOrdersFails(p, phase)
  \/ \E o \in Orders : Step(p, o)

Next ==
  \/ Outside
  \/ \E p \in Handlers : Api(p)
  \/ \E p \in Procs : Call(p)
  \/ \E p \in Timers : Timer(p)

Spec == Init /\ [][Next]_vars

\* The tickers tick and Go runs the goroutines; every function is called in
\* every round, so one that keeps having order o to load gets to load it; the
\* chain does not refuse every query that asks for o, nor the database every
\* update of o; time passes.  Nothing is assumed of customers, instances,
\* handlers or KubeSphere.
FairFor(o) ==
  /\ \A p \in Timers :
       /\ WF_vars(Step(p, o))
       /\ SF_vars(\E phase \in Phases : Selected(phase, o) /\ LoadRows(p, phase))
       /\ SF_vars(\E phase \in Phases : Item(p, o) # NoInfo /\ GetOrders(p, phase))
       /\ SF_vars(job[p] # NoJob /\ job[p].id = o /\ UpdateOrder(p))
  /\ WF_vars(TenMinutes(o))

Fairness ==
  /\ \A p \in Timers : WF_vars(Timer(p)) /\ WF_vars(Call(p))
  /\ \A o \in Orders : FairFor(o)

FairSpec == Spec /\ Fairness

-----------------------------------------------------------------------------
(* Properties *)

Served == {"Paid", "Done", "Failed", "Renewal", "Abandoned", "Termination"}
Over == {"Expired", "Termination"}

PaidFor(o, h) == chain[o].st # "none" /\ h \in 1 .. chain[o].hours

\* No order is served unpaid: once checkOrderPaid or checkOrderUpgrade has let
\* an order through, the chain knows it, and the duration in its row never
\* exceeds the duration paid for, whatever snapshots the writers worked from.
CoveredByPayment ==
  \A o \in Orders : status[o] \in Served => PaidFor(o, hours[o])

\* Why CoveredByPayment is stable: what a process has read of the chain, in its
\* list or in the job made from it, stays covered by the chain, which only
\* grows; and a job that starts to serve an order carries paid hours.
ChainInv == \A o \in Orders : chain[o] = NoInfo \/ PaidFor(o, chain[o].hours)

ListInv ==
  \A p \in Timers, o \in Orders : Item(p, o) # NoInfo =>
    /\ timer[p].phase = "expired" => timer[p].step = "each" /\ Item(p, o).st \in Sweepable
    /\ timer[p].phase \in {"paid", "renewal", "upgrade"} /\ timer[p].step = "each"
         => PaidFor(o, Item(p, o).hours)

JobInv ==
  \A p \in Procs : job[p] # NoJob =>
    /\ job[p].hours > 0 => PaidFor(job[p].id, job[p].hours)
    /\ job[p].new \in Served => job[p].old \in Served \/ job[p].hours > 0
    /\ job[p].op = "create" => job[p].old \in Served

PaymentInv == TypeOK /\ ChainInv /\ ListInv /\ JobInv /\ CoveredByPayment

\* Why orders live one life (OrderLifecycle) with any number of executors: no job
\* brings an order back that is over, nor a row that is not there, what
\* checkOrderRenewal has loaded was served once, and the chain knows only
\* orders that were placed.
Begun == Served \cup Over

LifeJob(j) ==
  /\ j.old \notin {"none", "deleted"}
  /\ j.op = "create" => j.old = "Paid"
  /\ j.old \in Over => j.new \in Over
  /\ j.new \in Begun

LifeInv ==
  /\ \A p \in Procs : job[p] # NoJob => LifeJob(job[p])
  /\ \A p \in Timers, o \in Orders :
       timer[p].phase = "renewal" /\ Item(p, o) # NoInfo => status[o] \in Begun
  /\ \A o \in Orders : chain[o].st # "none" => status[o] # "none"

\* Why a workspace is there when an order is marked running, with any number of
\* executors: jobs and lists concern orders as far as they have come (a launched
\* order stays launched), and a workspace is deleted only after its order was
\* launched and shared only with orders that upgrade one that was.
Launched == RowStatus \ {"Created", "Paid"}

LaunchJob(j) ==
  /\ j.new \in Launched \/ (j.old = "Created" /\ j.new = "Paid")
  /\ j.op = "create" => j.old = "Paid"
  /\ j.op = "delete" => j.old \in Launched
  /\ j.old \in Launched => status[j.id] \in Launched
  /\ j.old = "Paid" => j.op \in {"create", "cas"} /\ status[j.id] \in Launched \cup {"Paid"}
  /\ j.old = "Paid" /\ j.new = "Done" /\ j.op = "cas" /\ status[j.id] = "Paid"
       => kub[space[j.id]] = "up"

LaunchItem(phase, o) ==
  /\ phase = "create" => status[o] \in Launched \cup {"Paid"}
  /\ phase \in {"renewal", "upgrade", "abandoned", "expired", "active"} => status[o] \in Launched

LaunchSpace(o) ==
  \/ status[o] \in Launched /\ (space[o] = o \/ status[space[o]] \in Launched)
  \/ status[o] \notin Launched /\ space[o] = o /\ kub[o] # "gone"

LaunchInv ==
  /\ \A p \in Procs : job[p] # NoJob => LaunchJob(job[p])
  /\ \A p \in Timers, o \in Orders : Item(p, o) # NoInfo => LaunchItem(timer[p].phase, o)
  /\ \A o \in Orders : LaunchSpace(o)

\* At most one instance runs the timers: it was not so slow to start, and has
\* not lived past the 50 seconds of the lock while another one started.
OneExecutor == \A i, j \in Instances : up[i] = "exec" /\ up[j] = "exec" => i = j

\* Why the timers do not work from stale lists as long as there is one executor.
\* First, which statuses a process writes, and over which.
Timer1Writes ==
  {<<"Created", "Paid">>, <<"Paid", "Done">>, <<"Paid", "Failed">>,
   <<"Renewal", "Done">>, <<"Renewal", "Expired">>, <<"Expired", "Expired">>,
   <<"Upgrade", "Done">>, <<"Upgrade", "Expired">>,
   <<"Abandoned", "Done">>, <<"Abandoned", "Expired">>}

Writes(p) ==
  CASE p \in Handlers    -> {"Done"} \X {"Termination", "Renewal", "Abandoned"}
    [] p[2] = "timer1"   -> Timer1Writes
    [] OTHER             -> Sweepable \X {"Expired"}

KindOK(p, j) ==
  /\ <<j.old, j.new>> \in Writes(p)
  /\ j.hours > 0 => p[2] = "timer1" /\ j.old \in {"Created", "Renewal", "Upgrade"}

\* Second, what the jobs and lists know of the rows is still so.
JobNow(j) ==
  /\ j.old = "Paid" => status[j.id] = "Paid"
  /\ j.old = "Renewal" /\ j.hours > 0 => j.hours > hours[j.id]

ItemNow(phase, o) ==
  /\ phase = "create" => status[o] = "Paid"
  /\ phase = "renewal" => status[o] \in {"Renewal", "Expired"}

ExecutorInv ==
  /\ \A p \in Procs : job[p] # NoJob => KindOK(p, job[p]) /\ JobNow(job[p])
  /\ \A p \in Timers :
       /\ timer[p].phase \in PhasesOf(p[2]) \cup {"idle"}
       /\ timer[p] # Idle \/ job[p] # NoJob => up[p[1]] = "exec"
       /\ job[p] # NoJob => Item(p, job[p].id) = NoInfo
       /\ \A o \in Orders : Item(p, o) # NoInfo => ItemNow(timer[p].phase, o)

\* An order that has expired or was terminated keeps that status: no stale
\* handler or timer brings it back or rewrites how it ended.
EndedForGood ==
  [][\A o \in Orders : status[o] \in Over => status'[o] = status[o]]_vars

\* A workspace that Terminate has deleted is never created again by a timer
\* still working from an older list.
NoRebirth ==
  [][\A o \in Orders : kub[o] = "gone" => kub'[o] = "gone"]_vars

\* createSpaceFromOrders marks an order running only while the workspace it
\* has created is there.
RunningHasSpace ==
  [][\A o \in Orders :
       status[o] = "Paid" /\ status'[o] = "Done" => kub[space[o]] = "up"]_vars

\* Whatever happens to the requests in between, an order whose chain record
\* has expired ends, as long as the timers run.
TimersRun == \E i \in Instances : up[i] = "exec"

ChainExpiryEndsOrder ==
  \A o \in Orders :
    status[o] \in {"Done", "Renewal", "Abandoned"} /\ chain[o].st = "Expired"
      ~> status[o] \in Over \/ ~TimersRun

\* A renewal does not stay pending, paid or not.
RenewalResolves ==
  \A o \in Orders : status[o] = "Renewal" ~> status[o] # "Renewal" \/ ~TimersRun

\* Once checkOrderPaid has recorded a payment, the order gets its workspace or
\* is found to have failed: nothing removes the row any more, whatever calls
\* fail.  An order the chain knows to be paid is recorded as such, unless it
\* expires there or deleteOrders, which does not ask the chain, removes the row
\* first: such a payment is never served.
PaidIsServed ==
  \A o \in Orders :
    /\ status[o] = "Paid" ~> status[o] \in Launched \/ ~TimersRun
    /\ status[o] = "Created" /\ chain[o].st = "Active"
         ~> \/ status[o] \in Launched \cup {"Paid", "deleted"}
            \/ chain[o].st = "Expired"
            \/ ~TimersRun

\* "OrderStatusDone indicates that the order has been completed. (Active)"
\* (core/types.go): with no request under way, an order that is Done and paid
\* up loses its workspace only to a Terminate of that very order.
RunningKeepsSpace ==
  [][\A o \in Orders :
       /\ status[o] = "Done" /\ chain[o].st = "Active" /\ ~due[o]
       /\ \A h \in Handlers : job[h] = NoJob
       /\ kub[space[o]] = "up" /\ kub'[space[o]] = "gone"
       => \E p \in Procs : job[p].op = "delete" /\ job[p].id = o]_vars

\* A renewal not handled for 10 minutes was not paid for (checkOrderRenewal):
\* an order goes from Renewal back to Done with its old duration only if the
\* list the timer is working on does not show a longer one.
TimedOutRenewalUnpaid ==
  [][\A p \in Timers, o \in Orders :
       /\ job[p] = NoJob
       /\ job'[p] = CasJob(o, "Done", "Renewal", 0)
       => Item(p, o).hours <= hours[o]]_vars

\* Refinement of the abstract life of an order.
LifeState(o) ==
  CASE status[o] = "none" -> "absent"
    [] status[o] = "deleted" -> "dropped"
    [] status[o] \in {"Created", "Upgrade"} -> "unpaid"
    [] status[o] \in Over -> "over"
    [] OTHER -> "served"

Life == INSTANCE OrderLifecycle WITH
  state <- [o \in Orders |-> LifeState(o)],
  funded <- [o \in Orders |-> chain[o].hours],
  granted <- [o \in Orders |-> IF LifeState(o) = "served" THEN hours[o] ELSE 0]

\* Every behaviour of the handlers and timers is a life of the abstract order.
ImplementsLifecycle == Life!Spec
=============================================================================
