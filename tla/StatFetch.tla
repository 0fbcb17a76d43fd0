------------------------------ MODULE StatFetch ------------------------------
(***************************************************************************)
(* The rounds of src/core/statistics/statistics.go: the cron job that asks *)
(* every scheduler for its nodes under a lock in Redis, the queue of jobs  *)
(* a fetcher fills, and the goroutine that runs the jobs and, when none    *)
(* has come for ten seconds, Finalize.                                     *)
(*                                                                         *)
(* The lock covers the fetching only: it is released, or expires, while    *)
(* jobs are still waiting, so that another process may start a round of    *)
(* its own. The number of schedulers is read for the wait group before the *)
(* mutex of their list is taken.                                           *)
(***************************************************************************)
EXTENDS Integers, FiniteSets

CONSTANTS
    Processes, NoProcess,
    Runs, NoRun,      \* firings of the cron job
    Counts,           \* how many schedulers etcd may hold
    MaxPages,         \* bound on the pages of nodes a run fetches
    QueueSize         \* newBaseFetcher's 300

VARIABLES
    locker,           \* the key of Once in Redis: the run that holds it
    schedulers,       \* a process's list of schedulers: its length
    run,              \* a firing: its process, where it stands, the wait group's
                      \* counter, the goroutines that are still fetching and the
                      \* pages they have fetched
    queue,            \* the jobs in a process's queue
    handler,          \* handleJobs: "select", "job", "finished" or "finalize"
    unsummed,         \* history: jobs run since the process's last Finalize
    alive, expired
fetchVars == <<locker, schedulers, run, queue, handler, unsummed, alive, expired>>

Unfired == [pc |-> "unfired", process |-> NoProcess, group |-> 0, fetching |-> 0, pages |-> 0]

TypeOK ==
    /\ locker \in Runs \cup {NoRun}
    /\ schedulers \in [Processes -> Counts]
    /\ \A r \in Runs : /\ run[r].pc \in {"unfired", "count", "spawn", "wait", "done"}
                       /\ run[r].process \in Processes \cup {NoProcess}
    /\ queue \in [Processes -> 0 .. QueueSize]
    /\ handler \in [Processes -> {"select", "job", "finished", "finalize"}]
    /\ unsummed \in [Processes -> BOOLEAN]
    /\ alive \in [Processes -> BOOLEAN]

Init ==
    /\ locker = NoRun
    /\ \E n \in Counts : schedulers = [p \in Processes |-> n] /\ \A m \in Counts : m <= n
    /\ run = [r \in Runs |-> Unfired]
    /\ queue = [p \in Processes |-> 0]
    /\ handler = [p \in Processes |-> "select"]
    /\ unsummed = [p \in Processes |-> FALSE]
    /\ alive = [p \in Processes |-> TRUE]
    /\ expired = FALSE

\* The process of a run that is under way.
Active(r) == run[r].pc \in {"count", "spawn", "wait"} /\ alive[run[r].process]
-----------------------------------------------------------------------------
(* The cron job.                                                           *)

\* Once: the process that does not get the lock skips its turn.
Once(r, p) ==
    /\ run[r] = Unfired
    /\ alive[p]
    /\ \/ /\ locker = NoRun
          /\ locker' = r
          /\ run' = [run EXCEPT ![r].pc = "count", ![r].process = p]
       \/ /\ locker # NoRun
          /\ run' = [run EXCEPT ![r].pc = "done", ![r].process = p]
          /\ UNCHANGED locker
    /\ UNCHANGED <<schedulers, queue, handler, unsummed, alive, expired>>

\* wg.Add(len(s.schedulers)), outside the mutex.
AddToGroup(r) ==
    /\ Active(r) /\ run[r].pc = "count"
    /\ run' = [run EXCEPT ![r].pc = "spawn", ![r].group = schedulers[run[r].process]]
    /\ UNCHANGED <<locker, schedulers, queue, handler, unsummed, alive, expired>>

\* One goroutine for each scheduler of the list, under the mutex.
RunFetchers(r) ==
    /\ Active(r) /\ run[r].pc = "spawn"
    /\ run' = [run EXCEPT ![r].pc = "wait", ![r].fetching = schedulers[run[r].process]]
    /\ UNCHANGED <<locker, schedulers, queue, handler, unsummed, alive, expired>>

\* A page of a scheduler's nodes is a job, for which there has to be room in
\* the queue.
Push(r) ==
    LET p == run[r].process
    IN  /\ run[r].fetching > 0 /\ alive[p]
        /\ run[r].pages < MaxPages
        /\ queue[p] < QueueSize
        /\ queue' = [queue EXCEPT ![p] = @ + 1]
        /\ run' = [run EXCEPT ![r].pages = @ + 1]
        /\ UNCHANGED <<locker, schedulers, handler, unsummed, alive, expired>>

\* A goroutine ends: there are no more pages, or its scheduler did not answer. A
\* wait group that was told of fewer goroutines panics, even after the run has
\* returned, and the process is gone.
Fetch(r) ==
    LET p == run[r].process
    IN  /\ run[r].fetching > 0 /\ alive[p]
        /\ run' = [run EXCEPT ![r].fetching = @ - 1, ![r].group = @ - 1]
        /\ alive' = [alive EXCEPT ![p] = run[r].group > 0]
        /\ UNCHANGED <<locker, schedulers, queue, handler, unsummed, expired>>

\* The group is empty: the lock is released, if it is still this run's.
Release(r) ==
    /\ Active(r) /\ run[r].pc = "wait" /\ run[r].group = 0
    /\ run' = [run EXCEPT ![r].pc = "done"]
    /\ locker' = IF locker = r THEN NoRun ELSE locker
    /\ UNCHANGED <<schedulers, queue, handler, unsummed, alive, expired>>

\* LockerTTL.
LockExpires ==
    /\ locker # NoRun
    /\ locker' = NoRun
    /\ expired' = TRUE
    /\ UNCHANGED <<schedulers, run, queue, handler, unsummed, alive>>

\* watchEtcdSchedulerConfig: the list is replaced.
UpdateSchedulers(p) ==
    /\ \E n \in Counts : schedulers[p] # n /\ schedulers' = [schedulers EXCEPT ![p] = n]
    /\ UNCHANGED <<locker, run, queue, handler, unsummed, alive, expired>>
-----------------------------------------------------------------------------
(* handleJobs.                                                             *)

HandleJob(p) ==
    /\ alive[p] /\ handler[p] = "select" /\ queue[p] > 0
    /\ queue' = [queue EXCEPT ![p] = @ - 1]
    /\ handler' = [handler EXCEPT ![p] = "job"]
    /\ unsummed' = [unsummed EXCEPT ![p] = TRUE]
    /\ UNCHANGED <<locker, schedulers, run, alive, expired>>

\* mutant: an empty queue is left to the ticker
JobDoneSelects(p) ==
    /\ alive[p] /\ handler[p] = "job"
    /\ handler' = [handler EXCEPT ![p] = "select"]
    /\ UNCHANGED <<locker, schedulers, run, queue, unsummed, alive, expired>>

\* After a job: is the queue empty?
JobDone(p) ==
    /\ alive[p] /\ handler[p] = "job"
    /\ handler' = [handler EXCEPT ![p] = IF queue[p] = 0 THEN "finished" ELSE "select"]
    /\ UNCHANGED <<locker, schedulers, run, queue, unsummed, alive, expired>>

\* hasFinished: the queue stays empty for ten ticks of a second, or it does not.
HasFinished(p) ==
    /\ alive[p] /\ handler[p] = "finished"
    /\ handler' = [handler EXCEPT ![p] = IF queue[p] = 0 THEN "finalize" ELSE "select"]
    /\ UNCHANGED <<locker, schedulers, run, queue, unsummed, alive, expired>>

Finalize(p) ==
    /\ alive[p] /\ handler[p] = "finalize"
    /\ handler' = [handler EXCEPT ![p] = "select"]
    /\ unsummed' = [unsummed EXCEPT ![p] = FALSE]
    /\ UNCHANGED <<locker, schedulers, run, queue, alive, expired>>

Handler(p) == HandleJob(p) \/ JobDone(p) \/ HasFinished(p) \/ Finalize(p)

Next ==
    \/ \E r \in Runs : \/ \E p \in Processes : Once(r, p)
                       \/ AddToGroup(r) \/ RunFetchers(r) \/ Push(r) \/ Fetch(r)
                       \/ Release(r)
    \/ \E p \in Processes : UpdateSchedulers(p) \/ Handler(p)
    \/ LockExpires

\* The goroutine of the handler runs as long as its process does.
Fairness == \A p \in Processes : WF_fetchVars(Handler(p))

Spec == Init /\ [][Next]_fetchVars /\ Fairness
-----------------------------------------------------------------------------
(* Properties.                                                             *)

\* Once a job has written its nodes, Finalize follows in the same process,
\* whatever the other runs push meanwhile, unless the process dies.
RoundsAreSummed ==
    \A p \in Processes : unsummed[p] ~> (~unsummed[p] \/ ~alive[p])

=============================================================================
