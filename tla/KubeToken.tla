----------------------------- MODULE KubeToken ------------------------------
(***************************************************************************)
(* The access token of the KubeSphere client (src/core/kubesphere/         *)
(* manager.go): processes share it through Redis, one of them fetches a    *)
(* new one under a lock, and each keeps what its last attempt returned,    *)
(* even when that is no token at all.                                      *)
(*                                                                         *)
(* Time passes in rounds of timeInterval, ten minutes. In a round every    *)
(* process ticks once, and the lock of ten seconds runs out.               *)
(***************************************************************************)
EXTENDS Integers

CONSTANTS
    Managers,              \* processes with a manager
    Lifetime, Renewal,     \* 100 and 20 minutes, in rounds
    MaxRefusals            \* bound on the answers without a token and on crashes

VARIABLES
    kuberToken,            \* rounds left of the token in Redis, 0: none
    kuberTokenLock,        \* whether the lock in Redis is set
    token,                 \* whether m.token of a process is a token
    manager,               \* the step of getToken
    started,               \* whether NewKubManager has returned
    refusals
tokenVars == <<kuberToken, kuberTokenLock, token, manager, started, refusals>>

TypeOK ==
    /\ kuberToken \in 0 .. Lifetime
    /\ kuberTokenLock \in BOOLEAN
    /\ token \in [Managers -> BOOLEAN]
    /\ manager \in [Managers -> {"down", "get", "lock", "fetch", "idle"}]
    /\ started \in [Managers -> BOOLEAN]

Init ==
    /\ kuberToken = 0
    /\ kuberTokenLock = FALSE
    /\ token = [p \in Managers |-> FALSE]
    /\ manager = [p \in Managers |-> "down"]
    /\ started = [p \in Managers |-> FALSE]
    /\ refusals = 0

\* NewKubManager.
StartManager(p) ==
    /\ manager[p] = "down"
    /\ manager' = [manager EXCEPT ![p] = "get"]
    /\ UNCHANGED <<kuberToken, kuberTokenLock, token, started, refusals>>

\* The process dies, and with it its token.
Stop(p) ==
    /\ manager[p] # "down"
    /\ refusals < MaxRefusals
    /\ refusals' = refusals + 1
    /\ manager' = [manager EXCEPT ![p] = "down"]
    /\ token' = [token EXCEPT ![p] = FALSE]
    /\ started' = [started EXCEPT ![p] = FALSE]
    /\ UNCHANGED <<kuberToken, kuberTokenLock>>

\* m.token takes what getToken returns. Without a token a process that starts
\* asks again two seconds later, one that has started waits for its ticker.
Return(p, t) ==
    /\ token' = [token EXCEPT ![p] = t]
    /\ started' = [started EXCEPT ![p] = @ \/ t]
    /\ manager' = [manager EXCEPT ![p] = IF t \/ started[p] THEN "idle" ELSE "get"]

\* mutant: only a token that was fetched in this round is taken
UsableFresh == kuberToken >= Lifetime

\* The token in Redis has more than twenty minutes left.
Usable == kuberToken > Renewal

\* getToken: GET and TTL.
GetToken(p) ==
    /\ manager[p] = "get"
    /\ \/ Usable /\ Return(p, TRUE)
       \/ /\ ~Usable
          /\ manager' = [manager EXCEPT ![p] = "lock"]
          /\ UNCHANGED <<token, started>>
    /\ UNCHANGED <<kuberToken, kuberTokenLock, refusals>>

\* SETNX: the loser returns an empty token and no error.
SetLock(p) ==
    /\ manager[p] = "lock"
    /\ \/ /\ ~kuberTokenLock
          /\ kuberTokenLock' = TRUE
          /\ manager' = [manager EXCEPT ![p] = "fetch"]
          /\ UNCHANGED <<token, started>>
       \/ /\ kuberTokenLock
          /\ Return(p, FALSE)
          /\ UNCHANGED kuberTokenLock
    /\ UNCHANGED <<kuberToken, refusals>>

\* The answer of /oauth/token is stored whatever it says. An error leaves the
\* token of a process as it is, and ends a process that starts.
Fetch(p) ==
    /\ manager[p] = "fetch"
    /\ \/ /\ kuberToken' = Lifetime
          /\ Return(p, TRUE)
          /\ UNCHANGED refusals
       \/ /\ refusals < MaxRefusals
          /\ refusals' = refusals + 1
          /\ \/ kuberToken' = 0 /\ Return(p, FALSE)
             \/ /\ manager' = [manager EXCEPT ![p] = IF started[p] THEN "idle" ELSE "down"]
                /\ UNCHANGED <<kuberToken, token, started>>
    /\ UNCHANGED kuberTokenLock

\* The lock runs out after ten seconds, even while its owner still waits.
LockExpires ==
    /\ kuberTokenLock
    /\ kuberTokenLock' = FALSE
    /\ UNCHANGED <<kuberToken, token, manager, started, refusals>>

\* startTimer, ten minutes later: every attempt has returned, the lock is gone.
NextRound ==
    /\ ~kuberTokenLock
    /\ \A p \in Managers : manager[p] \in {"idle", "down"}
    /\ kuberToken' = IF kuberToken = 0 THEN 0 ELSE kuberToken - 1
    /\ manager' = [p \in Managers |-> IF manager[p] = "idle" THEN "get" ELSE "down"]
    /\ UNCHANGED <<kuberTokenLock, token, started, refusals>>

Tick(p) == GetToken(p) \/ SetLock(p) \/ Fetch(p)
Next ==
    \/ \E p \in Managers : StartManager(p) \/ Stop(p) \/ Tick(p)
    \/ LockExpires
    \/ NextRound

\* Goroutines run, Redis expires the lock, time goes by; an HTTP request ends.
Fairness ==
    /\ \A p \in Managers : WF_tokenVars(Tick(p))
    /\ WF_tokenVars(LockExpires)
    /\ WF_tokenVars(NextRound)
Spec == Init /\ [][Next]_tokenVars /\ Fairness
-----------------------------------------------------------------------------
(* Properties.                                                             *)

\* A process that has lost its token to the race for the lock, or was refused
\* one, has a token again later, as long as it lives.
TokenRecovers ==
    \A p \in Managers : ~token[p] ~> (token[p] \/ manager[p] = "down")

=============================================================================
