---------------------------- MODULE TokenFaucet ----------------------------
(* The token faucet (core/token, receiveTokenHandler): an account may draw   *)
(* maxUserQuota tokens once a day, and hourlyQuota tokens are given out per  *)
(* hour.  A request is a chain of separate SQL statements and one chain      *)
(* transaction, without a lock or a database transaction around them, and    *)
(* requests run concurrently.                                                *)
EXTENDS Integers, FiniteSets

CONSTANTS
  Requests,      \* request goroutines that can be under way at one time
  Accounts,
  Hours,         \* the clock runs over hours 0 .. Hours - 1
  DayOf,         \* the day an hour belongs to
  hourlyQuota,
  maxUserQuota

ASSUME RequestsAssumption == IsFiniteSet(Requests) /\ Requests # {}

ASSUME ClockAssumption ==
  /\ Hours \in Nat \ {0}
  /\ DayOf \in [0 .. Hours - 1 -> Nat]
  /\ \A h \in 1 .. Hours - 1 : DayOf[h - 1] <= DayOf[h]

ASSUME QuotaAssumption ==
  hourlyQuota \in Nat /\ maxUserQuota \in Nat \ {0} /\ maxUserQuota <= hourlyQuota

VARIABLES
  now,       \* the hour the wall clock shows
  quota,     \* hourly_quotas: amount given out in an hour, NoRow before the INSERT
  last,      \* user_receive: the day of last_receive, NoRow before the INSERT
  claims,    \* how often an account's last_receive was set on a day
  sent,      \* chain: number of transfers, by the hour they were charged to
  req        \* requests: position and local variables

vars == <<now, quota, last, claims, sent, req>>

-----------------------------------------------------------------------------

Clock == 0 .. Hours - 1
Days == {DayOf[h] : h \in Clock}
NoRow == -1

\* currentHour and distributedAmount are read once and used to the end.
Positions == {"quota", "open", "check", "save", "charge", "send"}
NoRequest == [at |-> "idle"]
Request == [at : Positions, account : Accounts, hour : Clock, amount : Nat, first : BOOLEAN]

TypeOK ==
  /\ now \in Clock
  /\ quota \in [Clock -> Nat \cup {NoRow}]
  /\ last \in [Accounts -> Days \cup {NoRow}]
  /\ claims \in [Accounts -> [Days -> Nat]]
  /\ sent \in [Clock -> Nat]
  /\ req \in [Requests -> Request \cup {NoRequest}]

Init ==
  /\ now = 0
  /\ quota = [h \in Clock |-> NoRow]
  /\ last = [a \in Accounts |-> NoRow]
  /\ claims = [a \in Accounts |-> [d \in Days |-> 0]]
  /\ sent = [h \in Clock |-> 0]
  /\ req = [r \in Requests |-> NoRequest]

-----------------------------------------------------------------------------

At(r, at) == req[r].at = at
Goto(r, at) == req' = [req EXCEPT ![r].at = at]
Answer(r) == req' = [req EXCEPT ![r] = NoRequest]

Tick ==
  /\ now + 1 \in Clock
  /\ now' = now + 1
  /\ UNCHANGED <<quota, last, claims, sent, req>>

Receive(r, a) ==
  /\ At(r, "idle")
  /\ req' = [req EXCEPT ![r] = [at |-> "quota", account |-> a, hour |-> now,
                                amount |-> 0, first |-> FALSE]]
  /\ UNCHANGED <<now, quota, last, claims, sent>>

\* Mutant: a missing row is taken for an amount.
ReadQuotaNoCreate(r) ==
  /\ At(r, "quota")
  /\ LET amount == quota[req[r].hour]
     IN  \/ amount >= hourlyQuota /\ Answer(r)
         \/ /\ amount < hourlyQuota
            /\ req' = [req EXCEPT ![r].at = "check", ![r].amount = amount]
  /\ UNCHANGED <<now, quota, last, claims, sent>>

\* GetOrCreateHourlyQuota: the SELECT, with the test of its result.
ReadQuota(r) ==
  /\ At(r, "quota")
  /\ LET amount == quota[req[r].hour]
     IN  \/ amount = NoRow /\ Goto(r, "open")
         \/ amount >= hourlyQuota /\ Answer(r)
         \/ /\ amount \in 0 .. hourlyQuota - 1
            /\ req' = [req EXCEPT ![r].at = "check", ![r].amount = amount]
  /\ UNCHANGED <<now, quota, last, claims, sent>>

\* GetOrCreateHourlyQuota: the INSERT, refused if another request was faster.
OpenHour(r) ==
  /\ At(r, "open")
  /\ \/ /\ quota[req[r].hour] = NoRow
        /\ quota' = [quota EXCEPT ![req[r].hour] = 0]
        /\ Goto(r, "check")
     \/ /\ quota[req[r].hour] # NoRow
        /\ Answer(r)
        /\ UNCHANGED quota
  /\ UNCHANGED <<now, last, claims, sent>>

\* Mutant: a share is given out as long as any of the quota is left.
CheckClaimNoShare(r) ==
  /\ At(r, "check")
  /\ LET a == req[r].account
     IN  IF last[a] = DayOf[now]
         THEN Answer(r)
         ELSE req' = [req EXCEPT ![r].at = "save", ![r].first = (last[a] = NoRow)]
  /\ UNCHANGED <<now, quota, last, claims, sent>>

\* GetLastReceiveByAccount, and the last test of the quota.
CheckClaim(r) ==
  /\ At(r, "check")
  /\ LET a == req[r].account
     IN  IF last[a] = DayOf[now] \/ req[r].amount + maxUserQuota > hourlyQuota
         THEN Answer(r)
         ELSE req' = [req EXCEPT ![r].at = "save", ![r].first = (last[a] = NoRow)]
  /\ UNCHANGED <<now, quota, last, claims, sent>>

\* Mutant: last_receive keeps the day of the previous claim.
SaveClaimKeepsDay(r) ==
  /\ At(r, "save")
  /\ LET a == req[r].account
     IN  /\ last' = [last EXCEPT ![a] = IF req[r].first THEN DayOf[now] ELSE last[a]]
         /\ claims' = [claims EXCEPT ![a][DayOf[now]] = @ + 1]
  /\ Goto(r, "charge")
  /\ UNCHANGED <<now, quota, sent>>

\* SaveAccountReceive or UpdateAccountReceive; both write the time of the
\* statement.  There is one row for an account, as every statement takes for
\* granted: when it has got one meanwhile, the INSERT is refused.
SaveClaim(r) ==
  /\ At(r, "save")
  /\ LET a == req[r].account
     IN  \/ /\ req[r].first => last[a] = NoRow
            /\ last' = [last EXCEPT ![a] = DayOf[now]]
            /\ claims' = [claims EXCEPT ![a][DayOf[now]] = @ + 1]
            /\ Goto(r, "charge")
         \/ /\ req[r].first
            /\ last[a] # NoRow
            /\ Answer(r)
            /\ UNCHANGED <<last, claims>>
  /\ UNCHANGED <<now, quota, sent>>

\* Mutant: the amount read at the start is written back.
ChargeHourAbsolute(r) ==
  /\ At(r, "charge")
  /\ quota' = [quota EXCEPT ![req[r].hour] = req[r].amount + maxUserQuota]
  /\ Goto(r, "send")
  /\ UNCHANGED <<now, last, claims, sent>>

\* UpdateHourlyQuota: SET amount = amount + maxUserQuota.
ChargeHour(r) ==
  /\ At(r, "charge")
  /\ quota' = [quota EXCEPT ![req[r].hour] = @ + maxUserQuota]
  /\ Goto(r, "send")
  /\ UNCHANGED <<now, last, claims, sent>>

\* chain.ReceiveTokens; the history record that follows is only shown.
Send(r) ==
  /\ At(r, "send")
  /\ sent' = [sent EXCEPT ![req[r].hour] = @ + 1]
  /\ Answer(r)
  /\ UNCHANGED <<now, quota, last, claims>>

\* A statement or the transaction fails, or the process dies: nothing that
\* was written before is taken back.
Abort(r) ==
  /\ ~At(r, "idle")
  /\ Answer(r)
  /\ UNCHANGED <<now, quota, last, claims, sent>>

Next ==
  \/ Tick
  \/ \E r \in Requests :
       \/ \E a \in Accounts : Receive(r, a)
       \/ ReadQuota(r) \/ OpenHour(r) \/ CheckClaim(r) \/ SaveClaim(r)
       \/ ChargeHour(r) \/ Send(r) \/ Abort(r)

Spec == Init /\ [][Next]_vars

-----------------------------------------------------------------------------
(* Properties *)

Amount(h) == IF quota[h] = NoRow THEN 0 ELSE quota[h]

\* Without a lock an hour can be overdrawn, but only by requests that were
\* under way together: by one share for each of them except one.  Requests
\* that do not overlap never exceed hourlyQuota.
OverdraftBounded ==
  \A h \in Clock :
    Amount(h) <= hourlyQuota + (Cardinality(Requests) - 1) * maxUserQuota

\* An account can draw twice a day, but not more often than there were
\* requests under way together, across midnight and the end of the hour too.
ClaimsBounded ==
  \A a \in Accounts, d \in Days : claims[a][d] <= Cardinality(Requests)

\* Every transfer the chain has made is charged to the hour it belongs to.
TransfersCharged ==
  \A h \in Clock : sent[h] * maxUserQuota <= Amount(h)

\* Why they hold: a request that has read an amount with room for its share
\* may still be charged; a request past its charge may still be sent.
Drawing(h) == {r \in Requests :
                 /\ req[r].at \in {"check", "save", "charge"}
                 /\ req[r].hour = h
                 /\ req[r].amount + maxUserQuota <= hourlyQuota}
Claiming(a) == {r \in Requests : At(r, "save") /\ req[r].account = a}
Sending(h) == {r \in Requests : At(r, "send") /\ req[r].hour = h}

OverdraftInv ==
  /\ \A h \in Clock :
       Amount(h) + Cardinality(Drawing(h)) * maxUserQuota
         <= hourlyQuota + (Cardinality(Requests) - 1) * maxUserQuota
  /\ \A r \in Requests : req[r].at \in {"save", "charge"} =>
       req[r].amount + maxUserQuota <= hourlyQuota
  /\ \A r \in Requests : req[r].at \in {"check", "save", "charge", "send"} =>
       quota[req[r].hour] # NoRow

ClaimsInv ==
  \A a \in Accounts :
    /\ last[a] <= DayOf[now]
    /\ \A d \in Days : d > last[a] => claims[a][d] = 0
    /\ \A d \in Days : claims[a][d] <= Cardinality(Requests)
    /\ last[a] = DayOf[now] =>
         claims[a][last[a]] + Cardinality(Claiming(a)) <= Cardinality(Requests)

SendingInv ==
  \A h \in Clock : (sent[h] + Cardinality(Sending(h))) * maxUserQuota <= Amount(h)
=============================================================================
