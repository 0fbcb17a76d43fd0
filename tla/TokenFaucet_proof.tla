-------------------------- MODULE TokenFaucet_proof --------------------------
(* Proofs about TokenFaucet: whatever the number of requests and accounts,   *)
(* the length of the clock and the amounts.                                  *)
EXTENDS TokenFaucet, FiniteSetTheorems, TLAPS

-----------------------------------------------------------------------------
(* Types *)

LEMMA DayType == \A h \in Clock : DayOf[h] \in Days /\ DayOf[h] \in Nat
BY ClockAssumption DEF Clock, Days

LEMMA DaysAreNat == Days \subseteq Nat
BY ClockAssumption DEF Clock, Days

LEMMA TypeInit == Init => TypeOK
BY ClockAssumption DEF Init, TypeOK, Clock

\* A request that is somewhere in the handler has its local variables.
LEMMA RequestAt ==
  ASSUME TypeOK, NEW r \in Requests, req[r].at \in Positions
  PROVE  /\ req[r] \in Request
         /\ req[r].account \in Accounts
         /\ req[r].hour \in Clock
         /\ req[r].amount \in Nat
BY DEF TypeOK, NoRequest, Positions, Request

LEMMA GotoType ==
  ASSUME TypeOK, NEW r \in Requests, req[r].at \in Positions, NEW at \in Positions,
         Goto(r, at)
  PROVE  req' \in [Requests -> Request \cup {NoRequest}]
BY RequestAt DEF Goto, TypeOK, Request

LEMMA AnswerType ==
  ASSUME TypeOK, NEW r \in Requests, Answer(r)
  PROVE  req' \in [Requests -> Request \cup {NoRequest}]
BY DEF Answer, TypeOK

LEMMA TypeNext == TypeOK /\ [Next]_vars => TypeOK'
<1> SUFFICES ASSUME TypeOK, [Next]_vars PROVE TypeOK'
  OBVIOUS
<1>1. CASE UNCHANGED vars
  BY <1>1 DEF vars, TypeOK
<1>2. CASE Tick
  BY <1>2 DEF Tick, TypeOK
<1>3. ASSUME NEW r \in Requests, NEW a \in Accounts, Receive(r, a) PROVE TypeOK'
  <2>1. [at |-> "quota", account |-> a, hour |-> now, amount |-> 0, first |-> FALSE] \in Request
    BY DEF Request, Positions, TypeOK
  <2>2. QED
    BY <1>3, <2>1 DEF Receive, TypeOK
<1>4. ASSUME NEW r \in Requests, ReadQuota(r) PROVE TypeOK'
  <2>1. req[r] \in Request /\ req[r].at \in Positions
    BY <1>4, RequestAt DEF ReadQuota, At, Positions
  <2>2. ASSUME NEW amount \in 0 .. hourlyQuota - 1
        PROVE  [req EXCEPT ![r].at = "check", ![r].amount = amount]
                 \in [Requests -> Request \cup {NoRequest}]
    <3>1. [req[r] EXCEPT !.at = "check", !.amount = amount] \in Request
      <4>1. amount \in Nat
        BY QuotaAssumption
      <4>2. QED
        BY <2>1, <4>1 DEF Request, Positions
    <3>2. [req EXCEPT ![r].at = "check", ![r].amount = amount]
            = [req EXCEPT ![r] = [req[r] EXCEPT !.at = "check", !.amount = amount]]
      BY <2>1 DEF TypeOK, Request
    <3>3. QED
      BY <3>1, <3>2 DEF TypeOK
  <2>3. req' \in [Requests -> Request \cup {NoRequest}]
    BY <1>4, <2>1, <2>2, GotoType, AnswerType DEF ReadQuota, Positions
  <2>4. QED
    BY <1>4, <2>3 DEF ReadQuota, TypeOK
<1>5. ASSUME NEW r \in Requests, OpenHour(r) PROVE TypeOK'
  <2>1. req[r].at \in Positions
    BY <1>5 DEF OpenHour, At, Positions
  <2>2. req' \in [Requests -> Request \cup {NoRequest}]
    BY <1>5, <2>1, GotoType, AnswerType DEF OpenHour, Positions
  <2>3. QED
    BY <1>5, <2>2 DEF OpenHour, TypeOK
<1>6. ASSUME NEW r \in Requests, CheckClaim(r) PROVE TypeOK'
  <2>1. req[r] \in Request /\ req[r].at \in Positions
    BY <1>6, RequestAt DEF CheckClaim, At, Positions
  <2>2. ASSUME NEW b \in BOOLEAN
        PROVE  [req EXCEPT ![r].at = "save", ![r].first = b]
                 \in [Requests -> Request \cup {NoRequest}]
    <3>1. [req[r] EXCEPT !.at = "save", !.first = b] \in Request
      BY <2>1 DEF Request, Positions
    <3>2. [req EXCEPT ![r].at = "save", ![r].first = b]
            = [req EXCEPT ![r] = [req[r] EXCEPT !.at = "save", !.first = b]]
      BY <2>1 DEF TypeOK, Request
    <3>3. QED
      BY <3>1, <3>2 DEF TypeOK
  <2>3. req' \in [Requests -> Request \cup {NoRequest}]
    BY <1>6, <2>2, AnswerType DEF CheckClaim
  <2>4. QED
    BY <1>6, <2>3 DEF CheckClaim, TypeOK
<1>7. ASSUME NEW r \in Requests, SaveClaim(r) PROVE TypeOK'
  <2>1. req[r].at \in Positions /\ req[r].account \in Accounts
    BY <1>7, RequestAt DEF SaveClaim, At, Positions
  <2>2. req' \in [Requests -> Request \cup {NoRequest}]
    BY <1>7, <2>1, GotoType, AnswerType DEF SaveClaim, Positions
  <2>3. DayOf[now] \in Days
    BY DayType DEF TypeOK
  <2>4. last' \in [Accounts -> Days \cup {NoRow}]
    BY <1>7, <2>1, <2>3 DEF SaveClaim, TypeOK
  <2>5. claims' \in [Accounts -> [Days -> Nat]]
    <3>1. \/ claims' = claims
          \/ claims' = [claims EXCEPT ![req[r].account][DayOf[now]] = @ + 1]
      BY <1>7 DEF SaveClaim
    <3>2. claims[req[r].account] \in [Days -> Nat]
      BY <2>1 DEF TypeOK
    <3>3. [claims[req[r].account] EXCEPT ![DayOf[now]] = @ + 1] \in [Days -> Nat]
      BY <2>3, <3>2
    <3>4. QED
      BY <3>1, <3>3 DEF TypeOK
  <2>6. QED
    BY <1>7, <2>2, <2>4, <2>5 DEF SaveClaim, TypeOK
<1>8. ASSUME NEW r \in Requests, ChargeHour(r) PROVE TypeOK'
  <2>1. req[r].at \in Positions
    BY <1>8 DEF ChargeHour, At, Positions
  <2>2. req' \in [Requests -> Request \cup {NoRequest}]
    BY <1>8, <2>1, GotoType DEF ChargeHour, Positions
  <2>3. quota' \in [Clock -> Nat \cup {NoRow}]
    <3>1. quota' = [quota EXCEPT ![req[r].hour] = @ + maxUserQuota]
      BY <1>8 DEF ChargeHour
    <3>2. \A n \in Nat \cup {NoRow} : n + maxUserQuota \in Nat
      BY QuotaAssumption DEF NoRow
    <3>3. QED
      BY <3>1, <3>2 DEF TypeOK
  <2>4. QED
    BY <1>8, <2>2, <2>3 DEF ChargeHour, TypeOK
<1>9. ASSUME NEW r \in Requests, Send(r) PROVE TypeOK'
  <2>1. req' \in [Requests -> Request \cup {NoRequest}]
    BY <1>9, AnswerType DEF Send
  <2>2. req[r].hour \in Clock
    BY <1>9, RequestAt DEF Send, At, Positions
  <2>3. sent' \in [Clock -> Nat]
    <3>1. sent' = [sent EXCEPT ![req[r].hour] = sent[req[r].hour] + 1]
      BY <1>9 DEF Send
    <3>2. sent[req[r].hour] + 1 \in Nat
      BY <2>2 DEF TypeOK
    <3>3. QED
      BY <3>1, <3>2 DEF TypeOK
  <2>4. QED
    BY <1>9, <2>1, <2>3 DEF Send, TypeOK
<1>10. ASSUME NEW r \in Requests, Abort(r) PROVE TypeOK'
  BY <1>10, AnswerType DEF Abort, TypeOK
<1>11. QED
  BY <1>1, <1>2, <1>3, <1>4, <1>5, <1>6, <1>7, <1>8, <1>9, <1>10 DEF Next

-----------------------------------------------------------------------------
(* Counting requests *)

LEMMA Counted ==
  ASSUME NEW S \in SUBSET Requests
  PROVE  /\ IsFiniteSet(S)
         /\ Cardinality(S) \in Nat
         /\ Cardinality(Requests) \in Nat
         /\ Cardinality(S) <= Cardinality(Requests)
BY RequestsAssumption, FS_Subset, FS_CardinalityType

LEMMA Times ==
  ASSUME NEW m \in Nat, NEW n \in Nat, m <= n
  PROVE  /\ m * maxUserQuota <= n * maxUserQuota
         /\ m * maxUserQuota \in Nat
         /\ (m + 1) * maxUserQuota = m * maxUserQuota + maxUserQuota
         /\ (m - 1) * maxUserQuota = m * maxUserQuota - maxUserQuota
<1>1. maxUserQuota \in Nat
  BY QuotaAssumption
<1>2. PICK k \in Nat : n = m + k
  <2>1. n - m \in Nat /\ n = m + (n - m)
    OBVIOUS
  <2>2. QED
    BY <2>1
<1>3. n * maxUserQuota = m * maxUserQuota + k * maxUserQuota
  BY <1>1, <1>2
<1>4. k * maxUserQuota \in Nat /\ m * maxUserQuota \in Nat
  BY <1>1
<1>5. QED
  BY <1>1, <1>3, <1>4

LEMMA Fewer ==
  ASSUME NEW T \in SUBSET Requests, NEW S \in SUBSET T
  PROVE  Cardinality(S) <= Cardinality(T)
BY Counted, FS_Subset

LEMMA OneLess ==
  ASSUME NEW T \in SUBSET Requests, NEW r \in T
  PROVE  Cardinality(T \ {r}) = Cardinality(T) - 1
BY Counted, FS_RemoveElement

LEMMA OneMore ==
  ASSUME NEW T \in SUBSET Requests, NEW r, r \notin T
  PROVE  Cardinality(T \cup {r}) = Cardinality(T) + 1
BY Counted, FS_AddElement

LEMMA AmountType == TypeOK => \A h \in Clock : Amount(h) \in Nat
BY DEF TypeOK, Amount, NoRow

Others(r) == \A q \in Requests : q # r => req'[q] = req[q]

-----------------------------------------------------------------------------
(* The hourly quota *)

Bounded(h) ==
  Amount(h) + Cardinality(Drawing(h)) * maxUserQuota
    <= hourlyQuota + (Cardinality(Requests) - 1) * maxUserQuota

HasRoom(r) == req[r].at \in {"save", "charge"} =>
                req[r].amount + maxUserQuota <= hourlyQuota

HasRow(r) == req[r].at \in {"check", "save", "charge", "send"} =>
               quota[req[r].hour] # NoRow

\* A request that leaves the handler, or goes on in it, takes no more than it
\* was already counted for.
LEMMA DrawingShrinks ==
  ASSUME TypeOK, TypeOK', NEW h \in Clock, Bounded(h), Amount(h)' = Amount(h),
         Drawing(h)' \subseteq Drawing(h)
  PROVE  Bounded(h)'
<1>1. Drawing(h) \in SUBSET Requests /\ Drawing(h)' \in SUBSET Drawing(h)
  BY DEF Drawing
<1>2. DEFINE m == Cardinality(Drawing(h))
             n == Cardinality(Drawing(h)')
<1>3. /\ m \in Nat /\ n \in Nat
      /\ n <= m
      /\ Cardinality(Requests) \in Nat
  BY <1>1, Fewer, Counted
<1>4. /\ n * maxUserQuota <= m * maxUserQuota
      /\ n * maxUserQuota \in Nat
      /\ m * maxUserQuota \in Nat
      /\ (Cardinality(Requests) - 1) * maxUserQuota \in Int
  BY <1>3, Times, QuotaAssumption
<1>5. Amount(h) \in Nat /\ hourlyQuota \in Nat
  BY AmountType, QuotaAssumption
<1>6. Amount(h) + n * maxUserQuota
        <= hourlyQuota + (Cardinality(Requests) - 1) * maxUserQuota
  <2> DEFINE x == n * maxUserQuota
             y == m * maxUserQuota
             z == (Cardinality(Requests) - 1) * maxUserQuota
  <2>1. /\ x \in Nat /\ y \in Nat /\ z \in Int /\ x <= y
        /\ Amount(h) + y <= hourlyQuota + z
    BY <1>4 DEF Bounded
  <2> HIDE DEF x, y, z
  <2>2. Amount(h) + x <= hourlyQuota + z
    BY <1>5, <2>1
  <2>3. QED
    BY <2>2 DEF x, z
<1>7. QED
  BY <1>6 DEF Bounded

\* An hour with room for one more share is within bounds whoever is drawing.
LEMMA RoomIsBounded ==
  ASSUME TypeOK', NEW h \in Clock, Amount(h)' + maxUserQuota <= hourlyQuota
  PROVE  Bounded(h)'
<1>1. Drawing(h)' \in SUBSET Requests
  BY DEF Drawing
<1> DEFINE n == Cardinality(Drawing(h)')
           N == Cardinality(Requests)
<1>2. n \in Nat /\ N \in Nat /\ n <= N
  BY <1>1, Counted
<1>3. /\ n * maxUserQuota <= N * maxUserQuota
      /\ n * maxUserQuota \in Nat
      /\ N * maxUserQuota \in Nat
      /\ (N - 1) * maxUserQuota = N * maxUserQuota - maxUserQuota
  BY <1>2, Times
<1>4. Amount(h)' \in Nat /\ hourlyQuota \in Nat /\ maxUserQuota \in Nat
  BY QuotaAssumption DEF TypeOK, Amount, NoRow
<1>5. Amount(h)' + n * maxUserQuota <= hourlyQuota + (N - 1) * maxUserQuota
  <2> DEFINE x == n * maxUserQuota
             y == N * maxUserQuota
             z == (N - 1) * maxUserQuota
  <2>1. x \in Nat /\ y \in Nat /\ x <= y /\ z = y - maxUserQuota
    BY <1>3
  <2> HIDE DEF x, y, z
  <2>2. Amount(h)' + x <= hourlyQuota + z
    BY <1>4, <2>1
  <2>3. QED
    BY <2>2 DEF x, z
<1>6. QED
  BY <1>5 DEF Bounded
\* What a step of one request does to the counts, for every hour.
LEMMA OverdraftNext ==
  ASSUME TypeOK, TypeOK', OverdraftInv, [Next]_vars
  PROVE  OverdraftInv'
<1>0. /\ \A h \in Clock : Bounded(h)
      /\ \A r \in Requests : HasRoom(r) /\ HasRow(r)
  BY DEF OverdraftInv, Bounded, HasRoom, HasRow
<1>1. SUFFICES /\ \A h \in Clock : Bounded(h)'
               /\ \A r \in Requests : HasRoom(r)' /\ HasRow(r)'
  BY DEF OverdraftInv, Bounded, HasRoom, HasRow
<1>2. ASSUME UNCHANGED <<quota, req>>
      PROVE  /\ \A h \in Clock : Bounded(h)'
             /\ \A r \in Requests : HasRoom(r)' /\ HasRow(r)'
  BY <1>0, <1>2 DEF Bounded, Amount, Drawing, HasRoom, HasRow
<1>3. ASSUME NEW r \in Requests, UNCHANGED quota, Others(r),
             \/ req'[r].at \notin {"check", "save", "charge", "send"}
             \/ /\ req[r].at \in {"check", "save", "charge"}
                /\ req'[r].at \in {"save", "charge"}
                /\ req'[r].hour = req[r].hour
                /\ req'[r].amount = req[r].amount
                /\ req[r].amount + maxUserQuota <= hourlyQuota
      PROVE  /\ \A h \in Clock : Bounded(h)'
             /\ \A q \in Requests : HasRoom(q)' /\ HasRow(q)'
  <2>1. ASSUME NEW h \in Clock PROVE Bounded(h)'
    <3>1. Drawing(h)' \subseteq Drawing(h)
      BY <1>3 DEF Drawing, Others
    <3>2. Amount(h)' = Amount(h)
      BY <1>3 DEF Amount
    <3>3. QED
      BY <1>0, <3>1, <3>2, DrawingShrinks
  <2>2. \A q \in Requests : HasRoom(q)' /\ HasRow(q)'
    BY <1>0, <1>3 DEF HasRoom, HasRow, Others
  <2>3. QED
    BY <2>1, <2>2
<1>4. ASSUME NEW r \in Requests, Answer(r), UNCHANGED quota
      PROVE  /\ \A h \in Clock : Bounded(h)'
             /\ \A q \in Requests : HasRoom(q)' /\ HasRow(q)'
  <2>1. Others(r) /\ req'[r] = NoRequest
    BY <1>4 DEF Answer, Others, TypeOK
  <2>2. QED
    BY <1>3, <1>4, <2>1 DEF NoRequest
<1>5. ASSUME NEW r \in Requests, NEW a \in Accounts, Receive(r, a)
      PROVE  /\ \A h \in Clock : Bounded(h)'
             /\ \A q \in Requests : HasRoom(q)' /\ HasRow(q)'
  <2>1. Others(r) /\ req'[r].at = "quota"
    BY <1>5 DEF Receive, Others, TypeOK
  <2>2. QED
    BY <1>3, <1>5, <2>1 DEF Receive
<1>6. ASSUME NEW r \in Requests, ReadQuota(r)
      PROVE  /\ \A h \in Clock : Bounded(h)'
             /\ \A q \in Requests : HasRoom(q)' /\ HasRow(q)'
  <2>0. req[r] \in Request /\ req[r].hour \in Clock /\ UNCHANGED quota
    BY <1>6, RequestAt DEF ReadQuota, At, Positions
  <2>1. CASE Answer(r)
    BY <1>4, <2>0, <2>1
  <2>2. CASE Goto(r, "open")
    <3>1. Others(r) /\ req'[r].at = "open"
      BY <2>0, <2>2 DEF Goto, Others, TypeOK, Request
    <3>2. QED
      BY <1>3, <2>0, <3>1
  <2>3. CASE /\ quota[req[r].hour] \in 0 .. hourlyQuota - 1
             /\ req' = [req EXCEPT ![r].at = "check", ![r].amount = quota[req[r].hour]]
    <3>1. /\ Others(r)
          /\ req'[r].at = "check"
          /\ req'[r].hour = req[r].hour
          /\ req'[r].amount = quota[req[r].hour]
      BY <2>0, <2>3 DEF Others, TypeOK, Request
    <3>2. ASSUME NEW h \in Clock PROVE Bounded(h)'
      <4>1. Amount(h)' = Amount(h)
        BY <2>0 DEF Amount
      <4>2. CASE h = req[r].hour /\ Amount(h) + maxUserQuota <= hourlyQuota
        BY <4>1, <4>2, RoomIsBounded
      <4>3. CASE ~(h = req[r].hour /\ Amount(h) + maxUserQuota <= hourlyQuota)
        <5>1. r \notin Drawing(h)'
          BY <2>0, <2>3, <3>1, <4>3, QuotaAssumption DEF Drawing, Amount, NoRow
        <5>2. Drawing(h)' \subseteq Drawing(h)
          BY <3>1, <5>1 DEF Drawing, Others
        <5>3. QED
          BY <1>0, <4>1, <5>2, DrawingShrinks
      <4>4. QED
        BY <4>2, <4>3
    <3>3. ASSUME NEW q \in Requests PROVE HasRoom(q)' /\ HasRow(q)'
      <4>1. CASE q = r
        BY <2>0, <2>3, <3>1, <4>1, QuotaAssumption DEF HasRoom, HasRow, NoRow
      <4>2. CASE q # r
        BY <1>0, <2>0, <3>1, <4>2 DEF HasRoom, HasRow, Others
      <4>3. QED
        BY <4>1, <4>2
    <3>4. QED
      BY <3>2, <3>3
  <2>4. QED
    BY <1>6, <2>1, <2>2, <2>3 DEF ReadQuota
<1>7. ASSUME NEW r \in Requests, OpenHour(r)
      PROVE  /\ \A h \in Clock : Bounded(h)'
             /\ \A q \in Requests : HasRoom(q)' /\ HasRow(q)'
  <2>0. req[r] \in Request /\ req[r].hour \in Clock
    BY <1>7, RequestAt DEF OpenHour, At, Positions
  <2>1. CASE Answer(r) /\ UNCHANGED quota
    BY <1>4, <2>1
  <2>2. CASE /\ quota[req[r].hour] = NoRow
             /\ quota' = [quota EXCEPT ![req[r].hour] = 0]
             /\ Goto(r, "check")
    <3>1. /\ Others(r)
          /\ req'[r].at = "check"
          /\ req'[r].hour = req[r].hour
          /\ quota'[req[r].hour] = 0
      BY <2>0, <2>2 DEF Goto, Others, TypeOK, Request
    <3>2. ASSUME NEW h \in Clock PROVE Bounded(h)'
      <4>1. CASE h = req[r].hour
        <5>1. Amount(h)' = 0
          BY <3>1, <4>1 DEF Amount, NoRow
        <5>2. QED
          BY <5>1, RoomIsBounded, QuotaAssumption
      <4>2. CASE h # req[r].hour
        <5>1. Amount(h)' = Amount(h)
          BY <2>0, <2>2, <4>2 DEF Amount, TypeOK
        <5>2. Drawing(h)' \subseteq Drawing(h)
          BY <3>1, <4>2 DEF Drawing, Others
        <5>3. QED
          BY <1>0, <5>1, <5>2, DrawingShrinks
      <4>3. QED
        BY <4>1, <4>2
    <3>3. ASSUME NEW q \in Requests PROVE HasRoom(q)' /\ HasRow(q)'
      <4>1. CASE q = r
        BY <3>1, <4>1 DEF HasRoom, HasRow, NoRow
      <4>2. CASE q # r
        <5>1. quota[req[q].hour] # NoRow => quota'[req[q].hour] # NoRow
          BY <2>0, <2>2 DEF TypeOK, NoRow
        <5>2. QED
          BY <1>0, <3>1, <4>2, <5>1 DEF HasRoom, HasRow, Others
      <4>3. QED
        BY <4>1, <4>2
    <3>4. QED
      BY <3>2, <3>3
  <2>3. QED
    BY <1>7, <2>1, <2>2 DEF OpenHour
<1>8. ASSUME NEW r \in Requests, CheckClaim(r)
      PROVE  /\ \A h \in Clock : Bounded(h)'
             /\ \A q \in Requests : HasRoom(q)' /\ HasRow(q)'
  <2>0. req[r] \in Request /\ UNCHANGED quota /\ req[r].at = "check"
    BY <1>8, RequestAt DEF CheckClaim, At, Positions
  <2>1. CASE Answer(r)
    BY <1>4, <2>0, <2>1
  <2>2. CASE ~Answer(r)
    <3>1. PICK b \in BOOLEAN : req' = [req EXCEPT ![r].at = "save", ![r].first = b]
      BY <1>8, <2>2 DEF CheckClaim
    <3>2. ~(req[r].amount + maxUserQuota > hourlyQuota)
      BY <1>8, <2>2 DEF CheckClaim
    <3>3. /\ Others(r)
          /\ req'[r].at = "save"
          /\ req'[r].hour = req[r].hour
          /\ req'[r].amount = req[r].amount
      BY <2>0, <3>1 DEF Others, TypeOK, Request
    <3>4. req[r].amount + maxUserQuota <= hourlyQuota
      BY <2>0, <3>2, QuotaAssumption DEF Request
    <3>5. QED
      BY <1>3, <2>0, <3>3, <3>4
  <2>3. QED
    BY <2>1, <2>2
<1>9. ASSUME NEW r \in Requests, SaveClaim(r)
      PROVE  /\ \A h \in Clock : Bounded(h)'
             /\ \A q \in Requests : HasRoom(q)' /\ HasRow(q)'
  <2>0. req[r] \in Request /\ UNCHANGED quota /\ req[r].at = "save"
    BY <1>9, RequestAt DEF SaveClaim, At, Positions
  <2>1. CASE Answer(r)
    BY <1>4, <2>0, <2>1
  <2>2. CASE Goto(r, "charge")
    <3>1. /\ Others(r)
          /\ req'[r].at = "charge"
          /\ req'[r].hour = req[r].hour
          /\ req'[r].amount = req[r].amount
      BY <2>0, <2>2 DEF Goto, Others, TypeOK, Request
    <3>2. req[r].amount + maxUserQuota <= hourlyQuota
      BY <1>0, <2>0 DEF HasRoom
    <3>3. QED
      BY <1>3, <2>0, <3>1, <3>2
  <2>3. QED
    BY <1>9, <2>1, <2>2 DEF SaveClaim
<1>10. ASSUME NEW r \in Requests, ChargeHour(r)
       PROVE  /\ \A h \in Clock : Bounded(h)'
              /\ \A q \in Requests : HasRoom(q)' /\ HasRow(q)'
  <2>0. /\ req[r] \in Request /\ req[r].hour \in Clock /\ req[r].at = "charge"
        /\ quota[req[r].hour] # NoRow
        /\ req[r].amount + maxUserQuota <= hourlyQuota
    BY <1>0, <1>10, RequestAt DEF ChargeHour, At, Positions, HasRoom, HasRow
  <2>1. quota[req[r].hour] \in Nat
    BY <2>0 DEF TypeOK
  <2>2. /\ Others(r)
        /\ req'[r].at = "send"
        /\ req'[r].hour = req[r].hour
        /\ quota' = [quota EXCEPT ![req[r].hour] = quota[req[r].hour] + maxUserQuota]
    BY <1>10, <2>0 DEF ChargeHour, Goto, Others, TypeOK, Request
  <2>3. ASSUME NEW h \in Clock PROVE Bounded(h)'
    <3>1. CASE h # req[r].hour
      <4>1. Amount(h)' = Amount(h)
        BY <2>0, <2>2, <3>1 DEF Amount, TypeOK
      <4>2. Drawing(h)' \subseteq Drawing(h)
        BY <2>2 DEF Drawing, Others
      <4>3. QED
        BY <1>0, <4>1, <4>2, DrawingShrinks
    <3>2. CASE h = req[r].hour
      <4> DEFINE n == Cardinality(Drawing(h))
                 k == Cardinality(Drawing(h)')
                 y == n * maxUserQuota
                 x == k * maxUserQuota
                 z == (Cardinality(Requests) - 1) * maxUserQuota
      <4>1. quota'[h] = quota[h] + maxUserQuota
        BY <2>2, <3>2 DEF TypeOK
      <4>2. Amount(h)' = Amount(h) + maxUserQuota /\ Amount(h) \in Nat
        BY <2>1, <3>2, <4>1, QuotaAssumption DEF Amount, NoRow
      <4>3. r \in Drawing(h) /\ Drawing(h)' = Drawing(h) \ {r}
        BY <2>0, <2>2, <3>2 DEF Drawing, Others
      <4>4. Drawing(h) \in SUBSET Requests
        BY DEF Drawing
      <4>5. n \in Nat /\ k = n - 1 /\ Cardinality(Requests) \in Nat
        BY <4>3, <4>4, Counted, OneLess
      <4>6. x = y - maxUserQuota /\ y \in Nat /\ z \in Int
        BY <4>5, Times, QuotaAssumption
      <4>7. Amount(h) + y <= hourlyQuota + z
        BY <1>0 DEF Bounded
      <4> HIDE DEF x, y, z
      <4>8. Amount(h)' + x <= hourlyQuota + z
        BY <4>2, <4>6, <4>7, QuotaAssumption
      <4>9. QED
        BY <4>8 DEF Bounded, x, z
    <3>3. QED
      BY <3>1, <3>2
  <2>4. ASSUME NEW q \in Requests PROVE HasRoom(q)' /\ HasRow(q)'
    <3>1. quota[req[q].hour] # NoRow => quota'[req[q].hour] # NoRow
      BY <2>0, <2>1, <2>2, QuotaAssumption DEF TypeOK, NoRow
    <3>2. quota'[req[r].hour] # NoRow
      BY <2>0, <2>1, <2>2, QuotaAssumption DEF TypeOK, NoRow
    <3>3. CASE q = r
      BY <2>2, <3>2, <3>3 DEF HasRoom, HasRow
    <3>4. CASE q # r
      BY <1>0, <2>2, <3>1, <3>4 DEF HasRoom, HasRow, Others
    <3>5. QED
      BY <3>3, <3>4
  <2>5. QED
    BY <2>3, <2>4
<1>11. QED
  BY <1>2, <1>4, <1>5, <1>6, <1>7, <1>8, <1>9, <1>10
     DEF Next, Tick, Send, Abort, vars
-----------------------------------------------------------------------------
(* Transfers *)

Charged(h) == (sent[h] + Cardinality(Sending(h))) * maxUserQuota <= Amount(h)

LEMMA SendingShrinks ==
  ASSUME TypeOK, TypeOK', NEW h \in Clock, Charged(h), sent'[h] = sent[h],
         Amount(h)' = Amount(h), Sending(h)' \subseteq Sending(h)
  PROVE  Charged(h)'
<1>1. Sending(h) \in SUBSET Requests /\ Sending(h)' \in SUBSET Sending(h)
  BY DEF Sending
<1> DEFINE m == sent[h] + Cardinality(Sending(h))
           n == sent'[h] + Cardinality(Sending(h)')
<1>2. m \in Nat /\ n \in Nat /\ n <= m
  <2>1. /\ Cardinality(Sending(h)) \in Nat
        /\ Cardinality(Sending(h)') \in Nat
        /\ Cardinality(Sending(h)') <= Cardinality(Sending(h))
    BY <1>1, Fewer, Counted
  <2>2. sent[h] \in Nat /\ sent'[h] = sent[h]
    BY DEF TypeOK
  <2>3. QED
    BY <2>1, <2>2
<1>3. n * maxUserQuota <= m * maxUserQuota /\ n * maxUserQuota \in Nat /\ m * maxUserQuota \in Nat
  BY <1>2, Times
<1>4. m * maxUserQuota <= Amount(h) /\ Amount(h) \in Nat
  BY AmountType DEF Charged
<1> DEFINE x == n * maxUserQuota
           y == m * maxUserQuota
<1>5. x \in Nat /\ y \in Nat /\ x <= y /\ y <= Amount(h)
  BY <1>3, <1>4
<1> HIDE DEF x, y
<1>6. x <= Amount(h)'
  BY <1>4, <1>5
<1>7. QED
  BY <1>6 DEF Charged, x

\* A step that leaves the amounts alone and sends nobody to the chain.
LEMMA NoneSent ==
  ASSUME TypeOK, TypeOK', SendingInv, UNCHANGED sent,
         \A h \in Clock : Amount(h)' = Amount(h),
         \A r \in Requests : req'[r].at = "send" => req'[r] = req[r]
  PROVE  SendingInv'
<1>1. ASSUME NEW h \in Clock PROVE Charged(h)'
  <2>1. Sending(h)' \subseteq Sending(h)
    BY DEF Sending, At
  <2>2. QED
    BY <2>1, SendingShrinks DEF SendingInv, Charged
<1>2. QED
  BY <1>1 DEF SendingInv, Charged

LEMMA SendingNext ==
  ASSUME TypeOK, TypeOK', OverdraftInv, SendingInv, [Next]_vars
  PROVE  SendingInv'
<1>1. CASE UNCHANGED vars \/ Tick
  BY <1>1, NoneSent DEF vars, Tick, Amount
<1>2. ASSUME NEW r \in Requests, Answer(r), UNCHANGED <<quota, sent>> PROVE SendingInv'
  <2>1. \A q \in Requests : req'[q].at = "send" => req'[q] = req[q]
    BY <1>2 DEF Answer, TypeOK, NoRequest
  <2>2. QED
    BY <1>2, <2>1, NoneSent DEF Amount
<1>3. ASSUME NEW r \in Requests, NEW at \in Positions \ {"send"}, Goto(r, at),
             req[r] \in Request, UNCHANGED sent, \A h \in Clock : Amount(h)' = Amount(h)
      PROVE  SendingInv'
  <2>1. \A q \in Requests : req'[q].at = "send" => req'[q] = req[q]
    BY <1>3 DEF Goto, TypeOK, Request, Positions
  <2>2. QED
    BY <1>3, <2>1, NoneSent
<1>4. ASSUME NEW r \in Requests, NEW a \in Accounts, Receive(r, a) PROVE SendingInv'
  <2>1. \A q \in Requests : req'[q].at = "send" => req'[q] = req[q]
    BY <1>4 DEF Receive, TypeOK
  <2>2. QED
    BY <1>4, <2>1, NoneSent DEF Receive, Amount
<1>5. ASSUME NEW r \in Requests, ReadQuota(r) PROVE SendingInv'
  <2>0. req[r] \in Request
    BY <1>5, RequestAt DEF ReadQuota, At, Positions
  <2>1. \A q \in Requests : req'[q].at = "send" => req'[q] = req[q]
    BY <1>5, <2>0 DEF ReadQuota, Answer, Goto, NoRequest, TypeOK, Request
  <2>2. QED
    BY <1>5, <2>1, NoneSent DEF ReadQuota, Amount
<1>6. ASSUME NEW r \in Requests, OpenHour(r) PROVE SendingInv'
  <2>0. req[r] \in Request /\ req[r].hour \in Clock
    BY <1>6, RequestAt DEF OpenHour, At, Positions
  <2>1. \A h \in Clock : Amount(h)' = Amount(h)
    BY <1>6, <2>0 DEF OpenHour, Amount, NoRow, TypeOK
  <2>2. CASE Answer(r) /\ UNCHANGED quota
    BY <1>2, <1>6, <2>2 DEF OpenHour
  <2>3. CASE Goto(r, "check")
    BY <1>3, <1>6, <2>0, <2>1, <2>3 DEF OpenHour, Positions
  <2>4. QED
    BY <1>6, <2>2, <2>3 DEF OpenHour
<1>7. ASSUME NEW r \in Requests, CheckClaim(r) PROVE SendingInv'
  <2>0. req[r] \in Request
    BY <1>7, RequestAt DEF CheckClaim, At, Positions
  <2>1. \A q \in Requests : req'[q].at = "send" => req'[q] = req[q]
    BY <1>7, <2>0 DEF CheckClaim, Answer, NoRequest, TypeOK, Request
  <2>2. QED
    BY <1>7, <2>1, NoneSent DEF CheckClaim, Amount
<1>8. ASSUME NEW r \in Requests, SaveClaim(r) PROVE SendingInv'
  <2>0. req[r] \in Request
    BY <1>8, RequestAt DEF SaveClaim, At, Positions
  <2>1. CASE Goto(r, "charge")
    BY <1>3, <1>8, <2>0, <2>1 DEF SaveClaim, Positions, Amount
  <2>2. CASE Answer(r)
    BY <1>2, <1>8, <2>2 DEF SaveClaim
  <2>3. QED
    BY <1>8, <2>1, <2>2 DEF SaveClaim
<1>9. ASSUME NEW r \in Requests, ChargeHour(r), NEW h \in Clock PROVE Charged(h)'
  <2>0. /\ req[r] \in Request /\ req[r].hour \in Clock /\ req[r].at = "charge"
        /\ quota[req[r].hour] # NoRow
    BY <1>9, RequestAt DEF ChargeHour, At, Positions, OverdraftInv
  <2>1. /\ Others(r)
        /\ req'[r].at = "send"
        /\ req'[r].hour = req[r].hour
        /\ quota' = [quota EXCEPT ![req[r].hour] = quota[req[r].hour] + maxUserQuota]
        /\ sent' = sent
    BY <1>9, <2>0 DEF ChargeHour, Goto, Others, TypeOK, Request
  <2>2. Charged(h)
    BY DEF SendingInv, Charged
  <2>3. CASE h # req[r].hour
    <3>1. Amount(h)' = Amount(h)
      BY <2>0, <2>1, <2>3 DEF Amount, TypeOK
    <3>2. Sending(h)' \subseteq Sending(h)
      BY <2>1, <2>3 DEF Sending, At, Others
    <3>3. QED
      BY <2>1, <2>2, <3>1, <3>2, SendingShrinks
  <2>4. CASE h = req[r].hour
    <3> DEFINE m == sent[h] + Cardinality(Sending(h))
               n == sent'[h] + Cardinality(Sending(h)')
               y == m * maxUserQuota
               x == n * maxUserQuota
    <3>1. Amount(h)' = Amount(h) + maxUserQuota /\ Amount(h) \in Nat
      BY <2>0, <2>1, <2>4, QuotaAssumption DEF Amount, NoRow, TypeOK
    <3>2. r \notin Sending(h) /\ Sending(h)' = Sending(h) \cup {r}
      BY <2>0, <2>1, <2>4 DEF Sending, At, Others
    <3>3. Sending(h) \in SUBSET Requests
      BY DEF Sending
    <3>4. m \in Nat /\ n = m + 1
      <4>1. /\ Cardinality(Sending(h)) \in Nat
            /\ Cardinality(Sending(h)') = Cardinality(Sending(h)) + 1
        BY <3>2, <3>3, Counted, OneMore
      <4>2. sent[h] \in Nat /\ sent'[h] = sent[h]
        BY <2>1 DEF TypeOK
      <4>3. QED
        BY <4>1, <4>2
    <3>5. x = y + maxUserQuota /\ y \in Nat
      BY <3>4, Times
    <3>6. y <= Amount(h)
      BY <2>2 DEF Charged
    <3> HIDE DEF x, y
    <3>7. x <= Amount(h)'
      BY <3>1, <3>5, <3>6, QuotaAssumption
    <3>8. QED
      BY <3>7 DEF Charged, x
  <2>5. QED
    BY <2>3, <2>4
<1>10. ASSUME NEW r \in Requests, Send(r), NEW h \in Clock PROVE Charged(h)'
  <2>0. req[r] \in Request /\ req[r].hour \in Clock /\ req[r].at = "send"
    BY <1>10, RequestAt DEF Send, At, Positions
  <2>1. /\ Others(r)
        /\ req'[r] = NoRequest
        /\ sent' = [sent EXCEPT ![req[r].hour] = sent[req[r].hour] + 1]
        /\ quota' = quota
    BY <1>10 DEF Send, Answer, Others, TypeOK
  <2>2. Charged(h)
    BY DEF SendingInv, Charged
  <2>3. Amount(h)' = Amount(h)
    BY <2>1 DEF Amount
  <2>4. CASE h # req[r].hour
    <3>1. Sending(h)' \subseteq Sending(h)
      BY <2>1 DEF Sending, At, Others, NoRequest
    <3>2. sent'[h] = sent[h]
      BY <2>0, <2>1, <2>4 DEF TypeOK
    <3>3. QED
      BY <2>2, <2>3, <3>1, <3>2, SendingShrinks
  <2>5. CASE h = req[r].hour
    <3>1. r \in Sending(h) /\ Sending(h)' = Sending(h) \ {r}
      BY <2>0, <2>1, <2>5 DEF Sending, At, Others, NoRequest
    <3>2. Sending(h) \in SUBSET Requests
      BY DEF Sending
    <3>3. sent'[h] + Cardinality(Sending(h)') = sent[h] + Cardinality(Sending(h))
      <4>1. /\ Cardinality(Sending(h)) \in Nat
            /\ Cardinality(Sending(h)') = Cardinality(Sending(h)) - 1
        BY <3>1, <3>2, Counted, OneLess
      <4>2. sent[h] \in Nat /\ sent'[h] = sent[h] + 1
        BY <2>1, <2>5 DEF TypeOK
      <4>3. QED
        BY <4>1, <4>2
    <3>4. QED
      BY <2>2, <2>3, <3>3 DEF Charged
  <2>6. QED
    BY <2>4, <2>5
<1>11. ASSUME NEW r \in Requests, Abort(r) PROVE SendingInv'
  BY <1>2, <1>11 DEF Abort
<1>12. QED
  BY <1>1, <1>4, <1>5, <1>6, <1>7, <1>8, <1>9, <1>10, <1>11
     DEF Next, SendingInv, Charged
-----------------------------------------------------------------------------
(* Claims *)

Honest(a) ==
  /\ last[a] <= DayOf[now]
  /\ \A d \in Days : d > last[a] => claims[a][d] = 0
  /\ \A d \in Days : claims[a][d] <= Cardinality(Requests)
  /\ last[a] = DayOf[now] =>
       claims[a][last[a]] + Cardinality(Claiming(a)) <= Cardinality(Requests)

\* Steps that write no claim: requests only join those claiming for an account
\* that has not drawn today.
LEMMA NoneClaimed ==
  ASSUME TypeOK, TypeOK', NEW a \in Accounts, Honest(a), last'[a] = last[a],
         claims'[a] = claims[a], now' = now,
         last[a] = DayOf[now] => Claiming(a)' \subseteq Claiming(a)
  PROVE  Honest(a)'
<1>1. ASSUME last[a] = DayOf[now]
      PROVE  claims'[a][last'[a]] + Cardinality(Claiming(a)') <= Cardinality(Requests)
  <2>1. Claiming(a) \in SUBSET Requests /\ Claiming(a)' \in SUBSET Claiming(a)
    BY <1>1 DEF Claiming
  <2>2. /\ Cardinality(Claiming(a)) \in Nat
        /\ Cardinality(Claiming(a)') \in Nat
        /\ Cardinality(Claiming(a)') <= Cardinality(Claiming(a))
        /\ Cardinality(Requests) \in Nat
    BY <2>1, Fewer, Counted
  <2>3. DayOf[now] \in Days
    BY DayType DEF TypeOK
  <2>4. claims[a][last[a]] \in Nat
    BY <1>1, <2>3 DEF TypeOK
  <2>5. claims[a][last[a]] + Cardinality(Claiming(a)) <= Cardinality(Requests)
    BY <1>1 DEF Honest
  <2>6. claims'[a][last'[a]] = claims[a][last[a]]
    OBVIOUS
  <2>7. QED
    BY <2>2, <2>4, <2>5, <2>6
<1>2. QED
  BY <1>1 DEF Honest

LEMMA ClaimsNext ==
  ASSUME TypeOK, TypeOK', ClaimsInv, [Next]_vars, NEW a \in Accounts
  PROVE  Honest(a)'
<1>0. Honest(a)
  BY DEF ClaimsInv, Honest
<1>1. CASE UNCHANGED vars
  BY <1>0, <1>1, NoneClaimed DEF vars, Claiming, At
<1>2. CASE Tick
  <2>1. /\ DayOf[now] \in Nat /\ DayOf[now'] \in Nat
        /\ DayOf[now] <= DayOf[now']
    BY <1>2, ClockAssumption DEF Tick, TypeOK, Clock
  <2>2. last[a] \in Nat \cup {-1}
    BY DaysAreNat DEF TypeOK, NoRow
  <2>3. last[a] <= DayOf[now'] /\ (last[a] = DayOf[now'] => last[a] = DayOf[now])
    BY <1>0, <2>1, <2>2 DEF Honest
  <2>4. Claiming(a)' = Claiming(a)
    BY <1>2 DEF Tick, Claiming, At
  <2>5. QED
    BY <1>0, <1>2, <2>3, <2>4 DEF Tick, Honest
<1>3. ASSUME NEW r \in Requests, UNCHANGED <<now, last, claims>>, Others(r),
             req'[r].at # "save" \/ last[req'[r].account] # DayOf[now]
      PROVE  Honest(a)'
  <2>1. last[a] = DayOf[now] => Claiming(a)' \subseteq Claiming(a)
    BY <1>3 DEF Claiming, At, Others
  <2>2. QED
    BY <1>0, <1>3, <2>1, NoneClaimed
<1>4. ASSUME NEW r \in Requests, Answer(r), UNCHANGED <<now, last, claims>> PROVE Honest(a)'
  <2>1. Others(r) /\ req'[r].at = "idle"
    BY <1>4 DEF Answer, Others, TypeOK, NoRequest
  <2>2. QED
    BY <1>3, <1>4, <2>1
<1>5. ASSUME NEW r \in Requests, NEW at \in Positions \ {"save"}, Goto(r, at),
             req[r] \in Request, UNCHANGED <<now, last, claims>>
      PROVE  Honest(a)'
  <2>1. Others(r) /\ req'[r].at # "save"
    BY <1>5 DEF Goto, Others, TypeOK, Request
  <2>2. QED
    BY <1>3, <1>5, <2>1
<1>6. ASSUME NEW r \in Requests, NEW b \in Accounts, Receive(r, b) PROVE Honest(a)'
  <2>1. Others(r) /\ req'[r].at = "quota"
    BY <1>6 DEF Receive, Others, TypeOK
  <2>2. QED
    BY <1>3, <1>6, <2>1 DEF Receive
<1>7. ASSUME NEW r \in Requests, ReadQuota(r) PROVE Honest(a)'
  <2>1. req[r] \in Request
    BY <1>7, RequestAt DEF ReadQuota, At, Positions
  <2>2. Others(r) /\ req'[r].at # "save"
    BY <1>7, <2>1 DEF ReadQuota, Answer, Goto, NoRequest, Others, TypeOK, Request
  <2>3. QED
    BY <1>3, <1>7, <2>2 DEF ReadQuota
<1>8. ASSUME NEW r \in Requests, OpenHour(r) PROVE Honest(a)'
  <2>1. req[r] \in Request
    BY <1>8, RequestAt DEF OpenHour, At, Positions
  <2>2. QED
    BY <1>4, <1>5, <1>8, <2>1 DEF OpenHour, Positions
<1>9. ASSUME NEW r \in Requests, CheckClaim(r) PROVE Honest(a)'
  <2>1. req[r] \in Request /\ UNCHANGED <<now, last, claims>>
    BY <1>9, RequestAt DEF CheckClaim, At, Positions
  <2>2. CASE Answer(r)
    BY <1>4, <2>1, <2>2
  <2>3. CASE ~Answer(r)
    <3>1. PICK b \in BOOLEAN : req' = [req EXCEPT ![r].at = "save", ![r].first = b]
      BY <1>9, <2>3 DEF CheckClaim
    <3>2. last[req[r].account] # DayOf[now]
      BY <1>9, <2>3 DEF CheckClaim
    <3>3. Others(r) /\ req'[r].account = req[r].account
      BY <2>1, <3>1 DEF Others, TypeOK, Request
    <3>4. QED
      BY <1>3, <2>1, <3>2, <3>3
  <2>4. QED
    BY <2>2, <2>3
<1>10. ASSUME NEW r \in Requests, SaveClaim(r) PROVE Honest(a)'
  <2>0. /\ req[r] \in Request /\ req[r].at = "save"
        /\ DayOf[now] \in Days /\ DayOf[now] \in Nat /\ now' = now
    BY <1>10, RequestAt, DayType DEF SaveClaim, At, Positions, TypeOK
  <2>1. CASE Answer(r) /\ UNCHANGED <<last, claims>>
    BY <1>4, <2>0, <2>1
  <2>2. CASE /\ last' = [last EXCEPT ![req[r].account] = DayOf[now]]
             /\ claims' = [claims EXCEPT ![req[r].account][DayOf[now]] = @ + 1]
             /\ Goto(r, "charge")
    <3>1. /\ Others(r)
          /\ req'[r].at = "charge"
          /\ req[r].account \in Accounts
      BY <2>0, <2>2 DEF Goto, Others, TypeOK, Request
    <3>2. CASE a # req[r].account
      <4>1. last'[a] = last[a] /\ claims'[a] = claims[a]
        BY <2>2, <3>2 DEF TypeOK
      <4>2. Claiming(a)' \subseteq Claiming(a)
        BY <3>1 DEF Claiming, At, Others
      <4>3. QED
        BY <1>0, <2>0, <4>1, <4>2, NoneClaimed
    <3>3. CASE a = req[r].account
      <4> DEFINE D == DayOf[now]
                 N == Cardinality(Requests)
                 n == Cardinality(Claiming(a))
      <4>1. /\ last'[a] = D
            /\ claims'[a] = [claims[a] EXCEPT ![D] = claims[a][D] + 1]
            /\ claims[a] \in [Days -> Nat]
        BY <2>0, <2>2, <3>3 DEF TypeOK
      <4>2. /\ claims'[a][D] = claims[a][D] + 1
            /\ claims[a][D] \in Nat
            /\ \A d \in Days : d # D => claims'[a][d] = claims[a][d]
        BY <2>0, <4>1
      <4>3. r \in Claiming(a) /\ Claiming(a)' = Claiming(a) \ {r}
        BY <2>0, <3>1, <3>3 DEF Claiming, At, Others
      <4>4. Claiming(a) \in SUBSET Requests
        BY DEF Claiming
      <4>5. n \in Nat /\ N \in Nat /\ n <= N /\ Cardinality(Claiming(a)') = n - 1
        BY <4>3, <4>4, Counted, OneLess
      <4>6. n - 1 \in Nat
        <5>1. Claiming(a)' \in SUBSET Requests
          BY <4>3, <4>4
        <5>2. QED
          BY <4>5, <5>1, Counted
      <4>7. last[a] \in Nat \cup {-1} /\ last[a] <= D
        BY <1>0, DaysAreNat DEF Honest, TypeOK, NoRow
      <4>8. claims[a][D] + n <= N
        <5>1. CASE last[a] = D
          BY <1>0, <5>1 DEF Honest
        <5>2. CASE last[a] # D
          <6>1. D > last[a]
            BY <2>0, <4>7, <5>2
          <6>2. claims[a][D] = 0
            BY <1>0, <2>0, <6>1 DEF Honest
          <6>3. QED
            BY <4>5, <6>2
        <5>3. QED
          BY <5>1, <5>2
      <4>9. claims'[a][D] <= N /\ claims'[a][D] + Cardinality(Claiming(a)') <= N
        BY <4>2, <4>5, <4>6, <4>8
      <4>10. \A d \in Days : d > D => claims'[a][d] = 0
        <5>1. ASSUME NEW d \in Days, d > D PROVE d > last[a] /\ d # D
          BY <2>0, <4>7, <5>1, DaysAreNat
        <5>2. QED
          BY <1>0, <4>2, <5>1 DEF Honest
      <4>11. \A d \in Days : claims'[a][d] <= N
        BY <1>0, <4>2, <4>9 DEF Honest
      <4>12. DayOf[now'] = D /\ D <= D
        BY <2>0
      <4> HIDE DEF D, N
      <4>13. QED
        BY <4>1, <4>9, <4>10, <4>11, <4>12 DEF Honest, N
    <3>4. QED
      BY <3>2, <3>3
  <2>3. QED
    BY <1>10, <2>1, <2>2 DEF SaveClaim
<1>11. ASSUME NEW r \in Requests, ChargeHour(r) PROVE Honest(a)'
  <2>1. req[r] \in Request
    BY <1>11, RequestAt DEF ChargeHour, At, Positions
  <2>2. QED
    BY <1>5, <1>11, <2>1 DEF ChargeHour, Positions
<1>12. ASSUME NEW r \in Requests, Send(r) \/ Abort(r) PROVE Honest(a)'
  BY <1>4, <1>12 DEF Send, Abort
<1>13. QED
  BY <1>1, <1>2, <1>6, <1>7, <1>8, <1>9, <1>10, <1>11, <1>12 DEF Next

-----------------------------------------------------------------------------
(* The theorems *)

FaucetInv == TypeOK /\ OverdraftInv /\ ClaimsInv /\ SendingInv

LEMMA FaucetInit == Init => FaucetInv
<1> SUFFICES ASSUME Init PROVE FaucetInv
  OBVIOUS
<1>1. TypeOK
  BY TypeInit
<1>2. \A h \in Clock : Drawing(h) = {} /\ Sending(h) = {} /\ Amount(h) = 0
  BY DEF Init, Drawing, Sending, At, NoRequest, Amount
<1>3. \A h \in Clock : Bounded(h) /\ Charged(h)
  <2>1. Cardinality(Requests) \in Nat /\ Cardinality(Requests) # 0
    BY RequestsAssumption, FS_CardinalityType, FS_EmptySet
  <2>2. (Cardinality(Requests) - 1) * maxUserQuota \in Nat
    BY <2>1, QuotaAssumption
  <2>3. Cardinality({}) = 0 /\ 0 * maxUserQuota = 0 /\ (0 + 0) * maxUserQuota = 0
    BY FS_EmptySet, QuotaAssumption
  <2>4. \A h \in Clock : Bounded(h)
    <3> DEFINE z == (Cardinality(Requests) - 1) * maxUserQuota
    <3>1. z \in Nat
      BY <2>2
    <3> HIDE DEF z
    <3>2. 0 + 0 <= hourlyQuota + z
      BY <3>1, QuotaAssumption
    <3>3. QED
      BY <1>2, <2>3, <3>2 DEF Bounded, z
  <2>5. \A h \in Clock : Charged(h)
    BY <1>2, <2>3 DEF Charged, Init
  <2>6. QED
    BY <2>4, <2>5
<1>4. OverdraftInv
  BY <1>3 DEF Bounded, OverdraftInv, Init, NoRequest
<1>5. SendingInv
  BY <1>3 DEF Charged, SendingInv
<1>6. ClaimsInv
  <2>1. DayOf[now] \in Nat /\ Cardinality(Requests) \in Nat
    BY <1>1, DayType, RequestsAssumption, FS_CardinalityType DEF TypeOK
  <2>2. QED
    BY <2>1 DEF Init, ClaimsInv, NoRow
<1>7. QED
  BY <1>1, <1>4, <1>5, <1>6 DEF FaucetInv

LEMMA FaucetNext == FaucetInv /\ [Next]_vars => FaucetInv'
<1> SUFFICES ASSUME FaucetInv, [Next]_vars PROVE FaucetInv'
  OBVIOUS
<1>1. TypeOK /\ TypeOK'
  BY TypeNext DEF FaucetInv
<1>2. OverdraftInv'
  BY <1>1, OverdraftNext DEF FaucetInv
<1>3. SendingInv'
  BY <1>1, SendingNext DEF FaucetInv
<1>4. ClaimsInv'
  <2>1. \A a \in Accounts : Honest(a)'
    BY <1>1, ClaimsNext DEF FaucetInv
  <2>2. QED
    BY <2>1 DEF ClaimsInv, Honest
<1>5. QED
  BY <1>1, <1>2, <1>3, <1>4 DEF FaucetInv

\* What a request has read bounds what it can still do, in every reachable
\* state: the invariant behind the three bounds below.
THEOREM FaucetInvariant == Spec => []FaucetInv
BY FaucetInit, FaucetNext, PTL DEF Spec

\* Clock, rows, counters and requests are always of their types.
THEOREM TypeCorrect == Spec => []TypeOK
BY TypeInit, TypeNext, PTL DEF Spec

\* An hour's quota is exceeded at most by one share for each request under way
\* except one: ReceiveTokens is exact for requests that do not overlap.
THEOREM OverdraftIsBounded == Spec => []OverdraftBounded
<1>1. FaucetInv => OverdraftBounded
  <2> SUFFICES ASSUME FaucetInv, NEW h \in Clock
               PROVE  Amount(h) <= hourlyQuota + (Cardinality(Requests) - 1) * maxUserQuota
    BY DEF OverdraftBounded
  <2> DEFINE x == Cardinality(Drawing(h)) * maxUserQuota
             z == (Cardinality(Requests) - 1) * maxUserQuota
  <2>1. Drawing(h) \in SUBSET Requests
    BY DEF Drawing
  <2>2. Cardinality(Drawing(h)) \in Nat /\ Cardinality(Requests) \in Nat
    BY <2>1, Counted
  <2>3. x \in Nat /\ z \in Int
    BY <2>2, QuotaAssumption
  <2>4. Amount(h) \in Nat
    BY AmountType DEF FaucetInv
  <2>5. Amount(h) + x <= hourlyQuota + z
    BY DEF FaucetInv, OverdraftInv
  <2> HIDE DEF x, z
  <2>6. Amount(h) <= hourlyQuota + z
    BY <2>3, <2>4, <2>5, QuotaAssumption
  <2>7. QED
    BY <2>6 DEF z
<1>2. QED
  BY <1>1, FaucetInvariant, PTL

\* An account draws at most once a day per request under way together.
THEOREM ClaimsAreBounded == Spec => []ClaimsBounded
<1>1. FaucetInv => ClaimsBounded
  BY DEF FaucetInv, ClaimsInv, ClaimsBounded
<1>2. QED
  BY <1>1, FaucetInvariant, PTL

\* The chain never sends tokens that are not charged to an hour.
THEOREM TransfersAreCharged == Spec => []TransfersCharged
<1>1. FaucetInv => TransfersCharged
  <2> SUFFICES ASSUME FaucetInv, NEW h \in Clock
               PROVE  sent[h] * maxUserQuota <= Amount(h)
    BY DEF TransfersCharged
  <2> DEFINE m == sent[h]
             n == sent[h] + Cardinality(Sending(h))
             x == m * maxUserQuota
             y == n * maxUserQuota
  <2>1. Sending(h) \in SUBSET Requests
    BY DEF Sending
  <2>2. Cardinality(Sending(h)) \in Nat /\ sent[h] \in Nat
    BY <2>1, Counted DEF FaucetInv, TypeOK
  <2>3. m \in Nat /\ n \in Nat /\ m <= n
    BY <2>2
  <2>4. x <= y /\ x \in Nat /\ y \in Nat
    BY <2>3, Times, QuotaAssumption
  <2>5. Amount(h) \in Nat /\ y <= Amount(h)
    BY AmountType DEF FaucetInv, SendingInv
  <2> HIDE DEF x, y
  <2>6. x <= Amount(h)
    BY <2>4, <2>5
  <2>7. QED
    BY <2>6 DEF x
<1>2. QED
  BY <1>1, FaucetInvariant, PTL
=============================================================================
