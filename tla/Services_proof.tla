--------------------------- MODULE Services_proof ---------------------------
(***************************************************************************)
(* Proofs about the services of Services: for each an inductive invariant  *)
(* of its own steps, and in the end the theorems about all of them. Owners *)
(* are proved about in a module of their own, which is instantiated here;  *)
(* the proofs about rewards, rows, charts and pages are in                 *)
(* Statistics_proof.                                                       *)
(***************************************************************************)
EXTENDS Services, Sums_proof, SequenceTheorems, FiniteSetTheorems, TLAPS

-----------------------------------------------------------------------------
(* Users: Accounts.                                                        *)

Registrants == {v \in Names : AC!Registered(v)}

UserTypes ==
    /\ user \in [Names -> [exists : BOOLEAN, referrer : Names \cup {NoName},
                           wallet : Wallets \cup {NoName}, password : BOOLEAN]]
    /\ born \in [Names -> Nat]

\* No user is younger than the table is large.
BornInv == \A u \in Registrants : born[u] <= Cardinality(Registrants)

\* A request may be about to insert a user whose referrer it has looked up; users
\* are never deleted, so that the referrer is still there.
Inserting ==
    /\ DOMAIN request = Requests
    /\ \A r \in Requests : request[r].pc = "insert" =>
         /\ request[r].user \in Names
         /\ request[r].password \in BOOLEAN
         /\ request[r].referrer \in Registrants \cup {NoName}

\* A request that binds a wallet carries one.
Binding ==
    \A r \in Requests : request[r].pc = "wallet" =>
        request[r].user \in Names /\ request[r].wallet \in Wallets

AccountInv == UserTypes /\ BornInv /\ Inserting /\ Binding /\ AC!ReferrersAreOlder

-----------------------------------------------------------------------------
LEMMA AccountInit == AC!Init => AccountInv
BY DEF AC!Init, AccountInv, UserTypes, BornInv, Inserting, Binding, AC!ReferrersAreOlder,
       Registrants, AC!Registered, AC!NoUserRow, AC!Free

\* A step that neither inserts users nor changes who referred them.
LEMMA UsersStay ==
    ASSUME AccountInv, UserTypes', UNCHANGED born,
           \A u \in Names : /\ user'[u].exists = user[u].exists
                            /\ user'[u].referrer = user[u].referrer
    PROVE  Registrants' = Registrants /\ BornInv' /\ AC!ReferrersAreOlder'
<1>1. Registrants' = Registrants /\ \A u \in Names : AC!Registered(u)' = AC!Registered(u)
  BY DEF Registrants, AC!Registered
<1>2. QED
  BY <1>1 DEF AccountInv, UserTypes, BornInv, AC!ReferrersAreOlder

\* A request goes on with something other than an INSERT and a wallet.
LEMMA RequestGoes ==
    ASSUME AccountInv, Registrants \subseteq Registrants', NEW r \in Requests, NEW local, AC!Set(r, local),
           local.pc = "insert" => /\ local.user \in Names /\ local.password \in BOOLEAN
                                  /\ local.referrer \in Registrants \cup {NoName},
           local.pc = "wallet" => local.user \in Names /\ local.wallet \in Wallets
    PROVE  Inserting' /\ Binding'
<1>1. /\ DOMAIN request' = Requests
      /\ \A q \in Requests : request'[q] = IF q = r THEN local ELSE request[q]
  BY DEF AC!Set, AccountInv, Inserting
<1>2. QED
  BY <1>1 DEF AccountInv, Inserting, Binding

LEMMA RequestsStay ==
    ASSUME AccountInv, Registrants \subseteq Registrants', UNCHANGED request
    PROVE  Inserting' /\ Binding'
BY DEF AccountInv, Inserting, Binding

\* AC!CreateUser leads to an INSERT of a user with a referrer of the table.
LEMMA CreateUserGoes ==
    ASSUME AccountInv, UNCHANGED <<user, born>>, NEW r \in Requests, NEW u \in Names,
           NEW referrer \in Registrants \cup {NoName}, NEW password \in BOOLEAN, NEW sso,
           AC!CreateUser(r, u, referrer, password, sso)
    PROVE  AccountInv'
<1> DEFINE local == [pc |-> "insert", user |-> u, referrer |-> referrer,
                     password |-> password, sso |-> sso]
<1>1. AC!Set(r, local)
  BY DEF AC!CreateUser
<1>2. /\ local.pc = "insert" /\ local.user \in Names /\ local.password \in BOOLEAN
      /\ local.referrer \in Registrants \cup {NoName}
  OBVIOUS
<1> HIDE DEF local
<1>3. UserTypes' /\ Registrants' = Registrants /\ BornInv' /\ AC!ReferrersAreOlder'
  BY UsersStay DEF AccountInv, UserTypes
<1>4. Inserting' /\ Binding'
  BY <1>1, <1>2, <1>3, RequestGoes
<1>5. QED
  BY <1>3, <1>4 DEF AccountInv

LEMMA InsertUserStep ==
    ASSUME IsFiniteSet(Names), AccountInv, NEW r \in Requests, AC!InsertUser(r)
    PROVE  AccountInv'
<1> DEFINE q == request[r]
           local == [pc |-> "code", user |-> q.user, sso |-> q.sso]
           row == [exists |-> TRUE, referrer |-> q.referrer, wallet |-> NoName,
                   password |-> q.password]
<1>0. AC!Cardinality(Registrants) = Cardinality(Registrants)
  BY Zenon DEF AC!Cardinality, Cardinality
<1>1. /\ q.pc = "insert" /\ q.user \in Names /\ q.password \in BOOLEAN
      /\ q.referrer \in Registrants \cup {NoName}
  BY DEF AC!InsertUser, AccountInv, Inserting
<1>2. AC!Set(r, local) /\ local.pc = "code"
  BY DEF AC!InsertUser
<1> HIDE DEF local
<1>3. CASE UNCHANGED <<user, born>>
  <2>1. UserTypes' /\ Registrants' = Registrants /\ BornInv' /\ AC!ReferrersAreOlder'
    BY <1>3, UsersStay DEF AccountInv, UserTypes
  <2>2. QED
    BY <1>2, <2>1, RequestGoes DEF AccountInv
<1>4. CASE /\ ~AC!Registered(q.user)
           /\ user' = [user EXCEPT ![q.user] = row]
           /\ born' = [born EXCEPT ![q.user] = Cardinality(Registrants) + 1]
  <2>1. IsFiniteSet(Registrants) /\ Cardinality(Registrants) \in Nat
    BY FS_Subset, FS_CardinalityType DEF Registrants
  <2>2. UserTypes'
    BY <1>1, <1>4, <2>1 DEF AccountInv, UserTypes, Registrants
  <2>3. \A u \in Names : /\ user'[u] = IF u = q.user THEN row ELSE user[u]
                         /\ born'[u] = IF u = q.user THEN Cardinality(Registrants) + 1 ELSE born[u]
    BY <1>1, <1>4 DEF AccountInv, UserTypes
  <2>4. Registrants' = Registrants \cup {q.user} /\ q.user \notin Registrants
    BY <1>1, <1>4, <2>3 DEF Registrants, AC!Registered
  <2>5. Cardinality(Registrants') = Cardinality(Registrants) + 1
    BY <2>1, <2>4, FS_AddElement
  <2>6. BornInv'
    BY <2>1, <2>3, <2>4, <2>5 DEF AccountInv, BornInv, UserTypes, Registrants
  <2>7. AC!ReferrersAreOlder'
    <3> SUFFICES ASSUME NEW u \in Names, u \in Registrants', user'[u].referrer # NoName
                 PROVE  /\ user'[u].referrer \in Registrants'
                        /\ born'[user'[u].referrer] < born'[u]
      BY DEF AC!ReferrersAreOlder, Registrants, AC!Registered
    <3>1. CASE u = q.user
      <4>1. user'[u].referrer = q.referrer /\ q.referrer \in Registrants
        BY <1>1, <2>3, <3>1
      <4>2. born[q.referrer] <= Cardinality(Registrants) /\ born[q.referrer] \in Nat
        BY <4>1 DEF AccountInv, BornInv, UserTypes, Registrants
      <4>3. QED
        BY <2>1, <2>3, <2>4, <3>1, <4>1, <4>2 DEF Registrants
    <3>2. CASE u # q.user
      <4>1. user'[u] = user[u] /\ u \in Registrants
        BY <2>3, <2>4, <3>2
      <4>2. user[u].referrer \in Registrants /\ born[user[u].referrer] < born[u]
        BY <4>1 DEF AccountInv, AC!ReferrersAreOlder, UserTypes, Registrants
      <4>3. QED
        BY <2>3, <2>4, <3>2, <4>1, <4>2 DEF Registrants
    <3>3. QED
      BY <3>1, <3>2
  <2>8. Inserting' /\ Binding'
    BY <1>2, <2>4, RequestGoes
  <2>9. QED
    BY <2>2, <2>6, <2>7, <2>8 DEF AccountInv
<1>5. QED
  BY <1>0, <1>3, <1>4 DEF AC!InsertUser, Registrants

\* The columns that are not about referrers.
LEMMA OtherColumns ==
    ASSUME AccountInv, UNCHANGED born,
           \/ UNCHANGED user
           \/ \E u \in Names : user' = [user EXCEPT ![u].password = user[u].exists]
           \/ \E u \in Names, w \in Wallets \cup {NoName} : user' = [user EXCEPT ![u].wallet = w]
    PROVE  UserTypes' /\ Registrants' = Registrants /\ BornInv' /\ AC!ReferrersAreOlder'
<1>1. /\ UserTypes'
      /\ \A u \in Names : /\ user'[u].exists = user[u].exists
                          /\ user'[u].referrer = user[u].referrer
  BY DEF AccountInv, UserTypes
<1>2. QED
  BY <1>1, UsersStay

LEMMA RequestSteps ==
    ASSUME AccountInv, NEW r \in Requests,
           \/ AC!InsertReferralCode(r) \/ AC!UpdateUserWalletAddress(r)
           \/ \E u \in Names : AC!AddReferralCode(r, u) \/ \E w \in Wallets : AC!BindWallet(r, u, w)
    PROVE  AccountInv'
<1>1. CASE AC!InsertReferralCode(r)
  BY <1>1, OtherColumns, RequestGoes DEF AC!InsertReferralCode, AC!End, AC!Free, AccountInv
<1>2. CASE AC!UpdateUserWalletAddress(r)
  <2>1. request[r].user \in Names /\ request[r].wallet \in Wallets
    BY <1>2 DEF AC!UpdateUserWalletAddress, AccountInv, Binding
  <2>2. UserTypes' /\ Registrants' = Registrants /\ BornInv' /\ AC!ReferrersAreOlder'
    BY <1>2, <2>1, OtherColumns DEF AC!UpdateUserWalletAddress
  <2>3. QED
    BY <1>2, <2>2, RequestGoes DEF AC!UpdateUserWalletAddress, AC!End, AC!Free, AccountInv
<1>3. ASSUME NEW u \in Names, AC!AddReferralCode(r, u) PROVE AccountInv'
  BY <1>3, OtherColumns, RequestGoes DEF AC!AddReferralCode, AccountInv
<1>4. ASSUME NEW u \in Names, NEW w \in Wallets, AC!BindWallet(r, u, w) PROVE AccountInv'
  BY <1>4, OtherColumns, RequestGoes DEF AC!BindWallet, AccountInv
<1>5. QED
  BY <1>1, <1>2, <1>3, <1>4

LEMMA AccountRests == AccountInv /\ UNCHANGED <<user, born, request>> => AccountInv'
BY OtherColumns, RequestsStay DEF AccountInv

LEMMA AccountNext == IsFiniteSet(Names) /\ AccountInv /\ AC!Next => AccountInv'
<1> SUFFICES ASSUME IsFiniteSet(Names), AccountInv, AC!Next PROVE AccountInv'
  OBVIOUS
<1>1. ASSUME NEW r \in Requests, NEW u \in Names, AC!GetNonceString(r, u) \/ AC!SSOLogin(r, u)
      PROVE  AccountInv'
  BY <1>1, AccountRests, CreateUserGoes DEF AC!GetNonceString, AC!SSOLogin
<1>2. ASSUME NEW r \in Requests, NEW u \in Names, AC!UserRegister(r, u) PROVE AccountInv'
  <2>1. AC!GetUserByRefCode \subseteq Registrants
    BY DEF AC!GetUserByRefCode, Registrants
  <2>2. QED
    BY <1>2, <2>1, CreateUserGoes DEF AC!UserRegister
<1>3. ASSUME NEW u \in Names,
             \/ AC!Login(u) \/ AC!TokenExpires(u) \/ AC!PasswordReset(u) \/ AC!UnBindWallet(u)
             \/ \E k \in AC!Kinds : AC!GetNumericVerifyCode(u, k) \/ AC!NonceExpires(u, k)
      PROVE  AccountInv'
  <2>1. UNCHANGED <<born, request>>
    BY <1>3 DEF AC!Login, AC!LoginBySignature, AC!LoginByVerifyCode, AC!LoginByPassword, AC!TokenExpires,
                AC!PasswordReset, AC!UnBindWallet, AC!GetNumericVerifyCode, AC!NonceExpires
  <2>2. \/ UNCHANGED user
        \/ user' = [user EXCEPT ![u].password = user[u].exists]
        \/ user' = [user EXCEPT ![u].wallet = NoName]
    BY <1>3 DEF AC!Login, AC!LoginBySignature, AC!LoginByVerifyCode, AC!LoginByPassword, AC!TokenExpires,
                AC!PasswordReset, AC!UnBindWallet, AC!GetNumericVerifyCode, AC!NonceExpires
  <2>3. UserTypes' /\ Registrants' = Registrants /\ BornInv' /\ AC!ReferrersAreOlder'
    BY <2>1, <2>2, OtherColumns
  <2>4. QED
    BY <2>1, <2>3, RequestsStay DEF AccountInv
<1>4. QED
  BY <1>1, <1>2, <1>3, InsertUserStep, RequestSteps DEF AC!Next

\* The users: rows, their order of birth, and what requests have looked up.
LEMMA AccountInvariant == Spec => []AccountInv
<1>1. Init => AccountInv
  BY AccountInit DEF Init
<1>2. AccountInv /\ [Next]_serviceVars => AccountInv'
  <2>1. AccountInv /\ UNCHANGED accountVars => AccountInv'
    BY AccountRests DEF accountVars
  <2>2. QED
    BY <2>1, AccountNext, NamesAssumption DEF Next, serviceVars
<1>3. QED
  BY <1>1, <1>2, PTL DEF Spec

\* What requests are doing to a user.
On(q, pc, u) == {r \in Requests : q[r].pc = pc /\ q[r].user = u}
Doing(pc, u) == Cardinality(On(request, pc, u))

CodeTypes ==
    /\ lost \in 0 .. MaxLost /\ session \subseteq Names
    /\ nonce \in [Names -> SUBSET AC!Kinds] /\ referralCode \in [Names -> Nat]
    /\ \A r \in Requests : request[r].pc \in {"insert", "code"} => request[r].user \in Names

\* The referral codes a user has and is about to get. Every INSERT that was lost, and
\* every one still to come for a user who is there by now, may have added one to those
\* that AddReferralCode has counted.
CodesCounted ==
    \A u \in Names :
        IF AC!Registered(u)
        THEN referralCode[u] + Doing("code", u) + Doing("insert", u)
               <= MaxCodes - 1 + 2 * Cardinality(Requests) + lost
        ELSE /\ referralCode[u] + Doing("code", u) <= MaxCodes - 1 + Cardinality(Requests) + lost
             /\ born[u] = 0

CodeInv == CodeTypes /\ CodesCounted

LEMMA DoingIs ==
    ASSUME NEW q, NEW pc, NEW u
    PROVE  /\ IsFiniteSet(On(q, pc, u)) /\ Cardinality(On(q, pc, u)) \in Nat
           /\ Cardinality(On(q, pc, u)) <= Cardinality(Requests)
           /\ Cardinality(Requests) \in Nat \ {0}
<1>1. IsFiniteSet(Requests) /\ Requests # {} /\ On(q, pc, u) \subseteq Requests
  BY RequestsAssumption DEF On
<1>2. QED
  BY <1>1, FS_Subset, FS_CardinalityType, FS_EmptySet

\* The first steps of a user's requests.
LEMMA CodeInit == AC!Init => CodeInv
<1> SUFFICES ASSUME AC!Init PROVE CodeInv
  OBVIOUS
<1>1. ASSUME NEW u, NEW pc \in {"code", "insert"} PROVE Doing(pc, u) = 0
  <2>1. On(request, pc, u) = {}
    BY DEF On, AC!Init, AC!Free
  <2>2. QED
    BY <2>1, FS_EmptySet DEF Doing
<1>2. Cardinality(Requests) \in Nat \ {0}
  BY DoingIs
<1>3. CodesCounted
  <2> SUFFICES ASSUME NEW u \in Names
               PROVE  IF AC!Registered(u)
                      THEN referralCode[u] + Doing("code", u) + Doing("insert", u)
                             <= MaxCodes - 1 + 2 * Cardinality(Requests) + lost
                      ELSE /\ referralCode[u] + Doing("code", u)
                                <= MaxCodes - 1 + Cardinality(Requests) + lost
                           /\ born[u] = 0
    BY Zenon DEF CodesCounted
  <2>1. ~AC!Registered(u)
    BY DEF AC!Init, AC!Registered, AC!NoUserRow
  <2>2. referralCode[u] = 0 /\ lost = 0 /\ born[u] = 0
    BY DEF AC!Init
  <2>3. Doing("code", u) = 0
    BY <1>1
  <2>4. 0 + 0 <= MaxCodes - 1 + Cardinality(Requests) + 0
    BY <1>2, NamesAssumption
  <2>5. QED
    BY <2>1, <2>2, <2>3, <2>4, Zenon
<1>4. CodeTypes
  BY NamesAssumption DEF CodeTypes, AC!Init, AC!Free
<1>5. QED
  BY <1>3, <1>4 DEF CodeInv

\* A request goes on: what it was doing is done, what it does is added.
LEMMA DoingGoes ==
    ASSUME AccountInv, NEW r \in Requests, NEW local, AC!Set(r, local), NEW pc, NEW u
    PROVE  Doing(pc, u)' = Doing(pc, u)
             + (IF local.pc = pc /\ local.user = u THEN 1 ELSE 0)
             - (IF request[r].pc = pc /\ request[r].user = u THEN 1 ELSE 0)
<1> DEFINE S == On(request, pc, u)
           T == On(request', pc, u)
<1>1. \A q \in Requests : request'[q] = IF q = r THEN local ELSE request[q]
  BY DEF AC!Set, AccountInv, Inserting
<1>2. /\ T \ {r} = S \ {r}
      /\ r \in T <=> local.pc = pc /\ local.user = u
      /\ r \in S <=> request[r].pc = pc /\ request[r].user = u
  BY <1>1 DEF On
<1>3. IsFiniteSet(S) /\ IsFiniteSet(T) /\ Cardinality(S) \in Nat /\ Cardinality(T) \in Nat
  BY DoingIs
<1>4. /\ Cardinality(S \ {r}) = IF r \in S THEN Cardinality(S) - 1 ELSE Cardinality(S)
      /\ Cardinality(T \ {r}) = IF r \in T THEN Cardinality(T) - 1 ELSE Cardinality(T)
  BY <1>3, FS_RemoveElement
<1>5. Doing(pc, u) = Cardinality(S) /\ Doing(pc, u)' = Cardinality(T)
  BY DEF Doing
<1>6. Cardinality(S \ {r}) = Cardinality(T \ {r})
  BY <1>2
<1> HIDE DEF S, T
<1>7. Cardinality(T) = Cardinality(S) + (IF r \in T THEN 1 ELSE 0) - (IF r \in S THEN 1 ELSE 0)
  BY <1>3, <1>4, <1>6
<1>8. QED
  BY <1>2, <1>5, <1>7

\* A step that adds no code, loses no INSERT and inserts no user: its request may
\* begin the INSERT of a user who is not there.
LEMMA CodesStay ==
    ASSUME AccountInv, CodeInv, CodeTypes', UNCHANGED <<referralCode, lost, born>>,
           \A u \in Names : user'[u].exists = user[u].exists,
           \A u \in Names : /\ Doing("code", u)' = Doing("code", u)
                            /\ user[u].exists => Doing("insert", u)' = Doing("insert", u)
    PROVE  CodeInv'
BY DEF CodeInv, CodesCounted, AC!Registered

LEMMA CodesRest == AccountInv /\ CodeInv /\ UNCHANGED accountVars => CodeInv'
<1> SUFFICES ASSUME AccountInv, CodeInv, UNCHANGED accountVars PROVE CodeInv'
  OBVIOUS
<1>1. CodeTypes'
  BY DEF accountVars, CodeInv, CodeTypes
<1>2. \A pc, u : Doing(pc, u)' = Doing(pc, u)
  BY DEF accountVars, Doing, On
<1>3. QED
  BY <1>1, <1>2, CodesStay DEF accountVars

\* CreateUser begins for a user who is not there.
LEMMA CodesOfCreation ==
    ASSUME AccountInv, CodeInv, UNCHANGED <<user, referralCode, born, lost>>, nonce' \in [Names -> SUBSET AC!Kinds],
           session' \subseteq Names,
           NEW r \in Requests, NEW u \in Names, NEW referrer, NEW password, NEW sso,
           request[r] = AC!Free, ~AC!Registered(u), AC!CreateUser(r, u, referrer, password, sso)
    PROVE  CodeInv'
<1> DEFINE local == [pc |-> "insert", user |-> u, referrer |-> referrer,
                     password |-> password, sso |-> sso]
<1>1. AC!Set(r, local) /\ request[r].pc = "free"
  BY DEF AC!CreateUser, AC!Free
<1>2. CodeTypes'
  <2>1. \A q \in Requests : request'[q] = IF q = r THEN local ELSE request[q]
    BY <1>1 DEF AC!Set, AccountInv, Inserting
  <2>2. QED
    BY <2>1 DEF CodeInv, CodeTypes
<1>3. local.pc = "insert" /\ local.user = u
  OBVIOUS
<1> HIDE DEF local
<1>4. ASSUME NEW v \in Names
      PROVE  /\ Doing("code", v)' = Doing("code", v)
             /\ user[v].exists => Doing("insert", v)' = Doing("insert", v)
  <2>1. Doing("code", v) \in Nat /\ Doing("insert", v) \in Nat
    BY DoingIs DEF Doing
  <2>2. Doing("code", v)' = Doing("code", v)
    BY <1>1, <1>3, <2>1, DoingGoes
  <2>3. user[v].exists => Doing("insert", v)' = Doing("insert", v)
    BY <1>1, <1>3, <2>1, DoingGoes DEF AC!Registered
  <2>4. QED
    BY <2>2, <2>3
<1>5. QED
  BY <1>2, <1>4, CodesStay

\* The first INSERT of CreateUser: the second is to come.
LEMMA CodesOfInsert ==
    ASSUME AccountInv, CodeInv, NEW r \in Requests, AC!InsertUser(r)
    PROVE  CodeInv'
<1> DEFINE u == request[r].user
           local == [pc |-> "code", user |-> u, sso |-> request[r].sso]
<1>1. request[r].pc = "insert" /\ u \in Names /\ AC!Set(r, local)
  BY DEF AC!InsertUser, CodeInv, CodeTypes
<1>2. \A q \in Requests : request'[q] = IF q = r THEN local ELSE request[q]
  BY <1>1 DEF AC!Set, AccountInv, Inserting
<1>3. /\ UNCHANGED <<referralCode, nonce, session>> /\ lost' \in 0 .. MaxLost
      /\ lost \in Nat /\ lost' >= lost /\ lost' \in Nat
  BY NamesAssumption DEF AC!InsertUser, CodeInv, CodeTypes
<1>4. CodeTypes'
  BY <1>1, <1>2, <1>3 DEF CodeInv, CodeTypes
<1>5. local.pc = "code" /\ local.user = u
  OBVIOUS
<1> HIDE DEF local
<1>6. ASSUME NEW v \in Names
      PROVE  /\ Doing("code", v) \in Nat /\ Doing("insert", v) \in Nat
             /\ Doing("insert", v) <= Cardinality(Requests) /\ Cardinality(Requests) \in Nat
             /\ Doing("code", v)' = Doing("code", v) + IF v = u THEN 1 ELSE 0
             /\ Doing("insert", v)' = Doing("insert", v) - IF v = u THEN 1 ELSE 0
  <2>1. /\ Doing("code", v) \in Nat /\ Doing("insert", v) \in Nat
        /\ Doing("insert", v) <= Cardinality(Requests) /\ Cardinality(Requests) \in Nat
    BY DoingIs DEF Doing
  <2>2. Doing("code", v)' = Doing("code", v) + IF v = u THEN 1 ELSE 0
    BY <1>1, <1>5, <2>1, DoingGoes
  <2>3. Doing("insert", v)' = Doing("insert", v) - IF v = u THEN 1 ELSE 0
    BY <1>1, <1>5, <2>1, DoingGoes
  <2>4. QED
    BY <2>1, <2>2, <2>3
<1>7. ASSUME NEW v \in Names PROVE referralCode[v] \in Nat /\ MaxCodes \in Nat
  BY NamesAssumption DEF CodeInv, CodeTypes
<1>8. \/ UNCHANGED <<user, born>> /\ AC!Registered(u) /\ lost' = lost
      \/ UNCHANGED <<user, born>> /\ lost' = lost + 1
      \/ /\ ~AC!Registered(u) /\ lost' = lost
         /\ \A v \in Names : IF v = u THEN user'[v].exists
                             ELSE user'[v] = user[v] /\ born'[v] = born[v]
  BY <1>1 DEF AC!InsertUser, AccountInv, UserTypes
<1>9. ASSUME NEW v \in Names
      PROVE  IF AC!Registered(v)'
             THEN referralCode'[v] + Doing("code", v)' + Doing("insert", v)'
                    <= MaxCodes - 1 + 2 * Cardinality(Requests) + lost'
             ELSE /\ referralCode'[v] + Doing("code", v)'
                       <= MaxCodes - 1 + Cardinality(Requests) + lost'
                  /\ born'[v] = 0
  <2>1. IF AC!Registered(v)
        THEN referralCode[v] + Doing("code", v) + Doing("insert", v)
               <= MaxCodes - 1 + 2 * Cardinality(Requests) + lost
        ELSE /\ referralCode[v] + Doing("code", v) <= MaxCodes - 1 + Cardinality(Requests) + lost
             /\ born[v] = 0
    BY DEF CodeInv, CodesCounted
  <2>2. CASE UNCHANGED <<user, born>> /\ AC!Registered(u) /\ lost' = lost
    BY <1>3, <1>6, <1>7, <2>1, <2>2 DEF AC!Registered
  <2>3. CASE UNCHANGED <<user, born>> /\ lost' = lost + 1
    BY <1>3, <1>6, <1>7, <2>1, <2>3 DEF AC!Registered
  <2>4. CASE /\ ~AC!Registered(u) /\ lost' = lost
             /\ \A w \in Names : IF w = u THEN user'[w].exists
                                 ELSE user'[w] = user[w] /\ born'[w] = born[w]
    BY <1>3, <1>6, <1>7, <2>1, <2>4 DEF AC!Registered
  <2>5. QED
    BY <1>8, <2>2, <2>3, <2>4
<1>10. QED
  BY <1>4, <1>9 DEF CodeInv, CodesCounted

\* The second INSERT of CreateUser, or that of AddReferralCode.
LEMMA CodesOfCode ==
    ASSUME AccountInv, CodeInv, NEW r \in Requests, AC!InsertReferralCode(r)
    PROVE  CodeInv'
<1> DEFINE u == request[r].user
<1>1. request[r].pc = "code" /\ u \in Names /\ AC!Set(r, AC!Free) /\ AC!Free.pc = "free"
  BY DEF AC!InsertReferralCode, CodeInv, CodeTypes, AC!End, AC!Free
<1>2. \A q \in Requests : request'[q] = IF q = r THEN AC!Free ELSE request[q]
  BY <1>1 DEF AC!Set, AccountInv, Inserting
<1>3. UNCHANGED <<user, born, lost>> /\ lost \in Nat
  BY NamesAssumption DEF AC!InsertReferralCode, CodeInv, CodeTypes
<1>4. /\ referralCode' \in [Names -> Nat]
      /\ \A v \in Names : referralCode[v] \in Nat /\ referralCode'[v] \in Nat
                          /\ referralCode'[v] <= referralCode[v] + IF v = u THEN 1 ELSE 0
  BY <1>1 DEF AC!InsertReferralCode, CodeInv, CodeTypes
<1>5. CodeTypes'
  <2>1. session' \subseteq Names /\ nonce' = nonce
    BY <1>1 DEF AC!InsertReferralCode, CodeInv, CodeTypes
  <2>2. QED
    BY <1>1, <1>2, <1>3, <1>4, <2>1 DEF CodeInv, CodeTypes
<1>6. ASSUME NEW v \in Names
      PROVE  /\ Doing("code", v) \in Nat /\ Doing("insert", v) \in Nat
             /\ Cardinality(Requests) \in Nat
             /\ Doing("code", v)' = Doing("code", v) - IF v = u THEN 1 ELSE 0
             /\ Doing("insert", v)' = Doing("insert", v)
  <2>1. Doing("code", v) \in Nat /\ Doing("insert", v) \in Nat /\ Cardinality(Requests) \in Nat
    BY DoingIs DEF Doing
  <2>2. Doing("code", v)' = Doing("code", v) - IF v = u THEN 1 ELSE 0
    BY <1>1, <2>1, DoingGoes
  <2>3. Doing("insert", v)' = Doing("insert", v)
    BY <1>1, <2>1, DoingGoes
  <2>4. QED
    BY <2>1, <2>2, <2>3
<1>7. MaxCodes \in Nat
  BY NamesAssumption
<1>8. CodesCounted'
  BY <1>3, <1>4, <1>6, <1>7 DEF CodeInv, CodesCounted, AC!Registered
<1>9. QED
  BY <1>5, <1>8 DEF CodeInv

\* The codes are counted before one is added.
LEMMA CodesOfAdding ==
    ASSUME AccountInv, CodeInv, NEW r \in Requests, NEW u \in Names, AC!AddReferralCode(r, u)
    PROVE  CodeInv'
<1> DEFINE local == [pc |-> "code", user |-> u, sso |-> FALSE]
<1>1. /\ request[r].pc = "free" /\ AC!Set(r, local) /\ referralCode[u] < MaxCodes
      /\ UNCHANGED <<user, referralCode, nonce, session, born, lost>>
  BY DEF AC!AddReferralCode, AC!Free
<1>2. CodeTypes'
  <2>1. \A q \in Requests : request'[q] = IF q = r THEN local ELSE request[q]
    BY <1>1 DEF AC!Set, AccountInv, Inserting
  <2>2. QED
    BY <1>1, <2>1 DEF CodeInv, CodeTypes
<1>3. local.pc = "code" /\ local.user = u
  OBVIOUS
<1> HIDE DEF local
<1>4. ASSUME NEW v \in Names
      PROVE  /\ Doing("code", v) \in Nat /\ Doing("insert", v) \in Nat
             /\ Doing("insert", v) <= Cardinality(Requests)
             /\ Doing("code", v)' \in Nat /\ Doing("code", v)' <= Cardinality(Requests)
             /\ Cardinality(Requests) \in Nat
             /\ v # u => Doing("code", v)' = Doing("code", v)
             /\ Doing("insert", v)' = Doing("insert", v)
  <2>1. /\ Doing("code", v) \in Nat /\ Doing("insert", v) \in Nat
        /\ Doing("insert", v) <= Cardinality(Requests) /\ Cardinality(Requests) \in Nat
        /\ Doing("code", v)' \in Nat /\ Doing("code", v)' <= Cardinality(Requests)
    BY DoingIs DEF Doing
  <2>2. v # u => Doing("code", v)' = Doing("code", v)
    BY <1>1, <1>3, <2>1, DoingGoes
  <2>3. Doing("insert", v)' = Doing("insert", v)
    BY <1>1, <1>3, <2>1, DoingGoes
  <2>4. QED
    BY <2>1, <2>2, <2>3
<1>5. /\ MaxCodes \in Nat /\ lost \in Nat /\ \A v \in Names : referralCode[v] \in Nat
  BY NamesAssumption DEF CodeInv, CodeTypes
<1>6. CodesCounted'
  BY <1>1, <1>4, <1>5 DEF CodeInv, CodesCounted, AC!Registered
<1>7. QED
  BY <1>2, <1>6 DEF CodeInv

\* Wallets are bound by requests of their own.
LEMMA CodesOfWallets ==
    ASSUME AccountInv, CodeInv, NEW r \in Requests,
           AC!UpdateUserWalletAddress(r) \/ \E u \in Names, w \in Wallets : AC!BindWallet(r, u, w)
    PROVE  CodeInv'
<1>1. PICK local : /\ AC!Set(r, local) /\ local.pc \in {"free", "wallet"}
                   /\ request[r].pc \in {"free", "wallet"}
  <2>1. CASE AC!UpdateUserWalletAddress(r)
    BY <2>1 DEF AC!UpdateUserWalletAddress, AC!End, AC!Free
  <2>2. CASE \E u \in Names, w \in Wallets : AC!BindWallet(r, u, w)
    BY <2>2 DEF AC!BindWallet, AC!Free
  <2>3. QED
    BY <2>1, <2>2
<1>2. UNCHANGED <<referralCode, nonce, session, born, lost>>
  BY DEF AC!UpdateUserWalletAddress, AC!BindWallet
<1>3. \A v \in Names : user'[v].exists = user[v].exists
  <2>1. CASE AC!UpdateUserWalletAddress(r)
    BY <2>1 DEF AC!UpdateUserWalletAddress, AccountInv, UserTypes
  <2>2. CASE \E u \in Names, w \in Wallets : AC!BindWallet(r, u, w)
    BY <2>2 DEF AC!BindWallet
  <2>3. QED
    BY <2>1, <2>2
<1>4. CodeTypes'
  <2>1. \A q \in Requests : request'[q] = IF q = r THEN local ELSE request[q]
    BY <1>1 DEF AC!Set, AccountInv, Inserting
  <2>2. QED
    BY <1>1, <1>2, <2>1 DEF CodeInv, CodeTypes
<1>5. ASSUME NEW v \in Names, NEW pc \in {"code", "insert"} PROVE Doing(pc, v)' = Doing(pc, v)
  <2>1. Doing(pc, v) \in Nat
    BY DoingIs DEF Doing
  <2>2. local.pc # pc /\ request[r].pc # pc
    BY <1>1
  <2>3. QED
    BY <1>1, <2>1, <2>2, DoingGoes
<1>6. QED
  BY <1>2, <1>3, <1>4, <1>5, CodesStay

LEMMA CodesAround ==
    ASSUME AccountInv, CodeInv, UNCHANGED <<referralCode, request, lost, born>>,
           \A u \in Names : user'[u].exists = user[u].exists,
           nonce' \in [Names -> SUBSET AC!Kinds], session' \subseteq Names
    PROVE  CodeInv'
<1>1. CodeTypes'
  BY DEF CodeInv, CodeTypes
<1>2. \A pc, u : Doing(pc, u)' = Doing(pc, u)
  BY DEF Doing, On
<1>3. QED
  BY <1>1, <1>2, CodesStay

LEMMA CodeNext == AccountInv /\ CodeInv /\ AC!Next => CodeInv'
<1> SUFFICES ASSUME AccountInv, CodeInv, AC!Next PROVE CodeInv'
  OBVIOUS
<1>1. ASSUME NEW r \in Requests, NEW u \in Names,
             AC!GetNonceString(r, u) \/ AC!SSOLogin(r, u) \/ AC!UserRegister(r, u)
      PROVE  CodeInv'
  <2>1. /\ UNCHANGED <<user, referralCode, born, lost>> /\ request[r] = AC!Free
        /\ nonce' \in [Names -> SUBSET AC!Kinds] /\ session' \subseteq Names
    <3>1. UNCHANGED <<user, referralCode, born, lost>> /\ request[r] = AC!Free
      BY <1>1 DEF AC!GetNonceString, AC!SSOLogin, AC!UserRegister
    <3>2. nonce' \in [Names -> SUBSET AC!Kinds]
      <4>1. UNCHANGED nonce \/ nonce' = [nonce EXCEPT ![u] = @ \cup {"Signature"}]
        BY <1>1 DEF AC!GetNonceString, AC!SSOLogin, AC!UserRegister
      <4>2. QED
        BY <4>1 DEF CodeInv, CodeTypes, AC!Kinds
    <3>3. session' \subseteq Names
      <4>1. UNCHANGED session \/ session' = session \cup {u}
        BY <1>1 DEF AC!GetNonceString, AC!SSOLogin, AC!UserRegister
      <4>2. QED
        BY <4>1 DEF CodeInv, CodeTypes
    <3>4. QED
      BY <3>1, <3>2, <3>3
  <2>2. CASE UNCHANGED request
    BY <2>1, <2>2, CodesAround
  <2>3. CASE ~UNCHANGED request
    <3>1. /\ ~AC!Registered(u)
          /\ \E referrer, password, sso : AC!CreateUser(r, u, referrer, password, sso)
      BY <1>1, <2>3 DEF AC!GetNonceString, AC!SSOLogin, AC!UserRegister
    <3>2. QED
      BY <2>1, <3>1, CodesOfCreation
  <2>4. QED
    BY <2>2, <2>3
<1>2. ASSUME NEW u \in Names,
             \/ AC!Login(u) \/ AC!TokenExpires(u) \/ AC!PasswordReset(u) \/ AC!UnBindWallet(u)
             \/ \E k \in AC!Kinds : AC!GetNumericVerifyCode(u, k) \/ AC!NonceExpires(u, k)
      PROVE  CodeInv'
  <2>1. UNCHANGED <<referralCode, request, lost, born>>
    BY <1>2 DEF AC!Login, AC!LoginBySignature, AC!LoginByVerifyCode, AC!LoginByPassword,
                AC!TokenExpires, AC!PasswordReset, AC!UnBindWallet, AC!GetNumericVerifyCode,
                AC!NonceExpires
  <2>2. \A v \in Names : user'[v].exists = user[v].exists
    BY <1>2 DEF AC!Login, AC!LoginBySignature, AC!LoginByVerifyCode, AC!LoginByPassword,
                AC!TokenExpires, AC!PasswordReset, AC!UnBindWallet, AC!GetNumericVerifyCode,
                AC!NonceExpires, AccountInv, UserTypes
  <2>3. nonce' \in [Names -> SUBSET AC!Kinds] /\ session' \subseteq Names
    BY <1>2 DEF AC!Login, AC!LoginBySignature, AC!LoginByVerifyCode, AC!LoginByPassword,
                AC!TokenExpires, AC!PasswordReset, AC!UnBindWallet, AC!GetNumericVerifyCode,
                AC!NonceExpires, AC!CacheVerifyCode, CodeInv, CodeTypes
  <2>4. QED
    BY <2>1, <2>2, <2>3, CodesAround
<1>3. QED
  BY <1>1, <1>2, CodesOfInsert, CodesOfCode, CodesOfAdding, CodesOfWallets DEF AC!Next

LEMMA AccountNow == AccountInv /\ CodeInv => AC!ReferrersAreOlder /\ AC!TypeOK
<1> SUFFICES ASSUME AccountInv, CodeInv PROVE AC!TypeOK
  BY DEF AccountInv
<1>1. /\ AC!MostCodes = MaxCodes - 1 + 2 * Cardinality(Requests) + MaxLost
      /\ AC!Cardinality(Names) = Cardinality(Names)
  <2>1. \A S : AC!Cardinality(S) = Cardinality(S)
    BY Zenon DEF AC!Cardinality, Cardinality
  <2>2. QED
    BY <2>1 DEF AC!MostCodes
<1>2. ASSUME NEW u \in Names
      PROVE  referralCode[u] \in 0 .. AC!MostCodes /\ born[u] \in 0 .. Cardinality(Names)
  <2>1. /\ Doing("code", u) \in Nat /\ Doing("insert", u) \in Nat
        /\ Cardinality(Requests) \in Nat
    BY DoingIs DEF Doing
  <2>2. /\ lost \in 0 .. MaxLost /\ MaxCodes \in Nat /\ MaxLost \in Nat
        /\ referralCode[u] \in Nat /\ born[u] \in Nat
    BY NamesAssumption DEF CodeInv, CodeTypes, AccountInv, UserTypes
  <2>3. referralCode[u] \in 0 .. AC!MostCodes
    BY <1>1, <2>1, <2>2 DEF CodeInv, CodesCounted
  <2>4. /\ Cardinality(Registrants) \in Nat /\ Cardinality(Names) \in Nat
        /\ Cardinality(Registrants) <= Cardinality(Names)
    BY NamesAssumption, FS_Subset, FS_CardinalityType DEF Registrants
  <2>5. CASE AC!Registered(u)
    BY <2>2, <2>3, <2>4, <2>5 DEF AccountInv, BornInv, Registrants
  <2>6. CASE ~AC!Registered(u)
    BY <2>2, <2>3, <2>4, <2>6 DEF CodeInv, CodesCounted
  <2>7. QED
    BY <2>5, <2>6
<1>3. referralCode \in [Names -> 0 .. AC!MostCodes] /\ born \in [Names -> 0 .. AC!Cardinality(Names)]
  BY <1>1, <1>2 DEF CodeInv, CodeTypes, AccountInv, UserTypes
<1>4. QED
  BY <1>3 DEF AC!TypeOK, CodeInv, CodeTypes, AccountInv, UserTypes

\* The codes of the users.
LEMMA CodeInvariant == Spec => []CodeInv
<1>1. Init => CodeInv
  BY CodeInit DEF Init
<1>2. AccountInv /\ CodeInv /\ [Next]_serviceVars => CodeInv'
  BY CodeNext, CodesRest DEF Next, serviceVars
<1>3. QED
  BY <1>1, <1>2, AccountInvariant, PTL DEF Spec
-----------------------------------------------------------------------------
(* Devices and their owners: DeviceOwner_proof.                            *)

DOP == INSTANCE DeviceOwner_proof WITH
    NoOwner <- NoName, Calls <- Requests, MaxFetches <- MaxOwnerRounds

\* The owners of Services are the owners of DeviceOwner_proof.
LEMMA OwnersSpec == Spec => DOP!Spec
<1>1. Init => DOP!Init
  BY DEF Init, DO!Init, DOP!Init, DO!Unknown, DOP!Unknown, DO!Open, DOP!Open
<1>2. DO!Next <=> DOP!Next
  BY DEF
      DO!ownerVars, DO!Unknown, DO!Open, DO!Init, DO!Fails, DO!Continue, DO!Answer, DO!Owns,
      DO!GenerateCode, DO!RowOf, DO!DeviceBinding, DO!UpdateUserDeviceInfo,
      DO!UpdateDeviceInfoDailyUser, DO!UpdateSignatureUnsigned, DO!UpdateSignature,
      DO!AddSignature, DO!CallFails, DO!DeviceUnBinding, DO!ClearOwner, DO!Fetch,
      DO!FetchOffline, DO!LastSigner, DO!GetDeviceUserId, DO!GiveBack, DO!Job, DO!Next,
      DO!OwnersBound, DOP!ownerVars, DOP!Unknown, DOP!Open, DOP!Init, DOP!Fails,
      DOP!Continue, DOP!Answer, DOP!Owns, DOP!GenerateCode, DOP!RowOf, DOP!DeviceBinding,
      DOP!UpdateUserDeviceInfo, DOP!UpdateDeviceInfoDailyUser, DOP!UpdateSignatureUnsigned,
      DOP!UpdateSignature, DOP!AddSignature, DOP!CallFails, DOP!DeviceUnBinding,
      DOP!ClearOwner, DOP!Fetch, DOP!FetchOffline, DOP!LastSigner, DOP!GetDeviceUserId,
      DOP!GiveBack, DOP!Job, DOP!Next, DOP!OwnersBound
<1>3. [Next]_serviceVars => [DOP!Next]_(DOP!ownerVars)
  BY <1>2 DEF Next, serviceVars, ownerVars, DOP!ownerVars
<1>4. QED
  BY <1>1, <1>3, PTL DEF Spec, DOP!Spec
-----------------------------------------------------------------------------
(* NodeOperation                                                           *)

\* A request and what it carries from its reads to its writes.
OperationType ==
    operation \in [Requests ->
        [pc : {"scheduler", "row"}, user : NodeUsers, value : {0, 1}] \cup {NO!Off}]

\* As long as nothing has disturbed the requests, one at most is under way. It is
\* the owner's, and before it has called the scheduler, row and scheduler agree;
\* between its call and its UPDATE, the scheduler is where the row will be.
Undisturbed ==
    ~disturbed =>
        /\ \A o, p \in NO!Busy : o = p
        /\ \A o \in NO!Busy :
             /\ operation[o].user = nodeRow.user
             /\ operation[o].pc = "scheduler" => (underway <=> nodeRow.operation = 1)
             /\ operation[o].pc = "row" => (underway <=> operation[o].value = 1)

OperationInv == NO!TypeOK /\ OperationType /\ Undisturbed /\ NO!OperationsAgree

-----------------------------------------------------------------------------
LEMMA OperationOf ==
    ASSUME OperationType, NEW o \in Requests
    PROVE  /\ operation[o].pc = "scheduler" => o \in NO!Busy
           /\ operation[o].pc = "row" => o \in NO!Busy
           /\ o \in NO!Busy => operation[o] \in
                [pc : {"scheduler", "row"}, user : NodeUsers, value : {0, 1}]
BY DEF OperationType, NO!Busy, NO!Off

LEMMA OperationInit == NodeUsers # {} /\ NO!Init => OperationInv
<1> SUFFICES ASSUME NodeUsers # {}, NO!Init PROVE OperationInv
  OBVIOUS
<1>1. NO!TypeOK
  BY DEF NO!Init, NO!TypeOK
<1>2. NO!Busy = {} /\ OperationType
  BY DEF NO!Init, NO!Busy, OperationType
<1>3. QED
  BY <1>1, <1>2 DEF NO!Init, OperationInv, Undisturbed, NO!OperationsAgree

LEMMA OperationBegins ==
    ASSUME OperationInv, NEW o \in Requests, NEW u \in NodeUsers, NEW value \in {0, 1},
           NO!Begin(o, u, value), nodeRow.user = u
    PROVE  OperationInv'
<1>1. operation' = [operation EXCEPT ![o] = [pc |-> "scheduler", user |-> u, value |-> value]]
  BY DEF NO!Begin
<1>2. NO!TypeOK' /\ OperationType'
  BY <1>1 DEF NO!Begin, OperationInv, NO!TypeOK, OperationType
<1>3. NO!Busy' = NO!Busy \cup {o}
  BY <1>1 DEF NO!Busy, NO!Off, OperationInv, OperationType
<1>4. ~disturbed' => NO!Busy' = {o} /\ (underway <=> nodeRow.operation = 1)
  BY <1>3 DEF NO!Begin, OperationInv, NO!OperationsAgree
<1>5. QED
  BY <1>1, <1>2, <1>3, <1>4
    DEF NO!Begin, OperationInv, Undisturbed, NO!OperationsAgree, OperationType

LEMMA OperationNext == OperationInv /\ [NO!Next]_nodeVars => OperationInv'
<1> SUFFICES ASSUME OperationInv, [NO!Next]_nodeVars PROVE OperationInv'
  OBVIOUS
<1> USE DEF OperationInv
<1>1. CASE UNCHANGED nodeVars
  BY <1>1 DEF nodeVars, NO!TypeOK, OperationType, Undisturbed, NO!OperationsAgree, NO!Busy
<1>2. ASSUME NEW o \in Requests, NO!AskScheduler(o) PROVE OperationInv'
  <2>1. o \in NO!Busy /\ operation' = [operation EXCEPT ![o].pc = "row"]
    BY <1>2, OperationOf DEF NO!AskScheduler
  <2>2. NO!TypeOK' /\ OperationType'
    BY <1>2, <2>1, OperationOf DEF NO!AskScheduler, NO!TypeOK, OperationType
  <2>3. NO!Busy' = NO!Busy
    BY <2>1, OperationOf DEF NO!Busy, NO!Off, OperationType
  <2>4. /\ operation'[o].pc = "row" /\ operation'[o].user = operation[o].user
        /\ operation'[o].value = operation[o].value
    BY <2>1, OperationOf DEF OperationType
  <2>5. underway' <=> operation'[o].value = 1
    BY <1>2, <2>4 DEF NO!AskScheduler
  <2>6. Undisturbed'
    <3> SUFFICES ASSUME ~disturbed
                 PROVE  /\ \A p, q \in NO!Busy : p = q
                        /\ \A p \in NO!Busy :
                             /\ operation'[p].user = nodeRow.user
                             /\ operation'[p].pc # "scheduler"
                             /\ underway' <=> operation'[p].value = 1
      BY <1>2, <2>3 DEF NO!AskScheduler, Undisturbed
    <3>1. /\ \A p, q \in NO!Busy : p = q
          /\ operation[o].user = nodeRow.user
      BY <2>1 DEF Undisturbed
    <3>2. QED
      BY <2>1, <2>4, <2>5, <3>1
  <2>7. QED
    BY <2>1, <2>2, <2>3, <2>6 DEF NO!OperationsAgree
<1>3. ASSUME NEW o \in Requests, NO!UpdateNodeOperationStatus(o) PROVE OperationInv'
  <2>1. o \in NO!Busy /\ operation' = [operation EXCEPT ![o] = NO!Off]
    BY <1>3, OperationOf DEF NO!UpdateNodeOperationStatus
  <2>2. operation[o].value \in {0, 1}
    BY <2>1, OperationOf DEF NO!Busy
  <2>3. NO!TypeOK' /\ OperationType'
    BY <1>3, <2>1, <2>2 DEF NO!UpdateNodeOperationStatus, NO!TypeOK, OperationType
  <2>4. NO!Busy' = NO!Busy \ {o}
    BY <2>1 DEF NO!Busy, NO!Off, OperationType
  <2>5. ~disturbed => /\ nodeRow'.operation = operation[o].value
                      /\ underway' <=> operation[o].value = 1
                      /\ NO!Busy' = {}
    BY <1>3, <2>1, <2>4 DEF NO!UpdateNodeOperationStatus, Undisturbed, NO!TypeOK
  <2>6. QED
    BY <1>3, <2>3, <2>5 DEF NO!UpdateNodeOperationStatus, Undisturbed, NO!OperationsAgree
<1>4. ASSUME NEW o \in Requests, NO!Break(o) PROVE OperationInv'
  BY <1>4 DEF NO!Break, NO!TypeOK, OperationType, Undisturbed, NO!OperationsAgree
<1>5. ASSUME NEW o \in Requests, NEW u \in NodeUsers, NO!DeactiveNode(o, u) PROVE OperationInv'
  BY <1>5, OperationBegins DEF NO!DeactiveNode, NO!Status
<1>6. ASSUME NEW o \in Requests, NEW u \in NodeUsers, NO!CancelDeactiveNode(o, u)
      PROVE  OperationInv'
  BY <1>6, OperationBegins DEF NO!CancelDeactiveNode, NO!Status
<1>7. ASSUME NEW u \in NodeUsers, NO!ChangeOwner(u) PROVE OperationInv'
  <2>1. NO!TypeOK' /\ OperationType' /\ NO!Busy' = NO!Busy /\ nodeRow'.operation = nodeRow.operation
    BY <1>7 DEF NO!ChangeOwner, NO!TypeOK, OperationType, NO!Busy
  <2>2. QED
    BY <1>7, <2>1 DEF NO!ChangeOwner, Undisturbed, NO!OperationsAgree
<1>8. ASSUME NEW row, NO!RowOnly(row), row.user = nodeRow.user, row.operation = nodeRow.operation,
             row \in [user : NodeUsers, online : BOOLEAN, deleted : BOOLEAN,
                      operation : {0, 1}, named : BOOLEAN]
      PROVE  OperationInv'
  BY <1>8 DEF NO!RowOnly, NO!TypeOK, OperationType, Undisturbed, NO!OperationsAgree, NO!Busy
<1>9. \/ \E u \in NodeUsers :
           NO!DeviceUpdate(u) \/ NO!DeleteOfflineDevice(u) \/ NO!MoveBackDeletedDevice(u)
      \/ NO!UpdateTest1DeviceName \/ NO!StatusChanges
      => OperationInv'
  BY <1>8 DEF NO!DeviceUpdate, NO!DeleteOfflineDevice, NO!MoveBackDeletedDevice,
              NO!UpdateTest1DeviceName, NO!StatusChanges, NO!TypeOK
<1>10. QED
  BY <1>1, <1>2, <1>3, <1>4, <1>5, <1>6, <1>7, <1>9 DEF NO!Next


\* The row and the scheduler of a node.
LEMMA OperationInvariant == Spec => []OperationInv
<1>1. Init => OperationInv
  BY OperationInit, NodeUsersAssumption DEF Init
<1>2. OperationInv /\ [Next]_serviceVars => OperationInv'
  BY OperationNext DEF Next, serviceVars
<1>3. QED
  BY <1>1, <1>2, PTL DEF Spec
-----------------------------------------------------------------------------
(* ShareLinks                                                              *)

LinkKeys == LinkOwners \X Targets
Expiries == SL!Times \cup {0}
LinkRequests ==
  [pc : {"create"}, row : SL!Rows]
    \cup [pc : {"update"}, id : Nat, given : Expiries, row : SL!Rows]
Promises == [pass : Passwords \cup {NoName}, expireAt : Expiries]

\* The newest row of a key.
Newest(i, k) ==
  /\ i \in DOMAIN links
  /\ SL!KeyOf(links[i]) = k
  /\ \A n \in i + 1 .. Len(links) : SL!KeyOf(links[n]) # k

\* The two columns always come from one row, so the expiry lies after the update.
Dated(row) == row.expireAt # 0 => row.expireAt >= row.updatedAt

LinkTypes ==
  /\ links \in Seq(SL!Rows)
  /\ clock \in SL!Times
  /\ writer \in [Requests -> LinkRequests \cup {SL!Idle}]
  /\ promised \in [LinkKeys -> Promises]
  /\ mixed \subseteq LinkKeys

\* An update is about a row that is there, and leaves its key alone.
Updating ==
  \A w \in Requests : writer[w].pc = "update" =>
    writer[w].id \in DOMAIN links /\ SL!KeyOf(writer[w].row) = SL!KeyOf(links[writer[w].id])

AllDated ==
  /\ \A i \in DOMAIN links : Dated(links[i])
  /\ \A w \in Requests : writer[w] # SL!Idle => Dated(writer[w].row)

\* As long as requests on a link do not overlap, its newest row is as promised, and
\* an update without an expiry writes back the one that is there.
AsPromised ==
  \A k \in LinkKeys \ mixed : \A i \in DOMAIN links : Newest(i, k) =>
    /\ links[i].shortPass = promised[k].pass /\ links[i].expireAt = promised[k].expireAt
    /\ \A w \in Requests : writer[w].pc = "update" /\ writer[w].id = i =>
         writer[w].row.expireAt = IF writer[w].given = 0 THEN links[i].expireAt
                                  ELSE writer[w].given

LinkInv == LinkTypes /\ Updating /\ AllDated /\ AsPromised

LEMMA LinkInit == SL!Init => LinkInv
<1> SUFFICES ASSUME SL!Init PROVE LinkInv
  OBVIOUS
<1> USE DEF SL!Init, SL!Idle
<1>1. links = <<>> /\ links \in Seq(SL!Rows) /\ DOMAIN links = {}
  OBVIOUS
<1>2. LinkTypes
  BY <1>1, LinksAssumption DEF LinkTypes, SL!Times, LinkKeys, Promises, Expiries, SL!Never
<1>3. QED
  BY <1>1, <1>2 DEF LinkInv, Updating, AllDated, AsPromised

LEMMA LinkNow == LinkInv => /\ SL!ExpireDaysNotNegative
                            /\ SL!LinksAsPromised
                            /\ SL!TypeOK
<1> SUFFICES ASSUME LinkInv PROVE SL!ExpireDaysNotNegative /\ SL!LinksAsPromised /\ SL!TypeOK
  OBVIOUS
<1> USE DEF LinkInv, LinkTypes
<1>0. /\ Len(links) \in Nat /\ DOMAIN links = 1 .. Len(links)
      /\ \A i \in DOMAIN links : links[i] \in SL!Rows
  BY LenProperties, ElementOfSeq
<1>1. SL!ExpireDaysNotNegative
  BY <1>0 DEF AllDated, Dated, SL!ExpireDaysNotNegative, SL!ExpireDays, SL!Never, SL!Rows, SL!Times
<1>2. ASSUME NEW k \in LinkKeys, NEW link \in SL!GetLink(k), k \notin mixed
      PROVE  /\ SL!CheckShareLink(link, promised[k].pass) =
                  IF promised[k].expireAt < clock THEN "expired" ELSE "success"
             /\ SL!NeedPass(link) <=> promised[k].pass # NoName
  <2>1. PICK i \in DOMAIN links : link = links[i] /\ Newest(i, k)
    BY <1>2 DEF SL!GetLink, Newest
  <2>2. link.shortPass = promised[k].pass /\ link.expireAt = promised[k].expireAt
    BY <1>2, <2>1 DEF AsPromised
  <2>3. link \in SL!Rows /\ promised[k] \in Promises
    BY <1>0, <2>1
  <2>4. QED
    BY <2>2, <2>3 DEF SL!CheckShareLink, SL!NeedPass, SL!Rows, SL!Times, Promises, Expiries
<1>3. QED
  BY <1>1, <1>2 DEF SL!LinksAsPromised, LinkKeys, SL!TypeOK

\* What is under way.
LEMMA LinkRequest ==
  ASSUME LinkTypes, NEW w \in Requests
  PROVE  /\ writer[w].pc = "create" => writer[w] # SL!Idle /\ writer[w] \in [pc : {"create"}, row : SL!Rows]
         /\ writer[w].pc = "update" =>
              writer[w] # SL!Idle
              /\ writer[w] \in [pc : {"update"}, id : Nat, given : Expiries, row : SL!Rows]
         /\ writer[w] # SL!Idle => writer[w].pc \in {"create", "update"} /\ writer[w].row \in SL!Rows
         /\ SL!Idle.pc \notin {"create", "update"}
BY DEF LinkTypes, LinkRequests, SL!Idle

LEMMA KeyOfRow ==
  ASSUME NEW row \in SL!Rows
  PROVE  SL!KeyOf(row) \in LinkKeys
BY DEF SL!Rows, SL!KeyOf, LinkKeys

\* A request that reads begins to write a row of a key.
LEMMA LinkBegins ==
  ASSUME LinkInv, NEW w \in Requests, writer[w] = SL!Idle, NEW r \in LinkRequests,
         writer' = [writer EXCEPT ![w] = r], UNCHANGED <<links, clock, promised, mixed>>,
         Dated(r.row),
         r.pc = "update" =>
           /\ r.id \in DOMAIN links /\ SL!KeyOf(r.row) = SL!KeyOf(links[r.id])
           /\ r.row.expireAt = IF r.given = 0 THEN links[r.id].expireAt ELSE r.given
  PROVE  LinkInv'
<1> USE DEF LinkInv
<1>1. LinkTypes'
  BY DEF LinkTypes, SL!Times
<1>2. \A v \in Requests : writer'[v] = IF v = w THEN r ELSE writer[v]
  BY DEF LinkTypes
<1>3. Updating'
  BY <1>2 DEF Updating
<1>4. AllDated'
  BY <1>2 DEF AllDated
<1>5. AsPromised'
  BY <1>2 DEF AsPromised, Newest
<1>6. QED
  BY <1>1, <1>3, <1>4, <1>5

LEMMA CreateShareLinkStep ==
  ASSUME LinkInv, NEW w \in Requests, NEW u \in LinkOwners, NEW c \in Targets, NEW l \in Urls,
         NEW p \in Passwords \cup {NoName}, SL!CreateShareLink(w, u, c, l, p)
  PROVE  LinkInv'
<1>1. clock \in SL!Times
  BY DEF LinkInv, LinkTypes
<1>2. PICK t \in SL!Later \cup {0} :
        writer' = [writer EXCEPT ![w] =
            [pc |-> "create",
             row |-> [username |-> u, cid |-> c, longLink |-> l, shortPass |-> p,
                      updatedAt |-> clock, expireAt |-> t]]]
  BY DEF SL!CreateShareLink, SL!Never
<1> DEFINE row == [username |-> u, cid |-> c, longLink |-> l, shortPass |-> p,
                   updatedAt |-> clock, expireAt |-> t]
           r == [pc |-> "create", row |-> row]
<1>3. t \in SL!Times \cup {0} /\ (t # 0 => t >= clock)
  BY DEF SL!Later
<1>4. row \in SL!Rows /\ Dated(row)
  BY <1>1, <1>3 DEF SL!Rows, Dated, SL!Never
<1>5. r \in LinkRequests /\ r.pc # "update" /\ r.row = row
  BY <1>4 DEF LinkRequests
<1>6. writer' = [writer EXCEPT ![w] = r]
  BY <1>2
<1> HIDE DEF r, row
<1>7. QED
  BY <1>4, <1>5, <1>6, LinkBegins DEF SL!CreateShareLink

LEMMA ShareLinkUpdateStep ==
  ASSUME LinkInv, NEW w \in Requests, NEW u \in LinkOwners, NEW i \in DOMAIN links,
         NEW p \in Passwords \cup {NoName}, SL!ShareLinkUpdate(w, i, u, p)
  PROVE  LinkInv'
<1>1. /\ clock \in SL!Times /\ i \in Nat /\ links[i] \in SL!Rows /\ Dated(links[i])
  BY LenProperties, ElementOfSeq DEF LinkInv, LinkTypes, AllDated
<1>2. PICK t \in SL!Later \cup {0} :
        writer' = [writer EXCEPT ![w] =
            [pc |-> "update", id |-> i, given |-> t, row |-> SL!Edited(links[i], p, t)]]
  BY DEF SL!ShareLinkUpdate, SL!Never
<1> DEFINE row == SL!Edited(links[i], p, t)
           r == [pc |-> "update", id |-> i, given |-> t, row |-> row]
<1>3. t \in SL!Times \cup {0} /\ (t # 0 => t >= clock)
  BY DEF SL!Later
<1>4. /\ row \in SL!Rows /\ Dated(row) /\ SL!KeyOf(row) = SL!KeyOf(links[i])
      /\ row.expireAt = IF t = 0 THEN links[i].expireAt ELSE t
  BY <1>1, <1>3 DEF SL!Edited, SL!Rows, Dated, SL!KeyOf, SL!Never
<1> HIDE DEF row
<1>5. r \in LinkRequests /\ r.id = i /\ r.given = t /\ r.row = row
  BY <1>1, <1>3, <1>4 DEF LinkRequests, Expiries
<1>6. writer' = [writer EXCEPT ![w] = r]
  BY <1>2 DEF row
<1> HIDE DEF r
<1>7. QED
  BY <1>4, <1>5, <1>6, LinkBegins DEF SL!ShareLinkUpdate

\* The newest row of a key, and who else is under way, when a row is written.
LEMMA CreateLinkStep ==
  ASSUME LinkInv, NEW w \in Requests, SL!CreateLink(w)
  PROVE  LinkInv'
<1> USE DEF LinkInv
<1> DEFINE row == writer[w].row
           k == SL!KeyOf(row)
<1>1. LinkTypes /\ Len(links) \in Nat /\ DOMAIN links = 1 .. Len(links)
  BY LenProperties DEF LinkTypes
<1>2. row \in SL!Rows /\ k \in LinkKeys /\ Dated(row) /\ writer[w] # SL!Idle
  BY <1>1, LinkRequest, KeyOfRow DEF SL!CreateLink, AllDated
<1>3. /\ links' \in Seq(SL!Rows) /\ Len(links') = Len(links) + 1
      /\ DOMAIN links' = 1 .. Len(links) + 1
      /\ \A i \in DOMAIN links : links'[i] = links[i]
      /\ links'[Len(links) + 1] = row
  BY <1>1, <1>2, AppendProperties, LenProperties DEF SL!CreateLink, LinkTypes
<1>4. /\ promised' = [promised EXCEPT ![k] = [pass |-> row.shortPass, expireAt |-> row.expireAt]]
      /\ mixed' = IF SL!Writing(k) = {w} THEN mixed ELSE mixed \cup {k}
      /\ writer' = [writer EXCEPT ![w] = SL!Idle] /\ clock' = clock
  BY DEF SL!CreateLink, SL!Promise
<1>5. \A v \in Requests : writer'[v] = IF v = w THEN SL!Idle ELSE writer[v]
  BY <1>1, <1>4 DEF LinkTypes
<1>6. \A x \in LinkKeys : promised'[x] = IF x = k THEN [pass |-> row.shortPass, expireAt |-> row.expireAt]
                                        ELSE promised[x]
  BY <1>1, <1>2, <1>4 DEF LinkTypes
<1>7. LinkTypes'
  <2>1. [pass |-> row.shortPass, expireAt |-> row.expireAt] \in Promises
    BY <1>2 DEF Promises, SL!Rows, Expiries, SL!Never
  <2>2. promised' \in [LinkKeys -> Promises]
    BY <1>1, <1>4, <2>1 DEF LinkTypes
  <2>3. writer' \in [Requests -> LinkRequests \cup {SL!Idle}]
    BY <1>1, <1>4 DEF LinkTypes
  <2>4. QED
    BY <1>1, <1>2, <1>3, <1>4, <2>2, <2>3 DEF LinkTypes
<1> HIDE DEF row
<1>8. Updating'
  <2>1. \A v \in Requests : writer'[v].pc = "update" => v # w /\ writer'[v] = writer[v]
    BY <1>1, <1>5, LinkRequest
  <2>2. QED
    BY <1>1, <1>3, <2>1 DEF Updating
<1>9. AllDated'
  BY <1>1, <1>2, <1>3, <1>5 DEF AllDated
<1>10. AsPromised'
  <2> SUFFICES ASSUME NEW x \in LinkKeys, x \notin mixed', NEW i \in 1 .. Len(links) + 1, Newest(i, x)'
               PROVE  /\ links'[i].shortPass = promised'[x].pass
                      /\ links'[i].expireAt = promised'[x].expireAt
                      /\ \A v \in Requests : writer'[v].pc = "update" /\ writer'[v].id = i =>
                           writer'[v].row.expireAt = IF writer'[v].given = 0 THEN links'[i].expireAt
                                                     ELSE writer'[v].given
    BY <1>3 DEF AsPromised
  <2>0. x \notin mixed
    BY <1>4
  <2>1. CASE i = Len(links) + 1
    <3>1. x = k
      BY <1>3, <2>1 DEF Newest
    <3>2. \A v \in Requests : writer'[v].pc = "update" => writer'[v].id # i
      BY <1>1, <1>5, <2>1, LinkRequest DEF Updating
    <3>3. QED
      BY <1>2, <1>3, <1>6, <2>1, <3>1, <3>2
  <2>2. CASE i \in 1 .. Len(links)
    <3>1. x # k
      BY <1>1, <1>3, <2>2 DEF Newest
    <3>2. Newest(i, x)
      BY <1>1, <1>3, <2>2 DEF Newest
    <3>3. promised'[x] = promised[x]
      BY <1>6, <3>1
    <3>4. \A v \in Requests : writer'[v].pc = "update" => writer'[v] = writer[v]
      BY <1>1, <1>5, LinkRequest
    <3>5. QED
      BY <1>1, <1>3, <2>0, <2>2, <3>2, <3>3, <3>4 DEF AsPromised
  <2>3. QED
    BY <1>1, <2>1, <2>2
<1>11. QED
  BY <1>7, <1>8, <1>9, <1>10

LEMMA UpdateLinkStep ==
  ASSUME LinkInv, NEW w \in Requests, SL!UpdateLinkPassAndExpiration(w)
  PROVE  LinkInv'
<1> USE DEF LinkInv
<1> DEFINE row == writer[w].row
           k == SL!KeyOf(row)
           j == writer[w].id
           new == [links[j] EXCEPT !.shortPass = row.shortPass, !.updatedAt = row.updatedAt,
                                   !.expireAt = row.expireAt]
           isLate == \E n \in j + 1 .. Len(links) : SL!KeyOf(links[n]) = k
           given == IF writer[w].given = 0 THEN promised[k].expireAt ELSE writer[w].given
<1>1. LinkTypes /\ Len(links) \in Nat /\ DOMAIN links = 1 .. Len(links)
  BY LenProperties DEF LinkTypes
<1>2. /\ row \in SL!Rows /\ k \in LinkKeys /\ Dated(row) /\ writer[w] # SL!Idle
      /\ j \in 1 .. Len(links) /\ k = SL!KeyOf(links[j]) /\ links[j] \in SL!Rows
      /\ writer[w].given \in Expiries /\ writer[w].pc = "update"
  BY <1>1, LinkRequest, KeyOfRow, ElementOfSeq
     DEF SL!UpdateLinkPassAndExpiration, AllDated, Updating, LinkTypes
<1>3. /\ new \in SL!Rows /\ Dated(new) /\ SL!KeyOf(new) = k
      /\ new.shortPass = row.shortPass /\ new.expireAt = row.expireAt
  BY <1>2 DEF SL!Rows, Dated, SL!KeyOf
<1>4. /\ links' = [links EXCEPT ![j] = new]
      /\ writer' = [writer EXCEPT ![w] = SL!Idle] /\ clock' = clock
      /\ isLate => UNCHANGED <<promised, mixed>>
      /\ ~isLate => /\ promised' = [promised EXCEPT ![k] = [pass |-> row.shortPass, expireAt |-> given]]
                  /\ mixed' = IF SL!Writing(k) = {w} THEN mixed ELSE mixed \cup {k}
  BY DEF SL!UpdateLinkPassAndExpiration, SL!Promise, SL!Never
<1> HIDE DEF new
<1>5. /\ links' \in Seq(SL!Rows) /\ Len(links') = Len(links) /\ DOMAIN links' = DOMAIN links
      /\ \A i \in DOMAIN links : links'[i] = IF i = j THEN new ELSE links[i]
  BY <1>1, <1>2, <1>3, <1>4, ExceptSeq, LenProperties DEF LinkTypes
<1>6. \A i \in DOMAIN links : SL!KeyOf(links'[i]) = SL!KeyOf(links[i])
  BY <1>2, <1>3, <1>5
<1>7. \A v \in Requests : writer'[v] = IF v = w THEN SL!Idle ELSE writer[v]
  BY <1>1, <1>4 DEF LinkTypes
<1>8. \A v \in Requests : writer'[v].pc = "update" => v # w /\ writer'[v] = writer[v]
  BY <1>1, <1>7, LinkRequest
<1>9. LinkTypes'
  <2>1. [pass |-> row.shortPass, expireAt |-> given] \in Promises
    BY <1>1, <1>2 DEF Promises, SL!Rows, LinkTypes
  <2> HIDE DEF given, isLate
  <2>2. promised' \in [LinkKeys -> Promises]
    BY <1>1, <1>4, <2>1 DEF LinkTypes
  <2>3. writer' \in [Requests -> LinkRequests \cup {SL!Idle}]
    BY <1>1, <1>4 DEF LinkTypes
  <2>4. mixed' \subseteq LinkKeys
    BY <1>1, <1>2, <1>4 DEF LinkTypes
  <2>5. QED
    BY <1>1, <1>4, <1>5, <2>2, <2>3, <2>4 DEF LinkTypes
<1>10. Updating'
  BY <1>5, <1>6, <1>8 DEF Updating
<1>11. AllDated'
  BY <1>3, <1>5, <1>7 DEF AllDated
<1>12. AsPromised'
  <2> SUFFICES ASSUME NEW x \in LinkKeys, x \notin mixed', NEW i \in DOMAIN links, Newest(i, x)'
               PROVE  /\ links'[i].shortPass = promised'[x].pass
                      /\ links'[i].expireAt = promised'[x].expireAt
                      /\ \A v \in Requests : writer'[v].pc = "update" /\ writer'[v].id = i =>
                           writer'[v].row.expireAt = IF writer'[v].given = 0 THEN links'[i].expireAt
                                                     ELSE writer'[v].given
    BY <1>5 DEF AsPromised
  <2>1. Newest(i, x)
    BY <1>1, <1>5, <1>6 DEF Newest
  <2>2. x \notin mixed
    BY <1>4
  <2>3. CASE i = j
    <3>1. x = k
      BY <1>2, <2>1, <2>3 DEF Newest
    <3>2. ~isLate
      BY <2>1, <2>3, <3>1 DEF Newest
    <3>3. SL!Writing(k) = {w}
      BY <1>4, <3>1, <3>2
    <3>4. \A v \in Requests : writer'[v].pc = "update" => writer'[v].id # i
      <4> SUFFICES ASSUME NEW v \in Requests, writer'[v].pc = "update", writer'[v].id = i PROVE FALSE
        OBVIOUS
      <4>1. v # w /\ writer[v].pc = "update" /\ writer[v].id = i
        BY <1>8
      <4>2. SL!KeyOf(writer[v].row) = k /\ writer[v] # SL!Idle
        BY <1>1, <1>2, <2>3, <4>1, LinkRequest DEF Updating
      <4>3. QED
        BY <3>3, <4>1, <4>2 DEF SL!Writing
    <3>5. promised'[x] = [pass |-> row.shortPass, expireAt |-> given]
      BY <1>1, <1>2, <1>4, <3>1, <3>2 DEF LinkTypes
    <3>6. /\ links[i].expireAt = promised[x].expireAt
          /\ row.expireAt = IF writer[w].given = 0 THEN links[i].expireAt ELSE writer[w].given
      BY <1>2, <2>1, <2>2, <2>3 DEF AsPromised
    <3>7. QED
      BY <1>3, <1>5, <2>3, <3>1, <3>4, <3>5, <3>6
  <2>4. CASE i # j
    <3>1. links'[i] = links[i]
      BY <1>5, <2>4
    <3>2. promised'[x] = promised[x]
      <4>1. CASE isLate
        BY <1>4, <4>1
      <4>2. CASE ~isLate
        <5>1. x # k
          BY <1>1, <1>2, <2>1, <2>4, <4>2, SMTT(40) DEF Newest
        <5>2. QED
          BY <1>1, <1>4, <4>2, <5>1 DEF LinkTypes
      <4>3. QED
        BY <4>1, <4>2
    <3>3. QED
      BY <1>8, <2>1, <2>2, <3>1, <3>2 DEF AsPromised
  <2>5. QED
    BY <2>3, <2>4
<1>13. QED
  BY <1>9, <1>10, <1>11, <1>12

LEMMA LinkNext == LinkInv /\ [SL!Next]_linkVars => LinkInv'
<1> SUFFICES ASSUME LinkInv, [SL!Next]_linkVars PROVE LinkInv'
  OBVIOUS
<1>1. CASE UNCHANGED linkVars
  BY <1>1 DEF linkVars, LinkInv, LinkTypes, Updating, AllDated, AsPromised, Newest
<1>2. CASE SL!Tick
  <2>1. clock' \in SL!Times
    BY <1>2, LinksAssumption DEF SL!Tick, LinkInv, LinkTypes, SL!Times
  <2>2. QED
    BY <1>2, <2>1 DEF SL!Tick, LinkInv, LinkTypes, Updating, AllDated, AsPromised, Newest
<1>3. QED
  BY <1>1, <1>2, CreateShareLinkStep, ShareLinkUpdateStep, CreateLinkStep, UpdateLinkStep DEF SL!Next

\* The links and what their owners were answered.
LEMMA LinkInvariant == Spec => []LinkInv
<1>1. Init => LinkInv
  BY LinkInit DEF Init
<1>2. LinkInv /\ [Next]_serviceVars => LinkInv'
  BY LinkNext DEF Next, serviceVars
<1>3. QED
  BY <1>1, <1>2, PTL DEF Spec
-----------------------------------------------------------------------------
(* PlatformAccounts                                                        *)

PlatformRequests ==
  [pc : {"create", "map", "reset", "update"}, user : StorageUsers, of : KeplrAddresses,
   pwd : 1 .. MaxPasswords]

PlatformTypes ==
  /\ userMap \in [StorageUsers -> KeplrAddresses \cup {NoName}]
  /\ kubPwd \in [KeplrAddresses -> 0 .. MaxPasswords]
  /\ account \in [KeplrAddresses -> 0 .. MaxPasswords]
  /\ generated \in 0 .. MaxPasswords
  /\ platformCall \in [Requests -> PlatformRequests \cup {PA!Free}]

\* A settled address has one call under way at most, and where that call has changed
\* one of the two passwords it carries what the other one will be.
Settled(a) ==
  /\ \A c, d \in PA!On(a) : c = d
  /\ (\A c \in PA!On(a) : platformCall[c].pc \in {"create", "reset"}) => kubPwd[a] = account[a]
  /\ \A c \in PA!On(a) :
       /\ platformCall[c].pc = "map" =>
            \/ kubPwd[a] = 0 /\ account[a] = platformCall[c].pwd
            \/ kubPwd[a] # 0 /\ kubPwd[a] = account[a]
       /\ platformCall[c].pc = "update" => account[a] = platformCall[c].pwd

PlatformInv == PlatformTypes /\ \A a \in KeplrAddresses \ unsettled : Settled(a)

LEMMA PlatformInit == PA!Init => PlatformInv
BY PasswordsAssumption DEF PA!Init, PlatformInv, PlatformTypes, Settled, PA!On

LEMMA PlatformNow == PlatformInv => PA!PasswordsAgree /\ PA!TypeOK
BY DEF PlatformInv, PlatformTypes, Settled, PA!PasswordsAgree, PA!TypeOK

LEMMA PlatformCallOf ==
  ASSUME PlatformTypes, NEW c \in Requests, platformCall[c] # PA!Free
  PROVE  platformCall[c] \in PlatformRequests /\ platformCall[c].of \in KeplrAddresses
         /\ platformCall[c].pwd \in 1 .. MaxPasswords /\ platformCall[c].user \in StorageUsers
BY DEF PlatformTypes, PlatformRequests

\* A new call: the first on its address, or the address is not settled.
LEMMA BeginStep ==
  ASSUME PlatformInv, NEW c \in Requests, NEW u \in StorageUsers, NEW a \in KeplrAddresses,
         NEW step \in {"create", "reset"}, platformCall[c] = PA!Free,
         PA!Begin(c, u, a, step), UNCHANGED <<userMap, kubPwd, account, outages>>
  PROVE  PlatformInv'
<1> DEFINE r == [pc |-> step, user |-> u, of |-> a, pwd |-> generated + 1]
<1>1. /\ PlatformTypes /\ r \in PlatformRequests /\ generated' \in 0 .. MaxPasswords
      /\ platformCall' = [platformCall EXCEPT ![c] = r]
      /\ unsettled' = IF PA!On(a) = {} THEN unsettled ELSE unsettled \cup {a}
  BY PasswordsAssumption DEF PlatformInv, PlatformTypes, PA!Begin, PlatformRequests
<1>2. r.pc = step /\ r.of = a
  OBVIOUS
<1> HIDE DEF r
<1>3. r # PA!Free
  BY <1>2 DEF PA!Free
<1>4. \A d \in Requests : platformCall'[d] = IF d = c THEN r ELSE platformCall[d]
  BY <1>1 DEF PlatformTypes
<1>5. PlatformTypes'
  BY <1>1 DEF PlatformTypes
<1>6. ASSUME NEW b \in KeplrAddresses, b \notin unsettled' PROVE Settled(b)'
  <2>1. b \notin unsettled /\ Settled(b)
    BY <1>1, <1>6 DEF PlatformInv
  <2>2. CASE b = a
    <3>1. PA!On(a) = {} /\ PA!On(a)' = {c}
      BY <1>1, <1>2, <1>3, <1>4, <1>6, <2>1, <2>2 DEF PA!On
    <3>2. QED
      BY <1>2, <1>4, <2>1, <2>2, <3>1 DEF Settled
  <2>3. CASE b # a
    <3>1. PA!On(b)' = PA!On(b) /\ c \notin PA!On(b)
      BY <1>2, <1>3, <1>4, <2>3 DEF PA!On
    <3>2. \A d \in PA!On(b) : d \in Requests
      BY DEF PA!On
    <3>3. QED
      BY <1>4, <2>1, <3>1, <3>2 DEF Settled
  <2>4. QED
    BY <2>2, <2>3
<1>7. QED
  BY <1>5, <1>6 DEF PlatformInv

\* What a step of a call leaves of the other addresses.
LEMMA OtherAddresses ==
  ASSUME PlatformTypes, NEW c \in Requests, platformCall[c] # PA!Free,
         NEW r \in PlatformRequests \cup {PA!Free}, platformCall' = [platformCall EXCEPT ![c] = r],
         r = PA!Free \/ r.of = platformCall[c].of,
         NEW b \in KeplrAddresses, b # platformCall[c].of, Settled(b),
         kubPwd'[b] = kubPwd[b], account'[b] = account[b]
  PROVE  Settled(b)'
<1>1. \A d \in Requests : platformCall'[d] = IF d = c THEN r ELSE platformCall[d]
  BY DEF PlatformTypes
<1>2. PA!On(b)' = PA!On(b) /\ c \notin PA!On(b) /\ \A d \in PA!On(b) : d \in Requests
  BY <1>1 DEF PA!On
<1>3. QED
  BY <1>1, <1>2 DEF Settled

\* What it leaves of its own address, if that is settled.
LEMMA OwnAddress ==
  ASSUME PlatformTypes, NEW c \in Requests, platformCall[c] # PA!Free,
         NEW r \in PlatformRequests \cup {PA!Free}, platformCall' = [platformCall EXCEPT ![c] = r],
         NEW a \in KeplrAddresses, a = platformCall[c].of, r = PA!Free \/ r.of = a,
         Settled(a) \/ PA!On(a) = {c}
  PROVE  /\ PA!On(a) = {c}
         /\ r = PA!Free => PA!On(a)' = {}
         /\ r # PA!Free => PA!On(a)' = {c} /\ platformCall'[c] = r
<1>1. \A d \in Requests : platformCall'[d] = IF d = c THEN r ELSE platformCall[d]
  BY DEF PlatformTypes
<1>2. c \in PA!On(a)
  BY DEF PA!On
<1>3. PA!On(a) = {c}
  BY <1>2 DEF Settled
<1>4. \A d \in Requests \ {c} : ~ (platformCall'[d] # PA!Free /\ platformCall'[d].of = a)
  BY <1>1, <1>3 DEF PA!On
<1>5. QED
  BY <1>1, <1>3, <1>4 DEF PA!On

\* So one address is left to look at after a step of a call on it.
LEMMA CallStep ==
  ASSUME PlatformInv, PlatformTypes', NEW c \in Requests, platformCall[c] # PA!Free,
         NEW r \in PlatformRequests \cup {PA!Free}, platformCall' = [platformCall EXCEPT ![c] = r],
         NEW a \in KeplrAddresses, a = platformCall[c].of, r = PA!Free \/ r.of = a,
         \A b \in KeplrAddresses \ {a} : kubPwd'[b] = kubPwd[b] /\ account'[b] = account[b],
         unsettled \subseteq unsettled' \cup {a},
         a \notin unsettled' => Settled(a)'
  PROVE  PlatformInv'
<1>1. ASSUME NEW b \in KeplrAddresses, b \notin unsettled', b # a PROVE Settled(b)'
  <2>1. Settled(b)
    BY <1>1 DEF PlatformInv
  <2>2. QED
    BY <1>1, <2>1, OtherAddresses DEF PlatformInv
<1>2. QED
  BY <1>1 DEF PlatformInv

\* A call that fails leaves its address unsettled.
LEMMA FailStep ==
  ASSUME PlatformInv, NEW c \in Requests, platformCall[c] # PA!Free, PA!Fail(c),
         generated' = generated, userMap' = userMap, kubPwd' = kubPwd,
         account' \in [KeplrAddresses -> 0 .. MaxPasswords],
         \A b \in KeplrAddresses \ {platformCall[c].of} : account'[b] = account[b]
  PROVE  PlatformInv'
<1> DEFINE a == platformCall[c].of
<1>1. PlatformTypes /\ a \in KeplrAddresses
  BY PlatformCallOf DEF PlatformInv
<1>2. /\ platformCall' = [platformCall EXCEPT ![c] = PA!Free]
      /\ unsettled' = unsettled \cup {a}
  BY DEF PA!Fail
<1>3. PlatformTypes'
  BY <1>1, <1>2 DEF PlatformTypes
<1>4. PICK b \in KeplrAddresses : b = a
  BY <1>1
<1>5. QED
  BY <1>1, <1>2, <1>3, <1>4, CallStep

LEMMA CreateUserAccountStep ==
  ASSUME PlatformInv, NEW c \in Requests, PA!CreateUserAccount(c)
  PROVE  PlatformInv'
<1>0. platformCall[c] # PA!Free /\ platformCall[c].pc = "create"
  BY DEF PA!CreateUserAccount, PA!Free
<1>1. PICK a \in KeplrAddresses : a = platformCall[c].of
  BY <1>0, PlatformCallOf DEF PlatformInv
<1> DEFINE created == IF account[a] = 0 THEN [account EXCEPT ![a] = platformCall[c].pwd] ELSE account
<1>2. /\ created \in [KeplrAddresses -> 0 .. MaxPasswords]
      /\ \A b \in KeplrAddresses \ {a} : created[b] = account[b]
      /\ created[a] = IF account[a] = 0 THEN platformCall[c].pwd ELSE account[a]
      /\ created[a] # 0 /\ account \in [KeplrAddresses -> 0 .. MaxPasswords]
  BY <1>0, PlatformCallOf DEF PlatformInv, PlatformTypes
<1>3. CASE account' \in {account, created} /\ PA!Fail(c)
  <2>1. generated' = generated /\ userMap' = userMap /\ kubPwd' = kubPwd
    BY DEF PA!CreateUserAccount
  <2> HIDE DEF created
  <2>2. QED
    BY <1>0, <1>1, <1>2, <1>3, <2>1, FailStep
<1>4. CASE /\ account' = created
           /\ platformCall' = [platformCall EXCEPT ![c].pc = "map"]
           /\ UNCHANGED <<outages, unsettled>>
  <2> DEFINE r == [platformCall[c] EXCEPT !.pc = "map"]
  <2>1. /\ r \in PlatformRequests /\ r.of = a /\ r.pc = "map" /\ r.pwd = platformCall[c].pwd
        /\ r # PA!Free
    BY <1>0, <1>1, PlatformCallOf DEF PlatformInv, PlatformRequests, PA!Free
  <2>2. platformCall' = [platformCall EXCEPT ![c] = r]
    BY <1>4
  <2> HIDE DEF r, created
  <2>3. PlatformTypes'
    BY <1>2, <1>4, <2>1, <2>2 DEF PlatformInv, PlatformTypes, PA!CreateUserAccount
  <2>4. ASSUME a \notin unsettled PROVE Settled(a)'
    <3>1. Settled(a)
      BY <2>4 DEF PlatformInv
    <3>2. PA!On(a) = {c} /\ PA!On(a)' = {c} /\ platformCall'[c] = r
      BY <1>0, <1>1, <2>1, <2>2, <3>1, OwnAddress DEF PlatformInv
    <3>3. kubPwd[a] = account[a]
      BY <1>0, <3>1, <3>2 DEF Settled
    <3>4. kubPwd'[a] = kubPwd[a]
      BY DEF PA!CreateUserAccount
    <3>5. QED
      BY <1>2, <1>4, <2>1, <3>2, <3>3, <3>4 DEF Settled
  <2>5. kubPwd' = kubPwd
    BY DEF PA!CreateUserAccount
  <2>6. /\ \A b \in KeplrAddresses \ {a} : kubPwd'[b] = kubPwd[b] /\ account'[b] = account[b]
        /\ r = PA!Free \/ r.of = a
        /\ unsettled \subseteq unsettled' \cup {a}
        /\ a \notin unsettled' => Settled(a)'
    BY <1>2, <1>4, <2>1, <2>4, <2>5
  <2>7. QED
    BY <1>0, <1>1, <2>1, <2>2, <2>3, <2>6, CallStep
<1>5. QED
  BY <1>1, <1>3, <1>4 DEF PA!CreateUserAccount

LEMMA CreateUserMapStep ==
  ASSUME PlatformInv, NEW c \in Requests, PA!CreateUserMap(c)
  PROVE  PlatformInv'
<1>0. /\ platformCall[c] # PA!Free /\ platformCall[c].pc = "map"
      /\ account' = account /\ generated' = generated
  BY DEF PA!CreateUserMap, PA!Free
<1>1. PICK a \in KeplrAddresses : a = platformCall[c].of
  BY <1>0, PlatformCallOf DEF PlatformInv
<1>2. platformCall[c].pwd \in 1 .. MaxPasswords /\ platformCall[c].user \in StorageUsers
  BY <1>0, PlatformCallOf DEF PlatformInv
<1>3. CASE PA!Fail(c) /\ UNCHANGED <<userMap, kubPwd>>
  BY <1>0, <1>3, FailStep DEF PlatformInv, PlatformTypes
<1>4. CASE /\ platformCall' = [platformCall EXCEPT ![c] = PA!Free]
           /\ unsettled' = unsettled \cup {a}
           /\ UNCHANGED <<userMap, kubPwd, outages>>
  <2>1. PlatformTypes'
    BY <1>0, <1>4 DEF PlatformInv, PlatformTypes
  <2>2. QED
    BY <1>0, <1>1, <1>4, <2>1, CallStep
<1>5. CASE PA!Map(c) /\ platformCall' = [platformCall EXCEPT ![c] = PA!Free]
           /\ UNCHANGED <<outages, unsettled>>
  <2>1. /\ userMap' = [userMap EXCEPT ![platformCall[c].user] = a]
        /\ kubPwd' = [kubPwd EXCEPT ![a] = IF @ = 0 THEN platformCall[c].pwd ELSE @]
    BY <1>1, <1>5 DEF PA!Map
  <2>2. PlatformTypes'
    BY <1>0, <1>2, <1>5, <2>1 DEF PlatformInv, PlatformTypes
  <2>3. /\ kubPwd'[a] = IF kubPwd[a] = 0 THEN platformCall[c].pwd ELSE kubPwd[a]
        /\ \A b \in KeplrAddresses \ {a} : kubPwd'[b] = kubPwd[b]
    BY <2>1 DEF PlatformInv, PlatformTypes
  <2>4. ASSUME a \notin unsettled PROVE Settled(a)'
    <3>1. Settled(a)
      BY <2>4 DEF PlatformInv
    <3>2. PA!On(a) = {c} /\ PA!On(a)' = {}
      BY <1>0, <1>1, <1>5, <3>1, OwnAddress DEF PlatformInv
    <3>3. QED
      BY <1>0, <2>3, <3>1, <3>2 DEF Settled
  <2>5. QED
    BY <1>0, <1>1, <1>5, <2>2, <2>3, <2>4, CallStep
<1>6. QED
  BY <1>1, <1>3, <1>4, <1>5 DEF PA!CreateUserMap

LEMMA ResetPasswordStep ==
  ASSUME PlatformInv, NEW c \in Requests, PA!ResetPassword(c)
  PROVE  PlatformInv'
<1>0. /\ platformCall[c] # PA!Free /\ platformCall[c].pc = "reset"
      /\ UNCHANGED <<userMap, kubPwd, generated>>
  BY DEF PA!ResetPassword, PA!Free
<1>1. PICK a \in KeplrAddresses : a = platformCall[c].of
  BY <1>0, PlatformCallOf DEF PlatformInv
<1> DEFINE reset == [account EXCEPT ![a] = platformCall[c].pwd]
<1>2. /\ reset \in [KeplrAddresses -> 0 .. MaxPasswords]
      /\ \A b \in KeplrAddresses \ {a} : reset[b] = account[b]
      /\ reset[a] = platformCall[c].pwd /\ account \in [KeplrAddresses -> 0 .. MaxPasswords]
  BY <1>0, PlatformCallOf DEF PlatformInv, PlatformTypes
<1>3. CASE account' \in {account, reset} /\ PA!Fail(c)
  <2> HIDE DEF reset
  <2>1. QED
    BY <1>0, <1>1, <1>2, <1>3, FailStep
<1>4. CASE /\ account' = reset
           /\ platformCall' = [platformCall EXCEPT ![c].pc = "update"]
           /\ UNCHANGED <<outages, unsettled>>
  <2> DEFINE r == [platformCall[c] EXCEPT !.pc = "update"]
  <2>1. /\ r \in PlatformRequests /\ r.of = a /\ r.pc = "update" /\ r.pwd = platformCall[c].pwd
        /\ r # PA!Free
    BY <1>0, <1>1, PlatformCallOf DEF PlatformInv, PlatformRequests, PA!Free
  <2>2. platformCall' = [platformCall EXCEPT ![c] = r]
    BY <1>4
  <2> HIDE DEF r, reset
  <2>3. PlatformTypes'
    BY <1>0, <1>2, <1>4, <2>1, <2>2 DEF PlatformInv, PlatformTypes
  <2>4. ASSUME a \notin unsettled PROVE Settled(a)'
    <3>1. Settled(a)
      BY <2>4 DEF PlatformInv
    <3>2. PA!On(a) = {c} /\ PA!On(a)' = {c} /\ platformCall'[c] = r
      BY <1>0, <1>1, <2>1, <2>2, <3>1, OwnAddress DEF PlatformInv
    <3>3. QED
      BY <1>2, <1>4, <2>1, <3>2 DEF Settled
  <2>5. /\ \A b \in KeplrAddresses \ {a} : kubPwd'[b] = kubPwd[b] /\ account'[b] = account[b]
        /\ r = PA!Free \/ r.of = a
        /\ unsettled \subseteq unsettled' \cup {a}
        /\ a \notin unsettled' => Settled(a)'
    BY <1>0, <1>2, <1>4, <2>1, <2>4
  <2>6. QED
    BY <1>0, <1>1, <2>1, <2>2, <2>3, <2>5, CallStep
<1>5. QED
  BY <1>1, <1>3, <1>4 DEF PA!ResetPassword

LEMMA UpdateKubPwdStep ==
  ASSUME PlatformInv, NEW c \in Requests, PA!UpdateKubPwd(c)
  PROVE  PlatformInv'
<1>0. /\ platformCall[c] # PA!Free /\ platformCall[c].pc = "update"
      /\ UNCHANGED <<userMap, account, generated>>
  BY DEF PA!UpdateKubPwd, PA!Free
<1>1. PICK a \in KeplrAddresses : a = platformCall[c].of
  BY <1>0, PlatformCallOf DEF PlatformInv
<1>2. CASE PA!Fail(c) /\ UNCHANGED kubPwd
  BY <1>0, <1>2, FailStep DEF PlatformInv, PlatformTypes
<1>3. CASE /\ kubPwd' = [kubPwd EXCEPT ![a] = platformCall[c].pwd]
           /\ platformCall' = [platformCall EXCEPT ![c] = PA!Free]
           /\ unsettled' = IF PA!On(a) = {c} /\ account[a] = platformCall[c].pwd
                           THEN unsettled \ {a} ELSE unsettled
  <2>1. PlatformTypes' /\ kubPwd'[a] = platformCall[c].pwd
        /\ \A b \in KeplrAddresses \ {a} : kubPwd'[b] = kubPwd[b]
    BY <1>0, <1>3, PlatformCallOf DEF PlatformInv, PlatformTypes
  <2>2. ASSUME a \notin unsettled' PROVE Settled(a)'
    <3>1. Settled(a) \/ (PA!On(a) = {c} /\ account[a] = platformCall[c].pwd)
      <4>1. CASE a \in unsettled
        BY <1>3, <2>2, <4>1
      <4>2. CASE a \notin unsettled
        BY <4>2 DEF PlatformInv
      <4>3. QED
        BY <4>1, <4>2
    <3>2. PA!On(a) = {c} /\ PA!On(a)' = {}
      BY <1>0, <1>1, <1>3, <3>1, OwnAddress DEF PlatformInv
    <3>3. account[a] = platformCall[c].pwd
      BY <1>0, <3>1, <3>2 DEF Settled
    <3>4. QED
      BY <1>0, <2>1, <3>2, <3>3 DEF Settled
  <2>3. QED
    BY <1>0, <1>1, <1>3, <2>1, <2>2, CallStep
<1>4. QED
  BY <1>1, <1>2, <1>3 DEF PA!UpdateKubPwd

LEMMA PlatformNext == PlatformInv /\ [PA!Next]_platformVars => PlatformInv'
<1> SUFFICES ASSUME PlatformInv, [PA!Next]_platformVars PROVE PlatformInv'
  OBVIOUS
<1>1. CASE UNCHANGED platformVars
  BY <1>1 DEF platformVars, PlatformInv, PlatformTypes, Settled, PA!On
<1>2. ASSUME NEW c \in Requests, NEW u \in StorageUsers, NEW a \in KeplrAddresses,
             PA!AddPlatformUserInfo(c, u, a)
      PROVE  PlatformInv'
  BY <1>2, BeginStep DEF PA!AddPlatformUserInfo
<1>3. ASSUME NEW c \in Requests, NEW u \in StorageUsers, PA!ResetKubPwd(c, u) PROVE PlatformInv'
  <2>1. userMap[u] \in KeplrAddresses
    BY <1>3 DEF PA!ResetKubPwd, PlatformInv, PlatformTypes
  <2>2. QED
    BY <1>3, <2>1, BeginStep DEF PA!ResetKubPwd
<1>4. QED
  BY <1>1, <1>2, <1>3, CreateUserAccountStep, CreateUserMapStep, ResetPasswordStep,
     UpdateKubPwdStep DEF PA!Next

\* The accounts of KubeSphere and their passwords.
LEMMA PlatformInvariant == Spec => []PlatformInv
<1>1. Init => PlatformInv
  BY PlatformInit DEF Init
<1>2. PlatformInv /\ [Next]_serviceVars => PlatformInv'
  BY PlatformNext DEF Next, serviceVars
<1>3. QED
  BY <1>1, <1>2, PTL DEF Spec
-----------------------------------------------------------------------------
(* ApiKeys                                                                 *)

\* A blob holds some of the first keys, each under one name.
Blob(blob, last) ==
  /\ blob \in [KeyNames -> 0 .. last]
  /\ \A m, n \in KeyNames : blob[m] = blob[n] /\ blob[m] # 0 => m = n

KeyRequest(q, last) ==
  /\ q.pc \in {"create", "delete"}
  /\ q.key \in 1 .. last
  /\ Blob(q.blob, last)

KeyTypes ==
  /\ made \in 0 .. MaxKeysMade
  /\ Blob(apiKeys, made)
  /\ valid \subseteq 1 .. made /\ raced \subseteq 1 .. made
  /\ DOMAIN keyRequest = Requests /\ keyRequest = [r \in Requests |-> keyRequest[r]]
  /\ \A r \in Requests : keyRequest[r] # AK!Quiet => KeyRequest(keyRequest[r], made)

\* Whatever is about to be written differs in the key that it is about, unless
\* that key is raced.
KeyInv ==
  /\ KeyTypes
  /\ \A key \in (1 .. made) \ raced :
       /\ key \in AK!Held(apiKeys) <=> key \in valid
       /\ \A r \in Requests : keyRequest[r] # AK!Quiet =>
            (key \in AK!Held(keyRequest[r].blob) <=>
               IF keyRequest[r].key = key THEN keyRequest[r].pc = "create"
               ELSE key \in AK!Held(apiKeys))

LEMMA KeyInit == AK!Init => KeyInv
BY KeysAssumption DEF AK!Init, KeyInv, KeyTypes, Blob

LEMMA KeyNow == KeyInv => AK!KeysAsAnswered /\ AK!TypeOK
<1> SUFFICES ASSUME KeyInv PROVE AK!KeysAsAnswered /\ AK!TypeOK
  OBVIOUS
<1>1. AK!KeysAsAnswered
  BY DEF KeyInv, AK!KeysAsAnswered, AK!Accepted
<1>2. AK!TypeOK
  BY KeysAssumption DEF KeyInv, KeyTypes, Blob, AK!TypeOK, AK!Blobs
<1>3. QED
  BY <1>1, <1>2

LEMMA CreateKeyStep ==
  ASSUME KeyInv, NEW r \in Requests, NEW n \in KeyNames, AK!CreateKey(r, n)
  PROVE  KeyInv'
<1> DEFINE key == made + 1
           blob == [apiKeys EXCEPT ![n] = key]
           q == [pc |-> "create", key |-> key, blob |-> blob]
<1>1. /\ made \in Nat /\ made' = key /\ key \in 1 .. MaxKeysMade /\ apiKeys[n] = 0
      /\ UNCHANGED <<apiKeys, valid, raced>> /\ keyRequest' = [keyRequest EXCEPT ![r] = q]
      /\ key \notin 0 .. made
  BY KeysAssumption DEF AK!CreateKey, AK!Refused, KeyInv, KeyTypes
<1>2. ASSUME NEW b, Blob(b, made) PROVE Blob(b, key) /\ key \notin AK!Held(b)
  <2>1. 0 .. made \subseteq 0 .. key
    BY <1>1
  <2>2. \A m \in KeyNames : b[m] \in 0 .. made
    BY <1>2 DEF Blob
  <2>3. QED
    BY <1>1, <1>2, <2>1, <2>2 DEF Blob, AK!Held
<1>3. \A m \in KeyNames : blob[m] = IF m = n THEN key ELSE apiKeys[m]
  BY DEF KeyInv, KeyTypes, Blob
<1>4. /\ blob \in [KeyNames -> 0 .. key]
      /\ AK!Held(blob) = AK!Held(apiKeys) \cup {key}
  BY <1>1, <1>3 DEF KeyInv, KeyTypes, Blob, AK!Held
<1>5. \A i, j \in KeyNames : blob[i] = blob[j] /\ blob[i] # 0 => i = j
  BY <1>1, <1>3 DEF KeyInv, KeyTypes, Blob
<1> HIDE DEF blob
<1>6. Blob(blob, key)
  BY <1>1, <1>4, <1>5 DEF Blob
<1>7. q.pc = "create" /\ q.key = key /\ q.blob = blob /\ q # AK!Quiet
  BY DEF AK!Quiet
<1> HIDE DEF q
<1>8. /\ DOMAIN keyRequest' = Requests /\ keyRequest' = [v \in Requests |-> keyRequest'[v]]
      /\ \A v \in Requests : keyRequest'[v] = IF v = r THEN q ELSE keyRequest[v]
  BY <1>1 DEF KeyInv, KeyTypes
<1>9. ASSUME NEW v \in Requests, keyRequest'[v] # AK!Quiet PROVE KeyRequest(keyRequest'[v], key)
  <2>1. CASE v = r
    BY <1>1, <1>6, <1>7, <1>8, <2>1 DEF KeyRequest
  <2>2. CASE v # r
    <3>1. KeyRequest(keyRequest[v], made) /\ keyRequest'[v] = keyRequest[v]
      BY <1>8, <1>9, <2>2 DEF KeyInv, KeyTypes
    <3>2. Blob(keyRequest[v].blob, key)
      BY <1>2, <3>1 DEF KeyRequest
    <3>3. QED
      BY <1>1, <3>1, <3>2 DEF KeyRequest
  <2>3. QED
    BY <2>1, <2>2
<1>10. KeyTypes'
  <2>1. Blob(apiKeys, key)
    BY <1>1, <1>2 DEF KeyInv, KeyTypes
  <2>2. QED
    BY <1>1, <1>8, <1>9, <2>1 DEF KeyInv, KeyTypes
<1>11. ASSUME NEW k \in (1 .. made') \ raced'
       PROVE  /\ k \in AK!Held(apiKeys)' <=> k \in valid'
              /\ \A v \in Requests : keyRequest'[v] # AK!Quiet =>
                   (k \in AK!Held(keyRequest'[v].blob) <=>
                      IF keyRequest'[v].key = k THEN keyRequest'[v].pc = "create"
                      ELSE k \in AK!Held(apiKeys)')
  <2>1. CASE k = key
    <3>1. k \notin AK!Held(apiKeys) /\ k \notin valid
      BY <1>1, <1>2, <2>1 DEF KeyInv, KeyTypes
    <3>2. \A v \in Requests \ {r} : keyRequest'[v] # AK!Quiet =>
            k \notin AK!Held(keyRequest'[v].blob) /\ keyRequest'[v].key # k
      BY <1>1, <1>2, <1>8, <2>1 DEF KeyInv, KeyTypes, KeyRequest
    <3>3. QED
      BY <1>1, <1>4, <1>7, <1>8, <2>1, <3>1, <3>2, SMTT(40) DEF AK!Held
  <2>2. CASE k # key
    <3>1. k \in (1 .. made) \ raced
      BY <1>1, <2>2
    <3>2. AK!Held(apiKeys)' = AK!Held(apiKeys)
      BY <1>1 DEF AK!Held
    <3>3. QED
      BY <1>1, <1>4, <1>7, <1>8, <2>2, <3>1, <3>2 DEF KeyInv
  <2>3. QED
    BY <2>1, <2>2
<1>12. QED
  BY <1>10, <1>11 DEF KeyInv

LEMMA DeleteKeyStep ==
  ASSUME KeyInv, NEW r \in Requests, NEW n \in KeyNames, AK!DeleteKey(r, n)
  PROVE  KeyInv'
<1> DEFINE key == apiKeys[n]
           blob == [apiKeys EXCEPT ![n] = 0]
           q == [pc |-> "delete", key |-> key, blob |-> blob]
<1>1. /\ UNCHANGED <<apiKeys, made, valid, raced>> /\ keyRequest' = [keyRequest EXCEPT ![r] = q]
      /\ key \in 1 .. made
  BY KeysAssumption DEF AK!DeleteKey, KeyInv, KeyTypes, Blob
<1>2. \A m \in KeyNames : blob[m] = IF m = n THEN 0 ELSE apiKeys[m]
  BY DEF KeyInv, KeyTypes, Blob
<1>3. /\ blob \in [KeyNames -> 0 .. made]
      /\ \A i, j \in KeyNames : blob[i] = blob[j] /\ blob[i] # 0 => i = j
      /\ AK!Held(blob) = AK!Held(apiKeys) \ {key}
  BY <1>2 DEF KeyInv, KeyTypes, Blob, AK!Held
<1> HIDE DEF blob
<1>4. Blob(blob, made)
  BY <1>3 DEF Blob
<1>5. q.pc = "delete" /\ q.key = key /\ q.blob = blob
  OBVIOUS
<1> HIDE DEF q
<1>6. /\ DOMAIN keyRequest' = Requests /\ keyRequest' = [v \in Requests |-> keyRequest'[v]]
      /\ \A v \in Requests : keyRequest'[v] = IF v = r THEN q ELSE keyRequest[v]
  BY <1>1 DEF KeyInv, KeyTypes
<1>7. KeyTypes'
  BY <1>1, <1>4, <1>5, <1>6 DEF KeyInv, KeyTypes, KeyRequest, Blob
<1>8. AK!Held(apiKeys)' = AK!Held(apiKeys)
  BY <1>1 DEF AK!Held
<1>9. ASSUME NEW k \in (1 .. made) \ raced, NEW v \in Requests, keyRequest'[v] # AK!Quiet
      PROVE  k \in AK!Held(keyRequest'[v].blob) <=>
                      IF keyRequest'[v].key = k THEN keyRequest'[v].pc = "create"
                      ELSE k \in AK!Held(apiKeys)
  BY <1>3, <1>5, <1>6, <1>9 DEF KeyInv
<1>10. QED
  BY <1>1, <1>7, <1>8, <1>9 DEF KeyInv

LEMMA UpdateKeysStep ==
  ASSUME KeyInv, NEW r \in Requests, AK!UpdateUserAPIKeys(r)
  PROVE  KeyInv'
<1> DEFINE q == keyRequest[r]
<1>1. /\ KeyRequest(q, made) /\ q # AK!Quiet
      /\ apiKeys' = q.blob /\ made' = made
      /\ valid' = IF q.pc = "create" THEN valid \cup {q.key} ELSE valid \ {q.key}
      /\ raced' = IF \E v \in Requests \ {r} : keyRequest[v] # AK!Quiet
                  THEN raced \cup {q.key} ELSE raced
      /\ keyRequest' = [keyRequest EXCEPT ![r] = AK!Quiet]
  BY DEF AK!UpdateUserAPIKeys, KeyInv, KeyTypes
<1>2. \A v \in Requests : keyRequest'[v] = IF v = r THEN AK!Quiet ELSE keyRequest[v]
  BY <1>1 DEF KeyInv, KeyTypes
<1>3. KeyTypes'
  BY <1>1, <1>2 DEF KeyInv, KeyTypes, KeyRequest, Blob
<1>4. AK!Held(apiKeys)' = AK!Held(q.blob)
  BY <1>1 DEF AK!Held
<1>5. ASSUME NEW k \in (1 .. made) \ raced' PROVE k \in AK!Held(q.blob) <=> k \in valid'
  BY <1>1, <1>5 DEF KeyInv, KeyRequest
<1>6. ASSUME NEW k \in (1 .. made) \ raced', NEW v \in Requests, keyRequest'[v] # AK!Quiet
      PROVE  k \in AK!Held(keyRequest'[v].blob) <=>
                      IF keyRequest'[v].key = k THEN keyRequest'[v].pc = "create"
                      ELSE k \in AK!Held(q.blob)
  <2>1. v # r /\ keyRequest'[v] = keyRequest[v] /\ k # q.key /\ k \notin raced
    BY <1>1, <1>2, <1>6
  <2>2. k \in AK!Held(q.blob) <=> k \in AK!Held(apiKeys)
    BY <1>1, <2>1 DEF KeyInv
  <2>3. QED
    BY <1>6, <2>1, <2>2 DEF KeyInv
<1>7. QED
  BY <1>1, <1>3, <1>4, <1>5, <1>6 DEF KeyInv

LEMMA UpdateFailsStep ==
  ASSUME KeyInv, NEW r \in Requests, AK!UpdateFails(r)
  PROVE  KeyInv'
<1>1. /\ UNCHANGED <<apiKeys, made, valid, raced>> /\ AK!Held(apiKeys)' = AK!Held(apiKeys)
      /\ keyRequest' = [keyRequest EXCEPT ![r] = AK!Quiet]
  BY DEF AK!UpdateFails, AK!Held
<1>2. \A v \in Requests : keyRequest'[v] = IF v = r THEN AK!Quiet ELSE keyRequest[v]
  BY <1>1 DEF KeyInv, KeyTypes
<1>3. KeyTypes'
  BY <1>1, <1>2 DEF KeyInv, KeyTypes, KeyRequest, Blob
<1>4. ASSUME NEW k \in (1 .. made) \ raced, NEW v \in Requests, keyRequest'[v] # AK!Quiet
      PROVE  k \in AK!Held(keyRequest'[v].blob) <=>
                      IF keyRequest'[v].key = k THEN keyRequest'[v].pc = "create"
                      ELSE k \in AK!Held(apiKeys)
  BY <1>2, <1>4 DEF KeyInv
<1>5. QED
  BY <1>1, <1>3, <1>4 DEF KeyInv

LEMMA KeyNext == KeyInv /\ [AK!Next]_keyVars => KeyInv'
<1> SUFFICES ASSUME KeyInv, [AK!Next]_keyVars PROVE KeyInv'
  OBVIOUS
<1>1. CASE UNCHANGED keyVars
  BY <1>1 DEF keyVars, KeyInv, KeyTypes, KeyRequest, Blob, AK!Held
<1>2. QED
  BY <1>1, CreateKeyStep, DeleteKeyStep, UpdateKeysStep, UpdateFailsStep DEF AK!Next

\* The keys and the requests that change them.
LEMMA KeyInvariant == Spec => []KeyInv
<1>1. Init => KeyInv
  BY KeyInit DEF Init
<1>2. KeyInv /\ [Next]_serviceVars => KeyInv'
  BY KeyNext DEF Next, serviceVars
<1>3. QED
  BY <1>1, <1>2, PTL DEF Spec
-----------------------------------------------------------------------------
(* MinerSign                                                               *)

\* A row whose signature, if it has one, is of the row's own message.
Signed(m, row) ==
    \A s \in row.signed : MS!Verifies(s, row.address, MS!Message(m, row.date))

\* The row of a command before it is dated.
CommandRows == {[address |-> {a}, date |-> 0, signed |-> {}] : a \in Addresses}

\* What a request is about to write: an address to which a date will be added, or
\* the row it has read with a signature that was checked against that row.
SignRequestsInv ==
    \A r \in Requests :
        \/ signRequest[r] = MS!Still
        \/ /\ signRequest[r].pc = "command" /\ signRequest[r].miner \in Miners
           /\ signRequest[r].row \in CommandRows
        \/ /\ signRequest[r].pc = "sign" /\ signRequest[r].miner \in Miners
           /\ signRequest[r].row \in MS!SignRows
           /\ Signed(signRequest[r].miner, signRequest[r].row)

SignInv ==
    /\ MS!TypeOK
    /\ DOMAIN signRequest = Requests
    /\ SignRequestsInv
    /\ \A m \in Miners : Signed(m, signInfo[m])

-----------------------------------------------------------------------------
LEMMA SignInit == LastDate \in Nat \ {0} /\ MS!Init => SignInv
BY DEF MS!Init, SignInv, MS!TypeOK, SignRequestsInv, Signed, MS!NoRow

\* Some request goes on with another step; the others keep theirs.
LEMMA SignRequestStep ==
    ASSUME SignRequestsInv, DOMAIN signRequest = Requests, NEW r \in Requests, NEW step,
           signRequest' = [signRequest EXCEPT ![r] = step],
           \/ step = MS!Still
           \/ /\ step.pc = "command" /\ step.miner \in Miners
              /\ step.row \in CommandRows
           \/ /\ step.pc = "sign" /\ step.miner \in Miners
              /\ step.row \in MS!SignRows /\ Signed(step.miner, step.row)
    PROVE  SignRequestsInv' /\ DOMAIN signRequest' = Requests
<1>1. /\ DOMAIN signRequest' = Requests
      /\ \A q \in Requests : signRequest'[q] = IF q = r THEN step ELSE signRequest[q]
  OBVIOUS
<1>2. QED
  BY <1>1 DEF SignRequestsInv, Signed

LEMMA SignNext == LastDate \in Nat \ {0} /\ SignInv /\ [MS!Next]_signVars => SignInv'
<1> SUFFICES ASSUME LastDate \in Nat \ {0}, SignInv, [MS!Next]_signVars PROVE SignInv'
  OBVIOUS
<1> USE DEF SignInv
<1>1. CASE UNCHANGED signVars
  BY <1>1 DEF signVars, MS!TypeOK, SignRequestsInv, Signed
<1>2. ASSUME NEW r \in Requests, NEW m \in Miners, NEW a \in Addresses, MS!GetCommand(r, m, a)
      PROVE  SignInv'
  <2> DEFINE step == [pc |-> "command", miner |-> m, row |-> [MS!NoRow EXCEPT !.address = {a}]]
  <2>a. signRequest' = [signRequest EXCEPT ![r] = step]
    BY <1>2 DEF MS!GetCommand
  <2>b. step.pc = "command" /\ step.miner = m /\ step.row \in CommandRows
    BY DEF MS!NoRow, CommandRows
  <2> HIDE DEF step
  <2>1. SignRequestsInv' /\ DOMAIN signRequest' = Requests
    BY <2>a, <2>b, SignRequestStep
  <2>2. QED
    BY <1>2, <2>1 DEF MS!GetCommand, MS!TypeOK, Signed
<1>3. ASSUME NEW r \in Requests, NEW m \in Miners, NEW s \in signatures, MS!SetSignInfo(r, m, s)
      PROVE  SignInv'
  <2>1. signInfo[m] \in MS!SignRows /\ s \in MS!Signatures
    BY <1>3 DEF MS!SetSignInfo, MS!TypeOK
  <2>2. LET row == [signInfo[m] EXCEPT !.signed = {s}]
        IN  row \in MS!SignRows /\ Signed(m, row)
    <3> DEFINE row == [address |-> signInfo[m].address, date |-> signInfo[m].date,
                       signed |-> {s}]
    <3>1. [signInfo[m] EXCEPT !.signed = {s}] = row /\ row \in MS!SignRows
      BY <2>1 DEF MS!SignRows
    <3>2. Signed(m, row)
      BY <1>3 DEF MS!SetSignInfo, Signed
    <3>3. QED
      BY <3>1, <3>2
  <2>3. SignRequestsInv' /\ DOMAIN signRequest' = Requests
    <3> DEFINE step == [pc |-> "sign", miner |-> m, row |-> [signInfo[m] EXCEPT !.signed = {s}]]
    <3>1. signRequest' = [signRequest EXCEPT ![r] = step]
      BY <1>3 DEF MS!SetSignInfo
    <3>2. step.pc = "sign" /\ step.miner = m /\ step.row = [signInfo[m] EXCEPT !.signed = {s}]
      OBVIOUS
    <3> HIDE DEF step
    <3>3. QED
      BY <2>2, <3>1, <3>2, SignRequestStep
  <2>4. QED
    BY <1>3, <2>3 DEF MS!SetSignInfo, MS!TypeOK, Signed
<1>4. ASSUME NEW r \in Requests, MS!PutCommand(r) PROVE SignInv'
  <2>1. signRequest[r].miner \in Miners /\ signRequest[r].row \in CommandRows
    BY <1>4 DEF MS!PutCommand, SignRequestsInv, MS!Still
  <2>2. PICK a \in Addresses : signRequest[r].row = [address |-> {a}, date |-> 0, signed |-> {}]
    BY <2>1 DEF CommandRows
  <2> DEFINE m == signRequest[r].miner
             row == [address |-> {a}, date |-> now, signed |-> {}]
  <2>3. [signRequest[r].row EXCEPT !.date = now] = row
    BY <2>2 DEF MS!NoRow
  <2>4. signInfo' = [signInfo EXCEPT ![m] = row]
    BY <1>4, <2>3 DEF MS!PutCommand
  <2>5. row \in MS!SignRows /\ Signed(m, row)
    BY DEF MS!TypeOK, MS!SignRows, Signed
  <2>6. \A b \in row.address : [by |-> b, message |-> MS!Message(m, now)] \in MS!Signatures
    BY <2>1 DEF MS!TypeOK, MS!Signatures, MS!Message
  <2>7. signatures' \subseteq MS!Signatures
    BY <1>4, <2>3, <2>6 DEF MS!PutCommand, MS!TypeOK
  <2>8. SignRequestsInv' /\ DOMAIN signRequest' = Requests
    BY <1>4, SignRequestStep DEF MS!PutCommand
  <2>9. signInfo' \in [Miners -> MS!SignRows \cup {MS!NoRow}] /\ \A n \in Miners : Signed(n, signInfo'[n])
    BY <2>1, <2>4, <2>5 DEF MS!TypeOK
  <2>10. QED
    BY <1>4, <2>7, <2>8, <2>9 DEF MS!PutCommand, MS!TypeOK, Signed
<1>5. ASSUME NEW r \in Requests, MS!PutSignInfo(r) PROVE SignInv'
  <2> DEFINE m == signRequest[r].miner
             row == signRequest[r].row
  <2>1. m \in Miners /\ row \in MS!SignRows /\ Signed(m, row)
    BY <1>5 DEF MS!PutSignInfo, SignRequestsInv, MS!Still
  <2>2. signInfo' = [signInfo EXCEPT ![m] = row]
    BY <1>5 DEF MS!PutSignInfo, MS!ReplaceSignInfo
  <2>3. SignRequestsInv' /\ DOMAIN signRequest' = Requests
    BY <1>5, SignRequestStep DEF MS!PutSignInfo
  <2>4. signInfo' \in [Miners -> MS!SignRows \cup {MS!NoRow}] /\ \A n \in Miners : Signed(n, signInfo'[n])
    BY <2>1, <2>2 DEF MS!TypeOK
  <2>5. QED
    BY <1>5, <2>3, <2>4 DEF MS!PutSignInfo, MS!TypeOK, Signed
<1>6. ASSUME NEW r \in Requests, MS!SignFails(r) PROVE SignInv'
  <2>1. SignRequestsInv' /\ DOMAIN signRequest' = Requests
    BY <1>6, SignRequestStep DEF MS!SignFails
  <2>2. QED
    BY <1>6, <2>1 DEF MS!SignFails, MS!TypeOK, Signed
<1>7. CASE MS!Pass
  <2>1. now + 1 \in 1 .. LastDate
    BY <1>7 DEF MS!Pass, MS!TypeOK
  <2>2. QED
    BY <1>7, <2>1 DEF MS!Pass, MS!TypeOK, SignRequestsInv, Signed
<1>8. QED
  BY <1>1, <1>2, <1>3, <1>4, <1>5, <1>6, <1>7 DEF MS!Next


\* The rows of miners and the rows that requests carry.
LEMMA SignInvariant == Spec => []SignInv
<1>1. Init => SignInv
  BY SignInit, DatesAssumption DEF Init
<1>2. SignInv /\ [Next]_serviceVars => SignInv'
  BY SignNext, DatesAssumption DEF Next, serviceVars
<1>3. QED
  BY <1>1, <1>2, PTL DEF Spec
-----------------------------------------------------------------------------
(* EdgeBatches                                                             *)

OnMac == [pc : {"zadd", "hset", "hdel"}, mac : Macs]
OnUrl == [pc : {"set", "delete"}, rem : SUBSET EB!Members, add : SUBSET EB!Members]

BatchTypes ==
  /\ EB!TypeOK
  /\ batchRequest \in [Requests -> OnMac \cup OnUrl \cup {EB!None}]
  /\ \A r \in Requests : batchRequest[r].pc = "set" =>
       \E a \in EB!Members : batchRequest[r].add = {a}
  /\ \A r \in Requests : batchRequest[r].pc = "delete" => batchRequest[r].add = {}

\* The members and their fields, where requests on a mac follow one another.
MacsInv ==
  \A mac \in Macs \ unsure :
    /\ \A r, s \in EB!OfMac(mac) : r = s
    /\ EB!OfMac(mac) = {} => mac \notin batchSet \ batchHash
    /\ \A r \in EB!OfMac(mac) : batchRequest[r].pc = "hdel" => mac \notin batchSet

\* Each address of a url was left by another request, because a request removes
\* what the one before it in its place has left.
LeftBy(by) ==
  /\ by \in [EB!Members -> Requests]
  /\ \A a, b \in addresses : a.url = b.url /\ by[a] = by[b] => a = b
  /\ \A r \in Requests : batchRequest[r].pc = "set" =>
       \A a \in batchRequest[r].add, b \in addresses :
         a.url = b.url /\ by[b] = r => b \in batchRequest[r].rem

BatchInv == BatchTypes /\ MacsInv /\ \E by : LeftBy(by)

LEMMA BatchInit == EB!Init => BatchInv
<1> SUFFICES ASSUME EB!Init PROVE BatchInv
  OBVIOUS
<1> USE DEF EB!Init
<1>1. BatchTypes
  BY BatchesAssumption DEF BatchTypes, EB!TypeOK, EB!None
<1>2. MacsInv
  BY DEF MacsInv, EB!OfMac, EB!None
<1>3. PICK r \in Requests : TRUE
  BY RequestsAssumption
<1>4. LeftBy([a \in EB!Members |-> r])
  BY DEF LeftBy, EB!None
<1>5. QED
  BY <1>1, <1>2, <1>4 DEF BatchInv

LEMMA BatchNow == BatchInv => EB!BatchesReadable /\ EB!AddressesBounded /\ EB!TypeOK
<1> SUFFICES ASSUME BatchInv PROVE EB!BatchesReadable /\ EB!AddressesBounded /\ EB!TypeOK
  OBVIOUS
<1>1. EB!TypeOK /\ EB!BatchesReadable
  BY DEF BatchInv, BatchTypes, MacsInv, EB!TypeOK, EB!BatchesReadable, EB!BatchGetFails
<1>2. PICK by : LeftBy(by)
  BY DEF BatchInv
<1>3. ASSUME NEW url \in Urls
      PROVE  Cardinality({a \in EB!Offered : a.url = url}) <= Cardinality(Requests)
  <2> DEFINE S == {a \in EB!Offered : a.url = url}
             f == [a \in S |-> by[a]]
  <2>1. S \subseteq EB!Members /\ S \subseteq addresses
    BY <1>1 DEF EB!TypeOK, EB!Offered
  <2>2. f \in [S -> Requests] /\ \A a, b \in S : f[a] = f[b] => a = b
    BY <1>2, <2>1 DEF LeftBy
  <2> HIDE DEF f
  <2>3. f \in Injection(S, Requests)
    BY <2>2 DEF Injection, IsInjective
  <2> HIDE DEF S
  <2>4. Cardinality(S) <= Cardinality(Requests)
    BY <2>3, FS_Injection, RequestsAssumption
  <2>5. QED
    BY <2>4 DEF S
<1>4. EB!AddressesBounded
  <2>1. \A S : EB!Cardinality(S) = Cardinality(S)
    BY Zenon DEF Cardinality, EB!Cardinality
  <2>2. QED
    BY <1>3, <2>1, Zenon DEF EB!AddressesBounded
<1>5. QED
  BY <1>1, <1>4

\* A step on a mac: only that mac has to be looked at.
LEMMA MacStep ==
  ASSUME BatchInv, EB!TypeOK', NEW r \in Requests, NEW q \in OnMac \cup {EB!None},
         batchRequest' = [batchRequest EXCEPT ![r] = q], NEW mac \in Macs,
         batchRequest[r] \in OnMac => batchRequest[r].mac = mac,
         batchRequest[r] \in OnMac \cup {EB!None}, q \in OnMac => q.mac = mac,
         UNCHANGED addresses, unsure \subseteq unsure' \cup {mac},
         \A m \in Macs \ {mac} : (m \in batchSet' <=> m \in batchSet)
                                 /\ (m \in batchHash' <=> m \in batchHash),
         mac \notin unsure' =>
           /\ EB!OfMac(mac) \subseteq {r}
           /\ q = EB!None => mac \notin batchSet' \ batchHash'
           /\ q.pc = "hdel" => mac \notin batchSet'
  PROVE  BatchInv'
<1>1. /\ BatchTypes /\ \A s \in Requests : batchRequest'[s] = IF s = r THEN q ELSE batchRequest[s]
  BY DEF BatchInv, BatchTypes
<1>2. /\ q.pc \in {"zadd", "hset", "hdel"} => q \in OnMac
      /\ q.pc \notin {"zadd", "hset", "hdel"} => q = EB!None
      /\ q.pc # "set" /\ q.pc # "delete"
  BY DEF OnMac, EB!None
<1>3. BatchTypes'
  BY <1>1, <1>2 DEF BatchTypes
<1>4. ASSUME NEW m \in Macs, m \notin unsure'
      PROVE  /\ \A s, t \in EB!OfMac(m)' : s = t
             /\ EB!OfMac(m)' = {} => m \notin batchSet' \ batchHash'
             /\ \A s \in EB!OfMac(m)' : batchRequest'[s].pc = "hdel" => m \notin batchSet'
  <2>1. CASE m = mac
    <3>1. EB!OfMac(m)' = IF q = EB!None THEN {} ELSE {r}
      <4>1. \A s \in Requests \ {r} : s \notin EB!OfMac(m)'
        BY <1>1, <1>4, <2>1 DEF EB!OfMac
      <4>2. r \in EB!OfMac(m)' <=> q # EB!None
        BY <1>1, <1>2, <2>1 DEF EB!OfMac, OnMac, EB!None
      <4>3. EB!OfMac(m)' \subseteq Requests
        BY DEF EB!OfMac
      <4>4. QED
        BY <4>1, <4>2, <4>3
    <3>2. QED
      BY <1>1, <1>4, <2>1, <3>1
  <2>2. CASE m # mac
    <3>1. EB!OfMac(m)' = EB!OfMac(m) /\ r \notin EB!OfMac(m) /\ EB!OfMac(m) \subseteq Requests
      <4>1. r \notin EB!OfMac(m) /\ r \notin EB!OfMac(m)'
        BY <1>1, <1>2, <2>2 DEF EB!OfMac, OnMac, EB!None
      <4>2. \A s \in Requests \ {r} : s \in EB!OfMac(m) <=> s \in EB!OfMac(m)'
        BY <1>1 DEF EB!OfMac
      <4>3. EB!OfMac(m)' \subseteq Requests /\ EB!OfMac(m) \subseteq Requests
        BY DEF EB!OfMac
      <4>4. QED
        BY <4>1, <4>2, <4>3
    <3>2. m \notin unsure
      BY <1>4, <2>2
    <3>3. QED
      BY <1>1, <2>2, <3>1, <3>2 DEF BatchInv, MacsInv
  <2>3. QED
    BY <2>1, <2>2
<1>5. MacsInv'
  BY <1>4 DEF MacsInv
<1>6. PICK by : LeftBy(by)
  BY DEF BatchInv
<1>7. LeftBy(by)'
  BY <1>1, <1>2, <1>6 DEF LeftBy
<1>8. QED
  BY <1>3, <1>5, <1>7 DEF BatchInv

\* A step on the addresses leaves the macs alone.
LEMMA UrlStep ==
  ASSUME BatchInv, NEW r \in Requests, NEW q \in OnUrl \cup {EB!None},
         batchRequest' = [batchRequest EXCEPT ![r] = q],
         batchRequest[r] \in OnUrl \cup {EB!None},
         UNCHANGED <<batchSet, batchHash>>, unsure' = unsure
  PROVE  MacsInv'
<1>1. \A s \in Requests : batchRequest'[s] = IF s = r THEN q ELSE batchRequest[s]
  BY DEF BatchInv, BatchTypes
<1>2. ASSUME NEW m \in Macs
      PROVE  EB!OfMac(m)' = EB!OfMac(m) /\ r \notin EB!OfMac(m) /\ EB!OfMac(m) \subseteq Requests
  <2>1. r \notin EB!OfMac(m) /\ r \notin EB!OfMac(m)'
    BY <1>1 DEF EB!OfMac, OnUrl, EB!None
  <2>2. \A s \in Requests \ {r} : s \in EB!OfMac(m) <=> s \in EB!OfMac(m)'
    BY <1>1 DEF EB!OfMac
  <2>3. EB!OfMac(m)' \subseteq Requests /\ EB!OfMac(m) \subseteq Requests
    BY DEF EB!OfMac
  <2>4. QED
    BY <2>1, <2>2, <2>3
<1>3. QED
  BY <1>1, <1>2 DEF BatchInv, MacsInv

\* What a request is about, by its step.
LEMMA BatchRequestOf ==
  ASSUME BatchTypes, NEW r \in Requests
  PROVE  /\ batchRequest[r].pc \in {"zadd", "hset", "hdel"} =>
              batchRequest[r] \in OnMac /\ batchRequest[r].mac \in Macs
         /\ batchRequest[r].pc \in {"set", "delete"} => batchRequest[r] \in OnUrl
         /\ batchRequest[r].pc \notin {"zadd", "hset", "hdel", "set", "delete"} =>
              batchRequest[r] = EB!None
         /\ EB!None.pc = "none" /\ EB!None \notin OnMac /\ OnMac \cap OnUrl = {}
BY DEF BatchTypes, OnMac, OnUrl, EB!None

LEMMA MacStarts ==
  ASSUME BatchInv, NEW r \in Requests, NEW mac \in Macs, NEW pc \in {"zadd", "hdel"},
         EB!At(r, "none"), batchSet' = batchSet \ {mac},
         EB!Becomes(r, [pc |-> pc, mac |-> mac]), EB!Starts(mac),
         UNCHANGED <<batchHash, addresses, added, batchFailures>>
  PROVE  BatchInv'
<1> DEFINE q == [pc |-> pc, mac |-> mac]
<1>1. /\ q \in OnMac /\ q.mac = mac /\ q # EB!None
  BY DEF OnMac, EB!None
<1>2. batchRequest' = [batchRequest EXCEPT ![r] = q]
  BY DEF EB!Becomes
<1> HIDE DEF q
<1>3. batchRequest[r] = EB!None /\ EB!None \notin OnMac
  BY BatchRequestOf DEF EB!At, BatchInv
<1>4. EB!TypeOK'
  BY DEF BatchInv, BatchTypes, EB!TypeOK, EB!Members
<1>5. unsure \subseteq unsure' \cup {mac} /\ (mac \notin unsure' => EB!OfMac(mac) \subseteq {r})
  BY DEF EB!Starts
<1>6. mac \notin batchSet' /\ \A m \in Macs \ {mac} : m \in batchSet' <=> m \in batchSet
  OBVIOUS
<1>7. QED
  BY <1>1, <1>2, <1>3, <1>4, <1>5, <1>6, MacStep

LEMMA ZAddStep ==
  ASSUME BatchInv, NEW r \in Requests, EB!ZAdd(r)
  PROVE  BatchInv'
<1> DEFINE mac == batchRequest[r].mac
           q == [batchRequest[r] EXCEPT !.pc = "hset"]
<1>1. /\ batchRequest[r] \in OnMac /\ mac \in Macs
  BY BatchRequestOf DEF EB!ZAdd, EB!At, BatchInv
<1>2. /\ q \in OnMac /\ q.mac = mac /\ q.pc = "hset" /\ q # EB!None
  BY <1>1 DEF OnMac, EB!None
<1>3. /\ batchRequest' = [batchRequest EXCEPT ![r] = q]
      /\ batchSet' = batchSet \cup {mac} /\ UNCHANGED <<batchHash, addresses, added, unsure>>
  BY DEF EB!ZAdd, EB!Becomes
<1>4. EB!TypeOK'
  BY <1>1, <1>3 DEF BatchInv, BatchTypes, EB!TypeOK, EB!Members
<1>5. ASSUME mac \notin unsure PROVE EB!OfMac(mac) \subseteq {r}
  <2>1. r \in EB!OfMac(mac)
    BY DEF EB!OfMac, EB!ZAdd, EB!At
  <2>2. QED
    BY <1>1, <1>5, <2>1 DEF BatchInv, MacsInv
<1> HIDE DEF q
<1>6. PICK m \in Macs : m = mac
  BY <1>1
<1>7. QED
  BY <1>1, <1>2, <1>3, <1>4, <1>5, <1>6, MacStep

\* The last statement of a request.
LEMMA MacEnds ==
  ASSUME BatchInv, EB!TypeOK', NEW r \in Requests, NEW mac \in Macs,
         batchRequest[r].pc \in {"zadd", "hset", "hdel"}, batchRequest[r].mac = mac,
         EB!Becomes(r, EB!None),
         UNCHANGED <<batchSet, addresses>>,
         \A m \in Macs \ {mac} : m \in batchHash' <=> m \in batchHash,
         \/ unsure' = unsure \cup {mac}
         \/ unsure' = unsure /\ (batchRequest[r].pc = "hdel" \/ mac \in batchHash')
  PROVE  BatchInv'
<1>1. /\ batchRequest[r] \in OnMac
      /\ batchRequest' = [batchRequest EXCEPT ![r] = EB!None]
      /\ EB!None.pc = "none" /\ EB!None \notin OnMac
  BY BatchRequestOf DEF EB!Becomes, BatchInv
<1>2. r \in EB!OfMac(mac)
  BY DEF EB!OfMac
<1>3. mac \notin unsure' => EB!OfMac(mac) \subseteq {r} /\ mac \notin batchSet' \ batchHash'
  BY <1>2 DEF BatchInv, MacsInv
<1>4. unsure \subseteq unsure' \cup {mac}
  OBVIOUS
<1> DEFINE q == EB!None
<1>5. q \in OnMac \cup {EB!None} /\ batchRequest' = [batchRequest EXCEPT ![r] = q]
      /\ q.pc = "none" /\ q \notin OnMac
  BY <1>1
<1> HIDE DEF q
<1>6. QED
  BY <1>1, <1>3, <1>4, <1>5, MacStep, ZenonT(40)

LEMMA MacLast ==
  ASSUME BatchInv, NEW r \in Requests, EB!HSet(r) \/ EB!HDel(r)
  PROVE  BatchInv'
<1> DEFINE mac == batchRequest[r].mac
<1>1. /\ mac \in Macs /\ batchRequest[r].pc \in {"hset", "hdel"} /\ EB!Becomes(r, EB!None)
      /\ UNCHANGED <<batchSet, addresses, added, unsure>>
      /\ batchHash' = IF batchRequest[r].pc = "hset" THEN batchHash \cup {mac} ELSE batchHash \ {mac}
  BY BatchRequestOf DEF EB!HSet, EB!HDel, EB!At, BatchInv
<1>2. EB!TypeOK'
  BY <1>1 DEF BatchInv, BatchTypes, EB!TypeOK, EB!Members
<1>3. PICK m \in Macs : m = mac
  BY <1>1
<1>4. QED
  BY <1>1, <1>2, <1>3, MacEnds

LEMMA BatchFailsStep ==
  ASSUME BatchInv, NEW r \in Requests, EB!BatchFails(r)
  PROVE  BatchInv'
<1>1. EB!TypeOK'
  BY DEF EB!BatchFails, BatchInv, BatchTypes, EB!TypeOK, EB!Members
<1>2. CASE batchRequest[r].pc \in {"zadd", "hset", "hdel"}
  <2>1. PICK m \in Macs : m = batchRequest[r].mac
    BY <1>2, BatchRequestOf DEF BatchInv
  <2>2. QED
    BY <1>1, <1>2, <2>1, MacEnds DEF EB!BatchFails, EB!At
<1>3. CASE batchRequest[r].pc \in {"set", "delete"}
  <2>1. /\ batchRequest[r] \in OnUrl /\ unsure' = unsure
        /\ batchRequest' = [batchRequest EXCEPT ![r] = EB!None]
        /\ UNCHANGED <<batchSet, batchHash, addresses>>
    BY <1>3, BatchRequestOf DEF BatchInv, EB!BatchFails, EB!Becomes, EB!At
  <2>2. MacsInv'
    BY <2>1, UrlStep
  <2>3. \A s \in Requests : batchRequest'[s] = IF s = r THEN EB!None ELSE batchRequest[s]
    BY <2>1 DEF BatchInv, BatchTypes
  <2>4. EB!None.pc = "none"
    BY DEF EB!None
  <2>5. BatchTypes'
    BY <1>1, <2>1, <2>3, <2>4 DEF BatchInv, BatchTypes
  <2>6. PICK by : LeftBy(by)
    BY DEF BatchInv
  <2>7. LeftBy(by)'
    BY <2>1, <2>3, <2>4, <2>6 DEF LeftBy
  <2>8. QED
    BY <2>2, <2>5, <2>7 DEF BatchInv
<1>4. batchRequest[r].pc # "none"
  BY DEF EB!BatchFails, EB!At
<1>5. QED
  BY <1>2, <1>3, <1>4, BatchRequestOf DEF BatchInv

\* A request on a url begins: it removes every address the url has now.
LEMMA UrlStarts ==
  ASSUME BatchInv, NEW r \in Requests, NEW url \in Urls, NEW pc \in {"set", "delete"},
         NEW new \in SUBSET EB!Members, EB!At(r, "none"),
         EB!Becomes(r, [pc |-> pc, rem |-> EB!OfUrl(url), add |-> new]),
         pc = "set" => \E a \in EB!Members : new = {a} /\ a.url = url,
         pc = "delete" => new = {},
         EB!TypeOK', UNCHANGED <<batchSet, batchHash, addresses, unsure>>
  PROVE  BatchInv'
<1> DEFINE q == [pc |-> pc, rem |-> EB!OfUrl(url), add |-> new]
<1>1. /\ q \in OnUrl /\ q.pc = pc /\ q.add = new
      /\ \A b \in addresses : b.url = url => b \in q.rem
  BY DEF OnUrl, EB!OfUrl, BatchInv, BatchTypes, EB!TypeOK
<1>2. batchRequest' = [batchRequest EXCEPT ![r] = q]
  BY DEF EB!Becomes
<1> HIDE DEF q
<1>3. batchRequest[r] \in OnUrl \cup {EB!None}
  BY BatchRequestOf DEF EB!At, BatchInv
<1>4. MacsInv'
  BY <1>1, <1>2, <1>3, UrlStep
<1>5. \A s \in Requests : batchRequest'[s] = IF s = r THEN q ELSE batchRequest[s]
  BY <1>2 DEF BatchInv, BatchTypes
<1>6. BatchTypes'
  BY <1>1, <1>2, <1>5 DEF BatchInv, BatchTypes
<1>7. PICK by : LeftBy(by)
  BY DEF BatchInv
<1>8. LeftBy(by)'
  <2>1. ASSUME NEW s \in Requests, batchRequest'[s].pc = "set",
               NEW a \in batchRequest'[s].add, NEW b \in addresses, a.url = b.url, by[b] = s
        PROVE  b \in batchRequest'[s].rem
    <3>1. CASE s = r
      BY <1>1, <1>5, <2>1, <3>1
    <3>2. CASE s # r
      BY <1>5, <1>7, <2>1, <3>2 DEF LeftBy
    <3>3. QED
      BY <3>1, <3>2
  <2>2. QED
    BY <1>7, <2>1 DEF LeftBy
<1>9. QED
  BY <1>4, <1>6, <1>8 DEF BatchInv

\* EXEC: the request that adds an address is the one that left it.
LEMMA ExecStep ==
  ASSUME BatchInv, NEW r \in Requests, EB!Exec(r)
  PROVE  BatchInv'
<1>1. /\ batchRequest[r] \in OnUrl /\ batchRequest[r].pc \in {"set", "delete"}
      /\ batchRequest' = [batchRequest EXCEPT ![r] = EB!None]
      /\ addresses' = (addresses \ batchRequest[r].rem) \cup batchRequest[r].add
      /\ UNCHANGED <<batchSet, batchHash, added>> /\ unsure' = unsure
      /\ EB!None.pc = "none" /\ addresses \subseteq EB!Members
  BY BatchRequestOf DEF EB!Exec, EB!At, EB!Becomes, BatchInv, BatchTypes, EB!TypeOK
<1>2. MacsInv'
  BY <1>1, UrlStep
<1>3. \A s \in Requests : batchRequest'[s] = IF s = r THEN EB!None ELSE batchRequest[s]
  BY <1>1 DEF BatchInv, BatchTypes
<1>4. EB!TypeOK'
  <2>1. batchRequest[r].add \subseteq EB!Members
    BY <1>1 DEF OnUrl
  <2>2. addresses' \subseteq EB!Members
    BY <1>1, <2>1
  <2>3. EB!Members' = EB!Members
    BY DEF EB!Members
  <2>4. QED
    BY <1>1, <2>2, <2>3 DEF BatchInv, BatchTypes, EB!TypeOK
<1>5. BatchTypes'
  BY <1>1, <1>3, <1>4 DEF BatchInv, BatchTypes
<1>6. PICK by : LeftBy(by)
  BY DEF BatchInv
<1>7. CASE batchRequest[r].pc = "delete"
  <2>1. addresses' \subseteq addresses
    BY <1>1, <1>7 DEF BatchInv, BatchTypes
  <2>2. LeftBy(by)'
    BY <1>1, <1>3, <1>6, <2>1 DEF LeftBy
  <2>3. QED
    BY <1>2, <1>5, <2>2 DEF BatchInv
<1>8. CASE batchRequest[r].pc = "set"
  <2>1. PICK new \in EB!Members : batchRequest[r].add = {new}
    BY <1>8 DEF BatchInv, BatchTypes
  <2> DEFINE left == [by EXCEPT ![new] = r]
  <2>2. /\ left \in [EB!Members -> Requests]
        /\ \A a \in EB!Members : left[a] = IF a = new THEN r ELSE by[a]
    <3>1. by \in [EB!Members -> Requests]
      BY <1>6 DEF LeftBy
    <3>2. QED
      BY <3>1
  <2> HIDE DEF left
  <2>3. \A a \in addresses' : a \in EB!Members /\ (a = new \/ (a \in addresses /\ a \notin batchRequest[r].rem))
    <3>1. addresses' = (addresses \ batchRequest[r].rem) \cup {new} /\ addresses \subseteq EB!Members
      BY <1>1, <2>1
    <3>2. QED
      BY <2>1, <3>1
  <2>4. \A a \in addresses : a.url = new.url /\ by[a] = r => a \in batchRequest[r].rem
    BY <1>6, <1>8, <2>1 DEF LeftBy
  <2>5. ASSUME NEW a \in addresses', NEW b \in addresses', a.url = b.url, left[a] = left[b]
        PROVE  a = b
    <3>1. CASE a # new /\ b # new
      BY <1>6, <2>2, <2>3, <2>5, <3>1 DEF LeftBy
    <3>2. CASE a = new \/ b = new
      BY <2>2, <2>3, <2>4, <2>5, <3>2
    <3>3. QED
      BY <3>1, <3>2
  <2>6. ASSUME NEW s \in Requests, batchRequest'[s].pc = "set",
               NEW a \in batchRequest'[s].add, NEW b \in addresses', a.url = b.url, left[b] = s
        PROVE  b \in batchRequest'[s].rem
    <3>1. s # r
      BY <1>1, <1>3, <2>6
    <3>2. b \in addresses /\ by[b] = s
      BY <2>2, <2>3, <2>6, <3>1
    <3>3. QED
      BY <1>3, <1>6, <2>6, <3>1, <3>2 DEF LeftBy
  <2>7. EB!Members' = EB!Members
    BY DEF EB!Members
  <2>8. LeftBy(left)'
    BY <2>2, <2>5, <2>6, <2>7 DEF LeftBy
  <2>9. QED
    BY <1>2, <1>5, <2>8 DEF BatchInv
<1>9. QED
  BY <1>1, <1>7, <1>8

LEMMA BatchNext == BatchInv /\ [EB!Next]_batchVars => BatchInv'
<1> SUFFICES ASSUME BatchInv, [EB!Next]_batchVars PROVE BatchInv'
  OBVIOUS
<1>1. CASE UNCHANGED batchVars
  <2>1. BatchTypes'
    BY <1>1 DEF BatchInv, BatchTypes, batchVars, EB!TypeOK, EB!Members
  <2>2. MacsInv'
    BY <1>1 DEF BatchInv, MacsInv, batchVars, EB!OfMac
  <2>3. PICK by : LeftBy(by)
    BY DEF BatchInv
  <2>4. LeftBy(by)'
    BY <1>1, <2>3 DEF LeftBy, batchVars, EB!Members
  <2>5. QED
    BY <2>1, <2>2, <2>4 DEF BatchInv
<1>2. ASSUME NEW r \in Requests, NEW mac \in Macs, EB!BatchReport(r, mac)
      PROVE  BatchInv'
  BY <1>2, MacStarts DEF EB!BatchReport
<1>3. ASSUME NEW r \in Requests, NEW mac \in Macs, EB!BatchDel(r, mac)
      PROVE  BatchInv'
  BY <1>3, MacStarts DEF EB!BatchDel
<1>4. ASSUME NEW r \in Requests, NEW url \in Urls, NEW enable \in BOOLEAN,
             EB!BatchAddressSet(r, url, enable)
      PROVE  BatchInv'
  <2> DEFINE a == [url |-> url, enable |-> enable, id |-> added + 1]
  <2>1. EB!TypeOK' /\ a \in EB!Members /\ a.url = url
    BY <1>4, BatchesAssumption DEF EB!BatchAddressSet, BatchInv, BatchTypes, EB!TypeOK, EB!Members
  <2>2. PICK m \in EB!Members : m = a
    BY <2>1
  <2>3. EB!Becomes(r, [pc |-> "set", rem |-> EB!OfUrl(url), add |-> {m}])
    BY <1>4, <2>2 DEF EB!BatchAddressSet
  <2>4. {m} \in SUBSET EB!Members /\ \E b \in EB!Members : {m} = {b} /\ b.url = url
    BY <2>1, <2>2
  <2>5. /\ EB!At(r, "none") /\ UNCHANGED <<batchSet, batchHash, addresses, unsure>>
        /\ "set" \in {"set", "delete"} /\ "set" # "delete"
    BY <1>4 DEF EB!BatchAddressSet
  <2> HIDE DEF a
  <2> DEFINE new == {m}
             pc == "set"
  <2>6. /\ pc \in {"set", "delete"} /\ pc # "delete" /\ new \in SUBSET EB!Members
        /\ EB!Becomes(r, [pc |-> pc, rem |-> EB!OfUrl(url), add |-> new])
        /\ \E b \in EB!Members : new = {b} /\ b.url = url
    BY <2>3, <2>4
  <2> HIDE DEF new, pc
  <2>7. QED
    BY <2>1, <2>5, <2>6, UrlStarts
<1>5. ASSUME NEW r \in Requests, NEW url \in Urls, EB!BatchAddressDel(r, url)
      PROVE  BatchInv'
  <2>1. EB!TypeOK'
    BY <1>5 DEF EB!BatchAddressDel, BatchInv, BatchTypes, EB!TypeOK, EB!Members
  <2> DEFINE new == {}
             pc == "delete"
  <2>2. /\ pc \in {"set", "delete"} /\ pc # "set" /\ new \in SUBSET EB!Members /\ new = {}
        /\ EB!Becomes(r, [pc |-> pc, rem |-> EB!OfUrl(url), add |-> new])
        /\ EB!At(r, "none") /\ UNCHANGED <<batchSet, batchHash, addresses, unsure>>
    BY <1>5 DEF EB!BatchAddressDel
  <2> HIDE DEF new, pc
  <2>3. QED
    BY <2>1, <2>2, UrlStarts
<1>6. ASSUME NEW r \in Requests, EB!ZAdd(r) \/ EB!HSet(r) \/ EB!HDel(r) \/ EB!Exec(r) \/ EB!BatchFails(r)
      PROVE  BatchInv'
  BY <1>6, ZAddStep, MacLast, ExecStep, BatchFailsStep
<1>7. QED
  BY <1>1, <1>2, <1>3, <1>4, <1>5, <1>6 DEF EB!Next

\* The batches and their addresses.
LEMMA BatchInvariant == Spec => []BatchInv
<1>1. Init => BatchInv
  BY BatchInit DEF Init
<1>2. BatchInv /\ [Next]_serviceVars => BatchInv'
  BY BatchNext DEF Next, serviceVars
<1>3. QED
  BY <1>1, <1>2, PTL DEF Spec
-----------------------------------------------------------------------------
(* AreaDirectory                                                           *)

Loads == [pc : {"set"}, seen : [Areas -> Hosts \cup {NoHost}], todo : SUBSET Areas]

AreaTypes ==
  /\ AD!TypeOK
  /\ load \in [Requests -> Loads \cup {AD!NotLoading}]
  /\ had \in [Areas -> SUBSET Hosts]
  /\ behind \subseteq Areas

Known(a) == had[a] \cup {NoHost}

\* Whatever is read of an area is a scheduler it has had.
HadInv ==
  \A a \in Areas : /\ {etcd[a], config[a], client[a], ipOf[a]} \subseteq Known(a)
                   /\ \A l \in Requests : load[l].pc = "set" => load[l].seen[a] \in Known(a)

\* An area that is up to date, and no load will write what it was before.
FollowInv ==
  \A a \in Areas \ behind :
    /\ etcd[a] # NoHost => config[a] = etcd[a]
    /\ \A l \in Requests : load[l].pc = "set" /\ a \in load[l].todo => load[l].seen[a] = etcd[a]

\* An address leads to an area that has had it too.
AddressInv ==
  \A a \in Areas : ipOf[a] # NoHost =>
    /\ areaOf[ipOf[a]] \in Areas
    /\ ipOf[a] \in had[a] \cap had[areaOf[ipOf[a]]]

AreaInv == AreaTypes /\ HadInv /\ FollowInv /\ AddressInv /\ AD!AnswersAsked

LEMMA AreaInit == AD!Init => AreaInv
<1> SUFFICES ASSUME AD!Init PROVE AreaInv
  OBVIOUS
<1> USE AreasAssumption DEF AD!Init
<1>1. AD!NotLoading.pc = "not"
  BY DEF AD!NotLoading
<1>2. AreaTypes
  <2>1. AD!TypeOK
    BY DEF AD!TypeOK, AD!NoArea
  <2>2. behind \subseteq Areas
    BY DEF AD!Listed
  <2>3. QED
    BY <2>1, <2>2 DEF AreaTypes
<1>3. HadInv
  BY <1>1 DEF HadInv, Known
<1>4. FollowInv
  BY <1>1 DEF FollowInv, AD!Listed
<1>5. AddressInv /\ AD!AnswersAsked
  BY DEF AddressInv, AD!AnswersAsked
<1>6. QED
  BY <1>2, <1>3, <1>4, <1>5 DEF AreaInv

LEMMA AreaNow ==
  AreaInv => AD!ClientsOfArea /\ AD!ConfigsFollow /\ AD!AnswersAsked /\ AD!TypeOK
<1> SUFFICES ASSUME AreaInv PROVE AD!ClientsOfArea /\ AD!ConfigsFollow
  BY DEF AreaInv, AreaTypes
<1>1. AD!ClientsOfArea
  BY DEF AreaInv, HadInv, Known, AD!ClientsOfArea
<1>2. AD!ConfigsFollow
  BY DEF AreaInv, FollowInv, AD!ConfigsFollow
<1>3. QED
  BY <1>1, <1>2

LEMMA LoadOf ==
  ASSUME AreaTypes, NEW l \in Requests, load[l].pc = "set"
  PROVE  load[l] \in Loads /\ load[l].seen \in [Areas -> Hosts \cup {NoHost}]
         /\ load[l].todo \subseteq Areas
BY DEF AreaTypes, Loads, AD!NotLoading

\* A load that begins has seen what is in etcd.
LEMMA GetStep ==
  ASSUME AreaInv, NEW l \in Requests, AD!Get(l),
         UNCHANGED <<etcd, config, cityAreaIDs, client, ipOf, areaOf, astray, had, behind>>,
         lastSync' \in {"never", "fresh", "old"}
  PROVE  AreaInv'
<1> DEFINE q == [pc |-> "set", seen |-> etcd, todo |-> AD!Listed(etcd)]
<1>1. q \in Loads /\ q.seen = etcd
  BY DEF AreaInv, AreaTypes, AD!TypeOK, AD!Listed, Loads
<1>2. load' = [load EXCEPT ![l] = q]
  BY DEF AD!Get
<1> HIDE DEF q
<1>3. \A k \in Requests : load'[k] = IF k = l THEN q ELSE load[k]
  BY <1>2 DEF AreaInv, AreaTypes
<1>4. AreaTypes'
  BY <1>1, <1>2 DEF AreaInv, AreaTypes, AD!TypeOK
<1>5. HadInv'
  BY <1>1, <1>3 DEF AreaInv, HadInv, Known
<1>6. FollowInv'
  BY <1>1, <1>3 DEF AreaInv, FollowInv
<1>7. AddressInv' /\ AD!AnswersAsked'
  BY DEF AreaInv, AddressInv, AD!AnswersAsked
<1>8. QED
  BY <1>4, <1>5, <1>6, <1>7 DEF AreaInv

LEMMA ChangeStep ==
  ASSUME AreaInv, NEW a \in Areas, NEW h \in Hosts \cup {NoHost}, AD!EtcdChanges(a, h)
  PROVE  AreaInv'
<1> USE DEF AD!EtcdChanges
<1>1. /\ etcd \in [Areas -> Hosts \cup {NoHost}] /\ had \in [Areas -> SUBSET Hosts]
      /\ \A b \in Areas : etcd'[b] = IF b = a THEN h ELSE etcd[b]
      /\ \A b \in Areas : had'[b] = IF b = a THEN had[b] \cup ({h} \ {NoHost}) ELSE had[b]
  BY DEF AreaInv, AreaTypes, AD!TypeOK
<1>2. AreaTypes'
  BY <1>1 DEF AreaInv, AreaTypes, AD!TypeOK
<1>3. \A b \in Areas : had[b] \subseteq had'[b]
  BY <1>1
<1>4. HadInv'
  BY <1>1, <1>3 DEF AreaInv, HadInv, Known
<1>5. FollowInv'
  BY <1>1 DEF AreaInv, FollowInv
<1>6. AddressInv'
  BY <1>3 DEF AreaInv, AddressInv
<1>7. AD!AnswersAsked'
  BY <1>3 DEF AreaInv, AD!AnswersAsked
<1>8. QED
  BY <1>2, <1>4, <1>5, <1>6, <1>7 DEF AreaInv

LEMMA SetStep ==
  ASSUME AreaInv, NEW l \in Requests, NEW a \in Areas, AD!SetSchedulerConfigs(l, a)
  PROVE  AreaInv'
<1> USE DEF AD!SetSchedulerConfigs
<1> DEFINE q == [load[l] EXCEPT !.todo = @ \ {a}]
<1>1. /\ load[l] \in Loads /\ q \in Loads
      /\ q.seen = load[l].seen /\ q.todo = load[l].todo \ {a} /\ q.pc = "set"
      /\ load[l].pc = "set"
  BY LoadOf DEF AreaInv, Loads
<1>2. load' = [load EXCEPT ![l] = q]
  OBVIOUS
<1> HIDE DEF q
<1>3. /\ \A k \in Requests : load'[k] = IF k = l THEN q ELSE load[k]
      /\ \A b \in Areas : config'[b] = IF b = a THEN load[l].seen[a] ELSE config[b]
  BY <1>2 DEF AreaInv, AreaTypes, AD!TypeOK
<1>4. AreaTypes'
  BY <1>1, <1>2 DEF AreaInv, AreaTypes, AD!TypeOK, Loads
<1>5. HadInv'
  BY <1>1, <1>3 DEF AreaInv, HadInv, Known
<1>6. ASSUME NEW b \in Areas, b \notin behind'
      PROVE  /\ etcd[b] # NoHost => config'[b] = etcd[b]
             /\ \A k \in Requests : load'[k].pc = "set" /\ b \in load'[k].todo
                                      => load'[k].seen[b] = etcd[b]
  <2>1. CASE b = a
    <3>1. /\ load[l].seen[a] = etcd[a]
          /\ \A k \in Requests \ {l} : load[k] # AD!NotLoading /\ a \in load[k].todo
                                        => load[k].seen[a] = etcd[a]
      BY <1>6, <2>1
    <3>2. \A k \in Requests : load[k].pc = "set" => load[k] # AD!NotLoading
      BY DEF AD!NotLoading
    <3>3. QED
      BY <1>1, <1>3, <2>1, <3>1, <3>2
  <2>2. CASE b # a
    <3>1. b \notin behind
      BY <1>6, <2>2
    <3>2. QED
      BY <1>1, <1>3, <2>2, <3>1 DEF AreaInv, FollowInv
  <2>3. QED
    BY <2>1, <2>2
<1>7. FollowInv'
  BY <1>6 DEF FollowInv
<1>8. AddressInv' /\ AD!AnswersAsked'
  BY DEF AreaInv, AddressInv, AD!AnswersAsked
<1>9. QED
  BY <1>4, <1>5, <1>7, <1>8 DEF AreaInv

LEMMA SetFailsStep ==
  ASSUME AreaInv, NEW l \in Requests, NEW a \in Areas, AD!SetFails(l, a)
  PROVE  AreaInv'
<1> USE DEF AD!SetFails
<1> DEFINE q == [load[l] EXCEPT !.todo = @ \ {a}]
<1>1. /\ load[l] \in Loads /\ q \in Loads
      /\ q.seen = load[l].seen /\ q.todo = load[l].todo \ {a} /\ q.pc = "set"
      /\ load[l].pc = "set"
  BY LoadOf DEF AreaInv, Loads
<1>2. load' = [load EXCEPT ![l] = q]
  OBVIOUS
<1> HIDE DEF q
<1>3. \A k \in Requests : load'[k] = IF k = l THEN q ELSE load[k]
  BY <1>2 DEF AreaInv, AreaTypes
<1>4. AreaTypes'
  BY <1>1, <1>2 DEF AreaInv, AreaTypes, AD!TypeOK, Loads
<1>5. HadInv'
  BY <1>1, <1>3 DEF AreaInv, HadInv, Known
<1>6. FollowInv'
  BY <1>1, <1>3 DEF AreaInv, FollowInv
<1>7. AddressInv' /\ AD!AnswersAsked'
  BY DEF AreaInv, AddressInv, AD!AnswersAsked
<1>8. QED
  BY <1>4, <1>5, <1>6, <1>7 DEF AreaInv

LEMMA LoadedStep ==
  ASSUME AreaInv, NEW l \in Requests, AD!Loaded(l)
  PROVE  AreaInv'
<1> USE DEF AD!Loaded
<1>1. /\ \A k \in Requests : load'[k] = IF k = l THEN AD!NotLoading ELSE load[k]
      /\ AD!NotLoading.pc = "not"
  BY DEF AreaInv, AreaTypes, AD!NotLoading
<1>2. AreaTypes'
  BY DEF AreaInv, AreaTypes, AD!TypeOK, AD!Listed
<1>3. HadInv'
  BY <1>1 DEF AreaInv, HadInv, Known
<1>4. FollowInv'
  BY <1>1 DEF AreaInv, FollowInv
<1>5. AddressInv' /\ AD!AnswersAsked'
  BY DEF AreaInv, AddressInv, AD!AnswersAsked
<1>6. QED
  BY <1>2, <1>3, <1>4, <1>5 DEF AreaInv

LEMMA ClientStep ==
  ASSUME AreaInv, NEW a \in Areas, AD!UseScheduler(a)
  PROVE  AreaInv'
<1> USE DEF AD!UseScheduler
<1>1. PICK b \in Areas : client' = [client EXCEPT ![b] = IF @ = NoHost THEN config[b] ELSE @]
  BY AreasAssumption DEF AD!GetSchedulerClient
<1>2. /\ client \in [Areas -> Hosts \cup {NoHost}] /\ config \in [Areas -> Hosts \cup {NoHost}]
      /\ \A c \in Areas : client'[c] \in {client[c], config[c]}
  BY <1>1 DEF AreaInv, AreaTypes, AD!TypeOK
<1>3. AreaTypes'
  BY <1>1, <1>2 DEF AreaInv, AreaTypes, AD!TypeOK
<1>4. HadInv'
  BY <1>2 DEF AreaInv, HadInv, Known
<1>5. FollowInv' /\ AddressInv' /\ AD!AnswersAsked'
  BY DEF AreaInv, FollowInv, AddressInv, AD!AnswersAsked
<1>6. QED
  BY <1>3, <1>4, <1>5 DEF AreaInv

LEMMA AddressStep ==
  ASSUME AreaInv, NEW a \in Areas, AD!GetAreaIPByID(a)
  PROVE  AreaInv'
<1> USE DEF AD!GetAreaIPByID
<1>1. PICK h \in Hosts : h = config[a] /\ h # NoHost /\ h \in had[a]
  BY DEF AreaInv, AreaTypes, AD!TypeOK, HadInv, Known
<1>2. /\ ipOf' = [ipOf EXCEPT ![a] = h] /\ areaOf' = [areaOf EXCEPT ![h] = a]
      /\ ipOf \in [Areas -> Hosts \cup {NoHost}] /\ areaOf \in [Hosts -> Areas \cup {AD!NoArea}]
  BY <1>1 DEF AreaInv, AreaTypes, AD!TypeOK
<1>3. /\ \A b \in Areas : ipOf'[b] = IF b = a THEN h ELSE ipOf[b]
      /\ \A g \in Hosts : areaOf'[g] = IF g = h THEN a ELSE areaOf[g]
  BY <1>2
<1>4. AreaTypes'
  <2>1. /\ ipOf' \in [Areas -> Hosts \cup {NoHost}]
        /\ areaOf' \in [Hosts -> Areas \cup {AD!NoArea}]
    BY <1>2
  <2>2. QED
    BY <2>1 DEF AreaInv, AreaTypes, AD!TypeOK
<1>5. HadInv'
  BY <1>1, <1>3 DEF AreaInv, HadInv, Known
<1>6. ASSUME NEW b \in Areas, ipOf'[b] # NoHost
      PROVE  areaOf'[ipOf'[b]] \in Areas /\ ipOf'[b] \in had[b] \cap had[areaOf'[ipOf'[b]]]
  <2>1. CASE b = a
    BY <1>1, <1>3, <2>1
  <2>2. CASE b # a
    <3>1. /\ ipOf'[b] = ipOf[b] /\ ipOf[b] \in Hosts
          /\ areaOf[ipOf[b]] \in Areas /\ ipOf[b] \in had[b] \cap had[areaOf[ipOf[b]]]
      BY <1>2, <1>3, <1>6, <2>2 DEF AreaInv, AddressInv
    <3>2. QED
      BY <1>1, <1>3, <3>1
  <2>3. QED
    BY <2>1, <2>2
<1>7. AddressInv'
  BY <1>6 DEF AddressInv
<1>8. FollowInv' /\ AD!AnswersAsked'
  BY DEF AreaInv, FollowInv, AD!AnswersAsked
<1>9. QED
  BY <1>4, <1>5, <1>7, <1>8 DEF AreaInv

\* The area in front was asked for, or has had the address of another one.
LEMMA ChooseStep ==
  ASSUME AreaInv, NEW countries, AD!ChooseAreas(countries)
  PROVE  AreaInv'
<1> USE DEF AD!ChooseAreas
<1> DEFINE aids == AD!AreasOf(countries)
<1>1. aids \subseteq Areas
  BY DEF AD!AreasOf, AreaInv, AreaTypes, AD!TypeOK
<1>2. PICK tadis \in {aids} \cup {{a \in aids : CountryOf[a] = k} : k \in countries} :
        \E nearest \in AD!Nearest(tadis) : astray' = astray \cup ({nearest} \ aids)
  BY DEF AD!GetAreaIDsByAreaID
<1>3. tadis \subseteq aids
  BY <1>2
<1>4. PICK b \in tadis : ipOf[b] # NoHost /\ astray' = astray \cup ({areaOf[ipOf[b]]} \ aids)
  BY <1>2 DEF AD!Nearest
<1> HIDE DEF aids
<1>5. b \in Areas /\ areaOf[ipOf[b]] \in Areas /\ ipOf[b] \in had[b] \cap had[areaOf[ipOf[b]]]
  BY <1>1, <1>3, <1>4 DEF AreaInv, AddressInv
<1>6. PICK n \in Areas : n = areaOf[ipOf[b]]
  BY <1>5
<1>7. astray' = astray \/ (n # b /\ had[n] \cap had[b] # {})
  BY <1>3, <1>4, <1>5, <1>6
<1>8. AD!AnswersAsked'
  BY <1>5, <1>7 DEF AreaInv, AD!AnswersAsked
<1>9. AreaTypes'
  BY <1>4, <1>5 DEF AreaInv, AreaTypes, AD!TypeOK
<1>10. HadInv' /\ FollowInv' /\ AddressInv'
  BY DEF AreaInv, HadInv, Known, FollowInv, AddressInv
<1>11. QED
  BY <1>8, <1>9, <1>10 DEF AreaInv

\* A step that only the time of the last call sees.
LEMMA AreaQuiet ==
  ASSUME AreaInv, lastSync' \in {"never", "fresh", "old"},
         UNCHANGED <<etcd, config, load, cityAreaIDs, client, ipOf, areaOf, astray, had, behind>>
  PROVE  AreaInv'
<1>1. AreaTypes'
  BY DEF AreaInv, AreaTypes, AD!TypeOK
<1>2. HadInv' /\ FollowInv' /\ AddressInv' /\ AD!AnswersAsked'
  BY DEF AreaInv, HadInv, Known, FollowInv, AddressInv, AD!AnswersAsked
<1>3. QED
  BY <1>1, <1>2 DEF AreaInv

LEMMA AreaNext == AreaInv /\ [AD!Next]_areaVars => AreaInv'
<1> SUFFICES ASSUME AreaInv, [AD!Next]_areaVars PROVE AreaInv'
  OBVIOUS
<1>1. lastSync \in {"never", "fresh", "old"}
  BY DEF AreaInv, AreaTypes, AD!TypeOK
<1>2. CASE UNCHANGED areaVars
  BY <1>1, <1>2, AreaQuiet DEF areaVars
<1>3. ASSUME NEW a \in Areas, NEW h \in Hosts \cup {NoHost}, AD!EtcdChanges(a, h) PROVE AreaInv'
  BY <1>3, ChangeStep
<1>4. ASSUME NEW a \in Areas, NEW l \in Requests, AD!SetSchedulerConfigs(l, a) PROVE AreaInv'
  BY <1>4, SetStep
<1>5. ASSUME NEW a \in Areas, AD!UseScheduler(a) \/ AD!GetAreaIPByID(a) PROVE AreaInv'
  BY <1>5, ClientStep, AddressStep
<1>6. ASSUME NEW l \in Requests, AD!FetchSchedulers(l) PROVE AreaInv'
  BY <1>1, <1>6, GetStep DEF AD!FetchSchedulers
<1>7. ASSUME NEW l \in Requests, AD!Loaded(l) PROVE AreaInv'
  BY <1>7, LoadedStep
<1>8. CASE AD!GetAndStoreAreaIDs
  <2>1. lastSync' \in {"never", "fresh", "old"}
    BY <1>1, <1>8 DEF AD!GetAndStoreAreaIDs
  <2>2. CASE AD!Get(Request)
    BY <1>8, <2>1, <2>2, GetStep, AreasAssumption DEF AD!GetAndStoreAreaIDs
  <2>3. CASE UNCHANGED load
    BY <1>8, <2>1, <2>3, AreaQuiet DEF AD!GetAndStoreAreaIDs
  <2>4. QED
    BY <1>8, <2>2, <2>3 DEF AD!GetAndStoreAreaIDs
<1>9. CASE AD!TenMinutes
  BY <1>9, AreaQuiet DEF AD!TenMinutes
<1>10. ASSUME NEW countries, AD!ChooseAreas(countries) PROVE AreaInv'
  BY <1>10, ChooseStep
<1>11. ASSUME NEW a \in Areas, NEW l \in Requests, AD!SetFails(l, a) PROVE AreaInv'
  BY <1>11, SetFailsStep
<1>12. QED
  BY <1>2, <1>3, <1>4, <1>5, <1>6, <1>7, <1>8, <1>9, <1>10, <1>11 DEF AD!Next

\* The areas and what the process keeps of them.
LEMMA AreaInvariant == Spec => []AreaInv
<1>1. Init => AreaInv
  BY AreaInit DEF Init
<1>2. AreaInv /\ [Next]_serviceVars => AreaInv'
  BY AreaNext DEF Next, serviceVars
<1>3. QED
  BY <1>1, <1>2, PTL DEF Spec
-----------------------------------------------------------------------------
(* SharedAssets                                                            *)

ShareSteps == {"away", "count", "read", "trace", "share", "group"}

ShareType ==
    /\ SA!TypeOK
    /\ visitor \in [Requests -> [pc : ShareSteps]]
    /\ drain \in [Drains -> {SA!Resting} \cup [pc : {"get"}, traffic : 0 .. 1]
                            \cup [pc : {"del", "store"}, traffic : 0 .. 1, count : Nat]]

\* The visitors that are at a step.
AtStep(vs, step) == Cardinality({v \in Requests : vs[v].pc = step})

\* Who has opened the file or reads the count has been counted, or that was ignored;
\* who has entered the group has been counted, or is about to be.
OpensCounted ==
    ~EnableVIP =>
        /\ granted["file"] + AtStep(visitor, "read") <= visits + ignored
        /\ granted["file"] <= MaxVisits + ignored
        /\ granted["group"] <= AtStep(visitor, "group") + groupVisits + ignored
        /\ granted["group"] <= MaxVisits + Cardinality(Requests) - 1 + ignored

\* As long as drains have not overlapped, one at most runs: what it has read is still
\* counted until it has deleted it, and what it has not recorded was served.
DrainsAlone ==
    ~overlapped =>
        /\ \A d, e \in Drains : drain[d] # SA!Resting /\ drain[e] # SA!Resting => d = e
        /\ recorded + downloads <= served
        /\ \A d \in Drains :
             /\ drain[d].pc = "del" => drain[d].count <= downloads
             /\ drain[d].pc = "store" => recorded + downloads + drain[d].count <= served

ShareInv == ShareType /\ OpensCounted /\ DrainsAlone

LEMMA RequestsCounted == Cardinality(Requests) \in Nat \ {0}
BY RequestsAssumption, FS_EmptySet, FS_CardinalityType

LEMMA VisitorGoes ==
  ASSUME ShareType, NEW v \in Requests, NEW step \in ShareSteps,
         visitor' = [visitor EXCEPT ![v] = [pc |-> step]], NEW p
  PROVE  /\ AtStep(visitor, p) \in Nat /\ AtStep(visitor', p) \in Nat
         /\ AtStep(visitor', p) + (IF visitor[v].pc = p THEN 1 ELSE 0)
              = AtStep(visitor, p) + (IF step = p THEN 1 ELSE 0)
<1> DEFINE A == {w \in Requests : visitor[w].pc = p}
           B == {w \in Requests : visitor'[w].pc = p}
<1>1. /\ A \in SUBSET Requests /\ B \in SUBSET Requests /\ A \ {v} = B \ {v}
      /\ v \in A <=> visitor[v].pc = p
      /\ v \in B <=> step = p
  BY DEF ShareType
<1>2. PICK a : a = A
  OBVIOUS
<1>3. PICK b : b = B
  OBVIOUS
<1>4. /\ a \in SUBSET Requests /\ b \in SUBSET Requests /\ a \ {v} = b \ {v}
      /\ v \in a <=> visitor[v].pc = p
      /\ v \in b <=> step = p
  BY <1>1, <1>2, <1>3, Zenon
<1>5. /\ Cardinality(a) \in Nat /\ Cardinality(b) \in Nat
      /\ Cardinality(b) + (IF v \in a THEN 1 ELSE 0) = Cardinality(a) + (IF v \in b THEN 1 ELSE 0)
  BY <1>4, RequestsAssumption, CountChange
<1>6. AtStep(visitor, p) = Cardinality(a) /\ AtStep(visitor', p) = Cardinality(b)
  BY <1>2, <1>3, Zenon DEF AtStep
<1>7. QED
  BY <1>4, <1>5, <1>6

\* Not everybody who could be at a step is, when one is elsewhere.
LEMMA OneElsewhere ==
  ASSUME NEW v \in Requests, NEW p, visitor[v].pc # p
  PROVE  AtStep(visitor, p) \in Nat /\ AtStep(visitor, p) <= Cardinality(Requests) - 1
<1>1. PICK a : a = {w \in Requests : visitor[w].pc = p}
  OBVIOUS
<1>2. a \subseteq Requests \ {v}
  BY <1>1
<1>3. IsFiniteSet(Requests \ {v}) /\ Cardinality(Requests \ {v}) = Cardinality(Requests) - 1
  BY RequestsAssumption, FS_RemoveElement
<1>4. Cardinality(a) \in Nat /\ Cardinality(a) <= Cardinality(Requests \ {v})
  BY <1>2, <1>3, FS_Subset, FS_CardinalityType
<1>5. QED
  BY <1>1, <1>3, <1>4 DEF AtStep

LEMMA ShareInit == SA!Init => ShareInv
<1> SUFFICES ASSUME SA!Init PROVE ShareInv
  OBVIOUS
<1>1. ShareType
  <2>1. SA!TypeOK
    <3>1. granted \in [{"file", "group"} -> Nat]
      BY DEF SA!Init
    <3>2. {visits, groupVisits, downloads, recorded, served, begun, ignored} \subseteq Nat
      BY DEF SA!Init
    <3>3. traffic \in 0 .. MaxTotalFlow
      BY SharesAssumption DEF SA!Init
    <3>4. overlapped \in BOOLEAN
      BY DEF SA!Init
    <3>5. flowCache \in (0 .. MaxTotalFlow) \cup {NoFlow}
      BY DEF SA!Init
    <3>6. QED
      BY <3>1, <3>2, <3>3, <3>4, <3>5, Zenon DEF SA!TypeOK
  <2>2. SA!Away \in [pc : ShareSteps]
    BY DEF SA!Away, ShareSteps
  <2>3. QED
    BY <2>1, <2>2 DEF SA!Init, ShareType
<1>2. AtStep(visitor, "read") = 0 /\ AtStep(visitor, "group") = 0
  <2>1. /\ {v \in Requests : visitor[v].pc = "read"} = {}
        /\ {v \in Requests : visitor[v].pc = "group"} = {}
    BY DEF SA!Init, SA!Away
  <2>2. QED
    BY <2>1, FS_EmptySet DEF AtStep
<1>3. OpensCounted
  BY <1>2, RequestsCounted, SharesAssumption DEF SA!Init, OpensCounted
<1>4. DrainsAlone
  BY DEF SA!Init, DrainsAlone, SA!Resting
<1>5. QED
  BY <1>1, <1>3, <1>4 DEF ShareInv

LEMMA ShareNumbers ==
  ASSUME ShareType
  PROVE  /\ visits \in Nat /\ groupVisits \in Nat /\ downloads \in Nat /\ recorded \in Nat
         /\ served \in Nat /\ ignored \in Nat /\ begun \in Nat
         /\ granted["file"] \in Nat /\ granted["group"] \in Nat
         /\ \A p : AtStep(visitor, p) \in Nat
<1>1. \A p : AtStep(visitor, p) \in Nat
  <2> TAKE p
  <2>1. IsFiniteSet({w \in Requests : visitor[w].pc = p})
    BY RequestsAssumption, FS_Subset
  <2>2. QED
    BY <2>1, FS_CardinalityType DEF AtStep
<1>2. QED
  BY <1>1 DEF ShareType, SA!TypeOK

LEMMA DrainOf ==
  ASSUME ShareType, NEW d \in Drains
  PROVE  /\ drain[d].pc \in {"del", "store"} =>
              drain[d] \in [pc : {"del", "store"}, traffic : 0 .. 1, count : Nat]
         /\ drain[d].pc = "get" => drain[d] \in [pc : {"get"}, traffic : 0 .. 1]
         /\ drain[d].pc \in {"get", "del", "store"} => drain[d] # SA!Resting
BY DEF ShareType, SA!Resting

\* A step of a visitor changes no drain.
LEMMA VisitorStep ==
  ASSUME ShareInv, ShareType', OpensCounted',
         UNCHANGED <<recorded, drain, overlapped>>,
         \/ UNCHANGED <<downloads, served>>
         \/ served' = served + 1 /\ downloads' \in {downloads, downloads + 1}
  PROVE  ShareInv'
<1>1. DrainsAlone'
  <2> SUFFICES ASSUME ~overlapped, DrainsAlone
               PROVE  /\ recorded + downloads' <= served'
                      /\ \A d \in Drains :
                           /\ drain[d].pc = "del" => drain[d].count <= downloads'
                           /\ drain[d].pc = "store" =>
                                recorded + downloads' + drain[d].count <= served'
    BY DEF DrainsAlone, ShareInv
  <2>1. /\ downloads \in Nat /\ served \in Nat /\ recorded \in Nat
        /\ downloads' \in {downloads, downloads + 1}
        /\ downloads' - downloads <= served' - served /\ served' \in Nat /\ downloads' \in Nat
    BY ShareNumbers DEF ShareInv
  <2>2. recorded + downloads <= served
    BY DEF DrainsAlone
  <2>3. ASSUME NEW d \in Drains
        PROVE  /\ drain[d].pc = "del" => drain[d].count <= downloads'
               /\ drain[d].pc = "store" => recorded + downloads' + drain[d].count <= served'
    <3>1. drain[d].pc \in {"del", "store"} => drain[d].count \in Nat
      BY DrainOf DEF ShareInv
    <3>2. QED
      BY <2>1, <3>1 DEF DrainsAlone
  <2>4. recorded + downloads' <= served'
    <3>1. PICK a \in Nat : a = downloads
      BY <2>1
    <3>2. PICK b \in Nat : b = downloads'
      BY <2>1
    <3>3. PICK c \in Nat : c = served
      BY <2>1
    <3>4. PICK e \in Nat : e = served'
      BY <2>1
    <3>5. recorded \in Nat /\ recorded + a <= c /\ b - a <= e - c
      BY <2>1, <2>2, <3>1, <3>2, <3>3, <3>4, Zenon
    <3>6. recorded + b <= e
      BY <3>5
    <3>7. QED
      BY <3>2, <3>4, <3>6, Zenon
  <2>5. QED
    BY <2>3, <2>4, Zenon
<1>2. QED
  BY <1>1 DEF ShareInv

\* A step of a drain changes no visitor.
LEMMA DrainStep ==
  ASSUME ShareInv, ShareType', DrainsAlone',
         UNCHANGED <<visits, groupVisits, visitor, granted, ignored>>
  PROVE  ShareInv'
BY DEF ShareInv, OpensCounted

LEMMA ArriveStep ==
  ASSUME ShareInv, NEW v \in Requests, NEW steps_, steps_ \subseteq ShareSteps \ {"read", "group"},
         SA!Arrive(v, steps_)
  PROVE  ShareInv'
<1>1. /\ visitor[v].pc = "away"
      /\ \/ UNCHANGED visitor
         \/ \E step \in steps_ : visitor' = [visitor EXCEPT ![v] = [pc |-> step]]
      /\ UNCHANGED <<visits, groupVisits, traffic, downloads, recorded, drain, granted,
                     served, ignored, overlapped>>
      /\ begun' = begun + 1 /\ flowCache' \in {flowCache, traffic}
  BY DEF SA!Arrive, SA!Goes, SA!Away, SA!Flow
<1>2. ShareType'
  BY <1>1 DEF ShareInv, ShareType, SA!TypeOK
<1>3. AtStep(visitor', "read") = AtStep(visitor, "read")
      /\ AtStep(visitor', "group") = AtStep(visitor, "group")
  <2>1. CASE UNCHANGED visitor
    BY <2>1
  <2>2. ASSUME NEW step \in steps_, visitor' = [visitor EXCEPT ![v] = [pc |-> step]]
        PROVE  \A p \in {"read", "group"} : AtStep(visitor', p) = AtStep(visitor, p)
    <3> TAKE p \in {"read", "group"}
    <3>1. step \in ShareSteps /\ step # p /\ visitor[v].pc # p
      BY <1>1
    <3>2. /\ AtStep(visitor, p) \in Nat /\ AtStep(visitor', p) \in Nat
          /\ AtStep(visitor', p) + (IF visitor[v].pc = p THEN 1 ELSE 0)
               = AtStep(visitor, p) + (IF step = p THEN 1 ELSE 0)
      BY <2>2, <3>1, VisitorGoes, ZenonT(40) DEF ShareInv
    <3>3. QED
      BY <3>1, <3>2
  <2>3. QED
    BY <1>1, <2>1, <2>2
<1>4. OpensCounted'
  BY <1>1, <1>3 DEF ShareInv, OpensCounted
<1>5. QED
  BY <1>1, <1>2, <1>4, VisitorStep

\* A visitor takes a step.
LEMMA VisitorCounts ==
  ASSUME ShareInv, NEW v \in Requests, NEW step \in ShareSteps,
         visitor' = [visitor EXCEPT ![v] = [pc |-> step]]
  PROVE  /\ \A p \in {"read", "group"} :
              AtStep(visitor', p) = AtStep(visitor, p) + (IF step = p THEN 1 ELSE 0)
                                      - (IF visitor[v].pc = p THEN 1 ELSE 0)
         /\ visitor' \in [Requests -> [pc : ShareSteps]]
         /\ visitor[v].pc \in ShareSteps
<1>1. ASSUME NEW p \in {"read", "group"}
      PROVE  AtStep(visitor', p) = AtStep(visitor, p) + (IF step = p THEN 1 ELSE 0)
                                      - (IF visitor[v].pc = p THEN 1 ELSE 0)
  <2>1. /\ AtStep(visitor, p) \in Nat /\ AtStep(visitor', p) \in Nat
        /\ AtStep(visitor', p) + (IF visitor[v].pc = p THEN 1 ELSE 0)
             = AtStep(visitor, p) + (IF step = p THEN 1 ELSE 0)
    BY VisitorGoes, ZenonT(40) DEF ShareInv
  <2>2. QED
    BY <2>1
<1>2. QED
  BY <1>1 DEF ShareInv, ShareType

LEMMA CountStep ==
  ASSUME ShareInv, NEW v \in Requests,
         SA!AddVisitCount(v) \/ SA!GetVisitCount(v) \/ SA!GetAssetStatus(v)
           \/ SA!AddAssetGroupVisitCount(v)
  PROVE  ShareInv'
<1>1. PICK step \in ShareSteps : visitor' = [visitor EXCEPT ![v] = [pc |-> step]]
        /\ (SA!AddVisitCount(v) => step = "read")
        /\ (SA!GetVisitCount(v) => step \in {"trace", "away"})
        /\ (SA!GetAssetStatus(v) => step = "group")
        /\ (SA!AddAssetGroupVisitCount(v) => step = "away")
  <2>1. /\ SA!AddVisitCount(v) => visitor' = [visitor EXCEPT ![v] = [pc |-> "read"]]
        /\ SA!GetVisitCount(v) => \/ visitor' = [visitor EXCEPT ![v] = [pc |-> "trace"]]
                                  \/ visitor' = [visitor EXCEPT ![v] = [pc |-> "away"]]
        /\ SA!GetAssetStatus(v) => visitor' = [visitor EXCEPT ![v] = [pc |-> "group"]]
        /\ SA!AddAssetGroupVisitCount(v) => visitor' = [visitor EXCEPT ![v] = [pc |-> "away"]]
    BY DEF SA!AddVisitCount, SA!GetVisitCount, SA!GetAssetStatus, SA!AddAssetGroupVisitCount,
           SA!Goes, SA!Enter, SA!Away
  <2>2. /\ SA!AddVisitCount(v) => visitor[v].pc = "count"
        /\ SA!GetVisitCount(v) => visitor[v].pc = "read"
        /\ SA!GetAssetStatus(v) => visitor[v].pc = "away"
        /\ SA!AddAssetGroupVisitCount(v) => visitor[v].pc = "group"
    BY DEF SA!AddVisitCount, SA!GetVisitCount, SA!GetAssetStatus, SA!AddAssetGroupVisitCount,
           SA!Away
  <2>3. "read" \in ShareSteps /\ "trace" \in ShareSteps /\ "away" \in ShareSteps
        /\ "group" \in ShareSteps
    BY DEF ShareSteps
  <2>4. CASE SA!AddVisitCount(v)
    BY <2>1, <2>2, <2>3, <2>4
  <2>5. CASE SA!GetVisitCount(v)
    BY <2>1, <2>2, <2>3, <2>5
  <2>6. CASE SA!GetAssetStatus(v)
    BY <2>1, <2>2, <2>3, <2>6
  <2>7. CASE SA!AddAssetGroupVisitCount(v)
    BY <2>1, <2>2, <2>3, <2>7
  <2>8. QED
    BY <2>4, <2>5, <2>6, <2>7
<1>2. /\ UNCHANGED <<traffic, downloads, recorded, drain, served, overlapped>>
      /\ UNCHANGED flowCache
  BY DEF SA!AddVisitCount, SA!GetVisitCount, SA!GetAssetStatus, SA!AddAssetGroupVisitCount
<1>3. /\ visitor' \in [Requests -> [pc : ShareSteps]]
      /\ AtStep(visitor', "read") = AtStep(visitor, "read") + (IF step = "read" THEN 1 ELSE 0)
                                       - (IF visitor[v].pc = "read" THEN 1 ELSE 0)
      /\ AtStep(visitor', "group") = AtStep(visitor, "group") + (IF step = "group" THEN 1 ELSE 0)
                                        - (IF visitor[v].pc = "group" THEN 1 ELSE 0)
  BY <1>1, VisitorCounts
<1>4. PICK r \in Nat : r = AtStep(visitor, "read")
  BY ShareNumbers DEF ShareInv
<1>5. PICK g \in Nat : g = AtStep(visitor, "group")
  BY ShareNumbers DEF ShareInv
<1>6. PICK size \in Nat : size = Cardinality(Requests) /\ (visitor[v].pc # "group" => g <= size - 1)
  <2>1. visitor[v].pc # "group" => g <= Cardinality(Requests) - 1
    BY <1>5, OneElsewhere
  <2>2. QED
    BY <2>1, RequestsCounted
<1>7. /\ visits \in Nat /\ groupVisits \in Nat /\ ignored \in Nat /\ begun \in Nat
      /\ granted \in [{"file", "group"} -> Nat]
      /\ granted["file"] \in Nat /\ granted["group"] \in Nat /\ MaxVisits \in Nat
  BY ShareNumbers, SharesAssumption DEF ShareInv, ShareType, SA!TypeOK
<1>8. ~EnableVIP =>
        /\ granted["file"] + r <= visits + ignored
        /\ granted["file"] <= MaxVisits + ignored
        /\ granted["group"] <= g + groupVisits + ignored
        /\ granted["group"] <= MaxVisits + size - 1 + ignored
  BY <1>4, <1>5, <1>6, Zenon DEF ShareInv, OpensCounted
<1>9. PICK m : m = AtStep(visitor', "read")
  OBVIOUS
<1>10. PICK n : n = AtStep(visitor', "group")
  OBVIOUS
<1>11. /\ m = r + (IF step = "read" THEN 1 ELSE 0) - (IF visitor[v].pc = "read" THEN 1 ELSE 0)
       /\ n = g + (IF step = "group" THEN 1 ELSE 0) - (IF visitor[v].pc = "group" THEN 1 ELSE 0)
  BY <1>3, <1>4, <1>5, <1>9, <1>10, Zenon
<1>12. /\ {visits', groupVisits', ignored', begun'} \subseteq Nat
       /\ granted' \in [{"file", "group"} -> Nat]
       /\ ~EnableVIP =>
            /\ granted'["file"] + m <= visits' + ignored'
            /\ granted'["file"] <= MaxVisits + ignored'
            /\ granted'["group"] <= n + groupVisits' + ignored'
            /\ granted'["group"] <= MaxVisits + size - 1 + ignored'
  <2>1. CASE SA!AddVisitCount(v)
    <3>1. step = "read" /\ visitor[v].pc = "count"
      BY <1>1, <2>1 DEF SA!AddVisitCount
    <3>2. m = r + 1 /\ n = g
      BY <1>11, <3>1
    <3>3. QED
      BY <1>7, <1>8, <2>1, <3>2 DEF SA!AddVisitCount, SA!Fails
  <2>2. CASE SA!GetVisitCount(v)
    <3>1. step \in {"trace", "away"} /\ visitor[v].pc = "read"
      BY <1>1, <2>2 DEF SA!GetVisitCount
    <3>2. m = r - 1 /\ n = g
      BY <1>11, <3>1
    <3>3. granted' = [granted EXCEPT !["file"] = @ + 1] \/ UNCHANGED granted
      BY <2>2 DEF SA!GetVisitCount, SA!Enter
    <3>4. granted'["group"] = granted["group"] /\ granted' \in [{"file", "group"} -> Nat]
          /\ granted'["file"] \in {granted["file"], granted["file"] + 1}
      BY <1>7, <3>3
    <3>5. /\ UNCHANGED <<visits, groupVisits, begun>>
          /\ \/ visits <= MaxVisits /\ ignored' = ignored
             \/ EnableVIP /\ ignored' = ignored
             \/ granted' = granted /\ ignored' = ignored
             \/ ignored' = ignored + 1
      BY <2>2 DEF SA!GetVisitCount, SA!Fails
    <3>6. UNCHANGED <<visits, groupVisits, begun>> /\ ignored' \in Nat /\ ignored' >= ignored
      BY <1>7, <3>5
    <3>7. AtStep(visitor, "read") >= 1
      <4>1. PICK a : a = {w \in Requests : visitor[w].pc = "read"}
        OBVIOUS
      <4>2. v \in a /\ IsFiniteSet(a)
        BY <3>1, <4>1, RequestsAssumption, FS_Subset
      <4>3. Cardinality(a) >= 1
        BY <4>2, FS_EmptySet, FS_CardinalityType
      <4>4. QED
        BY <4>1, <4>3, Zenon DEF AtStep
    <3>8. ASSUME ~EnableVIP
          PROVE  /\ granted'["file"] + m <= visits' + ignored'
                 /\ granted'["file"] <= MaxVisits + ignored'
      <4>1. PICK a \in Nat : a = granted["file"]
        BY <1>7
      <4>2. PICK b \in Nat : b = granted'["file"] /\ b \in {a, a + 1}
        BY <3>4, <4>1
      <4>3. PICK i \in Nat : i = ignored' /\ i >= ignored
        BY <3>6
      <4>4. a + r <= visits + ignored /\ a <= MaxVisits + ignored
        BY <1>8, <3>8, <4>1, Zenon
      <4>5. visits <= MaxVisits \/ b = a \/ i = ignored + 1
        BY <3>5, <3>8, <4>1, <4>2, <4>3, Zenon
      <4>6. r >= 1
        BY <1>4, <3>7
      <4>7. b + m <= visits + i /\ b <= MaxVisits + i
        BY <1>7, <3>2, <4>2, <4>3, <4>4, <4>5, <4>6
      <4>8. visits' = visits
        BY <3>6
      <4>9. QED
        BY <4>2, <4>3, <4>7, <4>8, Zenon
    <3>9. ASSUME ~EnableVIP
          PROVE  /\ granted'["group"] <= n + groupVisits' + ignored'
                 /\ granted'["group"] <= MaxVisits + size - 1 + ignored'
      BY <1>5, <1>7, <1>8, <3>2, <3>4, <3>6, <3>9
    <3>10. QED
      BY <1>7, <3>4, <3>6, <3>8, <3>9
  <2>3. CASE SA!GetAssetStatus(v)
    <3>1. step = "group" /\ visitor[v].pc = "away"
      BY <1>1, <2>3 DEF SA!GetAssetStatus, SA!Away
    <3>2. m = r /\ n = g + 1 /\ g <= size - 1
      BY <1>6, <1>11, <3>1
    <3>3. granted' = [granted EXCEPT !["group"] = @ + 1]
      BY <2>3 DEF SA!GetAssetStatus
    <3>4. granted'["file"] = granted["file"] /\ granted' \in [{"file", "group"} -> Nat]
          /\ granted'["group"] = granted["group"] + 1
      BY <1>7, <3>3
    <3>5. /\ UNCHANGED <<visits, groupVisits, ignored>> /\ begun' = begun + 1
          /\ EnableVIP \/ groupVisits < MaxVisits
      BY <2>3 DEF SA!GetAssetStatus
    <3>6. QED
      BY <1>5, <1>6, <1>7, <1>8, <3>2, <3>4, <3>5
  <2>4. CASE SA!AddAssetGroupVisitCount(v)
    <3>1. step = "away" /\ visitor[v].pc = "group"
      BY <1>1, <2>4 DEF SA!AddAssetGroupVisitCount
    <3>2. m = r /\ n = g - 1
      BY <1>11, <3>1
    <3>3. QED
      BY <1>7, <1>8, <2>4, <3>2 DEF SA!AddAssetGroupVisitCount, SA!Fails
  <2>5. QED
    BY <2>1, <2>2, <2>3, <2>4
<1>13. ShareType'
  <2>1. {visits, groupVisits, downloads, recorded, served, begun, ignored}' \subseteq Nat
    BY <1>2, <1>12, ShareNumbers DEF ShareInv
  <2>2. SA!TypeOK'
    BY <1>2, <1>12, <2>1 DEF ShareInv, ShareType, SA!TypeOK
  <2>3. QED
    BY <1>2, <1>3, <2>2 DEF ShareInv, ShareType
<1>14. OpensCounted'
  BY <1>6, <1>9, <1>10, <1>12, Zenon DEF OpensCounted
<1>15. QED
  BY <1>2, <1>13, <1>14, VisitorStep

\* Neither a trace nor a URL is counted.
LEMMA ServeStep ==
  ASSUME ShareInv, NEW v \in Requests, SA!NewLogTrace(v) \/ SA!ShareAsset(v)
  PROVE  ShareInv'
<1>1. /\ visitor[v].pc \in {"trace", "share"}
      /\ \/ visitor' = [visitor EXCEPT ![v] = [pc |-> "share"]]
         \/ visitor' = [visitor EXCEPT ![v] = [pc |-> "away"]]
      /\ UNCHANGED <<visits, groupVisits, traffic, flowCache, recorded, drain, granted,
                     begun, overlapped>>
      /\ \/ UNCHANGED <<downloads, served>>
         \/ served' = served + 1 /\ downloads' \in {downloads, downloads + 1}
      /\ ignored' \in {ignored, ignored + 1}
  BY DEF SA!NewLogTrace, SA!ShareAsset, SA!Goes, SA!Away, SA!Fails
<1>2. PICK step \in {"share", "away"} : visitor' = [visitor EXCEPT ![v] = [pc |-> step]]
  BY <1>1
<1>3. /\ AtStep(visitor', "read") = AtStep(visitor, "read")
      /\ AtStep(visitor', "group") = AtStep(visitor, "group")
      /\ visitor' \in [Requests -> [pc : ShareSteps]]
  <2>1. step \in ShareSteps
    BY DEF ShareSteps
  <2>2. /\ \A p \in {"read", "group"} :
             AtStep(visitor', p) = AtStep(visitor, p) + (IF step = p THEN 1 ELSE 0)
                                     - (IF visitor[v].pc = p THEN 1 ELSE 0)
        /\ visitor' \in [Requests -> [pc : ShareSteps]]
    BY <1>2, <2>1, VisitorCounts
  <2>3. AtStep(visitor, "read") \in Nat /\ AtStep(visitor, "group") \in Nat
    BY ShareNumbers DEF ShareInv
  <2>4. QED
    BY <1>1, <2>2, <2>3
<1>4. OpensCounted'
  <2>1. PICK r \in Nat : r = AtStep(visitor, "read")
    BY ShareNumbers DEF ShareInv
  <2>2. PICK g \in Nat : g = AtStep(visitor, "group")
    BY ShareNumbers DEF ShareInv
  <2>3. PICK size \in Nat : size = Cardinality(Requests)
    BY RequestsCounted
  <2>4. ~EnableVIP => /\ granted["file"] + r <= visits + ignored
                      /\ granted["file"] <= MaxVisits + ignored
                      /\ granted["group"] <= g + groupVisits + ignored
                      /\ granted["group"] <= MaxVisits + size - 1 + ignored
    BY <2>1, <2>2, <2>3, Zenon DEF ShareInv, OpensCounted
  <2>5. ~EnableVIP => /\ granted["file"] + r <= visits + ignored'
                      /\ granted["file"] <= MaxVisits + ignored'
                      /\ granted["group"] <= g + groupVisits + ignored'
                      /\ granted["group"] <= MaxVisits + size - 1 + ignored'
    BY <1>1, <2>4, ShareNumbers, SharesAssumption DEF ShareInv
  <2>6. UNCHANGED <<visits, groupVisits, granted>>
    BY <1>1
  <2>7. QED
    BY <1>3, <2>1, <2>2, <2>3, <2>5, <2>6, Zenon DEF OpensCounted
<1>5. ShareType'
  <2>1. {visits, groupVisits, downloads, recorded, served, begun, ignored}' \subseteq Nat
    BY <1>1, ShareNumbers DEF ShareInv
  <2>2. SA!TypeOK'
    BY <1>1, <2>1 DEF ShareInv, ShareType, SA!TypeOK
  <2>3. QED
    BY <1>1, <1>3, <2>2 DEF ShareInv, ShareType
<1>6. QED
  BY <1>1, <1>4, <1>5, VisitorStep

LEMMA StartStep ==
  ASSUME ShareInv, NEW d \in Drains, SA!SyncDashboard(d)
  PROVE  ShareInv'
<1>1. PICK most \in 0 .. 1 : drain' = [drain EXCEPT ![d] = [pc |-> "get", traffic |-> most]]
  BY DEF SA!SyncDashboard
<1>2. /\ UNCHANGED <<visits, groupVisits, traffic, flowCache, downloads, recorded,
                     visitor, granted, served, ignored>>
      /\ begun' = begun + 1
      /\ drain[d] = SA!Resting
      /\ overlapped' = (overlapped \/ \E e \in Drains \ {d} : drain[e] # SA!Resting)
  BY DEF SA!SyncDashboard
<1>3. ShareType'
  BY <1>1, <1>2 DEF ShareInv, ShareType, SA!TypeOK
<1>4. DrainsAlone'
  BY <1>1, <1>2 DEF ShareInv, ShareType, DrainsAlone, SA!Resting
<1>5. QED
  BY <1>2, <1>3, <1>4, DrainStep

LEMMA GetDownloadsStep ==
  ASSUME ShareInv, NEW d \in Drains, SA!GetDownloads(d)
  PROVE  ShareInv'
<1>1. /\ drain' = [drain EXCEPT ![d] =
             [pc |-> "del", traffic |-> drain[d].traffic, count |-> downloads]]
      /\ drain[d].pc = "get"
      /\ UNCHANGED <<visits, groupVisits, traffic, flowCache, downloads, recorded,
                     visitor, granted, served, begun, ignored, overlapped>>
  BY DEF SA!GetDownloads
<1>2. drain[d] # SA!Resting /\ drain[d].traffic \in 0 .. 1 /\ downloads \in Nat
  BY <1>1, DrainOf, ShareNumbers DEF ShareInv
<1>3. ShareType'
  BY <1>1, <1>2 DEF ShareInv, ShareType, SA!TypeOK
<1>4. DrainsAlone'
  BY <1>1, <1>2 DEF ShareInv, ShareType, DrainsAlone
<1>5. QED
  BY <1>1, <1>3, <1>4, DrainStep

LEMMA DelDownloadsStep ==
  ASSUME ShareInv, NEW d \in Drains, SA!DelDownloads(d)
  PROVE  ShareInv'
<1>1. /\ drain' = [drain EXCEPT ![d].pc = "store"]
      /\ drain[d].pc = "del" /\ downloads' = 0
      /\ UNCHANGED <<visits, groupVisits, traffic, flowCache, recorded,
                     visitor, granted, served, begun, ignored, overlapped>>
  BY DEF SA!DelDownloads
<1>2. /\ drain[d] \in [pc : {"del", "store"}, traffic : 0 .. 1, count : Nat]
      /\ drain[d] # SA!Resting
  BY <1>1, DrainOf DEF ShareInv
<1>3. PICK entry \in [pc : {"del", "store"}, traffic : 0 .. 1, count : Nat] :
        /\ drain' = [drain EXCEPT ![d] = entry]
        /\ entry.pc = "store" /\ entry.count = drain[d].count
  <2> DEFINE e == [drain[d] EXCEPT !.pc = "store"]
  <2>1. /\ e \in [pc : {"del", "store"}, traffic : 0 .. 1, count : Nat]
        /\ drain' = [drain EXCEPT ![d] = e] /\ e.pc = "store" /\ e.count = drain[d].count
    BY <1>1, <1>2
  <2> HIDE DEF e
  <2>2. QED
    BY <2>1
<1>4. ShareType'
  <2>1. drain' \in [Drains -> {SA!Resting} \cup [pc : {"get"}, traffic : 0 .. 1]
                            \cup [pc : {"del", "store"}, traffic : 0 .. 1, count : Nat]]
    BY <1>3 DEF ShareInv, ShareType
  <2>2. SA!TypeOK'
    BY <1>1 DEF ShareInv, ShareType, SA!TypeOK
  <2>3. QED
    BY <1>1, <2>1, <2>2 DEF ShareInv, ShareType
<1>5. DrainsAlone'
  <2> SUFFICES ASSUME ~overlapped
               PROVE  /\ \A p, q \in Drains :
                           drain'[p] # SA!Resting /\ drain'[q] # SA!Resting => p = q
                      /\ recorded + downloads' <= served
                      /\ \A p \in Drains :
                           /\ drain'[p].pc = "del" => drain'[p].count <= downloads'
                           /\ drain'[p].pc = "store" =>
                                recorded + downloads' + drain'[p].count <= served
    BY <1>1 DEF DrainsAlone
  <2>1. \A p \in Drains : p # d => drain'[p] = drain[p] /\ drain[p] = SA!Resting
    BY <1>2, <1>3 DEF ShareInv, DrainsAlone
  <2>2. /\ recorded + downloads <= served /\ drain[d].count <= downloads
        /\ recorded \in Nat /\ downloads \in Nat /\ served \in Nat /\ drain[d].count \in Nat
    BY <1>1, <1>2, ShareNumbers DEF ShareInv, DrainsAlone
  <2>3. drain'[d] = entry
    BY <1>3 DEF ShareInv, ShareType
  <2>4. recorded + 0 <= served /\ recorded + 0 + entry.count <= served
    BY <1>3, <2>2
  <2>5. QED
    BY <1>1, <1>3, <2>1, <2>3, <2>4 DEF SA!Resting
<1>6. QED
  BY <1>1, <1>4, <1>5, DrainStep

LEMMA RecordStep ==
  ASSUME ShareInv, NEW d \in Drains, SA!AddAssetHourStorages(d)
  PROVE  ShareInv'
<1>1. /\ drain' = [drain EXCEPT ![d] = SA!Resting] /\ drain[d].pc = "store"
      /\ \/ /\ recorded' = recorded + drain[d].count
            /\ traffic' = IF traffic + drain[d].traffic > MaxTotalFlow THEN MaxTotalFlow
                          ELSE traffic + drain[d].traffic
         \/ UNCHANGED <<recorded, traffic>>
      /\ UNCHANGED <<visits, groupVisits, flowCache, downloads,
                     visitor, granted, served, begun, ignored, overlapped>>
  BY DEF SA!AddAssetHourStorages
<1>2. /\ drain[d].traffic \in 0 .. 1 /\ drain[d].count \in Nat /\ drain[d] # SA!Resting
      /\ traffic \in 0 .. MaxTotalFlow /\ MaxTotalFlow \in Nat
  BY <1>1, DrainOf, SharesAssumption DEF ShareInv, ShareType, SA!TypeOK
<1>3. traffic' \in 0 .. MaxTotalFlow /\ recorded' \in Nat
  BY <1>1, <1>2, ShareNumbers DEF ShareInv
<1>4. ShareType'
  <2>1. {visits, groupVisits, downloads, recorded, served, begun, ignored}' \subseteq Nat
    BY <1>1, <1>3, ShareNumbers DEF ShareInv
  <2>2. SA!TypeOK'
    BY <1>1, <1>3, <2>1 DEF ShareInv, ShareType, SA!TypeOK
  <2>3. QED
    BY <1>1, <2>2 DEF ShareInv, ShareType
<1>5. DrainsAlone'
  <2> SUFFICES ASSUME ~overlapped
               PROVE  /\ \A p \in Drains : drain'[p] = SA!Resting
                      /\ recorded' + downloads <= served
    BY <1>1 DEF DrainsAlone, SA!Resting
  <2>1. \A p \in Drains : p # d => drain'[p] = drain[p] /\ drain[p] = SA!Resting
    BY <1>1, <1>2 DEF ShareInv, DrainsAlone
  <2>2. recorded + downloads <= served /\ recorded + downloads + drain[d].count <= served
    BY <1>1 DEF ShareInv, DrainsAlone
  <2>3. drain'[d] = SA!Resting
    BY <1>1 DEF ShareInv, ShareType
  <2>4. recorded' + downloads <= served
    BY <1>1, <1>2, <2>2, ShareNumbers DEF ShareInv
  <2>5. QED
    BY <2>1, <2>3, <2>4
<1>6. QED
  BY <1>1, <1>4, <1>5, DrainStep

LEMMA ShareNext == ShareInv /\ [SA!Next]_shareVars => ShareInv'
<1> SUFFICES ASSUME ShareInv, [SA!Next]_shareVars PROVE ShareInv'
  OBVIOUS
<1>1. CASE UNCHANGED shareVars
  BY <1>1 DEF shareVars, ShareInv, ShareType, OpensCounted, DrainsAlone, SA!TypeOK, AtStep
<1>2. ASSUME NEW v \in Requests, SA!OpenAsset(v) \/ SA!ShareAssets(v) PROVE ShareInv'
  <2>1. /\ {"count", "trace"} \subseteq ShareSteps \ {"read", "group"}
        /\ {"trace", "share"} \subseteq ShareSteps \ {"read", "group"}
    BY DEF ShareSteps
  <2>2. QED
    BY <1>2, <2>1, ArriveStep DEF SA!OpenAsset, SA!ShareAssets
<1>3. ASSUME NEW v \in Requests,
             SA!AddVisitCount(v) \/ SA!GetVisitCount(v) \/ SA!GetAssetStatus(v)
               \/ SA!AddAssetGroupVisitCount(v)
      PROVE  ShareInv'
  BY <1>3, CountStep
<1>4. ASSUME NEW v \in Requests, SA!NewLogTrace(v) \/ SA!ShareAsset(v) PROVE ShareInv'
  BY <1>4, ServeStep
<1>5. ASSUME NEW d \in Drains,
             SA!SyncDashboard(d) \/ SA!GetDownloads(d) \/ SA!DelDownloads(d)
               \/ SA!AddAssetHourStorages(d)
      PROVE  ShareInv'
  BY <1>5, StartStep, GetDownloadsStep, DelDownloadsStep, RecordStep
<1>6. CASE SA!FlowExpires
  <2>1. ShareType' /\ DrainsAlone'
    BY <1>6 DEF SA!FlowExpires, ShareInv, ShareType, SA!TypeOK, DrainsAlone
  <2>2. QED
    BY <1>6, <2>1, DrainStep DEF SA!FlowExpires
<1>7. QED
  BY <1>1, <1>2, <1>3, <1>4, <1>5, <1>6 DEF SA!Next

LEMMA ShareNow == ShareInv => SA!OpensBounded /\ SA!DownloadsRecorded /\ SA!TypeOK
<1>1. \A S : SA!Cardinality(S) = Cardinality(S)
  BY Zenon DEF SA!Cardinality, Cardinality
<1>2. ShareInv => SA!OpensBounded
  BY <1>1, Zenon DEF ShareInv, OpensCounted, SA!OpensBounded
<1>3. ShareInv => SA!DownloadsRecorded
  BY ShareNumbers DEF ShareInv, DrainsAlone, SA!DownloadsRecorded
<1>4. QED
  BY <1>2, <1>3 DEF ShareInv, ShareType

\* Opens and downloads of shared files.
LEMMA ShareInvariant == Spec => []ShareInv
<1>1. Init => ShareInv
  BY ShareInit DEF Init
<1>2. ShareInv /\ [Next]_serviceVars => ShareInv'
  BY ShareNext DEF Next, serviceVars
<1>3. QED
  BY <1>1, <1>2, PTL DEF Spec
-----------------------------------------------------------------------------
(* TempFiles                                                               *)

FileSteps == {"waiting", "create", "push", "offer", "share", "download"}
ToShare == {"create", "push", "offer", "share"}
ToDownload == {"download"}

\* The requests on their way to increment a counter.
OnTheWay(requests, stages) == Cardinality({r \in Requests : requests[r].pc \in stages})

\* A counter and the requests on their way to it stay in their bound; what the areas
\* are offered for is stored.
FileInv ==
    /\ tempAsset \in [exists : BOOLEAN, shares : Nat, downloads : Nat]
    /\ unsynced \in BOOLEAN /\ stored \subseteq FileAreas
    /\ fileRequest \in [Requests -> [pc : FileSteps]]
    /\ syncJob \in [Syncs -> [pc : {"waiting", "ask", "del"}]
                            \cup [pc : {"set"}, areas : SUBSET FileAreas]]
    /\ tempAsset.exists \/ tempAsset.shares = 0
    /\ tempAsset.shares + OnTheWay(fileRequest, ToShare) <= MaxShares + Cardinality(Requests) - 1
    /\ tempAsset.downloads + OnTheWay(fileRequest, ToDownload)
         <= MaxDownloads + Cardinality(Requests) - 1
    /\ offered \subseteq stored \cup {FirstArea}
    /\ \A j \in Syncs : syncJob[j].pc = "set" => syncJob[j].areas \subseteq stored \cup {FirstArea}

LEMMA FileRequestsCounted ==
  /\ Cardinality(Requests) \in Nat \ {0}
  /\ \A stages : OnTheWay(fileRequest, stages) \in Nat
<1>1. Cardinality(Requests) \in Nat \ {0}
  BY RequestsAssumption, FS_EmptySet, FS_CardinalityType
<1>2. ASSUME NEW stages PROVE OnTheWay(fileRequest, stages) \in Nat
  <2>1. IsFiniteSet({r \in Requests : fileRequest[r].pc \in stages})
    BY RequestsAssumption, FS_Subset
  <2>2. QED
    BY <2>1, FS_CardinalityType DEF OnTheWay
<1>3. QED
  BY <1>1, <1>2

\* A request takes a step.
LEMMA RequestCounts ==
  ASSUME FileInv, NEW r \in Requests, NEW step \in FileSteps,
         fileRequest' = [fileRequest EXCEPT ![r] = [pc |-> step]], NEW stages
  PROVE  /\ OnTheWay(fileRequest', stages)
              = OnTheWay(fileRequest, stages) + (IF step \in stages THEN 1 ELSE 0)
                  - (IF fileRequest[r].pc \in stages THEN 1 ELSE 0)
         /\ fileRequest' \in [Requests -> [pc : FileSteps]]
         /\ fileRequest[r].pc \notin stages =>
              OnTheWay(fileRequest, stages) <= Cardinality(Requests) - 1
<1>1. PICK a : a = {q \in Requests : fileRequest[q].pc \in stages}
  OBVIOUS
<1>2. PICK b : b = {q \in Requests : fileRequest'[q].pc \in stages}
  OBVIOUS
<1>3. /\ a \in SUBSET Requests /\ b \in SUBSET Requests /\ a \ {r} = b \ {r}
      /\ r \in a <=> fileRequest[r].pc \in stages
      /\ r \in b <=> step \in stages
  BY <1>1, <1>2 DEF FileInv
<1>4. /\ Cardinality(a) \in Nat /\ Cardinality(b) \in Nat
      /\ Cardinality(b) + (IF r \in a THEN 1 ELSE 0) = Cardinality(a) + (IF r \in b THEN 1 ELSE 0)
  BY <1>3, RequestsAssumption, CountChange
<1>5. r \notin a => Cardinality(a) <= Cardinality(Requests) - 1
  <2>1. IsFiniteSet(Requests \ {r}) /\ Cardinality(Requests \ {r}) = Cardinality(Requests) - 1
    BY RequestsAssumption, FS_RemoveElement
  <2>2. ASSUME r \notin a PROVE Cardinality(a) <= Cardinality(Requests \ {r})
    BY <1>3, <2>1, <2>2, FS_Subset
  <2>3. QED
    BY <2>1, <2>2
<1>6. OnTheWay(fileRequest, stages) = Cardinality(a) /\ OnTheWay(fileRequest', stages) = Cardinality(b)
  BY <1>1, <1>2, Zenon DEF OnTheWay
<1>7. fileRequest' \in [Requests -> [pc : FileSteps]]
  BY DEF FileInv
<1>8. Cardinality(b) = Cardinality(a) + (IF step \in stages THEN 1 ELSE 0)
                         - (IF fileRequest[r].pc \in stages THEN 1 ELSE 0)
  BY <1>3, <1>4
<1>9. QED
  BY <1>3, <1>5, <1>6, <1>7, <1>8, Zenon

LEMMA FileInit == TF!Init => FileInv
<1> SUFFICES ASSUME TF!Init PROVE FileInv
  OBVIOUS
<1>1. \A stages \in {ToShare, ToDownload} : OnTheWay(fileRequest, stages) = 0
  <2> TAKE stages \in {ToShare, ToDownload}
  <2>1. {r \in Requests : fileRequest[r].pc \in stages} = {}
    BY DEF TF!Init, TF!Waiting, ToShare, ToDownload
  <2>2. QED
    BY <2>1, FS_EmptySet DEF OnTheWay
<1>2. /\ tempAsset \in [exists : BOOLEAN, shares : Nat, downloads : Nat]
      /\ tempAsset.shares = 0 /\ tempAsset.downloads = 0
  BY DEF TF!Init, TF!NoRow
<1>3. /\ fileRequest \in [Requests -> [pc : FileSteps]]
      /\ \A j \in Syncs : syncJob[j].pc = "waiting"
      /\ syncJob \in [Syncs -> [pc : {"waiting", "ask", "del"}]
                            \cup [pc : {"set"}, areas : SUBSET FileAreas]]
  <2>1. /\ TF!Waiting \in [pc : FileSteps] /\ TF!Waiting \in [pc : {"waiting", "ask", "del"}]
        /\ TF!Waiting.pc = "waiting"
    BY DEF TF!Waiting, FileSteps
  <2>2. QED
    BY <2>1 DEF TF!Init
<1>4. OnTheWay(fileRequest, ToShare) = 0 /\ OnTheWay(fileRequest, ToDownload) = 0
  BY <1>1
<1>5. /\ tempAsset.shares + OnTheWay(fileRequest, ToShare) <= MaxShares + Cardinality(Requests) - 1
      /\ tempAsset.downloads + OnTheWay(fileRequest, ToDownload)
           <= MaxDownloads + Cardinality(Requests) - 1
  BY <1>2, <1>4, FileRequestsCounted, FilesAssumption
<1>6. QED
  BY <1>2, <1>3, <1>5 DEF TF!Init, FileInv

\* The counters and the requests of a step of a request; the rest of its effects.
LEMMA FileStep ==
  ASSUME FileInv, NEW r \in Requests, NEW step \in FileSteps,
         fileRequest' = [fileRequest EXCEPT ![r] = [pc |-> step]],
         tempAsset' \in [exists : BOOLEAN, shares : Nat, downloads : Nat],
         tempAsset'.exists \/ tempAsset'.shares = 0,
         step \in ToShare => \/ fileRequest[r].pc \in ToShare
                             \/ TF!ShareAllowed,
         step \in ToDownload => TF!DownloadAllowed,
         tempAsset'.shares
           <= tempAsset.shares + IF fileRequest[r].pc \in ToShare \ {step} THEN 1 ELSE 0,
         tempAsset'.downloads
           <= tempAsset.downloads + IF fileRequest[r].pc \in ToDownload \ {step} THEN 1 ELSE 0,
         tempAsset'.shares # tempAsset.shares => step \notin ToShare,
         unsynced' \in BOOLEAN, offered' \in {offered, {FirstArea}},
         UNCHANGED <<stored, syncJob>>
  PROVE  FileInv'
<1>1. PICK N \in Nat : N = Cardinality(Requests) /\ N > 0
  BY FileRequestsCounted
<1>2. PICK a \in Nat : a = OnTheWay(fileRequest, ToShare)
  BY FileRequestsCounted
<1>3. PICK b \in Nat : b = OnTheWay(fileRequest, ToDownload)
  BY FileRequestsCounted
<1>4. PICK m : m = OnTheWay(fileRequest', ToShare)
  OBVIOUS
<1>5. PICK n : n = OnTheWay(fileRequest', ToDownload)
  OBVIOUS
<1>6. /\ m = a + (IF step \in ToShare THEN 1 ELSE 0)
               - (IF fileRequest[r].pc \in ToShare THEN 1 ELSE 0)
      /\ fileRequest[r].pc \notin ToShare => a <= N - 1
      /\ fileRequest' \in [Requests -> [pc : FileSteps]]
  <2>1. /\ OnTheWay(fileRequest', ToShare)
              = OnTheWay(fileRequest, ToShare) + (IF step \in ToShare THEN 1 ELSE 0)
                  - (IF fileRequest[r].pc \in ToShare THEN 1 ELSE 0)
        /\ fileRequest' \in [Requests -> [pc : FileSteps]]
        /\ fileRequest[r].pc \notin ToShare =>
              OnTheWay(fileRequest, ToShare) <= Cardinality(Requests) - 1
    BY RequestCounts
  <2>2. QED
    BY <1>1, <1>2, <1>4, <2>1, Zenon
<1>7. /\ n = b + (IF step \in ToDownload THEN 1 ELSE 0)
               - (IF fileRequest[r].pc \in ToDownload THEN 1 ELSE 0)
      /\ fileRequest[r].pc \notin ToDownload => b <= N - 1
  <2>1. /\ OnTheWay(fileRequest', ToDownload)
              = OnTheWay(fileRequest, ToDownload) + (IF step \in ToDownload THEN 1 ELSE 0)
                  - (IF fileRequest[r].pc \in ToDownload THEN 1 ELSE 0)
        /\ fileRequest[r].pc \notin ToDownload =>
              OnTheWay(fileRequest, ToDownload) <= Cardinality(Requests) - 1
    BY RequestCounts
  <2>2. QED
    BY <1>1, <1>3, <1>5, <2>1, Zenon
<1>8. /\ tempAsset.shares + a <= MaxShares + N - 1
      /\ tempAsset.downloads + b <= MaxDownloads + N - 1
      /\ tempAsset.exists \/ tempAsset.shares = 0
      /\ tempAsset.shares \in Nat /\ tempAsset.downloads \in Nat
      /\ tempAsset'.shares \in Nat /\ tempAsset'.downloads \in Nat
  BY <1>1, <1>2, <1>3 DEF FileInv
<1>9. tempAsset'.shares + m <= MaxShares + N - 1
  <2>1. CASE step \in ToShare /\ fileRequest[r].pc \notin ToShare
    <3>1. tempAsset.shares <= MaxShares - 1 /\ tempAsset'.shares = tempAsset.shares
      BY <1>8, <2>1, FilesAssumption DEF TF!ShareAllowed
    <3>2. QED
      BY <1>6, <1>8, <2>1, <3>1, FilesAssumption
  <2>2. CASE step \in ToShare /\ fileRequest[r].pc \in ToShare
    BY <1>6, <1>8, <2>2, FilesAssumption
  <2>3. CASE step \notin ToShare
    BY <1>6, <1>8, <2>3, FilesAssumption
  <2>4. QED
    BY <2>1, <2>2, <2>3
<1>10. tempAsset'.downloads + n <= MaxDownloads + N - 1
  <2>1. CASE step \in ToDownload /\ fileRequest[r].pc \notin ToDownload
    <3>1. tempAsset.downloads <= MaxDownloads - 1 /\ tempAsset'.downloads <= tempAsset.downloads
      BY <1>8, <2>1, FilesAssumption DEF TF!DownloadAllowed
    <3>2. QED
      BY <1>7, <1>8, <2>1, <3>1, FilesAssumption
  <2>2. CASE step \in ToDownload /\ fileRequest[r].pc \in ToDownload
    <3>1. tempAsset'.downloads <= tempAsset.downloads
      BY <1>8, <2>2 DEF ToDownload
    <3>2. QED
      BY <1>7, <1>8, <2>2, <3>1, FilesAssumption
  <2>3. CASE step \notin ToDownload
    BY <1>7, <1>8, <2>3, FilesAssumption
  <2>4. QED
    BY <2>1, <2>2, <2>3
<1>11. /\ tempAsset'.shares + OnTheWay(fileRequest', ToShare)
            <= MaxShares + Cardinality(Requests) - 1
       /\ tempAsset'.downloads + OnTheWay(fileRequest', ToDownload)
            <= MaxDownloads + Cardinality(Requests) - 1
  BY <1>1, <1>4, <1>5, <1>9, <1>10, Zenon
<1>12. offered' \subseteq stored \cup {FirstArea}
  BY DEF FileInv
<1>13. QED
  BY <1>6, <1>11, <1>12 DEF FileInv

\* A step of a job, of a scheduler or of time.
LEMMA AreasStep ==
  ASSUME FileInv,
         UNCHANGED <<tempAsset, fileRequest>>, unsynced' \in BOOLEAN,
         stored \subseteq stored', stored' \subseteq FileAreas,
         offered' \subseteq stored' \cup {FirstArea},
         syncJob' \in [Syncs -> [pc : {"waiting", "ask", "del"}]
                            \cup [pc : {"set"}, areas : SUBSET FileAreas]],
         \A j \in Syncs : syncJob'[j].pc = "set" => syncJob'[j].areas \subseteq stored' \cup {FirstArea}
  PROVE  FileInv'
BY DEF FileInv

LEMMA FileNext == FileInv /\ [TF!Next]_tempVars => FileInv'
<1> SUFFICES ASSUME FileInv, [TF!Next]_tempVars PROVE FileInv'
  OBVIOUS
<1>1. CASE UNCHANGED tempVars
  BY <1>1 DEF tempVars, FileInv, OnTheWay
<1>2. /\ tempAsset \in [exists : BOOLEAN, shares : Nat, downloads : Nat]
      /\ tempAsset.exists \/ tempAsset.shares = 0
      /\ tempAsset.exists \in BOOLEAN /\ tempAsset.shares \in Nat /\ tempAsset.downloads \in Nat
      /\ unsynced \in BOOLEAN /\ stored \subseteq FileAreas
  BY DEF FileInv
<1>3. ASSUME NEW r \in Requests,
             TF!UploadTempFile(r) \/ TF!CreateTempAsset(r) \/ TF!PushAreaIDs(r)
               \/ TF!SetUnloginAssetInfo(r) \/ TF!ShareTempFile(r) \/ TF!DownloadTempFile(r)
               \/ TF!DownloadFails(r)
      PROVE  FileInv'
  <2>1. /\ UNCHANGED <<tempAsset, stored, syncJob>>
        /\ unsynced' \in {unsynced, ~unsynced}
        /\ offered' \in {offered, {FirstArea}}
    BY <1>3 DEF TF!UploadTempFile, TF!CreateTempAsset, TF!PushAreaIDs, TF!SetUnloginAssetInfo,
                TF!ShareTempFile, TF!DownloadTempFile, TF!DownloadFails
  <2>2. PICK step \in FileSteps :
          /\ fileRequest' = [fileRequest EXCEPT ![r] = [pc |-> step]]
          /\ step \in ToShare => fileRequest[r].pc \in ToShare \/ TF!ShareAllowed
          /\ step \in ToDownload => TF!DownloadAllowed
    <3> USE DEF TF!Proceed, FileSteps, ToShare, ToDownload
    <3>1. CASE TF!UploadTempFile(r)
      BY <3>1 DEF TF!UploadTempFile
    <3>2. CASE TF!CreateTempAsset(r)
      BY <3>2 DEF TF!CreateTempAsset
    <3>3. CASE TF!PushAreaIDs(r)
      BY <3>3 DEF TF!PushAreaIDs
    <3>4. CASE TF!SetUnloginAssetInfo(r)
      BY <3>4 DEF TF!SetUnloginAssetInfo
    <3>5. CASE TF!ShareTempFile(r)
      BY <3>5 DEF TF!ShareTempFile
    <3>6. CASE TF!DownloadTempFile(r)
      BY <3>6 DEF TF!DownloadTempFile
    <3>7. CASE TF!DownloadFails(r)
      BY <3>7 DEF TF!DownloadFails
    <3>8. QED
      BY <1>3, <3>1, <3>2, <3>3, <3>4, <3>5, <3>6, <3>7
  <2>3. /\ tempAsset' = tempAsset
        /\ tempAsset'.shares
             <= tempAsset.shares + IF fileRequest[r].pc \in ToShare \ {step} THEN 1 ELSE 0
        /\ tempAsset'.downloads
             <= tempAsset.downloads + IF fileRequest[r].pc \in ToDownload \ {step} THEN 1 ELSE 0
    BY <1>2, <2>1
  <2>4. /\ tempAsset' \in [exists : BOOLEAN, shares : Nat, downloads : Nat]
        /\ tempAsset'.exists \/ tempAsset'.shares = 0
        /\ unsynced' \in BOOLEAN /\ offered' \in {offered, {FirstArea}}
        /\ UNCHANGED <<stored, syncJob>>
        /\ tempAsset'.shares # tempAsset.shares => step \notin ToShare
    BY <1>2, <2>1, <2>3
  <2>5. QED
    BY <2>2, <2>3, <2>4, FileStep
<1>4. ASSUME NEW r \in Requests, TF!AddTempAssetShareCount(r) PROVE FileInv'
  <2>1. /\ fileRequest[r].pc = "share"
        /\ fileRequest' = [fileRequest EXCEPT ![r] = [pc |-> "waiting"]]
        /\ UNCHANGED <<offered, unsynced, stored, syncJob>>
        /\ \/ tempAsset' = IF tempAsset.exists THEN [tempAsset EXCEPT !.shares = @ + 1]
                           ELSE [TF!NoRow EXCEPT !.exists = TRUE]
           \/ UNCHANGED tempAsset
    BY <1>4 DEF TF!AddTempAssetShareCount, TF!Proceed
  <2>2. /\ tempAsset' \in [exists : BOOLEAN, shares : Nat, downloads : Nat]
        /\ tempAsset'.exists \/ tempAsset'.shares = 0
        /\ tempAsset'.shares <= tempAsset.shares + 1
        /\ tempAsset'.downloads <= tempAsset.downloads
    <3>1. CASE tempAsset' = [tempAsset EXCEPT !.shares = @ + 1] /\ tempAsset.exists
      BY <1>2, <3>1
    <3>2. CASE tempAsset' = [TF!NoRow EXCEPT !.exists = TRUE]
      <4>1. tempAsset' = [exists |-> TRUE, shares |-> 0, downloads |-> 0]
        BY <3>2 DEF TF!NoRow
      <4>2. QED
        BY <1>2, <4>1
    <3>3. CASE UNCHANGED tempAsset
      BY <1>2, <3>3
    <3>4. QED
      BY <2>1, <3>1, <3>2, <3>3
  <2>3. /\ "waiting" \in FileSteps /\ "waiting" \notin ToShare /\ "waiting" \notin ToDownload
        /\ fileRequest[r].pc \in ToShare \ {"waiting"}
        /\ fileRequest[r].pc \notin ToDownload \ {"waiting"}
    BY <2>1 DEF FileSteps, ToShare, ToDownload
  <2>4. PICK step \in FileSteps : step = "waiting"
    BY <2>3
  <2>5. /\ tempAsset'.shares
             <= tempAsset.shares + IF fileRequest[r].pc \in ToShare \ {step} THEN 1 ELSE 0
        /\ tempAsset'.downloads
             <= tempAsset.downloads + IF fileRequest[r].pc \in ToDownload \ {step} THEN 1 ELSE 0
        /\ step \notin ToShare /\ step \notin ToDownload
        /\ fileRequest' = [fileRequest EXCEPT ![r] = [pc |-> step]]
    BY <1>2, <2>1, <2>2, <2>3, <2>4
  <2>6. unsynced' \in BOOLEAN /\ offered' \in {offered, {FirstArea}} /\ UNCHANGED <<stored, syncJob>>
    BY <1>2, <2>1
  <2>7. QED
    BY <2>2, <2>5, <2>6, FileStep
<1>5. ASSUME NEW r \in Requests, TF!AddTempAssetDownloadCount(r) PROVE FileInv'
  <2>1. /\ fileRequest[r].pc = "download"
        /\ fileRequest' = [fileRequest EXCEPT ![r] = [pc |-> "waiting"]]
        /\ UNCHANGED <<offered, unsynced, stored, syncJob>>
        /\ tempAsset' = [tempAsset EXCEPT !.downloads = @ + 1]
    BY <1>5 DEF TF!AddTempAssetDownloadCount, TF!Proceed
  <2>2. /\ tempAsset' \in [exists : BOOLEAN, shares : Nat, downloads : Nat]
        /\ tempAsset'.exists \/ tempAsset'.shares = 0
        /\ tempAsset'.shares = tempAsset.shares
        /\ tempAsset'.downloads <= tempAsset.downloads + 1
    BY <1>2, <2>1
  <2>3. /\ "waiting" \in FileSteps /\ "waiting" \notin ToShare /\ "waiting" \notin ToDownload
        /\ fileRequest[r].pc \in ToDownload \ {"waiting"}
        /\ fileRequest[r].pc \notin ToShare \ {"waiting"}
    BY <2>1 DEF FileSteps, ToShare, ToDownload
  <2>4. PICK step \in FileSteps : step = "waiting"
    BY <2>3
  <2>5. /\ tempAsset'.shares
             <= tempAsset.shares + IF fileRequest[r].pc \in ToShare \ {step} THEN 1 ELSE 0
        /\ tempAsset'.downloads
             <= tempAsset.downloads + IF fileRequest[r].pc \in ToDownload \ {step} THEN 1 ELSE 0
        /\ step \notin ToShare /\ step \notin ToDownload
        /\ fileRequest' = [fileRequest EXCEPT ![r] = [pc |-> step]]
    BY <1>2, <2>1, <2>2, <2>3, <2>4
  <2>6. unsynced' \in BOOLEAN /\ offered' \in {offered, {FirstArea}} /\ UNCHANGED <<stored, syncJob>>
    BY <1>2, <2>1
  <2>7. QED
    BY <2>2, <2>5, <2>6, FileStep
<1>6. ASSUME NEW j \in Syncs,
             TF!SyncUnLoginAsset(j) \/ TF!SyncAreaIDs(j) \/ TF!SetSynced(j) \/ TF!DelAreaIDs(j)
      PROVE  FileInv'
  <2>1. /\ UNCHANGED <<tempAsset, fileRequest, stored>> /\ unsynced' \in BOOLEAN
        /\ \/ \E step \in {"waiting", "ask", "del"} : syncJob' = [syncJob EXCEPT ![j] = [pc |-> step]]
           \/ \E areas \in SUBSET (stored \ {FirstArea}) :
                 syncJob' = [syncJob EXCEPT ![j] = [pc |-> "set", areas |-> areas \cup {FirstArea}]]
    BY <1>2, <1>6 DEF TF!SyncUnLoginAsset, TF!SyncAreaIDs, TF!SetSynced, TF!DelAreaIDs, TF!Waiting
  <2>2. offered' \in {offered, syncJob[j].areas} /\ (offered' # offered => syncJob[j].pc = "set")
    BY <1>6 DEF TF!SyncUnLoginAsset, TF!SyncAreaIDs, TF!SetSynced, TF!DelAreaIDs
  <2>3. offered' \subseteq stored \cup {FirstArea}
    BY <2>2 DEF FileInv
  <2>4. syncJob' \in [Syncs -> [pc : {"waiting", "ask", "del"}]
                            \cup [pc : {"set"}, areas : SUBSET FileAreas]]
    BY <1>2, <2>1, FilesAssumption DEF FileInv
  <2>5. \A i \in Syncs : syncJob'[i].pc = "set" => syncJob'[i].areas \subseteq stored \cup {FirstArea}
    BY <2>1 DEF FileInv
  <2>6. QED
    BY <1>2, <2>1, <2>3, <2>4, <2>5, AreasStep
<1>7. ASSUME NEW a \in FileAreas, TF!Store(a) PROVE FileInv'
  <2>1. stored' = stored \cup {a} /\ UNCHANGED <<tempAsset, offered, unsynced, fileRequest, syncJob>>
    BY <1>7 DEF TF!Store
  <2>2. QED
    BY <1>2, <2>1, AreasStep DEF FileInv
<1>8. CASE TF!Expire
  BY <1>2, <1>8, AreasStep DEF TF!Expire, FileInv
<1>9. QED
  BY <1>1, <1>3, <1>4, <1>5, <1>6, <1>7, <1>8 DEF TF!Next

LEMMA FileNow == FileInv => TF!CountersBounded /\ TF!OfferedWhereStored /\ TF!TypeOK
<1> SUFFICES ASSUME FileInv PROVE TF!CountersBounded /\ TF!OfferedWhereStored /\ TF!TypeOK
  OBVIOUS
<1>1. PICK N \in Nat : N = Cardinality(Requests) /\ N = TF!Cardinality(Requests)
  <2>1. TF!Cardinality(Requests) = Cardinality(Requests)
    BY Zenon DEF TF!Cardinality, Cardinality
  <2>2. QED
    BY <2>1, FileRequestsCounted
<1>2. PICK a \in Nat : a = OnTheWay(fileRequest, ToShare)
  BY FileRequestsCounted
<1>3. PICK b \in Nat : b = OnTheWay(fileRequest, ToDownload)
  BY FileRequestsCounted
<1>4. /\ tempAsset \in [exists : BOOLEAN, shares : Nat, downloads : Nat]
      /\ tempAsset.shares + a <= MaxShares + N - 1
      /\ tempAsset.downloads + b <= MaxDownloads + N - 1
  BY <1>1, <1>2, <1>3 DEF FileInv
<1>5. tempAsset.shares <= MaxShares + (N - 1) /\ tempAsset.downloads <= MaxDownloads + (N - 1)
  BY <1>4, FilesAssumption
<1>6. TF!CountersBounded
  BY <1>1, <1>5 DEF TF!CountersBounded
<1>7. tempAsset \in [exists : BOOLEAN, shares : 0 .. MaxShares + N, downloads : 0 .. MaxDownloads + N]
  BY <1>4, <1>5, FilesAssumption
<1>8. offered \subseteq FileAreas
  BY FilesAssumption DEF FileInv
<1>9. QED
  BY <1>1, <1>6, <1>7, <1>8 DEF FileInv, TF!OfferedWhereStored, TF!TypeOK

\* Temporary files.
LEMMA FileInvariant == Spec => []FileInv
<1>1. Init => FileInv
  BY FileInit DEF Init
<1>2. FileInv /\ [Next]_serviceVars => FileInv'
  BY FileNext DEF Next, serviceVars
<1>3. QED
  BY <1>1, <1>2, PTL DEF Spec
-----------------------------------------------------------------------------
(* OrderPrice                                                              *)

\* The sizes of storage; its interval and those of its tiers have names here, as the
\* provers are slow with long ones.
StorageSizes == 40 .. 4000
StorageTier1 == 40 .. 100
StorageTier2 == 101 .. 500
StorageTier3 == 501 .. 2000
StorageTier4 == 2001 .. 4000

Orders == [cpu : 1 .. 32, ram : 1 .. 64, storage : StorageSizes, duration : 1 .. 720,
           price : Nat, account : Buyers, hash : Hashes \cup {NoName}]

\* An order has parameters that passed the checks, and their price.
PriceInv ==
    /\ age \in Ages \cup {0}
    /\ order # OP!NoOrder => order \in Orders /\ order.price = OP!CalculateTotalCost(order)

LEMMA StorageTierSets ==
  /\ StorageTier1 = 40 .. 100 /\ StorageTier2 = 101 .. 500
  /\ StorageTier3 = 501 .. 2000 /\ StorageTier4 = 2001 .. 4000
<1>1. StorageTier1 = 40 .. 100
  BY DEF StorageTier1
<1>2. StorageTier2 = 101 .. 500
  BY DEF StorageTier2
<1>3. StorageTier3 = 501 .. 2000
  BY DEF StorageTier3
<1>4. StorageTier4 = 2001 .. 4000
  BY DEF StorageTier4
<1>5. QED
  BY <1>1, <1>2, <1>3, <1>4

LEMMA StoragePrices ==
  ASSUME NEW n \in Nat, n >= 40, n <= 4000
  PROVE  OP!CalculateStoragePrice(n) \in Nat \ {0}
<1>1. CASE n >= 40 /\ n <= 100
  <2>1. n \in StorageTier1
    BY <1>1 DEF StorageTier1
  <2>2. ~(n \in StorageTier2)
    BY <1>1 DEF StorageTier2
  <2>3. ~(n \in StorageTier3)
    BY <1>1, SMTT(40) DEF StorageTier3
  <2>4. ~(n \in StorageTier4)
    BY <1>1, SMTT(40) DEF StorageTier4
  <2>5. OP!CalculateStoragePrice(n) = n * 2
    BY <2>1, <2>2, <2>3, <2>4, StorageTierSets, SMTT(60)
      DEF OP!CalculateStoragePrice
  <2>6. n * 2 \in Nat \ {0}
    BY <1>1
  <2>7. QED
    BY <2>5, <2>6
<1>2. CASE n >= 101 /\ n <= 500
  <2>1. ~(n \in StorageTier1)
    BY <1>2 DEF StorageTier1
  <2>2. n \in StorageTier2
    BY <1>2 DEF StorageTier2
  <2>3. ~(n \in StorageTier3)
    BY <1>2 DEF StorageTier3
  <2>4. ~(n \in StorageTier4)
    BY <1>2, SMTT(40) DEF StorageTier4
  <2>5. OP!CalculateStoragePrice(n) = (n * 2 * 8) \div 10
    BY <2>1, <2>2, <2>3, <2>4, StorageTierSets, SMTT(60)
      DEF OP!CalculateStoragePrice
  <2>6. (n * 2 * 8) \div 10 \in Nat \ {0}
    BY <1>2
  <2>7. QED
    BY <2>5, <2>6
<1>3. CASE n >= 501 /\ n <= 2000
  <2>1. ~(n \in StorageTier1)
    BY <1>3 DEF StorageTier1
  <2>2. ~(n \in StorageTier2)
    BY <1>3 DEF StorageTier2
  <2>3. n \in StorageTier3
    BY <1>3 DEF StorageTier3
  <2>4. ~(n \in StorageTier4)
    BY <1>3, SMTT(40) DEF StorageTier4
  <2>5. OP!CalculateStoragePrice(n) = (n * 2 * 6) \div 10
    BY <2>1, <2>2, <2>3, <2>4, StorageTierSets, SMTT(60)
      DEF OP!CalculateStoragePrice
  <2>6. (n * 2 * 6) \div 10 \in Nat \ {0}
    BY <1>3
  <2>7. QED
    BY <2>5, <2>6
<1>4. CASE n >= 2001 /\ n <= 4000
  <2>1. ~(n \in StorageTier1)
    BY <1>4 DEF StorageTier1
  <2>2. ~(n \in StorageTier2)
    BY <1>4 DEF StorageTier2
  <2>3. ~(n \in StorageTier3)
    BY <1>4 DEF StorageTier3
  <2>4. n \in StorageTier4
    BY <1>4 DEF StorageTier4
  <2>5. OP!CalculateStoragePrice(n) = (n * 2 * 5) \div 10
    BY <2>1, <2>2, <2>3, <2>4, StorageTierSets, SMTT(60)
      DEF OP!CalculateStoragePrice
  <2>6. (n * 2 * 5) \div 10 \in Nat \ {0}
    BY <1>4
  <2>7. QED
    BY <2>5, <2>6
<1>5. n <= 100 \/ (n >= 101 /\ n <= 500) \/ (n >= 501 /\ n <= 2000) \/ n >= 2001
  OBVIOUS
<1>6. QED
  BY <1>1, <1>2, <1>3, <1>4, <1>5

\* What an hour costs, and the coefficient of a duration.
LEMMA PartPrices ==
  ASSUME NEW p, p.cpu \in 1 .. 32, p.ram \in 1 .. 64, p.storage \in StorageSizes
  PROVE  /\ OP!CalculateCPUPrice(p.cpu) \in Nat \ {0}
         /\ OP!CalculateRAMPrice(p.ram) \in Nat \ {0}
         /\ OP!CalculateStoragePrice(p.storage) \in Nat \ {0}
         /\ OP!HourlyCost(p) \in Nat \ {0} /\ OP!HourlyCost(p) >= 100
<1>1. OP!CalculateCPUPrice(p.cpu) \in Nat \ {0} /\ OP!CalculateCPUPrice(p.cpu) >= 100
  BY DEF OP!CalculateCPUPrice
<1>2. OP!CalculateRAMPrice(p.ram) \in Nat \ {0}
  BY DEF OP!CalculateRAMPrice
<1>3. OP!CalculateStoragePrice(p.storage) \in Nat \ {0}
  <2>1. PICK n : n = p.storage
    BY SMTT(40)
  <2>2. n \in 40 .. 4000
    BY <2>1 DEF StorageSizes
  <2>3. n \in Nat /\ n >= 40 /\ n <= 4000
    BY <2>2
  <2>4. OP!CalculateStoragePrice(n) \in Nat \ {0}
    BY <2>3, StoragePrices, SMT
  <2>5. QED
    BY <2>1, <2>4
<1>4. QED
  BY <1>1, <1>2, <1>3 DEF OP!HourlyCost

\* A longer duration has no higher coefficient.
LEMMA Coefficients ==
  ASSUME NEW u \in 1 .. 720, NEW d \in 1 .. 720, u <= d
  PROVE  /\ OP!CalculateDurationCoefficient(u) \in 7 .. 10
         /\ OP!CalculateDurationCoefficient(d) \in 7 .. 10
         /\ OP!CalculateDurationCoefficient(d) <= OP!CalculateDurationCoefficient(u)
<1>1. \A n \in 1 .. 720 : OP!CalculateDurationCoefficient(n) =
        IF n <= 24 THEN 10 ELSE IF n <= 72 THEN 9 ELSE IF n <= 168 THEN 8 ELSE 7
  BY SMTT(40) DEF OP!CalculateDurationCoefficient
<1>2. QED
  BY <1>1, SMTT(40)

LEMMA Coefficient == ASSUME NEW d \in 1 .. 720
                     PROVE  OP!CalculateDurationCoefficient(d) \in 7 .. 10
BY DEF OP!CalculateDurationCoefficient

\* The arithmetic of a refund.
LEMMA Tenths == ASSUME NEW a \in Nat, NEW b \in Nat, a >= b
                PROVE  (a \div 10) - (b \div 10) <= 1 + ((a - b) \div 10)
OBVIOUS

LEMMA Products ==
  ASSUME NEW h \in Nat, NEW u \in Nat, NEW d \in Nat, u <= d, NEW k \in 7 .. 10, NEW l \in 7 .. 10, k <= l
  PROVE  /\ (h * d) * k - (h * u) * k = (h * (d - u)) * k
         /\ (h * u) * k <= (h * u) * l
         /\ (h * d) * k \in Nat /\ (h * u) * k \in Nat /\ (h * u) * l \in Nat
         /\ (h * (d - u)) * k \in Nat /\ (h * u) * k <= (h * d) * k
OBVIOUS

LEMMA OrderCost ==
  ASSUME NEW p, p.cpu \in 1 .. 32, p.ram \in 1 .. 64, p.storage \in StorageSizes,
         p.duration \in 1 .. 720
  PROVE  OP!CalculateTotalCost(p) \in Nat
<1>1. PICK h \in Nat : h = OP!HourlyCost(p)
  BY PartPrices
<1>2. PICK d \in 1 .. 720 : d = p.duration
  OBVIOUS
<1>3. PICK k \in 7 .. 10 : k = OP!CalculateDurationCoefficient(d)
  BY Coefficient, ZenonT(40)
<1>4. OP!CalculateTotalCost(p) = (h * d * k) \div 10
  BY <1>1, <1>2, <1>3 DEF OP!CalculateTotalCost
<1>5. (h * d * k) \div 10 \in Nat
  OBVIOUS
<1>6. QED
  BY <1>4, <1>5

LEMMA PriceInit == OP!Init => PriceInv
BY DEF OP!Init, PriceInv

LEMMA PriceNext == PriceInv /\ [OP!Next]_priceVars => PriceInv'
<1> SUFFICES ASSUME PriceInv, [OP!Next]_priceVars PROVE PriceInv'
  OBVIOUS
<1>1. CASE UNCHANGED priceVars
  BY <1>1 DEF priceVars, PriceInv, OP!CalculateTotalCost, OP!HourlyCost
<1>2. ASSUME NEW a \in Buyers, NEW p \in Params, OP!CreateOrder(a, p) PROVE PriceInv'
  <2>1. OP!CheckOrderParams(p)
    BY <1>2 DEF OP!CreateOrder, OP!GetPrice
  <2>2. order' = [cpu |-> p.cpu, ram |-> p.ram, storage |-> p.storage, duration |-> p.duration,
                  price |-> OP!CalculateTotalCost(p), account |-> a, hash |-> NoName]
    BY <1>2, SMTT(40) DEF OP!CreateOrder, OP!GetPrice
  <2>3. OP!CalculateTotalCost(p) \in Nat
    BY <2>1, OrderCost, SMTT(40) DEF OP!CheckOrderParams, StorageSizes
  <2>4. order' \in Orders
    BY <2>1, <2>2, <2>3 DEF Orders, OP!CheckOrderParams, StorageSizes
  <2>5. OP!CalculateTotalCost(p) = OP!CalculateTotalCost(order')
    BY <2>2 DEF OP!CalculateTotalCost, OP!HourlyCost
  <2>6. QED
    BY <1>2, <2>2, <2>4, <2>5 DEF PriceInv, OP!CreateOrder
<1>3. ASSUME NEW a \in Buyers, NEW h \in Hashes, OP!SetOrderHash(a, h) PROVE PriceInv'
  <2>1. order \in Orders /\ order.price = OP!CalculateTotalCost(order)
    BY <1>3 DEF PriceInv, OP!SetOrderHash
  <2>2. order' = [order EXCEPT !.hash = h]
    BY <1>3 DEF OP!SetOrderHash
  <2>3. order' \in Orders
    BY <2>1, <2>2 DEF Orders
  <2>4. /\ order'.cpu = order.cpu /\ order'.ram = order.ram /\ order'.storage = order.storage
        /\ order'.duration = order.duration /\ order'.price = order.price
    BY <2>1, <2>2 DEF Orders
  <2>5. OP!CalculateTotalCost(order') = OP!CalculateTotalCost(order)
    BY <2>4 DEF OP!CalculateTotalCost, OP!HourlyCost
  <2>6. QED
    BY <1>3, <2>1, <2>3, <2>4, <2>5 DEF PriceInv, OP!SetOrderHash
<1>4. CASE OP!TimePasses
  BY <1>4 DEF OP!TimePasses, PriceInv
<1>5. QED
  BY <1>1, <1>2, <1>3, <1>4 DEF OP!Next

\* What is offered back: the hours used cost at least what they would at the rate
\* that was paid.
LEMMA RefundArithmetic ==
  ASSUME NEW h \in Nat, NEW u \in 1 .. 720, NEW d \in 1 .. 720, u <= d,
         NEW k \in 7 .. 10, NEW l \in 7 .. 10, k <= l, NEW t \in Nat, 2 * u >= t
  PROVE  /\ (h * d * k) \div 10 - (h * u * l) \div 10
              <= 1 + (h * k * (2 * d - t)) \div 20
         /\ u = d /\ k = l => (h * d * k) \div 10 - (h * u * l) \div 10 = 0
<1> DEFINE x == (h * d) * k
           y == (h * u) * k
           z == (h * u) * l
           w == (h * (d - u)) * k
<1>1. x \in Nat /\ y \in Nat /\ z \in Nat /\ w \in Nat /\ x - y = w /\ y <= z /\ y <= x
  BY Products
<1>2. h * d * k = x /\ h * u * l = z
  OBVIOUS
<1>3. PICK m \in Nat : m = h * k
  OBVIOUS
<1>4. w = m * (d - u)
  BY <1>3
<1>5. 2 * (m * (d - u)) <= m * (2 * d - t)
  <2>1. 2 * (m * (d - u)) = m * (2 * (d - u))
    OBVIOUS
  <2>2. PICK e \in Nat : e = 2 * (d - u)
    OBVIOUS
  <2>3. PICK f \in Int : f = 2 * d - t
    <3>1. 2 * d - t \in Int
      OBVIOUS
    <3>2. QED
      BY <3>1
  <2>4. e <= f /\ f \in Nat
    BY <2>2, <2>3
  <2>5. PICK i \in Nat : i = f - e
    BY <2>4
  <2>6. m * f = m * e + m * i /\ m * e \in Int /\ m * i \in Nat
    BY <2>4, <2>5
  <2>7. m * e <= m * f
    BY <2>6
  <2>8. 2 * (m * (d - u)) = m * e
    BY <2>1, <2>2, Zenon
  <2>9. m * (2 * d - t) = m * f
    BY <2>3, Zenon
  <2>10. QED
    BY <2>7, <2>8, <2>9, Zenon
<1>6. PICK g \in Int : g = m * (2 * d - t)
  OBVIOUS
<1>7. 2 * w <= g
  BY <1>4, <1>5, <1>6
<1>8. u = d /\ k = l => x = z
  OBVIOUS
<1> HIDE DEF x, y, z, w
<1>9. (x \div 10) - (y \div 10) <= 1 + (w \div 10)
  BY <1>1, Tenths
<1>10. (y \div 10) <= (z \div 10)
  BY <1>1
<1>11. (w \div 10) <= (g \div 20)
  BY <1>1, <1>7
<1>12. (x \div 10) - (z \div 10) <= 1 + (g \div 20)
  BY <1>1, <1>9, <1>10, <1>11
<1>13. u = d /\ k = l => (x \div 10) - (z \div 10) = 0
  BY <1>1, <1>8
<1>14. h * k * (2 * d - t) = g
  BY <1>3, <1>6
<1>15. QED
  BY <1>2, <1>12, <1>13, <1>14

LEMMA PriceNow == PriceInv => /\ OP!RefundsBounded /\ OP!EveryPartIsPriced /\ OP!TypeOK
<1> SUFFICES ASSUME PriceInv, order # OP!NoOrder
             PROVE  OP!RefundsBounded /\ OP!EveryPartIsPriced /\ OP!TypeOK
  BY DEF PriceInv, OP!RefundsBounded, OP!EveryPartIsPriced, OP!TypeOK, OP!GetRefund
<1>1. order \in Orders /\ order.price = OP!CalculateTotalCost(order) /\ age \in Nat
  BY PricesAssumption DEF PriceInv
<1>2. /\ order.cpu \in 1 .. 32 /\ order.ram \in 1 .. 64 /\ order.storage \in StorageSizes
      /\ order.duration \in 1 .. 720 /\ order.price \in Nat /\ order.account \in Buyers
      /\ order.hash \in Hashes \cup {NoName}
  BY <1>1 DEF Orders
<1>3. PICK h \in Nat : h = OP!HourlyCost(order) /\ h >= 100
  BY <1>2, PartPrices
<1>4. PICK d \in 1 .. 720 : d = order.duration
  BY <1>2
<1>5. PICK k \in 7 .. 10 : k = OP!CalculateDurationCoefficient(d)
  BY Coefficient
<1>6. OP!CalculateTotalCost(order) = (h * d * k) \div 10
  BY <1>3, <1>4, <1>5 DEF OP!CalculateTotalCost
<1>7. OP!EveryPartIsPriced
  <2>1. (h * d * k) \div 10 > 0
    <3>1. h * d >= 100 /\ h * d \in Nat
      BY <1>3
    <3>2. PICK m \in Nat : m = h * d /\ m >= 100
      BY <3>1
    <3>3. m * k >= 100 /\ m * k \in Nat
      BY <3>2
    <3>4. (m * k) \div 10 > 0
      BY <3>3
    <3>5. QED
      BY <3>2, <3>4
  <2>2. order.price > 0
    BY <1>1, <1>6, <2>1
  <2>3. /\ OP!CalculateCPUPrice(order.cpu) > 0 /\ OP!CalculateRAMPrice(order.ram) > 0
        /\ OP!CalculateStoragePrice(order.storage) > 0
    BY <1>2, PartPrices
  <2>4. QED
    BY <2>2, <2>3 DEF OP!EveryPartIsPriced
<1>8. OP!RefundsBounded
  <2> SUFFICES ASSUME NEW refund \in OP!GetRefund, age \in 1 .. 2 * order.duration
               PROVE  /\ refund <= 1 + (h * k * (2 * d - age)) \div 20
                      /\ age = 2 * d => refund = 0
    BY <1>3, <1>4, <1>5 DEF OP!RefundsBounded
  <2>1. refund = OP!CalculateOrderRefund(order)
    BY DEF OP!GetRefund
  <2>2. PICK t \in Nat : t = age /\ t >= 1 /\ t <= 2 * d
    BY <1>1, <1>4
  <2>3. PICK u \in 1 .. 720 : u = OP!HoursUsed /\ u <= d /\ 2 * u >= t /\ (t = 2 * d => u = d)
    BY <2>2, SMTT(40) DEF OP!HoursUsed
  <2>4. PICK l \in 7 .. 10 : l = OP!CalculateDurationCoefficient(u) /\ k <= l
    BY <1>5, <2>3, Coefficients, ZenonT(40)
  <2>5. OP!CalculateTotalCost([order EXCEPT !.duration = OP!HoursUsed]) = (h * u * l) \div 10
    <3>1. PICK row : row = [order EXCEPT !.duration = OP!HoursUsed]
      BY ZenonT(40)
    <3>2. row.cpu = order.cpu /\ row.ram = order.ram /\ row.storage = order.storage /\ row.duration = u
      BY <1>1, <2>3, <3>1 DEF Orders
    <3>3. OP!HourlyCost(row) = h
      BY <1>3, <3>2 DEF OP!HourlyCost
    <3>4. OP!CalculateTotalCost(row) = (h * u * l) \div 10
      BY <2>4, <3>2, <3>3 DEF OP!CalculateTotalCost
    <3>5. QED
      BY <3>1, <3>4
  <2>6. PICK a \in Nat : a = (h * d * k) \div 10
    OBVIOUS
  <2>7. PICK b \in Nat : b = (h * u * l) \div 10
    OBVIOUS
  <2>8. refund = IF a > b THEN a - b ELSE 0
    BY <1>1, <1>6, <2>1, <2>5, <2>6, <2>7, SMTT(40) DEF OP!CalculateOrderRefund
  <2>9. PICK c \in Nat : c = (h * k * (2 * d - t)) \div 20
    BY <2>2, SMTT(40)
  <2>10. a - b <= 1 + c
    BY <2>3, <2>4, <2>6, <2>7, <2>9, RefundArithmetic, ZenonT(40)
  <2>11. u = d => k = l
    BY <1>5, <2>4
  <2>12. u = d => a - b = 0
    BY <2>6, <2>7, <2>11
  <2>13. QED
    BY <2>2, <2>3, <2>8, <2>9, <2>10, <2>12
<1>9. OP!TypeOK
  BY <1>2 DEF PriceInv, OP!TypeOK
<1>10. QED
  BY <1>7, <1>8, <1>9

\* An order and its price.
LEMMA PriceInvariant == Spec => []PriceInv
<1>1. Init => PriceInv
  BY PriceInit DEF Init
<1>2. PriceInv /\ [Next]_serviceVars => PriceInv'
  BY PriceNext DEF Next, serviceVars
<1>3. QED
  BY <1>1, <1>2, PTL DEF Spec
-----------------------------------------------------------------------------
(* TransferLog                                                             *)

TransferReports ==
    [pc : {"tell", "store"}, trace : Traces, claim : Claims, rows : SUBSET TL!DetailRows]

TransferClaims == [user : Uploaders \cup {NoName}, type : TL!Types, state : TL!States]
TransferRows == [claim : TransferClaims, day : TL!Days, rows : SUBSET TL!DetailRows]

TransferType ==
    /\ TL!TypeOK
    /\ transferLog \in [Traces -> TransferRows \cup {TL!NoRow}]
    /\ transferReport \in [Requests -> TransferReports \cup {TL!NoReport}]
    /\ reportDay \in TL!Days

\* What the scheduler was told for a report that is not stored yet.
PendingOf(report, t) ==
    [r \in Requests |-> IF report[r].pc = "store" /\ report[r].trace = t
                        THEN Cardinality(report[r].rows) ELSE 0]

\* A trace is stored since the day it was opened, its row has the details, and the
\* scheduler was told what is stored and what is about to be; unless a report has
\* failed, it was told nothing else.
TransferRow(t) ==
    /\ transferLog[t] = TL!NoRow <=> opened[t] = TL!Never
    /\ transferLog[t] # TL!NoRow =>
         /\ transferLog[t].day = opened[t]
         /\ transferLog[t].rows # {} => detailRows[t] = transferLog[t].rows

TransferTold(t) ==
    /\ Cardinality(detailRows[t]) + Total(PendingOf(transferReport, t), Requests) <= told[t]
    /\ t \notin failedReports =>
         told[t] = Cardinality(detailRows[t]) + Total(PendingOf(transferReport, t), Requests)

TransferInv == TransferType /\ \A t \in Traces : TransferRow(t) /\ TransferTold(t)

LEMMA TransferCount == \A S : TL!Cardinality(S) = Cardinality(S)
BY Zenon DEF TL!Cardinality, Cardinality

LEMMA RowIsSome == \A row \in TransferRows : row # TL!NoRow
<1> TAKE row \in TransferRows
<1>1. "day" \in DOMAIN row
  BY DEF TransferRows
<1>2. DOMAIN TL!NoRow = {"claim"}
  BY DEF TL!NoRow
<1>3. QED
  BY <1>1, <1>2

LEMMA RowsFinite ==
    /\ IsFiniteSet(TL!DetailRows)
    /\ \A rows \in SUBSET TL!DetailRows : IsFiniteSet(rows) /\ Cardinality(rows) \in Nat
<1> DEFINE T == TraceNodes \X {TL!Success, TL!Failure}
           f == [p \in T |-> [node |-> p[1], state |-> p[2]]]
<1>1. IsFiniteSet(T)
  <2>1. IsFiniteSet({TL!Success} \cup {TL!Failure})
    BY FS_Singleton, FS_AddElement
  <2>2. QED
    <3>1. {TL!Success, TL!Failure} = {TL!Success} \cup {TL!Failure}
      OBVIOUS
    <3>2. IsFiniteSet({TL!Success, TL!Failure})
      BY <2>1, <3>1, Zenon
    <3>3. QED
      BY <3>2, TransfersAssumption, FS_Product
<1>2. f \in Surjection(T, TL!DetailRows)
  <2>1. f \in [T -> TL!DetailRows]
    BY DEF TL!DetailRows
  <2>2. ASSUME NEW row \in TL!DetailRows PROVE \E p \in T : f[p] = row
    <3>1. <<row.node, row.state>> \in T /\ f[<<row.node, row.state>>] = row
      BY DEF TL!DetailRows
    <3>2. QED
      BY <3>1
  <2>3. QED
    BY <2>1, <2>2 DEF Surjection
<1> HIDE DEF T, f
<1>3. IsFiniteSet(TL!DetailRows)
  BY <1>1, <1>2, FS_Surjection
<1>4. QED
  BY <1>3, FS_Subset, FS_CardinalityType

\* What is pending of a trace is a number for each request.
LEMMA PendingType ==
  ASSUME TransferType, NEW t
  PROVE  /\ IntOn(PendingOf(transferReport, t), Requests)
         /\ Total(PendingOf(transferReport, t), Requests) \in Nat
<1>1. \A r \in Requests : PendingOf(transferReport, t)[r] \in Nat
  BY RowsFinite DEF TransferType, TransferReports, TL!NoReport, PendingOf
<1>2. IntOn(PendingOf(transferReport, t), Requests)
  BY <1>1 DEF IntOn
<1>3. QED
  BY <1>1, <1>2, RequestsAssumption, TotalType

\* Of one report that changes.
LEMMA PendingChange ==
  ASSUME TransferType, TransferType', NEW r \in Requests, NEW t,
         \A q \in Requests \ {r} : transferReport'[q] = transferReport[q]
  PROVE  Total(PendingOf(transferReport', t), Requests)
           = Total(PendingOf(transferReport, t), Requests)
               - PendingOf(transferReport, t)[r] + PendingOf(transferReport', t)[r]
<1>1. \A q \in Requests \ {r} : PendingOf(transferReport, t)[q] = PendingOf(transferReport', t)[q]
  BY DEF PendingOf
<1>2. /\ IntOn(PendingOf(transferReport, t), Requests)
      /\ IntOn(PendingOf(transferReport', t), Requests)
  BY RowsFinite DEF TransferType, TransferReports, TL!NoReport, PendingOf, IntOn
<1>3. PICK f : f = PendingOf(transferReport, t)
  OBVIOUS
<1>4. PICK g : g = PendingOf(transferReport', t)
  OBVIOUS
<1>5. IntOn(f, Requests) /\ IntOn(g, Requests) /\ \A q \in Requests \ {r} : f[q] = g[q]
  BY <1>1, <1>2, <1>3, <1>4, Zenon
<1>6. Total(g, Requests) = Total(f, Requests) - f[r] + g[r]
  BY <1>5, RequestsAssumption, TotalChange
<1>7. QED
  BY <1>3, <1>4, <1>6, Zenon

LEMMA TransferInit == TL!Init => TransferInv
<1> SUFFICES ASSUME TL!Init PROVE TransferInv
  OBVIOUS
<1>1. TransferType
  <2>1. TL!TypeOK
    BY TransfersAssumption DEF TL!Init, TL!TypeOK, TL!Stored
  <2>2. QED
    BY <2>1, TransfersAssumption DEF TL!Init, TransferType, TL!Days, TL!NoRow
<1>2. \A t \in Traces : Total(PendingOf(transferReport, t), Requests) = 0
  <2> TAKE t \in Traces
  <2>1. \A r \in Requests : PendingOf(transferReport, t)[r] = 0
    BY DEF TL!Init, PendingOf, TL!NoReport
  <2>2. QED
    BY <2>1, RequestsAssumption, TotalZero
<1>3. QED
  BY <1>1, <1>2, FS_EmptySet DEF TL!Init, TransferInv, TransferRow, TransferTold

LEMMA TransferReportOf ==
  ASSUME TransferType, NEW r \in Requests
  PROVE  /\ transferReport[r].pc \in {"tell", "store"} => transferReport[r] \in TransferReports
         /\ transferReport[r] # TL!NoReport => transferReport[r] \in TransferReports
         /\ transferReport[r] \in TransferReports => transferReport[r] # TL!NoReport
BY DEF TransferType, TransferReports, TL!NoReport

LEMMA OpenStep ==
  ASSUME TransferInv, NEW t \in Traces, NEW who \in Uploaders \cup {NoName},
         NEW type \in TL!Types, TL!NewLogTrace(t, who, type)
  PROVE  TransferInv'
<1> DEFINE claim == [user |-> who, type |-> type, state |-> TL!Created]
           row == [claim |-> claim, day |-> reportDay, rows |-> {}]
<1>1. /\ claim \in TransferClaims
      /\ row # TL!NoRow /\ row.day = reportDay /\ row.rows = {} /\ row.claim = claim
      /\ row \in TransferRows
  <2>1. claim \in TransferClaims
    BY DEF TransferClaims, TL!States
  <2>2. row \in TransferRows
    BY <2>1 DEF TransferInv, TransferType, TransferRows
  <2>3. QED
    BY <2>1, <2>2, RowIsSome
<1>2. /\ transferLog[t] = TL!NoRow
      /\ transferLog' = [transferLog EXCEPT ![t] = row]
      /\ opened' = [opened EXCEPT ![t] = reportDay]
      /\ UNCHANGED <<detailRows, told, transferReport, reportDay, failedReports, received>>
  BY DEF TL!NewLogTrace
<1> HIDE DEF row, claim
<1>3. reportDay \in TL!Days /\ reportDay # TL!Never
  BY TransfersAssumption DEF TransferInv, TransferType, TL!Days, TL!Never
<1>4. TransferType'
  <2>1. transferLog' \in [Traces -> TransferRows \cup {TL!NoRow}]
    BY <1>1, <1>2 DEF TransferInv, TransferType
  <2>2. TL!TypeOK'
    BY <1>2, <1>3, <2>1 DEF TransferInv, TransferType, TL!TypeOK, TL!Stored, TransferRows, TransferClaims
  <2>3. QED
    BY <1>2, <2>1, <2>2 DEF TransferInv, TransferType
<1>5. ASSUME NEW u \in Traces
      PROVE  TransferRow(u)'
  <2>1. CASE u = t
    <3>1. opened'[t] = reportDay /\ transferLog'[t] = row
      BY <1>2 DEF TransferInv, TransferType, TL!TypeOK
    <3>2. QED
      BY <1>1, <1>3, <2>1, <3>1 DEF TransferRow
  <2>2. CASE u # t
    <3>1. transferLog'[u] = transferLog[u] /\ opened'[u] = opened[u] /\ detailRows' = detailRows
      BY <1>2, <2>2
    <3>2. QED
      BY <3>1 DEF TransferInv, TransferRow
  <2>3. QED
    BY <2>1, <2>2
<1>6. ASSUME NEW u \in Traces PROVE TransferTold(u)'
  BY <1>2 DEF TransferInv, TransferTold
<1>7. QED
  BY <1>4, <1>5, <1>6 DEF TransferInv, TransferRow

\* A report comes, is given up or is told to the scheduler: its own entry changes.
LEMMA ReportStep ==
  ASSUME TransferInv, NEW r \in Requests, NEW entry \in TransferReports \cup {TL!NoReport},
         transferReport' = [transferReport EXCEPT ![r] = entry],
         told' \in [Traces -> Nat], failedReports' \subseteq Traces,
         failedReports \subseteq failedReports',
         UNCHANGED <<transferLog, detailRows, reportDay, opened>>,
         \A t \in Traces :
           /\ told'[t] - PendingOf(transferReport', t)[r]
                >= told[t] - PendingOf(transferReport, t)[r]
           /\ t \notin failedReports' =>
                told'[t] - PendingOf(transferReport', t)[r]
                  = told[t] - PendingOf(transferReport, t)[r]
  PROVE  TransferInv'
<1>1. TransferType'
  BY DEF TransferInv, TransferType, TL!TypeOK, TL!Stored
<1>2. ASSUME NEW t \in Traces PROVE TransferRow(t)'
  BY DEF TransferInv, TransferRow
<1>3. ASSUME NEW t \in Traces PROVE TransferTold(t)'
  <2>1. \A q \in Requests \ {r} : transferReport'[q] = transferReport[q]
    BY DEF TransferInv, TransferType
  <2>2. Total(PendingOf(transferReport', t), Requests)
           = Total(PendingOf(transferReport, t), Requests)
               - PendingOf(transferReport, t)[r] + PendingOf(transferReport', t)[r]
    BY <1>1, <2>1, PendingChange DEF TransferInv
  <2>3. PICK m : m = Total(PendingOf(transferReport, t), Requests)
    OBVIOUS
  <2>4. PICK n : n = Total(PendingOf(transferReport', t), Requests)
    OBVIOUS
  <2>5. PICK p : p = PendingOf(transferReport, t)[r]
    OBVIOUS
  <2>6. PICK q : q = PendingOf(transferReport', t)[r]
    OBVIOUS
  <2>7. PICK c : c = Cardinality(detailRows[t])
    OBVIOUS
  <2>8. m \in Nat /\ p \in Int /\ q \in Int /\ c \in Nat /\ told[t] \in Nat /\ told'[t] \in Nat
    <3>1. /\ IntOn(PendingOf(transferReport, t), Requests)
          /\ Total(PendingOf(transferReport, t), Requests) \in Nat
      BY PendingType DEF TransferInv
    <3>2. q \in Int
      BY <1>1, <2>6, RowsFinite DEF TransferType, TransferReports, TL!NoReport, PendingOf
    <3>3. detailRows[t] \in SUBSET TL!DetailRows /\ told[t] \in Nat
      BY DEF TransferInv, TransferType, TL!TypeOK
    <3>4. c \in Nat
      BY <3>3, <2>7, RowsFinite, Zenon
    <3>5. m \in Nat
      BY <3>1, <2>3, Zenon
    <3>6. p \in Int
      BY <3>1, <2>5, Zenon DEF IntOn
    <3>7. QED
      BY <3>2, <3>3, <3>4, <3>5, <3>6
  <2>9. n = m - p + q
    BY <2>2, <2>3, <2>4, <2>5, <2>6, Zenon
  <2>10. /\ told'[t] - q >= told[t] - p
         /\ t \notin failedReports' => told'[t] - q = told[t] - p
    BY <2>5, <2>6, Zenon
  <2>11. c + m <= told[t] /\ (t \notin failedReports => told[t] = c + m)
    BY <2>3, <2>7, Zenon DEF TransferInv, TransferTold
  <2>12. c + n <= told'[t] /\ (t \notin failedReports' => told'[t] = c + n)
    BY <2>8, <2>9, <2>10, <2>11
  <2>13. Cardinality(detailRows'[t]) = c
    BY <2>7, Zenon
  <2>14. QED
    BY <2>4, <2>12, <2>13, Zenon DEF TransferTold
<1>4. QED
  BY <1>1, <1>2, <1>3 DEF TransferInv

LEMMA ReceiveStep ==
  ASSUME TransferInv, NEW r \in Requests, NEW t \in Traces, NEW claim \in Claims, NEW parts,
         TL!Receive(r, t, claim, parts)
  PROVE  TransferInv'
<1>1. CASE TL!Panics(parts)
  BY <1>1 DEF TL!Receive, TransferInv, TransferType, TransferRow, TransferTold,
              TL!TypeOK, TL!Stored
<1>2. CASE ~TL!Panics(parts)
  <2> DEFINE rows == TL!GroupByNodeAndState(parts)
             entry == [pc |-> "tell", trace |-> t, claim |-> claim, rows |-> rows]
  <2>1. entry \in TransferReports /\ entry.pc = "tell"
    BY DEF TransferReports, TL!GroupByNodeAndState
  <2>2. transferReport' = [transferReport EXCEPT ![r] = entry]
    BY <1>2 DEF TL!Receive
  <2> HIDE DEF entry
  <2>3. \A u \in Traces : /\ PendingOf(transferReport, u)[r] = 0
                          /\ PendingOf(transferReport', u)[r] = 0
    BY <2>1, <2>2 DEF TL!Receive, TL!NoReport, PendingOf, TransferInv, TransferType
  <2>4. UNCHANGED <<transferLog, detailRows, told, reportDay, opened, failedReports>>
    BY DEF TL!Receive
  <2>5. told \in [Traces -> Nat] /\ failedReports \subseteq Traces
    BY DEF TransferInv, TransferType, TL!TypeOK
  <2>6. \A u \in Traces :
          told'[u] - PendingOf(transferReport', u)[r] = told[u] - PendingOf(transferReport, u)[r]
    BY <2>3, <2>4
  <2>7. \A u \in Traces :
          told'[u] - PendingOf(transferReport', u)[r] >= told[u] - PendingOf(transferReport, u)[r]
    BY <2>3, <2>4, <2>5
  <2>8. QED
    BY <2>1, <2>2, <2>4, <2>5, <2>6, <2>7, ReportStep
<1>3. QED
  BY <1>1, <1>2

LEMMA TellStep ==
  ASSUME TransferInv, NEW r \in Requests, TL!AddNodeServiceEvents(r)
  PROVE  TransferInv'
<1>1. transferReport[r] \in TransferReports /\ transferReport[r].pc = "tell"
  BY TransferReportOf DEF TL!AddNodeServiceEvents, TransferInv
<1>2. /\ told \in [Traces -> Nat] /\ failedReports \subseteq Traces
      /\ UNCHANGED <<transferLog, detailRows, reportDay, opened, failedReports>>
      /\ \A u \in Traces : PendingOf(transferReport, u)[r] = 0
  BY <1>1 DEF TransferInv, TransferType, TL!TypeOK, TL!AddNodeServiceEvents, PendingOf
<1>3. CASE /\ told' = [told EXCEPT ![transferReport[r].trace] =
                            @ + TL!Cardinality(transferReport[r].rows)]
           /\ transferReport' = [transferReport EXCEPT ![r].pc = "store"]
  <2> DEFINE entry == [transferReport[r] EXCEPT !.pc = "store"]
             t == transferReport[r].trace
             number == Cardinality(transferReport[r].rows)
  <2>1. /\ entry \in TransferReports /\ entry.pc = "store" /\ entry.trace = t
        /\ entry.rows = transferReport[r].rows /\ t \in Traces
    BY <1>1 DEF TransferReports
  <2>2. number \in Nat
    BY <1>1, RowsFinite DEF TransferReports
  <2>3. transferReport' = [transferReport EXCEPT ![r] = entry]
    BY <1>3
  <2>4. told' = [told EXCEPT ![t] = @ + number]
    BY <1>3, TransferCount
  <2> HIDE DEF entry
  <2>5. \A u \in Traces : PendingOf(transferReport', u)[r] = IF u = t THEN number ELSE 0
    <3>1. transferReport'[r] = entry
      BY <2>3 DEF TransferInv, TransferType
    <3>2. QED
      BY <2>1, <3>1 DEF PendingOf
  <2> HIDE DEF number, t
  <2>6. told' \in [Traces -> Nat]
    BY <1>2, <2>1, <2>2, <2>4
  <2>7. \A u \in Traces :
          told'[u] - PendingOf(transferReport', u)[r] = told[u] - PendingOf(transferReport, u)[r]
    BY <1>2, <2>1, <2>2, <2>4, <2>5
  <2>8. \A u \in Traces :
          told'[u] - PendingOf(transferReport', u)[r] >= told[u] - PendingOf(transferReport, u)[r]
    BY <1>2, <2>7
  <2>9. QED
    BY <1>2, <2>1, <2>3, <2>6, <2>7, <2>8, ReportStep
<1>4. CASE transferReport' = [transferReport EXCEPT ![r] = TL!NoReport] /\ UNCHANGED told
  <2>1. \A u \in Traces : PendingOf(transferReport', u)[r] = 0
    BY <1>4 DEF TransferInv, TransferType, PendingOf, TL!NoReport
  <2>2. \A u \in Traces :
          told'[u] - PendingOf(transferReport', u)[r] = told[u] - PendingOf(transferReport, u)[r]
    BY <1>2, <1>4, <2>1
  <2>3. \A u \in Traces :
          told'[u] - PendingOf(transferReport', u)[r] >= told[u] - PendingOf(transferReport, u)[r]
    <3> TAKE u \in Traces
    <3>0. told' = told
      BY <1>4
    <3>1. told'[u] \in Int /\ PendingOf(transferReport', u)[r] = 0
      <4>1. told[u] \in Int
        BY <1>2
      <4>2. QED
        BY <2>1, <3>0, <4>1, Zenon
    <3>2. PICK m : m = told'[u] - PendingOf(transferReport', u)[r]
      OBVIOUS
    <3>3. m \in Int
      BY <3>1, <3>2
    <3>4. m >= m
      BY <3>3
    <3>5. m = told[u] - PendingOf(transferReport, u)[r]
      BY <2>2, <3>2, Zenon
    <3>6. QED
      BY <3>2, <3>4, <3>5, Zenon
  <2>4. QED
    BY <1>2, <1>4, <2>2, <2>3, ReportStep
<1>5. QED
  BY <1>3, <1>4 DEF TL!AddNodeServiceEvents

LEMMA RollbackStep ==
  ASSUME TransferInv, NEW r \in Requests, TL!Rollback(r)
  PROVE  TransferInv'
<1>1. transferReport[r] \in TransferReports
  BY TransferReportOf DEF TL!Rollback, TransferInv
<1>2. /\ told \in [Traces -> Nat] /\ failedReports' \subseteq Traces
      /\ failedReports \subseteq failedReports'
      /\ transferReport' = [transferReport EXCEPT ![r] = TL!NoReport]
      /\ UNCHANGED <<transferLog, detailRows, told, reportDay, opened>>
  BY <1>1 DEF TransferInv, TransferType, TL!TypeOK, TL!Rollback, TransferReports
<1>3. \A u \in Traces : PendingOf(transferReport', u)[r] = 0
  BY <1>2 DEF TransferInv, TransferType, PendingOf, TL!NoReport
<1>4. \A u \in Traces : /\ PendingOf(transferReport, u)[r] \in Nat
                        /\ u \notin failedReports' => PendingOf(transferReport, u)[r] = 0
  BY <1>1, RowsFinite DEF TL!Rollback, TransferReports, PendingOf
<1>5. \A u \in Traces :
        /\ told'[u] - PendingOf(transferReport', u)[r]
             >= told[u] - PendingOf(transferReport, u)[r]
        /\ u \notin failedReports' =>
             told'[u] - PendingOf(transferReport', u)[r]
               = told[u] - PendingOf(transferReport, u)[r]
  <2> TAKE u \in Traces
  <2>1. told'[u] = told[u] /\ told[u] \in Nat
    BY <1>2
  <2>2. PICK p : p = PendingOf(transferReport, u)[r]
    OBVIOUS
  <2>3. PICK q : q = PendingOf(transferReport', u)[r]
    OBVIOUS
  <2>4. p \in Nat /\ q = 0 /\ (u \notin failedReports' => p = 0)
    BY <1>3, <1>4, <2>2, <2>3, Zenon
  <2>5. told'[u] - q >= told[u] - p /\ (u \notin failedReports' => told'[u] - q = told[u] - p)
    BY <2>1, <2>4
  <2>6. QED
    BY <2>2, <2>3, <2>5, Zenon
<1>6. QED
  BY <1>2, <1>5, ReportStep

LEMMA StoreStep ==
  ASSUME TransferInv, NEW r \in Requests, TL!InsertOrUpdateAssetTransferLog(r)
  PROVE  TransferInv'
<1> DEFINE t == transferReport[r].trace
           rows == transferReport[r].rows
           day == IF transferLog[t] = TL!NoRow THEN reportDay ELSE transferLog[t].day
           row == [claim |-> transferReport[r].claim, day |-> day, rows |-> rows]
<1>1. /\ transferReport[r] \in TransferReports /\ transferReport[r].pc = "store"
      /\ t \in Traces /\ rows \in SUBSET TL!DetailRows
  BY TransferReportOf DEF TL!InsertOrUpdateAssetTransferLog, TransferInv, TransferReports
<1>2. TransferRow(t) /\ reportDay \in TL!Days /\ opened \in [Traces -> TL!Days \cup {TL!Never}]
  BY <1>1 DEF TransferInv, TransferType, TL!TypeOK
<1>3. row \in TransferRows /\ row # TL!NoRow /\ row.day = day /\ row.rows = rows
      /\ day \in TL!Days
  <2>1. day \in TL!Days
    BY <1>1, <1>2 DEF TransferInv, TransferType, TransferRows
  <2>2. row \in TransferRows
    BY <1>1, <2>1, TransfersAssumption DEF TransferReports, TransferRows, TransferClaims
  <2>3. QED
    BY <2>1, <2>2, RowIsSome
<1>4. /\ transferLog' = [transferLog EXCEPT ![t] = row]
      /\ opened' = [opened EXCEPT ![t] = IF @ = TL!Never THEN reportDay ELSE @]
      /\ detailRows' = [detailRows EXCEPT ![t] = @ \cup rows]
      /\ transferReport' = [transferReport EXCEPT ![r] = TL!NoReport]
      /\ UNCHANGED <<told, reportDay, failedReports>>
      /\ rows # {} => Cardinality(rows) <= 1 /\ detailRows[t] = {}
  BY <1>1, RowsFinite, TransferCount
    DEF TL!InsertOrUpdateAssetTransferLog, TL!Conflict, TransferInv, TransferType, TL!TypeOK
<1>5. opened'[t] = day /\ day # TL!Never
  <2>1. opened'[t] = IF opened[t] = TL!Never THEN reportDay ELSE opened[t]
    BY <1>1, <1>2, <1>4
  <2>2. QED
    BY <1>2, <1>3, <2>1, TransfersAssumption DEF TransferRow, TL!Days, TL!Never
<1> HIDE DEF row, day
<1>6. TransferType'
  <2>1. transferLog' \in [Traces -> TransferRows \cup {TL!NoRow}]
    BY <1>1, <1>3, <1>4 DEF TransferInv, TransferType
  <2>2. TL!TypeOK'
    BY <1>1, <1>2, <1>4, <2>1
      DEF TransferInv, TransferType, TL!TypeOK, TL!Stored, TransferRows, TransferClaims
  <2>3. QED
    BY <1>4, <2>1, <2>2 DEF TransferInv, TransferType
<1>7. ASSUME NEW u \in Traces PROVE TransferRow(u)'
  <2>1. CASE u = t
    <3>1. transferLog'[t] = row /\ detailRows'[t] = detailRows[t] \cup rows
      BY <1>1, <1>4 DEF TransferInv, TransferType, TL!TypeOK
    <3>2. QED
      BY <1>3, <1>4, <1>5, <2>1, <3>1 DEF TransferRow
  <2>2. CASE u # t
    <3>1. /\ transferLog'[u] = transferLog[u] /\ opened'[u] = opened[u]
          /\ detailRows'[u] = detailRows[u]
      BY <1>4, <2>2
    <3>2. QED
      BY <3>1 DEF TransferInv, TransferRow
  <2>3. QED
    BY <2>1, <2>2
<1>8. ASSUME NEW u \in Traces PROVE TransferTold(u)'
  <2>1. Total(PendingOf(transferReport', u), Requests)
           = Total(PendingOf(transferReport, u), Requests)
               - PendingOf(transferReport, u)[r] + PendingOf(transferReport', u)[r]
    <3>1. \A q \in Requests \ {r} : transferReport'[q] = transferReport[q]
      BY <1>4
    <3>2. QED
      BY <1>6, <3>1, PendingChange DEF TransferInv
  <2>2. PendingOf(transferReport', u)[r] = 0
    BY <1>4 DEF TransferInv, TransferType, PendingOf, TL!NoReport
  <2>3. PendingOf(transferReport, u)[r] = IF u = t THEN Cardinality(rows) ELSE 0
    BY <1>1 DEF PendingOf
  <2>4. /\ Cardinality(detailRows'[u])
             = Cardinality(detailRows[u]) + IF u = t THEN Cardinality(rows) ELSE 0
        /\ Cardinality(detailRows[u]) \in Nat /\ Cardinality(rows) \in Nat
    <3>1. /\ detailRows'[u] = IF u = t THEN detailRows[u] \cup rows ELSE detailRows[u]
          /\ detailRows[u] \in SUBSET TL!DetailRows
      BY <1>1, <1>4 DEF TransferInv, TransferType, TL!TypeOK
    <3>2. Cardinality(detailRows[u]) \in Nat /\ Cardinality(rows) \in Nat
      BY <1>1, <3>1, RowsFinite, Zenon
    <3>3. CASE u = t /\ rows # {}
      <4>1. detailRows[u] = {} /\ detailRows'[u] = rows
        BY <1>4, <3>1, <3>3
      <4>2. Cardinality(detailRows[u]) = 0 /\ Cardinality(detailRows'[u]) = Cardinality(rows)
        BY <4>1, FS_EmptySet
      <4>3. QED
        BY <3>2, <3>3, <4>2
    <3>4. CASE u = t /\ rows = {}
      <4>1. detailRows'[u] = detailRows[u]
        BY <3>1, <3>4
      <4>2. Cardinality(rows) = 0 /\ Cardinality(detailRows'[u]) = Cardinality(detailRows[u])
        BY <3>4, <4>1, FS_EmptySet
      <4>3. QED
        BY <3>2, <3>4, <4>2
    <3>5. CASE u # t
      <4>1. Cardinality(detailRows'[u]) = Cardinality(detailRows[u])
        BY <3>1, <3>5
      <4>2. QED
        BY <3>2, <3>5, <4>1
    <3>6. QED
      BY <3>3, <3>4, <3>5
  <2>5. told'[u] = told[u] /\ told[u] \in Nat /\ failedReports' = failedReports
    BY <1>4 DEF TransferInv, TransferType, TL!TypeOK
  <2>6. Total(PendingOf(transferReport, u), Requests) \in Nat /\ TransferTold(u)
    BY PendingType DEF TransferInv
  <2> HIDE DEF t, rows
  <2>7. PICK m : m = Total(PendingOf(transferReport, u), Requests)
    OBVIOUS
  <2>8. PICK p : p = IF u = t THEN Cardinality(rows) ELSE 0
    OBVIOUS
  <2>9. Total(PendingOf(transferReport', u), Requests) = m - p + 0
    BY <2>1, <2>2, <2>3, <2>7, <2>8, Zenon
  <2>10. /\ m \in Nat /\ p \in Nat
         /\ Cardinality(detailRows'[u]) = Cardinality(detailRows[u]) + p
    BY <2>4, <2>6, <2>7, <2>8
  <2>11. /\ Cardinality(detailRows[u]) + m <= told[u]
         /\ u \notin failedReports => told[u] = Cardinality(detailRows[u]) + m
    BY <2>6, <2>7, Zenon DEF TransferTold
  <2>12. PICK n : n = Total(PendingOf(transferReport', u), Requests)
    OBVIOUS
  <2>13. PICK c : c = Cardinality(detailRows'[u])
    OBVIOUS
  <2>14. c + n <= told[u] /\ (u \notin failedReports => told[u] = c + n)
    BY <2>4, <2>5, <2>9, <2>10, <2>11, <2>12, <2>13
  <2>15. QED
    BY <2>5, <2>12, <2>13, <2>14, Zenon DEF TransferTold
<1>9. QED
  BY <1>6, <1>7, <1>8 DEF TransferInv

LEMMA TransferNext == TransferInv /\ [TL!Next]_transferVars => TransferInv'
<1> SUFFICES ASSUME TransferInv, [TL!Next]_transferVars PROVE TransferInv'
  OBVIOUS
<1>1. CASE UNCHANGED transferVars
  BY <1>1 DEF transferVars, TransferInv, TransferType, TransferRow, TransferTold, TL!TypeOK,
              TL!Stored
<1>2. CASE TL!NextDay
  <2>1. TransferType'
    BY <1>2, TransfersAssumption
      DEF TL!NextDay, TransferInv, TransferType, TL!TypeOK, TL!Stored, TL!Days
  <2>2. QED
    BY <1>2, <2>1 DEF TL!NextDay, TransferInv, TransferRow, TransferTold
<1>3. ASSUME NEW t \in Traces, NEW who \in Uploaders, TL!GetUploadInfo(t, who)
      PROVE  TransferInv'
  <2>1. TL!NewLogTrace(t, who, "upload") /\ who \in Uploaders \cup {NoName}
        /\ "upload" \in TL!Types
    BY <1>3 DEF TL!GetUploadInfo, TL!Types
  <2>2. QED
    BY <2>1, OpenStep
<1>4. ASSUME NEW t \in Traces, TL!UploadTempFileCar(t) PROVE TransferInv'
  <2>1. TL!NewLogTrace(t, NoName, "download") /\ NoName \in Uploaders \cup {NoName}
        /\ "download" \in TL!Types
    BY <1>4 DEF TL!UploadTempFileCar, TL!Types
  <2>2. QED
    BY <2>1, OpenStep
<1>5. ASSUME NEW r \in Requests, NEW t \in Traces, NEW claim \in Claims, NEW parts \in Bodies,
             TL!Receive(r, t, claim, parts)
      PROVE  TransferInv'
  BY <1>5, ReceiveStep
<1>6. ASSUME NEW r \in Requests,
             \/ TL!AddNodeServiceEvents(r)
             \/ TL!InsertOrUpdateAssetTransferLog(r)
             \/ TL!Rollback(r)
      PROVE  TransferInv'
  BY <1>6, TellStep, StoreStep, RollbackStep
<1>7. QED
  BY <1>1, <1>2, <1>3, <1>4, <1>5, <1>6 DEF TL!Next

\* The successes of a who's days.
LEMMA SuccessesSum ==
  ASSUME NEW who, NEW type
  PROVE  TL!MapThenSumSet(
             LAMBDA d : TL!GetComprehensiveStatsInPeriodByUserGroupByDay(0, LastDay, who)[d][type].success,
             TL!Days)
           = Total([d \in TL!Days |->
               TL!GetComprehensiveStatsInPeriodByUserGroupByDay(0, LastDay, who)[d][type].success],
               TL!Days)
<1> DEFINE G == TL!GetComprehensiveStatsInPeriodByUserGroupByDay(0, LastDay, who)
           n == [d \in TL!Days |-> G[d][type].success]
           Sums(h) == h = [s \in SUBSET TL!Days |->
                            IF s = {} THEN 0 ELSE G[First(s)][type].success + h[s \ {First(s)}]]
<1>1. TL!MapThenSumSet(LAMBDA d : G[d][type].success, TL!Days) = (CHOOSE h : Sums(h))[TL!Days]
  <2> HIDE DEF G
  <2> QED
    BY Zenon DEF TL!MapThenSumSet, TL!MapThenFoldSet, First
<1>2. \A h : Sums(h) <=> SumsOn(TL!Days, n, h)
  <2> HIDE DEF G
  <2>1. \A s \in SUBSET TL!Days : s # {} => n[First(s)] = G[First(s)][type].success
    BY FirstIn
  <2> HIDE DEF n
  <2>2. TAKE h
  <2>3. [s \in SUBSET TL!Days |->
           IF s = {} THEN 0 ELSE G[First(s)][type].success + h[s \ {First(s)}]]
         = [s \in SUBSET TL!Days |-> IF s = {} THEN 0 ELSE n[First(s)] + h[s \ {First(s)}]]
    BY <2>1
  <2>4. QED
    BY <2>3, Zenon DEF SumsOn
<1> HIDE DEF Sums, n
<1>3. (CHOOSE h : Sums(h)) = (CHOOSE h : SumsOn(TL!Days, n, h))
  BY <1>2
<1>4. (CHOOSE h : Sums(h))[TL!Days] = Total(n, TL!Days)
  BY <1>3, TotalUnfolded, Zenon
<1>5. QED
  BY <1>1, <1>4, Zenon DEF n

\* The traces of a period, by what was claimed of them.
LEMMA TracesCounted ==
  ASSUME TransferInv, NEW first \in TL!Days, NEW last \in TL!Days
  PROVE  LET stats == TL!GetComprehensiveStatsInPeriod(first, last)
         IN  stats["upload"].total + stats["download"].total
               = Cardinality({t \in Traces : opened[t] \in first .. last})
<1> DEFINE S == {t \in TL!Stored : transferLog[t].day \in first .. last}
           Of(type) == {t \in S : transferLog[t].claim.type = type}
<1>1. S = {t \in Traces : opened[t] \in first .. last} /\ S \subseteq Traces
  <2>1. TL!Never \notin first .. last
    BY TransfersAssumption DEF TL!Days, TL!Never
  <2>2. \A t \in Traces : t \in TL!Stored <=> transferLog[t] # TL!NoRow
    BY DEF TL!Stored
  <2>3. \A t \in Traces : t \in S <=> opened[t] \in first .. last
    BY <2>1, <2>2 DEF TransferInv, TransferRow
  <2>4. S \subseteq Traces
    BY DEF TL!Stored
  <2>5. QED
    BY <2>3, <2>4
<1>2. S = Of("upload") \cup Of("download") /\ Of("upload") \cap Of("download") = {}
  <2>1. \A t \in TL!Stored : transferLog[t] \in TransferRows
    BY DEF TL!Stored, TransferInv, TransferType
  <2>2. QED
    BY <2>1 DEF TransferRows, TransferClaims, TL!Types
<1>3. TL!GetComprehensiveStatsInPeriod(first, last)
        = [type \in TL!Types |->
             [total |-> Cardinality(Of(type)),
              success |-> Cardinality({t \in Of(type) : transferLog[t].claim.state = TL!Success}),
              failure |-> Cardinality({t \in Of(type) : transferLog[t].claim.state = TL!Failure})]]
  BY TransferCount, Zenon DEF TL!GetComprehensiveStatsInPeriod, TL!StatsOf
<1> HIDE DEF Of
<1>4. /\ TL!GetComprehensiveStatsInPeriod(first, last)["upload"].total = Cardinality(Of("upload"))
      /\ TL!GetComprehensiveStatsInPeriod(first, last)["download"].total = Cardinality(Of("download"))
  BY <1>3 DEF TL!Types
<1>5. Cardinality(S) = Cardinality(Of("upload")) + Cardinality(Of("download"))
  <2>1. PICK U : U = Of("upload")
    OBVIOUS
  <2>2. PICK D : D = Of("download")
    OBVIOUS
  <2>3. S = U \cup D /\ U \cap D = {}
    BY <1>2, <2>1, <2>2, Zenon
  <2>4. IsFiniteSet(U) /\ IsFiniteSet(D) /\ IsFiniteSet(S)
    BY <1>1, <2>3, TransfersAssumption, FS_Subset
  <2>5. /\ Cardinality(U \cup D) = Cardinality(U) + Cardinality(D) - Cardinality(U \cap D)
        /\ Cardinality(U) \in Nat /\ Cardinality(D) \in Nat /\ Cardinality(U \cap D) = 0
    BY <2>3, <2>4, FS_Union, FS_CardinalityType, FS_EmptySet
  <2> HIDE DEF S
  <2>6. Cardinality(S) = Cardinality(U) + Cardinality(D)
    BY <2>3, <2>5
  <2>7. QED
    BY <2>1, <2>2, <2>6, Zenon
<1>6. QED
  BY <1>1, <1>4, <1>5

\* A who's days add up.
LEMMA DaysCounted ==
  ASSUME TransferInv, NEW who, NEW type \in TL!Types
  PROVE  TL!MapThenSumSet(
             LAMBDA d : TL!GetComprehensiveStatsInPeriodByUserGroupByDay(0, LastDay, who)[d][type].success,
             TL!Days)
           = TL!GetComprehensiveStatsInPeriodByUser(0, LastDay, who)[type].success
<1> DEFINE Right(t) == /\ t \in TL!Stored
                       /\ who \in {NoName, transferLog[t].claim.user}
                       /\ transferLog[t].claim.type = type
                       /\ transferLog[t].claim.state = TL!Success
           G == TL!GetComprehensiveStatsInPeriodByUserGroupByDay(0, LastDay, who)
           n == [d \in TL!Days |-> G[d][type].success]
           c == [d \in TL!Days |-> {t \in Traces : Right(t) /\ transferLog[t].day = d}]
           S == {t \in Traces : Right(t)}
<1>1. \A t \in TL!Stored : t \in Traces /\ transferLog[t].day \in TL!Days
  BY DEF TL!Stored, TransferInv, TransferType, TransferRows
<1>2. TL!GetComprehensiveStatsInPeriodByUser(0, LastDay, who)[type].success = Cardinality(S)
  <2> DEFINE P == {t \in TL!Stored : /\ transferLog[t].day \in 0 .. LastDay
                                    /\ who \in {NoName, transferLog[t].claim.user}}
  <2>1. TL!GetComprehensiveStatsInPeriodByUser(0, LastDay, who) = TL!StatsOf(P)
    BY Zenon DEF TL!GetComprehensiveStatsInPeriodByUser
  <2>2. TL!StatsOf(P)[type].success
          = Cardinality({t \in {t \in P : transferLog[t].claim.type = type} :
                          transferLog[t].claim.state = TL!Success})
    <3> HIDE DEF P
    <3> QED
      BY TransferCount DEF TL!StatsOf
  <2>3. {t \in {t \in P : transferLog[t].claim.type = type} :
          transferLog[t].claim.state = TL!Success} = S
    BY <1>1 DEF TL!Days
  <2>4. QED
    BY <2>1, <2>2, <2>3, Zenon
<1>3. \A d \in TL!Days : n[d] = Cardinality(c[d])
  <2> TAKE d \in TL!Days
  <2> DEFINE P == {t \in TL!Stored : /\ transferLog[t].day = d
                                    /\ who \in {NoName, transferLog[t].claim.user}}
  <2>1. G[d] = TL!StatsOf(P)
    BY Zenon DEF TL!GetComprehensiveStatsInPeriodByUserGroupByDay, TL!Days
  <2>2. TL!StatsOf(P)[type].success
          = Cardinality({t \in {t \in P : transferLog[t].claim.type = type} :
                          transferLog[t].claim.state = TL!Success})
    <3> HIDE DEF P
    <3> QED
      BY TransferCount DEF TL!StatsOf
  <2>3. {t \in {t \in P : transferLog[t].claim.type = type} :
          transferLog[t].claim.state = TL!Success} = c[d]
    BY <1>1
  <2>4. n[d] = G[d][type].success
    OBVIOUS
  <2>5. QED
    BY <2>1, <2>2, <2>3, <2>4, Zenon
<1>4. /\ \A t \in S : \E d \in TL!Days : t \in c[d]
      /\ \A d, e \in TL!Days : d # e => c[d] \cap c[e] = {}
      /\ \A d \in TL!Days : c[d] \subseteq S
  BY <1>1
<1>5. IsFiniteSet(S) /\ IsFiniteSet(TL!Days)
  <2>1. IsFiniteSet(0 .. LastDay)
    BY TransfersAssumption, FS_Interval
  <2>2. QED
    BY <2>1, TransfersAssumption, FS_Subset DEF TL!Days
<1> HIDE DEF S, c, n
<1>6. Total(n, TL!Days) = Cardinality(S)
  BY <1>3, <1>4, <1>5, TotalOfCounts
<1>7. QED
  BY <1>2, <1>6, SuccessesSum, Zenon DEF n

LEMMA TransferNow ==
  TransferInv => TL!CountedWhereOpened /\ TL!ReportsAreWhole /\ TL!TypeOK
<1> SUFFICES ASSUME TransferInv PROVE TL!CountedWhereOpened /\ TL!ReportsAreWhole /\ TL!TypeOK
  OBVIOUS
<1>1. TL!CountedWhereOpened
  BY TracesCounted, DaysCounted, TransferCount, Zenon DEF TL!CountedWhereOpened
<1>2. ASSUME NEW t \in Traces
      PROVE  /\ t \in TL!Stored /\ transferLog[t].rows # {} => detailRows[t] = transferLog[t].rows
             /\ Cardinality(detailRows[t]) <= told[t]
             /\ t \notin failedReports /\ ~TL!UnderWay(t) => told[t] = Cardinality(detailRows[t])
  <2>1. TransferRow(t) /\ TransferTold(t)
    BY DEF TransferInv
  <2>2. /\ Cardinality(detailRows[t]) \in Nat /\ told[t] \in Nat
        /\ Total(PendingOf(transferReport, t), Requests) \in Nat
    BY PendingType, RowsFinite DEF TransferInv, TransferType, TL!TypeOK
  <2>3. ASSUME ~TL!UnderWay(t) PROVE Total(PendingOf(transferReport, t), Requests) = 0
    <3>1. \A r \in Requests : transferReport[r].pc = "store" => transferReport[r] # TL!NoReport
      BY DEF TL!NoReport
    <3>2. \A r \in Requests : PendingOf(transferReport, t)[r] = 0
      BY <2>3, <3>1 DEF TL!UnderWay, PendingOf
    <3>3. QED
      BY <3>2, RequestsAssumption, TotalZero
  <2>4. QED
    BY <2>1, <2>2, <2>3 DEF TransferRow, TransferTold, TL!Stored
<1>3. QED
  BY <1>1, <1>2, TransferCount, Zenon DEF TL!ReportsAreWhole, TransferInv, TransferType

\* The reports of transfers.
LEMMA TransferInvariant == Spec => []TransferInv
<1>1. Init => TransferInv
  BY TransferInit DEF Init
<1>2. TransferInv /\ [Next]_serviceVars => TransferInv'
  BY TransferNext DEF Next, serviceVars
<1>3. QED
  BY <1>1, <1>2, PTL DEF Spec
-----------------------------------------------------------------------------
(* The theorems.                                                           *)

\* CreateUser loses INSERTs and writes in two transactions, and still a referrer is
\* always an older user: the referrers form a forest, on which the commissions of
\* the ancestors rely.
THEOREM ReferrersFormForest == Spec => []ReferrersAreOlder
<1>1. AccountInv => ReferrersAreOlder
  BY DEF AccountInv, ReferrersAreOlder
<1>2. QED
  BY <1>1, AccountInvariant, PTL

\* A device belongs to a user only if that user has bound it, however bindings,
\* unbindings and the job that clears owners overlap.
THEOREM OwnersHaveBound == Spec => []OwnersBound
<1>1. DOP!OwnersBound => OwnersBound
  BY DEF DOP!OwnersBound, DO!OwnersBound, OwnersBound
<1>2. Spec => []DOP!OwnersBound
  BY OwnersAssumption, OwnersSpec, DOP!OwnersAreBound, PTL
<1>3. QED
  BY <1>1, <1>2, PTL

\* The days that a link is shown to have left are not negative at the moment of
\* an update (CreateShareLink, ShareLinkUpdate).
THEOREM LinksExpireLater == Spec => []ExpireDaysNotNegative
<1>1. LinkInv => ExpireDaysNotNegative
  BY LinkNow DEF ExpireDaysNotNegative
<1>2. QED
  BY <1>1, LinkInvariant, PTL

\* The password in the table is the one KubeSphere has, unless a call has failed
\* between the two or requests of one user have overlapped.
THEOREM PasswordsStayTogether == Spec => []PasswordsAgree
<1>1. PlatformInv => PasswordsAgree
  BY PlatformNow DEF PasswordsAgree
<1>2. QED
  BY <1>1, PlatformInvariant, PTL

\* Keys of the storage API, signatures of miners, the list of batches, the links
\* and the choice of areas work as they were answered.
THEOREM AnswersAreKept == Spec => []KeysAsAnswered
<1>1. SignInv => MS!SignaturesVerify
  BY DEF SignInv, MS!SignaturesVerify, Signed
<1>2. KeyInv /\ SignInv /\ BatchInv /\ LinkInv /\ AreaInv => KeysAsAnswered
  BY <1>1, KeyNow, BatchNow, LinkNow, AreaNow DEF KeysAsAnswered
<1>3. QED
  BY <1>2, KeyInvariant, SignInvariant, BatchInvariant, LinkInvariant, AreaInvariant, PTL

\* The row of a node and its scheduler agree on a deactivation, and a report of
\* transfers is counted once and as a whole for the user, the kind and the day its
\* trace was opened with (DeactivateNode, UndoNodeDeactivation, the transfer reports).
THEOREM OperationsAndReportsAgree == Spec => []OperationsAgree
<1>1. OperationInv /\ TransferInv => OperationsAgree
  BY TransferNow DEF OperationInv, OperationsAgree
<1>2. QED
  BY <1>1, OperationInvariant, TransferInvariant, PTL

\* Limits on opens, direct shares, downloads and addresses are exceeded by no more
\* than the requests under way; a refund is bounded by what the time left costs.
THEOREM LimitsAreKept == Spec => []LimitsHold
<1>1. ShareInv /\ FileInv /\ BatchInv /\ PriceInv => LimitsHold
  BY ShareNow, FileNow, BatchNow, PriceNow DEF LimitsHold
<1>2. QED
  BY <1>1, ShareInvariant, FileInvariant, BatchInvariant, PriceInvariant, PTL

=============================================================================
