------------------------------ MODULE Accounts ------------------------------
(***************************************************************************)
(* Users of src/api/users.go, jwt.go and tenant.go: registration, the      *)
(* codes that are mailed or signed, the ways to log in, a tenant's users,  *)
(* passwords, wallets and referral codes.                                  *)
(*                                                                         *)
(* A user is created by two INSERTs of which only the second belongs to    *)
(* the transaction and the error of the first is forgotten: the users row  *)
(* may be missing although its referral code exists and the request was    *)
(* answered with success. Codes stay in Redis after they were used.        *)
(***************************************************************************)
EXTENDS Integers, FiniteSets

CONSTANTS
    Names, NoName,    \* usernames, and an empty referrer or wallet
    Wallets,          \* addresses a signature may recover to
    MaxCodes,         \* the referral codes a user may have: 5
    Requests,         \* requests that may be under way at a time
    MaxNonces,        \* bounds on the codes issued, and on the INSERTs into users
    MaxLost           \* that fail

Kinds == {"Register", "Login", "Reset", "Signature"}

VARIABLES
    user,             \* users by username
    referralCode,     \* referral_code: how many rows of a user
    nonce,            \* the codes in Redis: known to the user, or none
    session,          \* users with a token
    request,          \* requests and their local variables
    born,             \* history: the order in which users were inserted
    issued, lost
accountVars == <<user, referralCode, nonce, session, request, born, issued, lost>>

NoUserRow == [exists |-> FALSE, referrer |-> NoName, wallet |-> NoName, password |-> FALSE]
Free == [pc |-> "free"]
Registered(u) == user[u].exists

\* Several requests may each add the code that was allowed to one, several may
\* create the user with a code each, and an INSERT into users that was lost leaves
\* the code of a user who is created again.
MostCodes == MaxCodes - 1 + 2 * Cardinality(Requests) + MaxLost

TypeOK ==
    /\ \A u \in Names :
         /\ user[u].referrer \in Names \cup {NoName}
         /\ user[u].wallet \in Wallets \cup {NoName}
         /\ {user[u].exists, user[u].password} \subseteq BOOLEAN
    /\ referralCode \in [Names -> 0 .. MostCodes]
    /\ nonce \in [Names -> SUBSET Kinds]
    /\ session \subseteq Names
    /\ born \in [Names -> 0 .. Cardinality(Names)]

Init ==
    /\ user = [u \in Names |-> NoUserRow]
    /\ referralCode = [u \in Names |-> 0]
    /\ nonce = [u \in Names |-> {}]
    /\ session = {}
    /\ request = [r \in Requests |-> Free]
    /\ born = [u \in Names |-> 0]
    /\ issued = 0
    /\ lost = 0

Set(r, local) == request' = [request EXCEPT ![r] = local]
End(r) == Set(r, Free)
-----------------------------------------------------------------------------
(* Codes.                                                                  *)

\* The code a user has been given, by its kind.
Code(u, kind) == kind \in nonce[u]

\* A signature of the code a user was given recovers to a wallet.
Signed(u) == Code(u, "Signature")

CacheVerifyCode(u, kind) == nonce' = [nonce EXCEPT ![u] = @ \cup {kind}]

\* GetNumericVerifyCodeHandler refuses while a code is in Redis. The mail goes
\* out before the code is stored; where storing fails the mail is worth nothing.
GetNumericVerifyCode(u, kind) ==
    /\ ~Code(u, kind)
    /\ issued < MaxNonces
    /\ issued' = issued + 1
    /\ CacheVerifyCode(u, kind)
    /\ UNCHANGED <<user, referralCode, session, request, born, lost>>

\* defaultNonceExpiration
NonceExpires(u, kind) ==
    /\ Code(u, kind)
    /\ nonce' = [nonce EXCEPT ![u] = @ \ {kind}]
    /\ UNCHANGED <<user, referralCode, session, request, born, issued, lost>>

\* CreateUser is under way, with a token to follow when a tenant asked for it.
CreateUser(r, u, referrer, password, sso) ==
    Set(r, [pc |-> "insert", user |-> u, referrer |-> referrer, password |-> password,
            sso |-> sso])

\* generateNonceString overwrites; whoever asks is made a user.
GetNonceString(r, u) ==
    /\ request[r] = Free
    /\ issued < MaxNonces
    /\ issued' = issued + 1
    /\ nonce' = [nonce EXCEPT ![u] = @ \cup {"Signature"}]
    /\ IF Registered(u) THEN UNCHANGED request
       ELSE CreateUser(r, u, NoName, FALSE, FALSE)
    /\ UNCHANGED <<user, referralCode, session, born, lost>>
-----------------------------------------------------------------------------
(* Registration.                                                           *)

\* mutant: a referral code is looked up alone
OwnersOfRefCodes == {v \in Names : referralCode[v] > 0}

\* The user a referral code belongs to: the owner has a users row.
GetUserByRefCode == {v \in Names : referralCode[v] > 0 /\ Registered(v)}

\* UserRegister up to CreateUser: the username is free, the code given is the
\* one that was mailed.
UserRegister(r, u) ==
    /\ request[r] = Free
    /\ ~Registered(u)
    /\ Code(u, "Register")
    /\ \E v \in GetUserByRefCode \cup {NoName} :
         CreateUser(r, u, v, TRUE, FALSE)
    /\ UNCHANGED <<user, referralCode, nonce, session, born, issued, lost>>

\* CreateUser, first INSERT, with an error that nobody looks at when the
\* username has been taken meanwhile or the statement fails.
InsertUser(r) ==
    LET q == request[r]
    IN  /\ q.pc = "insert"
        /\ Set(r, [pc |-> "code", user |-> q.user, sso |-> q.sso])
        /\ \/ /\ ~Registered(q.user)
              /\ user' = [user EXCEPT ![q.user] =
                            [exists |-> TRUE, referrer |-> q.referrer, wallet |-> NoName,
                             password |-> q.password]]
              /\ born' = [born EXCEPT ![q.user] = Cardinality({v \in Names : Registered(v)}) + 1]
              /\ UNCHANGED lost
           \/ /\ Registered(q.user)
              /\ UNCHANGED <<user, born, lost>>
           \/ /\ lost < MaxLost
              /\ lost' = lost + 1
              /\ UNCHANGED <<user, born>>
        /\ UNCHANGED <<referralCode, nonce, session, issued>>

\* CreateUser, second INSERT, or an error that rolls it back. A tenant's user
\* is given a token in either case.
InsertReferralCode(r) ==
    LET q == request[r]
    IN  /\ q.pc = "code"
        /\ \/ referralCode' = [referralCode EXCEPT ![q.user] = @ + 1]
           \/ UNCHANGED referralCode
        /\ session' = IF q.sso THEN session \cup {q.user} ELSE session
        /\ End(r)
        /\ UNCHANGED <<user, nonce, born, issued, lost>>
-----------------------------------------------------------------------------
(* Logging in.                                                             *)

\* A user without a quota of storage is given one on the way.
LoginByPassword(u) ==
    /\ Registered(u)
    /\ user[u].password
    /\ session' = session \cup {u}
    /\ UNCHANGED <<user, referralCode, nonce, request, born, issued, lost>>

\* No users row is asked for.
LoginBySignature(u) ==
    /\ Signed(u)
    /\ session' = session \cup {u}
    /\ UNCHANGED <<user, referralCode, nonce, request, born, issued, lost>>

LoginByVerifyCode(u) ==
    /\ Code(u, "Login")
    /\ Registered(u)
    /\ session' = session \cup {u}
    /\ UNCHANGED <<user, referralCode, nonce, request, born, issued, lost>>

\* The Authenticator: a signature before a code before a password.
Login(u) == LoginBySignature(u) \/ LoginByVerifyCode(u) \/ LoginByPassword(u)

\* A tenant vouches for its user, who is created on the first visit.
SSOLogin(r, u) ==
    /\ request[r] = Free
    /\ IF Registered(u) THEN session' = session \cup {u} /\ UNCHANGED request
       ELSE CreateUser(r, u, NoName, FALSE, TRUE) /\ UNCHANGED session
    /\ UNCHANGED <<user, referralCode, nonce, born, issued, lost>>

\* AuthRequired: a token is refused once it has expired.
TokenExpires(u) ==
    /\ u \in session
    /\ session' = session \ {u}
    /\ UNCHANGED <<user, referralCode, nonce, request, born, issued, lost>>

\* An UPDATE: a username without a row changes nothing.
PasswordReset(u) ==
    /\ Code(u, "Reset")
    /\ user' = [user EXCEPT ![u].password = user[u].exists]
    /\ UNCHANGED <<referralCode, nonce, session, request, born, issued, lost>>
-----------------------------------------------------------------------------
(* Wallets and referral codes.                                             *)

BindWallet(r, u, w) ==
    /\ request[r] = Free
    /\ Signed(u)
    /\ Registered(u)
    /\ user[u].wallet = NoName
    /\ Set(r, [pc |-> "wallet", user |-> u, wallet |-> w])
    /\ UNCHANGED <<user, referralCode, nonce, session, born, issued, lost>>

UpdateUserWalletAddress(r) ==
    /\ request[r].pc = "wallet"
    /\ user' = [user EXCEPT ![request[r].user].wallet = request[r].wallet]
    /\ End(r)
    /\ UNCHANGED <<referralCode, nonce, session, born, issued, lost>>

UnBindWallet(u) ==
    /\ u \in session
    /\ Registered(u)
    /\ user' = [user EXCEPT ![u].wallet = NoName]
    /\ UNCHANGED <<referralCode, nonce, session, request, born, issued, lost>>

\* mutant: the codes are not counted
AddReferralCodeUncounted(r, u) ==
    /\ request[r] = Free
    /\ u \in session
    /\ Set(r, [pc |-> "code", user |-> u, sso |-> FALSE])
    /\ UNCHANGED <<user, referralCode, nonce, session, born, issued, lost>>

\* The codes are counted, then one is added.
AddReferralCode(r, u) ==
    /\ request[r] = Free
    /\ u \in session
    /\ referralCode[u] < MaxCodes
    /\ Set(r, [pc |-> "code", user |-> u, sso |-> FALSE])
    /\ UNCHANGED <<user, referralCode, nonce, session, born, issued, lost>>

Next ==
    \/ \E r \in Requests, u \in Names :
         \/ GetNonceString(r, u) \/ UserRegister(r, u) \/ AddReferralCode(r, u) \/ SSOLogin(r, u)
         \/ \E w \in Wallets : BindWallet(r, u, w)
    \/ \E r \in Requests : InsertUser(r) \/ InsertReferralCode(r) \/ UpdateUserWalletAddress(r)
    \/ \E u \in Names : \/ Login(u) \/ TokenExpires(u) \/ PasswordReset(u) \/ UnBindWallet(u)
                        \/ \E k \in Kinds : GetNumericVerifyCode(u, k) \/ NonceExpires(u, k)

Spec == Init /\ [][Next]_accountVars
-----------------------------------------------------------------------------
(* Properties.                                                             *)

\* A referrer was a user before the users they brought in, so that the
\* referrers form a forest: the commissions of SumUserReward rely on it, which
\* walk up two generations. It holds although INSERTs are lost and a user may
\* own referral codes without being in the users table.
ReferrersAreOlder ==
    \A u \in Names : Registered(u) /\ user[u].referrer # NoName =>
        LET v == user[u].referrer
        IN  Registered(v) /\ born[v] < born[u]

=============================================================================
