-------------------------- MODULE PlatformAccounts --------------------------
(***************************************************************************)
(* Accounts of the container platform: a user binds a Keplr address        *)
(* (bindKeplr of src/api/platform.go, or logs in with it) or resets the    *)
(* password. KubeSphere and the database each hold a password, and no      *)
(* transaction spans the two.                                              *)
(***************************************************************************)
EXTENDS Integers

CONSTANTS
    StorageUsers,         \* users of the storage, the keys of the map
    Addresses, NoAddress, \* Keplr addresses, the accounts of the platform
    PlatformCalls,        \* requests under way
    MaxPasswords,         \* bound on the passwords generated
    MaxOutages            \* bound on calls that fail

VARIABLES
    userMap,       \* container_platform_user_map: the address of a user
    kubPwd,        \* kub_pwd of an address in the table of users, 0: no row
    account,       \* the password KubeSphere has for an address, 0: no account
    platformCall,
    generated, outages,
    unsettled      \* addresses with a call that failed, or with two at once
platformVars == <<userMap, kubPwd, account, platformCall, generated, outages, unsettled>>

Free == [pc |-> "free"]

TypeOK ==
    /\ userMap \in [StorageUsers -> Addresses \cup {NoAddress}]
    /\ kubPwd \in [Addresses -> 0 .. MaxPasswords]
    /\ account \in [Addresses -> 0 .. MaxPasswords]
    /\ generated \in 0 .. MaxPasswords

Init ==
    /\ userMap = [u \in StorageUsers |-> NoAddress]
    /\ kubPwd = [a \in Addresses |-> 0]
    /\ account = [a \in Addresses |-> 0]
    /\ platformCall = [c \in PlatformCalls |-> Free]
    /\ generated = 0
    /\ outages = 0
    /\ unsettled = {}

On(a) == {c \in PlatformCalls : platformCall[c] # Free /\ platformCall[c].of = a}

\* GeneratePassword: a new password for a request on address a.
Begin(c, u, a, step) ==
    /\ generated < MaxPasswords
    /\ generated' = generated + 1
    /\ platformCall' = [platformCall EXCEPT ![c] =
         [pc |-> step, user |-> u, of |-> a, pwd |-> generated + 1]]
    /\ unsettled' = IF On(a) = {} THEN unsettled ELSE unsettled \cup {a}

Fail(c) ==
    /\ outages < MaxOutages
    /\ outages' = outages + 1
    /\ platformCall' = [platformCall EXCEPT ![c] = Free]
    /\ unsettled' = unsettled \cup {platformCall[c].of}
-----------------------------------------------------------------------------
\* addPlatformUserInfo: only for a user that is not in the map. A user that logs
\* in with an address is its own storage user.
AddPlatformUserInfo(c, u, a) ==
    /\ platformCall[c] = Free
    /\ userMap[u] = NoAddress
    /\ Begin(c, u, a, "create")
    /\ UNCHANGED <<userMap, kubPwd, account, outages>>

\* POST users; an account that already exists is no error. The answer may be
\* lost after the account was created.
CreateUserAccount(c) ==
    /\ platformCall[c].pc = "create"
    /\ LET a == platformCall[c].of
           created == IF account[a] = 0 THEN [account EXCEPT ![a] = platformCall[c].pwd] ELSE account
       IN  \/ /\ account' = created
              /\ platformCall' = [platformCall EXCEPT ![c].pc = "map"]
              /\ UNCHANGED <<outages, unsettled>>
           \/ /\ account' \in {account, created}
              /\ Fail(c)
    /\ UNCHANGED <<userMap, kubPwd, generated>>

\* mutant: the row of the address is written whether it exists or not
MapOverwriting(c) ==
    /\ userMap' = [userMap EXCEPT ![platformCall[c].user] = platformCall[c].of]
    /\ kubPwd' = [kubPwd EXCEPT ![platformCall[c].of] = platformCall[c].pwd]

\* The transaction: the map, and the row of the address unless there is one.
Map(c) ==
    /\ userMap' = [userMap EXCEPT ![platformCall[c].user] = platformCall[c].of]
    /\ kubPwd' = [kubPwd EXCEPT ![platformCall[c].of] = IF @ = 0 THEN platformCall[c].pwd ELSE @]

CreateUserMap(c) ==
    /\ platformCall[c].pc = "map"
    /\ \/ /\ userMap[platformCall[c].user] = NoAddress
          /\ Map(c)
          /\ platformCall' = [platformCall EXCEPT ![c] = Free]
          /\ UNCHANGED <<outages, unsettled>>
       \/ /\ userMap[platformCall[c].user] # NoAddress   \* a duplicate key
          /\ platformCall' = [platformCall EXCEPT ![c] = Free]
          /\ unsettled' = unsettled \cup {platformCall[c].of}
          /\ UNCHANGED <<userMap, kubPwd, outages>>
       \/ /\ Fail(c)
          /\ UNCHANGED <<userMap, kubPwd>>
    /\ UNCHANGED <<account, generated>>

\* resetKubPwdHandler, for the address the map has for the user.
ResetKubPwd(c, u) ==
    /\ platformCall[c] = Free
    /\ userMap[u] # NoAddress
    /\ Begin(c, u, userMap[u], "reset")
    /\ UNCHANGED <<userMap, kubPwd, account, outages>>

ResetPassword(c) ==
    /\ platformCall[c].pc = "reset"
    /\ LET a == platformCall[c].of
           reset == [account EXCEPT ![a] = platformCall[c].pwd]
       IN  \/ /\ account' = reset
              /\ platformCall' = [platformCall EXCEPT ![c].pc = "update"]
              /\ UNCHANGED <<outages, unsettled>>
           \/ /\ account' \in {account, reset}
              /\ Fail(c)
    /\ UNCHANGED <<userMap, kubPwd, generated>>

\* A reset that nothing has disturbed settles the address again.
UpdateKubPwd(c) ==
    /\ platformCall[c].pc = "update"
    /\ LET a == platformCall[c].of
       IN  \/ /\ kubPwd' = [kubPwd EXCEPT ![a] = platformCall[c].pwd]
              /\ platformCall' = [platformCall EXCEPT ![c] = Free]
              /\ unsettled' = IF On(a) = {c} /\ account[a] = platformCall[c].pwd
                              THEN unsettled \ {a} ELSE unsettled
              /\ UNCHANGED outages
           \/ /\ Fail(c)
              /\ UNCHANGED kubPwd
    /\ UNCHANGED <<userMap, account, generated>>

Next ==
    \E c \in PlatformCalls :
        \/ \E u \in StorageUsers : \/ \E a \in Addresses : AddPlatformUserInfo(c, u, a)
                                   \/ ResetKubPwd(c, u)
        \/ CreateUserAccount(c) \/ CreateUserMap(c) \/ ResetPassword(c) \/ UpdateKubPwd(c)

Spec == Init /\ [][Next]_platformVars
-----------------------------------------------------------------------------
(* Properties.                                                             *)

\* The password the user is shown is the one KubeSphere asks for, unless a call
\* for the address failed or overlapped another and no reset has followed. A
\* second user that binds the address changes neither.
PasswordsAgree ==
    \A a \in Addresses :
        kubPwd[a] # 0 /\ a \notin unsettled /\ On(a) = {} => kubPwd[a] = account[a]

=============================================================================
