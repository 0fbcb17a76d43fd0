----------------------------- MODULE DeviceOwner -----------------------------
(***************************************************************************)
(* Whose a device is: binding with a code and a signature of the device's  *)
(* key, unbinding (src/api/users.go and nodes.go) and the rounds of        *)
(* statistics, which look for the owner of every device that is online and *)
(* write the rows of the day (src/core/statistics).                        *)
(*                                                                         *)
(* The owner is kept in four places that no transaction joins:             *)
(* device_info, the rows of signature, a cache in Redis that nobody clears *)
(* and the user_id of each row of device_info_daily. A round that finds a  *)
(* device without an owner gives it back to whoever signed for it last.    *)
(***************************************************************************)
EXTENDS Integers, Sequences, FiniteSets

CONSTANTS
    Owners, NoOwner,   \* users, and an empty user_id
    Nodes, NoNode,     \* the devices of the schedulers, and an empty node_id
    Calls,             \* requests that may be under way at a time
    MaxSignatures,     \* bounds on the rows of signature, on the rounds and on
    MaxFetches,        \* the calls that fail
    MaxFailures

VARIABLES
    device,            \* device_info: user_id, and whether there is a row
    signature,         \* the table: username, hash, node_id
    userCache,         \* TITAN::DEVICEUSERS: node to user
    dailyUser,         \* device_info_daily: the user_id of a node's last row
    call,              \* requests and their local variables
    round,             \* the round of a scheduler
    bound,             \* history: who ever bound a node
    fetched, failed
ownerVars == <<device, signature, userCache, dailyUser, call, round,
               bound, fetched, failed>>

Unknown == [user |-> NoOwner, present |-> FALSE]
Open == [pc |-> "open"]

TypeOK ==
    /\ device \in [Nodes -> [user : Owners \cup {NoOwner}, present : BOOLEAN]]
    /\ \A i \in 1 .. Len(signature) : /\ signature[i].user \in Owners
                                      /\ signature[i].hash \in 1 .. MaxSignatures
                                      /\ signature[i].node \in Nodes \cup {NoNode}
    /\ userCache \in [Nodes -> Owners \cup {NoOwner}]
    /\ dailyUser \in [Nodes -> Owners \cup {NoOwner}]

Init ==
    /\ device = [n \in Nodes |-> Unknown]
    /\ signature = <<>>
    /\ userCache = [n \in Nodes |-> NoOwner]
    /\ dailyUser = [n \in Nodes |-> NoOwner]
    /\ call = [c \in Calls |-> Open]
    /\ round = Open
    /\ bound = [n \in Nodes |-> {}]
    /\ fetched = 0
    /\ failed = 0

\* An error ends a request, or only part of a round.
Fails == failed < MaxFailures /\ failed' = failed + 1
Continue(c, local) == call' = [call EXCEPT ![c] = local]
Answer(c) == Continue(c, Open)
Owns(u, n) == device[n].present /\ device[n].user = u
-----------------------------------------------------------------------------
(* Binding.                                                                *)

\* GenerateCodeHandler: a row with a new hash, no node and no signature.
GenerateCode(u) ==
    /\ Len(signature) < MaxSignatures
    /\ signature' = Append(signature, [user |-> u, hash |-> Len(signature) + 1, node |-> NoNode])
    /\ UNCHANGED <<device, userCache, dailyUser, call, round, bound, fetched, failed>>

\* GetSignatureByHash: the first row with the hash.
RowOf(hash) ==
    LET i == CHOOSE i \in 1 .. Len(signature) :
               /\ signature[i].hash = hash
               /\ \A j \in 1 .. i - 1 : signature[j].hash # hash
    IN  signature[i]

\* DeviceBindingHandler up to the UPDATE: the device has no owner, and its key
\* has signed the hash. A device that device_info lacks is asked for.
DeviceBinding(c, n, i) ==
    /\ call[c] = Open
    /\ i \in 1 .. Len(signature)
    /\ device[n].user = NoOwner
    /\ LET row == RowOf(signature[i].hash)
       IN  Continue(c, [pc |-> "own", node |-> n, user |-> row.user, hash |-> row.hash,
                        unsigned |-> row.node = NoNode])
    /\ device' = [device EXCEPT ![n].present = TRUE]
    /\ UNCHANGED <<signature, userCache, dailyUser, round, bound, fetched, failed>>

\* The UPDATE does not ask again whether the device has an owner.
UpdateUserDeviceInfo(c) ==
    LET q == call[c]
    IN  /\ q.pc = "own"
        /\ device' = [device EXCEPT ![q.node].user = q.user]
        /\ bound' = [bound EXCEPT ![q.node] = @ \cup {q.user}]
        /\ Continue(c, [q EXCEPT !.pc = "daily"])
        /\ UNCHANGED <<signature, userCache, dailyUser, round, fetched, failed>>

\* Rows without a user become the new owner's; an error is only logged.
UpdateDeviceInfoDailyUser(c) ==
    LET q == call[c]
    IN  /\ q.pc = "daily"
        /\ \/ /\ dailyUser' = [dailyUser EXCEPT ![q.node] = IF @ = NoOwner THEN q.user ELSE @]
              /\ UNCHANGED failed
           \/ Fails /\ UNCHANGED dailyUser
        /\ Continue(c, [q EXCEPT !.pc = "sign"])
        /\ UNCHANGED <<device, signature, userCache, round, bound, fetched>>

\* mutant: the UPDATE takes every row that has no node yet
UpdateSignatureUnsigned(c) ==
    LET q == call[c]
    IN  /\ q.pc = "sign" /\ q.unsigned
        /\ signature' = [i \in 1 .. Len(signature) |->
                           IF signature[i].node = NoNode
                           THEN [signature[i] EXCEPT !.node = q.node] ELSE signature[i]]
        /\ Answer(c)
        /\ UNCHANGED <<device, userCache, dailyUser, round, bound, fetched, failed>>

\* Every row of the hash, or a row of its own when the code was used before.
UpdateSignature(c) ==
    LET q == call[c]
    IN  /\ q.pc = "sign" /\ q.unsigned
        /\ signature' = [i \in 1 .. Len(signature) |->
                           IF signature[i].hash = q.hash
                           THEN [signature[i] EXCEPT !.node = q.node] ELSE signature[i]]
        /\ Answer(c)
        /\ UNCHANGED <<device, userCache, dailyUser, round, bound, fetched, failed>>

AddSignature(c) ==
    LET q == call[c]
    IN  /\ q.pc = "sign" /\ ~q.unsigned
        /\ Len(signature) < MaxSignatures
        /\ signature' = Append(signature, [user |-> q.user, hash |-> q.hash, node |-> q.node])
        /\ Answer(c)
        /\ UNCHANGED <<device, userCache, dailyUser, round, bound, fetched, failed>>

\* A database error ends the request where it stands.
CallFails(c) ==
    /\ call[c].pc \in {"own", "sign", "unbind"}
    /\ Fails
    /\ Answer(c)
    /\ UNCHANGED <<device, signature, userCache, dailyUser, round, bound, fetched>>
-----------------------------------------------------------------------------
(* Unbinding.                                                              *)

DeviceUnBinding(c, u, n) ==
    /\ call[c] = Open
    /\ Owns(u, n)
    /\ Continue(c, [pc |-> "unbind", node |-> n])
    /\ UNCHANGED <<device, signature, userCache, dailyUser, round, bound, fetched,
                   failed>>

\* The owner is cleared, whoever the owner is by now.
ClearOwner(c) ==
    /\ call[c].pc = "unbind"
    /\ device' = [device EXCEPT ![call[c].node].user = NoOwner]
    /\ Answer(c)
    /\ UNCHANGED <<signature, userCache, dailyUser, round, bound, fetched, failed>>

-----------------------------------------------------------------------------
(* A round of statistics for one node.                                     *)

\* The scheduler reports the node online: the cache is read first.
Fetch(n) ==
    /\ round = Open
    /\ fetched < MaxFetches
    /\ fetched' = fetched + 1
    /\ round' = [node |-> n, user |-> userCache[n],
                 pc |-> IF userCache[n] = NoOwner THEN "owner" ELSE "job"]
    /\ UNCHANGED <<device, signature, userCache, dailyUser, call, bound, failed>>

\* The scheduler reports it offline: no owner is looked for.
FetchOffline(n) ==
    /\ round = Open
    /\ fetched < MaxFetches
    /\ fetched' = fetched + 1
    /\ round' = [node |-> n, user |-> NoOwner, pc |-> "job"]
    /\ UNCHANGED <<device, signature, userCache, dailyUser, call, bound, failed>>

\* GetDeviceUserId: the owner, who is cached, or the one who signed last.
LastSigner(n) ==
    LET rows == {i \in 1 .. Len(signature) : signature[i].node = n}
    IN  IF rows = {} THEN NoOwner
        ELSE signature[CHOOSE i \in rows : \A j \in rows : j <= i].user

GetDeviceUserId ==
    /\ round.pc = "owner"
    /\ LET n == round.node
       IN  /\ round' = CASE ~device[n].present -> [round EXCEPT !.pc = "job"]
                         [] Owns(NoOwner, n) /\ LastSigner(n) # NoOwner ->
                              [round EXCEPT !.pc = "give", !.user = LastSigner(n)]
                         [] OTHER -> [round EXCEPT !.pc = "job", !.user = device[n].user]
           /\ userCache' = IF device[n].user # NoOwner
                           THEN [userCache EXCEPT ![n] = device[n].user] ELSE userCache
    /\ UNCHANGED <<device, signature, dailyUser, call, bound, fetched, failed>>

\* The device is given back, whoever may have bound it meanwhile.
GiveBack ==
    /\ round.pc = "give"
    /\ \/ /\ device' = [device EXCEPT ![round.node].user = round.user]
          /\ UNCHANGED failed
       \/ Fails /\ UNCHANGED device
    /\ round' = [round EXCEPT !.pc = "job"]
    /\ UNCHANGED <<signature, userCache, dailyUser, call, bound, fetched>>

\* The job: a row of device_info unless there is one, and the row of today.
Job ==
    /\ round.pc = "job"
    /\ device' = [device EXCEPT ![round.node] =
                    IF @.present THEN @ ELSE [@ EXCEPT !.present = TRUE, !.user = round.user]]
    /\ dailyUser' = [dailyUser EXCEPT ![round.node] = round.user]
    /\ round' = Open
    /\ UNCHANGED <<signature, userCache, call, bound, fetched, failed>>

Next ==
    \/ \E u \in Owners : GenerateCode(u)
    \/ \E c \in Calls :
         \/ \E n \in Nodes, i \in 1 .. MaxSignatures : DeviceBinding(c, n, i)
         \/ UpdateUserDeviceInfo(c) \/ UpdateDeviceInfoDailyUser(c)
         \/ UpdateSignature(c) \/ AddSignature(c) \/ CallFails(c) \/ ClearOwner(c)
         \/ \E u \in Owners, n \in Nodes : DeviceUnBinding(c, u, n)
    \/ \E n \in Nodes : Fetch(n) \/ FetchOffline(n)
    \/ GetDeviceUserId \/ GiveBack \/ Job

Spec == Init /\ [][Next]_ownerVars
-----------------------------------------------------------------------------
(* Properties.                                                             *)

\* Whoever a device, its cache entry or one of its daily rows belongs to has
\* bound it with a signature of its key, whatever was unbound, bound again,
\* given back by a round or failed meanwhile.
OwnersBound ==
    \A n \in Nodes :
        {device[n].user, userCache[n], dailyUser[n]} \subseteq bound[n] \cup {NoOwner}

=============================================================================
