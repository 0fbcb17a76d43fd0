----------------------------- MODULE MinerSign ------------------------------
(***************************************************************************)
(* Registration of Filecoin miners: src/api/sign.go, table sign_info. A    *)
(* miner asks for a command that signs a dated message (getCommand), runs  *)
(* it, and posts the signature (setSignInfo). Both handlers read the row   *)
(* of the miner, call the Filecoin node and then REPLACE the whole row.    *)
(***************************************************************************)
EXTENDS Integers

CONSTANTS
    Miners,
    Addresses,          \* wallet addresses
    SignerOf,           \* [Miners -> SUBSET Addresses]: owner, worker and control
    SignRequests,       \* requests under way
    LastDate            \* the clock runs from 1 to LastDate

VARIABLES
    signInfo,           \* the row of each miner
    signRequest,
    now,                \* Unix seconds
    signatures          \* signatures that have been made
signVars == <<signInfo, signRequest, now, signatures>>

Still == [pc |-> "still"]
NoRow == [address |-> {}, date |-> 0, signed |-> {}]
Message(m, date) == [miner |-> m, date |-> date]
Signatures == [by : Addresses, message : [miner : Miners, date : 1 .. LastDate]]
\* A row; address and signature are sets of at most one element.
SignRows == [address : {{a} : a \in Addresses}, date : 1 .. LastDate,
             signed : {{}} \cup {{s} : s \in Signatures}]

TypeOK ==
    /\ signInfo \in [Miners -> SignRows \cup {NoRow}]
    /\ now \in 1 .. LastDate
    /\ signatures \subseteq Signatures

Init ==
    /\ signInfo = [m \in Miners |-> NoRow]
    /\ signRequest = [r \in SignRequests |-> Still]
    /\ now = 1
    /\ signatures = {}

-----------------------------------------------------------------------------
\* StateLookupID and StateMinerInfo: owner, worker or control address.
CheckAddress(m, a) == a \in SignerOf[m]

\* getCommand, for a miner that is not registered, until the node has answered
\* with its power and balance.
GetCommand(r, m, a) ==
    /\ signRequest[r] = Still
    /\ signInfo[m].signed = {}
    /\ CheckAddress(m, a)
    /\ signRequest' = [signRequest EXCEPT ![r] =
         [pc |-> "command", miner |-> m, row |-> [NoRow EXCEPT !.address = {a}]]]
    /\ UNCHANGED <<signInfo, now, signatures>>

\* The power is not zero: the row is replaced and the command answered. Its
\* owner signs the message at some time, or never.
PutCommand(r) ==
    /\ signRequest[r].pc = "command"
    /\ LET m == signRequest[r].miner
           row == [signRequest[r].row EXCEPT !.date = now]
       IN  /\ signInfo' = [signInfo EXCEPT ![m] = row]
           /\ signatures' \in {signatures, signatures \cup
                {[by |-> a, message |-> Message(m, now)] : a \in row.address}}
    /\ signRequest' = [signRequest EXCEPT ![r] = Still]
    /\ UNCHANGED now

\* WalletVerify.
Verifies(s, addresses, message) == addresses = {s.by} /\ s.message = message

\* setSignInfo: any signature is checked against the address and the date of
\* the row that was read.
SetSignInfo(r, m, s) ==
    /\ signRequest[r] = Still
    /\ signInfo[m] # NoRow
    /\ Verifies(s, signInfo[m].address, Message(m, signInfo[m].date))
    /\ signRequest' = [signRequest EXCEPT ![r] =
         [pc |-> "sign", miner |-> m, row |-> [signInfo[m] EXCEPT !.signed = {s}]]]
    /\ UNCHANGED <<signInfo, now, signatures>>

\* ReplaceSignInfo: the row that was read, with the signature.
ReplaceSignInfo(r) ==
    signInfo' = [signInfo EXCEPT ![signRequest[r].miner] = signRequest[r].row]

PutSignInfo(r) ==
    /\ signRequest[r].pc = "sign"
    /\ ReplaceSignInfo(r)
    /\ signRequest' = [signRequest EXCEPT ![r] = Still]
    /\ UNCHANGED <<now, signatures>>

\* The node or the database fails, or the power is zero.
SignFails(r) ==
    /\ signRequest[r] # Still
    /\ signRequest' = [signRequest EXCEPT ![r] = Still]
    /\ UNCHANGED <<signInfo, now, signatures>>
-----------------------------------------------------------------------------
Pass ==
    /\ now < LastDate
    /\ now' = now + 1
    /\ UNCHANGED <<signInfo, signRequest, signatures>>

Next ==
    \/ \E r \in SignRequests :
         \/ \E m \in Miners : \/ \E a \in Addresses : GetCommand(r, m, a)
                              \/ \E s \in signatures : SetSignInfo(r, m, s)
         \/ PutCommand(r) \/ PutSignInfo(r) \/ SignFails(r)
    \/ Pass

Spec == Init /\ [][Next]_signVars
-----------------------------------------------------------------------------
(* Properties.                                                             *)

\* The signature in a row is one that the address of the row has made of the
\* message with the date of the row, whatever commands and signatures overlap:
\* a row is only ever written whole. (A late command can still take the
\* signature out, and a late signature bring an older row back.)
SignaturesVerify ==
    \A m \in Miners : \A s \in signInfo[m].signed :
        Verifies(s, signInfo[m].address, Message(m, signInfo[m].date))

=============================================================================
