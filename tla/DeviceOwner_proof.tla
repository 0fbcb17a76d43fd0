-------------------------- MODULE DeviceOwner_proof --------------------------
(***************************************************************************)
(* Proofs about DeviceOwner, for any users, devices, requests and rounds.  *)
(***************************************************************************)
EXTENDS DeviceOwner, SequenceTheorems, WellFoundedInduction, TLAPS

Signature == [user : Owners, hash : Nat, node : Nodes \cup {NoNode}]

\* Rows with one hash are rows of one user, and one that names a device is of a
\* user who has bound it.
SignatureInv ==
    /\ signature \in Seq(Signature)
    /\ Len(signature) \in 0 .. MaxSignatures
    /\ \A i \in 1 .. Len(signature) :
         /\ signature[i].hash \in 1 .. Len(signature)
         /\ signature[i].node \in Nodes => signature[i].user \in bound[signature[i].node]
         /\ \A j \in 1 .. Len(signature) :
              signature[i].hash = signature[j].hash => signature[i].user = signature[j].user

\* A request that binds carries the user of a row of its hash. Once its UPDATE has run, that
\* user has bound the device.
Binding == [pc : {"own", "daily", "sign"}, node : Nodes, user : Owners, hash : Nat,
            unsigned : BOOLEAN]
Unbinding == [pc : {"unbind"}, node : Nodes]

CallInv ==
    /\ call \in [Calls -> Binding \cup Unbinding \cup {Open}]
    /\ \A c \in Calls : call[c].pc \in {"own", "daily", "sign"} =>
         /\ \E i \in 1 .. Len(signature) :
              signature[i].hash = call[c].hash /\ signature[i].user = call[c].user
         /\ call[c].pc # "own" => call[c].user \in bound[call[c].node]

\* A round carries an owner it has found: one who has bound its device, or none.
RoundInv ==
    /\ round \in [pc : {"owner", "give", "job"}, node : Nodes, user : Owners \cup {NoOwner}]
                   \cup {Open}
    /\ round.pc # "open" => round.user \in bound[round.node] \cup {NoOwner}

TablesInv ==
    /\ device \in [Nodes -> [user : Owners \cup {NoOwner}, present : BOOLEAN]]
    /\ userCache \in [Nodes -> Owners \cup {NoOwner}]
    /\ dailyUser \in [Nodes -> Owners \cup {NoOwner}]
    /\ bound \in [Nodes -> SUBSET Owners]

OwnerInv == TablesInv /\ SignatureInv /\ CallInv /\ RoundInv /\ OwnersBound

-----------------------------------------------------------------------------
LEMMA OwnerInit == MaxSignatures \in Nat /\ Init => OwnerInv
BY DEF Init, OwnerInv, TablesInv, SignatureInv, CallInv, RoundInv, OwnersBound, Open, Unknown,
       Signature

\* The rows of a table are in the order of their ids.
LEMMA FirstIndex ==
    ASSUME NEW n \in Nat, NEW I \in SUBSET (1 .. n), I # {}
    PROVE  \E i \in I : \A j \in I : i <= j
<1>1. PICK i \in I : \A j \in I : ~(<<j, i>> \in OpToRel(<, Nat))
  <2>1. I \subseteq Nat
    OBVIOUS
  <2>2. QED
    BY <2>1, NatLessThanWellFounded, WFMin
<1>2. ASSUME NEW j \in I, j < i PROVE FALSE
  <2>1. <<j, i>> \in Nat \X Nat /\ <<j, i>>[1] < <<j, i>>[2]
    BY <1>2
  <2>2. <<j, i>> \in OpToRel(<, Nat)
    BY <2>1, Zenon DEF OpToRel
  <2>3. QED
    BY <1>1, <2>2
<1>3. QED
  BY <1>2

LEMMA LastIndex ==
    ASSUME NEW n \in Nat, NEW I \in SUBSET (1 .. n), I # {}
    PROVE  \E i \in I : \A j \in I : j <= i
<1> DEFINE J == {n + 1 - i : i \in I}
<1>1. J \in SUBSET (1 .. n) /\ J # {}
  <2>1. PICK i \in I : TRUE
    OBVIOUS
  <2>2. n + 1 - i \in J
    OBVIOUS
  <2>3. \A k \in J : k \in 1 .. n
    OBVIOUS
  <2>4. QED
    BY <2>2, <2>3
<1> HIDE DEF J
<1>2. PICK k \in J : \A j \in J : k <= j
  BY <1>1, FirstIndex
<1>3. PICK i \in I : k = n + 1 - i
  BY <1>2 DEF J
<1>4. ASSUME NEW j \in I PROVE j <= i
  <2>1. n + 1 - j \in J
    BY DEF J
  <2>2. k <= n + 1 - j
    BY <2>1, <1>2
  <2>3. QED
    BY <2>2, <1>3
<1>5. QED
  BY <1>4

\* The row a hash is looked up with exists, and is a row of the hash.
LEMMA RowOfHash ==
    ASSUME SignatureInv, NEW i \in 1 .. Len(signature)
    PROVE  \E k \in 1 .. Len(signature) :
             RowOf(signature[i].hash) = signature[k] /\ signature[k].hash = signature[i].hash
<1> DEFINE I == {k \in 1 .. Len(signature) : signature[k].hash = signature[i].hash}
<1>1. Len(signature) \in Nat
  BY LenProperties DEF SignatureInv
<1>2. PICK k \in I : \A j \in I : k <= j
  BY <1>1, FirstIndex
<1>3. k \in 1 .. Len(signature) /\ signature[k].hash = signature[i].hash
      /\ \A j \in 1 .. k - 1 : signature[j].hash # signature[i].hash
  BY <1>1, <1>2
<1>4. QED
  BY <1>3 DEF RowOf

LEMMA LastSignerBound ==
    ASSUME OwnerInv, NEW n \in Nodes
    PROVE  LastSigner(n) \in bound[n] \cup {NoOwner} /\ LastSigner(n) \in Owners \cup {NoOwner}
<1> DEFINE rows == {i \in 1 .. Len(signature) : signature[i].node = n}
<1>1. CASE rows = {}
  BY <1>1 DEF LastSigner
<1>2. CASE rows # {}
  <2>1. Len(signature) \in Nat
    BY LenProperties DEF OwnerInv, SignatureInv
  <2>2. \E i \in rows : \A j \in rows : j <= i
    BY <1>2, <2>1, LastIndex
  <2>3. PICK i \in rows : LastSigner(n) = signature[i].user
    BY <1>2, <2>2 DEF LastSigner
  <2>4. signature[i] \in Signature
    BY ElementOfSeq DEF OwnerInv, SignatureInv
  <2>5. QED
    BY <2>3, <2>4 DEF OwnerInv, SignatureInv, Signature
<1>3. QED
  BY <1>1, <1>2

-----------------------------------------------------------------------------
\* What a step may do to the other tables without harm: owners come from those who
\* have bound, and those who have bound stay so.
LEMMA BoundGrows ==
    ASSUME OwnerInv, bound' \in [Nodes -> SUBSET Owners],
           \A n \in Nodes : bound[n] \subseteq bound'[n]
    PROVE  /\ UNCHANGED signature => SignatureInv'
           /\ UNCHANGED <<call, signature>> => CallInv'
           /\ UNCHANGED round => RoundInv'
<1>1. UNCHANGED signature => SignatureInv'
  BY DEF OwnerInv, SignatureInv, Signature
<1>2. UNCHANGED <<call, signature>> => CallInv'
  <2> SUFFICES ASSUME UNCHANGED <<call, signature>> PROVE CallInv'
    OBVIOUS
  <2>1. \A c \in Calls : call[c].pc \in {"daily", "sign"} => call[c].node \in Nodes
    BY DEF OwnerInv, CallInv, Binding, Unbinding, Open
  <2>2. QED
    BY <2>1 DEF OwnerInv, CallInv
<1>3. UNCHANGED round => RoundInv'
  BY DEF OwnerInv, RoundInv, Open
<1>4. QED
  BY <1>1, <1>2, <1>3

\* A request that unbinds or ends carries no owner.
LEMMA CallContinues ==
    ASSUME OwnerInv, UNCHANGED <<bound, signature>>, NEW c \in Calls, NEW local,
           Continue(c, local),
           local \in Unbinding \cup {Open}
    PROVE  CallInv'
<1>1. \A d \in Calls : call'[d] = IF d = c THEN local ELSE call[d]
  BY DEF Continue, OwnerInv, CallInv
<1>2. call' \in [Calls -> Binding \cup Unbinding \cup {Open}]
  BY <1>1 DEF Continue, OwnerInv, CallInv
<1>3. local.pc \notin {"own", "daily", "sign"}
  BY DEF Unbinding, Open
<1>4. QED
  BY <1>1, <1>2, <1>3 DEF OwnerInv, CallInv

LEMMA CallTypes ==
    ASSUME OwnerInv, NEW c \in Calls
    PROVE  /\ call[c].pc \in {"own", "daily", "sign"} => call[c] \in Binding
           /\ call[c].pc = "unbind" => call[c] \in Unbinding
BY DEF OwnerInv, CallInv, Binding, Unbinding, Open

LEMMA RoundTypes ==
    ASSUME OwnerInv, round.pc \in {"owner", "give", "job"}
    PROVE  /\ round \in [pc : {"owner", "give", "job"}, node : Nodes, user : Owners \cup {NoOwner}]
           /\ round.user \in bound[round.node] \cup {NoOwner}
BY DEF OwnerInv, RoundInv, Open

-----------------------------------------------------------------------------
LEMMA BindingSteps ==
    ASSUME OwnerInv, NEW c \in Calls,
           \/ \E n \in Nodes, i \in 1 .. MaxSignatures : DeviceBinding(c, n, i)
           \/ UpdateUserDeviceInfo(c)
           \/ UpdateDeviceInfoDailyUser(c)
    PROVE  OwnerInv'
<1> DEFINE CallGoes(local) ==
             /\ local \in Binding
             /\ \E i \in 1 .. Len(signature) :
                  signature[i].hash = local.hash /\ signature[i].user = local.user
<1>1. ASSUME NEW local, Continue(c, local), CallGoes(local), UNCHANGED signature,
             bound' \in [Nodes -> SUBSET Owners],
             \A n \in Nodes : bound[n] \subseteq bound'[n],
             local.pc # "own" => local.user \in bound'[local.node]
      PROVE  CallInv'
  <2>1. \A d \in Calls : call'[d] = IF d = c THEN local ELSE call[d]
    BY <1>1 DEF Continue, OwnerInv, CallInv
  <2>2. call' \in [Calls -> Binding \cup Unbinding \cup {Open}]
    BY <1>1, <2>1 DEF Continue, OwnerInv, CallInv
  <2>3. \A d \in Calls : call[d].pc \in {"daily", "sign"} => call[d].node \in Nodes
    BY DEF OwnerInv, CallInv, Binding, Unbinding, Open
  <2>4. QED
    BY <1>1, <2>1, <2>2, <2>3 DEF OwnerInv, CallInv
<1>2. ASSUME NEW n \in Nodes, NEW i \in 1 .. MaxSignatures, DeviceBinding(c, n, i)
      PROVE  OwnerInv'
  <2>1. i \in 1 .. Len(signature)
    BY <1>2 DEF DeviceBinding
  <2>2. PICK k \in 1 .. Len(signature) :
          RowOf(signature[i].hash) = signature[k] /\ signature[k].hash = signature[i].hash
    BY <2>1, RowOfHash DEF OwnerInv
  <2>3. signature[k] \in Signature
    BY ElementOfSeq DEF OwnerInv, SignatureInv
  <2> DEFINE local == [pc |-> "own", node |-> n, user |-> signature[k].user,
                       hash |-> signature[k].hash, unsigned |-> signature[k].node = NoNode]
  <2>4. Continue(c, local)
    BY <1>2, <2>2 DEF DeviceBinding
  <2>5. local \in Binding
    BY <2>3 DEF Signature, Binding
  <2>6. CallGoes(local)
    BY <2>5 DEF OwnerInv, SignatureInv
  <2> HIDE DEF local
  <2>7. local.pc = "own"
    BY DEF local
  <2>8. UNCHANGED <<signature, userCache, dailyUser, round, bound>>
        /\ device' = [device EXCEPT ![n].present = TRUE]
    BY <1>2 DEF DeviceBinding
  <2>9. CallInv'
    BY <1>1, <2>4, <2>6, <2>7, <2>8 DEF OwnerInv, TablesInv
  <2>10. SignatureInv' /\ RoundInv'
    BY <2>8, BoundGrows DEF OwnerInv, TablesInv
  <2>11. TablesInv' /\ OwnersBound'
    <3>1. /\ device \in [Nodes -> [user : Owners \cup {NoOwner}, present : BOOLEAN]]
          /\ device[n] \in [user : Owners \cup {NoOwner}, present : BOOLEAN]
      BY DEF OwnerInv, TablesInv
    <3>2. device' \in [Nodes -> [user : Owners \cup {NoOwner}, present : BOOLEAN]]
      BY <2>8, <3>1
    <3>3. \A m \in Nodes : device'[m].user = device[m].user
      BY <2>8, <3>1
    <3>4. TablesInv'
      BY <2>8, <3>2 DEF OwnerInv, TablesInv
    <3>5. OwnersBound'
      BY <2>8, <3>3 DEF OwnerInv, OwnersBound
    <3>6. QED
      BY <3>4, <3>5
  <2>12. QED
    BY <2>9, <2>10, <2>11 DEF OwnerInv
<1>3. CASE UpdateUserDeviceInfo(c)
  <2> DEFINE q == call[c]
             local == [q EXCEPT !.pc = "daily"]
  <2>1. /\ Continue(c, local)
        /\ device' = [device EXCEPT ![q.node].user = q.user]
        /\ bound' = [bound EXCEPT ![q.node] = @ \cup {q.user}]
        /\ UNCHANGED <<signature, userCache, dailyUser, round>>
        /\ q.pc = "own"
    BY <1>3 DEF UpdateUserDeviceInfo
  <2>2. q \in Binding
    BY <2>1, CallTypes
  <2>3. /\ local \in Binding /\ local.pc = "daily" /\ local.node = q.node /\ local.user = q.user
        /\ local.hash = q.hash
    BY <2>2 DEF Binding
  <2>4. CallGoes(local)
    BY <2>1, <2>3 DEF OwnerInv, CallInv
  <2>5. q.node \in Nodes /\ q.user \in Owners
    BY <2>2 DEF Binding
  <2>6. /\ bound' \in [Nodes -> SUBSET Owners] /\ \A n \in Nodes : bound[n] \subseteq bound'[n]
        /\ q.user \in bound'[q.node]
    BY <2>1, <2>5 DEF OwnerInv, TablesInv
  <2>7. TablesInv' /\ OwnersBound'
    <3>1. /\ device \in [Nodes -> [user : Owners \cup {NoOwner}, present : BOOLEAN]]
          /\ device[q.node] \in [user : Owners \cup {NoOwner}, present : BOOLEAN]
      BY <2>5 DEF OwnerInv, TablesInv
    <3>2. device' \in [Nodes -> [user : Owners \cup {NoOwner}, present : BOOLEAN]]
      BY <2>1, <2>5, <3>1
    <3>3. /\ device'[q.node].user = q.user
          /\ \A m \in Nodes \ {q.node} : device'[m].user = device[m].user
      BY <2>1, <2>5, <3>1
    <3>4. TablesInv'
      BY <2>1, <2>6, <3>2 DEF OwnerInv, TablesInv
    <3>5. OwnersBound'
      BY <2>1, <2>5, <2>6, <3>3 DEF OwnerInv, OwnersBound
    <3>6. QED
      BY <3>4, <3>5
  <2> HIDE DEF local
  <2>8. CallInv'
    BY <1>1, <2>1, <2>3, <2>4, <2>6
  <2>9. SignatureInv' /\ RoundInv'
    BY <2>1, <2>6, BoundGrows
  <2>10. QED
    BY <2>7, <2>8, <2>9 DEF OwnerInv
<1>4. CASE UpdateDeviceInfoDailyUser(c)
  <2> DEFINE q == call[c]
             local == [q EXCEPT !.pc = "sign"]
  <2>1. /\ Continue(c, local)
        /\ \/ dailyUser' = [dailyUser EXCEPT ![q.node] = IF @ = NoOwner THEN q.user ELSE @]
           \/ UNCHANGED dailyUser
        /\ UNCHANGED <<device, signature, userCache, round, bound>>
        /\ q.pc = "daily"
    BY <1>4 DEF UpdateDeviceInfoDailyUser
  <2>2. q \in Binding
    BY <2>1, CallTypes
  <2>3. /\ local \in Binding /\ local.node = q.node /\ local.user = q.user /\ local.hash = q.hash
    BY <2>2 DEF Binding
  <2>4. CallGoes(local) /\ q.user \in bound[q.node]
    BY <2>1, <2>3 DEF OwnerInv, CallInv
  <2>5. q.node \in Nodes /\ q.user \in Owners
    BY <2>2 DEF Binding
  <2>6. TablesInv' /\ OwnersBound'
    BY <2>1, <2>4, <2>5 DEF OwnerInv, TablesInv, OwnersBound
  <2> HIDE DEF local
  <2>7. CallInv'
    BY <1>1, <2>1, <2>3, <2>4 DEF OwnerInv, TablesInv
  <2>8. SignatureInv' /\ RoundInv'
    BY <2>1, BoundGrows DEF OwnerInv, TablesInv
  <2>9. QED
    BY <2>6, <2>7, <2>8 DEF OwnerInv
<1>5. QED
  BY <1>2, <1>3, <1>4

-----------------------------------------------------------------------------
LEMMA GenerateCodeStep ==
    ASSUME OwnerInv, MaxSignatures \in Nat, NoNode \notin Nodes, NEW u \in Owners,
           GenerateCode(u)
    PROVE  OwnerInv'
<1> DEFINE row == [user |-> u, hash |-> Len(signature) + 1, node |-> NoNode]
<1>1. /\ signature' = Append(signature, row) /\ Len(signature) < MaxSignatures
      /\ UNCHANGED <<device, userCache, dailyUser, call, round, bound>>
  BY DEF GenerateCode
<1>2. Len(signature) \in Nat /\ signature \in Seq(Signature) /\ row \in Signature
  BY LenProperties DEF OwnerInv, SignatureInv, Signature
<1>3. /\ signature' \in Seq(Signature) /\ Len(signature') = Len(signature) + 1
      /\ \A i \in 1 .. Len(signature) : signature'[i] = signature[i]
      /\ signature'[Len(signature) + 1] = row
  BY <1>1, <1>2, AppendProperties
<1>4. \A i \in 1 .. Len(signature') :
        IF i \in 1 .. Len(signature) THEN signature'[i] = signature[i] ELSE signature'[i] = row
  BY <1>2, <1>3
<1>5. SignatureInv'
  BY <1>1, <1>2, <1>3, <1>4 DEF OwnerInv, SignatureInv
<1>6. CallInv'
  BY <1>1, <1>2, <1>3, <1>4 DEF OwnerInv, CallInv
<1>7. TablesInv' /\ RoundInv' /\ OwnersBound'
  BY <1>1 DEF OwnerInv, TablesInv, RoundInv, OwnersBound
<1>8. QED
  BY <1>5, <1>6, <1>7 DEF OwnerInv

LEMMA UpdateSignatureStep ==
    ASSUME OwnerInv, NEW c \in Calls, UpdateSignature(c)
    PROVE  OwnerInv'
<1> DEFINE q == call[c]
           Signs(i) == IF signature[i].hash = q.hash
                       THEN [signature[i] EXCEPT !.node = q.node] ELSE signature[i]
<1>1. /\ q.pc = "sign" /\ Continue(c, Open)
      /\ signature' = [i \in 1 .. Len(signature) |-> Signs(i)]
      /\ UNCHANGED <<device, userCache, dailyUser, round, bound>>
  BY DEF UpdateSignature, Answer
<1>2. /\ Len(signature) \in Nat
      /\ \A i \in 1 .. Len(signature) : signature[i] \in Signature
  BY LenProperties, ElementOfSeq DEF OwnerInv, SignatureInv
<1>3. q \in Binding /\ q.user \in bound[q.node]
  BY <1>1, CallTypes DEF OwnerInv, CallInv
<1>4. \A i \in 1 .. Len(signature) :
        /\ Signs(i) \in Signature
        /\ Signs(i).user = signature[i].user /\ Signs(i).hash = signature[i].hash
        /\ Signs(i).node = IF signature[i].hash = q.hash THEN q.node ELSE signature[i].node
  BY <1>2, <1>3 DEF Signature, Binding
<1> HIDE DEF Signs
<1>5. signature' \in Seq(Signature) /\ Len(signature') = Len(signature)
  BY <1>1, <1>2, <1>4, IsASeq
<1>6. \A i \in 1 .. Len(signature) :
        /\ signature'[i].user = signature[i].user /\ signature'[i].hash = signature[i].hash
        /\ signature'[i].node = IF signature[i].hash = q.hash THEN q.node ELSE signature[i].node
  BY <1>1, <1>4
<1>7. \A i \in 1 .. Len(signature) : signature[i].hash = q.hash => signature[i].user = q.user
  BY <1>1 DEF OwnerInv, CallInv, SignatureInv
<1>8. SignatureInv'
  BY <1>1, <1>3, <1>5, <1>6, <1>7 DEF OwnerInv, SignatureInv
<1>9. CallInv'
  <2>1. \A d \in Calls : call'[d] = IF d = c THEN Open ELSE call[d]
    BY <1>1 DEF Continue, OwnerInv, CallInv
  <2>2. call' \in [Calls -> Binding \cup Unbinding \cup {Open}]
    BY <1>1 DEF Continue, OwnerInv, CallInv
  <2>3. Open.pc \notin {"own", "daily", "sign"}
    BY DEF Open
  <2>4. QED
    <3> SUFFICES ASSUME NEW d \in Calls, call'[d].pc \in {"own", "daily", "sign"}
                 PROVE  /\ \E i \in 1 .. Len(signature) : /\ signature'[i].hash = call'[d].hash
                                                         /\ signature'[i].user = call'[d].user
                        /\ call'[d].pc # "own" => call'[d].user \in bound[call'[d].node]
      BY <1>1, <1>5, <2>2 DEF CallInv
    <3>1. call'[d] = call[d]
      BY <2>1, <2>3
    <3>2. PICK i \in 1 .. Len(signature) :
            signature[i].hash = call[d].hash /\ signature[i].user = call[d].user
      BY <3>1 DEF OwnerInv, CallInv
    <3>3. signature'[i].hash = call'[d].hash /\ signature'[i].user = call'[d].user
      BY <1>6, <3>1, <3>2
    <3>4. QED
      BY <3>1, <3>3 DEF OwnerInv, CallInv
<1>10. TablesInv' /\ RoundInv' /\ OwnersBound'
  BY <1>1 DEF OwnerInv, TablesInv, RoundInv, OwnersBound
<1>11. QED
  BY <1>8, <1>9, <1>10 DEF OwnerInv

LEMMA AddSignatureStep ==
    ASSUME OwnerInv, MaxSignatures \in Nat, NEW c \in Calls, AddSignature(c)
    PROVE  OwnerInv'
<1> DEFINE q == call[c]
           row == [user |-> q.user, hash |-> q.hash, node |-> q.node]
<1>1. /\ q.pc = "sign" /\ Continue(c, Open) /\ Len(signature) < MaxSignatures
      /\ signature' = Append(signature, row)
      /\ UNCHANGED <<device, userCache, dailyUser, round, bound>>
  BY DEF AddSignature, Answer
<1>2. /\ q \in Binding /\ q.user \in bound[q.node] /\ q.hash \in 1 .. Len(signature)
      /\ \A i \in 1 .. Len(signature) : signature[i].hash = q.hash => signature[i].user = q.user
  BY <1>1, CallTypes DEF OwnerInv, CallInv, SignatureInv
<1>3. Len(signature) \in Nat /\ signature \in Seq(Signature) /\ row \in Signature
  BY <1>2, LenProperties DEF OwnerInv, SignatureInv, Signature, Binding
<1>4. /\ signature' \in Seq(Signature) /\ Len(signature') = Len(signature) + 1
      /\ \A i \in 1 .. Len(signature) : signature'[i] = signature[i]
      /\ signature'[Len(signature) + 1] = row
  BY <1>1, <1>3, AppendProperties
<1>5. \A i \in 1 .. Len(signature') :
        IF i \in 1 .. Len(signature) THEN signature'[i] = signature[i] ELSE signature'[i] = row
  BY <1>3, <1>4
<1>6. SignatureInv'
  BY <1>1, <1>2, <1>3, <1>4, <1>5 DEF OwnerInv, SignatureInv
<1>7. CallInv'
  <2>1. \A d \in Calls : call'[d] = IF d = c THEN Open ELSE call[d]
    BY <1>1 DEF Continue, OwnerInv, CallInv
  <2>2. call' \in [Calls -> Binding \cup Unbinding \cup {Open}]
    BY <1>1 DEF Continue, OwnerInv, CallInv
  <2>3. Open.pc \notin {"own", "daily", "sign"}
    BY DEF Open
  <2>4. \A i \in 1 .. Len(signature) : i \in 1 .. Len(signature')
    BY <1>3, <1>4
  <2>5. QED
    <3> SUFFICES ASSUME NEW d \in Calls, call'[d].pc \in {"own", "daily", "sign"}
                 PROVE  /\ \E i \in 1 .. Len(signature') : /\ signature'[i].hash = call'[d].hash
                                                          /\ signature'[i].user = call'[d].user
                        /\ call'[d].pc # "own" => call'[d].user \in bound[call'[d].node]
      BY <1>1, <2>2 DEF CallInv
    <3>1. call'[d] = call[d]
      BY <2>1, <2>3
    <3>2. PICK i \in 1 .. Len(signature) :
            signature[i].hash = call[d].hash /\ signature[i].user = call[d].user
      BY <3>1 DEF OwnerInv, CallInv
    <3>3. /\ i \in 1 .. Len(signature')
          /\ signature'[i].hash = call'[d].hash /\ signature'[i].user = call'[d].user
      BY <1>4, <2>4, <3>1, <3>2
    <3>4. call[d].pc # "own" => call[d].user \in bound[call[d].node]
      BY <3>1 DEF OwnerInv, CallInv
    <3>5. QED
      BY <3>1, <3>3, <3>4
<1>8. TablesInv' /\ RoundInv' /\ OwnersBound'
  BY <1>1 DEF OwnerInv, TablesInv, RoundInv, OwnersBound
<1>9. QED
  BY <1>6, <1>7, <1>8 DEF OwnerInv

LEMMA UnbindingSteps ==
    ASSUME OwnerInv, NEW c \in Calls,
           \/ CallFails(c) \/ ClearOwner(c)
           \/ \E u \in Owners, n \in Nodes : DeviceUnBinding(c, u, n)
    PROVE  OwnerInv'
<1>1. \A n \in Nodes : [pc |-> "unbind", node |-> n] \in Unbinding
  BY DEF Unbinding
<1>2. \E local \in Unbinding \cup {Open} : Continue(c, local)
  BY <1>1 DEF CallFails, ClearOwner, DeviceUnBinding, Answer
<1>3. UNCHANGED <<signature, userCache, dailyUser, round, bound>>
  BY DEF CallFails, ClearOwner, DeviceUnBinding
<1>4. CallInv'
  BY <1>2, <1>3, CallContinues
<1>5. \/ UNCHANGED device
      \/ call[c].pc = "unbind" /\ device' = [device EXCEPT ![call[c].node].user = NoOwner]
  BY DEF CallFails, ClearOwner, DeviceUnBinding
<1>6. call[c].pc = "unbind" => call[c].node \in Nodes
  BY CallTypes DEF Unbinding
<1>7. TablesInv' /\ OwnersBound'
  BY <1>3, <1>5, <1>6, SMTT(40) DEF OwnerInv, TablesInv, OwnersBound
<1>8. SignatureInv' /\ RoundInv'
  BY <1>3, BoundGrows DEF OwnerInv, TablesInv
<1>9. QED
  BY <1>4, <1>7, <1>8 DEF OwnerInv

-----------------------------------------------------------------------------
LEMMA FetchSteps ==
    ASSUME OwnerInv, NEW n \in Nodes, Fetch(n) \/ FetchOffline(n)
    PROVE  OwnerInv'
<1>1. UNCHANGED <<device, signature, userCache, dailyUser, call, bound>>
  BY DEF Fetch, FetchOffline
<1>2. \E u \in {userCache[n], NoOwner}, pc \in {"owner", "job"} :
        round' = [node |-> n, user |-> u, pc |-> pc]
  BY DEF Fetch, FetchOffline
<1>3. userCache[n] \in bound[n] \cup {NoOwner} /\ userCache[n] \in Owners \cup {NoOwner}
  BY DEF OwnerInv, OwnersBound, TablesInv
<1>4. RoundInv'
  BY <1>1, <1>2, <1>3 DEF RoundInv
<1>5. SignatureInv' /\ CallInv' /\ TablesInv' /\ OwnersBound'
  BY <1>1, BoundGrows DEF OwnerInv, TablesInv, OwnersBound
<1>6. QED
  BY <1>4, <1>5 DEF OwnerInv

LEMMA GetDeviceUserIdStep ==
    ASSUME OwnerInv, GetDeviceUserId
    PROVE  OwnerInv'
<1> DEFINE n == round.node
<1>1. /\ round \in [pc : {"owner", "give", "job"}, node : Nodes, user : Owners \cup {NoOwner}]
      /\ round.user \in bound[n] \cup {NoOwner}
  BY RoundTypes DEF GetDeviceUserId
<1>2. n \in Nodes
  BY <1>1
<1>3. \A u \in {round.user, LastSigner(n), device[n].user} :
        u \in bound[n] \cup {NoOwner} /\ u \in Owners \cup {NoOwner}
  BY <1>1, <1>2, LastSignerBound DEF OwnerInv, OwnersBound, TablesInv
<1>4. UNCHANGED <<device, signature, dailyUser, call, bound>>
  BY DEF GetDeviceUserId
<1>5. \/ round' = [round EXCEPT !.pc = "job"]
      \/ round' = [round EXCEPT !.pc = "give", !.user = LastSigner(n)]
      \/ round' = [round EXCEPT !.pc = "job", !.user = device[n].user]
  BY DEF GetDeviceUserId
<1>6. RoundInv'
  <2>1. CASE round' = [round EXCEPT !.pc = "job"]
    BY <1>1, <1>4, <2>1 DEF RoundInv
  <2>2. CASE round' = [round EXCEPT !.pc = "give", !.user = LastSigner(n)]
    BY <1>1, <1>3, <1>4, <2>2 DEF RoundInv
  <2>3. CASE round' = [round EXCEPT !.pc = "job", !.user = device[n].user]
    BY <1>1, <1>3, <1>4, <2>3 DEF RoundInv
  <2>4. QED
    BY <1>5, <2>1, <2>2, <2>3
<1>7. UNCHANGED userCache \/ userCache' = [userCache EXCEPT ![n] = device[n].user]
  BY DEF GetDeviceUserId
<1>8. TablesInv' /\ OwnersBound'
  BY <1>2, <1>3, <1>4, <1>7, SMTT(40) DEF OwnerInv, TablesInv, OwnersBound
<1>9. SignatureInv' /\ CallInv'
  BY <1>4, BoundGrows DEF OwnerInv, TablesInv
<1>10. QED
  BY <1>6, <1>8, <1>9 DEF OwnerInv

LEMMA RoundWrites ==
    ASSUME OwnerInv, GiveBack \/ Job
    PROVE  OwnerInv'
<1> DEFINE n == round.node
<1>1. /\ round \in [pc : {"owner", "give", "job"}, node : Nodes, user : Owners \cup {NoOwner}]
      /\ round.user \in bound[n] \cup {NoOwner}
  BY RoundTypes DEF GiveBack, Job
<1>2. n \in Nodes /\ round.user \in Owners \cup {NoOwner}
  BY <1>1
<1>3. UNCHANGED <<signature, userCache, call, bound>>
  BY DEF GiveBack, Job
<1>4. device[n] \in [user : Owners \cup {NoOwner}, present : BOOLEAN]
  BY <1>2 DEF OwnerInv, TablesInv
<1>5. \/ UNCHANGED device
      \/ device' = [device EXCEPT ![n].user = round.user]
      \/ device' = [device EXCEPT ![n] = IF @.present THEN @
                                        ELSE [@ EXCEPT !.present = TRUE, !.user = round.user]]
  BY DEF GiveBack, Job
<1>6. /\ device' \in [Nodes -> [user : Owners \cup {NoOwner}, present : BOOLEAN]]
      /\ device'[n].user \in bound[n] \cup {NoOwner}
      /\ \A m \in Nodes \ {n} : device'[m] = device[m]
  <2>1. device[n].user \in bound[n] \cup {NoOwner} /\ DOMAIN device = Nodes
    BY <1>2 DEF OwnerInv, OwnersBound, TablesInv
  <2>2. CASE UNCHANGED device
    BY <1>2, <2>1, <2>2 DEF OwnerInv, TablesInv
  <2>3. CASE device' = [device EXCEPT ![n].user = round.user]
    BY <1>1, <1>2, <1>4, <2>1, <2>3 DEF OwnerInv, TablesInv
  <2>4. CASE device' = [device EXCEPT ![n] = IF @.present THEN @
                                        ELSE [@ EXCEPT !.present = TRUE, !.user = round.user]]
    <3>1. CASE device[n].present
      BY <1>1, <1>2, <1>4, <2>1, <2>4, <3>1 DEF OwnerInv, TablesInv
    <3>2. CASE ~device[n].present
      BY <1>1, <1>2, <1>4, <2>1, <2>4, <3>2 DEF OwnerInv, TablesInv
    <3>3. QED
      BY <3>1, <3>2
  <2>5. QED
    BY <1>5, <2>2, <2>3, <2>4
<1>7. UNCHANGED dailyUser \/ dailyUser' = [dailyUser EXCEPT ![n] = round.user]
  BY DEF GiveBack, Job
<1>8. TablesInv' /\ OwnersBound'
  <2>1. TablesInv'
    BY <1>2, <1>3, <1>6, <1>7 DEF OwnerInv, TablesInv
  <2>2. \A m \in Nodes : dailyUser'[m] \in bound[m] \cup {NoOwner}
    BY <1>1, <1>2, <1>7 DEF OwnerInv, TablesInv, OwnersBound
  <2>3. \A m \in Nodes : device'[m].user \in bound[m] \cup {NoOwner}
    BY <1>2, <1>6 DEF OwnerInv, OwnersBound
  <2>4. QED
    BY <1>3, <2>1, <2>2, <2>3 DEF OwnerInv, OwnersBound
<1>9. round' = [round EXCEPT !.pc = "job"] \/ round' = Open
  BY DEF GiveBack, Job
<1>10. RoundInv'
  BY <1>1, <1>3, <1>9 DEF RoundInv, Open
<1>11. SignatureInv' /\ CallInv'
  BY <1>3, BoundGrows DEF OwnerInv, TablesInv
<1>12. QED
  BY <1>8, <1>10, <1>11 DEF OwnerInv

LEMMA OwnerNext ==
    ASSUME MaxSignatures \in Nat, NoNode \notin Nodes
    PROVE  OwnerInv /\ [Next]_ownerVars => OwnerInv'
<1> SUFFICES ASSUME OwnerInv, [Next]_ownerVars PROVE OwnerInv'
  OBVIOUS
<1>1. CASE UNCHANGED ownerVars
  BY <1>1, BoundGrows DEF ownerVars, OwnerInv, TablesInv, OwnersBound
<1>2. CASE Next
  BY <1>2, GenerateCodeStep, BindingSteps, UpdateSignatureStep, AddSignatureStep,
     UnbindingSteps, FetchSteps, GetDeviceUserIdStep, RoundWrites DEF Next
<1>3. QED
  BY <1>1, <1>2

-----------------------------------------------------------------------------
\* The inductive invariant of the binding of devices: the four places that keep an
\* owner, and the owners that requests and rounds carry from their reads.
THEOREM OwnerInvariant == MaxSignatures \in Nat /\ NoNode \notin Nodes /\ Spec => []OwnerInv
<1> SUFFICES ASSUME MaxSignatures \in Nat, NoNode \notin Nodes PROVE Spec => []OwnerInv
  OBVIOUS
<1>1. Init => OwnerInv
  BY OwnerInit
<1>2. OwnerInv /\ [Next]_ownerVars => OwnerInv'
  BY OwnerNext
<1>3. QED
  BY <1>1, <1>2, PTL DEF Spec

\* device_info, signature, the cache and the daily rows keep their types, whatever
\* requests and rounds write into them.
THEOREM OwnerTypeCorrect == MaxSignatures \in Nat /\ NoNode \notin Nodes /\ Spec => []TypeOK
<1> SUFFICES ASSUME MaxSignatures \in Nat, NoNode \notin Nodes PROVE Spec => []TypeOK
  OBVIOUS
<1>1. OwnerInv => TypeOK
  <2> SUFFICES ASSUME OwnerInv PROVE TypeOK
    OBVIOUS
  <2>1. \A i \in 1 .. Len(signature) : /\ signature[i] \in Signature
                                      /\ signature[i].hash \in 1 .. MaxSignatures
    BY ElementOfSeq DEF OwnerInv, SignatureInv
  <2>2. QED
    BY <2>1 DEF OwnerInv, TablesInv, TypeOK, Signature
<1>2. Spec => []OwnerInv
  BY OwnerInvariant
<1>3. QED
  BY <1>1, <1>2, PTL

\* DeviceBindingHandler, DeviceUnBindingHandler and the rounds of statistics give a
\* device to nobody who has not bound it with a signature of its key, although none
\* of them asks again what it has read.
THEOREM OwnersAreBound == MaxSignatures \in Nat /\ NoNode \notin Nodes /\ Spec => []OwnersBound
BY OwnerInvariant, PTL DEF OwnerInv

=============================================================================
