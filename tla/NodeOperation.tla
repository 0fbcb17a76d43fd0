---------------------------- MODULE NodeOperation ----------------------------
(***************************************************************************)
(* What the owner of a node may do with it besides binding: deactivate it  *)
(* and take that back, delete it while it is offline and bring it back,    *)
(* and rename it (src/api/nodes.go, users.go, test1_node.go and            *)
(* src/core/dao/test1_node.go).                                            *)
(*                                                                         *)
(* A deactivation is told to the scheduler first and then written to the   *)
(* row, by an UPDATE that finds the row only while it is the user's; the   *)
(* status that allowed it was read before both.                            *)
(***************************************************************************)
EXTENDS Integers, FiniteSets

CONSTANTS
    NodeUsers,      \* users that may own the node
    Operations,     \* requests that may be under way at a time
    MaxBreaks       \* bound on calls that fail

VARIABLES
    nodeRow,        \* device_info: user_id, device_status_code, deleted_at, operation, a name
    underway,       \* the scheduler is deactivating the node
    operation,      \* requests and their local variables
    disturbed,      \* history: a request failed, met another or a change of owner
    breaks
nodeVars == <<nodeRow, underway, operation, disturbed, breaks>>

Off == [pc |-> "off"]
Busy == {o \in Operations : operation[o] # Off}

TypeOK ==
    /\ nodeRow \in [user : NodeUsers, online : BOOLEAN, deleted : BOOLEAN,
                    operation : {0, 1}, named : BOOLEAN]
    /\ underway \in BOOLEAN
    /\ disturbed \in BOOLEAN

Init ==
    /\ nodeRow = [user |-> CHOOSE u \in NodeUsers : TRUE, online |-> TRUE, deleted |-> FALSE,
                  operation |-> 0, named |-> FALSE]
    /\ underway = FALSE
    /\ operation = [o \in Operations |-> Off]
    /\ disturbed = FALSE
    /\ breaks = 0

\* CheckIsNodeOwner: the status of a node of the user; one that is being
\* deactivated has 11, whatever it was before.
Status(u) == IF nodeRow.user # u THEN 0
             ELSE IF nodeRow.operation > 0 THEN 11
             ELSE IF nodeRow.online THEN 1 ELSE 3
-----------------------------------------------------------------------------
Begin(o, u, value) ==
    /\ operation[o] = Off
    /\ operation' = [operation EXCEPT ![o] = [pc |-> "scheduler", user |-> u, value |-> value]]
    /\ disturbed' = (disturbed \/ Busy # {})
    /\ UNCHANGED <<nodeRow, underway, breaks>>

DeactiveNode(o, u) == Status(u) \notin {0, 11} /\ Begin(o, u, 1)
CancelDeactiveNode(o, u) == Status(u) = 11 /\ Begin(o, u, 0)

\* DeactivateNode and UndoNodeDeactivation of the scheduler.
AskScheduler(o) ==
    /\ operation[o].pc = "scheduler"
    /\ underway' = (operation[o].value = 1)
    /\ operation' = [operation EXCEPT ![o].pc = "row"]
    /\ UNCHANGED <<nodeRow, disturbed, breaks>>

\* mutant: a deactivation is never taken back
UpdateOperationOnce(o) ==
    LET q == operation[o]
    IN  /\ q.pc = "row"
        /\ nodeRow' = IF nodeRow.user = q.user /\ q.value = 1
                      THEN [nodeRow EXCEPT !.operation = 1] ELSE nodeRow
        /\ operation' = [operation EXCEPT ![o] = Off]
        /\ UNCHANGED <<underway, disturbed, breaks>>

UpdateNodeOperationStatus(o) ==
    LET q == operation[o]
    IN  /\ q.pc = "row"
        /\ nodeRow' = IF nodeRow.user = q.user THEN [nodeRow EXCEPT !.operation = q.value]
                      ELSE nodeRow
        /\ operation' = [operation EXCEPT ![o] = Off]
        /\ UNCHANGED <<underway, disturbed, breaks>>

\* The scheduler or the database fails: the request ends.
Break(o) ==
    /\ operation[o] # Off
    /\ breaks < MaxBreaks
    /\ breaks' = breaks + 1
    /\ disturbed' = TRUE
    /\ operation' = [operation EXCEPT ![o] = Off]
    /\ UNCHANGED <<nodeRow, underway>>

\* The node is unbound and bound again.
ChangeOwner(u) ==
    /\ nodeRow.user # u
    /\ nodeRow' = [nodeRow EXCEPT !.user = u, !.named = TRUE]
    /\ disturbed' = (disturbed \/ Busy # {})
    /\ UNCHANGED <<underway, operation, breaks>>
-----------------------------------------------------------------------------
(* One statement each.                                                     *)

RowOnly(row) ==
    /\ nodeRow' = row
    /\ UNCHANGED <<underway, operation, disturbed, breaks>>

DeviceUpdate(u) == nodeRow.user = u /\ RowOnly([nodeRow EXCEPT !.named = TRUE])

\* Nobody's row is asked for.
UpdateTest1DeviceName == RowOnly([nodeRow EXCEPT !.named = TRUE])

DeleteOfflineDevice(u) ==
    /\ nodeRow.user = u /\ ~nodeRow.online /\ ~nodeRow.deleted
    /\ RowOnly([nodeRow EXCEPT !.deleted = TRUE])

MoveBackDeletedDevice(u) ==
    /\ nodeRow.user = u /\ nodeRow.deleted
    /\ RowOnly([nodeRow EXCEPT !.deleted = FALSE])

\* A round of statistics writes the status.
StatusChanges == RowOnly([nodeRow EXCEPT !.online = ~@])

Next ==
    \/ \E o \in Operations :
         \/ AskScheduler(o) \/ UpdateNodeOperationStatus(o) \/ Break(o)
         \/ \E u \in NodeUsers : DeactiveNode(o, u) \/ CancelDeactiveNode(o, u)
    \/ \E u \in NodeUsers : \/ ChangeOwner(u) \/ DeviceUpdate(u)
                            \/ DeleteOfflineDevice(u) \/ MoveBackDeletedDevice(u)
    \/ UpdateTest1DeviceName
    \/ StatusChanges

Spec == Init /\ [][Next]_nodeVars
-----------------------------------------------------------------------------
(* Properties.                                                             *)

\* The row and the scheduler agree whether a node is being deactivated as long
\* as no request has failed, met another one or lost its node to another user:
\* any number of requests one after the other, by one owner or the next.
OperationsAgree ==
    ~disturbed /\ Busy = {} => (underway <=> nodeRow.operation = 1)

=============================================================================
