---------------------------- MODULE EdgeBatches -----------------------------
(***************************************************************************)
(* The batches of edge devices: BatchReportHandler to                      *)
(* UserBatchAddressHandler of src/api/users.go. A report is a member of a  *)
(* sorted set and a field of a hash in Redis, written one after the other. *)
(* An address is one member of a sorted set; a request reads the members   *)
(* and then replaces those of its url in a MULTI transaction.              *)
(***************************************************************************)
EXTENDS Integers, FiniteSets

CONSTANTS
    Macs, Urls,
    BatchRequests,        \* requests under way
    MaxAddresses,         \* bound on the addresses added
    MaxBatchFailures      \* bound on calls to Redis that fail, without effect

VARIABLES
    batchSet,             \* titan:edge:bacth:set
    batchHash,            \* titan:edge:bacth:hset: the macs with a configuration
    addresses,            \* titan:batch:address:set
    batchRequest,
    added, batchFailures,
    unsure                \* macs with a failed request or two at once, until the next one
batchVars == <<batchSet, batchHash, addresses, batchRequest, added, batchFailures, unsure>>

None == [pc |-> "none"]
\* id is the time an address was added, in nanoseconds.
Members == [url : Urls, enable : BOOLEAN, id : 1 .. MaxAddresses]

TypeOK ==
    /\ batchSet \subseteq Macs
    /\ batchHash \subseteq Macs
    /\ addresses \subseteq Members
    /\ added \in 0 .. MaxAddresses

Init ==
    /\ batchSet = {}
    /\ batchHash = {}
    /\ addresses = {}
    /\ batchRequest = [r \in BatchRequests |-> None]
    /\ added = 0
    /\ batchFailures = 0
    /\ unsure = {}

At(r, step) == batchRequest[r].pc = step
Becomes(r, value) == batchRequest' = [batchRequest EXCEPT ![r] = value]
OfMac(mac) ==
    {r \in BatchRequests : batchRequest[r].pc \in {"zadd", "hset", "hdel"}
                           /\ batchRequest[r].mac = mac}

\* A request on a mac nobody else works on begins anew.
Starts(mac) == unsure' = IF OfMac(mac) = {} THEN unsure \ {mac} ELSE unsure \cup {mac}

BatchFails(r) ==
    /\ batchFailures < MaxBatchFailures
    /\ batchFailures' = batchFailures + 1
    /\ ~At(r, "none")
    /\ unsure' = IF At(r, "set") \/ At(r, "delete") THEN unsure
                 ELSE unsure \cup {batchRequest[r].mac}
    /\ Becomes(r, None)
    /\ UNCHANGED <<batchSet, batchHash, addresses, added>>
-----------------------------------------------------------------------------
\* BatchReportHandler: ZREM, ZADD, HSET.
BatchReport(r, mac) ==
    /\ At(r, "none")
    /\ batchSet' = batchSet \ {mac}
    /\ Becomes(r, [pc |-> "zadd", mac |-> mac])
    /\ Starts(mac)
    /\ UNCHANGED <<batchHash, addresses, added, batchFailures>>

ZAdd(r) ==
    /\ At(r, "zadd")
    /\ batchSet' = batchSet \cup {batchRequest[r].mac}
    /\ Becomes(r, [batchRequest[r] EXCEPT !.pc = "hset"])
    /\ UNCHANGED <<batchHash, addresses, added, batchFailures, unsure>>

HSet(r) ==
    /\ At(r, "hset")
    /\ batchHash' = batchHash \cup {batchRequest[r].mac}
    /\ Becomes(r, None)
    /\ UNCHANGED <<batchSet, addresses, added, batchFailures, unsure>>

\* BatchDelHandler: ZREM, HDEL.
BatchDel(r, mac) ==
    /\ At(r, "none")
    /\ batchSet' = batchSet \ {mac}
    /\ Becomes(r, [pc |-> "hdel", mac |-> mac])
    /\ Starts(mac)
    /\ UNCHANGED <<batchHash, addresses, added, batchFailures>>

HDel(r) ==
    /\ At(r, "hdel")
    /\ batchHash' = batchHash \ {batchRequest[r].mac}
    /\ Becomes(r, None)
    /\ UNCHANGED <<batchSet, addresses, added, batchFailures, unsure>>

\* BatchGetHandler answers an error unless every member has its field.
BatchGetFails == batchSet \ batchHash
-----------------------------------------------------------------------------
OfUrl(url) == {a \in addresses : a.url = url}

\* BatchAddressSetHandler: the members are read before the transaction is sent.
BatchAddressSet(r, url, enable) ==
    /\ At(r, "none")
    /\ added < MaxAddresses
    /\ added' = added + 1
    /\ Becomes(r, [pc |-> "set", rem |-> OfUrl(url),
                   add |-> {[url |-> url, enable |-> enable, id |-> added + 1]}])
    /\ UNCHANGED <<batchSet, batchHash, addresses, batchFailures, unsure>>

\* BatchAddressDelHandler.
BatchAddressDel(r, url) ==
    /\ At(r, "none")
    /\ Becomes(r, [pc |-> "delete", rem |-> OfUrl(url), add |-> {}])
    /\ UNCHANGED <<batchSet, batchHash, addresses, added, batchFailures, unsure>>

\* EXEC: ZREM of what was read, ZADD.
Exec(r) ==
    /\ At(r, "set") \/ At(r, "delete")
    /\ addresses' = (addresses \ batchRequest[r].rem) \cup batchRequest[r].add
    /\ Becomes(r, None)
    /\ UNCHANGED <<batchSet, batchHash, added, batchFailures, unsure>>

\* UserBatchAddressHandler.
Offered == {a \in addresses : a.enable}
-----------------------------------------------------------------------------
Next ==
    \E r \in BatchRequests :
        \/ \E mac \in Macs : BatchReport(r, mac) \/ BatchDel(r, mac)
        \/ ZAdd(r) \/ HSet(r) \/ HDel(r) \/ Exec(r) \/ BatchFails(r)
        \/ \E url \in Urls : \/ \E enable \in BOOLEAN : BatchAddressSet(r, url, enable)
                             \/ BatchAddressDel(r, url)

Spec == Init /\ [][Next]_batchVars
-----------------------------------------------------------------------------
(* Properties.                                                             *)

\* One member without a field makes the list of all batches unreadable. That
\* takes a failure, or a report and a deletion of one mac that overlap; the
\* next request on the mac alone repairs it.
BatchesReadable == \A mac \in BatchGetFails : mac \in unsure \/ OfMac(mac) # {}

\* Requests that set one url at once can each leave an address, but however they
\* overlap there are never more addresses of the url than requests.
AddressesBounded ==
    \A url \in Urls :
        Cardinality({a \in Offered : a.url = url}) <= Cardinality(BatchRequests)

=============================================================================
