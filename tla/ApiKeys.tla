------------------------------ MODULE ApiKeys -------------------------------
(***************************************************************************)
(* The API keys of one user: create_key and delete_key of                  *)
(* src/api/events.go. All keys are one blob in the column api_keys, which  *)
(* a request reads, changes and writes back whole.                         *)
(***************************************************************************)
EXTENDS Integers, FiniteSets

CONSTANTS
    KeyNames,          \* names of keys
    KeyRequests,       \* requests under way
    MaxKeys,           \* maxAPIKey
    MaxKeysMade        \* bound on the keys created

VARIABLES
    apiKeys,           \* the blob: the key of each name that has one, by number
    keyRequest,
    made,              \* keys created so far
    valid,             \* keys whose creation was answered, and not their deletion
    raced              \* keys that a request wrote or removed while another had read
keyVars == <<apiKeys, keyRequest, made, valid, raced>>

Quiet == [pc |-> "quiet"]
Blobs == [KeyNames -> 0 .. MaxKeysMade]    \* 0: no key of that name
Held(blob) == {blob[n] : n \in KeyNames} \ {0}

TypeOK ==
    /\ apiKeys \in Blobs
    /\ made \in 0 .. MaxKeysMade
    /\ valid \subseteq 1 .. MaxKeysMade
    /\ raced \subseteq 1 .. MaxKeysMade

Init ==
    /\ apiKeys = [n \in KeyNames |-> 0]
    /\ keyRequest = [r \in KeyRequests |-> Quiet]
    /\ made = 0
    /\ valid = {}
    /\ raced = {}

\* mutant: a name may be taken again
NameTakenNever(n) == Cardinality(Held(apiKeys)) >= MaxKeys

\* CreateAPIKeySecret refuses a name that is in use, and the 21st key.
Refused(n) == apiKeys[n] # 0 \/ Cardinality(Held(apiKeys)) >= MaxKeys

\* CreateKeyHandler and DeleteKeyHandler up to the new blob.
CreateKey(r, n) ==
    /\ keyRequest[r] = Quiet
    /\ made < MaxKeysMade
    /\ ~Refused(n)
    /\ made' = made + 1
    /\ keyRequest' = [keyRequest EXCEPT ![r] =
         [pc |-> "create", key |-> made + 1, blob |-> [apiKeys EXCEPT ![n] = made + 1]]]
    /\ UNCHANGED <<apiKeys, valid, raced>>

DeleteKey(r, n) ==
    /\ keyRequest[r] = Quiet
    /\ apiKeys[n] # 0
    /\ keyRequest' = [keyRequest EXCEPT ![r] =
         [pc |-> "delete", key |-> apiKeys[n], blob |-> [apiKeys EXCEPT ![n] = 0]]]
    /\ UNCHANGED <<apiKeys, made, valid, raced>>

\* UpdateUserAPIKeys, and the answer. Another request that has read the blob
\* will undo this one.
UpdateUserAPIKeys(r) ==
    /\ keyRequest[r] # Quiet
    /\ apiKeys' = keyRequest[r].blob
    /\ valid' = IF keyRequest[r].pc = "create" THEN valid \cup {keyRequest[r].key}
                ELSE valid \ {keyRequest[r].key}
    /\ raced' = IF \E q \in KeyRequests \ {r} : keyRequest[q] # Quiet
                THEN raced \cup {keyRequest[r].key} ELSE raced
    /\ keyRequest' = [keyRequest EXCEPT ![r] = Quiet]
    /\ UNCHANGED made

\* The UPDATE fails: the answer is an error, and no key was created or deleted.
UpdateFails(r) ==
    /\ keyRequest[r] # Quiet
    /\ keyRequest' = [keyRequest EXCEPT ![r] = Quiet]
    /\ UNCHANGED <<apiKeys, made, valid, raced>>

Next ==
    \E r \in KeyRequests :
        \/ \E n \in KeyNames : CreateKey(r, n) \/ DeleteKey(r, n)
        \/ UpdateUserAPIKeys(r) \/ UpdateFails(r)

Spec == Init /\ [][Next]_keyVars
-----------------------------------------------------------------------------
(* Properties.                                                             *)

\* checkAPIKeyIsExist.
Accepted(key) == key \in Held(apiKeys)

\* A key that was handed out is accepted until its deletion is answered, and
\* not afterwards, unless another request had read the keys meanwhile.
KeysAsAnswered ==
    \A key \in (1 .. made) \ raced :
        (\A r \in KeyRequests : keyRequest[r] = Quiet \/ keyRequest[r].key # key)
           => (Accepted(key) <=> key \in valid)

=============================================================================
