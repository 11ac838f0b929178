----------------------------- MODULE DocumentMap -----------------------------
(***************************************************************************)
(* What the unified document collection promises its callers: a map from   *)
(* uuids to documents in which an insert, an update and a delete each take *)
(* effect at one instant.  Components/database/database.c is to implement  *)
(* this with a list of leaves that it changes in several steps.            *)
(***************************************************************************)
CONSTANTS
    Ids,      \* uuids
    Kinds,    \* values of the type and library fields
    Tags,     \* fields an update can set
    NoDoc,    \* there is no document with that uuid
    InitialStore  \* the documents at the start

VARIABLE store   \* the document stored under each uuid

Docs == [id : Ids, kind : Kinds, fields : SUBSET Tags]

Init == store = InitialStore

\* A new document appears under a uuid that has none.
Insert(id) ==
    /\ store[id] = NoDoc
    /\ \E k \in Kinds :
           store' = [store EXCEPT ![id] = [id |-> id, kind |-> k, fields |-> {}]]

\* An update merges a field into the document and keeps the others.
Update(id) ==
    /\ store[id] # NoDoc
    /\ \E tag \in Tags :
           store' = [store EXCEPT ![id].fields = @ \cup {tag}]

Delete(id) ==
    /\ store[id] # NoDoc
    /\ store' = [store EXCEPT ![id] = NoDoc]

Next == \E id \in Ids : Insert(id) \/ Update(id) \/ Delete(id)

Spec == Init /\ [][Next]_store
=============================================================================
