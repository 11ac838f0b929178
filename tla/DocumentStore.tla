---------------------------- MODULE DocumentStore ----------------------------
(***************************************************************************)
(* The unified document collection of components/database/database.c, kept *)
(* in the document list of components/utils/art.c, with the document cache *)
(* and the query cache in front of it.                                     *)
(*                                                                         *)
(* art.c takes its list lock for one search, one append, one removal or    *)
(* one step of an iterator, and database.c strings these together.  The    *)
(* locks database.c takes around them exclude nobody: skiplist_search      *)
(* returns a fresh copy of the stored library_t or collection_t, so every  *)
(* call locks the pthread_rwlock_t of its own copy.  An action is          *)
(* therefore one section of the list lock (or of a cache's lock) together  *)
(* with the thread-local code after it; what a call reads through a leaf   *)
(* pointer once the list lock is released is an action of its own.         *)
(*                                                                         *)
(* A leaf is an address of the pool Leaves; a freed address keeps its last *)
(* contents as long as a client still points to it.  A call that returns   *)
(* at once (a cache hit, a uuid that is not stored) changes nothing and is *)
(* a stuttering step.  The library and the collection are created by       *)
(* db_init, before any client runs.                                        *)
(***************************************************************************)
EXTENDS Naturals, FiniteSets, SequencesExt

CONSTANTS
    Clients,      \* threads that serve requests
    Ids,          \* uuids
    Kinds,        \* values of the type and library fields
    Tags,         \* fields an update can set
    Leaves,       \* addresses an art_leaf_t can have
    NoDoc, NoLeaf, NoResult,   \* NULL: a document, a leaf, a cached query result
    AnyId,        \* a query that does not name a uuid
    InitialIds,   \* sequence of the uuids stored before the clients start
    KindOf,       \* the kind of the document inserted under each uuid
    Capacity,     \* entries a cache can hold
    Uses          \* ways the clients use the store; one is picked at the start:
                  \* [ids, tags: what they name, writes: the uuids each client inserts,
                  \* updates or deletes, handlers: the operations they call,
                  \* allocFails: whether an allocation inside skiplist_insert may fail]

ASSUME StoreAssumption ==
    /\ InitialIds \in Seq(Ids) /\ IsInjective(InitialIds)
    /\ KindOf \in [Ids -> Kinds] /\ Kinds # {}
    /\ Uses \subseteq [ids : SUBSET Ids, tags : SUBSET Tags, writes : [Clients -> SUBSET Ids],
                       handlers : SUBSET STRING, allocFails : BOOLEAN]
    /\ Capacity \in Nat \ {0}
    /\ NoLeaf \notin Leaves /\ AnyId \notin Ids
    /\ NoDoc \notin [id : Ids, kind : Kinds, fields : SUBSET Tags]

VARIABLES
    list,        \* art_document_list_t.documents
    leaf,        \* contents of every leaf address
    alive,       \* leaf addresses that are allocated
    issued,      \* uuids handed out so far
    pc, call,    \* where each client is, and its local variables
    docCache,    \* g_db.doc_cache
    queryCache,  \* g_db.query_cache
    acked,       \* history: fields whose update was acknowledged, per uuid
    use          \* how the clients use the store; never changes

vars == <<list, leaf, alive, issued, pc, call, docCache, queryCache, acked, use>>

Docs == [id : Ids, kind : Kinds, fields : SUBSET Tags]

NewDoc(id) == [id |-> id, kind |-> KindOf[id], fields |-> {}]

Queries == [kind : Kinds, id : Ids \cup {AnyId}]

Updates == {"storage_update_document", "db_update_document"}
Deletes == {"storage_delete_document", "db_delete_document"}
Scans   == {"storage_query_documents", "db_query_documents", "db_get_document"}
Gets    == {"storage_get_document", "virtual_get"}

\* copy: skiplist_search has the leaf and released the list lock.  unlink: before
\* skiplist_delete.  check: before skiplist_insert.  append: the key was not in the
\* list.  scan: before skiplist_iterator_next.  parse: the iterator returned a leaf.
\* put: before the document goes into the document cache.
PCs == {"idle", "copy", "unlink", "check", "append", "scan", "parse", "put"}

NoCall == [op |-> "none", id |-> AnyId, kind |-> CHOOSE k \in Kinds : TRUE,
           tag |-> {}, leaf |-> NoLeaf, doc |-> NoDoc, next |-> 1, hits |-> <<>>]

BlankLeaf == [key |-> AnyId, doc |-> NoDoc]

Init ==
    /\ \E a \in Injection(1 .. Len(InitialIds), Leaves) :
           /\ list = [i \in 1 .. Len(InitialIds) |-> a[i]]
           /\ leaf = [l \in Leaves |->
                        IF l \in ToSet(list)
                        THEN LET id == InitialIds[CHOOSE i \in DOMAIN a : a[i] = l]
                             IN  [key |-> id, doc |-> NewDoc(id)]
                        ELSE BlankLeaf]
           /\ alive = ToSet(list)
    /\ issued = ToSet(InitialIds)
    /\ pc = [c \in Clients |-> "idle"]
    /\ call = [c \in Clients |-> NoCall]
    /\ docCache = [id \in Ids |-> NoDoc]
    /\ queryCache = [q \in Queries |-> NoResult]
    /\ acked = [id \in Ids |-> {}]
    /\ use \in Uses

-----------------------------------------------------------------------------
(* The document list and the caches.                                       *)

\* Indices of the leaves stored under a uuid; a search takes the first.
IndicesOf(id) == {i \in DOMAIN list : leaf[list[i]].key = id}

Stored(id) == IndicesOf(id) # {}

FirstIndex(id) == CHOOSE i \in IndicesOf(id) : \A j \in IndicesOf(id) : i <= j

art_search_in_list(id) == IF Stored(id) THEN list[FirstIndex(id)] ELSE NoLeaf

\* What json_parse makes of the memory a leaf pointer refers to.  A leaf that was
\* freed and not reused may still hold its text, or text that does not parse.
TextAt(l) == IF l \in alive THEN {leaf[l].doc} ELSE {leaf[l].doc, NoDoc}

\* generic_cache_put: the new entry may push one other entry out of a full cache.
CachePut(cache, none, k, v) ==
    LET others == {x \in DOMAIN cache \ {k} : cache[x] # none}
    IN  IF cache[k] = none /\ Cardinality(others) >= Capacity
        THEN {[cache EXCEPT ![k] = v, ![x] = none] : x \in others}
        ELSE {[cache EXCEPT ![k] = v]}

\* The call of client c returns.
Return(c) == /\ pc' = [pc EXCEPT ![c] = "idle"]
             /\ call' = [call EXCEPT ![c] = NoCall]

\* The call of client c goes on to step p with the local variables of record r.
GoOn(c, p, r) == /\ pc' = [pc EXCEPT ![c] = p]
                 /\ call' = [call EXCEPT ![c] = r]

CallOf(op, id, kind, tag) ==
    [NoCall EXCEPT !.op = op, !.id = id, !.kind = kind, !.tag = tag]

\* Client c acknowledges the update its call makes.
Acknowledge(c) ==
    acked' = [acked EXCEPT ![call[c].id] =
                 IF call[c].op \in Updates THEN @ \cup call[c].tag ELSE @]

-----------------------------------------------------------------------------
(* The first section of each operation.                                    *)

\* skiplist_search for the uuid of the call: NULL ends the call.
Search(c, r) ==
    LET l == art_search_in_list(r.id)
    IN  /\ l # NoLeaf
        /\ GoOn(c, "copy", [r EXCEPT !.leaf = l])
        /\ UNCHANGED <<list, leaf, alive, issued, docCache, queryCache, acked>>

storage_get_document(c, id) ==
    /\ pc[c] = "idle" /\ "storage_get_document" \in use.handlers
    /\ Search(c, CallOf("storage_get_document", id, KindOf[id], {}))

\* A miss in the document cache goes on to the list; a hit returns at once.
virtual_get(c, id) ==
    /\ pc[c] = "idle" /\ "virtual_get" \in use.handlers
    /\ docCache[id] = NoDoc
    /\ Search(c, CallOf("virtual_get", id, KindOf[id], {}))

storage_update_document(c, id, tag) ==
    /\ pc[c] = "idle" /\ "storage_update_document" \in use.handlers
    /\ id \in use.writes[c]
    /\ Search(c, CallOf("storage_update_document", id, KindOf[id], {tag}))

db_update_document(c, id, kind, tag) ==
    /\ pc[c] = "idle" /\ "db_update_document" \in use.handlers
    /\ id \in use.writes[c]
    /\ Search(c, CallOf("db_update_document", id, kind, {tag}))

storage_delete_document(c, id) ==
    /\ pc[c] = "idle" /\ "storage_delete_document" \in use.handlers
    /\ id \in use.writes[c]
    /\ Search(c, CallOf("storage_delete_document", id, KindOf[id], {}))

db_delete_document(c, id, kind) ==
    /\ pc[c] = "idle" /\ "db_delete_document" \in use.handlers
    /\ id \in use.writes[c]
    /\ Search(c, CallOf("db_delete_document", id, kind, {}))

\* storage_insert_document and db_insert_document: a fresh uuid, then skiplist_insert.
storage_insert_document(c, id) ==
    /\ pc[c] = "idle" /\ "storage_insert_document" \in use.handlers
    /\ id \in use.writes[c] \ issued
    /\ issued' = issued \cup {id}
    /\ GoOn(c, "check", [CallOf("storage_insert_document", id, KindOf[id], {})
                            EXCEPT !.doc = NewDoc(id)])
    /\ UNCHANGED <<list, leaf, alive, docCache, queryCache, acked>>

StartScan(c, r) ==
    /\ GoOn(c, "scan", r)
    /\ UNCHANGED <<list, leaf, alive, issued, docCache, queryCache, acked>>

\* storage_query_documents goes straight to the list.
storage_query_documents(c, kind) ==
    /\ pc[c] = "idle" /\ "storage_query_documents" \in use.handlers
    /\ StartScan(c, CallOf("storage_query_documents", AnyId, kind, {}))

db_query_documents(c, kind) ==
    /\ pc[c] = "idle" /\ "db_query_documents" \in use.handlers
    /\ queryCache[[kind |-> kind, id |-> AnyId]] = NoResult
    /\ StartScan(c, CallOf("db_query_documents", AnyId, kind, {}))

CachedAs(id, kind) == docCache[id] # NoDoc /\ docCache[id].kind = kind

\* A document cached under the right kind is returned at once.  Otherwise the
\* document is queried by uuid, through the query cache, and then cached.
db_get_document(c, id, kind) ==
    /\ pc[c] = "idle" /\ "db_get_document" \in use.handlers
    /\ ~ CachedAs(id, kind)
    /\ LET r      == CallOf("db_get_document", id, kind, {})
           result == queryCache[[kind |-> kind, id |-> id]]
       IN  \/ /\ result = NoResult
              /\ StartScan(c, r)
           \/ /\ result \notin {NoResult, <<>>}
              /\ GoOn(c, "put", [r EXCEPT !.doc = Head(result)])
              /\ UNCHANGED <<list, leaf, alive, issued, docCache, queryCache, acked>>

-----------------------------------------------------------------------------
(* The sections that follow.                                               *)

\* Variants: the update replaces the document; it overwrites the type field.
Replace(doc, tag) == [doc EXCEPT !.fields = tag]
Retype(doc, tag)  == [doc EXCEPT !.kind = tag]

Merge(doc, tag) == [doc EXCEPT !.fields = @ \cup tag]

Verified(r, doc) == doc # NoDoc /\ doc.kind = r.kind

\* The rest of skiplist_search copies the value out of the leaf, without the list
\* lock.  The caller parses the copy, checks it, and prepares its next step.
ReadLeaf(c) ==
    LET r == call[c]
    IN  /\ pc[c] = "copy"
        /\ \E doc \in TextAt(r.leaf) :
             \/ /\ \/ r.op = "storage_get_document"
                   \/ r.op # "storage_delete_document" /\ doc = NoDoc
                   \/ r.op \in {"db_update_document", "db_delete_document"}
                      /\ ~ Verified(r, doc)
                /\ Return(c)
             \/ /\ r.op = "virtual_get" /\ doc # NoDoc
                /\ GoOn(c, "put", [r EXCEPT !.leaf = NoLeaf, !.doc = doc])
             \/ /\ r.op = "storage_delete_document"
                /\ GoOn(c, "unlink", [r EXCEPT !.leaf = NoLeaf])
             \/ /\ r.op = "db_delete_document" /\ Verified(r, doc)
                /\ GoOn(c, "unlink", [r EXCEPT !.leaf = NoLeaf])
             \/ /\ r.op = "storage_update_document" /\ doc # NoDoc
                /\ GoOn(c, "unlink", [r EXCEPT !.leaf = NoLeaf, !.doc = Merge(doc, r.tag)])
             \/ /\ r.op = "db_update_document" /\ Verified(r, doc)
                /\ GoOn(c, "unlink", [r EXCEPT !.leaf = NoLeaf, !.doc = Merge(doc, r.tag)])
        /\ UNCHANGED <<list, leaf, alive, issued, docCache, queryCache, acked>>

\* Variant: the memory of a removed leaf is not given back.
FreeNothing(l) == alive

FreeLeaf(l) == alive \ {l}

\* What a freed leaf still holds, for the clients that point to it.
Residue(l) == IF \E c \in Clients : call[c].leaf = l THEN leaf[l] ELSE BlankLeaf

\* Variant: the last leaf is dropped, whatever its key.
LastIndex(id) == Len(list)

IndexToRemove(id) == FirstIndex(id)

\* skiplist_delete: the first leaf with the key leaves the list and is freed.  A
\* delete returns; an update goes on to skiplist_insert whether it found one or not.
skiplist_delete(c) ==
    LET r == call[c]
        i == IndexToRemove(r.id)
    IN  /\ pc[c] = "unlink"
        /\ IF Stored(r.id)
           THEN /\ list' = RemoveAt(list, i)
                /\ alive' = FreeLeaf(list[i])
                /\ leaf' = [leaf EXCEPT ![list[i]] = Residue(list[i])]
           ELSE UNCHANGED <<list, alive, leaf>>
        /\ IF r.op \in Deletes THEN Return(c) ELSE GoOn(c, "check", r)
        /\ UNCHANGED <<issued, docCache, queryCache, acked>>

\* skiplist_insert up to the end of its duplicate check.  On a duplicate the new
\* leaf is freed again; nobody looks at the result.
skiplist_insert(c) ==
    LET r == call[c]
    IN  /\ pc[c] = "check"
        /\ \E l \in Leaves \ alive :
             \/ /\ Stored(r.id)
                /\ Return(c)
                /\ Acknowledge(c)
                /\ UNCHANGED <<leaf, alive>>
             \/ /\ ~ Stored(r.id)
                /\ leaf' = [leaf EXCEPT ![l] = [key |-> r.id, doc |-> r.doc]]
                /\ alive' = alive \cup {l}
                /\ GoOn(c, "append", [r EXCEPT !.leaf = l])
                /\ UNCHANGED acked
        /\ UNCHANGED <<list, issued, docCache, queryCache>>

\* Variant: the new leaf goes to the front, where iterators have already passed.
PrependLeaf(l) == <<l>> \o list

art_add_to_list(l) == Append(list, l)

AppendLeaf(c) ==
    /\ pc[c] = "append"
    /\ list' = art_add_to_list(call[c].leaf)
    /\ Return(c)
    /\ Acknowledge(c)
    /\ UNCHANGED <<leaf, alive, issued, docCache, queryCache>>

\* An allocation fails, of the leaf or of the larger array: the insert returns
\* false, which its callers ignore.
InsertFails(c) ==
    /\ use.allocFails
    /\ pc[c] \in {"check", "append"}
    /\ alive' = FreeLeaf(call[c].leaf)
    /\ leaf' = [l \in Leaves |-> IF l = call[c].leaf THEN BlankLeaf ELSE leaf[l]]
    /\ Return(c)
    /\ Acknowledge(c)
    /\ UNCHANGED <<list, issued, docCache, queryCache>>

\* skiplist_iterator_next hands out the leaf at the iterator's index.
skiplist_iterator_next(c) ==
    LET r == call[c]
    IN  /\ pc[c] = "scan"
        /\ r.next <= Len(list)
        /\ GoOn(c, "parse", [r EXCEPT !.leaf = list[r.next], !.next = @ + 1])
        /\ UNCHANGED <<list, leaf, alive, issued, docCache, queryCache, acked>>

\* Variant: the filter does not look at the uuid.
MatchesKindOnly(r, doc) == doc # NoDoc /\ doc.kind = r.kind

Matches(r, doc) == /\ doc # NoDoc
                   /\ doc.kind = r.kind
                   /\ r.id \in {AnyId, doc.id}

\* Variant: the caller frees the leaf it was handed, as after skiplist_search.
ParseAndFree(c) ==
    /\ pc[c] = "parse"
    /\ GoOn(c, "scan", [call[c] EXCEPT !.leaf = NoLeaf])
    /\ alive' = alive \ {call[c].leaf}
    /\ UNCHANGED <<list, leaf, issued, docCache, queryCache, acked>>

\* The scan parses the text of the leaf, without the list lock, and filters it.
ParseDocument(c) ==
    LET r == call[c]
    IN  /\ pc[c] = "parse"
        /\ \E doc \in TextAt(r.leaf) :
             GoOn(c, "scan", [r EXCEPT !.leaf = NoLeaf,
                                       !.hits = IF Matches(r, doc) THEN Append(@, doc) ELSE @])
        /\ UNCHANGED <<list, leaf, alive, issued, docCache, queryCache, acked>>

\* The iterator is exhausted.  db_query_documents caches its result, and
\* db_get_document goes on with the first document of it.
EndScan(c) ==
    LET r == call[c]
        q == [kind |-> r.kind, id |-> r.id]
    IN  /\ pc[c] = "scan"
        /\ r.next > Len(list)
        /\ IF r.op = "storage_query_documents" THEN UNCHANGED queryCache
           ELSE queryCache' \in CachePut(queryCache, NoResult, q, r.hits)
        /\ IF r.op = "db_get_document" /\ r.hits # <<>>
           THEN GoOn(c, "put", [NoCall EXCEPT !.op = r.op, !.id = r.id,
                                              !.kind = r.kind, !.doc = Head(r.hits)])
           ELSE Return(c)
        /\ UNCHANGED <<list, leaf, alive, issued, docCache, acked>>

\* virtual_get and db_get_document cache the document they found.
PutDocument(c) ==
    /\ pc[c] = "put"
    /\ docCache' \in CachePut(docCache, NoDoc, call[c].id, call[c].doc)
    /\ Return(c)
    /\ UNCHANGED <<list, leaf, alive, issued, queryCache, acked>>

Request(c) ==
    \/ \E id \in use.ids : \/ storage_get_document(c, id)
                       \/ virtual_get(c, id)
                       \/ storage_delete_document(c, id)
                       \/ storage_insert_document(c, id)
    \/ \E id \in use.ids, tag \in use.tags : storage_update_document(c, id, tag)
    \/ \E id \in use.ids, kind \in Kinds, tag \in use.tags : db_update_document(c, id, kind, tag)
    \/ \E id \in use.ids, kind \in Kinds : db_delete_document(c, id, kind)
                                       \/ db_get_document(c, id, kind)
    \/ \E kind \in Kinds : storage_query_documents(c, kind) \/ db_query_documents(c, kind)

Step(c) == \/ ReadLeaf(c)
           \/ skiplist_delete(c)
           \/ skiplist_insert(c)
           \/ AppendLeaf(c)
           \/ InsertFails(c)
           \/ skiplist_iterator_next(c)
           \/ ParseDocument(c)
           \/ EndScan(c)
           \/ PutDocument(c)

Next == /\ \E c \in Clients : Request(c) \/ Step(c)
        /\ UNCHANGED use

Spec == Init /\ [][Next]_vars

-----------------------------------------------------------------------------
(* Properties.                                                             *)

\* Every variable has its type; leaf pointers are NULL or addresses.
TypeOK ==
    /\ list \in Seq(Leaves)
    /\ leaf \in [Leaves -> [key : Ids \cup {AnyId}, doc : Docs \cup {NoDoc}]]
    /\ alive \subseteq Leaves
    /\ issued \subseteq Ids
    /\ pc \in [Clients -> PCs]
    /\ \A c \in Clients : call[c].leaf \in Leaves \cup {NoLeaf}
    /\ \A id \in Ids : docCache[id] \in Docs \cup {NoDoc}
    /\ acked \in [Ids -> SUBSET Tags]

\* Leaves that a client has created and not yet linked or freed.
PrivateLeaves == {call[c].leaf : c \in {x \in Clients : pc[x] = "append"}}

\* The list lock keeps the list sound whatever the clients do at once: it holds
\* allocated leaves only, each of them once, and every allocated leaf is in the
\* list or still in the hands of the skiplist_insert that made it (none leaks).
ListOwnsLeaves ==
    /\ IsInjective(list)
    /\ ToSet(list) \cap PrivateLeaves = {}
    /\ alive = ToSet(list) \cup PrivateLeaves

\* A client between skiplist_delete and the end of skiplist_insert for a uuid.
Replacing(c, id) ==
    /\ pc[c] \in {"check", "append"}
    /\ call[c].op \in Updates
    /\ call[c].id = id

\* The document a uuid stands for: the stored one or, while an update has it
\* unlinked, the one that is about to be stored.
DocumentOf(id) ==
    IF Stored(id) THEN leaf[art_search_in_list(id)].doc
    ELSE IF \E c \in Clients : Replacing(c, id)
         THEN call[CHOOSE c \in Clients : Replacing(c, id)].doc
         ELSE NoDoc

\* Every field whose update was acknowledged is in the document as long as the
\* document exists: no update is lost.
UpdatesKept ==
    \A id \in Ids : DocumentOf(id) # NoDoc => acked[id] \subseteq DocumentOf(id).fields

\* Every uuid has at most one client that writes it, and no insert fails.
OneWriterEach ==
    /\ \A c, d \in Clients : c # d => use.writes[c] \cap use.writes[d] = {}
    /\ ~ use.allocFails

\* With one writer for each uuid no update is lost.
AcknowledgedUpdatesKept == OneWriterEach => UpdatesKept

\* With one writer for each uuid the collection implements the atomic map of
\* DocumentMap: skiplist_delete followed by skiplist_insert is one update, and no
\* other step changes a document.
FirstDocuments == [id \in Ids |-> IF id \in ToSet(InitialIds) THEN NewDoc(id) ELSE NoDoc]

DocumentsOfOneWriter ==
    IF OneWriterEach THEN [id \in Ids |-> DocumentOf(id)] ELSE FirstDocuments

Abstract ==
    INSTANCE DocumentMap WITH store <- DocumentsOfOneWriter, InitialStore <- FirstDocuments

ImplementsDocumentMap == Abstract!Spec

\* With one writer for each uuid skiplist_delete finds the document that the search
\* before it found.
FoundDocumentIsDeleted ==
    OneWriterEach => \A c \in Clients : pc[c] = "unlink" => Stored(call[c].id)

\* The clients only insert and read.
AppendOnly == use.handlers \cap (Updates \cup Deletes) = {}

\* As long as nothing is updated or deleted, no client holds a pointer to a leaf that
\* has been freed.
NoUseAfterFree ==
    AppendOnly => \A c \in Clients : call[c].leaf # NoLeaf => call[c].leaf \in alive

\* What call r has collected is what matches in the first n leaves, in their order:
\* seen tells from which leaf each hit came.
Collected(r, n) ==
    \E seen \in [DOMAIN r.hits -> 1 .. n] :
        /\ \A j, k \in DOMAIN r.hits : j < k => seen[j] < seen[k]
        /\ \A k \in DOMAIN r.hits : r.hits[k] = leaf[list[seen[k]]].doc
        /\ \A i \in 1 .. n : Matches(r, leaf[list[i]].doc) <=> \E k \in DOMAIN r.hits : seen[k] = i

\* Without updates and deletes a scan sees every document exactly once: what it has
\* collected is what the leaves up to its index hold.
ScanIsExact ==
    AppendOnly => \A c \in Clients : pc[c] = "scan" => Collected(call[c], call[c].next - 1)

\* Without updates and deletes a cached document is the stored one.
DocumentCacheCoherent ==
    AppendOnly => \A id \in Ids : docCache[id] # NoDoc => docCache[id] = DocumentOf(id)

\* The collection at every moment: its types, documents owned by one node of the
\* list, no use of what was freed, and a cache that agrees with the list.
StoreSound ==
    /\ TypeOK /\ ListOwnsLeaves /\ NoUseAfterFree /\ DocumentCacheCoherent

\* What one writer for each uuid is promised: its acknowledged updates are kept and
\* the document it found is there to be deleted.
OneWriterSound ==
    /\ AcknowledgedUpdatesKept /\ FoundDocumentIsDeleted
=============================================================================
