------------------------------ MODULE Libraries ------------------------------
(***************************************************************************)
(* Libraries, virtual collections, documents and document versions as      *)
(* api/library_api.c, api/virtual_collections_api.c, api/api_documents.c   *)
(* and database/versioning_policy.c keep them: all are documents of the    *)
(* one unified collection, told apart by their type, library, collection   *)
(* and name fields.                                                        *)
(*                                                                         *)
(* Every call of the storage layer is one step (it holds the collection's  *)
(* lock); a handler makes several, and other requests run between them.    *)
(***************************************************************************)
EXTENDS Naturals, FiniteSets, Sequences

CONSTANTS
    DThreads,       \* worker threads, each serving one request at a time
    LibNames,       \* names of the libraries clients create
    CollNames,      \* names of the collections clients use
    Template,       \* names of the collections the chosen template lists
    MaxDocs,        \* bound: documents inserted
    MaxDocRequests  \* bound: requests served

ASSUME LibrariesAssumption ==
    /\ LibNames \cap {"system", "default", "none"} = {}
    /\ MaxDocs \in Nat /\ MaxDocRequests \in Nat

VARIABLES
    docs,           \* the unified collection, in the order of insertion
    dpc,            \* thread -> what its handler does next
    task,           \* thread -> the handler's local variables
    requests,       \* requests begun
    late,           \* history: thread -> documents put in its library after it listed them
    raced,          \* history: <<type, library, name>> two creators checked at the same time
    confirmed,          \* history: <<document, field>> of the updates answered 200
    overlapped      \* history: library documents two updates worked on at once

docVars == <<docs, dpc, task, requests, late, raced, confirmed, overlapped>>

Types == {"library", "collection", "document", "user", "session", "version", "permission"}
Fields == {"description", "settings"}
Document(type, library, coll, name) ==
    [type |-> type, library |-> library, coll |-> coll, name |-> name,
     set |-> {}, versioning |-> "unset", live |-> TRUE]
NoTask == [lib |-> "none", name |-> "none", first |-> 0, todo |-> {}, set |-> {}]

LibInit ==
    /\ docs = <<>> /\ requests = 0
    /\ dpc = [t \in DThreads |-> "idle"] /\ task = [t \in DThreads |-> NoTask]
    /\ late = [t \in DThreads |-> {}]
    /\ raced = {} /\ confirmed = {} /\ overlapped = {}

-----------------------------------------------------------------------------
(* The storage layer: database/database.c.                                 *)

Live == {d \in 1 .. Len(docs) : docs[d].live}

\* storage_query_documents: the documents that have every field of the query.
Found(type, library) == {d \in Live : docs[d].type = type /\ docs[d].library = library}
InLibrary(l) == {d \in Live : docs[d].library = l}

\* The first of a result; documents come in the order of their identifiers, which
\* begin with the second of their insertion.
First(S) == CHOOSE d \in S : \A e \in S : d <= e

\* A handler that has listed the documents of the library it deletes.
Listed == {"delete_data", "delete_library", "deleted"}

\* virtual_insert: placed where the caller says, whatever the document said itself.
virtual_insert(doc) ==
    /\ Len(docs) < MaxDocs
    /\ docs' = Append(docs, doc)
    /\ late' = [t \in DThreads |-> IF dpc[t] \in Listed /\ task[t].lib = doc.library
                                   THEN late[t] \cup {Len(docs) + 1} ELSE late[t]]

virtual_delete(d) == docs' = [docs EXCEPT ![d].live = FALSE]

Goto(t, step, local) == dpc' = [dpc EXCEPT ![t] = step] /\ task' = [task EXCEPT ![t] = local]
Answer(t) == Goto(t, "idle", NoTask)
Receive(t) == dpc[t] = "idle" /\ requests < MaxDocRequests /\ requests' = requests + 1

-----------------------------------------------------------------------------
(* Creating a library: check the name, insert the template's collections,  *)
(* then the library document itself.                                       *)

Libraries(n) == {d \in Found("library", "system") : docs[d].name = n}

\* A creator of the same name that has checked and not inserted yet.
Racing(t, step, l, n) == \E u \in DThreads \ {t} : dpc[u] \in step /\ task[u].lib = l /\ task[u].name = n

api_handle_create_library(t, n) ==
    /\ Receive(t)
    /\ IF Libraries(n) # {} THEN Answer(t) /\ UNCHANGED raced
       ELSE /\ raced' = IF Racing(t, {"create_collections", "create_library"}, n, n)
                        THEN raced \cup {<<"library", "system", n>>} ELSE raced
            /\ Goto(t, "create_collections", [NoTask EXCEPT !.lib = n, !.name = n, !.set = Template])
    /\ UNCHANGED <<docs, late, confirmed, overlapped>>

\* A collection that cannot be inserted is logged and left out.
create_collections(t) ==
    /\ dpc[t] = "create_collections"
    /\ \/ \E c \in task[t].set :
            /\ virtual_insert(Document("collection", task[t].lib, "collections", c))
            /\ Goto(t, "create_collections", [task[t] EXCEPT !.set = @ \ {c}])
       \/ \E c \in task[t].set :
            /\ Goto(t, "create_collections", [task[t] EXCEPT !.set = @ \ {c}])
            /\ UNCHANGED <<docs, late>>
       \/ task[t].set = {} /\ Goto(t, "create_library", task[t]) /\ UNCHANGED <<docs, late>>
    /\ UNCHANGED <<requests, raced, confirmed, overlapped>>

create_library_document(t) ==
    /\ dpc[t] = "create_library"
    /\ virtual_insert(Document("library", "system", "libraries", task[t].name))
    /\ Answer(t) /\ UNCHANGED <<requests, raced, confirmed, overlapped>>

-----------------------------------------------------------------------------
(* Deleting a library: its collection documents, then everything that is   *)
(* in it, then the library document found first.                           *)

api_handle_delete_library(t, n) ==
    /\ Receive(t)
    /\ IF Libraries(n) = {} THEN Answer(t)
       ELSE Goto(t, "delete_collections", [NoTask EXCEPT !.lib = n, !.name = n, !.first = First(Libraries(n)),
                                                         !.todo = Found("collection", n)])
    /\ UNCHANGED <<docs, late, raced, confirmed, overlapped>>

\* A document somebody else deleted meanwhile is passed over.
delete_next(t) ==
    \E d \in task[t].todo : virtual_delete(d) /\ Goto(t, dpc[t], [task[t] EXCEPT !.todo = @ \ {d}])

\* Mutant: only plain documents are looked for, as the collections are gone already.
list_data_documents(t) == {d \in InLibrary(task[t].lib) : docs[d].type = "document"}

list_data(t) == InLibrary(task[t].lib)

delete_collections(t) ==
    /\ dpc[t] = "delete_collections"
    /\ \/ delete_next(t) /\ UNCHANGED late
       \/ /\ task[t].todo = {}
          /\ Goto(t, "delete_data", [task[t] EXCEPT !.todo = list_data(t)])
          /\ late' = [late EXCEPT ![t] = {}] /\ UNCHANGED docs
    /\ UNCHANGED <<requests, raced, confirmed, overlapped>>

delete_data(t) ==
    /\ dpc[t] = "delete_data"
    /\ \/ delete_next(t)
       \/ task[t].todo = {} /\ Goto(t, "delete_library", task[t]) /\ UNCHANGED docs
    /\ UNCHANGED <<requests, late, raced, confirmed, overlapped>>

delete_library_document(t) ==
    /\ dpc[t] = "delete_library"
    /\ virtual_delete(task[t].first)
    /\ Goto(t, "deleted", task[t]) /\ UNCHANGED <<requests, late, raced, confirmed, overlapped>>

\* The answer lists what was dropped; the thread is free again.
answer_deleted(t) ==
    /\ dpc[t] = "deleted"
    /\ Answer(t) /\ late' = [late EXCEPT ![t] = {}]
    /\ UNCHANGED <<docs, requests, raced, confirmed, overlapped>>

-----------------------------------------------------------------------------
(* Updating a library: the document is read, copied, changed and merged    *)
(* back as a whole.                                                        *)

api_handle_update_library(t, n, f) ==
    /\ Receive(t)
    /\ IF Libraries(n) = {} THEN Answer(t) /\ UNCHANGED overlapped
       ELSE LET d == First(Libraries(n))
                others == {u \in DThreads : dpc[u] = "write_library" /\ task[u].first = d}
            IN  /\ Goto(t, "write_library", [NoTask EXCEPT !.first = d, !.name = f, !.set = docs[d].set \cup {f}])
                /\ overlapped' = IF others = {} THEN overlapped ELSE overlapped \cup {d}
    /\ UNCHANGED <<docs, late, raced, confirmed>>

virtual_update(d, set) == docs' = [docs EXCEPT ![d].set = IF docs[d].live THEN set ELSE @]

write_library(t) ==
    /\ dpc[t] = "write_library"
    /\ virtual_update(task[t].first, task[t].set)
    /\ confirmed' = IF docs[task[t].first].live THEN confirmed \cup {<<task[t].first, task[t].name>>} ELSE confirmed
    /\ Answer(t) /\ UNCHANGED <<requests, late, raced, overlapped>>

-----------------------------------------------------------------------------
(* Virtual collections and the documents in them.                          *)

\* The type of the documents of a collection, for reading and writing them ...
collection_to_document_type(c) ==
    CASE c = "users" -> "user" [] c = "permissions" -> "permission" [] c = "sessions" -> "session" [] OTHER -> c

\* ... and for counting them: the two tables do not hold the same names.
get_doc_type_for_virtual_collection(c) ==
    CASE c = "users" -> "user" [] c = "sessions" -> "session" [] OTHER -> c

Configured(l, c) == {d \in Found("collection", l) : docs[d].coll = "configs" /\ docs[d].name = c}

api_handle_virtual_collection_create(t, l, c) ==
    /\ Receive(t)
    /\ IF Configured(l, c) # {} THEN Answer(t) /\ UNCHANGED raced
       ELSE /\ raced' = IF Racing(t, {"create_collection"}, l, c) THEN raced \cup {<<"collection", l, c>>} ELSE raced
            /\ Goto(t, "create_collection", [NoTask EXCEPT !.lib = l, !.name = c])
    /\ UNCHANGED <<docs, late, confirmed, overlapped>>

create_collection_document(t) ==
    /\ dpc[t] = "create_collection"
    /\ virtual_insert(Document("collection", task[t].lib, "configs", task[t].name))
    /\ Answer(t) /\ UNCHANGED <<requests, raced, confirmed, overlapped>>

\* A document gets the type, library and collection of the path it was posted to.
api_handle_document_create(t, l, c, v) ==
    /\ Receive(t)
    /\ virtual_insert([Document(collection_to_document_type(c), l, c, "none") EXCEPT !.versioning = v])
    /\ UNCHANGED <<dpc, task, raced, confirmed, overlapped>>

\* ... and no place at all when it was posted to /api/documents.
api_handle_unified_documents_create(t) ==
    /\ Receive(t)
    /\ virtual_insert(Document("document", "none", "none", "none"))
    /\ UNCHANGED <<dpc, task, raced, confirmed, overlapped>>

\* Deletion looks first and deletes then; the second of two deleters answers 500.
api_handle_document_delete(t, d) ==
    /\ Receive(t) /\ d \in Live
    /\ Goto(t, "delete_document", [NoTask EXCEPT !.first = d])
    /\ UNCHANGED <<docs, late, raced, confirmed, overlapped>>

\* The same calls; the identifier is what follows /api/documents/ in the path.
api_handle_unified_document_delete(t, d) == api_handle_document_delete(t, d)

delete_document(t) ==
    /\ dpc[t] = "delete_document"
    /\ virtual_delete(task[t].first)
    /\ Answer(t) /\ UNCHANGED <<requests, late, raced, confirmed, overlapped>>

\* An update may move a document to another library: any field may be given.
api_handle_document_update(t, d, l) ==
    /\ Receive(t) /\ d \in Live /\ docs[d].type \notin {"library", "collection", "version"}
    /\ docs' = [docs EXCEPT ![d].library = l]
    /\ late' = [u \in DThreads |-> IF dpc[u] \in Listed /\ task[u].lib = l
                                   THEN late[u] \cup {d} ELSE late[u]]
    /\ UNCHANGED <<dpc, task, raced, confirmed, overlapped>>

api_handle_unified_document_update(t, d, l) == api_handle_document_update(t, d, l)

\* The documents a query of a collection lists, and the number the list of the
\* collections tells.
api_handle_documents_query(l, c) == Found(collection_to_document_type(c), l)
document_count(l, c) ==
    Cardinality({d \in Found(get_doc_type_for_virtual_collection(c), l) : docs[d].coll = c})

\* The default collections are listed after the ones that have a document, once each.
default_collections == {"users", "roles", "sessions", "metrics", "configs"}
api_handle_virtual_collections_list(l) ==
    {docs[d].name : d \in {e \in Found("collection", l) : docs[e].coll = "configs"}} \cup default_collections

-----------------------------------------------------------------------------
(* Versions of a document: a copy filed under the document's collection    *)
(* and identifier, then a search for the copies that are too many.         *)

\* The settings of the library (here: any settings enable versions), looked for in the
\* library "default" while library documents are filed in "system".
versioning_policy_get_library(l) ==
    \E d \in Found("library", "default") : docs[d].name = l /\ "settings" \in docs[d].set

\* Collection documents have no settings of their own: the library's policy is kept.
versioning_policy_get_collection(l) == versioning_policy_get_library(l)

\* The document's own word overrides both.
versioning_policy_get_document(d) ==
    IF docs[d].versioning = "unset" THEN versioning_policy_get_collection(docs[d].library)
    ELSE docs[d].versioning = "on"

\* A version is kept where the policy enables it; versions have none of their own.
versioning_create_version(t, d) ==
    /\ dpc[t] = "idle" /\ d \in Live /\ docs[d].type \notin {"version", "library", "collection"}
    /\ versioning_policy_get_document(d)
    /\ requests < MaxDocRequests /\ requests' = requests + 1
    /\ virtual_insert([Document("version", docs[d].library, "versions", "none")
                           EXCEPT !.versioning = docs[d].versioning])
    /\ Goto(t, "clean_versions", [NoTask EXCEPT !.lib = docs[d].library, !.name = docs[d].coll])
    /\ UNCHANGED <<raced, confirmed, overlapped>>

\* The query names the document's collection; the copy was filed under "versions".
versions_of(l, c) == {d \in Found("version", l) : docs[d].coll = c}

\* Every copy beyond max_versions (one here), in the order they come, is deleted.
versioning_cleanup_old_versions(t) ==
    /\ dpc[t] = "clean_versions"
    /\ LET S == versions_of(task[t].lib, task[t].name)
       IN  docs' = [d \in DOMAIN docs |-> [docs[d] EXCEPT !.live = @ /\ ~ (d \in S /\ d # First(S))]]
    /\ Answer(t) /\ UNCHANGED <<requests, late, raced, confirmed, overlapped>>

-----------------------------------------------------------------------------

LibStep(t) ==
    \/ \E n \in LibNames : api_handle_create_library(t, n) \/ api_handle_delete_library(t, n)
    \/ create_collections(t) \/ create_library_document(t)
    \/ delete_collections(t) \/ delete_data(t) \/ delete_library_document(t) \/ answer_deleted(t)
    \/ \E n \in LibNames, f \in Fields : api_handle_update_library(t, n, f)
    \/ write_library(t) \/ create_collection_document(t) \/ delete_document(t)
    \/ \E l \in LibNames, c \in CollNames :
          \/ api_handle_virtual_collection_create(t, l, c)
          \/ \E v \in {"unset", "on"} : api_handle_document_create(t, l, c, v)
    \/ api_handle_unified_documents_create(t)
    \/ \E d \in Live : api_handle_document_delete(t, d) \/ api_handle_unified_document_delete(t, d)
                       \/ versioning_create_version(t, d)
    \/ \E d \in Live, l \in LibNames :
          api_handle_document_update(t, d, l) \/ api_handle_unified_document_update(t, d, l)
    \/ versioning_cleanup_old_versions(t)

LibNext == \E t \in DThreads : LibStep(t)

LibSpec == LibInit /\ [][LibNext]_docVars

-----------------------------------------------------------------------------
(* Properties.                                                             *)

\* The documents, the handlers and the histories have their types.
LibTypeOK ==
    /\ docs \in Seq([type : Types \cup CollNames, library : LibNames \cup {"system", "none"},
                     coll : {"libraries", "collections", "configs", "versions", "none"} \cup CollNames,
                     name : LibNames \cup CollNames \cup Template \cup {"none"},
                     set : SUBSET Fields, versioning : {"unset", "on"}, live : BOOLEAN])
    /\ \A t \in DThreads : task[t].first \in 0 .. Len(docs) /\ task[t].todo \subseteq 1 .. Len(docs)

\* When a library is reported as deleted, what is still in it was put there after its
\* documents were listed: nothing that was there is passed over, also not a collection
\* document, a version or a document another request moved into the library before.
DeleteIsComplete == \A t \in DThreads : dpc[t] = "deleted" => InLibrary(task[t].lib) \subseteq late[t]

\* Two libraries of one name, and two collections of one name in a library (of those
\* created as such), come only from two requests that both looked before either inserted.
NamesTwiceOnlyIfRaced ==
    /\ \A n \in LibNames : Cardinality(Libraries(n)) > 1 => <<"library", "system", n>> \in raced
    /\ \A l \in LibNames, c \in CollNames : Cardinality(Configured(l, c)) > 1 => <<"collection", l, c>> \in raced

\* An update of a library that was answered 200 is still there as long as the library is,
\* unless another update of the same library had read the document before it was written.
LibraryUpdateKept ==
    \A p \in confirmed : docs[p[1]].live /\ p[1] \notin overlapped => p[2] \in docs[p[1]].set

\* A collection whose documents have a type that no others have: neither those of another
\* collection nor those the server files by itself.
OwnType(c) ==
    /\ collection_to_document_type(c) \notin {"library", "collection", "document", "version"}
    /\ \A b \in CollNames : collection_to_document_type(b) = collection_to_document_type(c) => b = c

\* The list of the collections counts what a query of the collection finds, for every
\* name the two type tables translate alike to a type of its own.
CountsWhatQueryFinds ==
    \A l \in LibNames, c \in CollNames :
        OwnType(c) /\ collection_to_document_type(c) = get_doc_type_for_virtual_collection(c)
            => document_count(l, c) = Cardinality(api_handle_documents_query(l, c))

\* Only a document that asks for versions has any: settings that ask for them for a whole
\* library are never found.
VersionsOnlyIfDocumentAsks ==
    \A d \in Live : docs[d].type = "version" /\ docs[d].coll = "versions" => docs[d].versioning = "on"

\* No version is ever cleaned up: the copies are filed under another collection than the
\* one they are looked for in, so a document keeps every version until its library goes.
\* (Cleaning finds them only for a document whose own collection is named "versions".)
VersionsOnlyGoWithLibrary ==
    [][\A d \in Live : docs[d].type = "version" /\ docs[d].coll = "versions" /\ ~ docs'[d].live
           => \E t \in DThreads : \/ dpc[t] \in {"delete_data", "delete_document"}
                                  \/ dpc[t] = "clean_versions" /\ task[t].name = "versions"]_docVars

\* A document that was deleted stays deleted, also when an update had read it before.
DeletedDocumentStaysDeleted == [][\A d \in DOMAIN docs : ~ docs[d].live => ~ docs'[d].live]_docVars

\* Libraries, collections and documents: deletion complete, names twice only after a
\* race, updates kept, counts that agree with queries, versions only when asked for and
\* gone only with their library.
LibrariesSound ==
    /\ [](/\ LibTypeOK
          /\ DeleteIsComplete
          /\ NamesTwiceOnlyIfRaced
          /\ LibraryUpdateKept
          /\ CountsWhatQueryFinds
          /\ VersionsOnlyIfDocumentAsks)
    /\ VersionsOnlyGoWithLibrary
    /\ DeletedDocumentStaysDeleted
===============================================================================
