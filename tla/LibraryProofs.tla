---------------------------- MODULE LibraryProofs ----------------------------
EXTENDS Libraries, Scripts, FiniteSetTheorems, SequenceTheorems, WellFoundedInduction, TLAPS

-----------------------------------------------------------------------------
(* Libraries: the inductive invariant.                                     *)

DocumentSet ==
    [type : Types \cup CollNames, library : LibNames \cup {"system", "none"},
     coll : {"libraries", "collections", "configs", "versions", "none"} \cup CollNames,
     name : LibNames \cup CollNames \cup Template \cup {"none"},
     set : SUBSET Fields, versioning : {"unset", "on"}, live : BOOLEAN]

TaskSet ==
    [lib : LibNames \cup {"system", "none"},
     name : LibNames \cup CollNames \cup Fields
            \cup {"libraries", "collections", "configs", "versions", "none"},
     first : Nat, todo : SUBSET Nat, set : SUBSET (Fields \cup Template)]

\* Threads that work on the library document they found, or on one they write back.
Deleting == {"delete_collections", "delete_data", "delete_library"}
Creating == {"create_collections", "create_library"}
OnLibrary == Deleting \cup {"write_library"}
Steps == {"idle", "deleted", "create_collection", "delete_document", "clean_versions"} \cup OnLibrary \cup Creating

LibTypes ==
    /\ docs \in Seq(DocumentSet)
    /\ dpc \in [DThreads -> Steps] /\ task \in [DThreads -> TaskSet]
    /\ late \in [DThreads -> SUBSET Nat]

\* What a handler holds, k, fits the step it is at, p, and the documents there are, ds.
Fits(p, k, ds) ==
    /\ k.first \in 0 .. Len(ds) /\ k.todo \subseteq 1 .. Len(ds)
    /\ p \in OnLibrary => k.first \in 1 .. Len(ds) /\ ds[k.first].type = "library"
    /\ p = "delete_document" => k.first \in 1 .. Len(ds)
    /\ p \in Creating => k.lib \in LibNames /\ k.name = k.lib /\ k.set \subseteq Template
    /\ p \in Deleting => k.lib \in LibNames
    /\ p = "delete_collections" => \A d \in k.todo : ds[d].type = "collection"
    /\ p = "create_collection" => k.lib \in LibNames /\ k.name \in CollNames
    /\ p = "write_library" => k.name \in k.set /\ k.set \subseteq Fields

LibTasks == \A t \in DThreads : Fits(dpc[t], task[t], docs)

\* What documents tell of how they were filed.
LibFiled ==
    /\ \A d \in 1 .. Len(docs) : docs[d].type = "version" /\ docs[d].coll = "versions" => docs[d].versioning = "on"
    /\ \A d \in 1 .. Len(docs), c \in CollNames :
          OwnType(c) /\ docs[d].type = collection_to_document_type(c) => docs[d].coll = c

\* Of a name nobody raced for: one creator at a time, none when there is one, and one in all.
Creator(t, n) == dpc[t] \in Creating /\ task[t].lib = n /\ task[t].name = n
Founder(t, l, c) == dpc[t] = "create_collection" /\ task[t].lib = l /\ task[t].name = c

LibraryNamesRaced ==
    \A n \in LibNames : <<"library", "system", n>> \notin raced =>
        /\ \A t, u \in DThreads : Creator(t, n) /\ Creator(u, n) => t = u
        /\ \A t \in DThreads : Creator(t, n) => Libraries(n) = {}
        /\ \A d, e \in Libraries(n) : d = e

CollectionNamesRaced ==
    \A l \in LibNames, c \in CollNames : <<"collection", l, c>> \notin raced =>
        /\ \A t, u \in DThreads : Founder(t, l, c) /\ Founder(u, l, c) => t = u
        /\ \A t \in DThreads : Founder(t, l, c) => Configured(l, c) = {}
        /\ \A d, e \in Configured(l, c) : d = e

\* Of a library document only one update works on: what is written contains what is there.
LibWritten ==
    /\ \A p \in confirmed : p[1] \in 1 .. Len(docs)
    /\ LibraryUpdateKept
    /\ \A t, u \in DThreads :
          /\ dpc[t] = "write_library" /\ dpc[u] = "write_library"
          /\ task[t].first = task[u].first /\ task[t].first \notin overlapped
          => t = u
    /\ \A t \in DThreads :
          dpc[t] = "write_library" /\ task[t].first \notin overlapped /\ docs[task[t].first].live
              => docs[task[t].first].set \subseteq task[t].set

\* What a deletion has not deleted yet is on its list or came after the list was made.
LibEmptied ==
    \A t \in DThreads :
        /\ dpc[t] = "delete_data" => InLibrary(task[t].lib) \subseteq task[t].todo \cup late[t]
        /\ dpc[t] \in {"delete_library", "deleted"} => InLibrary(task[t].lib) \subseteq late[t]

LibInv == LibTypes /\ LibTasks /\ LibFiled /\ LibraryNamesRaced /\ CollectionNamesRaced /\ LibWritten /\ LibEmptied
-----------------------------------------------------------------------------
(* Libraries: what the operations of the storage layer do to the documents. *)

\* A document is filed: nothing else changes.
Filed(doc) ==
    /\ docs' \in Seq(DocumentSet) /\ Len(docs') = Len(docs) + 1
    /\ docs'[Len(docs) + 1] = doc
    /\ \A e \in 1 .. Len(docs) : docs'[e] = docs[e]

\* Nothing is filed: what a document was filed under stays, except that a document of a
\* client's may change its library; what is dead stays dead.
Settled ==
    /\ docs' \in Seq(DocumentSet) /\ Len(docs') = Len(docs)
    /\ \A e \in 1 .. Len(docs) :
          /\ docs'[e].type = docs[e].type /\ docs'[e].coll = docs[e].coll /\ docs'[e].name = docs[e].name
          /\ docs'[e].versioning = docs[e].versioning
          /\ docs[e].type \in {"library", "collection", "version"} => docs'[e].library = docs[e].library
          /\ docs'[e].live => docs[e].live

\* The types of the documents filed for a client.
LEMMA TypeOfCollection ==
    \A c \in CollNames : collection_to_document_type(c) \in Types \cup CollNames
BY DEF collection_to_document_type, Types

LEMMA FiledDocument ==
    ASSUME docs \in Seq(DocumentSet), NEW doc \in DocumentSet, virtual_insert(doc)
    PROVE  Filed(doc)
  BY AppendProperties DEF virtual_insert, Filed

\* Every function on the documents' places that keeps their types is a sequence of documents.
LEMMA DocumentsAgain ==
    ASSUME docs \in Seq(DocumentSet), NEW s, s \in [1 .. Len(docs) -> DocumentSet]
    PROVE  s \in Seq(DocumentSet) /\ Len(s) = Len(docs)
  BY LenProperties, IsASeq

LEMMA DeletedDocument ==
    ASSUME docs \in Seq(DocumentSet), NEW d \in 1 .. Len(docs), virtual_delete(d)
    PROVE  /\ Settled
           /\ \A e \in 1 .. Len(docs) : docs'[e].library = docs[e].library /\ docs'[e].set = docs[e].set
           /\ ~ docs'[d].live
           /\ \A e \in 1 .. Len(docs) : e # d => docs'[e].live = docs[e].live
<1>1. docs \in [1 .. Len(docs) -> DocumentSet]
  BY LenProperties
<1> DEFINE doc == [docs[d] EXCEPT !.live = FALSE]
<1>2. /\ doc \in DocumentSet /\ ~ doc.live
      /\ doc.type = docs[d].type /\ doc.coll = docs[d].coll /\ doc.name = docs[d].name
      /\ doc.versioning = docs[d].versioning /\ doc.library = docs[d].library /\ doc.set = docs[d].set
  BY <1>1 DEF DocumentSet
<1>3. docs' = [docs EXCEPT ![d] = doc]
  BY DEF virtual_delete
<1> HIDE DEF doc
<1>4. docs' \in [1 .. Len(docs) -> DocumentSet]
  BY <1>1, <1>2, <1>3
<1>5. docs'[d] = doc /\ \A e \in 1 .. Len(docs) : e # d => docs'[e] = docs[e]
  BY <1>1, <1>3
<1> QED
  BY <1>2, <1>4, <1>5, DocumentsAgain DEF Settled

LEMMA UpdatedDocument ==
    ASSUME docs \in Seq(DocumentSet), NEW d \in 1 .. Len(docs), NEW set \in SUBSET Fields, virtual_update(d, set)
    PROVE  /\ Settled
           /\ \A e \in 1 .. Len(docs) : docs'[e].library = docs[e].library /\ docs'[e].live = docs[e].live
           /\ docs'[d].set = IF docs[d].live THEN set ELSE docs[d].set
           /\ \A e \in 1 .. Len(docs) : e # d => docs'[e].set = docs[e].set
<1>1. docs \in [1 .. Len(docs) -> DocumentSet]
  BY LenProperties
<1> DEFINE kept == IF docs[d].live THEN set ELSE docs[d].set
           doc == [docs[d] EXCEPT !.set = kept]
<1>a. kept \in SUBSET Fields
  BY <1>1 DEF DocumentSet
<1>b. docs' = [docs EXCEPT ![d] = doc]
  BY DEF virtual_update
<1> HIDE DEF kept
<1>2. /\ doc \in DocumentSet /\ doc.live = docs[d].live /\ doc.set = kept
      /\ doc.type = docs[d].type /\ doc.coll = docs[d].coll /\ doc.name = docs[d].name
      /\ doc.versioning = docs[d].versioning /\ doc.library = docs[d].library
  BY <1>1, <1>a DEF DocumentSet
<1> HIDE DEF doc
<1>4. docs' \in [1 .. Len(docs) -> DocumentSet]
  BY <1>1, <1>2, <1>b
<1>5. docs'[d] = doc /\ \A e \in 1 .. Len(docs) : e # d => docs'[e] = docs[e]
  BY <1>1, <1>b
<1> QED
  BY <1>2, <1>4, <1>5, DocumentsAgain DEF Settled, kept

LEMMA MovedDocument ==
    ASSUME docs \in Seq(DocumentSet), NEW d \in 1 .. Len(docs), NEW l \in LibNames,
           docs[d].type \notin {"library", "collection", "version"},
           docs' = [docs EXCEPT ![d].library = l]
    PROVE  /\ Settled
           /\ \A e \in 1 .. Len(docs) : docs'[e].live = docs[e].live /\ docs'[e].set = docs[e].set
           /\ docs'[d].library = l
           /\ \A e \in 1 .. Len(docs) : e # d => docs'[e].library = docs[e].library
<1>1. docs \in [1 .. Len(docs) -> DocumentSet]
  BY LenProperties
<1> DEFINE doc == [docs[d] EXCEPT !.library = l]
<1>2. /\ doc \in DocumentSet /\ doc.live = docs[d].live /\ doc.set = docs[d].set
      /\ doc.type = docs[d].type /\ doc.coll = docs[d].coll /\ doc.name = docs[d].name
      /\ doc.versioning = docs[d].versioning /\ doc.library = l
  BY <1>1 DEF DocumentSet
<1>3. docs' = [docs EXCEPT ![d] = doc]
  OBVIOUS
<1> HIDE DEF doc
<1>4. docs' \in [1 .. Len(docs) -> DocumentSet]
  BY <1>1, <1>2, <1>3
<1>5. docs'[d] = doc /\ \A e \in 1 .. Len(docs) : e # d => docs'[e] = docs[e]
  BY <1>1, <1>3
<1> QED
  BY <1>2, <1>4, <1>5, DocumentsAgain DEF Settled

LEMMA CleanedDocuments ==
    ASSUME docs \in Seq(DocumentSet), NEW t, versioning_cleanup_old_versions(t)
    PROVE  /\ Settled
           /\ \A e \in 1 .. Len(docs) : docs'[e].library = docs[e].library /\ docs'[e].set = docs[e].set
           /\ \A e \in 1 .. Len(docs) : docs[e].live /\ ~ docs'[e].live => e \in versions_of(task[t].lib, task[t].name)
<1>1. docs \in [1 .. Len(docs) -> DocumentSet]
  BY LenProperties
<1> DEFINE S == versions_of(task[t].lib, task[t].name)
           left(e) == docs[e].live /\ ~ (e \in S /\ e # First(S))
           doc(e) == [docs[e] EXCEPT !.live = left(e)]
<1>2. docs' = [e \in 1 .. Len(docs) |-> doc(e)]
  BY <1>1 DEF versioning_cleanup_old_versions
<1>a. \A e \in 1 .. Len(docs) : left(e) \in BOOLEAN /\ (left(e) => docs[e].live)
                                /\ (docs[e].live /\ ~ left(e) => e \in S)
  OBVIOUS
<1> HIDE DEF left, S
<1>3. ASSUME NEW e \in 1 .. Len(docs)
      PROVE  /\ doc(e) \in DocumentSet /\ doc(e).live = left(e) /\ doc(e).set = docs[e].set
             /\ doc(e).type = docs[e].type /\ doc(e).coll = docs[e].coll /\ doc(e).name = docs[e].name
             /\ doc(e).versioning = docs[e].versioning /\ doc(e).library = docs[e].library
  BY <1>1, <1>a DEF DocumentSet
<1> HIDE DEF doc
<1>4. docs' \in [1 .. Len(docs) -> DocumentSet]
  BY <1>2, <1>3
<1> QED
  BY <1>2, <1>3, <1>4, <1>a, DocumentsAgain DEF Settled, S
-----------------------------------------------------------------------------
(* Libraries: types, and what each handler holds.                          *)

\* A non-empty set of documents has a first one.
LEMMA FirstOfSet ==
    ASSUME NEW S \in SUBSET Nat, S # {}
    PROVE  First(S) \in S /\ \A e \in S : First(S) <= e
<1> DEFINE Below == {p \in Nat \X Nat : p[1] < p[2]}
<1>1. IsWellFoundedOn(Below, Nat)
  BY NatLessThanWellFounded DEF OpToRel
<1> HIDE DEF Below
<1>2. PICK m \in S : \A k \in S : ~ (<<k, m>> \in Below)
  BY <1>1, WFMin
<1>3. \A k \in S : ~ (k < m)
  BY <1>2 DEF Below
<1>4. \A k \in S : m <= k
  BY <1>2, <1>3
<1> QED
  BY <1>2, <1>4 DEF First

\* The documents a query finds are documents, and of the type looked for.
LEMMA FoundDocuments ==
    ASSUME docs \in Seq(DocumentSet), NEW y, NEW l
    PROVE  /\ Found(y, l) \subseteq 1 .. Len(docs) /\ Live \subseteq 1 .. Len(docs)
           /\ 1 .. Len(docs) \subseteq Nat
           /\ \A d \in Found(y, l) : docs[d].type = y /\ docs[d].library = l
  BY LenProperties DEF Found, Live

LEMMA GoingTo ==
    ASSUME LibTypes, NEW t \in DThreads, NEW p \in Steps, NEW k \in TaskSet, Goto(t, p, k)
    PROVE  /\ dpc' \in [DThreads -> Steps] /\ task' \in [DThreads -> TaskSet]
           /\ dpc'[t] = p /\ task'[t] = k
           /\ \A u \in DThreads : u # t => dpc'[u] = dpc[u] /\ task'[u] = task[u]
BY DEF Goto, LibTypes

LEMMA NoTaskFits == NoTask \in TaskSet /\ \A ds \in Seq(DocumentSet) : Fits("idle", NoTask, ds)
  BY LenProperties DEF NoTask, TaskSet, Fits, OnLibrary, Creating, Deleting

\* Documents that keep their types and places fit the handlers that held others.
LEMMA FitsStill ==
    ASSUME docs \in Seq(DocumentSet), NEW ds \in Seq(DocumentSet), Len(ds) >= Len(docs),
           \A e \in 1 .. Len(docs) : ds[e].type = docs[e].type,
           NEW p, NEW k \in TaskSet, Fits(p, k, docs)
    PROVE  Fits(p, k, ds)
  BY LenProperties DEF Fits

LEMMA KeepsTypes ==
    ASSUME docs \in Seq(DocumentSet), (\E doc \in DocumentSet : Filed(doc)) \/ Settled \/ UNCHANGED docs
    PROVE  /\ docs' \in Seq(DocumentSet) /\ Len(docs') >= Len(docs)
           /\ \A e \in 1 .. Len(docs) : docs'[e].type = docs[e].type
  BY LenProperties DEF Filed, Settled

\* A handler that goes on with what fits keeps the whole.
LEMMA GoingOn ==
    ASSUME LibTypes, LibTasks, NEW t \in DThreads, NEW p \in Steps, NEW k \in TaskSet, Goto(t, p, k),
           (\E doc \in DocumentSet : Filed(doc)) \/ Settled \/ UNCHANGED docs,
           late' \in [DThreads -> SUBSET Nat], Fits(p, k, docs')
    PROVE  LibTypes' /\ LibTasks'
<1>1. /\ docs' \in Seq(DocumentSet) /\ Len(docs') >= Len(docs)
      /\ \A e \in 1 .. Len(docs) : docs'[e].type = docs[e].type
  BY KeepsTypes DEF LibTypes
<1>2. LibTypes'
  BY <1>1, GoingTo DEF LibTypes
<1>3. ASSUME NEW u \in DThreads, u # t  PROVE Fits(dpc'[u], task'[u], docs')
  BY <1>3, GoingTo, <1>1, FitsStill DEF LibTypes, LibTasks
<1>4. Fits(dpc'[t], task'[t], docs')
  BY GoingTo
<1> QED
  BY <1>2, <1>3, <1>4 DEF LibTasks

\* An answer leaves nothing behind.
LEMMA Answering ==
    ASSUME LibTypes, LibTasks, NEW t \in DThreads, Answer(t),
           (\E doc \in DocumentSet : Filed(doc)) \/ Settled \/ UNCHANGED docs,
           late' \in [DThreads -> SUBSET Nat]
    PROVE  LibTypes' /\ LibTasks'
  BY KeepsTypes, NoTaskFits, GoingOn DEF LibTypes, Steps, Answer

\* So does a step that leaves the handlers where they are.
LEMMA StayingOn ==
    ASSUME LibTypes, LibTasks, UNCHANGED <<dpc, task>>,
           (\E doc \in DocumentSet : Filed(doc)) \/ Settled \/ UNCHANGED docs,
           late' \in [DThreads -> SUBSET Nat]
    PROVE  LibTypes' /\ LibTasks'
  BY KeepsTypes, FitsStill DEF LibTypes, LibTasks

\* A document filed puts its number in the histories only.
LEMMA LateTyped ==
    ASSUME LibTypes, NEW doc, virtual_insert(doc)
    PROVE  /\ late' \in [DThreads -> SUBSET Nat]
           /\ \A t \in DThreads : late[t] \subseteq late'[t]
           /\ \A t \in DThreads : dpc[t] \in Listed /\ task[t].lib = doc.library => Len(docs) + 1 \in late'[t]
  BY LenProperties DEF LibTypes, virtual_insert
LEMMA ShapeKept == LibTypes /\ LibTasks /\ [LibNext]_docVars => LibTypes' /\ LibTasks'
<1> SUFFICES ASSUME LibTypes, LibTasks, [LibNext]_docVars
             PROVE  LibTypes' /\ LibTasks'
  OBVIOUS
<1> USE LibrariesAssumption
<1>b. docs \in Seq(DocumentSet) /\ Len(docs) \in Nat /\ late \in [DThreads -> SUBSET Nat]
  BY LenProperties DEF LibTypes
<1>d. \A e \in 1 .. Len(docs) : docs[e] \in DocumentSet
  BY <1>b, ElementOfSeq
<1>0. CASE UNCHANGED docVars
  BY <1>0 DEF docVars, LibTypes, LibTasks
<1> SUFFICES ASSUME LibNext
             PROVE  LibTypes' /\ LibTasks'
  BY <1>0
<1> PICK t \in DThreads : LibStep(t)
  BY DEF LibNext
<1>k. task[t] \in TaskSet /\ Fits(dpc[t], task[t], docs) /\ dpc[t] \in Steps
  BY DEF LibTypes, LibTasks
<1>p. Creating \subseteq Steps /\ OnLibrary \subseteq Steps /\ Deleting \subseteq Steps
      /\ {"idle", "deleted", "create_collection", "delete_document", "clean_versions"} \subseteq Steps
      /\ {"create_collections", "create_library"} \subseteq Creating
      /\ {"delete_collections", "delete_data", "delete_library"} \subseteq Deleting
      /\ "write_library" \in OnLibrary
  BY DEF Steps, OnLibrary, Creating, Deleting
<1>1. ASSUME NEW n \in LibNames, api_handle_create_library(t, n)  PROVE LibTypes' /\ LibTasks'
  <2> DEFINE k == [NoTask EXCEPT !.lib = n, !.name = n, !.set = Template]
  <2>a. /\ k \in TaskSet /\ k.lib = n /\ k.name = n /\ k.first = 0 /\ k.todo = {} /\ k.set = Template
    BY DEF NoTask, TaskSet
  <2>1. k \in TaskSet /\ Fits("create_collections", k, docs)
    <3> HIDE DEF k
    <3> QED
      BY <1>b, <2>a DEF Fits, OnLibrary, Creating, Deleting
  <2>2. Answer(t) \/ Goto(t, "create_collections", k)
    BY <1>1 DEF api_handle_create_library
  <2>3. UNCHANGED <<docs, late>>
    BY <1>1 DEF api_handle_create_library
  <2> HIDE DEF k
  <2>4. CASE Answer(t)
    BY <2>4, <2>3, <1>b, Answering
  <2>5. CASE Goto(t, "create_collections", k)
    BY <2>5, <2>1, <2>3, <1>b, <1>p, GoingOn
  <2> QED
    BY <2>2, <2>4, <2>5
<1>2. ASSUME NEW n \in LibNames, api_handle_delete_library(t, n)  PROVE LibTypes' /\ LibTasks'
  <2> DEFINE k == [NoTask EXCEPT !.lib = n, !.name = n, !.first = First(Libraries(n)), !.todo = Found("collection", n)]
  <2>1. Libraries(n) # {} => k \in TaskSet /\ Fits("delete_collections", k, docs)
    <3> SUFFICES ASSUME Libraries(n) # {}  PROVE k \in TaskSet /\ Fits("delete_collections", k, docs)
      OBVIOUS
    <3>1. Libraries(n) \subseteq 1 .. Len(docs) /\ \A d \in Libraries(n) : docs[d].type = "library"
      BY <1>b, FoundDocuments DEF Libraries
    <3>2. First(Libraries(n)) \in Libraries(n)
      BY <1>b, <3>1, FirstOfSet
    <3>3. /\ Found("collection", n) \subseteq 1 .. Len(docs)
          /\ \A d \in Found("collection", n) : docs[d].type = "collection"
      BY <1>b, FoundDocuments
    <3>a. First(Libraries(n)) \in Nat /\ Found("collection", n) \in SUBSET Nat
      BY <1>b, <3>1, <3>2, <3>3
    <3>4. /\ k \in TaskSet /\ k.first = First(Libraries(n)) /\ k.todo = Found("collection", n) /\ k.lib = n
      BY <3>a DEF NoTask, TaskSet
    <3> HIDE DEF k
    <3> QED
      BY <1>b, <3>1, <3>2, <3>3, <3>4 DEF Fits, OnLibrary, Creating, Deleting
  <2>2. Answer(t) \/ (Libraries(n) # {} /\ Goto(t, "delete_collections", k))
    BY <1>2 DEF api_handle_delete_library
  <2>3. UNCHANGED <<docs, late>>
    BY <1>2 DEF api_handle_delete_library
  <2> HIDE DEF k
  <2>4. CASE Answer(t)
    BY <2>4, <2>3, <1>b, Answering
  <2>5. CASE Goto(t, "delete_collections", k) /\ Libraries(n) # {}
    BY <2>5, <2>1, <2>3, <1>b, <1>p, GoingOn
  <2> QED
    BY <2>2, <2>4, <2>5
<1>3. ASSUME create_collections(t)  PROVE LibTypes' /\ LibTasks'
  <2>1. /\ dpc[t] = "create_collections" /\ task[t].lib \in LibNames /\ task[t].name = task[t].lib
        /\ task[t].set \subseteq Template
    BY <1>3, <1>k, <1>p DEF create_collections, Fits
  <2> DEFINE k(c) == [task[t] EXCEPT !.set = @ \ {c}]
             doc(c) == Document("collection", task[t].lib, "collections", c)
  <2>2. ASSUME NEW c \in task[t].set
        PROVE  k(c) \in TaskSet /\ Fits("create_collections", k(c), docs)
    <3>1. /\ k(c) \in TaskSet /\ k(c).lib = task[t].lib /\ k(c).name = task[t].name
          /\ k(c).first = task[t].first /\ k(c).todo = task[t].todo /\ k(c).set = task[t].set \ {c}
      BY <1>k, <2>1 DEF TaskSet
    <3> HIDE DEF k
    <3> QED
      BY <1>k, <2>1, <3>1 DEF Fits, OnLibrary, Creating, Deleting
  <2>3. ASSUME NEW c \in task[t].set  PROVE doc(c) \in DocumentSet
    BY <2>1 DEF Document, DocumentSet, Types
  <2>4. CASE \E c \in task[t].set : virtual_insert(doc(c)) /\ Goto(t, "create_collections", k(c))
    <3>1. PICK c \in task[t].set : virtual_insert(doc(c)) /\ Goto(t, "create_collections", k(c))
      BY <2>4
    <3>2. k(c) \in TaskSet /\ Fits("create_collections", k(c), docs) /\ doc(c) \in DocumentSet
      BY <2>2, <2>3, <3>1
    <3> HIDE DEF k, doc
    <3>3. Filed(doc(c)) /\ late' \in [DThreads -> SUBSET Nat]
      BY <1>b, <3>1, <3>2, FiledDocument, LateTyped
    <3>4. Fits("create_collections", k(c), docs')
      BY <1>b, <3>2, <3>3, FitsStill, KeepsTypes
    <3> QED
      BY <1>p, <3>1, <3>2, <3>3, <3>4, GoingOn
  <2>5. CASE \E c \in task[t].set : Goto(t, "create_collections", k(c)) /\ UNCHANGED <<docs, late>>
    <3>1. PICK c \in task[t].set : Goto(t, "create_collections", k(c)) /\ UNCHANGED <<docs, late>>
      BY <2>5
    <3>2. k(c) \in TaskSet /\ Fits("create_collections", k(c), docs)
      BY <2>2, <3>1
    <3> HIDE DEF k
    <3> QED
      BY <1>b, <1>p, <3>1, <3>2, GoingOn
  <2>6. CASE Goto(t, "create_library", task[t]) /\ UNCHANGED <<docs, late>>
    BY <1>k, <2>1, <1>b, <1>p, <2>6, GoingOn DEF Fits, OnLibrary, Creating, Deleting
  <2> QED
    BY <1>3, <2>4, <2>5, <2>6 DEF create_collections
<1>4. ASSUME create_library_document(t)  PROVE LibTypes' /\ LibTasks'
  <2> DEFINE doc == Document("library", "system", "libraries", task[t].name)
  <2>1. dpc[t] = "create_library" /\ task[t].name \in LibNames
    BY <1>4, <1>k, <1>p DEF create_library_document, Fits
  <2>2. doc \in DocumentSet
    BY <2>1 DEF Document, DocumentSet, Types
  <2>3. virtual_insert(doc) /\ Answer(t)
    BY <1>4 DEF create_library_document
  <2> HIDE DEF doc
  <2> QED
    BY <1>b, <2>2, <2>3, FiledDocument, LateTyped, Answering
<1>5. ASSUME NEW d \in task[t].todo, virtual_delete(d), Goto(t, dpc[t], [task[t] EXCEPT !.todo = @ \ {d}]),
             UNCHANGED late
      PROVE  LibTypes' /\ LibTasks'
  <2> DEFINE k == [task[t] EXCEPT !.todo = @ \ {d}]
  <2>1. d \in 1 .. Len(docs)
    BY <1>k DEF Fits
  <2>2. /\ k \in TaskSet /\ k.lib = task[t].lib /\ k.name = task[t].name
        /\ k.first = task[t].first /\ k.todo = task[t].todo \ {d} /\ k.set = task[t].set
    BY <1>k DEF TaskSet
  <2>g. Goto(t, dpc[t], k)
    BY <1>5
  <2> HIDE DEF k
  <2>3. Fits(dpc[t], k, docs)
    BY <1>k, <2>2 DEF Fits
  <2>4. Settled
    BY <1>b, <1>5, <2>1, DeletedDocument
  <2>5. Fits(dpc[t], k, docs')
    BY <1>b, <2>2, <2>3, <2>4, FitsStill, KeepsTypes
  <2> QED
    BY <1>b, <1>k, <1>5, <2>g, <2>2, <2>4, <2>5, GoingOn
<1>6. ASSUME delete_collections(t)  PROVE LibTypes' /\ LibTasks'
  <2>1. dpc[t] = "delete_collections"
    BY <1>6 DEF delete_collections
  <2>2. CASE delete_next(t) /\ UNCHANGED late
    BY <1>5, <2>2 DEF delete_next
  <2>3. CASE Goto(t, "delete_data", [task[t] EXCEPT !.todo = list_data(t)]) /\ late' = [late EXCEPT ![t] = {}]
              /\ UNCHANGED docs
    <3> DEFINE k == [task[t] EXCEPT !.todo = list_data(t)]
    <3>1. list_data(t) \subseteq 1 .. Len(docs) /\ 1 .. Len(docs) \subseteq Nat
      BY <1>b DEF list_data, InLibrary, Live
    <3>2. /\ k \in TaskSet /\ k.lib = task[t].lib /\ k.first = task[t].first /\ k.todo = list_data(t)
      BY <1>k, <3>1 DEF TaskSet
    <3>g. Goto(t, "delete_data", k)
      BY <2>3
    <3> HIDE DEF k
    <3>3. Fits("delete_data", k, docs)
      BY <1>k, <2>1, <3>1, <3>2 DEF Fits, OnLibrary, Creating, Deleting
    <3>4. late' \in [DThreads -> SUBSET Nat]
      BY <1>b, <2>3
    <3> QED
      BY <1>p, <2>3, <3>g, <3>2, <3>3, <3>4, GoingOn
  <2> QED
    BY <1>6, <2>2, <2>3 DEF delete_collections
<1>7. ASSUME delete_data(t)  PROVE LibTypes' /\ LibTasks'
  BY <1>7, <1>5, <1>k, <1>b, <1>p, GoingOn DEF delete_data, delete_next, Fits, OnLibrary, Creating, Deleting
<1>8. ASSUME delete_library_document(t)  PROVE LibTypes' /\ LibTasks'
  BY <1>8, <1>k, <1>b, DeletedDocument, FitsStill, KeepsTypes, <1>p, GoingOn DEF delete_library_document, Fits,
     OnLibrary, Creating, Deleting
<1>9. ASSUME answer_deleted(t)  PROVE LibTypes' /\ LibTasks'
  BY <1>9, <1>b, Answering DEF answer_deleted
<1>10. ASSUME NEW n \in LibNames, NEW f \in Fields, api_handle_update_library(t, n, f)
       PROVE  LibTypes' /\ LibTasks'
  <2> DEFINE d == First(Libraries(n))
             k == [NoTask EXCEPT !.first = d, !.name = f, !.set = docs[d].set \cup {f}]
  <2>1. UNCHANGED <<docs, late>>
    BY <1>10 DEF api_handle_update_library
  <2>2. CASE Answer(t)
    BY <1>b, <2>1, <2>2, Answering
  <2>3. CASE Libraries(n) # {} /\ Goto(t, "write_library", k)
    <3>1. Libraries(n) \subseteq 1 .. Len(docs) /\ \A e \in Libraries(n) : docs[e].type = "library"
      BY <1>b, FoundDocuments DEF Libraries
    <3>2. d \in Libraries(n)
      BY <1>b, <2>3, <3>1, FirstOfSet
    <3>3. d \in 1 .. Len(docs) /\ d \in Nat /\ docs[d].type = "library" /\ docs[d].set \subseteq Fields
      BY <1>b, <1>d, <3>1, <3>2 DEF DocumentSet
    <3> HIDE DEF d
    <3>4. /\ k \in TaskSet /\ k.first = d /\ k.name = f /\ k.set = docs[d].set \cup {f} /\ k.todo = {}
      BY <3>3 DEF NoTask, TaskSet
    <3>g. Goto(t, "write_library", k)
      BY <2>3 DEF d
    <3> HIDE DEF k
    <3>5. Fits("write_library", k, docs)
      BY <1>b, <3>3, <3>4 DEF Fits, OnLibrary, Creating, Deleting
    <3> QED
      BY <1>b, <1>p, <2>1, <3>g, <3>4, <3>5, GoingOn
  <2> QED
    BY <1>10, <2>2, <2>3 DEF api_handle_update_library
<1>11. ASSUME write_library(t)  PROVE LibTypes' /\ LibTasks'
  BY <1>11, <1>k, <1>p, <1>b, UpdatedDocument, Answering DEF write_library, Fits
<1>12. ASSUME create_collection_document(t)  PROVE LibTypes' /\ LibTasks'
  <2> DEFINE doc == Document("collection", task[t].lib, "configs", task[t].name)
  <2>1. dpc[t] = "create_collection" /\ task[t].lib \in LibNames /\ task[t].name \in CollNames
    BY <1>12, <1>k DEF create_collection_document, Fits
  <2>2. doc \in DocumentSet
    BY <2>1 DEF Document, DocumentSet, Types
  <2>3. virtual_insert(doc) /\ Answer(t)
    BY <1>12 DEF create_collection_document
  <2> HIDE DEF doc
  <2> QED
    BY <1>b, <2>2, <2>3, FiledDocument, LateTyped, Answering
<1>13. ASSUME delete_document(t)  PROVE LibTypes' /\ LibTasks'
  BY <1>13, <1>k, <1>b, DeletedDocument, Answering DEF delete_document, Fits
<1>14. ASSUME NEW l \in LibNames, NEW c \in CollNames, api_handle_virtual_collection_create(t, l, c)
       PROVE  LibTypes' /\ LibTasks'
  <2> DEFINE k == [NoTask EXCEPT !.lib = l, !.name = c]
  <2>1. UNCHANGED <<docs, late>>
    BY <1>14 DEF api_handle_virtual_collection_create
  <2>2. CASE Answer(t)
    BY <1>b, <2>1, <2>2, Answering
  <2>3. CASE Goto(t, "create_collection", k)
    <3>1. k \in TaskSet /\ k.lib = l /\ k.name = c /\ k.first = 0 /\ k.todo = {}
      BY DEF NoTask, TaskSet
    <3> HIDE DEF k
    <3>2. Fits("create_collection", k, docs)
      BY <1>b, <3>1 DEF Fits, OnLibrary, Creating, Deleting
    <3> QED
      BY <1>b, <1>p, <2>1, <2>3, <3>1, <3>2, GoingOn
  <2> QED
    BY <1>14, <2>2, <2>3 DEF api_handle_virtual_collection_create
<1>15. ASSUME NEW l \in LibNames, NEW c \in CollNames, NEW v \in {"unset", "on"}, api_handle_document_create(t, l, c, v)
       PROVE  LibTypes' /\ LibTasks'
  <2> DEFINE doc == [Document(collection_to_document_type(c), l, c, "none") EXCEPT !.versioning = v]
  <2>1. virtual_insert(doc) /\ UNCHANGED <<dpc, task>>
    BY <1>15 DEF api_handle_document_create
  <2>2. doc \in DocumentSet
    BY TypeOfCollection DEF Document, DocumentSet
  <2> HIDE DEF doc
  <2> QED
    BY <1>b, <2>1, <2>2, FiledDocument, LateTyped, StayingOn
<1>16. ASSUME api_handle_unified_documents_create(t)  PROVE LibTypes' /\ LibTasks'
  <2> DEFINE doc == Document("document", "none", "none", "none")
  <2>1. virtual_insert(doc) /\ UNCHANGED <<dpc, task>>
    BY <1>16 DEF api_handle_unified_documents_create
  <2>2. doc \in DocumentSet
    BY DEF Document, DocumentSet, Types
  <2> HIDE DEF doc
  <2> QED
    BY <1>b, <2>1, <2>2, FiledDocument, LateTyped, StayingOn
<1>17. ASSUME NEW d \in Live, api_handle_document_delete(t, d)  PROVE LibTypes' /\ LibTasks'
  <2> DEFINE k == [NoTask EXCEPT !.first = d]
  <2>1. UNCHANGED <<docs, late>> /\ Goto(t, "delete_document", k)
    BY <1>17 DEF api_handle_document_delete
  <2>2. d \in 1 .. Len(docs) /\ d \in Nat
    BY <1>b DEF Live
  <2>3. k \in TaskSet /\ k.first = d /\ k.todo = {}
    BY <2>2 DEF NoTask, TaskSet
  <2> HIDE DEF k
  <2>4. Fits("delete_document", k, docs)
    BY <1>b, <2>2, <2>3 DEF Fits, OnLibrary, Creating, Deleting
  <2> QED
    BY <1>b, <1>p, <2>1, <2>3, <2>4, GoingOn
<1>18. ASSUME NEW d \in Live, NEW l \in LibNames, api_handle_document_update(t, d, l)  PROVE LibTypes' /\ LibTasks'
  <2>1. d \in 1 .. Len(docs) /\ d \in Nat
    BY <1>b DEF Live
  <2>2. Settled /\ UNCHANGED <<dpc, task>>
    BY <1>b, <1>18, <2>1, MovedDocument DEF api_handle_document_update
  <2>3. late' \in [DThreads -> SUBSET Nat]
    BY <1>b, <1>18, <2>1 DEF api_handle_document_update
  <2> QED
    BY <2>2, <2>3, StayingOn
<1>19. ASSUME NEW d \in Live, versioning_create_version(t, d)  PROVE LibTypes' /\ LibTasks'
  <2> DEFINE doc == [Document("version", docs[d].library, "versions", "none") EXCEPT !.versioning = docs[d].versioning]
             k == [NoTask EXCEPT !.lib = docs[d].library, !.name = docs[d].coll]
  <2>1. virtual_insert(doc) /\ Goto(t, "clean_versions", k)
    BY <1>19 DEF versioning_create_version
  <2>2. /\ docs[d].library \in LibNames \cup {"system", "none"} /\ docs[d].versioning \in {"unset", "on"}
        /\ docs[d].coll \in {"libraries", "collections", "configs", "versions", "none"} \cup CollNames
    BY <1>d DEF Live, DocumentSet
  <2>3. doc \in DocumentSet
    BY <2>2 DEF Document, DocumentSet, Types
  <2>4. k \in TaskSet /\ k.first = 0 /\ k.todo = {}
    BY <2>2 DEF NoTask, TaskSet
  <2> HIDE DEF doc, k
  <2>5. Filed(doc) /\ late' \in [DThreads -> SUBSET Nat]
    BY <1>b, <2>1, <2>3, FiledDocument, LateTyped
  <2>6. Fits("clean_versions", k, docs)
    BY <1>b, <2>4 DEF Fits, OnLibrary, Creating, Deleting
  <2>7. Fits("clean_versions", k, docs')
    BY <1>b, <2>3, <2>4, <2>5, <2>6, FitsStill, KeepsTypes
  <2> QED
    BY <1>p, <2>1, <2>3, <2>4, <2>5, <2>7, GoingOn
<1>20. ASSUME versioning_cleanup_old_versions(t)  PROVE LibTypes' /\ LibTasks'
  BY <1>20, <1>b, CleanedDocuments, Answering DEF versioning_cleanup_old_versions
<1> QED
  BY <1>1, <1>2, <1>3, <1>4, <1>6, <1>7, <1>8, <1>9, <1>10, <1>11, <1>12, <1>13, <1>14, <1>15, <1>16, <1>17,
     <1>18, <1>19, <1>20
     DEF LibStep, api_handle_unified_document_delete, api_handle_unified_document_update
-----------------------------------------------------------------------------
(* Libraries: what is filed, and by whom.                                  *)

\* What a step of t's handler may file.
Placed(t, doc) ==
    \/ doc.type = "collection" /\ doc.coll = "collections"
    \/ /\ dpc[t] = "create_library" /\ doc.type = "library" /\ doc.coll = "libraries"
       /\ doc.library = "system" /\ doc.name = task[t].name
    \/ /\ dpc[t] = "create_collection" /\ doc.type = "collection" /\ doc.coll = "configs"
       /\ doc.library = task[t].lib /\ doc.name = task[t].name
    \/ /\ doc.library \in LibNames /\ doc.coll \in CollNames
       /\ doc.type = collection_to_document_type(doc.coll)
    \/ doc.type = "document" /\ doc.coll = "none"
    \/ doc.type = "version" /\ doc.coll = "versions" /\ doc.versioning = "on"

LEMMA DocsEffect ==
    ASSUME LibTypes, LibTasks, NEW t \in DThreads, LibStep(t)
    PROVE  \/ UNCHANGED docs
           \/ Settled
           \/ \E doc \in DocumentSet : virtual_insert(doc) /\ Filed(doc) /\ Placed(t, doc)
<1> DEFINE Goal == \/ UNCHANGED docs
                   \/ Settled
                   \/ \E doc \in DocumentSet : virtual_insert(doc) /\ Filed(doc) /\ Placed(t, doc)
<1> USE LibrariesAssumption
<1>b. docs \in Seq(DocumentSet) /\ Len(docs) \in Nat
  BY LenProperties DEF LibTypes
<1>d. \A e \in 1 .. Len(docs) : docs[e] \in DocumentSet
  BY <1>b, ElementOfSeq
<1>k. task[t] \in TaskSet /\ Fits(dpc[t], task[t], docs) /\ dpc[t] \in Steps
  BY DEF LibTypes, LibTasks
<1>i. ASSUME NEW doc \in DocumentSet, virtual_insert(doc), Placed(t, doc)  PROVE Goal
  BY <1>b, <1>i, FiledDocument
<1>r. ASSUME NEW d \in 1 .. Len(docs), virtual_delete(d)  PROVE Goal
  BY <1>b, <1>r, DeletedDocument
<1> HIDE DEF Goal
<1>e. UNCHANGED docs \/ Settled => Goal
  BY DEF Goal
<1>1. ASSUME \/ \E n \in LibNames : api_handle_create_library(t, n) \/ api_handle_delete_library(t, n)
             \/ answer_deleted(t)
             \/ \E n \in LibNames, f \in Fields : api_handle_update_library(t, n, f)
             \/ \E l \in LibNames, c \in CollNames : api_handle_virtual_collection_create(t, l, c)
             \/ \E d \in Live : api_handle_document_delete(t, d)
      PROVE  Goal
  BY <1>1, <1>e DEF api_handle_create_library, api_handle_delete_library, answer_deleted,
     api_handle_update_library, api_handle_virtual_collection_create, api_handle_document_delete
<1>2. ASSUME create_collections(t)  PROVE Goal
  <2> DEFINE doc(c) == Document("collection", task[t].lib, "collections", c)
  <2>1. /\ dpc[t] = "create_collections" /\ task[t].lib \in LibNames /\ task[t].set \subseteq Template
    BY <1>2, <1>k DEF create_collections, Fits, Creating
  <2>2. ASSUME NEW c \in task[t].set  PROVE doc(c) \in DocumentSet /\ Placed(t, doc(c))
    BY <2>1 DEF Document, DocumentSet, Types, Placed
  <2>3. UNCHANGED docs \/ \E c \in task[t].set : virtual_insert(doc(c))
    BY <1>2 DEF create_collections
  <2> HIDE DEF doc
  <2> QED
    BY <1>e, <1>i, <2>2, <2>3
<1>3. ASSUME create_library_document(t)  PROVE Goal
  <2> DEFINE doc == Document("library", "system", "libraries", task[t].name)
  <2>1. dpc[t] = "create_library" /\ task[t].name \in LibNames
    BY <1>3, <1>k DEF create_library_document, Fits, Creating
  <2>2. doc \in DocumentSet /\ Placed(t, doc)
    BY <2>1 DEF Document, DocumentSet, Types, Placed
  <2>3. virtual_insert(doc)
    BY <1>3 DEF create_library_document
  <2> HIDE DEF doc
  <2> QED
    BY <1>i, <2>2, <2>3
<1>4. ASSUME NEW d \in task[t].todo, virtual_delete(d)  PROVE Goal
  BY <1>4, <1>k, <1>r DEF Fits
<1>5. ASSUME delete_collections(t) \/ delete_data(t)  PROVE Goal
  BY <1>4, <1>5, <1>e DEF delete_collections, delete_data, delete_next
<1>6. ASSUME delete_library_document(t) \/ delete_document(t)  PROVE Goal
  BY <1>6, <1>k, <1>r DEF delete_library_document, delete_document, Fits, OnLibrary, Deleting
<1>7. ASSUME write_library(t)  PROVE Goal
  BY <1>7, <1>k, <1>b, <1>e, UpdatedDocument DEF write_library, Fits, OnLibrary
<1>8. ASSUME create_collection_document(t)  PROVE Goal
  <2> DEFINE doc == Document("collection", task[t].lib, "configs", task[t].name)
  <2>1. dpc[t] = "create_collection" /\ task[t].lib \in LibNames /\ task[t].name \in CollNames
    BY <1>8, <1>k DEF create_collection_document, Fits
  <2>2. doc \in DocumentSet /\ Placed(t, doc)
    BY <2>1 DEF Document, DocumentSet, Types, Placed
  <2>3. virtual_insert(doc)
    BY <1>8 DEF create_collection_document
  <2> HIDE DEF doc
  <2> QED
    BY <1>i, <2>2, <2>3
<1>9. ASSUME NEW l \in LibNames, NEW c \in CollNames, NEW v \in {"unset", "on"}, api_handle_document_create(t, l, c, v)
      PROVE  Goal
  <2> DEFINE doc == [Document(collection_to_document_type(c), l, c, "none") EXCEPT !.versioning = v]
  <2>1. virtual_insert(doc)
    BY <1>9 DEF api_handle_document_create
  <2>2. doc \in DocumentSet /\ doc.library = l /\ doc.coll = c /\ doc.type = collection_to_document_type(c)
    BY TypeOfCollection DEF Document, DocumentSet
  <2> HIDE DEF doc
  <2>3. Placed(t, doc)
    BY <2>2 DEF Placed
  <2> QED
    BY <1>i, <2>1, <2>2, <2>3
<1>10. ASSUME api_handle_unified_documents_create(t)  PROVE Goal
  <2> DEFINE doc == Document("document", "none", "none", "none")
  <2>1. virtual_insert(doc)
    BY <1>10 DEF api_handle_unified_documents_create
  <2>2. doc \in DocumentSet /\ Placed(t, doc)
    BY DEF Document, DocumentSet, Types, Placed
  <2> HIDE DEF doc
  <2> QED
    BY <1>i, <2>1, <2>2
<1>11. ASSUME NEW d \in Live, NEW l \in LibNames, api_handle_document_update(t, d, l)  PROVE Goal
  BY <1>b, <1>e, <1>11, MovedDocument DEF Live, api_handle_document_update
<1>12. ASSUME NEW d \in Live, versioning_create_version(t, d)  PROVE Goal
  <2> DEFINE doc == [Document("version", docs[d].library, "versions", "none") EXCEPT !.versioning = docs[d].versioning]
  <2>1. virtual_insert(doc)
    BY <1>12 DEF versioning_create_version
  <2>2. docs[d] \in DocumentSet
    BY <1>d DEF Live
  <2>3. docs[d].library \in LibNames \cup {"system", "none"} /\ docs[d].versioning \in {"unset", "on"}
    BY <2>2 DEF DocumentSet
  <2>4. \A l : ~ versioning_policy_get_library(l)
    <3> SUFFICES ASSUME NEW e \in Found("library", "default")  PROVE FALSE
      BY DEF versioning_policy_get_library
    <3>1. docs[e] \in DocumentSet /\ docs[e].library = "default"
      BY <1>b, <1>d, FoundDocuments
    <3> QED
      BY <3>1 DEF DocumentSet
  <2>5. docs[d].versioning = "on"
    BY <1>12, <2>3, <2>4 DEF versioning_create_version, versioning_policy_get_document, versioning_policy_get_collection
  <2>6. doc \in DocumentSet /\ doc.type = "version" /\ doc.coll = "versions" /\ doc.versioning = "on"
    BY <2>3, <2>5 DEF Document, DocumentSet, Types
  <2> HIDE DEF doc
  <2> QED
    BY <1>i, <2>1, <2>6 DEF Placed
<1>13. ASSUME versioning_cleanup_old_versions(t)  PROVE Goal
  BY <1>b, <1>e, <1>13, CleanedDocuments
<1>14. Goal
  BY <1>1, <1>2, <1>3, <1>5, <1>6, <1>7, <1>8, <1>9, <1>10, <1>11, <1>12, <1>13
     DEF LibStep, api_handle_unified_document_delete, api_handle_unified_document_update
<1> QED
  BY <1>14 DEF Goal

\* What documents tell of how they were filed stays true.
LEMMA FiledKept ==
    ASSUME LibTypes, LibTasks, LibFiled, NEW t \in DThreads, LibStep(t)
    PROVE  LibFiled'
<1>b. docs \in Seq(DocumentSet) /\ Len(docs) \in Nat
  BY LenProperties DEF LibTypes
<1>1. CASE UNCHANGED docs
  BY <1>1 DEF LibFiled
<1>2. CASE Settled
  BY <1>2 DEF Settled, LibFiled
<1>3. CASE \E doc \in DocumentSet : Filed(doc) /\ Placed(t, doc)
  <2> PICK doc \in DocumentSet : Filed(doc) /\ Placed(t, doc)
    BY <1>3
  <2>1. /\ Len(docs') = Len(docs) + 1 /\ docs'[Len(docs) + 1] = doc
        /\ \A e \in 1 .. Len(docs) : docs'[e] = docs[e]
    BY DEF Filed
  <2>2. \A e \in 1 .. Len(docs') : e = Len(docs) + 1 \/ e \in 1 .. Len(docs)
    BY <1>b, <2>1
  <2>3. doc.type = "version" /\ doc.coll = "versions" => doc.versioning = "on"
    BY DEF Placed, collection_to_document_type
  <2>4. ASSUME NEW c \in CollNames, OwnType(c), doc.type = collection_to_document_type(c)  PROVE doc.coll = c
    BY <2>4 DEF Placed, OwnType
  <2> QED
    BY <2>1, <2>2, <2>3, <2>4 DEF LibFiled
<1> QED
  BY <1>1, <1>2, <1>3, DocsEffect
-----------------------------------------------------------------------------
(* Libraries: names that are there twice.                                  *)

\* What a query of libraries or of collections finds, when nothing of the kind is filed.
LEMMA FoundAgain ==
    ASSUME docs \in Seq(DocumentSet), NEW y \in {"library", "collection"}, NEW l,
           \/ UNCHANGED docs
           \/ Settled
           \/ \E doc \in DocumentSet : Filed(doc) /\ ~ (doc.type = y /\ doc.library = l)
    PROVE  /\ Found(y, l)' \subseteq Found(y, l)
           /\ \A d \in Found(y, l)' : docs'[d].name = docs[d].name /\ docs'[d].coll = docs[d].coll
<1>b. Len(docs) \in Nat
  BY LenProperties
<1>1. CASE UNCHANGED docs
  BY <1>1 DEF Found, Live
<1>2. CASE Settled
  BY <1>2 DEF Settled, Found, Live
<1>3. CASE \E doc \in DocumentSet : Filed(doc) /\ ~ (doc.type = y /\ doc.library = l)
  <2> PICK doc \in DocumentSet : Filed(doc) /\ ~ (doc.type = y /\ doc.library = l)
    BY <1>3
  <2>1. \A e \in 1 .. Len(docs') : e = Len(docs) + 1 \/ e \in 1 .. Len(docs)
    BY <1>b DEF Filed
  <2> QED
    BY <2>1 DEF Filed, Found, Live
<1> QED
  BY <1>1, <1>2, <1>3

\* The steps after which there are new creators or new libraries and collections.
BeginsLibrary(t) == \E n \in LibNames : api_handle_create_library(t, n)
BeginsCollection(t) == \E l \in LibNames, c \in CollNames : api_handle_virtual_collection_create(t, l, c)

\* No other step makes a creator of a handler.
LEMMA CreatorsEffect ==
    ASSUME LibTypes, LibTasks, NEW t \in DThreads, LibStep(t)
    PROVE  /\ raced \subseteq raced'
           /\ \A u \in DThreads : u # t => dpc'[u] = dpc[u] /\ task'[u] = task[u]
           /\ ~ BeginsLibrary(t) => \A n : Creator(t, n)' => Creator(t, n)
           /\ ~ BeginsCollection(t) => \A l, c : Founder(t, l, c)' => Founder(t, l, c)
<1> DEFINE Others == \A u \in DThreads : u # t => dpc'[u] = dpc[u] /\ task'[u] = task[u]
           Same == Others /\ (\A n : Creator(t, n)' => Creator(t, n))
                          /\ (\A l, c : Founder(t, l, c)' => Founder(t, l, c))
<1>f. dpc \in [DThreads -> Steps] /\ task \in [DThreads -> TaskSet]
  BY DEF LibTypes
<1>g. ASSUME NEW p, NEW k, Goto(t, p, k)  PROVE Others /\ dpc'[t] = p /\ task'[t] = k
  BY <1>f, <1>g DEF Goto
<1>h. ASSUME NEW p, NEW k, Goto(t, p, k), p \notin Creating, p # "create_collection"  PROVE Same
  BY <1>g, <1>h DEF Creator, Founder
<1>i. ASSUME Answer(t)  PROVE Same
  BY <1>h, <1>i DEF Answer, Creating
<1>j. ASSUME UNCHANGED <<dpc, task>>  PROVE Same
  BY <1>j DEF Creator, Founder
<1>1. raced \subseteq raced'
  BY DEF LibStep, api_handle_create_library, api_handle_delete_library, create_collections,
     create_library_document, delete_collections, delete_data, delete_library_document, answer_deleted,
     api_handle_update_library, write_library, create_collection_document, delete_document,
     api_handle_virtual_collection_create, api_handle_document_create, api_handle_unified_documents_create,
     api_handle_document_delete, api_handle_unified_document_delete, versioning_create_version,
     api_handle_document_update, api_handle_unified_document_update, versioning_cleanup_old_versions
<1>2. CASE BeginsLibrary(t)
  <2> PICK n \in LibNames : api_handle_create_library(t, n)
    BY <1>2 DEF BeginsLibrary
  <2> DEFINE k == [NoTask EXCEPT !.lib = n, !.name = n, !.set = Template]
  <2>1. Answer(t) \/ Goto(t, "create_collections", k)
    BY DEF api_handle_create_library
  <2> HIDE DEF k
  <2>2. Goto(t, "create_collections", k) => Others /\ \A l, c : Founder(t, l, c)' => Founder(t, l, c)
    BY <1>g DEF Founder
  <2> QED
    BY <1>1, <1>2, <1>i, <2>1, <2>2
<1>3. CASE BeginsCollection(t)
  <2> PICK l \in LibNames, c \in CollNames : api_handle_virtual_collection_create(t, l, c)
    BY <1>3 DEF BeginsCollection
  <2> DEFINE k == [NoTask EXCEPT !.lib = l, !.name = c]
  <2>1. Answer(t) \/ Goto(t, "create_collection", k)
    BY DEF api_handle_virtual_collection_create
  <2> HIDE DEF k
  <2>2. Goto(t, "create_collection", k) => Others /\ \A n : Creator(t, n)' => Creator(t, n)
    BY <1>g DEF Creator, Creating
  <2> QED
    BY <1>1, <1>3, <1>i, <2>1, <2>2
<1>4. CASE create_collections(t)
  <2>1. dpc[t] = "create_collections"
    BY <1>4 DEF create_collections
  <2>2. ASSUME NEW c \in task[t].set, Goto(t, "create_collections", [task[t] EXCEPT !.set = @ \ {c}])  PROVE Same
    BY <1>f, <1>g, <2>1, <2>2 DEF TaskSet, Creator, Founder, Creating
  <2>3. ASSUME Goto(t, "create_library", task[t])  PROVE Same
    BY <1>g, <2>1, <2>3 DEF Creator, Founder, Creating
  <2>4. Same
    BY <1>4, <2>2, <2>3 DEF create_collections
  <2> QED
    BY <1>1, <2>4
<1>5. CASE delete_collections(t) \/ delete_data(t)
  <2>1. dpc[t] \in {"delete_collections", "delete_data"}
    BY <1>5 DEF delete_collections, delete_data
  <2>2. \E p \in {"delete_collections", "delete_data", "delete_library"} : \E k : Goto(t, p, k)
    BY <1>5, <2>1 DEF delete_collections, delete_data, delete_next
  <2>3. Same
    BY <1>h, <2>2 DEF Creating
  <2> QED
    BY <1>1, <2>3
<1>6. CASE \/ \E n \in LibNames : api_handle_delete_library(t, n)
           \/ delete_library_document(t)
           \/ \E n \in LibNames, f \in Fields : api_handle_update_library(t, n, f)
           \/ \E d \in Live : api_handle_document_delete(t, d) \/ versioning_create_version(t, d)
  <2>1. Answer(t) \/ \E p \in {"delete_collections", "deleted", "write_library", "delete_document", "clean_versions"} :
              \E k : Goto(t, p, k)
    BY <1>6 DEF api_handle_delete_library, delete_library_document, api_handle_update_library,
       api_handle_document_delete, versioning_create_version
  <2>2. Same
    BY <1>h, <1>i, <2>1 DEF Creating
  <2> QED
    BY <1>1, <2>2
<1>7. CASE create_library_document(t) \/ answer_deleted(t) \/ write_library(t) \/ create_collection_document(t)
           \/ delete_document(t) \/ versioning_cleanup_old_versions(t)
  <2>1. Same
    BY <1>7, <1>i DEF create_library_document, answer_deleted, write_library, create_collection_document,
       delete_document, versioning_cleanup_old_versions
  <2> QED
    BY <1>1, <2>1
<1>8. CASE \/ \E l \in LibNames, c \in CollNames, v \in {"unset", "on"} : api_handle_document_create(t, l, c, v)
           \/ api_handle_unified_documents_create(t)
           \/ \E d \in Live, l \in LibNames : api_handle_document_update(t, d, l)
  BY <1>8, <1>j, <1>1 DEF api_handle_document_create, api_handle_unified_documents_create, api_handle_document_update
<1> QED
  BY <1>2, <1>3, <1>4, <1>5, <1>6, <1>7, <1>8
     DEF LibStep, BeginsLibrary, BeginsCollection, api_handle_unified_document_delete, api_handle_unified_document_update

\* Which step a handler takes, by where it is.
LEMMA StepTaken ==
    ASSUME NEW t \in DThreads, LibStep(t)
    PROVE  /\ dpc[t] = "create_library" => create_library_document(t)
           /\ dpc[t] = "create_collection" => create_collection_document(t)
           /\ dpc[t] = "create_collections" => create_collections(t)
           /\ dpc[t] = "write_library" => write_library(t)
           /\ dpc[t] = "delete_collections" => delete_collections(t)
           /\ dpc[t] = "delete_data" => delete_data(t)
           /\ dpc[t] = "delete_library" => delete_library_document(t)
           /\ dpc[t] = "deleted" => answer_deleted(t)
           /\ dpc[t] = "delete_document" => delete_document(t)
           /\ dpc[t] = "clean_versions" => versioning_cleanup_old_versions(t)
BY DEF LibStep, Receive, api_handle_create_library, api_handle_delete_library, create_collections,
   create_library_document, delete_collections, delete_data, delete_library_document, answer_deleted,
   api_handle_update_library, write_library, create_collection_document, delete_document,
   api_handle_virtual_collection_create, api_handle_document_create, api_handle_unified_documents_create,
   api_handle_document_delete, api_handle_unified_document_delete, versioning_create_version,
   api_handle_document_update, api_handle_unified_document_update, versioning_cleanup_old_versions

\* Creators of a library nobody raced for.
LEMMA LibraryNamesKept ==
    ASSUME LibTypes, LibTasks, LibraryNamesRaced, NEW t \in DThreads, LibStep(t)
    PROVE  LibraryNamesRaced'
<1> SUFFICES ASSUME NEW n \in LibNames, <<"library", "system", n>> \notin raced'
             PROVE  /\ \A u, v \in DThreads : Creator(u, n)' /\ Creator(v, n)' => u = v
                    /\ \A u \in DThreads : Creator(u, n)' => Libraries(n)' = {}
                    /\ \A d, e \in Libraries(n)' : d = e
  BY DEF LibraryNamesRaced
<1> USE LibrariesAssumption
<1>b. docs \in Seq(DocumentSet) /\ Len(docs) \in Nat
  BY LenProperties DEF LibTypes
<1>1. /\ raced \subseteq raced'
      /\ \A u \in DThreads : u # t => dpc'[u] = dpc[u] /\ task'[u] = task[u]
      /\ ~ BeginsLibrary(t) => \A m : Creator(t, m)' => Creator(t, m)
  BY CreatorsEffect
<1>2. /\ \A u, v \in DThreads : Creator(u, n) /\ Creator(v, n) => u = v
      /\ \A u \in DThreads : Creator(u, n) => Libraries(n) = {}
      /\ \A d, e \in Libraries(n) : d = e
  BY <1>1 DEF LibraryNamesRaced
<1>3. \A u \in DThreads : u # t => (Creator(u, n)' <=> Creator(u, n))
  BY <1>1 DEF Creator
<1>4. Found("library", "system")' \subseteq Found("library", "system")
      /\ (\A d \in Found("library", "system")' : docs'[d].name = docs[d].name)
      => Libraries(n)' \subseteq Libraries(n)
  BY DEF Libraries
<1>5. CASE BeginsLibrary(t)
  <2> PICK m \in LibNames : api_handle_create_library(t, m)
    BY <1>5 DEF BeginsLibrary
  <2> DEFINE k == [NoTask EXCEPT !.lib = m, !.name = m, !.set = Template]
  <2>1. UNCHANGED docs /\ Libraries(n)' = Libraries(n)
    BY DEF api_handle_create_library, Libraries, Found, Live
  <2>2. CASE Answer(t)
    BY <2>2, <1>2, <1>3, <2>1 DEF Answer, Goto, LibTypes, Creator, Creating
  <2>3. CASE /\ Libraries(m) = {} /\ Goto(t, "create_collections", k)
             /\ raced' = IF Racing(t, {"create_collections", "create_library"}, m, m)
                         THEN raced \cup {<<"library", "system", m>>} ELSE raced
    BY <2>3, <1>2, <1>3, <2>1 DEF NoTask, Goto, LibTypes, Creator, Racing, Creating
  <2> QED
    BY <2>2, <2>3 DEF api_handle_create_library
<1>6. CASE create_library_document(t) /\ task[t].name = n
  <2> DEFINE doc == Document("library", "system", "libraries", task[t].name)
  <2>1. dpc[t] = "create_library" /\ Answer(t) /\ virtual_insert(doc)
    BY <1>6 DEF create_library_document
  <2>2. Creator(t, n)
    BY <1>6, <2>1 DEF LibTasks, Fits, Creator, Creating
  <2>3. dpc'[t] = "idle"
    BY <2>1 DEF Answer, Goto, LibTypes
  <2>4. \A u \in DThreads : ~ Creator(u, n)'
    BY <1>2, <1>3, <2>2, <2>3 DEF Creator, Creating
  <2>5. doc \in DocumentSet
    BY <1>6 DEF Document, DocumentSet, Types
  <2> HIDE DEF doc
  <2>6. Filed(doc)
    BY <1>b, <2>1, <2>5, FiledDocument
  <2>7. Libraries(n) = {}
    BY <1>2, <2>2
  <2>8. \A e \in Libraries(n)' : e = Len(docs) + 1
    <3> SUFFICES ASSUME NEW e \in Libraries(n)', e \in 1 .. Len(docs)  PROVE FALSE
      BY <1>b, <2>6 DEF Libraries, Found, Live, Filed
    <3> QED
      BY <2>6, <2>7 DEF Libraries, Found, Live, Filed
  <2> QED
    BY <2>4, <2>8
<1>7. CASE ~ BeginsLibrary(t) /\ ~ (create_library_document(t) /\ task[t].name = n)
  <2>1. \A u \in DThreads : Creator(u, n)' => Creator(u, n)
    BY <1>1, <1>3, <1>7
  <2>2. CASE UNCHANGED docs \/ Settled
    BY <1>b, <1>2, <1>4, <2>1, <2>2, FoundAgain
  <2>3. ASSUME NEW doc \in DocumentSet, virtual_insert(doc), Filed(doc), Placed(t, doc)
        PROVE  Libraries(n)' \subseteq Libraries(n)
    BY <2>3, StepTaken, <1>7, <1>b, <1>4, FoundAgain DEF Placed, Filed, Libraries, Found, Live
  <2>4. CASE \E doc \in DocumentSet : virtual_insert(doc) /\ Filed(doc) /\ Placed(t, doc)
    BY <1>2, <2>1, <2>3, <2>4
  <2> QED
    BY <2>2, <2>4, DocsEffect
<1> QED
  BY <1>5, <1>6, <1>7
\* Founders of a collection nobody raced for.
LEMMA CollectionNamesKept ==
    ASSUME LibTypes, LibTasks, CollectionNamesRaced, NEW t \in DThreads, LibStep(t)
    PROVE  CollectionNamesRaced'
<1> SUFFICES ASSUME NEW l \in LibNames, NEW c \in CollNames, <<"collection", l, c>> \notin raced'
             PROVE  /\ \A u, v \in DThreads : Founder(u, l, c)' /\ Founder(v, l, c)' => u = v
                    /\ \A u \in DThreads : Founder(u, l, c)' => Configured(l, c)' = {}
                    /\ \A d, e \in Configured(l, c)' : d = e
  BY DEF CollectionNamesRaced
<1> USE LibrariesAssumption
<1>b. docs \in Seq(DocumentSet) /\ Len(docs) \in Nat
  BY LenProperties DEF LibTypes
<1>1. /\ raced \subseteq raced'
      /\ \A u \in DThreads : u # t => dpc'[u] = dpc[u] /\ task'[u] = task[u]
      /\ ~ BeginsCollection(t) => \A m, b : Founder(t, m, b)' => Founder(t, m, b)
  BY CreatorsEffect
<1>2. /\ \A u, v \in DThreads : Founder(u, l, c) /\ Founder(v, l, c) => u = v
      /\ \A u \in DThreads : Founder(u, l, c) => Configured(l, c) = {}
      /\ \A d, e \in Configured(l, c) : d = e
  BY <1>1 DEF CollectionNamesRaced
<1>3. \A u \in DThreads : u # t => (Founder(u, l, c)' <=> Founder(u, l, c))
  BY <1>1 DEF Founder
<1>4. Found("collection", l)' \subseteq Found("collection", l)
      /\ (\A d \in Found("collection", l)' : docs'[d].name = docs[d].name /\ docs'[d].coll = docs[d].coll)
      => Configured(l, c)' \subseteq Configured(l, c)
  BY DEF Configured
<1>5. CASE BeginsCollection(t)
  <2> PICK m \in LibNames, b \in CollNames : api_handle_virtual_collection_create(t, m, b)
    BY <1>5 DEF BeginsCollection
  <2> DEFINE k == [NoTask EXCEPT !.lib = m, !.name = b]
  <2>1. UNCHANGED docs /\ Configured(l, c)' = Configured(l, c)
    BY DEF api_handle_virtual_collection_create, Configured, Found, Live
  <2>2. CASE Answer(t)
    BY <2>2, <1>2, <1>3, <2>1 DEF Answer, Goto, LibTypes, Founder
  <2>3. CASE /\ Configured(m, b) = {} /\ Goto(t, "create_collection", k)
             /\ raced' = IF Racing(t, {"create_collection"}, m, b)
                         THEN raced \cup {<<"collection", m, b>>} ELSE raced
    BY <2>3, <1>2, <1>3, <2>1 DEF NoTask, Goto, LibTypes, Founder, Racing
  <2> QED
    BY <2>2, <2>3 DEF api_handle_virtual_collection_create
<1>6. CASE create_collection_document(t) /\ task[t].lib = l /\ task[t].name = c
  <2> DEFINE doc == Document("collection", task[t].lib, "configs", task[t].name)
  <2>1. dpc[t] = "create_collection" /\ Answer(t) /\ virtual_insert(doc)
    BY <1>6 DEF create_collection_document
  <2>2. Founder(t, l, c)
    BY <1>6, <2>1 DEF Founder
  <2>3. dpc'[t] = "idle"
    BY <2>1 DEF Answer, Goto, LibTypes
  <2>4. \A u \in DThreads : ~ Founder(u, l, c)'
    BY <1>2, <1>3, <2>2, <2>3 DEF Founder
  <2>5. doc \in DocumentSet
    BY <1>6 DEF Document, DocumentSet, Types
  <2> HIDE DEF doc
  <2>6. Filed(doc)
    BY <1>b, <2>1, <2>5, FiledDocument
  <2>7. Configured(l, c) = {}
    BY <1>2, <2>2
  <2>8. \A e \in Configured(l, c)' : e = Len(docs) + 1
    <3> SUFFICES ASSUME NEW e \in Configured(l, c)', e \in 1 .. Len(docs)  PROVE FALSE
      BY <1>b, <2>6 DEF Configured, Found, Live, Filed
    <3> QED
      BY <2>6, <2>7 DEF Configured, Found, Live, Filed
  <2> QED
    BY <2>4, <2>8
<1>7. CASE ~ BeginsCollection(t) /\ ~ (create_collection_document(t) /\ task[t].lib = l /\ task[t].name = c)
  <2>1. \A u \in DThreads : Founder(u, l, c)' => Founder(u, l, c)
    BY <1>1, <1>3, <1>7
  <2>2. CASE UNCHANGED docs \/ Settled
    BY <1>b, <1>2, <1>4, <2>1, <2>2, FoundAgain
  <2>3. ASSUME NEW doc \in DocumentSet, virtual_insert(doc), Filed(doc), Placed(t, doc)
        PROVE  Configured(l, c)' \subseteq Configured(l, c)
    BY <1>b, <2>3, <1>7, StepTaken, <1>4, FoundAgain DEF Filed, Placed, collection_to_document_type, Configured,
       Found, Live
  <2>4. CASE \E doc \in DocumentSet : virtual_insert(doc) /\ Filed(doc) /\ Placed(t, doc)
    BY <1>2, <2>1, <2>3, <2>4
  <2> QED
    BY <2>2, <2>4, DocsEffect
<1> QED
  BY <1>5, <1>6, <1>7
-----------------------------------------------------------------------------
(* Libraries: which steps change or delete a document.                     *)

\* What a step of t's handler may take from the documents there are.
Spared(t) ==
    \A e \in 1 .. Len(docs) :
        /\ docs'[e].set = docs[e].set \/ dpc[t] = "write_library"
        /\ docs'[e].live => docs[e].live
        /\ docs[e].live /\ ~ docs'[e].live =>
              \/ dpc[t] \in {"delete_data", "delete_document"}
              \/ dpc[t] = "delete_collections" /\ docs[e].type = "collection"
              \/ dpc[t] = "delete_library" /\ docs[e].type = "library"
              \/ dpc[t] = "clean_versions" /\ docs[e].coll = task[t].name

LEMMA DocumentsSpared ==
    ASSUME LibTypes, LibTasks, NEW t \in DThreads, LibStep(t)
    PROVE  Len(docs') >= Len(docs) /\ Spared(t)
<1>b. docs \in Seq(DocumentSet) /\ Len(docs) \in Nat
  BY LenProperties DEF LibTypes
<1>k. task[t] \in TaskSet /\ Fits(dpc[t], task[t], docs)
  BY DEF LibTypes, LibTasks
<1>l. Len(docs') >= Len(docs)
  BY <1>b, DocsEffect DEF Settled, Filed
<1>i. CASE \E doc \in DocumentSet : Filed(doc)
  BY <1>i DEF Filed, Spared
<1>u. CASE UNCHANGED docs
  BY <1>u DEF Spared
<1>s. CASE Settled
  <2> DEFINE Goal == Spared(t)
  <2>a. \A doc : ~ virtual_insert(doc)
    <3> SUFFICES ASSUME NEW doc, virtual_insert(doc)  PROVE FALSE
      OBVIOUS
    <3>1. docs' = Append(docs, doc) /\ docs \in Seq(DocumentSet \cup {doc})
      BY <1>b, SeqMonotonic DEF virtual_insert
    <3>2. Len(docs') = Len(docs) + 1
      BY <3>1, AppendProperties
    <3> QED
      BY <1>b, <1>s, <3>2 DEF Settled
  <2>r. ASSUME NEW d \in 1 .. Len(docs), virtual_delete(d),
               \/ dpc[t] \in {"delete_data", "delete_document"}
               \/ dpc[t] = "delete_collections" /\ docs[d].type = "collection"
               \/ dpc[t] = "delete_library" /\ docs[d].type = "library"
        PROVE  Goal
    BY <1>b, <2>r, DeletedDocument DEF Spared, Settled
  <2> HIDE DEF Goal
  <2>e. UNCHANGED docs => Goal
    BY <1>u DEF Goal
  <2>1. ASSUME \/ \E n \in LibNames : api_handle_create_library(t, n) \/ api_handle_delete_library(t, n)
               \/ answer_deleted(t)
               \/ \E n \in LibNames, f \in Fields : api_handle_update_library(t, n, f)
               \/ \E l \in LibNames, c \in CollNames : api_handle_virtual_collection_create(t, l, c)
               \/ \E d \in Live : api_handle_document_delete(t, d)
        PROVE  Goal
    BY <2>1, <2>e DEF api_handle_create_library, api_handle_delete_library, answer_deleted,
       api_handle_update_library, api_handle_virtual_collection_create, api_handle_document_delete
  <2>2. ASSUME \/ create_collections(t) \/ create_library_document(t) \/ create_collection_document(t)
               \/ \E l \in LibNames, c \in CollNames, v \in {"unset", "on"} : api_handle_document_create(t, l, c, v)
               \/ api_handle_unified_documents_create(t)
               \/ \E d \in Live : versioning_create_version(t, d)
        PROVE  Goal
    BY <2>2, <2>a, <2>e DEF create_collections, create_library_document, create_collection_document,
       api_handle_document_create, api_handle_unified_documents_create, versioning_create_version
  <2>3. ASSUME delete_collections(t)  PROVE Goal
    BY <2>3, <1>k, <2>r, <2>e DEF delete_collections, Fits, delete_next
  <2>4. ASSUME delete_data(t)  PROVE Goal
    BY <2>4, <1>k, <2>r, <2>e DEF delete_data, Fits, delete_next
  <2>5. ASSUME delete_library_document(t) \/ delete_document(t)  PROVE Goal
    BY <1>k, <2>5, <2>r DEF delete_library_document, delete_document, Fits, OnLibrary, Deleting
  <2>6. ASSUME write_library(t)  PROVE Goal
    BY <1>k, <2>6, <1>b, UpdatedDocument DEF write_library, Fits, OnLibrary, Goal, Spared
  <2>7. ASSUME NEW d \in Live, NEW l \in LibNames, api_handle_document_update(t, d, l)  PROVE Goal
    BY <1>b, <2>7, MovedDocument DEF Live, api_handle_document_update, Goal, Spared
  <2>8. ASSUME versioning_cleanup_old_versions(t)  PROVE Goal
    <3>1. dpc[t] = "clean_versions"
      BY <2>8 DEF versioning_cleanup_old_versions
    <3> QED
      BY <1>b, <1>s, <2>8, <3>1, CleanedDocuments DEF Goal, Spared, versions_of, Settled
  <2>9. Goal
    BY <2>1, <2>2, <2>3, <2>4, <2>5, <2>6, <2>7, <2>8
       DEF LibStep, api_handle_unified_document_delete, api_handle_unified_document_update
  <2> QED
    BY <1>l, <2>9 DEF Goal
<1> QED
  BY <1>l, <1>i, <1>u, <1>s, DocsEffect
-----------------------------------------------------------------------------
(* Libraries: updates that stay.                                           *)

BeginsUpdate(t) == \E n \in LibNames, f \in Fields : api_handle_update_library(t, n, f)

\* No other step makes a writer of a handler, or marks a document or an update.
LEMMA WritersEffect ==
    ASSUME LibTypes, NEW t \in DThreads, LibStep(t), ~ BeginsUpdate(t)
    PROVE  /\ dpc'[t] # "write_library" /\ overlapped' = overlapped
           /\ ~ write_library(t) => confirmed' = confirmed
<1>f. dpc \in [DThreads -> Steps] /\ task \in [DThreads -> TaskSet]
  BY DEF LibTypes
<1>1. overlapped' = overlapped /\ (~ write_library(t) => confirmed' = confirmed)
  BY DEF BeginsUpdate, LibStep, api_handle_create_library, api_handle_delete_library, create_collections,
     create_library_document, delete_collections, delete_data, delete_library_document, answer_deleted,
     write_library, create_collection_document, delete_document,
     api_handle_virtual_collection_create, api_handle_document_create, api_handle_unified_documents_create,
     api_handle_document_delete, api_handle_unified_document_delete, versioning_create_version,
     api_handle_document_update, api_handle_unified_document_update, versioning_cleanup_old_versions
<1>h. ASSUME NEW p, NEW k, Goto(t, p, k), p # "write_library"  PROVE dpc'[t] # "write_library"
  BY <1>f, <1>h DEF Goto
<1>i. ASSUME Answer(t)  PROVE dpc'[t] # "write_library"
  BY <1>h, <1>i DEF Answer
<1>2. CASE \/ \E n \in LibNames : api_handle_create_library(t, n) \/ api_handle_delete_library(t, n)
           \/ \E l \in LibNames, c \in CollNames : api_handle_virtual_collection_create(t, l, c)
           \/ create_collections(t) \/ delete_library_document(t)
           \/ \E d \in Live : api_handle_document_delete(t, d) \/ versioning_create_version(t, d)
  BY <1>2, <1>1, <1>h, <1>i DEF api_handle_create_library, api_handle_delete_library,
     api_handle_virtual_collection_create, create_collections, delete_library_document, api_handle_document_delete,
     versioning_create_version
<1>3. CASE delete_collections(t) \/ delete_data(t)
  BY <1>3, <1>1, <1>h DEF delete_collections, delete_data, delete_next
<1>4. CASE create_library_document(t) \/ answer_deleted(t) \/ write_library(t) \/ create_collection_document(t)
           \/ delete_document(t) \/ versioning_cleanup_old_versions(t)
  BY <1>4, <1>1, <1>i DEF create_library_document, answer_deleted, write_library, create_collection_document,
     delete_document, versioning_cleanup_old_versions
<1>5. CASE \/ \E l \in LibNames, c \in CollNames, v \in {"unset", "on"} : api_handle_document_create(t, l, c, v)
           \/ api_handle_unified_documents_create(t)
           \/ \E d \in Live, l \in LibNames : api_handle_document_update(t, d, l)
  BY <1>5, <1>1 DEF api_handle_document_create, api_handle_unified_documents_create, api_handle_document_update,
     Receive
<1> QED
  BY <1>2, <1>3, <1>4, <1>5
     DEF BeginsUpdate, LibStep, api_handle_unified_document_delete, api_handle_unified_document_update

LEMMA WrittenKept ==
    ASSUME LibTypes, LibTasks, LibWritten, NEW t \in DThreads, LibStep(t)
    PROVE  LibWritten'
<1> USE LibrariesAssumption
<1>b. docs \in Seq(DocumentSet) /\ Len(docs) \in Nat /\ Len(docs') >= Len(docs) /\ Spared(t) /\ Len(docs') \in Nat
  BY DocsEffect, LenProperties, DocumentsSpared DEF LibTypes, Filed, Settled
<1>d. 1 .. Len(docs) \subseteq 1 .. Len(docs')
  BY <1>b
<1>f. /\ dpc \in [DThreads -> Steps] /\ task \in [DThreads -> TaskSet]
      /\ \A u \in DThreads : u # t => dpc'[u] = dpc[u] /\ task'[u] = task[u]
  BY CreatorsEffect DEF LibTypes
<1>w. /\ \A p \in confirmed : p[1] \in 1 .. Len(docs)
      /\ \A p \in confirmed : docs[p[1]].live /\ p[1] \notin overlapped => p[2] \in docs[p[1]].set
      /\ \A u, v \in DThreads :
            /\ dpc[u] = "write_library" /\ dpc[v] = "write_library"
            /\ task[u].first = task[v].first /\ task[u].first \notin overlapped
            => u = v
      /\ \A u \in DThreads :
            dpc[u] = "write_library" /\ task[u].first \notin overlapped /\ docs[task[u].first].live
                => docs[task[u].first].set \subseteq task[u].set
  BY DEF LibWritten, LibraryUpdateKept
<1>x. \A u \in DThreads : dpc[u] = "write_library" => task[u].first \in 1 .. Len(docs)
  BY DEF LibTasks, Fits, OnLibrary
<1>1. CASE BeginsUpdate(t)
  <2> PICK n \in LibNames, f \in Fields : api_handle_update_library(t, n, f)
    BY <1>1 DEF BeginsUpdate
  <2>1. docs' = docs /\ confirmed' = confirmed
    BY DEF api_handle_update_library
  <2>2. CASE Answer(t) /\ overlapped' = overlapped
    BY <1>f, <2>2, <1>w, <2>1 DEF Answer, Goto, LibWritten, LibraryUpdateKept
  <2>3. CASE Libraries(n) # {}
    <3> DEFINE d == First(Libraries(n))
               others == {u \in DThreads : dpc[u] = "write_library" /\ task[u].first = d}
               k == [NoTask EXCEPT !.first = d, !.name = f, !.set = docs[d].set \cup {f}]
    <3>1. Goto(t, "write_library", k) /\ overlapped' = IF others = {} THEN overlapped ELSE overlapped \cup {d}
      BY <2>3 DEF api_handle_update_library
    <3>2. k.first = d /\ k.set = docs[d].set \cup {f}
      BY DEF NoTask
    <3>3. dpc[t] = "idle"
      BY DEF api_handle_update_library, Receive
    <3> HIDE DEF k, d
    <3>4. dpc'[t] = "write_library" /\ task'[t].first = d /\ task'[t].set = docs[d].set \cup {f}
      BY <1>f, <3>1, <3>2 DEF Goto
    <3>5. ASSUME NEW u \in DThreads, NEW v \in DThreads, dpc'[u] = "write_library", dpc'[v] = "write_library",
                 task'[u].first = task'[v].first, task'[u].first \notin overlapped'
          PROVE  u = v
      BY <1>f, <1>w, <3>1, <3>5, <3>4
    <3>6. ASSUME NEW u \in DThreads, dpc'[u] = "write_library", task'[u].first \notin overlapped', docs'[task'[u].first].live
          PROVE  docs'[task'[u].first].set \subseteq task'[u].set
      BY <2>1, <3>4, <1>f, <1>w, <3>1, <3>6
    <3>7. overlapped \subseteq overlapped'
      BY <3>1
    <3> QED
      BY <1>w, <2>1, <3>5, <3>6, <3>7 DEF LibWritten, LibraryUpdateKept
  <2> QED
    BY <2>2, <2>3 DEF api_handle_update_library
<1>2. CASE write_library(t)
  <2> DEFINE d == task[t].first
  <2>1. /\ dpc[t] = "write_library" /\ Answer(t) /\ virtual_update(d, task[t].set)
        /\ confirmed' = IF docs[d].live THEN confirmed \cup {<<d, task[t].name>>} ELSE confirmed
    BY <1>2 DEF write_library
  <2>2. /\ d \in 1 .. Len(docs) /\ task[t].set \in SUBSET Fields /\ task[t].name \in task[t].set
    BY <2>1 DEF LibTasks, Fits, OnLibrary
  <2> HIDE DEF d
  <2>3. /\ \A e \in 1 .. Len(docs) : docs'[e].live = docs[e].live
        /\ docs'[d].set = IF docs[d].live THEN task[t].set ELSE docs[d].set
        /\ \A e \in 1 .. Len(docs) : e # d => docs'[e].set = docs[e].set
    BY <1>b, <2>1, <2>2, UpdatedDocument
  <2>4. dpc'[t] = "idle" /\ overlapped' = overlapped
    BY <1>f, <1>2, <2>1 DEF Answer, Goto, write_library
  <2>5. \A p \in confirmed' : p[1] \in 1 .. Len(docs')
    BY <1>d, <1>w, <2>1, <2>2
  <2>6. ASSUME NEW p \in confirmed', docs'[p[1]].live, p[1] \notin overlapped'  PROVE p[2] \in docs'[p[1]].set
    BY <2>2, <2>3, <1>w, <2>4, <2>6, <2>1 DEF d
  <2>7. ASSUME NEW u \in DThreads, dpc'[u] = "write_library", task'[u].first \notin overlapped', docs'[task'[u].first].live
        PROVE  docs'[task'[u].first].set \subseteq task'[u].set
    BY <1>f, <1>x, <2>4, <2>7, <1>w, <2>1, <2>3 DEF d
  <2>8. \A u, v \in DThreads :
            /\ dpc'[u] = "write_library" /\ dpc'[v] = "write_library"
            /\ task'[u].first = task'[v].first /\ task'[u].first \notin overlapped'
            => u = v
    BY <1>f, <1>w, <2>4
  <2> QED
    BY <2>5, <2>6, <2>7, <2>8 DEF LibWritten, LibraryUpdateKept
<1>3. CASE ~ BeginsUpdate(t) /\ ~ write_library(t)
  <2>1. /\ dpc'[t] # "write_library" /\ overlapped' = overlapped /\ confirmed' = confirmed
    BY <1>3, WritersEffect
  <2>2. dpc[t] # "write_library"
    BY <1>3, StepTaken
  <2>3. \A e \in 1 .. Len(docs) : docs'[e].set = docs[e].set /\ (docs'[e].live => docs[e].live)
    BY <1>b, <2>2 DEF Spared
  <2>4. \A p \in confirmed' : p[1] \in 1 .. Len(docs')
    BY <1>d, <1>w, <2>1
  <2>5. \A p \in confirmed' : docs'[p[1]].live /\ p[1] \notin overlapped' => p[2] \in docs'[p[1]].set
    BY <1>w, <2>1, <2>3
  <2>6. ASSUME NEW u \in DThreads, dpc'[u] = "write_library", task'[u].first \notin overlapped', docs'[task'[u].first].live
        PROVE  docs'[task'[u].first].set \subseteq task'[u].set
    BY <1>f, <1>x, <2>1, <2>6, <1>w, <2>3
  <2>7. \A u, v \in DThreads :
            /\ dpc'[u] = "write_library" /\ dpc'[v] = "write_library"
            /\ task'[u].first = task'[v].first /\ task'[u].first \notin overlapped'
            => u = v
    BY <1>f, <1>w, <2>1
  <2> QED
    BY <2>4, <2>5, <2>6, <2>7 DEF LibWritten, LibraryUpdateKept
<1> QED
  BY <1>1, <1>2, <1>3
-----------------------------------------------------------------------------
(* Libraries: what a deletion leaves.                                      *)

LEMMA NothingInserted ==
    ASSUME docs \in Seq(DocumentSet), Settled \/ UNCHANGED docs
    PROVE  \A doc : ~ virtual_insert(doc)
<1> SUFFICES ASSUME NEW doc, virtual_insert(doc)  PROVE FALSE
  OBVIOUS
<1>1. docs' = Append(docs, doc) /\ docs \in Seq(DocumentSet \cup {doc}) /\ Len(docs) \in Nat
  BY SeqMonotonic, LenProperties DEF virtual_insert
<1>2. Len(docs') = Len(docs) + 1
  BY <1>1, AppendProperties
<1> QED
  BY <1>1, <1>2 DEF Settled

\* What comes to a library after a handler listed it is known to have come late.
LEMMA LateEffect ==
    ASSUME LibTypes, LibTasks, NEW t \in DThreads, LibStep(t), NEW u \in DThreads, dpc[u] \in Listed,
           NEW l, l = task[u].lib, ~ (u = t /\ answer_deleted(t))
    PROVE  late[u] \subseteq late'[u] /\ InLibrary(l)' \subseteq InLibrary(l) \cup late'[u]
<1>b. docs \in Seq(DocumentSet) /\ Len(docs) \in Nat /\ late \in [DThreads -> SUBSET Nat]
  BY LenProperties DEF LibTypes
<1> DEFINE Goal == late[u] \subseteq late'[u] /\ InLibrary(l)' \subseteq InLibrary(l) \cup late'[u]
<1>1. ASSUME NEW doc \in DocumentSet, virtual_insert(doc), Filed(doc)  PROVE Goal
  BY <1>1, LateTyped, <1>b DEF Filed, InLibrary, Live
<1>2. CASE \E doc \in DocumentSet : virtual_insert(doc) /\ Filed(doc)
  BY <1>1, <1>2
<1>3. CASE Settled \/ UNCHANGED docs
  <2>a. \A doc : ~ virtual_insert(doc)
    BY <1>b, <1>3, NothingInserted
  <2>l. Len(docs') = Len(docs) /\ \A e \in 1 .. Len(docs) : docs'[e].live => docs[e].live
    BY <1>3 DEF Settled
  <2>s. ASSUME \A e \in 1 .. Len(docs) : docs'[e].library = docs[e].library, late[u] \subseteq late'[u]
        PROVE  Goal
    BY <2>l, <2>s DEF InLibrary, Live
  <2>r. ASSUME NEW d \in 1 .. Len(docs), virtual_delete(d), late' = late  PROVE Goal
    BY <1>b, <2>r, <2>s, DeletedDocument
  <2> HIDE DEF Goal
  <2>e. UNCHANGED docs /\ late[u] \subseteq late'[u] => Goal
    BY <2>s
  <2>1. ASSUME \/ \E n \in LibNames : api_handle_create_library(t, n) \/ api_handle_delete_library(t, n)
               \/ \E n \in LibNames, f \in Fields : api_handle_update_library(t, n, f)
               \/ \E m \in LibNames, c \in CollNames : api_handle_virtual_collection_create(t, m, c)
               \/ \E d \in Live : api_handle_document_delete(t, d)
        PROVE  Goal
    BY <2>1, <2>e DEF api_handle_create_library, api_handle_delete_library,
       api_handle_update_library, api_handle_virtual_collection_create, api_handle_document_delete
  <2>2. ASSUME \/ create_collections(t) \/ create_library_document(t) \/ create_collection_document(t)
               \/ \E m \in LibNames, c \in CollNames, v \in {"unset", "on"} : api_handle_document_create(t, m, c, v)
               \/ api_handle_unified_documents_create(t)
               \/ \E d \in Live : versioning_create_version(t, d)
        PROVE  Goal
    BY <2>2, <2>a, <2>e DEF create_collections, create_library_document, create_collection_document,
       api_handle_document_create, api_handle_unified_documents_create, versioning_create_version
  <2>3. ASSUME delete_collections(t)  PROVE Goal
    BY <2>3, <2>r, <1>b, <2>e DEF delete_collections, Listed, LibTasks, Fits, delete_next
  <2>4. ASSUME delete_data(t)  PROVE Goal
    BY <2>r, <2>4, <2>e DEF LibTasks, Fits, delete_data, delete_next
  <2>5. ASSUME delete_library_document(t) \/ delete_document(t)  PROVE Goal
    BY <2>5, <2>r DEF delete_library_document, delete_document, LibTasks, Fits, OnLibrary, Deleting
  <2>6. ASSUME answer_deleted(t)  PROVE Goal
    BY <2>6, <1>b, <2>e DEF answer_deleted
  <2>7. ASSUME write_library(t)  PROVE Goal
    BY <2>7, <1>b, <2>s, UpdatedDocument DEF write_library, LibTasks, Fits, OnLibrary
  <2>8. ASSUME NEW d \in Live, NEW m \in LibNames, api_handle_document_update(t, d, m)  PROVE Goal
    BY <2>8, <1>b, MovedDocument, <2>l DEF Live, api_handle_document_update, Goal, InLibrary
  <2>9. ASSUME versioning_cleanup_old_versions(t)  PROVE Goal
    BY <1>b, <2>9, <2>s, CleanedDocuments DEF versioning_cleanup_old_versions
  <2>10. Goal
    BY <2>1, <2>2, <2>3, <2>4, <2>5, <2>6, <2>7, <2>8, <2>9
       DEF LibStep, api_handle_unified_document_delete, api_handle_unified_document_update
  <2> QED
    BY <2>10 DEF Goal
<1> QED
  BY <1>2, <1>3, DocsEffect

\* Only a deletion goes on to the steps of a deletion.
LEMMA EntersDeletion ==
    ASSUME LibTypes, NEW t \in DThreads, LibStep(t),
           dpc[t] \notin {"delete_collections", "delete_data", "delete_library"}
    PROVE  dpc'[t] \notin {"delete_data", "delete_library", "deleted"}
<1>f. dpc \in [DThreads -> Steps] /\ task \in [DThreads -> TaskSet]
  BY DEF LibTypes
<1>h. ASSUME NEW p, NEW k, Goto(t, p, k), p \notin {"delete_data", "delete_library", "deleted"}
      PROVE  dpc'[t] \notin {"delete_data", "delete_library", "deleted"}
  BY <1>f, <1>h DEF Goto
<1>i. ASSUME Answer(t)  PROVE dpc'[t] \notin {"delete_data", "delete_library", "deleted"}
  BY <1>h, <1>i DEF Answer
<1>1. ~ delete_collections(t) /\ ~ delete_data(t) /\ ~ delete_library_document(t)
  BY DEF delete_collections, delete_data, delete_library_document
<1>2. CASE \/ \E n \in LibNames : api_handle_create_library(t, n) \/ api_handle_delete_library(t, n)
           \/ \E l \in LibNames, c \in CollNames : api_handle_virtual_collection_create(t, l, c)
           \/ create_collections(t) \/ \E n \in LibNames, f \in Fields : api_handle_update_library(t, n, f)
           \/ \E d \in Live : api_handle_document_delete(t, d) \/ versioning_create_version(t, d)
  <2>1. Answer(t) \/ \E p \in {"create_collections", "create_library", "create_collection", "delete_collections", "delete_document", "clean_versions", "write_library"} :
              \E k : Goto(t, p, k)
    BY <1>2 DEF api_handle_create_library, api_handle_delete_library, api_handle_virtual_collection_create,
       create_collections, api_handle_update_library, api_handle_document_delete, versioning_create_version
  <2> QED
    BY <1>h, <1>i, <2>1
<1>4. CASE create_library_document(t) \/ answer_deleted(t) \/ write_library(t) \/ create_collection_document(t)
           \/ delete_document(t) \/ versioning_cleanup_old_versions(t)
  BY <1>4, <1>i DEF create_library_document, answer_deleted, write_library, create_collection_document,
     delete_document, versioning_cleanup_old_versions
<1>5. CASE \/ \E l \in LibNames, c \in CollNames, v \in {"unset", "on"} : api_handle_document_create(t, l, c, v)
           \/ api_handle_unified_documents_create(t)
           \/ \E d \in Live, l \in LibNames : api_handle_document_update(t, d, l)
  BY <1>5 DEF api_handle_document_create, api_handle_unified_documents_create, api_handle_document_update, Receive
<1> QED
  BY <1>1, <1>2, <1>4, <1>5
     DEF LibStep, api_handle_unified_document_delete, api_handle_unified_document_update

LEMMA EmptiedKept ==
    ASSUME LibTypes, LibTasks, LibEmptied, NEW t \in DThreads, LibStep(t)
    PROVE  LibEmptied'
<1> SUFFICES ASSUME NEW u \in DThreads
             PROVE  /\ dpc'[u] = "delete_data" => InLibrary(task[u].lib)' \subseteq task'[u].todo \cup late'[u]
                    /\ dpc'[u] \in {"delete_library", "deleted"} => InLibrary(task[u].lib)' \subseteq late'[u]
  BY DEF LibEmptied
<1>b. docs \in Seq(DocumentSet) /\ Len(docs) \in Nat /\ late \in [DThreads -> SUBSET Nat]
  BY LenProperties DEF LibTypes
<1>f. /\ dpc \in [DThreads -> Steps] /\ task \in [DThreads -> TaskSet]
      /\ \A v \in DThreads : v # t => dpc'[v] = dpc[v] /\ task'[v] = task[v]
  BY CreatorsEffect DEF LibTypes
<1>e. /\ dpc[u] = "delete_data" => InLibrary(task[u].lib) \subseteq task[u].todo \cup late[u]
      /\ dpc[u] \in {"delete_library", "deleted"} => InLibrary(task[u].lib) \subseteq late[u]
  BY DEF LibEmptied
<1>l. ASSUME task'[u].lib = task[u].lib, dpc[u] \in Listed, ~ (u = t /\ answer_deleted(t))
      PROVE  late[u] \subseteq late'[u] /\ InLibrary(task[u].lib)' \subseteq InLibrary(task[u].lib) \cup late'[u]
  <2>1. PICK m : m = task[u].lib
    OBVIOUS
  <2>2. late[u] \subseteq late'[u] /\ InLibrary(m)' \subseteq InLibrary(m) \cup late'[u]
    BY <1>l, <2>1, LateEffect
  <2> QED
    BY <1>l, <2>1, <2>2 DEF InLibrary
<1>1. CASE u # t
  BY <1>1, <1>e, <1>f, <1>l DEF Listed
<1>2. CASE u = t
  <2>g. ASSUME NEW p, NEW k, Goto(t, p, k)  PROVE dpc'[t] = p /\ task'[t] = k
    BY <1>f, <2>g DEF Goto
  <2>1. CASE dpc[t] = "delete_collections"
    <3>1. delete_collections(t)
      BY <2>1, StepTaken
    <3>2. CASE delete_next(t)
      <4>1. PICK k : Goto(t, dpc[t], k)
        BY <3>2 DEF delete_next
      <4> QED
        BY <1>2, <2>1, <2>g, <4>1
    <3>3. CASE /\ Goto(t, "delete_data", [task[t] EXCEPT !.todo = list_data(t)])
               /\ late' = [late EXCEPT ![t] = {}] /\ UNCHANGED docs
      BY <1>f, <2>g, <3>3, <1>2 DEF TaskSet, InLibrary, Live, list_data
    <3> QED
      BY <3>1, <3>2, <3>3 DEF delete_collections
  <2>2. CASE dpc[t] = "delete_data"
    <3>1. delete_data(t) /\ ~ answer_deleted(t)
      BY <2>2, StepTaken DEF answer_deleted
    <3>2. ASSUME NEW d \in task[t].todo, virtual_delete(d), Goto(t, dpc[t], [task[t] EXCEPT !.todo = @ \ {d}])
          PROVE  dpc'[t] = "delete_data" /\ InLibrary(task[t].lib)' \subseteq task'[t].todo \cup late'[t]
      <4>1. task[t] \in TaskSet /\ d \in 1 .. Len(docs)
        BY <1>f DEF LibTasks, Fits
      <4>2. /\ [task[t] EXCEPT !.todo = @ \ {d}].lib = task[t].lib
            /\ [task[t] EXCEPT !.todo = @ \ {d}].todo = task[t].todo \ {d}
        BY <4>1 DEF TaskSet
      <4>3. dpc'[t] = "delete_data" /\ task'[t].lib = task[t].lib /\ task'[t].todo = task[t].todo \ {d}
        BY <2>2, <2>g, <3>2, <4>2
      <4>4. ~ docs'[d].live
        BY <1>b, <3>2, <4>1, DeletedDocument
      <4>5. d \notin InLibrary(task[t].lib)'
        BY <4>4 DEF InLibrary, Live
      <4>6. late[t] \subseteq late'[t] /\ InLibrary(task[t].lib)' \subseteq InLibrary(task[t].lib) \cup late'[t]
        BY <1>2, <1>l, <2>2, <3>1, <4>3 DEF Listed
      <4> QED
        BY <1>2, <1>e, <2>2, <4>3, <4>5, <4>6
    <3>3. CASE task[t].todo = {} /\ Goto(t, "delete_library", task[t])
      BY <2>g, <3>3, <1>2, <1>e, <1>l, <2>2, <3>1 DEF Listed
    <3> QED
      BY <1>2, <3>1, <3>2, <3>3 DEF delete_data, delete_next
  <2>3. CASE dpc[t] = "delete_library"
    BY <2>3, StepTaken, <2>g, <1>2, <1>e, <1>l DEF answer_deleted, delete_library_document, Listed
  <2>4. CASE dpc[t] \notin {"delete_collections", "delete_data", "delete_library"}
    BY <2>4, EntersDeletion, <1>2
  <2> QED
    BY <2>1, <2>2, <2>3, <2>4
<1> QED
  BY <1>1, <1>2
-----------------------------------------------------------------------------
(* Libraries: the theorem.                                                 *)

LEMMA LibStarts == LibInit => LibInv
<1> SUFFICES ASSUME LibInit  PROVE LibInv
  OBVIOUS
<1>1. docs = <<>> /\ Len(docs) = 0 /\ docs \in Seq(DocumentSet)
  BY EmptySeq DEF LibInit
<1>2. LibTypes
  BY <1>1, NoTaskFits DEF LibInit, LibTypes, Steps
<1>3. LibTasks
  BY <1>1, NoTaskFits DEF LibInit, LibTasks
<1>4. LibFiled
  BY <1>1 DEF LibFiled
<1>5. Live = {}
  BY <1>1 DEF Live
<1>6. LibraryNamesRaced /\ CollectionNamesRaced
  BY <1>5 DEF LibInit, LibraryNamesRaced, CollectionNamesRaced, Creator, Creating, Founder, Libraries, Configured, Found
<1>7. LibWritten /\ LibEmptied
  BY DEF LibInit, LibWritten, LibraryUpdateKept, LibEmptied
<1> QED
  BY <1>2, <1>3, <1>4, <1>6, <1>7 DEF LibInv

LEMMA LibInvKept == LibInv /\ [LibNext]_docVars => LibInv'
<1> SUFFICES ASSUME LibInv, [LibNext]_docVars  PROVE LibInv'
  OBVIOUS
<1>1. LibTypes' /\ LibTasks'
  BY ShapeKept DEF LibInv
<1>2. CASE UNCHANGED docVars
  BY <1>1, <1>2 DEF docVars, LibInv, LibFiled, LibraryNamesRaced, CollectionNamesRaced, LibWritten, LibEmptied,
     Creator, Founder, Libraries, Configured, Found, Live, InLibrary, LibraryUpdateKept
<1>3. ASSUME NEW t \in DThreads, LibStep(t)  PROVE LibInv'
  BY <1>1, <1>3, FiledKept, LibraryNamesKept, CollectionNamesKept, WrittenKept, EmptiedKept DEF LibInv
<1> QED
  BY <1>2, <1>3 DEF LibNext

\* Of at most one thing there is not more than one.
LEMMA AtMostOne ==
    ASSUME NEW S, \A d, e \in S : d = e
    PROVE  ~ (Cardinality(S) > 1)
<1>1. CASE S = {}
  BY <1>1, FS_EmptySet
<1>2. CASE S # {}
  <2> PICK d : d \in S
    BY <1>2
  <2>1. S = {d}
    OBVIOUS
  <2> QED
    BY <2>1, FS_Singleton
<1> QED
  BY <1>1, <1>2

LEMMA LibInvTells ==
    ASSUME LibInv
    PROVE  /\ LibTypeOK /\ DeleteIsComplete /\ NamesTwiceOnlyIfRaced /\ LibraryUpdateKept
           /\ CountsWhatQueryFinds /\ VersionsOnlyIfDocumentAsks
<1>1. LibTypeOK
  BY DEF LibInv, LibTypes, LibTasks, Fits, LibTypeOK, DocumentSet
<1>2. DeleteIsComplete
  BY DEF LibInv, LibEmptied, DeleteIsComplete
<1>3. NamesTwiceOnlyIfRaced
  BY AtMostOne DEF LibInv, LibraryNamesRaced, CollectionNamesRaced, NamesTwiceOnlyIfRaced
<1>4. LibraryUpdateKept
  BY DEF LibInv, LibWritten
<1>5. CountsWhatQueryFinds
  <2> SUFFICES ASSUME NEW l \in LibNames, NEW c \in CollNames, OwnType(c),
                      collection_to_document_type(c) = get_doc_type_for_virtual_collection(c)
               PROVE  document_count(l, c) = Cardinality(api_handle_documents_query(l, c))
    BY DEF CountsWhatQueryFinds
  <2> DEFINE S == {d \in Found(get_doc_type_for_virtual_collection(c), l) : docs[d].coll = c}
             T == Found(collection_to_document_type(c), l)
  <2>1. \A d \in T : docs[d].coll = c
    BY DEF LibInv, LibFiled, Found, Live
  <2>2. S = T
    BY <2>1
  <2> QED
    BY <2>2 DEF document_count, api_handle_documents_query
<1>6. VersionsOnlyIfDocumentAsks
  BY DEF LibInv, LibFiled, VersionsOnlyIfDocumentAsks, Live
<1> QED
  BY <1>1, <1>2, <1>3, <1>4, <1>5, <1>6

LEMMA LibStepsSound ==
    ASSUME LibInv, [LibNext]_docVars
    PROVE  /\ [\A d \in DOMAIN docs : ~ docs[d].live => ~ docs'[d].live]_docVars
           /\ [\A d \in Live : docs[d].type = "version" /\ docs[d].coll = "versions" /\ ~ docs'[d].live
                  => \E t \in DThreads : \/ dpc[t] \in {"delete_data", "delete_document"}
                                         \/ dpc[t] = "clean_versions" /\ task[t].name = "versions"]_docVars
  BY DocumentsSpared, LenProperties DEF LibInv, LibTypes, Spared, Live, LibNext

\* Libraries, collections and documents are sound for any number of worker threads, names
\* and requests: when a library is reported as deleted nothing is left in it but what came
\* after its documents were listed, names are there twice only after two creators looked at
\* the same time, an update that was answered stays, the count of a collection is what a
\* query of it finds, versions are kept only for documents that ask for them and go only
\* with their library, and what is deleted stays so.
THEOREM LibrariesAreSound == LibSpec => LibrariesSound
<1>1. LibInit => LibInv
  BY LibStarts
<1>2. LibInv /\ [LibNext]_docVars => LibInv'
  BY LibInvKept
<1>3. LibInv => /\ LibTypeOK /\ DeleteIsComplete /\ NamesTwiceOnlyIfRaced /\ LibraryUpdateKept
                /\ CountsWhatQueryFinds /\ VersionsOnlyIfDocumentAsks
  BY LibInvTells
<1>4. LibInv /\ [LibNext]_docVars =>
         /\ [\A d \in DOMAIN docs : ~ docs[d].live => ~ docs'[d].live]_docVars
         /\ [\A d \in Live : docs[d].type = "version" /\ docs[d].coll = "versions" /\ ~ docs'[d].live
                => \E t \in DThreads : \/ dpc[t] \in {"delete_data", "delete_document"}
                                       \/ dpc[t] = "clean_versions" /\ task[t].name = "versions"]_docVars
  BY LibStepsSound
<1> QED
  BY <1>1, <1>2, <1>3, <1>4, PTL
     DEF LibSpec, LibrariesSound, VersionsOnlyGoWithLibrary, DeletedDocumentStaysDeleted


-----------------------------------------------------------------------------
(* Scripts: what is known of the engine, its calls and the stored scripts. *)

\* Texts, those that the model writes out among them.
Texts == STRING \cup {"changed", "system", "default", "function", "validator", "js", "store", "documents"}
ScriptGlobals == [args : Seq(Texts), document : Seq(Texts), input : Seq(Texts), function : {"none", "f", "g"},
                  verdict : {"none", "true", "false", "throws"}, change : {"none", "inplace", "returned", "throws"},
                  declared : BOOLEAN]
Evals     == [what : {"read", "script", "code", "wrapped", "setup", "call", "validate", "transform", "query"}, code : ScriptCodes]
EngineOps == {"eval", "query", "save", "call", "validate", "transform", "code", "return"}
ScriptRecords == [lib : Texts, type : Texts, name : Texts, owner : Texts, enabled : BOOLEAN, limited : BOOLEAN,
                  version : Nat, code : ScriptCodes, ref : Texts, origin : Texts, live : BOOLEAN]
IsCall(c) ==
    /\ c = [op |-> c.op, num |-> c.num, name |-> c.name, given |-> c.given, evals |-> c.evals, alone |-> c.alone,
            value |-> c.value, expect |-> c.expect, error |-> c.error, doc |-> c.doc]
    /\ c.given \in Seq(Texts) /\ c.evals \in Seq(Evals) /\ c.alone \in BOOLEAN
CallSteps == {"idle", "write", "run", "finish", "report", "fetch", "record"}
ScriptsDir(op) == IF op = "call" THEN "functions" ELSE IF op = "validate" THEN "validators" ELSE "transforms"

\* The engine: who is in it, and who holds its mutex.
TasksInv ==
    /\ jpc \in [JThreads -> CallSteps] /\ DOMAIN jtask = JThreads /\ jtask = [t \in JThreads |-> jtask[t]]
    /\ \A t \in JThreads : IsCall(jtask[t]) /\ (jpc[t] = "run" => jtask[t].evals # <<>>)
    /\ \A t \in JThreads : inside[t] # {} => jpc[t] = "run" /\ inside[t] = {jtask[t].evals[1]} /\ jtask[t].evals[1].what # "read"
MutexInv ==
    /\ inside \in [JThreads -> SUBSET Evals] /\ jmutex \subseteq JThreads
    /\ \A t \in JThreads : \A e \in inside[t] : Guarded(e) => jmutex = {t}
    /\ \A t, u \in jmutex : t = u
    /\ <<TRUE, TRUE>> \notin corrupt
EngineInv == TasksInv /\ MutexInv

\* What an evaluation can answer: never what stands for an error.
DataInv ==
    /\ jglobals \in ScriptGlobals /\ jglobals.document # <<"error">>
    /\ \A p \in DOMAIN jfiles : jfiles[p] \in SUBSET ScriptCodes
    /\ jcalls \in 0 .. MaxJsCalls /\ validated \in Nat /\ plan \in Plans

\* A call in progress: only a validation prepares the context, and does so first; the script it is to
\* read is there.
InProgress(t) ==
    LET c == jtask[t] IN
    /\ c.op \in EngineOps /\ c.num \in 1 .. jcalls /\ c.value # <<"error">> /\ c.given # <<"error">>
    /\ \A i \in 1 .. Len(c.evals) : c.evals[i].what = "setup" => i = 1 /\ c.op = "validate"
    /\ jpc[t] = "run" => \A i \in 1 .. Len(c.evals) : c.evals[i].what = "read" => <<ScriptsDir(c.op), c.name>> \in DOMAIN jfiles
    /\ jpc[t] = "write" => c.op = "save" /\ c.evals # <<>>
    /\ jpc[t] = "fetch" => c.op = "validate" /\ c.doc # 0
    /\ c.doc # 0 => c.op = "validate" /\ c.doc \in 1 .. Len(scriptDocs) /\ scriptDocs[c.doc].origin = "documents"
CallsInv ==
    /\ \A t \in JThreads : jpc[t] # "idle" => InProgress(t)
    /\ \A t, u \in JThreads : t # u /\ jpc[t] # "idle" /\ jtask[t].alone => jpc[u] = "idle"

\* A call of a function that nobody disturbs: its arguments stay, and the function is the one
\* of the file that was read.
Undisturbed(t) ==
    LET c == jtask[t]  call == Eval("call", NoCode) IN
    /\ c.doc = 0
    /\ \/ jpc[t] = "report"
       \/ /\ jpc[t] = "run" /\ jglobals.args = c.given
          /\ \/ c.evals = <<ReadIt, call>>
             \/ Len(c.evals) = 2 /\ c.evals[1].what = "script" /\ c.evals[1].code.function = c.expect /\ c.evals[2] = call
             \/ c.evals = <<call>> /\ (c.expect # "none" => jglobals.function = c.expect)
       \/ jpc[t] = "finish" /\ (c.expect # "none" => c.value = <<c.expect>> \o c.given)
AnswersInv ==
    /\ OwnResult /\ ErrorIsOwn /\ NothingTriggered
    /\ \A t \in JThreads : jpc[t] # "idle" /\ jtask[t].alone =>
          /\ corrupt = {} /\ jtask[t].op = "call" => Undisturbed(t)
          /\ jpc[t] = "report" /\ jtask[t].op # "validate" => lastError[1] = jtask[t].num

\* A validation whose preparation is done: there is one in the life of the engine.
Prepared(t) ==
    /\ jtask[t].op = "validate"
    /\ jpc[t] = "finish" \/ (jpc[t] = "run" /\ jtask[t].evals[1].what # "setup")
ValidInv ==
    corrupt = {} =>
        /\ ~ jglobals.declared => validated = 0 /\ \A t \in JThreads : ~ Prepared(t)
        /\ \A t, u \in JThreads : Prepared(t) /\ Prepared(u) => t = u
        /\ \A t \in JThreads : Prepared(t) => validated = 0
        /\ validated <= 1

\* Documents of scripts: only those stored as something else have a place where scripts are sought.
Places == {"system/validators", "system/transformers", "system/functions"}
FoundSound(coll, d, s) ==
    /\ s \in ScriptRecords /\ s.origin = scriptDocs[d].origin
    /\ coll \in Places => s.version = 1 /\ s.origin = "documents"
    /\ coll = "documents" => s.type = "documents" /\ s.version <= 2
DocumentsInv ==
    /\ scriptDocs \in Seq(ScriptRecords) /\ Len(scriptDocs) <= MaxScripts
    /\ \A d \in 1 .. Len(scriptDocs) :
          /\ scriptDocs[d].version <= 2
          /\ scriptDocs[d].lib = "default" /\ scriptDocs[d].type \in Places => scriptDocs[d].version = 1 /\ scriptDocs[d].origin = "documents"
LookedInv ==
    \A k \in DOMAIN looked :
        /\ k[1] \in Places \cup {"documents"} =>
               k[2] \in 1 .. Len(scriptDocs) /\ \A s \in looked[k] : FoundSound(k[1], k[2], s)
        /\ k[1] = "name" => looked[k] \in SUBSET ScriptCodes
StoredInv ==
    /\ DocumentsInv /\ LookedInv
    /\ janswer.op = "validate" /\ janswer.doc # 0 => janswer.doc \in 1 .. Len(scriptDocs) /\ scriptDocs[janswer.doc].origin = "documents"

\* What holds of scripts in every reachable state.
ScriptInv == EngineInv /\ DataInv /\ CallsInv /\ AnswersInv /\ ValidInv /\ StoredInv

-----------------------------------------------------------------------------
(* Scripts: the interpreter and what is stored.                            *)

\* What an evaluation does to the context, and what it never does.
EvalSound(g, e, r) ==
    /\ r.globals \in ScriptGlobals /\ r.ok \in BOOLEAN
    /\ r.value # <<"error">> /\ (g.document # <<"error">> => r.globals.document # <<"error">>)
    /\ r.globals.args = g.args
    /\ e.what # "setup" => r.globals.declared = g.declared
    /\ e.what = "setup" => (r.ok => ~ g.declared /\ r.globals.declared) /\ (~ r.ok => r.globals = g)
    /\ e.what = "call" => r.ok /\ r.globals = g /\ (g.function # "none" => r.value = <<g.function>> \o g.args)
    /\ e.what = "script" /\ r.ok => r.globals.function = Defines(g.function, e.code.function)

LEMMA Words ==
    ASSUME NEW s \in Seq(Texts), NEW x, x # "error"
    PROVE  /\ <<x>> # <<"error">> /\ <<x>> \o s # <<"error">> /\ s \o <<"changed">> # <<"error">>
           /\ s \o <<"changed">> \in Seq(Texts)
<1>1. Len(s) \in Nat
  BY LenProperties
<1>2. <<"changed">> \in Seq(Texts) /\ "changed" \in Texts
  BY DEF Texts
<1>3. s \o <<"changed">> \in Seq(Texts) /\ (s \o <<"changed">>)[Len(s) + 1] = "changed" /\ Len(s \o <<"changed">>) = Len(s) + 1
  BY <1>1, <1>2, ConcatProperties
<1>4. s \o <<"changed">> # <<"error">>
  <2>1. Len(<<"error">>) = 1 /\ <<"error">>[1] = "error" /\ "changed" # "error"
    OBVIOUS
  <2>2. SUFFICES ASSUME s \o <<"changed">> = <<"error">> PROVE FALSE
    OBVIOUS
  <2>3. Len(s) + 1 = 1
    BY <1>3, <2>1, <2>2
  <2> QED BY <1>1, <1>3, <2>1, <2>2, <2>3
<1>5. (<<x>> \o s)[1] = x
  BY SeqDef, LenProperties, <1>1, ConcatProperties
<1>6. <<x>> \o s # <<"error">>
  <2>1. <<"error">>[1] = "error"
    OBVIOUS
  <2> DEFINE y == <<x>> \o s
  <2>2. y[1] = x
    BY <1>5
  <2> HIDE DEF y
  <2>3. y # <<"error">>
    BY <2>1, <2>2
  <2> QED BY <2>3 DEF y
<1> QED BY <1>3, <1>4, <1>6

\* What an evaluation answers if it does nothing but that.
LEMMA AnswersOnly ==
    ASSUME NEW g \in ScriptGlobals, NEW e \in Evals, NEW v, v # <<"error">>, NEW r,
           e.what \notin {"script", "call", "setup"},
           r \in {[globals |-> g, ok |-> TRUE, value |-> v], [globals |-> g, ok |-> FALSE, value |-> <<>>]}
    PROVE  EvalSound(g, e, r)
<1>1. CASE r = [globals |-> g, ok |-> TRUE, value |-> v]
  BY <1>1 DEF EvalSound
<1>2. CASE r = [globals |-> g, ok |-> FALSE, value |-> <<>>]
  BY <1>2 DEF EvalSound
<1> QED BY <1>1, <1>2

LEMMA EvaluationSound ==
    ASSUME NEW g \in ScriptGlobals, NEW e \in Evals, e.what # "read"
    PROVE  EvalSound(g, e, Evaluate(g, e))
<1> DEFINE r == Evaluate(g, e)
<1>1. /\ g.args \in Seq(Texts) /\ g.document \in Seq(Texts) /\ g.input \in Seq(Texts)
      /\ g.function \in {"none", "f", "g"} /\ g.declared \in BOOLEAN /\ e.code \in ScriptCodes
      /\ g.verdict \in {"none", "true", "false", "throws"} /\ g.change \in {"none", "inplace", "returned", "throws"}
  BY DEF ScriptGlobals, Evals
<1>2. "code" # "error" /\ "changed" # "error" /\ "script" # "error"
  OBVIOUS
<1>3. CASE e.what \in {"script", "code"}
  <2>1. r = RunScript(g, e.code)
    BY <1>3 DEF Evaluate
  <2>2. CASE ~ e.code.runs
    <3>1. r = [globals |-> g, ok |-> FALSE, value |-> <<>>]
      BY <2>1, <2>2 DEF RunScript, Thrown
    <3> HIDE DEF r
    <3> QED BY <3>1, <1>3 DEF EvalSound, r
  <2>3. CASE e.code.runs
    <3> DEFINE h == [g EXCEPT !.function = Defines(@, e.code.function), !.verdict = Defines(@, e.code.verdict),
                              !.change = Defines(@, e.code.change)]
    <3>1. h \in ScriptGlobals /\ h.args = g.args /\ h.document = g.document /\ h.declared = g.declared
          /\ h.function = Defines(g.function, e.code.function)
      BY <1>1 DEF ScriptGlobals, ScriptCodes, Defines
    <3>2. r = [globals |-> h, ok |-> TRUE, value |-> <<"script">>]
      BY <2>1, <2>3 DEF RunScript, Outcome
    <3> HIDE DEF h, r
    <3>3. <<"script">> # <<"error">>
      BY <1>1, <1>2, Words
    <3> QED BY <1>3, <3>1, <3>2, <3>3 DEF EvalSound, r
  <2> QED BY <2>2, <2>3
<1>4. CASE e.what = "wrapped"
  <2>1. r = IF e.code.runs THEN Outcome(g, <<"code">> \o g.input) ELSE Thrown(g)
    BY <1>4 DEF Evaluate
  <2>2. <<"code">> \o g.input # <<"error">>
    BY <1>1, <1>2, Words
  <2>3. r \in {[globals |-> g, ok |-> TRUE, value |-> <<"code">> \o g.input], [globals |-> g, ok |-> FALSE, value |-> <<>>]}
    BY <2>1 DEF Outcome, Thrown
  <2> HIDE DEF r
  <2> QED BY <1>4, <2>2, <2>3, AnswersOnly DEF r
<1>5. CASE e.what = "setup"
  <2>1. r = Prepare(g, e.code.verdict)
    BY <1>5 DEF Evaluate
  <2>2. CASE g.declared
    <3>1. r = [globals |-> g, ok |-> FALSE, value |-> <<>>]
      BY <2>1, <2>2 DEF Prepare, Thrown
    <3> HIDE DEF r
    <3> QED BY <1>5, <3>1 DEF EvalSound, r
  <2>3. CASE ~ g.declared
    <3> DEFINE h == [g EXCEPT !.declared = TRUE, !.verdict = Defines(@, e.code.verdict)]
    <3>1. h \in ScriptGlobals /\ h.args = g.args /\ h.document = g.document /\ h.declared
      BY <1>1 DEF ScriptGlobals, ScriptCodes, Defines
    <3>2. r = [globals |-> h, ok |-> TRUE, value |-> <<>>]
      BY <2>1, <2>3 DEF Prepare, Outcome
    <3> HIDE DEF h, r
    <3> QED BY <1>5, <2>3, <3>1, <3>2 DEF EvalSound, r
  <2> QED BY <2>2, <2>3
<1>6. CASE e.what = "call"
  <2>1. r = Outcome(g, IF g.function = "none" THEN <<>> ELSE <<g.function>> \o g.args)
    BY <1>6 DEF Evaluate
  <2>2. <<g.function>> \o g.args # <<"error">>
    BY <1>1, Words
  <2> DEFINE v == <<g.function>> \o g.args
  <2>3. r = [globals |-> g, ok |-> TRUE, value |-> IF g.function = "none" THEN <<>> ELSE v]
    BY <2>1 DEF Outcome
  <2> HIDE DEF r
  <2> QED BY <1>6, <2>2, <2>3 DEF EvalSound, r
<1>7. CASE e.what = "validate"
  <2>1. r = IF g.verdict \in {"none", "throws"} THEN Thrown(g) ELSE Outcome(g, <<g.verdict>>)
    BY <1>7 DEF Evaluate
  <2>2. <<g.verdict>> # <<"error">>
    BY <1>1, Words
  <2>3. r \in {[globals |-> g, ok |-> TRUE, value |-> <<g.verdict>>], [globals |-> g, ok |-> FALSE, value |-> <<>>]}
    BY <2>1 DEF Outcome, Thrown
  <2> HIDE DEF r
  <2> QED BY <1>7, <2>2, <2>3, AnswersOnly DEF r
<1>8. CASE e.what = "transform"
  <2>1. r = IF g.change \in {"none", "throws"} THEN Thrown(g)
            ELSE IF g.change = "inplace" THEN Outcome([g EXCEPT !.document = Changed(@)], <<>>)
            ELSE Outcome(g, Changed(g.document))
    BY <1>8 DEF Evaluate
  <2>2. Changed(g.document) \in Seq(Texts) /\ Changed(g.document) # <<"error">>
    BY <1>1, <1>2, Words DEF Changed
  <2> DEFINE h == [g EXCEPT !.document = Changed(@)]
  <2>3. h \in ScriptGlobals /\ h.args = g.args /\ h.document = Changed(g.document) /\ h.declared = g.declared
    BY <2>2 DEF ScriptGlobals
  <2>4. \/ r \in {[globals |-> g, ok |-> TRUE, value |-> Changed(g.document)], [globals |-> g, ok |-> FALSE, value |-> <<>>]}
        \/ r = [globals |-> h, ok |-> TRUE, value |-> <<>>]
    BY <2>1 DEF Outcome, Thrown
  <2> HIDE DEF h, r
  <2>5. CASE r = [globals |-> h, ok |-> TRUE, value |-> <<>>]
    <3>1. r.globals = h /\ r.ok = TRUE /\ r.value = <<>> /\ e.what # "setup" /\ e.what # "call" /\ e.what # "script"
      BY <1>8, <2>5
    <3>2. h.document # <<"error">>
      BY <2>2, <2>3
    <3>0. <<>> # <<"error">>
      OBVIOUS
    <3>3. r.globals \in ScriptGlobals /\ r.ok \in BOOLEAN /\ r.value # <<"error">> /\ r.globals.document # <<"error">>
      BY <2>3, <3>0, <3>1, <3>2
    <3>4. r.globals.args = g.args /\ r.globals.declared = g.declared
      BY <2>3, <3>1
    <3> QED BY <3>1, <3>3, <3>4 DEF EvalSound, r
  <2> QED BY <1>8, <2>2, <2>4, <2>5, AnswersOnly DEF r
<1>9. CASE e.what = "query"
  <2>1. r = [globals |-> g, ok |-> FALSE, value |-> <<>>]
    BY <1>9 DEF Evaluate, Thrown
  <2> HIDE DEF r
  <2> QED BY <1>9, <2>1 DEF EvalSound, r
<1> QED BY <1>3, <1>4, <1>5, <1>6, <1>7, <1>8, <1>9 DEF Evals

\* What a look-up finds is the document as it was once, or nothing.
LEMMA FindsSound ==
    ASSUME DocumentsInv, LookedInv, NEW d \in 1 .. Len(scriptDocs), NEW coll \in Places \cup {"documents"}, NEW s \in FindScript(coll, d)
    PROVE  FoundSound(coll, d, s)
  BY DEF FindScript, LookedInv, FindFresh, ScriptDoc, DocumentsInv, FoundSound, Places

\* What is remembered of a look-up is what it found.
LEMMA RemembersSound ==
    ASSUME DocumentsInv, LookedInv, NEW d \in 1 .. Len(scriptDocs), NEW keys \in SUBSET ((Places \cup {"documents"}) \X {d}),
           NEW k \in DOMAIN Remember(keys), k[1] \in Places \cup {"documents"}
    PROVE  k[2] \in 1 .. Len(scriptDocs) /\ \A s \in Remember(keys)[k] : FoundSound(k[1], k[2], s)
  BY FindsSound DEF Remember, LookedInv

LEMMA SearchesPlaces ==
    ASSUME NEW d
    PROVE  SearchedKeys(d) \in SUBSET ((Places \cup {"documents"}) \X {d}) /\ \A i \in Searched(d) : ScriptCollections[i] \in Places
  BY DEF ScriptCollections, Places, Searched, SearchedKeys

\* A script that is found was stored as a document of something else, in its first version.
LEMMA ScriptFound ==
    ASSUME DocumentsInv, LookedInv, NEW d \in 1 .. Len(scriptDocs), NEW s \in js_native_get_script(d)
    PROVE  s \in ScriptRecords /\ s.version = 1 /\ scriptDocs[d].origin = "documents"
<1>1. PICK i \in Searched(d) : s \in FindScript(ScriptCollections[i], d)
  BY DEF js_native_get_script
<1>2. ScriptCollections[i] \in Places
  BY SearchesPlaces
<1>3. FoundSound(ScriptCollections[i], d, s)
  BY <1>1, <1>2, FindsSound
<1> QED BY <1>2, <1>3 DEF FoundSound

-----------------------------------------------------------------------------
(* Scripts: what the steps of calls have in common.                        *)

\* Documents are never taken out, and keep where they came from.
DocsGrow ==
    /\ Len(scriptDocs) <= Len(scriptDocs')
    /\ \A d \in 1 .. Len(scriptDocs) : scriptDocs'[d].origin = scriptDocs[d].origin

\* What is said of the request that was answered last.
LastAnswered == OwnResult /\ ErrorIsOwn /\ NothingTriggered
AnsweredStored == janswer.op = "validate" /\ janswer.doc # 0 =>
                      janswer.doc \in 1 .. Len(scriptDocs) /\ scriptDocs[janswer.doc].origin = "documents"

\* What a call that nobody disturbs can rely on.
OwnCall(t) ==
    jpc[t] # "idle" /\ jtask[t].alone =>
        /\ corrupt = {} /\ jtask[t].op = "call" => Undisturbed(t)
        /\ jpc[t] = "report" /\ jtask[t].op # "validate" => lastError[1] = jtask[t].num

LEMMA ValidKept ==
    ASSUME ValidInv, jglobals'.declared = jglobals.declared, validated' = validated, corrupt' = corrupt,
           \A t \in JThreads : Prepared(t)' => Prepared(t)
    PROVE  ValidInv'
BY DEF ValidInv

LEMMA ScriptBounds == MaxJsCalls \in Nat /\ MaxScripts \in Nat
BY ScriptAssumption

\* A request begins a call.
LEMMA BeginSound ==
    ASSUME ScriptInv, NEW t \in JThreads, NEW step \in {"run", "write", "report", "fetch"}, NEW call, IsCall(call),
           BeginCall(t, step, call), UNCHANGED <<inside, jmutex, corrupt, scriptDocs, validated>>,
           DOMAIN jfiles \subseteq DOMAIN jfiles', \A p \in DOMAIN jfiles' : jfiles'[p] \in SUBSET ScriptCodes,
           jglobals' \in ScriptGlobals, jglobals'.document # <<"error">>, jglobals'.declared = jglobals.declared, LookedInv',
           call.op \in EngineOps, call.value # <<"error">>, call.given # <<"error">>,
           \A i \in 1 .. Len(call.evals) : call.evals[i].what = "setup" => i = 1 /\ call.op = "validate",
           step = "run" => /\ call.evals # <<>>
                           /\ \A i \in 1 .. Len(call.evals) : call.evals[i].what = "read" =>
                                <<ScriptsDir(call.op), call.name>> \in DOMAIN jfiles'
                           /\ call.op = "validate" => call.evals[1].what = "setup",
           step = "write" => call.op = "save" /\ call.evals # <<>>,
           step = "fetch" => call.op = "validate" /\ call.doc # 0,
           call.doc # 0 => call.op = "validate" /\ call.doc \in 1 .. Len(scriptDocs) /\ scriptDocs[call.doc].origin = "documents",
           call.op = "call" => /\ call.doc = 0
                               /\ \/ step = "report"
                                  \/ step = "run" /\ call.evals = <<ReadIt, Eval("call", NoCode)>> /\ jglobals'.args = call.given,
           step = "report" /\ call.op # "validate" => lastError'[1] = jcalls + 1
    PROVE  ScriptInv'
<1>1. /\ jpc[t] = "idle" /\ jcalls \in 0 .. MaxJsCalls /\ MaxJsCalls \in Nat /\ jcalls' = jcalls + 1 /\ jcalls' \in 0 .. MaxJsCalls
      /\ jpc' = [jpc EXCEPT ![t] = step] /\ jpc \in [JThreads -> CallSteps]
      /\ janswer' = janswer /\ plan' = plan
  <2>1. jcalls \in 0 .. MaxJsCalls /\ jpc \in [JThreads -> CallSteps] /\ MaxJsCalls \in Nat
    BY ScriptBounds DEF ScriptInv, EngineInv, TasksInv, MutexInv, DataInv
  <2>2. jpc[t] = "idle" /\ jcalls < MaxJsCalls /\ jcalls' = jcalls + 1
    BY DEF BeginCall, MayAsk
  <2>3. jcalls \in Nat /\ jcalls + 1 \in 0 .. MaxJsCalls
    BY <2>1, <2>2
  <2>4. jpc' = [jpc EXCEPT ![t] = step] /\ janswer' = janswer /\ plan' = plan
    BY DEF BeginCall
  <2> QED BY <2>1, <2>2, <2>3, <2>4
<1>2. /\ jpc' \in [JThreads -> CallSteps] /\ jpc'[t] = step /\ \A u \in JThreads : u # t => jpc'[u] = jpc[u]
  BY <1>1 DEF CallSteps
<1>3. /\ DOMAIN jtask' = JThreads /\ jtask' = [u \in JThreads |-> jtask'[u]]
      /\ jtask'[t] = [call EXCEPT !.num = jcalls + 1, !.alone = Running = {}]
      /\ \A u \in JThreads : u # t => jtask'[u] = [jtask[u] EXCEPT !.alone = FALSE]
  BY DEF BeginCall
<1>4. /\ IsCall(jtask'[t]) /\ jtask'[t].op = call.op /\ jtask'[t].num = jcalls + 1 /\ jtask'[t].name = call.name
      /\ jtask'[t].given = call.given /\ jtask'[t].evals = call.evals /\ jtask'[t].value = call.value
      /\ jtask'[t].doc = call.doc /\ (jtask'[t].alone <=> Running = {})
  BY <1>3 DEF IsCall
<1>5. ASSUME NEW u \in JThreads, u # t
      PROVE  /\ IsCall(jtask'[u]) /\ jtask'[u].op = jtask[u].op /\ jtask'[u].num = jtask[u].num /\ jtask'[u].name = jtask[u].name
             /\ jtask'[u].evals = jtask[u].evals /\ jtask'[u].value = jtask[u].value /\ jtask'[u].given = jtask[u].given
             /\ jtask'[u].doc = jtask[u].doc /\ ~ jtask'[u].alone
  <2>1. jtask'[u] = [jtask[u] EXCEPT !.alone = FALSE] /\ IsCall(jtask[u])
    BY <1>3, <1>5 DEF ScriptInv, EngineInv, TasksInv, MutexInv
  <2> QED BY <2>1 DEF IsCall
<1>6. EngineInv'
  <2>1. inside[t] = {}
    BY <1>1 DEF ScriptInv, EngineInv, TasksInv, MutexInv
  <2>2. \A u \in JThreads : jpc'[u] = "run" => jtask'[u].evals # <<>>
    BY <1>2, <1>4, <1>5 DEF ScriptInv, EngineInv, TasksInv, MutexInv
  <2>3. \A u \in JThreads : inside'[u] # {} =>
            jpc'[u] = "run" /\ inside'[u] = {jtask'[u].evals[1]} /\ jtask'[u].evals[1].what # "read"
    BY <1>2, <1>5, <2>1 DEF ScriptInv, EngineInv, TasksInv, MutexInv
  <2>4. \A u \in JThreads : IsCall(jtask'[u])
    BY <1>4, <1>5
  <2>5. MutexInv'
    BY DEF ScriptInv, EngineInv, MutexInv
  <2>6. DOMAIN jtask' = JThreads /\ jtask' = [u \in JThreads |-> jtask'[u]]
    BY <1>3
  <2> QED BY <1>2, <2>2, <2>3, <2>4, <2>5, <2>6 DEF EngineInv, TasksInv
<1>7. DataInv'
  BY <1>1 DEF ScriptInv, DataInv
<1>8. CallsInv'
  <2>1. InProgress(t)'
    BY <1>1, <1>4, <1>2 DEF InProgress
  <2>2. ASSUME NEW u \in JThreads, u # t, jpc'[u] # "idle" PROVE InProgress(u)'
    <3>1. InProgress(u)
      BY <1>2, <2>2 DEF ScriptInv, CallsInv
    <3>2. jtask'[u].num \in 1 .. jcalls' /\ scriptDocs' = scriptDocs /\ jpc'[u] = jpc[u]
      BY <1>1, <1>2, <1>5, <2>2, <3>1 DEF InProgress
    <3>3. /\ jtask'[u].op \in EngineOps /\ jtask'[u].value # <<"error">> /\ jtask'[u].given # <<"error">>
          /\ \A i \in 1 .. Len(jtask'[u].evals) : jtask'[u].evals[i].what = "setup" => i = 1 /\ jtask'[u].op = "validate"
      BY <1>5, <2>2, <3>1 DEF InProgress
    <3>4. jpc'[u] = "run" => \A i \in 1 .. Len(jtask'[u].evals) : jtask'[u].evals[i].what = "read" =>
                                <<ScriptsDir(jtask'[u].op), jtask'[u].name>> \in DOMAIN jfiles'
      BY <1>5, <2>2, <3>1, <3>2 DEF InProgress
    <3>5. /\ jpc'[u] = "write" => jtask'[u].op = "save" /\ jtask'[u].evals # <<>>
          /\ jpc'[u] = "fetch" => jtask'[u].op = "validate" /\ jtask'[u].doc # 0
          /\ jtask'[u].doc # 0 => /\ jtask'[u].op = "validate" /\ jtask'[u].doc \in 1 .. Len(scriptDocs')
                                 /\ scriptDocs'[jtask'[u].doc].origin = "documents"
      BY <1>5, <2>2, <3>1, <3>2 DEF InProgress
    <3> QED BY <3>2, <3>3, <3>4, <3>5 DEF InProgress
  <2>3. \A u, v \in JThreads : u # v /\ jpc'[u] # "idle" /\ jtask'[u].alone => jpc'[v] = "idle"
    BY <1>2, <1>4, <1>5 DEF Running
  <2> QED BY <2>1, <2>2, <2>3 DEF CallsInv
<1>9. AnswersInv'
  <2>1. LastAnswered'
    BY <1>1 DEF ScriptInv, AnswersInv, LastAnswered, OwnResult, ErrorIsOwn, NothingTriggered
  <2>2. OwnCall(t)'
    BY <1>2, <1>4 DEF OwnCall, Undisturbed
  <2>3. \A u \in JThreads : OwnCall(u)'
    BY <1>5, <2>2 DEF OwnCall
  <2> QED BY <2>1, <2>3 DEF AnswersInv, LastAnswered, OwnCall
<1>10. ValidInv'
  BY <1>2, <1>4, <1>5, ValidKept DEF Prepared, ScriptInv
<1>11. StoredInv'
  BY <1>1 DEF ScriptInv, StoredInv, DocumentsInv
<1> QED BY <1>6, <1>7, <1>8, <1>9, <1>10, <1>11 DEF ScriptInv

\* A request is answered at once, or a cache forgets.
LEMMA NowSound ==
    ASSUME ScriptInv, UNCHANGED <<engineVars, jpc, jtask, plan, validated>>, jcalls' \in {jcalls, jcalls + 1}, jcalls' <= MaxJsCalls,
           LastAnswered', AnsweredStored', DocumentsInv', LookedInv', DocsGrow
    PROVE  ScriptInv'
<1>1. /\ jglobals' = jglobals /\ jfiles' = jfiles /\ inside' = inside /\ jmutex' = jmutex /\ corrupt' = corrupt
      /\ lastError' = lastError /\ jpc' = jpc /\ jtask' = jtask /\ plan' = plan /\ validated' = validated
      /\ jcalls \in Nat /\ MaxJsCalls \in Nat /\ jcalls' \in Nat /\ jcalls <= jcalls' /\ jcalls' \in 0 .. MaxJsCalls
  BY ScriptBounds DEF engineVars, ScriptInv, DataInv
<1>2. EngineInv'
  BY <1>1 DEF ScriptInv, EngineInv, TasksInv, MutexInv
<1>3. DataInv'
  BY <1>1 DEF ScriptInv, DataInv
<1>4. CallsInv'
  <2>1. ASSUME NEW u \in JThreads, jpc[u] # "idle" PROVE InProgress(u)'
    <3>1. InProgress(u)
      BY <2>1 DEF ScriptInv, CallsInv
    <3>2. jtask[u].num \in 1 .. jcalls'
      BY <1>1, <3>1 DEF InProgress
    <3>3. Len(scriptDocs) \in Nat /\ Len(scriptDocs') \in Nat
      BY LenProperties DEF ScriptInv, StoredInv, DocumentsInv
    <3>4. jtask[u].doc # 0 => /\ jtask[u].op = "validate" /\ jtask[u].doc \in 1 .. Len(scriptDocs')
                              /\ scriptDocs'[jtask[u].doc].origin = "documents"
      BY <3>1, <3>3 DEF InProgress, DocsGrow
    <3> QED BY <1>1, <3>1, <3>2, <3>4 DEF InProgress
  <2> QED BY <1>1, <2>1 DEF ScriptInv, CallsInv
<1>5. AnswersInv'
  BY <1>1 DEF ScriptInv, AnswersInv, OwnCall, Undisturbed, LastAnswered
<1>6. ValidInv'
  BY <1>1 DEF ScriptInv, ValidInv, Prepared
<1> QED BY <1>2, <1>3, <1>4, <1>5, <1>6 DEF ScriptInv, StoredInv, AnsweredStored

\* A call goes on or is answered: nothing else changes for the others.
LEMMA StepSound ==
    ASSUME ScriptInv, NEW t \in JThreads, jpc[t] # "idle", NEW step \in CallSteps, NEW call, IsCall(call), AtStep(t, step, call),
           inside' \in [JThreads -> SUBSET Evals], inside'[t] = {}, \A u \in JThreads : u # t => inside'[u] = inside[u],
           jmutex' \in {jmutex, jmutex \ {t}}, corrupt' = corrupt,
           DOMAIN jfiles \subseteq DOMAIN jfiles', \A p \in DOMAIN jfiles' : jfiles'[p] \in SUBSET ScriptCodes,
           jglobals' \in ScriptGlobals, jglobals'.document # <<"error">>, validated' \in Nat,
           step = "run" => call.evals # <<>>, step # "idle" => InProgress(t)',
           step # "idle" /\ call.alone => jtask[t].alone,
           OwnCall(t)', LastAnswered', AnsweredStored', DocumentsInv', LookedInv', DocsGrow, ValidInv'
    PROVE  ScriptInv'
<1>1. /\ jpc' = [jpc EXCEPT ![t] = step] /\ jtask' = [jtask EXCEPT ![t] = call] /\ jcalls' = jcalls /\ plan' = plan
      /\ jpc \in [JThreads -> CallSteps] /\ DOMAIN jtask = JThreads
  BY DEF AtStep, ScriptInv, EngineInv, TasksInv
<1>2. /\ jpc' \in [JThreads -> CallSteps] /\ jpc'[t] = step /\ jtask'[t] = call
      /\ \A u \in JThreads : u # t => jpc'[u] = jpc[u] /\ jtask'[u] = jtask[u]
      /\ DOMAIN jtask' = JThreads /\ jtask' = [u \in JThreads |-> jtask'[u]]
  BY <1>1
<1>3. ASSUME NEW u \in JThreads, u # t, jpc[u] # "idle" PROVE ~ jtask[u].alone
  BY <1>3 DEF ScriptInv, CallsInv
<1>4. EngineInv'
  BY <1>2 DEF ScriptInv, EngineInv, TasksInv, MutexInv
<1>5. DataInv'
  BY <1>1 DEF ScriptInv, DataInv
<1>6. CallsInv'
  <2>1. ASSUME NEW u \in JThreads, u # t, jpc'[u] # "idle" PROVE InProgress(u)'
    <3>1. InProgress(u)
      BY <1>2, <2>1 DEF ScriptInv, CallsInv
    <3>2. Len(scriptDocs) \in Nat /\ Len(scriptDocs') \in Nat
      BY LenProperties DEF ScriptInv, StoredInv, DocumentsInv
    <3>3. jtask[u].doc # 0 => /\ jtask[u].op = "validate" /\ jtask[u].doc \in 1 .. Len(scriptDocs')
                              /\ scriptDocs'[jtask[u].doc].origin = "documents"
      BY <3>1, <3>2 DEF InProgress, DocsGrow
    <3>4. jtask'[u] = jtask[u] /\ jpc'[u] = jpc[u] /\ jcalls' = jcalls
      BY <1>1, <1>2, <2>1
    <3> QED BY <3>1, <3>3, <3>4 DEF InProgress
  <2>2. ASSUME NEW u \in JThreads, NEW v \in JThreads, u # v, jpc'[u] # "idle", jtask'[u].alone PROVE jpc'[v] = "idle"
    BY <1>2, <2>2, <1>3 DEF ScriptInv, CallsInv
  <2>3. \A u \in JThreads : jpc'[u] # "idle" => InProgress(u)'
    BY <1>2, <2>1
  <2> QED BY <2>2, <2>3 DEF CallsInv
<1>7. AnswersInv'
  BY <1>2, <1>3 DEF OwnCall, AnswersInv, LastAnswered
<1> QED BY <1>4, <1>5, <1>6, <1>7 DEF ScriptInv, StoredInv, AnsweredStored

\* An evaluation begins.
LEMMA EvalSoundStep ==
    ASSUME ScriptInv, NEW t \in JThreads, JS_Eval(t)
    PROVE  ScriptInv'
<1> DEFINE e == jtask[t].evals[1]
           others == UNION {inside[u] : u \in JThreads \ {t}}
<1>1. /\ jpc[t] = "run" /\ inside[t] = {} /\ jtask[t].evals \in Seq(Evals) /\ jtask[t].evals # <<>>
  BY DEF JS_Eval, ScriptInv, EngineInv, TasksInv, IsCall
<1>2. Head(jtask[t].evals) = e /\ e \in Evals
  BY <1>1
<1>3. /\ e.what # "read" /\ (Guarded(e) => jmutex = {}) /\ jmutex' = IF Guarded(e) THEN {t} ELSE jmutex
      /\ inside' = [inside EXCEPT ![t] = {e}]
      /\ corrupt' = corrupt \cup {<<Guarded(other), Guarded(e)>> : other \in others}
      /\ UNCHANGED <<jglobals, jfiles, jdirs, lastError, jpc, jtask, jcalls, janswer, nativeVars, granted, plan, validated>>
  BY <1>2 DEF JS_Eval
<1>4. /\ inside \in [JThreads -> SUBSET Evals] /\ jmutex \subseteq JThreads
      /\ \A u \in JThreads : \A d \in inside[u] : Guarded(d) => jmutex = {u}
      /\ \A u, v \in jmutex : u = v
      /\ <<TRUE, TRUE>> \notin corrupt
  BY DEF ScriptInv, EngineInv, MutexInv
<1> HIDE DEF e
<1>5. /\ inside' \in [JThreads -> SUBSET Evals] /\ inside'[t] = {e} /\ \A u \in JThreads : u # t => inside'[u] = inside[u]
  BY <1>2, <1>3, <1>4
<1>6. MutexInv'
  <2>1. ASSUME NEW u \in JThreads, NEW d \in inside'[u], Guarded(d) PROVE jmutex' = {u}
    BY <1>3, <1>5, <2>1, <1>4
  <2>2. <<TRUE, TRUE>> \notin corrupt'
    <3>1. ASSUME NEW d \in others, Guarded(d), Guarded(e) PROVE FALSE
      <4>1. PICK u \in JThreads : d \in inside[u]
        OBVIOUS
      <4> QED BY <1>3, <1>4, <3>1, <4>1
    <3>2. \A d \in others : <<Guarded(d), Guarded(e)>> # <<TRUE, TRUE>>
      BY <3>1
    <3> QED BY <1>3, <1>4, <3>2
  <2>3. jmutex' \subseteq JThreads /\ \A u, v \in jmutex' : u = v
    BY <1>3, <1>4
  <2> QED BY <1>5, <2>1, <2>2, <2>3 DEF MutexInv
<1>7. TasksInv'
  BY <1>1, <1>3, <1>5 DEF ScriptInv, EngineInv, TasksInv, e
<1>8. corrupt' = {} => corrupt = {}
  BY <1>3
<1>9. /\ jglobals' = jglobals /\ jfiles' = jfiles /\ lastError' = lastError /\ jpc' = jpc /\ jtask' = jtask /\ jcalls' = jcalls
      /\ janswer' = janswer /\ scriptDocs' = scriptDocs /\ looked' = looked /\ plan' = plan /\ validated' = validated
  BY <1>3 DEF nativeVars
<1>10. DataInv' /\ CallsInv' /\ StoredInv'
  BY <1>9 DEF ScriptInv, DataInv, CallsInv, InProgress, StoredInv, DocumentsInv, LookedInv, FoundSound
<1>11. AnswersInv'
  BY <1>8, <1>9 DEF ScriptInv, AnswersInv, LastAnswered, OwnResult, ErrorIsOwn, NothingTriggered, OwnCall, Undisturbed
<1>12. ValidInv'
  BY <1>8, <1>9 DEF ScriptInv, ValidInv, Prepared
<1> QED BY <1>6, <1>7, <1>10, <1>11, <1>12 DEF ScriptInv, EngineInv

-----------------------------------------------------------------------------
(* Scripts: requests to the engine begin.                                  *)

LEMMA AskedSound ==
    ASSUME ScriptInv, NEW r \in plan
    PROVE  /\ r.code \in ScriptCodes /\ r.given \in Seq(Texts) /\ r.given # <<"error">>
           /\ r.op = "register" => r.name \in ScriptNames
  BY ScriptAssumption, SeqDef, LenProperties DEF ScriptInv, DataInv, Texts

\* A call as it begins.
NewCall(op, n, x, es, ex, d) ==
    [op |-> op, num |-> 0, name |-> n, given |-> x, evals |-> es, alone |-> TRUE,
     value |-> <<>>, expect |-> ex, error |-> 0, doc |-> d]

\* How the requests write a call.
LEMMA EvaluationCall ==
    ASSUME NEW op, NEW es, NEW c, c = [NoCall EXCEPT !.op = op, !.evals = es]
    PROVE  c = NewCall(op, "none", <<>>, es, "none", 0)
BY DEF NoCall, NewCall

LEMMA SaveCall ==
    ASSUME NEW op, NEW n, NEW ex, NEW es, NEW c, c = [NoCall EXCEPT !.op = op, !.name = n, !.expect = ex, !.evals = es]
    PROVE  c = NewCall(op, n, <<>>, es, ex, 0)
BY DEF NoCall, NewCall

LEMMA FunctionCall ==
    ASSUME NEW op, NEW n, NEW x, NEW es, NEW c, c = ScriptCall(op, n, x, es)
    PROVE  c = NewCall(op, n, x, es, "none", 0)
BY DEF NoCall, NewCall, ScriptCall

LEMMA EvalMade ==
    /\ NoCode \in ScriptCodes /\ [NoCode EXCEPT !.verdict = "true"] \in ScriptCodes /\ ReadIt \in Evals
    /\ \A c \in ScriptCodes : \A w \in {"read", "script", "code", "wrapped", "setup", "call", "validate", "transform", "query"} :
          Eval(w, c) \in Evals /\ Eval(w, c).what = w /\ Eval(w, c).code = c
    /\ ReadIt.what = "read"
  BY DEF NoCode, ScriptCodes, Eval, Evals, ReadIt

LEMMA GiveSound ==
    ASSUME ScriptInv, NEW x \in Seq(Texts), x # <<"error">>
    PROVE  /\ Give("args", x) => /\ jglobals' \in ScriptGlobals /\ jglobals'.document # <<"error">>
                                 /\ jglobals'.declared = jglobals.declared /\ jglobals'.args = x
           /\ Give("document", x) => /\ jglobals' \in ScriptGlobals /\ jglobals'.document # <<"error">>
                                     /\ jglobals'.declared = jglobals.declared /\ jglobals'.args = jglobals.args
           /\ Give("input", x) => /\ jglobals' \in ScriptGlobals /\ jglobals'.document # <<"error">>
                                  /\ jglobals'.declared = jglobals.declared /\ jglobals'.args = jglobals.args
  BY DEF ScriptInv, DataInv, Give, ScriptGlobals

LEMMA LookedKept ==
    ASSUME ScriptInv, looked' = looked, scriptDocs' = scriptDocs
    PROVE  LookedInv' /\ DocumentsInv' /\ DocsGrow
BY DEF ScriptInv, StoredInv, LookedInv, DocumentsInv, FoundSound, DocsGrow

\* A call of the engine alone begins: files are added at most.
LEMMA EngineCallSound ==
    ASSUME ScriptInv, NEW t \in JThreads, NEW step \in {"run", "write", "report"}, NEW call, BeginCall(t, step, call),
           IsCall(call), call.op \in EngineOps, call.given # <<"error">>, call.value = <<>>, call.doc = 0,
           inside' = inside, jmutex' = jmutex, corrupt' = corrupt, scriptDocs' = scriptDocs, looked' = looked, validated' = validated,
           DOMAIN jfiles \subseteq DOMAIN jfiles', \A p \in DOMAIN jfiles' : jfiles'[p] \in SUBSET ScriptCodes,
           jglobals' \in ScriptGlobals, jglobals'.document # <<"error">>, jglobals'.declared = jglobals.declared,
           \A i \in 1 .. Len(call.evals) : call.evals[i].what = "setup" => i = 1 /\ call.op = "validate",
           step = "run" => /\ call.evals # <<>>
                           /\ \A i \in 1 .. Len(call.evals) : call.evals[i].what = "read" =>
                                <<ScriptsDir(call.op), call.name>> \in DOMAIN jfiles'
                           /\ call.op = "validate" => call.evals[1].what = "setup",
           step = "write" => call.op = "save" /\ call.evals # <<>>,
           call.op = "call" => \/ step = "report"
                               \/ step = "run" /\ call.evals = <<ReadIt, Eval("call", NoCode)>> /\ jglobals'.args = call.given,
           step = "report" => lastError'[1] = jcalls + 1
    PROVE  ScriptInv'
<1>1. LookedInv'
  BY LookedKept
<1>2. call.value # <<"error">>
  OBVIOUS
<1>3. step \in {"run", "write", "report", "fetch"} /\ step # "fetch"
  OBVIOUS
<1>4. UNCHANGED <<inside, jmutex, corrupt, scriptDocs, validated>>
  OBVIOUS
<1> QED BY <1>1, <1>2, <1>3, <1>4, BeginSound

\* What stays when a request gives nothing to the context.
LEMMA GlobalsKept ==
    ASSUME ScriptInv, jglobals' = jglobals
    PROVE  jglobals' \in ScriptGlobals /\ jglobals'.document # <<"error">> /\ jglobals'.declared = jglobals.declared
BY DEF ScriptInv, DataInv

LEMMA FilesKept ==
    ASSUME ScriptInv, jfiles' = jfiles
    PROVE  DOMAIN jfiles \subseteq DOMAIN jfiles' /\ \A p \in DOMAIN jfiles' : jfiles'[p] \in SUBSET ScriptCodes
BY DEF ScriptInv, DataInv

LEMMA NothingGiven == <<>> \in Seq(Texts) /\ <<>> # <<"error">>
OBVIOUS

LEMMA EvalRequestSound ==
    ASSUME ScriptInv, NEW t \in JThreads, NEW c \in ScriptCodes, api_handle_js_eval(t, c)
    PROVE  ScriptInv'
<1> DEFINE es == <<Eval("script", c)>>
           call == [NoCall EXCEPT !.op = "eval", !.evals = es]
<1>1. es \in Seq(Evals) /\ Len(es) = 1 /\ es[1].what = "script" /\ es # <<>>
  BY EvalMade
<1>2. /\ inside' = inside /\ jmutex' = jmutex /\ corrupt' = corrupt /\ scriptDocs' = scriptDocs /\ looked' = looked
      /\ validated' = validated /\ jglobals' = jglobals /\ jfiles' = jfiles
  BY DEF api_handle_js_eval, engineVars, nativeVars
<1>3. BeginCall(t, "run", call)
  BY DEF api_handle_js_eval
<1> HIDE DEF es
<1>4. call = NewCall("eval", "none", <<>>, es, "none", 0)
  BY EvaluationCall
<1> HIDE DEF call
<1>5. IsCall(call) /\ call.op = "eval" /\ call.given = <<>> /\ call.evals = es /\ call.value = <<>> /\ call.doc = 0
  BY <1>1, <1>4, NothingGiven DEF NewCall, IsCall
<1>6. \A i \in 1 .. Len(call.evals) : call.evals[i].what # "setup" /\ call.evals[i].what # "read"
  <2>1. Len(call.evals) = 1 /\ call.evals[1] = es[1]
    BY <1>1, <1>5
  <2>2. \A i \in 1 .. 1 : i = 1
    OBVIOUS
  <2> QED BY <1>1, <2>1, <2>2
<1>7. jglobals' \in ScriptGlobals /\ jglobals'.document # <<"error">> /\ jglobals'.declared = jglobals.declared
  BY <1>2, GlobalsKept
<1>8. DOMAIN jfiles \subseteq DOMAIN jfiles' /\ \A p \in DOMAIN jfiles' : jfiles'[p] \in SUBSET ScriptCodes
  BY <1>2, FilesKept
<1>9. call.op \in EngineOps /\ call.given # <<"error">> /\ call.evals # <<>>
  BY <1>1, <1>5, NothingGiven DEF EngineOps
<1> QED BY <1>2, <1>3, <1>5, <1>6, <1>7, <1>8, <1>9, EngineCallSound

LEMMA QueryRequestSound ==
    ASSUME ScriptInv, NEW t \in JThreads, api_handle_js_query(t)
    PROVE  ScriptInv'
<1> DEFINE es == <<Eval("query", NoCode)>>
           call == [NoCall EXCEPT !.op = "query", !.evals = es]
<1>1. es \in Seq(Evals) /\ Len(es) = 1 /\ es[1].what = "query" /\ es # <<>>
  BY EvalMade
<1>2. /\ inside' = inside /\ jmutex' = jmutex /\ corrupt' = corrupt /\ scriptDocs' = scriptDocs /\ looked' = looked
      /\ validated' = validated /\ jglobals' = jglobals /\ jfiles' = jfiles
  BY DEF api_handle_js_query, engineVars, nativeVars
<1>3. BeginCall(t, "run", call)
  BY DEF api_handle_js_query
<1> HIDE DEF es
<1>4. call = NewCall("query", "none", <<>>, es, "none", 0)
  BY EvaluationCall
<1> HIDE DEF call
<1>5. IsCall(call) /\ call.op = "query" /\ call.given = <<>> /\ call.evals = es /\ call.value = <<>> /\ call.doc = 0
  BY <1>1, <1>4, NothingGiven DEF NewCall, IsCall
<1>6. \A i \in 1 .. Len(call.evals) : call.evals[i].what # "setup" /\ call.evals[i].what # "read"
  <2>1. Len(call.evals) = 1 /\ call.evals[1] = es[1]
    BY <1>1, <1>5
  <2>2. \A i \in 1 .. 1 : i = 1
    OBVIOUS
  <2> QED BY <1>1, <2>1, <2>2
<1>7. jglobals' \in ScriptGlobals /\ jglobals'.document # <<"error">> /\ jglobals'.declared = jglobals.declared
  BY <1>2, GlobalsKept
<1>8. DOMAIN jfiles \subseteq DOMAIN jfiles' /\ \A p \in DOMAIN jfiles' : jfiles'[p] \in SUBSET ScriptCodes
  BY <1>2, FilesKept
<1>9. call.op \in EngineOps /\ call.given # <<"error">> /\ call.evals # <<>>
  BY <1>1, <1>5, NothingGiven DEF EngineOps
<1> QED BY <1>2, <1>3, <1>5, <1>6, <1>7, <1>8, <1>9, EngineCallSound


\* A file is emptied: it is there afterwards.
LEMMA TruncateSound ==
    ASSUME ScriptInv, NEW path, Truncate(path)
    PROVE  DOMAIN jfiles \subseteq DOMAIN jfiles' /\ \A p \in DOMAIN jfiles' : jfiles'[p] \in SUBSET ScriptCodes
  BY DEF Truncate, ScriptInv, DataInv

\* A file is to be written.
LEMMA SaveSound ==
    ASSUME ScriptInv, NEW t \in JThreads, NEW n, NEW dir, NEW c \in ScriptCodes, NEW path, Truncate(path),
           BeginCall(t, "write", [NoCall EXCEPT !.op = "save", !.name = n, !.expect = dir, !.evals = <<Eval("read", c)>>]),
           UNCHANGED <<jglobals, inside, jmutex, corrupt, lastError, nativeVars, validated>>
    PROVE  ScriptInv'
<1> DEFINE es == <<Eval("read", c)>>
           call == [NoCall EXCEPT !.op = "save", !.name = n, !.expect = dir, !.evals = es]
<1>1. es \in Seq(Evals) /\ Len(es) = 1 /\ es[1].what = "read" /\ es # <<>>
  BY EvalMade
<1>2. /\ inside' = inside /\ jmutex' = jmutex /\ corrupt' = corrupt /\ scriptDocs' = scriptDocs /\ looked' = looked
      /\ validated' = validated /\ jglobals' = jglobals
  BY DEF nativeVars
<1>3. BeginCall(t, "write", call)
  OBVIOUS
<1> HIDE DEF es
<1>4. call = NewCall("save", n, <<>>, es, dir, 0)
  BY SaveCall
<1> HIDE DEF call
<1>5. IsCall(call) /\ call.op = "save" /\ call.given = <<>> /\ call.evals = es /\ call.value = <<>> /\ call.doc = 0
  BY <1>1, <1>4, NothingGiven DEF NewCall, IsCall
<1>6. \A i \in 1 .. Len(call.evals) : call.evals[i].what # "setup"
  <2>1. Len(call.evals) = 1 /\ call.evals[1] = es[1]
    BY <1>1, <1>5
  <2>2. \A i \in 1 .. 1 : i = 1
    OBVIOUS
  <2> QED BY <1>1, <2>1, <2>2
<1>7. jglobals' \in ScriptGlobals /\ jglobals'.document # <<"error">> /\ jglobals'.declared = jglobals.declared
  BY <1>2, GlobalsKept
<1>8. DOMAIN jfiles \subseteq DOMAIN jfiles' /\ \A p \in DOMAIN jfiles' : jfiles'[p] \in SUBSET ScriptCodes
  BY TruncateSound
<1>9. call.op \in EngineOps /\ call.given # <<"error">> /\ call.evals # <<>>
  BY <1>1, <1>5, NothingGiven DEF EngineOps
<1> QED BY <1>2, <1>3, <1>5, <1>6, <1>7, <1>8, <1>9, EngineCallSound

LEMMA RegisterSound ==
    ASSUME ScriptInv, NEW t \in JThreads, NEW n, NEW c \in ScriptCodes, api_handle_js_function_register(t, n, c)
    PROVE  ScriptInv'
  BY SaveSound DEF api_handle_js_function_register

\* The function of a file is called, or there is no such file.
LEMMA CallRequestSound ==
    ASSUME ScriptInv, NEW t \in JThreads, NEW n, NEW x \in Seq(Texts), x # <<"error">>, js_call_user_function(t, n, x)
    PROVE  ScriptInv'
<1> DEFINE es == <<ReadIt, Eval("call", NoCode)>>
           call == ScriptCall("call", n, x, es)
           there == Path("functions", n) \in DOMAIN jfiles
<1>1. es \in Seq(Evals) /\ Len(es) = 2 /\ es[1].what = "read" /\ es[2].what = "call" /\ es # <<>>
  BY EvalMade
<1>2. /\ inside' = inside /\ jmutex' = jmutex /\ corrupt' = corrupt /\ scriptDocs' = scriptDocs /\ looked' = looked
      /\ validated' = validated /\ jfiles' = jfiles
  BY DEF js_call_user_function, nativeVars
<1>3. /\ BeginCall(t, IF there THEN "run" ELSE "report", call)
      /\ there => Give("args", x) /\ lastError' = lastError
      /\ ~ there => lastError' = <<jcalls + 1, "missing">> /\ jglobals' = jglobals
  BY DEF js_call_user_function
<1> HIDE DEF es
<1>4. call = NewCall("call", n, x, es, "none", 0)
  BY FunctionCall
<1> HIDE DEF call, there
<1>5. IsCall(call) /\ call.op = "call" /\ call.name = n /\ call.given = x /\ call.evals = es /\ call.value = <<>> /\ call.doc = 0
  BY <1>1, <1>4 DEF NewCall, IsCall
<1>6. /\ \A i \in 1 .. Len(call.evals) : call.evals[i].what # "setup"
      /\ call.evals = <<ReadIt, Eval("call", NoCode)>>
  BY <1>1, <1>5 DEF es
<1>7. /\ jglobals' \in ScriptGlobals /\ jglobals'.document # <<"error">> /\ jglobals'.declared = jglobals.declared
      /\ there => jglobals'.args = x
  BY <1>3, GiveSound, GlobalsKept
<1>8. DOMAIN jfiles \subseteq DOMAIN jfiles' /\ \A p \in DOMAIN jfiles' : jfiles'[p] \in SUBSET ScriptCodes
  BY <1>2, FilesKept
<1>9. call.op \in EngineOps /\ call.given # <<"error">> /\ call.evals # <<>>
  BY <1>1, <1>5 DEF EngineOps
<1>10. CASE there
  BY <1>3, <1>10, <1>2, <1>5, <1>6, <1>7, <1>8, <1>9, EngineCallSound DEF there, Path, ScriptsDir
<1>11. CASE ~ there
  <2>1. BeginCall(t, "report", call) /\ lastError'[1] = jcalls + 1
    BY <1>3, <1>11
  <2> QED BY <1>2, <1>5, <1>6, <1>7, <1>8, <1>9, <2>1, EngineCallSound
<1> QED BY <1>10, <1>11

\* A document is given to the validator of a collection, or to its transformer.
LEMMA ValidateBeginSound ==
    ASSUME ScriptInv, NEW t \in JThreads, NEW n, NEW x \in Seq(Texts), x # <<"error">>, Path("validators", n) \in DOMAIN jfiles,
           BeginCall(t, "run", ScriptCall("validate", n, x, <<Eval("setup", [NoCode EXCEPT !.verdict = "true"]), ReadIt, Eval("validate", NoCode)>>)),
           Give("document", x), UNCHANGED <<jfiles, jdirs, inside, jmutex, corrupt, lastError, nativeVars, validated>>
    PROVE  ScriptInv'
<1> DEFINE es == <<Eval("setup", [NoCode EXCEPT !.verdict = "true"]), ReadIt, Eval("validate", NoCode)>>
           call == ScriptCall("validate", n, x, es)
<1>1. es \in Seq(Evals) /\ Len(es) = 3 /\ es[1].what = "setup" /\ es[2].what = "read" /\ es[3].what = "validate" /\ es # <<>>
  BY EvalMade
<1>2. /\ inside' = inside /\ jmutex' = jmutex /\ corrupt' = corrupt /\ scriptDocs' = scriptDocs /\ looked' = looked
      /\ validated' = validated /\ jfiles' = jfiles
  BY DEF nativeVars
<1>3. BeginCall(t, "run", call) /\ Give("document", x)
  OBVIOUS
<1> HIDE DEF es
<1>4. call = NewCall("validate", n, x, es, "none", 0)
  BY FunctionCall
<1> HIDE DEF call
<1>5. IsCall(call) /\ call.op = "validate" /\ call.name = n /\ call.given = x /\ call.evals = es /\ call.value = <<>> /\ call.doc = 0
  BY <1>1, <1>4 DEF NewCall, IsCall
<1>6. /\ \A i \in 1 .. Len(call.evals) : call.evals[i].what = "setup" => i = 1 /\ call.op = "validate"
      /\ call.op = "validate" => call.evals[1].what = "setup"
  <2>1. Len(call.evals) = 3 /\ call.evals[1] = es[1] /\ call.evals[2] = es[2] /\ call.evals[3] = es[3]
    BY <1>1, <1>5
  <2>2. \A i \in 1 .. 3 : i = 1 \/ i = 2 \/ i = 3
    OBVIOUS
  <2> QED BY <1>1, <1>5, <2>1, <2>2
<1>7. jglobals' \in ScriptGlobals /\ jglobals'.document # <<"error">> /\ jglobals'.declared = jglobals.declared
  BY <1>3, GiveSound
<1>8. DOMAIN jfiles \subseteq DOMAIN jfiles' /\ \A p \in DOMAIN jfiles' : jfiles'[p] \in SUBSET ScriptCodes
  BY <1>2, FilesKept
<1>9. call.op \in EngineOps /\ call.given # <<"error">> /\ call.evals # <<>>
  BY <1>1, <1>5 DEF EngineOps
<1>10. \A i \in 1 .. Len(call.evals) : call.evals[i].what = "read" => <<ScriptsDir(call.op), call.name>> \in DOMAIN jfiles'
  BY <1>2, <1>5 DEF Path, ScriptsDir
<1> QED BY <1>2, <1>3, <1>5, <1>6, <1>7, <1>8, <1>9, <1>10, EngineCallSound

LEMMA TransformBeginSound ==
    ASSUME ScriptInv, NEW t \in JThreads, NEW n, NEW x \in Seq(Texts), x # <<"error">>, Path("transforms", n) \in DOMAIN jfiles,
           BeginCall(t, "run", ScriptCall("transform", n, x, <<ReadIt, Eval("transform", NoCode)>>)),
           Give("document", x), UNCHANGED <<jfiles, jdirs, inside, jmutex, corrupt, lastError, nativeVars, validated>>
    PROVE  ScriptInv'
<1> DEFINE es == <<ReadIt, Eval("transform", NoCode)>>
           call == ScriptCall("transform", n, x, es)
<1>1. es \in Seq(Evals) /\ Len(es) = 2 /\ es[1].what = "read" /\ es[2].what = "transform" /\ es # <<>>
  BY EvalMade
<1>2. /\ inside' = inside /\ jmutex' = jmutex /\ corrupt' = corrupt /\ scriptDocs' = scriptDocs /\ looked' = looked
      /\ validated' = validated /\ jfiles' = jfiles
  BY DEF nativeVars
<1>3. BeginCall(t, "run", call) /\ Give("document", x)
  OBVIOUS
<1> HIDE DEF es
<1>4. call = NewCall("transform", n, x, es, "none", 0)
  BY FunctionCall
<1> HIDE DEF call
<1>5. IsCall(call) /\ call.op = "transform" /\ call.name = n /\ call.given = x /\ call.evals = es /\ call.value = <<>> /\ call.doc = 0
  BY <1>1, <1>4 DEF NewCall, IsCall
<1>6. /\ \A i \in 1 .. Len(call.evals) : call.evals[i].what = "setup" => i = 1 /\ call.op = "validate"
      /\ call.op = "validate" => call.evals[1].what = "setup"
  <2>1. Len(call.evals) = 2 /\ call.evals[1] = es[1] /\ call.evals[2] = es[2]
    BY <1>1, <1>5
  <2>2. \A i \in 1 .. 2 : i = 1 \/ i = 2
    OBVIOUS
  <2> QED BY <1>1, <1>5, <2>1, <2>2
<1>7. jglobals' \in ScriptGlobals /\ jglobals'.document # <<"error">> /\ jglobals'.declared = jglobals.declared
  BY <1>3, GiveSound
<1>8. DOMAIN jfiles \subseteq DOMAIN jfiles' /\ \A p \in DOMAIN jfiles' : jfiles'[p] \in SUBSET ScriptCodes
  BY <1>2, FilesKept
<1>9. call.op \in EngineOps /\ call.given # <<"error">> /\ call.evals # <<>>
  BY <1>1, <1>5 DEF EngineOps
<1>10. \A i \in 1 .. Len(call.evals) : call.evals[i].what = "read" => <<ScriptsDir(call.op), call.name>> \in DOMAIN jfiles'
  BY <1>2, <1>5 DEF Path, ScriptsDir
<1> QED BY <1>2, <1>3, <1>5, <1>6, <1>7, <1>8, <1>9, <1>10, EngineCallSound

\* Code is given to the engine with the request.
LEMMA CodeRequestSound ==
    ASSUME ScriptInv, NEW t \in JThreads, NEW c \in ScriptCodes, NEW x \in Seq(Texts), x # <<"error">>, js_engine_eval_code(t, c, x)
    PROVE  ScriptInv'
<1> DEFINE es == <<Eval("wrapped", c)>>
           call == ScriptCall("code", "none", x, es)
<1>1. es \in Seq(Evals) /\ Len(es) = 1 /\ es[1].what = "wrapped" /\ es # <<>>
  BY EvalMade
<1>2. /\ inside' = inside /\ jmutex' = jmutex /\ corrupt' = corrupt /\ scriptDocs' = scriptDocs /\ looked' = looked
      /\ validated' = validated /\ jfiles' = jfiles
  BY DEF js_engine_eval_code, nativeVars
<1>3. BeginCall(t, "run", call) /\ Give("input", x)
  BY DEF js_engine_eval_code
<1> HIDE DEF es
<1>4. call = NewCall("code", "none", x, es, "none", 0)
  BY FunctionCall
<1> HIDE DEF call
<1>5. IsCall(call) /\ call.op = "code" /\ call.name = "none" /\ call.given = x /\ call.evals = es /\ call.value = <<>> /\ call.doc = 0
  BY <1>1, <1>4 DEF NewCall, IsCall
<1>6. /\ \A i \in 1 .. Len(call.evals) : call.evals[i].what = "setup" => i = 1 /\ call.op = "validate"
      /\ call.op = "validate" => call.evals[1].what = "setup"
      /\ \A i \in 1 .. Len(call.evals) : call.evals[i].what # "read"
  <2>1. Len(call.evals) = 1 /\ call.evals[1] = es[1]
    BY <1>1, <1>5
  <2>2. \A i \in 1 .. 1 : i = 1
    OBVIOUS
  <2> QED BY <1>1, <1>5, <2>1, <2>2
<1>7. jglobals' \in ScriptGlobals /\ jglobals'.document # <<"error">> /\ jglobals'.declared = jglobals.declared
  BY <1>3, GiveSound
<1>8. DOMAIN jfiles \subseteq DOMAIN jfiles' /\ \A p \in DOMAIN jfiles' : jfiles'[p] \in SUBSET ScriptCodes
  BY <1>2, FilesKept
<1>9. call.op \in EngineOps /\ call.given # <<"error">> /\ call.evals # <<>>
  BY <1>1, <1>5 DEF EngineOps
<1> QED BY <1>2, <1>3, <1>5, <1>6, <1>7, <1>8, <1>9, EngineCallSound

LEMMA CheckRequestSound ==
    ASSUME ScriptInv, NEW t \in JThreads, NEW c \in ScriptCodes, NEW x \in Seq(Texts), x # <<"error">>, js_engine_validate_with_code(t, c, x)
    PROVE  ScriptInv'
<1> DEFINE es == <<Eval("setup", NoCode), Eval("code", c), Eval("validate", NoCode)>>
           call == ScriptCall("validate", "none", x, es)
<1>1. es \in Seq(Evals) /\ Len(es) = 3 /\ es[1].what = "setup" /\ es[2].what = "code" /\ es[3].what = "validate" /\ es # <<>>
  BY EvalMade
<1>2. /\ inside' = inside /\ jmutex' = jmutex /\ corrupt' = corrupt /\ scriptDocs' = scriptDocs /\ looked' = looked
      /\ validated' = validated /\ jfiles' = jfiles
  BY DEF js_engine_validate_with_code, WithCode, nativeVars
<1>3. BeginCall(t, "run", call) /\ Give("document", x)
  BY DEF js_engine_validate_with_code, WithCode
<1> HIDE DEF es
<1>4. call = NewCall("validate", "none", x, es, "none", 0)
  BY FunctionCall
<1> HIDE DEF call
<1>5. IsCall(call) /\ call.op = "validate" /\ call.name = "none" /\ call.given = x /\ call.evals = es /\ call.value = <<>> /\ call.doc = 0
  BY <1>1, <1>4 DEF NewCall, IsCall
<1>6. /\ \A i \in 1 .. Len(call.evals) : call.evals[i].what = "setup" => i = 1 /\ call.op = "validate"
      /\ call.op = "validate" => call.evals[1].what = "setup"
      /\ \A i \in 1 .. Len(call.evals) : call.evals[i].what # "read"
  <2>1. Len(call.evals) = 3 /\ call.evals[1] = es[1] /\ call.evals[2] = es[2] /\ call.evals[3] = es[3]
    BY <1>1, <1>5
  <2>2. \A i \in 1 .. 3 : i = 1 \/ i = 2 \/ i = 3
    OBVIOUS
  <2> QED BY <1>1, <1>5, <2>1, <2>2
<1>7. jglobals' \in ScriptGlobals /\ jglobals'.document # <<"error">> /\ jglobals'.declared = jglobals.declared
  BY <1>3, GiveSound
<1>8. DOMAIN jfiles \subseteq DOMAIN jfiles' /\ \A p \in DOMAIN jfiles' : jfiles'[p] \in SUBSET ScriptCodes
  BY <1>2, FilesKept
<1>9. call.op \in EngineOps /\ call.given # <<"error">> /\ call.evals # <<>>
  BY <1>1, <1>5 DEF EngineOps
<1> QED BY <1>2, <1>3, <1>5, <1>6, <1>7, <1>8, <1>9, EngineCallSound

LEMMA ChangeRequestSound ==
    ASSUME ScriptInv, NEW t \in JThreads, NEW c \in ScriptCodes, NEW x \in Seq(Texts), x # <<"error">>, js_engine_transform_with_code(t, c, x)
    PROVE  ScriptInv'
<1> DEFINE es == <<Eval("code", c), Eval("transform", NoCode)>>
           call == ScriptCall("return", "none", x, es)
<1>1. es \in Seq(Evals) /\ Len(es) = 2 /\ es[1].what = "code" /\ es[2].what = "transform" /\ es # <<>>
  BY EvalMade
<1>2. /\ inside' = inside /\ jmutex' = jmutex /\ corrupt' = corrupt /\ scriptDocs' = scriptDocs /\ looked' = looked
      /\ validated' = validated /\ jfiles' = jfiles
  BY DEF js_engine_transform_with_code, nativeVars
<1>3. BeginCall(t, "run", call) /\ Give("document", x)
  BY DEF js_engine_transform_with_code
<1> HIDE DEF es
<1>4. call = NewCall("return", "none", x, es, "none", 0)
  BY FunctionCall
<1> HIDE DEF call
<1>5. IsCall(call) /\ call.op = "return" /\ call.name = "none" /\ call.given = x /\ call.evals = es /\ call.value = <<>> /\ call.doc = 0
  BY <1>1, <1>4 DEF NewCall, IsCall
<1>6. /\ \A i \in 1 .. Len(call.evals) : call.evals[i].what = "setup" => i = 1 /\ call.op = "validate"
      /\ call.op = "validate" => call.evals[1].what = "setup"
      /\ \A i \in 1 .. Len(call.evals) : call.evals[i].what # "read"
  <2>1. Len(call.evals) = 2 /\ call.evals[1] = es[1] /\ call.evals[2] = es[2]
    BY <1>1, <1>5
  <2>2. \A i \in 1 .. 2 : i = 1 \/ i = 2
    OBVIOUS
  <2> QED BY <1>1, <1>5, <2>1, <2>2
<1>7. jglobals' \in ScriptGlobals /\ jglobals'.document # <<"error">> /\ jglobals'.declared = jglobals.declared
  BY <1>3, GiveSound
<1>8. DOMAIN jfiles \subseteq DOMAIN jfiles' /\ \A p \in DOMAIN jfiles' : jfiles'[p] \in SUBSET ScriptCodes
  BY <1>2, FilesKept
<1>9. call.op \in EngineOps /\ call.given # <<"error">> /\ call.evals # <<>>
  BY <1>1, <1>5 DEF EngineOps
<1> QED BY <1>2, <1>3, <1>5, <1>6, <1>7, <1>8, <1>9, EngineCallSound

\* A request is answered at once.
LEMMA AnsweredSound ==
    ASSUME ScriptInv, NEW t \in JThreads, MayAsk(t), jcalls' = jcalls + 1, UNCHANGED <<engineVars, jpc, jtask, plan, validated>>,
           DocumentsInv', LookedInv', DocsGrow,
           janswer'.op # "call", janswer'.value # <<"error">>, janswer'.op # "validate" \/ janswer'.doc = 0,
           janswer'.op \in {"list", "metrics"} => janswer'.doc = 0, janswer'.op = "insert" => janswer'.value = <<"inserted">>
    PROVE  ScriptInv'
  BY ScriptBounds, NowSound DEF LastAnswered, OwnResult, ErrorIsOwn, NothingTriggered, AnsweredStored, MayAsk,
     ScriptInv, DataInv

LEMMA AnswerNowSound ==
    ASSUME ScriptInv, NEW t \in JThreads, NEW op \in {"save", "validate", "transform"}, NEW v, v # <<"error">>, AnswerNow(t, op, v),
           UNCHANGED <<engineVars, nativeVars, validated>>
    PROVE  ScriptInv'
  BY LookedKept, AnsweredSound DEF AnswerNow, NoCall, nativeVars

LEMMA SaveForSound ==
    ASSUME ScriptInv, NEW t \in JThreads, NEW dir, NEW n, NEW c \in ScriptCodes, SaveFor(t, dir, n, c)
    PROVE  ScriptInv'
  BY SaveSound, NothingGiven, Words, AnswerNowSound DEF SaveFor

LEMMA ValidateRequestSound ==
    ASSUME ScriptInv, NEW t \in JThreads, NEW n, NEW x \in Seq(Texts), x # <<"error">>, js_validate_document(t, n, x)
    PROVE  ScriptInv'
  BY NothingGiven, Words, ValidateBeginSound, AnswerNowSound DEF js_validate_document

LEMMA TransformRequestSound ==
    ASSUME ScriptInv, NEW t \in JThreads, NEW n, NEW x \in Seq(Texts), x # <<"error">>, js_transform_document(t, n, x)
    PROVE  ScriptInv'
BY TransformBeginSound, AnswerNowSound DEF js_transform_document

-----------------------------------------------------------------------------
(* Scripts: calls go on, and are answered.                                 *)

LEMMA CallKnown ==
    ASSUME ScriptInv, NEW t \in JThreads, jpc[t] # "idle"
    PROVE  InProgress(t) /\ IsCall(jtask[t]) /\ OwnCall(t) /\ t \in DOMAIN jpc
  BY DEF ScriptInv, EngineInv, TasksInv, CallsInv, AnswersInv, OwnCall

LEMMA NoCallSound == IsCall(NoCall)
  BY DEF NoCall, IsCall

\* A call ends with an answer.
LEMMA AnswerCallSound ==
    ASSUME ScriptInv, NEW t \in JThreads, jpc[t] # "idle", NEW v, v # <<"error">>, AnswerCall(t, v),
           inside' \in [JThreads -> SUBSET Evals], inside'[t] = {}, \A u \in JThreads : u # t => inside'[u] = inside[u],
           jmutex' \in {jmutex, jmutex \ {t}}, corrupt' = corrupt,
           DOMAIN jfiles \subseteq DOMAIN jfiles', \A p \in DOMAIN jfiles' : jfiles'[p] \in SUBSET ScriptCodes,
           jglobals' \in ScriptGlobals, jglobals'.document # <<"error">>, validated' \in Nat,
           corrupt = {} /\ jtask[t].op = "call" /\ jtask[t].alone /\ jtask[t].expect # "none" =>
               v = <<jtask[t].expect>> \o jtask[t].given,
           DocumentsInv', LookedInv', DocsGrow, ValidInv'
    PROVE  ScriptInv'
<1>1. InProgress(t) /\ IsCall(jtask[t])
  BY CallKnown
<1>2. AtStep(t, "idle", NoCall) /\ janswer' = [jtask[t] EXCEPT !.value = v]
  BY DEF AnswerCall
<1>3. /\ janswer'.op = jtask[t].op /\ janswer'.given = jtask[t].given /\ janswer'.alone = jtask[t].alone /\ janswer'.value = v
      /\ janswer'.expect = jtask[t].expect /\ janswer'.doc = jtask[t].doc
  BY <1>1, <1>2 DEF IsCall
<1>4. LastAnswered'
  BY <1>3, <1>1 DEF OwnResult, ErrorIsOwn, NothingTriggered, InProgress, EngineOps, LastAnswered
<1>5. AnsweredStored'
  BY <1>1, LenProperties, <1>3 DEF InProgress, ScriptInv, StoredInv, DocumentsInv, AnsweredStored, DocsGrow
<1>6. IsCall(NoCall) /\ "idle" \in CallSteps
  BY NoCallSound DEF CallSteps
<1>7. OwnCall(t)'
  BY <1>2, CallKnown DEF AtStep, OwnCall
<1> QED BY <1>2, <1>4, <1>5, <1>6, <1>7, StepSound

\* What stays when a step only reads the engine.
LEMMA InsideKept ==
    ASSUME ScriptInv, NEW t \in JThreads, jpc[t] # "run", inside' = inside
    PROVE  inside' \in [JThreads -> SUBSET Evals] /\ inside'[t] = {} /\ \A u \in JThreads : u # t => inside'[u] = inside[u]
  BY DEF ScriptInv, EngineInv, MutexInv, TasksInv

\* A call that neither was prepared nor becomes so changes no validation.
LEMMA ValidStep ==
    ASSUME ScriptInv, NEW t \in JThreads, jpc[t] # "idle", NEW step, NEW call, AtStep(t, step, call),
           jglobals'.declared = jglobals.declared, validated' = validated, corrupt' = corrupt,
           call.op = "validate" /\ (step = "finish" \/ (step = "run" /\ call.evals[1].what # "setup")) => Prepared(t)
    PROVE  ValidInv'
  BY ValidKept DEF AtStep, ScriptInv, EngineInv, TasksInv, Prepared

LEMMA WriteFileSound ==
    ASSUME ScriptInv, NEW t \in JThreads, WriteFile(t)
    PROVE  ScriptInv'
<1>1. /\ jpc[t] = "write" /\ AnswerCall(t, <<"saved">>)
      /\ jfiles' = [jfiles EXCEPT ![Path(jtask[t].expect, jtask[t].name)] = {Head(jtask[t].evals).code}]
      /\ jglobals' = jglobals /\ inside' = inside /\ jmutex' = jmutex /\ corrupt' = corrupt /\ scriptDocs' = scriptDocs
      /\ looked' = looked /\ validated' = validated
  BY DEF WriteFile, nativeVars
<1>2. InProgress(t) /\ IsCall(jtask[t])
  BY <1>1, CallKnown
<1>3. jtask[t].op = "save" /\ Head(jtask[t].evals) \in Evals
  BY <1>1, <1>2 DEF InProgress, IsCall
<1>4. Head(jtask[t].evals).code \in ScriptCodes
  BY <1>3 DEF Evals
<1>5. DOMAIN jfiles \subseteq DOMAIN jfiles' /\ \A p \in DOMAIN jfiles' : jfiles'[p] \in SUBSET ScriptCodes
  BY <1>1, <1>4 DEF ScriptInv, DataInv
<1>6. DocumentsInv' /\ LookedInv' /\ DocsGrow
  BY <1>1, LookedKept
<1>7. jglobals' \in ScriptGlobals /\ jglobals'.document # <<"error">> /\ validated' \in Nat
  BY <1>1 DEF ScriptInv, DataInv
<1>8. AtStep(t, "idle", NoCall)
  BY <1>1 DEF AnswerCall
<1>9. ValidInv'
  BY <1>1, <1>8, ValidStep DEF NoCall
<1>10. <<"saved">> # <<"error">>
  BY NothingGiven, Words
<1>11. inside' \in [JThreads -> SUBSET Evals] /\ inside'[t] = {} /\ \A u \in JThreads : u # t => inside'[u] = inside[u]
  BY <1>1, InsideKept
<1> QED BY <1>1, <1>3, <1>5, <1>6, <1>7, <1>9, <1>10, <1>11, AnswerCallSound

LEMMA RecordSound ==
    ASSUME ScriptInv, NEW t \in JThreads, js_native_record_execution_metrics(t)
    PROVE  ScriptInv'
<1>1. /\ jpc[t] = "record" /\ AnswerCall(t, jtask[t].value)
      /\ jglobals' = jglobals /\ inside' = inside /\ jmutex' = jmutex /\ corrupt' = corrupt /\ scriptDocs' = scriptDocs
      /\ looked' = looked /\ validated' = validated /\ jfiles' = jfiles
  BY DEF js_native_record_execution_metrics, engineVars
<1>2. jtask[t].value # <<"error">> /\ OwnCall(t)
  BY <1>1, CallKnown DEF InProgress
<1>3. corrupt = {} /\ jtask[t].op = "call" => ~ jtask[t].alone
  BY <1>1, <1>2 DEF OwnCall, Undisturbed
<1>4. DOMAIN jfiles \subseteq DOMAIN jfiles' /\ \A p \in DOMAIN jfiles' : jfiles'[p] \in SUBSET ScriptCodes
  BY <1>1, FilesKept
<1>5. DocumentsInv' /\ LookedInv' /\ DocsGrow
  BY <1>1, LookedKept
<1>6. jglobals' \in ScriptGlobals /\ jglobals'.document # <<"error">> /\ validated' \in Nat
  BY <1>1 DEF ScriptInv, DataInv
<1>7. AtStep(t, "idle", NoCall)
  BY <1>1 DEF AnswerCall
<1>8. ValidInv'
  BY <1>1, <1>7, ValidStep DEF NoCall
<1>9. inside' \in [JThreads -> SUBSET Evals] /\ inside'[t] = {} /\ \A u \in JThreads : u # t => inside'[u] = inside[u]
  BY <1>1, InsideKept
<1> QED BY <1>1, <1>2, <1>3, <1>4, <1>5, <1>6, <1>8, <1>9, AnswerCallSound

LEMMA LastErrorSound ==
    ASSUME ScriptInv, NEW t \in JThreads, js_get_last_error(t)
    PROVE  ScriptInv'
<1>1. /\ jpc[t] = "report" /\ AtStep(t, "idle", NoCall)
      /\ janswer' = [jtask[t] EXCEPT !.value = <<"error">>, !.error = lastError[1]]
      /\ jglobals' = jglobals /\ inside' = inside /\ jmutex' = jmutex /\ corrupt' = corrupt /\ scriptDocs' = scriptDocs
      /\ looked' = looked /\ validated' = validated /\ jfiles' = jfiles
  BY DEF js_get_last_error, engineVars, nativeVars
<1>2. InProgress(t) /\ IsCall(jtask[t]) /\ OwnCall(t)
  BY <1>1, CallKnown
<1>3. /\ janswer'.op = jtask[t].op /\ janswer'.alone = jtask[t].alone /\ janswer'.value = <<"error">> /\ janswer'.num = jtask[t].num
      /\ janswer'.error = lastError[1] /\ janswer'.doc = jtask[t].doc
  BY <1>1, <1>2 DEF IsCall
<1>4. jtask[t].alone /\ jtask[t].op # "validate" => lastError[1] = jtask[t].num
  BY <1>1, <1>2 DEF OwnCall
<1>5. LastAnswered'
  BY <1>2, <1>3, <1>4 DEF InProgress, OwnResult, ErrorIsOwn, NothingTriggered, EngineOps, LastAnswered
<1>6. AnsweredStored'
  BY <1>1, <1>2, <1>3 DEF AnsweredStored, InProgress
<1>7. IsCall(NoCall) /\ "idle" \in CallSteps
  BY NoCallSound DEF CallSteps
<1>8. OwnCall(t)'
  BY <1>1, CallKnown DEF AtStep, OwnCall
<1>9. DOMAIN jfiles \subseteq DOMAIN jfiles' /\ \A p \in DOMAIN jfiles' : jfiles'[p] \in SUBSET ScriptCodes
  BY <1>1, FilesKept
<1>10. DocumentsInv' /\ LookedInv' /\ DocsGrow
  BY <1>1, LookedKept
<1>11. jglobals' \in ScriptGlobals /\ jglobals'.document # <<"error">> /\ validated' \in Nat
  BY <1>1 DEF ScriptInv, DataInv
<1>12. ValidInv'
  BY <1>1, ValidStep DEF NoCall
<1>13. inside' \in [JThreads -> SUBSET Evals] /\ inside'[t] = {} /\ \A u \in JThreads : u # t => inside'[u] = inside[u]
  BY <1>1, InsideKept
<1>14. jpc[t] # "idle" /\ jmutex' \in {jmutex, jmutex \ {t}} /\ corrupt' = corrupt
  BY <1>1
<1> QED BY <1>1, <1>5, <1>6, <1>7, <1>8, <1>9, <1>10, <1>11, <1>12, <1>13, <1>14, StepSound

LEMMA ReplaceFirst ==
    ASSUME NEW s \in Seq(Evals), s # <<>>, NEW e \in Evals, NEW r, r = <<e>> \o Tail(s)
    PROVE  r \in Seq(Evals) /\ Len(r) = Len(s) /\ r[1] = e /\ r # <<>> /\ \A i \in 2 .. Len(s) : r[i] = s[i]
<1>1. Tail(s) \in Seq(Evals) /\ Len(Tail(s)) = Len(s) - 1 /\ Len(s) \in Nat /\ Len(s) > 0
      /\ \A i \in 1 .. Len(Tail(s)) : Tail(s)[i] = s[i + 1]
  BY HeadTailProperties, LenProperties, EmptySeq
<1>2. <<e>> \in Seq(Evals) /\ Len(<<e>>) = 1 /\ <<e>>[1] = e
  OBVIOUS
<1> DEFINE h == <<e>>  rest == Tail(s)
<1> HIDE DEF h, rest
<1>3. /\ h \o rest \in Seq(Evals) /\ Len(h \o rest) = Len(h) + Len(rest)
      /\ \A i \in 1 .. Len(h) + Len(rest) : (h \o rest)[i] = IF i <= Len(h) THEN h[i] ELSE rest[i - Len(h)]
  BY <1>1, <1>2, ConcatProperties DEF h, rest
<1>4. r = h \o rest
  BY DEF h, rest
<1>5. r \in Seq(Evals) /\ Len(r) = Len(s) /\ r[1] = e
  BY <1>1, <1>2, <1>3, <1>4 DEF h, rest
<1>6. ASSUME NEW i \in 2 .. Len(s) PROVE r[i] = s[i]
  BY <1>1, <1>2, <1>6, <1>3, <1>4 DEF h, rest
<1>7. r # <<>>
  BY <1>1, <1>5
<1> QED BY <1>5, <1>6, <1>7

\* The file of a script is read.
LEMMA EvalFileSound ==
    ASSUME ScriptInv, NEW t \in JThreads, js_engine_eval_file(t)
    PROVE  ScriptInv'
<1> DEFINE c == jtask[t]
           content == jfiles[Path(ScriptsDir(c.op), c.name)]
           script == Eval("script", AnyOf(content))
           next == [c EXCEPT !.evals = <<script>> \o Tail(@), !.expect = AnyOf(content).function]
<1>1. /\ jpc[t] = "run" /\ inside[t] = {} /\ Head(c.evals).what = "read"
      /\ \/ content = {} /\ AtStep(t, "report", c) /\ SetError(t, "empty")
         \/ content # {} /\ AtStep(t, "run", next) /\ lastError' = lastError
  BY DEF js_engine_eval_file, ScriptsDir
<1>2. /\ jglobals' = jglobals /\ inside' = inside /\ jmutex' = jmutex /\ corrupt' = corrupt /\ scriptDocs' = scriptDocs
      /\ looked' = looked /\ validated' = validated /\ jfiles' = jfiles /\ janswer' = janswer
  BY DEF js_engine_eval_file, nativeVars
<1>3. InProgress(t) /\ IsCall(c) /\ OwnCall(t) /\ c.evals \in Seq(Evals) /\ c.evals # <<>>
  BY <1>1, CallKnown DEF ScriptInv, EngineInv, TasksInv, IsCall
<1>4. c.evals[1].what = "read" /\ Len(c.evals) \in Nat /\ 1 \in 1 .. Len(c.evals)
  BY <1>1, <1>3
<1>5. content \in SUBSET ScriptCodes
  BY <1>1, <1>3, <1>4 DEF InProgress, Path, ScriptInv, DataInv
<1>6. /\ DOMAIN jfiles \subseteq DOMAIN jfiles' /\ \A p \in DOMAIN jfiles' : jfiles'[p] \in SUBSET ScriptCodes
      /\ DocumentsInv' /\ LookedInv' /\ DocsGrow
      /\ jglobals' \in ScriptGlobals /\ jglobals'.document # <<"error">> /\ validated' \in Nat
  BY <1>2, FilesKept, LookedKept DEF ScriptInv, DataInv
<1>7. LastAnswered' /\ AnsweredStored'
  BY <1>2 DEF ScriptInv, AnswersInv, LastAnswered, OwnResult, ErrorIsOwn, NothingTriggered, StoredInv, AnsweredStored
<1>8. inside' \in [JThreads -> SUBSET Evals] /\ inside'[t] = {} /\ \A u \in JThreads : u # t => inside'[u] = inside[u]
      /\ jmutex' \in {jmutex, jmutex \ {t}}
  BY <1>1, <1>2 DEF ScriptInv, EngineInv, MutexInv
<1> DEFINE op == c.op
<1> HIDE DEF content
<1>9. CASE content = {} /\ AtStep(t, "report", c) /\ SetError(t, "empty")
  <2>1. jpc'[t] = "report" /\ jtask'[t] = c /\ jcalls' = jcalls /\ lastError'[1] = c.num
    BY <1>1, <1>9, CallKnown DEF AtStep, SetError, ScriptInv, EngineInv, TasksInv
  <2>2. InProgress(t)'
    BY <1>2, <1>3, <2>1 DEF InProgress
  <2>3. OwnCall(t)'
    BY <1>3, <2>1 DEF InProgress, OwnCall, Undisturbed
  <2>4. ValidInv'
    BY <1>1, <1>2, <1>9, ValidStep
  <2> QED BY <1>1, <1>2, <1>3, <1>6, <1>7, <1>8, <1>9, <2>2, <2>3, <2>4, StepSound DEF CallSteps
<1>10. CASE content # {} /\ AtStep(t, "run", next) /\ lastError' = lastError
  <2>1. AnyOf(content) \in ScriptCodes
    BY <1>5, <1>10 DEF AnyOf
  <2>2. script \in Evals /\ script.what = "script" /\ script.code = AnyOf(content)
    BY <2>1, EvalMade
  <2> DEFINE left == <<script>> \o Tail(c.evals)
  <2>3. left \in Seq(Evals) /\ Len(left) = Len(c.evals) /\ left[1] = script /\ left # <<>>
        /\ \A i \in 2 .. Len(c.evals) : left[i] = c.evals[i]
    BY <1>3, <2>2, ReplaceFirst
  <2> DEFINE f == AnyOf(content).function
  <2>4. next = [c EXCEPT !.evals = left, !.expect = f]
    OBVIOUS
  <2> HIDE DEF left, next, script, f
  <2>5. /\ IsCall(next) /\ next.op = c.op /\ next.num = c.num /\ next.name = c.name /\ next.given = c.given /\ next.evals = left
        /\ next.alone = c.alone /\ next.value = c.value /\ next.expect = f /\ next.doc = c.doc
    BY <1>3, <2>3, <2>4 DEF IsCall
  <2>6. jpc'[t] = "run" /\ jtask'[t] = next /\ jcalls' = jcalls
    BY <1>1, <1>10, CallKnown DEF AtStep, ScriptInv, EngineInv, TasksInv
  <2>7. ASSUME NEW i \in 1 .. Len(left) PROVE left[i] = IF i = 1 THEN script ELSE c.evals[i]
    BY <1>4, <2>3, <2>7
  <2>8. /\ \A i \in 1 .. Len(left) : left[i].what = "setup" => i = 1 /\ c.op = "validate"
        /\ \A i \in 1 .. Len(left) : left[i].what = "read" => <<ScriptsDir(c.op), c.name>> \in DOMAIN jfiles
    BY <1>1, <1>3, <2>2, <2>3, <2>7 DEF InProgress
  <2>9. InProgress(t)'
    BY <1>2, <1>3, <2>5, <2>6, <2>8 DEF InProgress
  <2>10. OwnCall(t)'
    <3>1. ASSUME corrupt = {}, c.op = "call", c.alone PROVE Undisturbed(t)'
      <4>1. c.doc = 0 /\ jglobals.args = c.given /\ Len(c.evals) = 2 /\ c.evals[2] = Eval("call", NoCode)
        <5>1. Undisturbed(t)
          BY <1>1, <1>3, <3>1 DEF OwnCall
        <5>2. c.evals # <<Eval("call", NoCode)>>
          BY EvalMade, <1>4
        <5>3. CASE c.evals = <<ReadIt, Eval("call", NoCode)>>
          BY <5>3, <1>1, <5>1 DEF Undisturbed
        <5> QED BY <1>1, <1>4, <5>1, <5>2, <5>3 DEF Undisturbed
      <4>2. Len(left) = 2 /\ left[1].what = "script" /\ left[1].code.function = f /\ left[2] = Eval("call", NoCode)
        BY <2>2, <2>3, <4>1 DEF f
      <4> QED BY <1>2, <2>5, <2>6, <4>1, <4>2 DEF Undisturbed
    <3> QED BY <1>2, <2>5, <2>6, <3>1 DEF OwnCall
  <2>11. ValidInv'
    BY <1>1, <1>4, <2>5, <1>2, <1>10, ValidStep DEF Prepared
  <2>12. jpc[t] # "idle" /\ next.evals # <<>> /\ (next.alone => c.alone) /\ "run" \in CallSteps
    BY <1>1, <2>3, <2>5 DEF CallSteps
  <2> QED BY <1>2, <1>6, <1>7, <1>8, <1>10, <2>5, <2>9, <2>10, <2>11, <2>12, StepSound
<1> QED BY <1>1, <1>9, <1>10

\* What is left when the first of some evaluations is done.
LEMMA RestOf ==
    ASSUME NEW s \in Seq(Evals), s # <<>>
    PROVE  /\ Tail(s) \in Seq(Evals) /\ Len(Tail(s)) \in Nat /\ Len(s) \in Nat \ {0} /\ (Len(s) # 1 => Tail(s) # <<>>)
           /\ \A i \in 1 .. Len(Tail(s)) : i + 1 \in 1 .. Len(s) /\ i + 1 # 1 /\ Tail(s)[i] = s[i + 1]
           /\ Len(Tail(s)) = Len(s) - 1
<1>1. Tail(s) \in Seq(Evals) /\ Len(Tail(s)) = Len(s) - 1 /\ Len(s) \in Nat /\ Len(s) > 0
      /\ \A i \in 1 .. Len(Tail(s)) : Tail(s)[i] = s[i + 1]
  BY HeadTailProperties, LenProperties, EmptySeq
<1>2. Len(s) # 1 => Tail(s) # <<>>
  <2>1. Len(s) # 1 => Len(Tail(s)) # 0
    BY <1>1
  <2>2. Len(<<>>) = 0
    OBVIOUS
  <2> DEFINE rest == Tail(s)
  <2> HIDE DEF rest
  <2>3. Len(rest) # 0 => rest # <<>>
    BY <2>2
  <2> QED BY <2>1, <2>3 DEF rest
<1> QED BY <1>1, <1>2

\* A call that nobody disturbed goes on undisturbed.
LEMMA UndisturbedEval ==
    ASSUME NEW c, NEW g \in ScriptGlobals, NEW r, IsCall(c), c.evals # <<>>, EvalSound(g, c.evals[1], r), c.evals[1].what # "read",
           g.args = c.given, r.ok,
           \/ c.evals = <<ReadIt, Eval("call", NoCode)>>
           \/ Len(c.evals) = 2 /\ c.evals[1].what = "script" /\ c.evals[1].code.function = c.expect /\ c.evals[2] = Eval("call", NoCode)
           \/ c.evals = <<Eval("call", NoCode)>> /\ (c.expect # "none" => g.function = c.expect)
    PROVE  \/ /\ Len(c.evals) = 2 /\ Tail(c.evals) = <<Eval("call", NoCode)>> /\ r.globals.args = c.given
              /\ (c.expect # "none" => r.globals.function = c.expect)
           \/ Len(c.evals) = 1 /\ (c.expect # "none" => r.value = <<c.expect>> \o c.given)
<1>0. c.evals \in Seq(Evals)
  BY DEF IsCall
<1>1. c.evals # <<ReadIt, Eval("call", NoCode)>>
  BY EvalMade
<1>2. CASE Len(c.evals) = 2 /\ c.evals[1].what = "script" /\ c.evals[1].code.function = c.expect /\ c.evals[2] = Eval("call", NoCode)
  <2>1. Tail(c.evals) \in Seq(Evals) /\ Len(Tail(c.evals)) = 1 /\ Tail(c.evals)[1] = Eval("call", NoCode)
    BY <1>0, <1>2, RestOf
  <2>2. Tail(c.evals) = <<Eval("call", NoCode)>>
    <3> DEFINE rest == Tail(c.evals)  call == Eval("call", NoCode)
    <3>1. rest \in Seq(Evals) /\ Len(rest) = 1 /\ rest[1] = call
      BY <2>1
    <3> HIDE DEF rest, call
    <3>2. rest = <<call>>
      BY <3>1
    <3> QED BY <3>2 DEF rest, call
  <2>3. r.globals.args = c.given /\ (c.expect # "none" => r.globals.function = c.expect)
    BY <1>2 DEF EvalSound, Defines
  <2> QED BY <1>2, <2>2, <2>3
<1>3. CASE c.evals = <<Eval("call", NoCode)>> /\ (c.expect # "none" => g.function = c.expect)
  BY <1>3, EvalMade DEF EvalSound
<1> QED BY <1>1, <1>2, <1>3

\* An evaluation ends.
LEMMA EndedSound ==
    ASSUME ScriptInv, NEW t \in JThreads, Ended(t)
    PROVE  ScriptInv'
<1> DEFINE c == jtask[t]
           e == c.evals[1]
           normal == Evaluate(jglobals, e)
           result(ok) == IF corrupt = {} THEN normal ELSE [globals |-> jglobals, ok |-> ok, value |-> <<"anything">>]
           survives(r) == r.ok \/ e.what = "validate"
           value(r) == IF survives(r) /\ ~ r.ok THEN <<"true">> ELSE r.value
<1>1. inside[t] # {} /\ jpc[t] = "run" /\ inside[t] = {e} /\ e.what # "read"
  BY DEF Ended, ScriptInv, EngineInv, TasksInv
<1>2. InProgress(t) /\ IsCall(c) /\ OwnCall(t) /\ c.evals \in Seq(Evals) /\ c.evals # <<>> /\ e \in Evals
  BY <1>1, CallKnown DEF ScriptInv, EngineInv, TasksInv, IsCall
<1>3. PICK ok \in BOOLEAN :
        /\ jglobals' = result(ok).globals
        /\ \/ /\ ~ survives(result(ok))
              /\ AtStep(t, IF c.doc # 0 THEN "record" ELSE "report", [c EXCEPT !.value = <<"rejected">>])
              /\ IF e.what = "setup" THEN UNCHANGED lastError ELSE SetError(t, "exception")
           \/ /\ survives(result(ok))
              /\ AtStep(t, IF Len(c.evals) = 1 THEN "finish" ELSE "run", [c EXCEPT !.evals = Tail(@), !.value = value(result(ok))])
              /\ UNCHANGED lastError
  BY <1>1 DEF Ended
<1>4. /\ inside' = [inside EXCEPT ![t] = {}] /\ jmutex' = jmutex \ {t} /\ corrupt' = corrupt /\ scriptDocs' = scriptDocs
      /\ looked' = looked /\ validated' = validated /\ jfiles' = jfiles /\ janswer' = janswer
  BY DEF Ended, nativeVars
<1>5. EvalSound(jglobals, e, normal) /\ jglobals \in ScriptGlobals /\ jglobals.document # <<"error">>
  BY <1>1, <1>2, EvaluationSound DEF ScriptInv, DataInv
<1> DEFINE r == result(ok)
<1>6. r.globals \in ScriptGlobals /\ r.value # <<"error">> /\ r.globals.document # <<"error">>
  BY NothingGiven, Words, <1>5 DEF EvalSound
<1>7. corrupt = {} => r = normal
  OBVIOUS
<1>8. value(r) # <<"error">> /\ <<"rejected">> # <<"error">> /\ (r.ok => value(r) = r.value)
  BY NothingGiven, Words, <1>6
<1> DEFINE v == value(r)  lives == survives(r)
<1>9. lives <=> r.ok \/ e.what = "validate"
  OBVIOUS
<1>10. /\ jglobals' = r.globals
       /\ \/ /\ ~ lives
             /\ AtStep(t, IF c.doc # 0 THEN "record" ELSE "report", [c EXCEPT !.value = <<"rejected">>])
             /\ IF e.what = "setup" THEN lastError' = lastError ELSE SetError(t, "exception")
          \/ /\ lives
             /\ AtStep(t, IF Len(c.evals) = 1 THEN "finish" ELSE "run", [c EXCEPT !.evals = Tail(@), !.value = v])
  BY <1>3
<1>11. v # <<"error">> /\ (r.ok => v = r.value)
  BY <1>8
<1> HIDE DEF normal, result, survives, value, r, v, lives
<1>12. /\ DOMAIN jfiles \subseteq DOMAIN jfiles' /\ \A p \in DOMAIN jfiles' : jfiles'[p] \in SUBSET ScriptCodes
       /\ DocumentsInv' /\ LookedInv' /\ DocsGrow
       /\ jglobals' \in ScriptGlobals /\ jglobals'.document # <<"error">> /\ validated' \in Nat
  BY <1>4, <1>6, <1>10, FilesKept, LookedKept DEF ScriptInv, DataInv
<1>13. LastAnswered' /\ AnsweredStored'
  BY <1>4 DEF ScriptInv, AnswersInv, LastAnswered, OwnResult, ErrorIsOwn, NothingTriggered, StoredInv, AnsweredStored
<1>14. inside' \in [JThreads -> SUBSET Evals] /\ inside'[t] = {} /\ \A u \in JThreads : u # t => inside'[u] = inside[u]
       /\ jmutex' \in {jmutex, jmutex \ {t}}
  BY <1>4 DEF ScriptInv, EngineInv, MutexInv
<1>15. ASSUME NEW step, NEW call, AtStep(t, step, call)
       PROVE  jpc'[t] = step /\ jtask'[t] = call /\ jcalls' = jcalls
  BY <1>1, <1>15, CallKnown DEF AtStep, ScriptInv, EngineInv, TasksInv
<1>16. CASE /\ ~ lives
            /\ AtStep(t, IF c.doc # 0 THEN "record" ELSE "report", [c EXCEPT !.value = <<"rejected">>])
            /\ IF e.what = "setup" THEN lastError' = lastError ELSE SetError(t, "exception")
  <2> DEFINE next == [c EXCEPT !.value = <<"rejected">>]
             step == IF c.doc # 0 THEN "record" ELSE "report"
  <2>1. AtStep(t, step, next) /\ step \in {"record", "report"} /\ (step = "record" <=> c.doc # 0)
    BY <1>16
  <2>2. /\ IsCall(next) /\ next.op = c.op /\ next.num = c.num /\ next.name = c.name /\ next.given = c.given /\ next.evals = c.evals
        /\ next.alone = c.alone /\ next.value = <<"rejected">> /\ next.expect = c.expect /\ next.doc = c.doc
    BY <1>2 DEF IsCall
  <2> HIDE DEF next, step
  <2>3. jpc'[t] = step /\ jtask'[t] = next /\ jcalls' = jcalls
    BY <1>15, <2>1
  <2>4. InProgress(t)'
    BY <1>2, <1>4, <1>8, <2>1, <2>2, <2>3 DEF InProgress
  <2>5. OwnCall(t)'
    BY <1>2, <1>16, <2>1, <2>2, <2>3 DEF InProgress, SetError, OwnCall, Undisturbed
  <2>6. ValidInv'
    BY <1>5, <1>7, <1>9, <1>16, <1>10, <1>1, <1>4, <2>1, ValidStep DEF EvalSound, ValidInv
  <2>7. jpc[t] # "idle" /\ step \in CallSteps /\ step # "run" /\ (next.alone => c.alone)
    BY <1>1, <2>1, <2>2 DEF CallSteps
  <2> QED BY <1>4, <1>12, <1>13, <1>14, <2>1, <2>2, <2>4, <2>5, <2>6, <2>7, StepSound
<1>17. CASE lives /\ AtStep(t, IF Len(c.evals) = 1 THEN "finish" ELSE "run", [c EXCEPT !.evals = Tail(@), !.value = v])
  <2> DEFINE left == Tail(c.evals)
             next == [c EXCEPT !.evals = left, !.value = v]
             step == IF Len(c.evals) = 1 THEN "finish" ELSE "run"
  <2>1. AtStep(t, step, next) /\ step \in {"finish", "run"} /\ (step = "finish" <=> Len(c.evals) = 1)
    BY <1>17
  <2>2. /\ left \in Seq(Evals) /\ (Len(c.evals) # 1 => left # <<>>)
        /\ \A i \in 1 .. Len(left) : i + 1 \in 1 .. Len(c.evals) /\ i + 1 # 1 /\ left[i] = c.evals[i + 1]
    BY <1>2, RestOf
  <2>21. Len(left) \in Nat
    BY <2>2, LenProperties
  <2>3. left = <<Eval("call", NoCode)>> <=> Tail(c.evals) = <<Eval("call", NoCode)>>
    OBVIOUS
  <2> HIDE DEF left
  <2>31. next = [c EXCEPT !.evals = left, !.value = v]
    OBVIOUS
  <2> HIDE DEF next, c
  <2>4. /\ IsCall(next) /\ next.op = c.op /\ next.num = c.num /\ next.name = c.name /\ next.given = c.given /\ next.evals = left
        /\ next.alone = c.alone /\ next.value = v /\ next.expect = c.expect /\ next.doc = c.doc
    BY <1>2, <2>2, <2>31 DEF IsCall
  <2> HIDE DEF step
  <2> USE DEF c
  <2>5. jpc'[t] = step /\ jtask'[t] = next /\ jcalls' = jcalls
    BY <1>15, <2>1
  <2>6. /\ \A i \in 1 .. Len(left) : left[i].what # "setup"
        /\ \A i \in 1 .. Len(left) : left[i].what = "read" => <<ScriptsDir(c.op), c.name>> \in DOMAIN jfiles
    BY <1>1, <1>2, <2>2 DEF InProgress
  <2>7. InProgress(t)'
    BY <1>2, <1>4, <1>11, <2>1, <2>4, <2>5, <2>6 DEF InProgress
  <2>8. OwnCall(t)'
    <3>1. ASSUME corrupt = {}, c.op = "call", c.alone PROVE Undisturbed(t)'
      <4>1. Undisturbed(t)
        BY <1>1, <1>2, <3>1 DEF OwnCall
      <4>2. EvalSound(jglobals, e, r)
        BY <1>5, <1>7, <3>1
      <4>3. /\ c.doc = 0 /\ jglobals.args = c.given
            /\ \/ c.evals = <<ReadIt, Eval("call", NoCode)>>
               \/ Len(c.evals) = 2 /\ c.evals[1].what = "script" /\ c.evals[1].code.function = c.expect /\ c.evals[2] = Eval("call", NoCode)
               \/ c.evals = <<Eval("call", NoCode)>> /\ (c.expect # "none" => jglobals.function = c.expect)
        BY <1>1, <4>1 DEF Undisturbed
      <4>4. r.ok
        BY EvalMade, <4>3, <1>9, <1>17
      <4>5. \/ /\ Len(c.evals) = 2 /\ left = <<Eval("call", NoCode)>> /\ r.globals.args = c.given
               /\ (c.expect # "none" => r.globals.function = c.expect)
            \/ Len(c.evals) = 1 /\ (c.expect # "none" => r.value = <<c.expect>> \o c.given)
        BY <1>1, <1>2, <1>5, <2>3, <4>2, <4>3, <4>4, UndisturbedEval
      <4>6. CASE Len(c.evals) = 2 /\ left = <<Eval("call", NoCode)>> /\ r.globals.args = c.given
                 /\ (c.expect # "none" => r.globals.function = c.expect)
        BY <2>1, <4>6, <1>10, <2>4, <2>5, <4>3 DEF Undisturbed
      <4>7. CASE Len(c.evals) = 1 /\ (c.expect # "none" => r.value = <<c.expect>> \o c.given)
        BY <1>11, <2>1, <4>4, <4>7, <2>4, <2>5, <4>3 DEF Undisturbed
      <4> QED BY <4>5, <4>6, <4>7
    <3>2. step # "report"
      BY <2>1
    <3> QED BY <1>4, <2>4, <2>5, <3>1, <3>2 DEF OwnCall
  <2>9. ValidInv'
    <3>1. CASE corrupt = {} /\ e.what # "setup"
      BY <1>5, <1>7, <1>10, <3>1, <1>1, <2>4, <1>4, <2>1, ValidStep DEF EvalSound, Prepared
    <3>2. CASE corrupt = {} /\ e.what = "setup"
      <4>1. EvalSound(jglobals, e, r) /\ r.ok \in BOOLEAN /\ r.ok
        BY <1>5, <1>7, <1>9, <1>17, <3>2 DEF EvalSound
      <4>2. ~ jglobals.declared /\ jglobals'.declared
        BY <1>10, <3>2, <4>1 DEF EvalSound
      <4>3. validated = 0 /\ \A u \in JThreads : ~ Prepared(u)
        BY <3>2, <4>2 DEF ScriptInv, ValidInv
      <4>4. \A u \in JThreads : u # t => jpc'[u] = jpc[u] /\ jtask'[u] = jtask[u]
        BY <2>1 DEF AtStep, ScriptInv, EngineInv, TasksInv
      <4>5. \A u \in JThreads : Prepared(u)' => u = t
        BY <4>3, <4>4 DEF Prepared
      <4> QED BY <1>4, <4>2, <4>3, <4>5 DEF ValidInv
    <3>3. CASE corrupt # {}
      BY <1>4, <3>3 DEF ValidInv
    <3> QED BY <3>1, <3>2, <3>3
  <2>10. jpc[t] # "idle" /\ step \in CallSteps /\ (step = "run" => next.evals # <<>>) /\ (next.alone => c.alone)
    BY <1>1, <2>1, <2>2, <2>4 DEF CallSteps
  <2> QED BY <1>4, <1>12, <1>13, <1>14, <2>1, <2>4, <2>7, <2>8, <2>9, <2>10, StepSound
<1> QED BY <1>10, <1>16, <1>17

\* A call is finished: what it gave to its script is cleared.
LEMMA FinishSound ==
    ASSUME ScriptInv, NEW t \in JThreads, FinishCall(t)
    PROVE  ScriptInv'
<1> DEFINE c == jtask[t]
           op == c.op
           result == CASE op = "transform" -> jglobals.document
                       [] op = "return" /\ c.value = <<>> -> jglobals.document
                       [] OTHER -> c.value
<1>1. /\ jpc[t] = "finish"
      /\ \/ jglobals' = jglobals \/ Give("args", <<>>) \/ Give("input", <<>>) \/ Give("document", <<>>)
      /\ validated' = IF op = "validate" /\ result = <<"true">> THEN validated + 1 ELSE validated
      /\ IF c.doc # 0 THEN AtStep(t, "record", [c EXCEPT !.value = result]) /\ janswer' = janswer ELSE AnswerCall(t, result)
  BY DEF FinishCall
<1>2. /\ inside' = inside /\ jmutex' = jmutex /\ corrupt' = corrupt /\ scriptDocs' = scriptDocs
      /\ looked' = looked /\ jfiles' = jfiles
  BY DEF FinishCall, nativeVars
<1>3. InProgress(t) /\ IsCall(c) /\ OwnCall(t)
  BY <1>1, CallKnown
<1>4. jglobals' \in ScriptGlobals /\ jglobals'.document # <<"error">> /\ jglobals'.declared = jglobals.declared
  BY <1>1, GlobalsKept, GiveSound, NothingGiven
<1>5. result # <<"error">> /\ (op = "call" => result = c.value)
  BY <1>3 DEF InProgress, ScriptInv, DataInv
<1> HIDE DEF result
<1>6. validated \in Nat /\ validated' \in Nat
  BY <1>1 DEF ScriptInv, DataInv
<1>7. inside' \in [JThreads -> SUBSET Evals] /\ inside'[t] = {} /\ \A u \in JThreads : u # t => inside'[u] = inside[u]
  BY <1>1, <1>2, InsideKept
<1>8. DOMAIN jfiles \subseteq DOMAIN jfiles' /\ (\A p \in DOMAIN jfiles' : jfiles'[p] \in SUBSET ScriptCodes)
      /\ DocumentsInv' /\ LookedInv' /\ DocsGrow
  BY <1>2, FilesKept, LookedKept
<1>9. PICK step, call : step \in {"record", "idle"} /\ AtStep(t, step, call)
  BY <1>1 DEF AnswerCall
<1>10. /\ jpc'[t] = step /\ \A u \in JThreads : u # t => jpc'[u] = jpc[u] /\ jtask'[u] = jtask[u]
  BY <1>9 DEF AtStep, ScriptInv, EngineInv, TasksInv
<1>11. ValidInv'
  BY <1>2, <1>1, <1>4, <1>9, ValidStep, <1>10 DEF ValidInv, Prepared, ScriptInv
<1>12. CASE c.doc = 0
  BY <1>1, <1>12, <1>3, <1>5, <1>2, <1>4, <1>6, <1>7, <1>8, <1>11, AnswerCallSound DEF OwnCall, Undisturbed
<1>13. CASE c.doc # 0
  <2>1. AtStep(t, "record", [c EXCEPT !.value = result]) /\ janswer' = janswer
    BY <1>1, <1>13
  <2> DEFINE next == [c EXCEPT !.value = result]
  <2>2. next = [c EXCEPT !.value = result]
    OBVIOUS
  <2> HIDE DEF next, c
  <2>3. /\ IsCall(next) /\ next.op = c.op /\ next.num = c.num /\ next.name = c.name /\ next.given = c.given /\ next.evals = c.evals
        /\ next.alone = c.alone /\ next.value = result /\ next.expect = c.expect /\ next.doc = c.doc
    BY <1>3, <2>2 DEF IsCall
  <2>4. AtStep(t, "record", next)
    BY <2>1 DEF next
  <2> HIDE DEF next
  <2> USE DEF c
  <2>5. jpc'[t] = "record" /\ jtask'[t] = next /\ jcalls' = jcalls
    BY <2>4 DEF AtStep, ScriptInv, EngineInv, TasksInv
  <2>6. InProgress(t)'
    BY <1>2, <1>3, <1>5, <2>3, <2>5 DEF InProgress
  <2>7. OwnCall(t)'
    BY <1>3, <1>13, <2>3, <2>5 DEF OwnCall, InProgress
  <2>8. LastAnswered' /\ AnsweredStored'
    BY <1>2, <2>1 DEF ScriptInv, AnswersInv, LastAnswered, OwnResult, ErrorIsOwn, NothingTriggered, StoredInv,
       AnsweredStored
  <2>9. jpc[t] # "idle" /\ "record" \in CallSteps /\ (next.alone => c.alone) /\ jmutex' \in {jmutex, jmutex \ {t}}
    BY <1>1, <1>2, <2>3 DEF CallSteps
  <2> QED BY <1>2, <1>4, <1>6, <1>7, <1>8, <1>11, <2>3, <2>4, <2>6, <2>7, <2>8, <2>9, StepSound
<1> QED BY <1>12, <1>13

-----------------------------------------------------------------------------
(* Scripts kept as documents: what a look-up leaves in the caches.         *)

LEMMA RememberSound ==
    ASSUME ScriptInv, NEW d \in 1 .. Len(scriptDocs), NEW keys \in SUBSET ((Places \cup {"documents"}) \X {d}),
           looked' = Remember(keys), DocsGrow
    PROVE  LookedInv'
<1>1. DocumentsInv /\ LookedInv
  BY DEF ScriptInv, StoredInv
<1>2. Len(scriptDocs) \in Nat /\ Len(scriptDocs) <= Len(scriptDocs')
  BY <1>1, LenProperties DEF DocsGrow, DocumentsInv
<1>3. ASSUME NEW k \in DOMAIN looked', k[1] \in Places \cup {"documents"}
      PROVE  k[2] \in 1 .. Len(scriptDocs') /\ \A s \in looked'[k] : FoundSound(k[1], k[2], s)'
  <2>1. k[2] \in 1 .. Len(scriptDocs) /\ \A s \in looked'[k] : FoundSound(k[1], k[2], s)
    BY <1>1, <1>3, RemembersSound
  <2>2. scriptDocs'[k[2]].origin = scriptDocs[k[2]].origin
    BY <2>1 DEF DocsGrow
  <2>3. \A s \in looked'[k] : FoundSound(k[1], k[2], s)'
    BY <2>1, <2>2 DEF FoundSound
  <2>4. k[2] \in 1 .. Len(scriptDocs')
    <3> DEFINE i == k[2]
    <3>1. i \in 1 .. Len(scriptDocs)
      BY <2>1
    <3> HIDE DEF i
    <3>2. i \in 1 .. Len(scriptDocs')
      BY <1>2, <3>1
    <3> QED BY <3>2 DEF i
  <2> QED BY <2>3, <2>4
<1>4. ASSUME NEW k \in DOMAIN looked', k[1] = "name" PROVE looked'[k] \in SUBSET ScriptCodes
  BY <1>4, <1>1 DEF Places, Remember, LookedInv
<1> QED BY <1>3, <1>4 DEF LookedInv

\* Nothing is stored, and the request has its answer.
LEMMA DocsKept ==
    ASSUME ScriptInv, scriptDocs' = scriptDocs
    PROVE  DocumentsInv' /\ DocsGrow
BY DEF ScriptInv, StoredInv, DocumentsInv, DocsGrow

LEMMA NativeSound ==
    ASSUME ScriptInv, NEW t \in JThreads, NEW op, NEW v, NEW d, Native(t, op, v, d),
           op \notin {"call", "validate"}, v # <<"error">>, op \in {"list", "metrics"} => d = 0, op = "insert" => v = <<"inserted">>,
           DocumentsInv', LookedInv', DocsGrow
    PROVE  ScriptInv'
  BY AnsweredSound DEF Native, NoCall

\* Words that answer a request.
LEMMA OneWord == \A x : x # "error" => <<x>> # <<"error">>
BY NothingGiven, Words

LEMMA LookedGrow ==
    ASSUME ScriptInv, looked' = looked, DocsGrow
    PROVE  LookedInv'
<1>1. DocumentsInv /\ LookedInv
  BY DEF ScriptInv, StoredInv
<1>2. Len(scriptDocs) \in Nat /\ Len(scriptDocs) <= Len(scriptDocs')
  BY <1>1, LenProperties DEF DocsGrow, DocumentsInv
<1>3. ASSUME NEW k \in DOMAIN looked, k[1] \in Places \cup {"documents"}
      PROVE  k[2] \in 1 .. Len(scriptDocs') /\ \A s \in looked[k] : FoundSound(k[1], k[2], s)'
  <2> DEFINE i == k[2]
  <2>1. i \in 1 .. Len(scriptDocs) /\ \A s \in looked[k] : FoundSound(k[1], i, s)
    BY <1>1, <1>3 DEF LookedInv
  <2> HIDE DEF i
  <2>2. scriptDocs'[i].origin = scriptDocs[i].origin
    BY <2>1 DEF DocsGrow
  <2>3. \A s \in looked[k] : FoundSound(k[1], i, s)'
    BY <2>1, <2>2 DEF FoundSound
  <2>4. i \in 1 .. Len(scriptDocs')
    BY <1>2, <2>1
  <2> QED BY <2>3, <2>4 DEF i
<1> QED BY <1>1, <1>3 DEF LookedInv

\* A document is stored, or another one is put in its place.
LEMMA DocStored ==
    ASSUME ScriptInv, NEW s \in ScriptRecords, s.version = 1, s.lib = "default" /\ s.type \in Places => s.origin = "documents",
           Len(scriptDocs) < MaxScripts, scriptDocs' = Append(scriptDocs, s)
    PROVE  DocumentsInv' /\ DocsGrow
  BY LenProperties, ScriptBounds, AppendProperties DEF ScriptInv, StoredInv, DocumentsInv, DocsGrow

LEMMA DocReplaced ==
    ASSUME ScriptInv, NEW d \in 1 .. Len(scriptDocs), NEW s \in ScriptRecords, s.version <= 2, s.origin = scriptDocs[d].origin,
           s.lib = "default" /\ s.type \in Places => s.version = 1 /\ s.origin = "documents",
           scriptDocs' = [scriptDocs EXCEPT ![d] = s]
    PROVE  DocumentsInv' /\ DocsGrow
  BY LenProperties, ScriptBounds, ExceptSeq DEF ScriptInv, StoredInv, DocumentsInv, DocsGrow

LEMMA ForeignKnown ==
    ASSUME NEW x \in ForeignDocs
    PROVE  x \in ScriptRecords /\ x.version = 1 /\ x.origin = "documents"
  BY ScriptAssumption DEF Texts, StoredScripts, ScriptRecords

LEMMA NewScriptSound ==
    ASSUME ScriptInv, NEW x \in ScriptRecords, x.version = 1, NEW lib \in Texts, NEW type \in Texts,
           x.origin = "documents" \/ lib # "default", Len(scriptDocs) < MaxScripts, NewScript(lib, type, x)
    PROVE  DocumentsInv' /\ DocsGrow
<1> DEFINE s == [x EXCEPT !.lib = lib, !.type = type, !.live = TRUE]
<1>1. s \in ScriptRecords /\ s.version = 1 /\ s.lib = lib /\ s.origin = x.origin
  BY DEF ScriptRecords
<1>2. scriptDocs' = Append(scriptDocs, s)
  BY DEF NewScript
<1> HIDE DEF s
<1> QED BY <1>1, <1>2, DocStored

-----------------------------------------------------------------------------
(* Scripts kept as documents: the requests.                                *)

LEMMA StoreSound ==
    ASSUME ScriptInv, NEW t \in JThreads, NEW x \in ForeignDocs, js_native_store_script(t, "function", x)
    PROVE  ScriptInv'
<1> DEFINE stored == Brackets(x.code) /\ check_js_permission("WRITE")
           v == <<IF stored THEN "stored" ELSE "refused">>
           y == [x EXCEPT !.owner = TheUser, !.origin = "store"]
<1>1. /\ Native(t, "store", v, 0) /\ Len(scriptDocs) < MaxScripts /\ looked' = looked
      /\ scriptDocs' = scriptDocs \/ NewScript("system", "function", y)
  BY DEF js_native_store_script
<1>2. v # <<"error">>
  BY OneWord
<1> HIDE DEF v
<1>3. y \in ScriptRecords /\ y.version = 1
  BY ForeignKnown DEF Texts, ScriptRecords, TheUser
<1> HIDE DEF y
<1>4. DocumentsInv' /\ DocsGrow
  BY <1>1, <1>3, NewScriptSound, DocsKept DEF Texts
<1>5. LookedInv'
  BY <1>1, <1>4, LookedGrow
<1> QED BY <1>1, <1>2, <1>4, <1>5, NativeSound

LEMMA ForeignSound ==
    ASSUME ScriptInv, NEW t \in JThreads, NEW x \in ForeignDocs, StoreForeign(t, x)
    PROVE  ScriptInv'
  BY OneWord, ForeignKnown, NewScriptSound, LookedGrow, NativeSound DEF StoreForeign, ScriptRecords

\* Nothing is triggered, whatever is stored.
LEMMA NothingFound ==
    /\ \A name : js_native_find_triggered_scripts(name) = {}
    /\ \A type, name : ListedIn(QueryAnswer(type, name)) = {}
  BY DEF QueryAnswer, ListedIn, js_native_find_triggered_scripts

LEMMA InsertSound ==
    ASSUME ScriptInv, NEW t \in JThreads, NEW x \in ForeignDocs, db_insert_document_with_js(t, x)
    PROVE  ScriptInv'
  BY NothingFound, OneWord, ForeignKnown, NewScriptSound, LookedGrow, NativeSound DEF db_insert_document_with_js,
     ScriptRecords, Texts

LEMMA UpdateSound ==
    ASSUME ScriptInv, NEW t \in JThreads, NEW d \in 1 .. Len(scriptDocs), db_update_document_with_js(t, d)
    PROVE  ScriptInv'
<1> DEFINE found == FindScript("documents", d)
           updated == found # {} /\ scriptDocs[d].live
           v == <<IF updated THEN "updated" ELSE "missing">>
           s == [AnyOf(found) EXCEPT !.live = TRUE]
<1>1. /\ looked' = Remember({<<"documents", d>>}) /\ Native(t, "update", v, 0)
      /\ \/ scriptDocs' = scriptDocs
         \/ found # {} /\ scriptDocs' = [scriptDocs EXCEPT ![d] = s]
  BY DEF db_update_document_with_js
<1>2. v # <<"error">>
  BY OneWord
<1> HIDE DEF v
<1>3. DocumentsInv' /\ DocsGrow
  <2>1. CASE scriptDocs' = scriptDocs
    BY <2>1, DocsKept
  <2>2. CASE found # {} /\ scriptDocs' = [scriptDocs EXCEPT ![d] = s]
    <3>1. AnyOf(found) \in found
      BY <2>2 DEF AnyOf
    <3>2. FoundSound("documents", d, AnyOf(found))
      BY <3>1, FindsSound DEF ScriptInv, StoredInv
    <3>3. /\ AnyOf(found) \in ScriptRecords /\ AnyOf(found).origin = scriptDocs[d].origin
          /\ AnyOf(found).type = "documents" /\ AnyOf(found).version <= 2
      BY <3>2 DEF FoundSound
    <3>4. s \in ScriptRecords /\ s.version <= 2 /\ s.origin = scriptDocs[d].origin /\ s.type = "documents"
      BY <3>3 DEF ScriptRecords
    <3> HIDE DEF s
    <3>5. "documents" \notin Places
      BY DEF Places
    <3> QED BY <2>2, <3>4, <3>5, DocReplaced
  <2> QED BY <1>1, <2>1, <2>2
<1>4. LookedInv'
  BY <1>1, <1>3, RememberSound
<1> QED BY <1>1, <1>2, <1>3, <1>4, NativeSound

\* A document is marked as deleted.
LEMMA DeadDoc ==
    ASSUME ScriptInv, NEW d \in 1 .. Len(scriptDocs), scriptDocs' = [scriptDocs EXCEPT ![d].live = FALSE]
    PROVE  DocumentsInv' /\ DocsGrow
<1> DEFINE s == [scriptDocs[d] EXCEPT !.live = FALSE]
<1>1. /\ scriptDocs[d] \in ScriptRecords /\ scriptDocs[d].version <= 2
      /\ scriptDocs[d].lib = "default" /\ scriptDocs[d].type \in Places => scriptDocs[d].version = 1 /\ scriptDocs[d].origin = "documents"
  BY DEF ScriptInv, StoredInv, DocumentsInv
<1>2. /\ s \in ScriptRecords /\ s.version = scriptDocs[d].version /\ s.origin = scriptDocs[d].origin
      /\ s.lib = scriptDocs[d].lib /\ s.type = scriptDocs[d].type
  BY <1>1 DEF ScriptRecords
<1>3. scriptDocs' = [scriptDocs EXCEPT ![d] = s]
  OBVIOUS
<1> HIDE DEF s
<1> QED BY <1>1, <1>2, <1>3, DocReplaced

LEMMA RemoveSound ==
    ASSUME ScriptInv, NEW t \in JThreads, NEW d \in 1 .. Len(scriptDocs), db_delete_document_with_js(t, d)
    PROVE  ScriptInv'
<1> DEFINE v == <<IF scriptDocs[d].live THEN "deleted" ELSE "missing">>
<1>1. /\ looked' = Remember({<<"documents", d>>}) /\ Native(t, "remove", v, 0)
      /\ scriptDocs' = [scriptDocs EXCEPT ![d].live = FALSE]
  BY DEF db_delete_document_with_js
<1>2. v # <<"error">>
  BY OneWord
<1> HIDE DEF v
<1>3. DocumentsInv' /\ DocsGrow
  BY <1>1, DeadDoc
<1>4. LookedInv'
  BY <1>1, <1>3, RememberSound
<1> QED BY <1>1, <1>2, <1>3, <1>4, NativeSound

LEMMA ListSound ==
    ASSUME ScriptInv, NEW t \in JThreads, js_native_list_scripts(t) \/ js_native_get_global_metrics(t)
    PROVE  ScriptInv'
<1>1. Cardinality({}) = 0
  BY FS_EmptySet
<1>2. scriptDocs' = scriptDocs /\ looked' = looked
  BY DEF js_native_list_scripts, js_native_get_global_metrics
<1>3. DocumentsInv' /\ DocsGrow /\ LookedInv'
  BY <1>2, LookedKept
<1>4. CASE js_native_list_scripts(t)
  <2> DEFINE v == <<IF check_js_permission("READ") THEN "listed" ELSE "refused">>
  <2>1. Native(t, "list", v, 0)
    BY <1>1, <1>4, NothingFound DEF js_native_list_scripts
  <2>2. v # <<"error">>
    BY OneWord
  <2> HIDE DEF v
  <2> QED BY <1>3, <2>1, <2>2, NativeSound
<1>5. CASE js_native_get_global_metrics(t)
  <2> DEFINE v == <<IF check_js_permission("READ") THEN "counted" ELSE "refused">>
  <2>1. Native(t, "metrics", v, 0)
    BY <1>1, <1>5, NothingFound DEF js_native_get_global_metrics
  <2>2. v # <<"error">>
    BY OneWord
  <2> HIDE DEF v
  <2> QED BY <1>3, <2>1, <2>2, NativeSound
<1> QED BY <1>4, <1>5

LEMMA GetSound ==
    ASSUME ScriptInv, NEW t \in JThreads, NEW d \in 1 .. Len(scriptDocs), api_handle_js_native_get_script(t, d)
    PROVE  ScriptInv'
<1> DEFINE v == <<IF js_native_get_script(d) = {} THEN "missing" ELSE IF check_js_permission("READ") THEN "found" ELSE "refused">>
<1>1. looked' = Remember(SearchedKeys(d)) /\ scriptDocs' = scriptDocs /\ Native(t, "get", v, 0)
  BY DEF api_handle_js_native_get_script, Fetch, RememberScript
<1>2. v # <<"error">>
  BY OneWord
<1> HIDE DEF v
<1>3. DocumentsInv' /\ DocsGrow
  BY <1>1, DocsKept
<1>4. LookedInv'
  BY <1>1, <1>3, SearchesPlaces, RememberSound
<1> QED BY <1>1, <1>2, <1>3, <1>4, NativeSound

\* A document y written over by a request x, of which f was found.
Rewritten(y, x, f) ==
    [y EXCEPT !.type = "validator", !.name = x.name, !.owner = f.owner, !.enabled = x.enabled,
              !.limited = x.limited, !.code = x.code, !.ref = x.ref, !.version = f.version + 1]

LEMMA ScriptChanged ==
    ASSUME NEW y \in ScriptRecords, NEW x \in ScriptRecords, NEW f \in ScriptRecords, f.version = 1
    PROVE  /\ Rewritten(y, x, f) \in ScriptRecords /\ Rewritten(y, x, f).version = 2
           /\ Rewritten(y, x, f).origin = y.origin /\ Rewritten(y, x, f).type = "validator"
<1> DEFINE s == Rewritten(y, x, f)
<1>1. /\ y.lib \in Texts /\ y.origin \in Texts /\ y.live \in BOOLEAN
      /\ y = [lib |-> y.lib, type |-> y.type, name |-> y.name, owner |-> y.owner, enabled |-> y.enabled, limited |-> y.limited,
              version |-> y.version, code |-> y.code, ref |-> y.ref, origin |-> y.origin, live |-> y.live]
  BY DEF ScriptRecords
<1> DEFINE n == x.name  o == f.owner  e == x.enabled  l == x.limited  c == x.code  r == x.ref  v == f.version + 1
<1>5. s = [y EXCEPT !.type = "validator", !.name = n, !.owner = o, !.enabled = e, !.limited = l, !.code = c, !.ref = r, !.version = v]
  BY DEF Rewritten
<1>6. v = 2
  OBVIOUS
<1> HIDE DEF n, o, e, l, c, r, v, s
<1>2. s = [lib |-> y.lib, type |-> "validator", name |-> n, owner |-> o, enabled |-> e, limited |-> l,
           version |-> v, code |-> c, ref |-> r, origin |-> y.origin, live |-> y.live]
  BY <1>1, <1>5
<1>3. o \in Texts /\ "validator" \in Texts
  BY DEF ScriptRecords, Texts, o
<1>4. n \in Texts /\ e \in BOOLEAN /\ l \in BOOLEAN /\ c \in ScriptCodes /\ r \in Texts
  BY DEF ScriptRecords, n, e, l, c, r
<1>7. s \in ScriptRecords /\ s.version = 2 /\ s.origin = y.origin /\ s.type = "validator"
  BY <1>1, <1>2, <1>3, <1>4, <1>6 DEF ScriptRecords
<1> QED BY <1>7 DEF s

LEMMA ChangeSound ==
    ASSUME ScriptInv, NEW t \in JThreads, NEW d \in 1 .. Len(scriptDocs), NEW x \in ForeignDocs,
           js_native_update_script(t, d, "validator", x)
    PROVE  ScriptInv'
<1> DEFINE found == js_native_get_script(d)
           f == AnyOf(found)
           updated == found # {} /\ MayChange(AnyOf(found)) /\ Brackets(x.code) /\ scriptDocs[d].live
           v == <<IF updated THEN "updated" ELSE "refused">>
           s == Rewritten(scriptDocs[d], x, f)
<1>1. /\ looked' = Remember(SearchedKeys(d)) /\ Native(t, "change", v, 0)
      /\ \/ scriptDocs' = scriptDocs
         \/ found # {} /\ scriptDocs' = [scriptDocs EXCEPT ![d] = s]
  BY DEF js_native_update_script, RememberScript, Rewritten
<1>2. v # <<"error">>
  BY OneWord
<1> HIDE DEF v
<1>3. DocumentsInv' /\ DocsGrow
  <2>1. CASE scriptDocs' = scriptDocs
    BY <2>1, DocsKept
  <2>2. CASE found # {} /\ scriptDocs' = [scriptDocs EXCEPT ![d] = s]
    <3>1. f \in found
      BY <2>2 DEF AnyOf
    <3>2. f \in ScriptRecords /\ f.version = 1
      BY <3>1, ScriptFound DEF ScriptInv, StoredInv
    <3>3. scriptDocs[d] \in ScriptRecords /\ x \in ScriptRecords
      BY ForeignKnown DEF ScriptInv, StoredInv, DocumentsInv
    <3> HIDE DEF f
    <3>4. "validator" \notin Places
      BY DEF Places
    <3>6. s \in ScriptRecords /\ s.version = 2 /\ s.origin = scriptDocs[d].origin /\ s.type = "validator"
      BY <3>2, <3>3, ScriptChanged
    <3>7. s.version <= 2 /\ s.type \notin Places
      BY <3>4, <3>6
    <3> HIDE DEF s
    <3> QED BY <2>2, <3>6, <3>7, DocReplaced
  <2> QED BY <1>1, <2>1, <2>2
<1>4. LookedInv'
  BY <1>1, <1>3, SearchesPlaces, RememberSound
<1> QED BY <1>1, <1>2, <1>3, <1>4, NativeSound

LEMMA DropSound ==
    ASSUME ScriptInv, NEW t \in JThreads, NEW d \in 1 .. Len(scriptDocs), js_native_delete_script(t, d)
    PROVE  ScriptInv'
<1> DEFINE found == js_native_get_script(d)
           deleted == found # {} /\ MayChange(AnyOf(found)) /\ scriptDocs[d].live
           v == <<IF deleted THEN "deleted" ELSE "refused">>
<1>1. /\ looked' = Remember(SearchedKeys(d)) /\ Native(t, "drop", v, 0)
      /\ scriptDocs' = scriptDocs \/ scriptDocs' = [scriptDocs EXCEPT ![d].live = FALSE]
  BY DEF js_native_delete_script, RememberScript
<1>2. v # <<"error">>
  BY OneWord
<1> HIDE DEF v
<1>3. DocumentsInv' /\ DocsGrow
  BY <1>1, DocsKept, DeadDoc
<1>4. LookedInv'
  BY <1>1, <1>3, SearchesPlaces, RememberSound
<1> QED BY <1>1, <1>2, <1>3, <1>4, NativeSound

\* A script that is to run is known: its document was stored as something else.
LEMMA ExecuteSound ==
    ASSUME ScriptInv, NEW t \in JThreads, NEW d \in 1 .. Len(scriptDocs), NEW x \in Seq(Texts), x # <<"error">>,
           api_handle_js_native_execute_script(t, d, x)
    PROVE  ScriptInv'
<1> DEFINE call == [ScriptCall("validate", "none", x, <<>>) EXCEPT !.doc = d]
<1>1. looked' = Remember(SearchedKeys(d)) /\ scriptDocs' = scriptDocs
  BY DEF api_handle_js_native_execute_script, RememberScript
<1>2. DocumentsInv' /\ DocsGrow
  BY <1>1, DocsKept
<1>3. LookedInv'
  BY <1>1, <1>2, SearchesPlaces, RememberSound
<1>4. CASE Native(t, "execute", <<"refused">>, 0)
  BY OneWord, <1>2, <1>3, <1>4, NativeSound
<1>5. CASE js_native_check_execution_permission(d) /\ BeginCall(t, "fetch", call) /\ UNCHANGED <<engineVars, scriptDocs, recorded, validated>>
  <2>1. call = [NoCall EXCEPT !.op = "validate", !.name = "none", !.given = x, !.evals = <<>>, !.doc = d]
    BY DEF ScriptCall
  <2> HIDE DEF call
  <2>2. call = [op |-> "validate", num |-> 0, name |-> "none", given |-> x, evals |-> <<>>, alone |-> TRUE,
                value |-> <<>>, expect |-> "none", error |-> 0, doc |-> d]
    BY <2>1 DEF NoCall
  <2>3. IsCall(call) /\ call.op = "validate" /\ call.given = x /\ call.evals = <<>> /\ call.value = <<>> /\ call.doc = d
    BY <2>2 DEF IsCall
  <2>4. scriptDocs[d].origin = "documents" /\ d # 0
    <3>1. PICK s \in js_native_get_script(d) : TRUE
      BY <1>5 DEF js_native_check_execution_permission
    <3> QED BY <3>1, ScriptFound DEF ScriptInv, StoredInv
  <2>5. /\ inside' = inside /\ jmutex' = jmutex /\ corrupt' = corrupt /\ jglobals' = jglobals /\ jfiles' = jfiles /\ validated' = validated
    BY <1>5 DEF engineVars
  <2>6. jglobals' \in ScriptGlobals /\ jglobals'.document # <<"error">> /\ jglobals'.declared = jglobals.declared
    BY <2>5, GlobalsKept
  <2>7. DOMAIN jfiles \subseteq DOMAIN jfiles' /\ \A p \in DOMAIN jfiles' : jfiles'[p] \in SUBSET ScriptCodes
    BY <2>5, FilesKept
  <2>8. /\ call.op \in EngineOps /\ call.value # <<"error">> /\ call.given # <<"error">>
        /\ call.doc # 0 /\ call.doc \in 1 .. Len(scriptDocs) /\ scriptDocs[call.doc].origin = "documents"
        /\ \A i \in 1 .. Len(call.evals) : call.evals[i].what # "setup"
    BY <2>3, <2>4, NothingGiven DEF EngineOps
  <2>9. "fetch" \in {"run", "write", "report", "fetch"} /\ UNCHANGED <<inside, jmutex, corrupt, scriptDocs, validated>>
        /\ BeginCall(t, "fetch", call)
    BY <1>1, <1>5, <2>5
  <2> QED BY <1>3, <2>3, <2>6, <2>7, <2>8, <2>9, BeginSound
<1> QED BY <1>4, <1>5 DEF api_handle_js_native_execute_script

\* A cache forgets.
LEMMA UncachedSound ==
    ASSUME ScriptInv, Uncached
    PROVE  ScriptInv'
<1>1. PICK k \in DOMAIN looked : looked' = [x \in DOMAIN looked \ {k} |-> looked[x]]
  BY DEF Uncached
<1>2. /\ UNCHANGED <<engineVars, jpc, jtask, plan, validated>> /\ scriptDocs' = scriptDocs /\ janswer' = janswer /\ jcalls' = jcalls
  BY DEF Uncached
<1>3. DocumentsInv' /\ DocsGrow
  BY <1>2, DocsKept
<1>4. LookedInv'
  BY <1>1, <1>2 DEF ScriptInv, StoredInv, LookedInv, FoundSound
<1>5. LastAnswered' /\ AnsweredStored'
  BY <1>2 DEF engineVars, ScriptInv, AnswersInv, LastAnswered, OwnResult, ErrorIsOwn, NothingTriggered, StoredInv,
     AnsweredStored
<1>6. jcalls' \in {jcalls, jcalls + 1} /\ jcalls' <= MaxJsCalls
  BY <1>2, ScriptBounds DEF ScriptInv, DataInv
<1> QED BY <1>2, <1>3, <1>4, <1>5, <1>6, NowSound

\* The code of a script, or of the document it refers to.
LEMMA CodeSound ==
    ASSUME ScriptInv, NEW s \in ScriptRecords, NEW code \in IF s.ref = "none" THEN {{s.code}} ELSE Referenced(s)
    PROVE  code \in SUBSET ScriptCodes
<1>1. CASE s.ref = "none"
  BY <1>1 DEF ScriptRecords
<1>2. CASE s.ref # "none" /\ <<"name", s.ref>> \in DOMAIN looked
  <2> DEFINE k == <<"name", s.ref>>
  <2>1. code = looked[k]
    BY <1>2 DEF Referenced
  <2>2. k[1] = "name"
    OBVIOUS
  <2>3. k \in DOMAIN looked
    BY <1>2
  <2> HIDE DEF k
  <2> QED BY <2>1, <2>2, <2>3 DEF ScriptInv, StoredInv, LookedInv
<1>3. CASE s.ref # "none" /\ <<"name", s.ref>> \notin DOMAIN looked
  <2>1. code = {} \/ \E d \in DOMAIN scriptDocs : code = {scriptDocs[d].code}
    BY <1>3 DEF Referenced
  <2>2. ASSUME NEW d \in DOMAIN scriptDocs PROVE scriptDocs[d].code \in ScriptCodes
    <3>1. scriptDocs[d] \in ScriptRecords
      BY <2>2 DEF ScriptInv, StoredInv, DocumentsInv
    <3> QED BY <3>1 DEF ScriptRecords
  <2> QED BY <2>1, <2>2
<1> QED BY <1>1, <1>2, <1>3

LEMMA SeenSound ==
    ASSUME ScriptInv, NEW d \in 1 .. Len(scriptDocs), NEW refs, \A k \in refs : k[1] = "name", NEW code \in SUBSET ScriptCodes,
           scriptDocs' = scriptDocs, DOMAIN looked' = DOMAIN Remember(SearchedKeys(d)) \cup refs,
           \A k \in DOMAIN looked' : looked'[k] = IF k \in refs THEN code ELSE Remember(SearchedKeys(d))[k]
    PROVE  LookedInv'
<1> DEFINE seen == Remember(SearchedKeys(d))
<1>1. DocumentsInv /\ LookedInv /\ SearchedKeys(d) \in SUBSET ((Places \cup {"documents"}) \X {d})
  BY SearchesPlaces DEF ScriptInv, StoredInv
<1>2. ASSUME NEW k \in DOMAIN looked', k[1] \in Places \cup {"documents"}
      PROVE  k[2] \in 1 .. Len(scriptDocs') /\ \A s \in looked'[k] : FoundSound(k[1], k[2], s)'
  BY <1>2, <1>1, RemembersSound DEF Places, FoundSound
<1>3. ASSUME NEW k \in DOMAIN looked', k[1] = "name" PROVE looked'[k] \in SUBSET ScriptCodes
  BY <1>1, <1>3 DEF Places, Remember, LookedInv
<1> QED BY <1>2, <1>3 DEF LookedInv

\* What a validation by a stored script evaluates.
LEMMA WithCodeSound ==
    ASSUME NEW c \in ScriptCodes, NEW es, es = WithCode(c)
    PROVE  /\ es \in Seq(Evals) /\ es # <<>> /\ es[1].what = "setup"
           /\ \A i \in 1 .. Len(es) : es[i].what # "read" /\ (es[i].what = "setup" => i = 1)
<1> DEFINE made == <<Eval("setup", NoCode), Eval("code", c), Eval("validate", NoCode)>>
<1>1. made \in Seq(Evals) /\ Len(made) = 3 /\ made[1].what = "setup" /\ made[2].what = "code" /\ made[3].what = "validate" /\ made # <<>>
  BY EvalMade
<1>2. es = made
  BY DEF WithCode
<1> HIDE DEF made
<1>3. \A i \in 1 .. 3 : i = 1 \/ i = 2 \/ i = 3
  OBVIOUS
<1>4. \A i \in 1 .. Len(made) : made[i].what # "read" /\ (made[i].what = "setup" => i = 1)
  BY <1>1, <1>3
<1> QED BY <1>1, <1>2, <1>4

\* A stored script runs, or its call fails.
LEMMA ExecutionSound ==
    ASSUME ScriptInv, NEW t \in JThreads, js_native_execute_script(t)
    PROVE  ScriptInv'
<1> DEFINE c == jtask[t]
           d == c.doc
           found == js_native_get_script(d)
           f == AnyOf(found)
           refs == IF f.ref = "none" THEN {} ELSE {<<"name", f.ref>>}
           seen == Remember(SearchedKeys(d))
           noted(code) == looked' = [k \in DOMAIN seen \cup refs |-> IF k \in refs THEN code ELSE seen[k]]
           started(code) == /\ AtStep(t, "run", [c EXCEPT !.evals = WithCode(AnyOf(code)), !.expect = AnyOf(code).verdict])
                            /\ Give("document", c.given) /\ lastError' = NoError /\ janswer' = janswer
<1>1. /\ jpc[t] = "fetch" /\ inside' = inside /\ jmutex' = jmutex /\ corrupt' = corrupt /\ scriptDocs' = scriptDocs
      /\ validated' = validated /\ jfiles' = jfiles
  BY DEF js_native_execute_script
<1>2. \/ AnswerCall(t, <<"failed">>) /\ looked' = seen /\ jglobals' = jglobals
      \/ /\ found # {}
         /\ \E code \in IF f.ref = "none" THEN {{f.code}} ELSE Referenced(f) :
              /\ noted(code)
              /\ \/ AnswerCall(t, <<"failed">>) /\ jglobals' = jglobals
                 \/ /\ AtStep(t, "record", [c EXCEPT !.value = <<"failed">>])
                    /\ jglobals' = jglobals /\ janswer' = janswer
                 \/ code # {} /\ started(code)
  BY DEF js_native_execute_script, RememberScript
<1>3. InProgress(t) /\ IsCall(c) /\ c.op = "validate" /\ d \in 1 .. Len(scriptDocs) /\ d # 0 /\ c.given \in Seq(Texts) /\ c.given # <<"error">>
  BY <1>1, CallKnown DEF InProgress, IsCall
<1> HIDE DEF seen, refs, noted, started
<1>4. DocumentsInv' /\ DocsGrow
  BY <1>1, DocsKept
<1>5. <<"failed">> # <<"error">>
  BY OneWord
<1>6. /\ inside' \in [JThreads -> SUBSET Evals] /\ inside'[t] = {} /\ \A u \in JThreads : u # t => inside'[u] = inside[u]
      /\ jmutex' \in {jmutex, jmutex \ {t}} /\ jpc[t] # "idle"
  BY <1>1, InsideKept
<1>7. DOMAIN jfiles \subseteq DOMAIN jfiles' /\ (\A p \in DOMAIN jfiles' : jfiles'[p] \in SUBSET ScriptCodes) /\ validated' \in Nat
  BY <1>1, FilesKept DEF ScriptInv, DataInv
<1>8. ASSUME AnswerCall(t, <<"failed">>), LookedInv', jglobals' = jglobals PROVE ScriptInv'
  BY <1>8, GlobalsKept, <1>1, <1>6, ValidStep, <1>3, <1>4, <1>5, <1>7, AnswerCallSound DEF AnswerCall, NoCall
<1>9. CASE AnswerCall(t, <<"failed">>) /\ looked' = seen /\ jglobals' = jglobals
  BY <1>3, <1>4, <1>9, SearchesPlaces, RememberSound, <1>8 DEF seen
<1>10. ASSUME found # {}, NEW code \in IF f.ref = "none" THEN {{f.code}} ELSE Referenced(f), noted(code),
              \/ AnswerCall(t, <<"failed">>) /\ jglobals' = jglobals
              \/ /\ AtStep(t, "record", [c EXCEPT !.value = <<"failed">>])
                 /\ jglobals' = jglobals /\ janswer' = janswer
              \/ code # {} /\ started(code)
       PROVE  ScriptInv'
  <2>1. f \in ScriptRecords
    BY <1>10, <1>3, ScriptFound DEF AnyOf, ScriptInv, StoredInv
  <2> HIDE DEF f, found
  <2>2. code \in SUBSET ScriptCodes
    BY <1>10, <2>1, CodeSound
  <2>3. \A k \in refs : k[1] = "name"
    BY DEF refs
  <2>4. LookedInv'
    <3>1. looked' = [k \in DOMAIN seen \cup refs |-> IF k \in refs THEN code ELSE seen[k]]
      BY <1>10 DEF noted
    <3>2. /\ DOMAIN looked' = DOMAIN Remember(SearchedKeys(d)) \cup refs
          /\ \A k \in DOMAIN looked' : looked'[k] = IF k \in refs THEN code ELSE Remember(SearchedKeys(d))[k]
      BY <3>1 DEF seen
    <3>3. d \in 1 .. Len(scriptDocs) /\ scriptDocs' = scriptDocs
      BY <1>1, <1>3
    <3> HIDE DEF d
    <3> QED BY <2>2, <2>3, <3>2, <3>3, SeenSound
  <2>5. CASE AnswerCall(t, <<"failed">>) /\ jglobals' = jglobals
    BY <1>8, <2>4, <2>5
  <2>6. ASSUME janswer' = janswer PROVE LastAnswered' /\ AnsweredStored'
    BY <1>1, <2>6 DEF ScriptInv, AnswersInv, LastAnswered, OwnResult, ErrorIsOwn, NothingTriggered, StoredInv,
       AnsweredStored
  <2>7. ASSUME NEW step, NEW call, AtStep(t, step, call)
        PROVE  jpc'[t] = step /\ jtask'[t] = call /\ jcalls' = jcalls
    BY <1>6, <2>7, CallKnown DEF AtStep, ScriptInv, EngineInv, TasksInv
  <2>8. CASE AtStep(t, "record", [c EXCEPT !.value = <<"failed">>]) /\ jglobals' = jglobals /\ janswer' = janswer
    <3> DEFINE next == [c EXCEPT !.value = <<"failed">>]
    <3>1. AtStep(t, "record", next)
      BY <2>8
    <3>2. next = [c EXCEPT !.value = <<"failed">>]
      OBVIOUS
    <3> HIDE DEF next, c, d
    <3>3. /\ IsCall(next) /\ next.op = c.op /\ next.num = c.num /\ next.name = c.name /\ next.given = c.given /\ next.evals = c.evals
          /\ next.alone = c.alone /\ next.value = <<"failed">> /\ next.expect = c.expect /\ next.doc = c.doc
      BY <1>3, <3>2 DEF IsCall
    <3> USE DEF c, d
    <3>4. jpc'[t] = "record" /\ jtask'[t] = next /\ jcalls' = jcalls
      BY <2>7, <3>1
    <3>5. InProgress(t)'
      BY <1>1, <1>3, <1>5, <3>3, <3>4 DEF InProgress
    <3>6. OwnCall(t)'
      BY <1>3, <3>3, <3>4 DEF OwnCall
    <3>7. jglobals' \in ScriptGlobals /\ jglobals'.document # <<"error">> /\ jglobals'.declared = jglobals.declared
      BY <2>8, GlobalsKept
    <3>8. ValidInv'
      BY <1>1, <1>6, <3>1, <3>7, ValidStep
    <3>9. "record" \in CallSteps /\ (next.alone => c.alone)
      BY <3>3 DEF CallSteps
    <3> QED BY <1>1, <1>4, <1>6, <1>7, <2>4, <2>6, <2>8, <3>1, <3>3, <3>5, <3>6, <3>7, <3>8, <3>9, StepSound
  <2>9. CASE code # {} /\ started(code)
    <3> DEFINE es == WithCode(AnyOf(code))
               ex == AnyOf(code).verdict
               next == [c EXCEPT !.evals = es, !.expect = ex]
    <3>1. AtStep(t, "run", next) /\ Give("document", c.given) /\ janswer' = janswer
      BY <2>9 DEF started
    <3>2. es \in Seq(Evals) /\ es # <<>> /\ es[1].what = "setup"
          /\ \A i \in 1 .. Len(es) : es[i].what # "read" /\ (es[i].what = "setup" => i = 1)
      BY <2>2, <2>9, WithCodeSound DEF AnyOf
    <3> HIDE DEF es, ex
    <3>3. next = [c EXCEPT !.evals = es, !.expect = ex]
      OBVIOUS
    <3> HIDE DEF next, c, d
    <3>4. /\ IsCall(next) /\ next.op = c.op /\ next.num = c.num /\ next.name = c.name /\ next.given = c.given /\ next.evals = es
          /\ next.alone = c.alone /\ next.value = c.value /\ next.expect = ex /\ next.doc = c.doc
      BY <1>3, <3>2, <3>3 DEF IsCall
    <3> USE DEF c, d
    <3>5. jpc'[t] = "run" /\ jtask'[t] = next /\ jcalls' = jcalls
      BY <2>7, <3>1
    <3>6. InProgress(t)'
      BY <1>1, <1>3, <3>2, <3>4, <3>5 DEF InProgress
    <3>7. OwnCall(t)'
      BY <1>3, <3>4, <3>5 DEF OwnCall
    <3>8. jglobals' \in ScriptGlobals /\ jglobals'.document # <<"error">> /\ jglobals'.declared = jglobals.declared
      BY <1>3, <3>1, GiveSound
    <3>9. ValidInv'
      BY <1>1, <1>6, <3>1, <3>2, <3>4, <3>8, ValidStep
    <3>10. "run" \in CallSteps /\ (next.alone => c.alone) /\ next.evals # <<>>
      BY <3>2, <3>4 DEF CallSteps
    <3> QED BY <1>1, <1>4, <1>6, <1>7, <2>4, <2>6, <3>1, <3>4, <3>6, <3>7, <3>8, <3>9, <3>10, StepSound
  <2> QED BY <1>10, <2>5, <2>8, <2>9
<1> QED BY <1>2, <1>9, <1>10

-----------------------------------------------------------------------------
(* Scripts: what holds in every reachable state.                           *)

LEMMA ScriptStart == ScriptInit => ScriptInv
<1> SUFFICES ASSUME ScriptInit PROVE ScriptInv
  OBVIOUS
<1>1. /\ jglobals = NoGlobals /\ jfiles = <<>> /\ inside = [t \in JThreads |-> {}] /\ jmutex = {} /\ corrupt = {}
      /\ jpc = [t \in JThreads |-> "idle"] /\ jtask = [t \in JThreads |-> NoCall] /\ jcalls = 0 /\ janswer = NoCall
      /\ scriptDocs = <<>> /\ looked = <<>> /\ validated = 0 /\ plan \in Plans
  BY DEF ScriptInit
<1>2. EngineInv
  BY NoCallSound, <1>1 DEF TasksInv, CallSteps, MutexInv, EngineInv
<1>3. DataInv
  BY <1>1, ScriptBounds DEF NoGlobals, ScriptGlobals, DataInv
<1>4. CallsInv
  BY <1>1 DEF CallsInv
<1>5. AnswersInv
  BY <1>1 DEF NoCall, OwnResult, ErrorIsOwn, NothingTriggered, AnswersInv
<1>6. ValidInv
  BY <1>1 DEF ValidInv, Prepared
<1>7. StoredInv
  BY <1>1, ScriptBounds DEF DocumentsInv, LookedInv, NoCall, StoredInv
<1> QED BY <1>2, <1>3, <1>4, <1>5, <1>6, <1>7 DEF ScriptInv

LEMMA ScriptStep == ScriptInv /\ [ScriptNext]_scriptVars => ScriptInv'
<1> SUFFICES ASSUME ScriptInv, [ScriptNext]_scriptVars PROVE ScriptInv'
  OBVIOUS
<1>1. DOMAIN scriptDocs = 1 .. Len(scriptDocs)
  BY LenProperties DEF ScriptInv, StoredInv, DocumentsInv
<1>2. ASSUME NEW op, NEW r \in Asked(op)
      PROVE  r \in plan /\ r.code \in ScriptCodes /\ r.given \in Seq(Texts) /\ r.given # <<"error">>
  BY <1>2, AskedSound DEF Asked
<1>3. ASSUME NEW t \in JThreads,
             \/ \E r \in Asked("eval") : api_handle_js_eval(t, r.code)
             \/ \E r \in Asked("query") : api_handle_js_query(t)
             \/ \E r \in Asked("register") : api_handle_js_function_register(t, r.name, r.code)
             \/ \E r \in Asked("validator") : api_handle_js_validator_register(t, r.name, r.code)
             \/ \E r \in Asked("transformer") : api_handle_js_transformer_register(t, r.name, r.code)
      PROVE  ScriptInv'
  BY <1>2, EvalRequestSound, QueryRequestSound, RegisterSound, SaveForSound, <1>3 DEF
     api_handle_js_validator_register, api_handle_js_transformer_register
<1>4. ASSUME NEW t \in JThreads,
             \/ \E r \in Asked("call") : js_call_user_function(t, r.name, r.given)
             \/ \E r \in Asked("validate") : js_validate_document(t, r.name, r.given)
             \/ \E r \in Asked("transform") : js_transform_document(t, r.name, r.given)
             \/ \E r \in Asked("code") : js_engine_eval_code(t, r.code, r.given)
             \/ \E r \in Asked("check") : js_engine_validate_with_code(t, r.code, r.given)
             \/ \E r \in Asked("change") : js_engine_transform_with_code(t, r.code, r.given)
      PROVE  ScriptInv'
  BY <1>2, CallRequestSound, ValidateRequestSound, TransformRequestSound, CodeRequestSound, CheckRequestSound,
     ChangeRequestSound, <1>4
<1>5. ASSUME NEW t \in JThreads,
             \/ WriteFile(t) \/ js_engine_eval_file(t) \/ JS_Eval(t) \/ Ended(t) \/ FinishCall(t) \/ js_get_last_error(t)
             \/ js_native_execute_script(t) \/ js_native_record_execution_metrics(t)
      PROVE  ScriptInv'
  BY <1>5, WriteFileSound, EvalFileSound, EvalSoundStep, EndedSound, FinishSound, LastErrorSound, ExecutionSound, RecordSound
<1>6. ASSUME NEW t \in JThreads, NEW x \in ForeignDocs,
             \/ js_native_store_script(t, "function", x) \/ StoreForeign(t, x) \/ db_insert_document_with_js(t, x)
             \/ \E d \in DOMAIN scriptDocs : js_native_update_script(t, d, "validator", x)
      PROVE  ScriptInv'
  BY <1>1, <1>6, StoreSound, ForeignSound, InsertSound, ChangeSound
<1>7. ASSUME NEW t \in JThreads, NEW d \in DOMAIN scriptDocs,
             \/ db_update_document_with_js(t, d) \/ db_delete_document_with_js(t, d) \/ api_handle_js_native_get_script(t, d)
             \/ js_native_delete_script(t, d)
             \/ \E r \in Asked("execute") : api_handle_js_native_execute_script(t, d, r.given)
      PROVE  ScriptInv'
  BY <1>1, <1>2, ExecuteSound, <1>7, UpdateSound, RemoveSound, GetSound, DropSound
<1>8. ASSUME NEW t \in JThreads, js_native_list_scripts(t) \/ js_native_get_global_metrics(t) PROVE ScriptInv'
  BY <1>8, ListSound
<1>9. CASE Uncached
  BY <1>9, UncachedSound
<1>10. CASE UNCHANGED scriptVars
  <2>1. /\ UNCHANGED <<engineVars, jpc, jtask, plan, validated>> /\ jcalls' = jcalls /\ janswer' = janswer
        /\ scriptDocs' = scriptDocs /\ looked' = looked /\ corrupt' = corrupt
    BY <1>10 DEF scriptVars, nativeVars, engineVars
  <2>2. DocumentsInv' /\ LookedInv' /\ DocsGrow
    BY <2>1, LookedKept
  <2>3. LastAnswered'
    BY <2>1 DEF ScriptInv, AnswersInv, LastAnswered, OwnResult, ErrorIsOwn, NothingTriggered
  <2>4. AnsweredStored'
    BY <2>1 DEF ScriptInv, StoredInv, AnsweredStored
  <2>5. jcalls' \in {jcalls, jcalls + 1} /\ jcalls' <= MaxJsCalls
    BY <2>1, ScriptBounds DEF ScriptInv, DataInv
  <2> QED BY <2>1, <2>2, <2>3, <2>4, <2>5, NowSound
<1>11. CASE ScriptNext
  BY <1>3, <1>4, <1>5, <1>6, <1>7, <1>8, <1>9, <1>11 DEF ScriptNext
<1> QED BY <1>10, <1>11

\* The invariant says what the property says.
LEMMA ScriptInvSound == ScriptInv => ScriptsSound
<1> SUFFICES ASSUME ScriptInv PROVE ScriptsSound
  OBVIOUS
<1>1. ScriptTypeOK
  <2>1. jpc \in [JThreads -> CallSteps] /\ jmutex \subseteq JThreads /\ (\A t, u \in jmutex : t = u)
        /\ jcalls \in 0 .. MaxJsCalls /\ Len(scriptDocs) <= MaxScripts
    BY DEF ScriptInv, EngineInv, TasksInv, MutexInv, DataInv, StoredInv, DocumentsInv
  <2>2. Cardinality(jmutex) <= 1
    <3>1. CASE jmutex = {}
      BY <3>1, FS_EmptySet
    <3>2. CASE jmutex # {}
      <4>1. PICK t \in jmutex : jmutex = {t}
        BY <2>1, <3>2
      <4>2. Cardinality(jmutex) = 1
        BY <4>1, FS_Singleton
      <4> QED BY <4>2
    <3> QED BY <3>1, <3>2
  <2> QED BY <2>1, <2>2 DEF ScriptTypeOK, CallSteps
<1>2. OwnResult /\ ErrorIsOwn /\ NothingTriggered
  BY DEF ScriptInv, AnswersInv
<1>3. GuardedNeverMeet
  BY DEF ScriptInv, EngineInv, MutexInv, GuardedNeverMeet
<1>4. OneValidation
  BY DEF ScriptInv, ValidInv, OneValidation
<1>5. StoredNeverRuns
  BY SearchesPlaces, LenProperties DEF ToSet, ScriptCollections, Places, ScriptInv, StoredInv, LookedInv, FoundSound,
     DocumentsInv, StoredNeverRuns
<1> QED BY <1>1, <1>2, <1>3, <1>4, <1>5 DEF ScriptsSound

\* JavaScript (js_engine.c, js_native_storage.c, js_integration.c), for any threads, scripts,
\* requests and permissions: a call that nobody disturbed answers for itself, two evaluations
\* under the mutex never meet, an engine accepts one document in its life, and no script that
\* was stored as one ever runs.
THEOREM ScriptsAreSound == ScriptSpec => []ScriptsSound
<1>1. ScriptSpec => []ScriptInv
  BY ScriptStart, ScriptStep, PTL DEF ScriptSpec
<1> QED BY <1>1, ScriptInvSound, PTL
=============================================================================
