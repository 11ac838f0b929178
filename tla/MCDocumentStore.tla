--------------------------- MODULE MCDocumentStore ---------------------------
(* Instances of DocumentStore for TLC.                                       *)
EXTENDS DocumentStore, TLC

CONSTANTS c1, c2, d1, d2, k1, k2, t1, t2

\* All documents are of kind k1; queries also ask for k2.
OneKind == [id \in Ids |-> k1]

StartOne == <<d1>>

AllWrite == [c \in Clients |-> Ids]

WriteHandlers == Updates \cup Deletes \cup {"storage_insert_document", "storage_get_document"}

\* Every uuid has one client that writes it.
Partitioned == [ids |-> {d1, d2}, tags |-> {t1, t2}, writes |-> (c1 :> {d1}) @@ (c2 :> {d2}),
                handlers |-> WriteHandlers, allocFails |-> FALSE]

\* Every client writes and scans every document, and memory runs out.
Shared == [ids |-> {d1, d2}, tags |-> {t1}, writes |-> AllWrite,
           handlers |-> WriteHandlers \cup {"storage_query_documents"}, allocFails |-> TRUE]

\* Documents are inserted and read.
Appending == [ids |-> Ids, tags |-> {t1}, writes |-> AllWrite,
              handlers |-> {"storage_insert_document"} \cup Gets \cup Scans, allocFails |-> FALSE]

\* Two clients update one document.
Updating == [ids |-> {d1}, tags |-> {t1, t2}, writes |-> AllWrite,
             handlers |-> {"storage_update_document"}, allocFails |-> FALSE]

ThreeUses == {Partitioned, Shared, Appending}
OnlyUpdates == {Updating}

Symmetry == Permutations(Leaves)
=============================================================================
