------------------------------ MODULE HashIndex ------------------------------
(***************************************************************************)
(* The hash indexes of one collection: components/database/index.c.        *)
(*                                                                         *)
(* A collection has a list of indexes under its mutex and each index a     *)
(* read-write lock of its own.  Everything takes the mutex first and the   *)
(* index second, except a rebuild, which takes them the other way round,   *)
(* and the update of a document's entries, which takes the mutex twice.    *)
(* An action is what a thread does between two waits; reading an index     *)
(* changes nothing and is a step only when it has to wait.                 *)
(*                                                                         *)
(* The documents of the collection do not change here: nobody writes       *)
(* coll->documents.  db_drop_index, which a failed creation calls, is the  *)
(* one of database.c and does nothing.                                     *)
(***************************************************************************)
EXTENDS Naturals, FiniteSets, Sequences, SequencesExt

CONSTANTS
    HThreads,
    HNames, HFields,    \* names of indexes, field paths
    HDocs,              \* the documents: sequence of functions from fields to values
    HashOf,             \* hash_string: [values -> Nat]
    DefaultBuckets, MaxBuckets,   \* DEFAULT_INDEX_BUCKETS, MAX_INDEX_BUCKETS
    MaxCreated, MaxHashOps        \* bounds: indexes created, calls made

ASSUME HashAssumption ==
    /\ {DefaultBuckets, MaxBuckets, MaxCreated, MaxHashOps} \subseteq Nat
    /\ DefaultBuckets <= MaxBuckets
    /\ \A v \in DOMAIN HashOf : HashOf[v] \in Nat

VARIABLES
    hlist,      \* coll->indexes: the indexes in the order they were made
    hidx,       \* every index made: [name, field, type, buckets, entries]
    collOwner,  \* the thread that holds coll->lock, or "none"
    idxOwner,   \* per index, the thread that holds its lock for writing, or "none"
    hfreed,     \* indexes db_drop_index_old has freed
    hpc,        \* per thread: [pc, i: the index it works on, all: index rebuild_all is at, doc]
    hops,       \* calls made
    partial,    \* history: indexes whose population met a second value of a unique field
    gone        \* history: <<index, document>> taken out since the index was built

hashVars == <<hlist, hidx, collOwner, idxOwner, hfreed, hpc, hops, partial, gone>>

Resting == [pc |-> "idle", i |-> 0, all |-> 0, doc |-> 0]

HashInit ==
    /\ hlist = <<>> /\ hidx = <<>> /\ collOwner = "none" /\ idxOwner = <<>>
    /\ hfreed = {} /\ hpc = [t \in HThreads |-> Resting] /\ hops = 0
    /\ partial = {} /\ gone = {}

-----------------------------------------------------------------------------
(* Buckets.                                                                *)

is_prime(n) == n > 1 /\ \A d \in 2 .. n - 1 : n % d # 0

\* Even numbers are made odd, then every second number is tried.
next_prime(n) ==
    IF n <= 2 THEN 2
    ELSE CHOOSE p \in n .. 2 * n : is_prime(p) /\ \A q \in n .. p - 1 : ~ is_prime(q)

EmptyBuckets(size) == [b \in 1 .. size |-> <<>>]

BucketOf(v, size) == (HashOf[v] % size) + 1

\* An entry goes to the front of its bucket.
Link(buckets, e, size) == [buckets EXCEPT ![BucketOf(e.key, size)] = <<e>> \o @]

EntriesOf(buckets) == FoldLeft(LAMBDA all, b : all \o b, <<>>, buckets)

resize_index(ix, size) ==
    LET n == next_prime(size) IN
    [ix EXCEPT !.buckets = FoldLeft(LAMBDA bs, e : Link(bs, e, n), EmptyBuckets(n), EntriesOf(ix.buckets))]

\* Above three quarters the table doubles, below one quarter it is halved.
check_and_resize_index(ix) ==
    LET n == Len(ix.buckets)
        within(size) == IF size > MaxBuckets THEN MaxBuckets
                        ELSE IF size < DefaultBuckets THEN DefaultBuckets ELSE size
    IN  IF 4 * ix.entries > 3 * n /\ n < MaxBuckets THEN resize_index(ix, within(2 * n))
        ELSE IF 4 * ix.entries < n /\ n > DefaultBuckets THEN resize_index(ix, within(n \div 2))
        ELSE ix

InBucket(ix, v) == ix.buckets[BucketOf(v, Len(ix.buckets))]

\* Mutant: the test for a second value looks at the first entry of the chain only.
Conflict_head(ix, v) == ix.type = "unique" /\ InBucket(ix, v) # <<>> /\ Head(InBucket(ix, v)).key = v

\* A unique index has the value already.
Conflict(ix, v) == ix.type = "unique" /\ \E k \in DOMAIN InBucket(ix, v) : InBucket(ix, v)[k].key = v

AddEntry(ix, d, v) ==
    check_and_resize_index([ix EXCEPT !.buckets = Link(@, [doc |-> d, key |-> v], Len(@)), !.entries = @ + 1])

\* The documents go in one by one, up to the first conflict.
Populate(ix) ==
    LET add(acc, d) ==
            IF ~ acc.ok \/ ix.field \notin DOMAIN HDocs[d] THEN acc
            ELSE LET v == HDocs[d][ix.field] IN
                 IF Conflict(acc.ix, v) THEN [acc EXCEPT !.ok = FALSE]
                 ELSE [acc EXCEPT !.ix = AddEntry(acc.ix, d, v)]
    IN  FoldLeft(add, [ix |-> ix, ok |-> TRUE], [d \in 1 .. Len(HDocs) |-> d])

\* free_index_entry for every entry; the buckets stay.
Cleared(ix) == [ix EXCEPT !.buckets = EmptyBuckets(Len(@)), !.entries = 0]

-----------------------------------------------------------------------------
(* The operations.                                                         *)

Call(t) == hpc[t].pc = "idle" /\ hops < MaxHashOps /\ hops' = hops + 1

Go2(t, pc, i) == hpc' = [hpc EXCEPT ![t].pc = pc, ![t].i = i]

\* A rebuild that rebuild_all asked for returns to it.
Back(t) == hpc' = [hpc EXCEPT ![t] = IF @.all = 0 THEN Resting ELSE [@ EXCEPT !.pc = "next", !.i = 0]]

Named(n)  == {i \in ToSet(hlist) : hidx[i].name = n}
ByName(n) == hlist[CHOOSE k \in DOMAIN hlist : hidx[hlist[k]].name = n
                        /\ \A j \in 1 .. k - 1 : hidx[hlist[j]].name # n]

\* An index of that name is returned as it is.  A conflict ends the population; the
\* index, already in the list, is to be dropped and is not.
db_create_index_old(t, n, f, type) ==
    /\ Call(t) /\ collOwner = "none" /\ Named(n) = {} /\ Len(hidx) < MaxCreated
    /\ LET i == Len(hidx) + 1
           built == Populate([name |-> n, field |-> f, type |-> type, entries |-> 0,
                              buckets |-> EmptyBuckets(next_prime(DefaultBuckets))])
       IN  /\ hidx' = Append(hidx, built.ix) /\ idxOwner' = Append(idxOwner, "none")
           /\ hlist' = Append(hlist, i)
           /\ partial' = IF built.ok THEN partial ELSE partial \cup {i}
    /\ UNCHANGED <<collOwner, hfreed, hpc, gone>>

\* Unlinked first, then locked, which waits for a rebuild; then freed.
db_drop_index_old(t, n) ==
    /\ Call(t) /\ collOwner = "none" /\ Named(n) # {}
    /\ collOwner' = t /\ Go2(t, "drop", ByName(n))
    /\ hlist' = SelectSeq(hlist, LAMBDA i : i # ByName(n))
    /\ UNCHANGED <<hidx, idxOwner, hfreed, partial, gone>>

FreeIndex(t) ==
    /\ hpc[t].pc = "drop" /\ idxOwner[hpc[t].i] = "none"
    /\ hfreed' = hfreed \cup {hpc[t].i}
    /\ collOwner' = "none" /\ hpc' = [hpc EXCEPT ![t] = Resting]
    /\ UNCHANGED <<hlist, hidx, idxOwner, hops, partial, gone>>

\* The pointer outlives the mutex.  used: what the caller does with it, a rebuild or
\* db_index_to_json.
db_get_index(t, n, used) ==
    /\ Call(t) /\ collOwner = "none" /\ Named(n) # {}
    /\ Go2(t, used, ByName(n))
    /\ UNCHANGED <<hlist, hidx, collOwner, idxOwner, hfreed, partial, gone>>

\* The handler answers with what the pointer refers to.
db_index_to_json(t) ==
    /\ hpc[t].pc = "print" /\ idxOwner[hpc[t].i] = "none"
    /\ hpc' = [hpc EXCEPT ![t] = Resting]
    /\ UNCHANGED <<hlist, hidx, collOwner, idxOwner, hfreed, hops, partial, gone>>

\* The index is locked and emptied, and then the mutex is waited for.
db_rebuild_index(t) ==
    LET i == hpc[t].i IN
    /\ hpc[t].pc = "rebuild" /\ idxOwner[i] = "none"
    /\ idxOwner' = [idxOwner EXCEPT ![i] = t]
    /\ hidx' = [hidx EXCEPT ![i] = Cleared(@)]
    /\ gone' = {g \in gone : g[1] # i}
    /\ Go2(t, "refill", i)
    /\ UNCHANGED <<hlist, collOwner, hfreed, hops, partial>>

Refill(t) ==
    LET i == hpc[t].i
        built == Populate(hidx[i])
    IN  /\ hpc[t].pc = "refill" /\ collOwner = "none"
        /\ hidx' = [hidx EXCEPT ![i] = built.ix]
        /\ partial' = IF built.ok THEN partial \ {i} ELSE partial \cup {i}
        /\ idxOwner' = [idxOwner EXCEPT ![i] = "none"]
        /\ Back(t)
        /\ UNCHANGED <<hlist, collOwner, hfreed, hops, gone>>

\* The mutex is given back for each rebuild, which looks its index up by name, and
\* taken again to read the next pointer of the index it was at.
db_rebuild_all_indexes(t) ==
    /\ Call(t) /\ collOwner = "none" /\ hlist # <<>>
    /\ hpc' = [hpc EXCEPT ![t].pc = "each", ![t].all = Head(hlist)]
    /\ UNCHANGED <<hlist, hidx, collOwner, idxOwner, hfreed, partial, gone>>

RebuildEach(t) ==
    /\ hpc[t].pc = "each" /\ collOwner = "none"
    /\ LET n == hidx[hpc[t].all].name IN
       IF Named(n) = {} THEN Back(t) ELSE Go2(t, "rebuild", ByName(n))
    /\ UNCHANGED <<hlist, hidx, collOwner, idxOwner, hfreed, hops, partial, gone>>

\* The next pointer of a freed index still holds, or something else.
NextOf(i) ==
    IF i \in hfreed THEN {0} \cup (1 .. Len(hidx))
    ELSE LET k == CHOOSE j \in DOMAIN hlist : hlist[j] = i IN
         {IF k = Len(hlist) THEN 0 ELSE hlist[k + 1]}

RebuildNext(t) ==
    /\ hpc[t].pc = "next" /\ collOwner = "none"
    /\ \E i \in NextOf(hpc[t].all) :
           hpc' = [hpc EXCEPT ![t] = IF i = 0 THEN Resting ELSE [@ EXCEPT !.pc = "each", !.all = i]]
    /\ UNCHANGED <<hlist, hidx, collOwner, idxOwner, hfreed, hops, partial, gone>>

\* db_query_by_index, db_list_indexes_old and db_index_stats keep the mutex while they
\* wait for an index that is rebuilt.
ReadWaits(t, i) ==
    /\ Call(t) /\ collOwner = "none" /\ i \in ToSet(hlist) /\ idxOwner[i] # "none"
    /\ collOwner' = t /\ Go2(t, "read", i)
    /\ UNCHANGED <<hlist, hidx, idxOwner, hfreed, partial, gone>>

ReadGoesOn(t) ==
    /\ hpc[t].pc = "read" /\ idxOwner[hpc[t].i] = "none"
    /\ collOwner' = "none" /\ hpc' = [hpc EXCEPT ![t] = Resting]
    /\ UNCHANGED <<hlist, hidx, idxOwner, hfreed, hops, partial, gone>>

\* The first entry of the document in every bucket goes.
DropEntry(ix, d) ==
    LET in == {b \in DOMAIN ix.buckets : \E k \in DOMAIN ix.buckets[b] : ix.buckets[b][k].doc = d}
        less(s) == RemoveAt(s, CHOOSE k \in DOMAIN s : s[k].doc = d /\ \A j \in 1 .. k - 1 : s[j].doc # d)
    IN  IF in = {} THEN ix
        ELSE check_and_resize_index([ix EXCEPT !.buckets = [b \in DOMAIN @ |-> IF b \in in THEN less(@[b]) ELSE @[b]],
                                               !.entries = @ - Cardinality(in)])

db_remove_document_from_indexes(t, d) ==
    /\ Call(t) /\ collOwner = "none" /\ hlist # <<>>
    /\ collOwner' = t
    /\ hpc' = [hpc EXCEPT ![t] = [@ EXCEPT !.pc = "remove", !.i = Head(hlist), !.doc = d]]
    /\ UNCHANGED <<hlist, hidx, idxOwner, hfreed, partial, gone>>

RemoveFromOne(t) ==
    LET i == hpc[t].i
        next == CHOOSE n \in NextOf(i) : TRUE
    IN  /\ hpc[t].pc = "remove" /\ idxOwner[i] = "none"
        /\ hidx' = [hidx EXCEPT ![i] = DropEntry(@, hpc[t].doc)]
        /\ gone' = gone \cup {<<i, hpc[t].doc>>}
        /\ IF next = 0 THEN collOwner' = "none" /\ hpc' = [hpc EXCEPT ![t] = Resting]
           ELSE UNCHANGED collOwner /\ Go2(t, "remove", next)
        /\ UNCHANGED <<hlist, idxOwner, hfreed, hops, partial>>

\* With the mutex held it calls db_remove_document_from_indexes, which takes it again.
db_update_indexes_for_document(t) ==
    /\ Call(t) /\ collOwner = "none"
    /\ collOwner' = t /\ Go2(t, "again", 0)
    /\ UNCHANGED <<hlist, hidx, idxOwner, hfreed, partial, gone>>

HashNext ==
    \E t \in HThreads :
        \/ \E n \in HNames, f \in HFields, type \in {"unique", "non_unique"} : db_create_index_old(t, n, f, type)
        \/ \E n \in HNames : db_drop_index_old(t, n)
        \/ \E n \in HNames, used \in {"rebuild", "print"} : db_get_index(t, n, used)
        \/ \E i \in ToSet(hlist) : ReadWaits(t, i)
        \/ \E d \in DOMAIN HDocs : db_remove_document_from_indexes(t, d)
        \/ FreeIndex(t) \/ db_index_to_json(t)
        \/ db_rebuild_index(t) \/ Refill(t)
        \/ db_rebuild_all_indexes(t) \/ RebuildEach(t) \/ RebuildNext(t)
        \/ ReadGoesOn(t) \/ RemoveFromOne(t)
        \/ db_update_indexes_for_document(t)

HashSpec == HashInit /\ [][HashNext]_hashVars

-----------------------------------------------------------------------------
(* Queries.                                                                *)

HasValue(d, f, v) == f \in DOMAIN HDocs[d] /\ HDocs[d][f] = v

\* db_query_by_index without an index for the field: a scan of the documents.
ScanResult(f, v) == {d \in DOMAIN HDocs : HasValue(d, f, v)}

IndexFor(f) == {i \in ToSet(hlist) : hidx[i].field = f}

\* With one: the entries of the value's chain, each looked up in the documents.
db_query_by_index(i, v) ==
    {InBucket(hidx[i], v)[k].doc : k \in {x \in DOMAIN InBucket(hidx[i], v) : InBucket(hidx[i], v)[x].key = v}}

\* What the statistics count.
db_index_stats(i) ==
    LET bs == hidx[i].buckets IN
    [entries |-> hidx[i].entries, buckets |-> Len(bs),
     empty |-> Cardinality({b \in DOMAIN bs : bs[b] = <<>>}),
     chains |-> Cardinality({b \in DOMAIN bs : bs[b] # <<>>}),
     total |-> Len(EntriesOf(bs))]

-----------------------------------------------------------------------------
(* Properties.                                                             *)

\* Every variable has its type; the owners of locks are running.
HashTypeOK ==
    /\ ToSet(hlist) \subseteq DOMAIN hidx \ hfreed /\ IsInjective(hlist)
    /\ collOwner # "none" => hpc[collOwner].pc \in {"drop", "read", "remove", "again"}
    /\ \A i \in DOMAIN idxOwner : idxOwner[i] # "none" => hpc[idxOwner[i]].pc = "refill"

\* Whatever was inserted, removed and resized, each entry is in the bucket its value
\* hashes to, where the next lookup searches it, and the counter is their number.
EntriesWhereSought ==
    \A i \in DOMAIN hidx :
        LET bs    == hidx[i].buckets
            stats == db_index_stats(i)
        IN  /\ \A b \in DOMAIN bs : \A k \in DOMAIN bs[b] : BucketOf(bs[b][k].key, Len(bs)) = b
            /\ stats.entries = stats.total /\ stats.empty + stats.chains = stats.buckets
            /\ is_prime(Len(bs))

\* No two entries of a unique index have one value.
UniqueHasNoTwins ==
    \A i \in DOMAIN hidx :
        hidx[i].type = "unique" =>
            LET es == EntriesOf(hidx[i].buckets) IN
            \A j, k \in DOMAIN es : j # k => es[j].key # es[k].key

\* An index of the list that nobody rebuilds and whose population was not cut short
\* answers like a scan, but for the documents taken out of it.
IndexAnswersLikeScan ==
    \A i \in ToSet(hlist) \ partial :
        idxOwner[i] = "none" =>
            \A v \in DOMAIN HashOf :
                db_query_by_index(i, v) = {d \in ScanResult(hidx[i].field, v) : <<i, d>> \notin gone}

\* A thread that holds the mutex works on an index that is still there.
HolderSeesLiveIndex ==
    \A t \in HThreads : hpc[t].pc \in {"read", "remove", "drop"} => hpc[t].i \notin hfreed

\* Hash indexes: entries where they are looked for, no twins in a unique one, the
\* answers of a scan, and nobody left with an index that was freed.
HashIndexSound ==
    /\ HashTypeOK /\ EntriesWhereSought /\ UniqueHasNoTwins /\ IndexAnswersLikeScan
    /\ HolderSeesLiveIndex
=============================================================================
