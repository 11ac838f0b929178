--------------------------- MODULE QueryTracking ----------------------------
(***************************************************************************)
(* Query patterns and the indexes made from them: query_tracker.c,         *)
(* adaptive_indexer.c, index_cleanup.c and db_create_index of database.c.  *)
(*                                                                         *)
(* Each query counts for the fields it names.  A background thread, and    *)
(* whoever calls adaptive_indexer_force_check, collects the patterns that  *)
(* are asked often and are slow, keeps pointers to them past the tracker's *)
(* lock, and makes an index for each.  The cleanup walks the list of these *)
(* indexes and lets go of its lock around each removal.                    *)
(*                                                                         *)
(* All queries go to one collection, so a pattern is a field.  The index   *)
(* questions asked of the collection read past the end of a stub structure *)
(* and can be answered either way.                                         *)
(***************************************************************************)
EXTENDS Naturals, FiniteSets, Sequences, SequencesExt

CONSTANTS
    QFields,
    CountThreshold,     \* QUERY_TRACKER_INDEX_THRESHOLD_COUNT_DEFAULT
    SlowThreshold,      \* QUERY_TRACKER_INDEX_THRESHOLD_AVG_MS_DEFAULT
    ForgetBelow,        \* the count below which an old pattern is forgotten
    Durations,          \* durations of queries
    MaxTracked,         \* bound: queries tracked
    MaxSweeps           \* bound: sweeps for candidates

ASSUME TrackingAssumption ==
    /\ {CountThreshold, SlowThreshold, ForgetBelow, MaxTracked, MaxSweeps} \subseteq Nat
    /\ Durations \subseteq Nat /\ IsFiniteSet(QFields)
    /\ ForgetBelow <= CountThreshold

VARIABLES
    nodes,      \* every pattern allocated: [field, count, total, indexed, freed]
    table,      \* field -> its pattern in the hash table, 0 for none
    manyDocs,   \* the facade's collection, filled by an import, has enough documents
    lately,     \* last_check is less than 10 seconds ago
    sweep,      \* per sweeper: [pc, cands]
    infos,      \* g_adaptive_indexer->indexes, first to last
    info,       \* every entry allocated: [field, freed]
    removeAll,  \* the thresholds configured tell every index to go
    cleaner,    \* index_cleanup_check_all: [pc, at]
    trackerPhase,      \* "up", "stopping": db_shutdown holds g_db.lock and joins; "down"
    tracked, sweeps,    \* queries and sweeps so far
    created,    \* history: the fields indexed, in order
    twoSweeps, \* history: two sweeps ran at once
    dropped     \* history: a client removed an index while the cleaner walked

trackVars == <<nodes, table, manyDocs, lately, sweep, infos, info, removeAll, cleaner, trackerPhase,
               tracked, sweeps, created, twoSweeps, dropped>>

Sweepers == {"thread", "caller"}
AtRest == [pc |-> "idle", cands |-> <<>>]

TrackInit ==
    /\ nodes = <<>> /\ table = [f \in QFields |-> 0]
    /\ manyDocs = FALSE /\ lately = TRUE
    /\ sweep = [s \in Sweepers |-> AtRest]
    /\ infos = <<>> /\ info = <<>> /\ removeAll = FALSE /\ cleaner = [pc |-> "idle", at |-> 0]
    /\ trackerPhase = "up" /\ tracked = 0 /\ sweeps = 0
    /\ created = <<>> /\ twoSweeps = FALSE /\ dropped = FALSE

-----------------------------------------------------------------------------
(* The tracker.                                                            *)

\* The pattern of a field: that of the table, or one of the new ones.
find_or_create_pattern(f, new) ==
    IF table[f] # 0 THEN table[f] ELSE Len(nodes) + (CHOOSE i \in DOMAIN new : new[i] = f)

Counted(n, fs, ms) ==
    IF nodes[n].field \in fs /\ table[nodes[n].field] = n
    THEN [nodes[n] EXCEPT !.count = @ + 1, !.total = @ + ms] ELSE nodes[n]

\* All fields of the query are counted under one write lock.
query_tracker_end_timing(fs, ms) ==
    /\ trackerPhase = "up" /\ tracked < MaxTracked /\ tracked' = tracked + 1
    /\ LET new   == SetToSeq({f \in fs : table[f] = 0})
           First(f) == [field |-> f, count |-> 1, total |-> ms, indexed |-> FALSE, freed |-> FALSE]
       IN  /\ nodes' = [n \in 1 .. Len(nodes) + Len(new) |->
                            IF n <= Len(nodes) THEN Counted(n, fs, ms) ELSE First(new[n - Len(nodes)])]
           /\ table' = [f \in QFields |-> IF f \in fs THEN find_or_create_pattern(f, new) ELSE table[f]]
    /\ UNCHANGED <<manyDocs, lately, sweep, infos, info, removeAll, cleaner, trackerPhase, sweeps, created, twoSweeps, dropped>>

Forgettable(n) == nodes[n].count < ForgetBelow

\* Mutant: the bound itself is forgotten as well.
query_tracker_force_cleanup_most(old) ==
    LET gone == {n \in DOMAIN nodes : n \in old /\ nodes[n].count <= ForgetBelow} IN
    /\ trackerPhase = "up" /\ gone # {}
    /\ nodes' = [n \in DOMAIN nodes |-> [nodes[n] EXCEPT !.freed = @ \/ n \in gone]]
    /\ table' = [f \in QFields |-> IF table[f] \in gone THEN 0 ELSE table[f]]
    /\ UNCHANGED <<manyDocs, lately, sweep, infos, info, removeAll, cleaner, trackerPhase, tracked, sweeps, created, twoSweeps, dropped>>

\* Patterns not seen for a month and seldom asked are freed.
query_tracker_force_cleanup(old) ==
    LET gone == {n \in old : Forgettable(n)} IN
    /\ trackerPhase = "up" /\ gone # {}
    /\ nodes' = [n \in DOMAIN nodes |-> [nodes[n] EXCEPT !.freed = @ \/ n \in gone]]
    /\ table' = [f \in QFields |-> IF table[f] \in gone THEN 0 ELSE table[f]]
    /\ UNCHANGED <<manyDocs, lately, sweep, infos, info, removeAll, cleaner, trackerPhase, tracked, sweeps, created, twoSweeps, dropped>>

OftenAndSlow(n) == nodes[n].count >= CountThreshold /\ nodes[n].total >= SlowThreshold * nodes[n].count

query_tracker_get_index_candidates ==
    {n \in {table[f] : f \in QFields} \ {0} : ~ nodes[n].indexed /\ OftenAndSlow(n)}

-----------------------------------------------------------------------------
(* The indexer.                                                            *)

\* The import tool fills the collections of the facade.
ImportDocuments ==
    /\ ~ manyDocs /\ manyDocs' = TRUE
    /\ UNCHANGED <<nodes, table, lately, sweep, infos, info, removeAll, cleaner, trackerPhase, tracked, sweeps, created, twoSweeps, dropped>>

TimePasses ==
    /\ lately /\ lately' = FALSE
    /\ UNCHANGED <<nodes, table, manyDocs, sweep, infos, info, removeAll, cleaner, trackerPhase, tracked, sweeps, created, twoSweeps, dropped>>

\* The thread has slept for a minute; a caller comes when it likes.
process_index_candidates(s) ==
    /\ sweep[s].pc = "idle" /\ trackerPhase = "up" /\ sweeps < MaxSweeps
    /\ s = "thread" => ~ lately
    /\ query_tracker_get_index_candidates # {}
    /\ sweep' = [sweep EXCEPT ![s] = [pc |-> "consider", cands |-> SetToSeq(query_tracker_get_index_candidates)]]
    /\ sweeps' = sweeps + 1
    /\ twoSweeps' = (twoSweeps \/ \E o \in Sweepers : sweep[o].pc # "idle")
    /\ UNCHANGED <<nodes, table, manyDocs, lately, infos, info, removeAll, cleaner, trackerPhase, tracked, created, dropped>>

NextCandidate(s) == [pc |-> "consider", cands |-> Tail(sweep[s].cands)]

\* exists, full: what the stub collection tells of its indexes.
should_create_index(s, exists, full) ==
    OftenAndSlow(Head(sweep[s].cands)) /\ manyDocs /\ ~ exists /\ ~ full

Consider(s) ==
    /\ sweep[s].pc = "consider" /\ sweep[s].cands # <<>> /\ trackerPhase # "down"
    /\ \E exists, full \in BOOLEAN :
           sweep' = [sweep EXCEPT ![s] = IF should_create_index(s, exists, full) THEN [@ EXCEPT !.pc = "create"] ELSE NextCandidate(s)]
    /\ UNCHANGED <<nodes, table, manyDocs, lately, infos, info, removeAll, cleaner, trackerPhase, tracked, sweeps, created, twoSweeps, dropped>>

Field(s) == nodes[Head(sweep[s].cands)].field

\* It reads the lock that a shutdown holds for writing.
db_create_index(f) == trackerPhase = "up" /\ created' = Append(created, f)

\* The questions are asked again, and the index made.
create_adaptive_index(s) ==
    /\ sweep[s].pc = "create" /\ trackerPhase # "down"
    /\ \/ sweep' = [sweep EXCEPT ![s] = NextCandidate(s)] /\ UNCHANGED created
       \/ /\ ~ lately /\ db_create_index(Field(s))
          /\ sweep' = [sweep EXCEPT ![s].pc = "info"]
    /\ UNCHANGED <<nodes, table, manyDocs, lately, infos, info, removeAll, cleaner, trackerPhase, tracked, sweeps, twoSweeps, dropped>>

AddInfo(s) ==
    /\ sweep[s].pc = "info" /\ trackerPhase # "down"
    /\ info' = Append(info, [field |-> Field(s), freed |-> FALSE])
    /\ infos' = <<Len(info) + 1>> \o infos
    /\ sweep' = [sweep EXCEPT ![s].pc = "mark"]
    /\ UNCHANGED <<nodes, table, manyDocs, lately, removeAll, cleaner, trackerPhase, tracked, sweeps, created, twoSweeps, dropped>>

\* The pattern of the table, which need not be the one that was the candidate.
query_tracker_mark_indexed(s) ==
    /\ sweep[s].pc = "mark" /\ trackerPhase # "down"
    /\ nodes' = IF table[Field(s)] = 0 THEN nodes ELSE [nodes EXCEPT ![table[Field(s)]].indexed = TRUE]
    /\ sweep' = [sweep EXCEPT ![s] = NextCandidate(s)]
    /\ UNCHANGED <<table, manyDocs, lately, infos, info, removeAll, cleaner, trackerPhase, tracked, sweeps, created, twoSweeps, dropped>>

EndSweep(s) ==
    /\ sweep[s].pc = "consider" /\ sweep[s].cands = <<>> /\ trackerPhase # "down"
    /\ sweep' = [sweep EXCEPT ![s] = AtRest]
    /\ lately' = (lately \/ s = "thread")
    /\ UNCHANGED <<nodes, table, manyDocs, infos, info, removeAll, cleaner, trackerPhase, tracked, sweeps, created, twoSweeps, dropped>>

\* adaptive_indexer_stop, from db_shutdown.
adaptive_indexer_stop ==
    /\ trackerPhase = "up" /\ trackerPhase' = "stopping"
    /\ UNCHANGED <<nodes, table, manyDocs, lately, sweep, infos, info, removeAll, cleaner, tracked, sweeps, created, twoSweeps, dropped>>

\* Once the thread has ended the entries are freed, and then the patterns.
adaptive_indexer_cleanup ==
    /\ trackerPhase = "stopping" /\ sweep["thread"].pc = "idle" /\ trackerPhase' = "down"
    /\ info' = [i \in DOMAIN info |-> [info[i] EXCEPT !.freed = TRUE]] /\ infos' = <<>>
    /\ nodes' = [n \in DOMAIN nodes |-> [nodes[n] EXCEPT !.freed = TRUE]] /\ table' = [f \in QFields |-> 0]
    /\ UNCHANGED <<manyDocs, lately, sweep, removeAll, cleaner, tracked, sweeps, created, twoSweeps, dropped>>

-----------------------------------------------------------------------------
(* The cleanup.                                                            *)

\* The figures of an index are constants of the code, so the thresholds configured
\* decide for all of them; with the default ones nothing goes.
index_cleanup_configure(all) ==
    /\ removeAll # all /\ removeAll' = all
    /\ UNCHANGED <<nodes, table, manyDocs, lately, sweep, infos, info, cleaner, trackerPhase, tracked, sweeps, created, twoSweeps, dropped>>

index_cleanup_evaluate == removeAll

After(i) == LET k == CHOOSE j \in DOMAIN infos : infos[j] = i IN IF k = Len(infos) THEN 0 ELSE infos[k + 1]

index_cleanup_check_all ==
    /\ cleaner.pc = "idle" /\ trackerPhase # "down" /\ infos # <<>> /\ index_cleanup_evaluate
    /\ cleaner' = [pc |-> "remove", at |-> Head(infos), next |-> After(Head(infos))]
    /\ dropped' = FALSE
    /\ UNCHANGED <<nodes, table, manyDocs, lately, sweep, infos, info, removeAll, trackerPhase, tracked, sweeps, created, twoSweeps>>

FirstOf(f) == {k \in DOMAIN infos : info[infos[k]].field = f /\ \A j \in 1 .. k - 1 : info[infos[j]].field # f}

\* The first entry of the field is unlinked and freed; the index itself stays, and its
\* pattern stays marked.
index_cleanup_remove_index(f) ==
    \/ FirstOf(f) = {} /\ UNCHANGED <<infos, info>>
    \/ \E k \in FirstOf(f) : infos' = RemoveAt(infos, k) /\ info' = [info EXCEPT ![infos[k]].freed = TRUE]

RemoveChecked ==
    /\ cleaner.pc = "remove" /\ trackerPhase # "down"
    /\ index_cleanup_remove_index(info[cleaner.at].field)
    /\ cleaner' = [pc |-> "next", at |-> cleaner.next]
    /\ UNCHANGED <<nodes, table, manyDocs, lately, sweep, removeAll, trackerPhase, tracked, sweeps, created, twoSweeps, dropped>>

\* The lock is taken again and the pointer read before is followed.
CheckNext ==
    /\ cleaner.pc = "next" /\ trackerPhase # "down"
    /\ IF cleaner.at \in ToSet(infos) /\ index_cleanup_evaluate
       THEN cleaner' = [pc |-> "remove", at |-> cleaner.at, next |-> After(cleaner.at)]
       ELSE cleaner' = [pc |-> "idle", at |-> 0]
    /\ UNCHANGED <<nodes, table, manyDocs, lately, sweep, infos, info, removeAll, trackerPhase, tracked, sweeps, created, twoSweeps, dropped>>

\* A client removes an index by hand.
api_handle_index_cleanup_remove(f) ==
    /\ trackerPhase = "up" /\ FirstOf(f) # {} /\ index_cleanup_remove_index(f)
    /\ dropped' = (cleaner.pc # "idle")
    /\ UNCHANGED <<nodes, table, manyDocs, lately, sweep, removeAll, cleaner, trackerPhase, tracked, sweeps, created, twoSweeps>>

TrackNext ==
    \/ \E fs \in SUBSET QFields \ {{}}, ms \in Durations : query_tracker_end_timing(fs, ms)
    \/ \E old \in SUBSET {table[f] : f \in QFields} : query_tracker_force_cleanup(old \ {0})
    \/ ImportDocuments \/ TimePasses
    \/ \E s \in Sweepers :
           \/ process_index_candidates(s) \/ Consider(s) \/ create_adaptive_index(s)
           \/ AddInfo(s) \/ query_tracker_mark_indexed(s) \/ EndSweep(s)
    \/ adaptive_indexer_stop \/ adaptive_indexer_cleanup
    \/ \E all \in BOOLEAN : index_cleanup_configure(all)
    \/ index_cleanup_check_all \/ RemoveChecked \/ CheckNext
    \/ \E f \in QFields : api_handle_index_cleanup_remove(f)

TrackSpec == TrackInit /\ [][TrackNext]_trackVars

-----------------------------------------------------------------------------
(* Properties.                                                             *)

\* Every variable has its type; the table refers to live patterns of their field.
TrackTypeOK ==
    /\ \A f \in QFields : table[f] # 0 => nodes[table[f]].field = f /\ ~ nodes[table[f]].freed
    /\ \A n \in DOMAIN nodes : nodes[n].count > 0
    /\ IsInjective(infos) /\ \A k \in DOMAIN infos : ~ info[infos[k]].freed
    /\ ToSet(created) \subseteq QFields

\* The pointers a sweep keeps past the tracker's lock stay good while the database is
\* up: what is a candidate has been asked too often to be forgotten.
CandidatesStay ==
    trackerPhase # "down" =>
        \A s \in Sweepers : \A k \in DOMAIN sweep[s].cands : ~ nodes[sweep[s].cands[k]].freed

\* Unless two sweeps overlap no field is indexed twice, not even after its index was
\* removed.
IndexedOnce == ~ twoSweeps => IsInjective(created)

\* The list has an entry for every index made and not removed, and for no other.
ListTellsIndexes ==
    trackerPhase # "down" =>
        \A f \in QFields :
            Cardinality({i \in DOMAIN info : info[i].field = f}) + Cardinality({s \in Sweepers : sweep[s].pc = "info" /\ Field(s) = f})
                = Cardinality({k \in DOMAIN created : created[k] = f})
            /\ \A i \in DOMAIN info : info[i].freed \/ i \in ToSet(infos)

\* The cleaner goes on with an entry that is still allocated, unless a client removed one
\* during its walk or the indexer was freed under it.
CleanerSeesLiveEntry ==
    cleaner.at # 0 /\ trackerPhase # "down" /\ ~ dropped => ~ info[cleaner.at].freed

\* The background thread is not in a sweep when the patterns are freed.
FreedAfterThread == trackerPhase = "down" => sweep["thread"].pc = "idle"

\* Query tracking and adaptive indexes: candidates stay until they are indexed, once,
\* the list tells the indexes, and cleaner and thread see what is alive.
TrackingSound ==
    /\ TrackTypeOK /\ CandidatesStay /\ IndexedOnce /\ ListTellsIndexes /\ CleanerSeesLiveEntry
    /\ FreedAfterThread
=============================================================================
