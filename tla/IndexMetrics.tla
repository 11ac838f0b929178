---------------------------- MODULE IndexMetrics ----------------------------
(***************************************************************************)
(* What is measured about indexes: components/database/index_metrics.c,    *)
(* and the hooks and counters of index_maintenance.c.                      *)
(*                                                                         *)
(* The entries lie in an array under a mutex.  Adding one can move the     *)
(* array, removing one shifts those behind it, and index_metrics_find      *)
(* gives away a pointer into it.  Sizes are unsigned: the total takes the  *)
(* difference of two of them.  index_maintenance knows no index of a       *)
(* collection, so an operation on a document runs the hooks and counts.    *)
(***************************************************************************)
EXTENDS Integers, FiniteSets, Sequences, SequencesExt

CONSTANTS
    MFields,            \* pairs of collection and field that can have an index
    MThreads,
    FirstCapacity,      \* metrics_capacity at the start
    SizeModulus,        \* 2^width of a size
    Sizes,              \* sizes an index can be reported to have
    Hooks, MaxHooks,    \* hooks, MAX_HOOKS_PER_OPERATION
    MaxTracks, MaxReports   \* bounds: entries made, reports and operations

ASSUME MetricsAssumption ==
    /\ {FirstCapacity, SizeModulus, MaxHooks, MaxTracks, MaxReports} \subseteq Nat \ {0}
    /\ Sizes \subseteq 0 .. SizeModulus - 1

VARIABLES
    metrics,        \* metrics_array: sequence of [field, lookups, hits, misses, size, ops, errors]
    mcapacity, array,   \* metrics_capacity; which allocation metrics_array is
    totalTracked, totalStorage, totalQueries,   \* the collector's totals
    entryOf,           \* per thread: what index_metrics_find returned, [array, at, field] or NoEntry
    tracks, reports,
    stopped,        \* history: entries that index_metrics_stop_tracking removed
    lostSize,       \* history: sizes of removed entries
    shifted,        \* history: threads under whose pointer an entry was removed
    hooks,          \* g_hooks: per kind of operation MaxHooks slots, NoHook when not active
    hookOwner,      \* the thread that holds g_hooks_lock, or "none"
    running,        \* per thread: [kind, slot] of the hook that runs, slot 0 for none
    stats,          \* [insert, update, delete: operations processed, good, bad]
    handled         \* operations handled

metricVars == <<metrics, mcapacity, array, totalTracked, totalStorage, totalQueries, entryOf, tracks, reports,
                stopped, lostSize, shifted>>
hookVars == <<hooks, hookOwner, running, stats, handled>>

NoEntry == [array |-> 0, at |-> 0, field |-> "none"]
NoHook == "none"
Kinds == {"insert", "update", "delete"}
NotRunning == [kind |-> "insert", slot |-> 0]

MetricsInit ==
    /\ metrics = <<>> /\ mcapacity = FirstCapacity /\ array = 1
    /\ totalTracked = 0 /\ totalStorage = 0 /\ totalQueries = 0
    /\ entryOf = [t \in MThreads |-> NoEntry] /\ tracks = 0 /\ reports = 0
    /\ stopped = 0 /\ lostSize = 0 /\ shifted = {}

HooksInit ==
    /\ hooks = [k \in Kinds |-> [i \in 1 .. MaxHooks |-> NoHook]] /\ hookOwner = "none"
    /\ running = [t \in MThreads |-> NotRunning]
    /\ stats = [insert |-> 0, update |-> 0, delete |-> 0, good |-> 0, bad |-> 0] /\ handled = 0

-----------------------------------------------------------------------------
(* The entries.                                                            *)

HasMetrics(f) == \E i \in DOMAIN metrics : metrics[i].field = f
At(f) == CHOOSE i \in DOMAIN metrics : metrics[i].field = f

init_metrics_entry(f) ==
    [field |-> f, lookups |-> 0, hits |-> 0, misses |-> 0, size |-> 0, ops |-> 0, errors |-> 0]

\* A full array is reallocated.
index_metrics_start_tracking(f) ==
    /\ ~ HasMetrics(f) /\ tracks < MaxTracks
    /\ tracks' = tracks + 1
    /\ metrics' = Append(metrics, init_metrics_entry(f))
    /\ totalTracked' = totalTracked + 1
    /\ IF Len(metrics) >= mcapacity THEN mcapacity' = 2 * mcapacity /\ array' = array + 1
       ELSE UNCHANGED <<mcapacity, array>>
    /\ UNCHANGED <<totalStorage, totalQueries, entryOf, reports, stopped, lostSize, shifted>>

MayReport == reports < MaxReports /\ reports' = reports + 1

index_metrics_record_query(f, found) ==
    /\ HasMetrics(f) /\ MayReport
    /\ metrics' = [metrics EXCEPT ![At(f)] = [@ EXCEPT !.lookups = @ + 1, !.hits = @ + (IF found THEN 1 ELSE 0),
                                                       !.misses = @ + (IF found THEN 0 ELSE 1)]]
    /\ totalQueries' = totalQueries + 1
    /\ UNCHANGED <<mcapacity, array, totalTracked, totalStorage, entryOf, tracks, stopped, lostSize, shifted>>

\* insert, update and delete have a counter each; ops is their sum.
index_metrics_record_maintenance(f, success) ==
    /\ HasMetrics(f) /\ MayReport
    /\ metrics' = [metrics EXCEPT ![At(f)] = [@ EXCEPT !.ops = @ + 1, !.errors = @ + (IF success THEN 0 ELSE 1)]]
    /\ UNCHANGED <<mcapacity, array, totalTracked, totalStorage, totalQueries, entryOf, tracks, stopped, lostSize, shifted>>

\* The difference of two unsigned sizes is added to a number that is not.
index_metrics_update_storage(f, size) ==
    /\ HasMetrics(f) /\ MayReport
    /\ metrics' = [metrics EXCEPT ![At(f)].size = size]
    /\ totalStorage' = totalStorage + ((size - metrics[At(f)].size) % SizeModulus)
    /\ UNCHANGED <<mcapacity, array, totalTracked, totalQueries, entryOf, tracks, stopped, lostSize, shifted>>

\* The counters start again; the size and the totals stay.
index_metrics_reset(f) ==
    /\ HasMetrics(f) /\ MayReport
    /\ metrics' = [metrics EXCEPT ![At(f)] = [init_metrics_entry(f) EXCEPT !.size = metrics[At(f)].size]]
    /\ UNCHANGED <<mcapacity, array, totalTracked, totalStorage, totalQueries, entryOf, tracks, stopped, lostSize, shifted>>

\* The entries behind it move down by one.
TakeOut(f) ==
    /\ HasMetrics(f)
    /\ metrics' = RemoveAt(metrics, At(f))
    /\ lostSize' = lostSize + metrics[At(f)].size
    /\ shifted' = shifted \cup {t \in MThreads : entryOf[t].array = array /\ entryOf[t].at >= At(f)}
    /\ UNCHANGED <<mcapacity, array, totalStorage, totalQueries, entryOf, tracks, reports>>

\* The total is not told.
index_metrics_stop_tracking(f) ==
    TakeOut(f) /\ stopped' = stopped + 1 /\ UNCHANGED totalTracked

index_metrics_remove(f) ==
    TakeOut(f) /\ totalTracked' = totalTracked - 1 /\ UNCHANGED stopped

\* The address of the entry is used without the mutex.
index_metrics_find(t, f) ==
    /\ HasMetrics(f) /\ entryOf[t] = NoEntry
    /\ entryOf' = [entryOf EXCEPT ![t] = [array |-> array, at |-> At(f), field |-> f]]
    /\ UNCHANGED <<metrics, mcapacity, array, totalTracked, totalStorage, totalQueries, tracks, reports, stopped, lostSize, shifted>>

ForgetEntry(t) ==
    /\ entryOf[t] # NoEntry
    /\ entryOf' = [entryOf EXCEPT ![t] = NoEntry] /\ shifted' = shifted \ {t}
    /\ UNCHANGED <<metrics, mcapacity, array, totalTracked, totalStorage, totalQueries, tracks, reports, stopped, lostSize>>

-----------------------------------------------------------------------------
(* Hooks.                                                                  *)

Slots(k, h) == {i \in 1 .. MaxHooks : hooks[k][i] = h}
FirstSlot(S) == CHOOSE i \in S : \A j \in S : i <= j

\* Mutant: registering does not wait for the calls of hooks.
index_maintenance_register_hook_bare(k, h) ==
    /\ Slots(k, NoHook) # {}
    /\ hooks' = [hooks EXCEPT ![k][FirstSlot(Slots(k, NoHook))] = h]
    /\ UNCHANGED <<hookOwner, running, stats, handled>>

index_maintenance_register_hook(k, h) ==
    /\ hookOwner = "none" /\ Slots(k, NoHook) # {}
    /\ hooks' = [hooks EXCEPT ![k][FirstSlot(Slots(k, NoHook))] = h]
    /\ UNCHANGED <<hookOwner, running, stats, handled>>

index_maintenance_unregister_hook(k, h) ==
    /\ hookOwner = "none" /\ Slots(k, h) # {}
    /\ hooks' = [hooks EXCEPT ![k][FirstSlot(Slots(k, h))] = NoHook]
    /\ UNCHANGED <<hookOwner, running, stats, handled>>

index_maintenance_cleanup ==
    /\ hookOwner = "none"
    /\ hooks' = [k \in Kinds |-> [i \in 1 .. MaxHooks |-> NoHook]]
    /\ UNCHANGED <<hookOwner, running, stats, handled>>

update_stats(k, good) ==
    stats' = [stats EXCEPT ![k] = @ + 1, !.good = @ + (IF good THEN 1 ELSE 0), !.bad = @ + (IF good THEN 0 ELSE 1)]

Active(k) == 1 .. MaxHooks \ Slots(k, NoHook)

\* No index is known for a collection, so what remains of an operation is to call the
\* hooks of its kind, in the order of their slots and with their lock held.
Handle(t, k) ==
    /\ running[t].slot = 0 /\ hookOwner = "none" /\ handled < MaxReports /\ handled' = handled + 1
    /\ IF Active(k) = {} THEN update_stats(k, TRUE) /\ UNCHANGED <<hookOwner, running>>
       ELSE /\ hookOwner' = t /\ UNCHANGED stats
            /\ running' = [running EXCEPT ![t] = [kind |-> k, slot |-> FirstSlot(Active(k))]]
    /\ UNCHANGED hooks

\* A document without an identifier is refused and not counted.
index_maintenance_handle_insert(t) == Handle(t, "insert")
index_maintenance_handle_update(t) == Handle(t, "update")
index_maintenance_handle_delete(t) == Handle(t, "delete")

Later(t) == {i \in Active(running[t].kind) : i > running[t].slot}

\* A hook returns: the next one is called, or, after one that failed, none.
call_hooks(t, good) ==
    /\ running[t].slot # 0
    /\ IF good /\ Later(t) # {}
       THEN running' = [running EXCEPT ![t].slot = FirstSlot(Later(t))] /\ UNCHANGED <<hookOwner, stats>>
       ELSE /\ hookOwner' = "none" /\ running' = [running EXCEPT ![t] = NotRunning]
            /\ update_stats(running[t].kind, good)
    /\ UNCHANGED <<hooks, handled>>

MetricsNext ==
    \/ \E f \in MFields :
           \/ index_metrics_start_tracking(f)
           \/ \E found \in BOOLEAN : index_metrics_record_query(f, found)
           \/ \E success \in BOOLEAN : index_metrics_record_maintenance(f, success)
           \/ \E size \in Sizes : index_metrics_update_storage(f, size)
           \/ index_metrics_reset(f) \/ index_metrics_stop_tracking(f) \/ index_metrics_remove(f)
           \/ \E t \in MThreads : index_metrics_find(t, f)
    \/ \E t \in MThreads : ForgetEntry(t)

MetricsSpec == MetricsInit /\ [][MetricsNext]_metricVars

HooksNext ==
    \/ \E k \in Kinds, h \in Hooks : index_maintenance_register_hook(k, h) \/ index_maintenance_unregister_hook(k, h)
    \/ index_maintenance_cleanup
    \/ \E t \in MThreads :
           \/ index_maintenance_handle_insert(t) \/ index_maintenance_handle_update(t) \/ index_maintenance_handle_delete(t)
           \/ \E good \in BOOLEAN : call_hooks(t, good)

HooksSpec == HooksInit /\ [][HooksNext]_hookVars

-----------------------------------------------------------------------------
(* What is reported.                                                       *)

SumSize(s) == FoldLeft(LAMBDA n, e : n + e.size, 0, s)
SumLookups(s) == FoldLeft(LAMBDA n, e : n + e.lookups, 0, s)

\* index_metrics_get_all_json: the global figures beside those of the entries.
index_metrics_get_all_json ==
    [indexes |-> metrics, total_indexes |-> totalTracked, total_storage |-> totalStorage, total_queries |-> totalQueries]

\* The hit rate of an entry, in percent; without lookups it is 0.
hit_rate(e) == IF e.lookups = 0 THEN 0 ELSE (100 * e.hits) \div e.lookups

Recency(days) == CASE days = 0 -> 20 [] days \in 1 .. 6 -> 15 [] days \in 7 .. 29 -> 10
                   [] days \in 30 .. 89 -> 5 [] OTHER -> 0

\* Nobody records the time of a query without the index, so there is no speedup, no time
\* saved and no return: of four parts two remain, and three of the weights.
index_metrics_calculate_effectiveness(e, days) == ((hit_rate(e) \div 5 + Recency(days)) * 100) \div 60

\* Time spent on maintenance and none saved is a return of minus one hundred percent.
roi_percentage(e) == IF e.ops > 0 THEN 0 - 100 ELSE 0

index_metrics_get_removal_candidates(days, threshold, least) ==
    {i \in DOMAIN metrics :
        \/ days > threshold \/ index_metrics_calculate_effectiveness(metrics[i], days) < least
        \/ roi_percentage(metrics[i]) < 0 - 50
        \/ hit_rate(metrics[i]) < 10 /\ metrics[i].lookups > 100}

index_metrics_effectiveness_report(days) ==
    LET score(i) == index_metrics_calculate_effectiveness(metrics[i], days) IN
    [high     |-> Cardinality({i \in DOMAIN metrics : score(i) >= 70}),
     moderate |-> Cardinality({i \in DOMAIN metrics : score(i) \in 40 .. 69}),
     low      |-> Cardinality({i \in DOMAIN metrics : score(i) < 40})]

-----------------------------------------------------------------------------
(* Properties.                                                             *)

\* Every variable has its type; the array is never fuller than its capacity.
MetricsTypeOK ==
    /\ Len(metrics) <= mcapacity
    /\ \A i, j \in DOMAIN metrics : metrics[i].field = metrics[j].field => i = j
    /\ \A t \in MThreads : entryOf[t].array <= array

\* The hooks are locked while one of them runs.
HooksTypeOK ==
    /\ \A t \in MThreads : running[t].slot # 0 <=> hookOwner = t

\* The counters of an entry agree with each other, and their sum with the total, which
\* also remembers what was reset or removed.
CountersAgree ==
    LET r == index_metrics_get_all_json IN
    /\ \A i \in DOMAIN metrics : r.indexes[i].hits + r.indexes[i].misses = r.indexes[i].lookups
                                   /\ hit_rate(r.indexes[i]) \in 0 .. 100
    /\ SumLookups(metrics) <= r.total_queries

\* The number of indexes reported is too high by those that stopped being tracked.
TotalCountsStopped == index_metrics_get_all_json.total_indexes = Len(metrics) + stopped

\* Modulo the width of a size the storage reported is that of the entries, with those
\* that were removed: an index that shrinks makes it a number far too large, never less.
StorageModuloWidth ==
    LET all == SumSize(metrics) + lostSize IN
    index_metrics_get_all_json.total_storage >= all /\ (totalStorage - all) % SizeModulus = 0

\* A pointer still shows the entry it was asked for, unless an entry was removed before
\* it or the array was moved.
PointerShowsItsField ==
    \A t \in MThreads :
        entryOf[t] # NoEntry /\ t \notin shifted /\ entryOf[t].array = array =>
            entryOf[t].at <= Len(metrics) /\ metrics[entryOf[t].at].field = entryOf[t].field

\* While a hook runs nobody changes the hooks, so the ones behind it are called.
HooksStayWhileRun == [][hooks' # hooks => hookOwner = "none"]_hookVars

\* What was processed went well or went wrong.
ProcessedAddsUp == stats.insert + stats.update + stats.delete = stats.good + stats.bad

\* No index is ever reported as highly effective, whatever its queries find, and one that
\* has been maintained is always recommended for removal.
NoneHighlyEffective ==
    \A days \in {0, 1, 7, 30, 90} :
        LET report == index_metrics_effectiveness_report(days) IN
        /\ report.high = 0 /\ report.moderate + report.low = Len(metrics)
        /\ \A i \in DOMAIN metrics : metrics[i].ops > 0 => i \in index_metrics_get_removal_candidates(days, 30, 20)

\* Index metrics and maintenance hooks: counters agree, totals count what was
\* stopped, a pointer shows its field, what was processed adds up and hooks stay while
\* one runs.
IndexMetricsSound ==
    /\ [](/\ MetricsTypeOK
          /\ HooksTypeOK
          /\ CountersAgree
          /\ TotalCountsStopped
          /\ StorageModuloWidth
          /\ PointerShowsItsField
          /\ ProcessedAddsUp
          /\ NoneHighlyEffective)
    /\ HooksStayWhileRun
=============================================================================
