------------------------------- MODULE Metrics -------------------------------
(***************************************************************************)
(* The server's metrics: the registry of counters, one gauge and one timer *)
(* (utils/metrics.c, initialize/metrics_init.c), where connections and the *)
(* database count into it (core/handle_client.c, core/api.c,               *)
(* database/database.c), the thread that stores snapshots of it as         *)
(* documents (utils/metrics_persistence.c), its export to a file, and the  *)
(* metrics of libraries (utils/library_metrics.c).                         *)
(*                                                                         *)
(* Counters are added to under a mutex of each metric and read without it. *)
(* Of the six documents of a snapshot, operations and performance are      *)
(* modelled: the others are read and stored in the same way.               *)
(***************************************************************************)
EXTENDS Naturals, Sequences, FiniteSets, SequencesExt

CONSTANTS
    MThreads,       \* threads that serve connections
    Durations,      \* times a connection takes
    Infinite,       \* INFINITY: the timer's minimum before it observed anything
    MetricLoads,          \* what happens in one behaviour: sets of activities
    HistoryLength,  \* max_entries: points a document keeps
    LibraryNames, LibraryTypes,     \* libraries and types of their metrics
    MaxConnections, MaxObserved,    \* bounds: connections, and those of a behaviour with snapshots
    MaxServed, MaxSnapshots, MaxMetricDocs, MaxExports    \* bounds of the model

ASSUME MetricsAssumption ==
    /\ {MaxConnections, MaxObserved, MaxServed, MaxSnapshots, MaxMetricDocs, MaxExports, HistoryLength} \subseteq Nat
    /\ IsFiniteSet(MThreads) /\ HistoryLength > 0
    /\ Infinite \in Nat \ {0} /\ Durations \subseteq 1 .. Infinite - 1
    /\ \A l \in MetricLoads : l \subseteq {"connections", "snapshot", "clients", "exit", "export", "libraries"}

VARIABLES
    activity,           \* the activities of this behaviour
    metric,          \* counter, gauge or part of the timer -> its value
    stage,         \* thread -> [at, took]: where its connection is, what it will have taken
    observing,      \* threads that hold the timer's mutex
    tally,          \* history: connections, requests dispatched, gauges not taken back
    registry,       \* "live" or "freed"
    snap,           \* the persistence thread: what it reads and stores
    metricDocs,     \* metric documents, in the order of their ids
    remembered,     \* g_metric_id_...: metric -> the id of its document, 0 none
    nextDoc,        \* ids given
    meddled,        \* history: documents that requests deleted or stored; observations met by a reader;
                    \* freed metrics read, and a snapshot that was running when they were freed
    exporters,      \* who exports -> where it is
    exportFile,     \* the exported file
    exportsMet,     \* history: two exports were made at the same time
    libraryRecords, \* metrics of libraries, in the order of their ids
    queried         \* <<library, type>> -> what the first query found: it is cached

countVars  == <<metric, stage, observing, tally>>
snapVars   == <<snap, metricDocs, remembered, nextDoc>>
exportVars == <<exporters, exportFile, exportsMet>>
libraryMetricVars == <<libraryRecords, queried>>
metricsVars == <<activity, countVars, registry, snapVars, meddled, exportVars, libraryMetricVars>>

Families == {"operations", "performance"}
Awake(s) == s.at # "asleep"
Sleeping(n) == [at |-> "asleep", name |-> "none", todo |-> <<>>, got |-> <<>>, doc |-> {}, disturbed |-> FALSE, taken |-> n]

init_metrics ==
    /\ metric = [requests |-> 0, errors |-> 0, ops |-> 0, reads |-> 0, writes |-> 0, active |-> 0,
                count |-> 0, sum |-> 0, min |-> Infinite, max |-> 0]
    /\ registry = "live"
MetricsInit ==
    /\ activity \in MetricLoads /\ init_metrics
    /\ stage = [t \in MThreads |-> [at |-> "idle", took |-> 0]] /\ observing = {}
    /\ tally = [connections |-> 0, dispatched |-> 0, leaked |-> 0]
    /\ snap = Sleeping(0) /\ metricDocs = <<>> /\ remembered = [n \in Families |-> 0] /\ nextDoc = 0
    /\ meddled = [deleted |-> FALSE, stored |-> FALSE, poisoned |-> FALSE, freedRead |-> FALSE, caught |-> FALSE]
    /\ exporters = [e \in {"auto", "request"} |-> "idle"] /\ exportFile = "none" /\ exportsMet = 0
    /\ libraryRecords = <<>> /\ queried = <<>>

-----------------------------------------------------------------------------
(* Connections count as they are served.                                   *)

Add(m) == metric' = [metric EXCEPT ![m] = @ + 1]
GoTo(t, step) == stage' = [stage EXCEPT ![t].at = step]
Observing(step) == step \in {"ended", "sum", "extremes"}
Serving(t, step) ==
    /\ stage[t].at = step /\ snap' = [snap EXCEPT !.disturbed = @ \/ (Awake(snap) /\ Observing(step))]
    /\ UNCHANGED <<activity, registry, metricDocs, remembered, nextDoc, meddled, exportVars, libraryMetricVars>>

handle_client(t) ==
    /\ "connections" \in activity /\ registry = "live"
    /\ Serving(t, "idle") /\ tally.connections < IF "snapshot" \in activity THEN MaxObserved ELSE MaxConnections
    /\ Add("active") /\ GoTo(t, "reading")
    /\ tally' = [tally EXCEPT !.connections = @ + 1] /\ UNCHANGED observing

\* Not non-blocking: the handler returns without the steps at its end.
fcntl_fails(t) ==
    /\ Serving(t, "reading") /\ GoTo(t, "idle")
    /\ tally' = [tally EXCEPT !.leaked = @ + 1] /\ UNCHANGED <<metric, observing>>

\* Nothing to read or a preflight request; a request that cannot be parsed; the first request.
ReadRequest(t) ==
    /\ Serving(t, "reading") /\ UNCHANGED <<observing, tally>>
    /\ \/ GoTo(t, "ended") /\ UNCHANGED metric
       \/ GoTo(t, "ended") /\ Add("errors")
       \/ GoTo(t, "dispatch") /\ Add("requests")

\* A request with a route and, if need be, a session is counted once more; others are answered.
api_dispatch_request(t) ==
    /\ Serving(t, "dispatch") /\ UNCHANGED observing
    /\ \/ GoTo(t, "answered") /\ UNCHANGED <<metric, tally>>
       \/ /\ tally.dispatched < MaxServed
          /\ tally' = [tally EXCEPT !.dispatched = @ + 1] /\ Add("requests") /\ GoTo(t, "handler")

\* Mutant: an operation is counted before its kind.
CountedFirst_ops(kind) == "ops"

\* storage_...: what kind of operation it is, then the operation.
CountedFirst(kind) == kind
CountedThen(kind) == IF CountedFirst(kind) = "ops" THEN kind ELSE "ops"

\* Answers from 400 on are errors.
Handler(t) ==
    /\ Serving(t, "handler") /\ UNCHANGED <<observing, tally>>
    /\ \/ \E kind \in {"reads", "writes"} : Add(CountedFirst(kind)) /\ GoTo(t, kind)
       \/ Add("errors") /\ GoTo(t, "answered")
CountOperation(t) ==
    \E kind \in {"reads", "writes"} :
        /\ Serving(t, kind) /\ Add(CountedThen(kind)) /\ GoTo(t, "answered") /\ UNCHANGED <<observing, tally>>
keep_alive(t) ==
    /\ Serving(t, "answered") /\ UNCHANGED <<metric, observing, tally>>
    /\ GoTo(t, "dispatch") \/ GoTo(t, "ended")

\* One timer, stopped when the connection ends, under its mutex.
metrics_timer_stop(t) ==
    /\ Serving(t, "ended") /\ observing = {} /\ observing' = {t}
    /\ \E d \in Durations : stage' = [stage EXCEPT ![t] = [at |-> "sum", took |-> d]]
    /\ Add("count") /\ UNCHANGED tally
metrics_timer_observe(t) ==
    /\ stage[t].at \in {"sum", "extremes"} /\ Serving(t, stage[t].at)
    /\ LET d == stage[t].took IN
       \/ /\ stage[t].at = "sum" /\ GoTo(t, "extremes")
          /\ metric' = [metric EXCEPT !.sum = @ + d] /\ UNCHANGED observing
       \/ /\ stage[t].at = "extremes" /\ GoTo(t, "leaving") /\ observing' = {}
          /\ metric' = [metric EXCEPT !.min = IF d < @ THEN d ELSE @, !.max = IF d > @ THEN d ELSE @]
    /\ UNCHANGED tally
metrics_gauge_dec(t) ==
    /\ Serving(t, "leaving") /\ GoTo(t, "idle")
    /\ metric' = [metric EXCEPT !.active = @ - 1] /\ UNCHANGED <<observing, tally>>

-----------------------------------------------------------------------------
(* Snapshots: the persistence thread reads each value for itself, without  *)
(* the mutexes, and keeps the points of a metric in one document.          *)

\* The order in which the values of a document are read.
Fields(name) == IF name = "operations" THEN <<"requests", "ops", "reads", "writes">>
                ELSE <<"count", "sum", "count", "min", "max", "active">>
Persisting(step) == snap.at = step /\ UNCHANGED <<activity, countVars, registry, exportVars, libraryMetricVars>>
Reading(name, n) == [Sleeping(n) EXCEPT !.at = "read", !.name = name, !.todo = Fields(name)]

\* A snapshot is not begun once the registry is gone; the thread is never stopped.
save_metrics_snapshot ==
    /\ "snapshot" \in activity /\ Persisting("asleep") /\ registry = "live" /\ snap.taken < MaxSnapshots
    /\ snap' = Reading("operations", snap.taken + 1)
    /\ UNCHANGED <<metricDocs, remembered, nextDoc, meddled>>

\* A timer that observed nothing is not read further.
ReadMetric ==
    /\ Persisting("read") /\ snap.todo # <<>>
    /\ LET f == Head(snap.todo)
           got == [x \in DOMAIN snap.got \cup {f} |-> IF x = f THEN metric[f] ELSE snap.got[x]]
           empty == f = "count" /\ Len(snap.todo) = Len(Fields("performance")) /\ metric.count = 0
       IN  snap' = [snap EXCEPT !.todo = IF empty THEN <<"active">> ELSE Tail(@), !.disturbed = @ \/ observing # {},
                                !.got = IF empty THEN [x \in {"count", "sum", "min", "max"} |-> 0] ELSE got]
    /\ meddled' = [meddled EXCEPT !.freedRead = @ \/ registry = "freed"]
    /\ UNCHANGED <<metricDocs, remembered, nextDoc>>

WithName(name) == {i \in DOMAIN metricDocs : metricDocs[i].name = name /\ metricDocs[i].readable}
WithId(id) == {i \in DOMAIN metricDocs : metricDocs[i].id = id}
FirstPlace(S) == CHOOSE i \in S : \A j \in S : i <= j

\* The document is looked up by name each time; its id is kept if there is none.
find_metric_by_name ==
    /\ Persisting("read") /\ snap.todo = <<>>
    /\ LET found == WithName(snap.name) IN
       remembered' = IF found = {} THEN remembered ELSE [remembered EXCEPT ![snap.name] = metricDocs[FirstPlace(found)].id]
    /\ snap' = [snap EXCEPT !.at = "get"]
    /\ UNCHANGED <<metricDocs, nextDoc, meddled>>
GetMetricDocument ==
    /\ Persisting("get")
    /\ snap' = [snap EXCEPT !.at = "save", !.doc = {metricDocs[i] : i \in {j \in WithId(remembered[snap.name]) : metricDocs[j].readable}}]
    /\ UNCHANGED <<metricDocs, remembered, nextDoc, meddled>>

LastPoints(points) == IF Len(points) > HistoryLength THEN SubSeq(points, Len(points) - HistoryLength + 1, Len(points)) ELSE points

\* An infinite minimum is written as inf, which no parser reads.
Readable(point) == "min" \in DOMAIN point => point["min"] # Infinite
WithPoint(d) == [d EXCEPT !.data = LastPoints(Append(@, snap.got)), !.current = snap.got, !.readable = Readable(snap.got)]
NewDoc(name, mine) == [id |-> nextDoc + 1, name |-> name, mine |-> mine, data |-> <<>>, current |-> <<>>, readable |-> TRUE]

\* What is stored is left alone if nothing changed, written over if it is there, and
\* not written if it was deleted since; a new one may have any place among the ids.
update_metric_document ==
    /\ Persisting("save")
    /\ IF snap.doc = {}
       THEN /\ nextDoc < MaxMetricDocs /\ nextDoc' = nextDoc + 1
            /\ \E i \in 1 .. Len(metricDocs) + 1 : metricDocs' = InsertAt(metricDocs, i, WithPoint(NewDoc(snap.name, TRUE)))
            /\ remembered' = [remembered EXCEPT ![snap.name] = IF @ = 0 THEN nextDoc + 1 ELSE @]
       ELSE LET d == CHOOSE x \in snap.doc : TRUE IN
            /\ metricDocs' = [i \in DOMAIN metricDocs |->
                   IF metricDocs[i].id = d.id /\ d.current # snap.got THEN WithPoint(d) ELSE metricDocs[i]]
            /\ UNCHANGED <<remembered, nextDoc>>
    /\ snap' = IF snap.name = "operations" THEN Reading("performance", snap.taken) ELSE Sleeping(snap.taken)
    /\ meddled' = [meddled EXCEPT !.poisoned = @ \/ snap.disturbed]

\* Documents of metrics are documents: requests delete and store them.
virtual_delete(i) ==
    /\ "clients" \in activity /\ i \in DOMAIN metricDocs
    /\ metricDocs' = RemoveAt(metricDocs, i) /\ meddled' = [meddled EXCEPT !.deleted = TRUE]
    /\ UNCHANGED <<activity, countVars, registry, snap, remembered, nextDoc, exportVars, libraryMetricVars>>
storage_insert_document(name) ==
    /\ "clients" \in activity /\ nextDoc < MaxMetricDocs /\ nextDoc' = nextDoc + 1
    /\ \E i \in 1 .. Len(metricDocs) + 1 : metricDocs' = InsertAt(metricDocs, i, NewDoc(name, FALSE))
    /\ meddled' = [meddled EXCEPT !.stored = TRUE]
    /\ UNCHANGED <<activity, countVars, registry, snap, remembered, exportVars, libraryMetricVars>>

\* One entry for each name: the last document of that name.
metrics_get_historical(name) ==
    IF WithName(name) = {} THEN <<>>
    ELSE metricDocs[CHOOSE i \in WithName(name) : \A j \in WithName(name) : j <= i].data

\* The parameters are looked for behind a question mark in a path that was cut off
\* there when the request was read: there are none.
ParamsInPath(params) == {}
api_handle_metrics_history(params) ==
    [name \in {n \in Families : "metric" \in ParamsInPath(params) => n \in params} |-> metrics_get_historical(name)]
api_handle_metrics_aggregate(params) == IF "metric" \in ParamsInPath(params) THEN "points" ELSE "missing"

\* At exit the connections are done, the exporting thread is joined, the registry is freed.
cleanup_metrics ==
    /\ "exit" \in activity /\ registry = "live" /\ (\A t \in MThreads : stage[t].at = "idle") /\ exporters["auto"] \in {"idle", "gone"}
    /\ registry' = "freed" /\ exporters' = [exporters EXCEPT !["auto"] = "gone"]
    /\ meddled' = [meddled EXCEPT !.caught = Awake(snap)]
    /\ UNCHANGED <<activity, countVars, snapVars, exportFile, exportsMet, libraryMetricVars>>

-----------------------------------------------------------------------------
(* Reports of the registry take the mutex of each metric.                  *)

TimerParts == {"count", "sum", "min", "max"}
metrics_get_json == [f \in DOMAIN metric |-> IF f \in TimerParts /\ metric.count = 0 THEN 0 ELSE metric[f]]

\* The text shows numbers with a fraction only: neither counters, which are integers,
\* nor a timer's count.
health_api_handle_metrics(json) ==
    IF json THEN DOMAIN metrics_get_json
    ELSE {"active"} \cup IF metric.count = 0 THEN {} ELSE TimerParts \ {"count"}
health_api_handle_metrics_available ==
    [counters |-> DOMAIN metric \ (TimerParts \cup {"active"}), gauges |-> {"active"}, timers |-> {TimerParts}]

-----------------------------------------------------------------------------
(* Exports: the file is emptied, the text composed under the registry's    *)
(* mutex and written when it is closed.                                    *)

Exporting(e, from, to) ==
    /\ exporters[e] = from /\ exporters' = [exporters EXCEPT ![e] = to]
    /\ UNCHANGED <<activity, countVars, registry, snapVars, meddled, libraryMetricVars>>
metrics_registry_export(e) ==
    /\ "export" \in activity /\ registry = "live" /\ Exporting(e, "idle", "open") /\ exportFile' = "empty"
    /\ exportsMet < MaxExports
    /\ exportsMet' = IF \E x \in DOMAIN exporters : exporters[x] = "open" THEN exportsMet + 1 ELSE exportsMet
auto_export_thread == metrics_registry_export("auto")
health_api_handle_metrics_export == metrics_registry_export("request")
\* Written over what another has written since: the rest of a longer text stays.
CloseExport(e) ==
    /\ Exporting(e, "open", "idle") /\ UNCHANGED exportsMet
    /\ exportFile' \in IF exportFile = "empty" THEN {"whole"} ELSE {"whole", "mixed"}

-----------------------------------------------------------------------------
(* Metrics of libraries: recorded under their library, queried in library  *)
(* "default" for every one, and cached for good.                           *)

ForLibraries == "libraries" \in activity /\ UNCHANGED <<activity, countVars, registry, snapVars, meddled, exportVars>>
library_metrics_record(l, k) ==
    /\ ForLibraries /\ Len(libraryRecords) < MaxMetricDocs /\ UNCHANGED queried
    /\ \E i \in 1 .. Len(libraryRecords) + 1 :
           libraryRecords' = InsertAt(libraryRecords, i, [library |-> l, type |-> k, num |-> Len(libraryRecords)])

library_metrics_query(k) == {i \in DOMAIN libraryRecords : libraryRecords[i].library = "default" /\ libraryRecords[i].type = k}
FirstFound(k) == IF library_metrics_query(k) = {} THEN {} ELSE {libraryRecords[FirstPlace(library_metrics_query(k))]}
library_metrics_aggregate(l) ==
    /\ ForLibraries /\ UNCHANGED libraryRecords
    /\ queried' = [q \in DOMAIN queried \cup ({l} \X LibraryTypes) |-> IF q \in DOMAIN queried THEN queried[q] ELSE FirstFound(q[2])]
ForgetQuery(q) == ForLibraries /\ UNCHANGED libraryRecords /\ queried' = [x \in DOMAIN queried \ {q} |-> queried[x]]

MetricsNext ==
    \/ \E t \in MThreads :
        \/ handle_client(t) \/ fcntl_fails(t) \/ ReadRequest(t) \/ api_dispatch_request(t) \/ Handler(t)
        \/ CountOperation(t) \/ keep_alive(t) \/ metrics_timer_stop(t) \/ metrics_timer_observe(t) \/ metrics_gauge_dec(t)
    \/ save_metrics_snapshot \/ ReadMetric \/ find_metric_by_name \/ GetMetricDocument \/ update_metric_document
    \/ \E i \in DOMAIN metricDocs : virtual_delete(i)
    \/ \E name \in Families : storage_insert_document(name)
    \/ cleanup_metrics
    \/ auto_export_thread \/ health_api_handle_metrics_export
    \/ \E e \in DOMAIN exporters : CloseExport(e)
    \/ \E l \in LibraryNames : library_metrics_aggregate(l) \/ \E k \in LibraryTypes : library_metrics_record(l, k)
    \/ \E q \in DOMAIN queried : ForgetQuery(q)

MetricsSpec == MetricsInit /\ [][MetricsNext]_metricsVars

-----------------------------------------------------------------------------
(* Properties.                                                             *)

\* Type correctness: counters, one holder of the timer's mutex, and documents.
MetricValuesOK ==
    /\ \A f \in DOMAIN metric : metric[f] \in Nat
    /\ Cardinality(observing) <= 1 /\ nextDoc <= MaxMetricDocs
    /\ \A i, j \in DOMAIN metricDocs : metricDocs[i].id = metricDocs[j].id => i = j

\* The gauge counts the connections that are open and, for good, those whose handler
\* returned early; requests are counted at most twice, the first of a connection and dispatched.
GaugeAndRequestsExplained ==
    /\ metric.active = Cardinality({t \in MThreads : stage[t].at # "idle"}) + tally.leaked
    /\ metric.requests >= tally.dispatched /\ metric.requests <= tally.dispatched + tally.connections

\* Between observations, when its mutex can be had, what is reported of the timer is
\* finite, and its sum lies between its count of minima and of maxima; the text shows
\* none of the counters there are.
TimerAddsUp ==
    LET report == metrics_get_json IN
    /\ observing = {} => report.min # Infinite /\ report.sum \in report.count * report.min .. report.count * report.max
    /\ health_api_handle_metrics(FALSE) \cap (health_api_handle_metrics_available.counters \cup {"count"}) = {}

\* A stored point never shows more operations than reads and writes, because the
\* operation is counted last and read first.
PointsNeverShort ==
    \A i \in DOMAIN metricDocs : \A p \in ToSet(metricDocs[i].data) :
        metricDocs[i].name = "operations" => p.ops <= p.reads + p.writes

\* A point of response times has its average between its extremes, unless the timer
\* observed while it was read: then it may even be a document nobody can read.
PointInRange ==
    snap.at # "asleep" /\ snap.name = "performance" /\ snap.todo = <<>> /\ ~ snap.disturbed =>
        snap.got.count = 0 \/ snap.got.sum \in snap.got.count * snap.got.min .. snap.got.count * snap.got.max
UnreadableOnlyIfMet ==
    (\E i \in DOMAIN metricDocs : ~ metricDocs[i].readable) => meddled.poisoned

\* A metric has one document, whose last point is its current value and which keeps a
\* bounded history, unless a request stored another or the document became unreadable.
OneDocumentPerMetric ==
    /\ ~ meddled.stored => \A name \in Families : Cardinality(WithName(name)) <= 1
    /\ \A i \in DOMAIN metricDocs : Len(metricDocs[i].data) <= HistoryLength /\ (metricDocs[i].data # <<>> => Last(metricDocs[i].data) = metricDocs[i].current)
    /\ ~ meddled.stored => \A name \in Families : \A i \in WithName(name) : metrics_get_historical(name) = metricDocs[i].data

\* Asked for one metric, the history shows all of them, and the aggregation refuses.
HistoryShowsAll ==
    /\ DOMAIN api_handle_metrics_history({"metric", "operations"}) = Families
    /\ api_handle_metrics_aggregate({"metric", "operations"}) = "missing"

\* Freed metrics are read by a snapshot that was running when they were freed, and by no later one.
FreedReadOnlyIfCaught == meddled.freedRead => meddled.caught

\* An exported file is empty only while it is written, and mixed only if exports overlapped.
ExportWholeUnlessOverlapped ==
    /\ exportFile = "empty" => \E e \in DOMAIN exporters : exporters[e] = "open"
    /\ exportFile = "mixed" => exportsMet > 0

\* Whatever library is asked about, the answer is a record of library "default".
LibrariesAnswerDefault == \A q \in DOMAIN queried : \A r \in queried[q] : r.library = "default" /\ r.type = q[2]

\* Metrics: gauge, counters and timer add up, stored points are consistent and kept in one
\* document, and freed metrics, exports and libraries go wrong only as stated.
MetricsSound ==
    /\ MetricValuesOK /\ GaugeAndRequestsExplained /\ TimerAddsUp /\ PointsNeverShort /\ PointInRange
    /\ UnreadableOnlyIfMet /\ HistoryShowsAll /\ OneDocumentPerMetric /\ FreedReadOnlyIfCaught /\ ExportWholeUnlessOverlapped /\ LibrariesAnswerDefault
=============================================================================
