------------------------------ MODULE MCEngine ------------------------------
(* Instances of the storage-side components for TLC.  They share no state: a *)
(* behaviour is one of the component picked in Init, and the states of a run *)
(* are the sum of theirs, not the product.  CacheInit, RetryInit, QueryInit, *)
(* BootInit and ScriptInit are more than one state: the other components     *)
(* start from one of them.                                                   *)
EXTENDS PageStore, ListCache, GenericCache, StringPool, TransactionLog, TransactionRetry, Libraries,
        QueryTracking, IndexMetrics, QueryLanguage, Schemas, HashIndex, Bootstrap, Scripts, TLC

VARIABLE which

\* Configurations of the list cache: bounded by entries, or by memory.
MCConfigs == [type : {"LRU", "LFU", "FIFO"}, capacity : {2}, memory : {0}]
                \cup {[type |-> "LRU", capacity |-> 0, memory |-> 3]}

\* Retry policies: jitter and priority, a plain one, and a delay that passes its cap.
MCPolicies == {[attempts |-> 3, base |-> 1, max |-> 4, jitter |-> 50, prioritized |-> TRUE],
               [attempts |-> 7, base |-> 2, max |-> 20, jitter |-> 0, prioritized |-> FALSE],
               [attempts |-> 2, base |-> 3, max |-> 30, jitter |-> 20, prioritized |-> TRUE]}

\* Three documents and the queries on them; a few of them with every option.
Obj(es) == <<"obj", es>>
One(k, v) == Obj(<<<<k, v>>>>)
I(n) == <<"int", n>>
Str(n) == <<"str", n>>
Arr(s) == <<"arr", s>>
MCBracketed == [x \in {"t[0]"} |-> [name |-> "t", index |-> 0]]
Doc(id, es) == Obj(<< << <<"uuid">>, Str(id)>> >> \o es)
MCDocuments == <<
    Doc(21, << << <<"n">>, I(1)>>, << <<"s">>, Str(30)>>, << <<"t">>, Arr(<<Str(9), Str(10)>>)>>, << <<"o">>, One(<<"x">>, I(2))>> >>),
    Doc(22, << << <<"n">>, <<"num", 2>> >>, << <<"t">>, Arr(<<One(<<"x">>, I(2))>>)>>, << <<"o">>, One(<<"x">>, <<"null", 0>>)>> >>),
    Doc(23, << << <<"n">>, I(2)>>, << <<"s">>, Str(29)>>, << <<"t">>, Arr(<<>>)>> >>)>>
MCValues == {I(1), I(2), <<"num", 2>>, Str(30), Str(4), Arr(<<I(2), Str(30)>>), Arr(<<Str(10)>>), <<"null", 0>>, <<"bool", 0>>, <<"bool", 1>>}
MCConditions == {One(<<o>>, v) : o \in Comparisons, v \in MCValues}
                \cup {I(2), Str(30), One(<<"x">>, I(2)), One(<<"$other">>, I(2)), One(<<"$not">>, One(<<"$eq">>, I(2))),
                      One(<<"$elemMatch">>, One(<<"x">>, I(1))), Obj(<< << <<"$gt">>, I(0)>>, << <<"$lt">>, I(2)>> >>)}
MCPaths == {<<"n">>, <<"s">>, <<"t">>, <<"o", "x">>, <<"t[0]", "x">>, <<"t[0]">>, <<"o", "t[0]">>}
MCLists == {Arr(<<One(<<"n">>, I(2)), One(<<"s">>, Str(30))>>), Arr(<<Obj(<< << <<"n">>, I(1)>>, << <<"s">>, Str(30)>> >>)>>),
            Arr(<<One(<<"$or">>, Arr(<<One(<<"n">>, I(1)), One(<<"s">>, Str(29))>>)), One(<<"t">>, One(<<"$size">>, I(0)))>>),
            Arr(<<>>), Arr(<<I(1)>>), One(<<"$gt">>, I(1)), Arr(<<Obj(<<>>)>>)}
MCQueries == {One(p, c) : p \in MCPaths, c \in MCConditions} \cup {One(<<l>>, v) : l \in Logical, v \in MCLists}
MCFew == {One(<<"n">>, One(<<"$gt">>, I(0))), One(<<"n">>, I(7)), Obj(<<>>), One(<<"query">>, One(<<"n">>, I(2))), One(<<"query">>, I(2)),
          Obj(<< << <<"n">>, I(1)>>, << <<"$or">>, Arr(<<One(<<"n">>, I(2))>>)>> >>)}
MCOptions == {Obj(<< << <<"page">>, I(p)>>, << <<"page_size">>, I(z)>> >>) : p \in {0, 1, 2, 5, 6}, z \in {0, 1, 2, 3}}
    \cup {Obj(<< << <<"limit">>, I(l)>>, << <<"skip">>, I(k)>>, << <<"cursor">>, c>>, << <<"sort">>, so>> >>) :
            l \in {-1, 1, 3, 7}, k \in {0, 1, 6}, c \in {Str(9), <<"null", 0>>},
            so \in {Obj(<<>>), One(<<"n">>, I(1)), One(<<"n">>, I(-1)), Obj(<< << <<"o", "x">>, Str(AscWord)>>, << <<"s">>, Str(9)>> >>), I(1)}}
    \cup {One(<<"projection">>, Obj(e)) : e \in {<< << <<"n">>, I(1)>>, << <<"uuid">>, I(0)>> >>, << << <<"n">>, I(0)>>, << <<"s">>, <<"bool", 0>> >> >>,
            << << <<"n">>, I(0)>>, << <<"s">>, I(1)>> >>, << << <<"n">>, <<"num", 1>> >> >>, << << <<"s">>, <<"bool", 1>> >> >> }}
MCSearches == {[query |-> q, options |-> Obj(<<>>), documents |-> MCDocuments] : q \in MCQueries}
              \cup {[query |-> q, options |-> o, documents |-> MCDocuments] : q \in MCFew, o \in MCOptions}

\* Schemas: typed, with properties, with constraints.
Key(k, v) == << <<k>>, v>>
Typed(n, es) == Obj(<<Key("type", Str(n))>> \o es)
MCSchemas == {
    Typed(7, <<Key("properties", Obj(<<Key("s", Typed(5, <<>>)), Key("o", Typed(7, <<>>))>>)), Key("required", Arr(<<Str(<<"s">>)>>))>>),
    Typed(7, <<Key("properties", Obj(<<Key("n", Typed(3, <<Key("minimum", I(2)), Key("multipleOf", I(2))>>)), Key("s", Obj(<<>>)), Key("t", Typed(6, <<Key("items", Typed(4, <<>>)), Key("maxItems", I(1))>>))>>)),
               Key("additionalProperties", <<"bool", 0>>)>>),
    Typed(5, <<Key("minLength", I(2)), Key("enum", Arr(<<Str(30)>>))>>)}
MCVDocuments == {Obj(<<Key("s", Str(29)), Key("n", I(2))>>), Obj(<<Key("s", I(1))>>), Obj(<<Key("n", <<"num", 3>>)>>), Obj(<<Key("t", Arr(<<I(1), Str(30)>>))>>),
    Obj(<<Key("s", Str(30)), Key("o", Obj(<<Key("s", Str(29))>>))>>), Str(30), Arr(<<>>)}
MCLength == [n \in 1 .. 30 |-> IF n = 29 THEN 1 ELSE 3]
MCMatching == [n \in {40} |-> {30}]
Rule(f, t, v) == Obj(<<Key("field", <<"path", f>>), Key("type", <<"word", t>>), Key("value", v)>>)
Rules(rs) == Obj(<<Key("name", Str(9)), Key("rules", Arr(rs))>>)
MCRules == {Obj(<<>>),
    Rules(<<Rule(<<"s">>, "type", Str(5)), Rule(<<"s">>, "minLength", I(2)), Rule(<<"n">>, "required", <<"bool", 1>>), Rule(<<"s">>, "pattern", Str(41)),
            Rule(<<"o">>, "nested", Rules(<<Rule(<<"s">>, "enum", Arr(<<Str(30)>>)), Rule(<<"s">>, "maxLength", Str(1))>>))>>),
    Rules(<<I(1), Rule(<<"s">>, "other", I(1)), Obj(<<Key("field", <<"path", <<"o", "s">> >>), Key("type", <<"word", "pattern">>)>>),
            Rule(<<"s">>, "type", Str(4)), Rule(<<"n">>, "required", <<"bool", 0>>), Rule(<<"s">>, "pattern", Str(40)), Rule(<<"n">>, "minValue", I(2)),
            Rule(<<"n">>, "maxValue", <<"num", 2>>), Rule(<<"o">>, "nested", Obj(<<>>))>>)}

\* Scripts that define functions, throw or do not parse, long names cut, documents that pose
\* as scripts, and the requests that meet.
MCSaved == [n \in {"s", "long", "longcut"} |-> IF n = "long" THEN "longcut" ELSE n]
Script(r, f, v, c) == [runs |-> r, function |-> f, verdict |-> v, change |-> c]
Foreign(l, y, n, o, e, li, r) == [lib |-> l, type |-> y, name |-> n, owner |-> o, enabled |-> e, limited |-> li, version |-> 1,
   code |-> Script(TRUE, "f", IF r = "none" THEN "false" ELSE "true", "inplace"), ref |-> r, origin |-> "documents", live |-> TRUE]
MCForeign == {Foreign("default", "system/validators", "v", "js", TRUE, TRUE, "none"), Foreign("default", "documents", "r", "js", FALSE, FALSE, "none"),
  Foreign("default", "system/functions", "w", "u", TRUE, FALSE, "r")}
MCGrants == {{"READ"}, {"READ", "WRITE", "ADMIN"}}
JsReq(o, n, c, g) == [op |-> o, name |-> n, code |-> c, given |-> g]
Plain == Script(TRUE, "none", "none", "none")
JsAsk(o) == JsReq(o, "s", Plain, <<>>)
DefinesF == Script(TRUE, "f", "true", "inplace")
DefinesG == Script(TRUE, "g", "false", "throws")
ThrowsAll == Script(TRUE, "none", "throws", "returned")
NoParse == Script(FALSE, "none", "none", "none")
MCPlans == {
  {JsReq("register", "s", DefinesF, <<>>), JsReq("register", "long", DefinesG, <<>>), JsReq("call", "s", Plain, <<"a">>), JsReq("call", "s", Plain, <<"b">>), JsReq("call", "longcut", Plain, <<"b">>), JsReq("call", "long", Plain, <<"b">>)},
  {JsReq("register", "s", Plain, <<>>), JsReq("eval", "s", DefinesG, <<>>), JsReq("eval", "s", NoParse, <<>>), JsReq("call", "s", Plain, <<"a">>), JsReq("code", "s", DefinesF, <<"a">>), JsReq("code", "s", NoParse, <<"a">>)},
  {JsReq("validator", "s", ThrowsAll, <<>>), JsReq("validator", "s", DefinesG, <<>>), JsReq("validate", "s", Plain, <<"a">>), JsReq("validate", "long", Plain, <<"b">>), JsAsk("query")},
  {JsReq("check", "s", DefinesF, <<"a">>), JsReq("check", "s", DefinesG, <<"a">>), JsReq("validator", "s", DefinesF, <<>>), JsReq("validate", "s", Plain, <<"b">>)},
  {JsReq("transformer", "s", DefinesF, <<>>), JsReq("transformer", "s", DefinesG, <<>>), JsReq("transform", "s", Plain, <<"a">>)},
  {JsReq("change", "s", DefinesF, <<"a">>), JsReq("change", "s", ThrowsAll, <<"b">>), JsReq("change", "s", Plain, <<"b">>), JsReq("transform", "s", Plain, <<"a">>)},
  {JsReq("store", "v", Plain, <<>>), JsReq("document", "v", Plain, <<>>), JsReq("insert", "r", Plain, <<>>), JsAsk("get"), JsAsk("list"), JsReq("execute", "s", Plain, <<"a">>)},
  {JsReq("document", "v", Plain, <<>>), JsReq("put", "r", Plain, <<>>), JsAsk("delete"), JsAsk("get"), JsReq("execute", "s", Plain, <<"a">>)},
  {JsReq("document", "w", Plain, <<>>), JsReq("document", "r", Plain, <<>>), JsAsk("update"), JsAsk("remove"), JsAsk("execute"), JsReq("execute", "s", Plain, <<"b">>)},
  {JsReq("document", "v", Plain, <<>>), JsReq("execute", "s", Plain, <<"a">>), JsReq("execute", "s", Plain, <<"b">>), JsReq("eval", "s", ThrowsAll, <<>>)}}

\* Three documents: two agree on g, and on two buckets v1 and v2 share one.
MCDocs == << [f |-> "v1", g |-> "v2"], [f |-> "v2", g |-> "v1"], [f |-> "v3", g |-> "v1"] >>
MCHash == [v1 |-> 5, v2 |-> 15, v3 |-> 12]

\* What the server asks for before and after its first users are there.
MCBootPaths == {<<"default", "documents">>, <<"l", "c">>}

Init ==
    /\ which \in {"pages", "cache", "generic", "strings", "log", "retry", "libraries", "tracking", "metrics", "hooks", "query", "schemas", "hash", "bootstrap", "scripts"}
    /\ PageInit /\ GenericInit /\ StringPoolInit /\ LogInit /\ LibInit
    /\ HashInit /\ BootInit /\ (which # "bootstrap" => environment = "set")
    /\ ScriptInit /\ (IF \E r \in plan : r.op = "document" THEN jdirs = {} ELSE granted = {"READ"})
    /\ (which # "scripts" => jdirs = {} /\ granted = {"READ"} /\ plan = CHOOSE p \in MCPlans : TRUE)
    /\ TrackInit /\ MetricsInit /\ HooksInit /\ SchemaInit
    /\ CacheInit /\ (which # "cache" => config = CHOOSE c \in MCConfigs : TRUE)
    /\ RetryInit /\ (which # "retry" => policy = CHOOSE p \in MCPolicies : TRUE)
    /\ QueryInit /\ (which # "query" => search = CHOOSE s \in MCSearches : TRUE)

\* Only the component picked moves.
Only(w) ==
    /\ which = w /\ UNCHANGED which
    /\ w # "pages"     => UNCHANGED pageVars
    /\ w # "cache"     => UNCHANGED cacheVars
    /\ w # "generic"   => UNCHANGED genericVars
    /\ w # "strings"   => UNCHANGED stringVars
    /\ w # "log"       => UNCHANGED logVars
    /\ w # "retry"     => UNCHANGED retryVars
    /\ w # "libraries" => UNCHANGED docVars
    /\ w # "tracking"  => UNCHANGED trackVars
    /\ w # "metrics"   => UNCHANGED metricVars
    /\ w # "hooks"     => UNCHANGED hookVars
    /\ w # "query"     => UNCHANGED queryVars
    /\ w # "schemas"   => UNCHANGED schemaVars
    /\ w # "hash"      => UNCHANGED hashVars
    /\ w # "bootstrap" => UNCHANGED bootVars
    /\ w # "scripts"   => UNCHANGED scriptVars

Next ==
    \/ Only("pages")     /\ PageNext
    \/ Only("cache")     /\ CacheNext
    \/ Only("generic")   /\ GenericNext
    \/ Only("strings")   /\ StringPoolNext
    \/ Only("log")       /\ LogNext
    \/ Only("retry")     /\ RetryNext
    \/ Only("libraries") /\ LibNext
    \/ Only("tracking")  /\ TrackNext
    \/ Only("metrics")   /\ MetricsNext
    \/ Only("hooks")     /\ HooksNext
    \/ Only("query")     /\ QueryNext
    \/ Only("schemas")   /\ SchemaNext
    \/ Only("hash")      /\ HashNext
    \/ Only("bootstrap") /\ BootNext
    \/ Only("scripts")   /\ ScriptNext

Spec == Init /\ [][Next]_<<pageVars, cacheVars, genericVars, stringVars, logVars, retryVars, docVars,
                            trackVars, metricVars, hookVars, queryVars, schemaVars, hashVars, bootVars, scriptVars, which>>

\* What a client asks for and what it may store (QueryLanguage, Schemas).
QueriesSound == [](QueryTypeOK /\ QuerySound) /\ SchemasSound

\* Model values stand for threads, keys and transactions alike.
Symmetry == Permutations(DThreads)
=============================================================================
