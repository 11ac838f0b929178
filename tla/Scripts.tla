------------------------------- MODULE Scripts -------------------------------
(***************************************************************************)
(* JavaScript: the one engine all requests share (js/js_engine.c,          *)
(* js/js_api.c), the scripts kept as documents (js/js_native_storage.c,    *)
(* api/js_native_api.c, js/js_function_resolver.c) and the document        *)
(* operations that would run them (database/js_integration.c).             *)
(*                                                                         *)
(* The interpreter (QuickJS) is external: an evaluation begins and ends,   *)
(* and what it does is its effect on the global variables.  Two            *)
(* evaluations at the same time are undefined: from then on they may       *)
(* answer anything.                                                        *)
(***************************************************************************)
EXTENDS Naturals, Sequences, FiniteSets, SequencesExt

CONSTANTS
    JThreads,       \* threads that serve requests
    ScriptNames,    \* names of functions and collections that requests use
    SavedAs,        \* name -> the name cut to 59 characters, under which a function is saved
    ForeignDocs,    \* documents that other requests store
    Plans,          \* sets of the requests that one behaviour makes: [op, name, code, given], where
                    \* given is an argument or document as a sequence, <<>> null
    Grants,         \* what the one user of js_native_api.c may do: sets of permissions
    MaxJsCalls, MaxScripts    \* bounds of the model

\* A script runs or fails at once; it may define userFunction, validateDocument (by its
\* verdict) and transformDocument (by where the changed document is found).
ScriptCodes == [runs : BOOLEAN, function : {"none", "f", "g"}, verdict : {"none", "true", "false", "throws"},
                change : {"none", "inplace", "returned", "throws"}]
StoredScripts == [lib : STRING, type : STRING, name : STRING, owner : STRING, enabled : BOOLEAN, limited : BOOLEAN,
                  version : Nat, code : ScriptCodes, ref : STRING, origin : STRING, live : BOOLEAN]

\* <<"error">> stands for the report of an error: no argument looks like it.
ASSUME ScriptAssumption ==
    /\ \A p \in Plans : \A r \in p :
          /\ r \in [op : STRING, name : STRING, code : ScriptCodes, given : Seq(STRING)]
          /\ r.given # <<"error">> /\ (r.op = "register" => r.name \in ScriptNames)
    /\ \A x \in ForeignDocs : x \in StoredScripts /\ x.version = 1 /\ x.origin = "documents"
    /\ SavedAs \in [ScriptNames -> STRING] /\ {MaxJsCalls, MaxScripts} \subseteq Nat

VARIABLES
    jglobals,       \* the global variables of the engine's context
    jfiles,         \* <<directory, name>> -> the script: a set of at most one, {} while it is written
    jdirs,          \* directories that are there
    inside,         \* thread -> the evaluation it is in: a set of at most one
    jmutex,         \* threads that hold engine->mutex
    corrupt,        \* evaluations that were made at the same time: for each pair, who took the mutex
    lastError,      \* engine->last_error: the call that set it, and why
    jpc, jtask,     \* thread -> what it does next, and its variables
    jcalls,         \* requests received
    janswer,        \* the request answered last, and what it was answered
    scriptDocs,     \* documents: scripts stored here, and documents stored elsewhere
    looked,         \* <<collection, document>> -> what was found first: the caches keep it
    granted, plan,  \* the user's permissions; the requests of this behaviour
    recorded, validated   \* executions recorded, and (history) validations accepted

engineVars == <<jglobals, jfiles, jdirs, inside, jmutex, corrupt, lastError>>
nativeVars == <<scriptDocs, looked, recorded>>
scriptVars == <<engineVars, nativeVars, jpc, jtask, jcalls, janswer, granted, plan, validated>>

NoGlobals == [args |-> <<>>, document |-> <<>>, input |-> <<>>, function |-> "none", verdict |-> "none",
              change |-> "none", declared |-> FALSE]
NoCall == [op |-> "none", num |-> 0, name |-> "none", given |-> <<>>, evals |-> <<>>, alone |-> TRUE,
           value |-> <<>>, expect |-> "none", error |-> 0, doc |-> 0]
NoError == <<0, "none">>
AnyOf(S) == CHOOSE x \in S : TRUE

-----------------------------------------------------------------------------
(* The interpreter: what an evaluation does to the global variables.       *)

\* [what, code]: a script, the preparation of a validation, and the calls of the engine.
Eval(what, code) == [what |-> what, code |-> code]
NoCode == [runs |-> TRUE, function |-> "none", verdict |-> "none", change |-> "none"]
Guarded(e) == e.what = "script"

Outcome(g, value) == [globals |-> g, ok |-> TRUE, value |-> value]
Thrown(g) == [globals |-> g, ok |-> FALSE, value |-> <<>>]

Defines(old, new) == IF new = "none" THEN old ELSE new
RunScript(g, c) == IF ~ c.runs THEN Thrown(g)
             ELSE Outcome([g EXCEPT !.function = Defines(@, c.function), !.verdict = Defines(@, c.verdict),
                                    !.change = Defines(@, c.change)], <<"script">>)

\* "let" names are declared once in a context: a second preparation fails as a whole.
Prepare(g, verdict) ==
    IF g.declared THEN Thrown(g)
    ELSE Outcome([g EXCEPT !.declared = TRUE, !.verdict = Defines(@, verdict)], <<>>)

Changed(d) == d \o <<"changed">>

Evaluate(g, e) ==
    CASE e.what \in {"script", "code"} -> RunScript(g, e.code)
      [] e.what = "wrapped"  -> IF e.code.runs THEN Outcome(g, <<"code">> \o g.input) ELSE Thrown(g)
      [] e.what = "setup"    -> Prepare(g, e.code.verdict)
      [] e.what = "call"     -> Outcome(g, IF g.function = "none" THEN <<>> ELSE <<g.function>> \o g.args)
      [] e.what = "validate" -> IF g.verdict \in {"none", "throws"} THEN Thrown(g) ELSE Outcome(g, <<g.verdict>>)
      [] e.what = "transform" ->
            IF g.change \in {"none", "throws"} THEN Thrown(g)
            ELSE IF g.change = "inplace" THEN Outcome([g EXCEPT !.document = Changed(@)], <<>>)
            ELSE Outcome(g, Changed(g.document))
      [] e.what = "query"    -> Thrown(g)      \* db is never defined in the context

-----------------------------------------------------------------------------
(* Requests to the engine.  What a call gives to its script lies in global *)
(* variables until it ends.                                                *)

ScriptInit ==
    /\ jglobals = NoGlobals /\ jfiles = <<>> /\ jdirs \in {{}, {"validators", "transforms"}}
    /\ inside = [t \in JThreads |-> {}] /\ jmutex = {} /\ corrupt = {} /\ lastError = NoError
    /\ jpc = [t \in JThreads |-> "idle"] /\ jtask = [t \in JThreads |-> NoCall]
    /\ jcalls = 0 /\ janswer = NoCall
    /\ scriptDocs = <<>> /\ looked = <<>> /\ recorded = 0 /\ validated = 0
    /\ granted \in Grants /\ plan \in Plans

Running == {t \in JThreads : jpc[t] # "idle"}

\* Once two evaluations met, only the calls in progress are followed.
MayAsk(t) == jpc[t] = "idle" /\ jcalls < MaxJsCalls /\ corrupt = {}

\* history: who else was in the engine meanwhile.
BeginCall(t, step, call) ==
    /\ MayAsk(t)
    /\ jcalls' = jcalls + 1 /\ jpc' = [jpc EXCEPT ![t] = step]
    /\ jtask' = [u \in JThreads |-> IF u = t THEN [call EXCEPT !.num = jcalls + 1, !.alone = Running = {}]
                                    ELSE [jtask[u] EXCEPT !.alone = FALSE]]
    /\ UNCHANGED <<janswer, granted, plan>>
AtStep(t, step, call) == jpc' = [jpc EXCEPT ![t] = step] /\ jtask' = [jtask EXCEPT ![t] = call] /\ UNCHANGED <<jcalls, granted, plan>>
AnswerCall(t, value) ==
    /\ AtStep(t, "idle", NoCall) /\ janswer' = [jtask[t] EXCEPT !.value = value]
AnswerNow(t, op, value) ==
    /\ MayAsk(t) /\ jcalls' = jcalls + 1
    /\ janswer' = [NoCall EXCEPT !.op = op, !.num = jcalls + 1, !.value = value]
    /\ UNCHANGED <<jpc, jtask, granted, plan>>

SetError(t, why) == lastError' = <<jtask[t].num, why>>

api_handle_js_eval(t, c) ==
    /\ BeginCall(t, "run", [NoCall EXCEPT !.op = "eval", !.evals = <<Eval("script", c)>>])
    /\ UNCHANGED <<engineVars, nativeVars, validated>>
api_handle_js_query(t) ==
    /\ BeginCall(t, "run", [NoCall EXCEPT !.op = "query", !.evals = <<Eval("query", NoCode)>>])
    /\ UNCHANGED <<engineVars, nativeVars, validated>>

Path(dir, name) == <<dir, name>>
Truncate(path) == jfiles' = [p \in DOMAIN jfiles \cup {path} |-> IF p = path THEN {} ELSE jfiles[p]]

\* The file is emptied, then written; directories are not made for validators and transformers.
api_handle_js_function_register(t, n, c) ==
    /\ BeginCall(t, "write", [NoCall EXCEPT !.op = "save", !.name = SavedAs[n], !.expect = "functions", !.evals = <<Eval("read", c)>>])
    /\ Truncate(Path("functions", SavedAs[n])) /\ jdirs' = jdirs \cup {"functions"}
    /\ UNCHANGED <<jglobals, inside, jmutex, corrupt, lastError, nativeVars, validated>>
SaveFor(t, dir, n, c) ==
    \/ /\ dir \in jdirs
       /\ BeginCall(t, "write", [NoCall EXCEPT !.op = "save", !.name = n, !.expect = dir, !.evals = <<Eval("read", c)>>])
       /\ Truncate(Path(dir, n))
       /\ UNCHANGED <<jglobals, jdirs, inside, jmutex, corrupt, lastError, nativeVars, validated>>
    \/ /\ dir \notin jdirs /\ AnswerNow(t, "save", <<"failed">>)
       /\ UNCHANGED <<engineVars, nativeVars, validated>>
api_handle_js_validator_register(t, n, c) == SaveFor(t, "validators", n, c)
api_handle_js_transformer_register(t, n, c) == SaveFor(t, "transforms", n, c)
WriteFile(t) ==
    /\ jpc[t] = "write"
    /\ jfiles' = [jfiles EXCEPT ![Path(jtask[t].expect, jtask[t].name)] = {Head(jtask[t].evals).code}]
    /\ AnswerCall(t, <<"saved">>)
    /\ UNCHANGED <<jglobals, jdirs, inside, jmutex, corrupt, lastError, nativeVars, validated>>

Give(field, x) == jglobals' = [jglobals EXCEPT ![field] = x]
ScriptCall(op, n, x, evals) == [NoCall EXCEPT !.op = op, !.name = n, !.given = x, !.evals = evals]
ReadIt == Eval("read", NoCode)

js_call_user_function(t, n, x) ==
    /\ BeginCall(t, IF Path("functions", n) \in DOMAIN jfiles THEN "run" ELSE "report",
             ScriptCall("call", n, x, <<ReadIt, Eval("call", NoCode)>>))
    /\ IF Path("functions", n) \in DOMAIN jfiles THEN Give("args", x) /\ UNCHANGED lastError
       ELSE lastError' = <<jcalls + 1, "missing">> /\ UNCHANGED jglobals
    /\ UNCHANGED <<jfiles, jdirs, inside, jmutex, corrupt, nativeVars, validated>>

\* The engine's functions for documents; a collection without a script accepts and keeps all.
js_validate_document(t, n, x) ==
    \/ /\ Path("validators", n) \in DOMAIN jfiles
       /\ BeginCall(t, "run", ScriptCall("validate", n, x, <<Eval("setup", [NoCode EXCEPT !.verdict = "true"]), ReadIt, Eval("validate", NoCode)>>))
       /\ Give("document", x) /\ UNCHANGED <<jfiles, jdirs, inside, jmutex, corrupt, lastError, nativeVars, validated>>
    \/ /\ Path("validators", n) \notin DOMAIN jfiles /\ AnswerNow(t, "validate", <<"no script">>)
       /\ UNCHANGED <<engineVars, nativeVars, validated>>
js_transform_document(t, n, x) ==
    \/ /\ Path("transforms", n) \in DOMAIN jfiles
       /\ BeginCall(t, "run", ScriptCall("transform", n, x, <<ReadIt, Eval("transform", NoCode)>>))
       /\ Give("document", x) /\ UNCHANGED <<jfiles, jdirs, inside, jmutex, corrupt, lastError, nativeVars, validated>>
    \/ /\ Path("transforms", n) \notin DOMAIN jfiles /\ AnswerNow(t, "transform", x)
       /\ UNCHANGED <<engineVars, nativeVars, validated>>
js_engine_eval_code(t, c, x) ==
    /\ BeginCall(t, "run", ScriptCall("code", "none", x, <<Eval("wrapped", c)>>))
    /\ Give("input", x) /\ lastError' = NoError
    /\ UNCHANGED <<jfiles, jdirs, inside, jmutex, corrupt, nativeVars, validated>>
WithCode(c) == <<Eval("setup", NoCode), Eval("code", c), Eval("validate", NoCode)>>
js_engine_validate_with_code(t, c, x) ==
    /\ BeginCall(t, "run", ScriptCall("validate", "none", x, WithCode(c)))
    /\ Give("document", x) /\ lastError' = NoError
    /\ UNCHANGED <<jfiles, jdirs, inside, jmutex, corrupt, nativeVars, validated>>
js_engine_transform_with_code(t, c, x) ==
    /\ BeginCall(t, "run", ScriptCall("return", "none", x, <<Eval("code", c), Eval("transform", NoCode)>>))
    /\ Give("document", x)
    /\ UNCHANGED <<jfiles, jdirs, inside, jmutex, corrupt, lastError, nativeVars, validated>>

\* The file's text is read before the mutex is taken; an empty one fails.
js_engine_eval_file(t) ==
    /\ jpc[t] = "run" /\ inside[t] = {} /\ Head(jtask[t].evals).what = "read"
    /\ LET dir == CASE jtask[t].op = "call" -> "functions" [] jtask[t].op = "validate" -> "validators" [] OTHER -> "transforms"
           content == jfiles[Path(dir, jtask[t].name)]
       IN  IF content = {} THEN AtStep(t, "report", jtask[t]) /\ SetError(t, "empty")
           ELSE /\ AtStep(t, "run", [jtask[t] EXCEPT !.evals = <<Eval("script", AnyOf(content))>> \o Tail(@), !.expect = AnyOf(content).function])
                /\ UNCHANGED lastError
    /\ UNCHANGED <<jglobals, jfiles, jdirs, inside, jmutex, corrupt, janswer, nativeVars, validated>>

JS_Eval(t) ==
    /\ jpc[t] = "run" /\ inside[t] = {} /\ Head(jtask[t].evals).what # "read"
    /\ LET e == Head(jtask[t].evals) IN
       /\ Guarded(e) => jmutex = {}
       /\ jmutex' = IF Guarded(e) THEN {t} ELSE jmutex
       /\ inside' = [inside EXCEPT ![t] = {e}]
       /\ corrupt' = corrupt \cup {<<Guarded(other), Guarded(e)>> : other \in UNION {inside[u] : u \in JThreads \ {t}}}
    /\ UNCHANGED <<jglobals, jfiles, jdirs, lastError, jpc, jtask, jcalls, janswer, nativeVars, granted, plan, validated>>

\* JS_ToBool(exception) is -1: a validator that throws, or is not there, accepts.
Ended(t) ==
    /\ inside[t] # {}
    /\ inside' = [inside EXCEPT ![t] = {}] /\ jmutex' = jmutex \ {t}
    /\ \E e \in inside[t], ok \in BOOLEAN :
        LET normal == Evaluate(jglobals, e)
            result == IF corrupt = {} THEN normal ELSE [globals |-> jglobals, ok |-> ok, value |-> <<"anything">>]
            survives == result.ok \/ e.what = "validate"
            value == IF survives /\ ~ result.ok THEN <<"true">> ELSE result.value
        IN  /\ corrupt = {} => ok = normal.ok
            /\ jglobals' = result.globals
            /\ IF ~ survives
               THEN /\ AtStep(t, IF jtask[t].doc # 0 THEN "record" ELSE "report", [jtask[t] EXCEPT !.value = <<"rejected">>])
                    /\ IF e.what = "setup" THEN UNCHANGED lastError ELSE SetError(t, "exception")
               ELSE /\ AtStep(t, IF Len(jtask[t].evals) = 1 THEN "finish" ELSE "run",
                          [jtask[t] EXCEPT !.evals = Tail(@), !.value = value])
                    /\ UNCHANGED lastError
    /\ UNCHANGED <<jfiles, jdirs, corrupt, janswer, nativeVars, validated>>

\* The variables are cleared, on success alone.
FinishCall(t) ==
    /\ jpc[t] = "finish"
    /\ LET op == jtask[t].op
           result == CASE op = "transform" -> jglobals.document
                       [] op = "return" /\ jtask[t].value = <<>> -> jglobals.document
                       [] OTHER -> jtask[t].value
       IN  /\ CASE op = "call" -> Give("args", <<>>)
                [] op = "code" -> Give("input", <<>>)
                [] op \in {"validate", "transform", "return"} -> Give("document", <<>>)
                [] OTHER -> UNCHANGED jglobals
           /\ IF op = "validate" /\ result = <<"false">> THEN SetError(t, "no information") ELSE UNCHANGED lastError
           /\ validated' = IF op = "validate" /\ result = <<"true">> THEN validated + 1 ELSE validated
           /\ IF jtask[t].doc # 0 THEN AtStep(t, "record", [jtask[t] EXCEPT !.value = result]) /\ UNCHANGED janswer
              ELSE AnswerCall(t, result)
    /\ UNCHANGED <<jfiles, jdirs, inside, jmutex, corrupt, nativeVars>>

\* The engine's error is read when nobody keeps others from setting it.
js_get_last_error(t) ==
    /\ jpc[t] = "report"
    /\ AtStep(t, "idle", NoCall)
    /\ janswer' = [jtask[t] EXCEPT !.value = <<"error">>, !.error = lastError[1]]
    /\ UNCHANGED <<engineVars, nativeVars, validated>>

-----------------------------------------------------------------------------
(* Scripts kept as documents: [lib, type, name, owner, enabled, limited,   *)
(* version, code, ref, origin, live].  db_get_document looks in library    *)
(* "default" for a type that is the name of the collection; what it finds, *)
(* nothing included, is cached, and no write clears the caches.            *)

ScriptCollections == <<"system/validators", "system/transformers", "system/functions">>
ScriptDoc(d) == IF d \in DOMAIN scriptDocs THEN {scriptDocs[d]} ELSE {}

\* Mutant: scripts are looked up where they were stored.
FindFresh_stored(coll, d) ==
    {s \in ScriptDoc(d) : s.live /\ s.lib = "system" /\ s.type = CASE coll = "system/validators" -> "validator"
        [] coll = "system/transformers" -> "transformer" [] OTHER -> "function"}

FindFresh(coll, d) == {s \in ScriptDoc(d) : s.live /\ s.lib = "default" /\ s.type = coll}

FindScript(coll, d) == IF <<coll, d>> \in DOMAIN looked THEN looked[<<coll, d>>] ELSE FindFresh(coll, d)
Searched(d) == {i \in DOMAIN ScriptCollections : \A j \in 1 .. i - 1 : FindScript(ScriptCollections[j], d) = {}}
js_native_get_script(d) == UNION {FindScript(ScriptCollections[i], d) : i \in Searched(d)}
Remember(keys) == [k \in DOMAIN looked \cup keys |-> IF k \in keys THEN FindScript(k[1], k[2]) ELSE looked[k]]
SearchedKeys(d) == {<<ScriptCollections[i], d>> : i \in Searched(d)}
RememberScript(d) == looked' = Remember(SearchedKeys(d))
Uncached == \E k \in DOMAIN looked : looked' = [x \in DOMAIN looked \ {k} |-> looked[x]]
            /\ UNCHANGED <<engineVars, scriptDocs, recorded, jpc, jtask, jcalls, janswer, granted, plan, validated>>

\* Every request is made as one user.
TheUser == "js"
check_js_permission(permission) == permission \in granted
Brackets(c) == c.runs     \* the test of the syntax counts brackets

Native(t, op, value, d) ==
    /\ MayAsk(t) /\ jcalls' = jcalls + 1
    /\ janswer' = [NoCall EXCEPT !.op = op, !.num = jcalls + 1, !.value = value, !.doc = d]
    /\ UNCHANGED <<engineVars, jpc, jtask, granted, plan, recorded, validated>>
NewScript(lib, type, x) ==
    scriptDocs' = Append(scriptDocs, [x EXCEPT !.lib = lib, !.type = type, !.live = TRUE])

\* The id that is answered is not the uuid under which the document is stored.
js_native_store_script(t, type, x) ==
    LET stored == Brackets(x.code) /\ check_js_permission("WRITE")
    IN  /\ Native(t, "store", <<IF stored THEN "stored" ELSE "refused">>, 0)
        /\ Len(scriptDocs) < MaxScripts
        /\ IF stored THEN NewScript("system", type, [x EXCEPT !.owner = TheUser, !.origin = "store"]) ELSE UNCHANGED scriptDocs
        /\ UNCHANGED looked

\* POST /api/documents stores any type in any library; db_insert_document_with_js the
\* document as it is, for no script is ever triggered.
StoreForeign(t, x) ==
    /\ Len(scriptDocs) < MaxScripts /\ Native(t, "document", <<"stored">>, 0)
    /\ NewScript(x.lib, x.type, x) /\ UNCHANGED looked

\* A query answers an object that holds the list: who expects the list finds none.
QueryAnswer(type, name) == [list |-> FALSE, documents |-> {d \in DOMAIN scriptDocs : scriptDocs[d].live /\ scriptDocs[d].enabled}]
ListedIn(answer) == IF answer.list THEN answer.documents ELSE {}
js_native_find_triggered_scripts(name) == UNION {ListedIn(QueryAnswer(c, name)) : c \in ToSet(ScriptCollections)}
Rejects(s) == scriptDocs[s].code.verdict = "false"
db_insert_document_with_js(t, x) ==
    /\ Len(scriptDocs) < MaxScripts
    /\ LET triggered == js_native_find_triggered_scripts(x.name) IN
       IF \E s \in triggered : Rejects(s) THEN Native(t, "insert", <<"invalid">>, 0) /\ UNCHANGED scriptDocs
       ELSE Native(t, "insert", <<"inserted">>, 0) /\ NewScript("default", x.name, x)
    /\ UNCHANGED looked
\* Found under type "documents"; only the time of the update is written.
db_update_document_with_js(t, d) ==
    LET found == FindScript("documents", d) IN
    /\ looked' = Remember({<<"documents", d>>})
    /\ Native(t, "update", <<IF found # {} /\ scriptDocs[d].live THEN "updated" ELSE "missing">>, 0)
    /\ scriptDocs' = IF found # {} /\ scriptDocs[d].live
                     THEN [scriptDocs EXCEPT ![d] = [AnyOf(found) EXCEPT !.live = TRUE]] ELSE scriptDocs
db_delete_document_with_js(t, d) ==
    /\ looked' = Remember({<<"documents", d>>})
    /\ Native(t, "remove", <<IF scriptDocs[d].live THEN "deleted" ELSE "missing">>, 0)
    /\ scriptDocs' = [scriptDocs EXCEPT ![d].live = FALSE]

js_native_list_scripts(t) ==
    /\ Native(t, "list", <<IF check_js_permission("READ") THEN "listed" ELSE "refused">>, Cardinality(ListedIn(QueryAnswer("any", "any"))))
    /\ UNCHANGED <<scriptDocs, looked>>
js_native_get_global_metrics(t) ==
    /\ Native(t, "metrics", <<IF check_js_permission("READ") THEN "counted" ELSE "refused">>, Cardinality(ListedIn(QueryAnswer("metrics", "any"))))
    /\ UNCHANGED <<scriptDocs, looked>>

Fetch(t, op, d) ==
    /\ RememberScript(d) /\ UNCHANGED scriptDocs
    /\ Native(t, op, <<IF js_native_get_script(d) = {} THEN "missing" ELSE IF check_js_permission("READ") THEN "found" ELSE "refused">>, 0)
api_handle_js_native_get_script(t, d) == Fetch(t, "get", d)

MayChange(s) == s.owner = TheUser \/ "ADMIN" \in granted

\* Written over the stored document, its type included, by what was found first.
js_native_update_script(t, d, type, x) ==
    LET found == js_native_get_script(d)
        updated == found # {} /\ MayChange(AnyOf(found)) /\ Brackets(x.code) /\ scriptDocs[d].live
    IN  /\ RememberScript(d)
        /\ Native(t, "change", <<IF updated THEN "updated" ELSE "refused">>, 0)
        /\ scriptDocs' = IF updated
              THEN [scriptDocs EXCEPT ![d] = [@ EXCEPT !.type = type, !.name = x.name, !.owner = AnyOf(found).owner, !.enabled = x.enabled,
                                                       !.limited = x.limited, !.code = x.code, !.ref = x.ref, !.version = AnyOf(found).version + 1]]
              ELSE scriptDocs
js_native_delete_script(t, d) ==
    LET found == js_native_get_script(d)
        deleted == found # {} /\ MayChange(AnyOf(found)) /\ scriptDocs[d].live
    IN  /\ RememberScript(d)
        /\ Native(t, "drop", <<IF deleted THEN "deleted" ELSE "refused">>, 0)
        /\ scriptDocs' = IF deleted THEN [scriptDocs EXCEPT ![d].live = FALSE] ELSE scriptDocs

\* Execution: first the permission, then the script is looked up again.
js_native_check_execution_permission(d) ==
    \E s \in js_native_get_script(d) : s.enabled /\ (s.limited => check_js_permission("WRITE"))
api_handle_js_native_execute_script(t, d, x) ==
    \/ /\ ~ js_native_check_execution_permission(d)
       /\ Native(t, "execute", <<"refused">>, 0) /\ RememberScript(d) /\ UNCHANGED scriptDocs
    \/ /\ js_native_check_execution_permission(d)
       /\ BeginCall(t, "fetch", [ScriptCall("validate", "none", x, <<>>) EXCEPT !.doc = d])
       /\ RememberScript(d) /\ UNCHANGED <<engineVars, scriptDocs, recorded, validated>>

\* A reference is the code of a document of that name, whatever it is, in library "default".
Referenced(s) ==
    IF <<"name", s.ref>> \in DOMAIN looked THEN {looked[<<"name", s.ref>>]}
    ELSE LET named == {d \in DOMAIN scriptDocs : scriptDocs[d].live /\ scriptDocs[d].lib = "default" /\ scriptDocs[d].name = s.ref}
         IN  IF named = {} THEN {{}} ELSE {{scriptDocs[d].code} : d \in named}

\* A type that is the name of a collection is read as "validator": without input nothing runs.
js_native_execute_script(t) ==
    /\ jpc[t] = "fetch"
    /\ LET found == js_native_get_script(jtask[t].doc) IN
       IF found = {} THEN AnswerCall(t, <<"failed">>) /\ RememberScript(jtask[t].doc) /\ UNCHANGED <<jglobals, lastError>>
       ELSE \E code \in IF AnyOf(found).ref = "none" THEN {{AnyOf(found).code}} ELSE Referenced(AnyOf(found)) :
            /\ LET refs == IF AnyOf(found).ref = "none" THEN {} ELSE {<<"name", AnyOf(found).ref>>}
                   seen == Remember(SearchedKeys(jtask[t].doc))
               IN  looked' = [k \in DOMAIN seen \cup refs |-> IF k \in refs THEN code ELSE seen[k]]
            /\ IF code = {} THEN AnswerCall(t, <<"failed">>) /\ UNCHANGED <<jglobals, lastError>>
               ELSE IF jtask[t].given = <<>>
               THEN AtStep(t, "record", [jtask[t] EXCEPT !.value = <<"failed">>]) /\ UNCHANGED <<jglobals, lastError, janswer>>
               ELSE /\ AtStep(t, "run", [jtask[t] EXCEPT !.evals = WithCode(AnyOf(code)), !.expect = AnyOf(code).verdict])
                    /\ Give("document", jtask[t].given) /\ lastError' = NoError /\ UNCHANGED janswer
    /\ UNCHANGED <<jfiles, jdirs, inside, jmutex, corrupt, scriptDocs, recorded, validated>>

js_native_record_execution_metrics(t) ==
    /\ jpc[t] = "record"
    /\ recorded' = recorded + 1 /\ AnswerCall(t, jtask[t].value)
    /\ UNCHANGED <<engineVars, scriptDocs, looked, validated>>

Asked(op) == {r \in plan : r.op = op}

ScriptNext ==
    \/ \E t \in JThreads :
        \/ \E r \in Asked("eval") : api_handle_js_eval(t, r.code)
        \/ \E r \in Asked("query") : api_handle_js_query(t)
        \/ \E r \in Asked("register") : api_handle_js_function_register(t, r.name, r.code)
        \/ \E r \in Asked("validator") : api_handle_js_validator_register(t, r.name, r.code)
        \/ \E r \in Asked("transformer") : api_handle_js_transformer_register(t, r.name, r.code)
        \/ \E r \in Asked("call") : js_call_user_function(t, r.name, r.given)
        \/ \E r \in Asked("validate") : js_validate_document(t, r.name, r.given)
        \/ \E r \in Asked("transform") : js_transform_document(t, r.name, r.given)
        \/ \E r \in Asked("code") : js_engine_eval_code(t, r.code, r.given)
        \/ \E r \in Asked("check") : js_engine_validate_with_code(t, r.code, r.given)
        \/ \E r \in Asked("change") : js_engine_transform_with_code(t, r.code, r.given)
        \/ WriteFile(t) \/ js_engine_eval_file(t) \/ JS_Eval(t) \/ Ended(t) \/ FinishCall(t) \/ js_get_last_error(t)
    \/ \E t \in JThreads, x \in ForeignDocs :
        \/ \E r \in Asked("store") : r.name = x.name /\ js_native_store_script(t, "function", x)
        \/ \E r \in Asked("document") : r.name = x.name /\ StoreForeign(t, x)
        \/ \E r \in Asked("insert") : r.name = x.name /\ db_insert_document_with_js(t, x)
        \/ \E r \in Asked("put"), d \in DOMAIN scriptDocs : r.name = x.name /\ js_native_update_script(t, d, "validator", x)
    \/ \E t \in JThreads, d \in DOMAIN scriptDocs :
        \/ \E r \in Asked("update") : db_update_document_with_js(t, d)
        \/ \E r \in Asked("remove") : db_delete_document_with_js(t, d)
        \/ \E r \in Asked("get") : api_handle_js_native_get_script(t, d)
        \/ \E r \in Asked("delete") : js_native_delete_script(t, d)
        \/ \E r \in Asked("execute") : api_handle_js_native_execute_script(t, d, r.given)
    \/ \E t \in JThreads :
        \/ \E r \in Asked("list") : js_native_list_scripts(t) \/ js_native_get_global_metrics(t)
        \/ js_native_execute_script(t) \/ js_native_record_execution_metrics(t)
    \/ Uncached

ScriptSpec == ScriptInit /\ [][ScriptNext]_scriptVars

-----------------------------------------------------------------------------
(* Properties.                                                             *)

ScriptTypeOK ==
    /\ jpc \in [JThreads -> {"idle", "write", "run", "finish", "report", "fetch", "record"}]
    /\ jmutex \subseteq JThreads /\ Cardinality(jmutex) <= 1
    /\ jcalls \in 0 .. MaxJsCalls /\ Len(scriptDocs) <= MaxScripts

\* A call that nobody disturbed answers what its own file's function makes of its own
\* arguments; a file that defines no function runs the one another file left behind.
OwnResult ==
    LET a == janswer IN
        corrupt = {} /\ a.op = "call" /\ a.alone /\ a.error = 0 /\ a.expect # "none" => a.value = <<a.expect>> \o a.given

\* An error is the caller's own unless another call came between; a validation reports
\* none of its own when its preparation failed.
ErrorIsOwn ==
    LET a == janswer IN
        a.value = <<"error">> /\ a.alone /\ a.op # "validate" => a.error = a.num

\* Two evaluations that take the engine's mutex are never made at the same time.
GuardedNeverMeet == <<TRUE, TRUE>> \notin corrupt

\* An engine accepts one document in its life: the names a validation declares stay.
OneValidation == corrupt = {} => validated <= 1

\* Scripts stored as scripts are never looked up, and an updated one is never found:
\* what runs is the first text of a document stored as something else.
StoredNeverRuns ==
    /\ janswer.op = "validate" /\ janswer.doc # 0 => scriptDocs[janswer.doc].origin = "documents"
    /\ \A k \in DOMAIN looked : k[1] \in ToSet(ScriptCollections) => \A s \in looked[k] : s.version = 1 /\ s.origin = "documents"
    /\ \A d \in DOMAIN scriptDocs : scriptDocs[d].version <= 2

\* No script is listed, none is counted, and none is triggered by a document.
NothingTriggered ==
    LET a == janswer IN
        (a.op \in {"list", "metrics"} => a.doc = 0) /\ (a.op = "insert" => a.value = <<"inserted">>)

\* JavaScript: undisturbed calls answer for themselves, evaluations under the mutex never
\* meet, an engine accepts one document, and scripts kept as documents never run.
ScriptsSound ==
    /\ ScriptTypeOK /\ OwnResult /\ ErrorIsOwn /\ GuardedNeverMeet /\ OneValidation
    /\ StoredNeverRuns /\ NothingTriggered
=============================================================================
