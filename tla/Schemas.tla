------------------------------- MODULE Schemas -------------------------------
(***************************************************************************)
(* Schemas: the JSON schemas that api/schema_api.c keeps as documents      *)
(* (database/json_schema_manager.c), the two validators of JSON schemas,   *)
(* and the rules of database/schema.c, read from JSON and written back.    *)
(*                                                                         *)
(* Every call of the storage layer is a step: it holds the collection's    *)
(* lock, and other requests run between.  Values are those of              *)
(* QueryLanguage; the strings 1 .. 7 are the names of the types.           *)
(***************************************************************************)
EXTENDS QueryLanguage

CONSTANTS
    VThreads,       \* threads that serve requests
    SchemaNames,    \* collections requests name; "schemas" is one
    JsonSchemas,    \* JSON schemas they store
    VDocuments,     \* values that are validated
    RuleTexts,      \* rule schemas as JSON
    LengthOf,       \* string -> its length
    Matching,       \* pattern that compiles -> the strings it matches
    MaxSchemas, MaxSchemaRequests   \* bounds of the model

ASSUME SchemaAssumption == "schemas" \in SchemaNames /\ {MaxSchemas, MaxSchemaRequests} \subseteq Nat

VARIABLES
    schemaDocs,     \* the schema documents in the order of insertion
    vpc, vtask,     \* thread -> what its handler does next, and its variables
    vrequests,      \* requests received
    remover,        \* history: document -> the thread that deleted it
    vanswer,        \* thread -> its last answer and the documents it had listed
    attached        \* the rules attached to the collection: none or one list

schemaVars == <<schemaDocs, vpc, vtask, vrequests, remover, vanswer, attached>>

NoWork == [coll |-> "none", schema |-> None, todo |-> {}, found |-> {}, failed |-> FALSE]
NoRules == {}
TheOne(S) == CHOOSE x \in S : TRUE
Get(v, k) == json_object_get(v, <<k>>)
IsNumber(v) == v[1] \in Numeric

-----------------------------------------------------------------------------
(* The validators.                                                         *)

\* The type a schema asks for, by name.
TypeOf(s) == IF Get(s, "type")[1] = "str" /\ Get(s, "type")[2] \in DOMAIN JsonTypes
             THEN JsonTypes[Get(s, "type")[2]] ELSE "none"

RequiredPresent(s, doc) ==
    \A i \in DOMAIN Elements(Get(s, "required")) : json_object_get(doc, Elements(Get(s, "required"))[i][2]) # None

\* json_schema_manager.c: integer and null ask for nothing, an integer is no number, and
\* what a schema requires counts only beside properties.
RECURSIVE db_validate_json_schema(_, _)
db_validate_json_schema(s, doc) ==
    LET properties == Get(s, "properties") IN
    /\ Get(s, "type")[1] = "str"
    /\ TypeOf(s) \in {"obj", "arr", "str", "num", "bool"} => doc[1] = TypeOf(s)
    /\ TypeOf(s) = "obj" /\ properties[1] = "obj" =>
        /\ RequiredPresent(s, doc)
        /\ \A i \in DOMAIN Entries(doc) :
              LET p == json_object_get(properties, Entries(doc)[i][1]) IN
              p # None => db_validate_json_schema(p, Entries(doc)[i][2])

AtLeast(s, key, n) == IsNumber(Get(s, key)) => n >= Get(s, key)[2]
AtMost(s, key, n) == IsNumber(Get(s, key)) => n <= Get(s, key)[2]

validate_string(s, v) ==
    /\ AtLeast(s, "minLength", LengthOf[v[2]]) /\ AtMost(s, "maxLength", LengthOf[v[2]])
    /\ Get(s, "enum")[1] = "arr" => v \in ToSet(Get(s, "enum")[2])
validate_number(s, v) ==
    /\ AtLeast(s, "minimum", v[2]) /\ AtMost(s, "maximum", v[2])
    /\ IsNumber(Get(s, "multipleOf")) /\ Get(s, "multipleOf")[2] # 0 => v[2] % Get(s, "multipleOf")[2] = 0

\* json_schema_validator.c.
RECURSIVE validate_value(_, _)
validate_object(s, v) ==
    LET properties == Get(s, "properties") IN
    /\ \A i \in DOMAIN Entries(properties) :
          LET p == Entries(properties)[i] IN
          json_object_get(v, p[1]) # None => validate_value(p[2], json_object_get(v, p[1]))
    /\ RequiredPresent(s, v)
    /\ Get(s, "additionalProperties") = <<"bool", 0>> /\ properties # None =>
          \A i \in DOMAIN Entries(v) : json_object_get(properties, Entries(v)[i][1]) # None
validate_array(s, v) ==
    /\ Get(s, "items") # None => \A i \in DOMAIN v[2] : validate_value(Get(s, "items"), v[2][i])
    /\ AtLeast(s, "minItems", Len(v[2])) /\ AtMost(s, "maxItems", Len(v[2]))
validate_value(s, v) ==
    /\ s[1] = "obj"
    /\ LET t == TypeOf(s) IN
       CASE t = "obj" -> v[1] = t /\ validate_object(s, v)
         [] t = "arr" -> v[1] = t /\ validate_array(s, v)
         [] t = "str" -> v[1] = t /\ validate_string(s, v)
         [] t = "num" -> IsNumber(v) /\ validate_number(s, v)
         [] t = "int" -> v[1] = t /\ validate_number(s, v)
         [] t \in {"bool", "null"} -> v[1] = t
         [] OTHER -> TRUE

-----------------------------------------------------------------------------
(* The rules of schema.c: [type, field, param], param a set of one or none. *)

RuleTypes == {"type", "required", "minLength", "maxLength", "minValue", "maxValue", "pattern", "enum", "nested"}
RuleType(v) == IF v[1] = "word" /\ v[2] \in RuleTypes THEN v[2] ELSE "unknown"

db_create_schema_rule(type, field) ==
    [type |-> type, field |-> field,
     param |-> CASE type = "type" -> {"obj"} [] type = "required" -> {1} [] type = "maxLength" -> {1024}
                 [] type = "maxValue" -> {1000000} [] type \in {"minLength", "minValue"} -> {0} [] OTHER -> {}]

\* The value fits the rule, or the rule keeps its default.
Fits(type, v) ==
    CASE type = "type" -> v[1] = "str" /\ v[2] \in DOMAIN JsonTypes
      [] type = "required" -> v[1] = "bool"
      [] type \in {"minLength", "maxLength", "minValue", "maxValue"} -> IsNumber(v)
      [] type = "pattern" -> v[1] = "str" [] type = "enum" -> v[1] = "arr"
      [] type = "nested" -> Get(v, "name")[1] = "str" /\ Get(v, "rules")[1] = "arr"

\* A rule whose pattern does not compile is left out.
db_add_schema_rule(rules, rule) ==
    IF rule.type = "pattern" /\ ~ rule.param \subseteq DOMAIN Matching THEN rules ELSE Append(rules, rule)

RECURSIVE db_schema_from_json(_), db_schema_to_json(_), db_validate_document(_, _)
db_schema_from_json(j) ==
    LET Rule(o) == LET type == RuleType(Get(o, "type"))  v == Get(o, "value")
                       rule == db_create_schema_rule(type, Get(o, "field")[2])
                   IN  IF ~ Fits(type, v) THEN rule
                       ELSE [rule EXCEPT !.param = CASE type = "type" -> {JsonTypes[v[2]]}
                                                     [] type = "enum" -> {v}
                                                     [] type = "nested" -> db_schema_from_json(v)
                                                     [] OTHER -> {v[2]}]
        Read(rules, o) == IF o[1] = "obj" /\ Get(o, "field")[1] = "path" /\ RuleType(Get(o, "type")) # "unknown"
                          THEN db_add_schema_rule(rules, Rule(o)) ELSE rules
    IN  IF Get(j, "name")[1] # "str" \/ Get(j, "rules")[1] # "arr" THEN NoRules
        ELSE {FoldLeft(Read, <<>>, Get(j, "rules")[2])}

\* A pattern, values or a nested schema that was never set is not written.
db_schema_to_json(rules) ==
    LET Entry(k, v) == << <<k>>, v>>
        Value(type, x) ==
            CASE type = "type" -> <<"str", CHOOSE i \in DOMAIN JsonTypes : JsonTypes[i] = x>>
              [] type = "required" -> <<"bool", x>>
              [] type \in {"minLength", "maxLength"} -> <<"int", x>>
              [] type \in {"minValue", "maxValue"} -> <<"num", x>>
              [] type = "pattern" -> <<"str", x>>
              [] type = "enum" -> x
              [] type = "nested" -> db_schema_to_json(x)
        Object(r) == <<"obj", <<Entry("field", <<"path", r.field>>), Entry("type", <<"word", r.type>>)>>
                              \o IF r.param = {} THEN <<>> ELSE <<Entry("value", Value(r.type, TheOne(r.param)))>> >>
    IN  <<"obj", <<Entry("name", <<"str", 9>>), Entry("rules", <<"arr", [i \in DOMAIN rules |-> Object(rules[i])]>>)>> >>

\* A part of a path is a key of an object.
get_json_value_at_path(doc, path) == FoldLeft(LAMBDA v, part : json_object_get(v, <<part>>), doc, path)

\* The rules that fail; an enumeration without values and a rule for what is not there
\* ask for nothing.
RuleFails(r, doc) ==
    LET v == get_json_value_at_path(doc, r.field) IN
    \E x \in r.param :
        IF v = None THEN r.type = "required" /\ x = 1
        ELSE CASE r.type = "type" -> v[1] # x
               [] r.type = "minLength" -> v[1] = "str" /\ LengthOf[v[2]] < x
               [] r.type = "maxLength" -> v[1] = "str" /\ LengthOf[v[2]] > x
               [] r.type = "minValue" -> IsNumber(v) /\ v[2] < x
               [] r.type = "maxValue" -> IsNumber(v) /\ v[2] > x
               [] r.type = "pattern" -> v[1] = "str" /\ v[2] \notin Matching[x]
               [] r.type = "enum" -> \A i \in DOMAIN x[2] : ~ json_equals(v, x[2][i])
               [] r.type = "nested" -> db_validate_document(x, v) # <<>>
               [] r.type = "required" -> FALSE

\* The field of the first rule that fails; a nested one is named after its own.
db_validate_document(rules, doc) ==
    LET failing == {i \in DOMAIN rules : RuleFails(rules[i], doc)}
        r == rules[CHOOSE i \in failing : \A j \in failing : i <= j]
    IN  IF failing = {} THEN <<>>
        ELSE IF r.type = "nested" THEN r.field \o db_validate_document(TheOne(r.param), get_json_value_at_path(doc, r.field))
        ELSE r.field

-----------------------------------------------------------------------------
SchemaInit ==
    /\ schemaDocs = <<>> /\ vrequests = 0 /\ remover = <<>> /\ attached = NoRules
    /\ vpc = [t \in VThreads |-> "idle"] /\ vtask = [t \in VThreads |-> NoWork]
    /\ vanswer = [t \in VThreads |-> <<"none", {}>>]

Kept == {d \in DOMAIN schemaDocs : schemaDocs[d].live}

\* The collection asked for takes the place of "schemas" in the query, and "schemas" that
\* of the collection in every document that is inserted.
SchemasFound(c) == {d \in Kept : schemaDocs[d].coll = c}
FirstOne(S) == CHOOSE d \in S : \A e \in S : d <= e

ToStep(t, step, work) == vpc' = [vpc EXCEPT ![t] = step] /\ vtask' = [vtask EXCEPT ![t] = work]
Respond(t, code) ==
    /\ ToStep(t, "idle", NoWork) /\ vanswer' = [vanswer EXCEPT ![t] = <<code, vtask[t].found>>]
Arrive(t) == vpc[t] = "idle" /\ vrequests < MaxSchemaRequests /\ vrequests' = vrequests + 1

Deleted(t, d) ==
    IF schemaDocs[d].live
    THEN schemaDocs' = [schemaDocs EXCEPT ![d].live = FALSE] /\ remover' = [remover EXCEPT ![d] = t]
    ELSE UNCHANGED <<schemaDocs, remover>>

\* Every collection exists (db_get_collection returns one that stands for all).
api_handle_schema_create(t, c, s) ==
    /\ Arrive(t)
    /\ ToStep(t, IF SchemasFound(c) = {} THEN "insert" ELSE "replace",
              [NoWork EXCEPT !.coll = c, !.schema = s, !.found = IF SchemasFound(c) = {} THEN {} ELSE {FirstOne(SchemasFound(c))}])
    /\ UNCHANGED <<schemaDocs, remover, vanswer, attached>>

\* Whether the old one is still there does not matter.
DeleteOld(t) ==
    /\ vpc[t] = "replace"
    /\ Deleted(t, FirstOne(vtask[t].found))
    /\ ToStep(t, "insert", vtask[t])
    /\ UNCHANGED <<vrequests, vanswer, attached>>

db_store_json_schema(t) ==
    /\ vpc[t] = "insert" /\ Len(schemaDocs) < MaxSchemas
    /\ schemaDocs' = Append(schemaDocs, [coll |-> "schemas", named |-> vtask[t].coll, schema |-> vtask[t].schema, live |-> TRUE])
    /\ remover' = Append(remover, "nobody")
    /\ Respond(t, "stored") /\ UNCHANGED <<vrequests, attached>>

\* The schema found first, or none; a document is validated against it.
api_handle_schema_get(t, c) ==
    /\ Arrive(t)
    /\ vanswer' = [vanswer EXCEPT ![t] = IF SchemasFound(c) = {} THEN <<"missing", {}>> ELSE <<"found", {FirstOne(SchemasFound(c))}>>]
    /\ UNCHANGED <<schemaDocs, vpc, vtask, remover, attached>>
api_handle_schema_validate(t, c, doc) ==
    /\ Arrive(t)
    /\ vanswer' = [vanswer EXCEPT ![t] =
            IF SchemasFound(c) = {} THEN <<"missing", {}>>
            ELSE <<IF db_validate_json_schema(schemaDocs[FirstOne(SchemasFound(c))].schema, doc) THEN "valid" ELSE "invalid",
                   {FirstOne(SchemasFound(c))}>>]
    /\ UNCHANGED <<schemaDocs, vpc, vtask, remover, attached>>

\* All that were found, one by one.
api_handle_schema_delete(t, c) ==
    /\ Arrive(t)
    /\ ToStep(t, "delete", [NoWork EXCEPT !.coll = c, !.todo = SchemasFound(c), !.found = SchemasFound(c)])
    /\ UNCHANGED <<schemaDocs, remover, vanswer, attached>>
db_delete_json_schema(t) ==
    /\ vpc[t] = "delete"
    /\ IF vtask[t].todo = {} THEN Respond(t, IF vtask[t].failed THEN "failed" ELSE "deleted") /\ UNCHANGED <<schemaDocs, remover>>
       ELSE LET d == FirstOne(vtask[t].todo) IN
            /\ Deleted(t, d) /\ UNCHANGED vanswer
            /\ ToStep(t, "delete", [vtask[t] EXCEPT !.todo = @ \ {d}, !.failed = @ \/ ~ schemaDocs[d].live])
    /\ UNCHANGED <<vrequests, attached>>

\* Rules are attached to the one collection that stands for all, and detached.
SchemaLists == {db_schema_from_json(j) : j \in RuleTexts} \ {NoRules}
db_attach_schema == \E rules \in SchemaLists : attached' = rules
                                              /\ UNCHANGED <<schemaDocs, vpc, vtask, vrequests, remover, vanswer>>
db_detach_schema == attached' = NoRules /\ UNCHANGED <<schemaDocs, vpc, vtask, vrequests, remover, vanswer>>

\* Rules written as JSON and read again.
Resave == attached # NoRules /\ attached' = db_schema_from_json(db_schema_to_json(TheOne(attached)))
                             /\ UNCHANGED <<schemaDocs, vpc, vtask, vrequests, remover, vanswer>>

SchemaNext ==
    \/ \E t \in VThreads :
        \/ \E c \in SchemaNames :
            \/ \E s \in JsonSchemas : api_handle_schema_create(t, c, s)
            \/ api_handle_schema_get(t, c)
            \/ \E doc \in VDocuments : api_handle_schema_validate(t, c, doc)
            \/ api_handle_schema_delete(t, c)
        \/ DeleteOld(t) \/ db_store_json_schema(t) \/ db_delete_json_schema(t)
    \/ db_attach_schema \/ db_detach_schema \/ Resave

SchemaSpec == SchemaInit /\ [][SchemaNext]_schemaVars

-----------------------------------------------------------------------------
(* Properties.                                                             *)

SchemaTypeOK ==
    /\ vpc \in [VThreads -> {"idle", "replace", "insert", "delete"}]
    /\ vrequests \in 0 .. MaxSchemaRequests /\ Len(schemaDocs) <= MaxSchemas
    /\ Len(remover) = Len(schemaDocs)

\* A schema is filed under "schemas" whatever collection it is for: only there is one
\* found, replaced or deleted, and there everybody's is.
FoundOnlyUnderSchemas ==
    \A t \in VThreads : vtask[t].found # {} => vtask[t].coll = "schemas"

\* A request for another collection takes no schema away: they pile up.
OnlySchemasRemoves ==
    [][\A d \in Kept : ~ schemaDocs'[d].live => \E t \in VThreads : vtask[t].coll = "schemas" /\ remover'[d] = t]_schemaVars

\* A deletion fails only if another request deleted one of the schemas it had listed.
DeleteFailsOnlyIfRaced ==
    \A t \in VThreads : vanswer[t][1] = "failed" => \E d \in vanswer[t][2] : remover[d] # t

\* Schemas of types, properties and required ones alone, on which the validators say the same.
RECURSIVE PlainSchema(_)
PlainSchema(s) ==
    /\ TypeOf(s) \in {"obj", "arr", "str", "bool"}
    /\ \A i \in DOMAIN Entries(s) : Entries(s)[i][1] \in {<<"type">>, <<"properties">>, <<"required">>}
    /\ Get(s, "required") # None => Get(s, "properties")[1] = "obj"
    /\ \A i \in DOMAIN Entries(Get(s, "properties")) : PlainSchema(Entries(Get(s, "properties"))[i][2])
Agreed == {s \in JsonSchemas : PlainSchema(s) => \A doc \in VDocuments : db_validate_json_schema(s, doc) = validate_value(s, doc)}
ValidatorsAgree == \A d \in Kept : schemaDocs[d].schema \in Agreed

\* Rules that are written as JSON and read again are the same rules.
ResaveKeepsRules == \A rules \in attached : db_schema_from_json(db_schema_to_json(rules)) = {rules}

\* Rules and a JSON schema that say the same of one field agree on it.
Says(s, r) ==
    \E x \in r.param :
        CASE r.type = "type" -> Get(s, "type") = <<"str", CHOOSE i \in DOMAIN JsonTypes : JsonTypes[i] = x>>
          [] r.type \in {"minLength", "maxLength"} -> Get(s, r.type) = <<"int", x>>
          [] OTHER -> FALSE
Contradict(s, r) ==
    /\ TypeOf(s) = "str" /\ Says(s, r)
    /\ \E doc \in VDocuments :
          LET v == get_json_value_at_path(doc, r.field) IN v # None /\ RuleFails(r, doc) /\ validate_value(s, v)
RulesAgree ==
    \A rules \in attached : \A r \in ToSet(rules) : \A d \in Kept : ~ Contradict(schemaDocs[d].schema, r)

\* Schemas: found and removed only under "schemas", deletions that fail had a rival, the
\* validators agree on plain schemas, and rules survive being saved.
SchemasSound ==
    /\ [](/\ SchemaTypeOK /\ FoundOnlyUnderSchemas /\ DeleteFailsOnlyIfRaced /\ ValidatorsAgree /\ RulesAgree
           /\ ResaveKeepsRules)
    /\ OnlySchemasRemoves
=============================================================================
