---------------------------- MODULE QueryLanguage ----------------------------
(***************************************************************************)
(* The query language of query/query_language.c: a query is parsed to an   *)
(* expression, matched against the documents one by one, and what matched  *)
(* is sorted, paged and projected.                                         *)
(*                                                                         *)
(* A JSON value is <<type, content>>: numbers for booleans, numbers and    *)
(* strings (strcmp orders strings as their numbers; 1 .. 7 are the names   *)
(* of the types, AscWord is "asc"), a sequence for an array and, for an    *)
(* object, its entries <<key, value>> in their order.  A key is the tuple  *)
(* of its dotted parts.                                                    *)
(***************************************************************************)
EXTENDS Integers, Sequences, FiniteSets, SequencesExt

CONSTANTS
    Searches,   \* the calls: [query, options, documents]
    Bracketed,  \* for a part like "a[0]": [name, index]
    QIntMax     \* largest int

ASSUME QueryAssumption == QIntMax \in Nat

VARIABLES
    search,     \* the call of this behaviour
    qstage,     \* "parse", "match", "sort", "page", "done", "endless" or "trap"
    expr,       \* the parsed expression
    matches,    \* the documents that matched
    passes,     \* documents looked at, then passes of the sort
    found       \* the result: [documents, total, pages]

queryVars == <<search, qstage, expr, matches, passes, found>>

JsonTypes == <<"null", "bool", "num", "int", "str", "arr", "obj">>
Rank(v) == CHOOSE i \in DOMAIN JsonTypes : JsonTypes[i] = v[1]
AscWord == 8
None == <<"none", 0>>
UuidKey == <<"uuid">>

Elements(v) == IF v[1] = "arr" THEN v[2] ELSE <<>>
Entries(v) == IF v[1] = "obj" THEN v[2] ELSE <<>>
json_object_get(v, key) ==
    LET at == {i \in DOMAIN Entries(v) : Entries(v)[i][1] = key} IN
    IF at = {} THEN None ELSE Entries(v)[CHOOSE i \in at : TRUE][2]

Numeric == {"num", "int"}
RECURSIVE json_equals(_, _)
json_equals(v, w) ==
    IF v[1] # w[1] THEN {v[1], w[1]} = Numeric /\ v[2] = w[2]
    ELSE IF v[1] \notin {"arr", "obj"} THEN v[2] = w[2]
    ELSE /\ Len(v[2]) = Len(w[2])
         /\ IF v[1] = "arr" THEN \A i \in DOMAIN v[2] : json_equals(v[2][i], w[2][i])
            ELSE \A i \in DOMAIN v[2] :
                    LET other == json_object_get(w, v[2][i][1]) IN
                    other # None /\ json_equals(v[2][i][2], other)

Logical == {"$and", "$or", "$not", "$nor"}
Comparisons == {"$eq", "$ne", "$gt", "$gte", "$lt", "$lte", "$in", "$nin", "$exists", "$type", "$all", "$size"}
Operators == Logical \cup Comparisons \cup {"$elemMatch"}

\* What is no operator is OP_FIELD, which matches nothing.
query_parse_operator(key) == IF Len(key) = 1 /\ Head(key) \in Operators THEN Head(key) ELSE "field"
IsDollar(key) == Head(key) \in Operators \cup {"$other"}

NoExpr == [op |-> "null", path |-> <<>>, value |-> None, kids |-> <<>>]
query_create_field_expr(path, op, value) == [NoExpr EXCEPT !.op = op, !.path = path, !.value = value]
query_create_logical_expr(op, kids) == [NoExpr EXCEPT !.op = op, !.kids = kids]

\* The operators of one field: each becomes a node without children, $not and
\* $elemMatch too.
parse_comparison_expr(path, value) ==
    LET node == [i \in DOMAIN Entries(value) |->
                    query_create_field_expr(path, query_parse_operator(Entries(value)[i][1]), Entries(value)[i][2])]
    IN  IF Entries(value) = <<>> THEN NoExpr
        ELSE IF Len(node) = 1 THEN node[1] ELSE query_create_logical_expr("$and", node)

RECURSIVE parse_field_expr(_, _), parse_logical_expr(_, _)
parse_field_expr(path, value) ==
    IF query_parse_operator(path) \in Logical THEN parse_logical_expr(Head(path), value)
    ELSE IF Entries(value) = <<>> THEN query_create_field_expr(path, "$eq", value)
    ELSE IF \E i \in DOMAIN Entries(value) : IsDollar(Entries(value)[i][1])
    THEN parse_comparison_expr(path, value)
    ELSE query_create_logical_expr("$and",
            [i \in DOMAIN Entries(value) |-> parse_field_expr(path \o Entries(value)[i][1], Entries(value)[i][2])])

\* The condition of $not has no field; the filters of the others are objects.
parse_logical_expr(op, value) ==
    LET Filter(f) == LET kids == [i \in DOMAIN Entries(f) |-> parse_field_expr(Entries(f)[i][1], Entries(f)[i][2])]
                     IN  IF Len(kids) = 1 THEN kids[1] ELSE query_create_logical_expr("$and", kids)
        kids == [i \in DOMAIN Elements(value) |-> Filter(Elements(value)[i])]
    IN  IF op = "$not"
        THEN LET kid == parse_comparison_expr(<<>>, value) IN
             IF kid = NoExpr THEN NoExpr ELSE query_create_logical_expr(op, <<kid>>)
        ELSE IF kids = <<>> \/ (\E i \in DOMAIN kids : Elements(value)[i][1] # "obj" \/ kids[i] = NoExpr) THEN NoExpr
        ELSE query_create_logical_expr(op, kids)

\* The object under "query", or the query itself.  One logical operator at the top
\* hides every other key; no memory is allocated for no condition.
Unwrapped(q) == IF json_object_get(q, <<"query">>) # None THEN json_object_get(q, <<"query">>) ELSE q
ParseFails(q) == Entries(Unwrapped(q)) = <<>>
Parsed(q) ==
    LET es == Entries(Unwrapped(q))
        logicals == {i \in DOMAIN es : query_parse_operator(es[i][1]) \in Logical}
    IN  IF logicals # {}
        THEN LET i == CHOOSE i \in logicals : \A j \in logicals : i <= j IN
             parse_logical_expr(Head(es[i][1]), es[i][2])
        ELSE query_create_logical_expr("$and", [i \in DOMAIN es |-> parse_field_expr(es[i][1], es[i][2])])

\* A path of one part is a key, brackets and all; of a longer one a part in brackets
\* is an element of the array under its name.
Descend(v, part) ==
    IF part \notin DOMAIN Bracketed THEN json_object_get(v, <<part>>)
    ELSE LET b == Bracketed[part]
             array == IF b.name = "" THEN v ELSE json_object_get(v, <<b.name>>)
         IN  IF b.index < Len(Elements(array)) THEN Elements(array)[b.index + 1] ELSE None
query_extract_field(doc, path) ==
    IF path = <<>> THEN None
    ELSE IF Len(path) = 1 THEN json_object_get(doc, path)
    ELSE FoldLeft(Descend, doc, path)

\* Numbers compare with numbers, strings with strings.
Ordered(v, w) == {v[1], w[1]} \subseteq Numeric \/ (v[1] = "str" /\ w[1] = "str")

match_comparison_operator(op, v, w) ==
    LET Among(x, array) == \E i \in DOMAIN Elements(array) : json_equals(x, Elements(array)[i]) IN
    IF v = None
    THEN CASE op = "$eq" -> w[1] = "null"
           [] op = "$ne" -> w[1] # "null"
           [] op = "$exists" -> w = <<"bool", 0>>
           [] OTHER -> FALSE
    ELSE CASE op = "$eq"  -> json_equals(v, w)
           [] op = "$ne"  -> ~ json_equals(v, w)
           [] op = "$gt"  -> Ordered(v, w) /\ v[2] > w[2]
           [] op = "$gte" -> Ordered(v, w) /\ v[2] >= w[2]
           [] op = "$lt"  -> Ordered(v, w) /\ v[2] < w[2]
           [] op = "$lte" -> Ordered(v, w) /\ v[2] <= w[2]
           [] op = "$in"  -> Among(v, w)
           [] op = "$nin" -> ~ Among(v, w)
           [] op = "$exists" -> w = <<"bool", 1>>
           [] op = "$type" -> \/ w[1] = "int" /\ Rank(v) = w[2] + 1
                              \/ w[1] = "str" /\ w[2] = Rank(v)
           [] op = "$all"  -> v[1] = "arr" /\ w[1] = "arr" /\ \A i \in DOMAIN w[2] : Among(w[2][i], v)
           [] op = "$size" -> v[1] = "arr" /\ w[1] \in Numeric /\ Len(v[2]) = w[2]

RECURSIVE query_match_document(_, _)
query_match_document(e, doc) ==
    LET Kid(i) == query_match_document(e.kids[i], doc) IN
    CASE e.op = "$and" -> \A i \in DOMAIN e.kids : Kid(i)
      [] e.op = "$or"  -> \E i \in DOMAIN e.kids : Kid(i)
      [] e.op = "$nor" -> \A i \in DOMAIN e.kids : ~ Kid(i)
      [] e.op = "$not" -> Len(e.kids) = 1 /\ ~ Kid(1)
      [] e.op \in Comparisons -> match_comparison_operator(e.op, query_extract_field(doc, e.path), e.value)
      [] e.op = "$elemMatch" ->
            LET array == Elements(query_extract_field(doc, e.path)) IN
            \E k \in DOMAIN array : array[k][1] = "obj" /\ \A i \in DOMAIN e.kids : query_match_document(e.kids[i], array[k])
      [] OTHER -> FALSE

\* The mode is that of the first 0 or 1; another that disagrees returns the document
\* whole.  Kept is what is included in the one mode and named in the other.
Flag(v) == IF v[1] \in {"int", "bool"} THEN (IF v[2] # 0 THEN "in" ELSE "out") ELSE "none"

Keeps(mode, flag) == flag = mode
query_apply_projection(doc, projection) ==
    LET named == SelectSeq(Entries(projection), LAMBDA e : e[1] # UuidKey /\ Flag(e[2]) # "none")
        mode == Flag(Head(named)[2])
        id == SelectSeq(Entries(doc), LAMBDA e : e[1] = UuidKey /\ Flag(json_object_get(projection, UuidKey)) # "out")
        rest == SelectSeq(Entries(doc), LAMBDA e : e[1] # UuidKey /\ Keeps(mode, Flag(json_object_get(projection, e[1]))))
    IN  IF named = <<>> \/ (\E i \in DOMAIN named : Flag(named[i][2]) # mode) THEN doc
        ELSE <<"obj", id \o rest>>

\* Values of two types compare as their types, an integer and a number too.
compare_documents(a, b, path, ascending) ==
    LET v == query_extract_field(a, path)  w == query_extract_field(b, path)
        result == IF v = None /\ w = None THEN 0 ELSE IF v = None THEN -1 ELSE IF w = None THEN 1
                  ELSE IF v[1] # w[1] THEN Rank(v) - Rank(w)
                  ELSE IF v[1] \in {"null", "arr", "obj"} THEN 0 ELSE v[2] - w[2]
    IN  IF ascending THEN result ELSE - result
Ascending(v) == IF v[1] = "int" THEN v[2] >= 0 ELSE v[1] = "str" => v[2] = AscWord
Swapped(a, b, sort) ==
    LET cmp == [k \in DOMAIN Entries(sort) |-> compare_documents(a, b, Entries(sort)[k][1], Ascending(Entries(sort)[k][2]))]
        told == {k \in DOMAIN cmp : cmp[k] # 0}
    IN  told # {} /\ cmp[CHOOSE k \in told : \A l \in told : k <= l] > 0

\* Mutant: a pass stops one pair early.
query_apply_sort_short(docs, sort, i) ==
    FoldLeft(LAMBDA s, j : IF Swapped(s[j], s[j + 1], sort) THEN [s EXCEPT ![j] = s[j + 1], ![j + 1] = s[j]] ELSE s,
             docs, [j \in 1 .. (Len(docs) - i - 1) |-> j])

\* Pass i of the bubble sort.
query_apply_sort(docs, sort, i) ==
    FoldLeft(LAMBDA s, j : IF Swapped(s[j], s[j + 1], sort) THEN [s EXCEPT ![j] = s[j + 1], ![j + 1] = s[j]] ELSE s,
             docs, [j \in 1 .. (Len(docs) - i) |-> j])

-----------------------------------------------------------------------------
(* Options and pages.                                                      *)

\* What an int holds of n.
QueryInt(n) == ((n + QIntMax + 1) % (2 * (QIntMax + 1))) - QIntMax - 1
DividedBy(n, d) == IF n >= 0 THEN n \div d ELSE - ((- n) \div d)

\* A page size replaces limit and skip; a cursor is kept and never applied.
query_parse_options(o) ==
    LET Of(key) == json_object_get(o, <<key>>)
        Number(key, least) == IF Of(key)[1] \in Numeric /\ Of(key)[2] > least THEN Of(key)[2] ELSE least
        page == Number("page", 1)  size == Number("page_size", 0)
    IN  [limit |-> IF size > 0 THEN size ELSE Number("limit", 0),
         skip  |-> IF size > 0 THEN QueryInt((page - 1) * size) ELSE Number("skip", 0),
         page  |-> page, size |-> size,
         paging |-> IF Of("cursor")[1] = "str" THEN "cursor"
                    ELSE IF {Of("page")[1], Of("page_size")[1]} \cap Numeric # {} THEN "offset" ELSE "none",
         sort |-> IF Of("sort")[1] = "obj" THEN Of("sort") ELSE None,
         projection |-> IF Of("projection")[1] = "obj" THEN Of("projection") ELSE None]

Options == query_parse_options(search.options)

\* The values of the sort fields of the last document.
query_generate_cursor(doc, sort) ==
    SelectSeq([i \in DOMAIN Entries(sort) |-> <<Entries(sort)[i][1], query_extract_field(doc, Entries(sort)[i][1])>>],
              LAMBDA e : e[2] # None)

NoPages == [total |-> 0, prev |-> FALSE, next |-> FALSE, cursor |-> None]
query_create_pagination_info(o, total, docs) ==
    LET count == DividedBy(QueryInt(total + o.size - 1), o.size)
        full == Len(docs) = o.limit
    IN  CASE total = 0 \/ o.paging = "none" -> NoPages
          [] o.paging = "offset" ->
                [total |-> count, prev |-> o.page > 1, next |-> o.page < count, cursor |-> None]
          [] o.paging = "cursor" ->
                [total |-> 0, prev |-> TRUE, next |-> full,
                 cursor |-> IF full /\ docs # <<>> /\ o.sort # None
                            THEN <<"obj", query_generate_cursor(Last(docs), o.sort)>> ELSE None]

NothingFound == [documents |-> <<>>, total |-> 0, pages |-> NoPages]

-----------------------------------------------------------------------------
QueryInit ==
    /\ search \in Searches
    /\ qstage = "parse" /\ expr = NoExpr /\ matches = <<>> /\ passes = 0 /\ found = NothingFound

\* The caller stops at an error; no expression finds nothing.
query_parse ==
    /\ qstage = "parse"
    /\ IF ParseFails(search.query) THEN qstage' = "done" /\ UNCHANGED expr
       ELSE /\ expr' = Parsed(search.query)
            /\ qstage' = IF expr' = NoExpr THEN "done" ELSE "match"
    /\ UNCHANGED <<search, matches, passes, found>>

\* The next document.
query_execute ==
    /\ qstage = "match" /\ passes < Len(search.documents)
    /\ passes' = passes + 1
    /\ matches' = IF query_match_document(expr, search.documents[passes + 1])
                  THEN Append(matches, search.documents[passes + 1]) ELSE matches
    /\ UNCHANGED <<search, qstage, expr, found>>

AllMatched ==
    /\ qstage = "match" /\ passes = Len(search.documents)
    /\ passes' = 0
    /\ qstage' = IF Options.sort # None /\ Entries(Options.sort) # <<>> THEN "sort" ELSE "page"
    /\ UNCHANGED <<search, expr, matches, found>>

\* The number of passes is one less than the documents', as a size_t: with none the
\* loop runs 2^64 - 1 times, each as long.
SortPass ==
    /\ qstage = "sort"
    /\ IF matches = <<>> THEN qstage' = "endless" /\ UNCHANGED <<matches, passes>>
       ELSE IF passes = Len(matches) - 1 THEN qstage' = "page" /\ UNCHANGED <<matches, passes>>
       ELSE /\ matches' = query_apply_sort(matches, Options.sort, passes + 1)
            /\ passes' = passes + 1 /\ UNCHANGED qstage
    /\ UNCHANGED <<search, expr, found>>

\* skip + limit is an int, or what the compiler makes of it.
Ends(o) == LET n == Len(matches) IN
           IF o.limit = 0 THEN {n}
           ELSE {IF e < n THEN e ELSE n : e \in {o.skip + o.limit, QueryInt(o.skip + o.limit)}}
Slice(o, end) == SubSeq(matches, (IF o.skip < 0 THEN 0 ELSE o.skip) + 1, end)

\* A page without a page size is divided by zero.
PageOut ==
    /\ qstage = "page"
    /\ \E end \in Ends(Options) :
          LET o == Options
              docs == [i \in DOMAIN Slice(o, end) |->
                          IF o.projection = None THEN Slice(o, end)[i] ELSE query_apply_projection(Slice(o, end)[i], o.projection)]
          IN  IF o.paging = "offset" /\ o.size = 0 /\ matches # <<>> THEN qstage' = "trap" /\ UNCHANGED found
              ELSE /\ qstage' = "done"
                   /\ found' = [documents |-> docs, total |-> Len(matches),
                                pages |-> query_create_pagination_info(o, Len(matches), docs)]
    /\ UNCHANGED <<search, expr, matches, passes>>

QueryNext ==
    \/ query_parse \/ query_execute \/ AllMatched
    \/ SortPass \/ PageOut

QuerySpec == QueryInit /\ [][QueryNext]_queryVars

-----------------------------------------------------------------------------
(* Properties.                                                             *)

QueryTypeOK ==
    /\ qstage \in {"parse", "match", "sort", "page", "done", "endless", "trap"}
    /\ passes \in 0 .. Len(search.documents) /\ Len(matches) <= Len(search.documents)
    /\ found.total \in 0 .. Len(search.documents)

\* The comparisons told by three of them.
Compares(op, v, w) ==
    LET Is(o, x, y) == match_comparison_operator(o, x, y) IN
    CASE op = "$ne"  -> ~ Is("$eq", v, w)
      [] op = "$nin" -> v # None /\ ~ Is("$in", v, w)
      [] op = "$lt"  -> v # None /\ Is("$gt", w, v)
      [] op = "$lte" -> v # None /\ Ordered(v, w) /\ ~ Is("$gt", v, w)
      [] op = "$gte" -> v # None /\ Ordered(v, w) /\ ~ Is("$gt", w, v)
      [] OTHER -> Is(op, v, w)

\* What the language reference says a query means for a document.
RECURSIVE Means(_, _, _)
Means(path, c, doc) ==
    LET All(f) == \A i \in DOMAIN Entries(f) : Means(Entries(f)[i][1], Entries(f)[i][2], doc)
        op == query_parse_operator(path)
    IN  CASE op = "$and" -> \A i \in DOMAIN Elements(c) : All(Elements(c)[i])
          [] op = "$or"  -> \E i \in DOMAIN Elements(c) : All(Elements(c)[i])
          [] op = "$nor" -> \A i \in DOMAIN Elements(c) : ~ All(Elements(c)[i])
          [] op = "$not" -> ~ All(c)
          [] OTHER ->
             IF Entries(c) = <<>> THEN match_comparison_operator("$eq", query_extract_field(doc, path), c)
             ELSE \A i \in DOMAIN Entries(c) :
                    LET k == Entries(c)[i][1]  v == Entries(c)[i][2]  o == query_parse_operator(k) IN
                    IF o = "$not" THEN ~ Means(path, v, doc)
                    ELSE IF o = "$elemMatch"
                    THEN \E j \in DOMAIN Elements(query_extract_field(doc, path)) :
                            \A m \in DOMAIN Entries(v) :
                                Means(Entries(v)[m][1], Entries(v)[m][2], Elements(query_extract_field(doc, path))[j])
                    ELSE IF o \in Comparisons THEN Compares(o, query_extract_field(doc, path), v)
                    ELSE Means(path \o k, v, doc)
Meant(doc) == \A i \in DOMAIN Entries(Unwrapped(search.query)) :
                 Means(Entries(Unwrapped(search.query))[i][1], Entries(Unwrapped(search.query))[i][2], doc)

\* Whether a value uses one of the keys.
RECURSIVE Uses(_, _)
Uses(v, keys) ==
    \/ \E i \in DOMAIN Entries(v) : Entries(v)[i][1] \in keys \/ Uses(Entries(v)[i][2], keys)
    \/ \E i \in DOMAIN Elements(v) : Uses(Elements(v)[i], keys)

\* What the code reads otherwise than the reference: $not has lost its field and $elemMatch
\* its condition, a logical operator at the top hides the other keys, what is no
\* operator matches nothing, and a condition that does not parse makes its list fail.
ReadOtherwise ==
    \/ Uses(search.query, {<<"$not">>, <<"$elemMatch">>, <<"$other">>})
    \/ /\ Len(Entries(Unwrapped(search.query))) > 1
       /\ \E i \in DOMAIN Entries(Unwrapped(search.query)) :
             query_parse_operator(Entries(Unwrapped(search.query))[i][1]) \in Logical
    \/ expr = NoExpr

\* The documents found are those the reference says, in any nesting of the operators it
\* has in common with the code.
MatchedAsMeant ==
    (qstage \notin {"parse", "match"} /\ ~ ReadOtherwise) =>
        ToSet(matches) = {d \in ToSet(search.documents) : Meant(d)}

\* Sorted means that nothing stands before what belongs before it, whichever way it
\* came, and that nothing was lost.
SortedOnce ==
    qstage \in {"page", "done"} =>
        \A i, j \in DOMAIN matches : i < j /\ Options.sort # None => ~ Swapped(matches[i], matches[j], Options.sort)

\* Sorting never ends if nothing matched, and a page without a size stops the process
\* if something did: it ends well in every other case.
EndsUnless ==
    /\ qstage = "endless" => Options.sort # None /\ (ReadOtherwise \/ \A d \in ToSet(search.documents) : ~ Meant(d))
    /\ qstage = "trap" => Options.size = 0 /\ (ReadOtherwise \/ \E d \in ToSet(search.documents) : Meant(d))

\* A page holds its documents and tells whether there is a next one, while the sums
\* fit an int.
PagesTellTheTruth ==
    LET o == Options IN
    (qstage = "done" /\ o.paging = "offset" /\ matches # <<>> /\ (o.page + 1) * o.size <= QIntMax) =>
        /\ Len(found.documents) = Cardinality({i \in DOMAIN matches : (o.page - 1) * o.size < i /\ i <= o.page * o.size})
        /\ found.pages.next = (Len(matches) > o.page * o.size)

\* An exclusion shows the fields it excludes, and no other but the uuid.
ExclusionShowsExcluded ==
    LET p == Options.projection
        fields == {i \in DOMAIN Entries(p) : Entries(p)[i][1] # UuidKey}
    IN  (qstage = "done" /\ fields # {} /\ \A i \in fields : Flag(Entries(p)[i][2]) = "out") =>
            \A k \in DOMAIN found.documents : \A e \in ToSet(Entries(found.documents[k])) :
                e[1] = UuidKey \/ \E i \in fields : Entries(p)[i][1] = e[1]

\* Queries: what matched is what the reference means, sorted once, on the page asked
\* for, excluded fields shown, and every search ends but the two that cannot.
QuerySound ==
    /\ QueryTypeOK /\ MatchedAsMeant /\ SortedOnce /\ EndsUnless /\ PagesTellTheTruth /\ ExclusionShowsExcluded
=============================================================================
