---------------------------- MODULE HttpExchange ----------------------------
(* One connection of a client that keeps it open: how a request's text is    *)
(* read and parsed, who answers it (a file, the preflight answer, a route's  *)
(* handler after authentication, nobody), which headers the answer gets and  *)
(* whether it fits the buffer it is written to.  The routes are those of     *)
(* ApiRoutes, registered one group after the other at startup.               *)
EXTENDS ApiRoutes, FiniteSets, SequencesExt

CONSTANTS
    HRequests,    \* what the client may send, see RequestShape
    Dotted,       \* the path segments that have a dot in them
    Files,        \* the paths below the web root that are regular files
    Empty,        \* those among them without contents
    Cors,         \* the CORS settings, see CorsShape
    OwnHeaders,   \* lengths of the header a handler may add, 0 for none
    MaxKeepAlive, \* max_keep_alive_requests
    MaxRouteSlots,\* slots for routes registered at startup
    MaxSent       \* bound: requests sent in a run

RequestShape == {"method", "path", "head", "body", "origin"}
ASSUME HttpAssumption ==
    /\ \A r \in HRequests : DOMAIN r = RequestShape
    /\ DOMAIN Cors = {"enabled", "credentials", "origins", "methods", "headers"}
    /\ MaxKeepAlive \in Nat \ {0} /\ MaxRouteSlots \in Nat /\ MaxSent \in Nat

VARIABLES
    registered,  \* groups of routes registered so far
    dropped,     \* groups that did not fit
    sent,        \* requests the client has sent
    wire,        \* those the server has not read, oldest first: [id, req]
    early,       \* those sent while another one had no answer
    discarded,        \* those read off the wire and thrown away
    exchange,    \* where the handler of the connection is
    current,     \* the request being answered
    response,    \* its answer as far as it is built
    served,      \* requests_processed
    answers,     \* ids of the requests answered on the wire, in order
    ran,         \* the protected handlers that ran: [request, handler]
    unsent       \* answers that did not fit their buffer, after the handler ran

httpVars == <<registered, dropped, sent, wire, early, discarded, exchange, current, response, served, answers, ran, unsent>>

None0 == [id |-> 0]
Answer(status, headers) == [status |-> status, headers |-> headers]
Header(name, length) == [name |-> name, length |-> length]
-----------------------------------------------------------------------------
(* Startup *)

\* The groups that check for room before they add their routes.
Checks(g) == g \in {3, 4}

Registered(set) == IF set = {} THEN routes
                   ELSE LET F[g \in 0..Len(Groups)] ==
                              IF g = 0 THEN routes ELSE F[g - 1] \o IF g \in set THEN Groups[g] ELSE <<>>
                        IN  F[Len(Groups)]

Table == Registered(1..registered \ dropped)

\* Register the next group; the last one opens the server.
init_api ==
    /\ exchange = "boot" /\ registered < Len(Groups)
    /\ registered' = registered + 1
    /\ dropped' = IF Checks(registered + 1)
                       /\ Len(Table) + Len(Groups[registered + 1]) > Len(routes) + MaxRouteSlots
                  THEN dropped \cup {registered + 1} ELSE dropped
    /\ exchange' = IF registered' = Len(Groups) THEN "reading" ELSE "boot"
    /\ UNCHANGED <<sent, wire, early, discarded, current, response, served, answers, ran, unsent>>
-----------------------------------------------------------------------------
(* The client and the parser *)

\* Send a request, before or after the answers to the earlier ones.
ClientSends(r) ==
    /\ exchange # "boot" /\ exchange # "closed" /\ sent < MaxSent
    /\ sent' = sent + 1
    /\ wire' = Append(wire, [id |-> sent', req |-> r])
    /\ early' = IF Len(answers) + Cardinality(unsent \cup discarded) < sent THEN early \cup {sent'} ELSE early
    /\ UNCHANGED <<registered, dropped, discarded, exchange, current, response, served, answers, ran, unsent>>

\* The value of the last line of a kind: empty lines do not end the loop, so the
\* body's lines are compared as well.
LastOf(lines, kinds, default) ==
    LET at == {i \in 1..Len(lines) : lines[i] \in kinds}
    IN  IF at = {} THEN default ELSE lines[CHOOSE i \in at : \A j \in at : j <= i]

parse_http_request(r) ==
    [method |-> r.method, path |-> r.path, origin |-> r.origin,
     authorization |-> LastOf(r.head \o r.body, {"token", "wrong"}, "none"),
     keep |-> LastOf(r.head \o r.body, {"keep-alive", "close"}, "close") = "keep-alive"]

\* A read returns as many requests as have arrived; the first is parsed, and the
\* next read starts at the beginning of the buffer.
Read(k) ==
    /\ exchange = "reading" /\ k \in 1..Len(wire)
    /\ current' = [id |-> wire[1].id] @@ parse_http_request(wire[1].req)
    /\ discarded' = discarded \cup {wire[i].id : i \in 2..k}
    /\ wire' = SubSeq(wire, k + 1, Len(wire))
    /\ exchange' = "parsed" /\ response' = Answer(0, <<>>)
    /\ UNCHANGED <<registered, dropped, sent, early, served, answers, ran, unsent>>
-----------------------------------------------------------------------------
(* Who answers *)

HasDot(path) == \E i \in 1..Len(path) : path[i] \in Dotted

is_admin_route(path) ==
    /\ ~(path[1] = "api" /\ Len(path) > 1)
    /\ \/ path \in {<<"">>, <<"login">>, <<"login.html">>}
       \/ path[1] = "admin"
       \/ path[1] \in {"css", "js"} /\ Len(path) > 1
       \/ HasDot(path)

\* The file a path names: the console's pages by name, the rest below the web root.
FileOf(path) ==
    CASE path = <<"">> -> <<"index.html">>
      [] path = <<"login">> -> <<"login.html">>
      [] path[1] = "admin" /\ Len(path) > 1 /\ path # <<"admin", "">> -> Tail(path)
      [] path \in {<<"admin">>, <<"admin", "">>} -> <<"admin.html">>
      [] OTHER -> path

\* A missing page of the console falls back to the index.
serve_admin_file(path) ==
    LET file == IF FileOf(path) \in Files THEN FileOf(path)
                ELSE IF path[1] = "admin" \/ ~HasDot(path) THEN <<"index.html">> ELSE <<>>
    IN  IF file \notin Files THEN 404 ELSE IF file \in Empty THEN 500 ELSE 200

\* The preflight answer carries its own CORS headers.
Preflight ==
    Answer(200, <<Header("origin", 30), Header("methods", 70), Header("headers", 65),
                  Header("credentials", 38), Header("max-age", 29)>>)

Answered(r) ==
    /\ response' = r /\ exchange' = "answer"
    /\ UNCHANGED <<registered, dropped, sent, wire, early, discarded, current, served, answers, unsent>>

ServeFile ==
    /\ exchange = "parsed" /\ current.method = "GET" /\ is_admin_route(current.path)
    /\ Answered(Answer(serve_admin_file(current.path), <<>>)) /\ UNCHANGED ran

ToApi == exchange = "parsed" /\ ~(current.method = "GET" /\ is_admin_route(current.path))

DispatchPreflight ==
    /\ ToApi /\ current.method = "OPTIONS"
    /\ Answered(Preflight) /\ UNCHANGED ran

DispatchNoRoute ==
    /\ ToApi /\ current.method # "OPTIONS"
    /\ FirstRoute(Table, current.method, current.path) = 0
    /\ Answered(Answer(404, <<>>)) /\ UNCHANGED ran

\* Mutant: any credentials will do.
Authenticated_any == current.authorization # "none"

\* What Sessions answers for the credentials.
Authenticated == current.authorization = "token"

DispatchUnauthorized ==
    /\ ToApi /\ current.method # "OPTIONS"
    /\ LET i == FirstRoute(Table, current.method, current.path)
       IN  i # 0 /\ Table[i].auth
    /\ ~Authenticated
    /\ Answered(Answer(401, <<>>)) /\ UNCHANGED ran

DispatchHandler(length, status) ==
    /\ ToApi /\ current.method # "OPTIONS"
    /\ LET i == FirstRoute(Table, current.method, current.path)
       IN  /\ i # 0 /\ (Table[i].auth => Authenticated)
           /\ ran' = IF Table[i].auth THEN ran \cup {[id |-> current.id, handler |-> Table[i].handler]} ELSE ran
    /\ Answered(Answer(status, IF length = 0 THEN <<>> ELSE <<Header("own", length)>>))
-----------------------------------------------------------------------------
(* Headers, the buffer and the next request *)

is_cors_allowed_origin(origin) == Cors.enabled /\ ("*" \in Cors.origins \/ origin \in Cors.origins)

OriginHeaders(origin) ==
    LET named == <<Header("origin", 60), Header("vary", 12)>>
    IN  IF Cors.credentials /\ origin # "none"
        THEN IF is_cors_allowed_origin(origin) THEN named ELSE <<>>
        ELSE IF "*" \in Cors.origins THEN <<Header("origin", 30)>>
        ELSE IF origin # "none" /\ is_cors_allowed_origin(origin) THEN named ELSE <<>>

apply_cors_headers(origin) ==
    IF ~Cors.enabled
    THEN <<Header("origin", 30), Header("methods", 70), Header("headers", 65), Header("max-age", 29)>>
    ELSE OriginHeaders(origin)
         \o (IF Cors.credentials THEN <<Header("credentials", 38)>> ELSE <<>>)
         \o (IF Cors.methods > 0 THEN <<Header("methods", Cors.methods)>> ELSE <<>>)
         \o (IF Cors.headers > 0 THEN <<Header("headers", Cors.headers)>> ELSE <<>>)
         \o <<Header("max-age", 29)>>

Lengths(headers) == FoldLeft(LAMBDA sum, h : sum + h.length + 2, 0, headers)

\* Status line, content type, content length and connection: at most this long.
FixedPart == 180

\* The head is written to a buffer of 2 KiB and 256 bytes per header, on top of the body.
serialize_http_response(headers) == FixedPart + Lengths(headers) < 2048 + 256 * Len(headers)

\* Finish the answer, write it, and read on if the request asked to keep the
\* connection; the bound is tested after the next request has been read.
Finish ==
    /\ exchange = "answer"
    /\ LET headers == response.headers \o apply_cors_headers(current.origin)
           fits    == serialize_http_response(headers)
           keep    == current.keep /\ served < MaxKeepAlive /\ fits
       IN  /\ response' = [response EXCEPT !.headers = headers]
           /\ answers' = IF fits THEN Append(answers, current.id) ELSE answers
           /\ unsent' = IF fits THEN unsent ELSE unsent \cup {current.id}
           /\ exchange' = IF ~keep THEN "closed" ELSE IF served + 1 < MaxKeepAlive THEN "reading" ELSE "last"
           /\ served' = served + 1
    /\ UNCHANGED <<registered, dropped, sent, wire, early, discarded, current, ran>>

\* Past the bound: the request that follows is read, parsed and freed.
ReadPastBound ==
    /\ exchange = "last" /\ wire # <<>>
    /\ discarded' = discarded \cup {wire[1].id} /\ wire' = Tail(wire)
    /\ exchange' = "closed"
    /\ UNCHANGED <<registered, dropped, sent, early, current, response, served, answers, ran, unsent>>

HttpInit ==
    /\ registered = 0 /\ dropped = {} /\ sent = 0 /\ wire = <<>> /\ early = {} /\ discarded = {}
    /\ exchange = "boot" /\ current = None0 /\ response = Answer(0, <<>>)
    /\ served = 0 /\ answers = <<>> /\ ran = {} /\ unsent = {}

HttpNext ==
    \/ init_api
    \/ \E r \in HRequests : ClientSends(r)
    \/ \E k \in 1..MaxSent : Read(k)
    \/ ServeFile
    \/ DispatchPreflight
    \/ DispatchNoRoute
    \/ DispatchUnauthorized
    \/ \E length \in OwnHeaders, status \in {200, 400} : DispatchHandler(length, status)
    \/ Finish
    \/ ReadPastBound

HttpSpec == HttpInit /\ [][HttpNext]_httpVars
-----------------------------------------------------------------------------
(* Properties *)

\* Types, and an answer's status is one the code can give.
HttpTypeOK ==
    /\ registered \in 0..Len(Groups) /\ dropped \subseteq 1..registered
    /\ sent \in 0..MaxSent /\ served \in 0..MaxKeepAlive
    /\ exchange \in {"boot", "reading", "parsed", "answer", "last", "closed"}
    /\ response.status \in {0, 200, 400, 401, 404, 500}
    /\ discarded \cup unsent \cup early \cup ToSet(answers) \subseteq 1..sent

\* Requests are answered in the order sent, none twice, and none that was thrown away.
AnsweredInOrder ==
    /\ \A i, j \in 1..Len(answers) : i < j => answers[i] < answers[j]
    /\ (discarded \cup unsent) \cap ToSet(answers) = {}

\* A request is thrown away unread only if it was sent before the previous answer
\* or after the last one the connection gives: a client that waits is served.
LostOnlyIfEarly == \A i \in discarded : i \in early \/ (served = MaxKeepAlive /\ exchange = "closed")

\* A handler of a protected route ran only for a request one of whose lines, in
\* the body or above it, carries the credentials.
ProtectedRanAuthenticated ==
    \A x \in ran : x.id = current.id => current.authorization = "token"

\* Handlers in the table that no request reaches: an earlier route takes all their
\* paths.  The two that share a path and a method with an earlier copy of
\* themselves (metrics, metrics_export) are served by that.
Shadowed ==
    {<<"GET", h>> : h \in {"document_field_access", "document_get", "index_get", "index_stats", "transaction_logs",
        "transaction_logs_report", "transaction_logs_document_history", "transaction_document_operation",
        "library_document_field_access", "metrics"}}
    \cup {<<"POST", h>> : h \in {"index_rebuild", "index_query", "index_compound_query", "transaction_create_savepoint",
        "transaction_rollback_to_savepoint", "transaction_check_deadlocks", "transaction_logs_configure",
        "transaction_logs_archive", "transaction_document_operation", "copy_library", "metrics_export"}}
    \cup {<<"DELETE", h>> : h \in {"virtual_collection_drop", "transaction_release_savepoint", "transaction_document_operation"}}
    \cup {<<"PATCH", "transaction_set_timeout">>}

\* Once the server answers, exactly these handlers are out of reach, every group
\* of routes is registered, and no route's path is taken by the console's files
\* but those under the API's own prefix-free names.
UnreachableExactly ==
    exchange = "reading" /\ sent = 0 =>
        /\ UnreachableIn(Table) = Shadowed
        /\ dropped = {}
        /\ \A i \in 1..Len(Table) : ~is_admin_route(Table[i].path)

\* A client gets at most one Access-Control-Allow-Origin header, except on the
\* preflight answer, which brings one of its own.
OneOriginHeader ==
    LET count == Cardinality({i \in 1..Len(response.headers) : response.headers[i].name = "origin"})
    IN  count > 1 => current.method = "OPTIONS" /\ count = 2

\* The answer to a handler's work is dropped for want of room only if some header
\* is longer than the room each header brings.
DroppedOnlyIfLongHeader ==
    unsent # {} => \E i \in 1..Len(response.headers) : response.headers[i].length > 254

\* A connection's requests: answered in order, lost only if sent early, protected
\* handlers run only authenticated, and exactly the shadowed routes unreachable, with
\* one origin header, unless the head did not fit.
ExchangeSound ==
    /\ HttpTypeOK /\ AnsweredInOrder /\ LostOnlyIfEarly /\ ProtectedRanAuthenticated
    /\ UnreachableExactly /\ OneOriginHeader /\ DroppedOnlyIfLongHeader
=============================================================================
