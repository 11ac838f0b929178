----------------------------- MODULE MCRequests -----------------------------
(* Instances for TLC of the components a request passes before it reaches    *)
(* the store.  They share no state: a behaviour is one of the component      *)
(* picked in Init, and the states of a run are the sum of theirs, not the    *)
(* product.  AccInit, ConfigInit, JsonInit, MetricsInit and TokensInit are   *)
(* more than one state: the other components start from one of them.  Of     *)
(* AccInit's states two are taken: a role with whole masks and no member,    *)
(* and one with other masks and a member.                                    *)
EXTENDS Sessions, AccessControl, RateLimiter, ClientConnections, EpollServer, LockFreeQueue, HttpExchange,
        Startup, JsonText, Metrics, Tokens, TLC

VARIABLE which

\* Requests: answered, refused, preflight, files, no route; with the body's
\* text where a header of the same name is looked for.
Req(m, p, h, b, o) == [method |-> m, path |-> p, head |-> h, body |-> b, origin |-> o]
MCHttp == {
    Req("GET", <<"api", "users">>, <<"token", "keep-alive">>, <<>>, "none"),
    Req("GET", <<"api", "transactions", "logs">>, <<"token">>, <<"close">>, "http://a"),
    Req("DELETE", <<"api", "collections", "c">>, <<"wrong", "keep-alive">>, <<>>, "http://b"),
    Req("POST", <<"api", "documents">>, <<"wrong", "keep-alive">>, <<"token">>, "http://a"),
    Req("OPTIONS", <<"api", "documents">>, <<"keep-alive">>, <<>>, "http://a"),
    Req("GET", <<"admin", "app.js">>, <<"keep-alive">>, <<>>, "none"),
    Req("GET", <<"admin">>, <<"close">>, <<>>, "none"),
    Req("GET", <<"none">>, <<"keep-alive">>, <<>>, "http://b"),
    Req("GET", <<"health">>, <<>>, <<>>, "none")}
MCCors == [enabled |-> TRUE, credentials |-> TRUE, origins |-> {"http://a"}, methods |-> 63, headers |-> 200]
MCFiles == {<<"index.html">>, <<"login.html">>, <<"app.js">>}
MCEmpty == {<<"app.js">>}

\* Sources of one setting: the option, the environment, the files and the database.
In(k, c, e, f, d, fl, s, en) == [key |-> k, cmd |-> c, env |-> e, envFile |-> f, discovered |-> d, file |-> fl, section |-> s, entry |-> en]
NoFiles == <<"none", "none", "none">>
NoValue == {"verbose_mode", "use_ssl", "js_enabled"}
MCInputs ==
    {In(k, "absent", e, "none", NoFiles, "conf", "object", en) :
        k \in {"max_connections", "use_ssl"}, e \in {"absent", "good", "weak"}, en \in {"absent", "good"}}
    \cup {In(k, "good", e, "none", NoFiles, "json", "object", "bad") : k \in NoValue, e \in {"absent", "good", "weak"}}
    \cup {In(k, c, e, "none", NoFiles, "conf", "object", en) :
        k \in (Deferred \cup Immediate) \ NoValue, c \in {"absent", "good", "weak"},
        e \in {"absent", "good", "weak", "bad"}, en \in {"absent", "good"}}
    \cup {In(k, "absent", e, "none", NoFiles, "json", s, en) :
        k \in Variables, e \in {"absent", "good"}, s \in {"absent", "other", "object"}, en \in {"absent", "good", "weak", "bad"}}
    \cup {In(k, "absent", e, f, d, fl, "object", "good") :
        k \in {"port", "jwt_secret", "log_level", "thread_pool_min"}, e \in {"absent", "good", "bad"},
        f \in {"none", "missing", "has", "lacks"}, d \in {NoFiles, <<"none", "has", "lacks">>, <<"lacks", "has", "none">>},
        fl \in {"none", "conf", "missing", "broken"}}

\* Texts of clients, and what a document is made of: with escapes, numbers that are
\* rounded, nesting at and past the limit, duplicate keys, text after the value.
MCKeys == {<<"a">>, <<Backslash, Quote>>}
MCPieces == {<<"str", <<Backslash>>>>, <<"str", <<"newline", Quote, "a">>>>, <<"num", 15>>, <<"num", 1234>>, <<"int", -128>>, <<"arr", <<>>>>}
Quoted(s) == <<Quote>> \o s \o <<Quote>>
MCTexts == {
    <<"[", "]">>, <<"{", "}">>, <<"[", " ", "1", ",", "-", "5", ".", "0", "]">>, <<"[", "[", "[", "]", "]", "]">>,
    <<"[", "[", "null", "]", "]">>, <<"-">>, <<"1", "2", "9">>, <<"[", "1", ",", "]">>, <<"{", "{", "{">>, <<"[", "[", "[">>,
    <<"{">> \o Quoted(<<"a">>) \o <<":", " ", "true", ",">> \o Quoted(<<"a">>) \o <<":", "[", "]", "}", "}">>,
    <<"{">> \o Quoted(<<Backslash, Quote>>) \o <<":", "1", "2", "e", "2", "}", "a">>,
    Quoted(<<"a", "a", "a", "a", "a", "a">>), <<Quote, Backslash, Quote>>, Quoted(<<"a", "a", Backslash, Backslash>>),
    <<"1", "2", "3", "e", "-", "1">>, <<>>, <<"{", "1", "}">>, <<"{", Quote, "a", Quote, "}">>, <<"[", "1", " ", "2", "]">>, <<"a">>,
    <<"[", Quote, "]", Quote, "]">>, Quoted(<<"{", Backslash, Quote, "{">>)}

\* What goes on in one behaviour: connections, snapshots beside them, requests that meddle with
\* the documents, the end of the server, exports, libraries.
MCLoads == {{"connections"}, {"connections", "snapshot"}, {"snapshot", "clients"}, {"snapshot", "exit"}, {"export"}, {"libraries"}}

\* Tokens of another server with the same secret or another one, and texts that are none;
\* byte strings of each length modulo three, and texts with '=' in odd places.
TokenHead(a) == <<"object", [alg |-> Str(a), typ |-> Str("JWT")]>>
BareHead == <<"object", [typ |-> Str("JWT")]>>
Body(s, e, n) == <<"object", Over(Only1("sub", Str(s)), Over(Only1("exp", e), Only1("nbf", Num(n))))>>
SignedBy(k, h, p) == <<h, p, <<"mac", <<h, p>>, k>>>>
Arrives(op, x) == [op |-> op, text |-> x]
MCForeignTexts == {
    Arrives("request", SignedBy(Secret, BareHead, Body("far", Str("never"), 2))),
    Arrives("request", SignedBy(Secret, TokenHead("none"), Body("far", Num(0), 0))),
    Arrives("request", SignedBy("other", TokenHead("HS256"), Body("far", Num(0), 0))),
    Arrives("whoami", <<TokenHead("HS256"), Junk, Junk>>),
    Arrives("whoami", <<Junk>>)}
Few == {0, 1, 251, 255}
MCBytes == {<<>>} \cup {<<a>> : a \in Few} \cup {<<a, b>> : a, b \in Few} \cup {<<a, b, c>> : a, b, c \in Few}
           \cup {<<a, b, 1, 200>> : a, b \in Few}
MCCoded == {<<1, 2, 3, 4, 5>>, <<1, Pad, 2, 3>>, <<1, 2, Pad, 3, 4, 5, 6, 7>>, <<1, 2, Pad, Pad>>, <<Other, 1, 2, 3>>,
            <<62, Minus, 63, Underscore>>}
MCPasswords == {<<1>>, <<2>>, <<0, 33>>, <<1, 0>>}

Init ==
    /\ which \in {"sessions", "access", "rate", "connections", "epoll", "queue", "http", "config", "startup", "json", "metrics", "tokens"}
    /\ SessInit /\ RateInit /\ ConnInit /\ EpollInit /\ QueueInit /\ HttpInit
    /\ StartupInit
    /\ ConfigInit /\ (which # "config" => input = CHOOSE i \in MCInputs : TRUE)
    /\ JsonInit /\ (which # "json" => jtext = <<>>)
    /\ MetricsInit /\ (which # "metrics" => activity = {"export"})
    /\ TokensInit /\ (which # "tokens" => kload = "tokens")
    /\ AccInit /\ (\A r \in RoleIds : roleDoc[r].fraction <=> roleDoc[r].users # {})
               /\ (which # "access" => \A r \in RoleIds : ~ roleDoc[r].fraction)

\* Only the component picked moves.
Only(w) ==
    /\ which = w /\ UNCHANGED which
    /\ w # "sessions"    => UNCHANGED sessVars
    /\ w # "access"      => UNCHANGED accVars
    /\ w # "rate"        => UNCHANGED rateVars
    /\ w # "connections" => UNCHANGED connVarsC
    /\ w # "epoll"       => UNCHANGED epollVars
    /\ w # "queue"       => UNCHANGED queueVars
    /\ w # "http"        => UNCHANGED httpVars
    /\ w # "config"      => UNCHANGED configVars
    /\ w # "startup"     => UNCHANGED startVars
    /\ w # "json"        => UNCHANGED jsonVars
    /\ w # "metrics"     => UNCHANGED metricsVars
    /\ w # "tokens"      => UNCHANGED tokenVars

Next ==
    \/ Only("sessions")    /\ SessNext
    \/ Only("access")      /\ AccNext
    \/ Only("rate")        /\ RateNext
    \/ Only("connections") /\ ConnNext
    \/ Only("epoll")       /\ EpollNext
    \/ Only("queue")       /\ QueueNext
    \/ Only("http")        /\ HttpNext
    \/ Only("config")      /\ ConfigNext
    \/ Only("startup")     /\ StartupNext
    \/ Only("json")        /\ JsonNext
    \/ Only("metrics")     /\ MetricsNext
    \/ Only("tokens")      /\ TokensNext

Spec == Init /\ [][Next]_<<sessVars, accVars, rateVars, connVarsC, epollVars, queueVars, httpVars,
                           configVars, startVars, jsonVars, metricsVars, tokenVars, which>>

\* The texts that go over the wire, requests and JSON (HttpExchange, JsonText).
TextsSound == ExchangeSound /\ JsonSound

\* The threads of all components are the same two model values.
Symmetry == Permutations(SThreads)
=============================================================================
