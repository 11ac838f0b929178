------------------------------ MODULE Sessions ------------------------------
(***************************************************************************)
(* Access tokens, session documents and the token cache: rbac/jwt.c,       *)
(* rbac/jwt_cache.c, rbac/rbac_sessions.c, core/api_auth_sliding.c and the *)
(* handlers of api/api_auth.c, api/session_api.c, api/auth_session_api.c   *)
(* and api/session_terminate_api.c.                                        *)
(*                                                                         *)
(* An action is one call into the document layer (a query, an update, an   *)
(* insert) or one section of the cache's lock, with the thread-local code  *)
(* after it.  A document update is one step here; DocumentStore takes it   *)
(* apart.  A token is its index in the sequence of tokens issued so far; a *)
(* request that ends with an error before it changed anything is a         *)
(* stuttering step.  expires_at is written to a session but no code reads  *)
(* it to refuse one, so a session record has no such field.  A session is  *)
(* found by its token only while its document is filed in "system"; by its *)
(* uuid wherever it is, and then from the document cache once a handler    *)
(* has fetched it that way.                                                *)
(***************************************************************************)
EXTENDS Naturals, FiniteSets, Sequences, SequencesExt

CONSTANTS
    SUsers,         \* user uuids
    SAdmins,        \* users named "admin", with all permissions, as integers
    SFractional,    \* users with a permission stored as a fraction, for rbac_check_permission
    SThreads,       \* threads that serve requests
    MaxTokens, MaxSessions, MaxClock, MaxPassword, MaxRequests,   \* bounds of the model
    TokenLife,      \* life of an access token: 30 minutes
    CacheTTL,       \* g_cache_ttl_seconds
    CacheMax,       \* max_entries of the token cache
    UpdateGap       \* MIN_TIME_BETWEEN_UPDATES

ASSUME SessionsAssumption ==
    /\ SAdmins \cup SFractional \subseteq SUsers
    /\ {MaxTokens, MaxSessions, MaxClock, TokenLife, CacheTTL, CacheMax, UpdateGap} \subseteq Nat
    /\ CacheMax > 0 /\ MaxClock > 0 /\ MaxPassword \in Nat

VARIABLES
    clock,          \* time(NULL)
    tokens,         \* sequence of [user, exp]: the tokens signed so far
    sessions,       \* sequence of session documents
    jwtCache,       \* LRU list of the token cache, most recent first
    password,       \* version of each user's stored password hash
    req,            \* per thread: where its request is, and its local variables
    requests,       \* requests made so far
    killed,         \* history: sessions some handler invalidated or deleted
    stale,          \* history: of those, the ones a thread held a copy of then
    loggedOut,      \* history: tokens whose logout was answered with success
    raced,          \* history: tokens put in the cache while their logout ran
    switched,       \* history: tokens issued for a switch to another library
    accepted        \* history: [token, time] of the last request let through

history == <<killed, stale, loggedOut, raced, switched, accepted>>

sessVars == <<clock, tokens, sessions, jwtCache, password, req, requests, history>>

Idle == [pc |-> "idle", tok |-> 0, new |-> 0, ids |-> <<>>, doc |-> <<>>, pw |-> 0, out |-> FALSE]

Go(t, r) == req' = [req EXCEPT ![t] = r]
Done(t)  == Go(t, Idle)

\* Thread t takes up a request.
Begin(t) == /\ req[t].pc = "idle" /\ requests < MaxRequests
            /\ requests' = requests + 1

InUse(s)     == sessions[s].live /\ sessions[s].active
FiledIn(l)    == {s \in DOMAIN sessions : sessions[s].library = l}
ActiveWith(k) == {s \in FiledIn("system") : InUse(s) /\ sessions[s].token = k}
ActiveOf(u)   == {s \in FiledIn("system") : InUse(s) /\ sessions[s].user = u}

\* The first session document of the result of a query.
FirstOf(S) == CHOOSE s \in S : \A x \in S : s <= x

CachedTokens == {jwtCache[i].token : i \in DOMAIN jwtCache}
EntryOf(k)   == CHOOSE i \in DOMAIN jwtCache : jwtCache[i].token = k

\* Threads whose write-back of session s is pending.
Holders(s) == {t \in SThreads : req[t].pc = "writeback" /\ req[t].doc[1] = s}

SessInit ==
    /\ clock = 1
    /\ tokens = <<>> /\ sessions = <<>> /\ jwtCache = <<>>
    /\ password = [u \in SUsers |-> 0]
    /\ req = [t \in SThreads |-> Idle] /\ requests = 0
    /\ killed = {} /\ stale = {} /\ loggedOut = {} /\ raced = {} /\ switched = {}
    /\ accepted = [token |-> 0, time |-> 0]

-----------------------------------------------------------------------------
(* Tokens.                                                                 *)

\* jwt_create_token_pair signs an access token for user u; life is its age limit.
jwt_create_token_pair(u, life) ==
    /\ Len(tokens) < MaxTokens
    /\ tokens' = Append(tokens, [user |-> u, exp |-> clock + life])

\* jwt_verify: the signature is that of an issued token, and exp has not passed.
jwt_verify(k) == ~ (clock > tokens[k].exp)

\* jwt_cache_get: the entry must be younger than the cache's TTL and unexpired.
jwt_cache_get(k) ==
    /\ k \in CachedTokens
    /\ clock < jwtCache[EntryOf(k)].exp
    /\ clock < jwtCache[EntryOf(k)].at + CacheTTL

\* jwt_cache_put: a known token is only dated anew and becomes the most recent;
\* else the least recent entry goes when the cache is full.
jwt_cache_put(k) ==
    LET rest == IF k \in CachedTokens THEN RemoveAt(jwtCache, EntryOf(k))
                ELSE IF Len(jwtCache) >= CacheMax THEN SubSeq(jwtCache, 1, Len(jwtCache) - 1)
                ELSE jwtCache
        entry == IF k \in CachedTokens THEN [jwtCache[EntryOf(k)] EXCEPT !.at = clock]
                 ELSE [token |-> k, exp |-> tokens[k].exp, at |-> clock]
    IN  jwtCache' = <<entry>> \o rest

\* jwt_cache_invalidate_token: the entry of the token is taken out.
jwt_cache_invalidate_token(k) ==
    jwtCache' = IF k \in CachedTokens THEN RemoveAt(jwtCache, EntryOf(k)) ELSE jwtCache

\* The entries of the list at the positions in P, in their order.
EntriesAt(P) ==
    LET order == CHOOSE f \in [1 .. Cardinality(P) -> P] : \A i, j \in DOMAIN f : i < j => f[i] < f[j]
    IN  [i \in 1 .. Cardinality(P) |-> jwtCache[order[i]]]

jwt_cache_invalidate_user(u) ==
    jwtCache' = EntriesAt({i \in DOMAIN jwtCache : tokens[jwtCache[i].token].user # u})

-----------------------------------------------------------------------------
(* Session documents.                                                      *)

\* rbac_db_create_session for user u and token k.
rbac_db_create_session(u, k) ==
    /\ Len(sessions) < MaxSessions
    /\ sessions' = Append(sessions, [user |-> u, token |-> k, active |-> TRUE, seen |-> clock,
                                     library |-> "system", live |-> TRUE, copy |-> 0])

\* rbac_db_invalidate_session merges active = 0; a deleted document is left alone.
rbac_db_invalidate_session(s) ==
    sessions' = [sessions EXCEPT ![s].active = IF sessions[s].live THEN FALSE ELSE @]

\* History of an invalidation or a deletion of the sessions in S.
NoteKilled(S) == /\ killed' = killed \cup S
                 /\ stale' = stale \cup {s \in S : Holders(s) # {}}

\* rbac_db_validate_session: the first active session of the token is dated.
rbac_db_validate_session(k) ==
    /\ ActiveWith(k) # {}
    /\ sessions' = [sessions EXCEPT ![FirstOf(ActiveWith(k))].seen = clock]

-----------------------------------------------------------------------------
(* Authentication of a request: api_authenticate_request_sliding.          *)

LetThrough(k) == accepted' = [token |-> k, time |-> clock]

\* A cached token is let through without a look at its session.
authenticate(t, k) ==
    /\ Begin(t)
    /\ IF jwt_cache_get(k)
       THEN LetThrough(k) /\ Go(t, [Idle EXCEPT !.pc = "extend", !.tok = k])
       ELSE Go(t, [Idle EXCEPT !.pc = "lookup", !.tok = k]) /\ UNCHANGED accepted
    /\ UNCHANGED <<clock, tokens, sessions, jwtCache, password, killed, stale, loggedOut, raced, switched>>

\* The active session of the token is queried and the token is verified.
lookup(t) ==
    /\ req[t].pc = "lookup"
    /\ IF ActiveWith(req[t].tok) # {} /\ jwt_verify(req[t].tok)
       THEN LetThrough(req[t].tok) /\ Go(t, [req[t] EXCEPT !.pc = "put"])
       ELSE Done(t) /\ UNCHANGED accepted
    /\ UNCHANGED <<clock, tokens, sessions, jwtCache, password, killed, stale, loggedOut, raced, switched, requests>>

\* The verified token goes into the cache.
put(t) ==
    /\ req[t].pc = "put"
    /\ jwt_cache_put(req[t].tok)
    /\ raced' = IF \E o \in SThreads : req[o].out /\ req[o].tok = req[t].tok
                THEN raced \cup {req[t].tok} ELSE raced
    /\ Go(t, [req[t] EXCEPT !.pc = "extend"])
    /\ UNCHANGED <<clock, tokens, sessions, password, killed, stale, loggedOut, switched, accepted, requests>>

\* extend_session_expiration copies the session, unless it was dated lately.
extend_read(t) ==
    LET S == ActiveWith(req[t].tok)
        s == FirstOf(S)
    IN  /\ req[t].pc = "extend"
        /\ IF S = {} \/ clock - sessions[s].seen < UpdateGap
           THEN Done(t)
           ELSE Go(t, [Idle EXCEPT !.pc = "writeback",
                                   !.doc = <<s, [sessions[s] EXCEPT !.seen = clock]>>])
        /\ UNCHANGED <<clock, tokens, sessions, jwtCache, password, history, requests>>

\* Mutant: the update inserts the document when it is gone.
write_back_upsert(t) ==
    /\ req[t].pc = "writeback"
    /\ sessions' = [sessions EXCEPT ![req[t].doc[1]] = [req[t].doc[2] EXCEPT !.copy = sessions[req[t].doc[1]].copy]]
    /\ Done(t)
    /\ UNCHANGED <<clock, tokens, jwtCache, password, history, requests>>

\* virtual_update with a whole document: every field is overwritten, active too.
\* A document that was deleted meanwhile makes the update fail.
write_back(t) ==
    LET s == req[t].doc[1]
    IN  /\ req[t].pc = "writeback"
        /\ sessions' = [sessions EXCEPT ![s] = IF sessions[s].live THEN [req[t].doc[2] EXCEPT !.copy = sessions[s].copy] ELSE @]
        /\ Done(t)
        /\ UNCHANGED <<clock, tokens, jwtCache, password, history, requests>>

-----------------------------------------------------------------------------
(* Handlers that open and close sessions.                                  *)

\* api_handle_login: the user is read and the password compared with the hash.
login(t, u, pw) ==
    /\ Begin(t) /\ pw = password[u]
    /\ jwt_create_token_pair(u, TokenLife)
    /\ Go(t, [Idle EXCEPT !.pc = "others", !.new = Len(tokens) + 1])
    /\ UNCHANGED <<clock, sessions, jwtCache, password, history>>

\* The active sessions of the user are queried, to be invalidated one by one: those
\* filed in "system", by a function that passes over what is not filed in "default".
login_others(t) ==
    /\ req[t].pc = "others"
    /\ Go(t, [req[t] EXCEPT !.pc = "kill",
                            !.ids = SetToSeq(ActiveOf(tokens[req[t].new].user) \cap FiledIn("default"))])
    /\ UNCHANGED <<clock, tokens, sessions, jwtCache, password, history, requests>>

\* api_handle_token_refresh decodes the token without verifying the signature,
\* refuses an expired one, and replaces the session it finds by a new one.
token_refresh(t, k) ==
    /\ Begin(t) /\ ~ (tokens[k].exp < clock)
    /\ jwt_create_token_pair(tokens[k].user, TokenLife)
    /\ Go(t, [Idle EXCEPT !.pc = "old", !.tok = k, !.new = Len(tokens) + 1])
    /\ UNCHANGED <<clock, sessions, jwtCache, password, history>>

\* virtual_get_session_by_token.
refresh_old(t) ==
    LET S == ActiveWith(req[t].tok)
    IN  /\ req[t].pc = "old"
        /\ Go(t, [req[t] EXCEPT !.pc = "kill", !.ids = IF S = {} THEN <<>> ELSE <<FirstOf(S)>>])
        /\ UNCHANGED <<clock, tokens, sessions, jwtCache, password, history, requests>>

\* api_handle_logout: a token without an active session is answered with 404.
logout(t, k) ==
    /\ Begin(t) /\ ActiveWith(k) # {}
    /\ Go(t, [Idle EXCEPT !.pc = "uncache", !.tok = k, !.out = TRUE])
    /\ UNCHANGED <<clock, tokens, sessions, jwtCache, password, history>>

\* The token leaves the cache; a logout goes on to the user's other tokens.
uncache_token(t) ==
    /\ req[t].pc = "uncache"
    /\ jwt_cache_invalidate_token(req[t].tok)
    /\ Go(t, [req[t] EXCEPT !.pc = IF req[t].out THEN "uncacheUser" ELSE "kill"])
    /\ UNCHANGED <<clock, tokens, sessions, password, history, requests>>

uncache_user(t) ==
    /\ req[t].pc = "uncacheUser"
    /\ jwt_cache_invalidate_user(tokens[req[t].tok].user)
    /\ Go(t, [req[t] EXCEPT !.pc = "byToken"])
    /\ UNCHANGED <<clock, tokens, sessions, password, history, requests>>

\* rbac_db_invalidate_sessions_by_token: the query; none found fails the logout.
rbac_db_invalidate_sessions_by_token(t) ==
    LET S == ActiveWith(req[t].tok)
    IN  /\ req[t].pc = "byToken"
        /\ IF S = {} THEN Done(t)
           ELSE Go(t, [req[t] EXCEPT !.pc = "kill", !.ids = SetToSeq(S)])
        /\ UNCHANGED <<clock, tokens, sessions, jwtCache, password, history, requests>>

\* One session of the list is invalidated.
kill(t) ==
    /\ req[t].pc = "kill" /\ req[t].ids # <<>>
    /\ rbac_db_invalidate_session(Head(req[t].ids))
    /\ NoteKilled({Head(req[t].ids)})
    /\ Go(t, [req[t] EXCEPT !.ids = Tail(@)])
    /\ UNCHANGED <<clock, tokens, jwtCache, password, loggedOut, raced, switched, accepted, requests>>

\* The list is done: a login or a refresh creates its session, the others answer.
kill_end(t) ==
    /\ req[t].pc = "kill" /\ req[t].ids = <<>>
    /\ IF req[t].new # 0
       THEN rbac_db_create_session(tokens[req[t].new].user, req[t].new)
       ELSE UNCHANGED sessions
    /\ loggedOut' = IF req[t].out THEN loggedOut \cup {req[t].tok} ELSE loggedOut
    /\ raced' = IF req[t].out /\ \E o \in SThreads : req[o].pc = "put" /\ req[o].tok = req[t].tok
                THEN raced \cup {req[t].tok} ELSE raced
    /\ Done(t)
    /\ UNCHANGED <<clock, tokens, jwtCache, password, killed, stale, switched, accepted, requests>>

\* rbac_check_permission of rbac.c reads only numbers, and a stored whole number is an
\* integer: the owner may, and hardly anybody else.
MayTerminate(k, s) == tokens[k].user = sessions[s].user \/ tokens[k].user \in SFractional

\* virtual_get caches the document the first time; nothing takes it out of the cache.
virtual_get(s) == sessions' = [sessions EXCEPT ![s].copy = IF @ = 0 THEN sessions[s].token ELSE @]
Copied(s)      == sessions[s].copy # 0

\* api_handle_terminate_session of api_auth.c: the cache first, then the document.  The
\* token is that of the copy.
terminate_session(t, k, s) ==
    /\ Begin(t) /\ (sessions[s].live \/ Copied(s)) /\ MayTerminate(k, s)
    /\ virtual_get(s)
    /\ Go(t, [Idle EXCEPT !.pc = "uncache", !.tok = sessions'[s].copy, !.ids = <<s>>])
    /\ UNCHANGED <<clock, tokens, jwtCache, password, history>>

\* api_handle_session_terminate: the caller's session must be active; the document is
\* looked for in "default", so the owner is never recognised; the cache is left alone.
session_terminate(t, k, s) ==
    /\ Begin(t) /\ tokens[k].user \in SAdmins
    /\ rbac_db_validate_session(k)
    /\ Go(t, [Idle EXCEPT !.pc = "kill", !.ids = <<s>>])
    /\ UNCHANGED <<clock, tokens, jwtCache, password, history>>

\* api_handle_terminate_session of auth_session_api.c deletes the document.
delete_session(t, k, s) ==
    /\ Begin(t) /\ sessions[s].live /\ MayTerminate(k, s)
    /\ sessions' = [sessions EXCEPT ![s].live = FALSE,
                                    ![s].copy = IF @ = 0 THEN sessions[s].token ELSE @]
    /\ NoteKilled({s})
    /\ UNCHANGED <<clock, tokens, jwtCache, password, req, loggedOut, raced, switched, accepted>>

\* api_handle_switch_library of api_auth.c gives the session a new token of twice the
\* life (3600 seconds) and writes it back whole, with the library of the request, which
\* is the library its document is filed in.
switch_library(t, k, library) ==
    LET S == ActiveWith(k)
        s == FirstOf(S)
    IN  /\ Begin(t)
        /\ library = "system" => tokens[k].user \in SAdmins
        /\ jwt_create_token_pair(tokens[k].user, 2 * TokenLife)
        /\ IF S = {} THEN Done(t)
           ELSE Go(t, [Idle EXCEPT !.pc = "writeback",
                          !.doc = <<s, [sessions[s] EXCEPT !.token = Len(tokens) + 1, !.library = library]>>])
        /\ switched' = IF library = "system" THEN switched ELSE switched \cup {Len(tokens) + 1}
        /\ UNCHANGED <<clock, sessions, jwtCache, password, killed, stale, loggedOut, raced, accepted>>

\* api_handle_change_password reads the user and compares the hash ...
change_password(t, k) ==
    /\ Begin(t) /\ password[tokens[k].user] < MaxPassword
    /\ Go(t, [Idle EXCEPT !.pc = "passwd", !.tok = k, !.pw = password[tokens[k].user] + 1])
    /\ UNCHANGED <<clock, tokens, sessions, jwtCache, password, history>>

\* ... and writes the user document back; sessions and cache stay as they are.
change_password_write(t) ==
    /\ req[t].pc = "passwd"
    /\ password' = [password EXCEPT ![tokens[req[t].tok].user] = req[t].pw]
    /\ Done(t)
    /\ UNCHANGED <<clock, tokens, sessions, jwtCache, history, requests>>

Tick ==
    /\ clock < MaxClock
    /\ clock' = clock + 1
    /\ UNCHANGED <<tokens, sessions, jwtCache, password, req, requests, history>>

SessStep(t) ==
    \/ lookup(t) \/ put(t) \/ extend_read(t) \/ write_back(t)
    \/ login_others(t) \/ refresh_old(t) \/ uncache_token(t) \/ uncache_user(t)
    \/ rbac_db_invalidate_sessions_by_token(t) \/ kill(t) \/ kill_end(t)
    \/ change_password_write(t)

SessNext ==
    \/ Tick
    \/ \E t \in SThreads :
          \/ SessStep(t)
          \/ \E u \in SUsers, pw \in 0 .. MaxPassword : login(t, u, pw)
          \/ \E k \in DOMAIN tokens :
                \/ authenticate(t, k) \/ token_refresh(t, k) \/ logout(t, k)
                \/ change_password(t, k)
                \/ \E l \in {"default", "system"} : switch_library(t, k, l)
                \/ \E s \in DOMAIN sessions :
                      terminate_session(t, k, s) \/ session_terminate(t, k, s) \/ delete_session(t, k, s)

SessSpec == SessInit /\ [][SessNext]_sessVars

-----------------------------------------------------------------------------
(* Properties.                                                             *)

SessTypeOK ==
    /\ clock \in 1 .. MaxClock
    /\ \A k \in DOMAIN tokens : tokens[k].user \in SUsers /\ tokens[k].exp \in Nat
    /\ \A s \in DOMAIN sessions :
          sessions[s].user \in SUsers /\ sessions[s].token \in DOMAIN tokens
    /\ CachedTokens \subseteq DOMAIN tokens
    /\ \A t \in SThreads : req[t].tok \in 0 .. Len(tokens) /\ ToSet(req[t].ids) \subseteq DOMAIN sessions

\* Revocation is final: a session that logout, a refresh or a termination
\* invalidated is active again only if a request held a copy of it at
\* that moment (extend_session_expiration and switch_library write whole documents
\* back, active = 1 included).
RevocationFinal ==
    \A s \in killed : sessions[s].live /\ sessions[s].active => s \in stale

\* A deleted session never comes back: the pending write-back of a copy fails.
DeletedStaysDeleted ==
    [][\A s \in DOMAIN sessions : ~ sessions[s].live => ~ sessions'[s].live]_sessVars

\* No request is let through with a token that has expired, cached or not.
NoExpiredAccess == accepted.token # 0 => accepted.time <= tokens[accepted.token].exp

\* Once logout has answered, its token is not in the cache, unless a request was
\* being authenticated with it meanwhile, or a write-back revived a session of the
\* user.
LogoutUncaches ==
    \A k \in loggedOut :
        k \in CachedTokens =>
            k \in raced \/ \E s \in stale : sessions[s].user = tokens[k].user

\* The cache holds one entry per token and never more than max_entries; the entry
\* carries the expiry of the token it stands for.
CacheWellFormed ==
    /\ Len(jwtCache) <= CacheMax
    /\ \A i, j \in DOMAIN jwtCache : i # j => jwtCache[i].token # jwtCache[j].token
    /\ \A i \in DOMAIN jwtCache : jwtCache[i].exp = tokens[jwtCache[i].token].exp

\* A switch to another library takes the session out of reach of its own lookup: the
\* token that the switch answered with never lets a request through.
SwitchedLocksOut == accepted.token \notin switched

\* Sessions and tokens: a revoked, deleted or expired one lets nobody in again, a
\* logout leaves the cache, the cache is well formed, and so is locked out who switches
\* to another library.
SessionsSound ==
    /\ [](/\ SessTypeOK
          /\ RevocationFinal
          /\ NoExpiredAccess
          /\ LogoutUncaches
          /\ CacheWellFormed
          /\ SwitchedLocksOut)
    /\ DeletedStaysDeleted
=============================================================================
