------------------------------ MODULE RateLimiter ------------------------------
(***************************************************************************)
(* The circuit breaker and the connection rate of core/rate_limiter.c,     *)
(* which keep their state in documents of the system library.              *)
(*                                                                         *)
(* They look their document up under a name of their own and insert it     *)
(* with that name as its uuid when it is not there.  The storage layer     *)
(* gives every inserted document a fresh uuid (storage_insert_document),   *)
(* so the next lookup does not find it.  rate_limiter_check_request always *)
(* allows.                                                                 *)
(***************************************************************************)
EXTENDS Naturals, FiniteSets

CONSTANTS
    Services,           \* names: services of breakers, addresses of clients
    FailureThreshold,   \* circuit_failure_threshold
    ResetTimeout,       \* circuit_reset_timeout
    HalfOpenRequests,   \* circuit_half_open_requests
    RateLimit,          \* connection_rate_limit
    BreakerLife, RateLife,  \* lives of the documents
    MaxRateTime, MaxRecords \* bounds: the clock, documents inserted

ASSUME RateAssumption ==
    {FailureThreshold, ResetTimeout, HalfOpenRequests, RateLimit, BreakerLife, RateLife, MaxRateTime, MaxRecords} \subseteq Nat

VARIABLES
    rdocs,      \* the documents: [id, kind, state, count, half, stamp, expires]
    inserted,   \* documents inserted
    rtime,      \* time(NULL)
    engaged     \* history: a breaker was seen open or half open, or a connection was refused

rateVars == <<rdocs, inserted, rtime, engaged>>

RateInit == rdocs = {} /\ inserted = 0 /\ rtime = 0 /\ engaged = FALSE

\* Names of documents, as the limiter makes them; and fresh ones.
NameOf(kind, s) == <<kind, s>>

\* Mutant: the storage layer keeps the uuid it is given.
IdOfInserted_kept(name) == name

IdOfInserted(name) == <<"fresh", inserted>>

storage_get_document(name) == {d \in rdocs : d.id = name}

\* The document under its name, or the one a first record makes.
Found(kind, s) ==
    LET known == storage_get_document(NameOf(kind, s)) IN
    IF known # {} THEN CHOOSE d \in known : TRUE
    ELSE [id |-> NameOf(kind, s), kind |-> kind, state |-> "CLOSED", count |-> 0, half |-> 0, stamp |-> 0, expires |-> 0]

\* Both records end alike: update what is there, insert what is not.
Store(kind, s, d) ==
    IF storage_get_document(NameOf(kind, s)) # {}
    THEN rdocs' = (rdocs \ storage_get_document(NameOf(kind, s))) \cup {d} /\ UNCHANGED inserted
    ELSE /\ inserted < MaxRecords /\ inserted' = inserted + 1
         /\ rdocs' = rdocs \cup {[d EXCEPT !.id = IdOfInserted(NameOf(kind, s))]}

circuit_breaker_record_failure(s) ==
    /\ LET d == Found("breaker", s)
           n == d.count + 1
       IN  Store("breaker", s,
                 [d EXCEPT !.count = n, !.stamp = rtime, !.expires = rtime + BreakerLife,
                           !.half = IF d.state = "HALF_OPEN" THEN @ + 1 ELSE @,
                           !.state = IF n >= FailureThreshold /\ @ = "CLOSED" THEN "OPEN" ELSE @])
    /\ UNCHANGED <<rtime, engaged>>

\* An open breaker is half open after the timeout; a half-open one with enough requests,
\* counted before it was reset, is open again.
Looked(d) ==
    LET first == IF d.state = "OPEN" /\ rtime - d.stamp >= ResetTimeout
                 THEN [d EXCEPT !.state = "HALF_OPEN", !.half = 0] ELSE d
    IN  IF first.state = "HALF_OPEN" /\ d.half >= HalfOpenRequests
        THEN [first EXCEPT !.state = "OPEN", !.stamp = rtime] ELSE first

circuit_breaker_get_state(s) ==
    /\ LET known == storage_get_document(NameOf("breaker", s)) IN
         /\ rdocs' = (rdocs \ known) \cup {Looked(d) : d \in known}
         /\ engaged' = (engaged \/ \E d \in known : Looked(d).state # "CLOSED")
    /\ UNCHANGED <<inserted, rtime>>

circuit_breaker_record_success(s) ==
    /\ LET known == storage_get_document(NameOf("breaker", s)) IN
         rdocs' = (rdocs \ known) \cup
                  {IF d.state = "HALF_OPEN" THEN [d EXCEPT !.state = "CLOSED", !.count = 0, !.half = 0] ELSE d : d \in known}
    /\ UNCHANGED <<inserted, rtime, engaged>>

\* What server_thread_safe.c does with a client: the check, and if it passes the record.
connection_rate_check(s) ==
    \A d \in storage_get_document(NameOf("rate", s)) : ~ (d.stamp = rtime /\ d.count >= RateLimit)

connection_rate_record(s) ==
    LET d == Found("rate", s) IN
    Store("rate", s, [d EXCEPT !.stamp = rtime, !.expires = rtime + RateLife,
                               !.count = IF d.stamp = rtime THEN @ + 1 ELSE 1])

AcceptClient(s) ==
    /\ IF connection_rate_check(s) THEN connection_rate_record(s) /\ UNCHANGED engaged
       ELSE engaged' = TRUE /\ UNCHANGED <<rdocs, inserted>>
    /\ UNCHANGED rtime

\* Nothing calls it yet: the environment does here.
rate_limiter_cleanup_expired ==
    /\ rdocs' = {d \in rdocs : d.expires >= rtime}
    /\ UNCHANGED <<inserted, rtime, engaged>>

RateTick == rtime < MaxRateTime /\ rtime' = rtime + 1 /\ UNCHANGED <<rdocs, inserted, engaged>>

RateNext ==
    \/ \E s \in Services :
          \/ circuit_breaker_record_failure(s) \/ circuit_breaker_get_state(s)
          \/ circuit_breaker_record_success(s) \/ AcceptClient(s)
    \/ rate_limiter_cleanup_expired \/ RateTick

RateSpec == RateInit /\ [][RateNext]_rateVars

-----------------------------------------------------------------------------
(* Properties.                                                             *)

\* What the limiter amounts to with the storage layer it runs on: however many failures
\* and connections were recorded, no breaker is ever seen open and no client is refused.
LimiterNeverEngages == ~ engaged

\* Every record is one more document that counts one.
RecordsAreNew == \A d \in rdocs : d.count = 1

\* The clean-up takes only documents whose time is over, also while others are recorded.
UnexpiredStay ==
    [][\A d \in rdocs : d.expires >= rtime => \E e \in rdocs' : e.id = d.id]_rateVars

\* Breakers and rates: what the limiter never does, and its documents stay until
\* they expire.
RateLimiterSound ==
    /\ [](LimiterNeverEngages /\ RecordsAreNew)
    /\ UnexpiredStay
===============================================================================
