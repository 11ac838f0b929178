---------------------------- MODULE ComponentProofs ----------------------------
(***************************************************************************)
(* What is proved of components that are checked beside each other in the  *)
(* runs requests and engine: the rate limiter, the event loop, the string  *)
(* pool, the first login, the page file under the log, the client          *)
(* connections, the retries of a transaction, the generic cache and query  *)
(* tracking.  They share no variable, and each theorem is about the        *)
(* specification of its component alone, for every value of its constants. *)
(***************************************************************************)
EXTENDS RateLimiter, EpollServer, StringPool, Bootstrap, PageStore, ClientConnections, TransactionRetry,
        GenericCache, QueryTracking, FiniteSetTheorems, SequenceTheorems, TLAPS

-----------------------------------------------------------------------------
(* The rate limiter.  Every document has a uuid the storage layer made, so *)
(* none is ever found under the name the limiter looks for: each record is *)
(* the first.                                                              *)

\* A name of the storage layer's, already given.
Fresh(i) == \E n \in Nat : i = <<"fresh", n>>

RateInv ==
    /\ ~ engaged
    /\ \A d \in rdocs : d.count = 1 /\ Fresh(d.id)
    /\ inserted \in Nat

\* No lookup finds anything.
LEMMA NothingFound ==
    ASSUME RateInv, NEW kind \in {"breaker", "rate"}, NEW s
    PROVE  storage_get_document(NameOf(kind, s)) = {}
  BY DEF RateInv, Fresh, NameOf, storage_get_document

\* What a step adds is a first record under a fresh name.
RateStep ==
    /\ ~ engaged' /\ inserted' \in Nat
    /\ \A d \in rdocs' : d \in rdocs \/ (d.count = 1 /\ Fresh(d.id))
    /\ \A d \in rdocs : d.expires >= rtime => d \in rdocs'

LEMMA RateStepLemma == RateInv /\ RateNext => RateStep
<1> SUFFICES ASSUME RateInv, RateNext PROVE RateStep
  OBVIOUS
<1> USE RateAssumption
<1>1. ASSUME NEW s \in Services, circuit_breaker_record_failure(s) PROVE RateStep
  <2> DEFINE nm == NameOf("breaker", s)
             d0 == Found("breaker", s)
  <2>1. storage_get_document(nm) = {}
    BY NothingFound
  <2>2. d0 = [id |-> nm, kind |-> "breaker", state |-> "CLOSED", count |-> 0, half |-> 0, stamp |-> 0, expires |-> 0]
    BY <2>1 DEF Found
  <2>3. PICK e : e = [d0 EXCEPT !.count = d0.count + 1, !.stamp = rtime, !.expires = rtime + BreakerLife,
                           !.half = IF d0.state = "HALF_OPEN" THEN @ + 1 ELSE @,
                           !.state = IF d0.count + 1 >= FailureThreshold /\ @ = "CLOSED" THEN "OPEN" ELSE @]
                 /\ Store("breaker", s, e)
    BY <1>1 DEF circuit_breaker_record_failure
  <2>4. e.count = 1
    BY <2>2, <2>3
  <2>5. DOMAIN e = {"id", "kind", "state", "count", "half", "stamp", "expires"}
    BY <2>2, <2>3
  <2>6. PICK f : f = [e EXCEPT !.id = IdOfInserted(nm)] /\ rdocs' = rdocs \cup {f} /\ inserted' = inserted + 1
    BY <2>1, <2>3 DEF Store
  <2>7. f.count = 1 /\ Fresh(f.id)
    BY <2>4, <2>5, <2>6 DEF IdOfInserted, Fresh, RateInv
  <2>8. ~ engaged'
    BY <1>1 DEF circuit_breaker_record_failure, RateInv
  <2>9. rdocs' = rdocs \cup {f} /\ inserted' \in Nat
    BY <2>6 DEF RateInv
  <2> QED BY <2>7, <2>8, <2>9 DEF RateStep
<1>2. ASSUME NEW s \in Services, circuit_breaker_get_state(s) PROVE RateStep
  BY NothingFound, <1>2 DEF circuit_breaker_get_state, RateInv, RateStep
<1>3. ASSUME NEW s \in Services, circuit_breaker_record_success(s) PROVE RateStep
  BY NothingFound, <1>3 DEF circuit_breaker_record_success, RateStep, RateInv
<1>4. ASSUME NEW s \in Services, AcceptClient(s) PROVE RateStep
  <2> DEFINE nm == NameOf("rate", s)
             d0 == Found("rate", s)
  <2>1. storage_get_document(nm) = {}
    BY NothingFound
  <2>2. d0 = [id |-> nm, kind |-> "rate", state |-> "CLOSED", count |-> 0, half |-> 0, stamp |-> 0, expires |-> 0]
    BY <2>1 DEF Found
  <2>3. connection_rate_check(s)
    BY <2>1 DEF connection_rate_check
  <2>4. PICK e : e = [d0 EXCEPT !.stamp = rtime, !.expires = rtime + RateLife,
                               !.count = IF d0.stamp = rtime THEN @ + 1 ELSE 1]
                 /\ Store("rate", s, e)
    BY <1>4, <2>3 DEF AcceptClient, connection_rate_record
  <2>5. e.count = 1 /\ DOMAIN e = {"id", "kind", "state", "count", "half", "stamp", "expires"}
    BY <2>2, <2>4
  <2>6. PICK f : f = [e EXCEPT !.id = IdOfInserted(nm)] /\ rdocs' = rdocs \cup {f} /\ inserted' = inserted + 1
    BY <2>1, <2>4 DEF Store
  <2>7. f.count = 1 /\ Fresh(f.id)
    BY <2>5, <2>6 DEF IdOfInserted, Fresh, RateInv
  <2>8. ~ engaged'
    BY <1>4, <2>3 DEF AcceptClient, RateInv
  <2>9. rdocs' = rdocs \cup {f} /\ inserted' \in Nat
    BY <2>6 DEF RateInv
  <2> QED BY <2>7, <2>8, <2>9 DEF RateStep
<1>5. CASE rate_limiter_cleanup_expired
  BY <1>5 DEF rate_limiter_cleanup_expired, RateStep, RateInv
<1>6. CASE RateTick
  BY <1>6 DEF RateTick, RateStep, RateInv
<1> QED BY <1>1, <1>2, <1>3, <1>4, <1>5, <1>6 DEF RateNext

\* With the storage layer as it is (storage_insert_document overwrites the uuid), no breaker
\* of rate_limiter.c is ever seen open and no client refused, every record counts one, and
\* the clean-up takes only documents whose time is over.
THEOREM LimiterIsSound == RateSpec => RateLimiterSound
<1>1. RateInit => RateInv
  BY DEF RateInit, RateInv
<1>2. RateInv /\ [RateNext]_rateVars => RateInv'
  BY RateStepLemma DEF RateStep, RateInv, rateVars
<1>3. RateInv => LimiterNeverEngages /\ RecordsAreNew
  BY DEF RateInv, LimiterNeverEngages, RecordsAreNew
<1>4. RateInv /\ [RateNext]_rateVars
        => [\A d \in rdocs : d.expires >= rtime => \E e \in rdocs' : e.id = d.id]_rateVars
  BY RateStepLemma DEF RateStep
<1> QED BY <1>1, <1>2, <1>3, <1>4, PTL DEF RateSpec, RateLimiterSound, UnexpiredStay
-----------------------------------------------------------------------------
(* The event loop.  An edge is reported once: the invariant ties each      *)
(* pending edge to the place its client is in, so that a client that moves *)
(* on, or is destroyed, leaves none behind and takes none along.           *)

\* The place of a client and the edges it can have there.
EdgesMatch(c) ==
    /\ c \in backlog => eat[c] = "queued"
    /\ c \in inEdge => eat[c] = "reading"
    /\ c \in outEdge => eat[c] = "writing"
    /\ c \in quiet => eat[c] \in {"reading", "writing"}

\* What has arrived, or will be sent, is reported.
Reported(c) ==
    /\ eat[c] = "reading" /\ ~ stopped /\ (readParts[c] < arrivedParts[c] \/ c \in hup) => c \in inEdge
    /\ eat[c] = "writing" /\ c \in writable => c \in outEdge

EpollTypes ==
    /\ eat \in [EClients -> Places]
    /\ arrivedParts \in [EClients -> 0 .. MaxParts] /\ readParts \in [EClients -> 0 .. MaxParts]
    /\ backlog \subseteq EClients /\ inEdge \subseteq EClients /\ outEdge \subseteq EClients
    /\ quiet \subseteq EClients
    /\ ledge \in BOOLEAN /\ stopped \in BOOLEAN /\ acceptFailed \in BOOLEAN

CountInv == EpollCountExact /\ connection_count \in 0 .. MaxEpollConns

EpollInv ==
    /\ EpollTypes
    /\ \A c \in EClients : EdgesMatch(c) /\ Reported(c)
    /\ QueuedIsReported /\ CountInv

\* The count of connections, when those of a set are closed.
LEMMA CountOfDestroyed ==
    ASSUME EpollTypes, CountInv, NEW S, S \subseteq Connected, Destroyed(S)
    PROVE  CountInv' /\ eat' \in [EClients -> Places]
<1>1. IsFiniteSet(Connected)
  BY EpollAssumption, FS_Subset DEF Connected
<1>2. Connected' = Connected \ S
  BY DEF Connected, Destroyed
<1>3. IsFiniteSet(Connected \ S) /\ Cardinality(Connected \ S) = Cardinality(Connected) - Cardinality(Connected \cap S)
  BY <1>1, FS_Difference
<1>4. Connected \cap S = S /\ IsFiniteSet(S)
  BY <1>1, FS_Subset
<1>5. Cardinality(S) \in Nat /\ Cardinality(Connected) \in Nat /\ Cardinality(Connected \ S) \in Nat
  BY <1>1, <1>3, <1>4, FS_CardinalityType
<1>6. connection_count' = connection_count - Cardinality(S)
  BY DEF Destroyed
<1>7. connection_count' = Cardinality(Connected')
  BY <1>2, <1>3, <1>4, <1>6 DEF CountInv, EpollCountExact
<1>8. connection_count' \in 0 .. MaxEpollConns
  BY <1>2, <1>5, <1>6, <1>7, EpollAssumption DEF CountInv
<1>9. eat' \in [EClients -> Places]
  BY DEF Destroyed, EpollTypes, Places
<1> QED BY <1>7, <1>8, <1>9 DEF CountInv, EpollCountExact

\* The count of connections, when only the places of clients change that stay connected.
LEMMA CountKept ==
    ASSUME CountInv, Connected' = Connected, connection_count' = connection_count
    PROVE  CountInv'
BY DEF CountInv, EpollCountExact

\* Steps of the clients and of the network.
LEMMA ClientStepKeeps ==
    ASSUME EpollInv, NEW d \in EClients,
           Connect(d) \/ Send(d) \/ Hang(d) \/ Stall(d) \/ Resume(d) \/ FallsQuiet(d)
    PROVE  EpollInv'
<1> USE DEF EpollInv
<1>1. connection_count' = connection_count
  BY DEF Connect, Send, Hang, Stall, Resume, FallsQuiet
<1>2. Connected' = Connected
  BY DEF Connected, Connect, Send, Hang, Stall, Resume, FallsQuiet, EpollTypes
<1>3. CountInv'
  BY <1>1, <1>2, CountKept
<1>4. EpollTypes'
  <2>1. CASE Connect(d)
    BY <2>1 DEF EpollTypes, Connect, Places
  <2>2. CASE Send(d)
    BY <2>2, EpollAssumption DEF EpollTypes, Send
  <2>3. CASE Hang(d) \/ Stall(d)
    BY <2>3 DEF EpollTypes, Hang, Stall
  <2>4. CASE Resume(d) \/ FallsQuiet(d)
    BY <2>4 DEF EpollTypes, Resume, FallsQuiet
  <2> QED BY <2>1, <2>2, <2>3, <2>4
<1>5. QueuedIsReported'
  BY DEF QueuedIsReported, EpollTypes, Connect, Send, Hang, Stall, Resume, FallsQuiet
<1>6. ASSUME NEW c \in EClients PROVE EdgesMatch(c)' /\ Reported(c)'
  BY DEF Connect, EdgesMatch, Reported, EpollTypes, Send, Hang, Stall, Resume, FallsQuiet, Connected
<1> QED BY <1>3, <1>4, <1>5, <1>6

\* handle_accept_events: those kept become connections, and what is left in the queue has
\* been left by an error.
LEMMA AcceptKeeps ==
    ASSUME EpollInv, handle_accept_events
    PROVE  EpollInv'
<1> USE DEF EpollInv
<1>1. PICK taken \in SUBSET backlog, kept \in SUBSET backlog :
          /\ kept \subseteq taken /\ connection_count + Cardinality(kept) =< MaxEpollConns
          /\ backlog' = backlog \ taken
          /\ eat' = [c \in EClients |-> IF c \in kept THEN "reading"
                                        ELSE IF c \in taken THEN "closed" ELSE eat[c]]
          /\ connection_count' = connection_count + Cardinality(kept)
          /\ inEdge' = inEdge \cup {c \in kept : arrivedParts[c] > 0 \/ c \in hup}
          /\ acceptFailed' = (acceptFailed \/ taken # backlog)
  BY DEF handle_accept_events
<1>2. /\ ledge' = FALSE /\ ~ stopped
      /\ UNCHANGED <<arrivedParts, readParts, outEdge, writable, hup, quiet, eshutdown, stopped>>
  BY DEF handle_accept_events
<1>3. \A c \in taken : c \in EClients /\ eat[c] = "queued"
  BY DEF EpollTypes, EdgesMatch
<1>4. CountInv'
  <2>1. IsFiniteSet(Connected) /\ IsFiniteSet(kept)
    BY EpollAssumption, FS_Subset DEF Connected, EpollTypes
  <2>2. Connected' = Connected \cup kept
    BY <1>1, <1>3 DEF Connected
  <2>3. Connected \cap kept = {}
    BY <1>1, <1>3 DEF Connected
  <2>4. Cardinality(Connected \cup kept) = Cardinality(Connected) + Cardinality(kept) - Cardinality(Connected \cap kept)
    BY <2>1, FS_Union
  <2>5. Cardinality(Connected \cap kept) = 0
    BY <2>3, FS_EmptySet
  <2>6. Cardinality(Connected) \in Nat /\ Cardinality(kept) \in Nat
    BY <2>1, FS_CardinalityType
  <2>7. connection_count' = Cardinality(Connected')
    BY <1>1, <2>2, <2>4, <2>5, <2>6 DEF CountInv, EpollCountExact
  <2>8. connection_count' \in 0 .. MaxEpollConns
    BY <1>1, <2>6, EpollAssumption DEF CountInv
  <2> QED BY <2>7, <2>8 DEF CountInv, EpollCountExact
<1>5. EpollTypes'
  BY <1>1, <1>2 DEF EpollTypes, Places
<1>6. QueuedIsReported'
  BY <1>1 DEF QueuedIsReported
<1>7. ASSUME NEW c \in EClients PROVE EdgesMatch(c)' /\ Reported(c)'
  BY EpollAssumption, <1>1, <1>3, <1>2 DEF EpollTypes, EdgesMatch, Reported
<1> QED BY <1>4, <1>5, <1>6, <1>7

\* Connections destroyed by whoever destroys them.
LEMMA DestroyKeeps ==
    ASSUME EpollInv, NEW S, S \subseteq Connected, Destroyed(S),
           readParts' \in [EClients -> 0 .. MaxParts],
           \A c \in EClients \ S : readParts'[c] = readParts[c],
           UNCHANGED <<backlog, ledge, arrivedParts, writable, hup, acceptFailed>>,
           stopped' = stopped \/ (stopped' = TRUE /\ S = Connected)
    PROVE  EpollInv'
<1> USE DEF EpollInv
<1>1. CountInv' /\ eat' \in [EClients -> Places]
  BY CountOfDestroyed
<1>2. EpollTypes'
  BY <1>1 DEF EpollTypes, Destroyed
<1>3. QueuedIsReported'
  BY DEF QueuedIsReported, EpollTypes
<1>4. ASSUME NEW c \in EClients PROVE EdgesMatch(c)' /\ Reported(c)'
  BY DEF Destroyed, Connected, EdgesMatch, Reported, EpollTypes
<1> QED BY <1>1, <1>2, <1>3, <1>4

\* HandleRead: all that has arrived is read, so that the edge can be forgotten.
LEMMA ReadKeeps ==
    ASSUME EpollInv, NEW d \in EClients, HandleRead(d)
    PROVE  EpollInv'
<1> USE DEF EpollInv
<1>1. /\ d \in inEdge /\ ~ stopped /\ readParts' = [readParts EXCEPT ![d] = arrivedParts[d]]
      /\ UNCHANGED <<backlog, ledge, arrivedParts, writable, hup, eshutdown, stopped, acceptFailed>>
  BY DEF HandleRead, process_read_event, ReadAll
<1>2. eat[d] = "reading" /\ d \notin outEdge /\ d \notin backlog /\ d \in Connected
  BY <1>1 DEF EdgesMatch, Connected
<1>3. readParts' \in [EClients -> 0 .. MaxParts] /\ readParts'[d] = arrivedParts[d]
      /\ \A c \in EClients \ {d} : readParts'[c] = readParts[c]
  BY <1>1 DEF EpollTypes
<1>4. CASE /\ d \notin hup
           /\ inEdge' = inEdge \ {d} /\ quiet' = quiet \ {d}
           /\ UNCHANGED <<eat, outEdge, connection_count>>
  BY <1>4, CountKept, <1>1, <1>3, <1>2 DEF Connected, EpollTypes, QueuedIsReported, EdgesMatch, Reported
<1>5. CASE /\ eat' = [eat EXCEPT ![d] = "writing"]
           /\ inEdge' = inEdge \ {d} /\ quiet' = quiet \ {d}
           /\ outEdge' = IF d \in writable \/ d \in hup THEN outEdge \cup {d} ELSE outEdge
           /\ UNCHANGED connection_count
  BY <1>2, <1>5, CountKept, <1>1, <1>3 DEF Connected, EpollTypes, QueuedIsReported, Places, EdgesMatch, Reported
<1>6. CASE Destroyed({d})
  BY <1>1, <1>2, <1>3, <1>6, DestroyKeeps
<1> QED BY <1>4, <1>5, <1>6 DEF HandleRead, process_read_event

\* HandleWrite: what is left waits until the socket has room again, and that is an edge.
LEMMA WriteKeeps ==
    ASSUME EpollInv, NEW d \in EClients, HandleWrite(d)
    PROVE  EpollInv'
<1> USE DEF EpollInv
<1>1. /\ d \in outEdge /\ ~ stopped
      /\ UNCHANGED <<backlog, ledge, arrivedParts, readParts, hup, eshutdown, stopped, acceptFailed>>
  BY DEF HandleWrite
<1>2. eat[d] = "writing" /\ d \in Connected
  BY <1>1 DEF EdgesMatch, Connected
<1>3. CASE /\ outEdge' = outEdge \ {d} /\ quiet' = quiet \ {d} /\ writable' = writable \ {d}
           /\ UNCHANGED <<eat, inEdge, connection_count>>
  BY <1>3, CountKept, <1>1 DEF Connected, EpollTypes, QueuedIsReported, EdgesMatch, Reported
<1>4. CASE Destroyed({d}) /\ UNCHANGED writable
  BY <1>1, <1>2, <1>4, DestroyKeeps DEF EpollTypes
<1> QED BY <1>3, <1>4 DEF HandleWrite

LEMMA EpollStepKeeps == EpollInv /\ [EpollNext]_epollVars => EpollInv'
<1> SUFFICES ASSUME EpollInv, [EpollNext]_epollVars PROVE EpollInv'
  OBVIOUS
<1>1. CASE \E c \in EClients : Connect(c) \/ Send(c) \/ Hang(c) \/ Stall(c) \/ Resume(c) \/ FallsQuiet(c)
  BY <1>1, ClientStepKeeps
<1>2. CASE \E c \in EClients : HandleRead(c)
  BY <1>2, ReadKeeps
<1>3. CASE \E c \in EClients : HandleWrite(c)
  BY <1>3, WriteKeeps
<1>4. CASE handle_accept_events
  BY <1>4, AcceptKeeps
<1>5. CASE cleanup_expired_connections
  BY <1>5, DestroyKeeps DEF EpollInv, EpollTypes, EdgesMatch, Connected, cleanup_expired_connections
<1>6. CASE Stop
  BY <1>6, DestroyKeeps DEF Stop, EpollInv, EpollTypes
<1>7. CASE epoll_server_shutdown
  BY <1>7 DEF epoll_server_shutdown, EpollInv, EpollTypes, EdgesMatch, Reported, QueuedIsReported,
              CountInv, EpollCountExact, Connected
<1>8. CASE UNCHANGED epollVars
  BY <1>8 DEF epollVars, EpollInv, EpollTypes, EdgesMatch, Reported, QueuedIsReported,
              CountInv, EpollCountExact, Connected
<1> QED BY <1>1, <1>2, <1>3, <1>4, <1>5, <1>6, <1>7, <1>8 DEF EpollNext

\* The event loop of epoll_server.c loses no event although each edge is reported once:
\* what can be read or written, and who can be accepted unless accept4 failed, is pending;
\* its connection count, which the limit is compared with, is exact.
THEOREM EventsAreReported == EpollSpec => []EpollSound
<1>1. EpollInit => EpollInv
  <2> SUFFICES ASSUME EpollInit PROVE EpollInv
    OBVIOUS
  <2>1. Connected = {}
    BY DEF EpollInit, Connected
  <2>2. CountInv
    BY <2>1, FS_EmptySet, EpollAssumption DEF EpollInit, CountInv, EpollCountExact
  <2>3. 0 \in 0 .. MaxParts
    BY EpollAssumption
  <2>4. EpollTypes
    BY <2>3 DEF EpollInit, EpollTypes, Places
  <2> QED BY <2>2, <2>4 DEF EpollInit, EpollInv, EdgesMatch, Reported, QueuedIsReported
<1>2. EpollInv => EpollSound
  BY DEF EpollInv, EpollSound, EpollTypes, EdgesMatch, Reported, CountInv, EpollTypeOK, UnreadIsReported,
         WritableIsReported, Connected
<1> QED BY <1>1, <1>2, EpollStepKeeps, PTL DEF EpollSpec
-----------------------------------------------------------------------------
(* The first login.  Until the bootstrap is completed the section belongs  *)
(* to the thread that holds the mutex, so the documents made so far are    *)
(* those of the steps it has behind it; from then on nobody makes any,     *)
(* which is why the mutex may be unlocked twice.                           *)

SectionPcs == {"inside", "role", "user", "libraries", "actors", "complete", "shortcut", "unlock"}
MakingPcs  == {"role", "user", "libraries", "actors", "complete"}
BPcs == SectionPcs \cup {"idle", "getenv", "credentials", "lock"}
Logins == [pc : BPcs, who : {"", "admin", "placeholder", "user"}, role : Nat]

BootTypes ==
    /\ boot \in [BThreads -> Logins] /\ madeDocs \in [DocKinds -> Nat] /\ adminRoleOf \in Nat
    /\ bmutex \in BThreads \cup {Free} /\ starts \in Nat \ {0} /\ bootFailed \in Nat
    /\ completed \in BOOLEAN /\ bmode \in BOOLEAN /\ deferred \in BOOLEAN /\ pageFile = TRUE

SectionInv ==
    /\ ~ completed => \A t \in BThreads : boot[t].pc \in SectionPcs => bmutex = t /\ boot[t].pc # "shortcut"
    /\ completed => \A t \in BThreads : boot[t].pc \notin MakingPcs
    /\ bmutex # Free => boot[bmutex].pc \in SectionPcs
    /\ ~ completed => bmode /\ deferred
    /\ ~ completed /\ bootFailed = 0 => \A t \in BThreads : boot[t].pc \notin {"credentials", "unlock"}
    /\ ~ answeredEarly

\* The bootstrap is completed, or a thread is at one of these steps of it.
Past(pcs) == completed \/ \E t \in BThreads : boot[t].pc \in pcs

\* The kinds of documents of which each bootstrap makes one.
Singles == DocKinds \ {"admin_role", "collection", "welcome"}

\* The steps after the one that makes the document.
Later(k) ==
    IF k = "admin" THEN {"libraries", "actors", "complete"}
    ELSE IF k \in {"system_library", "default_library"} THEN {"actors", "complete"} ELSE {"complete"}
AfterRole == {"user", "libraries", "actors", "complete"}

DocsInv ==
    /\ madeDocs["admin_role"] =< bootFailed + 1
    /\ madeDocs["admin_role"] =< bootFailed \/ Past(AfterRole)
    /\ adminRoleOf =< madeDocs["admin_role"]
    /\ \A t \in BThreads : boot[t].pc = "user" => boot[t].role \in 1 .. madeDocs["admin_role"]
    /\ \A k \in Singles : madeDocs[k] =< 1 /\ (madeDocs[k] = 0 \/ Past(Later(k)))
    /\ Past(Later("admin")) => /\ madeDocs["admin"] = 1 <=> environment # "none"
                               /\ madeDocs["admin"] = 1 => adminRoleOf > 0
    /\ madeDocs["welcome"] =< 1 /\ (madeDocs["welcome"] = 1 <=> starts = 1)
    /\ physical = {<<"default", "documents">>}

BootInv == BootTypes /\ SectionInv /\ DocsInv

\* A thread moves on and leaves the others where they are.
LEMMA GotoEffect ==
    ASSUME BootTypes, NEW t \in BThreads, NEW p \in BPcs, BGoto(t, p)
    PROVE  /\ boot' \in [BThreads -> Logins] /\ boot'[t].pc = p /\ boot'[t].role = boot[t].role
           /\ \A u \in BThreads \ {t} : boot'[u] = boot[u]
BY DEF BootTypes, Logins, BGoto

\* What is past stays so while no thread passes one of the steps.
LEMMA PastKept ==
    ASSUME NEW t \in BThreads, \A u \in BThreads \ {t} : boot'[u] = boot[u], completed' = completed,
           NEW pcs, boot[t].pc \in pcs <=> boot'[t].pc \in pcs
    PROVE  Past(pcs)' <=> Past(pcs)
BY DEF Past

\* The documents, when a step makes none and its thread is not among those who do.
LEMMA DocsKept ==
    ASSUME BootInv, NEW t \in BThreads, \A u \in BThreads \ {t} : boot'[u] = boot[u],
           boot[t].pc \notin AfterRole, boot'[t].pc \notin AfterRole,
           UNCHANGED <<completed, madeDocs, adminRoleOf, bootFailed, environment, starts, physical>>
    PROVE  DocsInv'
<1>1. Past(AfterRole)' <=> Past(AfterRole)
  BY PastKept
<1>2. ASSUME NEW k PROVE Past(Later(k))' <=> Past(Later(k))
  <2>1. boot[t].pc \in Later(k) <=> boot'[t].pc \in Later(k)
    BY DEF Later, AfterRole
  <2> HIDE DEF Later
  <2> QED BY <2>1, PastKept
<1>3. \A u \in BThreads : boot'[u].pc = "user" => boot[u].pc = "user" /\ boot'[u].role = boot[u].role
  BY DEF AfterRole
<1> QED BY <1>1, <1>2, <1>3 DEF BootInv, DocsInv

\* A login that is not, or no longer, making anything moves on.
LEMMA QuietStepKeeps ==
    ASSUME BootInv, NEW t \in BThreads, NEW p \in BPcs, boot[t].pc \notin AfterRole, p \notin AfterRole,
           boot' \in [BThreads -> Logins], boot'[t].pc = p, \A u \in BThreads \ {t} : boot'[u] = boot[u],
           UNCHANGED <<bootData, bootMode, madeDocs, adminRoleOf, bootFailed>>, SectionInv', bmutex' \in BThreads \cup {Free}
    PROVE  BootInv'
  BY DocsKept DEF bootData, bootMode, BootInv, BootTypes

LEMMA OutsideKeeps ==
    ASSUME BootInv, NEW t \in BThreads,
           (\E who \in {"admin", "placeholder", "user"} : api_handle_login(t, who))
           \/ check_deferred(t) \/ lock_bootstrap(t) \/ check_completed(t) \/ admin_shortcut(t)
           \/ unlock_bootstrap(t) \/ check_credentials(t)
    PROVE  BootInv'
<1> USE DEF BootInv
<1>1. ASSUME NEW who \in {"admin", "placeholder", "user"}, api_handle_login(t, who) PROVE BootInv'
  <2>1. PICK p \in {"getenv", "credentials"} :
           p = (IF bmode THEN "getenv" ELSE "credentials") /\ boot' = [boot EXCEPT ![t] = [NoLogin EXCEPT !.pc = p, !.who = who]]
    BY <1>1 DEF api_handle_login
  <2>2. /\ boot' \in [BThreads -> Logins] /\ boot'[t].pc = p /\ p \in BPcs
        /\ \A u \in BThreads \ {t} : boot'[u] = boot[u]
    BY <2>1 DEF BootTypes, Logins, NoLogin, BPcs, SectionPcs
  <2>3. boot[t].pc = "idle" /\ UNCHANGED <<bootData, bootMode, bmutex, madeDocs, adminRoleOf, bootFailed, answeredEarly>>
    BY <1>1 DEF api_handle_login
  <2>4. SectionInv'
    BY <2>1, <2>2, <2>3 DEF SectionInv, bootMode, SectionPcs, MakingPcs, BootTypes
  <2> QED BY <2>1, <2>2, <2>3, <2>4, QuietStepKeeps DEF AfterRole, BootTypes
<1>2. CASE check_deferred(t)
  <2>1. PICK p \in {"lock", "credentials"} : p = (IF deferred THEN "lock" ELSE "credentials") /\ BGoto(t, p)
    BY <1>2 DEF check_deferred
  <2>2. /\ boot' \in [BThreads -> Logins] /\ boot'[t].pc = p /\ p \in BPcs
        /\ \A u \in BThreads \ {t} : boot'[u] = boot[u]
    BY <2>1, GotoEffect DEF BPcs
  <2>3. boot[t].pc = "getenv" /\ UNCHANGED <<bootData, bootMode, bmutex, madeDocs, adminRoleOf, bootFailed, answeredEarly>>
    BY <1>2 DEF check_deferred, bootRest
  <2>4. SectionInv'
    BY <2>1, <2>2, <2>3 DEF SectionInv, bootMode, SectionPcs, MakingPcs, BootTypes
  <2> QED BY <2>1, <2>2, <2>3, <2>4, QuietStepKeeps DEF AfterRole, BootTypes
<1>3. CASE lock_bootstrap(t)
  <2>1. BGoto(t, "inside") /\ "inside" \in BPcs /\ bmutex = Free /\ bmutex' = t
    BY <1>3 DEF lock_bootstrap, BPcs, SectionPcs
  <2>2. /\ boot' \in [BThreads -> Logins] /\ boot'[t].pc = "inside"
        /\ \A u \in BThreads \ {t} : boot'[u] = boot[u]
    BY <2>1, GotoEffect
  <2>3. boot[t].pc = "lock" /\ UNCHANGED <<bootData, bootMode, madeDocs, adminRoleOf, bootFailed, answeredEarly>>
    BY <1>3 DEF lock_bootstrap, bootRest
  <2>4. SectionInv'
    BY <2>1, <2>2, <2>3, BootAssumption DEF SectionInv, bootMode, SectionPcs, MakingPcs, BootTypes
  <2> QED BY <2>1, <2>2, <2>3, <2>4, QuietStepKeeps DEF AfterRole
<1>4. CASE check_completed(t)
  <2>1. PICK p \in {"unlock", "role"} : p = (IF completed THEN "unlock" ELSE "role") /\ BGoto(t, p)
    BY <1>4 DEF check_completed
  <2>2. /\ boot' \in [BThreads -> Logins] /\ boot'[t].pc = p /\ p \in BPcs
        /\ \A u \in BThreads \ {t} : boot'[u] = boot[u]
    BY <2>1, GotoEffect DEF BPcs, SectionPcs
  <2>3. boot[t].pc = "inside" /\ UNCHANGED <<bootData, bootMode, bmutex, madeDocs, adminRoleOf, bootFailed, answeredEarly>>
    BY <1>4 DEF check_completed, bootRest
  <2>4. SectionInv'
    BY <2>1, <2>2, <2>3 DEF SectionInv, bootMode, SectionPcs, MakingPcs, BootTypes
  <2> QED BY <2>1, <2>2, <2>3, <2>4, QuietStepKeeps DEF AfterRole, BootTypes
<1>5. CASE admin_shortcut(t)
  <2>1. BGoto(t, "unlock") /\ "unlock" \in BPcs /\ bmutex' = Free
    BY <1>5 DEF admin_shortcut, BPcs, SectionPcs
  <2>2. /\ boot' \in [BThreads -> Logins] /\ boot'[t].pc = "unlock"
        /\ \A u \in BThreads \ {t} : boot'[u] = boot[u]
    BY <2>1, GotoEffect
  <2>3. boot[t].pc = "shortcut" /\ UNCHANGED <<bootData, bootMode, madeDocs, adminRoleOf, bootFailed, answeredEarly>>
    BY <1>5 DEF admin_shortcut, bootRest
  <2>4. SectionInv'
    BY <2>1, <2>2, <2>3 DEF SectionInv, bootMode, SectionPcs, MakingPcs, BootTypes
  <2> QED BY <2>1, <2>2, <2>3, <2>4, QuietStepKeeps DEF AfterRole
<1>6. CASE unlock_bootstrap(t)
  <2>1. BGoto(t, "credentials") /\ "credentials" \in BPcs /\ bmutex' = Free
    BY <1>6 DEF unlock_bootstrap, BPcs, SectionPcs
  <2>2. /\ boot' \in [BThreads -> Logins] /\ boot'[t].pc = "credentials"
        /\ \A u \in BThreads \ {t} : boot'[u] = boot[u]
    BY <2>1, GotoEffect
  <2>3. boot[t].pc = "unlock" /\ UNCHANGED <<bootData, bootMode, madeDocs, adminRoleOf, bootFailed, answeredEarly>>
    BY <1>6 DEF unlock_bootstrap, bootRest
  <2>4. SectionInv'
    BY <2>1, <2>2, <2>3 DEF SectionInv, bootMode, SectionPcs, MakingPcs, BootTypes
  <2> QED BY <2>1, <2>2, <2>3, <2>4, QuietStepKeeps DEF AfterRole
<1>7. CASE check_credentials(t)
  <2>1. /\ boot' \in [BThreads -> Logins] /\ boot'[t].pc = "idle" /\ "idle" \in BPcs
        /\ \A u \in BThreads \ {t} : boot'[u] = boot[u]
    BY <1>7 DEF check_credentials, BootTypes, Logins, NoLogin, BPcs
  <2>2. boot[t].pc = "credentials" /\ UNCHANGED <<bootData, bootMode, bmutex, madeDocs, adminRoleOf, bootFailed>>
    BY <1>7 DEF check_credentials
  <2>3. completed \/ bootFailed # 0
    BY <2>2 DEF SectionInv
  <2>4. ~ answeredEarly'
    BY <1>7, <2>3 DEF check_credentials, SectionInv
  <2>5. SectionInv'
    BY <2>1, <2>2, <2>4 DEF SectionInv, bootMode, SectionPcs, MakingPcs, BootTypes
  <2> QED BY <2>1, <2>2, <2>5, QuietStepKeeps DEF AfterRole, BootTypes
<1> QED BY <1>1, <1>2, <1>3, <1>4, <1>5, <1>6, <1>7

\* The thread that makes the documents is alone with them.
LEMMA MakerIsAlone ==
    ASSUME BootInv, NEW t \in BThreads, boot[t].pc \in MakingPcs
    PROVE  /\ ~ completed /\ bmutex = t
           /\ \A u \in BThreads \ {t} : boot[u].pc \notin SectionPcs
           /\ \A pcs \in SUBSET MakingPcs : Past(pcs) <=> boot[t].pc \in pcs
  BY DEF BootInv, SectionInv, MakingPcs, SectionPcs, Past
LEMMA MakerMoves ==
    ASSUME BootInv, NEW t \in BThreads, boot[t].pc \in MakingPcs, NEW p \in MakingPcs \cup {"unlock"},
           boot'[t].pc = p, \A u \in BThreads \ {t} : boot'[u] = boot[u],
           UNCHANGED <<bootMode, bmutex, answeredEarly>>,
           bootFailed' = 0 => p # "unlock" /\ bootFailed = 0
    PROVE  /\ SectionInv'
           /\ \A pcs \in SUBSET MakingPcs : Past(pcs)' <=> p \in pcs
<1>1. ~ completed /\ bmutex = t /\ \A u \in BThreads \ {t} : boot[u].pc \notin SectionPcs
  BY MakerIsAlone
<1>2. SectionInv'
  BY <1>1 DEF BootInv, SectionInv, bootMode, SectionPcs, MakingPcs
<1>3. \A pcs \in SUBSET MakingPcs : Past(pcs)' <=> p \in pcs
  BY <1>1 DEF Past, bootMode, SectionPcs, MakingPcs
<1> QED BY <1>2, <1>3

\* What is stored after StoreDocs.
LEMMA StoredDocs ==
    ASSUME BootTypes, NEW kinds \in SUBSET DocKinds, StoreDocs(kinds)
    PROVE  /\ madeDocs' \in [DocKinds -> Nat]
           /\ \A k \in kinds : madeDocs'[k] = madeDocs[k] + 1
           /\ \A k \in DocKinds \ kinds : madeDocs'[k] = madeDocs[k]
BY DEF BootTypes, StoreDocs

LEMMA MakingKeeps ==
    ASSUME BootInv, NEW t \in BThreads,
           create_default_admin_role(t) \/ create_default_admin_user(t) \/ insert_libraries(t)
           \/ create_system_actors(t)
    PROVE  BootInv'
<1> USE DEF BootInv
<1>0. \A k : Later(k) \in SUBSET MakingPcs /\ AfterRole \in SUBSET MakingPcs
  BY DEF Later, AfterRole, MakingPcs
<1>1. UNCHANGED <<bootData, userRegistered, bootCalls, answeredEarly, bootMode, bmutex>>
  BY DEF create_default_admin_role, create_default_admin_user, insert_libraries, create_system_actors, bootRest
<1>2. ASSUME boot[t].pc = "role", madeDocs' = madeDocs, adminRoleOf' = adminRoleOf, BootFails, BGoto(t, "unlock")
      PROVE  BootInv'
  <2>1. /\ boot' \in [BThreads -> Logins] /\ boot'[t].pc = "unlock"
        /\ \A u \in BThreads \ {t} : boot'[u] = boot[u]
    BY <1>2, GotoEffect DEF BPcs, SectionPcs
  <2>2. bootFailed' = bootFailed + 1
    BY <1>2 DEF BootFails
  <2>3. boot[t].pc \in MakingPcs /\ "unlock" \in MakingPcs \cup {"unlock"} /\ bootFailed' # 0
    BY <1>2, <2>2 DEF MakingPcs, BootTypes
  <2>4. SectionInv' /\ \A pcs \in SUBSET MakingPcs : Past(pcs)' <=> "unlock" \in pcs
    BY <1>1, <2>1, <2>3, MakerMoves
  <2>5. \A pcs \in SUBSET MakingPcs : Past(pcs) <=> "role" \in pcs
    BY <1>2, <2>3, MakerIsAlone
  <2>6. ~ Past(AfterRole) /\ \A k \in Singles : ~ Past(Later(k))
    BY <1>0, <2>5 DEF Later, AfterRole, Singles
  <2>7. "admin" \in Singles /\ ~ Past(Later("admin"))' /\ \A u \in BThreads : boot'[u].pc # "user"
    BY <1>0, <2>4, <2>3, MakerIsAlone, <2>1 DEF Later, Singles, SectionPcs, DocKinds
  <2>8. DocsInv'
    BY <2>6, <1>2, <2>2, <1>1, <2>7 DEF DocsInv, BootTypes, DocKinds, bootData
  <2>9. BootTypes'
    BY <1>1, <1>2, <2>1, <2>2 DEF BootTypes, bootData, bootMode
  <2> QED BY <2>4, <2>8, <2>9
<1>3. ASSUME boot[t].pc = "role", StoreDocs({"admin_role"}), adminRoleOf' = adminRoleOf, bootFailed' = bootFailed,
             boot' = [boot EXCEPT ![t].pc = "user", ![t].role = madeDocs["admin_role"] + 1]
      PROVE  BootInv'
  <2>0. {"admin_role"} \in SUBSET DocKinds /\ madeDocs["admin_role"] \in Nat
    BY DEF DocKinds, BootTypes
  <2>1. /\ boot' \in [BThreads -> Logins] /\ boot'[t].pc = "user" /\ boot'[t].role = madeDocs["admin_role"] + 1
        /\ \A u \in BThreads \ {t} : boot'[u] = boot[u]
    <3> DEFINE n == madeDocs["admin_role"] + 1
    <3>0. n \in Nat /\ n = madeDocs["admin_role"] + 1
      BY <2>0
    <3>1. boot' = [boot EXCEPT ![t].pc = "user", ![t].role = n]
      BY <1>3
    <3> HIDE DEF n
    <3>2. /\ boot' \in [BThreads -> Logins] /\ boot'[t].pc = "user" /\ boot'[t].role = n
          /\ \A u \in BThreads \ {t} : boot'[u] = boot[u]
      BY <3>0, <3>1 DEF BootTypes, Logins, BPcs, SectionPcs
    <3> QED BY <3>0, <3>2
  <2>2. /\ madeDocs' \in [DocKinds -> Nat] /\ madeDocs'["admin_role"] = madeDocs["admin_role"] + 1
        /\ \A k \in DocKinds \ {"admin_role"} : madeDocs'[k] = madeDocs[k]
    BY <1>3, <2>0, StoredDocs
  <2>3. boot[t].pc \in MakingPcs /\ "user" \in MakingPcs \cup {"unlock"}
    BY <1>3 DEF MakingPcs
  <2>4. SectionInv' /\ \A pcs \in SUBSET MakingPcs : Past(pcs)' <=> "user" \in pcs
    BY <1>1, <1>3, <2>1, <2>3, MakerMoves
  <2>5. \A pcs \in SUBSET MakingPcs : Past(pcs) <=> "role" \in pcs
    BY <1>3, <2>3, MakerIsAlone
  <2>6. Past(AfterRole)' /\ ~ Past(AfterRole) /\ \A k \in Singles : ~ Past(Later(k)) /\ ~ Past(Later(k))'
    BY <1>0, <2>4, <2>5 DEF Later, AfterRole, Singles
  <2>7. \A u \in BThreads \ {t} : boot[u].pc \notin SectionPcs
    BY <2>3, MakerIsAlone
  <2>8. "admin" \in Singles /\ Singles \subseteq DocKinds \ {"admin_role"} /\ "welcome" \in DocKinds \ {"admin_role"}
    BY DEF Singles, DocKinds
  <2>9. DocsInv'
    BY <2>6, <1>3, <2>2, <2>0, <2>1, <2>7, <2>8, <1>1 DEF DocsInv, BootTypes, SectionPcs, bootData
  <2>10. BootTypes'
    BY <1>1, <1>3, <2>1, <2>2 DEF BootTypes, bootData, bootMode
  <2> QED BY <2>4, <2>9, <2>10
<1>4. ASSUME boot[t].pc = "user", BootFails, BGoto(t, "unlock"), madeDocs' = madeDocs, adminRoleOf' = adminRoleOf
      PROVE  BootInv'
  <2>1. /\ boot' \in [BThreads -> Logins] /\ boot'[t].pc = "unlock"
        /\ \A u \in BThreads \ {t} : boot'[u] = boot[u]
    BY <1>4, GotoEffect DEF BPcs, SectionPcs
  <2>2. bootFailed' = bootFailed + 1
    BY <1>4 DEF BootFails
  <2>3. boot[t].pc \in MakingPcs /\ "unlock" \in MakingPcs \cup {"unlock"} /\ bootFailed' # 0
    BY <1>4, <2>2 DEF MakingPcs, BootTypes
  <2>4. SectionInv' /\ \A pcs \in SUBSET MakingPcs : Past(pcs)' <=> "unlock" \in pcs
    BY <1>1, <2>1, <2>3, MakerMoves
  <2>5. \A pcs \in SUBSET MakingPcs : Past(pcs) <=> "user" \in pcs
    BY <1>4, <2>3, MakerIsAlone
  <2>6. \A k \in Singles : ~ Past(Later(k)) /\ ~ Past(Later(k))'
    BY <1>0, <2>4, <2>5 DEF Later, Singles
  <2>7. \A u \in BThreads \ {t} : boot[u].pc \notin SectionPcs
    BY <2>3, MakerIsAlone
  <2>8. "admin" \in Singles
    BY DEF Singles, DocKinds
  <2>9. DocsInv'
    BY <1>4, <2>2, <2>6, <2>1, <2>7, <1>1, <2>8 DEF DocsInv, BootTypes, DocKinds, SectionPcs, bootData
  <2>10. BootTypes'
    BY <1>1, <1>4, <2>1, <2>2 DEF BootTypes, bootData, bootMode
  <2> QED BY <2>4, <2>9, <2>10
<1>5. ASSUME boot[t].pc = "user", BGoto(t, "libraries"), bootFailed' = bootFailed,
             \/ environment = "none" /\ madeDocs' = madeDocs /\ adminRoleOf' = adminRoleOf
             \/ environment # "none" /\ StoreDocs({"admin"}) /\ adminRoleOf' = boot[t].role
      PROVE  BootInv'
  <2>1. /\ boot' \in [BThreads -> Logins] /\ boot'[t].pc = "libraries"
        /\ \A u \in BThreads \ {t} : boot'[u] = boot[u]
    BY <1>5, GotoEffect DEF BPcs, SectionPcs
  <2>2. boot[t].pc \in MakingPcs /\ "libraries" \in MakingPcs \cup {"unlock"}
    BY <1>5 DEF MakingPcs
  <2>3. SectionInv' /\ \A pcs \in SUBSET MakingPcs : Past(pcs)' <=> "libraries" \in pcs
    BY <1>1, <1>5, <2>1, <2>2, MakerMoves
  <2>4. \A pcs \in SUBSET MakingPcs : Past(pcs) <=> "user" \in pcs
    BY <1>5, <2>2, MakerIsAlone
  <2>5. /\ Past(AfterRole)' /\ Past(Later("admin"))'
        /\ \A k \in Singles : ~ Past(Later(k)) /\ (k # "admin" => ~ Past(Later(k))')
    BY <1>0, <2>3, <2>4 DEF Later, AfterRole, Singles
  <2>6. \A u \in BThreads \ {t} : boot[u].pc \notin SectionPcs
    BY <2>2, MakerIsAlone
  <2>7. "admin" \in Singles /\ {"admin"} \in SUBSET DocKinds
        /\ {"welcome", "admin_role"} \subseteq DocKinds \ {"admin"} /\ Singles \subseteq DocKinds
    BY DEF Singles, DocKinds
  <2>8. madeDocs["admin"] = 0
    BY <1>5, <2>5, <2>7 DEF DocsInv
  <2>13. boot[t].role \in 1 .. madeDocs["admin_role"]
    BY <1>5 DEF DocsInv
  <2>9. /\ madeDocs' \in [DocKinds -> Nat] /\ \A k \in DocKinds \ {"admin"} : madeDocs'[k] = madeDocs[k]
        /\ environment = "none" => madeDocs'["admin"] = 0
        /\ environment # "none" => madeDocs'["admin"] = 1
        /\ adminRoleOf' \in Nat /\ adminRoleOf' =< madeDocs["admin_role"]
        /\ environment # "none" => adminRoleOf' > 0
    <3>1. CASE environment = "none" /\ madeDocs' = madeDocs /\ adminRoleOf' = adminRoleOf
      BY <2>8, <3>1 DEF BootTypes, DocsInv
    <3>2. CASE environment # "none" /\ StoreDocs({"admin"}) /\ adminRoleOf' = boot[t].role
      <4>1. /\ madeDocs' \in [DocKinds -> Nat] /\ madeDocs'["admin"] = madeDocs["admin"] + 1
            /\ \A k \in DocKinds \ {"admin"} : madeDocs'[k] = madeDocs[k]
        BY <2>7, <3>2, StoredDocs
      <4>2. boot[t].role \in Nat /\ madeDocs["admin_role"] \in Nat
        BY DEF BootTypes, Logins, DocKinds
      <4>3. madeDocs'["admin"] = 1
        BY <4>1, <2>8
      <4>4. adminRoleOf' \in Nat /\ adminRoleOf' =< madeDocs["admin_role"] /\ adminRoleOf' > 0
        BY <3>2, <2>13, <4>2
      <4> QED BY <3>2, <4>1, <4>3, <4>4
    <3> QED BY <1>5, <3>1, <3>2
  <2>10. \A k \in Singles : madeDocs[k] = 0
    BY <2>5 DEF DocsInv
  <2>11. DocsInv'
    BY <1>5, <2>7, <2>9, <2>1, <2>6, <2>5, <2>10, <1>1 DEF DocsInv, SectionPcs, bootData
  <2>12. BootTypes'
    BY <1>1, <1>5, <2>1, <2>9 DEF BootTypes, bootData, bootMode
  <2> QED BY <2>3, <2>11, <2>12
\* The two steps whose failed inserts are only logged.
<1>6. ASSUME NEW p \in {"actors", "complete"}, NEW all \in SUBSET Singles, NEW kinds \in SUBSET all,
             boot[t].pc \in MakingPcs, boot[t].pc # "user", BGoto(t, p), StoreDocs(kinds), adminRoleOf' = adminRoleOf,
             bootFailed' \in {bootFailed, bootFailed + 1}, "admin" \notin all,
             \A k \in Singles : boot[t].pc \in Later(k) => p \in Later(k) /\ k \notin all,
             \A k \in all : p \in Later(k), p \in Later("admin"), boot[t].pc \in Later("admin")
      PROVE  BootInv'
  <2>1. /\ boot' \in [BThreads -> Logins] /\ boot'[t].pc = p
        /\ \A u \in BThreads \ {t} : boot'[u] = boot[u]
    BY <1>6, GotoEffect DEF BPcs, SectionPcs
  <2>2. p \in MakingPcs \cup {"unlock"} /\ p # "unlock" /\ p \in AfterRole /\ p # "user"
    BY DEF MakingPcs, AfterRole
  <2>3. SectionInv' /\ \A pcs \in SUBSET MakingPcs : Past(pcs)' <=> p \in pcs
    BY <1>6, <1>1, <2>1, <2>2, MakerMoves DEF BootTypes
  <2>4. \A pcs \in SUBSET MakingPcs : Past(pcs) <=> boot[t].pc \in pcs
    BY <1>6, MakerIsAlone
  <2>5. \A u \in BThreads \ {t} : boot[u].pc \notin SectionPcs
    BY <1>6, MakerIsAlone
  <2>6. kinds \in SUBSET DocKinds /\ Singles \subseteq DocKinds
        /\ \A k \in {"welcome", "admin_role", "admin"} : k \in DocKinds \ kinds
    BY <1>6 DEF Singles, DocKinds
  <2>7. /\ madeDocs' \in [DocKinds -> Nat]
        /\ \A k \in kinds : madeDocs'[k] = madeDocs[k] + 1
        /\ \A k \in DocKinds \ kinds : madeDocs'[k] = madeDocs[k]
    BY <1>6, <2>6, StoredDocs
  <2>8. Past(AfterRole)' /\ Past(Later("admin"))' /\ Past(Later("admin"))
    BY <1>0, <1>6, <2>2, <2>3, <2>4
  <2>9. ASSUME NEW k \in Singles PROVE madeDocs'[k] =< 1 /\ (madeDocs'[k] = 0 \/ Past(Later(k))')
    BY <1>0, <1>6, <2>3, <2>4, <2>7, <2>6 DEF DocsInv
  <2>10. DocsInv'
    BY <2>6, <2>7, <2>1, <2>2, <2>5, <1>6, <1>1, <2>8, <2>9 DEF SectionPcs, BootTypes, DocKinds, DocsInv, bootData
  <2>11. BootTypes'
    BY <1>1, <1>6, <2>1, <2>7 DEF BootTypes, bootData, bootMode
  <2> QED BY <2>3, <2>10, <2>11
<1>7. CASE create_default_admin_role(t)
  BY <1>2, <1>3, <1>7 DEF create_default_admin_role
<1>8. CASE create_default_admin_user(t)
  BY <1>4, <1>5, <1>8 DEF create_default_admin_user
<1>9. CASE insert_libraries(t)
  <2> DEFINE all == {"system_library", "default_library"}
  <2>1. PICK kinds \in SUBSET all :
          /\ IF kinds = all THEN UNCHANGED bootFailed ELSE BootFails
          /\ StoreDocs(kinds)
    BY <1>9 DEF insert_libraries
  <2>2. boot[t].pc = "libraries" /\ BGoto(t, "actors") /\ adminRoleOf' = adminRoleOf
    BY <1>9 DEF insert_libraries
  <2>3. bootFailed' \in {bootFailed, bootFailed + 1}
    BY <2>1 DEF BootFails
  <2>4. /\ all \in SUBSET Singles /\ "admin" \notin all /\ \A k \in all : "actors" \in Later(k)
        /\ \A k \in Singles : "libraries" \in Later(k) => "actors" \in Later(k) /\ k \notin all
        /\ "actors" \in Later("admin") /\ "libraries" \in Later("admin") /\ "libraries" \in MakingPcs
    BY DEF Singles, DocKinds, Later, MakingPcs
  <2> HIDE DEF all
  <2> QED BY <1>6, <2>1, <2>2, <2>3, <2>4
<1>10. CASE create_system_actors(t)
  <2> DEFINE all == {"system_roles", "actors"}
  <2>1. PICK kinds \in SUBSET all :
          /\ IF kinds = all THEN UNCHANGED bootFailed ELSE BootFails
          /\ StoreDocs(kinds)
    BY <1>10 DEF create_system_actors
  <2>2. boot[t].pc = "actors" /\ BGoto(t, "complete") /\ adminRoleOf' = adminRoleOf
    BY <1>10 DEF create_system_actors
  <2>3. bootFailed' \in {bootFailed, bootFailed + 1}
    BY <2>1 DEF BootFails
  <2>4. /\ all \in SUBSET Singles /\ "admin" \notin all /\ \A k \in all : "complete" \in Later(k)
        /\ \A k \in Singles : "actors" \in Later(k) => "complete" \in Later(k) /\ k \notin all
        /\ "complete" \in Later("admin") /\ "actors" \in Later("admin") /\ "actors" \in MakingPcs
    BY DEF Singles, DocKinds, Later, MakingPcs
  <2> HIDE DEF all
  <2> QED BY <1>6, <2>1, <2>2, <2>3, <2>4
<1> QED BY <1>7, <1>8, <1>9, <1>10
\* The last step: everything is made, and nobody makes anything any more.
LEMMA CompleteKeeps ==
    ASSUME BootInv, NEW t \in BThreads, complete_bootstrap(t)
    PROVE  BootInv'
<1> USE DEF BootInv
<1>1. /\ boot[t].pc = "complete" /\ completed' = TRUE /\ bmode' = FALSE /\ deferred' = FALSE
      /\ UNCHANGED <<bootData, userRegistered, bootCalls, answeredEarly, bmutex, madeDocs, adminRoleOf, bootFailed>>
  BY DEF complete_bootstrap, bootRest
<1>2. PICK p \in {"shortcut", "unlock"} : BGoto(t, p)
  BY DEF complete_bootstrap
<1>3. /\ boot' \in [BThreads -> Logins] /\ boot'[t].pc = p
      /\ \A u \in BThreads \ {t} : boot'[u] = boot[u]
  BY <1>2, GotoEffect DEF BPcs, SectionPcs
<1>4. /\ bmutex = t /\ boot[t].pc \in MakingPcs
      /\ \A u \in BThreads \ {t} : boot[u].pc \notin SectionPcs
      /\ \A pcs \in SUBSET MakingPcs : Past(pcs) <=> "complete" \in pcs
  BY <1>1, MakerIsAlone DEF MakingPcs
<1>5. SectionInv'
  BY <1>3, <1>4, <1>1 DEF SectionPcs, MakingPcs, SectionInv
<1>6. DocsInv'
  BY <1>4, <1>1, <1>3 DEF Later, MakingPcs, Past, SectionPcs, DocsInv, bootData
<1>7. BootTypes'
  BY <1>1, <1>3 DEF BootTypes, bootData
<1> QED BY <1>5, <1>6, <1>7

\* What goes on beside the logins, and the restart that forgets everything but the file.
LEMMA BesideKeeps ==
    ASSUME BootInv, restart \/ register_user \/ (\E path \in BPaths : db_create_collection(path))
    PROVE  BootInv'
<1> USE DEF BootInv
<1>1. CASE restart
  <2>1. /\ \A k \in DocKinds : madeDocs'[k] = 0
        /\ madeDocs' \in [DocKinds -> Nat] /\ adminRoleOf' = 0 /\ pageFile' = TRUE
        /\ physical' = {<<"default", "documents">>}
    BY <1>1 DEF restart, db_init, FirstDocs, get_or_create_collection, BootTypes
  <2>2. /\ bmode' = TRUE /\ deferred' = TRUE /\ completed' = FALSE /\ bmutex' = Free
        /\ boot' = [t \in BThreads |-> NoLogin] /\ bootFailed' = 0 /\ answeredEarly' = FALSE
        /\ starts' = starts + 1
    BY <1>1 DEF restart, init_rbac
  <2>3. /\ boot' \in [BThreads -> Logins] /\ \A t \in BThreads : boot'[t].pc = "idle"
    BY <2>2 DEF NoLogin, Logins, BPcs
  <2>4. SectionInv'
    BY <2>2, <2>3 DEF SectionInv, SectionPcs, MakingPcs
  <2>5. {"admin_role", "admin", "welcome"} \subseteq DocKinds /\ Singles \subseteq DocKinds
    BY DEF DocKinds, Singles
  <2>6. ~ Past(Later("admin"))'
    BY <2>2, <2>3 DEF Past, Later
  <2>7. DocsInv'
    BY <2>1, <2>5, <2>2, <2>3, <2>6 DEF BootTypes, DocsInv
  <2>8. BootTypes'
    <3>1. starts' \in Nat \ {0}
      BY <2>2 DEF BootTypes
    <3>2. 0 \in Nat
      OBVIOUS
    <3> QED BY <2>1, <2>2, <2>3, <3>1, <3>2 DEF BootTypes
  <2> QED BY <2>4, <2>7, <2>8
<1>2. ASSUME UNCHANGED <<boot, bootMode, bmutex, adminRoleOf, bootFailed, answeredEarly, environment, starts, pageFile, physical>>,
             madeDocs' \in [DocKinds -> Nat], \A k \in DocKinds \ {"collection"} : madeDocs'[k] = madeDocs[k]
      PROVE  BootInv'
  BY <1>2 DEF SectionInv, BootTypes, bootMode, Past, DocKinds, Singles, DocsInv
<1>3. CASE register_user
  BY <1>2, <1>3 DEF register_user, bootData, BootTypes
<1>4. ASSUME NEW path \in BPaths, db_create_collection(path) PROVE BootInv'
  BY <1>4, <1>2 DEF db_create_collection, get_or_create_collection, DocsInv, StoreDocs, BootTypes
<1> QED BY <1>1, <1>3, <1>4

LEMMA BootStepKeeps == BootInv /\ [BootNext]_bootVars => BootInv'
<1> SUFFICES ASSUME BootInv, [BootNext]_bootVars PROVE BootInv'
  OBVIOUS
<1>1. CASE UNCHANGED bootVars
  BY <1>1 DEF bootVars, bootData, bootMode, BootInv, BootTypes, SectionInv, DocsInv, Past
<1> QED BY <1>1, OutsideKeeps, MakingKeeps, CompleteKeeps, BesideKeeps DEF BootNext

\* While anything is made the section has one thread in it, and nobody makes anything afterwards.
LEMMA OneInSection ==
    ASSUME BootInv PROVE OneBootstrapper
<1>1. CASE ~ completed
  <2>1. \A t \in InSection : t = bmutex
    BY <1>1 DEF BootInv, SectionInv, InSection, SectionPcs
  <2>2. InSection = {} \/ InSection = {bmutex}
    BY <2>1
  <2>3. Making = {} \/ Making = {bmutex}
    BY <2>1 DEF Making, InSection
  <2>4. Cardinality({}) = 0 /\ Cardinality({bmutex}) = 1
    BY FS_EmptySet, FS_Singleton
  <2>5. Cardinality(InSection) =< 1 /\ Cardinality(Making) =< 1 /\ Cardinality(InSection) \in Nat
    <3>1. Cardinality(InSection) \in {0, 1} /\ Cardinality(Making) \in {0, 1}
      BY <2>2, <2>3, <2>4
    <3> HIDE DEF InSection, Making
    <3> QED BY <3>1
  <2> HIDE DEF InSection, Making
  <2> QED BY <2>5 DEF OneBootstrapper
<1>2. CASE completed
  BY <1>2, FS_EmptySet DEF BootInv, SectionInv, Making, MakingPcs, OneBootstrapper
<1> QED BY <1>1, <1>2

\* However many first logins there are at a time and whichever of their steps fails, and
\* after a restart again: one at a time makes the first documents, each of them once, nobody
\* is let in before that, the administrator has its role, and the mutex comes back.
THEOREM BootstrapIsSound == BootSpec => []BootstrapSound
<1>1. BootInit => BootInv
  <2> SUFFICES ASSUME BootInit PROVE BootInv
    OBVIOUS
  <2>1. /\ boot \in [BThreads -> Logins] /\ (\A t \in BThreads : boot[t].pc = "idle") /\ ~ completed
    BY DEF BootInit, NoLogin, Logins, BPcs
  <2>2. /\ \A k \in DocKinds : madeDocs[k] = IF k = "welcome" THEN 1 ELSE 0
        /\ madeDocs \in [DocKinds -> Nat] /\ physical = {<<"default", "documents">>}
    BY DEF BootInit, FirstDocs, get_or_create_collection
  <2>3. madeDocs["admin_role"] = 0 /\ madeDocs["welcome"] = 1 /\ \A k \in Singles : madeDocs[k] = 0
    BY <2>2 DEF DocKinds, Singles
  <2>4. ~ Past(Later("admin"))
    BY <2>1 DEF Past, Later
  <2>8. adminRoleOf = 0 /\ bootFailed = 0 /\ starts = 1 /\ 0 \in Nat /\ 1 \in Nat \ {0}
    BY DEF BootInit
  <2>5. DocsInv
    BY <2>1, <2>2, <2>3, <2>4, <2>8 DEF DocsInv
  <2>6. SectionInv
    BY <2>1 DEF BootInit, SectionInv, SectionPcs, MakingPcs
  <2>9. bmode = TRUE /\ deferred = TRUE /\ completed = FALSE /\ pageFile = TRUE /\ bmutex = Free
    BY DEF BootInit
  <2>7. BootTypes
    BY <2>1, <2>2, <2>8, <2>9 DEF BootTypes
  <2> QED BY <2>5, <2>6, <2>7 DEF BootInv
<1>2. BootInv => BootstrapSound
  <2> SUFFICES ASSUME BootInv PROVE BootstrapSound
    OBVIOUS
  <2>1. BootTypeOK
    BY DEF BootInv, BootTypes, DocsInv, BootTypeOK, DocKinds
  <2>2. OnceUnlessFailed
    BY DEF DocKinds, Singles, BootInv, BootTypes, DocsInv, OnceUnlessFailed
  <2>3. CompletedHasAdmin
    BY DEF BootInv, DocsInv, CompletedHasAdmin, Past
  <2>4. NobodyEarly
    BY DEF BootInv, SectionInv, NobodyEarly
  <2>5. BootLockReturned
    BY DEF BootInv, BootTypes, SectionInv, SectionPcs, BootLockReturned
  <2>6. OneCollectionPerLife
    BY DEF BootInv, DocsInv, OneCollectionPerLife, db_list_collections, db_collection_exists
  <2> QED BY <2>1, <2>2, <2>3, <2>4, <2>5, <2>6, OneInSection DEF BootstrapSound
<1> QED BY <1>1, <1>2, BootStepKeeps, PTL DEF BootSpec
-----------------------------------------------------------------------------
(* The string pool.  A reference is a pair of a thread and a number up to  *)
(* what it holds, so that one more or one less is one pair; the limit is   *)
(* overshot by the calls between the test and the insertion only.          *)

Checked  == {t \in PThreads : ppc[t] = "checked"}
Counting == {t \in PThreads : ppc[t] = "counting"}

\* The references of threads to a string, one by one.
Pairs(s) == {p \in PThreads \X (1 .. MaxRefs) : p[2] <= held[p[1]][s]}

PoolInv ==
    /\ StringPoolTypeOK
    /\ \A s \in Strings : refs[s] = Cardinality(Pairs(s))
    /\ CountIsLate
    /\ Cardinality(Interned) + Cardinality(Checked) =< MaxStrings - 1 + Cardinality(PThreads)
    /\ \A t \in Checked : held[t][arg[t]] < MaxRefs

LEMMA PoolSets ==
    /\ IsFiniteSet(Interned) /\ IsFiniteSet(Checked) /\ IsFiniteSet(Counting)
    /\ Cardinality(Interned) \in Nat /\ Cardinality(Checked) \in Nat /\ Cardinality(Counting) \in Nat
    /\ Cardinality(PThreads) \in Nat
    /\ \A s : IsFiniteSet(Pairs(s)) /\ Cardinality(Pairs(s)) \in Nat
<1>1. IsFiniteSet(Interned) /\ IsFiniteSet(Checked) /\ IsFiniteSet(Counting)
  BY StringPoolAssumption, FS_Subset DEF Interned, Checked, Counting
<1>2. ASSUME NEW s PROVE IsFiniteSet(Pairs(s))
  <2>1. IsFiniteSet(1 .. MaxRefs)
    BY StringPoolAssumption, FS_Interval
  <2>2. IsFiniteSet(PThreads \X (1 .. MaxRefs))
    BY <2>1, StringPoolAssumption, FS_Product
  <2>3. Pairs(s) \in SUBSET (PThreads \X (1 .. MaxRefs))
    BY DEF Pairs
  <2> QED BY <2>2, <2>3, FS_Subset
<1> QED BY <1>1, <1>2, StringPoolAssumption, FS_CardinalityType

\* One reference more, or less, of a thread.
LEMMA OnePairMore ==
    ASSUME StringPoolTypeOK, NEW t \in PThreads, NEW s \in Strings, held[t][s] < MaxRefs,
           held' = [held EXCEPT ![t][s] = @ + 1]
    PROVE  /\ held' \in [PThreads -> [Strings -> 0 .. MaxRefs]]
           /\ Cardinality(Pairs(s)') = Cardinality(Pairs(s)) + 1
           /\ \A r \in Strings \ {s} : Pairs(r)' = Pairs(r)
           /\ \A u \in PThreads \ {t} : held'[u] = held[u]
<1>1. /\ held[t] \in [Strings -> 0 .. MaxRefs] /\ held[t][s] \in 0 .. MaxRefs /\ MaxRefs \in Nat
      /\ held[t][s] + 1 \in 1 .. MaxRefs
  BY StringPoolAssumption DEF StringPoolTypeOK
<1>2. held' \in [PThreads -> [Strings -> 0 .. MaxRefs]] /\ held'[t][s] = held[t][s] + 1
      /\ \A r \in Strings \ {s} : held'[t][r] = held[t][r]
  <2> DEFINE n == held[t][s] + 1
  <2>1. n \in 0 .. MaxRefs /\ held' = [held EXCEPT ![t][s] = n]
    BY <1>1
  <2> HIDE DEF n
  <2>2. held' \in [PThreads -> [Strings -> 0 .. MaxRefs]] /\ held'[t][s] = n
        /\ \A r \in Strings \ {s} : held'[t][r] = held[t][r]
    BY <2>1 DEF StringPoolTypeOK
  <2> QED BY <2>2 DEF n
<1>3. \A u \in PThreads \ {t} : held'[u] = held[u]
  OBVIOUS
<1>4. Pairs(s)' = Pairs(s) \cup {<<t, held[t][s] + 1>>}
  <2>1. ASSUME NEW u \in PThreads, NEW n \in 1 .. MaxRefs
        PROVE  n <= held'[u][s] <=> n <= held[u][s] \/ (u = t /\ n = held[t][s] + 1)
    <3>1. CASE u = t
      BY <1>1, <1>2, <3>1
    <3>2. CASE u # t
      BY <1>3, <3>2
    <3> QED BY <3>1, <3>2
  <2>2. ASSUME NEW p \in PThreads \X (1 .. MaxRefs)
        PROVE  p[2] <= held'[p[1]][s] <=> p[2] <= held[p[1]][s] \/ p = <<t, held[t][s] + 1>>
    BY <2>1
  <2> QED BY <1>1, <2>2 DEF Pairs
<1>5. <<t, held[t][s] + 1>> \notin Pairs(s)
  BY <1>1 DEF Pairs
<1>6. Cardinality(Pairs(s)') = Cardinality(Pairs(s)) + 1
  BY <1>4, <1>5, PoolSets, FS_AddElement
<1>7. ASSUME NEW r \in Strings \ {s} PROVE Pairs(r)' = Pairs(r)
  BY <1>2, <1>3 DEF Pairs
<1> QED BY <1>2, <1>3, <1>6, <1>7

LEMMA OnePairLess ==
    ASSUME StringPoolTypeOK, NEW t \in PThreads, NEW s \in Strings, held[t][s] > 0,
           held' = [held EXCEPT ![t][s] = @ - 1]
    PROVE  /\ held' \in [PThreads -> [Strings -> 0 .. MaxRefs]]
           /\ Cardinality(Pairs(s)') = Cardinality(Pairs(s)) - 1 /\ Pairs(s) # {}
           /\ \A r \in Strings \ {s} : Pairs(r)' = Pairs(r)
           /\ \A u \in PThreads \ {t} : held'[u] = held[u]
<1>1. /\ held[t] \in [Strings -> 0 .. MaxRefs] /\ held[t][s] \in 1 .. MaxRefs /\ MaxRefs \in Nat
      /\ held[t][s] - 1 \in 0 .. MaxRefs
  BY StringPoolAssumption DEF StringPoolTypeOK
<1>2. held' \in [PThreads -> [Strings -> 0 .. MaxRefs]] /\ held'[t][s] = held[t][s] - 1
      /\ \A r \in Strings \ {s} : held'[t][r] = held[t][r]
  <2> DEFINE n == held[t][s] - 1
  <2>1. n \in 0 .. MaxRefs /\ held' = [held EXCEPT ![t][s] = n]
    BY <1>1
  <2> HIDE DEF n
  <2>2. held' \in [PThreads -> [Strings -> 0 .. MaxRefs]] /\ held'[t][s] = n
        /\ \A r \in Strings \ {s} : held'[t][r] = held[t][r]
    BY <2>1 DEF StringPoolTypeOK
  <2> QED BY <2>2 DEF n
<1>3. \A u \in PThreads \ {t} : held'[u] = held[u]
  OBVIOUS
<1>4. Pairs(s)' = Pairs(s) \ {<<t, held[t][s]>>}
  BY <1>1, <1>2, <1>3 DEF Pairs
<1>5. <<t, held[t][s]>> \in Pairs(s)
  BY <1>1 DEF Pairs
<1>6. Cardinality(Pairs(s)') = Cardinality(Pairs(s)) - 1
  <2> DEFINE x == <<t, held[t][s]>>
             S == Pairs(s)
  <2>1. IsFiniteSet(S) /\ x \in S /\ Pairs(s)' = S \ {x}
    BY <1>4, <1>5, PoolSets
  <2> HIDE DEF x, S
  <2>2. Cardinality(S \ {x}) = Cardinality(S) - 1
    BY <2>1, FS_RemoveElement
  <2> QED BY <2>1, <2>2 DEF S
<1>7. ASSUME NEW r \in Strings \ {s} PROVE Pairs(r)' = Pairs(r)
  BY <1>2, <1>3 DEF Pairs
<1> QED BY <1>2, <1>3, <1>5, <1>6, <1>7
\* LimitCheck: who passes the test is counted with those who passed before.
LEMMA LimitCheckKeeps ==
    ASSUME PoolInv, NEW t \in PThreads, NEW s \in Strings, LimitCheck(t, s)
    PROVE  PoolInv'
<1> USE DEF PoolInv
<1>1. /\ ppc[t] = "idle" /\ held[t][s] < MaxRefs /\ current \in 0 .. MaxStrings - 1
      /\ ppc' = [ppc EXCEPT ![t] = "checked"] /\ arg' = [arg EXCEPT ![t] = s]
      /\ UNCHANGED <<refs, held, current>>
  BY DEF LimitCheck
<1>2. StringPoolTypeOK'
  BY <1>1 DEF StringPoolTypeOK
<1>3. Checked' = Checked \cup {t} /\ t \notin Checked /\ t \notin Counting /\ Counting' = Counting /\ Interned' = Interned
      /\ \A r : Pairs(r)' = Pairs(r)
  BY <1>1 DEF Checked, Counting, Interned, Pairs, StringPoolTypeOK
<1>4. CountIsLate'
  BY <1>1, <1>3 DEF CountIsLate, Counting
<1>5. Cardinality(Checked') = Cardinality(Checked) + 1
  BY <1>3, PoolSets, FS_AddElement
<1>6. Cardinality(Checked') + Cardinality(Counting) =< Cardinality(PThreads)
  <2>1. IsFiniteSet(Checked') /\ Checked' \cap Counting = {}
    <3>1. Checked \cap Counting = {}
      BY DEF Checked, Counting
    <3>2. IsFiniteSet(Checked \cup {t})
      BY PoolSets, FS_AddElement
    <3> QED BY <1>3, <3>1, <3>2
  <2>2. Cardinality(Checked' \cup Counting) = Cardinality(Checked') + Cardinality(Counting) - Cardinality(Checked' \cap Counting)
    BY <2>1, PoolSets, FS_Union
  <2>3. Checked' \cup Counting \in SUBSET PThreads
    BY DEF Checked, Counting
  <2>4. Cardinality(Checked' \cup Counting) =< Cardinality(PThreads)
    BY <2>3, StringPoolAssumption, FS_Subset
  <2>5. Cardinality(Checked' \cap Counting) = 0
    BY <2>1, FS_EmptySet
  <2>6. Cardinality(Checked') \in Nat
    BY <2>1, FS_CardinalityType
  <2> QED BY <2>2, <2>4, <2>5, <2>6, PoolSets
<1>7. Cardinality(Interned) = current + Cardinality(Counting)
  BY <1>1, PoolSets DEF CountIsLate, Counting
<1>8. Cardinality(Interned') + Cardinality(Checked') =< MaxStrings - 1 + Cardinality(PThreads)
  BY <1>1, <1>3, <1>7, StringPoolAssumption, <1>5, PoolSets, <1>6
<1>9. \A u \in Checked' : held'[u][arg'[u]] < MaxRefs
  BY <1>1, <1>3 DEF Checked, StringPoolTypeOK
<1> QED BY <1>1, <1>2, <1>3, <1>4, <1>8, <1>9

\* InternLocked, with a reference given.
LEMMA InternKeeps ==
    ASSUME PoolInv, NEW t \in PThreads, InternLocked(t)
    PROVE  PoolInv'
<1> USE DEF PoolInv
<1>0. PICK s \in Strings : s = arg[t]
  BY DEF StringPoolTypeOK
<1>1. ppc[t] = "checked" /\ t \in Checked /\ UNCHANGED <<current, arg>> /\ refs[s] \in Nat
  BY DEF InternLocked, StringPoolTypeOK, Checked
<1>2. \A p \in {"idle", "counting"} : ppc' = [ppc EXCEPT ![t] = p] =>
          /\ Checked' = Checked \ {t} /\ Cardinality(Checked') = Cardinality(Checked) - 1
          /\ Counting' = IF p = "counting" THEN Counting \cup {t} ELSE Counting
          /\ t \notin Counting
  <2> SUFFICES ASSUME NEW p \in {"idle", "counting"}, ppc' = [ppc EXCEPT ![t] = p]
               PROVE  /\ Checked' = Checked \ {t} /\ Cardinality(Checked') = Cardinality(Checked) - 1
                      /\ Counting' = IF p = "counting" THEN Counting \cup {t} ELSE Counting
                      /\ t \notin Counting
    OBVIOUS
  <2>1. Checked' = Checked \ {t}
    BY <1>1 DEF Checked, StringPoolTypeOK
  <2>2. Cardinality(Checked \ {t}) = Cardinality(Checked) - 1
    BY <1>1, PoolSets, FS_RemoveElement
  <2>3. /\ Counting' = IF p = "counting" THEN Counting \cup {t} ELSE Counting
        /\ t \notin Counting
    BY <1>1 DEF Counting, StringPoolTypeOK
  <2> QED BY <2>1, <2>2, <2>3
<1>3. CASE refs[s] = 0 /\ ppc' = [ppc EXCEPT ![t] = "idle"] /\ UNCHANGED <<refs, held>>
  <2>1. /\ Checked' = Checked \ {t} /\ Cardinality(Checked') = Cardinality(Checked) - 1 /\ Counting' = Counting
        /\ Interned' = Interned /\ \A r : Pairs(r)' = Pairs(r)
    BY <1>2, <1>3 DEF Interned, Pairs
  <2>2. CountIsLate'
    BY <1>1, <2>1 DEF CountIsLate, Counting
  <2>3. StringPoolTypeOK'
    BY <1>1, <1>3 DEF StringPoolTypeOK
  <2>4. Cardinality(Interned') + Cardinality(Checked') =< MaxStrings - 1 + Cardinality(PThreads)
    BY <2>1, PoolSets, StringPoolAssumption
  <2> QED BY <1>1, <1>3, <2>1, <2>2, <2>3, <2>4
<1>4. CASE /\ refs' = [refs EXCEPT ![s] = @ + 1] /\ held' = [held EXCEPT ![t][s] = @ + 1]
           /\ ppc' = [ppc EXCEPT ![t] = IF refs[s] = 0 THEN "counting" ELSE "idle"]
  <2>1. held[t][s] < MaxRefs
    BY <1>0, <1>1
  <2>2. /\ held' \in [PThreads -> [Strings -> 0 .. MaxRefs]] /\ Cardinality(Pairs(s)') = Cardinality(Pairs(s)) + 1
        /\ \A r \in Strings \ {s} : Pairs(r)' = Pairs(r)
        /\ \A u \in PThreads \ {t} : held'[u] = held[u]
    BY <1>1, <1>4, <2>1, OnePairMore
  <2>3. /\ refs' \in [Strings -> Nat] /\ refs'[s] = refs[s] + 1 /\ \A r \in Strings \ {s} : refs'[r] = refs[r]
    BY <1>1, <1>4 DEF StringPoolTypeOK
  <2>4. StringPoolTypeOK'
    BY <1>1, <1>4, <2>2, <2>3 DEF StringPoolTypeOK
  <2>5. ASSUME NEW r \in Strings PROVE refs'[r] = Cardinality(Pairs(r)')
    BY <1>1, <2>2, <2>3
  <2>6. \A u \in Checked' : held'[u][arg'[u]] < MaxRefs
    BY <1>2, <1>4, <1>1, <2>2 DEF Checked
  <2>7. Interned' = Interned \cup {s}
    BY <1>1, <2>3 DEF Interned
  <2>8. CASE refs[s] = 0
    <3>1. /\ Cardinality(Checked') = Cardinality(Checked) - 1 /\ Counting' = Counting \cup {t} /\ t \notin Counting
      BY <1>2, <1>4, <2>8
    <3>2. Cardinality(Interned') = Cardinality(Interned) + 1
      <4>1. s \notin Interned
        BY <2>8 DEF Interned
      <4> QED BY <2>7, <4>1, PoolSets, FS_AddElement
    <3>3. Cardinality(Counting') = Cardinality(Counting) + 1
      BY <3>1, PoolSets, FS_AddElement
    <3>4. CountIsLate'
      BY <1>1, <3>2, <3>3, PoolSets DEF CountIsLate, Counting
    <3>5. Cardinality(Interned') + Cardinality(Checked') =< MaxStrings - 1 + Cardinality(PThreads)
      BY <3>1, <3>2, PoolSets, StringPoolAssumption
    <3> QED BY <2>4, <2>5, <2>6, <3>4, <3>5
  <2>9. CASE refs[s] # 0
    <3>1. Cardinality(Checked') = Cardinality(Checked) - 1 /\ Counting' = Counting
      BY <1>2, <1>4, <2>9
    <3>2. Interned' = Interned
      BY <1>1, <2>7, <2>9 DEF Interned
    <3>3. CountIsLate'
      BY <1>1, <3>1, <3>2 DEF CountIsLate, Counting
    <3>4. Cardinality(Interned') + Cardinality(Checked') =< MaxStrings - 1 + Cardinality(PThreads)
      BY <3>1, <3>2, PoolSets, StringPoolAssumption
    <3> QED BY <2>4, <2>5, <2>6, <3>3, <3>4
  <2> QED BY <2>8, <2>9
<1> QED BY <1>0, <1>3, <1>4 DEF InternLocked

\* InternCount: the counters catch up with one entry.
LEMMA InternCountKeeps ==
    ASSUME PoolInv, NEW t \in PThreads, InternCount(t)
    PROVE  PoolInv'
<1> USE DEF PoolInv
<1>1. /\ ppc[t] = "counting" /\ current' = current + 1 /\ ppc' = [ppc EXCEPT ![t] = "idle"]
      /\ UNCHANGED <<refs, held, arg>>
  BY DEF InternCount
<1>2. StringPoolTypeOK'
  BY <1>1 DEF StringPoolTypeOK
<1>3. /\ Counting' = Counting \ {t} /\ t \in Counting /\ Checked' = Checked /\ Interned' = Interned
      /\ \A r : Pairs(r)' = Pairs(r)
  BY <1>1 DEF Checked, Counting, Interned, Pairs, StringPoolTypeOK
<1>4. Cardinality(Counting') = Cardinality(Counting) - 1
  BY <1>3, PoolSets, FS_RemoveElement
<1>5. CountIsLate'
  BY <1>1, <1>3, <1>4, PoolSets DEF CountIsLate, Counting
<1> QED BY <1>1, <1>2, <1>3, <1>5

\* string_pool_release: the last reference takes the entry and its count along.
LEMMA ReleaseKeeps ==
    ASSUME PoolInv, NEW t \in PThreads, NEW s \in Strings, string_pool_release(t, s)
    PROVE  PoolInv'
<1> USE DEF PoolInv
<1>1. /\ ppc[t] = "idle" /\ held[t][s] > 0 /\ refs' = [refs EXCEPT ![s] = @ - 1]
      /\ held' = [held EXCEPT ![t][s] = @ - 1]
      /\ current' = IF refs[s] = 1 THEN current - 1 ELSE current
      /\ UNCHANGED <<ppc, arg>>
  BY DEF string_pool_release
<1>2. /\ held' \in [PThreads -> [Strings -> 0 .. MaxRefs]]
      /\ Cardinality(Pairs(s)') = Cardinality(Pairs(s)) - 1 /\ Pairs(s) # {}
      /\ \A r \in Strings \ {s} : Pairs(r)' = Pairs(r)
      /\ \A u \in PThreads \ {t} : held'[u] = held[u]
  BY <1>1, OnePairLess
<1>3. refs[s] \in Nat /\ refs[s] # 0 /\ refs[s] = Cardinality(Pairs(s))
  BY <1>2, PoolSets, FS_EmptySet
<1>4. /\ refs' \in [Strings -> Nat] /\ refs'[s] = refs[s] - 1 /\ \A r \in Strings \ {s} : refs'[r] = refs[r]
  <2>1. refs[s] - 1 \in Nat
    BY <1>3
  <2> QED BY <1>1, <2>1 DEF StringPoolTypeOK
<1>5. StringPoolTypeOK'
  BY <1>1, <1>2, <1>4 DEF StringPoolTypeOK
<1>6. ASSUME NEW r \in Strings PROVE refs'[r] = Cardinality(Pairs(r)')
  BY <1>2, <1>3, <1>4
<1>7. Checked' = Checked /\ Counting' = Counting
  BY <1>1 DEF Checked, Counting
<1>8. \A u \in Checked' : held'[u][arg'[u]] < MaxRefs
  BY <1>1, <1>2, <1>7 DEF Checked
<1>9. current = Cardinality(Interned) - Cardinality(Counting) /\ current \in Int
  BY DEF CountIsLate, Counting, StringPoolTypeOK
<1>10. CASE refs[s] = 1
  <2>1. Interned' = Interned \ {s} /\ s \in Interned
    BY <1>4, <1>10 DEF Interned
  <2>2. Cardinality(Interned') = Cardinality(Interned) - 1
    BY <2>1, PoolSets, FS_RemoveElement
  <2>3. current' = Cardinality(Interned') - Cardinality(Counting')
    BY <1>1, <1>7, <1>9, <1>10, <2>2, PoolSets
  <2>4. CountIsLate'
    BY <2>3 DEF CountIsLate, Counting
  <2>5. Cardinality(Interned') + Cardinality(Checked') =< MaxStrings - 1 + Cardinality(PThreads)
    BY <1>7, <2>2, PoolSets, StringPoolAssumption
  <2> QED BY <1>5, <1>6, <1>8, <2>4, <2>5
<1>11. CASE refs[s] # 1
  <2>1. Interned' = Interned
    BY <1>3, <1>4, <1>11 DEF Interned
  <2>2. CountIsLate'
    BY <1>1, <1>7, <1>11, <2>1 DEF CountIsLate, Counting
  <2> QED BY <1>5, <1>6, <1>7, <1>8, <2>1, <2>2
<1> QED BY <1>10, <1>11

\* For any number of threads and strings and any limit: the count of an entry of
\* string_pool.c is the number of references threads hold to it, the number of strings the
\* pool reports lacks the entries whose interning has not counted them yet, and the limit is
\* overshot by fewer entries than there are threads.
THEOREM StringPoolIsSound == StringPoolSpec => []StringPoolSound
<1>1. StringPoolInit => PoolInv
  <2> SUFFICES ASSUME StringPoolInit PROVE PoolInv
    OBVIOUS
  <2>1. 0 \in 0 .. MaxRefs /\ (CHOOSE s \in Strings : TRUE) \in Strings
    BY StringPoolAssumption
  <2>2. StringPoolTypeOK
    BY <2>1 DEF StringPoolInit, StringPoolTypeOK
  <2>3. Interned = {} /\ Checked = {} /\ Counting = {} /\ \A s \in Strings : Pairs(s) = {}
    BY DEF StringPoolInit, Interned, Checked, Counting, Pairs
  <2>4. Cardinality({}) = 0
    BY FS_EmptySet
  <2>5. CountIsLate
    BY <2>3, <2>4 DEF StringPoolInit, CountIsLate, Counting
  <2>6. Cardinality(Interned) + Cardinality(Checked) =< MaxStrings - 1 + Cardinality(PThreads)
    BY <2>3, <2>4, StringPoolAssumption, PoolSets
  <2>7. \A s \in Strings : refs[s] = Cardinality(Pairs(s))
    BY <2>3, <2>4 DEF StringPoolInit
  <2> QED BY <2>2, <2>3, <2>5, <2>6, <2>7 DEF PoolInv
<1>2. PoolInv /\ [StringPoolNext]_stringVars => PoolInv'
  BY LimitCheckKeeps, InternKeeps, InternCountKeeps, ReleaseKeeps DEF stringVars, PoolInv, StringPoolTypeOK,
     CountIsLate, Pairs, Interned, Checked, StringPoolNext
<1>3. PoolInv => StringPoolSound
  <2> SUFFICES ASSUME PoolInv PROVE StringPoolSound
    OBVIOUS
  <2>1. LimitOvershoot
    BY PoolSets, StringPoolAssumption DEF PoolInv, LimitOvershoot
  <2>2. ASSUME NEW s \in Strings PROVE refs[s] = Sum2([t \in PThreads |-> held[t][s]], PThreads)
    BY DEF Pairs, PoolInv, Sum2
  <2> QED BY <2>1, <2>2 DEF PoolInv, StringPoolSound, ReferencesCounted
<1> QED BY <1>1, <1>2, <1>3, PTL DEF StringPoolSpec
-----------------------------------------------------------------------------
(* The page file.  A log page is synced when it is written and nothing     *)
(* else changes one, so memory and disk never differ in them; a header on  *)
(* the disk is one that was in memory before.                              *)

Pages == [used : Nat, entries : Seq([seq : Nat, size : Nat])]
Sums == {<<>>} \cup (Ring \X Ring \X (0 .. MaxSeq + 1))
Headers == [magic : BOOLEAN, cur : Ring, ckpt : Ring, seq : 0 .. MaxSeq + 1, sum : Sums, wal : [Ring -> Pages]]

\* A header that was formatted, and whose checksum is that of what it says unless the log
\* has changed it since.
Formatted(h) == h.magic /\ (h.sum = Covered(h) \/ unsummed)

PageInv ==
    /\ mem \in Headers /\ disk \in Headers /\ mem.wal = disk.wal
    /\ since \subseteq 1 .. MaxSeq /\ pm \in {"closed", "creating", "open"}
    /\ fileExists \in BOOLEAN /\ oversize \in BOOLEAN /\ unsummed \in BOOLEAN /\ interrupted \in BOOLEAN
    /\ mem.magic => mem.seq >= 1
    /\ disk.magic => disk.seq >= 1
    /\ pm = "open" => mem.magic
    /\ LogPagesFit
    /\ pm = "open" => since \subseteq Present(mem, LivePages(mem))
    /\ fileExists /\ pm # "creating" /\ ~ interrupted => Formatted(mem) /\ Formatted(disk)

LEMMA RingFacts ==
    /\ Ring \subseteq Nat /\ 0 \in Ring
    /\ \A p \in Ring : Following(p) \in Ring
    /\ \A h \in Headers : LivePages(h) \subseteq Ring /\ h.cur \in LivePages(h)
BY PageAssumption DEF Ring, Following, LivePages, Headers

\* The entries of one page, and how they are the entries of several.
SeqsOf(pg) == {pg.entries[i].seq : i \in DOMAIN pg.entries}

LEMMA PresentIs ==
    ASSUME NEW h, NEW P, NEW s
    PROVE  s \in Present(h, P) <=> \E p \in P : s \in SeqsOf(h.wal[p])
BY DEF Present, SeqsOf

LEMMA SummedHeader ==
    ASSUME NEW h \in Headers
    PROVE  /\ update_header_checksum(h) \in Headers
           /\ update_header_checksum(h).sum = Covered(update_header_checksum(h))
           /\ update_header_checksum(h).wal = h.wal /\ update_header_checksum(h).cur = h.cur
           /\ update_header_checksum(h).ckpt = h.ckpt /\ update_header_checksum(h).seq = h.seq
           /\ update_header_checksum(h).magic = h.magic
<1>1. Covered(h) \in Sums
  BY DEF Covered, Sums, Headers
<1> DEFINE g == [h EXCEPT !.sum = Covered(h)]
<1>2. /\ g \in Headers /\ g.sum = Covered(h) /\ g.wal = h.wal /\ g.cur = h.cur /\ g.ckpt = h.ckpt
      /\ g.seq = h.seq /\ g.magic = h.magic
  BY <1>1 DEF Headers
<1> HIDE DEF g
<1>3. g.sum = Covered(g)
  BY <1>2 DEF Covered
<1> QED BY <1>2, <1>3 DEF update_header_checksum, g

LEMMA CheckpointedHeader ==
    ASSUME NEW h \in Headers
    PROVE  /\ Checkpointed(h) \in Headers /\ Checkpointed(h).sum = Covered(Checkpointed(h))
           /\ Checkpointed(h).wal = h.wal /\ Checkpointed(h).seq = h.seq /\ Checkpointed(h).magic = h.magic
<1> DEFINE g == [h EXCEPT !.ckpt = h.cur]
<1>1. g \in Headers /\ g.wal = h.wal /\ g.seq = h.seq /\ g.magic = h.magic
  BY DEF Headers
<1> HIDE DEF g
<1>2. Checkpointed(h) = update_header_checksum(g)
  BY DEF Checkpointed, g
<1> QED BY <1>1, <1>2, SummedHeader

LEMMA BlankHeader ==
    /\ Blank \in Headers /\ ~ Blank.magic
    /\ \A p \in Ring : Blank.wal[p].used = 0
  BY PageAssumption, RingFacts DEF EmptyPage, Pages, Sums, Blank, Headers

\* The page the log moves to was not among those from the checkpoint on.
LEMMA FollowingIsFree ==
    ASSUME NEW h \in Headers, Following(h.cur) # h.ckpt, NEW g \in Headers,
           g.cur = Following(h.cur), g.ckpt = h.ckpt
    PROVE  /\ g.cur \notin LivePages(h)
           /\ LivePages(h) \subseteq LivePages(g)
BY PageAssumption DEF Headers, Ring, Following, LivePages

\* jdbx_wal_write: where the entry goes and what becomes of the other pages.
LEMMA AppendedHeader ==
    ASSUME NEW h \in Headers, NEW n \in EntrySizes, h.seq =< MaxSeq, mem \in Headers
    PROVE  /\ WalAppend(h, n) \in Headers /\ WalAppend(h, n).seq = h.seq + 1
           /\ WalAppend(h, n).magic = h.magic /\ WalAppend(h, n).cur = h.cur /\ WalAppend(h, n).ckpt = h.ckpt
           /\ \A p \in Ring \ {h.cur} : WalAppend(h, n).wal[p] = h.wal[p]
           /\ WalAppend(h, n).wal[h.cur].used = h.wal[h.cur].used + n
           /\ SeqsOf(WalAppend(h, n).wal[h.cur]) = SeqsOf(h.wal[h.cur]) \cup {mem.seq}
<1> DEFINE old == h.wal[h.cur]
           e == Entry(n)
           pg == [used |-> old.used + n, entries |-> Append(old.entries, e)]
           w == [h.wal EXCEPT ![h.cur] = pg]
           s == h.seq + 1
<1>1. old \in Pages /\ h.cur \in Ring /\ h.wal \in [Ring -> Pages] /\ h.seq \in Nat
  BY DEF Headers
<1>2. e \in [seq : Nat, size : Nat] /\ e.seq = mem.seq
  BY PageAssumption DEF Headers, Entry
<1>3. pg \in Pages
  BY <1>1, <1>2, PageAssumption, AppendProperties DEF Pages
<1>4. SeqsOf(pg) = SeqsOf(old) \cup {mem.seq}
  <2>1. old.entries \in Seq([seq : Nat, size : Nat])
    BY <1>1 DEF Pages
  <2> HIDE DEF e
  <2>2. /\ Len(Append(old.entries, e)) = Len(old.entries) + 1
        /\ \A i \in 1 .. Len(old.entries) : Append(old.entries, e)[i] = old.entries[i]
        /\ Append(old.entries, e)[Len(old.entries) + 1] = e
        /\ DOMAIN Append(old.entries, e) = 1 .. (Len(old.entries) + 1)
        /\ DOMAIN old.entries = 1 .. Len(old.entries) /\ Len(old.entries) \in Nat
    <3> DEFINE q == old.entries
    <3>1. q \in Seq([seq : Nat, size : Nat]) /\ e \in [seq : Nat, size : Nat]
      BY <1>2, <2>1
    <3> HIDE DEF q
    <3>2. /\ Append(q, e) \in Seq([seq : Nat, size : Nat])
          /\ Len(Append(q, e)) = Len(q) + 1
          /\ \A i \in 1 .. Len(q) : Append(q, e)[i] = q[i]
          /\ Append(q, e)[Len(q) + 1] = e
      BY <3>1, AppendProperties
    <3>3. DOMAIN Append(q, e) = 1 .. Len(Append(q, e)) /\ DOMAIN q = 1 .. Len(q) /\ Len(q) \in Nat
      BY <3>1, <3>2, LenProperties
    <3> QED BY <3>2, <3>3 DEF q
  <2> DEFINE a == Append(old.entries, e)
             l == Len(old.entries)
  <2>3. pg.entries = a
    OBVIOUS
  <2> HIDE DEF a, pg
  <2>4. ASSUME NEW x PROVE x \in SeqsOf(pg) <=> x \in SeqsOf(old) \cup {mem.seq}
    <3>1. ASSUME NEW i \in 1 .. l + 1, x = a[i].seq PROVE x \in SeqsOf(old) \cup {mem.seq}
      <4>1. CASE i \in 1 .. l
        BY <2>2, <3>1, <4>1 DEF SeqsOf, a
      <4>2. CASE i = l + 1
        BY <1>2, <2>2, <3>1, <4>2 DEF a
      <4>3. l \in Nat
        BY <2>2
      <4> HIDE DEF l
      <4>4. i \in 1 .. l \/ i = l + 1
        BY <3>1, <4>3
      <4> QED BY <4>1, <4>2, <4>4
    <3>2. ASSUME NEW i \in 1 .. l, x = old.entries[i].seq PROVE \E j \in 1 .. l + 1 : x = a[j].seq
      BY <2>2, <3>2 DEF a
    <3>3. a[l + 1].seq = mem.seq /\ l + 1 \in 1 .. l + 1
      BY <1>2, <2>2 DEF a
    <3>4. DOMAIN a = 1 .. l + 1 /\ DOMAIN old.entries = 1 .. l
      BY <2>2 DEF a
    <3> QED BY <2>3, <3>1, <3>2, <3>3, <3>4 DEF SeqsOf
  <2> QED BY <2>4
<1>5. WalAppend(h, n) = [h EXCEPT !.seq = s, !.wal = w]
  BY <1>1 DEF WalAppend, Headers
<1>6. s \in 0 .. MaxSeq + 1
  BY <1>1, PageAssumption
<1>7. pg.used = old.used + n
  OBVIOUS
<1> HIDE DEF s, pg, e
<1>8. w \in [Ring -> Pages] /\ w[h.cur] = pg /\ \A p \in Ring \ {h.cur} : w[p] = h.wal[p]
  BY <1>1, <1>3
<1> HIDE DEF w
<1>9. /\ [h EXCEPT !.seq = s, !.wal = w] \in Headers
      /\ [h EXCEPT !.seq = s, !.wal = w].wal = w /\ [h EXCEPT !.seq = s, !.wal = w].seq = s
      /\ [h EXCEPT !.seq = s, !.wal = w].magic = h.magic /\ [h EXCEPT !.seq = s, !.wal = w].cur = h.cur
      /\ [h EXCEPT !.seq = s, !.wal = w].ckpt = h.ckpt
  BY <1>6, <1>8 DEF Headers
<1> QED BY <1>4, <1>5, <1>7, <1>8, <1>9 DEF s
LEMMA jdbx_createKeeps == ASSUME PageInv, jdbx_create PROVE PageInv'
  BY BlankHeader, PageAssumption DEF jdbx_create, LogPagesFit, PageInv

LEMMA init_new_fileKeeps == ASSUME PageInv, init_new_file PROVE PageInv'
<1> DEFINE g == [Blank EXCEPT !.magic = TRUE, !.seq = 1]
<1>1. /\ mem' = update_header_checksum(g) /\ disk' = mem' /\ pm' = "open" /\ since' = {}
      /\ UNCHANGED <<fileExists, oversize, interrupted, unsummed>>
  BY DEF init_new_file
<1>2. 1 \in 0 .. MaxSeq + 1
  BY PageAssumption
<1>3. g \in Headers /\ g.magic /\ g.seq = 1 /\ g.wal = Blank.wal
  BY <1>2, BlankHeader DEF Headers
<1> HIDE DEF g
<1>4. mem' \in Headers /\ mem'.sum = Covered(mem') /\ mem'.magic /\ mem'.seq = 1 /\ mem'.wal = Blank.wal
  BY <1>1, <1>3, SummedHeader
<1>5. LogPagesFit'
  BY <1>1, <1>4, BlankHeader, PageAssumption DEF LogPagesFit
<1>6. Formatted(mem)' /\ Formatted(disk)'
  BY <1>1, <1>4 DEF Formatted
<1>7. mem'.seq >= 1
  BY <1>4
<1> QED BY <1>1, <1>4, <1>5, <1>6, <1>7 DEF PageInv

\* What jdbx_open, jdbx_checkpoint and jdbx_close make of a header.
LEMMA jdbx_openKeeps == ASSUME PageInv, jdbx_open PROVE PageInv'
  BY CheckpointedHeader DEF jdbx_open, Openable, jdbx_wal_recover, Checkpointed, PageInv, Formatted, LogPagesFit

LEMMA jdbx_checkpointKeeps == ASSUME PageInv, jdbx_checkpoint PROVE PageInv'
<1>1. CASE UNCHANGED <<mem, disk, since, unsummed>>
  BY <1>1 DEF jdbx_checkpoint, pageVars, PageInv, LogPagesFit, Formatted, Covered
<1>2. CASE mem' = Checkpointed(mem) /\ disk' = mem' /\ since' = {} /\ unsummed' = FALSE
  BY <1>2, CheckpointedHeader DEF jdbx_checkpoint, PageInv, Formatted, LogPagesFit
<1> QED BY <1>1, <1>2 DEF jdbx_checkpoint

LEMMA jdbx_closeKeeps == ASSUME PageInv, jdbx_close PROVE PageInv'
  BY CheckpointedHeader DEF jdbx_close, PageInv, Formatted, Covered, LogPagesFit

\* The header before the entry is appended: the log stays on its page or moves to a page
\* that holds nothing the log still needs.
LEMMA Advanced ==
    ASSUME mem \in Headers, NEW n \in EntrySizes, NEW h \in AdvanceWal(n)
    PROVE  /\ h \in Headers /\ h.seq = mem.seq /\ h.magic = mem.magic /\ h.ckpt = mem.ckpt
           /\ \A p \in Ring \ {h.cur} : h.wal[p] = mem.wal[p]
           /\ LivePages(mem) \subseteq LivePages(h)
           /\ \A p \in LivePages(mem) : h.wal[p] = mem.wal[p]
           /\ h.wal[h.cur].used + n =< PageSize \/ n > PageSize
<1>0. n \in Nat /\ n > 0 /\ PageSize \in Nat /\ mem.wal[mem.cur].used \in Nat /\ mem.cur \in Ring
  BY PageAssumption DEF Headers, Pages
<1>1. CASE h = mem /\ n <= PageSize - mem.wal[mem.cur].used
  BY <1>0, <1>1
<1>2. CASE /\ Following(mem.cur) # mem.ckpt
           /\ h = [mem EXCEPT !.cur = Following(mem.cur), !.wal[Following(mem.cur)] = EmptyPage]
  <2> DEFINE f == Following(mem.cur)
             w == [mem.wal EXCEPT ![f] = EmptyPage]
  <2>1. f \in Ring /\ EmptyPage \in Pages /\ EmptyPage.used = 0
    <3>1. f \in Ring
      BY <1>0, RingFacts
    <3>2. EmptyPage \in Pages /\ EmptyPage.used = 0
      BY DEF EmptyPage, Pages
    <3> QED BY <3>1, <3>2
  <2>2. w \in [Ring -> Pages] /\ w[f] = EmptyPage /\ \A p \in Ring \ {f} : w[p] = mem.wal[p]
    BY <2>1 DEF Headers
  <2>3. h = [mem EXCEPT !.cur = f, !.wal = w]
    BY <1>2 DEF Headers
  <2> HIDE DEF w, f
  <2>4. /\ h \in Headers /\ h.cur = f /\ h.wal = w /\ h.seq = mem.seq /\ h.magic = mem.magic /\ h.ckpt = mem.ckpt
    BY <2>1, <2>2, <2>3 DEF Headers
  <2>5. h.cur \notin LivePages(mem) /\ LivePages(mem) \subseteq LivePages(h) /\ LivePages(mem) \subseteq Ring
    <3>1. h.cur = Following(mem.cur) /\ h.ckpt = mem.ckpt /\ h \in Headers /\ mem \in Headers
          /\ Following(mem.cur) # mem.ckpt
      BY <1>2, <2>4 DEF f
    <3> QED BY <3>1, FollowingIsFree, RingFacts
  <2>6. \A p \in LivePages(mem) : h.wal[p] = mem.wal[p]
    BY <2>2, <2>4, <2>5
  <2>7. h.wal[h.cur].used = 0
    BY <2>1, <2>2, <2>4
  <2>8. h.wal[h.cur].used + n =< PageSize \/ n > PageSize
    BY <1>0, <2>7
  <2> QED BY <2>2, <2>4, <2>5, <2>6, <2>8
<1> QED BY <1>1, <1>2 DEF AdvanceWal

LEMMA jdbx_wal_writeKeeps ==
    ASSUME PageInv, NEW n \in EntrySizes, jdbx_wal_write(n)
    PROVE  PageInv'
<1>1. PICK h \in AdvanceWal(n) :
          /\ mem' = WalAppend(h, n)
          /\ disk' = [disk EXCEPT !.wal[h.cur] = mem'.wal[h.cur]]
          /\ since' = since \cup {mem.seq}
          /\ oversize' = (oversize \/ n > PageSize)
  BY DEF jdbx_wal_write
<1>2. pm = "open" /\ mem.seq <= MaxSeq /\ unsummed' = TRUE /\ UNCHANGED <<fileExists, pm, interrupted>>
  BY DEF jdbx_wal_write
<1>3. mem \in Headers /\ disk \in Headers /\ mem.wal = disk.wal /\ mem.magic /\ mem.seq >= 1 /\ n \in Nat
  BY <1>2, PageAssumption DEF PageInv
<1>4. /\ h \in Headers /\ h.seq = mem.seq /\ h.magic = mem.magic /\ h.ckpt = mem.ckpt
      /\ \A p \in Ring \ {h.cur} : h.wal[p] = mem.wal[p]
      /\ LivePages(mem) \subseteq LivePages(h)
      /\ \A p \in LivePages(mem) : h.wal[p] = mem.wal[p]
      /\ h.wal[h.cur].used + n =< PageSize \/ n > PageSize
  BY <1>3, Advanced
<1>5. /\ mem' \in Headers /\ mem'.seq = h.seq + 1 /\ mem'.magic = h.magic /\ mem'.cur = h.cur /\ mem'.ckpt = h.ckpt
      /\ \A p \in Ring \ {h.cur} : mem'.wal[p] = h.wal[p]
      /\ mem'.wal[h.cur].used = h.wal[h.cur].used + n
      /\ SeqsOf(mem'.wal[h.cur]) = SeqsOf(h.wal[h.cur]) \cup {mem.seq}
  <2>1. h \in Headers /\ h.seq =< MaxSeq /\ mem \in Headers
    BY <1>2, <1>3, <1>4
  <2>2. mem' = WalAppend(h, n)
    BY <1>1
  <2> QED BY <2>1, <2>2, AppendedHeader
<1>6. h.cur \in Ring /\ LivePages(h) \subseteq Ring /\ h.cur \in LivePages(h) /\ LivePages(mem') = LivePages(h)
  BY <1>4, <1>5, RingFacts DEF LivePages, Headers
<1>7. /\ disk' \in Headers /\ disk'.wal = mem'.wal /\ disk'.magic = disk.magic /\ disk'.seq = disk.seq
  <2> DEFINE w == [disk.wal EXCEPT ![h.cur] = mem'.wal[h.cur]]
  <2>1. mem'.wal \in [Ring -> Pages] /\ disk.wal \in [Ring -> Pages] /\ mem'.wal[h.cur] \in Pages
    BY <1>3, <1>5, <1>6 DEF Headers
  <2>2. w \in [Ring -> Pages] /\ \A p \in Ring : w[p] = mem'.wal[p]
    BY <1>3, <1>4, <1>5, <1>6, <2>1
  <2>3. w = mem'.wal
    BY <2>1, <2>2
  <2>4. disk' = [disk EXCEPT !.wal = w]
    BY <1>1, <1>3 DEF Headers
  <2> HIDE DEF w
  <2> QED BY <1>3, <2>1, <2>3, <2>4 DEF Headers
<1>8. since' \subseteq 1 .. MaxSeq /\ oversize' \in BOOLEAN /\ mem'.seq >= 1
  BY <1>2, <1>3, PageAssumption, <1>4, <1>5, <1>1 DEF Headers, PageInv
<1>9. since' \subseteq Present(mem', LivePages(mem'))
  <2>1. ASSUME NEW s \in since' PROVE s \in Present(mem', LivePages(mem'))
    <3>1. CASE s = mem.seq
      BY <1>5, <1>6, <3>1, PresentIs
    <3>2. CASE s \in since
      <4>1. s \in Present(mem, LivePages(mem))
        BY <1>2, <3>2 DEF PageInv
      <4>2. PICK p \in LivePages(mem) : s \in SeqsOf(mem.wal[p])
        BY <4>1, PresentIs
      <4>3. h.wal[p] = mem.wal[p] /\ p \in LivePages(mem') /\ p \in Ring
        BY <1>4, <1>6
      <4>4. CASE p = h.cur
        BY <1>5, <4>2, <4>3, <4>4, PresentIs
      <4>5. CASE p # h.cur
        BY <1>5, <4>2, <4>3, <4>5, PresentIs
      <4> QED BY <4>4, <4>5
    <3> QED BY <1>1, <3>1, <3>2
  <2> QED BY <2>1
<1>10. LogPagesFit'
  <2> SUFFICES ASSUME ~ oversize', NEW p \in Ring PROVE mem'.wal[p].used <= PageSize
    BY DEF LogPagesFit
  <2>1. ~ oversize /\ ~ (n > PageSize)
    BY <1>1
  <2>2. mem.wal[p].used <= PageSize
    BY <2>1 DEF PageInv, LogPagesFit
  <2>3. CASE p = h.cur
    BY <1>4, <1>5, <2>1, <2>3
  <2>4. CASE p # h.cur
    BY <1>4, <1>5, <2>2, <2>4
  <2> QED BY <2>3, <2>4
<1>11. fileExists' /\ ~ interrupted' => Formatted(mem)' /\ Formatted(disk)'
  BY <1>2, <1>4, <1>5, <1>7 DEF Formatted, PageInv
<1>12. disk'.magic => disk'.seq >= 1
  BY <1>7 DEF PageInv
<1> QED BY <1>2, <1>3, <1>4, <1>5, <1>7, <1>8, <1>9, <1>10, <1>11, <1>12 DEF PageInv

LEMMA WriteBackKeeps == ASSUME PageInv, WriteBack PROVE PageInv'
  BY DEF WriteBack, PageInv, Headers, LogPagesFit, Formatted, Covered

LEMMA FailureKeeps == ASSUME PageInv, ProcessDies \/ PowerFails PROVE PageInv'
<1>1. /\ pm' = "closed" /\ since' = {} /\ interrupted' = (interrupted \/ pm = "creating")
      /\ UNCHANGED <<fileExists, disk, oversize, unsummed>>
      /\ mem' = mem \/ mem' = disk
  BY DEF ProcessDies, PowerFails
<1>2. mem' \in Headers /\ mem'.wal = mem.wal /\ mem'.wal = disk.wal /\ (mem'.magic => mem'.seq >= 1)
  BY <1>1 DEF PageInv
<1>3. LogPagesFit'
  BY <1>1, <1>2 DEF PageInv, LogPagesFit
<1>4. fileExists' /\ ~ interrupted' => Formatted(mem)' /\ Formatted(disk)'
  BY <1>1 DEF PageInv, Formatted, Covered
<1>5. interrupted' \in BOOLEAN
  BY <1>1
<1> QED BY <1>1, <1>2, <1>3, <1>4, <1>5 DEF PageInv

\* For any ring of log pages, any page size and any entries that are not empty: whatever is
\* written back when, and whenever the process dies or the power fails, every entry that
\* jdbx_wal_write acknowledged since the last checkpoint of an open file is in the pages
\* recovery would read, and on the disk; a log page overflows only if one entry is larger
\* than a page; and jdbx_open refuses a file only if its creation was interrupted or the log
\* changed a header after its checksum was made.
THEOREM LogPagesAreSound == PageSpec => []LogPagesSound
<1>1. PageInit => PageInv
  <2> SUFFICES ASSUME PageInit PROVE PageInv
    OBVIOUS
  <2>1. mem = Blank /\ disk = Blank /\ pm = "closed" /\ since = {} /\ ~ fileExists
        /\ fileExists = FALSE /\ oversize = FALSE /\ interrupted = FALSE /\ unsummed = FALSE
    BY DEF PageInit
  <2>2. mem \in Headers /\ disk \in Headers /\ mem.wal = disk.wal /\ ~ mem.magic /\ ~ disk.magic
    BY <2>1, BlankHeader
  <2>3. LogPagesFit
    BY <2>1, BlankHeader, PageAssumption DEF LogPagesFit
  <2> QED BY <2>1, <2>2, <2>3 DEF PageInv
<1>2. PageInv /\ [PageNext]_pageVars => PageInv'
  <2>1. ASSUME PageInv, UNCHANGED pageVars PROVE PageInv'
    BY <2>1 DEF pageVars, PageInv, LogPagesFit, Formatted, Covered
  <2> QED BY <2>1, jdbx_createKeeps, init_new_fileKeeps, jdbx_openKeeps, jdbx_checkpointKeeps,
            jdbx_closeKeeps, jdbx_wal_writeKeeps, WriteBackKeeps, FailureKeeps DEF PageNext
<1>3. PageInv => LogPagesSound
  <2> SUFFICES ASSUME PageInv PROVE LogPagesSound
    OBVIOUS
  <2>1. PageTypeOK /\ LogPagesFit
    BY DEF PageInv, PageTypeOK, Headers
  <2>2. AckedEntriesInRing
    <3> SUFFICES ASSUME pm = "open", NEW s \in since
                 PROVE  s \in Present(mem, LivePages(mem)) /\ s \in Present(disk, Ring)
      BY DEF AckedEntriesInRing
    <3>1. s \in Present(mem, LivePages(mem))
      BY DEF PageInv
    <3>2. PICK p \in LivePages(mem) : s \in SeqsOf(mem.wal[p])
      BY <3>1, PresentIs
    <3>3. p \in Ring /\ disk.wal[p] = mem.wal[p]
      BY RingFacts DEF PageInv
    <3> QED BY <3>1, <3>2, <3>3, PresentIs
  <2>3. RefusedOnlyIf
    BY DEF PageInv, RefusedOnlyIf, Openable, Formatted
  <2> QED BY <2>1, <2>2, <2>3 DEF LogPagesSound
<1> QED BY <1>1, <1>2, <1>3, PTL DEF PageSpec
-----------------------------------------------------------------------------
(* Client connections.  A connection expiry or shutdown never released     *)
(* counts exactly the references threads hold; what those two do takes     *)
(* part in the invariant only through the set of what they swept.          *)

\* The references of threads to a connection, one by one.
HeldPairs(c) == {p \in CThreads \X (1 .. MaxHeld) : p[2] <= chold[p[1]][c]}

Connection(c) ==
    /\ c \notin swept => conn[c].refs = Cardinality(HeldPairs(c))
    /\ conn[c].life = "new" =>
          conn[c].refs = 0 /\ conn[c].state = "IDLE" /\ c \notin slots /\ c \notin cdying /\ c \notin swept
    /\ c \in cdying => conn[c].life = "live" /\ conn[c].refs = 0
    /\ conn[c].life = "freed" => conn[c].refs = 0 /\ c \notin slots

Registry ==
    /\ IsFiniteSet(slots) /\ (mutex = "free" => active_count = Cardinality(slots))
    /\ mutex = "stuck" => manager
    /\ ~ manager => slots = {}
    /\ MutexLostOnlyInSweep

ConnInv ==
    /\ ConnTypeOK
    /\ \A c \in Conns : Connection(c)
    /\ \A t \in CThreads : cio[t] # NoConn => chold[t][cio[t]] > 0
    /\ Registry

ConnRecords == [life : {"new", "live", "freed"}, refs : Nat, state : States]

LEMMA HeldSets == \A c : IsFiniteSet(HeldPairs(c)) /\ Cardinality(HeldPairs(c)) \in Nat
<1>1. ASSUME NEW c PROVE IsFiniteSet(HeldPairs(c))
  <2>1. IsFiniteSet(1 .. MaxHeld)
    BY ConnAssumption, FS_Interval
  <2>2. IsFiniteSet(CThreads \X (1 .. MaxHeld))
    BY <2>1, ConnAssumption, FS_Product
  <2>3. HeldPairs(c) \in SUBSET (CThreads \X (1 .. MaxHeld))
    BY DEF HeldPairs
  <2> QED BY <2>2, <2>3, FS_Subset
<1> QED BY <1>1, FS_CardinalityType

\* One reference more, or less, of a thread.
LEMMA OneHeldMore ==
    ASSUME ConnTypeOK, NEW t \in CThreads, NEW c \in Conns, chold[t][c] < MaxHeld,
           chold' = [chold EXCEPT ![t][c] = @ + 1]
    PROVE  /\ chold' \in [CThreads -> [Conns -> 0 .. MaxHeld]]
           /\ Cardinality(HeldPairs(c)') = Cardinality(HeldPairs(c)) + 1
           /\ \A d \in Conns \ {c} : HeldPairs(d)' = HeldPairs(d)
           /\ \A u \in CThreads \ {t} : chold'[u] = chold[u]
<1>1. /\ chold[t] \in [Conns -> 0 .. MaxHeld] /\ chold[t][c] \in 0 .. MaxHeld /\ MaxHeld \in Nat
      /\ chold[t][c] + 1 \in 1 .. MaxHeld
  BY ConnAssumption DEF ConnTypeOK
<1>2. chold' \in [CThreads -> [Conns -> 0 .. MaxHeld]] /\ chold'[t][c] = chold[t][c] + 1
      /\ \A d \in Conns \ {c} : chold'[t][d] = chold[t][d]
  <2> DEFINE n == chold[t][c] + 1
  <2>1. n \in 0 .. MaxHeld /\ chold' = [chold EXCEPT ![t][c] = n]
    BY <1>1
  <2> HIDE DEF n
  <2>2. chold' \in [CThreads -> [Conns -> 0 .. MaxHeld]] /\ chold'[t][c] = n
        /\ \A d \in Conns \ {c} : chold'[t][d] = chold[t][d]
    BY <2>1 DEF ConnTypeOK
  <2> QED BY <2>2 DEF n
<1>3. \A u \in CThreads \ {t} : chold'[u] = chold[u]
  OBVIOUS
<1>4. HeldPairs(c)' = HeldPairs(c) \cup {<<t, chold[t][c] + 1>>}
  <2>1. ASSUME NEW u \in CThreads, NEW n \in 1 .. MaxHeld
        PROVE  n <= chold'[u][c] <=> n <= chold[u][c] \/ (u = t /\ n = chold[t][c] + 1)
    <3>1. CASE u = t
      BY <1>1, <1>2, <3>1
    <3>2. CASE u # t
      BY <1>3, <3>2
    <3> QED BY <3>1, <3>2
  <2>2. ASSUME NEW p \in CThreads \X (1 .. MaxHeld)
        PROVE  p[2] <= chold'[p[1]][c] <=> p[2] <= chold[p[1]][c] \/ p = <<t, chold[t][c] + 1>>
    BY <2>1
  <2> QED BY <1>1, <2>2 DEF HeldPairs
<1>5. <<t, chold[t][c] + 1>> \notin HeldPairs(c)
  BY <1>1 DEF HeldPairs
<1>6. Cardinality(HeldPairs(c)') = Cardinality(HeldPairs(c)) + 1
  BY <1>4, <1>5, HeldSets, FS_AddElement
<1>7. ASSUME NEW d \in Conns \ {c} PROVE HeldPairs(d)' = HeldPairs(d)
  BY <1>2, <1>3 DEF HeldPairs
<1> QED BY <1>2, <1>3, <1>6, <1>7

LEMMA OneHeldLess ==
    ASSUME ConnTypeOK, NEW t \in CThreads, NEW c \in Conns, chold[t][c] > 0,
           chold' = [chold EXCEPT ![t][c] = @ - 1]
    PROVE  /\ chold' \in [CThreads -> [Conns -> 0 .. MaxHeld]]
           /\ Cardinality(HeldPairs(c)') = Cardinality(HeldPairs(c)) - 1 /\ HeldPairs(c) # {}
           /\ \A d \in Conns \ {c} : HeldPairs(d)' = HeldPairs(d)
           /\ \A u \in CThreads \ {t} : chold'[u] = chold[u]
<1>1. /\ chold[t] \in [Conns -> 0 .. MaxHeld] /\ chold[t][c] \in 1 .. MaxHeld /\ MaxHeld \in Nat
      /\ chold[t][c] - 1 \in 0 .. MaxHeld
  BY ConnAssumption DEF ConnTypeOK
<1>2. chold' \in [CThreads -> [Conns -> 0 .. MaxHeld]] /\ chold'[t][c] = chold[t][c] - 1
      /\ \A d \in Conns \ {c} : chold'[t][d] = chold[t][d]
  <2> DEFINE n == chold[t][c] - 1
  <2>1. n \in 0 .. MaxHeld /\ chold' = [chold EXCEPT ![t][c] = n]
    BY <1>1
  <2> HIDE DEF n
  <2>2. chold' \in [CThreads -> [Conns -> 0 .. MaxHeld]] /\ chold'[t][c] = n
        /\ \A d \in Conns \ {c} : chold'[t][d] = chold[t][d]
    BY <2>1 DEF ConnTypeOK
  <2> QED BY <2>2 DEF n
<1>3. \A u \in CThreads \ {t} : chold'[u] = chold[u]
  OBVIOUS
<1>4. HeldPairs(c)' = HeldPairs(c) \ {<<t, chold[t][c]>>}
  BY <1>1, <1>2, <1>3 DEF HeldPairs
<1>5. <<t, chold[t][c]>> \in HeldPairs(c)
  BY <1>1 DEF HeldPairs
<1>6. Cardinality(HeldPairs(c)') = Cardinality(HeldPairs(c)) - 1
  <2> DEFINE x == <<t, chold[t][c]>>
             S == HeldPairs(c)
  <2>1. IsFiniteSet(S) /\ x \in S /\ HeldPairs(c)' = S \ {x}
    BY <1>4, <1>5, HeldSets
  <2> HIDE DEF x, S
  <2>2. Cardinality(S \ {x}) = Cardinality(S) - 1
    BY <2>1, FS_RemoveElement
  <2> QED BY <2>1, <2>2 DEF S
<1>7. ASSUME NEW d \in Conns \ {c} PROVE HeldPairs(d)' = HeldPairs(d)
  BY <1>2, <1>3 DEF HeldPairs
<1> QED BY <1>2, <1>3, <1>5, <1>6, <1>7

\* A connection none of whose state a step changes.
LEMMA Untouched ==
    ASSUME NEW d, Connection(d), conn'[d] = conn[d], HeldPairs(d)' = HeldPairs(d),
           d \in swept' <=> d \in swept, d \in slots' => d \in slots, d \in cdying' => d \in cdying
    PROVE  Connection(d)'
BY DEF Connection

\* What client_connection_set_state may do.
LEMMA SetState ==
    ASSUME NEW old \in States, NEW new \in States
    PROVE  /\ client_connection_set_state(old, new) \in States
           /\ old \in {"CLOSING", "CLOSED", "ERROR"} /\ new # "CLOSED" => client_connection_set_state(old, new) = old
BY DEF client_connection_set_state, Refused, States

LEMMA CreateKeeps ==
    ASSUME ConnInv, NEW t \in CThreads, NEW c \in Conns, client_connection_create(t, c)
    PROVE  ConnInv'
<1> DEFINE r == [life |-> "live", refs |-> 1, state |-> "ACTIVE"]
<1>1. /\ conn[c].life = "new" /\ (manager => mutex = "free")
      /\ conn' = [conn EXCEPT ![c] = r] /\ chold' = [chold EXCEPT ![t][c] = 1]
      /\ UNCHANGED <<cio, cdying, manager, idle, swept, mutex>>
  BY DEF client_connection_create, Register
<1>2. /\ ConnTypeOK /\ Connection(c) /\ Registry /\ c \notin slots /\ c \notin swept /\ c \notin cdying
  BY <1>1 DEF ConnInv, Connection
<1>3. chold[t] \in [Conns -> 0 .. MaxHeld] /\ chold[t][c] \in 0 .. MaxHeld /\ MaxHeld \in Nat \ {0}
  BY <1>2, ConnAssumption DEF ConnTypeOK
<1>4. HeldPairs(c) = {}
  BY <1>1, <1>2, HeldSets, FS_EmptySet DEF Connection
<1>5. chold[t][c] = 0
  <2> SUFFICES ASSUME chold[t][c] >= 1 PROVE FALSE
    BY <1>3
  <2>1. <<t, 1>> \in CThreads \X (1 .. MaxHeld) /\ 1 <= chold[t][c]
    BY <1>3
  <2>2. <<t, 1>> \in HeldPairs(c)
    BY <2>1 DEF HeldPairs
  <2> QED BY <1>4, <2>2
<1>6. chold' = [chold EXCEPT ![t][c] = @ + 1] /\ chold[t][c] < MaxHeld
  BY <1>1, <1>3, <1>5
<1>7. /\ chold' \in [CThreads -> [Conns -> 0 .. MaxHeld]]
      /\ Cardinality(HeldPairs(c)') = Cardinality(HeldPairs(c)) + 1
      /\ \A d \in Conns \ {c} : HeldPairs(d)' = HeldPairs(d)
      /\ \A u \in CThreads \ {t} : chold'[u] = chold[u]
  BY <1>2, <1>6, OneHeldMore
<1>8. r \in ConnRecords /\ r.life = "live" /\ r.refs = 1
  BY DEF ConnRecords, States
<1> HIDE DEF r
<1>9. conn' \in [Conns -> ConnRecords] /\ conn'[c] = r /\ \A d \in Conns \ {c} : conn'[d] = conn[d]
  BY <1>1, <1>2, <1>8 DEF ConnTypeOK, ConnRecords
<1>10. /\ slots' \subseteq Conns /\ slots' \subseteq slots \cup {c} /\ IsFiniteSet(slots')
       /\ active_count' \in 0 .. MaxRegistered /\ (mutex' = "free" => active_count' = Cardinality(slots'))
       /\ (~ manager' => slots' = {})
  BY <1>1, <1>2, FS_AddElement, ConnAssumption DEF client_connection_create, Register, Registry, ConnTypeOK
<1>11. ConnTypeOK'
  BY <1>1, <1>2, <1>7, <1>9, <1>10 DEF ConnTypeOK, ConnRecords
<1>12. Connection(c)'
  BY <1>4, FS_EmptySet, <1>1, <1>2, <1>7, <1>8, <1>9 DEF Connection
<1>13. ASSUME NEW d \in Conns \ {c} PROVE Connection(d)'
  BY <1>1, <1>7, <1>9, <1>10, Untouched DEF ConnInv
<1>14. ASSUME NEW u \in CThreads, cio'[u] # NoConn PROVE chold'[u][cio'[u]] > 0
  BY <1>1, <1>2, <1>14, <1>5, <1>7 DEF ConnInv, ConnTypeOK
<1>15. MutexLostOnlyInSweep'
  <2> SUFFICES ASSUME mutex' = "stuck" PROVE \E d \in swept' : conn'[d].refs = 0 /\ conn'[d].life = "live"
    BY DEF MutexLostOnlyInSweep
  <2>1. PICK d \in swept : conn[d].refs = 0 /\ conn[d].life = "live"
    BY <1>1, <1>2 DEF Registry, MutexLostOnlyInSweep
  <2>2. d \in Conns \ {c}
    BY <1>2, <2>1 DEF ConnTypeOK
  <2> QED BY <1>1, <1>9, <2>1, <2>2
<1>16. Registry'
  BY <1>1, <1>2, <1>10, <1>15 DEF Registry
<1> QED BY <1>11, <1>12, <1>13, <1>14, <1>16 DEF ConnInv
\* A step that changes only what the counts of one connection are: it takes or gives back
\* references of threads that neither read nor write.
LEMMA StillHeld ==
    ASSUME ConnInv, NEW t \in CThreads, NEW c \in Conns, cio' = cio,
           chold' \in [CThreads -> [Conns -> 0 .. MaxHeld]],
           \A u \in CThreads \ {t} : chold'[u] = chold[u],
           cio[t] = NoConn \/ chold'[t][c] >= chold[t][c],
           \A d \in Conns \ {c} : chold'[t][d] = chold[t][d],
           NEW u \in CThreads, cio'[u] # NoConn
    PROVE  chold'[u][cio'[u]] > 0
<1>1. cio'[u] = cio[u] /\ chold[u][cio[u]] > 0 /\ cio[u] \in Conns
  BY DEF ConnInv, ConnTypeOK
<1>2. CASE u # t
  BY <1>1, <1>2
<1>3. CASE u = t /\ cio[u] # c
  BY <1>1, <1>3
<1>4. CASE u = t /\ cio[u] = c
  BY <1>1, <1>4, ConnAssumption DEF ConnInv, ConnTypeOK
<1> QED BY <1>2, <1>3, <1>4

LEMMA AcquireKeeps ==
    ASSUME ConnInv, NEW t \in CThreads, NEW u \in CThreads, NEW c \in Conns, client_connection_acquire(t, u, c)
    PROVE  ConnInv'
<1>1. /\ chold[u][c] < MaxHeld /\ conn[c].life = "live" /\ conn[c].refs > 0
      /\ conn' = [conn EXCEPT ![c].refs = @ + 1] /\ chold' = [chold EXCEPT ![u][c] = @ + 1]
      /\ UNCHANGED <<cio, cdying, slots, active_count, mutex, manager, idle, swept>>
  BY DEF client_connection_acquire
<1>2. ConnTypeOK /\ Connection(c) /\ Registry /\ c \notin cdying
  BY <1>1 DEF ConnInv, Connection
<1>3. /\ chold' \in [CThreads -> [Conns -> 0 .. MaxHeld]]
      /\ Cardinality(HeldPairs(c)') = Cardinality(HeldPairs(c)) + 1
      /\ \A d \in Conns \ {c} : HeldPairs(d)' = HeldPairs(d)
      /\ \A v \in CThreads \ {u} : chold'[v] = chold[v]
  BY <1>1, <1>2, OneHeldMore
<1>4. conn \in [Conns -> ConnRecords] /\ conn[c] \in ConnRecords
  BY <1>2 DEF ConnTypeOK, ConnRecords
<1>5. /\ conn' \in [Conns -> ConnRecords] /\ \A d \in Conns \ {c} : conn'[d] = conn[d]
      /\ conn'[c].life = "live" /\ conn'[c].refs = conn[c].refs + 1 /\ conn'[c].state = conn[c].state
  <2> DEFINE n == conn[c].refs + 1
  <2>1. n \in Nat /\ conn' = [conn EXCEPT ![c].refs = n]
    BY <1>1, <1>4 DEF ConnRecords
  <2> HIDE DEF n
  <2>2. conn' \in [Conns -> ConnRecords] /\ (\A d \in Conns \ {c} : conn'[d] = conn[d])
        /\ conn'[c].life = conn[c].life /\ conn'[c].refs = n /\ conn'[c].state = conn[c].state
    BY <1>4, <2>1 DEF ConnRecords
  <2> QED BY <1>1, <2>2 DEF n
<1>6. ConnTypeOK'
  BY <1>1, <1>2, <1>3, <1>5 DEF ConnTypeOK, ConnRecords
<1>7. Connection(c)'
  BY <1>1, <1>2, <1>3, <1>5 DEF Connection
<1>8. ASSUME NEW d \in Conns \ {c} PROVE Connection(d)'
  BY <1>1, <1>3, <1>5, Untouched DEF ConnInv
<1>9. ASSUME NEW v \in CThreads, cio'[v] # NoConn PROVE chold'[v][cio'[v]] > 0
  <2>1. chold'[u][c] >= chold[u][c] /\ \A d \in Conns \ {c} : chold'[u][d] = chold[u][d]
    BY <1>2, ConnAssumption, <1>1 DEF ConnTypeOK
  <2>2. cio' = cio
    BY <1>1
  <2> QED BY <1>3, <1>9, <2>1, <2>2, StillHeld
<1>10. MutexLostOnlyInSweep'
  <2> SUFFICES ASSUME mutex' = "stuck" PROVE \E d \in swept' : conn'[d].refs = 0 /\ conn'[d].life = "live"
    BY DEF MutexLostOnlyInSweep
  <2>1. PICK d \in swept : conn[d].refs = 0 /\ conn[d].life = "live"
    BY <1>1, <1>2 DEF Registry, MutexLostOnlyInSweep
  <2>2. d \in Conns \ {c}
    BY <1>1, <1>2, <2>1 DEF ConnTypeOK
  <2> QED BY <1>1, <1>5, <2>1, <2>2
<1>11. Registry'
  BY <1>1, <1>2, <1>10 DEF Registry
<1> QED BY <1>6, <1>7, <1>8, <1>9, <1>11 DEF ConnInv

LEMMA ReleaseOfConnKeeps ==
    ASSUME ConnInv, NEW t \in CThreads, NEW c \in Conns, client_connection_release(t, c)
    PROVE  ConnInv'
<1> DEFINE n == IF conn[c].refs = 0 THEN 0 ELSE conn[c].refs - 1
<1>1. /\ chold[t][c] > 0 /\ cio[t] = NoConn /\ conn[c].life = "live"
      /\ conn' = [conn EXCEPT ![c].refs = n] /\ chold' = [chold EXCEPT ![t][c] = @ - 1]
      /\ cdying' = IF conn[c].refs = 0 THEN cdying ELSE Dying(c, conn[c].refs - 1)
      /\ UNCHANGED <<cio, slots, active_count, mutex, manager, idle, swept>>
  BY DEF client_connection_release
<1>2. ConnTypeOK /\ Connection(c) /\ Registry
  BY DEF ConnInv
<1>3. /\ chold' \in [CThreads -> [Conns -> 0 .. MaxHeld]]
      /\ Cardinality(HeldPairs(c)') = Cardinality(HeldPairs(c)) - 1 /\ HeldPairs(c) # {}
      /\ \A d \in Conns \ {c} : HeldPairs(d)' = HeldPairs(d)
      /\ \A v \in CThreads \ {t} : chold'[v] = chold[v]
  BY <1>1, <1>2, OneHeldLess
<1>4. conn \in [Conns -> ConnRecords] /\ conn[c] \in ConnRecords /\ conn[c].refs \in Nat
  BY <1>2 DEF ConnTypeOK, ConnRecords
<1>5. n \in Nat /\ (conn[c].refs = 0 => n = 0) /\ (conn[c].refs # 0 => n = conn[c].refs - 1)
  BY <1>4
<1>6. cdying' \subseteq cdying \cup {c} /\ cdying \subseteq cdying' /\ (c \in cdying' => n = 0)
  BY <1>2, <1>1, <1>5 DEF Connection, Dying
<1> HIDE DEF n
<1>7. /\ conn' \in [Conns -> ConnRecords] /\ \A d \in Conns \ {c} : conn'[d] = conn[d]
      /\ conn'[c].life = "live" /\ conn'[c].refs = n /\ conn'[c].state = conn[c].state
  BY <1>1, <1>4, <1>5 DEF ConnRecords
<1>8. ConnTypeOK'
  BY <1>1, <1>2, <1>3, <1>6, <1>7 DEF ConnTypeOK, ConnRecords
<1>9. Connection(c)'
  <2>1. c \notin swept => n = Cardinality(HeldPairs(c)')
    <3> SUFFICES ASSUME c \notin swept PROVE n = Cardinality(HeldPairs(c)')
      OBVIOUS
    <3>1. conn[c].refs = Cardinality(HeldPairs(c))
      BY <1>2 DEF Connection
    <3>2. conn[c].refs # 0
      BY <1>3, <3>1, HeldSets, FS_EmptySet
    <3> QED BY <1>3, <1>5, <3>1, <3>2
  <2> QED BY <1>1, <1>6, <1>7, <2>1 DEF Connection
<1>10. ASSUME NEW d \in Conns \ {c} PROVE Connection(d)'
  BY <1>1, <1>3, <1>6, <1>7, Untouched DEF ConnInv
<1>11. ASSUME NEW v \in CThreads, cio'[v] # NoConn PROVE chold'[v][cio'[v]] > 0
  <2>1. cio' = cio /\ \A d \in Conns \ {c} : chold'[t][d] = chold[t][d]
    BY <1>1, <1>2 DEF ConnTypeOK
  <2> QED BY <1>1, <1>3, <1>11, <2>1, StillHeld
<1>12. MutexLostOnlyInSweep'
  <2> SUFFICES ASSUME mutex' = "stuck" PROVE \E d \in swept' : conn'[d].refs = 0 /\ conn'[d].life = "live"
    BY DEF MutexLostOnlyInSweep
  <2>1. PICK d \in swept : conn[d].refs = 0 /\ conn[d].life = "live"
    BY <1>1, <1>2 DEF Registry, MutexLostOnlyInSweep
  <2>2. CASE d = c
    BY <1>1, <1>5, <1>7, <2>1, <2>2
  <2>3. CASE d # c
    BY <1>2, <2>1, <2>3, <1>1, <1>7 DEF ConnTypeOK
  <2> QED BY <2>2, <2>3
<1>13. Registry'
  BY <1>1, <1>2, <1>12 DEF Registry
<1> QED BY <1>8, <1>9, <1>10, <1>11, <1>13 DEF ConnInv

LEMMA DestroyOfConnKeeps ==
    ASSUME ConnInv, NEW c \in Conns, client_connection_destroy_internal(c)
    PROVE  ConnInv'
<1>1. /\ c \in cdying /\ (manager => mutex = "free")
      /\ conn' = [conn EXCEPT ![c].life = "freed", ![c].state = "CLOSED"]
      /\ cdying' = cdying \ {c}
      /\ UNCHANGED <<chold, cio, mutex, manager, idle, swept>>
  BY DEF client_connection_destroy_internal
<1>2. ConnTypeOK /\ Connection(c) /\ Registry /\ conn[c].refs = 0
  BY <1>1 DEF ConnInv, Connection
<1>3. conn \in [Conns -> ConnRecords] /\ "CLOSED" \in States
  BY <1>2 DEF ConnTypeOK, ConnRecords, States
<1>4. /\ conn' \in [Conns -> ConnRecords] /\ \A d \in Conns \ {c} : conn'[d] = conn[d]
      /\ conn'[c].life = "freed" /\ conn'[c].refs = conn[c].refs
  BY <1>1, <1>3 DEF ConnRecords
<1>5. /\ slots' = slots \ {c} /\ IsFiniteSet(slots') /\ active_count' \in 0 .. MaxRegistered
      /\ (mutex' = "free" => active_count' = Cardinality(slots'))
  <2>1. CASE manager /\ c \in slots
    <3>1. slots' = slots \ {c} /\ active_count' = active_count - 1 /\ mutex = "free"
      BY <1>1, <2>1 DEF client_connection_destroy_internal, connection_manager_unregister
    <3>2. IsFiniteSet(slots) /\ active_count = Cardinality(slots) /\ active_count \in 0 .. MaxRegistered
      BY <1>2, <3>1 DEF Registry, ConnTypeOK
    <3>3. IsFiniteSet(slots') /\ Cardinality(slots') = Cardinality(slots) - 1
      BY <2>1, <3>1, <3>2, FS_RemoveElement
    <3>4. Cardinality(slots') \in Nat
      BY <3>3, FS_CardinalityType
    <3> QED BY <3>1, <3>2, <3>3, <3>4, ConnAssumption
  <2>2. CASE ~ (manager /\ c \in slots)
    BY <1>2, <2>2, <1>1 DEF client_connection_destroy_internal, connection_manager_unregister, Registry, ConnTypeOK
  <2> QED BY <2>1, <2>2
<1>6. ConnTypeOK'
  BY <1>1, <1>2, <1>4, <1>5 DEF ConnTypeOK, ConnRecords
<1>7. \A d : HeldPairs(d)' = HeldPairs(d)
  BY <1>1 DEF HeldPairs
<1>8. Connection(c)'
  BY <1>1, <1>2, <1>4, <1>5, <1>7 DEF Connection
<1>9. ASSUME NEW d \in Conns \ {c} PROVE Connection(d)'
  BY <1>1, <1>4, <1>5, <1>7, Untouched DEF ConnInv
<1>10. MutexLostOnlyInSweep'
  BY <1>1, <1>2 DEF Registry, MutexLostOnlyInSweep
<1>11. Registry'
  BY <1>1, <1>2, <1>5, <1>10 DEF Registry
<1> QED BY <1>1, <1>6, <1>8, <1>9, <1>11 DEF ConnInv

\* A step that changes nothing of the counts and at most the state of one connection.
LEMMA StateStepKeeps ==
    ASSUME ConnInv, NEW c \in Conns, NEW s \in States,
           conn' = [conn EXCEPT ![c].state = s] \/ conn' = conn,
           conn[c].life # "new" \/ conn' = conn,
           UNCHANGED <<chold, cdying, slots, active_count, mutex, manager, swept>>,
           cio' \in [CThreads -> Conns \cup {NoConn}], idle' \subseteq Conns,
           \A t \in CThreads : cio'[t] # NoConn => chold[t][cio'[t]] > 0
    PROVE  ConnInv'
<1>1. ConnTypeOK /\ Registry /\ conn \in [Conns -> ConnRecords]
  BY DEF ConnInv, ConnTypeOK, ConnRecords
<1>2. /\ conn' \in [Conns -> ConnRecords] /\ \A d \in Conns \ {c} : conn'[d] = conn[d]
      /\ conn'[c].life = conn[c].life /\ conn'[c].refs = conn[c].refs
      /\ conn[c].life # "new" \/ conn'[c].state = conn[c].state
  BY <1>1 DEF ConnRecords
<1>3. ConnTypeOK'
  BY <1>1, <1>2 DEF ConnTypeOK, ConnRecords
<1>4. \A d : HeldPairs(d)' = HeldPairs(d)
  BY DEF HeldPairs
<1>5. Connection(c)'
  BY <1>2, <1>4 DEF ConnInv, Connection
<1>6. ASSUME NEW d \in Conns \ {c} PROVE Connection(d)'
  BY <1>2, <1>4, Untouched DEF ConnInv
<1>7. MutexLostOnlyInSweep'
  <2> SUFFICES ASSUME mutex' = "stuck" PROVE \E d \in swept' : conn'[d].refs = 0 /\ conn'[d].life = "live"
    BY DEF MutexLostOnlyInSweep
  <2>1. PICK d \in swept : conn[d].refs = 0 /\ conn[d].life = "live"
    BY <1>1 DEF Registry, MutexLostOnlyInSweep
  <2>2. d \in Conns
    BY <1>1, <2>1 DEF ConnTypeOK
  <2>3. conn'[d].refs = conn[d].refs /\ conn'[d].life = conn[d].life
    BY <1>2, <2>2
  <2> QED BY <2>1, <2>3
<1>8. Registry'
  BY <1>1, <1>7 DEF Registry
<1> QED BY <1>3, <1>5, <1>6, <1>8 DEF ConnInv

LEMMA BeginIOKeeps ==
    ASSUME ConnInv, NEW t \in CThreads, NEW c \in Conns, NEW s \in {"READING", "WRITING"}, BeginIO(t, c, s)
    PROVE  ConnInv'
  BY StateStepKeeps DEF BeginIO, client_connection_is_active, States, ConnInv, ConnTypeOK

LEMMA EndIOKeeps ==
    ASSUME ConnInv, NEW t \in CThreads, EndIO(t, {"ACTIVE", "ERROR", "CLOSING"})
    PROVE  ConnInv'
<1>1. PICK new \in {"ACTIVE", "ERROR", "CLOSING"} :
          conn' = IF conn[cio[t]].life = "live"
                  THEN [conn EXCEPT ![cio[t]].state = client_connection_set_state(@, new)] ELSE conn
  BY DEF EndIO
<1>2. /\ cio[t] # NoConn /\ cio' = [cio EXCEPT ![t] = NoConn]
      /\ UNCHANGED <<chold, cdying, slots, active_count, mutex, manager, idle, swept>>
  BY DEF EndIO
<1>3. cio \in [CThreads -> Conns \cup {NoConn}] /\ idle \subseteq Conns /\ conn \in [Conns -> ConnRecords]
  BY DEF ConnInv, ConnTypeOK, ConnRecords
<1>4. PICK c \in Conns : c = cio[t]
  BY <1>2, <1>3
<1>5. PICK s \in States : s = client_connection_set_state(conn[c].state, new)
  BY <1>3, SetState DEF States, ConnRecords
<1>6. /\ conn' = [conn EXCEPT ![c].state = s] \/ conn' = conn
      /\ conn[c].life # "new" \/ conn' = conn
  BY <1>1, <1>3, <1>4, <1>5
<1>7. cio' \in [CThreads -> Conns \cup {NoConn}] /\ idle' \subseteq Conns
  BY <1>2, <1>3
<1>8. ASSUME NEW u \in CThreads, cio'[u] # NoConn PROVE chold[u][cio'[u]] > 0
  BY <1>2, <1>3, <1>8 DEF ConnInv
<1> QED BY <1>2, <1>6, <1>7, <1>8, StateStepKeeps

LEMMA IdlesKeeps == ASSUME ConnInv, NEW c \in Conns, Idles(c) PROVE ConnInv'
  BY StateStepKeeps DEF Idles, ConnInv, ConnTypeOK, States
LEMMA SweepKeeps ==
    ASSUME ConnInv, NEW c \in Conns, connection_manager_cleanup_expired(c)
    PROVE  ConnInv'
<1> DEFINE n == IF conn[c].refs = 0 THEN 0 ELSE conn[c].refs - 1
           s == client_connection_set_state(conn[c].state, "CLOSING")
<1>1. /\ manager /\ mutex = "free" /\ c \in slots /\ c \in idle
      /\ conn' = [conn EXCEPT ![c].state = s, ![c].refs = n]
      /\ mutex' = IF conn[c].refs = 1 THEN "stuck" ELSE "free"
      /\ slots' = slots \ {c} /\ active_count' = active_count - 1
      /\ swept' = swept \cup {c}
      /\ UNCHANGED <<chold, cio, cdying, manager, idle>>
  BY DEF connection_manager_cleanup_expired
<1>2. ConnTypeOK /\ Connection(c) /\ Registry
  BY DEF ConnInv
<1>3. conn \in [Conns -> ConnRecords] /\ conn[c] \in ConnRecords /\ conn[c].refs \in Nat /\ conn[c].state \in States
  BY <1>2 DEF ConnTypeOK, ConnRecords
<1>4. conn[c].life = "live"
  BY <1>1, <1>2, <1>3 DEF Connection, ConnRecords
<1>5. n \in Nat /\ (conn[c].refs = 0 => n = 0) /\ (conn[c].refs = 1 => n = 0)
  BY <1>3
<1>6. s \in States
  BY <1>3, SetState DEF States
<1> HIDE DEF n, s
<1>7. /\ conn' \in [Conns -> ConnRecords] /\ \A d \in Conns \ {c} : conn'[d] = conn[d]
      /\ conn'[c].life = "live" /\ conn'[c].refs = n
  BY <1>1, <1>3, <1>4, <1>5, <1>6 DEF ConnRecords
<1>8. /\ IsFiniteSet(slots') /\ active_count' \in 0 .. MaxRegistered /\ active_count' = Cardinality(slots')
  <2>1. IsFiniteSet(slots) /\ active_count = Cardinality(slots) /\ active_count \in 0 .. MaxRegistered
    BY <1>1, <1>2 DEF Registry, ConnTypeOK
  <2>2. IsFiniteSet(slots') /\ Cardinality(slots') = Cardinality(slots) - 1
    BY <1>1, <2>1, FS_RemoveElement
  <2>3. Cardinality(slots') \in Nat
    BY <2>2, FS_CardinalityType
  <2> QED BY <1>1, <2>1, <2>2, <2>3, ConnAssumption
<1>9. ConnTypeOK'
  BY <1>1, <1>2, <1>7, <1>8 DEF ConnTypeOK, ConnRecords
<1>10. \A d : HeldPairs(d)' = HeldPairs(d)
  BY <1>1 DEF HeldPairs
<1>11. Connection(c)'
  BY <1>1, <1>2, <1>5, <1>7 DEF Connection
<1>12. ASSUME NEW d \in Conns \ {c} PROVE Connection(d)'
  BY <1>1, <1>7, <1>10, Untouched DEF ConnInv
<1>13. MutexLostOnlyInSweep'
  BY <1>1, <1>5, <1>7 DEF MutexLostOnlyInSweep
<1>14. Registry'
  BY <1>1, <1>8, <1>13 DEF Registry
<1> QED BY <1>1, <1>9, <1>11, <1>12, <1>14 DEF ConnInv

LEMMA ShutdownKeeps == ASSUME ConnInv, connection_manager_shutdown PROVE ConnInv'
<1> DEFINE last == {c \in slots : conn[c].refs = 1}
           n(c) == IF conn[c].refs = 0 THEN 0 ELSE conn[c].refs - 1
           s(c) == client_connection_set_state(conn[c].state, "CLOSING")
<1>1. manager /\ mutex = "free" /\ UNCHANGED <<chold, cio, cdying, idle>>
  BY DEF connection_manager_shutdown
<1>2. PICK done \in IF last = {} THEN {slots} ELSE {d \in SUBSET slots : Cardinality(d \cap last) = 1} :
         /\ conn' = [c \in Conns |->
                       IF c \in done THEN [conn[c] EXCEPT !.state = s(c), !.refs = n(c)] ELSE conn[c]]
         /\ swept' = swept \cup done
         /\ slots' = slots \ (done \ last)
         /\ IF last = {} THEN active_count' = 0 /\ manager' = FALSE /\ UNCHANGED mutex
            ELSE mutex' = "stuck" /\ UNCHANGED <<active_count, manager>>
  BY DEF connection_manager_shutdown
<1>3. ConnTypeOK /\ Registry /\ conn \in [Conns -> ConnRecords] /\ slots \subseteq Conns /\ done \subseteq slots
  BY <1>2 DEF ConnInv, ConnTypeOK, ConnRecords
<1>4. ASSUME NEW c \in Conns
      PROVE  /\ n(c) \in Nat /\ (conn[c].refs = 0 => n(c) = 0) /\ (conn[c].refs = 1 => n(c) = 0)
             /\ s(c) \in States
  BY <1>3, SetState DEF ConnRecords, States
<1> HIDE DEF n, s
<1>5. ASSUME NEW c \in Conns
      PROVE  /\ conn'[c] \in ConnRecords /\ conn'[c].life = conn[c].life
             /\ (c \in done => conn'[c].refs = n(c)) /\ (c \notin done => conn'[c] = conn[c])
  BY <1>2, <1>3, <1>4 DEF ConnRecords
<1>6. conn' \in [Conns -> ConnRecords]
  BY <1>2, <1>5
<1>7. \A c \in slots : conn[c].life = "live"
  BY <1>3 DEF ConnInv, Connection, ConnRecords
<1>8. \A d : HeldPairs(d)' = HeldPairs(d)
  BY <1>1 DEF HeldPairs
<1>9. ASSUME NEW c \in Conns PROVE Connection(c)'
  BY <1>1, <1>2, <1>5, <1>8, Untouched, <1>3, <1>4, <1>7 DEF ConnInv, Connection
<1>10. swept' \subseteq Conns /\ slots' \subseteq Conns /\ IsFiniteSet(slots')
  BY <1>2, <1>3, FS_Subset DEF ConnTypeOK, Registry
<1>11. CASE last = {}
  <2>1. slots' = {} /\ active_count' = 0 /\ manager' = FALSE /\ mutex' = "free"
    BY <1>1, <1>2, <1>11
  <2>2. Registry' /\ active_count' \in 0 .. MaxRegistered
    BY <1>10, <2>1, FS_EmptySet, ConnAssumption DEF Registry, MutexLostOnlyInSweep
  <2>3. ConnTypeOK'
    BY <1>1, <1>3, <1>6, <1>10, <2>1, <2>2 DEF ConnTypeOK, ConnRecords
  <2> QED BY <1>1, <1>9, <2>2, <2>3 DEF ConnInv
<1>12. CASE last # {}
  <2>1. mutex' = "stuck" /\ UNCHANGED <<active_count, manager>> /\ Cardinality(done \cap last) = 1
    BY <1>2, <1>12
  <2>2. PICK c \in done \cap last : TRUE
    BY <2>1, FS_EmptySet
  <2>3. c \in slots /\ c \in Conns /\ conn[c].refs = 1
    BY <1>3, <2>2
  <2>4. conn'[c].refs = 0 /\ conn'[c].life = "live" /\ c \in swept'
    BY <1>2, <1>4, <1>5, <1>7, <2>2, <2>3
  <2>5. MutexLostOnlyInSweep'
    BY <2>4 DEF MutexLostOnlyInSweep
  <2>6. Registry'
    BY <1>1, <1>10, <2>1, <2>5 DEF Registry
  <2>7. ConnTypeOK'
    BY <1>1, <1>3, <1>6, <1>10, <2>1 DEF ConnTypeOK, ConnRecords
  <2> QED BY <1>1, <1>9, <2>6, <2>7 DEF ConnInv
<1> QED BY <1>11, <1>12

\* Connections on their way down stay down.
DownKept ==
    \A c \in Conns : conn[c].state \in {"CLOSING", "CLOSED", "ERROR"} => conn'[c].state \in {"CLOSED", conn[c].state}

LEMMA StepKeepsDown == ConnInv /\ [ConnNext]_connVarsC => DownKept
<1> SUFFICES ASSUME ConnInv, [ConnNext]_connVarsC, NEW c \in Conns, conn[c].state \in {"CLOSING", "CLOSED", "ERROR"}
             PROVE  conn'[c].state \in {"CLOSED", conn[c].state}
  BY DEF DownKept
<1>1. conn \in [Conns -> ConnRecords] /\ conn[c].state \in States /\ Connection(c)
  BY DEF ConnInv, ConnTypeOK, ConnRecords
<1>2. \A new \in States : new # "CLOSED" => client_connection_set_state(conn[c].state, new) = conn[c].state
  BY <1>1, SetState
<1>3. "ACTIVE" \in States /\ "ERROR" \in States /\ "CLOSING" \in States
  BY DEF States
<1>4. CASE UNCHANGED connVarsC
  BY <1>4 DEF connVarsC
<1>5. ASSUME NEW t \in CThreads, NEW d \in Conns, client_connection_create(t, d)
      PROVE  conn'[c].state = conn[c].state
  BY <1>1, <1>5 DEF client_connection_create, Connection
<1>6. ASSUME NEW t \in CThreads, NEW d \in Conns, client_connection_release(t, d)
      PROVE  conn'[c].state = conn[c].state
  BY <1>1, <1>6 DEF client_connection_release, ConnRecords
<1>7. ASSUME NEW t \in CThreads, NEW u \in CThreads, NEW d \in Conns, client_connection_acquire(t, u, d)
      PROVE  conn'[c].state = conn[c].state
  BY <1>1, <1>7 DEF client_connection_acquire, ConnRecords
<1>8. ASSUME NEW t \in CThreads, NEW d \in Conns, NEW s \in {"READING", "WRITING"}, BeginIO(t, d, s)
      PROVE  conn'[c].state = conn[c].state
  BY <1>8, <1>1 DEF BeginIO, client_connection_is_active
<1>9. ASSUME NEW t \in CThreads, EndIO(t, {"ACTIVE", "ERROR", "CLOSING"}) PROVE conn'[c].state = conn[c].state
  <2>1. PICK new \in {"ACTIVE", "ERROR", "CLOSING"} :
            conn' = IF conn[cio[t]].life = "live"
                    THEN [conn EXCEPT ![cio[t]].state = client_connection_set_state(@, new)] ELSE conn
    BY <1>9 DEF EndIO
  <2>2. cio[t] \in Conns /\ new \in States /\ new # "CLOSED"
    BY <1>3, <1>9, <2>1 DEF EndIO, ConnInv, ConnTypeOK
  <2>3. CASE cio[t] # c
    BY <1>1, <2>1, <2>2, <2>3
  <2>4. CASE cio[t] = c
    BY <1>2, <2>2, <1>1, <2>1, <2>4 DEF ConnRecords
  <2> QED BY <2>3, <2>4
<1>10. ASSUME NEW t \in CThreads, client_connection_read(t) \/ client_connection_write(t)
       PROVE  conn'[c].state = conn[c].state
  BY <1>8, <1>9, <1>10 DEF client_connection_read, client_connection_write, EndIO
<1>11. ASSUME NEW d \in Conns, client_connection_destroy_internal(d)
       PROVE  conn'[c].state \in {"CLOSED", conn[c].state}
  BY <1>1, <1>11 DEF client_connection_destroy_internal, ConnRecords
<1>12. ASSUME NEW d \in Conns, Idles(d) PROVE conn'[c].state = conn[c].state
  BY <1>12 DEF Idles
<1>13. ASSUME NEW d \in Conns, connection_manager_cleanup_expired(d) PROVE conn'[c].state = conn[c].state
  <2> DEFINE s == client_connection_set_state(conn[d].state, "CLOSING")
             n == IF conn[d].refs = 0 THEN 0 ELSE conn[d].refs - 1
  <2>1. conn' = [conn EXCEPT ![d].state = s, ![d].refs = n]
    BY <1>13 DEF connection_manager_cleanup_expired
  <2>2. d = c => s = conn[c].state
    BY <1>2, <1>3
  <2> HIDE DEF s, n
  <2> QED BY <1>1, <2>1, <2>2 DEF ConnRecords
<1>14. CASE connection_manager_shutdown
  <2> DEFINE s == client_connection_set_state(conn[c].state, "CLOSING")
             n == IF conn[c].refs = 0 THEN 0 ELSE conn[c].refs - 1
  <2>1. conn'[c] = [conn[c] EXCEPT !.state = s, !.refs = n] \/ conn'[c] = conn[c]
    BY <1>14 DEF connection_manager_shutdown
  <2>2. s = conn[c].state
    BY <1>2, <1>3
  <2> HIDE DEF s, n
  <2> QED BY <1>1, <2>1, <2>2 DEF ConnRecords
<1> QED BY <1>4, <1>5, <1>6, <1>7, <1>10, <1>11, <1>12, <1>13, <1>14 DEF ConnNext

LEMMA ConnStepKeeps == ConnInv /\ [ConnNext]_connVarsC => ConnInv'
<1> SUFFICES ASSUME ConnInv, [ConnNext]_connVarsC PROVE ConnInv'
  OBVIOUS
<1>1. CASE UNCHANGED connVarsC
  BY <1>1, Untouched DEF connVarsC, HeldPairs, ConnInv, ConnTypeOK, Registry, MutexLostOnlyInSweep
<1>2. ASSUME NEW t \in CThreads, client_connection_read(t) \/ client_connection_write(t) PROVE ConnInv'
  BY <1>2, BeginIOKeeps, EndIOKeeps DEF EndIO, client_connection_read, client_connection_write
<1> QED BY <1>1, <1>2, CreateKeeps, AcquireKeeps, ReleaseOfConnKeeps, DestroyOfConnKeeps, IdlesKeeps, SweepKeeps,
          ShutdownKeeps DEF ConnNext

\* For any number of threads and connections and any size of the registry: a connection of
\* client_connection.c that neither expiry nor shutdown released is freed only when no thread
\* holds a reference or is in a read or write of it; the registry holds no freed connection
\* and counts what it holds; its mutex is lost only in the sweep; and a connection that is
\* closing, closed or in error never becomes active again.
THEOREM ConnectionsAreSound == ConnSpec => ConnectionsSound
<1>1. ConnInit => ConnInv
  <2> SUFFICES ASSUME ConnInit PROVE ConnInv
    OBVIOUS
  <2>1. "IDLE" \in States /\ 0 \in Nat /\ 0 \in 0 .. MaxHeld /\ 0 \in 0 .. MaxRegistered
    BY ConnAssumption DEF States
  <2>2. ConnTypeOK
    BY <2>1 DEF ConnInit, ConnTypeOK
  <2>3. ASSUME NEW c \in Conns PROVE Connection(c)
    <3>1. HeldPairs(c) = {}
      BY DEF ConnInit, HeldPairs
    <3>2. Cardinality(HeldPairs(c)) = 0
      BY <3>1, FS_EmptySet
    <3> QED BY <3>2 DEF ConnInit, Connection
  <2>4. Registry
    BY FS_EmptySet DEF ConnInit, Registry, MutexLostOnlyInSweep
  <2> QED BY <2>2, <2>3, <2>4 DEF ConnInit, ConnInv
<1>2. ConnInv => ConnTypeOK /\ FreedUnreferenced /\ RegistryLive /\ MutexLostOnlyInSweep
  <2> SUFFICES ASSUME ConnInv PROVE FreedUnreferenced /\ RegistryLive
    BY DEF ConnInv, Registry
  <2>1. ConnTypeOK
    BY DEF ConnInv
  <2>2. ASSUME NEW c \in Conns, conn[c].life = "freed", c \notin swept
        PROVE  Users(c) = {} /\ \A t \in CThreads : cio[t] # c
    <3>1. Cardinality(HeldPairs(c)) = 0
      BY <2>2 DEF ConnInv, Connection
    <3>2. HeldPairs(c) = {}
      BY <3>1, HeldSets, FS_EmptySet
    <3>3. ASSUME NEW t \in CThreads, chold[t][c] > 0 PROVE FALSE
      <4>1. chold[t][c] \in 0 .. MaxHeld /\ MaxHeld \in Nat
        BY <2>1, ConnAssumption DEF ConnTypeOK
      <4>2. 1 \in 1 .. MaxHeld /\ 1 <= chold[t][c]
        BY <3>3, <4>1
      <4>3. <<t, 1>> \in HeldPairs(c)
        BY <4>2 DEF HeldPairs
      <4> QED BY <3>2, <4>3
    <3>4. Users(c) = {}
      BY <3>3 DEF Users
    <3>5. ASSUME NEW t \in CThreads, cio[t] = c PROVE FALSE
      BY <3>3, <3>5, ConnAssumption DEF ConnInv
    <3> QED BY <3>4, <3>5
  <2>3. FreedUnreferenced
    BY <2>2 DEF FreedUnreferenced
  <2>4. \A c \in slots : conn[c].life = "live"
    BY <2>1 DEF ConnInv, Connection, ConnTypeOK
  <2> QED BY <2>3, <2>4 DEF ConnInv, Registry, RegistryLive
<1>3. DownKept => [DownKept]_connVarsC
  OBVIOUS
<1> QED BY <1>1, <1>2, ConnStepKeeps, StepKeepsDown, PTL DEF ConnSpec, ConnectionsSound, DownStaysDown, DownKept

-----------------------------------------------------------------------------
(* Retries.  The invariant says what the current attempt has applied, and  *)
(* where the delay came from.                                              *)

\* An exact value that is an int stays what it is.
LEMMA IntsStay == ASSUME NEW n \in 0 .. IntMax PROVE AsInt(n) = n
<1>1. PICK w \in Nat : w = IntMax + 1 /\ w >= 1
  BY RetryAssumption
<1>2. PICK d, m \in Nat : d = 2 * w /\ m = n + w /\ m < d /\ d > 0
  BY <1>1, RetryAssumption
<1>3. m % d = m
  BY <1>2
<1>4. AsInt(n) = (m % d) - w
  BY <1>1, <1>2, RetryAssumption DEF AsInt
<1> QED BY <1>1, <1>2, <1>3, <1>4

\* The delay as long as the doubled base is an int.
LEMMA DelayFacts ==
    ASSUME NEW p \in RetryPolicies, NEW factor \in Nat \ {0}, p.base * factor <= IntMax, NEW deadlock \in BOOLEAN,
           NEW e \in calculate_retry_delay(p, factor, deadlock)
    PROVE  e \in Int /\ e >= p.base \div 2 /\ e <= p.max /\ (~ deadlock => e >= p.base)
<1>1. PICK b, m, j \in Nat : b = p.base /\ m = p.max /\ j = p.jitter /\ b >= 1 /\ b <= m
  BY RetryAssumption
<1>2. PICK x \in Nat : x = b * factor /\ x >= b
  BY <1>1
<1>3. AsInt(p.base * factor) = x
  BY <1>1, <1>2, IntsStay
<1> DEFINE d        == Capped(p, AsInt(p.base * factor))
           range    == IF p.jitter = 0 \/ d < 0 THEN 0 ELSE (d * p.jitter) \div 100
           jittered == IF p.jitter = 0 THEN {d} ELSE {Capped(p, Larger(d + i, p.base)) : i \in (0 - range) .. range}
           shorter(v) == IF deadlock /\ p.prioritized THEN IF v < 0 THEN 0 - ((0 - v) \div 2) ELSE v \div 2 ELSE v
<1>4. \E v \in jittered : e = shorter(v)
  BY DEF calculate_retry_delay
<1>5. d \in Nat /\ d >= b /\ d <= m
  BY <1>1, <1>2, <1>3 DEF Capped, Smaller
<1> HIDE DEF d
<1>6. \A v \in jittered : v \in Nat /\ v >= b /\ v <= m
  <2>1. ASSUME NEW i \in Int PROVE /\ Capped(p, Larger(d + i, p.base)) \in Nat
                                   /\ Capped(p, Larger(d + i, p.base)) >= b /\ Capped(p, Larger(d + i, p.base)) <= m
    BY <1>1, <1>5 DEF Capped, Larger, Smaller
  <2>2. \A i \in (0 - range) .. range : i \in Int
    OBVIOUS
  <2> HIDE DEF range
  <2> QED BY <1>5, <2>1, <2>2
<1> HIDE DEF jittered
<1>8. PICK v \in jittered : e = shorter(v)
  BY <1>4
<1>10. v \in Nat /\ v >= b /\ v <= m
  BY <1>6
<1>9. v \div 2 \in Int /\ v \div 2 >= b \div 2 /\ v \div 2 <= m /\ b \div 2 <= b
  BY <1>1, <1>10
<1> QED BY <1>1, <1>8, <1>10, <1>9

RetryInv ==
    /\ policy \in RetryPolicies /\ attempt \in Nat /\ attempt <= policy.attempts /\ backoff \in Nat \ {0}
    /\ deadlock_detected \in BOOLEAN /\ operations_succeeded \in 0 .. 3
    /\ step \in {"begin", "operate", "commit", "done", "given up"}
    /\ step = "begin" => operations_succeeded = 0
    /\ step = "operate" => operations_succeeded < 3
    /\ step \in {"commit", "done"} => operations_succeeded = 3
    /\ step \in {"operate", "commit", "done"} => applied = 1 .. operations_succeeded
    /\ \E p \in RetryPolicies, factor \in Nat \ {0}, deadlock \in BOOLEAN :
          /\ p = policy /\ factor = backoff /\ next_delay_ms \in calculate_retry_delay(p, factor, deadlock)
          /\ step # "given up" => deadlock = deadlock_detected

LEMMA RetryInvHolds == RetrySpec => []RetryInv
<1>1. RetryInit => RetryInv
  <2> SUFFICES ASSUME RetryInit PROVE RetryInv
    OBVIOUS
  <2>1. policy \in RetryPolicies /\ policy.attempts \in 0 .. IntMax /\ IntMax \in Nat
    BY RetryAssumption DEF RetryInit
  <2>2. attempt \in Nat /\ attempt <= policy.attempts /\ backoff \in Nat \ {0} /\ operations_succeeded \in 0 .. 3
    BY <2>1 DEF RetryInit
  <2>3. next_delay_ms \in calculate_retry_delay(policy, backoff, FALSE) /\ deadlock_detected = FALSE
    BY DEF RetryInit
  <2>4. \E p \in RetryPolicies, factor \in Nat \ {0}, deadlock \in BOOLEAN :
           /\ p = policy /\ factor = backoff /\ next_delay_ms \in calculate_retry_delay(p, factor, deadlock)
           /\ step # "given up" => deadlock = deadlock_detected
    BY <2>1, <2>2, <2>3
  <2> QED BY <2>1, <2>2, <2>3, <2>4 DEF RetryInit, RetryInv
<1>2. RetryInv /\ [RetryNext]_retryVars => RetryInv'
  <2> SUFFICES ASSUME RetryInv, [RetryNext]_retryVars PROVE RetryInv'
    OBVIOUS
  <2>1. CASE UNCHANGED retryVars
    BY <2>1 DEF RetryInv, retryVars
  <2>2. CASE Begin
    BY <2>2 DEF Begin, RetryInv
  <2>3. CASE Operate
    BY <2>3 DEF Operate, RetryInv
  <2>4. CASE Commit
    BY <2>4 DEF Commit, RetryInv
  <2>5. ASSUME NEW code \in {"deadlock", "retryable", "fatal"}, HandleFailure(code) PROVE RetryInv'
    <3>1. policy' = policy /\ applied' = {} /\ step \notin {"done", "given up"}
      BY <2>5 DEF HandleFailure
    <3>2. policy.attempts \in Nat
      <4>1. policy \in RetryPolicies
        BY DEF RetryInv
      <4>2. policy.attempts \in 0 .. IntMax /\ IntMax \in Nat
        BY <4>1, RetryAssumption
      <4> QED BY <4>2
    <3>3. deadlock_detected' \in BOOLEAN
      BY <2>5 DEF HandleFailure, RetryInv
    <3>4. CASE transaction_should_retry(code)
      <4>1. /\ attempt' = attempt + 1 /\ backoff' = 2 * backoff /\ operations_succeeded' = 0 /\ step' = "begin"
            /\ next_delay_ms' \in calculate_retry_delay(policy, backoff', deadlock_detected')
        BY <2>5, <3>4 DEF HandleFailure, transaction_retry_next
      <4>2. attempt \in Nat /\ attempt < policy.attempts /\ backoff \in Nat \ {0} /\ policy \in RetryPolicies
        BY <3>4 DEF RetryInv, transaction_should_retry
      <4>3. attempt' \in Nat /\ attempt' <= policy.attempts /\ backoff' \in Nat \ {0}
        BY <3>2, <4>1, <4>2
      <4>4. PICK p \in RetryPolicies, factor \in Nat \ {0}, deadlock \in BOOLEAN :
               p = policy' /\ factor = backoff' /\ deadlock = deadlock_detected'
        BY <3>1, <3>3, <4>2, <4>3
      <4>5. next_delay_ms' \in calculate_retry_delay(p, factor, deadlock)
        BY <3>1, <4>1, <4>4
      <4>6. \E q \in RetryPolicies, f \in Nat \ {0}, dl \in BOOLEAN :
               /\ q = policy' /\ f = backoff' /\ next_delay_ms' \in calculate_retry_delay(q, f, dl)
               /\ step' # "given up" => dl = deadlock_detected'
        BY <4>4, <4>5
      <4>a. 0 \in 0 .. 3
        OBVIOUS
      <4>7. step' = "begin" /\ operations_succeeded' = 0 /\ operations_succeeded' \in 0 .. 3 /\ policy' = policy
        BY <3>1, <4>1, <4>a
      <4> QED BY <3>3, <4>2, <4>3, <4>6, <4>7 DEF RetryInv
    <3>5. CASE ~ transaction_should_retry(code)
      BY <2>5, <3>5, <3>1, <3>3 DEF HandleFailure, RetryInv
    <3> QED BY <3>4, <3>5
  <2> QED BY <2>1, <2>2, <2>3, <2>4, <2>5 DEF RetryNext
<1> QED BY <1>1, <1>2, PTL DEF RetrySpec

\* For every policy and every place where an attempt fails, what transaction_retry.c
\* commits was applied whole in the attempt that commits; no more attempts are made than
\* the policy allows, and the delay stays within the policy while it is an int.
THEOREM RetriesAreSound == RetrySpec => []RetrySound
<1>1. RetryInv => RetrySound
  <2> SUFFICES ASSUME RetryInv PROVE RetrySound
    OBVIOUS
  <2>1. CommittedWhole
    BY DEF RetryInv, CommittedWhole, Operations
  <2>2. DelayInRange
    <3> SUFFICES ASSUME policy.base * backoff <= IntMax
                 PROVE  /\ next_delay_ms >= policy.base \div 2 /\ next_delay_ms <= policy.max
                        /\ step # "given up" /\ ~ deadlock_detected => next_delay_ms >= policy.base
      BY DEF DelayInRange
    <3>1. PICK p \in RetryPolicies, factor \in Nat \ {0}, deadlock \in BOOLEAN :
             /\ p = policy /\ factor = backoff /\ next_delay_ms \in calculate_retry_delay(p, factor, deadlock)
             /\ step # "given up" => deadlock = deadlock_detected
      BY DEF RetryInv
    <3> QED BY <3>1, DelayFacts DEF RetryInv
  <2>3. AttemptsBounded
    BY DEF RetryInv, AttemptsBounded
  <2> QED BY <2>1, <2>2, <2>3 DEF RetrySound
<1> QED BY <1>1, RetryInvHolds, PTL

-----------------------------------------------------------------------------
(* The generic cache.                                                      *)

\* Every entry of a list is in it once.
LEMMA UnlinkFacts ==
    ASSUME NEW S, NEW l \in Seq(S), IsInjective(l), NEW a
    PROVE  /\ Without(l, a) \in Seq(S) /\ IsInjective(Without(l, a)) /\ ToSet(Without(l, a)) = ToSet(l) \ {a}
           /\ a \in ToSet(l) => Len(Without(l, a)) = Len(l) - 1
           /\ a \notin ToSet(l) => Len(Without(l, a)) = Len(l)
<1>1. CASE a \notin ToSet(l)
  BY <1>1 DEF Without
<1>2. CASE a \in ToSet(l)
  <2>1. DOMAIN l = 1 .. Len(l) /\ Len(l) \in Nat /\ \A i \in 1 .. Len(l) : l[i] \in S
    BY LenProperties, ElementOfSeq
  <2>2. PICK c \in 1 .. Len(l) : c = (CHOOSE i \in DOMAIN l : l[i] = a) /\ l[c] = a
    BY <1>2, <2>1 DEF ToSet
  <2> DEFINE r == RemoveAt(l, c)
  <2>3. Without(l, a) = r
    BY <1>2, <2>2 DEF Without
  <2>4. PICK n \in Nat : n = Len(l) - 1
    <3>1. Len(l) - 1 \in Nat
      BY <2>1, <2>2
    <3> QED BY <3>1
  <2>5. r \in Seq(S) /\ Len(r) = n /\ \A i \in 1 .. n : (i < c => r[i] = l[i]) /\ (i >= c => r[i] = l[i + 1])
    <3>1. /\ SubSeq(l, 1, c - 1) \in Seq(S) /\ Len(SubSeq(l, 1, c - 1)) = c - 1
          /\ \A i \in 1 .. c - 1 : SubSeq(l, 1, c - 1)[i] = l[i]
      BY <2>1, SubSeqProperties
    <3>2. /\ SubSeq(l, c + 1, Len(l)) \in Seq(S) /\ Len(SubSeq(l, c + 1, Len(l))) = Len(l) - c
          /\ \A i \in 1 .. Len(l) - c : SubSeq(l, c + 1, Len(l))[i] = l[c + i]
      <4>1. \A i \in c + 1 .. Len(l) : l[i] \in S
        BY <2>1
      <4>2. /\ SubSeq(l, c + 1, Len(l)) \in Seq(S)
            /\ Len(SubSeq(l, c + 1, Len(l))) = (IF c + 1 <= Len(l) THEN Len(l) - (c + 1) + 1 ELSE 0)
            /\ \A i \in 1 .. Len(l) - (c + 1) + 1 : SubSeq(l, c + 1, Len(l))[i] = l[c + 1 + i - 1]
        BY <2>1, <4>1, SubSeqProperties
      <4>3. Len(SubSeq(l, c + 1, Len(l))) = Len(l) - c
        <5>1. PICK L \in Nat : L = Len(l) /\ c \in 1 .. L
          BY <2>1
        <5>2. CASE c = L
          BY <4>2, <5>1, <5>2
        <5>3. CASE c < L
          BY <4>2, <5>1, <5>3
        <5> QED BY <5>1, <5>2, <5>3
      <4>4. ASSUME NEW i \in 1 .. Len(l) - c PROVE SubSeq(l, c + 1, Len(l))[i] = l[c + i]
        BY <2>1, <4>2
      <4> QED BY <4>2, <4>3, <4>4
    <3> DEFINE x == SubSeq(l, 1, c - 1)
               y == SubSeq(l, c + 1, Len(l))
    <3>3. r = x \o y
      BY DEF RemoveAt
    <3>a. x \in Seq(S) /\ y \in Seq(S)
      BY <3>1, <3>2
    <3>b. x \o y \in Seq(S) /\ Len(x \o y) = Len(x) + Len(y)
      BY <3>a, ConcatProperties
    <3>c. \A i \in 1 .. Len(x) + Len(y) : (x \o y)[i] = IF i <= Len(x) THEN x[i] ELSE y[i - Len(x)]
      <4> HIDE DEF x, y
      <4> QED BY <3>a, ConcatProperties
    <3>d. Len(x) \in Nat /\ Len(y) \in Nat
      BY <3>a, LenProperties
    <3> HIDE DEF x, y
    <3>4. r \in Seq(S) /\ Len(r) = Len(x) + Len(y)
      BY <3>3, <3>b
    <3>5. ASSUME NEW i \in 1 .. Len(x) + Len(y) PROVE (i <= Len(x) => r[i] = x[i]) /\ (i > Len(x) => r[i] = y[i - Len(x)])
      BY <3>3, <3>c, <3>d
    <3>6. Len(x) = c - 1 /\ Len(y) = Len(l) - c
      BY <3>1, <3>2 DEF x, y
    <3>7. ASSUME NEW i \in 1 .. n PROVE (i < c => r[i] = l[i]) /\ (i >= c => r[i] = l[i + 1])
      <4>1. i < c => i \in 1 .. c - 1 /\ i <= Len(x) /\ i \in 1 .. Len(x) + Len(y)
        BY <2>1, <2>4, <3>6
      <4>2. i >= c => i > Len(x) /\ i - Len(x) \in 1 .. Len(l) - c /\ c + (i - Len(x)) = i + 1 /\ i \in 1 .. Len(x) + Len(y)
        BY <2>1, <2>4, <3>6
      <4> QED BY <3>1, <3>2, <3>5, <4>1, <4>2 DEF x, y
    <3>8. Len(r) = n
      BY <2>1, <2>4, <3>4, <3>6
    <3> QED BY <3>4, <3>7, <3>8
  <2> HIDE DEF r
  <2>6. DOMAIN r = 1 .. n
    BY <2>5, LenProperties
  <2>7. \A i \in 1 .. n : i \in 1 .. Len(l) /\ i + 1 \in 1 .. Len(l)
    BY <2>1, <2>4
  <2>8. \A i, j \in 1 .. Len(l) : l[i] = l[j] => i = j
    BY <2>1 DEF IsInjective
  <2>a. ASSUME NEW i \in 1 .. n PROVE i < c \/ i >= c
    OBVIOUS
  <2>b. ASSUME NEW i \in 1 .. n
        PROVE  \E k \in 1 .. Len(l) : /\ r[i] = l[k] /\ k # c
                                      /\ \/ i < c /\ k = i
                                         \/ i >= c /\ k = i + 1
    BY <2>5, <2>7, <2>a
  <2>9. ASSUME NEW i \in 1 .. n PROVE r[i] # a
    BY <2>2, <2>8, <2>b
  <2>10. IsInjective(r)
    <3> SUFFICES ASSUME NEW i \in 1 .. n, NEW j \in 1 .. n, r[i] = r[j] PROVE i = j
      BY <2>6 DEF IsInjective
    <3>1. PICK k \in 1 .. Len(l) : r[i] = l[k] /\ ((i < c /\ k = i) \/ (i >= c /\ k = i + 1))
      BY <2>b
    <3>2. PICK h \in 1 .. Len(l) : r[j] = l[h] /\ ((j < c /\ h = j) \/ (j >= c /\ h = j + 1))
      BY <2>b
    <3>3. k = h
      BY <2>8, <3>1, <3>2
    <3> QED BY <3>1, <3>2, <3>3
  <2>11. \A i \in 1 .. Len(l) : l[i] # a => \E k \in 1 .. n : r[k] = l[i]
    <3> SUFFICES ASSUME NEW i \in 1 .. Len(l), l[i] # a PROVE \E k \in 1 .. n : r[k] = l[i]
      OBVIOUS
    <3>1. CASE i < c
      BY <2>1, <2>4, <3>1, <2>5
    <3>2. CASE i > c
      <4>1. i - 1 \in 1 .. n /\ i - 1 >= c /\ i - 1 + 1 = i
        BY <2>1, <2>4, <3>2
      <4> QED BY <2>5, <4>1
    <3>3. i # c
      BY <2>2
    <3> QED BY <2>1, <3>1, <3>2, <3>3
  <2>12. ToSet(r) = ToSet(l) \ {a}
    <3>1. ASSUME NEW i \in 1 .. n PROVE r[i] \in ToSet(l) \ {a}
      BY <2>1, <2>9, <2>b DEF ToSet
    <3>2. ASSUME NEW e \in ToSet(r) PROVE e \in ToSet(l) \ {a}
      BY <2>6, <3>1 DEF ToSet
    <3>3. ASSUME NEW e \in ToSet(l) \ {a} PROVE e \in ToSet(r)
      <4>1. PICK i \in 1 .. Len(l) : e = l[i]
        BY <2>1 DEF ToSet
      <4>2. PICK k \in 1 .. n : r[k] = e
        BY <2>11, <4>1
      <4> QED BY <2>6, <4>2 DEF ToSet
    <3> QED BY <3>2, <3>3
  <2> QED BY <1>2, <2>3, <2>4, <2>5, <2>10, <2>12
<1> QED BY <1>1, <1>2

LEMMA PushFacts ==
    ASSUME NEW S, NEW l \in Seq(S), IsInjective(l), NEW a \in S, a \notin ToSet(l)
    PROVE  /\ <<a>> \o l \in Seq(S) /\ IsInjective(<<a>> \o l) /\ ToSet(<<a>> \o l) = ToSet(l) \cup {a}
           /\ Len(<<a>> \o l) = Len(l) + 1
<1> DEFINE r == <<a>> \o l
<1>1. <<a>> \in Seq(S) /\ Len(<<a>>) = 1 /\ <<a>>[1] = a
  OBVIOUS
<1>2. Len(l) \in Nat /\ DOMAIN l = 1 .. Len(l)
  BY LenProperties
<1>3. r \in Seq(S) /\ Len(r) = 1 + Len(l)
  BY <1>1, ConcatProperties
<1>4. \A i \in 1 .. 1 + Len(l) : (i <= 1 => r[i] = <<a>>[i]) /\ (i > 1 => r[i] = l[i - 1])
  BY <1>1, ConcatProperties
<1> HIDE DEF r
<1>5. PICK n \in Nat : n = Len(l) + 1
  BY <1>2
<1>6. DOMAIN r = 1 .. n /\ r[1] = a /\ \A i \in 1 .. n : i = 1 \/ (i - 1 \in 1 .. Len(l) /\ r[i] = l[i - 1])
  BY <1>2, <1>3, <1>5, LenProperties, <1>1, <1>4
<1>7. \A i \in 1 .. Len(l) : l[i] # a /\ i + 1 \in 1 .. n /\ r[i + 1] = l[i]
  BY <1>2, <1>5, <1>6 DEF ToSet
<1>8. IsInjective(r)
  <2>1. \A i, j \in 1 .. Len(l) : l[i] = l[j] => i = j
    BY <1>2 DEF IsInjective
  <2> SUFFICES ASSUME NEW i \in 1 .. n, NEW j \in 1 .. n, r[i] = r[j] PROVE i = j
    BY <1>6 DEF IsInjective
  <2>2. ASSUME NEW k \in 1 .. n, k # 1 PROVE k - 1 \in 1 .. Len(l) /\ r[k] = l[k - 1] /\ r[k] # a
    BY <1>6, <1>7, <2>2
  <2>3. CASE i = 1
    BY <1>6, <2>2, <2>3
  <2>4. CASE i # 1
    BY <1>6, <2>2, <2>4, <2>1
  <2> QED BY <2>3, <2>4
<1>9. ToSet(r) = ToSet(l) \cup {a}
  <2>1. 1 \in 1 .. n
    BY <1>2, <1>5
  <2>2. ASSUME NEW e \in ToSet(r) PROVE e \in ToSet(l) \cup {a}
    <3>1. PICK i \in 1 .. n : e = r[i]
      BY <1>6 DEF ToSet
    <3>2. i # 1 => i - 1 \in DOMAIN l /\ e = l[i - 1]
      BY <1>2, <1>6, <3>1
    <3> QED BY <1>6, <3>1, <3>2 DEF ToSet
  <2>3. ASSUME NEW e \in ToSet(l) PROVE e \in ToSet(r)
    <3>1. PICK i \in 1 .. Len(l) : e = l[i]
      BY <1>2 DEF ToSet
    <3> QED BY <1>6, <1>7, <3>1 DEF ToSet
  <2>4. a \in ToSet(r)
    BY <1>6, <2>1 DEF ToSet
  <2> QED BY <2>2, <2>3, <2>4
<1> QED BY <1>3, <1>8, <1>9, <1>2 DEF r

LEMMA FrontFacts ==
    ASSUME NEW S, NEW l \in Seq(S), IsInjective(l), l # <<>>
    PROVE  /\ Front(l) \in Seq(S) /\ IsInjective(Front(l)) /\ ToSet(Front(l)) = ToSet(l) \ {Last(l)}
           /\ Len(Front(l)) = Len(l) - 1 /\ Len(l) \in Nat \ {0} /\ Last(l) \in ToSet(l)
<1>1. Len(l) \in Nat \ {0} /\ DOMAIN l = 1 .. Len(l) /\ \A i \in 1 .. Len(l) : l[i] \in S
  BY LenProperties, ElementOfSeq, EmptySeq
<1>a. PICK L \in Nat \ {0} : L = Len(l)
  BY <1>1
<1>b. PICK n \in Nat : n = L - 1
  OBVIOUS
<1>2. n = Len(l) - 1 /\ Len(l) = n + 1
  BY <1>a, <1>b
<1> DEFINE f == Front(l)
<1>3. f \in Seq(S) /\ Len(f) = n /\ \A i \in 1 .. n : f[i] = l[i]
  BY <1>2, <1>1, SubSeqProperties DEF Front
<1> HIDE DEF f
<1>4. DOMAIN f = 1 .. n
  BY <1>3, LenProperties
<1>5. Last(l) = l[n + 1] /\ n + 1 \in DOMAIN l
  BY <1>1, <1>2 DEF Last
<1>6. \A i, j \in DOMAIN l : l[i] = l[j] => i = j
  BY DEF IsInjective
<1>c. DOMAIN l = 1 .. n + 1
  BY <1>1, <1>2
<1>7. ASSUME NEW i \in 1 .. n PROVE i \in DOMAIN l /\ i # n + 1
  BY <1>c
<1>8. ASSUME NEW i \in DOMAIN l, i # n + 1 PROVE i \in 1 .. n
  BY <1>c, <1>8
<1>9. IsInjective(f)
  BY <1>3, <1>4, <1>6, <1>7 DEF IsInjective
<1>10. ASSUME NEW e \in ToSet(f) PROVE e \in ToSet(l) \ {Last(l)}
  <2>1. PICK i \in 1 .. n : e = f[i]
    BY <1>4 DEF ToSet
  <2>2. e = l[i] /\ i \in DOMAIN l /\ l[i] # l[n + 1]
    BY <1>3, <1>5, <1>6, <1>7, <2>1
  <2> QED BY <1>5, <2>2 DEF ToSet
<1>11. ASSUME NEW e \in ToSet(l) \ {Last(l)} PROVE e \in ToSet(f)
  <2>1. PICK i \in DOMAIN l : e = l[i]
    BY DEF ToSet
  <2>2. i \in 1 .. n
    BY <1>5, <1>8, <2>1
  <2> QED BY <1>3, <1>4, <2>1, <2>2 DEF ToSet
<1>12. ToSet(f) = ToSet(l) \ {Last(l)}
  BY <1>10, <1>11
<1>13. Last(l) \in ToSet(l)
  BY <1>5 DEF ToSet
<1> QED BY <1>1, <1>2, <1>3, <1>9, <1>12, <1>13 DEF f

\* Moving an entry that is in the list changes its place only.
LEMMA MoveFacts ==
    ASSUME NEW l \in Seq(GAddrs), IsInjective(l), NEW a \in GAddrs
    PROVE  /\ generic_move_to_front(l, a) \in Seq(GAddrs) /\ IsInjective(generic_move_to_front(l, a))
           /\ ToSet(generic_move_to_front(l, a)) = ToSet(l) \cup {a}
           /\ a \in ToSet(l) => Len(generic_move_to_front(l, a)) = Len(l)
<1> DEFINE w == Without(l, a)
<1>1. /\ w \in Seq(GAddrs) /\ IsInjective(w) /\ ToSet(w) = ToSet(l) \ {a}
      /\ a \in ToSet(l) => Len(w) = Len(l) - 1
  BY UnlinkFacts
<1>2. generic_move_to_front(l, a) = <<a>> \o w
  BY DEF generic_move_to_front
<1> HIDE DEF w
<1>3. a \notin ToSet(w)
  BY <1>1
<1>4. /\ <<a>> \o w \in Seq(GAddrs) /\ IsInjective(<<a>> \o w) /\ ToSet(<<a>> \o w) = ToSet(w) \cup {a}
      /\ Len(<<a>> \o w) = Len(w) + 1
  BY <1>1, <1>3, PushFacts
<1>5. Len(l) \in Nat /\ Len(w) \in Nat
  BY <1>1, LenProperties
<1>6. a \in ToSet(l) => Len(w) + 1 = Len(l)
  BY <1>1, <1>5
<1> QED BY <1>1, <1>2, <1>4, <1>6

GenericInv == GenericTypeOK /\ TableAndListAgree

\* The numbers the sizes are compared with.
LEMMA GenericSizes ==
    /\ GCapacity \in Nat \ {0} /\ Cardinality(GAddrs) \in Nat /\ GCapacity <= Cardinality(GAddrs) /\ GAddrs # {}
  BY GenericAssumption, FS_CardinalityType, FS_EmptySet

LEMMA GenericInvInit == GenericInit => GenericInv
<1> SUFFICES ASSUME GenericInit PROVE GenericInv
  OBVIOUS
<1>1. (CHOOSE k \in GKeys : TRUE) \in GKeys /\ (CHOOSE a \in GAddrs : TRUE) \in GAddrs
  BY GenericAssumption, GenericSizes
<1>2. GenericTypeOK
  <2>1. gsize \in 0 .. Cardinality(GAddrs) /\ glist \in Seq(GAddrs)
    BY GenericSizes DEF GenericInit
  <2>2. gmem \in [GAddrs -> GKeys] /\ gfound \in [GThreads -> GAddrs]
    BY <1>1 DEF GenericInit
  <2> QED BY <2>1, <2>2 DEF GenericInit, GenericTypeOK
<1>3. ToSet(glist) = {} /\ IsInjective(glist) /\ Len(glist) = 0
  BY DEF GenericInit, ToSet, IsInjective
<1>4. gsize <= GCapacity
  BY GenericSizes DEF GenericInit
<1> QED BY <1>2, <1>3, <1>4 DEF GenericInit, GenericInv, TableAndListAgree

\* A step that leaves table and list in agreement, stated on the new values.
LEMMA GenericPutHolds ==
    ASSUME GenericInv, ~ dangled, NEW k \in GKeys, generic_cache_put(k) PROVE GenericInv'
<1>1. /\ glist \in Seq(GAddrs) /\ gmem \in [GAddrs -> GKeys] /\ ghash \subseteq GAddrs /\ gsize \in Nat
      /\ ToSet(glist) = ghash /\ IsInjective(glist) /\ gsize = Len(glist) /\ gsize <= GCapacity
      /\ \A a, b \in ghash : gmem[a] = gmem[b] => a = b
  BY GenericSizes DEF GenericInv, GenericTypeOK, TableAndListAgree
<1>2. gpc' = gpc /\ gfound' = gfound /\ dangled' = FALSE
  BY DEF generic_cache_put, GenericInv, GenericTypeOK
<1>3. ASSUME /\ glist' \in Seq(GAddrs) /\ gmem' \in [GAddrs -> GKeys] /\ ghash' \subseteq GAddrs
             /\ ToSet(glist') = ghash' /\ IsInjective(glist') /\ gsize' = Len(glist') /\ gsize' \in Nat /\ gsize' <= GCapacity
             /\ \A a, b \in ghash' : gmem'[a] = gmem'[b] => a = b
      PROVE  GenericInv'
  <2>1. gsize' \in 0 .. Cardinality(GAddrs)
    BY <1>3, GenericSizes
  <2>2. GenericTypeOK'
    BY <1>2, <1>3, <2>1 DEF GenericInv, GenericTypeOK
  <2>3. TableAndListAgree'
    BY <1>3 DEF TableAndListAgree
  <2> QED BY <2>2, <2>3 DEF GenericInv
<1>4. CASE FoundAt(k) # {}
  <2>1. PICK a \in ghash : a = (CHOOSE x \in FoundAt(k) : TRUE)
    BY <1>4 DEF FoundAt
  <2>2. glist' = generic_move_to_front(glist, a) /\ gmem' = gmem /\ ghash' = ghash /\ gsize' = gsize
    BY <1>4, <2>1 DEF generic_cache_put
  <2>3. /\ generic_move_to_front(glist, a) \in Seq(GAddrs) /\ IsInjective(generic_move_to_front(glist, a))
        /\ ToSet(generic_move_to_front(glist, a)) = ghash
        /\ Len(generic_move_to_front(glist, a)) = Len(glist)
    <3>1. a \in GAddrs /\ a \in ToSet(glist) /\ ToSet(glist) \cup {a} = ghash
      BY <1>1
    <3> QED BY <1>1, <3>1, MoveFacts
  <2> QED BY <1>1, <1>3, <2>2, <2>3
<1>5. CASE FoundAt(k) = {}
  <2> DEFINE full == gsize >= GCapacity /\ glist # <<>>
             room == IF full THEN evict_lru ELSE [list |-> glist, hash |-> ghash]
             left == IF full THEN gsize - 1 ELSE gsize
  <2>1. PICK rl \in Seq(GAddrs), rh \in SUBSET GAddrs, n \in Nat :
           /\ rl = room.list /\ rh = room.hash /\ n = left
           /\ rh \subseteq ghash /\ ToSet(rl) = rh /\ IsInjective(rl) /\ n = Len(rl) /\ n < GCapacity
    <3>1. CASE full
      <4>1. /\ Front(glist) \in Seq(GAddrs) /\ IsInjective(Front(glist)) /\ ToSet(Front(glist)) = ghash \ {Last(glist)}
            /\ Len(Front(glist)) = gsize - 1 /\ gsize \in Nat \ {0}
        BY <1>1, <3>1, FrontFacts
      <4>2. gsize - 1 \in Nat /\ gsize - 1 < GCapacity
        BY <1>1, <4>1, GenericSizes
      <4>3. room.list = Front(glist) /\ room.hash = ghash \ {Last(glist)} /\ left = gsize - 1
        BY <3>1 DEF evict_lru
      <4> QED BY <1>1, <4>1, <4>2, <4>3
    <3>2. CASE ~ full
      <4>1. gsize < GCapacity
        BY <1>1, <3>2, GenericSizes
      <4>2. room.list = glist /\ room.hash = ghash /\ left = gsize
        BY <3>2
      <4> QED BY <1>1, <4>1, <4>2
    <3> QED BY <3>1, <3>2
  <2>2. \/ /\ glist' = room.list /\ ghash' = room.hash /\ gsize' = left /\ UNCHANGED gmem
        \/ \E a \in GAddrs \ room.hash :
              /\ glist' = <<a>> \o Without(room.list, a) /\ ghash' = room.hash \cup {a}
              /\ gmem' = [gmem EXCEPT ![a] = k] /\ gsize' = left + 1
    BY <1>5 DEF generic_cache_put
  <2> HIDE DEF full, room, left
  <2>3. CASE glist' = room.list /\ ghash' = room.hash /\ gsize' = left /\ UNCHANGED gmem
    <3>1. n <= GCapacity
      BY <2>1, GenericSizes
    <3>2. glist' = rl /\ ghash' = rh /\ gsize' = n /\ gmem' = gmem
      BY <2>1, <2>3
    <3> QED BY <1>1, <1>3, <2>1, <3>1, <3>2
  <2>4. ASSUME NEW a \in GAddrs \ room.hash,
               glist' = <<a>> \o Without(room.list, a), ghash' = room.hash \cup {a},
               gmem' = [gmem EXCEPT ![a] = k], gsize' = left + 1
        PROVE  GenericInv'
    <3>1. a \in GAddrs /\ a \notin rh /\ glist' = <<a>> \o Without(rl, a) /\ ghash' = rh \cup {a} /\ gsize' = n + 1
      BY <2>1, <2>4
    <3>2. glist' = <<a>> \o rl
      BY <2>1, <3>1 DEF Without
    <3>3. /\ <<a>> \o rl \in Seq(GAddrs) /\ IsInjective(<<a>> \o rl) /\ ToSet(<<a>> \o rl) = ToSet(rl) \cup {a}
          /\ Len(<<a>> \o rl) = Len(rl) + 1
      BY <2>1, <3>1, PushFacts
    <3>4. n + 1 \in Nat /\ n + 1 <= GCapacity
      BY <2>1, GenericSizes
    <3>5. gmem' \in [GAddrs -> GKeys] /\ gmem'[a] = k /\ \A b \in GAddrs : b # a => gmem'[b] = gmem[b]
      BY <1>1, <2>4
    <3>6. \A b \in ghash : gmem[b] # k
      BY <1>5 DEF FoundAt
    <3>7. ASSUME NEW b \in rh \cup {a}, NEW c \in rh \cup {a}, gmem'[b] = gmem'[c] PROVE b = c
      BY <1>1, <2>1, <3>1, <3>5, <3>6, <3>7
    <3>8. \A b, c \in ghash' : gmem'[b] = gmem'[c] => b = c
      BY <3>1, <3>7
    <3>9. rh \cup {a} \subseteq GAddrs
      BY <3>1
    <3> QED BY <1>3, <2>1, <3>1, <3>2, <3>3, <3>4, <3>5, <3>8, <3>9
  <2> QED BY <2>2, <2>3, <2>4
<1> QED BY <1>4, <1>5

LEMMA GenericInvStep == GenericInv /\ [GenericNext]_genericVars => GenericInv'
<1> SUFFICES ASSUME GenericInv, [GenericNext]_genericVars PROVE GenericInv'
  OBVIOUS
<1>1. CASE UNCHANGED genericVars
  BY <1>1 DEF GenericInv, GenericTypeOK, TableAndListAgree, genericVars
<1>2. CASE GenericNext
  <2>1. ~ dangled
    BY <1>2 DEF GenericNext
  <2>2. /\ glist \in Seq(GAddrs) /\ gmem \in [GAddrs -> GKeys] /\ ghash \subseteq GAddrs /\ gsize \in Nat
        /\ gsize \in 0 .. Cardinality(GAddrs) /\ gpc \in [GThreads -> {"idle", "moving"}] /\ gfound \in [GThreads -> GAddrs]
        /\ ToSet(glist) = ghash /\ IsInjective(glist) /\ gsize = Len(glist) /\ gsize <= GCapacity
        /\ \A a, b \in ghash : gmem[a] = gmem[b] => a = b
    BY <2>1, GenericSizes DEF GenericInv, GenericTypeOK, TableAndListAgree
  <2>3. ASSUME NEW k \in GKeys, generic_cache_put(k) PROVE GenericInv'
    BY <2>1, <2>3, GenericPutHolds
  <2>4. ASSUME NEW k \in GKeys, generic_cache_remove(k) PROVE GenericInv'
    <3>1. PICK a \in ghash : glist' = Without(glist, a) /\ ghash' = ghash \ {a}
      BY <2>4 DEF generic_cache_remove, FoundAt
    <3>2. gsize' = gsize - 1 /\ gmem' = gmem /\ gpc' = gpc /\ gfound' = gfound /\ dangled' = dangled
      BY <2>4 DEF generic_cache_remove
    <3>3. /\ Without(glist, a) \in Seq(GAddrs) /\ IsInjective(Without(glist, a)) /\ ToSet(Without(glist, a)) = ghash \ {a}
          /\ Len(Without(glist, a)) = Len(glist) - 1
      BY <2>2, UnlinkFacts
    <3>4. Len(Without(glist, a)) \in Nat
      BY <3>3, LenProperties
    <3>5. gsize' \in 0 .. Cardinality(GAddrs) /\ gsize' <= GCapacity /\ gsize' = Len(glist')
      BY <2>2, <3>1, <3>2, <3>3, <3>4, GenericSizes
    <3>6. GenericTypeOK'
      BY <3>2, <2>2, <3>1, <3>3, <3>5 DEF GenericInv, GenericTypeOK
    <3>7. TableAndListAgree'
      BY <2>2, <3>1, <3>2, <3>3, <3>5 DEF TableAndListAgree
    <3> QED BY <3>6, <3>7 DEF GenericInv
  <2>5. ASSUME NEW k \in GKeys, NEW t \in GThreads, generic_cache_get(t, k) PROVE GenericInv'
    <3>1. PICK a \in GAddrs : gfound' = [gfound EXCEPT ![t] = a]
      BY <2>2, <2>5 DEF generic_cache_get, FoundAt
    <3>2. gpc' \in [GThreads -> {"idle", "moving"}] /\ gfound' \in [GThreads -> GAddrs]
      BY <2>2, <2>5, <3>1 DEF generic_cache_get
    <3> QED BY <2>5, <3>2 DEF generic_cache_get, GenericInv, GenericTypeOK, TableAndListAgree
  <2>6. ASSUME NEW t \in GThreads, GetMove(t) PROVE GenericInv'
    <3>1. PICK a \in GAddrs : a = gfound[t]
      BY <2>2
    <3>2. /\ glist' = generic_move_to_front(glist, a) /\ dangled' = (dangled \/ a \notin ghash)
          /\ gmem' = gmem /\ ghash' = ghash /\ gsize' = gsize /\ gfound' = gfound
      BY <2>6, <3>1 DEF GetMove
    <3>3. gpc' \in [GThreads -> {"idle", "moving"}]
      BY <2>2, <2>6 DEF GetMove
    <3>4. /\ generic_move_to_front(glist, a) \in Seq(GAddrs) /\ IsInjective(generic_move_to_front(glist, a))
          /\ ToSet(generic_move_to_front(glist, a)) = ghash \cup {a}
          /\ a \in ghash => Len(generic_move_to_front(glist, a)) = Len(glist)
      BY <2>2, MoveFacts
    <3>5. dangled' \in BOOLEAN
      BY <3>2
    <3>6. GenericTypeOK'
      BY <2>2, <3>2, <3>3, <3>4, <3>5 DEF GenericTypeOK
    <3>7. ~ dangled' => a \in ghash
      BY <3>2
    <3>8. a \in ghash => ghash \cup {a} = ghash
      OBVIOUS
    <3>9. TableAndListAgree'
      BY <2>2, <3>2, <3>4, <3>7, <3>8 DEF TableAndListAgree
    <3> QED BY <3>6, <3>9 DEF GenericInv
  <2>7. CASE generic_cache_clear
    BY <2>7, GenericSizes, <2>2 DEF generic_cache_clear, ToSet, IsInjective, GenericInv, GenericTypeOK,
       TableAndListAgree
  <2> QED BY <1>2, <2>3, <2>4, <2>5, <2>6, <2>7 DEF GenericNext
<1> QED BY <1>1, <1>2

\* For every capacity and any number of threads, the hash table and the list of
\* generic_cache.c hold the same entries until a freed entry is moved, and an entry that
\* a reader found leaves only by a clear, a removal or an eviction.
THEOREM GenericCacheIsSound == GenericSpec => GenericCacheSound
<1>1. GenericSpec => []GenericInv
  BY GenericInvInit, GenericInvStep, PTL DEF GenericSpec
<1>2. GenericInv <=> GenericTypeOK /\ TableAndListAgree
  BY DEF GenericInv
<1>3. GenericInv /\ [GenericNext]_genericVars =>
        [\A t \in GThreads : gpc[t] = "moving" /\ gfound[t] \in ghash /\ gfound[t] \notin ghash'
            => \/ ghash' = {}
               \/ gsize' < gsize
               \/ gsize >= GCapacity]_genericVars
  <2> SUFFICES ASSUME GenericInv, GenericNext, NEW t \in GThreads, gfound[t] \in ghash, gfound[t] \notin ghash'
               PROVE  ghash' = {} \/ gsize' < gsize \/ gsize >= GCapacity
    OBVIOUS
  <2>1. gsize \in Int
    BY GenericSizes DEF GenericInv, GenericTypeOK
  <2>2. ASSUME NEW k \in GKeys, generic_cache_put(k) PROVE gsize >= GCapacity
    BY <2>2 DEF generic_cache_put
  <2>3. ASSUME NEW k \in GKeys, generic_cache_remove(k) PROVE gsize' < gsize
    BY <2>1, <2>3 DEF generic_cache_remove
  <2>4. ASSUME NEW k \in GKeys, NEW s \in GThreads, generic_cache_get(s, k) PROVE FALSE
    BY <2>4 DEF generic_cache_get
  <2>5. ASSUME NEW s \in GThreads, GetMove(s) PROVE FALSE
    BY <2>5 DEF GetMove
  <2>6. CASE generic_cache_clear
    BY <2>6 DEF generic_cache_clear
  <2> QED BY <2>2, <2>3, <2>4, <2>5, <2>6 DEF GenericNext
<1>4. GenericSpec => FoundEntryKept
  BY <1>1, <1>3, PTL DEF GenericSpec, FoundEntryKept
<1> QED BY <1>1, <1>2, <1>4, PTL DEF GenericCacheSound

-----------------------------------------------------------------------------
(* Query tracking.  The invariant follows a pattern from the table to the  *)
(* candidates, the index and the mark, and an entry from the list to the   *)
(* cleaner.                                                                *)

Pattern == [field : QFields, count : Nat \ {0}, total : Nat, indexed : BOOLEAN, freed : BOOLEAN]

TrackTypes ==
    /\ nodes \in Seq(Pattern) /\ table \in [QFields -> Nat]
    /\ info \in Seq([field : QFields, freed : BOOLEAN])
    /\ infos \in Seq(Nat) /\ IsInjective(infos) /\ created \in Seq(QFields)
    /\ sweep \in [Sweepers -> [pc : {"idle", "consider", "create", "info", "mark"}, cands : Seq(Nat)]]
    /\ twoSweeps \in BOOLEAN

TableOK ==
    \A f \in QFields : table[f] # 0 =>
        table[f] \in DOMAIN nodes /\ nodes[table[f]].field = f /\ ~ nodes[table[f]].freed

\* A pattern a sweep works on or that was indexed: in the table, and asked too often to
\* be forgotten.
Lasting(n) == n \in DOMAIN nodes /\ table[nodes[n].field] = n /\ nodes[n].count >= CountThreshold

CandsOK ==
    \A s \in Sweepers :
        /\ IsInjective(sweep[s].cands)
        /\ sweep[s].pc = "idle" => sweep[s].cands = <<>>
        /\ sweep[s].pc \in {"create", "info", "mark"} => sweep[s].cands # <<>>
        /\ trackerPhase # "down" => \A n \in ToSet(sweep[s].cands) : Lasting(n)

\* The sweeper has made the index of its first candidate and not marked it yet.
InHand(s) == sweep[s].pc \in {"info", "mark"}

IndexedOK ==
    trackerPhase # "down" =>
        /\ \A s, o \in Sweepers : sweep[s].pc # "idle" /\ sweep[o].pc # "idle" => s = o
        /\ \A f \in ToSet(created) :
              Lasting(table[f]) /\ (nodes[table[f]].indexed \/ \E s \in Sweepers : InHand(s) /\ Head(sweep[s].cands) = table[f])
        /\ \A s \in Sweepers : \A n \in ToSet(sweep[s].cands) :
              (InHand(s) /\ n = Head(sweep[s].cands)) \/ nodes[n].field \notin ToSet(created)

OnceOK == ~ twoSweeps => IsInjective(created) /\ IndexedOK

InfosOK ==
    /\ \A i \in ToSet(infos) : i \in DOMAIN info /\ ~ info[i].freed
    /\ trackerPhase # "down" => \A i \in DOMAIN info : info[i].freed \/ i \in ToSet(infos)

InfoOf(f)    == {i \in DOMAIN info : info[i].field = f}
MakingOf(f)  == {s \in Sweepers : sweep[s].pc = "info" /\ Field(s) = f}
CreatedOf(f) == {k \in DOMAIN created : created[k] = f}

CountsOK ==
    trackerPhase # "down" =>
        \A f \in QFields : Cardinality(InfoOf(f)) + Cardinality(MakingOf(f)) = Cardinality(CreatedOf(f))

CleanerOK ==
    trackerPhase # "down" /\ ~ dropped =>
        /\ cleaner.pc = "next" /\ cleaner.at # 0 => cleaner.at \in ToSet(infos)
        /\ cleaner.pc = "remove" =>
              \E k \in DOMAIN infos : cleaner.at = infos[k] /\ cleaner.next = (IF k = Len(infos) THEN 0 ELSE infos[k + 1])

CleanerTypes ==
    /\ trackerPhase \in {"up", "stopping", "down"} /\ dropped \in BOOLEAN /\ cleaner.pc \in {"idle", "next", "remove"}
    /\ cleaner.pc = "idle" => cleaner.at = 0

TrackInv ==
    /\ TrackTypes /\ TableOK /\ CandsOK /\ OnceOK /\ InfosOK /\ CountsOK /\ CleanerTypes /\ CleanerOK
    /\ FreedAfterThread

\* The elements of a finite set in some order, each once.
LEMMA OrderFacts ==
    ASSUME NEW S, IsFiniteSet(S)
    PROVE  SetToSeq(S) \in Seq(S) /\ IsInjective(SetToSeq(S)) /\ ToSet(SetToSeq(S)) = S
<1>1. PICK n \in Nat : n = Cardinality(S)
  BY FS_CardinalityType
<1>2. PICK g \in Bijection(1 .. n, S) : TRUE
  BY <1>1, FS_CardinalityType DEF ExistsBijection
<1>3. g \in [1 .. n -> S] /\ IsInjective(g)
  BY <1>2 DEF Bijection, Injection, IsInjective
<1> DEFINE q == SetToSeq(S)
<1>4. q \in [1 .. n -> S] /\ IsInjective(q)
  BY <1>1, <1>3 DEF SetToSeq
<1> HIDE DEF q
<1>5. q \in Injection(1 .. n, S)
  BY <1>4 DEF Injection, IsInjective
<1>6. Cardinality(1 .. n) = n
  BY FS_Interval
<1>7. q \in Surjection(1 .. n, S)
  BY <1>1, <1>5, <1>6, FS_Injection
<1>8. \A e \in S : \E i \in 1 .. n : q[i] = e
  BY <1>7 DEF Surjection
<1>9. q \in Seq(S)
  BY <1>4
<1>10. DOMAIN q = 1 .. n
  BY <1>4
<1>11. ToSet(q) = S
  BY <1>8, <1>10, <1>4 DEF ToSet
<1> QED BY <1>4, <1>9, <1>11 DEF q

LEMMA TailFacts ==
    ASSUME NEW S, NEW l \in Seq(S), IsInjective(l), l # <<>>
    PROVE  /\ Tail(l) \in Seq(S) /\ IsInjective(Tail(l)) /\ ToSet(Tail(l)) = ToSet(l) \ {Head(l)}
           /\ Head(l) \in ToSet(l) /\ Head(l) \in S
<1>1. Len(l) \in Nat \ {0} /\ DOMAIN l = 1 .. Len(l)
  BY LenProperties, EmptySeq
<1>2. PICK L \in Nat \ {0} : L = Len(l)
  BY <1>1
<1>3. PICK n \in Nat : n = L - 1
  OBVIOUS
<1>4. Head(l) = l[1] /\ Tail(l) \in Seq(S) /\ Len(Tail(l)) = n
  BY <1>1, <1>2, <1>3, HeadTailProperties
<1>5. \A i \in 1 .. n : Tail(l)[i] = l[i + 1]
  BY <1>1, <1>2, <1>3, HeadTailProperties
<1> DEFINE q == Tail(l)
<1> HIDE DEF q
<1>6. DOMAIN q = 1 .. n
  BY <1>4, LenProperties DEF q
<1>7. DOMAIN l = 1 .. n + 1
  BY <1>1, <1>2, <1>3
<1>8. \A i, j \in DOMAIN l : l[i] = l[j] => i = j
  BY DEF IsInjective
<1>9. ASSUME NEW i \in 1 .. n PROVE i + 1 \in DOMAIN l /\ i + 1 # 1 /\ q[i] = l[i + 1] /\ 1 \in DOMAIN l
  BY <1>5, <1>7 DEF q
<1>10. IsInjective(q)
  <2> SUFFICES ASSUME NEW i \in 1 .. n, NEW j \in 1 .. n, q[i] = q[j] PROVE i = j
    BY <1>6 DEF IsInjective
  <2>1. i + 1 = j + 1
    BY <1>8, <1>9
  <2> QED BY <2>1
<1>11. ASSUME NEW e \in ToSet(q) PROVE e \in ToSet(l) \ {l[1]}
  <2>1. PICK i \in 1 .. n : e = q[i]
    BY <1>6 DEF ToSet
  <2> QED BY <1>8, <1>9, <2>1 DEF ToSet
<1>12. ASSUME NEW e \in ToSet(l) \ {l[1]} PROVE e \in ToSet(q)
  <2>1. PICK i \in DOMAIN l : e = l[i]
    BY DEF ToSet
  <2>2. PICK k \in 1 .. n : i = k + 1
    BY <1>7, <2>1
  <2> QED BY <1>6, <1>9, <2>1, <2>2 DEF ToSet
<1>13. ToSet(q) = ToSet(l) \ {l[1]}
  BY <1>11, <1>12
<1>14. 1 \in DOMAIN l /\ l[1] \in S
  BY <1>1, <1>2, ElementOfSeq
<1>15. l[1] \in ToSet(l)
  BY <1>14 DEF ToSet
<1> QED BY <1>4, <1>10, <1>13, <1>14, <1>15 DEF q

LEMMA AppendFacts ==
    ASSUME NEW S, NEW l \in Seq(S), NEW a \in S
    PROVE  /\ Append(l, a) \in Seq(S) /\ Len(l) \in Nat /\ DOMAIN l = 1 .. Len(l)
           /\ DOMAIN Append(l, a) = DOMAIN l \cup {Len(l) + 1} /\ Len(l) + 1 \notin DOMAIN l
           /\ Append(l, a)[Len(l) + 1] = a /\ \A i \in DOMAIN l : Append(l, a)[i] = l[i]
           /\ ToSet(Append(l, a)) = ToSet(l) \cup {a}
           /\ IsInjective(l) /\ a \notin ToSet(l) => IsInjective(Append(l, a))
<1>1. PICK n \in Nat : n = Len(l)
  BY LenProperties
<1>2. DOMAIN l = 1 .. n
  BY <1>1, LenProperties
<1>3. /\ Append(l, a) \in Seq(S) /\ Len(Append(l, a)) = n + 1
      /\ \A i \in 1 .. n : Append(l, a)[i] = l[i]
      /\ Append(l, a)[n + 1] = a
  BY <1>1, AppendProperties
<1> DEFINE q == Append(l, a)
<1> HIDE DEF q
<1>4. DOMAIN q = 1 .. n + 1
  BY <1>3, LenProperties DEF q
<1>5. 1 .. n + 1 = 1 .. n \cup {n + 1} /\ n + 1 \notin 1 .. n
  OBVIOUS
<1>6. DOMAIN q = DOMAIN l \cup {n + 1} /\ n + 1 \notin DOMAIN l
  BY <1>2, <1>4, <1>5
<1>7. q[n + 1] = a /\ \A i \in DOMAIN l : q[i] = l[i]
  BY <1>2, <1>3 DEF q
<1>8. ToSet(q) = ToSet(l) \cup {a}
  BY <1>6, <1>7 DEF ToSet
<1>9. ASSUME IsInjective(l), a \notin ToSet(l) PROVE IsInjective(q)
  BY <1>9, <1>6, <1>7 DEF ToSet, IsInjective
<1> QED BY <1>1, <1>2, <1>3, <1>6, <1>7, <1>8, <1>9 DEF q

\* Taking out the entry at a place.
LEMMA RemoveAtFacts ==
    ASSUME NEW S, NEW l \in Seq(S), IsInjective(l), NEW k \in DOMAIN l
    PROVE  RemoveAt(l, k) \in Seq(S) /\ IsInjective(RemoveAt(l, k)) /\ ToSet(RemoveAt(l, k)) = ToSet(l) \ {l[k]}
<1>1. l[k] \in ToSet(l)
  BY DEF ToSet
<1>2. (CHOOSE i \in DOMAIN l : l[i] = l[k]) = k
  BY DEF IsInjective
<1>3. RemoveAt(l, k) = Without(l, l[k])
  BY <1>1, <1>2 DEF Without
<1> QED BY <1>3, UnlinkFacts

-----------------------------------------------------------------------------

LEMMA TrackInvInit == TrackInit => TrackInv
<1> SUFFICES ASSUME TrackInit PROVE TrackInv
  OBVIOUS
<1>1. nodes = <<>> /\ infos = <<>> /\ info = <<>> /\ created = <<>> /\ trackerPhase = "up" /\ ~ twoSweeps /\ ~ dropped
  BY DEF TrackInit
<1>2. \A s \in Sweepers : sweep[s].pc = "idle" /\ sweep[s].cands = <<>>
  BY DEF TrackInit, AtRest
<1>3. IsInjective(<<>>) /\ ToSet(<<>>) = {} /\ DOMAIN <<>> = {}
  BY DEF IsInjective, ToSet
<1>4. TrackTypes
  BY EmptySeq, <1>1, <1>3 DEF TrackInit, AtRest, TrackTypes
<1>5. TableOK
  BY DEF TrackInit, TableOK
<1>6. CandsOK
  BY <1>2, <1>3 DEF CandsOK
<1>7. OnceOK
  BY <1>1, <1>2, <1>3 DEF OnceOK, IndexedOK
<1>8. InfosOK
  BY <1>1, <1>3 DEF InfosOK
<1>9. CountsOK
  <2> SUFFICES ASSUME NEW f \in QFields
               PROVE  Cardinality(InfoOf(f)) + Cardinality(MakingOf(f)) = Cardinality(CreatedOf(f))
    BY DEF CountsOK
  <2>1. InfoOf(f) = {} /\ MakingOf(f) = {} /\ CreatedOf(f) = {}
    BY <1>1, <1>2, <1>3 DEF InfoOf, MakingOf, CreatedOf
  <2> QED BY <2>1, FS_EmptySet
<1>10. CleanerTypes /\ CleanerOK /\ FreedAfterThread
  BY <1>1 DEF TrackInit, CleanerTypes, CleanerOK, FreedAfterThread
<1> QED BY <1>4, <1>5, <1>6, <1>7, <1>8, <1>9, <1>10 DEF TrackInv

\* Steps that touch nothing the invariant speaks of, but for the beginning of the end.
LEMMA TrackQuiet ==
    ASSUME TrackInv, UNCHANGED <<nodes, table, sweep, infos, info, cleaner, created, twoSweeps, dropped>>,
           trackerPhase' = trackerPhase \/ (trackerPhase = "up" /\ trackerPhase' = "stopping")
    PROVE  TrackInv'
<1>1. (trackerPhase' # "down") <=> (trackerPhase # "down")
  OBVIOUS
<1>2. TrackTypes' /\ TableOK'
  BY DEF TrackInv, TrackTypes, TableOK
<1>3. \A n : Lasting(n)' <=> Lasting(n)
  BY DEF Lasting
<1>4. CandsOK'
  BY <1>1, <1>3 DEF TrackInv, CandsOK
<1>5. IndexedOK' <=> IndexedOK
  BY <1>1, <1>3 DEF IndexedOK, InHand
<1>6. OnceOK' /\ InfosOK' /\ FreedAfterThread' /\ CleanerTypes' /\ CleanerOK'
  BY <1>1, <1>5 DEF TrackInv, OnceOK, InfosOK, FreedAfterThread, CleanerTypes, CleanerOK
<1>7. CountsOK'
  BY <1>1 DEF TrackInv, CountsOK, InfoOf, MakingOf, CreatedOf, Field
<1> QED BY <1>2, <1>4, <1>6, <1>7 DEF TrackInv

\* What the tracker may do to the patterns: add to their counts, put new ones into the
\* table, and take out only those that were not asked often.
LEMMA PatternsKeep ==
    ASSUME TrackInv, UNCHANGED <<sweep, infos, info, cleaner, trackerPhase, created, twoSweeps, dropped>>,
           nodes' \in Seq(Pattern), table' \in [QFields -> Nat], TableOK',
           \A n \in DOMAIN nodes : /\ n \in DOMAIN nodes' /\ nodes'[n].field = nodes[n].field
                                   /\ nodes'[n].count >= nodes[n].count /\ nodes'[n].indexed = nodes[n].indexed,
           \A n : Lasting(n) => table'[nodes[n].field] = n
    PROVE  TrackInv'
<1>1. TrackTypes'
  BY DEF TrackInv, TrackTypes
<1>2. ASSUME NEW n, Lasting(n) PROVE Lasting(n)' /\ nodes'[n].field = nodes[n].field /\ nodes'[n].indexed = nodes[n].indexed
  <2>1. n \in DOMAIN nodes /\ n \in DOMAIN nodes' /\ nodes[n].count >= CountThreshold
    BY <1>2 DEF Lasting
  <2>2. nodes[n] \in Pattern /\ nodes'[n] \in Pattern
    BY <2>1, ElementOfSeq, LenProperties DEF TrackInv, TrackTypes
  <2>3. nodes'[n].count >= CountThreshold
    BY <2>2, TrackingAssumption, <2>1 DEF Pattern
  <2> QED BY <1>2, <2>1, <2>3 DEF Lasting
<1>3. CandsOK'
  BY <1>2 DEF TrackInv, CandsOK
<1>4. ASSUME NEW s \in Sweepers, sweep[s].pc = "info" \/ sweep[s].pc = "mark", trackerPhase # "down"
      PROVE  Lasting(Head(sweep[s].cands))
  BY <1>4, TailFacts DEF TrackInv, TrackTypes, CandsOK
<1>5. OnceOK'
  <2> SUFFICES ASSUME ~ twoSweeps, trackerPhase # "down" PROVE IndexedOK'
    BY DEF TrackInv, OnceOK, IndexedOK
  <2>1. IndexedOK
    BY DEF TrackInv, OnceOK
  <2>2. ASSUME NEW f \in ToSet(created)
        PROVE  /\ Lasting(table[f])'
               /\ nodes'[table'[f]].indexed \/ \E s \in Sweepers : InHand(s) /\ Head(sweep[s].cands) = table'[f]
    <3>1. /\ Lasting(table[f])
          /\ nodes[table[f]].indexed \/ \E s \in Sweepers : InHand(s) /\ Head(sweep[s].cands) = table[f]
      BY <2>1 DEF IndexedOK
    <3>2. f \in QFields
      BY ElementOfSeq, LenProperties DEF ToSet, TrackInv, TrackTypes
    <3>3. nodes[table[f]].field = f
      BY <3>1, LenProperties, <3>2 DEF TrackInv, TrackTypes, Lasting, TableOK
    <3>4. table'[f] = table[f]
      BY <3>1, <3>3
    <3> QED BY <1>2, <3>1, <3>4
  <2>3. ASSUME NEW s \in Sweepers, NEW n \in ToSet(sweep[s].cands)
        PROVE  (InHand(s) /\ n = Head(sweep[s].cands)) \/ nodes'[n].field \notin ToSet(created)
    BY <1>2, <2>1 DEF TrackInv, CandsOK, IndexedOK
  <2> QED BY <2>1, <2>2, <2>3 DEF IndexedOK, InHand
<1>6. CountsOK'
  <2> SUFFICES ASSUME trackerPhase # "down", NEW f \in QFields
               PROVE  (Cardinality(InfoOf(f)) + Cardinality(MakingOf(f)) = Cardinality(CreatedOf(f)))'
    BY DEF CountsOK
  <2>1. InfoOf(f)' = InfoOf(f) /\ CreatedOf(f)' = CreatedOf(f)
    BY DEF InfoOf, CreatedOf
  <2>2. ASSUME NEW s \in Sweepers, sweep[s].pc = "info" PROVE Field(s)' = Field(s)
    BY <1>2, <1>4, <2>2 DEF Field
  <2>3. MakingOf(f)' = MakingOf(f)
    BY <2>2 DEF MakingOf
  <2> QED BY <2>1, <2>3 DEF TrackInv, CountsOK
<1>7. InfosOK' /\ FreedAfterThread' /\ CleanerTypes' /\ CleanerOK'
  BY DEF TrackInv, InfosOK, FreedAfterThread, CleanerTypes, CleanerOK
<1> QED BY <1>1, <1>3, <1>5, <1>6, <1>7 DEF TrackInv

LEMMA EndTimingKeeps ==
    ASSUME TrackInv, NEW fs \in SUBSET QFields, NEW ms \in Durations, query_tracker_end_timing(fs, ms)
    PROVE  TrackInv'
<1> DEFINE missing == {f \in fs : table[f] = 0}
<1>1. IsFiniteSet(missing) /\ ms \in Nat /\ missing \subseteq QFields
  BY FS_Subset, TrackingAssumption
<1>2. PICK new \in Seq(missing) : new = SetToSeq(missing) /\ IsInjective(new) /\ ToSet(new) = missing
  BY <1>1, OrderFacts
<1> DEFINE First(f) == [field |-> f, count |-> 1, total |-> ms, indexed |-> FALSE, freed |-> FALSE]
<1>3. /\ nodes' = [n \in 1 .. Len(nodes) + Len(new) |->
                      IF n <= Len(nodes) THEN Counted(n, fs, ms) ELSE First(new[n - Len(nodes)])]
      /\ table' = [f \in QFields |-> IF f \in fs THEN find_or_create_pattern(f, new) ELSE table[f]]
      /\ UNCHANGED <<sweep, infos, info, cleaner, trackerPhase, created, twoSweeps, dropped>>
  BY <1>2 DEF query_tracker_end_timing
<1>4. nodes \in Seq(Pattern) /\ table \in [QFields -> Nat]
  BY DEF TrackInv, TrackTypes
<1>5. PICK L \in Nat : L = Len(nodes) /\ DOMAIN nodes = 1 .. L
  BY <1>4, LenProperties
<1>6. PICK N \in Nat : N = Len(new) /\ DOMAIN new = 1 .. N
  BY <1>2, LenProperties
<1> HIDE DEF missing
<1>7. nodes' = [n \in 1 .. L + N |-> IF n <= L THEN Counted(n, fs, ms) ELSE First(new[n - L])]
  BY <1>3, <1>5, <1>6
<1>8. ASSUME NEW n \in 1 .. L
      PROVE  /\ nodes'[n] = Counted(n, fs, ms) /\ nodes'[n] \in Pattern
             /\ nodes'[n].field = nodes[n].field /\ nodes'[n].count >= nodes[n].count
             /\ nodes'[n].indexed = nodes[n].indexed /\ nodes'[n].freed = nodes[n].freed
  <2>1. n \in 1 .. L + N /\ n <= L
    OBVIOUS
  <2>2. nodes'[n] = Counted(n, fs, ms)
    BY <1>7, <2>1
  <2>3. nodes[n] \in Pattern
    BY <1>4, <1>5, ElementOfSeq
  <2>4. nodes[n].count + 1 \in Nat \ {0} /\ nodes[n].total + ms \in Nat /\ nodes[n].count + 1 >= nodes[n].count
        /\ nodes[n].count >= nodes[n].count
    BY <1>1, <2>3 DEF Pattern
  <2> QED BY <2>2, <2>3, <2>4 DEF Counted, Pattern
<1>9. ASSUME NEW i \in 1 .. N
      PROVE  L + i \in 1 .. L + N /\ new[i] \in missing /\ nodes'[L + i] = First(new[i])
  BY <1>2, <1>6, ElementOfSeq, <1>7
<1>10. nodes' \in Seq(Pattern)
  <2>1. ASSUME NEW n \in 1 .. L + N PROVE nodes'[n] \in Pattern
    <3>1. CASE n <= L
      BY <1>8, <3>1
    <3>2. CASE ~ (n <= L)
      <4>1. PICK i \in 1 .. N : n = L + i
        BY <3>2
      <4>2. new[i] \in QFields
        BY <1>1, <1>9
      <4>3. nodes'[n] = First(new[i])
        BY <1>9, <4>1
      <4>4. PICK f \in QFields : f = new[i]
        BY <4>2
      <4>5. 1 \in Nat \ {0} /\ FALSE \in BOOLEAN
        OBVIOUS
      <4>6. First(f) \in Pattern
        BY <1>1, <4>5 DEF Pattern
      <4> QED BY <4>3, <4>4, <4>6
    <3> QED BY <3>1, <3>2
  <2> DEFINE q == nodes'
  <2>2. DOMAIN q = 1 .. L + N /\ q = [n \in 1 .. L + N |-> q[n]] /\ L + N \in Nat
    BY <1>7
  <2>3. \A n \in 1 .. L + N : q[n] \in Pattern
    BY <2>1
  <2> HIDE DEF q
  <2>4. q \in [1 .. L + N -> Pattern]
    BY <2>2, <2>3
  <2>5. q \in Seq(Pattern)
    BY <2>2, <2>4
  <2> QED BY <2>5 DEF q
<1>11. ASSUME NEW f \in QFields
       PROVE  \/ table[f] # 0 /\ table'[f] = table[f]
              \/ table[f] = 0 /\ table'[f] = 0
              \/ \E i \in 1 .. N : table[f] = 0 /\ table'[f] = L + i /\ new[i] = f
  <2>1. CASE f \notin fs
    BY <1>3, <2>1
  <2>2. CASE f \in fs /\ table[f] # 0
    BY <1>3, <2>2 DEF find_or_create_pattern
  <2>3. CASE f \in fs /\ table[f] = 0
    <3>1. \E i \in DOMAIN new : new[i] = f
      BY <1>2, <2>3 DEF ToSet, missing
    <3>2. PICK i \in 1 .. N : i = (CHOOSE j \in DOMAIN new : new[j] = f) /\ new[i] = f
      BY <1>6, <3>1
    <3>3. table'[f] = L + i
      BY <1>3, <1>5, <2>3, <3>2 DEF find_or_create_pattern
    <3> QED BY <2>3, <3>2, <3>3
  <2> QED BY <2>1, <2>2, <2>3
<1>12. table' \in [QFields -> Nat]
  <2>1. ASSUME NEW f \in QFields PROVE table'[f] \in Nat
    BY <1>4, <1>11
  <2>2. table' = [f \in QFields |-> table'[f]]
    BY <1>3
  <2> DEFINE q == table'
  <2> HIDE DEF q
  <2>3. q = [f \in QFields |-> q[f]] /\ \A f \in QFields : q[f] \in Nat
    BY <2>1, <2>2 DEF q
  <2>4. q \in [QFields -> Nat]
    BY <2>3
  <2> QED BY <2>4 DEF q
<1>13. DOMAIN nodes' = 1 .. L + N
  BY <1>7
<1>14. TableOK'
  <2> SUFFICES ASSUME NEW f \in QFields, table'[f] # 0
               PROVE  table'[f] \in DOMAIN nodes' /\ nodes'[table'[f]].field = f /\ ~ nodes'[table'[f]].freed
    BY DEF TableOK
  <2>1. CASE table[f] # 0 /\ table'[f] = table[f]
    BY <1>5, <2>1, <1>8, <1>13 DEF TrackInv, TableOK
  <2>2. CASE \E i \in 1 .. N : table[f] = 0 /\ table'[f] = L + i /\ new[i] = f
    <3>1. PICK i \in 1 .. N : table'[f] = L + i /\ new[i] = f
      BY <2>2
    <3>2. L + i \in 1 .. L + N /\ nodes'[L + i] = First(f)
      BY <1>9, <3>1
    <3>3. First(f).field = f /\ ~ First(f).freed
      OBVIOUS
    <3> QED BY <1>13, <3>1, <3>2, <3>3
  <2> QED BY <1>11, <2>1, <2>2
<1>15. ASSUME NEW n, Lasting(n) PROVE table'[nodes[n].field] = n
  <2>1. n \in 1 .. L /\ table[nodes[n].field] = n
    BY <1>5, <1>15 DEF Lasting
  <2>2. nodes[n] \in Pattern
    BY <1>4, <1>5, <2>1, ElementOfSeq
  <2>3. n # 0 /\ nodes[n].field \in QFields
    BY <2>1, <2>2 DEF Pattern
  <2> QED BY <1>11, <2>1, <2>3
<1>16. ASSUME NEW n \in DOMAIN nodes
       PROVE  /\ n \in DOMAIN nodes' /\ nodes'[n].field = nodes[n].field
              /\ nodes'[n].count >= nodes[n].count /\ nodes'[n].indexed = nodes[n].indexed
  BY <1>5, <1>8, <1>13
<1> QED BY <1>3, <1>10, <1>12, <1>14, <1>15, <1>16, PatternsKeep

LEMMA ForceCleanupKeeps ==
    ASSUME TrackInv, NEW old, query_tracker_force_cleanup(old)
    PROVE  TrackInv'
<1>1. PICK gone : /\ gone = {n \in old : Forgettable(n)}
                  /\ nodes' = [n \in DOMAIN nodes |-> [nodes[n] EXCEPT !.freed = @ \/ n \in gone]]
                  /\ table' = [f \in QFields |-> IF table[f] \in gone THEN 0 ELSE table[f]]
                  /\ UNCHANGED <<sweep, infos, info, cleaner, trackerPhase, created, twoSweeps, dropped>>
  BY DEF query_tracker_force_cleanup
<1>2. nodes \in Seq(Pattern) /\ table \in [QFields -> Nat] /\ TableOK
  BY DEF TrackInv, TrackTypes
<1>3. PICK L \in Nat : L = Len(nodes) /\ DOMAIN nodes = 1 .. L
  BY <1>2, LenProperties
<1>4. ASSUME NEW n \in DOMAIN nodes
      PROVE  /\ nodes[n] \in Pattern /\ nodes'[n] \in Pattern /\ nodes'[n].field = nodes[n].field
             /\ nodes'[n].count = nodes[n].count /\ nodes'[n].indexed = nodes[n].indexed
             /\ n \notin gone => nodes'[n].freed = nodes[n].freed
  <2>1. nodes[n] \in Pattern
    BY <1>2, <1>3, ElementOfSeq
  <2>2. nodes'[n] = [nodes[n] EXCEPT !.freed = @ \/ n \in gone]
    BY <1>1
  <2> QED BY <2>1, <2>2 DEF Pattern
<1>5. nodes' \in Seq(Pattern)
  <2> DEFINE q == nodes'
  <2>1. DOMAIN q = 1 .. L /\ q = [n \in 1 .. L |-> q[n]]
    BY <1>1, <1>3
  <2>2. \A n \in 1 .. L : q[n] \in Pattern
    BY <1>3, <1>4
  <2> HIDE DEF q
  <2>3. q \in [1 .. L -> Pattern]
    BY <2>1, <2>2
  <2>4. q \in Seq(Pattern)
    BY <2>3
  <2> QED BY <2>4 DEF q
<1>6. table' \in [QFields -> Nat]
  BY <1>1, <1>2
<1>7. TableOK'
  <2> SUFFICES ASSUME NEW f \in QFields, table'[f] # 0
               PROVE  table'[f] \in DOMAIN nodes' /\ nodes'[table'[f]].field = f /\ ~ nodes'[table'[f]].freed
    BY DEF TableOK
  <2>1. table'[f] = table[f] /\ table[f] \notin gone /\ table[f] # 0
    BY <1>1
  <2>2. table[f] \in DOMAIN nodes /\ nodes[table[f]].field = f /\ ~ nodes[table[f]].freed
    BY <1>2, <2>1 DEF TableOK
  <2> QED BY <1>1, <1>4, <2>1, <2>2
<1>8. ASSUME NEW n, Lasting(n) PROVE table'[nodes[n].field] = n
  <2>1. n \in DOMAIN nodes /\ table[nodes[n].field] = n /\ nodes[n].count >= CountThreshold
    BY <1>8 DEF Lasting
  <2>2. nodes[n].count \in Nat /\ nodes[n].field \in QFields
    BY <1>4, <2>1 DEF Pattern
  <2>3. ~ Forgettable(n)
    BY <2>1, <2>2, TrackingAssumption DEF Forgettable
  <2> QED BY <1>1, <2>1, <2>2, <2>3
<1>9. ASSUME NEW n \in DOMAIN nodes
      PROVE  /\ n \in DOMAIN nodes' /\ nodes'[n].field = nodes[n].field
             /\ nodes'[n].count >= nodes[n].count /\ nodes'[n].indexed = nodes[n].indexed
  <2>1. nodes[n].count \in Nat /\ nodes'[n].count = nodes[n].count
    BY <1>4 DEF Pattern
  <2>2. nodes'[n].count >= nodes[n].count
    BY <2>1
  <2> QED BY <1>1, <1>4, <2>2
<1> QED BY <1>1, <1>5, <1>6, <1>7, <1>8, <1>9, PatternsKeep

Tasks == [pc : {"idle", "consider", "create", "info", "mark"}, cands : Seq(Nat)]

\* The candidates a sweeper has left.
LEMMA SweepFacts ==
    ASSUME TrackInv, NEW s \in Sweepers, sweep[s].cands # <<>>
    PROVE  /\ Tail(sweep[s].cands) \in Seq(Nat) /\ IsInjective(Tail(sweep[s].cands))
           /\ ToSet(Tail(sweep[s].cands)) = ToSet(sweep[s].cands) \ {Head(sweep[s].cands)}
           /\ Head(sweep[s].cands) \in ToSet(sweep[s].cands)
           /\ NextCandidate(s) \in Tasks /\ NextCandidate(s).pc = "consider"
           /\ NextCandidate(s).cands = Tail(sweep[s].cands)
           /\ trackerPhase # "down" =>
                 /\ Lasting(Head(sweep[s].cands)) /\ Field(s) \in QFields
                 /\ table[Field(s)] = Head(sweep[s].cands)
                 /\ Head(sweep[s].cands) \in DOMAIN nodes /\ Head(sweep[s].cands) # 0
<1>1. sweep[s].cands \in Seq(Nat) /\ IsInjective(sweep[s].cands)
  BY DEF TrackInv, TrackTypes, CandsOK
<1>2. /\ Tail(sweep[s].cands) \in Seq(Nat) /\ IsInjective(Tail(sweep[s].cands))
      /\ ToSet(Tail(sweep[s].cands)) = ToSet(sweep[s].cands) \ {Head(sweep[s].cands)}
      /\ Head(sweep[s].cands) \in ToSet(sweep[s].cands)
  BY <1>1, TailFacts
<1>3. NextCandidate(s) \in Tasks /\ NextCandidate(s).pc = "consider" /\ NextCandidate(s).cands = Tail(sweep[s].cands)
  BY <1>2 DEF NextCandidate, Tasks
<1>4. ASSUME trackerPhase # "down"
      PROVE  /\ Lasting(Head(sweep[s].cands)) /\ Field(s) \in QFields
             /\ table[Field(s)] = Head(sweep[s].cands)
             /\ Head(sweep[s].cands) \in DOMAIN nodes /\ Head(sweep[s].cands) # 0
  <2>1. Lasting(Head(sweep[s].cands))
    BY <1>2, <1>4 DEF TrackInv, CandsOK
  <2>2. nodes \in Seq(Pattern)
    BY DEF TrackInv, TrackTypes
  <2>3. Head(sweep[s].cands) \in 1 .. Len(nodes) /\ Len(nodes) \in Nat
    BY <2>1, <2>2, LenProperties DEF Lasting
  <2>4. nodes[Head(sweep[s].cands)] \in Pattern
    BY <2>2, <2>3, ElementOfSeq
  <2>5. Head(sweep[s].cands) # 0
    BY <2>3
  <2> QED BY <2>1, <2>4, <2>5 DEF Lasting, Field, Pattern
<1> QED BY <1>2, <1>3, <1>4

\* A field that is indexed has its pattern in the table.
LEMMA CreatedFacts ==
    ASSUME TrackInv, IndexedOK, trackerPhase # "down", NEW f \in ToSet(created)
    PROVE  f \in QFields /\ Lasting(table[f]) /\ table[f] \in DOMAIN nodes /\ nodes[table[f]].field = f
<1>1. f \in QFields
  BY ElementOfSeq, LenProperties DEF ToSet, TrackInv, TrackTypes
<1>2. Lasting(table[f])
  BY DEF IndexedOK
<1>3. table[f] # 0
  BY <1>2, LenProperties DEF TrackInv, TrackTypes, Lasting
<1> QED BY <1>1, <1>2, <1>3 DEF TrackInv, TableOK, Lasting

\* A sweeper that has not made the index of its candidate goes on to the next one, to
\* making it, or to its rest.
LEMMA SweepKeepsTrack ==
    ASSUME TrackInv, NEW s \in Sweepers, NEW r \in Tasks, trackerPhase # "down",
           sweep' = [sweep EXCEPT ![s] = r],
           sweep[s].pc # "idle", ~ InHand(s), r.pc \notin {"info", "mark"}, IsInjective(r.cands),
           ToSet(r.cands) \subseteq ToSet(sweep[s].cands),
           r.pc = "idle" => r.cands = <<>>, r.pc = "create" => r.cands # <<>>,
           UNCHANGED <<nodes, table, infos, info, cleaner, trackerPhase, created, twoSweeps, dropped>>
    PROVE  TrackInv'
<1>1. sweep \in [Sweepers -> Tasks]
  BY DEF TrackInv, TrackTypes, Tasks
<1>2. sweep'[s] = r /\ \A o \in Sweepers : o # s => sweep'[o] = sweep[o]
  BY <1>1
<1>3. sweep' \in [Sweepers -> Tasks]
  BY <1>1
<1>4. TrackTypes' /\ TableOK'
  BY <1>3 DEF TrackInv, TrackTypes, TableOK, Tasks
<1>5. \A n : Lasting(n)' <=> Lasting(n)
  BY DEF Lasting
<1>6. CandsOK'
  <2> SUFFICES ASSUME NEW o \in Sweepers
               PROVE  /\ IsInjective(sweep'[o].cands)
                      /\ sweep'[o].pc = "idle" => sweep'[o].cands = <<>>
                      /\ sweep'[o].pc \in {"create", "info", "mark"} => sweep'[o].cands # <<>>
                      /\ \A n \in ToSet(sweep'[o].cands) : Lasting(n)
    BY <1>5 DEF CandsOK
  <2>1. CASE o = s
    BY <1>2, <2>1 DEF TrackInv, CandsOK
  <2>2. CASE o # s
    BY <1>2, <2>2 DEF TrackInv, CandsOK
  <2> QED BY <2>1, <2>2
<1>7. OnceOK'
  <2> SUFFICES ASSUME ~ twoSweeps PROVE IndexedOK'
    BY DEF TrackInv, OnceOK
  <2>1. IndexedOK
    BY DEF TrackInv, OnceOK
  <2>2. \A o, p \in Sweepers : sweep'[o].pc # "idle" /\ sweep'[p].pc # "idle" => o = p
    BY <1>2, <2>1 DEF IndexedOK
  <2>3. \A o \in Sweepers : InHand(o) => o # s /\ sweep'[o] = sweep[o] /\ InHand(o)'
    BY <1>2 DEF InHand
  <2>4. \A f \in ToSet(created) :
           Lasting(table[f])' /\ (nodes[table[f]].indexed \/ \E o \in Sweepers : InHand(o)' /\ Head(sweep'[o].cands) = table[f])
    BY <1>5, <2>1, <2>3 DEF IndexedOK
  <2>5. ASSUME NEW o \in Sweepers, NEW n \in ToSet(sweep'[o].cands)
        PROVE  (InHand(o)' /\ n = Head(sweep'[o].cands)) \/ nodes[n].field \notin ToSet(created)
    BY <1>2, <2>1, <2>5, <2>3 DEF IndexedOK
  <2> QED BY <2>2, <2>4, <2>5 DEF IndexedOK
<1>8. CountsOK'
  <2> SUFFICES ASSUME NEW f \in QFields
               PROVE  (Cardinality(InfoOf(f)) + Cardinality(MakingOf(f)) = Cardinality(CreatedOf(f)))'
    BY DEF CountsOK
  <2>1. InfoOf(f)' = InfoOf(f) /\ CreatedOf(f)' = CreatedOf(f)
    BY DEF InfoOf, CreatedOf
  <2>2. MakingOf(f)' = MakingOf(f)
    BY <1>2 DEF MakingOf, Field, InHand
  <2> QED BY <2>1, <2>2 DEF TrackInv, CountsOK
<1>9. InfosOK' /\ CleanerTypes' /\ CleanerOK' /\ FreedAfterThread'
  BY DEF TrackInv, InfosOK, CleanerTypes, CleanerOK, FreedAfterThread
<1> QED BY <1>4, <1>6, <1>7, <1>8, <1>9 DEF TrackInv

LEMMA ConsiderKeeps ==
    ASSUME TrackInv, NEW s \in Sweepers, Consider(s) PROVE TrackInv'
<1>1. /\ sweep[s].pc = "consider" /\ sweep[s].cands # <<>> /\ trackerPhase # "down"
      /\ UNCHANGED <<nodes, table, infos, info, cleaner, trackerPhase, created, twoSweeps, dropped>>
      /\ \/ sweep' = [sweep EXCEPT ![s] = [@ EXCEPT !.pc = "create"]]
         \/ sweep' = [sweep EXCEPT ![s] = NextCandidate(s)]
  BY DEF Consider
<1>2. sweep \in [Sweepers -> Tasks]
  BY DEF TrackInv, TrackTypes, Tasks
<1>3. ~ InHand(s) /\ IsInjective(sweep[s].cands)
  BY <1>1 DEF InHand, TrackInv, CandsOK
<1>4. CASE sweep' = [sweep EXCEPT ![s] = NextCandidate(s)]
  BY <1>1, <1>3, <1>4, SweepFacts, SweepKeepsTrack
<1>5. CASE sweep' = [sweep EXCEPT ![s] = [@ EXCEPT !.pc = "create"]]
  <2>0. sweep[s] \in Tasks
    BY <1>2
  <2>1. PICK r \in Tasks : r = [sweep[s] EXCEPT !.pc = "create"] /\ r.pc = "create" /\ r.cands = sweep[s].cands
    <3>1. [sweep[s] EXCEPT !.pc = "create"] \in Tasks
      BY <2>0 DEF Tasks
    <3>2. [sweep[s] EXCEPT !.pc = "create"].pc = "create" /\ [sweep[s] EXCEPT !.pc = "create"].cands = sweep[s].cands
      BY <2>0 DEF Tasks
    <3> QED BY <3>1, <3>2
  <2>2. sweep' = [sweep EXCEPT ![s] = r]
    BY <1>2, <1>5, <2>1
  <2> QED BY <1>1, <1>3, <2>1, <2>2, SweepKeepsTrack
<1> QED BY <1>1, <1>4, <1>5

LEMMA EndSweepKeeps ==
    ASSUME TrackInv, NEW s \in Sweepers, EndSweep(s) PROVE TrackInv'
<1>1. /\ sweep[s].pc = "consider" /\ trackerPhase # "down"
      /\ UNCHANGED <<nodes, table, infos, info, cleaner, trackerPhase, created, twoSweeps, dropped>>
      /\ sweep' = [sweep EXCEPT ![s] = AtRest]
  BY DEF EndSweep
<1>2. AtRest \in Tasks /\ AtRest.pc = "idle" /\ AtRest.cands = <<>> /\ IsInjective(<<>>) /\ ToSet(<<>>) = {}
  BY DEF AtRest, Tasks, IsInjective, ToSet
<1>3. ~ InHand(s)
  BY <1>1 DEF InHand
<1> QED BY <1>1, <1>2, <1>3, SweepKeepsTrack

LEMMA CandidatesFound ==
    ASSUME TrackInv, NEW s \in Sweepers, process_index_candidates(s) PROVE TrackInv'
<1> DEFINE C == query_tracker_get_index_candidates
<1>1. /\ sweep[s].pc = "idle" /\ trackerPhase = "up"
      /\ sweep' = [sweep EXCEPT ![s] = [pc |-> "consider", cands |-> SetToSeq(C)]]
      /\ twoSweeps' = (twoSweeps \/ \E o \in Sweepers : sweep[o].pc # "idle")
      /\ UNCHANGED <<nodes, table, infos, info, cleaner, trackerPhase, created, dropped>>
  BY DEF process_index_candidates
<1>2. \A n \in C : ~ nodes[n].indexed /\ Lasting(n) /\ table[nodes[n].field] = n /\ n \in Nat
  BY DEF query_tracker_get_index_candidates, OftenAndSlow, Lasting, TrackInv, TableOK, TrackTypes
<1>3. IsFiniteSet(C)
  <2>1. IsFiniteSet({table[f] : f \in QFields})
    <3> DEFINE F == {table[f] : f \in QFields}
    <3>1. table \in [QFields -> F] /\ \A e \in F : \E f \in QFields : table[f] = e
      BY DEF TrackInv, TrackTypes
    <3>2. table \in Surjection(QFields, F)
      BY <3>1 DEF Surjection
    <3> QED BY <3>2, FS_Surjection, TrackingAssumption
  <2>2. C \subseteq {table[f] : f \in QFields}
    BY DEF query_tracker_get_index_candidates
  <2> QED BY <2>1, <2>2, FS_Subset
<1> HIDE DEF C
<1>4. PICK q \in Seq(C) : q = SetToSeq(C) /\ IsInjective(q) /\ ToSet(q) = C
  BY <1>3, OrderFacts
<1>5. q \in Seq(Nat)
  BY <1>4, LenProperties, <1>2
<1>6. PICK r \in Tasks : r.pc = "consider" /\ r.cands = q /\ sweep' = [sweep EXCEPT ![s] = r]
  BY <1>5, <1>1, <1>4 DEF Tasks
<1>7. sweep \in [Sweepers -> Tasks]
  BY DEF TrackInv, TrackTypes, Tasks
<1>8. sweep'[s] = r /\ \A o \in Sweepers : o # s => sweep'[o] = sweep[o]
  BY <1>6, <1>7
<1>9. sweep' \in [Sweepers -> Tasks]
  BY <1>6, <1>7
<1>10. TrackTypes' /\ TableOK'
  BY <1>1, <1>9 DEF TrackInv, TrackTypes, TableOK, Tasks
<1>11. \A n : Lasting(n)' <=> Lasting(n)
  BY <1>1 DEF Lasting
<1>12. CandsOK'
  <2> SUFFICES ASSUME NEW o \in Sweepers
               PROVE  /\ IsInjective(sweep'[o].cands)
                      /\ sweep'[o].pc = "idle" => sweep'[o].cands = <<>>
                      /\ sweep'[o].pc \in {"create", "info", "mark"} => sweep'[o].cands # <<>>
                      /\ \A n \in ToSet(sweep'[o].cands) : Lasting(n)
    BY <1>11 DEF CandsOK
  <2>1. CASE o = s
    BY <1>2, <1>4, <1>6, <1>8, <2>1
  <2>2. CASE o # s
    BY <1>1, <1>8, <2>2 DEF TrackInv, CandsOK
  <2> QED BY <2>1, <2>2
<1>13. OnceOK'
  <2> SUFFICES ASSUME ~ twoSweeps' PROVE IsInjective(created)' /\ IndexedOK'
    BY DEF OnceOK
  <2>1. ~ twoSweeps /\ \A o \in Sweepers : sweep[o].pc = "idle"
    BY <1>1
  <2>2. IsInjective(created) /\ IndexedOK
    BY <2>1 DEF TrackInv, OnceOK
  <2>3. \A o, p \in Sweepers : sweep'[o].pc # "idle" /\ sweep'[p].pc # "idle" => o = p
    BY <1>8, <2>1
  <2>4. \A f \in ToSet(created) : Lasting(table[f]) /\ nodes[table[f]].indexed
    BY <1>1, <2>1, <2>2 DEF IndexedOK, InHand
  <2>5. ASSUME NEW o \in Sweepers, NEW n \in ToSet(sweep'[o].cands)
        PROVE  nodes[n].field \notin ToSet(created)
    <3>1. o = s
      BY <1>8, <2>1, <2>5 DEF TrackInv, CandsOK, ToSet
    <3>2. n \in C
      BY <1>4, <1>6, <1>8, <2>5, <3>1
    <3> QED BY <1>2, <2>4, <3>2
  <2> QED BY <1>1, <1>11, <2>2, <2>3, <2>4, <2>5 DEF IndexedOK
<1>14. CountsOK'
  <2> SUFFICES ASSUME NEW f \in QFields
               PROVE  (Cardinality(InfoOf(f)) + Cardinality(MakingOf(f)) = Cardinality(CreatedOf(f)))'
    BY DEF CountsOK
  <2>1. InfoOf(f)' = InfoOf(f) /\ CreatedOf(f)' = CreatedOf(f)
    BY <1>1 DEF InfoOf, CreatedOf
  <2>2. MakingOf(f)' = MakingOf(f)
    BY <1>1, <1>6, <1>8 DEF MakingOf, Field
  <2> QED BY <1>1, <2>1, <2>2 DEF TrackInv, CountsOK
<1>15. InfosOK' /\ CleanerTypes' /\ CleanerOK' /\ FreedAfterThread'
  BY <1>1 DEF TrackInv, InfosOK, CleanerTypes, CleanerOK, FreedAfterThread
<1> QED BY <1>10, <1>12, <1>13, <1>14, <1>15 DEF TrackInv

\* The places of what has a field are finitely many.
LEMMA PlacesFinite ==
    ASSUME TrackInv, NEW f
    PROVE  /\ IsFiniteSet(InfoOf(f)) /\ Cardinality(InfoOf(f)) \in Nat
           /\ IsFiniteSet(MakingOf(f)) /\ Cardinality(MakingOf(f)) \in Nat
           /\ IsFiniteSet(CreatedOf(f)) /\ Cardinality(CreatedOf(f)) \in Nat
<1>1. DOMAIN info = 1 .. Len(info) /\ Len(info) \in Nat /\ DOMAIN created = 1 .. Len(created) /\ Len(created) \in Nat
  BY LenProperties DEF TrackInv, TrackTypes
<1>2. IsFiniteSet(DOMAIN info) /\ IsFiniteSet(DOMAIN created)
  BY <1>1, FS_Interval
<1>3. IsFiniteSet(Sweepers)
  <2>1. IsFiniteSet({"thread"})
    BY FS_Singleton
  <2>2. IsFiniteSet({"thread"} \cup {"caller"})
    BY <2>1, FS_AddElement
  <2>3. Sweepers = {"thread"} \cup {"caller"}
    BY DEF Sweepers
  <2> QED BY <2>2, <2>3
<1>4. InfoOf(f) \subseteq DOMAIN info /\ MakingOf(f) \subseteq Sweepers /\ CreatedOf(f) \subseteq DOMAIN created
  BY DEF InfoOf, MakingOf, CreatedOf
<1> QED BY <1>2, <1>3, <1>4, FS_Subset, FS_CardinalityType

LEMMA IndexMade ==
    ASSUME TrackInv, NEW s \in Sweepers, create_adaptive_index(s) PROVE TrackInv'
<1>1. /\ sweep[s].pc = "create" /\ trackerPhase # "down"
      /\ UNCHANGED <<nodes, table, infos, info, cleaner, trackerPhase, twoSweeps, dropped>>
  BY DEF create_adaptive_index
<1>2. sweep[s].cands # <<>> /\ IsInjective(sweep[s].cands) /\ ~ InHand(s) /\ sweep \in [Sweepers -> Tasks]
  BY <1>1 DEF TrackInv, CandsOK, InHand, TrackTypes, Tasks
<1>3. CASE sweep' = [sweep EXCEPT ![s] = NextCandidate(s)] /\ UNCHANGED created
  BY <1>1, <1>2, <1>3, SweepFacts, SweepKeepsTrack
<1>4. CASE db_create_index(Field(s)) /\ sweep' = [sweep EXCEPT ![s].pc = "info"]
  <2>1. created' = Append(created, Field(s)) /\ Field(s) \in QFields /\ created \in Seq(QFields)
    BY <1>1, <1>2, <1>4, SweepFacts DEF db_create_index, TrackInv, TrackTypes
  <2> DEFINE h == Head(sweep[s].cands)
  <2>2. /\ Lasting(h) /\ table[Field(s)] = h /\ h \in ToSet(sweep[s].cands) /\ nodes[h].field = Field(s)
    BY <1>1, <1>2, SweepFacts DEF Field
  <2>3. PICK L \in Nat : L = Len(created) /\ DOMAIN created = 1 .. L
    BY <2>1, LenProperties
  <2>4. /\ created' \in Seq(QFields) /\ DOMAIN created' = DOMAIN created \cup {L + 1} /\ L + 1 \notin DOMAIN created
        /\ created'[L + 1] = Field(s) /\ \A i \in DOMAIN created : created'[i] = created[i]
        /\ ToSet(created') = ToSet(created) \cup {Field(s)}
        /\ IsInjective(created) /\ Field(s) \notin ToSet(created) => IsInjective(created')
    BY <2>1, <2>3, AppendFacts
  <2>5. sweep'[s].pc = "info" /\ sweep'[s].cands = sweep[s].cands /\ sweep'[s] \in Tasks
        /\ \A o \in Sweepers : o # s => sweep'[o] = sweep[o]
    BY <1>2, <1>4 DEF Tasks
  <2>6. sweep' \in [Sweepers -> Tasks]
    <3>1. sweep' = [o \in Sweepers |-> sweep'[o]]
      BY <1>2, <1>4
    <3>2. \A o \in Sweepers : sweep'[o] \in Tasks
      BY <1>2, <2>5
    <3> DEFINE w == sweep'
    <3> HIDE DEF w
    <3>3. w = [o \in Sweepers |-> w[o]] /\ \A o \in Sweepers : w[o] \in Tasks
      BY <3>1, <3>2 DEF w
    <3>4. w \in [Sweepers -> Tasks]
      BY <3>3
    <3> QED BY <3>4 DEF w
  <2>7. TrackTypes' /\ TableOK'
    BY <1>1, <2>4, <2>6 DEF TrackInv, TrackTypes, TableOK, Tasks
  <2>8. \A n : Lasting(n)' <=> Lasting(n)
    BY <1>1 DEF Lasting
  <2>9. CandsOK'
    <3> SUFFICES ASSUME NEW o \in Sweepers
                 PROVE  /\ IsInjective(sweep'[o].cands)
                        /\ sweep'[o].pc = "idle" => sweep'[o].cands = <<>>
                        /\ sweep'[o].pc \in {"create", "info", "mark"} => sweep'[o].cands # <<>>
                        /\ \A n \in ToSet(sweep'[o].cands) : Lasting(n)
      BY <2>8 DEF CandsOK
    <3>1. CASE o = s
      BY <1>1, <1>2, <2>5, <3>1 DEF TrackInv, CandsOK
    <3>2. CASE o # s
      BY <1>1, <2>5, <3>2 DEF TrackInv, CandsOK
    <3> QED BY <3>1, <3>2
  <2>10. OnceOK'
    <3> SUFFICES ASSUME ~ twoSweeps PROVE IsInjective(created') /\ IndexedOK'
      BY <1>1 DEF OnceOK
    <3>1. IsInjective(created) /\ IndexedOK
      BY DEF TrackInv, OnceOK
    <3>2. Field(s) \notin ToSet(created)
      BY <1>1, <1>2, <2>2, <3>1 DEF IndexedOK
    <3>3. \A o \in Sweepers : o # s => sweep[o].pc = "idle" /\ sweep[o].cands = <<>>
      BY <1>1, <3>1 DEF IndexedOK, TrackInv, CandsOK
    <3>4. \A o, p \in Sweepers : sweep'[o].pc # "idle" /\ sweep'[p].pc # "idle" => o = p
      BY <2>5, <3>3
    <3>5. InHand(s)' /\ Head(sweep'[s].cands) = h
      BY <2>5 DEF InHand
    <3>6. ASSUME NEW f \in ToSet(created')
          PROVE  Lasting(table[f]) /\ (nodes[table[f]].indexed \/ \E o \in Sweepers : InHand(o)' /\ Head(sweep'[o].cands) = table[f])
      BY <2>2, <3>5, <1>2, <3>3, <1>1, <3>1, <2>4, <3>6 DEF InHand, IndexedOK
    <3>7. ASSUME NEW o \in Sweepers, NEW n \in ToSet(sweep'[o].cands)
          PROVE  (InHand(o)' /\ n = Head(sweep'[o].cands)) \/ nodes[n].field \notin ToSet(created')
      BY <2>5, <3>3, <3>7, <1>1, <1>2, <3>1, <3>5, <2>2, <2>4 DEF ToSet, IndexedOK, TrackInv, CandsOK, Lasting
    <3> QED BY <1>1, <2>4, <2>8, <3>1, <3>2, <3>4, <3>6, <3>7 DEF IndexedOK
  <2>11. CountsOK'
    <3> SUFFICES ASSUME NEW f \in QFields
                 PROVE  (Cardinality(InfoOf(f)) + Cardinality(MakingOf(f)) = Cardinality(CreatedOf(f)))'
      BY DEF CountsOK
    <3>1. InfoOf(f)' = InfoOf(f)
      BY <1>1 DEF InfoOf
    <3>2. Cardinality(InfoOf(f)) + Cardinality(MakingOf(f)) = Cardinality(CreatedOf(f))
      BY <1>1 DEF TrackInv, CountsOK
    <3>3. \A o \in Sweepers : Field(o)' = Field(o)
      BY <1>1, <2>5 DEF Field
    <3>4. CASE f # Field(s)
      BY <1>1, <2>5, <3>3, <3>4, <2>4, <3>1, <3>2 DEF MakingOf, CreatedOf
    <3>5. CASE f = Field(s)
      <4>1. MakingOf(f)' = MakingOf(f) \cup {s} /\ s \notin MakingOf(f)
        BY <1>1, <2>5, <3>3, <3>5 DEF MakingOf
      <4>2. CreatedOf(f)' = CreatedOf(f) \cup {L + 1} /\ L + 1 \notin CreatedOf(f)
        BY <2>4, <3>5 DEF CreatedOf
      <4>3. Cardinality(MakingOf(f)') = Cardinality(MakingOf(f)) + 1 /\ Cardinality(CreatedOf(f)') = Cardinality(CreatedOf(f)) + 1
        BY <4>1, <4>2, PlacesFinite, FS_AddElement
      <4> QED BY <3>1, <3>2, <4>3, PlacesFinite
    <3> QED BY <3>4, <3>5
  <2>12. InfosOK' /\ CleanerTypes' /\ CleanerOK' /\ FreedAfterThread'
    BY <1>1 DEF TrackInv, InfosOK, CleanerTypes, CleanerOK, FreedAfterThread
  <2> QED BY <2>7, <2>9, <2>10, <2>11, <2>12 DEF TrackInv
<1> QED BY <1>3, <1>4 DEF create_adaptive_index

\* Places behind one that was put in front.
LEMMA PushPlaces ==
    ASSUME NEW l \in Seq(Nat), NEW a \in Nat
    PROVE  \A k \in DOMAIN l : /\ k + 1 \in DOMAIN (<<a>> \o l) /\ (<<a>> \o l)[k + 1] = l[k]
                               /\ (k + 1 = Len(<<a>> \o l)) <=> (k = Len(l))
<1>1. PICK L \in Nat : L = Len(l) /\ DOMAIN l = 1 .. L
  BY LenProperties
<1>2. <<a>> \in Seq(Nat) /\ Len(<<a>>) = 1
  OBVIOUS
<1> DEFINE q == <<a>> \o l
<1>3. q \in Seq(Nat) /\ Len(q) = 1 + L /\ \A i \in 1 .. 1 + L : q[i] = IF i <= 1 THEN <<a>>[i] ELSE l[i - 1]
  BY <1>1, <1>2, ConcatProperties
<1> HIDE DEF q
<1>4. DOMAIN q = 1 .. 1 + L
  BY <1>3, LenProperties
<1>5. ASSUME NEW k \in 1 .. L PROVE k + 1 \in 1 .. 1 + L /\ q[k + 1] = l[k] /\ (k + 1 = 1 + L) <=> (k = L)
  BY <1>3
<1>6. ASSUME NEW k \in DOMAIN l PROVE k + 1 \in DOMAIN q /\ q[k + 1] = l[k] /\ ((k + 1 = Len(q)) <=> (k = Len(l)))
  BY <1>1, <1>3, <1>4, <1>5, SMTT(30)
<1> QED BY <1>6 DEF q

LEMMA AddInfoKeeps ==
    ASSUME TrackInv, NEW s \in Sweepers, AddInfo(s) PROVE TrackInv'
<1>1. /\ sweep[s].pc = "info" /\ trackerPhase # "down"
      /\ UNCHANGED <<nodes, table, cleaner, trackerPhase, created, twoSweeps, dropped>>
      /\ sweep' = [sweep EXCEPT ![s].pc = "mark"]
  BY DEF AddInfo
<1>2. sweep[s].cands # <<>> /\ sweep \in [Sweepers -> Tasks] /\ info \in Seq([field : QFields, freed : BOOLEAN])
      /\ infos \in Seq(Nat) /\ IsInjective(infos)
  BY <1>1 DEF TrackInv, CandsOK, TrackTypes, Tasks
<1>3. PICK I \in Nat : I = Len(info) /\ DOMAIN info = 1 .. I
  BY <1>2, LenProperties
<1>4. PICK x \in [field : QFields, freed : BOOLEAN] : x = [field |-> Field(s), freed |-> FALSE]
  BY <1>1, <1>2, SweepFacts
<1>5. info' = Append(info, x) /\ infos' = <<I + 1>> \o infos
  BY <1>3, <1>4 DEF AddInfo
<1>6. /\ info' \in Seq([field : QFields, freed : BOOLEAN]) /\ DOMAIN info' = DOMAIN info \cup {I + 1} /\ I + 1 \notin DOMAIN info
      /\ info'[I + 1] = x /\ \A i \in DOMAIN info : info'[i] = info[i]
  BY <1>2, <1>3, <1>4, <1>5, AppendFacts
<1>7. I + 1 \in Nat /\ I + 1 \notin ToSet(infos)
  BY <1>6 DEF TrackInv, InfosOK
<1>8. infos' \in Seq(Nat) /\ IsInjective(infos') /\ ToSet(infos') = ToSet(infos) \cup {I + 1}
  BY <1>2, <1>5, <1>7, PushFacts
<1>9. sweep'[s].pc = "mark" /\ sweep'[s].cands = sweep[s].cands /\ sweep'[s] \in Tasks
      /\ \A o \in Sweepers : o # s => sweep'[o] = sweep[o]
  BY <1>2, <1>1 DEF Tasks
<1>10. sweep' \in [Sweepers -> Tasks]
  <2>1. sweep' = [o \in Sweepers |-> sweep'[o]]
    BY <1>1, <1>2
  <2>2. \A o \in Sweepers : sweep'[o] \in Tasks
    BY <1>2, <1>9
  <2> DEFINE w == sweep'
  <2> HIDE DEF w
  <2>3. w = [o \in Sweepers |-> w[o]] /\ \A o \in Sweepers : w[o] \in Tasks
    BY <2>1, <2>2 DEF w
  <2>4. w \in [Sweepers -> Tasks]
    BY <2>3
  <2> QED BY <2>4 DEF w
<1>11. TrackTypes' /\ TableOK'
  BY <1>1, <1>6, <1>8, <1>10 DEF TrackInv, TrackTypes, TableOK, Tasks
<1>12. \A n : Lasting(n)' <=> Lasting(n)
  BY <1>1 DEF Lasting
<1>13. \A o \in Sweepers : (InHand(o)' <=> InHand(o)) /\ sweep'[o].cands = sweep[o].cands
                            /\ (sweep'[o].pc = "idle" <=> sweep[o].pc = "idle")
  BY <1>1, <1>9 DEF InHand
<1>14. CandsOK'
  <2> SUFFICES ASSUME NEW o \in Sweepers
               PROVE  /\ IsInjective(sweep'[o].cands)
                      /\ sweep'[o].pc = "idle" => sweep'[o].cands = <<>>
                      /\ sweep'[o].pc \in {"create", "info", "mark"} => sweep'[o].cands # <<>>
                      /\ \A n \in ToSet(sweep'[o].cands) : Lasting(n)
    BY <1>12 DEF CandsOK
  <2>1. CASE o = s
    BY <1>1, <1>2, <1>9, <2>1 DEF TrackInv, CandsOK
  <2>2. CASE o # s
    BY <1>1, <1>9, <2>2 DEF TrackInv, CandsOK
  <2> QED BY <2>1, <2>2
<1>15. OnceOK'
  <2> SUFFICES ASSUME ~ twoSweeps PROVE IsInjective(created) /\ IndexedOK'
    BY <1>1 DEF OnceOK
  <2>1. IsInjective(created) /\ IndexedOK
    BY DEF TrackInv, OnceOK
  <2> QED BY <1>1, <1>12, <1>13, <2>1 DEF IndexedOK
<1>16. InfosOK'
  BY <1>4, <1>6, <1>8, <1>1 DEF TrackInv, InfosOK
<1>17. CountsOK'
  <2> SUFFICES ASSUME NEW f \in QFields
               PROVE  (Cardinality(InfoOf(f)) + Cardinality(MakingOf(f)) = Cardinality(CreatedOf(f)))'
    BY DEF CountsOK
  <2>1. CreatedOf(f)' = CreatedOf(f)
    BY <1>1 DEF CreatedOf
  <2>2. Cardinality(InfoOf(f)) + Cardinality(MakingOf(f)) = Cardinality(CreatedOf(f))
    BY <1>1 DEF TrackInv, CountsOK
  <2>3. \A o \in Sweepers : Field(o)' = Field(o)
    BY <1>1, <1>13 DEF Field
  <2>4. CASE f # Field(s)
    <3>1. MakingOf(f)' = MakingOf(f)
      BY <1>1, <1>9, <2>3, <2>4 DEF MakingOf
    <3>2. InfoOf(f)' = InfoOf(f)
      BY <1>4, <1>6, <2>4 DEF InfoOf
    <3> QED BY <2>1, <2>2, <3>1, <3>2
  <2>5. CASE f = Field(s)
    <3>1. MakingOf(f)' = MakingOf(f) \ {s} /\ s \in MakingOf(f)
      BY <1>1, <1>9, <2>3, <2>5 DEF MakingOf
    <3>2. InfoOf(f)' = InfoOf(f) \cup {I + 1} /\ I + 1 \notin InfoOf(f)
      BY <1>4, <1>6, <2>5 DEF InfoOf
    <3>3. Cardinality(InfoOf(f)') = Cardinality(InfoOf(f)) + 1
      BY <3>2, PlacesFinite, FS_AddElement
    <3>4. Cardinality(MakingOf(f)') = Cardinality(MakingOf(f)) - 1
      BY <3>1, PlacesFinite, FS_RemoveElement
    <3> QED BY <2>1, <2>2, <3>3, <3>4, PlacesFinite
  <2> QED BY <2>4, <2>5
<1>18. CleanerOK'
  <2> SUFFICES ASSUME ~ dropped
               PROVE  /\ cleaner.pc = "next" /\ cleaner.at # 0 => cleaner.at \in ToSet(infos')
                      /\ cleaner.pc = "remove" =>
                            \E k \in DOMAIN infos' : cleaner.at = infos'[k] /\ cleaner.next = (IF k = Len(infos') THEN 0 ELSE infos'[k + 1])
    BY <1>1 DEF CleanerOK
  <2>1. CleanerOK
    BY DEF TrackInv
  <2>2. ASSUME cleaner.pc = "next", cleaner.at # 0 PROVE cleaner.at \in ToSet(infos')
    BY <1>1, <1>8, <2>1, <2>2 DEF CleanerOK
  <2>3. ASSUME cleaner.pc = "remove"
        PROVE  \E k \in DOMAIN infos' : cleaner.at = infos'[k] /\ cleaner.next = (IF k = Len(infos') THEN 0 ELSE infos'[k + 1])
    <3>1. PICK k \in DOMAIN infos : cleaner.at = infos[k] /\ cleaner.next = (IF k = Len(infos) THEN 0 ELSE infos[k + 1])
      BY <1>1, <2>1, <2>3 DEF CleanerOK
    <3>2. \A j \in DOMAIN infos : j + 1 \in DOMAIN infos' /\ infos'[j + 1] = infos[j] /\ ((j + 1 = Len(infos')) <=> (j = Len(infos)))
      BY <1>2, <1>5, <1>7, PushPlaces
    <3>3. CASE k = Len(infos)
      BY <3>1, <3>2, <3>3
    <3>4. CASE k # Len(infos)
      <4>1. k + 1 \in DOMAIN infos
        <5>1. PICK L \in Nat : L = Len(infos) /\ DOMAIN infos = 1 .. L
          BY <1>2, LenProperties
        <5> QED BY <3>4, <5>1
      <4>2. k + 1 \in DOMAIN infos' /\ infos'[k + 1] = infos[k] /\ k + 1 # Len(infos') /\ infos'[(k + 1) + 1] = infos[k + 1]
        BY <3>2, <3>4, <4>1
      <4> QED BY <3>1, <3>4, <4>2
    <3> QED BY <3>3, <3>4
  <2> QED BY <2>2, <2>3
<1>19. CleanerTypes' /\ FreedAfterThread'
  BY <1>1 DEF TrackInv, CleanerTypes, FreedAfterThread
<1> QED BY <1>11, <1>14, <1>15, <1>16, <1>17, <1>18, <1>19 DEF TrackInv

LEMMA MarkKeeps ==
    ASSUME TrackInv, NEW s \in Sweepers, query_tracker_mark_indexed(s) PROVE TrackInv'
<1>1. /\ sweep[s].pc = "mark" /\ trackerPhase # "down"
      /\ UNCHANGED <<table, infos, info, cleaner, trackerPhase, created, twoSweeps, dropped>>
      /\ sweep' = [sweep EXCEPT ![s] = NextCandidate(s)]
  BY DEF query_tracker_mark_indexed
<1>2. sweep[s].cands # <<>> /\ IsInjective(sweep[s].cands) /\ sweep \in [Sweepers -> Tasks] /\ nodes \in Seq(Pattern)
  BY <1>1 DEF TrackInv, CandsOK, TrackTypes, Tasks
<1> DEFINE h == Head(sweep[s].cands)
<1>3. /\ Lasting(h) /\ table[Field(s)] = h /\ h \in DOMAIN nodes /\ h # 0
      /\ NextCandidate(s) \in Tasks /\ NextCandidate(s).pc = "consider"
      /\ IsInjective(NextCandidate(s).cands) /\ ToSet(NextCandidate(s).cands) = ToSet(sweep[s].cands) \ {h}
  BY <1>1, <1>2, SweepFacts
<1>4. nodes' = [nodes EXCEPT ![h].indexed = TRUE]
  BY <1>3 DEF query_tracker_mark_indexed
<1> HIDE DEF h
<1>5. PICK L \in Nat : L = Len(nodes) /\ DOMAIN nodes = 1 .. L
  BY <1>2, LenProperties
<1>6. ASSUME NEW n \in DOMAIN nodes
      PROVE  /\ nodes'[n] \in Pattern /\ nodes'[n].field = nodes[n].field /\ nodes'[n].count = nodes[n].count
             /\ nodes'[n].freed = nodes[n].freed
             /\ nodes'[n].indexed = (nodes[n].indexed \/ n = h)
  <2>1. nodes[n] \in Pattern
    BY <1>2, <1>5, ElementOfSeq
  <2>2. CASE n = h
    BY <1>4, <2>1, <2>2 DEF Pattern
  <2>3. CASE n # h
    BY <1>4, <2>3, <2>1 DEF Pattern
  <2> QED BY <2>2, <2>3
<1>7. nodes' \in Seq(Pattern) /\ DOMAIN nodes' = DOMAIN nodes
  <2> DEFINE q == nodes'
  <2>1. DOMAIN q = 1 .. L /\ q = [n \in 1 .. L |-> q[n]]
    BY <1>4, <1>5
  <2>2. \A n \in 1 .. L : q[n] \in Pattern
    BY <1>5, <1>6
  <2> HIDE DEF q
  <2>3. q \in [1 .. L -> Pattern]
    BY <2>1, <2>2
  <2>4. q \in Seq(Pattern)
    BY <2>3
  <2> QED BY <1>5, <2>1, <2>4 DEF q
<1>8. sweep'[s] = NextCandidate(s) /\ (\A o \in Sweepers : o # s => sweep'[o] = sweep[o]) /\ sweep' \in [Sweepers -> Tasks]
  BY <1>1, <1>2, <1>3
<1>9. TrackTypes'
  BY <1>1, <1>7, <1>8 DEF TrackInv, TrackTypes, Tasks
<1>10. TableOK'
  BY <1>1, <1>6, <1>7 DEF TrackInv, TableOK
<1>11. \A n : Lasting(n)' <=> Lasting(n)
  BY <1>1, <1>6, <1>7 DEF Lasting
<1>12. CandsOK'
  <2> SUFFICES ASSUME NEW o \in Sweepers
               PROVE  /\ IsInjective(sweep'[o].cands)
                      /\ sweep'[o].pc = "idle" => sweep'[o].cands = <<>>
                      /\ sweep'[o].pc \in {"create", "info", "mark"} => sweep'[o].cands # <<>>
                      /\ \A n \in ToSet(sweep'[o].cands) : Lasting(n)
    BY <1>11 DEF CandsOK
  <2>1. CASE o = s
    BY <1>1, <1>3, <1>8, <2>1 DEF TrackInv, CandsOK
  <2>2. CASE o # s
    BY <1>1, <1>8, <2>2 DEF TrackInv, CandsOK
  <2> QED BY <2>1, <2>2
<1>13. ASSUME NEW o \in Sweepers, NEW n \in ToSet(sweep[o].cands) PROVE n \in DOMAIN nodes
  BY <1>1 DEF TrackInv, CandsOK, Lasting
<1>14. OnceOK'
  <2> SUFFICES ASSUME ~ twoSweeps PROVE IsInjective(created) /\ IndexedOK'
    BY <1>1 DEF OnceOK
  <2>1. IsInjective(created) /\ IndexedOK
    BY DEF TrackInv, OnceOK
  <2>2. \A o \in Sweepers : o # s => sweep[o].pc = "idle" /\ sweep[o].cands = <<>>
    BY <1>1, <2>1 DEF IndexedOK, TrackInv, CandsOK
  <2>3. \A o, p \in Sweepers : sweep'[o].pc # "idle" /\ sweep'[p].pc # "idle" => o = p
    BY <1>8, <2>2
  <2>4. ASSUME NEW f \in ToSet(created) PROVE Lasting(table[f]) /\ nodes'[table[f]].indexed
    <3>1. /\ Lasting(table[f])
          /\ nodes[table[f]].indexed \/ \E o \in Sweepers : InHand(o) /\ Head(sweep[o].cands) = table[f]
      BY <1>1, <2>1 DEF IndexedOK
    <3>2. nodes[table[f]].indexed \/ table[f] = h
      BY <2>2, <3>1 DEF InHand, h
    <3>3. table[f] \in DOMAIN nodes
      BY <3>1 DEF Lasting
    <3> QED BY <1>6, <3>1, <3>2, <3>3
  <2>5. ASSUME NEW o \in Sweepers, NEW n \in ToSet(sweep'[o].cands) PROVE nodes'[n].field \notin ToSet(created)
    <3>1. o = s
      BY <1>8, <2>2, <2>5 DEF ToSet
    <3>2. n \in ToSet(sweep[s].cands) /\ n # h
      BY <1>3, <1>8, <2>5, <3>1
    <3>3. nodes[n].field \notin ToSet(created)
      BY <1>1, <2>1, <3>2 DEF IndexedOK, h
    <3> QED BY <1>6, <1>13, <3>2, <3>3
  <2> QED BY <1>1, <1>11, <2>1, <2>3, <2>4, <2>5 DEF IndexedOK
<1>15. CountsOK'
  <2> SUFFICES ASSUME NEW f \in QFields
               PROVE  (Cardinality(InfoOf(f)) + Cardinality(MakingOf(f)) = Cardinality(CreatedOf(f)))'
    BY DEF CountsOK
  <2>1. InfoOf(f)' = InfoOf(f) /\ CreatedOf(f)' = CreatedOf(f)
    BY <1>1 DEF InfoOf, CreatedOf
  <2>2. ASSUME NEW o \in Sweepers, o # s, sweep[o].pc = "info" PROVE Field(o)' = Field(o)
    BY <1>8, <2>2, <1>1, SweepFacts, <1>6 DEF TrackInv, CandsOK, Field
  <2>3. MakingOf(f)' = MakingOf(f)
    BY <1>1, <1>3, <1>8, <2>2 DEF MakingOf
  <2> QED BY <1>1, <2>1, <2>3 DEF TrackInv, CountsOK
<1>16. InfosOK' /\ CleanerTypes' /\ CleanerOK' /\ FreedAfterThread'
  BY <1>1 DEF TrackInv, InfosOK, CleanerTypes, CleanerOK, FreedAfterThread
<1> QED BY <1>9, <1>10, <1>12, <1>14, <1>15, <1>16 DEF TrackInv

\* A function on the first n numbers is a sequence.
LEMMA FunctionIsSeq ==
    ASSUME NEW S, NEW n \in Nat, NEW q \in [1 .. n -> S] PROVE q \in Seq(S)
OBVIOUS

\* Taking an entry off the list leaves the patterns and the sweeps alone, and the entries
\* keep their fields.
LEMMA RemoveIndexKeeps ==
    ASSUME TrackInv, NEW f, index_cleanup_remove_index(f),
           UNCHANGED <<nodes, table, sweep, trackerPhase, created, twoSweeps>>
    PROVE  /\ TrackTypes' /\ TableOK' /\ CandsOK' /\ OnceOK' /\ InfosOK' /\ CountsOK' /\ FreedAfterThread'
           /\ \/ FirstOf(f) = {} /\ infos' = infos /\ info' = info
              \/ \E k \in FirstOf(f) : ToSet(infos') = ToSet(infos) \ {infos[k]}
<1>1. /\ info \in Seq([field : QFields, freed : BOOLEAN]) /\ infos \in Seq(Nat) /\ IsInjective(infos)
  BY DEF TrackInv, TrackTypes
<1>2. \A n : Lasting(n)' <=> Lasting(n)
  BY DEF Lasting
<1>3. TableOK' /\ CandsOK' /\ FreedAfterThread'
  BY <1>2 DEF TrackInv, TableOK, CandsOK, FreedAfterThread
<1>4. IndexedOK' <=> IndexedOK
  BY <1>2 DEF IndexedOK, InHand
<1>5. OnceOK'
  BY <1>4 DEF TrackInv, OnceOK
<1>6. CASE FirstOf(f) = {} /\ infos' = infos /\ info' = info
  BY <1>6, <1>3, <1>5 DEF TrackInv, TrackTypes, InfosOK, CountsOK, InfoOf, MakingOf, CreatedOf, Field
<1>7. ASSUME NEW k \in FirstOf(f), infos' = RemoveAt(infos, k), info' = [info EXCEPT ![infos[k]].freed = TRUE]
      PROVE  TrackTypes' /\ InfosOK' /\ CountsOK' /\ ToSet(infos') = ToSet(infos) \ {infos[k]}
  <2>1. k \in DOMAIN infos
    BY DEF FirstOf
  <2>2. infos' \in Seq(Nat) /\ IsInjective(infos') /\ ToSet(infos') = ToSet(infos) \ {infos[k]}
    BY <1>1, <1>7, <2>1, RemoveAtFacts
  <2>3. infos[k] \in ToSet(infos)
    BY <2>1 DEF ToSet
  <2>4. PICK g \in DOMAIN info : g = infos[k]
    BY <2>3 DEF TrackInv, InfosOK
  <2>5. PICK I \in Nat : I = Len(info) /\ DOMAIN info = 1 .. I
    BY <1>1, LenProperties
  <2>6. ASSUME NEW i \in DOMAIN info
        PROVE  /\ info'[i] \in [field : QFields, freed : BOOLEAN] /\ info'[i].field = info[i].field
               /\ info'[i].freed = (info[i].freed \/ i = g)
    <3>1. info[i] \in [field : QFields, freed : BOOLEAN]
      BY <1>1, <2>5, ElementOfSeq
    <3>2. CASE i = g
      BY <1>7, <2>4, <3>1, <3>2
    <3>3. CASE i # g
      BY <1>7, <2>4, <3>3, <3>1
    <3> QED BY <3>2, <3>3
  <2>7. info' \in Seq([field : QFields, freed : BOOLEAN]) /\ DOMAIN info' = DOMAIN info
    <3> DEFINE q == info'
    <3>1. DOMAIN q = 1 .. I /\ q = [i \in 1 .. I |-> q[i]]
      BY <1>7, <2>5
    <3>2. \A i \in 1 .. I : q[i] \in [field : QFields, freed : BOOLEAN]
      BY <2>5, <2>6
    <3> HIDE DEF q
    <3>3. q \in [1 .. I -> [field : QFields, freed : BOOLEAN]]
      BY <3>1, <3>2
    <3>4. q \in Seq([field : QFields, freed : BOOLEAN])
      BY <3>3, FunctionIsSeq
    <3> QED BY <2>5, <3>1, <3>4 DEF q
  <2>8. TrackTypes'
    BY <2>2, <2>7 DEF TrackInv, TrackTypes
  <2>9. InfosOK'
    BY <2>2, <2>4, <2>6, <2>7 DEF TrackInv, InfosOK
  <2>10. CountsOK'
    <3> SUFFICES ASSUME trackerPhase # "down", NEW x \in QFields
                 PROVE  (Cardinality(InfoOf(x)) + Cardinality(MakingOf(x)) = Cardinality(CreatedOf(x)))'
      BY DEF CountsOK
    <3>1. InfoOf(x)' = InfoOf(x)
      BY <2>6, <2>7 DEF InfoOf
    <3>2. MakingOf(x)' = MakingOf(x) /\ CreatedOf(x)' = CreatedOf(x)
      BY DEF MakingOf, CreatedOf, Field
    <3> QED BY <3>1, <3>2 DEF TrackInv, CountsOK
  <2> QED BY <2>2, <2>8, <2>9, <2>10
<1>8. CASE \E k \in FirstOf(f) : infos' = RemoveAt(infos, k) /\ info' = [info EXCEPT ![infos[k]].freed = TRUE]
  <2>1. PICK k \in FirstOf(f) : infos' = RemoveAt(infos, k) /\ info' = [info EXCEPT ![infos[k]].freed = TRUE]
    BY <1>8
  <2>2. TrackTypes' /\ InfosOK' /\ CountsOK' /\ ToSet(infos') = ToSet(infos) \ {infos[k]}
    BY <1>7, <2>1
  <2> QED BY <1>3, <1>5, <2>2
<1> QED BY <1>6, <1>8 DEF index_cleanup_remove_index

\* The entry behind the one the cleaner removes is not the one that goes: what goes is
\* the first entry of the field, at the cleaner's place or before it.
LEMMA RemoveCheckedKeeps == TrackInv /\ RemoveChecked => TrackInv'
<1> SUFFICES ASSUME TrackInv, RemoveChecked PROVE TrackInv'
  OBVIOUS
<1> DEFINE f == info[cleaner.at].field
<1>1. /\ cleaner.pc = "remove" /\ trackerPhase # "down" /\ index_cleanup_remove_index(f)
      /\ cleaner' = [pc |-> "next", at |-> cleaner.next]
      /\ UNCHANGED <<nodes, table, sweep, trackerPhase, created, twoSweeps, dropped>>
  BY DEF RemoveChecked
<1>2. /\ TrackTypes' /\ TableOK' /\ CandsOK' /\ OnceOK' /\ InfosOK' /\ CountsOK' /\ FreedAfterThread'
      /\ \/ FirstOf(f) = {} /\ infos' = infos /\ info' = info
         \/ \E k \in FirstOf(f) : ToSet(infos') = ToSet(infos) \ {infos[k]}
  <2> HIDE DEF f
  <2> QED BY <1>1, RemoveIndexKeeps
<1>3. CleanerTypes'
  BY <1>1 DEF TrackInv, CleanerTypes
<1>4. CleanerOK'
  <2> SUFFICES ASSUME ~ dropped, cleaner.next # 0 PROVE cleaner.next \in ToSet(infos')
    BY <1>1 DEF CleanerOK
  <2>1. PICK k \in DOMAIN infos : cleaner.at = infos[k] /\ cleaner.next = (IF k = Len(infos) THEN 0 ELSE infos[k + 1])
    BY <1>1 DEF TrackInv, CleanerOK
  <2>2. infos \in Seq(Nat) /\ IsInjective(infos)
    BY DEF TrackInv, TrackTypes
  <2>3. PICK L \in Nat : L = Len(infos) /\ DOMAIN infos = 1 .. L
    BY <2>2, LenProperties
  <2>4. k # L /\ cleaner.next = infos[k + 1]
    BY <2>1, <2>3
  <2>5. k + 1 \in DOMAIN infos
    BY <2>3, <2>4
  <2>6. infos[k + 1] \in ToSet(infos)
    BY <2>5 DEF ToSet
  <2>7. ASSUME NEW j \in FirstOf(f) PROVE infos[j] # infos[k + 1]
    BY <2>1, <2>3, <2>2, <2>5 DEF FirstOf, IsInjective
  <2> HIDE DEF f
  <2> QED BY <1>2, <2>4, <2>6, <2>7
<1> QED BY <1>2, <1>3, <1>4 DEF TrackInv

\* The entry a walk goes to, and the place behind it.
LEMMA WalkFacts ==
    ASSUME TrackInv, NEW i \in ToSet(infos)
    PROVE  \E k \in DOMAIN infos : i = infos[k] /\ After(i) = (IF k = Len(infos) THEN 0 ELSE infos[k + 1])
<1>1. PICK k \in DOMAIN infos : infos[k] = i
  BY DEF ToSet
<1>2. (CHOOSE j \in DOMAIN infos : infos[j] = i) = k
  BY <1>1 DEF TrackInv, TrackTypes, IsInjective
<1> QED BY <1>1, <1>2 DEF After

\* What stands still while only the cleaner moves.
LEMMA CleanerMoves ==
    ASSUME TrackInv, UNCHANGED <<nodes, table, sweep, infos, info, trackerPhase, created, twoSweeps>>
    PROVE  TrackTypes' /\ TableOK' /\ CandsOK' /\ OnceOK' /\ InfosOK' /\ CountsOK' /\ FreedAfterThread'
<1>1. \A n : Lasting(n)' <=> Lasting(n)
  BY DEF Lasting
<1>2. TrackTypes' /\ TableOK' /\ CandsOK' /\ InfosOK' /\ FreedAfterThread'
  BY <1>1 DEF TrackInv, TrackTypes, TableOK, CandsOK, InfosOK, FreedAfterThread
<1>3. IndexedOK' <=> IndexedOK
  BY <1>1 DEF IndexedOK, InHand
<1>4. OnceOK'
  BY <1>3 DEF TrackInv, OnceOK
<1>5. CountsOK'
  BY DEF TrackInv, CountsOK, InfoOf, MakingOf, CreatedOf, Field
<1> QED BY <1>2, <1>4, <1>5

LEMMA CheckAllKeeps == TrackInv /\ index_cleanup_check_all => TrackInv'
<1> SUFFICES ASSUME TrackInv, index_cleanup_check_all PROVE TrackInv'
  OBVIOUS
<1>1. /\ infos # <<>> /\ trackerPhase # "down"
      /\ cleaner' = [pc |-> "remove", at |-> Head(infos), next |-> After(Head(infos))] /\ dropped' = FALSE
      /\ UNCHANGED <<nodes, table, sweep, infos, info, trackerPhase, created, twoSweeps>>
  BY DEF index_cleanup_check_all
<1>2. Head(infos) \in ToSet(infos)
  BY <1>1, TailFacts DEF TrackInv, TrackTypes
<1>3. PICK k \in DOMAIN infos : Head(infos) = infos[k] /\ After(Head(infos)) = (IF k = Len(infos) THEN 0 ELSE infos[k + 1])
  BY <1>2, WalkFacts
<1>4. CleanerTypes' /\ CleanerOK'
  BY <1>1, <1>3 DEF TrackInv, CleanerTypes, CleanerOK
<1> QED BY <1>1, <1>4, CleanerMoves DEF TrackInv

LEMMA CheckNextKeeps == TrackInv /\ CheckNext => TrackInv'
<1> SUFFICES ASSUME TrackInv, CheckNext PROVE TrackInv'
  OBVIOUS
<1>1. /\ trackerPhase # "down"
      /\ UNCHANGED <<nodes, table, sweep, infos, info, trackerPhase, created, twoSweeps, dropped>>
  BY DEF CheckNext
<1>2. CASE cleaner' = [pc |-> "idle", at |-> 0]
  BY <1>1, <1>2, CleanerMoves DEF TrackInv, CleanerTypes, CleanerOK
<1>3. CASE cleaner.at \in ToSet(infos) /\ cleaner' = [pc |-> "remove", at |-> cleaner.at, next |-> After(cleaner.at)]
  <2>1. PICK k \in DOMAIN infos : cleaner.at = infos[k] /\ After(cleaner.at) = (IF k = Len(infos) THEN 0 ELSE infos[k + 1])
    BY <1>3, WalkFacts
  <2>2. CleanerTypes' /\ CleanerOK'
    BY <1>1, <1>3, <2>1 DEF TrackInv, CleanerTypes, CleanerOK
  <2> QED BY <1>1, <2>2, CleanerMoves DEF TrackInv
<1> QED BY <1>2, <1>3 DEF CheckNext

LEMMA ClientRemovesKeeps ==
    ASSUME TrackInv, NEW f, api_handle_index_cleanup_remove(f) PROVE TrackInv'
  BY RemoveIndexKeeps DEF api_handle_index_cleanup_remove, TrackInv, CleanerTypes, CleanerOK

\* The indexer is freed once its thread has ended, a caller's sweep or not.
LEMMA CleanupKeeps == TrackInv /\ adaptive_indexer_cleanup => TrackInv'
<1> SUFFICES ASSUME TrackInv, adaptive_indexer_cleanup PROVE TrackInv'
  OBVIOUS
<1>1. /\ sweep["thread"].pc = "idle" /\ trackerPhase' = "down" /\ infos' = <<>> /\ table' = [f \in QFields |-> 0]
      /\ info' = [i \in DOMAIN info |-> [info[i] EXCEPT !.freed = TRUE]]
      /\ nodes' = [n \in DOMAIN nodes |-> [nodes[n] EXCEPT !.freed = TRUE]]
      /\ UNCHANGED <<sweep, cleaner, created, twoSweeps, dropped>>
  BY DEF adaptive_indexer_cleanup
<1>2. info \in Seq([field : QFields, freed : BOOLEAN]) /\ nodes \in Seq(Pattern)
  BY DEF TrackInv, TrackTypes
<1>3. info' \in Seq([field : QFields, freed : BOOLEAN])
  <2>1. PICK I \in Nat : I = Len(info) /\ DOMAIN info = 1 .. I
    BY <1>2, LenProperties
  <2>2. ASSUME NEW i \in 1 .. I PROVE [info[i] EXCEPT !.freed = TRUE] \in [field : QFields, freed : BOOLEAN]
    <3>1. info[i] \in [field : QFields, freed : BOOLEAN]
      BY <1>2, <2>1, ElementOfSeq
    <3> QED BY <3>1
  <2>3. info' = [i \in 1 .. I |-> [info[i] EXCEPT !.freed = TRUE]]
    BY <1>1, <2>1
  <2> DEFINE q == info'
  <2> HIDE DEF q
  <2>4. q \in [1 .. I -> [field : QFields, freed : BOOLEAN]]
    BY <2>2, <2>3 DEF q
  <2>5. q \in Seq([field : QFields, freed : BOOLEAN])
    BY <2>4, FunctionIsSeq
  <2> QED BY <2>5 DEF q
<1>4. nodes' \in Seq(Pattern)
  <2>1. PICK L \in Nat : L = Len(nodes) /\ DOMAIN nodes = 1 .. L
    BY <1>2, LenProperties
  <2>2. ASSUME NEW n \in 1 .. L PROVE [nodes[n] EXCEPT !.freed = TRUE] \in Pattern
    <3>1. nodes[n] \in Pattern
      BY <1>2, <2>1, ElementOfSeq
    <3> QED BY <3>1 DEF Pattern
  <2>3. nodes' = [n \in 1 .. L |-> [nodes[n] EXCEPT !.freed = TRUE]]
    BY <1>1, <2>1
  <2>4. nodes' \in [1 .. L -> Pattern]
    BY <2>2, <2>3
  <2> QED BY <2>4
<1>5. infos' \in Seq(Nat) /\ IsInjective(infos') /\ ToSet(infos') = {}
  BY <1>1 DEF IsInjective, ToSet
<1>6. table' \in [QFields -> Nat]
  BY <1>1
<1>7. TrackTypes'
  BY <1>1, <1>3, <1>4, <1>5, <1>6 DEF TrackInv, TrackTypes
<1>8. TableOK'
  BY <1>1 DEF TableOK
<1>9. CandsOK' /\ OnceOK' /\ CountsOK'
  BY <1>1 DEF TrackInv, CandsOK, OnceOK, IndexedOK, CountsOK
<1>10. InfosOK'
  BY <1>1, <1>5 DEF InfosOK
<1>11. CleanerTypes' /\ CleanerOK' /\ FreedAfterThread'
  BY <1>1 DEF TrackInv, CleanerTypes, CleanerOK, FreedAfterThread
<1> QED BY <1>7, <1>8, <1>9, <1>10, <1>11 DEF TrackInv

LEMMA TrackStep == TrackInv /\ [TrackNext]_trackVars => TrackInv'
<1> SUFFICES ASSUME TrackInv, [TrackNext]_trackVars PROVE TrackInv'
  OBVIOUS
<1>1. CASE UNCHANGED trackVars
  BY <1>1, TrackQuiet DEF trackVars
<1>2. ASSUME NEW fs \in SUBSET QFields \ {{}}, NEW ms \in Durations, query_tracker_end_timing(fs, ms) PROVE TrackInv'
  BY <1>2, EndTimingKeeps
<1>3. ASSUME NEW old \in SUBSET {table[f] : f \in QFields}, query_tracker_force_cleanup(old \ {0}) PROVE TrackInv'
  BY <1>3, ForceCleanupKeeps
<1>4. CASE ImportDocuments \/ TimePasses
  BY <1>4, TrackQuiet DEF ImportDocuments, TimePasses
<1>5. ASSUME NEW s \in Sweepers, process_index_candidates(s) PROVE TrackInv'
  BY <1>5, CandidatesFound
<1>6. ASSUME NEW s \in Sweepers, Consider(s) PROVE TrackInv'
  BY <1>6, ConsiderKeeps
<1>7. ASSUME NEW s \in Sweepers, create_adaptive_index(s) PROVE TrackInv'
  BY <1>7, IndexMade
<1>8. ASSUME NEW s \in Sweepers, AddInfo(s) PROVE TrackInv'
  BY <1>8, AddInfoKeeps
<1>9. ASSUME NEW s \in Sweepers, query_tracker_mark_indexed(s) PROVE TrackInv'
  BY <1>9, MarkKeeps
<1>10. ASSUME NEW s \in Sweepers, EndSweep(s) PROVE TrackInv'
  BY <1>10, EndSweepKeeps
<1>11. CASE adaptive_indexer_stop
  BY <1>11, TrackQuiet DEF adaptive_indexer_stop
<1>12. CASE adaptive_indexer_cleanup
  BY <1>12, CleanupKeeps
<1>13. ASSUME NEW all \in BOOLEAN, index_cleanup_configure(all) PROVE TrackInv'
  BY <1>13, TrackQuiet DEF index_cleanup_configure
<1>14. CASE index_cleanup_check_all
  BY <1>14, CheckAllKeeps
<1>15. CASE RemoveChecked
  BY <1>15, RemoveCheckedKeeps
<1>16. CASE CheckNext
  BY <1>16, CheckNextKeeps
<1>17. ASSUME NEW f \in QFields, api_handle_index_cleanup_remove(f) PROVE TrackInv'
  BY <1>17, ClientRemovesKeeps
<1> QED BY <1>1, <1>2, <1>3, <1>4, <1>5, <1>6, <1>7, <1>8, <1>9, <1>10, <1>11, <1>12, <1>13, <1>14, <1>15, <1>16, <1>17
        DEF TrackNext

LEMMA TrackInvImplies == TrackInv => TrackingSound
<1> SUFFICES ASSUME TrackInv PROVE TrackingSound
  OBVIOUS
<1>1. nodes \in Seq(Pattern) /\ infos \in Seq(Nat) /\ IsInjective(infos) /\ created \in Seq(QFields)
  BY DEF TrackInv, TrackTypes
<1>2. TrackTypeOK
  <2>1. ASSUME NEW n \in DOMAIN nodes PROVE nodes[n].count > 0
    <3>1. nodes[n] \in Pattern
      BY <1>1, ElementOfSeq, LenProperties
    <3>2. nodes[n].count \in Nat \ {0}
      BY <3>1 DEF Pattern
    <3> QED BY <3>2
  <2>2. \A k \in DOMAIN infos : ~ info[infos[k]].freed
    BY DEF TrackInv, InfosOK, ToSet
  <2>3. ASSUME NEW f \in ToSet(created) PROVE f \in QFields
    BY <1>1, ElementOfSeq, LenProperties DEF ToSet
  <2>4. \A f \in QFields : table[f] # 0 => nodes[table[f]].field = f /\ ~ nodes[table[f]].freed
    BY DEF TrackInv, TableOK
  <2> QED BY <1>1, <2>1, <2>2, <2>3, <2>4 DEF TrackTypeOK
<1>3. CandidatesStay
  <2> SUFFICES ASSUME trackerPhase # "down", NEW s \in Sweepers, NEW k \in DOMAIN sweep[s].cands
               PROVE  ~ nodes[sweep[s].cands[k]].freed
    BY DEF CandidatesStay
  <2> DEFINE n == sweep[s].cands[k]
  <2>1. n \in ToSet(sweep[s].cands)
    BY DEF ToSet
  <2>2. Lasting(n)
    BY <2>1 DEF TrackInv, CandsOK
  <2> HIDE DEF n
  <2>3. n \in 1 .. Len(nodes) /\ Len(nodes) \in Nat
    BY <1>1, <2>2, LenProperties DEF Lasting
  <2>4. nodes[n] \in Pattern /\ n # 0
    BY <1>1, <2>3, ElementOfSeq
  <2>5. nodes[n].field \in QFields /\ table[nodes[n].field] = n
    BY <2>2, <2>4 DEF Lasting, Pattern
  <2>6. ~ nodes[n].freed
    BY <2>4, <2>5 DEF TrackInv, TableOK
  <2> QED BY <2>6 DEF n
<1>4. IndexedOnce
  BY DEF TrackInv, OnceOK, IndexedOnce
<1>5. ListTellsIndexes
  BY DEF TrackInv, CountsOK, InfosOK, InfoOf, MakingOf, CreatedOf, ListTellsIndexes
<1>6. CleanerSeesLiveEntry
  <2> SUFFICES ASSUME cleaner.at # 0, trackerPhase # "down", ~ dropped PROVE cleaner.at \in ToSet(infos)
    BY DEF CleanerSeesLiveEntry, TrackInv, InfosOK
  <2>1. cleaner.pc \in {"next", "remove"}
    BY DEF TrackInv, CleanerTypes
  <2>2. CASE cleaner.pc = "next"
    BY <2>2 DEF TrackInv, CleanerOK
  <2>3. CASE cleaner.pc = "remove"
    BY <2>3 DEF TrackInv, CleanerOK, ToSet
  <2> QED BY <2>1, <2>2, <2>3
<1> QED BY <1>2, <1>3, <1>4, <1>5, <1>6 DEF TrackInv, TrackingSound

\* The pointers a sweep keeps past the tracker's lock stay good, no field is indexed twice
\* unless sweeps overlap, the list tells the indexes made, and the cleaner's next entry is
\* still allocated though it let go of its lock; adaptive_indexer.c and index_cleanup.c.
THEOREM TrackingIsSound == TrackSpec => []TrackingSound
<1>1. TrackSpec => []TrackInv
  BY TrackInvInit, TrackStep, PTL DEF TrackSpec
<1> QED BY <1>1, TrackInvImplies, PTL
===============================================================================
