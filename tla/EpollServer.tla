------------------------------ MODULE EpollServer ------------------------------
(***************************************************************************)
(* The event loop of core/epoll_server.c.                                  *)
(*                                                                         *)
(* One thread waits for edge-triggered events: an event is reported once,  *)
(* when something arrives, and again only when more arrives.  The listener *)
(* and the connections must therefore be drained at every event.  Handling *)
(* one event touches only its own connection, so each event of a batch is  *)
(* one step here; the clean-up runs between batches.                       *)
(***************************************************************************)
EXTENDS Naturals, FiniteSets

CONSTANTS
    EClients,           \* clients, each of which connects once
    MaxEpollConns,      \* MAX_EPOLL_CONNECTIONS
    MaxParts            \* parts a request arrives in

ASSUME EpollAssumption == IsFiniteSet(EClients) /\ MaxEpollConns \in Nat \ {0} /\ MaxParts \in Nat \ {0}

VARIABLES
    eat,            \* where each client is
    backlog,        \* clients in the listen queue
    ledge,          \* an edge of the listener is pending
    arrivedParts, readParts,   \* parts of the request sent, and read
    inEdge, outEdge,           \* clients with a pending EPOLLIN or EPOLLOUT edge
    writable,       \* clients whose socket takes more bytes
    hup,            \* clients that have closed or reset their end
    connection_count,
    quiet,          \* connections without an event for CONNECTION_TIMEOUT_SEC
    eshutdown,      \* g_epoll_server.shutdown_requested
    stopped,        \* epoll_server_run has returned
    acceptFailed    \* history: accept4 failed with clients in the queue

epollVars == <<eat, backlog, ledge, arrivedParts, readParts, inEdge, outEdge, writable, hup,
               connection_count, quiet, eshutdown, stopped, acceptFailed>>

Places == {"away", "queued", "reading", "writing", "closed"}

Connected == {c \in EClients : eat[c] \in {"reading", "writing"}}

EpollInit ==
    /\ eat = [c \in EClients |-> "away"] /\ backlog = {} /\ ledge = FALSE
    /\ arrivedParts = [c \in EClients |-> 0] /\ readParts = [c \in EClients |-> 0]
    /\ inEdge = {} /\ outEdge = {} /\ writable = EClients /\ hup = {} /\ connection_count = 0
    /\ quiet = {} /\ eshutdown = FALSE /\ stopped = FALSE /\ acceptFailed = FALSE

-----------------------------------------------------------------------------
(* The clients and the network.                                            *)

Connect(c) ==
    /\ eat[c] = "away" /\ ~ stopped
    /\ eat' = [eat EXCEPT ![c] = "queued"] /\ backlog' = backlog \cup {c} /\ ledge' = TRUE
    /\ UNCHANGED <<arrivedParts, readParts, inEdge, outEdge, writable, hup, connection_count, quiet,
                   eshutdown, stopped, acceptFailed>>

\* A part of the request arrives; it may do so before the connection is accepted.
Send(c) ==
    /\ eat[c] \in {"queued", "reading"} /\ arrivedParts[c] < MaxParts /\ c \notin hup
    /\ arrivedParts' = [arrivedParts EXCEPT ![c] = @ + 1]
    /\ inEdge' = IF eat[c] = "reading" THEN inEdge \cup {c} ELSE inEdge
    /\ UNCHANGED <<eat, backlog, ledge, readParts, outEdge, writable, hup, connection_count, quiet,
                   eshutdown, stopped, acceptFailed>>

Hang(c) ==
    /\ eat[c] \in {"queued", "reading", "writing"} /\ c \notin hup
    /\ hup' = hup \cup {c}
    /\ inEdge' = IF eat[c] = "reading" THEN inEdge \cup {c} ELSE inEdge
    /\ outEdge' = IF eat[c] = "writing" THEN outEdge \cup {c} ELSE outEdge
    /\ UNCHANGED <<eat, backlog, ledge, arrivedParts, readParts, writable, connection_count, quiet,
                   eshutdown, stopped, acceptFailed>>

\* The socket buffer fills, or empties, which is an edge.
Stall(c) ==
    /\ eat[c] = "reading" /\ c \in writable
    /\ writable' = writable \ {c}
    /\ UNCHANGED <<eat, backlog, ledge, arrivedParts, readParts, inEdge, outEdge, hup, connection_count,
                   quiet, eshutdown, stopped, acceptFailed>>

Resume(c) ==
    /\ c \notin writable
    /\ writable' = writable \cup {c}
    /\ outEdge' = IF eat[c] = "writing" THEN outEdge \cup {c} ELSE outEdge
    /\ UNCHANGED <<eat, backlog, ledge, arrivedParts, readParts, inEdge, hup, connection_count, quiet,
                   eshutdown, stopped, acceptFailed>>

FallsQuiet(c) ==
    /\ c \in Connected \ quiet
    /\ quiet' = quiet \cup {c}
    /\ UNCHANGED <<eat, backlog, ledge, arrivedParts, readParts, inEdge, outEdge, writable, hup,
                   connection_count, eshutdown, stopped, acceptFailed>>

epoll_server_shutdown ==
    /\ ~ eshutdown /\ eshutdown' = TRUE
    /\ UNCHANGED <<eat, backlog, ledge, arrivedParts, readParts, inEdge, outEdge, writable, hup,
                   connection_count, quiet, stopped, acceptFailed>>

-----------------------------------------------------------------------------
(* The loop.                                                               *)

\* handle_accept_events: accept until EAGAIN.  Clients above the limit, or without memory,
\* are closed at once.  Registering a socket with data on it is an edge.  Any other error
\* of accept4 leaves the loop, with what is still in the queue.
handle_accept_events ==
    /\ ledge /\ ~ stopped /\ ledge' = FALSE
    /\ \E taken \in SUBSET backlog, kept \in SUBSET backlog :
          /\ kept \subseteq taken /\ connection_count + Cardinality(kept) =< MaxEpollConns
          /\ backlog' = backlog \ taken
          /\ eat' = [c \in EClients |-> IF c \in kept THEN "reading"
                                        ELSE IF c \in taken THEN "closed" ELSE eat[c]]
          /\ connection_count' = connection_count + Cardinality(kept)
          /\ inEdge' = inEdge \cup {c \in kept : arrivedParts[c] > 0 \/ c \in hup}
          /\ acceptFailed' = (acceptFailed \/ taken # backlog)
    /\ UNCHANGED <<arrivedParts, readParts, outEdge, writable, hup, quiet, eshutdown, stopped>>

\* destroy_connection: out of the epoll set, with its pending edges, and out of the list.
Destroyed(S) ==
    /\ eat' = [c \in EClients |-> IF c \in S THEN "closed" ELSE eat[c]]
    /\ inEdge' = inEdge \ S /\ outEdge' = outEdge \ S /\ quiet' = quiet \ S
    /\ connection_count' = connection_count - Cardinality(S)

\* Mutant: one read per event.
ReadAll_once(c) == IF readParts[c] < arrivedParts[c] THEN readParts[c] + 1 ELSE readParts[c]

\* The parts read when read has returned EAGAIN.
ReadAll(c) == arrivedParts[c]

\* process_read_event: read until EAGAIN or the end of the request; then the answer is
\* made and EPOLLOUT asked for, which is an edge if the socket takes bytes.  The end of
\* the stream, a failed read and a lack of memory close the connection.
process_read_event(c) ==
    /\ readParts' = [readParts EXCEPT ![c] = ReadAll(c)]
    /\ \/ /\ c \notin hup /\ ReadAll(c) < MaxParts
          /\ inEdge' = inEdge \ {c} /\ quiet' = quiet \ {c}
          /\ UNCHANGED <<eat, outEdge, connection_count>>
       \/ /\ ReadAll(c) = MaxParts
          /\ eat' = [eat EXCEPT ![c] = "writing"]
          /\ inEdge' = inEdge \ {c} /\ quiet' = quiet \ {c}
          /\ outEdge' = IF c \in writable \/ c \in hup THEN outEdge \cup {c} ELSE outEdge
          /\ UNCHANGED connection_count
       \/ Destroyed({c})

HandleRead(c) ==
    /\ c \in inEdge /\ ~ stopped
    /\ process_read_event(c)
    /\ UNCHANGED <<backlog, ledge, arrivedParts, writable, hup, eshutdown, stopped, acceptFailed>>

\* process_write_event: all of the answer, or what the socket takes; then the connection
\* is closed.  EPOLLHUP and errors close it too.
HandleWrite(c) ==
    /\ c \in outEdge /\ ~ stopped
    /\ \/ /\ c \notin hup
          /\ outEdge' = outEdge \ {c} /\ quiet' = quiet \ {c} /\ writable' = writable \ {c}
          /\ UNCHANGED <<eat, inEdge, connection_count>>
       \/ Destroyed({c}) /\ UNCHANGED writable
    /\ UNCHANGED <<backlog, ledge, arrivedParts, readParts, hup, eshutdown, stopped, acceptFailed>>

cleanup_expired_connections ==
    /\ quiet # {} /\ ~ stopped
    /\ Destroyed(quiet)
    /\ UNCHANGED <<backlog, ledge, arrivedParts, readParts, writable, hup, eshutdown, stopped, acceptFailed>>

\* The end of epoll_server_run.
Stop ==
    /\ eshutdown /\ ~ stopped
    /\ stopped' = TRUE /\ Destroyed(Connected)
    /\ UNCHANGED <<backlog, ledge, arrivedParts, readParts, writable, hup, eshutdown, acceptFailed>>

EpollNext ==
    \/ \E c \in EClients :
          \/ Connect(c) \/ Send(c) \/ Hang(c) \/ Stall(c) \/ Resume(c) \/ FallsQuiet(c)
          \/ HandleRead(c) \/ HandleWrite(c)
    \/ handle_accept_events \/ cleanup_expired_connections \/ epoll_server_shutdown \/ Stop

EpollSpec == EpollInit /\ [][EpollNext]_epollVars

-----------------------------------------------------------------------------
(* Properties.                                                             *)

\* Types.
EpollTypeOK ==
    /\ eat \in [EClients -> Places] /\ backlog \subseteq EClients /\ inEdge \cup outEdge \subseteq Connected
    /\ arrivedParts \in [EClients -> 0 .. MaxParts] /\ readParts \in [EClients -> 0 .. MaxParts]
    /\ connection_count \in 0 .. MaxEpollConns

\* No event is lost: what a client has sent, and the end of its stream, is read or will be
\* reported, although an edge is reported only once.
UnreadIsReported ==
    \A c \in Connected : eat[c] = "reading" /\ ~ stopped
        /\ (readParts[c] < arrivedParts[c] \/ c \in hup) => c \in inEdge

\* A client in the listen queue will be accepted; except that after an error of accept4
\* (no descriptor left) the rest of the queue waits until another client connects.
QueuedIsReported ==
    backlog # {} /\ ~ stopped => ledge \/ acceptFailed

\* An answer that can be sent is sent: the socket has room only if that was reported.
WritableIsReported ==
    \A c \in Connected : eat[c] = "writing" /\ c \in writable => c \in outEdge

\* The count of connections is that of the list: it is what the limit is compared with.
EpollCountExact == connection_count = Cardinality(Connected)

\* The event loop: whatever can be read, accepted or written is reported again, and
\* its count of connections is exact.
EpollSound ==
    /\ EpollTypeOK /\ UnreadIsReported /\ QueuedIsReported /\ WritableIsReported
    /\ EpollCountExact
===============================================================================
