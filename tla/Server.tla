-------------------------------- MODULE Server --------------------------------
(***************************************************************************)
(* The accept loop of components/core/server.c, the worker pool, and the   *)
(* connection handler of components/core/handle_client.c.                  *)
(*                                                                         *)
(* The accept thread takes connections, gives them to the pool, and, when  *)
(* shutdown is requested, destroys the pool.  A worker runs handle_client  *)
(* from the set-up of the socket to its cleanup label.  What is kept of a  *)
(* connection is its descriptor: a number the kernel gives out again as    *)
(* soon as it is closed, which the handler holds twice, in the local       *)
(* client_fd and in client->client_fd.                                     *)
(*                                                                         *)
(* Requests and responses are left out: reading, parsing, dispatching and  *)
(* answering one is a step with every outcome the code tells apart.        *)
(* SIGPIPE has the same handler as SIGTERM, so a write to a connection the *)
(* peer has closed requests the shutdown of the server.                    *)
(***************************************************************************)
EXTENDS ThreadPool

CONSTANTS
    MaxFd,         \* descriptors the process may hold for clients
    MaxKeepAlive   \* max_keep_alive_requests

ASSUME ServerAssumption == MaxFd \in Nat \ {0} /\ MaxKeepAlive \in Nat \ {0}

VARIABLES
    acceptor,            \* accept loop: at its test, past select, or left
    shutdown_requested,  \* g_shutdown_requested
    owner,               \* the connection a descriptor number stands for
    at,                  \* where each connection is
    local_fd,            \* handle_client's client_fd
    client_fd,           \* client->client_fd: a number, 0, or -1
    served               \* requests_processed

connVars == <<at, local_fd, client_fd, served>>
vars == <<poolVars, acceptor, shutdown_requested, owner, connVars>>

Fds == 1..MaxFd

\* Handlers that have not closed their descriptor yet, queued ones included.
Open == {"queued", "setup", "read", "dispatch", "next", "cleanup"}

\* shut: on the way to the cleanup label with the descriptor closed.  again:
\* the cleanup closed the number a second time.  leaked: client not freed.
Final == {"done", "again", "leaked", "rejected"}

Places == {"none", "shut"} \cup Open \cup Final

TypeOK ==
    /\ PoolTypeOK
    /\ acceptor \in {"loop", "ready", "left"}
    /\ shutdown_requested \in BOOLEAN
    /\ owner \in [Fds -> Clients \cup {None}]
    /\ at \in [Clients -> Places]
    /\ local_fd \in [Clients -> 0..MaxFd]
    /\ client_fd \in [Clients -> -1..MaxFd]
    /\ served \in [Clients -> 0..MaxKeepAlive]

Init ==
    /\ thread_pool_create_config
    /\ acceptor = "loop" /\ shutdown_requested = FALSE
    /\ owner = [f \in Fds |-> None]
    /\ at = [c \in Clients |-> "none"]
    /\ local_fd = [c \in Clients |-> 0]
    /\ client_fd = [c \in Clients |-> 0]
    /\ served = [c \in Clients |-> 0]

-------------------------------------------------------------------------------
(* The accept loop.                                                        *)

\* select reports a connection.
Poll ==
    /\ acceptor = "loop" /\ ~shutdown_requested
    /\ acceptor' = "ready"
    /\ UNCHANGED <<poolVars, shutdown_requested, owner, connVars>>

\* The kernel gives out the lowest free number.
LowestFree(f) == owner[f] = None /\ \A g \in Fds : g < f => owner[g] # None

\* The next connection; connection_count numbers them.
Arrives(c) == at[c] = "none" /\ \A d \in 1..(c - 1) : at[d] # "none"

\* accept, and the connection goes to the pool.
AcceptClient(c) ==
    /\ acceptor = "ready" /\ Arrives(c)
    /\ \E f \in Fds :
        /\ LowestFree(f)
        /\ owner' = [owner EXCEPT ![f] = c]
        /\ client_fd' = [client_fd EXCEPT ![c] = f]
    /\ thread_pool_add_work(c)
    /\ at' = [at EXCEPT ![c] = "queued"]
    /\ acceptor' = "loop"
    /\ UNCHANGED <<shutdown_requested, local_fd, served>>

\* The pool, or the allocation of the client or of the work item, fails: the
\* connection is closed at once.
RejectClient(c) ==
    /\ acceptor = "ready" /\ Arrives(c)
    /\ at' = [at EXCEPT ![c] = "rejected"]
    /\ acceptor' = "loop"
    /\ UNCHANGED <<poolVars, shutdown_requested, owner, local_fd, client_fd, served>>

\* signal_handler for SIGINT and SIGTERM; server_request_shutdown.
RequestShutdown ==
    /\ ~shutdown_requested
    /\ shutdown_requested' = TRUE
    /\ UNCHANGED <<poolVars, acceptor, owner, connVars>>

\* The loop ends, at its test or when the signal pipe wakes select.
LeaveLoop ==
    /\ acceptor \in {"loop", "ready"} /\ shutdown_requested
    /\ acceptor' = "left"
    /\ BeginDestroy
    /\ UNCHANGED <<shutdown_requested, owner, connVars>>

JoinOrFree ==
    /\ JoinNext \/ FreePool
    /\ UNCHANGED <<acceptor, shutdown_requested, owner, connVars>>

-------------------------------------------------------------------------------
(* handle_client, run by worker t for the connection task[t].              *)

Serving(t, place) == worker[t] = "running" /\ at[task[t]] = place

\* close: whatever connection the number stands for loses it.
Close(f) == owner' = IF f \in Fds THEN [owner EXCEPT ![f] = None] ELSE owner

Go(t, place) == at' = [at EXCEPT ![task[t]] = place]

\* A response is written; the peer may be gone.
MayRaiseSigpipe == shutdown_requested' \in {shutdown_requested, TRUE}

\* Common to the paths that close the descriptor before the cleanup label.
CloseEarly(t) ==
    /\ Close(local_fd[task[t]])
    /\ client_fd' = [client_fd EXCEPT ![task[t]] = 0]

SetUp(t) ==
    /\ Serving(t, "setup")
    /\ Go(t, "read")
    /\ UNCHANGED <<shutdown_requested, owner, local_fd, client_fd, served>>

\* Mutant: the goto is missing.
SetUpFailsFallsThrough(t) ==
    /\ Serving(t, "setup")
    /\ CloseEarly(t) /\ Go(t, "read")
    /\ UNCHANGED <<shutdown_requested, local_fd, served>>

\* No API context, no buffer, no TLS session, or a socket option failed.
SetUpFails(t) ==
    /\ Serving(t, "setup")
    /\ CloseEarly(t) /\ Go(t, "shut")
    /\ UNCHANGED <<shutdown_requested, local_fd, served>>

\* O_NONBLOCK cannot be set: the one error path that returns.
SetUpReturns(t) ==
    /\ Serving(t, "setup")
    /\ CloseEarly(t) /\ Go(t, "leaked")
    /\ UNCHANGED <<shutdown_requested, local_fd, served>>

ReadRequest(t) ==
    /\ Serving(t, "read")
    /\ Go(t, "dispatch")
    /\ UNCHANGED <<shutdown_requested, owner, local_fd, client_fd, served>>

\* Too slow, too large, closed by the peer, out of memory, or unparsable;
\* some of these are answered before the descriptor is closed.
ReadFails(t) ==
    /\ Serving(t, "read")
    /\ MayRaiseSigpipe
    /\ CloseEarly(t) /\ Go(t, "shut")
    /\ UNCHANGED <<local_fd, served>>

\* The only early path that clears the local descriptor too.
IncompleteBody(t) ==
    /\ Serving(t, "read")
    /\ MayRaiseSigpipe
    /\ CloseEarly(t) /\ Go(t, "shut")
    /\ local_fd' = [local_fd EXCEPT ![task[t]] = 0]
    /\ UNCHANGED served

\* A preflight is answered and closed; client->client_fd keeps the number.
AnswerOptions(t) ==
    /\ Serving(t, "read")
    /\ MayRaiseSigpipe
    /\ Close(local_fd[task[t]]) /\ Go(t, "shut")
    /\ UNCHANGED <<local_fd, client_fd, served>>

ServeStaticFile(t) ==
    /\ Serving(t, "read")
    /\ MayRaiseSigpipe
    /\ CloseEarly(t) /\ Go(t, "shut")
    /\ UNCHANGED <<local_fd, served>>

MayKeepAlive(t) == served[task[t]] < MaxKeepAlive

\* One turn of the keep-alive loop: dispatch, answer, and stay or go.
Respond(t) ==
    /\ Serving(t, "dispatch")
    /\ served' = [served EXCEPT ![task[t]] = @ + 1]
    /\ \/ MayKeepAlive(t) /\ Go(t, "next") /\ UNCHANGED shutdown_requested
       \/ Go(t, "cleanup") /\ MayRaiseSigpipe
    /\ UNCHANGED <<owner, local_fd, client_fd>>

\* The next request has been read before the loop's bound is tested, so the
\* last one read is dropped unanswered.
ReadNext(t) ==
    /\ Serving(t, "next")
    /\ Go(t, IF served[task[t]] < MaxKeepAlive THEN "dispatch" ELSE "cleanup")
    /\ UNCHANGED <<shutdown_requested, owner, local_fd, client_fd, served>>

ReadNextFails(t) ==
    /\ Serving(t, "next")
    /\ Go(t, "cleanup") /\ MayRaiseSigpipe
    /\ UNCHANGED <<owner, local_fd, client_fd, served>>

\* The test made before the descriptor is closed at the cleanup label.
StillOpen(c) == local_fd[c] > 0 /\ client_fd[c] # -1

Cleanup(t) ==
    LET c == task[t] IN
    /\ worker[t] = "running" /\ at[c] \in {"cleanup", "shut"}
    /\ IF StillOpen(c)
       THEN /\ Close(local_fd[c])
            /\ client_fd' = [client_fd EXCEPT ![c] = -1]
            /\ Go(t, IF at[c] = "shut" THEN "again" ELSE "done")
       ELSE Go(t, "done") /\ UNCHANGED <<owner, client_fd>>
    /\ UNCHANGED <<shutdown_requested, local_fd, served>>

handle_client(t) ==
    /\ \/ SetUp(t) \/ SetUpFails(t) \/ SetUpReturns(t)
       \/ ReadRequest(t) \/ ReadFails(t) \/ IncompleteBody(t)
       \/ AnswerOptions(t) \/ ServeStaticFile(t)
       \/ Respond(t) \/ ReadNext(t) \/ ReadNextFails(t)
       \/ Cleanup(t)
    /\ UNCHANGED <<poolVars, acceptor>>

-------------------------------------------------------------------------------
(* The worker loop around it.                                              *)

StartHandler(t) ==
    /\ TakeWork(t)
    /\ at' = [at EXCEPT ![Head(work)] = "setup"]
    /\ local_fd' = [local_fd EXCEPT ![Head(work)] = client_fd[Head(work)]]
    /\ UNCHANGED <<acceptor, shutdown_requested, owner, client_fd, served>>

\* The handler's variables and the client are gone.
EndHandler(t) ==
    LET c == task[t] IN
    /\ FinishWork(t) /\ at[c] \in Final
    /\ local_fd' = [local_fd EXCEPT ![c] = 0]
    /\ client_fd' = [client_fd EXCEPT ![c] = 0]
    /\ served' = [served EXCEPT ![c] = 0]
    /\ UNCHANGED <<acceptor, shutdown_requested, owner, at>>

thread_worker(t) ==
    \/ StartHandler(t) \/ handle_client(t) \/ EndHandler(t)
    \/ /\ IdleExit(t) \/ WaitForWork(t) \/ ShutdownExit(t)
       /\ UNCHANGED <<acceptor, shutdown_requested, owner, connVars>>

WaitExpires(t) ==
    /\ WaitTimesOut(t)
    /\ UNCHANGED <<acceptor, shutdown_requested, owner, connVars>>

AcceptLoop ==
    \/ Poll \/ LeaveLoop \/ JoinOrFree
    \/ \E c \in Clients : AcceptClient(c) \/ RejectClient(c)

\* Nothing is modelled after the pool is freed: the process ends.
Terminated == destroyer = "freed" /\ UNCHANGED vars

Next ==
    \/ /\ destroyer # "freed"
       /\ \/ AcceptLoop \/ RequestShutdown
          \/ \E t \in Workers : thread_worker(t) \/ WaitExpires(t)
    \/ Terminated

Spec == Init /\ [][Next]_vars

\* A worker that can run runs; the accept thread leaves the loop once asked to
\* and works through its joins.
FairSpec ==
    /\ Spec
    /\ \A t \in Workers : WF_vars(destroyer # "freed" /\ thread_worker(t))
    /\ WF_vars(destroyer # "freed" /\ (LeaveLoop \/ JoinOrFree))

-------------------------------------------------------------------------------
(* Properties.                                                             *)

\* The two counters the pool decides with are exact at every unlock: threads
\* that have not expired, and threads inside a work function.
CountersExact ==
    /\ thread_count = Cardinality({t \in Workers : worker[t] \notin {"none", "expired"}})
    /\ active_threads = Cardinality(In("running"))

\* No lost wake-up: while a worker sleeps, each queued item has a woken worker
\* of its own, although time-outs, exits and busy workers come between.
SleepersNotNeeded == In("asleep") # {} => Len(work) =< Cardinality(In("ready"))

\* thread_pool_add_work queues above the limit only what it created a thread
\* for: beyond max_queue_size there is a worker at the lock for each item.
OverflowHasWorkers == Len(work) =< MaxQueue + Cardinality(In("ready"))

\* An accepted connection is in the queue once or with one worker, not both,
\* and with nobody before it is accepted and after its handler returns.
OneHandlerPerClient ==
    /\ \A i, j \in 1..Len(work) : work[i] = work[j] => i = j
    /\ \A c \in Clients :
        /\ at[c] = "queued" /\ destroyer # "freed" <=> \E i \in 1..Len(work) : work[i] = c
        /\ \A t, u \in Workers : task[t] = c /\ task[u] = c => t = u
        /\ at[c] \in (Open \cup {"shut"}) \ {"queued"} => \E t \in Workers : task[t] = c
        /\ at[c] \in {"none", "queued", "rejected"} => \A t \in Workers : task[t] # c

\* A descriptor is held only for a connection that will still close it: no
\* path through handle_client or the accept loop leaves one open.
NoDescriptorLeak == \A f \in Fds : owner[f] # None => at[owner[f]] \in Open

\* As long as no cleanup has closed a descriptor that was closed before, a
\* connection has its own descriptor until its handler closes it.
OwnDescriptorUnlessClosedTwice ==
    (\A c \in Clients : at[c] # "again")
        => \A c \in Clients : at[c] \in Open => client_fd[c] \in Fds /\ owner[client_fd[c]] = c

\* What the comments on the early closes claim: a connection keeps its own
\* descriptor until its own handler closes it.
OwnDescriptor ==
    \A c \in Clients : at[c] \in Open => client_fd[c] \in Fds /\ owner[client_fd[c]] = c

\* If no worker ever left for idleness, the pool is freed only when every
\* worker has exited and every accepted connection has been served.
DrainedWhenFreed ==
    destroyer = "freed" /\ In("expired") = {}
        => LiveWorkers = {} /\ \A c \in Clients : at[c] \in Final \cup {"none"}

\* Every accepted connection is served to its end, unless the pool is freed
\* under it after an idle exit.
AcceptedIsServed ==
    \A c \in Clients : at[c] = "queued" ~> at[c] \in Final \/ (destroyer = "freed" /\ In("expired") # {})

\* A requested shutdown completes: no join waits for ever.
ShutdownCompletes == shutdown_requested ~> destroyer = "freed"

\* The pool at every moment: its types, exact counters, no worker asleep while it is
\* needed, overflow threads only beside workers, and nothing left when it is freed.
PoolSound ==
    /\ TypeOK /\ CountersExact /\ SleepersNotNeeded /\ OverflowHasWorkers /\ DrainedWhenFreed

\* Connections: one handler each, no descriptor left open, and one that was not
\* closed twice still belongs to its connection.
DescriptorsSound ==
    /\ OneHandlerPerClient /\ NoDescriptorLeak /\ OwnDescriptorUnlessClosedTwice
===============================================================================
