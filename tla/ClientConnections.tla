--------------------------- MODULE ClientConnections ---------------------------
(***************************************************************************)
(* Reference-counted client connections and their registry:                *)
(* core/client_connection.c.                                               *)
(*                                                                         *)
(* Threads create connections, hand references to each other, read, write  *)
(* and release; a janitor expires idle connections and shuts the registry  *)
(* down.  A read or write sets the state, copies the descriptor, blocks in *)
(* the system call without a lock and sets the state again: two steps.     *)
(* Registration takes no reference, but expiry and shutdown release one,   *)
(* and release it with manager_mutex held, which unregister takes: when    *)
(* that was the last reference the janitor waits for itself (mutex =       *)
(* "stuck").  A connection whose last reference is gone is freed; the      *)
(* model keeps its record to see who still uses it.                        *)
(***************************************************************************)
EXTENDS Naturals, FiniteSets

CONSTANTS
    CThreads,           \* threads
    Conns,              \* connections, each created at most once
    MaxRegistered,      \* g_connection_manager->max_connections
    MaxHeld,            \* bound on the references of a thread to a connection
    NoConn              \* no connection

ASSUME ConnAssumption == /\ NoConn \notin Conns /\ IsFiniteSet(CThreads)
                         /\ MaxRegistered \in Nat \ {0} /\ MaxHeld \in Nat \ {0}

VARIABLES
    conn,           \* per connection: [life, refs, state]
    chold,          \* references each thread was given to each connection
    cio,            \* connection each thread reads or writes, or NoConn
    cdying,         \* connections whose last reference is gone, not unregistered yet
    slots,          \* registered connections
    active_count,
    mutex,          \* manager_mutex: "free" or "stuck"
    manager,        \* g_connection_manager: TRUE if there is one
    idle,           \* connections without activity for the timeout
    swept           \* history: connections released by expiry or shutdown

connVarsC == <<conn, chold, cio, cdying, slots, active_count, mutex, manager, idle, swept>>

States == {"IDLE", "INITIALIZING", "ACTIVE", "READING", "PROCESSING", "WRITING", "CLOSING", "CLOSED", "ERROR"}

ConnInit ==
    /\ conn = [c \in Conns |-> [life |-> "new", refs |-> 0, state |-> "IDLE"]]
    /\ chold = [t \in CThreads |-> [c \in Conns |-> 0]]
    /\ cio = [t \in CThreads |-> NoConn]
    /\ cdying = {} /\ slots = {} /\ active_count = 0 /\ mutex = "free" /\ manager = TRUE
    /\ idle = {} /\ swept = {}

\* The states client_connection_set_state refuses from a state.
Refused(old) ==
    CASE old \in {"IDLE", "INITIALIZING"} -> States \ {"ACTIVE", "ERROR", "CLOSING"}
      [] old = "ACTIVE"     -> {}
      [] old = "READING"    -> {"INITIALIZING"}
      [] old = "PROCESSING" -> {"INITIALIZING", "READING"}
      [] old = "WRITING"    -> {"INITIALIZING", "READING", "PROCESSING"}
      [] OTHER              -> States \ {"CLOSED", old}

\* The state after a call of client_connection_set_state; a refused one changes nothing.
client_connection_set_state(old, new) == IF new \in Refused(old) THEN old ELSE new

client_connection_is_active(c) ==
    conn[c].life = "live" /\ conn[c].state \in {"ACTIVE", "READING", "PROCESSING", "WRITING"}

-----------------------------------------------------------------------------
(* References.                                                             *)

\* connection_manager_register: a slot, but no reference.
Register(c) ==
    /\ IF active_count < MaxRegistered
       THEN slots' = slots \cup {c} /\ active_count' = active_count + 1
       ELSE UNCHANGED <<slots, active_count>>
    /\ UNCHANGED mutex

\* A full registry lets the connection live unregistered.
client_connection_create(t, c) ==
    /\ conn[c].life = "new" /\ (manager => mutex = "free")
    /\ conn' = [conn EXCEPT ![c] = [life |-> "live", refs |-> 1, state |-> "ACTIVE"]]
    /\ chold' = [chold EXCEPT ![t][c] = 1]
    /\ IF manager THEN Register(c) ELSE UNCHANGED <<slots, active_count, mutex>>
    /\ UNCHANGED <<cio, cdying, manager, idle, swept>>

\* t, which holds a reference, takes another one for u.
client_connection_acquire(t, u, c) ==
    /\ chold[t][c] > 0 /\ cio[t] = NoConn /\ chold[u][c] < MaxHeld
    /\ conn[c].life = "live" /\ conn[c].refs > 0
    /\ conn' = [conn EXCEPT ![c].refs = @ + 1]
    /\ chold' = [chold EXCEPT ![u][c] = @ + 1]
    /\ UNCHANGED <<cio, cdying, slots, active_count, mutex, manager, idle, swept>>

\* Mutant: the connection is destroyed with the last reference but one.
Dying_early(c, n) == IF n = 1 THEN cdying \cup {c} ELSE cdying

\* Connections to destroy, when the count of c has come down to n.
Dying(c, n) == IF n = 0 THEN cdying \cup {c} ELSE cdying

\* The thread that brings the count to zero goes on to unregister and destroy; a count
\* below zero is only logged.
client_connection_release(t, c) ==
    /\ chold[t][c] > 0 /\ cio[t] = NoConn /\ conn[c].life = "live"
    /\ conn' = [conn EXCEPT ![c].refs = IF @ = 0 THEN 0 ELSE @ - 1]
    /\ cdying' = IF conn[c].refs = 0 THEN cdying ELSE Dying(c, conn[c].refs - 1)
    /\ chold' = [chold EXCEPT ![t][c] = @ - 1]
    /\ UNCHANGED <<cio, slots, active_count, mutex, manager, idle, swept>>

connection_manager_unregister(c) ==
    IF manager /\ c \in slots
    THEN slots' = slots \ {c} /\ active_count' = active_count - 1
    ELSE UNCHANGED <<slots, active_count>>

\* Unregister, then close the descriptor, free the buffers and the connection.
client_connection_destroy_internal(c) ==
    /\ c \in cdying /\ (manager => mutex = "free")
    /\ connection_manager_unregister(c)
    /\ conn' = [conn EXCEPT ![c].life = "freed", ![c].state = "CLOSED"]
    /\ cdying' = cdying \ {c}
    /\ UNCHANGED <<chold, cio, mutex, manager, idle, swept>>

-----------------------------------------------------------------------------
(* Reading and writing.                                                    *)

BeginIO(t, c, s) ==
    /\ cio[t] = NoConn /\ chold[t][c] > 0 /\ client_connection_is_active(c)
    /\ s \notin Refused(conn[c].state)
    /\ conn' = [conn EXCEPT ![c].state = s]
    /\ cio' = [cio EXCEPT ![t] = c] /\ idle' = idle \ {c}
    /\ UNCHANGED <<chold, cdying, slots, active_count, mutex, manager, swept>>

\* A timeout, EAGAIN or success ends in ACTIVE, a failure in ERROR, the end of the
\* stream in CLOSING; each by set_state, which another thread's state may refuse.
EndIO(t, outcomes) ==
    /\ cio[t] # NoConn
    /\ \E s \in outcomes :
          conn' = IF conn[cio[t]].life = "live"
                  THEN [conn EXCEPT ![cio[t]].state = client_connection_set_state(@, s)] ELSE conn
    /\ cio' = [cio EXCEPT ![t] = NoConn]
    /\ UNCHANGED <<chold, cdying, slots, active_count, mutex, manager, idle, swept>>

client_connection_read(t)  == (\E c \in Conns : BeginIO(t, c, "READING")) \/ EndIO(t, {"ACTIVE", "ERROR", "CLOSING"})
client_connection_write(t) == (\E c \in Conns : BeginIO(t, c, "WRITING")) \/ EndIO(t, {"ACTIVE", "ERROR"})

-----------------------------------------------------------------------------
(* The registry.                                                           *)

\* Time passes without activity on a connection.
Idles(c) ==
    /\ conn[c].life = "live" /\ c \notin idle
    /\ idle' = idle \cup {c}
    /\ UNCHANGED <<conn, chold, cio, cdying, slots, active_count, mutex, manager, swept>>

\* One round of connection_manager_cleanup_expired: the release under the mutex.
connection_manager_cleanup_expired(c) ==
    /\ manager /\ mutex = "free" /\ c \in slots \cap idle
    /\ conn' = [conn EXCEPT ![c].state = client_connection_set_state(@, "CLOSING"),
                            ![c].refs = IF @ = 0 THEN 0 ELSE @ - 1]
    /\ mutex' = IF conn[c].refs = 1 THEN "stuck" ELSE "free"
    /\ slots' = slots \ {c} /\ active_count' = active_count - 1
    /\ swept' = swept \cup {c}
    /\ UNCHANGED <<chold, cio, cdying, manager, idle>>

\* connection_manager_shutdown: the same for every registered connection; the loop ends
\* at the first one whose last reference it releases.
connection_manager_shutdown ==
    /\ manager /\ mutex = "free"
    /\ LET last == {c \in slots : conn[c].refs = 1} IN
       \E done \in IF last = {} THEN {slots} ELSE {d \in SUBSET slots : Cardinality(d \cap last) = 1} :
         /\ conn' = [c \in Conns |->
                       IF c \in done
                       THEN [conn[c] EXCEPT !.state = client_connection_set_state(@, "CLOSING"),
                                            !.refs = IF @ = 0 THEN 0 ELSE @ - 1]
                       ELSE conn[c]]
         /\ swept' = swept \cup done
         /\ slots' = slots \ (done \ last)
         /\ IF last = {} THEN active_count' = 0 /\ manager' = FALSE /\ UNCHANGED mutex
            ELSE mutex' = "stuck" /\ UNCHANGED <<active_count, manager>>
    /\ UNCHANGED <<chold, cio, cdying, idle>>

ConnNext ==
    \/ \E t \in CThreads :
          \/ \E c \in Conns :
                \/ client_connection_create(t, c) \/ client_connection_release(t, c)
                \/ \E u \in CThreads : client_connection_acquire(t, u, c)
          \/ client_connection_read(t) \/ client_connection_write(t)
    \/ \E c \in Conns :
          \/ client_connection_destroy_internal(c) \/ Idles(c)
          \/ connection_manager_cleanup_expired(c)
    \/ connection_manager_shutdown

ConnSpec == ConnInit /\ [][ConnNext]_connVarsC

-----------------------------------------------------------------------------
(* Properties.                                                             *)

\* Types.
ConnTypeOK ==
    /\ conn \in [Conns -> [life : {"new", "live", "freed"}, refs : Nat, state : States]]
    /\ chold \in [CThreads -> [Conns -> 0 .. MaxHeld]] /\ cio \in [CThreads -> Conns \cup {NoConn}]
    /\ cdying \subseteq Conns /\ slots \subseteq Conns /\ idle \subseteq Conns /\ swept \subseteq Conns
    /\ active_count \in 0 .. MaxRegistered /\ mutex \in {"free", "stuck"} /\ manager \in BOOLEAN

Users(c) == {t \in CThreads : chold[t][c] > 0}

\* Nobody who was given a reference finds the connection freed: not while it reads or
\* writes with the copied descriptor either.  Except after expiry or shutdown, which
\* release a reference that registration never took.
FreedUnreferenced ==
    \A c \in Conns : conn[c].life = "freed" /\ c \notin swept =>
        Users(c) = {} /\ \A t \in CThreads : cio[t] # c

\* The registry holds no connection that was freed, and active_count counts its slots:
\* what expiry scans is alive.
RegistryLive ==
    /\ \A c \in slots : conn[c].life = "live"
    /\ mutex = "free" => active_count = Cardinality(slots)

\* The registry's mutex is lost only in the janitor's release of a last reference.
MutexLostOnlyInSweep ==
    mutex = "stuck" => \E c \in swept : conn[c].refs = 0 /\ conn[c].life = "live"

\* A connection on its way down stays down: no late end of a read or write of another
\* thread makes a connection active that is closing, closed or in error.
DownStaysDown ==
    [][\A c \in Conns : conn[c].state \in {"CLOSING", "CLOSED", "ERROR"}
         => conn'[c].state \in {"CLOSED", conn[c].state}]_connVarsC

\* Connections: freed only when nobody refers to them, registered ones alive, the
\* mutex lost nowhere but in the expiry scan, and no way back from closing.
ConnectionsSound ==
    /\ [](ConnTypeOK /\ FreedUnreferenced /\ RegistryLive /\ MutexLostOnlyInSweep)
    /\ DownStaysDown
===============================================================================
