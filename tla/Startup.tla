------------------------------ MODULE Startup -------------------------------
(* The processes that run main(): what each one initialises in which order,  *)
(* what a failed step leaves behind, who writes the PID file, who holds the  *)
(* port, and what the cleanup at exit frees.  Instances of the server are    *)
(* started one after the other, each in the background or in the foreground, *)
(* or to end the one that runs.                                              *)
EXTENDS ServerConfig

CONSTANTS MaxInstances  \* bound: instances started

ASSUME StartupAssumption == MaxInstances \in Nat

VARIABLES
    procs,    \* per instance: see Instance
    pidFile,  \* the instance whose process id is in the PID file, 0 for none
    port      \* the instance that listens on the port, 0 for none

startVars == <<procs, pidFile, port>>

\* What was asked for: --daemon (the default), --foreground or --terminate.
Modes == {"daemon", "foreground", "terminate"}

\* The steps of main() that can fail, in order, with what each registers.
Steps == <<"logger", "daemon", "socket", "database", "rate_limiter", "threads", "locks", "metrics", "rbac",
           "jwt_cache", "api", "run">>
Registers == [database |-> {"database"}, metrics |-> {"metrics"}, rbac |-> {"rbac"}, api |-> {"api"}]
RegisteredBy(step) == IF step \in DOMAIN Registers THEN Registers[step] ELSE {}

Instance(mode) ==
    [mode |-> mode, at |-> 1, type |-> "main", registered |-> {},
     cleanup |-> FALSE, state |-> "starting", freed |-> {}, rbacSaved |-> FALSE]

Live(p) == procs[p].state \in {"starting", "running"}

StartupInit == procs = <<>> /\ pidFile = 0 /\ port = 0

-----------------------------------------------------------------------------
\* init_config sets the error field for --terminate and returns INIT_OK:
\* main() looks for INIT_ERROR and goes on, without a registered configuration.
main(mode) ==
    /\ Len(procs) < MaxInstances /\ (\A p \in DOMAIN procs : procs[p].state # "starting")
    /\ procs' = Append(procs, Instance(mode))
    /\ UNCHANGED <<pidFile, port>>

\* The exit handler, which only acts in the server process: the permissions are
\* saved, what was registered is freed.
init_cleanup(q) ==
    IF q.cleanup /\ q.type = "server"
    THEN [q EXCEPT !.freed = q.registered, !.rbacSaved = {"rbac", "database"} \subseteq q.registered]
    ELSE q

Exited(q, state) == [init_cleanup(q) EXCEPT !.state = state]

\* The background is the default: only --foreground keeps the process.
Background(q) == q.mode # "foreground"

\* main() writes the file in the foreground, daemonize_process in the grandchild:
\* both do so before the port is known to be free.
WritesPid(q, step) == step = "daemon"

\* Two forks: the first process returns, the last one is the server.  In the
\* foreground main() does not call it, the branch for it is never taken.
init_daemon(q) == IF Background(q) THEN [q EXCEPT !.type = "server"] ELSE q

\* A step of main(): the cleanup is registered once the process is final.
Step(p) ==
    LET q == procs[p] step == Steps[q.at] IN
    /\ q.state = "starting" /\ step # "run"
    /\ step = "socket" => port = 0
    /\ procs' = [procs EXCEPT ![p] =
           [(IF step = "daemon" THEN init_daemon(q) ELSE q) EXCEPT
               !.at = @ + 1, !.registered = @ \cup RegisteredBy(step), !.cleanup = @ \/ step = "daemon"]]
    /\ pidFile' = IF WritesPid(q, step) THEN p ELSE pidFile
    /\ port' = IF step = "socket" THEN p ELSE port

\* A step that fails: the process returns 1 from main().  The child whose
\* second fork fails is not the server yet and has no cleanup.
StepFails(p) ==
    LET q == procs[p] IN
    /\ q.state = "starting"
    /\ Steps[q.at] = "daemon" => Background(q)
    /\ procs' = [procs EXCEPT ![p] = Exited(IF Steps[q.at] = "daemon" THEN [q EXCEPT !.type = "daemon_child"] ELSE q,
                                            "failed")]
    /\ port' = IF port = p THEN 0 ELSE port
    /\ UNCHANGED pidFile

run_server(p) ==
    /\ procs[p].state = "starting" /\ Steps[procs[p].at] = "run"
    /\ procs' = [procs EXCEPT ![p].state = "running"]
    /\ UNCHANGED <<pidFile, port>>

\* SIGTERM or SIGINT: the loop ends, main() returns, the file stays.
Shutdown(p) ==
    /\ procs[p].state = "running"
    /\ procs' = [procs EXCEPT ![p] = Exited(@, "stopped")]
    /\ port' = IF port = p THEN 0 ELSE port
    /\ UNCHANGED pidFile

StartupNext ==
    \/ \E mode \in Modes : main(mode)
    \/ \E p \in DOMAIN procs : Step(p) \/ StepFails(p) \/ run_server(p) \/ Shutdown(p)

StartupSpec == StartupInit /\ [][StartupNext]_startVars

-----------------------------------------------------------------------------
(* Properties *)

PastDaemon(p) == procs[p].at > 2

\* Type correctness of the processes, the PID file and the port.
StartupTypeOK ==
    /\ \A p \in DOMAIN procs :
        /\ procs[p].mode \in Modes /\ procs[p].at \in DOMAIN Steps
        /\ procs[p].type \in {"main", "daemon_child", "server"}
        /\ procs[p].registered \subseteq {"database", "metrics", "rbac", "api"}
        /\ procs[p].freed \subseteq procs[p].registered
        /\ procs[p].state \in {"starting", "running", "failed", "stopped"}
    /\ pidFile \in 0 .. Len(procs) /\ port \in 0 .. Len(procs)

\* The PID file names the process that listens, unless one was started since
\* and got past daemonisation: that one has replaced the id, port or no port,
\* and --terminate is such a start.
PidFileNamesListener ==
    /\ port # 0 /\ (\A q \in DOMAIN procs : q > port => ~ PastDaemon(q)) => pidFile = port
    /\ \A q \in DOMAIN procs : PastDaemon(q) => pidFile >= q

\* The listener is the one that runs or is about to: a failed or stopped
\* instance has given the port back.
ListenerIsLive == port # 0 => Live(port)

\* An instance that ended freed what it had registered if it was a daemon, and
\* nothing, its permissions unsaved, if it ran in the foreground.
CleanupOnlyInBackground ==
    \A p \in DOMAIN procs : ~ Live(p) =>
        /\ procs[p].freed = (IF Background(procs[p]) THEN procs[p].registered ELSE {})
        /\ procs[p].rbacSaved => Background(procs[p])

\* Startup and shutdown of several instances.
StartupSound == StartupTypeOK /\ PidFileNamesListener /\ ListenerIsLive /\ CleanupOnlyInBackground

\* What the server is started with, and how it starts.
SettingsSound == ConfigSound /\ StartupSound
=============================================================================
