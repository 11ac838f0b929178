------------------------------ MODULE ThreadPool ------------------------------
(***************************************************************************)
(* The worker pool of components/core/thread_pool.c.                       *)
(*                                                                         *)
(* Every section between a lock and the unlock (or the wait that releases  *)
(* it) is one step.  A worker stands at the lock ("ready", or "timedout"   *)
(* when its timed wait expired), sleeps in pthread_cond_timedwait          *)
(* ("asleep"), runs a work item ("running"), has seen the shutdown flag    *)
(* ("done"), or has left because it was idle for too long ("expired").  A  *)
(* spurious wake-up is a time-out after which the idle time is too short.  *)
(* An id is never used again: a worker is not detached and its id is not   *)
(* reused before it is joined.                                             *)
(*                                                                         *)
(* The module has no next-state relation of its own: Server submits the    *)
(* work, runs it and destroys the pool.  thread_pool_wait and              *)
(* thread_pool_adjust have no callers.                                     *)
(***************************************************************************)
EXTENDS Integers, Sequences, FiniteSets

CONSTANTS
    MaxWorkers,  \* bound on the threads created in a lifetime
    MaxClients,  \* bound on the work items submitted
    MinThreads, MaxThreads,
    MaxQueue     \* config->queue_size

ASSUME PoolAssumption ==
    /\ MinThreads \in Nat \ {0} /\ MaxThreads \in Nat /\ MinThreads =< MaxThreads
    /\ MaxQueue \in Nat \ {0}
    /\ MaxWorkers \in Nat /\ MinThreads =< MaxWorkers
    /\ MaxClients \in Nat

Workers == 1..MaxWorkers   \* thread ids, in the order of creation
Clients == 1..MaxClients   \* work arguments, in the order of submission
None == 0                  \* no thread, no work item

VARIABLES
    work,            \* the work queue, head first
    worker,          \* what each worker is doing
    task,            \* the work item a worker runs
    threads,         \* pool->threads
    thread_count,
    active_threads,
    shutdown,
    destroyer,       \* thread_pool_destroy: not called, joining, pool freed
    joined           \* threads joined by it

poolVars == <<work, worker, task, threads, thread_count, active_threads, shutdown, destroyer, joined>>

WorkerStates == {"none", "ready", "asleep", "timedout", "running", "done", "expired"}

In(s) == {t \in Workers : worker[t] = s}

\* Threads that still use the pool.
LiveWorkers == {t \in Workers : worker[t] \in {"ready", "asleep", "timedout", "running"}}

AtLock(t) == worker[t] \in {"ready", "timedout"}

PoolTypeOK ==
    /\ work \in Seq(Clients)
    /\ worker \in [Workers -> WorkerStates]
    /\ task \in [Workers -> Clients \cup {None}]
    /\ threads \in [1..MaxThreads -> Workers \cup {None}]
    /\ thread_count \in MinThreads..MaxThreads
    /\ active_threads \in Nat
    /\ shutdown \in BOOLEAN
    /\ destroyer \in {"none", "joining", "freed"}
    /\ joined \in 0..MaxThreads

\* thread_pool_create_config, when every pthread_create succeeds.
thread_pool_create_config ==
    /\ worker = [t \in Workers |-> IF t =< MinThreads THEN "ready" ELSE "none"]
    /\ threads = [i \in 1..MaxThreads |-> IF i =< MinThreads THEN i ELSE None]
    /\ work = << >> /\ task = [t \in Workers |-> None]
    /\ thread_count = MinThreads /\ active_threads = 0
    /\ shutdown = FALSE /\ destroyer = "none" /\ joined = 0

\* Mutant: the condition is never signalled.
SignalNobody(w) == worker' = w

\* pthread_cond_signal: one sleeper, if there is one, gets in line for the lock.
Signal(w) ==
    \/ /\ \A t \in Workers : w[t] # "asleep"
       /\ worker' = w
    \/ \E t \in Workers : w[t] = "asleep" /\ worker' = [w EXCEPT ![t] = "ready"]

QueueFull == Len(work) >= MaxQueue

\* A full queue gets one more thread, and the item is queued all the same.
SpawnWorker(t) ==
    /\ thread_count < MaxThreads
    /\ worker[t] = "none" /\ \A u \in 1..(t - 1) : worker[u] # "none"
    /\ thread_count' = thread_count + 1
    /\ threads' = [threads EXCEPT ![thread_count + 1] = t]
    /\ Signal([worker EXCEPT ![t] = "ready"])

thread_pool_add_work(c) ==
    /\ ~shutdown
    /\ \/ ~QueueFull /\ Signal(worker) /\ UNCHANGED <<threads, thread_count>>
       \/ QueueFull /\ \E t \in Workers : SpawnWorker(t)
    /\ work' = Append(work, c)
    /\ UNCHANGED <<task, active_threads, shutdown, destroyer, joined>>

\* The timed wait ends; the worker still has to take the lock.
WaitTimesOut(t) ==
    /\ worker[t] = "asleep"
    /\ worker' = [worker EXCEPT ![t] = "timedout"]
    /\ UNCHANGED <<work, task, threads, thread_count, active_threads, shutdown, destroyer, joined>>

MayExpire == thread_count > MinThreads

\* An idle worker leaves, whether or not work has arrived meanwhile.  Its id
\* stays in threads.
IdleExit(t) ==
    /\ worker[t] = "timedout" /\ MayExpire
    /\ worker' = [worker EXCEPT ![t] = "expired"]
    /\ thread_count' = thread_count - 1
    /\ UNCHANGED <<work, task, threads, active_threads, shutdown, destroyer, joined>>

WaitForWork(t) ==
    /\ AtLock(t) /\ work = << >> /\ ~shutdown
    /\ worker' = [worker EXCEPT ![t] = "asleep"]
    /\ UNCHANGED <<work, task, threads, thread_count, active_threads, shutdown, destroyer, joined>>

MayLeave == shutdown /\ work = << >>

ShutdownExit(t) ==
    /\ AtLock(t) /\ MayLeave
    /\ worker' = [worker EXCEPT ![t] = "done"]
    /\ UNCHANGED <<work, task, threads, thread_count, active_threads, shutdown, destroyer, joined>>

TakeWork(t) ==
    /\ AtLock(t) /\ work # << >>
    /\ task' = [task EXCEPT ![t] = Head(work)]
    /\ work' = Tail(work)
    /\ worker' = [worker EXCEPT ![t] = "running"]
    /\ active_threads' = active_threads + 1
    /\ UNCHANGED <<threads, thread_count, shutdown, destroyer, joined>>

\* The work function has returned.
FinishWork(t) ==
    /\ worker[t] = "running"
    /\ task' = [task EXCEPT ![t] = None]
    /\ worker' = [worker EXCEPT ![t] = "ready"]
    /\ active_threads' = active_threads - 1
    /\ UNCHANGED <<work, threads, thread_count, shutdown, destroyer, joined>>

\* Mutant: one worker is woken instead of all.
BeginDestroySignals ==
    /\ destroyer = "none"
    /\ destroyer' = "joining" /\ shutdown' = TRUE
    /\ Signal(worker)
    /\ UNCHANGED <<work, task, threads, thread_count, active_threads, joined>>

\* thread_pool_destroy, first part: set the flag and wake everybody.
BeginDestroy ==
    /\ destroyer = "none"
    /\ destroyer' = "joining" /\ shutdown' = TRUE
    /\ worker' = [t \in Workers |-> IF worker[t] = "asleep" THEN "ready" ELSE worker[t]]
    /\ UNCHANGED <<work, task, threads, thread_count, active_threads, joined>>

\* One turn of the join loop; thread_count is read without the lock each time.
JoinNext ==
    /\ destroyer = "joining" /\ joined < thread_count
    /\ worker[threads[joined + 1]] \in {"done", "expired"}
    /\ joined' = joined + 1
    /\ UNCHANGED <<work, worker, task, threads, thread_count, active_threads, shutdown, destroyer>>

AllJoined == joined >= thread_count

\* The loop is over: the remaining work items and the pool are freed.
FreePool ==
    /\ destroyer = "joining" /\ AllJoined
    /\ destroyer' = "freed" /\ work' = << >>
    /\ UNCHANGED <<worker, task, threads, thread_count, active_threads, shutdown, joined>>
===============================================================================
