----------------------------- MODULE ServerProofs -----------------------------
(***************************************************************************)
(* Proofs about Server: for any pool size, queue limit and number of       *)
(* connections and descriptors the pool's counters are exact, no wake-up   *)
(* is lost, the queue's overflow is bounded, each connection has one       *)
(* handler, no descriptor leaks, and a pool whose workers never left is    *)
(* freed only when it is drained.                                          *)
(*                                                                         *)
(* And about what comes before: settings have their documented source      *)
(* (ServerConfig), and the PID file names the listener (Startup).          *)
(***************************************************************************)
EXTENDS Server, Startup, FiniteSetTheorems, SequenceTheorems, WellFoundedInduction, TLAPS

\* The steps of the pool, whoever takes them.
WorkerStep(t) ==
    \/ WaitTimesOut(t) \/ IdleExit(t) \/ WaitForWork(t)
    \/ ShutdownExit(t) \/ TakeWork(t) \/ FinishWork(t)

PoolStep ==
    \/ \E c \in Clients : thread_pool_add_work(c)
    \/ \E t \in Workers : WorkerStep(t)
    \/ BeginDestroy \/ JoinNext \/ FreePool

\* Threads in one of the given states.
Count(w, S) == Cardinality({t \in Workers : w[t] \in S})

\* Threads thread_count stands for.
Staying == {"ready", "asleep", "timedout", "running", "done"}

\* The three counts the pool's invariant is about.
StayingCount(w) == Count(w, Staying)
ReadyCount(w) == Count(w, {"ready"})
RunningCount(w) == Count(w, {"running"})

Sleeper(w) == \E t \in Workers : w[t] = "asleep"

\* The invariant of the pool's scheduling, in terms of Count.
SchedInv ==
    /\ PoolTypeOK
    /\ thread_count = StayingCount(worker)
    /\ active_threads = RunningCount(worker)
    /\ Sleeper(worker) => Len(work) =< ReadyCount(worker)
    /\ Len(work) =< MaxQueue + ReadyCount(worker)

-------------------------------------------------------------------------------
(* Counting threads.                                                       *)

\* A count of threads is a natural number.
LEMMA CountNat ==
    ASSUME NEW w, NEW S
    PROVE  /\ IsFiniteSet({t \in Workers : w[t] \in S})
           /\ Count(w, S) \in Nat
<1>1. IsFiniteSet(Workers)
  BY PoolAssumption, FS_Interval DEF Workers
<1>2. IsFiniteSet({t \in Workers : w[t] \in S})
  BY <1>1, FS_Subset, {t \in Workers : w[t] \in S} \in SUBSET Workers
<1> QED
  BY <1>2, FS_CardinalityType DEF Count

\* The same for the three counts.
LEMMA CountsNat ==
    ASSUME NEW w
    PROVE  StayingCount(w) \in Nat /\ ReadyCount(w) \in Nat /\ RunningCount(w) \in Nat
  BY CountNat DEF StayingCount, ReadyCount, RunningCount

\* What one thread's change of state does to a count.
LEMMA Move ==
    ASSUME NEW w, NEW v, NEW t \in Workers, NEW S,
           \A u \in Workers : u # t => v[u] = w[u]
    PROVE  Count(v, S) = Count(w, S) + (IF v[t] \in S THEN 1 ELSE 0) - (IF w[t] \in S THEN 1 ELSE 0)
<1> DEFINE A == {u \in Workers : w[u] \in S}
           B == {u \in Workers : v[u] \in S}
<1>1. IsFiniteSet(A) /\ Cardinality(A) \in Nat
  BY CountNat DEF Count
<1>2. ASSUME v[t] \in S, w[t] \notin S PROVE Cardinality(B) = Cardinality(A) + 1
  BY <1>2, <1>1, FS_AddElement
<1>3. ASSUME v[t] \notin S, w[t] \in S PROVE Cardinality(B) = Cardinality(A) - 1
  <2>1. B = A \ {t} /\ t \in A
    BY <1>3
  <2> QED
    BY <2>1, <1>1, FS_RemoveElement
<1>4. ASSUME v[t] \in S <=> w[t] \in S PROVE Cardinality(B) = Cardinality(A)
  BY <1>4
<1> QED
  BY <1>1, <1>2, <1>3, <1>4 DEF Count

\* The same for the three counts.
LEMMA MoveCounts ==
    ASSUME NEW w, NEW v, NEW t \in Workers,
           \A u \in Workers : u # t => v[u] = w[u]
    PROVE  /\ StayingCount(w) \in Nat /\ ReadyCount(w) \in Nat /\ RunningCount(w) \in Nat
           /\ StayingCount(v) \in Nat /\ ReadyCount(v) \in Nat /\ RunningCount(v) \in Nat
           /\ StayingCount(v) = StayingCount(w) + (IF v[t] \in Staying THEN 1 ELSE 0) - (IF w[t] \in Staying THEN 1 ELSE 0)
           /\ ReadyCount(v) = ReadyCount(w) + (IF v[t] = "ready" THEN 1 ELSE 0) - (IF w[t] = "ready" THEN 1 ELSE 0)
           /\ RunningCount(v) = RunningCount(w) + (IF v[t] = "running" THEN 1 ELSE 0) - (IF w[t] = "running" THEN 1 ELSE 0)
<1>1. ASSUME NEW S
      PROVE  Count(v, S) = Count(w, S) + (IF v[t] \in S THEN 1 ELSE 0) - (IF w[t] \in S THEN 1 ELSE 0)
  BY Move
<1>2. Count(v, {"ready"}) = Count(w, {"ready"}) + (IF v[t] \in {"ready"} THEN 1 ELSE 0) - (IF w[t] \in {"ready"} THEN 1 ELSE 0)
  BY <1>1
<1>3. Count(v, {"running"}) = Count(w, {"running"}) + (IF v[t] \in {"running"} THEN 1 ELSE 0) - (IF w[t] \in {"running"} THEN 1 ELSE 0)
  BY <1>1
<1>4. Count(v, Staying) = Count(w, Staying) + (IF v[t] \in Staying THEN 1 ELSE 0) - (IF w[t] \in Staying THEN 1 ELSE 0)
  BY <1>1
<1> QED
  BY <1>2, <1>3, <1>4, CountsNat DEF StayingCount, ReadyCount, RunningCount

\* pthread_cond_signal wakes one sleeper or finds none.
LEMMA SignalEffect ==
    ASSUME NEW w, w \in [Workers -> WorkerStates], Signal(w)
    PROVE  /\ worker' \in [Workers -> WorkerStates]
           /\ StayingCount(worker') = StayingCount(w)
           /\ RunningCount(worker') = RunningCount(w)
           /\ \/ ~Sleeper(worker') /\ ReadyCount(worker') = ReadyCount(w)
              \/ Sleeper(w) /\ ReadyCount(worker') = ReadyCount(w) + 1
<1>1. CASE worker' = w /\ \A t \in Workers : w[t] # "asleep"
  BY <1>1 DEF Sleeper
<1>2. ASSUME NEW t \in Workers, w[t] = "asleep", worker' = [w EXCEPT ![t] = "ready"]
      PROVE  /\ worker' \in [Workers -> WorkerStates]
             /\ StayingCount(worker') = StayingCount(w)
             /\ RunningCount(worker') = RunningCount(w)
             /\ Sleeper(w) /\ ReadyCount(worker') = ReadyCount(w) + 1
  <2>1. "ready" \in WorkerStates /\ "ready" \in Staying /\ "asleep" \in Staying
    BY DEF WorkerStates, Staying
  <2>2. /\ worker' \in [Workers -> WorkerStates] /\ worker'[t] = "ready"
        /\ \A u \in Workers : u # t => worker'[u] = w[u]
    BY <1>2, <2>1
  <2>3. /\ StayingCount(worker') = StayingCount(w)
        /\ RunningCount(worker') = RunningCount(w)
        /\ ReadyCount(worker') = ReadyCount(w) + 1
    <3>1. w[t] = "asleep"
      BY <1>2
    <3> HIDE <1>2
    <3> QED
      BY <2>1, <2>2, <3>1, MoveCounts
  <2> QED
    BY <1>2, <2>2, <2>3 DEF Sleeper
<1> QED
  BY <1>1, <1>2 DEF Signal

-------------------------------------------------------------------------------
(* Every step of the server is a step of the pool or leaves the pool alone. *)

\* So an invariant of the pool alone needs looking at PoolStep only.
LEMMA StepOfPool ==
    ASSUME Next
    PROVE  (destroyer # "freed" /\ PoolStep) \/ UNCHANGED poolVars
<1>1. CASE destroyer # "freed" /\ AcceptLoop
  BY <1>1 DEF AcceptLoop, Poll, LeaveLoop, JoinOrFree, AcceptClient, RejectClient, PoolStep
<1>2. CASE destroyer # "freed" /\ RequestShutdown
  BY <1>2 DEF RequestShutdown
<1>3. ASSUME destroyer # "freed", NEW t \in Workers, thread_worker(t) \/ WaitExpires(t)
      PROVE  (destroyer # "freed" /\ PoolStep) \/ UNCHANGED poolVars
  BY <1>3 DEF thread_worker, WaitExpires, StartHandler, EndHandler, handle_client, PoolStep, WorkerStep
<1>4. CASE Terminated
  BY <1>4 DEF Terminated, vars
<1> QED
  BY <1>1, <1>2, <1>3, <1>4 DEF Next

-------------------------------------------------------------------------------
(* Scheduling: counters, wake-ups and the queue's overflow.                *)

\* The pool starts with min_threads workers at the lock and an empty queue.
LEMMA SchedInit == ASSUME Init PROVE SchedInv
<1> USE PoolAssumption
<1>1. /\ worker = [t \in Workers |-> IF t =< MinThreads THEN "ready" ELSE "none"]
      /\ work = << >> /\ thread_count = MinThreads /\ active_threads = 0
  BY DEF Init, thread_pool_create_config
<1>2. PoolTypeOK
  <2>1. MinThreads \in MinThreads..MaxThreads /\ 0 \in 0..MaxThreads
    OBVIOUS
  <2>2. threads \in [1..MaxThreads -> Workers \cup {None}]
    BY DEF Init, thread_pool_create_config, Workers
  <2>3. worker \in [Workers -> WorkerStates] /\ task \in [Workers -> Clients \cup {None}]
    BY <1>1 DEF Init, thread_pool_create_config, WorkerStates
  <2>4. work \in Seq(Clients) /\ active_threads \in Nat
    BY <1>1
  <2> QED
    BY <2>1, <2>2, <2>3, <2>4 DEF Init, thread_pool_create_config, PoolTypeOK
<1>3. StayingCount(worker) = MinThreads
  <2>1. {t \in Workers : worker[t] \in Staying} = 1..MinThreads
    BY <1>1 DEF Workers, Staying
  <2>2. Cardinality(1..MinThreads) = MinThreads
    BY FS_Interval
  <2> QED
    BY <2>1, <2>2 DEF StayingCount, Count
<1>4. RunningCount(worker) = 0
  BY <1>1, FS_EmptySet DEF RunningCount, Count
<1>5. ~Sleeper(worker)
  BY <1>1 DEF Sleeper
<1>6. ReadyCount(worker) \in Nat
  BY CountsNat
<1> QED
  BY <1>1, <1>2, <1>3, <1>4, <1>5, <1>6 DEF SchedInv

\* One worker's step.
LEMMA SchedWorker ==
    ASSUME SchedInv, NEW t \in Workers, WorkerStep(t)
    PROVE  SchedInv'
<1> USE PoolAssumption
<1> DEFINE R == ReadyCount(worker)
           U == RunningCount(worker)
           K == StayingCount(worker)
<1>1. /\ R \in Nat /\ U \in Nat /\ K \in Nat
      /\ PoolTypeOK /\ worker \in [Workers -> WorkerStates] /\ work \in Seq(Clients)
      /\ Len(work) \in Nat
  BY CountsNat DEF SchedInv, PoolTypeOK
<1>2. /\ Staying \cup {"expired"} \subseteq WorkerStates
      /\ Staying = {"ready", "asleep", "timedout", "running", "done"}
  BY DEF WorkerStates, Staying
<1>3. CASE WaitTimesOut(t)
  <2>1. /\ worker[t] = "asleep" /\ worker'[t] = "timedout"
        /\ \A u \in Workers : u # t => worker'[u] = worker[u]
        /\ worker' \in [Workers -> WorkerStates]
    BY <1>1, <1>2, <1>3 DEF WaitTimesOut
  <2>2. StayingCount(worker') = K
    BY <1>2, <2>1, MoveCounts
  <2>3. RunningCount(worker') = U /\ ReadyCount(worker') = R
    BY <2>1, MoveCounts
  <2>4. PoolTypeOK'
    BY <1>1, <1>2, <1>3, <2>1 DEF WaitTimesOut, PoolTypeOK
  <2>5. Sleeper(worker') => Sleeper(worker)
    BY <2>1 DEF Sleeper
  <2> QED
    BY <1>1, <1>3, <2>2, <2>3, <2>4, <2>5 DEF WaitTimesOut, SchedInv
<1>4. CASE IdleExit(t)
  <2>1. /\ worker[t] = "timedout" /\ worker'[t] = "expired"
        /\ \A u \in Workers : u # t => worker'[u] = worker[u]
        /\ worker' \in [Workers -> WorkerStates]
    BY <1>1, <1>2, <1>4 DEF IdleExit
  <2>2. StayingCount(worker') = K - 1
    BY <1>2, <2>1, MoveCounts
  <2>3. RunningCount(worker') = U /\ ReadyCount(worker') = R
    BY <2>1, MoveCounts
  <2>4. PoolTypeOK'
    BY <1>1, <1>2, <1>4, <2>1 DEF IdleExit, MayExpire, PoolTypeOK
  <2>5. Sleeper(worker') => Sleeper(worker)
    BY <2>1 DEF Sleeper
  <2> QED
    BY <1>1, <1>4, <2>2, <2>3, <2>4, <2>5 DEF IdleExit, SchedInv
<1>5. CASE WaitForWork(t)
  <2>1. /\ worker[t] \in {"ready", "timedout"} /\ worker'[t] = "asleep"
        /\ \A u \in Workers : u # t => worker'[u] = worker[u]
        /\ worker' \in [Workers -> WorkerStates]
    BY <1>1, <1>2, <1>5 DEF WaitForWork, AtLock
  <2>2. StayingCount(worker') = K
    BY <1>2, <2>1, MoveCounts
  <2>3. RunningCount(worker') = U /\ ReadyCount(worker') \in Nat
    BY <2>1, MoveCounts
  <2>4. PoolTypeOK'
    BY <1>1, <1>2, <1>5, <2>1 DEF WaitForWork, PoolTypeOK
  <2>5. work' = << >> /\ Len(work') = 0
    BY <1>5 DEF WaitForWork
  <2> QED
    BY <1>1, <1>5, <2>2, <2>3, <2>4, <2>5 DEF WaitForWork, SchedInv
<1>6. CASE ShutdownExit(t)
  <2>1. /\ worker[t] \in {"ready", "timedout"} /\ worker'[t] = "done"
        /\ \A u \in Workers : u # t => worker'[u] = worker[u]
        /\ worker' \in [Workers -> WorkerStates]
    BY <1>1, <1>2, <1>6 DEF ShutdownExit, AtLock
  <2>2. StayingCount(worker') = K
    BY <1>2, <2>1, MoveCounts
  <2>3. RunningCount(worker') = U /\ ReadyCount(worker') \in Nat
    BY <2>1, MoveCounts
  <2>4. PoolTypeOK'
    BY <1>1, <1>2, <1>6, <2>1 DEF ShutdownExit, PoolTypeOK
  <2>5. work' = << >> /\ Len(work') = 0
    BY <1>6 DEF ShutdownExit, MayLeave
  <2> QED
    BY <1>1, <1>6, <2>2, <2>3, <2>4, <2>5 DEF ShutdownExit, SchedInv
<1>7. CASE TakeWork(t)
  <2>1. /\ worker[t] \in {"ready", "timedout"} /\ worker'[t] = "running"
        /\ \A u \in Workers : u # t => worker'[u] = worker[u]
        /\ worker' \in [Workers -> WorkerStates]
    BY <1>1, <1>2, <1>7 DEF TakeWork, AtLock
  <2>2. StayingCount(worker') = K
    BY <1>2, <2>1, MoveCounts
  <2>3. RunningCount(worker') = U + 1 /\ ReadyCount(worker') \in {R - 1, R}
    <3>1. RunningCount(worker') = U + 1
      BY <2>1, MoveCounts
    <3>2. ReadyCount(worker') \in {R - 1, R}
      BY <2>1, MoveCounts
    <3> QED
      BY <3>1, <3>2
  <2>4. /\ work' \in Seq(Clients) /\ Len(work') = Len(work) - 1
        /\ Head(work) \in Clients
    BY <1>1, <1>7 DEF TakeWork
  <2>5. PoolTypeOK'
    BY <1>1, <1>2, <1>7, <2>1, <2>4 DEF TakeWork, PoolTypeOK
  <2>6. Sleeper(worker') => Sleeper(worker)
    BY <2>1 DEF Sleeper
  <2> QED
    BY <1>1, <1>7, <2>2, <2>3, <2>4, <2>5, <2>6 DEF TakeWork, SchedInv
<1>8. CASE FinishWork(t)
  <2>1. /\ worker[t] = "running" /\ worker'[t] = "ready"
        /\ \A u \in Workers : u # t => worker'[u] = worker[u]
        /\ worker' \in [Workers -> WorkerStates]
    BY <1>1, <1>2, <1>8 DEF FinishWork
  <2>2. StayingCount(worker') = K
    BY <1>2, <2>1, MoveCounts
  <2>3. RunningCount(worker') = U - 1 /\ ReadyCount(worker') = R + 1
    BY <2>1, MoveCounts
  <2>4. active_threads' = RunningCount(worker') /\ active_threads' \in Nat
    BY <1>8, <2>1, <2>3, MoveCounts DEF FinishWork, SchedInv
  <2>5. PoolTypeOK'
    BY <1>1, <1>2, <1>8, <2>1, <2>4 DEF FinishWork, PoolTypeOK
  <2>6. Sleeper(worker') => Sleeper(worker)
    BY <2>1 DEF Sleeper
  <2> QED
    BY <1>1, <1>8, <2>2, <2>3, <2>4, <2>5, <2>6 DEF FinishWork, SchedInv
<1> QED
  BY <1>3, <1>4, <1>5, <1>6, <1>7, <1>8 DEF WorkerStep

\* Submitting an item, with or without a new thread.
LEMMA SchedAdd ==
    ASSUME SchedInv, NEW c \in Clients, thread_pool_add_work(c)
    PROVE  SchedInv'
<1> USE PoolAssumption
<1>1. /\ worker \in [Workers -> WorkerStates] /\ work \in Seq(Clients) /\ Len(work) \in Nat
      /\ PoolTypeOK
  BY DEF SchedInv, PoolTypeOK
<1>2. work' \in Seq(Clients) /\ Len(work') = Len(work) + 1
  BY <1>1 DEF thread_pool_add_work
<1>3. /\ StayingCount(worker) \in Nat /\ RunningCount(worker) \in Nat /\ ReadyCount(worker) \in Nat
      /\ StayingCount(worker') \in Nat /\ RunningCount(worker') \in Nat /\ ReadyCount(worker') \in Nat
  BY CountsNat
<1>4. CASE ~QueueFull /\ Signal(worker) /\ UNCHANGED <<threads, thread_count>>
  BY <1>1, <1>4, SignalEffect, <1>2, <1>3 DEF thread_pool_add_work, PoolTypeOK, QueueFull, SchedInv
<1>5. ASSUME NEW t \in Workers, SpawnWorker(t) PROVE SchedInv'
  <2> DEFINE w == [worker EXCEPT ![t] = "ready"]
  <2>1. /\ worker[t] = "none" /\ w[t] = "ready"
        /\ \A u \in Workers : u # t => w[u] = worker[u]
        /\ w \in [Workers -> WorkerStates]
        /\ Signal(w) /\ thread_count' = thread_count + 1 /\ thread_count < MaxThreads
    BY <1>1, <1>5 DEF SpawnWorker, WorkerStates
  <2>2. Sleeper(w) => Sleeper(worker)
    BY <2>1 DEF Sleeper
  <2> HIDE DEF w
  <2>3. "ready" \in Staying /\ "none" \notin Staying
    BY DEF Staying
  <2>4. StayingCount(w) = StayingCount(worker) + 1
    BY <2>1, <2>3, MoveCounts
  <2>5. RunningCount(w) = RunningCount(worker)
    BY <2>1, MoveCounts
  <2>6. ReadyCount(w) = ReadyCount(worker) + 1
    BY <2>1, MoveCounts
  <2>7. /\ worker' \in [Workers -> WorkerStates]
        /\ StayingCount(worker') = StayingCount(w)
        /\ RunningCount(worker') = RunningCount(w)
        /\ \/ ~Sleeper(worker') /\ ReadyCount(worker') = ReadyCount(w)
           \/ Sleeper(w) /\ ReadyCount(worker') = ReadyCount(w) + 1
    BY <2>1, SignalEffect
  <2>8. PoolTypeOK'
    BY <1>1, <1>5, <2>1, <1>2, <2>7 DEF SpawnWorker, PoolTypeOK, thread_pool_add_work
  <2>9. Sleeper(worker') => Len(work') =< ReadyCount(worker')
    BY <1>1, <1>2, <1>3, <2>2, <2>6, <2>7 DEF SchedInv
  <2>10. Len(work') =< MaxQueue + ReadyCount(worker')
    BY <1>1, <1>2, <1>3, <2>6, <2>7 DEF SchedInv
  <2> QED
    BY <2>1, <2>4, <2>5, <2>7, <2>8, <2>9, <2>10 DEF thread_pool_add_work, SchedInv
<1> QED
  BY <1>4, <1>5 DEF thread_pool_add_work

\* Destroying the pool.
LEMMA SchedDestroy ==
    ASSUME SchedInv, BeginDestroy \/ JoinNext \/ FreePool
    PROVE  SchedInv'
<1> USE PoolAssumption
<1>1. /\ worker \in [Workers -> WorkerStates] /\ work \in Seq(Clients) /\ Len(work) \in Nat
      /\ PoolTypeOK
  BY DEF SchedInv, PoolTypeOK
<1>2. /\ StayingCount(worker) \in Nat /\ RunningCount(worker) \in Nat /\ ReadyCount(worker) \in Nat
      /\ StayingCount(worker') \in Nat /\ RunningCount(worker') \in Nat /\ ReadyCount(worker') \in Nat
  BY CountsNat
<1>3. CASE BeginDestroy
  <2>1. worker' = [t \in Workers |-> IF worker[t] = "asleep" THEN "ready" ELSE worker[t]]
    BY <1>3 DEF BeginDestroy
  <2>2. ~Sleeper(worker')
    BY <2>1 DEF Sleeper
  <2>3. StayingCount(worker') = StayingCount(worker)
    BY <2>1 DEF Staying, StayingCount, Count
  <2>4. RunningCount(worker') = RunningCount(worker)
    BY <2>1 DEF RunningCount, Count
  <2>5. ReadyCount(worker) =< ReadyCount(worker')
    <3> DEFINE A == {t \in Workers : worker[t] \in {"ready"}}
               B == {t \in Workers : worker'[t] \in {"ready"}}
    <3>1. A \in SUBSET B
      BY <2>1
    <3>2. IsFiniteSet(B)
      BY CountNat
    <3> HIDE DEF A, B
    <3>3. Cardinality(A) =< Cardinality(B)
      BY <3>1, <3>2, FS_Subset
    <3> QED
      BY <3>3 DEF ReadyCount, Count, A, B
  <2>6. PoolTypeOK'
    BY <1>1, <1>3, <2>1 DEF BeginDestroy, PoolTypeOK, WorkerStates
  <2> QED
    BY <1>1, <1>2, <1>3, <2>2, <2>3, <2>4, <2>5, <2>6 DEF BeginDestroy, SchedInv
<1>4. CASE JoinNext
  BY <1>1, <1>4 DEF JoinNext, PoolTypeOK, SchedInv, Sleeper
<1>5. CASE FreePool
  BY <1>5, <1>1, <1>2 DEF FreePool, PoolTypeOK, SchedInv
<1> QED
  BY <1>3, <1>4, <1>5

\* Every step of the server keeps the pool's scheduling invariant.
THEOREM Scheduling == Spec => []SchedInv
<1>1. Init => SchedInv
  BY SchedInit
<1>2. SchedInv /\ [Next]_vars => SchedInv'
  <2> SUFFICES ASSUME SchedInv, [Next]_vars PROVE SchedInv'
    OBVIOUS
  <2>1. CASE PoolStep
    BY <2>1, SchedWorker, SchedAdd, SchedDestroy DEF PoolStep
  <2>2. CASE UNCHANGED poolVars
    BY <2>2 DEF poolVars, SchedInv, PoolTypeOK, Sleeper
  <2>3. CASE UNCHANGED vars
    BY <2>3, <2>2 DEF vars
  <2> QED
    BY <2>1, <2>2, <2>3, StepOfPool
<1> QED
  BY <1>1, <1>2, PTL DEF Spec

\* thread_count and active_threads are exact at every unlock.
THEOREM CountersCorrect == Spec => []CountersExact
<1>1. SchedInv => CountersExact
  <2> SUFFICES ASSUME SchedInv PROVE CountersExact
    OBVIOUS
  <2>1. PoolTypeOK /\ worker \in [Workers -> WorkerStates]
    BY DEF SchedInv, PoolTypeOK
  <2>2. {t \in Workers : worker[t] \notin {"none", "expired"}} = {t \in Workers : worker[t] \in Staying}
    BY <2>1 DEF WorkerStates, Staying
  <2>3. In("running") = {t \in Workers : worker[t] \in {"running"}}
    BY DEF In
  <2> QED
    BY <2>2, <2>3 DEF SchedInv, CountersExact, StayingCount, RunningCount, Count
<1> QED
  BY <1>1, Scheduling, PTL

\* No wake-up is lost: while a worker sleeps every queued item has a woken worker.
THEOREM NoLostWakeUp == Spec => []SleepersNotNeeded
<1>1. SchedInv => SleepersNotNeeded
  <2> SUFFICES ASSUME SchedInv PROVE SleepersNotNeeded
    OBVIOUS
  <2>1. In("ready") = {t \in Workers : worker[t] \in {"ready"}}
    BY DEF In
  <2>2. In("asleep") # {} => Sleeper(worker)
    BY DEF In, Sleeper
  <2> QED
    BY <2>1, <2>2 DEF SchedInv, SleepersNotNeeded, ReadyCount, Count
<1> QED
  BY <1>1, Scheduling, PTL

\* What is queued above the limit has a worker each at the lock.
THEOREM OverflowBounded == Spec => []OverflowHasWorkers
<1>1. SchedInv => OverflowHasWorkers
  <2> SUFFICES ASSUME SchedInv PROVE OverflowHasWorkers
    OBVIOUS
  <2>1. In("ready") = {t \in Workers : worker[t] \in {"ready"}}
    BY DEF In
  <2> QED
    BY <2>1 DEF SchedInv, OverflowHasWorkers, ReadyCount, Count
<1> QED
  BY <1>1, Scheduling, PTL
-------------------------------------------------------------------------------
(* Connections: each accepted one is in the queue or with one worker.      *)

\* Places inside handle_client.
Busy == {"setup", "read", "dispatch", "next", "cleanup", "shut"}

\* Places a handler can move its connection to.
Beyond == Busy \cup {"done", "again", "leaked"}

\* OneHandlerPerClient with the types, and that a worker runs while it has a task.
HandlerInv ==
    /\ PoolTypeOK
    /\ at \in [Clients -> Places]
    /\ OneHandlerPerClient
    /\ \A t \in Workers : worker[t] = "running" <=> task[t] # None

\* A step of handle_client moves the connection its worker serves, and only it.
LEMMA HandlerStep ==
    ASSUME HandlerInv, NEW t \in Workers, handle_client(t)
    PROVE  /\ worker[t] = "running" /\ task[t] \in Clients /\ at[task[t]] \in Busy
           /\ \E p \in Beyond : at' = [at EXCEPT ![task[t]] = p]
           /\ UNCHANGED poolVars
<1> DEFINE c == task[t]
<1>1. worker[t] = "running" /\ UNCHANGED poolVars
  BY DEF handle_client, SetUp, SetUpFails, SetUpReturns, ReadRequest, ReadFails, IncompleteBody,
         AnswerOptions, ServeStaticFile, Respond, ReadNext, ReadNextFails, Cleanup, Serving
<1>2. c \in Clients
  BY <1>1 DEF HandlerInv, PoolTypeOK
<1>3. /\ at[c] \in Busy
      /\ \E p \in Beyond : at' = [at EXCEPT ![c] = p]
  <2>1. CASE SetUp(t) \/ SetUpFails(t) \/ SetUpReturns(t)
    BY <2>1 DEF SetUp, SetUpFails, SetUpReturns, Serving, Go, Busy, Beyond
  <2>2. CASE ReadRequest(t) \/ ReadFails(t) \/ IncompleteBody(t)
    BY <2>2 DEF ReadRequest, ReadFails, IncompleteBody, Serving, Go, Busy, Beyond
  <2>3. CASE AnswerOptions(t) \/ ServeStaticFile(t)
    BY <2>3 DEF AnswerOptions, ServeStaticFile, Serving, Go, Busy, Beyond
  <2>4. CASE Respond(t) \/ ReadNextFails(t)
    BY <2>4 DEF Respond, ReadNextFails, Serving, Go, Busy, Beyond
  <2>5. CASE ReadNext(t)
    BY <2>5 DEF ReadNext, Serving, Go, Busy, Beyond
  <2>6. CASE Cleanup(t)
    BY <2>6 DEF Cleanup, Serving, Go, Busy, Beyond
  <2> QED
    BY <2>1, <2>2, <2>3, <2>4, <2>5, <2>6 DEF handle_client
<1> QED
  BY <1>1, <1>2, <1>3

\* Nothing is accepted at the start.
LEMMA HandlerInit == ASSUME Init PROVE HandlerInv
<1>1. PoolTypeOK
  BY SchedInit DEF SchedInv
<1>2. /\ at = [c \in Clients |-> "none"] /\ work = << >>
      /\ task = [t \in Workers |-> None]
      /\ \A t \in Workers : worker[t] # "running"
  BY DEF Init, thread_pool_create_config
<1>3. None \notin Clients
  BY DEF None, Clients
<1>4. OneHandlerPerClient
  BY <1>2, <1>3 DEF OneHandlerPerClient, Open
<1> QED
  BY <1>1, <1>2, <1>4 DEF HandlerInv, Places

\* The parts of the invariant a step must keep when the queue does not change.
LEMMA HandlerKept ==
    ASSUME HandlerInv, PoolTypeOK', UNCHANGED <<work, task>>,
           destroyer' = "freed" <=> destroyer = "freed",
           \A u \in Workers : worker'[u] = "running" <=> worker[u] = "running",
           \/ UNCHANGED at
           \/ \E c \in Clients :
                 /\ \E p \in Places : at' = [at EXCEPT ![c] = p]
                 /\ at[c] = "none" /\ at'[c] = "rejected"
           \/ \E t \in Workers :
                 /\ task[t] \in Clients /\ at[task[t]] \in Busy
                 /\ \E p \in Beyond : at' = [at EXCEPT ![task[t]] = p]
    PROVE  HandlerInv'
<1>1. None \notin Clients
  BY DEF None, Clients
<1>2. CASE UNCHANGED at
  BY <1>2 DEF HandlerInv, OneHandlerPerClient
<1>3. ASSUME NEW c \in Clients, NEW p \in Places, at' = [at EXCEPT ![c] = p],
             at[c] = "none", at'[c] = "rejected"
      PROVE  HandlerInv'
  BY <1>3 DEF HandlerInv, OneHandlerPerClient, Open
<1>4. ASSUME NEW t \in Workers, task[t] \in Clients, at[task[t]] \in Busy,
             NEW p \in Beyond, at' = [at EXCEPT ![task[t]] = p]
      PROVE  HandlerInv'
  <2> DEFINE c == task[t]
  <2>1. /\ at' \in [Clients -> Places] /\ at'[c] = p
        /\ \A d \in Clients : d # c => at'[d] = at[d]
    BY <1>4 DEF HandlerInv, Beyond, Busy, Places, Open, Final
  <2>2. p \notin {"none", "queued", "rejected"} /\ at[c] # "queued"
    BY <1>4 DEF Beyond, Busy
  <2>3. OneHandlerPerClient'
    BY <1>4, <2>1, <2>2 DEF HandlerInv, OneHandlerPerClient
  <2> QED
    BY <2>1, <2>3 DEF HandlerInv
<1> QED
  BY <1>2, <1>3, <1>4

\* An accepted connection goes to the end of the queue.
LEMMA HandlerAccept ==
    ASSUME HandlerInv, PoolTypeOK', NEW c \in Clients, AcceptClient(c), destroyer # "freed"
    PROVE  HandlerInv'
<1>1. /\ at[c] = "none" /\ at' = [at EXCEPT ![c] = "queued"]
      /\ work' = Append(work, c) /\ UNCHANGED <<task, destroyer>>
  BY DEF AcceptClient, Arrives, thread_pool_add_work
<1>2. \A u \in Workers : worker'[u] = "running" <=> worker[u] = "running"
  BY DEF AcceptClient, thread_pool_add_work, SpawnWorker, HandlerInv, PoolTypeOK, Signal
<1>3. /\ work \in Seq(Clients) /\ Len(work) \in Nat /\ Len(work') = Len(work) + 1
      /\ work'[Len(work) + 1] = c
      /\ \A i \in 1..Len(work) : work'[i] = work[i] /\ work[i] \in Clients
  BY <1>1 DEF HandlerInv, PoolTypeOK
<1>4. /\ at' \in [Clients -> Places] /\ at'[c] = "queued"
      /\ \A d \in Clients : d # c => at'[d] = at[d]
  BY <1>1 DEF HandlerInv, Places, Open
<1>5. \A i \in 1..Len(work) : work[i] # c
  BY <1>1, <1>3 DEF HandlerInv, OneHandlerPerClient
<1>6. \A i \in 1..Len(work') : i \in 1..Len(work) \/ i = Len(work) + 1
  BY <1>3
<1>7. \A i, j \in 1..Len(work') : work'[i] = work'[j] => i = j
  BY <1>3, <1>5, <1>6 DEF HandlerInv, OneHandlerPerClient
<1>8. ASSUME NEW d \in Clients
      PROVE  at'[d] = "queued" /\ destroyer' # "freed" <=> \E i \in 1..Len(work') : work'[i] = d
  BY <1>3, <1>1, <1>4, <1>6 DEF HandlerInv, OneHandlerPerClient
<1>9. ASSUME NEW d \in Clients
      PROVE  /\ \A t, u \in Workers : task'[t] = d /\ task'[u] = d => t = u
             /\ at'[d] \in (Open \cup {"shut"}) \ {"queued"} => \E t \in Workers : task'[t] = d
             /\ at'[d] \in {"none", "queued", "rejected"} => \A t \in Workers : task'[t] # d
  BY <1>1, <1>4 DEF HandlerInv, OneHandlerPerClient
<1>10. OneHandlerPerClient'
  BY <1>7, <1>8, <1>9 DEF OneHandlerPerClient
<1> QED
  BY <1>1, <1>2, <1>4, <1>10 DEF HandlerInv

\* A worker takes the head of the queue.
LEMMA HandlerStart ==
    ASSUME HandlerInv, PoolTypeOK', NEW t \in Workers, StartHandler(t), destroyer # "freed"
    PROVE  HandlerInv' /\ Head(work) \in Clients /\ at[Head(work)] = "queued"
<1> DEFINE c == Head(work)
<1>1. /\ worker[t] \in {"ready", "timedout"} /\ work # << >>
      /\ work' = Tail(work) /\ task' = [task EXCEPT ![t] = c]
      /\ worker' = [worker EXCEPT ![t] = "running"]
      /\ at' = [at EXCEPT ![c] = "setup"] /\ UNCHANGED destroyer
  BY DEF StartHandler, TakeWork, AtLock
<1>2. /\ work \in Seq(Clients) /\ worker \in [Workers -> WorkerStates]
      /\ task \in [Workers -> Clients \cup {None}] /\ at \in [Clients -> Places]
  BY DEF HandlerInv, PoolTypeOK
<1>3. /\ Len(work) \in Nat \ {0} /\ Len(work') = Len(work) - 1
      /\ c = work[1] /\ c \in Clients
      /\ \A i \in 1..Len(work') : i + 1 \in 1..Len(work) /\ work'[i] = work[i + 1]
  BY <1>1, <1>2
<1>4. at[c] = "queued"
  BY <1>3 DEF HandlerInv, OneHandlerPerClient
<1>5. /\ at' \in [Clients -> Places] /\ at'[c] = "setup"
      /\ \A d \in Clients : d # c => at'[d] = at[d]
  BY <1>1, <1>2, <1>3 DEF Places, Open
<1>6. /\ task'[t] = c /\ \A u \in Workers : u # t => task'[u] = task[u] /\ worker'[u] = worker[u]
      /\ worker'[t] = "running" /\ task[t] = None
  BY <1>1, <1>2 DEF HandlerInv
<1>7. \A u \in Workers : task[u] # c
  BY <1>3, <1>4 DEF HandlerInv, OneHandlerPerClient
<1>8. None \notin Clients
  BY DEF None, Clients
<1>9. \A u \in Workers : worker'[u] = "running" <=> task'[u] # None
  BY <1>3, <1>6, <1>8 DEF HandlerInv
<1>10. \A i, j \in 1..Len(work') : work'[i] = work'[j] => i = j
  <2> SUFFICES ASSUME NEW i \in 1..Len(work'), NEW j \in 1..Len(work'), work'[i] = work'[j]
               PROVE  i = j
    OBVIOUS
  <2>1. i + 1 = j + 1
    BY <1>3, SMTT(30) DEF HandlerInv, OneHandlerPerClient
  <2> QED
    BY <2>1, <1>3
<1>11. ASSUME NEW d \in Clients
       PROVE  at'[d] = "queued" /\ destroyer' # "freed" <=> \E i \in 1..Len(work') : work'[i] = d
  <2>1. CASE d = c
    BY <1>3, <2>1, <1>5 DEF HandlerInv, OneHandlerPerClient
  <2>2. CASE d # c
    <3>1. (\E i \in 1..Len(work') : work'[i] = d) <=> \E i \in 1..Len(work) : work[i] = d
      <4>1. \A i \in 1..Len(work) : i # 1 => i - 1 \in 1..Len(work') /\ (i - 1) + 1 = i
        BY <1>3
      <4>2. ASSUME NEW i \in 1..Len(work), work[i] = d PROVE \E j \in 1..Len(work') : work'[j] = d
        BY <4>2, <2>2, <1>3, <4>1
      <4> QED
        BY <4>2, <1>3
    <3> QED
      BY <2>2, <3>1, <1>1, <1>5 DEF HandlerInv, OneHandlerPerClient
  <2> QED
    BY <2>1, <2>2
<1>12. ASSUME NEW d \in Clients
       PROVE  /\ \A r, u \in Workers : task'[r] = d /\ task'[u] = d => r = u
              /\ at'[d] \in (Open \cup {"shut"}) \ {"queued"} => \E r \in Workers : task'[r] = d
              /\ at'[d] \in {"none", "queued", "rejected"} => \A r \in Workers : task'[r] # d
  BY <1>5, <1>6, <1>7, <1>8 DEF HandlerInv, OneHandlerPerClient
<1>13. OneHandlerPerClient'
  BY <1>10, <1>11, <1>12 DEF OneHandlerPerClient
<1> QED
  BY <1>3, <1>4, <1>5, <1>9, <1>13 DEF HandlerInv

\* A handler returns.
LEMMA HandlerEnd ==
    ASSUME HandlerInv, PoolTypeOK', NEW t \in Workers, EndHandler(t)
    PROVE  HandlerInv' /\ task[t] \in Clients /\ at[task[t]] \in Final
<1>1. /\ worker[t] = "running" /\ at[task[t]] \in Final
      /\ task' = [task EXCEPT ![t] = None] /\ worker' = [worker EXCEPT ![t] = "ready"]
      /\ UNCHANGED <<work, at, destroyer>>
  BY DEF EndHandler, FinishWork
<1>2. /\ worker \in [Workers -> WorkerStates] /\ task \in [Workers -> Clients \cup {None}]
  BY DEF HandlerInv, PoolTypeOK
<1>3. task[t] \in Clients
  BY <1>1, <1>2 DEF HandlerInv
<1>4. None \notin Clients
  BY DEF None, Clients
<1>5. /\ task'[t] = None /\ worker'[t] = "ready"
      /\ \A u \in Workers : u # t => task'[u] = task[u] /\ worker'[u] = worker[u]
  BY <1>1, <1>2
<1>6. at[task[t]] \notin (Open \cup {"shut"}) \ {"queued"}
  BY <1>1 DEF Final, Open
<1>7. ASSUME NEW d \in Clients
      PROVE  /\ \A r, u \in Workers : task'[r] = d /\ task'[u] = d => r = u
             /\ at'[d] \in (Open \cup {"shut"}) \ {"queued"} => \E r \in Workers : task'[r] = d
             /\ at'[d] \in {"none", "queued", "rejected"} => \A r \in Workers : task'[r] # d
  BY <1>1, <1>3, <1>4, <1>5, <1>6 DEF HandlerInv, OneHandlerPerClient
<1>8. OneHandlerPerClient'
  BY <1>1, <1>7 DEF HandlerInv, OneHandlerPerClient
<1> QED
  BY <1>1, <1>3, <1>5, <1>8 DEF HandlerInv

\* Every other step of a worker leaves connections and running workers alone.
LEMMA HandlerIdle ==
    ASSUME HandlerInv, PoolTypeOK', NEW t \in Workers,
           WaitTimesOut(t) \/ IdleExit(t) \/ WaitForWork(t) \/ ShutdownExit(t), UNCHANGED at
    PROVE  HandlerInv'
  BY HandlerKept DEF WaitTimesOut, IdleExit, WaitForWork, ShutdownExit, AtLock, HandlerInv, PoolTypeOK

\* So does the destruction of the pool, which also drops what is queued.
LEMMA HandlerDestroy ==
    ASSUME HandlerInv, PoolTypeOK', BeginDestroy \/ JoinNext \/ FreePool, UNCHANGED at
    PROVE  HandlerInv'
  BY HandlerKept DEF BeginDestroy, JoinNext, FreePool, HandlerInv, OneHandlerPerClient

\* Any step of the server.
LEMMA HandlerNext ==
    ASSUME HandlerInv, PoolTypeOK', Next
    PROVE  HandlerInv'
<1>1. CASE UNCHANGED <<poolVars, at>>
  BY <1>1, HandlerKept DEF poolVars
<1>2. CASE destroyer # "freed" /\ AcceptLoop
  <2>1. CASE Poll
    BY <2>1, <1>1 DEF Poll, connVars
  <2>2. CASE LeaveLoop \/ JoinOrFree
    BY <2>2, HandlerDestroy DEF LeaveLoop, JoinOrFree, connVars
  <2>3. ASSUME NEW c \in Clients, AcceptClient(c) PROVE HandlerInv'
    BY <1>2, <2>3, HandlerAccept
  <2>4. ASSUME NEW c \in Clients, RejectClient(c) PROVE HandlerInv'
    BY <2>4, HandlerKept DEF RejectClient, poolVars, Arrives, HandlerInv, Places, Final
  <2> QED
    BY <1>2, <2>1, <2>2, <2>3, <2>4 DEF AcceptLoop
<1>3. CASE RequestShutdown
  BY <1>3, <1>1 DEF RequestShutdown, connVars
<1>4. ASSUME NEW t \in Workers, destroyer # "freed", thread_worker(t) \/ WaitExpires(t)
      PROVE  HandlerInv'
  BY <1>4, HandlerStart, HandlerEnd, HandlerStep, HandlerKept, HandlerIdle DEF poolVars, connVars, thread_worker,
     WaitExpires
<1>5. CASE Terminated
  BY <1>5, <1>1 DEF Terminated, vars, connVars
<1> QED
  BY <1>2, <1>3, <1>4, <1>5 DEF Next

\* Every step of the server keeps each connection in one place.
THEOREM Handlers == Spec => []HandlerInv
<1>1. Init => HandlerInv
  BY HandlerInit
<1>2. HandlerInv /\ SchedInv' /\ [Next]_vars => HandlerInv'
  <2> SUFFICES ASSUME HandlerInv, SchedInv', [Next]_vars PROVE HandlerInv'
    OBVIOUS
  <2>1. PoolTypeOK'
    BY DEF SchedInv
  <2>2. CASE UNCHANGED vars
    BY <2>2, <2>1, HandlerKept DEF vars, poolVars, connVars
  <2> QED
    BY <2>1, <2>2, HandlerNext
<1> QED
  BY <1>1, <1>2, Scheduling, PTL DEF Spec

\* An accepted connection is in the queue once or with one worker, never both.
THEOREM EachServedOnce == Spec => []OneHandlerPerClient
<1>1. HandlerInv => OneHandlerPerClient
  BY DEF HandlerInv
<1> QED
  BY <1>1, Handlers, PTL

-------------------------------------------------------------------------------
(* Descriptors.                                                            *)

\* The types of the descriptor variables.
FdTypes ==
    /\ owner \in [Fds -> Clients \cup {None}]
    /\ local_fd \in [Clients -> 0..MaxFd]
    /\ client_fd \in [Clients -> -1..MaxFd]

\* A number is held for a connection that still has it in both its places, and
\* a connection that has not closed its descriptor has a number.
FdInv ==
    /\ FdTypes
    /\ \A f \in Fds : owner[f] # None => at[owner[f]] \in Open /\ client_fd[owner[f]] = f
    /\ \A c \in Clients : at[c] \in Open => client_fd[c] \in Fds
    /\ \A c \in Clients : at[c] \in Open \ {"queued"} => local_fd[c] = client_fd[c]
    /\ OwnDescriptorUnlessClosedTwice

\* No other connection is touched.
OnlyAt(c) ==
    \A d \in Clients : d # c =>
        at'[d] = at[d] /\ local_fd'[d] = local_fd[d] /\ client_fd'[d] = client_fd[d]

\* What a step of a handler can do to the descriptor of its connection.
KeepsOpen(c) ==
    /\ at[c] \in Open \ {"queued"} /\ at'[c] \in Open \ {"queued"}
    /\ UNCHANGED <<owner, local_fd, client_fd>>

ClosesOwn(c) ==
    /\ at[c] \in Open \ {"queued"} /\ at'[c] \in {"shut", "leaked", "done"}
    /\ Close(local_fd[c])

EndsShut(c) ==
    /\ at[c] = "shut"
    /\ \/ at'[c] = "done" /\ UNCHANGED owner
       \/ at'[c] = "again" /\ Close(local_fd[c])

\* Closing a number keeps the table of owners a function to connections.
LEMMA CloseType ==
    ASSUME FdTypes, NEW f, Close(f)
    PROVE  /\ owner' \in [Fds -> Clients \cup {None}]
           /\ \A g \in Fds : owner'[g] = IF g = f THEN None ELSE owner[g]
BY DEF FdTypes, Close

\* What a step of handle_client does to descriptors is one of these three.
LEMMA HandlerFds ==
    ASSUME HandlerInv, FdInv, NEW t \in Workers, handle_client(t)
    PROVE  /\ FdTypes' /\ OnlyAt(task[t])
           /\ KeepsOpen(task[t]) \/ ClosesOwn(task[t]) \/ EndsShut(task[t])
<1> DEFINE c == task[t]
<1>1. /\ c \in Clients /\ at \in [Clients -> Places]
      /\ \A p : Go(t, p) => at'[c] = p /\ \A d \in Clients : d # c => at'[d] = at[d]
  BY HandlerStep DEF HandlerInv, Go
<1>2. /\ local_fd \in [Clients -> 0..MaxFd] /\ client_fd \in [Clients -> -1..MaxFd]
      /\ FdTypes /\ 0 \in 0..MaxFd /\ 0 \in -1..MaxFd /\ -1 \in -1..MaxFd
  BY ServerAssumption DEF FdInv, FdTypes
<1>3. CASE \E p \in {"shut", "leaked"} : /\ Serving(t, "setup") \/ Serving(t, "read")
                                         /\ CloseEarly(t) /\ Go(t, p)
                                         /\ \/ UNCHANGED local_fd
                                            \/ local_fd' = [local_fd EXCEPT ![c] = 0]
  BY <1>3, <1>1, <1>2, CloseType DEF CloseEarly, Serving, Open, FdTypes, OnlyAt, ClosesOwn
<1>4. CASE \E p \in Open \ {"queued"}, q \in Open \ {"queued"} :
              Serving(t, p) /\ Go(t, q) /\ UNCHANGED <<owner, local_fd, client_fd>>
  BY <1>1, <1>4, <1>2 DEF Serving, KeepsOpen, FdTypes, OnlyAt
<1>5. CASE SetUpFails(t) \/ SetUpReturns(t) \/ ReadFails(t) \/ IncompleteBody(t) \/ ServeStaticFile(t)
  BY <1>3, <1>5 DEF SetUpFails, SetUpReturns, ReadFails, IncompleteBody, ServeStaticFile
<1>6. CASE SetUp(t) \/ ReadRequest(t) \/ Respond(t) \/ ReadNext(t) \/ ReadNextFails(t)
  BY <1>6, <1>4 DEF SetUp, ReadRequest, Respond, ReadNext, ReadNextFails, Open
<1>7. CASE AnswerOptions(t)
  BY <1>1, <1>7, <1>2, CloseType DEF AnswerOptions, Serving, Open, OnlyAt, FdTypes, ClosesOwn
<1>8. CASE Cleanup(t)
  <2>1. /\ at[c] \in {"cleanup", "shut"} /\ UNCHANGED local_fd
        /\ \/ /\ StillOpen(c) /\ Close(local_fd[c]) /\ client_fd' = [client_fd EXCEPT ![c] = -1]
              /\ Go(t, IF at[c] = "shut" THEN "again" ELSE "done")
           \/ ~StillOpen(c) /\ Go(t, "done") /\ UNCHANGED <<owner, client_fd>>
    BY <1>8 DEF Cleanup
  <2>2. at[c] = "cleanup" => StillOpen(c)
    BY <1>1, ServerAssumption DEF FdInv, Open, StillOpen, Fds
  <2>3. FdTypes' /\ OnlyAt(c)
    BY <1>1, <1>2, <2>1, CloseType DEF FdTypes, OnlyAt
  <2>4. ClosesOwn(c) \/ EndsShut(c)
    BY <1>1, <2>1, <2>2 DEF ClosesOwn, EndsShut, Open
  <2> QED
    BY <2>3, <2>4
<1> QED
  BY <1>5, <1>6, <1>7, <1>8 DEF handle_client

\* A handler's step keeps the invariant: it can only close its own descriptor,
\* or one that it has closed before.
LEMMA FdHandler ==
    ASSUME HandlerInv, HandlerInv', FdInv, NEW t \in Workers, handle_client(t)
    PROVE  FdInv'
<1> DEFINE c == task[t]
<1>1. FdTypes' /\ OnlyAt(c) /\ c \in Clients /\ (KeepsOpen(c) \/ ClosesOwn(c) \/ EndsShut(c))
  BY HandlerFds, HandlerStep
<1>2. /\ at \in [Clients -> Places] /\ at' \in [Clients -> Places]
      /\ FdTypes /\ FdTypes' /\ None \notin Clients
  BY <1>1 DEF HandlerInv, FdInv, None, Clients
<1>3. CASE KeepsOpen(c)
  BY <1>1, <1>3, <1>2 DEF KeepsOpen, OnlyAt, Open, FdInv, FdTypes, OwnDescriptorUnlessClosedTwice
<1>4. CASE ClosesOwn(c)
  <2> DEFINE f == local_fd[c]
  <2>1. /\ at[c] \in Open \ {"queued"} /\ at'[c] \notin Open /\ at[c] # "again"
        /\ f \in Fds /\ client_fd[c] = f
        /\ \A g \in Fds : owner'[g] = IF g = f THEN None ELSE owner[g]
    BY <1>1, <1>2, <1>4, CloseType DEF ClosesOwn, Open, FdInv
  <2>2. \A g \in Fds : owner'[g] # None => at'[owner'[g]] \in Open /\ client_fd'[owner'[g]] = g
    <3> SUFFICES ASSUME NEW g \in Fds, owner'[g] # None
                 PROVE  at'[owner'[g]] \in Open /\ client_fd'[owner'[g]] = g
      OBVIOUS
    <3>1. g # f /\ owner'[g] = owner[g] /\ owner[g] \in Clients
      BY <1>2, <2>1 DEF FdTypes
    <3>2. owner[g] # c
      BY <2>1, <3>1 DEF FdInv
    <3> QED
      BY <1>1, <3>1, <3>2 DEF FdInv, OnlyAt
  <2>3. \A d \in Clients : at'[d] \in Open => d # c /\ at[d] \in Open
    BY <1>1, <2>1 DEF OnlyAt
  <2>4. OwnDescriptorUnlessClosedTwice'
    <3> SUFFICES ASSUME \A d \in Clients : at'[d] # "again", NEW d \in Clients, at'[d] \in Open
                 PROVE  client_fd'[d] \in Fds /\ owner'[client_fd'[d]] = d
      BY DEF OwnDescriptorUnlessClosedTwice
    <3>1. \A e \in Clients : at[e] # "again"
      BY <1>1, <2>1 DEF OnlyAt
    <3>2. d # c /\ at[d] \in Open /\ client_fd'[d] = client_fd[d]
      BY <1>1, <2>3 DEF OnlyAt
    <3>3. /\ client_fd[d] \in Fds /\ owner[client_fd[d]] = d
          /\ owner[client_fd[c]] = c
      BY <2>1, <3>1, <3>2, <1>1 DEF FdInv, OwnDescriptorUnlessClosedTwice
    <3> QED
      BY <2>1, <3>2, <3>3
  <2> QED
    BY <1>1, <1>2, <2>2, <2>3, <2>4 DEF FdInv, OnlyAt
<1>5. CASE EndsShut(c)
  <2>1. /\ at[c] \notin Open /\ at'[c] \notin Open /\ at[c] # "again"
        /\ \/ UNCHANGED owner
           \/ at'[c] = "again" /\ \A g \in Fds : owner'[g] = IF g = local_fd[c] THEN None ELSE owner[g]
    BY <1>2, <1>5, CloseType DEF EndsShut, Open
  <2>2. \A d \in Clients : at'[d] \in Open => d # c /\ at[d] \in Open
    BY <1>1, <2>1 DEF OnlyAt
  <2>3. \A g \in Fds : owner'[g] # None => at'[owner'[g]] \in Open /\ client_fd'[owner'[g]] = g
    <3> SUFFICES ASSUME NEW g \in Fds, owner'[g] # None
                 PROVE  at'[owner'[g]] \in Open /\ client_fd'[owner'[g]] = g
      OBVIOUS
    <3>1. owner'[g] = owner[g] /\ owner[g] \in Clients
      BY <1>2, <2>1 DEF FdTypes
    <3>2. owner[g] # c
      BY <2>1, <3>1 DEF FdInv
    <3> QED
      BY <1>1, <3>1, <3>2 DEF FdInv, OnlyAt
  <2>4. OwnDescriptorUnlessClosedTwice'
    <3> SUFFICES ASSUME \A d \in Clients : at'[d] # "again", NEW d \in Clients, at'[d] \in Open
                 PROVE  client_fd'[d] \in Fds /\ owner'[client_fd'[d]] = d
      BY DEF OwnDescriptorUnlessClosedTwice
    <3>1. UNCHANGED owner /\ \A e \in Clients : at[e] # "again"
      BY <1>1, <2>1 DEF OnlyAt
    <3>2. d # c /\ at[d] \in Open /\ client_fd'[d] = client_fd[d]
      BY <1>1, <2>2 DEF OnlyAt
    <3> QED
      BY <3>1, <3>2 DEF FdInv, OwnDescriptorUnlessClosedTwice
  <2> QED
    BY <1>1, <1>2, <2>2, <2>3, <2>4 DEF FdInv, OnlyAt
<1> QED
  BY <1>1, <1>3, <1>4, <1>5

\* No descriptor is held at the start.
LEMMA FdInit == ASSUME Init PROVE FdInv
  BY ServerAssumption DEF Init, FdInv, FdTypes, OwnDescriptorUnlessClosedTwice, Open

\* Steps that touch no descriptor and no place.
LEMMA FdKept ==
    ASSUME FdInv, UNCHANGED <<owner, at, local_fd, client_fd>>
    PROVE  FdInv'
BY DEF FdInv, FdTypes, OwnDescriptorUnlessClosedTwice

\* The kernel gives a new connection a number nobody holds.
LEMMA FdAccept ==
    ASSUME HandlerInv, FdInv, NEW c \in Clients, AcceptClient(c)
    PROVE  FdInv'
<1>1. PICK f \in Fds : /\ owner[f] = None /\ owner' = [owner EXCEPT ![f] = c]
                       /\ client_fd' = [client_fd EXCEPT ![c] = f]
  BY DEF AcceptClient, LowestFree
<1>2. at[c] = "none" /\ at' = [at EXCEPT ![c] = "queued"] /\ UNCHANGED local_fd
  BY DEF AcceptClient, Arrives
<1>3. /\ FdTypes /\ at \in [Clients -> Places] /\ None \notin Clients
      /\ f \in -1..MaxFd
  BY ServerAssumption DEF FdInv, HandlerInv, None, Clients, Fds
<1>4. FdTypes'
  BY <1>1, <1>2, <1>3 DEF FdTypes
<1>5. /\ at'[c] = "queued" /\ client_fd'[c] = f /\ owner'[f] = c
      /\ \A d \in Clients : d # c => at'[d] = at[d] /\ client_fd'[d] = client_fd[d]
      /\ \A g \in Fds : g # f => owner'[g] = owner[g]
  BY <1>1, <1>2, <1>3 DEF FdTypes
<1>6. \A g \in Fds : owner'[g] # None => at'[owner'[g]] \in Open /\ client_fd'[owner'[g]] = g
  <2> SUFFICES ASSUME NEW g \in Fds, owner'[g] # None
               PROVE  at'[owner'[g]] \in Open /\ client_fd'[owner'[g]] = g
    OBVIOUS
  <2>1. CASE g = f
    BY <2>1, <1>5 DEF Open
  <2>2. CASE g # f
    BY <2>2, <1>3, <1>5, <1>2 DEF FdInv, FdTypes, Open
  <2> QED
    BY <2>1, <2>2
<1>7. \A d \in Clients : at'[d] \in Open => client_fd'[d] \in Fds
  BY <1>5 DEF FdInv
<1>8. \A d \in Clients : at'[d] \in Open \ {"queued"} => local_fd'[d] = client_fd'[d]
  BY <1>2, <1>5 DEF FdInv
<1>9. OwnDescriptorUnlessClosedTwice'
  <2> SUFFICES ASSUME \A d \in Clients : at'[d] # "again", NEW d \in Clients, at'[d] \in Open
               PROVE  client_fd'[d] \in Fds /\ owner'[client_fd'[d]] = d
    BY DEF OwnDescriptorUnlessClosedTwice
  <2>1. \A e \in Clients : at[e] # "again"
    BY <1>2, <1>5
  <2>2. CASE d = c
    BY <2>2, <1>5
  <2>3. CASE d # c
    BY <2>3, <1>5, <2>1, <1>1, <1>3 DEF FdInv, OwnDescriptorUnlessClosedTwice
  <2> QED
    BY <2>2, <2>3
<1> QED
  BY <1>4, <1>6, <1>7, <1>8, <1>9 DEF FdInv

\* Steps that move one connection between places and keep its numbers.
LEMMA FdMove ==
    ASSUME FdInv, FdTypes', NEW c \in Clients, OnlyAt(c), UNCHANGED owner,
           \/ at[c] \notin Open /\ at'[c] \notin Open /\ (at'[c] = "again" <=> at[c] = "again")
           \/ at[c] = "queued" /\ at'[c] = "setup" /\ UNCHANGED client_fd /\ local_fd'[c] = client_fd[c]
    PROVE  FdInv'
<1>1. FdTypes /\ None \notin Clients
  BY DEF FdInv, None, Clients
<1>2. (\A d \in Clients : at'[d] # "again") => \A d \in Clients : at[d] # "again"
  BY DEF OnlyAt
<1>3. CASE at[c] \notin Open /\ at'[c] \notin Open
  BY <1>1, <1>2, <1>3 DEF FdInv, FdTypes, OnlyAt, OwnDescriptorUnlessClosedTwice
<1>4. CASE at[c] = "queued" /\ at'[c] = "setup" /\ UNCHANGED client_fd /\ local_fd'[c] = client_fd[c]
  BY <1>4, <1>1, <1>2 DEF Open, FdInv, FdTypes, OnlyAt, OwnDescriptorUnlessClosedTwice
<1> QED
  BY <1>3, <1>4

\* Any step of the server.
LEMMA FdNext ==
    ASSUME HandlerInv, HandlerInv', FdInv, Next
    PROVE  FdInv'
<1>1. FdTypes /\ at \in [Clients -> Places]
  BY DEF FdInv, HandlerInv
<1>2. CASE destroyer # "freed" /\ AcceptLoop
  <2>1. CASE Poll \/ LeaveLoop \/ JoinOrFree
    BY <2>1, FdKept DEF Poll, LeaveLoop, JoinOrFree, connVars
  <2>2. ASSUME NEW c \in Clients, AcceptClient(c) PROVE FdInv'
    BY <2>2, FdAccept
  <2>3. ASSUME NEW c \in Clients, RejectClient(c) PROVE FdInv'
    BY <2>3, <1>1, FdMove DEF RejectClient, Arrives, FdTypes, OnlyAt, Open
  <2> QED
    BY <1>2, <2>1, <2>2, <2>3 DEF AcceptLoop
<1>3. CASE RequestShutdown
  BY <1>3, FdKept DEF RequestShutdown, connVars
<1>4. ASSUME NEW t \in Workers, destroyer # "freed", thread_worker(t) \/ WaitExpires(t)
      PROVE  FdInv'
  <2>1. CASE StartHandler(t)
    <3> DEFINE c == Head(work)
    <3>1. c \in Clients /\ at[c] = "queued"
      BY <1>4, <2>1, HandlerStart DEF HandlerInv
    <3>2. /\ at' = [at EXCEPT ![c] = "setup"] /\ local_fd' = [local_fd EXCEPT ![c] = client_fd[c]]
          /\ UNCHANGED <<owner, client_fd>>
      BY <2>1 DEF StartHandler
    <3>3. client_fd[c] \in Fds
      BY <3>1 DEF FdInv, Open
    <3>4. client_fd[c] \in 0..MaxFd
      BY <3>3, ServerAssumption DEF Fds
    <3>5. FdTypes' /\ OnlyAt(c) /\ at'[c] = "setup" /\ local_fd'[c] = client_fd[c]
      BY <1>1, <3>1, <3>2, <3>4 DEF FdTypes, OnlyAt
    <3> QED
      BY <3>1, <3>2, <3>5, FdMove
  <2>2. CASE EndHandler(t)
    <3> DEFINE c == task[t]
    <3>1. c \in Clients /\ at[c] \in Final
      BY <2>2, HandlerEnd DEF HandlerInv
    <3>2. /\ local_fd' = [local_fd EXCEPT ![c] = 0] /\ client_fd' = [client_fd EXCEPT ![c] = 0]
          /\ UNCHANGED <<owner, at>>
      BY <2>2 DEF EndHandler
    <3>3. FdTypes' /\ OnlyAt(c) /\ at[c] \notin Open
      BY <1>1, <3>1, <3>2, ServerAssumption DEF FdTypes, OnlyAt, Final, Open
    <3> QED
      BY <3>1, <3>2, <3>3, FdMove
  <2>3. CASE handle_client(t)
    BY <2>3, FdHandler
  <2>4. CASE UNCHANGED <<owner, connVars>>
    BY <2>4, FdKept DEF connVars
  <2> QED
    BY <1>4, <2>1, <2>2, <2>3, <2>4 DEF thread_worker, WaitExpires
<1>5. CASE Terminated
  BY <1>5, FdKept DEF Terminated, vars, connVars
<1> QED
  BY <1>2, <1>3, <1>4, <1>5 DEF Next

\* Every step of the server keeps the descriptors accounted for.
THEOREM Descriptors == Spec => []FdInv
<1>1. Init => FdInv
  BY FdInit
<1>2. HandlerInv /\ HandlerInv' /\ FdInv /\ [Next]_vars => FdInv'
  BY FdKept, FdNext DEF vars, connVars
<1> QED
  BY <1>1, <1>2, Handlers, PTL DEF Spec

\* No path through the accept loop or handle_client leaves a descriptor open.
THEOREM DescriptorsAreClosed == Spec => []NoDescriptorLeak
<1>1. FdInv => NoDescriptorLeak
  BY DEF FdInv, NoDescriptorLeak
<1> QED
  BY <1>1, Descriptors, PTL

\* Until a cleanup closes a number a second time, every connection has its own
\* descriptor until its handler closes it.
THEOREM DescriptorsAreOwned == Spec => []OwnDescriptorUnlessClosedTwice
<1>1. FdInv => OwnDescriptorUnlessClosedTwice
  BY DEF FdInv
<1> QED
  BY <1>1, Descriptors, PTL

-------------------------------------------------------------------------------
(* Draining: what thread_pool_destroy leaves behind when nobody expired.   *)

\* No worker has left for idleness.
NoneExpired == \A t \in Workers : worker[t] # "expired"

\* The first thread_count entries of threads are the workers, in the order in
\* which the destroyer joins them.
Listed ==
    /\ \A t \in Workers : worker[t] # "none" => \E i \in 1..thread_count : threads[i] = t
    /\ \A i \in 1..joined : threads[i] \in Workers => worker[threads[i]] = "done"

\* A worker leaves at shutdown only with the queue empty, and nothing is queued
\* after that.
DrainInv ==
    /\ shutdown <=> destroyer # "none"
    /\ ~shutdown => joined = 0
    /\ \A t \in Workers : worker[t] = "done" => shutdown /\ work = << >>
    /\ NoneExpired => Listed

\* The pool starts with its min_threads workers listed.
LEMMA DrainInit == ASSUME Init PROVE DrainInv
<1>1. /\ worker = [t \in Workers |-> IF t =< MinThreads THEN "ready" ELSE "none"]
      /\ threads = [i \in 1..MaxThreads |-> IF i =< MinThreads THEN i ELSE None]
      /\ thread_count = MinThreads /\ shutdown = FALSE /\ destroyer = "none" /\ joined = 0
  BY DEF Init, thread_pool_create_config
<1>2. ASSUME NEW t \in Workers, worker[t] # "none" PROVE \E i \in 1..thread_count : threads[i] = t
  BY <1>1, <1>2, PoolAssumption DEF Workers
<1>3. 1..joined = {}
  BY <1>1
<1> QED
  BY <1>1, <1>2, <1>3 DEF DrainInv, Listed

\* A step of one worker.
LEMMA DrainWorker ==
    ASSUME PoolTypeOK, DrainInv, NEW t \in Workers, WorkerStep(t)
    PROVE  DrainInv'
<1>1. worker \in [Workers -> WorkerStates] /\ work \in Seq(Clients)
  BY DEF PoolTypeOK
<1>2. /\ UNCHANGED <<threads, shutdown, destroyer, joined>>
      /\ worker[t] \in {"asleep", "ready", "timedout", "running"}
      /\ \A u \in Workers : u # t => worker'[u] = worker[u]
      /\ work = << >> => work' = << >>
  BY <1>1 DEF WorkerStep, WaitTimesOut, IdleExit, WaitForWork, ShutdownExit, TakeWork, FinishWork, AtLock
<1>3. worker'[t] = "done" => shutdown /\ work = << >>
  BY <1>1 DEF WorkerStep, WaitTimesOut, IdleExit, WaitForWork, ShutdownExit, TakeWork, FinishWork, MayLeave
<1>4. worker'[t] # "expired" => UNCHANGED thread_count
  BY <1>1 DEF WorkerStep, WaitTimesOut, IdleExit, WaitForWork, ShutdownExit, TakeWork, FinishWork
<1>5. ASSUME NoneExpired' PROVE Listed'
  BY <1>2, <1>4, <1>5 DEF NoneExpired, DrainInv, Listed
<1> QED
  BY <1>2, <1>3, <1>5 DEF DrainInv

\* Work is added before shutdown only, and a new thread is listed at the end.
LEMMA DrainAdd ==
    ASSUME PoolTypeOK, DrainInv, NEW c \in Clients, thread_pool_add_work(c)
    PROVE  DrainInv'
<1>1. /\ worker \in [Workers -> WorkerStates] /\ threads \in [1..MaxThreads -> Workers \cup {None}]
      /\ thread_count \in MinThreads..MaxThreads
  BY DEF PoolTypeOK
<1>2. ~shutdown /\ UNCHANGED <<shutdown, destroyer, joined>> /\ joined = 0
  BY DEF thread_pool_add_work, DrainInv
<1>3. ASSUME NEW w, w \in [Workers -> WorkerStates], Signal(w), NEW u \in Workers
      PROVE  worker'[u] = w[u] \/ (w[u] = "asleep" /\ worker'[u] = "ready")
  BY <1>3 DEF Signal
<1>4. 1..joined = {} /\ 1..joined' = {}
  BY <1>2
<1>5. CASE Signal(worker) /\ UNCHANGED <<threads, thread_count>>
  BY <1>1, <1>3, <1>5, <1>2, <1>4 DEF DrainInv, Listed, NoneExpired
<1>6. ASSUME NEW t \in Workers, SpawnWorker(t) PROVE DrainInv'
  <2> DEFINE w == [worker EXCEPT ![t] = "ready"]
  <2>1. /\ w \in [Workers -> WorkerStates] /\ w[t] = "ready" /\ worker[t] = "none"
        /\ \A u \in Workers : u # t => w[u] = worker[u]
        /\ Signal(w)
    BY <1>1, <1>6 DEF SpawnWorker, WorkerStates
  <2>2. /\ thread_count + 1 \in 1..MaxThreads /\ thread_count' = thread_count + 1
        /\ threads' = [threads EXCEPT ![thread_count + 1] = t]
        /\ 1..thread_count' = 1..thread_count \cup {thread_count + 1}
        /\ 1..thread_count \subseteq 1..MaxThreads /\ thread_count + 1 \notin 1..thread_count
    BY <1>1, <1>6, PoolAssumption DEF SpawnWorker
  <2> HIDE DEF w
  <2>3. \A u \in Workers : worker'[u] = w[u] \/ (w[u] = "asleep" /\ worker'[u] = "ready")
    BY <2>1, <1>3
  <2>4. worker'[t] = "ready"
          /\ \A u \in Workers : u # t => worker'[u] = worker[u] \/ (worker[u] = "asleep" /\ worker'[u] = "ready")
    BY <2>1, <2>3
  <2>5. threads'[thread_count + 1] = t /\ \A i \in 1..thread_count : threads'[i] = threads[i]
    BY <1>1, <2>2
  <2>6. ASSUME NoneExpired' PROVE Listed'
    BY <2>1, <2>4, <2>6, <1>4, <2>2, <2>5 DEF NoneExpired, DrainInv, Listed
  <2> QED
    BY <1>2, <2>4, <2>6 DEF DrainInv
<1> QED
  BY <1>5, <1>6 DEF thread_pool_add_work

\* The destroyer's steps.
LEMMA DrainDestroy ==
    ASSUME PoolTypeOK, DrainInv, BeginDestroy \/ JoinNext \/ FreePool
    PROVE  DrainInv'
<1>1. worker \in [Workers -> WorkerStates] /\ joined \in 0..MaxThreads
  BY DEF PoolTypeOK
<1>2. CASE BeginDestroy
  BY <1>2 DEF BeginDestroy, NoneExpired, DrainInv, Listed
<1>3. CASE JoinNext
  BY <1>3, <1>1 DEF JoinNext, DrainInv, NoneExpired, Listed
<1>4. CASE FreePool
  BY <1>4 DEF FreePool, NoneExpired, Listed, DrainInv
<1> QED
  BY <1>2, <1>3, <1>4

\* Every step of the server keeps the order of draining.
THEOREM Draining == Spec => []DrainInv
<1>1. Init => DrainInv
  BY DrainInit
<1>2. SchedInv /\ DrainInv /\ [Next]_vars => DrainInv'
  <2> SUFFICES ASSUME SchedInv, DrainInv, [Next]_vars PROVE DrainInv'
    OBVIOUS
  <2>1. CASE PoolStep
    BY <2>1, DrainWorker, DrainAdd, DrainDestroy DEF PoolStep, SchedInv
  <2>2. CASE UNCHANGED poolVars
    BY <2>2 DEF poolVars, DrainInv, NoneExpired, Listed
  <2>3. CASE UNCHANGED vars
    BY <2>3, <2>2 DEF vars
  <2> QED
    BY <2>1, <2>2, <2>3, StepOfPool
<1> QED
  BY <1>1, <1>2, Scheduling, PTL DEF Spec

\* When the join loop ends and nobody expired, every worker has left with the
\* queue empty, so no connection is waiting or being served.
LEMMA FreeDrains ==
    ASSUME SchedInv, HandlerInv, DrainInv, FreePool, NoneExpired
    PROVE  /\ \A t \in Workers : worker[t] \in {"none", "done"}
           /\ \A c \in Clients : at[c] \in Final \cup {"none"}
<1>1. /\ worker \in [Workers -> WorkerStates] /\ joined \in Nat
      /\ thread_count \in Nat \ {0} /\ thread_count =< joined
      /\ task \in [Workers -> Clients \cup {None}] /\ Listed /\ destroyer = "joining"
  BY PoolAssumption DEF SchedInv, PoolTypeOK, FreePool, AllJoined, DrainInv
<1>2. \A t \in Workers : worker[t] \in {"none", "done"}
  <2> SUFFICES ASSUME NEW t \in Workers, worker[t] # "none" PROVE worker[t] = "done"
    OBVIOUS
  <2>1. PICK i \in 1..thread_count : threads[i] = t
    BY <1>1 DEF Listed
  <2>2. i \in 1..joined
    BY <1>1
  <2> QED
    BY <1>1, <2>1, <2>2 DEF Listed
<1>3. PICK t \in Workers : worker[t] = "done"
  <2>1. SUFFICES ASSUME \A t \in Workers : worker[t] = "none" PROVE FALSE
    BY <1>2
  <2>2. {t \in Workers : worker[t] \in Staying} = {}
    BY <2>1 DEF Staying
  <2>3. StayingCount(worker) = 0
    BY <2>2, FS_EmptySet DEF StayingCount, Count
  <2> QED
    BY <1>1, <2>3 DEF SchedInv
<1>4. work = << >> /\ Len(work) = 0
  BY <1>3 DEF DrainInv
<1>5. \A u \in Workers : task[u] = None
  BY <1>2 DEF HandlerInv
<1>6. ASSUME NEW c \in Clients PROVE at[c] \in Final \cup {"none"}
  BY <1>1, <1>4, <1>5 DEF HandlerInv, OneHandlerPerClient, Clients, None, Places
<1> QED
  BY <1>2, <1>6

\* If no worker ever left for idleness, the pool is freed only when every worker
\* has exited and every accepted connection has been served to its end.
THEOREM FreedWhenDrained == Spec => []DrainedWhenFreed
<1>1. Init => DrainedWhenFreed
  BY DEF Init, thread_pool_create_config, DrainedWhenFreed
<1>2. SchedInv /\ HandlerInv /\ DrainInv /\ DrainedWhenFreed /\ [Next]_vars => DrainedWhenFreed'
  <2> SUFFICES ASSUME SchedInv, HandlerInv, DrainInv, DrainedWhenFreed, [Next]_vars,
                      destroyer' = "freed", \A t \in Workers : worker'[t] # "expired"
               PROVE  /\ \A t \in Workers : worker'[t] \notin {"ready", "asleep", "timedout", "running"}
                      /\ \A c \in Clients : at'[c] \in Final \cup {"none"}
    BY DEF DrainedWhenFreed, In, LiveWorkers
  <2>1. CASE destroyer = "freed"
    BY <2>1 DEF Next, Terminated, vars, poolVars, connVars, DrainedWhenFreed, In, LiveWorkers
  <2>2. CASE destroyer # "freed"
    <3>1. FreePool /\ UNCHANGED at
      <4>1. ~UNCHANGED destroyer
        BY <2>2
      <4>2. CASE destroyer # "freed" /\ AcceptLoop
        BY <4>1, <4>2 DEF AcceptLoop, Poll, LeaveLoop, JoinOrFree, JoinNext, BeginDestroy, AcceptClient,
              RejectClient, thread_pool_add_work, poolVars, connVars
      <4>3. ASSUME NEW t \in Workers, thread_worker(t) \/ WaitExpires(t) PROVE FALSE
        BY <4>1, <4>3 DEF thread_worker, WaitExpires, StartHandler, EndHandler, handle_client, WaitTimesOut,
              IdleExit, WaitForWork, ShutdownExit, TakeWork, FinishWork, poolVars
      <4>4. ~RequestShutdown /\ ~Terminated /\ ~UNCHANGED vars
        BY <4>1 DEF RequestShutdown, Terminated, vars, poolVars
      <4> QED
        BY <4>2, <4>3, <4>4 DEF Next
    <3>2. UNCHANGED worker
      BY <3>1 DEF FreePool
    <3>3. NoneExpired
      BY <3>2 DEF NoneExpired
    <3> QED
      BY <3>1, <3>2, <3>3, FreeDrains
  <2> QED
    BY <2>1, <2>2
<1> QED
  BY <1>1, <1>2, Scheduling, Handlers, Draining, PTL DEF Spec

-------------------------------------------------------------------------------
(* Types, and the keep-alive limit they include.                           *)

\* A connection's requests are counted from its set-up on, and one is dispatched
\* only below the limit.
ServedInv ==
    /\ acceptor \in {"loop", "ready", "left"} /\ shutdown_requested \in BOOLEAN
    /\ served \in [Clients -> 0..MaxKeepAlive]
    /\ \A c \in Clients :
        /\ at[c] \in {"none", "queued", "setup", "read"} => served[c] = 0
        /\ at[c] = "dispatch" => served[c] < MaxKeepAlive

\* A step that counts nothing and moves at most one connection, to a place
\* where the limit has been tested.
LEMMA ServedMove ==
    ASSUME ServedInv, at \in [Clients -> Places], UNCHANGED served,
           NEW c \in Clients, NEW p, at' = [at EXCEPT ![c] = p],
           p \in {"queued", "setup", "read", "dispatch"} => served[c] = 0 \/ (p = "dispatch" /\ served[c] < MaxKeepAlive),
           p # "none",
           acceptor' \in {"loop", "ready", "left"}, shutdown_requested' \in BOOLEAN
    PROVE  ServedInv'
  BY ServerAssumption DEF ServedInv

\* A step that leaves the connections alone.
LEMMA ServedKept ==
    ASSUME ServedInv, UNCHANGED <<at, served>>,
           acceptor' \in {"loop", "ready", "left"}, shutdown_requested' \in BOOLEAN
    PROVE  ServedInv'
BY DEF ServedInv

\* A step of a handler.
LEMMA ServedHandler ==
    ASSUME ServedInv, HandlerInv, NEW t \in Workers, handle_client(t)
    PROVE  ServedInv'
<1> DEFINE c == task[t]
<1>1. c \in Clients /\ at \in [Clients -> Places] /\ at[c] \in Busy
  BY HandlerStep DEF HandlerInv
<1>2. /\ acceptor' \in {"loop", "ready", "left"} /\ shutdown_requested \in BOOLEAN
      /\ served \in [Clients -> 0..MaxKeepAlive]
  BY DEF handle_client, ServedInv
<1> HIDE DEF c
<1>3. CASE SetUp(t)
  BY <1>3, <1>1, <1>2, ServedMove DEF SetUp, Serving, Go, c, ServedInv
<1>4. CASE SetUpFails(t) \/ SetUpReturns(t)
  <2>1. PICK p \in {"shut", "leaked"} : at' = [at EXCEPT ![c] = p]
    BY <1>4 DEF SetUpFails, SetUpReturns, Go, c
  <2>2. UNCHANGED <<served, shutdown_requested>>
    BY <1>4 DEF SetUpFails, SetUpReturns
  <2> QED
    BY <1>1, <1>2, <2>1, <2>2, ServedMove
<1>5. CASE ReadRequest(t)
  BY <1>5, <1>1, <1>2, ServedMove DEF ReadRequest, Serving, Go, c, ServedInv
<1>6. CASE ReadFails(t) \/ IncompleteBody(t) \/ AnswerOptions(t) \/ ServeStaticFile(t)
  BY <1>2, <1>6, <1>1, ServedMove DEF ReadFails, IncompleteBody, AnswerOptions, ServeStaticFile, MayRaiseSigpipe, Go,
     c
<1>7. CASE Respond(t)
  <2>1. /\ at[c] = "dispatch" /\ served' = [served EXCEPT ![c] = @ + 1]
        /\ \E p \in {"next", "cleanup"} : at' = [at EXCEPT ![c] = p]
        /\ shutdown_requested' \in BOOLEAN
    BY <1>2, <1>7 DEF Respond, Serving, Go, MayRaiseSigpipe, c
  <2>2. served[c] + 1 \in 0..MaxKeepAlive
    BY <1>1, <1>2, <2>1, ServerAssumption DEF ServedInv
  <2>3. /\ at'[c] \in {"next", "cleanup"} /\ served' \in [Clients -> 0..MaxKeepAlive]
        /\ \A d \in Clients : d # c => at'[d] = at[d] /\ served'[d] = served[d]
    BY <1>1, <1>2, <2>1, <2>2
  <2> QED
    BY <1>2, <2>1, <2>3 DEF ServedInv
<1>8. CASE ReadNext(t)
  <2> DEFINE p == IF served[c] < MaxKeepAlive THEN "dispatch" ELSE "cleanup"
  <2>1. at' = [at EXCEPT ![c] = p] /\ UNCHANGED <<served, shutdown_requested>>
    BY <1>8 DEF ReadNext, Go, c
  <2>2. p \in {"dispatch", "cleanup"} /\ (p = "dispatch" => served[c] < MaxKeepAlive)
    OBVIOUS
  <2> HIDE DEF p
  <2> QED
    BY <1>1, <1>2, <2>1, <2>2, ServedMove
<1>9. CASE ReadNextFails(t)
  BY <1>2, <1>9, <1>1, ServedMove DEF ReadNextFails, MayRaiseSigpipe, Go, c
<1>10. CASE Cleanup(t)
  BY <1>10, <1>1, <1>2, ServedMove DEF Cleanup, Go, c
<1> QED
  BY <1>3, <1>4, <1>5, <1>6, <1>7, <1>8, <1>9, <1>10 DEF handle_client

\* Any step.
LEMMA ServedNext ==
    ASSUME ServedInv, HandlerInv, HandlerInv', Next
    PROVE  ServedInv'
<1>1. /\ at \in [Clients -> Places] /\ acceptor \in {"loop", "ready", "left"}
      /\ shutdown_requested \in BOOLEAN
  BY DEF ServedInv, HandlerInv
<1>2. CASE destroyer # "freed" /\ AcceptLoop
  BY <1>1, ServedKept, ServedMove, <1>2 DEF Poll, LeaveLoop, JoinOrFree, connVars, AcceptClient, RejectClient,
     Arrives, ServedInv, AcceptLoop
<1>3. CASE RequestShutdown
  BY <1>1, <1>3, ServedKept DEF RequestShutdown, connVars
<1>4. ASSUME NEW t \in Workers, destroyer # "freed", thread_worker(t) \/ WaitExpires(t)
      PROVE  ServedInv'
  <2>1. CASE StartHandler(t)
    <3> DEFINE c == Head(work)
    <3>1. c \in Clients /\ at[c] = "queued"
      BY <1>4, <2>1, HandlerStart DEF HandlerInv
    <3>2. at' = [at EXCEPT ![c] = "setup"] /\ UNCHANGED <<served, acceptor, shutdown_requested>>
      BY <2>1 DEF StartHandler
    <3>3. served[c] = 0
      BY <3>1 DEF ServedInv
    <3> QED
      BY <1>1, <3>1, <3>2, <3>3, ServedMove
  <2>2. CASE EndHandler(t)
    <3> DEFINE c == task[t]
    <3>1. c \in Clients /\ at[c] \in Final
      BY <2>2, HandlerEnd DEF HandlerInv
    <3>2. served' = [served EXCEPT ![c] = 0] /\ UNCHANGED <<at, acceptor, shutdown_requested>>
      BY <2>2 DEF EndHandler
    <3>3. /\ at[c] # "dispatch" /\ served' \in [Clients -> 0..MaxKeepAlive] /\ served'[c] = 0
          /\ \A d \in Clients : d # c => served'[d] = served[d]
      BY <3>1, <3>2, ServerAssumption DEF Final, ServedInv
    <3> QED
      BY <1>1, <3>2, <3>3 DEF ServedInv
  <2>3. CASE handle_client(t)
    BY <2>3, ServedHandler
  <2>4. CASE UNCHANGED <<acceptor, shutdown_requested, connVars>>
    BY <1>1, <2>4, ServedKept DEF connVars
  <2> QED
    BY <1>4, <2>1, <2>2, <2>3, <2>4 DEF thread_worker, WaitExpires
<1>5. CASE Terminated
  BY <1>1, <1>5, ServedKept DEF Terminated, vars, connVars
<1> QED
  BY <1>2, <1>3, <1>4, <1>5 DEF Next

\* Every variable keeps its type; no connection is answered more often than
\* max_keep_alive_requests allows.
THEOREM TypeCorrect == Spec => []TypeOK
<1>1. Init => ServedInv
  <2> SUFFICES ASSUME Init PROVE ServedInv
    OBVIOUS
  <2>1. /\ at = [c \in Clients |-> "none"] /\ served = [c \in Clients |-> 0]
        /\ acceptor = "loop" /\ shutdown_requested = FALSE
    BY DEF Init
  <2>2. 0 \in 0..MaxKeepAlive /\ "none" # "dispatch" /\ FALSE \in BOOLEAN
    BY ServerAssumption
  <2>3. served \in [Clients -> 0..MaxKeepAlive]
    BY <2>1, <2>2
  <2>4. \A c \in Clients : served[c] = 0 /\ at[c] # "dispatch"
    BY <2>1, <2>2
  <2> QED
    BY <2>1, <2>2, <2>3, <2>4 DEF ServedInv
<1>2. HandlerInv /\ HandlerInv' /\ ServedInv /\ [Next]_vars => ServedInv'
  BY ServedNext DEF vars, connVars, ServedInv
<1>3. HandlerInv /\ FdInv /\ ServedInv => TypeOK
  BY DEF HandlerInv, FdInv, FdTypes, ServedInv, TypeOK
<1> QED
  BY <1>1, <1>2, <1>3, Handlers, Descriptors, PTL DEF Spec

\* The pool is sound at every moment: types, exact counters, no worker asleep while it
\* is needed, a bounded overflow, and nothing left when it is freed.
THEOREM PoolIsSound == Spec => []PoolSound
<1>1. TypeOK /\ CountersExact /\ SleepersNotNeeded /\ OverflowHasWorkers /\ DrainedWhenFreed => PoolSound
  BY DEF PoolSound
<1> QED
  BY <1>1, TypeCorrect, CountersCorrect, NoLostWakeUp, OverflowBounded, FreedWhenDrained, PTL

\* Connections have one handler each and no descriptor is left open or lost but by a
\* second close.
THEOREM DescriptorsAreSound == Spec => []DescriptorsSound
<1>1. OneHandlerPerClient /\ NoDescriptorLeak /\ OwnDescriptorUnlessClosedTwice => DescriptorsSound
  BY DEF DescriptorsSound
<1> QED
  BY <1>1, EachServedOnce, DescriptorsAreClosed, DescriptorsAreOwned, PTL

(* Where a setting comes from.                                             *)

\* What the environment says in the end: the variable, or what the file has
\* for a variable that is not set.
LEMMA EnvironIs ==
    ASSUME NEW i \in Inputs
    PROVE Environ(i) = IF i.env = "absent" /\ FileHas(i) THEN [from |-> "envfile", grade |-> "good"]
                       ELSE [from |-> "env", grade |-> i.env]
BY DEF Environ, FileHas, load_env_file
\* A setting is a source and whether the value is legal.
LEMMA FromIs ==
    /\ \A s, g : From(s, g).from = s /\ From(s, g).good \in BOOLEAN /\ (From(s, g).good <=> g = "good")
    /\ Default.from = "default" /\ Default.good \in BOOLEAN /\ Default.good
BY DEF From, Default

\* The value after the options written at once: theirs, or the default, or the
\* secret of the environment.
LEMMA StartsFrom ==
    ASSUME NEW i \in Inputs
    PROVE LET v == Options(i, config_init_defaults(i)) IN
          /\ v.from \in Sources /\ v.good \in BOOLEAN
          /\ v.from = IF i.key \in Immediate /\ i.cmd # "absent" THEN "cmd"
                      ELSE IF i.key = "jwt_secret" /\ i.env = "good" THEN "env" ELSE "default"
          /\ i.key = "port" => v.good
BY FromIs DEF Options, config_init_defaults, load_jwt_secret_secure, Sources, Immediate

\* After the file: its own entry, else what was there or the default again.
LEMMA LoadedFrom ==
    ASSUME NEW i \in Inputs
    PROVE LET v == config_load(i, Options(i, config_init_defaults(i))) IN
          /\ v.from \in Sources /\ v.good \in BOOLEAN
          /\ FileSays(i) => v.from = "file"
          /\ ~ FileSays(i) =>
                v.from = IF i.key \in Immediate /\ i.cmd # "absent" THEN "cmd"
                         ELSE IF i.key = "jwt_secret" /\ i.env = "good" THEN "env" ELSE "default"
          /\ i.key = "port" /\ ~ v.good => v.from = "file"
<1> DEFINE w == Options(i, config_init_defaults(i))
<1>1. /\ w.from \in Sources /\ w.good \in BOOLEAN
      /\ w.from = IF i.key \in Immediate /\ i.cmd # "absent" THEN "cmd"
                  ELSE IF i.key = "jwt_secret" /\ i.env = "good" THEN "env" ELSE "default"
      /\ i.key = "port" => w.good
  BY StartsFrom
<1> HIDE DEF w
<1>2. CASE i.file = "json"
  <2>1. CASE JsonTakes(i)
    BY <1>2, <2>1, FromIs DEF config_load, config_load_json, FileSays, Sources
  <2>2. CASE ~ JsonTakes(i) /\ ResetByJson(i)
    BY <1>1, <1>2, <2>2, FromIs DEF config_load, config_load_json, FileSays, Sources, ResetByJson, Immediate
  <2>3. CASE ~ JsonTakes(i) /\ ~ ResetByJson(i) /\ SecretAgain(i)
    <3>1. config_load(i, w) = IF i.env = "good" THEN From("env", "good") ELSE Default
      BY <1>2, <2>3 DEF config_load, config_load_json, load_jwt_secret_secure
    <3>2. i.key = "jwt_secret" /\ i.key \notin Immediate /\ i.key # "port" /\ ~ FileSays(i)
      BY <1>2, <2>3 DEF SecretAgain, Immediate, FileSays
    <3>3. /\ config_load(i, w).from = IF i.env = "good" THEN "env" ELSE "default"
          /\ config_load(i, w).good \in BOOLEAN
      BY <3>1, FromIs
    <3> QED BY <3>2, <3>3 DEF Sources, w
  <2>4. CASE ~ JsonTakes(i) /\ ~ ResetByJson(i) /\ ~ SecretAgain(i)
    BY <1>1, <1>2, <2>4, FromIs DEF config_load, config_load_json, FileSays, w
  <2> QED BY <2>1, <2>2, <2>3, <2>4
<1>3. CASE i.file = "conf"
  BY <1>1, <1>3, FromIs DEF config_load, config_load_keyvalue, FileSays, Sources, w
<1>4. CASE i.file \notin {"json", "conf"}
  BY <1>1, <1>4 DEF config_load, FileSays, w
<1> QED BY <1>2, <1>3, <1>4

\* A running server has the setting from the documented source, but for the
\* three disagreements, and a port that is none from the variable or the file.
LEMMA PriorityIsDocumented ==
    ASSUME NEW i \in Inputs, ~ Rejected(i)
    PROVE /\ Configured(i).from \in Sources /\ Configured(i).good \in BOOLEAN
          /\ Configured(i).from # "db"
          /\ Configured(i).from = Documented(i) <=> ~ Disagrees(i)
          /\ i.key = "port" /\ ~ Configured(i).good => Configured(i).from \in {"env", "file"}
<1> DEFINE w == config_load(i, Options(i, config_init_defaults(i)))
           e == Environ(i)
           x == load_environment_config(i, w, e)
<1>1. /\ w.from \in Sources /\ w.good \in BOOLEAN
      /\ FileSays(i) => w.from = "file"
      /\ ~ FileSays(i) =>
            w.from = IF i.key \in Immediate /\ i.cmd # "absent" THEN "cmd"
                     ELSE IF i.key = "jwt_secret" /\ i.env = "good" THEN "env" ELSE "default"
      /\ i.key = "port" /\ ~ w.good => w.from = "file"
  BY LoadedFrom
<1>2. e = IF i.env = "absent" /\ FileHas(i) THEN [from |-> "envfile", grade |-> "good"]
          ELSE [from |-> "env", grade |-> i.env]
  BY EnvironIs
<1> HIDE DEF w, e
<1>3. CASE EnvironmentSays(i)
  <2>1. x = From(e.from, e.grade)
    BY <1>2, <1>3 DEF load_environment_config, EnvironmentSays, Usable
  <2>2. x.from = (IF i.env # "absent" THEN "env" ELSE "envfile") /\ x.good \in BOOLEAN
        /\ (~ x.good => x.from = "env")
    <3>1. e.from = (IF i.env # "absent" THEN "env" ELSE "envfile") /\ (e.from = "envfile" => e.grade = "good")
      BY <1>2, <1>3 DEF EnvironmentSays, Usable
    <3> HIDE DEF x
    <3> QED BY <2>1, <3>1, FromIs
  <2> HIDE DEF x
  <2>3. Configured(i) = Overrides(i, x)
    BY DEF Configured, w, e, x
  <2>4. /\ i.cmd = "absent" \/ (i.cmd \in {"good", "weak"} /\ i.key \in Deferred \cup Immediate)
        /\ ~ (i.key = "port" /\ i.cmd = "weak")
    BY OptionsAssumption DEF Rejected
  <2>5. CASE (i.key = "verbose_mode" /\ i.cmd = "absent") \/ (i.key = "log_level" /\ i.cmd = "weak")
    BY <1>3, <2>3, <2>5, FromIs DEF Overrides, Disagrees, Documented, Sources
  <2>6. CASE i.key \in Deferred /\ i.cmd # "absent" /\ ~ (i.key = "log_level" /\ i.cmd = "weak")
    BY <2>3, <2>6, <2>4, FromIs DEF Overrides, Disagrees, Documented, Deferred, Immediate, Sources
  <2>7. CASE /\ ~ (i.key \in Deferred /\ i.cmd # "absent")
             /\ ~ ((i.key = "verbose_mode" /\ i.cmd = "absent") \/ (i.key = "log_level" /\ i.cmd = "weak"))
    BY <2>3, <2>7, <1>3, <2>4, <2>2 DEF Overrides, Disagrees, Documented, Sources
  <2> QED BY <2>5, <2>6, <2>7
<1>4. CASE ~ EnvironmentSays(i)
  <2>1. x = w
    BY <1>2, <1>4 DEF load_environment_config, EnvironmentSays, Usable
  <2> HIDE DEF x
  <2>3. Configured(i) = Overrides(i, w)
    BY <2>1 DEF Configured, w, e, x
  <2>4. i.key = "jwt_secret" => i.env # "good"
    BY <1>4 DEF EnvironmentSays, Usable, Variables
  <2>5. /\ i.cmd = "absent" \/ (i.cmd \in {"good", "weak"} /\ i.key \in Deferred \cup Immediate)
        /\ ~ (i.key = "port" /\ i.cmd = "weak")
    BY OptionsAssumption DEF Rejected
  <2>6. CASE (i.key = "log_level" /\ i.cmd = "weak") \/ (i.key = "verbose_mode" /\ i.cmd = "absent" /\ FileSays(i))
    BY <1>4, <2>3, <2>6, FromIs DEF Overrides, Disagrees, Documented, Sources
  <2>7. CASE i.key = "verbose_mode" /\ i.cmd = "absent" /\ ~ FileSays(i)
    BY <1>4, <2>3, <2>7, FromIs DEF Overrides, Disagrees, Documented, Sources
  <2>8. CASE i.key \in Deferred /\ i.cmd # "absent" /\ ~ (i.key = "log_level" /\ i.cmd = "weak")
    BY <2>3, <2>8, <2>5, FromIs DEF Overrides, Disagrees, Documented, Deferred, Immediate, Sources
  <2>9. CASE /\ ~ (i.key \in Deferred /\ i.cmd # "absent")
             /\ ~ ((i.key = "verbose_mode" /\ i.cmd = "absent") \/ (i.key = "log_level" /\ i.cmd = "weak"))
    <3>1. Configured(i) = w
      BY <2>3, <2>9 DEF Overrides
    <3>2. ~ Disagrees(i)
      BY <1>4, <2>9 DEF Disagrees
    <3>3. CASE i.cmd # "absent"
      BY <2>5, <2>9, <3>3, <1>1, <3>1, <3>2 DEF Documented, FileSays, JsonTakes, JsonKeys, KeyValues, Immediate,
         Sources
    <3>4. CASE i.cmd = "absent"
      BY <1>4, <3>4, <1>1, <2>4, <3>1, <3>2 DEF Documented, Sources
    <3> QED BY <3>3, <3>4
  <2> QED BY <2>6, <2>7, <2>8, <2>9
<1> QED BY <1>3, <1>4
\* The inductive invariant of one setting: while the server runs, its value is
\* what the sources of this behaviour make of it, and the database holds one
\* document for each update, none under the id that is looked for.
ConfigInv ==
    /\ input \in Inputs /\ server \in {"down", "failed", "up"}
    /\ value = IF server = "up" THEN Configured(input) ELSE Default
    /\ server = "up" => ~ Rejected(input)
    /\ puts \in 0 .. MaxPuts /\ saved = 1 .. puts
    /\ claimed \in BOOLEAN /\ (claimed <=> puts > 0)

LEMMA Interval ==
    ASSUME NEW n \in Nat
    PROVE IsFiniteSet(1 .. n) /\ Cardinality(1 .. n) = n
BY FS_Interval

LEMMA ConfigInvKept == ConfigInv /\ [ConfigNext]_configVars => ConfigInv'
<1> SUFFICES ASSUME ConfigInv, [ConfigNext]_configVars PROVE ConfigInv'
  OBVIOUS
<1> USE ConfigAssumption DEF ConfigInv
<1>0. 0 \notin saved /\ puts \in Nat /\ Cardinality(saved) = puts
  BY Interval
<1>1. CASE init_config
  BY <1>0, <1>1 DEF init_config, config_apply_database_settings, CONFIG_DOCUMENT_ID
<1>2. CASE api_handle_config_update
  BY <1>0, <1>2 DEF api_handle_config_update, config_save_to_database, CONFIG_DOCUMENT_ID, InsertedId,
     config_apply_database_settings
<1>3. CASE api_handle_config_reload
  BY <1>0, <1>3 DEF api_handle_config_reload, config_apply_database_settings, CONFIG_DOCUMENT_ID
<1>4. CASE Restart
  BY <1>4 DEF Restart
<1>5. CASE UNCHANGED configVars
  BY <1>5 DEF configVars
<1> QED BY <1>1, <1>2, <1>3, <1>4, <1>5 DEF ConfigNext

LEMMA ConfigInvTells == ConfigInv => ConfigSound
<1> SUFFICES ASSUME ConfigInv PROVE ConfigSound
  OBVIOUS
<1> USE ConfigAssumption DEF ConfigInv
<1>1. ~ Rejected(input) =>
        /\ Configured(input).from \in Sources /\ Configured(input).good \in BOOLEAN
        /\ Configured(input).from # "db"
        /\ Configured(input).from = Documented(input) <=> ~ Disagrees(input)
        /\ input.key = "port" /\ ~ Configured(input).good => Configured(input).from \in {"env", "file"}
  BY PriorityIsDocumented
<1>2. value.from \in Sources /\ value.good \in BOOLEAN /\ value.from # "db"
  BY <1>1, FromIs DEF Sources
<1>3. ConfigTypeOK
  BY <1>2 DEF ConfigTypeOK
<1>4. SourceIsDocumented /\ PortCheckedAsOption
  BY <1>1 DEF SourceIsDocumented, PortCheckedAsOption
<1>5. DatabaseNeverApplies
  BY <1>2, Interval DEF DatabaseNeverApplies
<1> QED BY <1>3, <1>4, <1>5 DEF ConfigSound

\* Every setting of a running server comes from its documented source, whatever
\* the sources are, but for the listed disagreements; nothing from the database.
THEOREM SettingsHaveTheirSource == ConfigSpec => []ConfigSound
<1>1. ConfigInit => ConfigInv
  <2> SUFFICES ASSUME ConfigInit PROVE ConfigInv
    OBVIOUS
  <2>1. /\ input \in Inputs /\ server = "down" /\ value = Default
        /\ puts = 0 /\ saved = {} /\ claimed = FALSE
    BY DEF ConfigInit
  <2>2. puts \in 0 .. MaxPuts /\ saved = 1 .. puts /\ ~ (puts > 0)
    BY <2>1, ConfigAssumption
  <2> QED BY <2>1, <2>2 DEF ConfigInv
<1>2. ConfigInv /\ [ConfigNext]_configVars => ConfigInv'
  BY ConfigInvKept
<1>3. ConfigInv => ConfigSound
  BY ConfigInvTells
<1> QED BY <1>1, <1>2, <1>3, PTL DEF ConfigSpec

-----------------------------------------------------------------------------
(* How the server starts.                                                  *)

Processes == [mode : Modes, at : 1 .. 12, type : {"main", "daemon_child", "server"},
              registered : SUBSET {"database", "metrics", "rbac", "api"}, cleanup : BOOLEAN,
              state : {"starting", "running", "failed", "stopped"},
              freed : SUBSET {"database", "metrics", "rbac", "api"}, rbacSaved : BOOLEAN]

Alive == {"starting", "running"}

\* One process: before daemonisation it has nothing to clean up and nothing
\* registered; after it, it cleans up exactly if it went to the background.
ProcessSound(q) ==
    /\ q.at <= 2 => ~ q.cleanup /\ q.registered = {} /\ q.type # "server"
    /\ q.at > 2 => q.cleanup /\ (q.type = "server" <=> Background(q))
    /\ q.state \in Alive => q.freed = {} /\ ~ q.rbacSaved
    /\ q.state \notin Alive =>
          /\ q.freed = (IF Background(q) THEN q.registered ELSE {})
          /\ q.rbacSaved => Background(q)

\* The inductive invariant: only the last instance is still starting; who is past
\* the socket listens, and no other; the PID file names the last one past
\* daemonisation.
StartupInv ==
    /\ procs \in Seq(Processes)
    /\ pidFile \in 0 .. Len(procs) /\ port \in 0 .. Len(procs)
    /\ \A p \in 1 .. Len(procs) :
          /\ ProcessSound(procs[p])
          /\ procs[p].state = "starting" => p = Len(procs)
          /\ procs[p].state \in Alive /\ procs[p].at > 3 => port = p
          /\ procs[p].at > 2 => pidFile >= p
    /\ port # 0 => procs[port].state \in Alive /\ procs[port].at > 3
    /\ pidFile # 0 => procs[pidFile].at > 2

\* The steps by their numbers.
LEMMA StepsAre ==
    /\ DOMAIN Steps = 1 .. 12
    /\ \A n \in 1 .. 12 :
          /\ Steps[n] = "daemon" <=> n = 2
          /\ Steps[n] = "socket" <=> n = 3
          /\ Steps[n] = "run" <=> n = 12
          /\ RegisteredBy(Steps[n]) \subseteq {"database", "metrics", "rbac", "api"}
          /\ n <= 3 => RegisteredBy(Steps[n]) = {}
  BY DEF Steps, Registers, RegisteredBy
\* What ends a process leaves a sound one: the clean-up acts on the daemon only.
LEMMA ExitedSound ==
    ASSUME NEW q \in Processes, ProcessSound(q), q.state \in Alive,
           NEW state \in {"failed", "stopped"}
    PROVE LET r == Exited(q, state) IN
          /\ r \in Processes /\ ProcessSound(r) /\ r.state = state /\ r.at = q.at
<1> DEFINE c == init_cleanup(q)
           r == [c EXCEPT !.state = state]
<1>1. /\ c \in Processes /\ c.at = q.at /\ c.mode = q.mode /\ c.type = q.type
      /\ c.registered = q.registered /\ c.cleanup = q.cleanup
      /\ q.cleanup /\ q.type = "server" => c.freed = q.registered
      /\ ~ (q.cleanup /\ q.type = "server") => c.freed = q.freed /\ c.rbacSaved = q.rbacSaved
  BY DEF init_cleanup, Processes
<1> HIDE DEF c
<1>2. /\ r \in Processes /\ r.at = c.at /\ r.mode = c.mode /\ r.type = c.type /\ r.state = state
      /\ r.registered = c.registered /\ r.cleanup = c.cleanup /\ r.freed = c.freed /\ r.rbacSaved = c.rbacSaved
  BY <1>1 DEF Processes
<1> HIDE DEF r
<1>3. ProcessSound(r)
  BY <1>1, <1>2 DEF ProcessSound, Background, Processes, Alive
<1>4. Exited(q, state) = r
  BY DEF Exited, r, c
<1> QED BY <1>1, <1>2, <1>3, <1>4

\* A step of main() that succeeds leaves a sound process, one step further.
LEMMA StepSound ==
    ASSUME NEW q \in Processes, ProcessSound(q), q.state = "starting", q.at # 12
    PROVE LET r == [(IF Steps[q.at] = "daemon" THEN init_daemon(q) ELSE q) EXCEPT
                       !.at = @ + 1, !.registered = @ \cup RegisteredBy(Steps[q.at]),
                       !.cleanup = @ \/ Steps[q.at] = "daemon"]
          IN  r \in Processes /\ ProcessSound(r) /\ r.state = "starting" /\ r.at = q.at + 1
<1> DEFINE d == IF Steps[q.at] = "daemon" THEN init_daemon(q) ELSE q
           k == d.cleanup \/ Steps[q.at] = "daemon"
           n == d.at + 1
           g == d.registered \cup RegisteredBy(Steps[q.at])
           r == [d EXCEPT !.at = n, !.registered = g, !.cleanup = k]
<1>0. q.at \in 1 .. 12
  BY DEF Processes
<1>1. /\ d \in Processes /\ d.at = q.at /\ d.mode = q.mode /\ d.registered = q.registered
      /\ d.cleanup = q.cleanup /\ d.state = q.state /\ d.freed = q.freed /\ d.rbacSaved = q.rbacSaved
      /\ Steps[q.at] = "daemon" /\ Background(q) => d.type = "server"
      /\ ~ (Steps[q.at] = "daemon" /\ Background(q)) => d.type = q.type
  BY DEF init_daemon, Processes
<1> HIDE DEF d
<1>2. /\ RegisteredBy(Steps[q.at]) \subseteq {"database", "metrics", "rbac", "api"}
      /\ q.at <= 3 => RegisteredBy(Steps[q.at]) = {}
      /\ Steps[q.at] = "daemon" <=> q.at = 2
  BY <1>0, StepsAre
<1>3. /\ r \in Processes /\ r.at = q.at + 1 /\ r.mode = q.mode /\ r.type = d.type
      /\ r.registered = q.registered \cup RegisteredBy(Steps[q.at])
      /\ r.cleanup = k
      /\ r.state = q.state /\ r.freed = q.freed /\ r.rbacSaved = q.rbacSaved
  <2>1. k \in BOOLEAN /\ n \in 1 .. 12 /\ n = q.at + 1
        /\ g \in SUBSET {"database", "metrics", "rbac", "api"}
        /\ g = q.registered \cup RegisteredBy(Steps[q.at])
    BY <1>0, <1>1, <1>2 DEF Processes
  <2> HIDE DEF k, n, g
  <2> QED BY <1>1, <2>1 DEF Processes
<1>4. k <=> q.cleanup \/ q.at = 2
  BY <1>1, <1>2
<1> HIDE DEF r, k
<1>5. ProcessSound(r)
  BY <1>3, <1>0, <1>1, <1>2, <1>4 DEF Background, ProcessSound, Alive
<1> QED BY <1>3, <1>5 DEF r, d, k, n, g
\* A change of one process leaves the others as they are.
LEMMA OneChanges ==
    ASSUME NEW s \in Seq(Processes), NEW p \in 1 .. Len(s), NEW r \in Processes
    PROVE LET n == [s EXCEPT ![p] = r] IN
          /\ n \in Seq(Processes) /\ Len(n) = Len(s) /\ DOMAIN n = 1 .. Len(s)
          /\ n[p] = r /\ \A x \in 1 .. Len(s) : x # p => n[x] = s[x]
BY ExceptSeq

LEMMA StartupInvKept == StartupInv /\ [StartupNext]_startVars => StartupInv'
<1> SUFFICES ASSUME StartupInv, [StartupNext]_startVars PROVE StartupInv'
  OBVIOUS
<1>n. procs \in Seq(Processes) /\ Len(procs) \in Nat
  BY DEF StartupInv
<1>0. /\ DOMAIN procs = 1 .. Len(procs)
      /\ \A p \in 1 .. Len(procs) :
            /\ procs[p] \in Processes /\ procs[p].at \in 1 .. 12
            /\ ProcessSound(procs[p])
            /\ procs[p].state = "starting" => p = Len(procs)
            /\ procs[p].state \in Alive /\ procs[p].at > 3 => port = p
            /\ procs[p].at > 2 => pidFile >= p
      /\ pidFile \in 0 .. Len(procs) /\ port \in 0 .. Len(procs)
      /\ port # 0 => procs[port].state \in Alive /\ procs[port].at > 3
      /\ pidFile # 0 => procs[pidFile].at > 2
  <2>1. DOMAIN procs = 1 .. Len(procs)
    BY <1>n
  <2>2. ASSUME NEW p \in 1 .. Len(procs) PROVE procs[p] \in Processes
    BY <1>n, ElementOfSeq
  <2>3. \A q \in Processes : q.at \in 1 .. 12
    BY DEF Processes
  <2> QED BY <2>1, <2>2, <2>3 DEF StartupInv
<1>m. /\ port # 0 => port \in 1 .. Len(procs)
      /\ pidFile # 0 => pidFile \in 1 .. Len(procs)
  <2>1. pidFile \in 0 .. Len(procs) /\ port \in 0 .. Len(procs)
    BY <1>0
  <2> QED BY <1>n, <2>1
<1>1. ASSUME NEW mode \in Modes, main(mode)
      PROVE StartupInv'
  <2>1. Instance(mode) \in Processes /\ ProcessSound(Instance(mode)) /\ Instance(mode).at = 1
    BY DEF Instance, Processes, ProcessSound
  <2>2. /\ procs' \in Seq(Processes) /\ Len(procs') = Len(procs) + 1
        /\ procs'[Len(procs) + 1] = Instance(mode)
        /\ \A x \in 1 .. Len(procs) : procs'[x] = procs[x]
    <3>1. procs' = Append(procs, Instance(mode))
      BY <1>1 DEF main
    <3> HIDE DEF Instance
    <3> QED BY <1>n, <2>1, <3>1
  <2>3. \A x \in 1 .. Len(procs) : procs[x].state # "starting"
    BY <1>n, <1>0, <1>1 DEF main
  <2>4. pidFile' = pidFile /\ port' = port
    BY <1>1 DEF main
  <2>6. Instance(mode).at = 1 /\ ProcessSound(Instance(mode))
    BY <2>1
  <2>7. \A x \in 1 .. Len(procs) + 1 :
           /\ ProcessSound(procs'[x])
           /\ procs'[x].state = "starting" => x = Len(procs) + 1
           /\ procs'[x].state \in Alive /\ procs'[x].at > 3 => port = x
           /\ procs'[x].at > 2 => pidFile >= x
    <3> HIDE DEF Instance, ProcessSound, Alive
    <3>1. ASSUME NEW x \in 1 .. Len(procs)
          PROVE /\ ProcessSound(procs'[x])
                /\ procs'[x].state # "starting"
                /\ procs'[x].state \in Alive /\ procs'[x].at > 3 => port = x
                /\ procs'[x].at > 2 => pidFile >= x
      BY <1>n, <1>0, <2>2, <2>3
    <3>2. ASSUME NEW x \in 1 .. Len(procs) + 1, x \notin 1 .. Len(procs)
          PROVE x = Len(procs) + 1
      BY <1>n, <3>2
    <3> QED BY <2>2, <2>6, <3>1, <3>2
  <2>8. /\ port # 0 => procs'[port].state \in Alive /\ procs'[port].at > 3
        /\ pidFile # 0 => procs'[pidFile].at > 2
    BY <1>m, <2>2, <1>0
  <2>9. pidFile' \in 0 .. Len(procs') /\ port' \in 0 .. Len(procs')
    <3>1. pidFile \in 0 .. Len(procs) /\ port \in 0 .. Len(procs)
      BY <1>0
    <3> QED BY <1>n, <2>2, <2>4, <3>1
  <2> HIDE DEF Instance
  <2> QED BY <2>2, <2>4, <2>7, <2>8, <2>9 DEF StartupInv
<1>2. ASSUME NEW p \in DOMAIN procs, Step(p)
      PROVE StartupInv'
  <2> DEFINE q == procs[p]
             r == [(IF Steps[q.at] = "daemon" THEN init_daemon(q) ELSE q) EXCEPT
                       !.at = @ + 1, !.registered = @ \cup RegisteredBy(Steps[q.at]),
                       !.cleanup = @ \/ Steps[q.at] = "daemon"]
  <2>1. q \in Processes /\ ProcessSound(q) /\ q.state = "starting" /\ q.at \in 1 .. 11 /\ p = Len(procs)
    BY <1>n, <1>0, <1>2, StepsAre DEF Step
  <2>2. procs' = [procs EXCEPT ![p] = r]
        /\ pidFile' = (IF Steps[q.at] = "daemon" THEN p ELSE pidFile)
        /\ port' = (IF Steps[q.at] = "socket" THEN p ELSE port)
        /\ (Steps[q.at] = "socket" => port = 0)
    BY <1>2 DEF Step, WritesPid
  <2>3. r \in Processes /\ ProcessSound(r) /\ r.state = "starting" /\ r.at = q.at + 1
    <3>1. q.at # 12
      BY <2>1
    <3> HIDE DEF q
    <3> QED BY <2>1, <3>1, StepSound
  <2> HIDE DEF r
  <2>4. /\ procs' \in Seq(Processes) /\ Len(procs') = Len(procs) /\ procs'[p] = r
        /\ \A x \in 1 .. Len(procs) : x # p => procs'[x] = procs[x]
    BY <1>n, <1>0, <2>2, <2>3, OneChanges
  <2>5. procs[p].state \in Alive /\ procs'[p].state \in Alive
    BY <2>1, <2>3, <2>4 DEF Alive
  <2>6. (Steps[q.at] = "daemon" <=> q.at = 2) /\ (Steps[q.at] = "socket" <=> q.at = 3)
    BY <2>1, StepsAre
  <2>7. \A x \in 1 .. Len(procs) : ProcessSound(procs'[x]) /\ (procs'[x].state = "starting" => x = Len(procs))
    BY <1>n, <1>0, <2>1, <2>3, <2>4
  <2> HIDE DEF q
  <2>8. CASE q.at = 2
    BY <1>n, <1>0, <2>1, <2>2, <2>3, <2>4, <2>5, <2>6, <2>7, <2>8 DEF q, StartupInv
  <2>9. CASE q.at = 3
    BY <1>n, <1>0, <2>1, <2>2, <2>3, <2>4, <2>5, <2>6, <2>7, <2>9 DEF q, StartupInv
  <2>10. CASE q.at \notin {2, 3}
    BY <1>n, <1>0, <2>1, <2>2, <2>3, <2>4, <2>5, <2>6, <2>7, <2>10 DEF q, StartupInv
  <2> QED BY <2>8, <2>9, <2>10
<1>3. ASSUME NEW p \in DOMAIN procs, NEW q \in Processes, NEW state \in {"failed", "stopped"},
             Live(p), ProcessSound(q), q.at = procs[p].at, q.state = procs[p].state,
             procs' = [procs EXCEPT ![p] = Exited(q, state)],
             port' = (IF port = p THEN 0 ELSE port), pidFile' = pidFile
      PROVE StartupInv'
  <2> DEFINE r == Exited(q, state)
  <2>1. r \in Processes /\ ProcessSound(r) /\ r.state = state /\ r.at = procs[p].at
    BY <1>3, ExitedSound DEF Live, Alive
  <2> HIDE DEF r
  <2>2. /\ procs' \in Seq(Processes) /\ Len(procs') = Len(procs) /\ procs'[p] = r
        /\ \A x \in 1 .. Len(procs) : x # p => procs'[x] = procs[x]
    BY <1>n, <1>0, <1>3, <2>1, OneChanges DEF r
  <2>3. procs'[p].state \notin Alive /\ procs'[p].state # "starting" /\ procs[p].state \in Alive
    BY <1>3, <2>1, <2>2 DEF Alive, Live
  <2> QED BY <1>n, <1>0, <1>3, <2>1, <2>2, <2>3 DEF StartupInv
<1>4. ASSUME NEW p \in DOMAIN procs, StepFails(p)
      PROVE StartupInv'
  <2> DEFINE q == IF Steps[procs[p].at] = "daemon" THEN [procs[p] EXCEPT !.type = "daemon_child"] ELSE procs[p]
  <2>1. q \in Processes /\ q.at = procs[p].at /\ q.state = procs[p].state /\ ProcessSound(q)
    <3>1. Steps[procs[p].at] = "daemon" <=> procs[p].at = 2
      BY <1>n, <1>0, StepsAre
    <3>2. procs[p] \in Processes /\ ProcessSound(procs[p])
      BY <1>n, <1>0
    <3>3. CASE procs[p].at = 2
      BY <3>1, <3>3, <3>2 DEF Processes, ProcessSound, Background
    <3> QED BY <3>1, <3>2, <3>3
  <2>2. Live(p) /\ procs' = [procs EXCEPT ![p] = Exited(q, "failed")]
        /\ port' = (IF port = p THEN 0 ELSE port) /\ pidFile' = pidFile
    BY <1>4 DEF StepFails, Live
  <2> HIDE DEF q
  <2> QED BY <1>3, <2>1, <2>2
<1>5. ASSUME NEW p \in DOMAIN procs, run_server(p)
      PROVE StartupInv'
  <2> DEFINE r == [procs[p] EXCEPT !.state = "running"]
  <2>1. procs[p] \in Processes /\ ProcessSound(procs[p]) /\ procs[p].state = "starting"
    BY <1>n, <1>0, <1>5 DEF run_server
  <2>2. r \in Processes /\ r.state = "running" /\ r.at = procs[p].at /\ ProcessSound(r)
    <3>1. /\ r \in Processes /\ r.state = "running" /\ r.at = procs[p].at /\ r.mode = procs[p].mode
          /\ r.type = procs[p].type /\ r.cleanup = procs[p].cleanup /\ r.registered = procs[p].registered
          /\ r.freed = procs[p].freed /\ r.rbacSaved = procs[p].rbacSaved
      BY <2>1 DEF Processes
    <3> HIDE DEF r
    <3> QED BY <2>1, <3>1 DEF ProcessSound, Background, Alive
  <2>3. procs' = [procs EXCEPT ![p] = r] /\ pidFile' = pidFile /\ port' = port
    BY <1>5 DEF run_server
  <2> HIDE DEF r
  <2>4. /\ procs' \in Seq(Processes) /\ Len(procs') = Len(procs) /\ procs'[p] = r
        /\ \A x \in 1 .. Len(procs) : x # p => procs'[x] = procs[x]
    BY <1>n, <1>0, <2>2, <2>3, OneChanges
  <2>5. procs[p].state \in Alive /\ procs'[p].state \in Alive
    BY <2>1, <2>2, <2>4 DEF Alive
  <2> QED BY <1>n, <1>0, <2>1, <2>2, <2>3, <2>4, <2>5 DEF StartupInv
<1>6. ASSUME NEW p \in DOMAIN procs, Shutdown(p)
      PROVE StartupInv'
  BY <1>n, <1>0, <1>6, <1>3 DEF Shutdown, Live
<1>7. CASE UNCHANGED startVars
  BY <1>7 DEF startVars, StartupInv
<1> QED BY <1>1, <1>2, <1>4, <1>5, <1>6, <1>7 DEF StartupNext

LEMMA StartupInvTells == StartupInv => StartupSound
<1> SUFFICES ASSUME StartupInv PROVE StartupSound
  OBVIOUS
<1> USE DEF StartupInv
<1>0. /\ DOMAIN procs = 1 .. Len(procs) /\ Len(procs) \in Nat
      /\ \A p \in 1 .. Len(procs) : procs[p] \in Processes /\ procs[p].at \in 1 .. 12
  <2>1. DOMAIN procs = 1 .. Len(procs) /\ Len(procs) \in Nat
    OBVIOUS
  <2>2. ASSUME NEW p \in 1 .. Len(procs) PROVE procs[p] \in Processes
    BY ElementOfSeq
  <2>3. \A q \in Processes : q.at \in 1 .. 12
    BY DEF Processes
  <2> HIDE DEF StartupInv
  <2> QED BY <2>1, <2>2, <2>3
<1>1. StartupTypeOK
  <2>1. \A p \in 1 .. Len(procs) : procs[p].freed \subseteq procs[p].registered
    BY <1>0 DEF ProcessSound, Processes
  <2> QED BY <1>0, <2>1, StepsAre DEF StartupTypeOK, Processes
<1>2. PidFileNamesListener
  BY <1>0 DEF PidFileNamesListener, PastDaemon
<1>3. ListenerIsLive
  BY DEF ListenerIsLive, Live, Alive
<1>4. CleanupOnlyInBackground
  BY <1>0 DEF CleanupOnlyInBackground, ProcessSound, Live, Alive
<1> QED BY <1>1, <1>2, <1>3, <1>4 DEF StartupSound

\* A server is started with each setting from its documented source (but for the
\* listed disagreements); and however many instances are started, in whatever
\* mode and failing wherever: the listener is alive, the PID file names it unless a
\* later start overwrote it, and only a background process cleans up.
THEOREM SettingsAreSound == ConfigSpec /\ StartupSpec => []SettingsSound
<1>1. StartupInit => StartupInv
  BY DEF StartupInit, StartupInv
<1>2. StartupInv /\ [StartupNext]_startVars => StartupInv'
  BY StartupInvKept
<1>3. StartupInv => StartupSound
  BY StartupInvTells
<1>4. ConfigSpec => []ConfigSound
  BY SettingsHaveTheirSource
<1>5. ConfigSound /\ StartupSound => SettingsSound
  BY DEF SettingsSound
<1> QED BY <1>1, <1>2, <1>3, <1>4, <1>5, PTL DEF StartupSpec
=============================================================================
