----------------------------- MODULE LockManager -----------------------------
(***************************************************************************)
(* The document lock manager of components/database/lock_manager.c.        *)
(*                                                                         *)
(* One mutex guards the whole lock table, so everything a thread does      *)
(* between acquiring it and releasing it (or going to sleep on the entry's *)
(* condition variable) is one action.  A lock call that has to wait is     *)
(* therefore several actions: the call itself, the wake-up or the timeout  *)
(* inside pthread_cond_timedwait, and the code that runs once the mutex is *)
(* held again.  The timeout and the re-acquisition of the mutex are        *)
(* separate steps: a grant may fall between them.                          *)
(*                                                                         *)
(* A transaction is driven by one thread, so it is inside at most one lock *)
(* call.  Lock requests are heap objects taken from the pool Requests.     *)
(* A queue's order is kept as the set of requests ahead of each request.   *)
(***************************************************************************)
EXTENDS Naturals, FiniteSets

CONSTANTS
    Txns,              \* transactions (and the threads that drive them)
    Keys,              \* lockable resources: a collection, or one document of it
    Requests,          \* addresses a lock_request_t can have
    NoTxn, NoKey, NoReq,   \* NULL pointers
    MaxRetries,        \* timeouts the static retry_count forgives: 3 in the code
    StartTime,         \* [Txns -> Nat], transaction->start_time in seconds
    InitialDetection,  \* g_lock_manager_deadlock_detection when the calls begin
    ConfigValues       \* values lock_manager_configure may give it later

ASSUME PoolAssumption == /\ IsFiniteSet(Requests)
                         /\ NoReq \notin Requests
                         /\ NoTxn \notin Txns
                         /\ NoKey \notin Keys

ASSUME ConfigAssumption == /\ MaxRetries \in Nat
                           /\ StartTime \in [Txns -> Nat]
                           /\ InitialDetection \in BOOLEAN
                           /\ ConfigValues \subseteq BOOLEAN

VARIABLES
    entries,      \* keys that have a lock_entry_t in the lock table
    lockType,     \* entry->current_lock_type
    readerCount,  \* entry->reader_count
    granted,      \* entry->granted_queue
    waiting,      \* entry->waiting_queue, with its order in ahead
    ahead,        \* for a waiting request, the requests ahead of it
    req,          \* contents of each lock_request_t
    pc,           \* where the transaction's thread is
    callReq,      \* the request its lock call is waiting for
    callKey,      \* the key that call is for
    retryCount,   \* the two function-local static retry_count variables
    txnState,     \* transaction->state, as far as the detector changes it
    detection     \* g_lock_manager_deadlock_detection

vars == <<entries, lockType, readerCount, granted, waiting, ahead, req, pc,
          callReq, callKey, retryCount, txnState, detection>>

LockTypes == {"NONE", "SHARED", "EXCLUSIVE"}
Modes     == {"SHARED", "EXCLUSIVE"}
Statuses  == {"FREE", "WAITING", "GRANTED", "DEADLOCK", "ERROR"}

\* asleep: blocked in pthread_cond_timedwait.  woken, timedout: the wait is over
\* with 0 or ETIMEDOUT, the mutex not yet held.  spinning: inside
\* lock_manager_check_deadlocks, holding the mutex.
PCs == {"idle", "asleep", "woken", "timedout", "spinning"}

FreeRequest == [txn |-> NoTxn, type |-> "NONE", status |-> "FREE"]

Init ==
    /\ entries = {}
    /\ lockType = [k \in Keys |-> "NONE"]
    /\ readerCount = [k \in Keys |-> 0]
    /\ granted = [k \in Keys |-> {}]
    /\ waiting = [k \in Keys |-> {}]
    /\ ahead = [r \in Requests |-> {}]
    /\ req = [r \in Requests |-> FreeRequest]
    /\ pc = [t \in Txns |-> "idle"]
    /\ callReq = [t \in Txns |-> NoReq]
    /\ callKey = [t \in Txns |-> NoKey]
    /\ retryCount = [m \in Modes |-> 0]
    /\ txnState = [t \in Txns |-> "ACTIVE"]
    /\ detection = InitialDetection

-----------------------------------------------------------------------------
(* Helpers of the lock manager.                                            *)

\* The manager's mutex is free, except while a deadlock check runs.
MutexFree == \A t \in Txns : pc[t] # "spinning"

Idle(t) == pc[t] = "idle"

\* create_lock_request takes any free object of the pool.
CanAllocate(r) == req[r].status = "FREE"

\* Variant: an entry with shared locks accepts any request.
SharedAcceptsAll(type, mode) == type \in {"NONE", "SHARED"}

is_lock_compatible(type, mode) ==
    \/ type = "NONE"
    \/ type = "SHARED" /\ mode = "SHARED"

\* Variants of the scan: it stops after the first grant; it starts at the tail.
GrantsHeadOnly(ws, type) ==
    {r \in ws : ahead[r] = {} /\ is_lock_compatible(type, req[r].type)}

GrantsFromTail(ws, type) ==
    IF type = "NONE" THEN {r \in ws : \A s \in ws : r \notin ahead[s]}
    ELSE {r \in ws : is_lock_compatible(type, req[r].type)}

\* The requests that process_waiting_requests grants when it scans the queue ws
\* of an entry whose lock type is type: every one that is compatible when the
\* scan reaches it, also past requests that have to stay.
Grants(ws, type) ==
    LET shared == {r \in ws : req[r].type = "SHARED"}
        head   == {r \in ws : ahead[r] = {}}
    IN  CASE type = "EXCLUSIVE" -> {}
          [] type = "SHARED"    -> shared
          [] type = "NONE"      -> IF head \subseteq shared THEN shared ELSE head

\* The type and the reader count of an entry after add_granted_request for
\* each request of gs.
TypeAfter(type, gs) ==
    IF type = "NONE" /\ gs # {} THEN req[CHOOSE r \in gs : TRUE].type ELSE type

\* Variant: a lock granted from the queue is not counted as a reader.
ReadersNotCounted(n, gs) == n

ReadersAfter(n, gs) == n + Cardinality({r \in gs : req[r].type = "SHARED"})

\* The order of the queues once the requests of gs have left them.
AheadWithout(gs) ==
    [r \in Requests |-> IF r \in gs THEN {} ELSE ahead[r] \ gs]

\* pthread_cond_broadcast on the entry of k: every thread asleep on it wakes.
Broadcast(k, p) ==
    [t \in Txns |-> IF p[t] = "asleep" /\ callKey[t] = k THEN "woken" ELSE p[t]]

\* Variant: an entry without waiters is dropped, whatever it still holds.
RemoveEntryIfNoWaiter(k, type, ws) == IF ws = {} THEN entries \ {k} ELSE entries

\* remove_lock_entry: the entry leaves the table and its queues are freed.
RemoveEntryIfUnused(k, type, ws) ==
    IF type = "NONE" /\ ws = {} THEN entries \ {k} ELSE entries

-----------------------------------------------------------------------------
(* Lock calls.                                                             *)

\* add_granted_request for a fresh request r of transaction t.
GrantNow(t, k, r, mode) ==
    /\ req' = [req EXCEPT ![r] = [txn |-> t, type |-> mode, status |-> "GRANTED"]]
    /\ granted' = [granted EXCEPT ![k] = @ \cup {r}]
    /\ lockType' = [lockType EXCEPT ![k] = IF @ = "NONE" THEN mode ELSE @]
    /\ readerCount' = [readerCount EXCEPT ![k] = IF mode = "SHARED" THEN @ + 1 ELSE @]
    /\ UNCHANGED <<waiting, ahead, pc, callReq, callKey>>

\* add_waiting_request for r, and the first pthread_cond_timedwait.
Enqueue(t, k, r, mode) ==
    /\ req' = [req EXCEPT ![r] = [txn |-> t, type |-> mode, status |-> "WAITING"]]
    /\ ahead' = [ahead EXCEPT ![r] = waiting[k]]
    /\ waiting' = [waiting EXCEPT ![k] = @ \cup {r}]
    /\ pc' = [pc EXCEPT ![t] = "asleep"]
    /\ callReq' = [callReq EXCEPT ![t] = r]
    /\ callKey' = [callKey EXCEPT ![t] = k]
    /\ UNCHANGED <<lockType, readerCount, granted>>

\* Up to the first wait.  The shared call tests the entry's type for not being
\* EXCLUSIVE, the exclusive one calls is_lock_compatible.
StartLock(t, k, mode) ==
    /\ MutexFree /\ Idle(t)
    /\ entries' = entries \cup {k}
    /\ \E r \in Requests :
          /\ CanAllocate(r)
          /\ IF is_lock_compatible(lockType[k], mode)
             THEN GrantNow(t, k, r, mode)
             ELSE Enqueue(t, k, r, mode)
    /\ UNCHANGED <<retryCount, txnState, detection>>

lock_manager_lock_document(t, k) == StartLock(t, k, "EXCLUSIVE")

lock_manager_lock_document_shared(t, k) == StartLock(t, k, "SHARED")

\* The entry is created and added, then create_lock_request runs out of memory:
\* the call returns 0 and the entry stays.
LockOutOfMemory(t, k) ==
    /\ MutexFree /\ Idle(t)
    /\ entries' = entries \cup {k}
    /\ UNCHANGED <<lockType, readerCount, granted, waiting, ahead, req, pc,
                   callReq, callKey, retryCount, txnState, detection>>

\* pthread_cond_timedwait may return 0 without a broadcast.
SpuriousWakeup(t) ==
    /\ pc[t] = "asleep"
    /\ pc' = [pc EXCEPT ![t] = "woken"]
    /\ UNCHANGED <<entries, lockType, readerCount, granted, waiting, ahead, req,
                   callReq, callKey, retryCount, txnState, detection>>

\* The deadline passes: the thread now waits for the mutex.
DeadlinePasses(t) ==
    /\ pc[t] = "asleep"
    /\ pc' = [pc EXCEPT ![t] = "timedout"]
    /\ UNCHANGED <<entries, lockType, readerCount, granted, waiting, ahead, req,
                   callReq, callKey, retryCount, txnState, detection>>

\* Variant: a granted call returns without leaving the wait.
LoopTestNoReturn(t, s, p) ==
    /\ pc' = [p EXCEPT ![t] = IF s[callReq[t]].status = "GRANTED" THEN "idle" ELSE "asleep"]
    /\ UNCHANGED <<callReq, callKey>>

\* The thread's next step in the wait loop, request statuses being s: the call
\* returns when its request is granted, and waits again otherwise.
LoopTest(t, s, p) ==
    LET done == s[callReq[t]].status = "GRANTED"
    IN  /\ pc' = [p EXCEPT ![t] = IF done THEN "idle" ELSE "asleep"]
        /\ callReq' = [callReq EXCEPT ![t] = IF done THEN NoReq ELSE @]
        /\ callKey' = [callKey EXCEPT ![t] = IF done THEN NoKey ELSE @]

\* Grant the requests of gs on k and set its lock type, reader count and
\* granted queue, from the values type, n and held they have before.
process_waiting_requests(k, type, n, held, gs) ==
    /\ req' = [r \in Requests |->
                 IF r \in gs THEN [req[r] EXCEPT !.status = "GRANTED"] ELSE req[r]]
    /\ granted' = [granted EXCEPT ![k] = held \cup gs]
    /\ waiting' = [waiting EXCEPT ![k] = @ \ gs]
    /\ ahead' = AheadWithout(gs)
    /\ lockType' = [lockType EXCEPT ![k] = TypeAfter(type, gs)]
    /\ readerCount' = [readerCount EXCEPT ![k] = ReadersAfter(n, gs)]

\* The wait returned 0: process_waiting_requests, then the loop test.
WakeUp(t) ==
    LET k  == callKey[t]
        gs == Grants(waiting[k], lockType[k])
    IN  /\ MutexFree /\ pc[t] = "woken"
        /\ process_waiting_requests(k, lockType[k], readerCount[k], granted[k], gs)
        /\ LoopTest(t, req', IF gs = {} THEN pc ELSE Broadcast(k, pc))
        /\ UNCHANGED <<entries, retryCount, txnState, detection>>

-----------------------------------------------------------------------------
(* The deadlock detector.                                                  *)

\* Variant: the edges point from the holder to the waiting transaction.
WaitsForReversed(t, u) ==
    \E k \in entries : \E w \in waiting[k], g \in granted[k] :
        /\ req[w].txn = u
        /\ req[g].txn = t
        /\ req[w].type = "EXCLUSIVE" \/ req[g].type = "EXCLUSIVE"

\* build_wait_for_graph: an edge from each waiting transaction to each holder of
\* a conflicting lock on the same entry, itself included.
WaitsFor(t, u) ==
    \E k \in entries : \E w \in waiting[k], g \in granted[k] :
        /\ req[w].txn = t
        /\ req[g].txn = u
        /\ req[w].type = "EXCLUSIVE" \/ req[g].type = "EXCLUSIVE"

\* From t a cycle can be reached: some set that holds t has no way out but itself.
ReachesCycle(t) ==
    \E S \in SUBSET Txns : t \in S /\ \A u \in S : \E v \in S : WaitsFor(u, v)

\* The nodes detect_cycle leaves IN_PROGRESS when it returns 1: the path of its
\* depth-first search, whose last node waits for a node of the path.
IsSearchPath(p, n) ==
    /\ \A i, j \in 1..n : i # j => p[i] # p[j]
    /\ \A i \in 1..(n - 1) : WaitsFor(p[i], p[i + 1])
    /\ \E i \in 1..n : WaitsFor(p[n], p[i])

\* The victims select_deadlock_victim can choose: the youngest on such a path.
\* The search order is the order of the hash table, so any path may come first.
Victims ==
    {v \in Txns :
        \E n \in 1..Cardinality(Txns) : \E p \in [1..n -> Txns] :
            /\ IsSearchPath(p, n)
            /\ \E i \in 1..n : v = p[i]
            /\ \A i \in 1..n : StartTime[p[i]] <= StartTime[v]}

\* abort_transaction_for_deadlock
AbortVictim(v) ==
    txnState' = [txnState EXCEPT ![v] = IF @ = "ACTIVE" THEN "ABORTING" ELSE @]

\* The second search skips the victim only as a starting point.
StillDeadlocked(v) == \E t \in Txns \ {v} : ReachesCycle(t)

\* The call of t fails: its request is freed if it is found in the waiting queue.
FailCall(t, status) ==
    LET k == callKey[t]
        r == callReq[t]
        queued == {r} \cap waiting[k]
    IN  /\ req' = [req EXCEPT ![r] = IF queued = {} THEN [@ EXCEPT !.status = status]
                                                     ELSE FreeRequest]
        /\ waiting' = [waiting EXCEPT ![k] = @ \ {r}]
        /\ ahead' = AheadWithout(queued)
        /\ pc' = [pc EXCEPT ![t] = "idle"]
        /\ callReq' = [callReq EXCEPT ![t] = NoReq]
        /\ callKey' = [callKey EXCEPT ![t] = NoKey]
        /\ UNCHANGED <<entries, lockType, readerCount, granted, detection>>

CallMode(t) == req[callReq[t]].type

\* ETIMEDOUT with detection on and no deadlock, retries left: continue.
TimeoutRetry(t) ==
    /\ MutexFree /\ pc[t] = "timedout"
    /\ detection
    /\ \A u \in Txns : ~ReachesCycle(u)
    /\ retryCount[CallMode(t)] < MaxRetries
    /\ retryCount' = [retryCount EXCEPT ![CallMode(t)] = @ + 1]
    /\ LoopTest(t, req, pc)
    /\ UNCHANGED <<entries, lockType, readerCount, granted, waiting, ahead, req,
                   txnState, detection>>

\* Variant: the timeout gives up only where deadlock detection is on.
TimeoutFailDetectedOnly(t) ==
    /\ MutexFree /\ pc[t] = "timedout"
    /\ detection
    /\ \A u \in Txns : ~ReachesCycle(u)
    /\ retryCount[CallMode(t)] >= MaxRetries
    /\ retryCount' = [retryCount EXCEPT ![CallMode(t)] = 0]
    /\ FailCall(t, "ERROR")
    /\ UNCHANGED txnState

\* ETIMEDOUT with detection off, or with no deadlock and the retries used up.
TimeoutFail(t) ==
    /\ MutexFree /\ pc[t] = "timedout"
    /\ \/ ~detection /\ UNCHANGED retryCount
       \/ /\ detection
          /\ \A u \in Txns : ~ReachesCycle(u)
          /\ retryCount[CallMode(t)] >= MaxRetries
          /\ retryCount' = [retryCount EXCEPT ![CallMode(t)] = 0]
    /\ FailCall(t, "ERROR")
    /\ UNCHANGED txnState

\* ETIMEDOUT with a deadlock that aborting the victim breaks, by the check.
TimeoutDeadlock(t) ==
    /\ MutexFree /\ pc[t] = "timedout"
    /\ detection
    /\ \E v \in Victims : ~StillDeadlocked(v) /\ AbortVictim(v)
    /\ FailCall(t, "DEADLOCK")
    /\ UNCHANGED retryCount

\* ETIMEDOUT with a deadlock the second search still sees:
\* lock_manager_check_deadlocks calls itself.
TimeoutRecurse(t) ==
    /\ MutexFree /\ pc[t] = "timedout"
    /\ detection
    /\ \E v \in Victims : StillDeadlocked(v) /\ AbortVictim(v)
    /\ pc' = [pc EXCEPT ![t] = "spinning"]
    /\ UNCHANGED <<entries, lockType, readerCount, granted, waiting, ahead, req,
                   callReq, callKey, retryCount, detection>>

\* The recursive call rebuilds the graph under the same mutex: it finds the
\* cycles of the call before it and recurses again.
Recurse(t) ==
    /\ pc[t] = "spinning"
    /\ \E v \in Victims : StillDeadlocked(v) /\ AbortVictim(v)
    /\ UNCHANGED <<entries, lockType, readerCount, granted, waiting, ahead, req,
                   pc, callReq, callKey, retryCount, detection>>

-----------------------------------------------------------------------------
(* Unlock and configuration.                                               *)

\* remove_granted_request frees one request of t; if it was there, the waiting
\* queue is processed.
Release(t, k, r) ==
    LET held == granted[k] \ {r}
        type == IF held = {} THEN "NONE"
                ELSE IF req[r].type = "EXCLUSIVE" THEN "SHARED" ELSE lockType[k]
        n    == IF req[r].type = "SHARED" THEN readerCount[k] - 1 ELSE readerCount[k]
        gs   == Grants(waiting[k], type)
    IN  /\ r \in granted[k] /\ req[r].txn = t
        /\ granted' = [granted EXCEPT ![k] = held \cup gs]
        /\ waiting' = [waiting EXCEPT ![k] = @ \ gs]
        /\ ahead' = AheadWithout(gs)
        /\ lockType' = [lockType EXCEPT ![k] = TypeAfter(type, gs)]
        /\ readerCount' = [readerCount EXCEPT ![k] = ReadersAfter(n, gs)]
        /\ req' = [x \in Requests |->
                     IF x = r THEN FreeRequest
                     ELSE IF x \in gs THEN [req[x] EXCEPT !.status = "GRANTED"]
                     ELSE req[x]]
        /\ pc' = IF gs = {} THEN pc ELSE Broadcast(k, pc)
        /\ entries' = RemoveEntryIfUnused(k, lockType'[k], waiting'[k])

\* Nothing of t is granted: the call returns 0, but still drops an unused entry.
ReleaseNothing(t, k) ==
    /\ \A r \in granted[k] : req[r].txn # t
    /\ entries' = RemoveEntryIfUnused(k, lockType[k], waiting[k])
    /\ UNCHANGED <<lockType, readerCount, granted, waiting, ahead, req, pc>>

lock_manager_unlock_document(t, k) ==
    /\ MutexFree /\ Idle(t)
    /\ k \in entries
    /\ (\E r \in granted[k] : Release(t, k, r)) \/ ReleaseNothing(t, k)
    /\ UNCHANGED <<callReq, callKey, retryCount, txnState, detection>>

lock_manager_configure(d) ==
    /\ MutexFree
    /\ detection' = d
    /\ UNCHANGED <<entries, lockType, readerCount, granted, waiting, ahead, req,
                   pc, callReq, callKey, retryCount, txnState>>

-----------------------------------------------------------------------------
Next ==
    \/ \E t \in Txns, k \in Keys :
          \/ lock_manager_lock_document(t, k)
          \/ lock_manager_lock_document_shared(t, k)
          \/ LockOutOfMemory(t, k)
          \/ lock_manager_unlock_document(t, k)
    \/ \E t \in Txns :
          \/ SpuriousWakeup(t)
          \/ DeadlinePasses(t)
          \/ WakeUp(t)
          \/ TimeoutRetry(t)
          \/ TimeoutFail(t)
          \/ TimeoutDeadlock(t)
          \/ TimeoutRecurse(t)
          \/ Recurse(t)
    \/ \E d \in ConfigValues : lock_manager_configure(d)

Spec == Init /\ [][Next]_vars

\* A thread that can run in the manager eventually does, and every deadline
\* eventually passes for a thread that stays asleep.
Fairness ==
    \A t \in Txns :
        /\ WF_vars(WakeUp(t))
        /\ SF_vars(DeadlinePasses(t))
        /\ WF_vars(TimeoutRetry(t) \/ TimeoutFail(t) \/ TimeoutDeadlock(t)
                   \/ TimeoutRecurse(t) \/ Recurse(t))

FairSpec == Spec /\ Fairness
-----------------------------------------------------------------------------
(* Properties.                                                             *)

\* Every variable has its type; a thread inside a lock call has a request and a
\* key, a thread outside has neither.
TypeOK ==
    /\ entries \in SUBSET Keys
    /\ lockType \in [Keys -> LockTypes]
    /\ readerCount \in [Keys -> Nat]
    /\ granted \in [Keys -> SUBSET Requests]
    /\ waiting \in [Keys -> SUBSET Requests]
    /\ ahead \in [Requests -> SUBSET Requests]
    /\ req \in [Requests -> [txn : Txns \cup {NoTxn},
                            type : LockTypes, status : Statuses]]
    /\ pc \in [Txns -> PCs]
    /\ callReq \in [Txns -> Requests \cup {NoReq}]
    /\ callKey \in [Txns -> Keys \cup {NoKey}]
    /\ retryCount \in [Modes -> 0..MaxRetries]
    /\ txnState \in [Txns -> {"ACTIVE", "ABORTING"}]
    /\ detection \in BOOLEAN
    /\ \A t \in Txns : /\ pc[t] # "idle" => callReq[t] # NoReq /\ callKey[t] # NoKey
                       /\ pc[t] = "idle" => callReq[t] = NoReq /\ callKey[t] = NoKey

\* Mutual exclusion, and the cached lock type that decides it: an exclusive lock
\* is alone on its entry, and current_lock_type says what the granted queue
\* holds.  add_granted_request and remove_granted_request maintain the type
\* incrementally, the latter by guessing SHARED from what it removed.
GrantedLocksCompatible ==
    \A k \in Keys :
        /\ lockType[k] = "NONE" <=> granted[k] = {}
        /\ lockType[k] = "SHARED" => \A r \in granted[k] : req[r].type = "SHARED"
        /\ lockType[k] = "EXCLUSIVE" => \E r \in granted[k] :
                                          granted[k] = {r} /\ req[r].type = "EXCLUSIVE"

\* reader_count, incremented and decremented in different functions, is the
\* number of shared locks in the granted queue.
ReaderCountExact ==
    \A k \in Keys :
        readerCount[k] = Cardinality({r \in granted[k] : req[r].type = "SHARED"})

\* No lost grant: whenever the manager's mutex is free, a request is in a waiting
\* queue only because a granted lock conflicts with it, whatever mixture of
\* unlocks, failed calls and wake-ups led there.
NoMissedGrant ==
    \A k \in Keys : \A w \in waiting[k] : ~is_lock_compatible(lockType[k], req[w].type)

\* A thread inside a lock call never sleeps on a freed condition variable or
\* looks at a freed request: unlock_document drops an entry it believes unused,
\* although a thread whose request was just granted may still be asleep on it.
WaiterEntryAlive ==
    \A t \in Txns : pc[t] # "idle" =>
        /\ callKey[t] \in entries
        /\ req[callReq[t]].txn = t
        /\ callReq[t] \in waiting[callKey[t]] \cup granted[callKey[t]]

\* Exclusive locks leave the waiting queue in the order in which they entered it,
\* and only from its head: process_waiting_requests passes over blocked requests,
\* but only to grant shared ones.
ExclusiveInQueueOrder ==
    [][\A k \in Keys : \A r \in waiting[k] :
           r \in granted'[k] /\ req[r].type = "EXCLUSIVE" => ahead[r] = {}]_vars

\* The detector aborts only a transaction that is stuck: the victim is inside a
\* lock call whose request is still queued.  The path that detect_cycle leaves
\* marked also holds transactions that only lead to the cycle.
VictimIsWaiting ==
    [][\A v \in Txns : txnState[v] = "ACTIVE" /\ txnState'[v] = "ABORTING" =>
           pc[v] # "idle" /\ callReq[v] \in waiting[callKey[v]]]_vars

\* Every lock call returns, with the lock or with a failure.
CallsReturn == \A t \in Txns : (pc[t] # "idle") ~> (pc[t] = "idle")

\* The lock table at every moment: its types, compatible grants and an exact count of
\* readers.
LockTableSound == TypeOK /\ GrantedLocksCompatible /\ ReaderCountExact

\* Waiting requests: each in a live entry, none that could be granted left waiting, an
\* exclusive one granted in the order of the queue, and only one that waits aborted by
\* the detector.
WaitersTakeTurns ==
    /\ [](NoMissedGrant /\ WaiterEntryAlive)
    /\ ExclusiveInQueueOrder
    /\ VictimIsWaiting
=============================================================================
