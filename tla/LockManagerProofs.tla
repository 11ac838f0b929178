-------------------------- MODULE LockManagerProofs --------------------------
(***************************************************************************)
(* Proofs about LockManager: for every set of transactions, keys and       *)
(* requests, locks on a key are compatible, the reader count is exact and  *)
(* no thread waits on a freed entry.  These three and the type invariant   *)
(* are inductive only together with two facts about the queues: a request  *)
(* is in at most one queue and is allocated while it is in one, and the    *)
(* requests of a waiting queue are totally ordered.                        *)
(***************************************************************************)
EXTENDS LockManager, FiniteSetTheorems, WellFoundedInduction, TLAPS

\* A request is in at most one queue of one entry, and is not free while it is.
QueuesWellFormed ==
    /\ \A k \in Keys : waiting[k] \cap granted[k] = {}
    /\ \A k, l \in Keys : k # l =>
          (waiting[k] \cup granted[k]) \cap (waiting[l] \cup granted[l]) = {}
    /\ \A k \in Keys : \A r \in waiting[k] \cup granted[k] :
          req[r].status # "FREE" /\ req[r].type \in Modes /\ req[r].txn \in Txns

\* Of two waiting requests one is ahead of the other.
QueuesOrdered ==
    \A k \in Keys : \A r, s \in waiting[k] : r # s => r \in ahead[s] \/ s \in ahead[r]

\* The lock type says what the granted requests of held are.
TypeDescribes(type, held) ==
    /\ type = "NONE" <=> held = {}
    /\ type = "SHARED" => \A r \in held : req[r].type = "SHARED"
    /\ type = "EXCLUSIVE" => \E r \in held : held = {r} /\ req[r].type = "EXCLUSIVE"

\* The inductive invariant.
IInv == /\ TypeOK
        /\ GrantedLocksCompatible
        /\ ReaderCountExact
        /\ QueuesWellFormed
        /\ QueuesOrdered
        /\ WaiterEntryAlive

\* The requests process_waiting_requests grants come from the queue; either all
\* are shared, or there is one exclusive request.
LEMMA GrantsFacts ==
    ASSUME IInv, NEW k \in Keys, NEW type \in LockTypes
    PROVE  /\ Grants(waiting[k], type) \subseteq waiting[k]
           /\ type = "EXCLUSIVE" => Grants(waiting[k], type) = {}
           /\ type = "SHARED" => \A r \in Grants(waiting[k], type) : req[r].type = "SHARED"
           /\ \/ \A r \in Grants(waiting[k], type) : req[r].type = "SHARED"
              \/ type = "NONE" /\ \E r \in Grants(waiting[k], type) :
                    Grants(waiting[k], type) = {r} /\ req[r].type = "EXCLUSIVE"
<1> DEFINE ws == waiting[k]
           shared == {r \in ws : req[r].type = "SHARED"}
           head == {r \in ws : ahead[r] = {}}
<1>1. CASE type = "EXCLUSIVE"
  BY <1>1 DEF Grants
<1>2. CASE type = "SHARED"
  BY <1>2 DEF Grants
<1>3. CASE type = "NONE"
  <2>1. Grants(ws, type) = IF head \subseteq shared THEN shared ELSE head
    BY <1>3 DEF Grants
  <2>2. CASE head \subseteq shared
    BY <1>3, <2>1, <2>2
  <2>3. CASE ~(head \subseteq shared)
    <3>1. PICK r \in head : r \notin shared
      BY <2>3
    <3>2. \A s \in head : s = r
      BY <3>1 DEF IInv, QueuesOrdered
    <3>3. req[r].type = "EXCLUSIVE"
      BY <3>1 DEF IInv, QueuesWellFormed, Modes
    <3> QED BY <1>3, <2>1, <2>3, <3>1, <3>2, <3>3
  <2> QED BY <2>2, <2>3
<1> QED BY <1>1, <1>2, <1>3 DEF LockTypes

\* The lock type after granting the requests of gs describes them.
LEMMA TypeAfterFacts ==
    ASSUME IInv, NEW k \in Keys, NEW type \in LockTypes, NEW held \in SUBSET granted[k],
           TypeDescribes(type, held),
           NEW gs, gs = Grants(waiting[k], type)
    PROVE  /\ TypeAfter(type, gs) \in LockTypes
           /\ TypeDescribes(TypeAfter(type, gs), held \cup gs)
  BY GrantsFacts DEF TypeAfter, LockTypes, TypeDescribes

\* The shared requests of two disjoint sets add up.
LEMMA ReadersAdd ==
    ASSUME IInv, NEW held \in SUBSET Requests, NEW gs \in SUBSET Requests,
           held \cap gs = {}
    PROVE  /\ Cardinality({r \in held \cup gs : req[r].type = "SHARED"})
                 = ReadersAfter(Cardinality({r \in held : req[r].type = "SHARED"}), gs)
           /\ Cardinality({r \in held : req[r].type = "SHARED"}) \in Nat
           /\ Cardinality({r \in gs : req[r].type = "SHARED"}) \in Nat
<1> DEFINE H == {r \in held : req[r].type = "SHARED"}
           G == {r \in gs : req[r].type = "SHARED"}
           HG == {r \in held \cup gs : req[r].type = "SHARED"}
<1>1. IsFiniteSet(H) /\ IsFiniteSet(G)
  BY FS_Subset, PoolAssumption
<1>2. HG = H \cup G /\ H \cap G = {}
  OBVIOUS
<1>3. Cardinality(H \cup G) = Cardinality(H) + Cardinality(G) - Cardinality(H \cap G)
  BY <1>1, FS_Union
<1>4. Cardinality(H \cap G) = 0
  BY <1>2, FS_EmptySet
<1>5. Cardinality(H) \in Nat /\ Cardinality(G) \in Nat
  BY <1>1, FS_CardinalityType
<1> HIDE DEF H, G, HG
<1>6. Cardinality(HG) = Cardinality(H) + Cardinality(G)
  BY <1>2, <1>3, <1>4, <1>5
<1> QED BY <1>5, <1>6 DEF ReadersAfter, H, G, HG

\* What WakeUp and Release do to the queues: free the requests of granted[k] that
\* are not in held, then grant those of gs.
GrantAction(k, type, n, held, gs) ==
    /\ req' = [x \in Requests |->
                 IF x \in granted[k] \ held THEN FreeRequest
                 ELSE IF x \in gs THEN [req[x] EXCEPT !.status = "GRANTED"]
                 ELSE req[x]]
    /\ granted' = [granted EXCEPT ![k] = held \cup gs]
    /\ waiting' = [waiting EXCEPT ![k] = @ \ gs]
    /\ ahead' = AheadWithout(gs)
    /\ lockType' = [lockType EXCEPT ![k] = TypeAfter(type, gs)]
    /\ readerCount' = [readerCount EXCEPT ![k] = ReadersAfter(n, gs)]

\* Releasing the locks of granted[k] outside held and then granting the requests
\* of gs keeps the queues in order: the step that WakeUp and Release share.
LEMMA GrantStep ==
    ASSUME IInv, NEW k \in Keys, NEW type \in LockTypes, NEW held \in SUBSET granted[k],
           TypeDescribes(type, held),
           NEW n, n = Cardinality({r \in held : req[r].type = "SHARED"}),
           NEW gs, gs = Grants(waiting[k], type),
           GrantAction(k, type, n, held, gs)
    PROVE  /\ lockType' \in [Keys -> LockTypes]
           /\ readerCount' \in [Keys -> Nat]
           /\ granted' \in [Keys -> SUBSET Requests]
           /\ waiting' \in [Keys -> SUBSET Requests]
           /\ ahead' \in [Requests -> SUBSET Requests]
           /\ req' \in [Requests -> [txn : Txns \cup {NoTxn},
                                     type : LockTypes, status : Statuses]]
           /\ GrantedLocksCompatible'
           /\ ReaderCountExact'
           /\ QueuesWellFormed'
           /\ QueuesOrdered'
<1>0. TypeOK /\ GrantedLocksCompatible /\ ReaderCountExact /\ QueuesWellFormed /\ QueuesOrdered
  BY DEF IInv
<1> USE DEF GrantAction
<1>1. gs \subseteq waiting[k] /\ gs \cap granted[k] = {}
  BY <1>0, GrantsFacts DEF QueuesWellFormed
<1>2. /\ TypeAfter(type, gs) \in LockTypes
      /\ TypeDescribes(TypeAfter(type, gs), held \cup gs)
  BY TypeAfterFacts
<1>3. /\ Cardinality({r \in held \cup gs : req[r].type = "SHARED"}) = ReadersAfter(n, gs)
      /\ ReadersAfter(n, gs) \in Nat
  <2>1. held \in SUBSET Requests /\ gs \in SUBSET Requests /\ held \cap gs = {}
    BY <1>0, <1>1 DEF TypeOK
  <2>2. /\ Cardinality({r \in held \cup gs : req[r].type = "SHARED"}) = ReadersAfter(n, gs)
        /\ n \in Nat
        /\ Cardinality({r \in gs : req[r].type = "SHARED"}) \in Nat
    BY <2>1, ReadersAdd
  <2> QED BY <2>2 DEF ReadersAfter
<1>4. \A l \in Keys : \A x \in waiting'[l] \cup granted'[l] :
         /\ x \in Requests
         /\ x \in waiting[l] \cup granted[l]
         /\ x \notin granted[k] \ held
         /\ req'[x].type = req[x].type
         /\ req'[x].txn = req[x].txn
         /\ req'[x].status = IF x \in gs THEN "GRANTED" ELSE req[x].status
  <2> SUFFICES ASSUME NEW l \in Keys, NEW x \in waiting'[l] \cup granted'[l]
               PROVE  /\ x \in Requests
                      /\ x \in waiting[l] \cup granted[l]
                      /\ x \notin granted[k] \ held
                      /\ req'[x].type = req[x].type
                      /\ req'[x].txn = req[x].txn
                      /\ req'[x].status = IF x \in gs THEN "GRANTED" ELSE req[x].status
    OBVIOUS
  <2>1. x \in waiting[l] \cup granted[l] /\ x \in Requests
    BY <1>0, <1>1 DEF TypeOK
  <2>2. x \notin granted[k] \ held
    BY <1>0, <1>1, <2>1 DEF TypeOK, QueuesWellFormed
  <2>3. req[x] \in [txn : Txns \cup {NoTxn}, type : LockTypes, status : Statuses]
    BY <1>0, <2>1 DEF TypeOK
  <2> QED BY <2>1, <2>2, <2>3
<1>5. /\ lockType' \in [Keys -> LockTypes]
      /\ readerCount' \in [Keys -> Nat]
      /\ granted' \in [Keys -> SUBSET Requests]
      /\ waiting' \in [Keys -> SUBSET Requests]
  BY <1>0, <1>1, <1>2, <1>3 DEF TypeOK
<1>6. ahead' \in [Requests -> SUBSET Requests]
  BY <1>0 DEF TypeOK, AheadWithout
<1>7. req' \in [Requests -> [txn : Txns \cup {NoTxn}, type : LockTypes, status : Statuses]]
  <2> DEFINE R == [txn : Txns \cup {NoTxn}, type : LockTypes, status : Statuses]
  <2>1. FreeRequest \in R
    BY DEF FreeRequest, LockTypes, Statuses
  <2>2. \A x \in Requests : req[x] \in R /\ [req[x] EXCEPT !.status = "GRANTED"] \in R
    BY <1>0 DEF TypeOK, Statuses
  <2> HIDE DEF R
  <2>3. \A x \in Requests : req'[x] \in R
    BY <2>1, <2>2
  <2>4. req' \in [Requests -> R]
    BY <2>3
  <2> QED BY <2>4 DEF R
<1>8. GrantedLocksCompatible'
  <2> SUFFICES ASSUME NEW l \in Keys
               PROVE  /\ lockType'[l] = "NONE" <=> granted'[l] = {}
                      /\ lockType'[l] = "SHARED" =>
                            \A r \in granted'[l] : req'[r].type = "SHARED"
                      /\ lockType'[l] = "EXCLUSIVE" => \E r \in granted'[l] :
                            granted'[l] = {r} /\ req'[r].type = "EXCLUSIVE"
    BY DEF GrantedLocksCompatible
  <2>1. CASE l = k
    <3>1. lockType'[l] = TypeAfter(type, gs) /\ granted'[l] = held \cup gs
      BY <1>0, <2>1 DEF TypeOK
    <3>2. \A r \in granted'[l] : req'[r].type = req[r].type
      BY <1>4
    <3> QED BY <1>2, <3>1, <3>2 DEF TypeDescribes
  <2>2. CASE l # k
    <3>1. lockType'[l] = lockType[l] /\ granted'[l] = granted[l]
      BY <1>0, <2>2 DEF TypeOK
    <3>2. \A r \in granted[l] : req'[r].type = req[r].type
      BY <1>4, <3>1
    <3> QED BY <1>0, <3>1, <3>2 DEF GrantedLocksCompatible
  <2> QED BY <2>1, <2>2
<1>9. ReaderCountExact'
  <2> SUFFICES ASSUME NEW l \in Keys
               PROVE  readerCount'[l] =
                        Cardinality({r \in granted'[l] : req'[r].type = "SHARED"})
    BY DEF ReaderCountExact
  <2>1. {r \in granted'[l] : req'[r].type = "SHARED"}
          = {r \in granted'[l] : req[r].type = "SHARED"}
    BY <1>4
  <2>2. CASE l = k
    BY <1>0, <2>2, <2>1, <1>3 DEF TypeOK
  <2>3. CASE l # k
    BY <1>0, <2>3, <2>1 DEF TypeOK, ReaderCountExact
  <2> QED BY <2>2, <2>3
<1>10. QueuesWellFormed'
  <2>1. \A l \in Keys : waiting'[l] \cap granted'[l] = {}
    BY <1>0, <1>1 DEF TypeOK, QueuesWellFormed
  <2>2. \A l, m \in Keys : l # m =>
          (waiting'[l] \cup granted'[l]) \cap (waiting'[m] \cup granted'[m]) = {}
    BY <1>0, <1>4, ZenonT(60) DEF QueuesWellFormed
  <2>3. \A l \in Keys : \A x \in waiting'[l] \cup granted'[l] :
          req'[x].status # "FREE" /\ req'[x].type \in Modes /\ req'[x].txn \in Txns
    <3> SUFFICES ASSUME NEW l \in Keys, NEW x \in waiting'[l] \cup granted'[l]
                 PROVE  /\ req'[x].status # "FREE"
                        /\ req'[x].type \in Modes
                        /\ req'[x].txn \in Txns
      OBVIOUS
    <3>1. /\ x \in waiting[l] \cup granted[l]
          /\ req'[x].type = req[x].type
          /\ req'[x].txn = req[x].txn
          /\ req'[x].status = IF x \in gs THEN "GRANTED" ELSE req[x].status
      BY <1>4
    <3> QED BY <1>0, <3>1 DEF QueuesWellFormed
  <2> QED BY <2>1, <2>2, <2>3 DEF QueuesWellFormed
<1>11. QueuesOrdered'
  <2> SUFFICES ASSUME NEW l \in Keys, NEW r \in waiting'[l], NEW s \in waiting'[l], r # s
               PROVE  r \in ahead'[s] \/ s \in ahead'[r]
    BY DEF QueuesOrdered
  <2>1. r \in waiting[l] /\ s \in waiting[l] /\ r \notin gs /\ s \notin gs
    BY <1>0, <1>1 DEF TypeOK, QueuesWellFormed
  <2>2. ahead'[r] = ahead[r] \ gs /\ ahead'[s] = ahead[s] \ gs
    BY <1>0, <2>1 DEF TypeOK, AheadWithout
  <2> QED BY <1>0, <2>1, <2>2 DEF QueuesOrdered
<1> QED BY <1>5, <1>6, <1>7, <1>8, <1>9, <1>10, <1>11

\* A step that leaves the queues alone keeps what the invariant says of them.
LEMMA QueuesUnchanged ==
    ASSUME IInv, UNCHANGED <<lockType, readerCount, granted, waiting, ahead, req>>
    PROVE  GrantedLocksCompatible' /\ ReaderCountExact' /\ QueuesWellFormed' /\ QueuesOrdered'
BY DEF IInv, GrantedLocksCompatible, ReaderCountExact, QueuesWellFormed, QueuesOrdered

\* The initial state has no locks.
LEMMA InitInv == Init => IInv
<1> SUFFICES ASSUME Init PROVE IInv
  OBVIOUS
<1> USE DEF Init
<1>1. TypeOK
  BY PoolAssumption, ConfigAssumption
     DEF TypeOK, LockTypes, FreeRequest, Statuses, PCs, Modes
<1>2. ReaderCountExact
  BY FS_EmptySet DEF ReaderCountExact
<1> QED BY <1>1, <1>2 DEF IInv, GrantedLocksCompatible, QueuesWellFormed, QueuesOrdered,
                          WaiterEntryAlive

\* A lock that is granted at once.
LEMMA GrantNowStep ==
    ASSUME IInv, NEW t \in Txns, NEW k \in Keys, NEW r \in Requests, NEW mode \in Modes,
           Idle(t), CanAllocate(r), is_lock_compatible(lockType[k], mode),
           entries' = entries \cup {k}, GrantNow(t, k, r, mode),
           UNCHANGED <<retryCount, txnState, detection>>
    PROVE  IInv'
<1>0. TypeOK /\ GrantedLocksCompatible /\ ReaderCountExact /\ QueuesWellFormed
      /\ QueuesOrdered /\ WaiterEntryAlive
  BY DEF IInv
<1>1. /\ req' = [req EXCEPT ![r] = [txn |-> t, type |-> mode, status |-> "GRANTED"]]
      /\ granted' = [granted EXCEPT ![k] = @ \cup {r}]
      /\ lockType' = [lockType EXCEPT ![k] = IF @ = "NONE" THEN mode ELSE @]
      /\ readerCount' = [readerCount EXCEPT ![k] = IF mode = "SHARED" THEN @ + 1 ELSE @]
      /\ UNCHANGED <<waiting, ahead, pc, callReq, callKey>>
  BY DEF GrantNow
<1>2. \A l \in Keys : r \notin waiting[l] \cup granted[l]
  BY <1>0 DEF CanAllocate, QueuesWellFormed
<1>3. /\ req'[r].txn = t /\ req'[r].type = mode /\ req'[r].status = "GRANTED"
      /\ \A x \in Requests : x # r => req'[x] = req[x]
  BY <1>0, <1>1 DEF TypeOK
<1>4. TypeOK'
  BY <1>0, <1>1 DEF TypeOK, Modes, LockTypes, Statuses
<1>5. GrantedLocksCompatible'
  <2> SUFFICES ASSUME NEW l \in Keys
               PROVE  /\ lockType'[l] = "NONE" <=> granted'[l] = {}
                      /\ lockType'[l] = "SHARED" =>
                            \A x \in granted'[l] : req'[x].type = "SHARED"
                      /\ lockType'[l] = "EXCLUSIVE" => \E x \in granted'[l] :
                            granted'[l] = {x} /\ req'[x].type = "EXCLUSIVE"
    BY DEF GrantedLocksCompatible
  <2>1. \A x \in granted[l] : req'[x].type = req[x].type
    BY <1>0, <1>2, <1>3 DEF TypeOK
  <2>2. CASE l = k
    BY <1>0, <1>1, <2>2, <1>3, <2>1 DEF TypeOK, GrantedLocksCompatible, Modes, is_lock_compatible
  <2>3. CASE l # k
    BY <1>0, <1>1, <2>3, <2>1 DEF TypeOK, GrantedLocksCompatible
  <2> QED BY <2>2, <2>3
<1>6. ReaderCountExact'
  <2> SUFFICES ASSUME NEW l \in Keys
               PROVE  readerCount'[l] =
                        Cardinality({x \in granted'[l] : req'[x].type = "SHARED"})
    BY DEF ReaderCountExact
  <2> DEFINE S == {x \in granted[l] : req[x].type = "SHARED"}
  <2>1. IsFiniteSet(S) /\ r \notin S
    BY <1>0, <1>2, FS_Subset, PoolAssumption DEF TypeOK
  <2>2. Cardinality(S \cup {r}) = Cardinality(S) + 1
    BY <2>1, FS_AddElement
  <2>3. readerCount[l] = Cardinality(S)
    BY <1>0 DEF ReaderCountExact
  <2>4. {x \in granted'[l] : req'[x].type = "SHARED"}
          = IF l = k /\ mode = "SHARED" THEN S \cup {r} ELSE S
    BY <1>0, <1>1, <1>2, <1>3 DEF TypeOK
  <2>5. readerCount'[l] = IF l = k /\ mode = "SHARED" THEN readerCount[l] + 1
                                                       ELSE readerCount[l]
    BY <1>0, <1>1 DEF TypeOK
  <2> HIDE DEF S
  <2> QED BY <2>2, <2>3, <2>4, <2>5
<1>7. QueuesWellFormed'
  BY <1>0, <1>1, <1>2, <1>3 DEF TypeOK, QueuesWellFormed
<1>8. QueuesOrdered'
  BY <1>0, <1>1 DEF QueuesOrdered
<1>9. WaiterEntryAlive'
  BY <1>0, <1>1, <1>2, <1>3 DEF TypeOK, WaiterEntryAlive
<1> QED BY <1>4, <1>5, <1>6, <1>7, <1>8, <1>9 DEF IInv

\* A lock call that has to wait.
LEMMA EnqueueStep ==
    ASSUME IInv, NEW t \in Txns, NEW k \in Keys, NEW r \in Requests, NEW mode \in Modes,
           Idle(t), CanAllocate(r),
           entries' = entries \cup {k}, Enqueue(t, k, r, mode),
           UNCHANGED <<retryCount, txnState, detection>>
    PROVE  IInv'
  BY PoolAssumption DEF IInv, Enqueue, CanAllocate, QueuesWellFormed, TypeOK, Modes, LockTypes, Statuses, PCs,
     GrantedLocksCompatible, ReaderCountExact, QueuesOrdered, WaiterEntryAlive

\* A lock call that gives up.
LEMMA FailCallStep ==
    ASSUME IInv, NEW t \in Txns, NEW status \in {"ERROR", "DEADLOCK"},
           pc[t] # "idle", FailCall(t, status),
           retryCount' \in [Modes -> 0..MaxRetries],
           txnState' \in [Txns -> {"ACTIVE", "ABORTING"}]
    PROVE  IInv'
<1>0. TypeOK /\ GrantedLocksCompatible /\ ReaderCountExact /\ QueuesWellFormed
      /\ QueuesOrdered /\ WaiterEntryAlive
  BY DEF IInv
<1> DEFINE k == callKey[t]
           r == callReq[t]
           queued == {r} \cap waiting[k]
<1>1. /\ req' = [req EXCEPT ![r] = IF queued = {} THEN [@ EXCEPT !.status = status]
                                                 ELSE FreeRequest]
      /\ waiting' = [waiting EXCEPT ![k] = @ \ {r}]
      /\ ahead' = AheadWithout(queued)
      /\ pc' = [pc EXCEPT ![t] = "idle"]
      /\ callReq' = [callReq EXCEPT ![t] = NoReq]
      /\ callKey' = [callKey EXCEPT ![t] = NoKey]
      /\ UNCHANGED <<entries, lockType, readerCount, granted, detection>>
  BY DEF FailCall
<1>2. /\ k \in Keys /\ r \in Requests
      /\ r \in waiting[k] \cup granted[k] /\ req[r].txn = t
  BY <1>0 DEF TypeOK, WaiterEntryAlive
<1>3. req[r] \in [txn : Txns \cup {NoTxn}, type : LockTypes, status : Statuses]
  BY <1>0, <1>2 DEF TypeOK
<1> HIDE DEF k, r
<1>4. /\ r \notin waiting[k] => req'[r] = [req[r] EXCEPT !.status = status]
      /\ \A x \in Requests : x # r => req'[x] = req[x]
  BY <1>0, <1>1, <1>2 DEF TypeOK
<1>5. \A l \in Keys : \A x \in granted[l] :
         /\ req'[x].type = req[x].type
         /\ req'[x].txn = req[x].txn
         /\ req'[x].status # "FREE"
  <2> SUFFICES ASSUME NEW l \in Keys, NEW x \in granted[l]
               PROVE  /\ req'[x].type = req[x].type
                      /\ req'[x].txn = req[x].txn
                      /\ req'[x].status # "FREE"
    OBVIOUS
  <2>1. CASE x # r
    BY <1>0, <1>4, <2>1 DEF TypeOK, QueuesWellFormed
  <2>2. CASE x = r
    BY <1>0, <1>2, <2>2, <1>3, <1>4 DEF QueuesWellFormed
  <2> QED BY <2>1, <2>2
<1>6. TypeOK'
  <2>1. req' \in [Requests -> [txn : Txns \cup {NoTxn}, type : LockTypes, status : Statuses]]
    BY <1>3, <1>0, <1>1, <1>2 DEF FreeRequest, LockTypes, Statuses, TypeOK
  <2>2. ahead' \in [Requests -> SUBSET Requests]
    BY <1>0, <1>1 DEF TypeOK, AheadWithout
  <2>3. waiting' \in [Keys -> SUBSET Requests]
    BY <1>0, <1>1 DEF TypeOK
  <2>4. /\ pc' \in [Txns -> PCs]
        /\ callReq' \in [Txns -> Requests \cup {NoReq}]
        /\ callKey' \in [Txns -> Keys \cup {NoKey}]
        /\ \A u \in Txns :
              /\ pc'[u] # "idle" => callReq'[u] # NoReq /\ callKey'[u] # NoKey
              /\ pc'[u] = "idle" => callReq'[u] = NoReq /\ callKey'[u] = NoKey
    <3>1. \A u \in Txns : u # t =>
            pc'[u] = pc[u] /\ callReq'[u] = callReq[u] /\ callKey'[u] = callKey[u]
      BY <1>0, <1>1 DEF TypeOK
    <3>2. pc'[t] = "idle" /\ callReq'[t] = NoReq /\ callKey'[t] = NoKey
      BY <1>0, <1>1 DEF TypeOK
    <3>3. /\ pc' \in [Txns -> PCs]
          /\ callReq' \in [Txns -> Requests \cup {NoReq}]
          /\ callKey' \in [Txns -> Keys \cup {NoKey}]
      BY <1>0, <1>1 DEF TypeOK, PCs
    <3>4. \A u \in Txns : /\ pc[u] # "idle" => callReq[u] # NoReq /\ callKey[u] # NoKey
                          /\ pc[u] = "idle" => callReq[u] = NoReq /\ callKey[u] = NoKey
      BY <1>0 DEF TypeOK
    <3>5. \A u \in Txns :
              /\ pc'[u] # "idle" => callReq'[u] # NoReq /\ callKey'[u] # NoKey
              /\ pc'[u] = "idle" => callReq'[u] = NoReq /\ callKey'[u] = NoKey
      <4> TAKE u \in Txns
      <4>1. CASE u = t BY <3>2, <4>1
      <4>2. CASE u # t BY <3>1, <3>4, <4>2
      <4> QED BY <4>1, <4>2
    <3> QED BY <3>3, <3>5
  <2> QED BY <1>0, <1>1, <2>1, <2>2, <2>3, <2>4 DEF TypeOK
<1>7. GrantedLocksCompatible'
  BY <1>0, <1>1, <1>5 DEF GrantedLocksCompatible
<1>8. ReaderCountExact'
  BY <1>1, <1>5, <1>0 DEF ReaderCountExact
<1>9. \A l \in Keys : /\ waiting'[l] \subseteq waiting[l]
                      /\ \A x \in waiting'[l] : x # r
  BY <1>0, <1>1, <1>2 DEF TypeOK, QueuesWellFormed
<1>10. QueuesWellFormed'
  BY <1>0, <1>1, <1>9, <1>4, <1>5 DEF QueuesWellFormed, TypeOK
<1>11. QueuesOrdered'
  <2> SUFFICES ASSUME NEW l \in Keys, NEW x \in waiting'[l], NEW y \in waiting'[l], x # y
               PROVE  x \in ahead'[y] \/ y \in ahead'[x]
    BY DEF QueuesOrdered
  <2>1. x \in waiting[l] /\ y \in waiting[l] /\ x # r /\ y # r /\ x \in Requests /\ y \in Requests
    BY <1>0, <1>9 DEF TypeOK
  <2>2. ahead'[x] = ahead[x] \ queued /\ ahead'[y] = ahead[y] \ queued
    BY <1>1, <2>1 DEF AheadWithout
  <2> QED BY <1>0, <2>1, <2>2 DEF QueuesOrdered
<1>12. WaiterEntryAlive'
  <2> SUFFICES ASSUME NEW u \in Txns, pc'[u] # "idle"
               PROVE  /\ callKey'[u] \in entries'
                      /\ req'[callReq'[u]].txn = u
                      /\ callReq'[u] \in waiting'[callKey'[u]] \cup granted'[callKey'[u]]
    BY DEF WaiterEntryAlive
  <2>1. u # t /\ pc[u] # "idle" /\ callReq'[u] = callReq[u] /\ callKey'[u] = callKey[u]
    BY <1>0, <1>1 DEF TypeOK
  <2>2. callReq[u] # r /\ callReq[u] \in Requests /\ callKey[u] \in Keys
    BY <1>0, <1>2, <2>1 DEF TypeOK, WaiterEntryAlive
  <2> QED BY <1>0, <1>1, <1>4, <2>1, <2>2 DEF TypeOK, WaiterEntryAlive
<1> QED BY <1>6, <1>7, <1>8, <1>10, <1>11, <1>12 DEF IInv

\* A woken thread processes the waiting queue and tests its request.
LEMMA WakeUpStep ==
    ASSUME IInv, NEW t \in Txns, WakeUp(t)
    PROVE  IInv'
<1>0. TypeOK /\ GrantedLocksCompatible /\ ReaderCountExact /\ QueuesWellFormed
      /\ QueuesOrdered /\ WaiterEntryAlive
  BY DEF IInv
<1> DEFINE k == callKey[t]
           gs == Grants(waiting[k], lockType[k])
           q == IF gs = {} THEN pc ELSE Broadcast(k, pc)
           done == req'[callReq[t]].status = "GRANTED"
<1>1. /\ pc[t] = "woken"
      /\ process_waiting_requests(k, lockType[k], readerCount[k], granted[k], gs)
      /\ LoopTest(t, req', q)
      /\ UNCHANGED <<entries, retryCount, txnState, detection>>
  BY DEF WakeUp
<1>2. /\ req' = [x \in Requests |->
                  IF x \in gs THEN [req[x] EXCEPT !.status = "GRANTED"] ELSE req[x]]
      /\ granted' = [granted EXCEPT ![k] = granted[k] \cup gs]
      /\ waiting' = [waiting EXCEPT ![k] = @ \ gs]
      /\ ahead' = AheadWithout(gs)
      /\ lockType' = [lockType EXCEPT ![k] = TypeAfter(lockType[k], gs)]
      /\ readerCount' = [readerCount EXCEPT ![k] = ReadersAfter(readerCount[k], gs)]
  BY <1>1 DEF process_waiting_requests
<1>3. k \in Keys /\ lockType[k] \in LockTypes /\ granted[k] \in SUBSET granted[k]
  BY <1>0, <1>1 DEF TypeOK
<1>4. /\ TypeDescribes(lockType[k], granted[k])
      /\ readerCount[k] = Cardinality({x \in granted[k] : req[x].type = "SHARED"})
  BY <1>0, <1>3 DEF TypeDescribes, GrantedLocksCompatible, ReaderCountExact
<1>5. gs \subseteq waiting[k]
  BY <1>3, GrantsFacts
<1>6. GrantAction(k, lockType[k], readerCount[k], granted[k], gs)
  BY <1>2 DEF GrantAction
<1> HIDE DEF gs, k
<1>7. /\ lockType' \in [Keys -> LockTypes]
      /\ readerCount' \in [Keys -> Nat]
      /\ granted' \in [Keys -> SUBSET Requests]
      /\ waiting' \in [Keys -> SUBSET Requests]
      /\ ahead' \in [Requests -> SUBSET Requests]
      /\ req' \in [Requests -> [txn : Txns \cup {NoTxn},
                                type : LockTypes, status : Statuses]]
      /\ GrantedLocksCompatible'
      /\ ReaderCountExact'
      /\ QueuesWellFormed'
      /\ QueuesOrdered'
  BY <1>3, <1>4, <1>6, GrantStep DEF gs
<1>8. \A u \in Txns : q[u] \in PCs /\ (q[u] = "idle" <=> pc[u] = "idle")
  BY <1>0 DEF TypeOK, Broadcast, PCs
<1>9. q \in [Txns -> PCs]
  BY <1>0 DEF TypeOK, Broadcast, PCs
<1>10. /\ pc' = [q EXCEPT ![t] = IF done THEN "idle" ELSE "asleep"]
       /\ callReq' = [callReq EXCEPT ![t] = IF done THEN NoReq ELSE @]
       /\ callKey' = [callKey EXCEPT ![t] = IF done THEN NoKey ELSE @]
  BY <1>1 DEF LoopTest
<1> HIDE DEF q, done
<1>11. /\ pc' \in [Txns -> PCs]
       /\ callReq' \in [Txns -> Requests \cup {NoReq}]
       /\ callKey' \in [Txns -> Keys \cup {NoKey}]
       /\ \A u \in Txns :
             /\ pc'[u] # "idle" => callReq'[u] # NoReq /\ callKey'[u] # NoKey
             /\ pc'[u] = "idle" => callReq'[u] = NoReq /\ callKey'[u] = NoKey
  <2>1. \A u \in Txns : u # t =>
          pc'[u] = q[u] /\ callReq'[u] = callReq[u] /\ callKey'[u] = callKey[u]
    BY <1>0, <1>9, <1>10 DEF TypeOK
  <2>2. /\ pc'[t] = IF done THEN "idle" ELSE "asleep"
        /\ callReq'[t] = IF done THEN NoReq ELSE callReq[t]
        /\ callKey'[t] = IF done THEN NoKey ELSE callKey[t]
    BY <1>0, <1>9, <1>10 DEF TypeOK
  <2>3. /\ pc' \in [Txns -> PCs]
        /\ callReq' \in [Txns -> Requests \cup {NoReq}]
        /\ callKey' \in [Txns -> Keys \cup {NoKey}]
    BY <1>0, <1>9, <1>10 DEF TypeOK, PCs
  <2>4. \A u \in Txns : /\ pc[u] # "idle" => callReq[u] # NoReq /\ callKey[u] # NoKey
                        /\ pc[u] = "idle" => callReq[u] = NoReq /\ callKey[u] = NoKey
    BY <1>0 DEF TypeOK
  <2>5. \A u \in Txns :
          /\ pc'[u] # "idle" => callReq'[u] # NoReq /\ callKey'[u] # NoKey
          /\ pc'[u] = "idle" => callReq'[u] = NoReq /\ callKey'[u] = NoKey
    <3> TAKE u \in Txns
    <3>1. CASE u = t BY <1>1, <2>2, <2>4, <3>1
    <3>2. CASE u # t BY <1>8, <2>1, <2>4, <3>2
    <3> QED BY <3>1, <3>2
  <2> QED BY <2>3, <2>5
<1>12. TypeOK'
  BY <1>0, <1>1, <1>7, <1>11 DEF TypeOK
<1>13. WaiterEntryAlive'
  <2> SUFFICES ASSUME NEW u \in Txns, pc'[u] # "idle"
               PROVE  /\ callKey'[u] \in entries'
                      /\ req'[callReq'[u]].txn = u
                      /\ callReq'[u] \in waiting'[callKey'[u]] \cup granted'[callKey'[u]]
    BY DEF WaiterEntryAlive
  <2>1. pc[u] # "idle" /\ callReq'[u] = callReq[u] /\ callKey'[u] = callKey[u]
    BY <1>0, <1>1, <1>8, <1>9, <1>10 DEF TypeOK
  <2>2. /\ callKey[u] \in entries /\ callReq[u] \in Requests
        /\ callKey[u] \in Keys /\ req[callReq[u]].txn = u
        /\ callReq[u] \in waiting[callKey[u]] \cup granted[callKey[u]]
    BY <1>0, <2>1 DEF TypeOK, WaiterEntryAlive
  <2>3. req'[callReq[u]].txn = req[callReq[u]].txn
    BY <1>0, <1>2, <2>2 DEF TypeOK
  <2>4. callReq[u] \in waiting'[callKey[u]] \cup granted'[callKey[u]]
    BY <1>0, <1>2, <2>2 DEF TypeOK
  <2> QED BY <1>1, <2>1, <2>2, <2>3, <2>4
<1> QED BY <1>7, <1>12, <1>13 DEF IInv

\* An unlock that releases a granted request and hands the entry on.
LEMMA ReleaseStep ==
    ASSUME IInv, NEW t \in Txns, NEW k \in Keys, NEW r \in granted[k],
           Idle(t), Release(t, k, r),
           UNCHANGED <<callReq, callKey, retryCount, txnState, detection>>
    PROVE  IInv'
<1>0. TypeOK /\ GrantedLocksCompatible /\ ReaderCountExact /\ QueuesWellFormed
      /\ QueuesOrdered /\ WaiterEntryAlive
  BY DEF IInv
<1> DEFINE held == granted[k] \ {r}
           type == IF held = {} THEN "NONE"
                   ELSE IF req[r].type = "EXCLUSIVE" THEN "SHARED" ELSE lockType[k]
           n    == IF req[r].type = "SHARED" THEN readerCount[k] - 1 ELSE readerCount[k]
           gs   == Grants(waiting[k], type)
<1>1. /\ req[r].txn = t
      /\ GrantAction(k, type, n, held, gs)
      /\ pc' = IF gs = {} THEN pc ELSE Broadcast(k, pc)
      /\ entries' = RemoveEntryIfUnused(k, lockType'[k], waiting'[k])
  <2>1. r \in granted[k] /\ \A x \in Requests : x \in granted[k] \ held <=> x = r
    OBVIOUS
  <2>2. /\ req[r].txn = t
        /\ granted' = [granted EXCEPT ![k] = held \cup gs]
        /\ waiting' = [waiting EXCEPT ![k] = @ \ gs]
        /\ ahead' = AheadWithout(gs)
        /\ lockType' = [lockType EXCEPT ![k] = TypeAfter(type, gs)]
        /\ readerCount' = [readerCount EXCEPT ![k] = ReadersAfter(n, gs)]
        /\ req' = [x \in Requests |->
                     IF x = r THEN FreeRequest
                     ELSE IF x \in gs THEN [req[x] EXCEPT !.status = "GRANTED"]
                     ELSE req[x]]
        /\ pc' = IF gs = {} THEN pc ELSE Broadcast(k, pc)
        /\ entries' = RemoveEntryIfUnused(k, lockType'[k], waiting'[k])
    BY DEF Release
  <2> HIDE DEF held, type, n, gs
  <2>3. req' = [x \in Requests |->
                 IF x \in granted[k] \ held THEN FreeRequest
                 ELSE IF x \in gs THEN [req[x] EXCEPT !.status = "GRANTED"]
                 ELSE req[x]]
    BY <2>1, <2>2
  <2> QED BY <2>2, <2>3 DEF GrantAction
<1>2. /\ type \in LockTypes
      /\ TypeDescribes(type, held)
  BY <1>0 DEF TypeOK, GrantedLocksCompatible, TypeDescribes, LockTypes
<1>3. n = Cardinality({x \in held : req[x].type = "SHARED"})
  <2> DEFINE S == {x \in granted[k] : req[x].type = "SHARED"}
             H == {x \in held : req[x].type = "SHARED"}
  <2>1. IsFiniteSet(S)
    BY <1>0, FS_Subset, PoolAssumption DEF TypeOK
  <2>2. readerCount[k] = Cardinality(S)
    BY <1>0 DEF ReaderCountExact
  <2>3. CASE req[r].type = "SHARED"
    <3>1. r \in S /\ H = S \ {r}
      BY <2>3
    <3>2. Cardinality(S \ {r}) = Cardinality(S) - 1
      BY <2>1, <3>1, FS_RemoveElement
    <3>3. n = readerCount[k] - 1
      BY <2>3
    <3> QED BY <2>2, <3>1, <3>2, <3>3
  <2>4. CASE req[r].type # "SHARED"
    BY <2>4, <2>2
  <2> QED BY <2>3, <2>4
<1>4. /\ gs = Grants(waiting[k], type)
      /\ held \in SUBSET granted[k]
      /\ r \notin held
  OBVIOUS
<1>5. r \in Requests /\ granted[k] \ held = {r}
  BY <1>0 DEF TypeOK
<1> HIDE DEF held, type, n, gs
<1>6. /\ lockType' \in [Keys -> LockTypes]
      /\ readerCount' \in [Keys -> Nat]
      /\ granted' \in [Keys -> SUBSET Requests]
      /\ waiting' \in [Keys -> SUBSET Requests]
      /\ ahead' \in [Requests -> SUBSET Requests]
      /\ req' \in [Requests -> [txn : Txns \cup {NoTxn},
                                type : LockTypes, status : Statuses]]
      /\ GrantedLocksCompatible'
      /\ ReaderCountExact'
      /\ QueuesWellFormed'
      /\ QueuesOrdered'
  BY <1>1, <1>2, <1>3, <1>4, GrantStep
<1>7. pc' \in [Txns -> PCs] /\ \A u \in Txns : pc'[u] = "idle" <=> pc[u] = "idle"
  BY <1>0, <1>1 DEF TypeOK, Broadcast, PCs
<1>8. entries' \in SUBSET entries
  BY <1>1 DEF RemoveEntryIfUnused
<1>9. TypeOK'
  BY <1>0, <1>7, <1>6, <1>8 DEF TypeOK
<1>10. WaiterEntryAlive'
  <2> SUFFICES ASSUME NEW u \in Txns, pc'[u] # "idle"
               PROVE  /\ callKey[u] \in entries'
                      /\ req'[callReq[u]].txn = u
                      /\ callReq[u] \in waiting'[callKey[u]] \cup granted'[callKey[u]]
    BY DEF WaiterEntryAlive
  <2>1. u # t /\ pc[u] # "idle"
    BY <1>7 DEF Idle
  <2>2. /\ callKey[u] \in entries /\ callReq[u] \in Requests
        /\ callKey[u] \in Keys /\ req[callReq[u]].txn = u
        /\ callReq[u] \in waiting[callKey[u]] \cup granted[callKey[u]]
    BY <1>0, <2>1 DEF TypeOK, WaiterEntryAlive
  <2>3. callReq[u] # r
    BY <1>1, <2>1, <2>2
  <2>4. req'[callReq[u]].txn = u
    BY <1>0, <1>1, <1>5, <2>2, <2>3 DEF GrantAction, TypeOK
  <2>5. callReq[u] \in waiting'[callKey[u]] \cup granted'[callKey[u]]
    BY <1>0, <1>1, <1>5, <2>2, <2>3 DEF GrantAction, TypeOK
  <2>6. callKey[u] \in entries'
    BY <1>1, <1>6, <2>2, <2>5 DEF RemoveEntryIfUnused, GrantedLocksCompatible
  <2> QED BY <2>4, <2>5, <2>6
<1> QED BY <1>6, <1>9, <1>10 DEF IInv

\* Steps that change no queue: they may only move a thread inside its call.
LEMMA QuietStep ==
    ASSUME IInv, UNCHANGED <<lockType, readerCount, granted, waiting, ahead, req,
                             callReq, callKey>>,
           entries \subseteq entries', entries' \subseteq Keys,
           pc' \in [Txns -> PCs], \A u \in Txns : pc'[u] = "idle" <=> pc[u] = "idle",
           retryCount' \in [Modes -> 0..MaxRetries],
           txnState' \in [Txns -> {"ACTIVE", "ABORTING"}],
           detection' \in BOOLEAN
    PROVE  IInv'
  BY QueuesUnchanged DEF IInv, TypeOK, WaiterEntryAlive

\* Every step of the lock manager preserves the inductive invariant.
LEMMA StepInv == IInv /\ [Next]_vars => IInv'
<1> SUFFICES ASSUME IInv, [Next]_vars PROVE IInv'
  OBVIOUS
<1>0. TypeOK /\ WaiterEntryAlive /\ QueuesWellFormed
  BY DEF IInv
<1>1. ASSUME NEW t \in Txns, NEW k \in Keys, NEW mode \in Modes, StartLock(t, k, mode)
      PROVE  IInv'
  <2>1. PICK r \in Requests : /\ CanAllocate(r)
                              /\ IF is_lock_compatible(lockType[k], mode)
                                 THEN GrantNow(t, k, r, mode)
                                 ELSE Enqueue(t, k, r, mode)
    BY <1>1 DEF StartLock
  <2>2. Idle(t) /\ entries' = entries \cup {k} /\ UNCHANGED <<retryCount, txnState, detection>>
    BY <1>1 DEF StartLock
  <2>3. CASE is_lock_compatible(lockType[k], mode)
    BY <2>1, <2>2, <2>3, GrantNowStep
  <2>4. CASE ~is_lock_compatible(lockType[k], mode)
    BY <2>1, <2>2, <2>4, EnqueueStep
  <2> QED BY <2>3, <2>4
<1>2. ASSUME NEW t \in Txns, NEW k \in Keys, lock_manager_unlock_document(t, k)
      PROVE  IInv'
  <2>1. /\ Idle(t)
        /\ (\E r \in granted[k] : Release(t, k, r)) \/ ReleaseNothing(t, k)
        /\ UNCHANGED <<callReq, callKey, retryCount, txnState, detection>>
    BY <1>2 DEF lock_manager_unlock_document
  <2>2. ASSUME NEW r \in granted[k], Release(t, k, r) PROVE IInv'
    BY <2>1, <2>2, ReleaseStep
  <2>3. CASE ReleaseNothing(t, k)
    <3>1. /\ UNCHANGED <<lockType, readerCount, granted, waiting, ahead, req, pc>>
          /\ entries' = RemoveEntryIfUnused(k, lockType[k], waiting[k])
      BY <2>3 DEF ReleaseNothing
    <3>2. GrantedLocksCompatible' /\ ReaderCountExact' /\ QueuesWellFormed' /\ QueuesOrdered'
      BY <3>1, QueuesUnchanged
    <3>3. TypeOK'
      BY <1>0, <2>1, <3>1 DEF TypeOK, RemoveEntryIfUnused
    <3>4. WaiterEntryAlive'
      <4> SUFFICES ASSUME NEW u \in Txns, pc[u] # "idle"
                   PROVE  /\ callKey[u] \in entries'
                          /\ req[callReq[u]].txn = u
                          /\ callReq[u] \in waiting[callKey[u]] \cup granted[callKey[u]]
        BY <2>1, <3>1 DEF WaiterEntryAlive
      <4>1. /\ callKey[u] \in entries /\ req[callReq[u]].txn = u
            /\ callReq[u] \in waiting[callKey[u]] \cup granted[callKey[u]]
        BY <1>0 DEF WaiterEntryAlive
      <4>2. ~(lockType[callKey[u]] = "NONE" /\ waiting[callKey[u]] = {})
        BY <1>0, <4>1 DEF IInv, GrantedLocksCompatible, TypeOK
      <4> QED BY <3>1, <4>1, <4>2 DEF RemoveEntryIfUnused
    <3> QED BY <3>2, <3>3, <3>4 DEF IInv
  <2> QED BY <2>1, <2>2, <2>3
<1>3. ASSUME NEW t \in Txns, pc[t] # "idle", NEW p \in PCs \ {"idle"},
             pc' = [pc EXCEPT ![t] = p],
             UNCHANGED <<entries, lockType, readerCount, granted, waiting, ahead, req,
                         callReq, callKey, detection>>,
             retryCount' \in [Modes -> 0..MaxRetries],
             txnState' \in [Txns -> {"ACTIVE", "ABORTING"}]
      PROVE  IInv'
  BY <1>0, <1>3, QuietStep DEF TypeOK
<1>4. ASSUME NEW v \in Txns, AbortVictim(v)
      PROVE  txnState' \in [Txns -> {"ACTIVE", "ABORTING"}]
  BY <1>0, <1>4 DEF TypeOK, AbortVictim
<1>5. /\ retryCount \in [Modes -> 0..MaxRetries]
      /\ txnState \in [Txns -> {"ACTIVE", "ABORTING"}]
      /\ Victims \subseteq Txns
  BY <1>0 DEF TypeOK, Victims
<1>6. ASSUME NEW t \in Txns, NEW k \in Keys, LockOutOfMemory(t, k)
      PROVE  IInv'
  BY <1>6, <1>0, QuietStep DEF LockOutOfMemory, TypeOK
<1>7. ASSUME NEW t \in Txns, SpuriousWakeup(t) \/ DeadlinePasses(t) PROVE IInv'
  BY <1>7, <1>3, <1>5 DEF SpuriousWakeup, DeadlinePasses, PCs
<1>8. ASSUME NEW t \in Txns, TimeoutRetry(t) PROVE IInv'
  <2> DEFINE done == req[callReq[t]].status = "GRANTED"
  <2>1. /\ pc[t] = "timedout"
        /\ retryCount[CallMode(t)] < MaxRetries
        /\ retryCount' = [retryCount EXCEPT ![CallMode(t)] = @ + 1]
        /\ pc' = [pc EXCEPT ![t] = IF done THEN "idle" ELSE "asleep"]
        /\ callReq' = [callReq EXCEPT ![t] = IF done THEN NoReq ELSE @]
        /\ callKey' = [callKey EXCEPT ![t] = IF done THEN NoKey ELSE @]
        /\ UNCHANGED <<entries, lockType, readerCount, granted, waiting, ahead, req,
                       txnState, detection>>
    BY <1>8 DEF TimeoutRetry, LoopTest
  <2>2. retryCount' \in [Modes -> 0..MaxRetries]
    <3> DEFINE m == CallMode(t)
    <3>1. retryCount[m] < MaxRetries /\ retryCount' = [retryCount EXCEPT ![m] = @ + 1]
      BY <2>1
    <3> HIDE DEF m
    <3>2. MaxRetries \in Nat
      BY ConfigAssumption
    <3>3. CASE m \in Modes
      BY <1>5, <3>1, <3>2, <3>3
    <3>4. CASE m \notin Modes
      BY <1>5, <3>1, <3>4
    <3> QED BY <3>3, <3>4
  <2>3. GrantedLocksCompatible' /\ ReaderCountExact' /\ QueuesWellFormed' /\ QueuesOrdered'
    BY <2>1, QueuesUnchanged
  <2>4. \A u \in Txns : /\ u # t => /\ pc'[u] = pc[u]
                                    /\ callReq'[u] = callReq[u]
                                    /\ callKey'[u] = callKey[u]
                        /\ u = t /\ ~done => /\ pc'[u] = "asleep"
                                             /\ callReq'[u] = callReq[u]
                                             /\ callKey'[u] = callKey[u]
                        /\ u = t /\ done => /\ pc'[u] = "idle"
                                            /\ callReq'[u] = NoReq
                                            /\ callKey'[u] = NoKey
    BY <1>0, <2>1 DEF TypeOK
  <2>5. TypeOK'
    BY <1>0, <2>1, <2>4, <2>2 DEF TypeOK, PCs
  <2>6. WaiterEntryAlive'
    BY <2>1, <2>4, <1>0 DEF WaiterEntryAlive
  <2> QED BY <2>3, <2>5, <2>6 DEF IInv
<1>9. ASSUME NEW t \in Txns, TimeoutFail(t) PROVE IInv'
  BY <1>9, <1>5, ConfigAssumption, FailCallStep DEF TimeoutFail
<1>10. ASSUME NEW t \in Txns, TimeoutDeadlock(t) PROVE IInv'
  <2>1. PICK v \in Victims : AbortVictim(v)
    BY <1>10 DEF TimeoutDeadlock
  <2>2. /\ pc[t] # "idle" /\ FailCall(t, "DEADLOCK") /\ UNCHANGED retryCount
    BY <1>10 DEF TimeoutDeadlock
  <2>3. retryCount' \in [Modes -> 0..MaxRetries] /\ txnState' \in [Txns -> {"ACTIVE", "ABORTING"}]
    BY <1>4, <1>5, <2>1, <2>2
  <2> QED BY <2>2, <2>3, FailCallStep
<1>11. ASSUME NEW t \in Txns, TimeoutRecurse(t) \/ Recurse(t) PROVE IInv'
  <2>1. PICK v \in Victims : AbortVictim(v)
    BY <1>11 DEF TimeoutRecurse, Recurse
  <2>2. /\ pc[t] # "idle"
        /\ pc' = [pc EXCEPT ![t] = "spinning"]
        /\ UNCHANGED <<entries, lockType, readerCount, granted, waiting, ahead, req,
                       callReq, callKey, retryCount, detection>>
    BY <1>0, <1>11 DEF TimeoutRecurse, TypeOK, Recurse
  <2>3. txnState' \in [Txns -> {"ACTIVE", "ABORTING"}] /\ retryCount' \in [Modes -> 0..MaxRetries]
    BY <1>4, <1>5, <2>1, <2>2
  <2>4. "spinning" \in PCs \ {"idle"}
    BY DEF PCs
  <2> QED BY <1>3, <2>2, <2>3, <2>4
<1>12. ASSUME NEW d \in ConfigValues, lock_manager_configure(d) PROVE IInv'
  BY <1>12, <1>0, ConfigAssumption, QuietStep DEF lock_manager_configure, TypeOK
<1>13. CASE UNCHANGED vars
  BY <1>13, <1>0, QuietStep DEF vars, TypeOK
<1>14. CASE Next
  <2>1. "SHARED" \in Modes /\ "EXCLUSIVE" \in Modes
    BY DEF Modes
  <2> QED BY <1>1, <1>2, <1>6, <1>7, <1>8, <1>9, <1>10, <1>11, <1>12, <1>14, <2>1, WakeUpStep
          DEF Next, lock_manager_lock_document, lock_manager_lock_document_shared
<1> QED BY <1>13, <1>14

\* The inductive invariant holds in every reachable state.
THEOREM InductiveInvariant == Spec => []IInv
BY InitInv, StepInv, PTL DEF Spec

\* Every variable of the lock manager keeps its type.
THEOREM TypeCorrect == Spec => []TypeOK
<1>1. IInv => TypeOK
  BY DEF IInv
<1> QED BY <1>1, InductiveInvariant, PTL

\* Mutual exclusion: an exclusive lock on a document is never granted together
\* with another lock, however calls, grants, timeouts and unlocks interleave.
THEOREM MutualExclusion == Spec => []GrantedLocksCompatible
<1>1. IInv => GrantedLocksCompatible
  BY DEF IInv
<1> QED BY <1>1, InductiveInvariant, PTL

\* The reader count equals the number of shared locks that are granted.
THEOREM ReaderCountCorrect == Spec => []ReaderCountExact
<1>1. IInv => ReaderCountExact
  BY DEF IInv
<1> QED BY <1>1, InductiveInvariant, PTL

\* No thread inside a lock call ever uses a freed entry or a freed request.
THEOREM WaitersAreSafe == Spec => []WaiterEntryAlive
<1>1. IInv => WaiterEntryAlive
  BY DEF IInv
<1> QED BY <1>1, InductiveInvariant, PTL

\* The lock table is sound at every moment: its types, compatible grants and an exact
\* count of readers.
THEOREM LockTableIsSound == Spec => []LockTableSound
<1>1. IInv => LockTableSound
  BY DEF IInv, LockTableSound
<1> QED BY <1>1, InductiveInvariant, PTL
-----------------------------------------------------------------------------
(* Waiting requests.  That none is left waiting without need is inductive   *)
(* only with two more facts: the order of a queue is a strict one, so that  *)
(* a queue has a head, and a request waits as long as the call it is for.   *)

\* ahead orders the requests of a queue strictly.
QueuesStrict ==
    \A k \in Keys : \A r \in waiting[k] :
        /\ ahead[r] \subseteq waiting[k] \ {r}
        /\ \A s \in ahead[r] : ahead[s] \subseteq ahead[r]

\* A waiting request is the one that its transaction's call waits for.
WaitingInCall ==
    \A k \in Keys : \A w \in waiting[k] :
        /\ req[w].status = "WAITING"
        /\ pc[req[w].txn] # "idle"
        /\ callReq[req[w].txn] = w
        /\ callKey[req[w].txn] = k

\* The inductive invariant of the waiting queues.
WInv == IInv /\ NoMissedGrant /\ QueuesStrict /\ WaitingInCall
\* A queue that is not empty has a head.
LEMMA QueueHasHead ==
    ASSUME TypeOK, QueuesStrict, NEW k \in Keys, waiting[k] # {}
    PROVE  \E r \in waiting[k] : ahead[r] = {}
<1> DEFINE size(r) == Cardinality(ahead[r])
           Below   == {p \in Nat \X Nat : p[1] < p[2]}
           S       == {size(r) : r \in waiting[k]}
<1>1. \A r \in waiting[k] : r \in Requests /\ ahead[r] \subseteq waiting[k] /\ IsFiniteSet(ahead[r])
  <2> SUFFICES ASSUME NEW r \in waiting[k]
               PROVE  r \in Requests /\ ahead[r] \subseteq waiting[k] /\ IsFiniteSet(ahead[r])
    OBVIOUS
  <2>1. r \in Requests /\ ahead[r] \in SUBSET Requests /\ ahead[r] \subseteq waiting[k]
    BY DEF TypeOK, QueuesStrict
  <2> QED BY <2>1, FS_Subset, PoolAssumption
<1>2. \A r \in waiting[k] : size(r) \in Nat
  BY <1>1, FS_CardinalityType
<1>3. IsWellFoundedOn(Below, Nat)
  BY NatLessThanWellFounded DEF OpToRel
<1> HIDE DEF Below
<1>4. PICK m \in S : \A n \in S : ~ (<<n, m>> \in Below)
  <2>1. S \subseteq Nat /\ S # {}
    BY <1>2
  <2> HIDE DEF S
  <2> QED BY <1>3, <2>1, WFMin
<1>5. PICK r \in waiting[k] : m = size(r)
  BY <1>4
<1>6. ASSUME NEW s \in ahead[r] PROVE FALSE
  <2>1. s \in waiting[k] /\ ahead[s] \subseteq ahead[r] /\ s \notin ahead[s]
    BY <1>1, <1>5 DEF QueuesStrict
  <2>2. size(s) <= size(r) /\ size(s) # size(r)
    BY <1>1, <1>5, <2>1, FS_Subset
  <2>3. size(s) \in S /\ size(s) \in Nat /\ size(r) \in Nat
    BY <1>2, <1>5, <2>1
  <2>4. ~ (<<size(s), m>> \in Below)
    BY <1>4, <2>3
  <2> HIDE DEF size
  <2> QED BY <1>5, <2>2, <2>3, <2>4 DEF Below
<1> QED BY <1>5, <1>6

\* What process_waiting_requests leaves in the queue conflicts with what it granted.
LEMMA GrantsLeaveBlocked ==
    ASSUME IInv, QueuesStrict, NEW k \in Keys, NEW type \in LockTypes,
           NEW gs, gs = Grants(waiting[k], type), NEW w \in waiting[k] \ gs
    PROVE  ~ is_lock_compatible(TypeAfter(type, gs), req[w].type)
<1> DEFINE ws == waiting[k]
           shared == {r \in ws : req[r].type = "SHARED"}
           head == {r \in ws : ahead[r] = {}}
<1>1. TypeOK /\ \A r \in ws : req[r].type \in {"SHARED", "EXCLUSIVE"}
  BY DEF IInv, QueuesWellFormed, Modes
<1>2. CASE type = "EXCLUSIVE"
  BY <1>2 DEF TypeAfter, is_lock_compatible
<1>3. CASE type = "SHARED"
  BY <1>3 DEF Grants, TypeAfter, is_lock_compatible
<1>4. CASE type = "NONE"
  <2>1. gs = IF head \subseteq shared THEN shared ELSE head
    BY <1>4 DEF Grants
  <2>2. head # {}
    BY <1>1, QueueHasHead
  <2>3. gs # {}
    BY <2>1, <2>2
  <2>4. TypeAfter(type, gs) = req[CHOOSE r \in gs : TRUE].type /\ (CHOOSE r \in gs : TRUE) \in gs
    BY <1>4, <2>3 DEF TypeAfter
  <2>5. CASE head \subseteq shared
    BY <2>1, <2>4, <2>5 DEF is_lock_compatible
  <2>6. CASE ~ (head \subseteq shared)
    <3>1. gs = head /\ \E r \in gs : req[r].type # "SHARED"
      BY <2>1, <2>6
    <3>2. \E r \in gs : gs = {r} /\ req[r].type = "EXCLUSIVE"
      BY <1>4, <3>1, GrantsFacts
    <3> QED BY <2>4, <3>2 DEF is_lock_compatible
  <2> QED BY <2>5, <2>6
<1> QED BY <1>2, <1>3, <1>4 DEF LockTypes

\* The requests that stay are in the same calls.
LEMMA StillInCall ==
    ASSUME IInv, WaitingInCall,
           \A k \in Keys : waiting'[k] \subseteq waiting[k],
           \A k \in Keys : \A w \in waiting'[k] : req'[w] = req[w],
           \A u \in Txns : pc[u] # "idle" /\ callReq[u] \in waiting'[callKey[u]] =>
               pc'[u] # "idle" /\ callReq'[u] = callReq[u] /\ callKey'[u] = callKey[u]
    PROVE  WaitingInCall'
<1> SUFFICES ASSUME NEW k \in Keys, NEW w \in waiting'[k]
             PROVE  /\ req'[w].status = "WAITING"
                    /\ pc'[req'[w].txn] # "idle"
                    /\ callReq'[req'[w].txn] = w
                    /\ callKey'[req'[w].txn] = k
  BY DEF WaitingInCall
<1>1. w \in waiting[k] /\ req'[w] = req[w] /\ req[w].txn \in Txns
  BY DEF IInv, QueuesWellFormed
<1> QED BY <1>1 DEF WaitingInCall

\* process_waiting_requests, as WakeUp and Release call it.
LEMMA GrantsKeepWaiting ==
    ASSUME WInv, NEW k \in Keys, NEW type \in LockTypes, NEW gs, gs = Grants(waiting[k], type),
           waiting' = [waiting EXCEPT ![k] = @ \ gs],
           ahead' = AheadWithout(gs),
           lockType' = [lockType EXCEPT ![k] = TypeAfter(type, gs)],
           \A l \in Keys : \A w \in waiting[l] \ gs : req'[w] = req[w]
    PROVE  NoMissedGrant' /\ QueuesStrict'
<1>0. TypeOK /\ QueuesWellFormed /\ gs \subseteq waiting[k]
  BY GrantsFacts DEF WInv, IInv
<1>1. \A l \in Keys : /\ waiting'[l] = waiting[l] \ gs
                      /\ l # k => lockType'[l] = lockType[l]
                      /\ l = k => lockType'[l] = TypeAfter(type, gs)
  BY <1>0 DEF TypeOK, QueuesWellFormed
<1>2. \A r \in Requests \ gs : ahead'[r] = ahead[r] \ gs
  BY DEF AheadWithout
<1>3. NoMissedGrant'
  <2> SUFFICES ASSUME NEW l \in Keys, NEW w \in waiting'[l]
               PROVE  ~ is_lock_compatible(lockType'[l], req'[w].type)
    BY DEF NoMissedGrant, is_lock_compatible
  <2>1. w \in waiting[l] \ gs /\ req'[w] = req[w]
    BY <1>1
  <2>2. CASE l = k
    BY <2>1, <2>2, GrantsLeaveBlocked, <1>1 DEF WInv
  <2>3. CASE l # k
    BY <1>1, <2>1, <2>3 DEF WInv, NoMissedGrant
  <2> QED BY <2>2, <2>3
<1>4. QueuesStrict'
  <2> SUFFICES ASSUME NEW l \in Keys, NEW r \in waiting'[l]
               PROVE  /\ ahead'[r] \subseteq waiting'[l] \ {r}
                      /\ \A s \in ahead'[r] : ahead'[s] \subseteq ahead'[r]
    BY DEF QueuesStrict
  <2>1. r \in waiting[l] \ gs /\ waiting[l] \subseteq Requests
    BY <1>0, <1>1 DEF TypeOK
  <2>2. ahead[r] \subseteq waiting[l] \ {r} /\ \A s \in ahead[r] : ahead[s] \subseteq ahead[r]
    BY <2>1 DEF WInv, QueuesStrict
  <2>3. ahead'[r] = ahead[r] \ gs
    BY <1>2, <2>1
  <2>4. \A s \in ahead'[r] : ahead'[s] = ahead[s] \ gs
    BY <1>2, <2>1, <2>2, <2>3
  <2> QED BY <1>1, <2>2, <2>3, <2>4
<1> QED BY <1>3, <1>4
\* A step that leaves the queues alone and ends no call.
LEMMA QuietKeepsWaiting ==
    ASSUME WInv, UNCHANGED <<lockType, waiting, ahead, req, callReq, callKey>>,
           \A u \in Txns : pc[u] # "idle" => pc'[u] # "idle"
    PROVE  NoMissedGrant' /\ QueuesStrict' /\ WaitingInCall'
  BY StillInCall DEF WInv, NoMissedGrant, QueuesStrict

LEMMA GrantNowKeepsWaiting ==
    ASSUME WInv, NEW t \in Txns, NEW k \in Keys, NEW r \in Requests, NEW mode \in Modes,
           CanAllocate(r), is_lock_compatible(lockType[k], mode), GrantNow(t, k, r, mode)
    PROVE  NoMissedGrant' /\ QueuesStrict' /\ WaitingInCall'
  BY StillInCall DEF WInv, IInv, GrantNow, CanAllocate, QueuesWellFormed, TypeOK, NoMissedGrant, is_lock_compatible,
     QueuesStrict

LEMMA EnqueueKeepsWaiting ==
    ASSUME WInv, NEW t \in Txns, NEW k \in Keys, NEW r \in Requests, NEW mode \in Modes,
           Idle(t), CanAllocate(r), ~ is_lock_compatible(lockType[k], mode), Enqueue(t, k, r, mode)
    PROVE  NoMissedGrant' /\ QueuesStrict' /\ WaitingInCall'
<1>0. TypeOK /\ QueuesWellFormed
  BY DEF WInv, IInv
<1>1. /\ req' = [req EXCEPT ![r] = [txn |-> t, type |-> mode, status |-> "WAITING"]]
      /\ ahead' = [ahead EXCEPT ![r] = waiting[k]]
      /\ waiting' = [waiting EXCEPT ![k] = @ \cup {r}]
      /\ pc' = [pc EXCEPT ![t] = "asleep"]
      /\ callReq' = [callReq EXCEPT ![t] = r]
      /\ callKey' = [callKey EXCEPT ![t] = k]
      /\ lockType' = lockType
  BY DEF Enqueue
<1>2. /\ \A l \in Keys : r \notin waiting[l]
      /\ \A x \in Requests \ {r} : req'[x] = req[x] /\ ahead'[x] = ahead[x]
      /\ req'[r].txn = t /\ req'[r].type = mode /\ req'[r].status = "WAITING"
      /\ ahead'[r] = waiting[k]
      /\ \A l \in Keys : waiting'[l] = IF l = k THEN waiting[k] \cup {r} ELSE waiting[l]
      /\ \A u \in Txns \ {t} : pc'[u] = pc[u] /\ callReq'[u] = callReq[u] /\ callKey'[u] = callKey[u]
      /\ pc'[t] = "asleep" /\ callReq'[t] = r /\ callKey'[t] = k
  BY <1>0, <1>1 DEF TypeOK, QueuesWellFormed, CanAllocate
<1>3. \A l \in Keys : waiting[l] \subseteq Requests \ {r}
  BY <1>0, <1>2 DEF TypeOK
<1>4. NoMissedGrant'
  BY <1>1, <1>2, <1>3 DEF WInv, NoMissedGrant, is_lock_compatible
<1>5. QueuesStrict'
  <2> SUFFICES ASSUME NEW l \in Keys, NEW x \in waiting'[l]
               PROVE  /\ ahead'[x] \subseteq waiting'[l] \ {x}
                      /\ \A s \in ahead'[x] : ahead'[s] \subseteq ahead'[x]
    BY DEF QueuesStrict
  <2>1. CASE x = r
    BY <1>2, <2>1, <1>3 DEF WInv, QueuesStrict
  <2>2. CASE x # r
    BY <1>2, <1>3, <2>2 DEF WInv, QueuesStrict
  <2> QED BY <2>1, <2>2
<1>6. WaitingInCall'
  <2> SUFFICES ASSUME NEW l \in Keys, NEW w \in waiting'[l]
               PROVE  /\ req'[w].status = "WAITING"
                      /\ pc'[req'[w].txn] # "idle"
                      /\ callReq'[req'[w].txn] = w
                      /\ callKey'[req'[w].txn] = l
    BY DEF WaitingInCall
  <2>1. CASE w = r
    BY <1>2, <2>1
  <2>2. CASE w # r
    BY <1>2, <1>3, <2>2, <1>0 DEF WInv, WaitingInCall, QueuesWellFormed, Idle
  <2> QED BY <2>1, <2>2
<1> QED BY <1>4, <1>5, <1>6

LEMMA FailCallKeepsWaiting ==
    ASSUME WInv, NEW t \in Txns, NEW status \in {"ERROR", "DEADLOCK"},
           pc[t] # "idle", FailCall(t, status)
    PROVE  NoMissedGrant' /\ QueuesStrict' /\ WaitingInCall'
<1>0. TypeOK /\ QueuesWellFormed /\ WaiterEntryAlive
  BY DEF WInv, IInv
<1> DEFINE k == callKey[t]
           r == callReq[t]
           queued == {r} \cap waiting[k]
<1>1. /\ req' = [req EXCEPT ![r] = IF queued = {} THEN [@ EXCEPT !.status = status]
                                                 ELSE FreeRequest]
      /\ waiting' = [waiting EXCEPT ![k] = @ \ {r}]
      /\ ahead' = AheadWithout(queued)
      /\ pc' = [pc EXCEPT ![t] = "idle"]
      /\ callReq' = [callReq EXCEPT ![t] = NoReq]
      /\ callKey' = [callKey EXCEPT ![t] = NoKey]
      /\ lockType' = lockType
  BY DEF FailCall
<1>2. k \in Keys /\ r \in Requests /\ r \in waiting[k] \cup granted[k]
  BY <1>0 DEF TypeOK, WaiterEntryAlive
<1> HIDE DEF k, r
<1>3. \A l \in Keys : waiting'[l] = waiting[l] \ {r} /\ waiting'[l] = waiting[l] \ queued
  BY <1>0, <1>1, <1>2 DEF TypeOK, QueuesWellFormed
<1>4. \A x \in Requests \ {r} : req'[x] = req[x]
  BY <1>0, <1>1 DEF TypeOK
<1>5. \A l \in Keys : \A w \in waiting'[l] : w \in Requests \ {r} /\ w \in waiting[l] /\ req'[w] = req[w]
  BY <1>0, <1>3, <1>4 DEF TypeOK
<1>6. NoMissedGrant'
  BY <1>1, <1>5 DEF WInv, NoMissedGrant, is_lock_compatible
<1>7. QueuesStrict'
  <2> SUFFICES ASSUME NEW l \in Keys, NEW x \in waiting'[l]
               PROVE  /\ ahead'[x] \subseteq waiting'[l] \ {x}
                      /\ \A s \in ahead'[x] : ahead'[s] \subseteq ahead'[x]
    BY DEF QueuesStrict
  <2>1. x \in waiting[l] \ queued /\ waiting[l] \subseteq Requests
    BY <1>0, <1>3 DEF TypeOK
  <2>2. ahead[x] \subseteq waiting[l] \ {x} /\ \A s \in ahead[x] : ahead[s] \subseteq ahead[x]
    BY <2>1 DEF WInv, QueuesStrict
  <2>3. \A s \in Requests \ queued : ahead'[s] = ahead[s] \ queued
    BY <1>1 DEF AheadWithout
  <2>4. ahead'[x] = ahead[x] \ queued /\ \A s \in ahead'[x] : ahead'[s] = ahead[s] \ queued
    BY <2>1, <2>2, <2>3
  <2> HIDE DEF queued
  <2> QED BY <1>3, <2>2, <2>4
<1>8. WaitingInCall'
  BY <1>2, <1>3, <1>0, <1>1, <1>5, StillInCall DEF r, k, TypeOK, WInv
<1> QED BY <1>6, <1>7, <1>8

LEMMA WakeUpKeepsWaiting ==
    ASSUME WInv, NEW t \in Txns, WakeUp(t)
    PROVE  NoMissedGrant' /\ QueuesStrict' /\ WaitingInCall'
<1>0. TypeOK /\ QueuesWellFormed /\ WaiterEntryAlive
  BY DEF WInv, IInv
<1> DEFINE k == callKey[t]
           gs == Grants(waiting[k], lockType[k])
           q == IF gs = {} THEN pc ELSE Broadcast(k, pc)
           done == req'[callReq[t]].status = "GRANTED"
<1>1. /\ pc[t] = "woken"
      /\ req' = [x \in Requests |->
                  IF x \in gs THEN [req[x] EXCEPT !.status = "GRANTED"] ELSE req[x]]
      /\ waiting' = [waiting EXCEPT ![k] = @ \ gs]
      /\ ahead' = AheadWithout(gs)
      /\ lockType' = [lockType EXCEPT ![k] = TypeAfter(lockType[k], gs)]
      /\ pc' = [q EXCEPT ![t] = IF done THEN "idle" ELSE "asleep"]
      /\ callReq' = [callReq EXCEPT ![t] = IF done THEN NoReq ELSE @]
      /\ callKey' = [callKey EXCEPT ![t] = IF done THEN NoKey ELSE @]
  BY DEF WakeUp, process_waiting_requests, LoopTest
<1>2. k \in Keys /\ lockType[k] \in LockTypes
  BY <1>0, <1>1 DEF TypeOK
<1>3. gs \subseteq waiting[k]
  BY <1>2, GrantsFacts DEF WInv
<1> HIDE DEF gs, k
<1>4. \A l \in Keys : \A w \in waiting[l] \ gs : req'[w] = req[w]
  BY <1>0, <1>1 DEF TypeOK
<1>5. NoMissedGrant' /\ QueuesStrict'
  BY <1>1, <1>2, <1>4, GrantsKeepWaiting DEF gs
<1>6. \A l \in Keys : waiting'[l] = waiting[l] \ gs
  BY <1>0, <1>1, <1>2, <1>3 DEF TypeOK, QueuesWellFormed
<1>7. \A u \in Txns : pc[u] # "idle" => q[u] # "idle"
  BY <1>0 DEF Broadcast
<1>8. q = [u \in Txns |-> q[u]] /\ callReq = [u \in Txns |-> callReq[u]] /\ callKey = [u \in Txns |-> callKey[u]]
  BY <1>0 DEF TypeOK, Broadcast
<1> HIDE DEF q
<1>9. ASSUME NEW u \in Txns, pc[u] # "idle", callReq[u] \in waiting'[callKey[u]]
      PROVE  pc'[u] # "idle" /\ callReq'[u] = callReq[u] /\ callKey'[u] = callKey[u]
  <2>1. CASE u # t
    BY <1>1, <1>7, <1>8, <1>9, <2>1
  <2>2. CASE u = t
    <3>1. callReq[t] \in waiting[k] \ gs
      BY <1>2, <1>6, <1>9, <2>2 DEF k
    <3>2. req'[callReq[t]].status = "WAITING"
      BY <1>2, <1>4, <3>1 DEF WInv, WaitingInCall
    <3>3. ~ done
      BY <3>2
    <3> QED BY <1>1, <1>8, <2>2, <3>3
  <2> QED BY <2>1, <2>2
<1>10. WaitingInCall'
  BY <1>4, <1>6, <1>9, StillInCall DEF WInv
<1> QED BY <1>5, <1>10
LEMMA ReleaseKeepsWaiting ==
    ASSUME WInv, NEW t \in Txns, NEW k \in Keys, NEW r \in granted[k], Release(t, k, r),
           UNCHANGED <<callReq, callKey>>
    PROVE  NoMissedGrant' /\ QueuesStrict' /\ WaitingInCall'
<1>0. TypeOK /\ QueuesWellFormed
  BY DEF WInv, IInv
<1> DEFINE type == IF granted[k] \ {r} = {} THEN "NONE"
                   ELSE IF req[r].type = "EXCLUSIVE" THEN "SHARED" ELSE lockType[k]
           gs == Grants(waiting[k], type)
<1>1. /\ waiting' = [waiting EXCEPT ![k] = @ \ gs]
      /\ ahead' = AheadWithout(gs)
      /\ lockType' = [lockType EXCEPT ![k] = TypeAfter(type, gs)]
      /\ req' = [x \in Requests |->
                     IF x = r THEN FreeRequest
                     ELSE IF x \in gs THEN [req[x] EXCEPT !.status = "GRANTED"]
                     ELSE req[x]]
      /\ pc' = IF gs = {} THEN pc ELSE Broadcast(k, pc)
  BY DEF Release
<1>2. type \in LockTypes
  BY <1>0 DEF TypeOK, LockTypes
<1> HIDE DEF type
<1>3. gs \subseteq waiting[k]
  BY <1>2, GrantsFacts DEF WInv
<1> HIDE DEF gs
<1>4. \A l \in Keys : \A w \in waiting[l] \ gs : req'[w] = req[w]
  BY <1>0, <1>1 DEF TypeOK, QueuesWellFormed
<1>5. NoMissedGrant' /\ QueuesStrict'
  BY <1>1, <1>2, <1>4, GrantsKeepWaiting DEF gs
<1>6. \A l \in Keys : waiting'[l] = waiting[l] \ gs
  BY <1>0, <1>1, <1>3 DEF TypeOK, QueuesWellFormed
<1>7. \A u \in Txns : pc[u] # "idle" => pc'[u] # "idle"
  BY <1>1 DEF Broadcast
<1>8. WaitingInCall'
  BY <1>4, <1>6, <1>7, StillInCall DEF WInv
<1> QED BY <1>5, <1>8

LEMMA StartLockKeepsWaiting ==
    ASSUME WInv, NEW t \in Txns, NEW k \in Keys, NEW mode \in Modes, StartLock(t, k, mode)
    PROVE  NoMissedGrant' /\ QueuesStrict' /\ WaitingInCall'
<1>1. PICK r \in Requests : /\ CanAllocate(r)
                            /\ IF is_lock_compatible(lockType[k], mode)
                               THEN GrantNow(t, k, r, mode)
                               ELSE Enqueue(t, k, r, mode)
  BY DEF StartLock
<1>2. Idle(t)
  BY DEF StartLock
<1>3. CASE is_lock_compatible(lockType[k], mode)
  BY <1>1, <1>3, GrantNowKeepsWaiting
<1>4. CASE ~ is_lock_compatible(lockType[k], mode)
  BY <1>1, <1>2, <1>4, EnqueueKeepsWaiting
<1> QED BY <1>3, <1>4

LEMMA RetryKeepsWaiting ==
    ASSUME WInv, NEW t \in Txns, TimeoutRetry(t)
    PROVE  NoMissedGrant' /\ QueuesStrict' /\ WaitingInCall'
<1> DEFINE done == req[callReq[t]].status = "GRANTED"
<1>0. TypeOK
  BY DEF WInv, IInv
<1>1. /\ pc[t] = "timedout"
      /\ pc' = [pc EXCEPT ![t] = IF done THEN "idle" ELSE "asleep"]
      /\ callReq' = [callReq EXCEPT ![t] = IF done THEN NoReq ELSE @]
      /\ callKey' = [callKey EXCEPT ![t] = IF done THEN NoKey ELSE @]
      /\ UNCHANGED <<lockType, waiting, ahead, req>>
  BY DEF TimeoutRetry, LoopTest
<1>2. ASSUME NEW u \in Txns, pc[u] # "idle", callReq[u] \in waiting'[callKey[u]]
      PROVE  pc'[u] # "idle" /\ callReq'[u] = callReq[u] /\ callKey'[u] = callKey[u]
  BY <1>0, <1>1, <1>2 DEF TypeOK, WInv, WaitingInCall
<1>3. WaitingInCall'
  BY <1>1, <1>2, StillInCall DEF WInv
<1> QED BY <1>1, <1>3 DEF WInv, NoMissedGrant, QueuesStrict

LEMMA NextKeepsWaiting == WInv /\ [Next]_vars => WInv'
<1> SUFFICES ASSUME WInv, [Next]_vars PROVE WInv'
  OBVIOUS
<1> DEFINE Goal == NoMissedGrant' /\ QueuesStrict' /\ WaitingInCall'
<1>1. IInv'
  BY StepInv DEF WInv
<1>2. ASSUME NEW t \in Txns, NEW k \in Keys, lock_manager_unlock_document(t, k) PROVE Goal
  BY <1>2, QuietKeepsWaiting, ReleaseKeepsWaiting DEF lock_manager_unlock_document, ReleaseNothing
<1>3. ASSUME NEW t \in Txns, NEW k \in Keys, LockOutOfMemory(t, k) PROVE Goal
  BY <1>3, QuietKeepsWaiting DEF LockOutOfMemory
<1>4. ASSUME NEW t \in Txns,
             SpuriousWakeup(t) \/ DeadlinePasses(t) \/ TimeoutRecurse(t) \/ Recurse(t)
      PROVE  Goal
  BY <1>4, QuietKeepsWaiting DEF SpuriousWakeup, DeadlinePasses, TimeoutRecurse, Recurse, WInv, IInv, TypeOK
<1>5. ASSUME NEW t \in Txns, TimeoutFail(t) \/ TimeoutDeadlock(t) PROVE Goal
  BY <1>5, FailCallKeepsWaiting DEF TimeoutFail, TimeoutDeadlock
<1>6. ASSUME NEW d \in ConfigValues, lock_manager_configure(d) PROVE Goal
  BY <1>6, QuietKeepsWaiting DEF lock_manager_configure
<1>7. ASSUME UNCHANGED vars PROVE Goal
  BY <1>7, QuietKeepsWaiting DEF vars
<1>8. ASSUME Next PROVE Goal
  BY <1>2, <1>3, <1>4, <1>5, <1>6, <1>8, StartLockKeepsWaiting, WakeUpKeepsWaiting, RetryKeepsWaiting DEF Modes, Next,
     lock_manager_lock_document, lock_manager_lock_document_shared
<1>9. Goal
  BY <1>7, <1>8
<1> QED BY <1>1, <1>9 DEF WInv

\* Only an exclusive request at the head of its queue is granted from it.
LEMMA ExclusiveFromHead ==
    ASSUME WInv, Next, NEW k \in Keys, NEW r \in waiting[k], r \in granted'[k], req[r].type = "EXCLUSIVE"
    PROVE  ahead[r] = {}
<1>1. TypeOK /\ r \notin granted[k] /\ req[r].status # "FREE" /\ r \in Requests
  BY DEF WInv, IInv, QueuesWellFormed, TypeOK
<1>2. ASSUME NEW l \in Keys, NEW type \in LockTypes, NEW held \in SUBSET granted[l],
             granted' = [granted EXCEPT ![l] = held \cup Grants(waiting[l], type)]
      PROVE  ahead[r] = {}
  BY <1>1, <1>2 DEF TypeOK, Grants, LockTypes
<1>3. ASSUME NEW t \in Txns, NEW l \in Keys, NEW mode \in Modes, StartLock(t, l, mode) PROVE FALSE
  <2>1. PICK x \in Requests : CanAllocate(x) /\ (GrantNow(t, l, x, mode) \/ Enqueue(t, l, x, mode))
    BY <1>3 DEF StartLock
  <2>2. x # r
    BY <1>1, <2>1 DEF CanAllocate
  <2>3. granted' = granted \/ granted' = [granted EXCEPT ![l] = @ \cup {x}]
    BY <2>1 DEF GrantNow, Enqueue
  <2> QED BY <1>1, <2>2, <2>3 DEF TypeOK
<1>4. ASSUME NEW t \in Txns, NEW l \in Keys, lock_manager_unlock_document(t, l) PROVE ahead[r] = {}
  <2>1. CASE ReleaseNothing(t, l)
    BY <1>1, <2>1 DEF ReleaseNothing
  <2>2. ASSUME NEW x \in granted[l], Release(t, l, x) PROVE ahead[r] = {}
    <3> DEFINE held == granted[l] \ {x}
               type == IF held = {} THEN "NONE"
                       ELSE IF req[x].type = "EXCLUSIVE" THEN "SHARED" ELSE lockType[l]
    <3>1. granted' = [granted EXCEPT ![l] = held \cup Grants(waiting[l], type)]
      BY <2>2 DEF Release
    <3>2. type \in LockTypes /\ held \in SUBSET granted[l]
      BY <1>1 DEF TypeOK, LockTypes
    <3> HIDE DEF type, held
    <3> QED BY <1>2, <3>1, <3>2
  <2> QED BY <1>4, <2>1, <2>2 DEF lock_manager_unlock_document
<1>5. ASSUME NEW t \in Txns, WakeUp(t) PROVE ahead[r] = {}
  <2>1. /\ granted' = [granted EXCEPT ![callKey[t]] = granted[callKey[t]] \cup Grants(waiting[callKey[t]], lockType[callKey[t]])]
        /\ pc[t] = "woken"
    BY <1>5 DEF WakeUp, process_waiting_requests
  <2>2. callKey[t] \in Keys /\ lockType[callKey[t]] \in LockTypes
    BY <1>1, <2>1 DEF TypeOK
  <2> QED BY <1>2, <2>1, <2>2
<1>6. CASE granted' = granted
  BY <1>1, <1>6
<1>7. "SHARED" \in Modes /\ "EXCLUSIVE" \in Modes
  BY DEF Modes
<1>8. ASSUME NEW t \in Txns,
             \/ SpuriousWakeup(t) \/ DeadlinePasses(t) \/ TimeoutRetry(t) \/ TimeoutFail(t)
             \/ TimeoutDeadlock(t) \/ TimeoutRecurse(t) \/ Recurse(t)
      PROVE  granted' = granted
  BY <1>8 DEF SpuriousWakeup, DeadlinePasses, TimeoutRetry, TimeoutFail, TimeoutDeadlock,
              TimeoutRecurse, Recurse, FailCall
<1>9. ASSUME NEW t \in Txns, NEW l \in Keys, LockOutOfMemory(t, l) PROVE granted' = granted
  BY <1>9 DEF LockOutOfMemory
<1>10. ASSUME NEW d \in ConfigValues, lock_manager_configure(d) PROVE granted' = granted
  BY <1>10 DEF lock_manager_configure
<1> QED BY <1>3, <1>4, <1>5, <1>6, <1>7, <1>8, <1>9, <1>10
        DEF Next, lock_manager_lock_document, lock_manager_lock_document_shared

\* The detector's victims wait for a lock.
LEMMA VictimsWait ==
    ASSUME WInv, NEW v \in Victims
    PROVE  v \in Txns /\ pc[v] # "idle" /\ callReq[v] \in waiting[callKey[v]]
<1>0. PICK n \in 1..Cardinality(Txns) : \E p \in [1..n -> Txns] : IsSearchPath(p, n) /\ \E i \in 1..n : v = p[i]
  BY DEF Victims
<1>1. PICK p \in [1..n -> Txns] : IsSearchPath(p, n) /\ \E i \in 1..n : v = p[i]
  BY <1>0
<1>2. PICK i \in 1..n : v = p[i]
  BY <1>1
<1>3. \E u : WaitsFor(v, u)
  BY <1>1, <1>2 DEF IsSearchPath
<1>4. PICK k \in Keys : \E w \in waiting[k] : req[w].txn = v
  BY <1>3 DEF WaitsFor, WInv, IInv, TypeOK
<1>5. v \in Txns
  BY DEF Victims
<1> QED BY <1>4, <1>5 DEF WInv, WaitingInCall

LEMMA OnlyVictimsAborted ==
    ASSUME WInv, Next, NEW v \in Txns, txnState[v] = "ACTIVE", txnState'[v] = "ABORTING"
    PROVE  v \in Victims
<1>1. TypeOK /\ txnState' # txnState
  BY DEF WInv, IInv
<1>2. ASSUME NEW u \in Victims, AbortVictim(u) PROVE v \in Victims
  BY <1>1, <1>2 DEF TypeOK, AbortVictim
<1>3. ASSUME NEW t \in Txns, TimeoutDeadlock(t) \/ TimeoutRecurse(t) \/ Recurse(t) PROVE v \in Victims
  BY <1>2, <1>3 DEF TimeoutDeadlock, TimeoutRecurse, Recurse
<1>4. ASSUME NEW t \in Txns,
             SpuriousWakeup(t) \/ DeadlinePasses(t) \/ TimeoutRetry(t) \/ TimeoutFail(t) \/ WakeUp(t)
      PROVE  txnState' = txnState
  BY <1>4 DEF SpuriousWakeup, DeadlinePasses, TimeoutRetry, TimeoutFail, WakeUp
<1>5. ASSUME NEW t \in Txns, NEW l \in Keys,
             \/ lock_manager_lock_document(t, l) \/ lock_manager_lock_document_shared(t, l)
             \/ LockOutOfMemory(t, l) \/ lock_manager_unlock_document(t, l)
      PROVE  txnState' = txnState
  BY <1>5 DEF lock_manager_lock_document, lock_manager_lock_document_shared, StartLock,
              LockOutOfMemory, lock_manager_unlock_document
<1>6. ASSUME NEW d \in ConfigValues, lock_manager_configure(d) PROVE txnState' = txnState
  BY <1>6 DEF lock_manager_configure
<1> QED BY <1>1, <1>3, <1>4, <1>5, <1>6 DEF Next

\* Whatever mixture of unlocks, timeouts, retries and wake-ups: a request waits only
\* while a granted lock conflicts with it, exclusive requests are granted in the order of
\* their queue, and the deadlock detector aborts only a transaction that waits.
THEOREM WaitersAreServed == Spec => WaitersTakeTurns
<1>1. Init => WInv
  BY InitInv DEF Init, NoMissedGrant, QueuesStrict, WaitingInCall, WInv
<1>2. WInv /\ [Next]_vars => WInv'
  BY NextKeepsWaiting
<1>3. WInv => NoMissedGrant /\ WaiterEntryAlive
  BY DEF WInv, IInv
<1>4. WInv /\ [Next]_vars =>
          [\A k \in Keys : \A r \in waiting[k] :
               r \in granted'[k] /\ req[r].type = "EXCLUSIVE" => ahead[r] = {}]_vars
  BY ExclusiveFromHead
<1>5. WInv /\ [Next]_vars =>
          [\A v \in Txns : txnState[v] = "ACTIVE" /\ txnState'[v] = "ABORTING" =>
               pc[v] # "idle" /\ callReq[v] \in waiting[callKey[v]]]_vars
  BY OnlyVictimsAborted, VictimsWait
<1>6. Spec => []WInv
  BY <1>1, <1>2, PTL DEF Spec
<1>7. Spec => ExclusiveInQueueOrder
  BY <1>4, <1>6, PTL DEF Spec, ExclusiveInQueueOrder
<1>8. Spec => VictimIsWaiting
  BY <1>5, <1>6, PTL DEF Spec, VictimIsWaiting
<1>9. Spec => [](NoMissedGrant /\ WaiterEntryAlive)
  BY <1>3, <1>6, PTL
<1> QED BY <1>7, <1>8, <1>9 DEF WaitersTakeTurns
=============================================================================
