-------------------------- MODULE TransactionProofs --------------------------
(***************************************************************************)
(* Proofs about Transaction: for any number of threads, transactions,      *)
(* operations and savepoints a transaction has one outcome, the outcome is *)
(* final, and the operation count describes the operation list. And about  *)
(* Metrics: the counters, the gauge and the timer add up, and so do the    *)
(* points that are stored of them.                                         *)
(***************************************************************************)
EXTENDS Transaction, Metrics, FiniteSetTheorems, SequenceTheorems, NaturalsInduction, WellFoundedInduction, TLAPS

\* A thread between setting an outcome and taking the transaction out of the
\* table works on a finished transaction, alone, and writes its only record.
OutcomeOwner ==
    /\ \A h \in Threads : pc[h] \in {"log", "unlink"} => state[tx[h]] \in Finished
    /\ \A h, g \in Threads :
           /\ pc[h] \in {"log", "unlink"}
           /\ pc[g] \in {"log", "unlink"}
           /\ tx[h] = tx[g]
           => h = g
    /\ \A h \in Threads : pc[h] = "log" => \A i \in 1 .. Len(log) : log[i].txn # tx[h]

\* The invariant that every step preserves.
IInv == TypeOK /\ CountMatchesOperations /\ OneOutcome /\ OutcomeOwner

-----------------------------------------------------------------------------
(* Facts about the operators of the model.                                 *)

\* An operation put at the head of the list makes it one longer.
LEMMA PrependLength ==
    ASSUME NEW S, NEW s \in Seq(S), NEW x \in S
    PROVE  /\ <<x>> \o s \in Seq(S)
           /\ Len(<<x>> \o s) = Len(s) + 1
           /\ (<<x>> \o s)[1] = x
           /\ \A i \in 2 .. Len(<<x>> \o s) : i - 1 \in 1 .. Len(s) /\ (<<x>> \o s)[i] = s[i - 1]
  OBVIOUS

\* What is left of a list after one element is unlinked consists of elements of it.
LEMMA UnlinkRange ==
    ASSUME NEW S, NEW s \in Seq(S), NEW k \in 1 .. Len(s)
    PROVE  LET r == SubSeq(s, 1, k - 1) \o SubSeq(s, k + 1, Len(s))
           IN  /\ r \in Seq(S)
               /\ \A i \in 1 .. Len(r) : \E j \in 1 .. Len(s) : r[i] = s[j]
<1> DEFINE a == SubSeq(s, 1, k - 1)
           b == SubSeq(s, k + 1, Len(s))
           r == a \o b
<1>1. /\ a \in Seq(S) /\ Len(a) = k - 1
      /\ \A i \in 1 .. Len(a) : a[i] = s[i]
  BY SubSeqProperties, k - 1 \in Int, 1 \in Int, \A i \in 1 .. k - 1 : s[i] \in S
<1>2. /\ b \in Seq(S) /\ Len(b) = Len(s) - k
      /\ \A i \in 1 .. Len(b) : b[i] = s[k + i]
  BY SubSeqProperties, k + 1 \in Int, Len(s) \in Int, \A i \in k + 1 .. Len(s) : s[i] \in S
<1> HIDE DEF a, b
<1>3. r \in Seq(S) /\ Len(r) = Len(a) + Len(b)
  BY <1>1, <1>2, ConcatProperties
<1>4. ASSUME NEW i \in 1 .. Len(r)
      PROVE  \E j \in 1 .. Len(s) : r[i] = s[j]
  <2>1. CASE i <= Len(a)
    BY <1>1, <1>2, <2>1
  <2>2. CASE i > Len(a)
    <3>1. r[i] = b[i - Len(a)] /\ i - Len(a) \in 1 .. Len(b)
      BY <1>1, <1>2, <1>3, <2>2
    <3>2. r[i] = s[i + 1] /\ i + 1 \in 1 .. Len(s)
      BY <1>1, <1>2, <1>3, <2>2, <3>1
    <3> QED
      BY <3>2
  <2> QED
    BY <1>1, <1>3, <2>1, <2>2
<1> QED
  BY <1>3, <1>4 DEF a, b

-----------------------------------------------------------------------------
(* Type correctness.                                                       *)

\* The variables of the manager and its transactions have their types.
LEMMA TypeStep ==
    ASSUME TypeOK, OutcomeOwner, Next
    PROVE  TypeOK'
<1> USE TxnAssumption DEF TypeOK
<1>1. ASSUME NEW h \in Threads, NEW t \in Txns, transaction_begin(h, t)
      PROVE  TypeOK'
  BY <1>1 DEF transaction_begin, States
<1>2. ASSUME NEW h \in Threads, NEW t \in Txns, transaction_manager_get_transaction(h, t)
      PROVE  TypeOK'
  BY <1>2 DEF transaction_manager_get_transaction, PCs
<1>3. ASSUME NEW h \in Threads, Call(h)
      PROVE  TypeOK'
  <2> DEFINE t == tx[h]
  <2>0. t \in Txns
    BY <1>3 DEF Call, transaction_insert_document, transaction_update_document,
           transaction_delete_document, AddOperation, transaction_create_savepoint,
           transaction_rollback_to_savepoint, transaction_release_savepoint, Refuse,
           transaction_commit, transaction_rollback, Finish
  <2>1. CASE AddOperation(h)
    <3>1. PICK op \in Ops \ Used : operations' = [operations EXCEPT ![t] = <<op>> \o @]
      BY <2>1 DEF AddOperation
    <3>2. operations' \in [Txns -> Seq(Ops)]
      BY <2>0, <3>1, PrependLength
    <3> QED
      BY <2>0, <2>1, <3>2 DEF AddOperation, Answer, PCs
  <2>2. ASSUME NEW name \in Names, transaction_create_savepoint(h, name)
        PROVE  TypeOK'
    <3> DEFINE sp == Savepoint(name, operations[t], operation_count[t])
    <3>1. sp \in Savepoints
      BY <2>0 DEF Savepoint, Savepoints
    <3>2. savepoints' \in [Txns -> Seq(Savepoints)]
      BY <2>0, <2>2, <3>1, PrependLength DEF transaction_create_savepoint
    <3> QED
      BY <2>0, <2>2, <3>2 DEF transaction_create_savepoint, Answer, PCs
  <2>3. ASSUME NEW name \in Names, transaction_rollback_to_savepoint(h, name)
        PROVE  TypeOK'
    <3>1. PICK i \in 1 .. Len(savepoints[t]) :
             /\ operations' = [operations EXCEPT ![t] = savepoints[t][i].operation]
             /\ operation_count' = [operation_count EXCEPT ![t] = savepoints[t][i].operation_count]
      BY <2>3 DEF transaction_rollback_to_savepoint, CountAt
    <3>2. savepoints[t][i] \in Savepoints
      BY <2>0
    <3>3. savepoints[t][i].operation \in Seq(Ops) /\ savepoints[t][i].operation_count \in Nat
      BY <3>2 DEF Savepoints
    <3> QED
      BY <2>0, <2>3, <3>1, <3>3 DEF transaction_rollback_to_savepoint, Answer, PCs
  <2>4. ASSUME NEW name \in Names, transaction_release_savepoint(h, name)
        PROVE  TypeOK'
    <3>1. PICK i \in 1 .. Len(savepoints[t]) :
             savepoints' = [savepoints EXCEPT ![t] =
                 SubSeq(@, 1, i - 1) \o SubSeq(@, i + 1, Len(@))]
      BY <2>4 DEF transaction_release_savepoint
    <3>2. savepoints[t] \in Seq(Savepoints)
      BY <2>0
    <3>3. SubSeq(savepoints[t], 1, i - 1) \o SubSeq(savepoints[t], i + 1, Len(savepoints[t]))
            \in Seq(Savepoints)
      BY <3>2, UnlinkRange
    <3>4. savepoints' \in [Txns -> Seq(Savepoints)]
      BY <2>0, <3>1, <3>3
    <3> QED
      BY <2>0, <2>4, <3>4 DEF transaction_release_savepoint, Answer, PCs
  <2>5. CASE Refuse(h)
    BY <2>5 DEF Refuse, Answer, PCs
  <2>6. CASE transaction_commit(h) \/ transaction_rollback(h)
    BY <2>0, <2>6 DEF transaction_commit, transaction_rollback, Finish, States, PCs
  <2> QED
    BY <1>3, <2>1, <2>2, <2>3, <2>4, <2>5, <2>6 DEF Call, transaction_insert_document,
       transaction_update_document, transaction_delete_document
<1>4. ASSUME NEW h \in Threads, Complete(h)
      PROVE  TypeOK'
  <2>0. tx[h] \in Txns /\ state[tx[h]] \in Finished
    BY <1>4 DEF Complete, WriteLog, LeaveTable, OutcomeOwner
  <2>1. CASE WriteLog(h)
    BY <2>0, <2>1 DEF WriteLog, PCs
  <2>2. CASE LeaveTable(h)
    BY <2>2 DEF LeaveTable, Answer, PCs, transaction_hash_table_remove
  <2> QED
    BY <1>4, <2>1, <2>2 DEF Complete
<1>5. ASSUME NEW t \in Txns, abort_transaction_for_deadlock(t)
      PROVE  TypeOK'
  BY <1>5 DEF abort_transaction_for_deadlock, States
<1> QED
  BY <1>1, <1>2, <1>3, <1>4, <1>5 DEF Next

-----------------------------------------------------------------------------
(* The operation count.                                                    *)

\* Every savepoint of a transaction agrees with itself.
SavepointAgrees(sp) == sp.operation_count = Len(sp.operation)

\* The count of a list that grows by one cell or goes back to a savepoint
\* follows it, and every savepoint is taken from such a list.
LEMMA CountStep ==
    ASSUME TypeOK, CountMatchesOperations, Next
    PROVE  CountMatchesOperations'
<1> USE DEF TypeOK
<1>1. CASE UNCHANGED <<operations, operation_count, savepoints>>
  BY <1>1 DEF CountMatchesOperations
<1>2. ASSUME NEW h \in Threads, tx[h] \in Txns, AddOperation(h)
      PROVE  CountMatchesOperations'
  <2> DEFINE t == tx[h]
  <2>1. PICK op \in Ops \ Used : operations' = [operations EXCEPT ![t] = <<op>> \o @]
    BY <1>2 DEF AddOperation
  <2>2. /\ operation_count' = [operation_count EXCEPT ![t] = @ + 1]
        /\ UNCHANGED savepoints
    BY <1>2 DEF AddOperation
  <2>3. Len(<<op>> \o operations[t]) = Len(operations[t]) + 1
    BY <1>2, PrependLength
  <2> QED
    BY <1>2, <2>1, <2>2, <2>3 DEF CountMatchesOperations
<1>3. ASSUME NEW h \in Threads, tx[h] \in Txns, NEW name \in Names,
             transaction_create_savepoint(h, name)
      PROVE  CountMatchesOperations'
  <2> DEFINE t  == tx[h]
             sp == Savepoint(name, operations[t], operation_count[t])
  <2>1. /\ savepoints' = [savepoints EXCEPT ![t] = <<sp>> \o @]
        /\ UNCHANGED <<operations, operation_count>>
    BY <1>3 DEF transaction_create_savepoint
  <2>2. SavepointAgrees(sp)
    BY <1>3 DEF CountMatchesOperations, Savepoint, SavepointAgrees
  <2>3. sp \in Savepoints
    BY <1>3 DEF Savepoint, Savepoints
  <2>4. \A i \in 1 .. Len(savepoints[t]) : SavepointAgrees(savepoints[t][i])
    BY <1>3 DEF CountMatchesOperations, SavepointAgrees
  <2> HIDE DEF sp
  <2>5. \A i \in 1 .. Len(<<sp>> \o savepoints[t]) : SavepointAgrees((<<sp>> \o savepoints[t])[i])
    <3> SUFFICES ASSUME NEW i \in 1 .. Len(<<sp>> \o savepoints[t])
                 PROVE  SavepointAgrees((<<sp>> \o savepoints[t])[i])
      OBVIOUS
    <3>1. savepoints[t] \in Seq(Savepoints)
      BY <1>3
    <3>2. CASE i = 1
      BY <2>2, <2>3, <3>1, <3>2, PrependLength
    <3>3. CASE i # 1
      <4>1. i \in 2 .. Len(<<sp>> \o savepoints[t])
        BY <2>3, <3>1, <3>3, PrependLength
      <4>2. i - 1 \in 1 .. Len(savepoints[t]) /\ (<<sp>> \o savepoints[t])[i] = savepoints[t][i - 1]
        BY <2>3, <3>1, <4>1, PrependLength
      <4> QED
        BY <2>4, <4>2
    <3> QED
      BY <3>2, <3>3
  <2> QED
    BY <1>3, <2>1, <2>5 DEF CountMatchesOperations, SavepointAgrees
<1>4. ASSUME NEW h \in Threads, tx[h] \in Txns, NEW name \in Names,
             transaction_rollback_to_savepoint(h, name)
      PROVE  CountMatchesOperations'
  <2>1. PICK i \in 1 .. Len(savepoints[tx[h]]) :
           /\ operations' = [operations EXCEPT ![tx[h]] = savepoints[tx[h]][i].operation]
           /\ operation_count' = [operation_count EXCEPT ![tx[h]] = savepoints[tx[h]][i].operation_count]
    BY <1>4 DEF transaction_rollback_to_savepoint, CountAt
  <2>2. UNCHANGED savepoints
    BY <1>4 DEF transaction_rollback_to_savepoint
  <2> QED
    BY <1>4, <2>1, <2>2 DEF CountMatchesOperations
<1>5. ASSUME NEW h \in Threads, tx[h] \in Txns, NEW name \in Names,
             transaction_release_savepoint(h, name)
      PROVE  CountMatchesOperations'
  <2> DEFINE t == tx[h]
             r(i) == SubSeq(savepoints[t], 1, i - 1) \o SubSeq(savepoints[t], i + 1, Len(savepoints[t]))
  <2>1. PICK k \in 1 .. Len(savepoints[t]) : savepoints' = [savepoints EXCEPT ![t] = r(k)]
    BY <1>5 DEF transaction_release_savepoint
  <2>2. UNCHANGED <<operations, operation_count>>
    BY <1>5 DEF transaction_release_savepoint
  <2>3. \A i \in 1 .. Len(r(k)) : \E j \in 1 .. Len(savepoints[t]) : r(k)[i] = savepoints[t][j]
    BY <1>5, UnlinkRange, savepoints[t] \in Seq(Savepoints)
  <2> HIDE DEF r
  <2>4. SUFFICES ASSUME NEW u \in Txns
                 PROVE  /\ operation_count[u] = Len(operations[u])
                        /\ \A i \in 1 .. Len(savepoints'[u]) :
                               savepoints'[u][i].operation_count = Len(savepoints'[u][i].operation)
    BY <2>2 DEF CountMatchesOperations
  <2>5. operation_count[u] = Len(operations[u])
    BY DEF CountMatchesOperations
  <2>6. CASE u = t
    BY <1>5, <2>1, <2>6, <2>3, <2>5 DEF CountMatchesOperations
  <2>7. CASE u # t
    BY <2>1, <2>7, <2>5 DEF CountMatchesOperations
  <2> QED
    BY <2>6, <2>7
<1>6. ASSUME NEW h \in Threads, Call(h)
      PROVE  CountMatchesOperations'
  <2>1. tx[h] \in Txns
    BY <1>6 DEF Call, transaction_insert_document, transaction_update_document,
           transaction_delete_document, AddOperation, transaction_create_savepoint,
           transaction_rollback_to_savepoint, transaction_release_savepoint, Refuse,
           transaction_commit, transaction_rollback, Finish
  <2>2. CASE Refuse(h) \/ transaction_commit(h) \/ transaction_rollback(h)
    BY <1>1, <2>2 DEF Refuse, transaction_commit, transaction_rollback, Finish
  <2> QED
    BY <1>2, <1>3, <1>4, <1>5, <1>6, <2>1, <2>2 DEF Call, transaction_insert_document,
       transaction_update_document, transaction_delete_document
<1>7. CASE \E h \in Threads : Complete(h)
  BY <1>1, <1>7 DEF Complete, WriteLog, LeaveTable
<1>8. CASE \E h \in Threads, t \in Txns :
             transaction_begin(h, t) \/ transaction_manager_get_transaction(h, t)
  BY <1>1, <1>8 DEF transaction_begin, transaction_manager_get_transaction
<1>9. CASE \E t \in Txns : abort_transaction_for_deadlock(t)
  BY <1>1, <1>9 DEF abort_transaction_for_deadlock
<1> QED
  BY <1>6, <1>7, <1>8, <1>9 DEF Next
-----------------------------------------------------------------------------
(* The outcome.                                                            *)

\* A step that sets no outcome, writes no record and moves no thread into the
\* part of commit and rollback after the transaction's lock is released.
Quiet == /\ \A t \in Txns : state[t] \in Finished => state'[t] = state[t]
         /\ log' = log
         /\ \A h \in Threads : pc'[h] \in {"log", "unlink"} => pc'[h] = pc[h] /\ tx'[h] = tx[h]

\* A log record names a transaction and an outcome.
LEMMA LogTyped ==
    ASSUME TypeOK
    PROVE  \A i \in 1 .. Len(log) : log[i].txn \in Txns /\ log[i].state \in Finished
<1>1. log \in Seq([txn : Txns, state : Finished])
  BY DEF TypeOK
<1>2. \A i \in 1 .. Len(log) : log[i] \in [txn : Txns, state : Finished]
  BY <1>1, ElementOfSeq
<1> QED
  BY <1>2

\* Quiet steps keep the two invariants about outcomes.
LEMMA QuietStep ==
    ASSUME TypeOK, OneOutcome, OutcomeOwner, Quiet
    PROVE  OneOutcome' /\ OutcomeOwner'
<1>1. \A h \in Threads : pc[h] \in {"log", "unlink"} => tx[h] \in Txns
  BY DEF TypeOK
<1>2. \A i \in 1 .. Len(log) : log[i].txn \in Txns /\ log[i].state \in Finished
  BY LogTyped
<1>3. OneOutcome'
  BY <1>2 DEF OneOutcome, Quiet
<1>4. OutcomeOwner'
  BY <1>1 DEF OutcomeOwner, Quiet
<1> QED
  BY <1>3, <1>4

\* The thread that ends a transaction becomes the only owner of its outcome:
\* an earlier owner would have found, or left, the transaction finished.
LEMMA FinishStep ==
    ASSUME TypeOK, OneOutcome, OutcomeOwner,
           NEW h \in Threads, NEW outcome \in Finished, Finish(h, outcome)
    PROVE  OneOutcome' /\ OutcomeOwner'
<1> DEFINE t == tx[h]
<1>1. t \in Txns /\ state[t] \notin Finished
  BY DEF TypeOK, Finish, CanFinish
<1>2. /\ state' = [state EXCEPT ![t] = outcome]
      /\ pc' = [pc EXCEPT ![h] = "log"]
      /\ UNCHANGED <<log, tx>>
  BY DEF Finish
<1>3. \A i \in 1 .. Len(log) : log[i].txn \in Txns /\ log[i].state \in Finished
  BY LogTyped
<1>4. \A i \in 1 .. Len(log) : log[i].txn # t
  BY <1>1, <1>3 DEF OneOutcome
<1>5. \A g \in Threads : pc[g] \in {"log", "unlink"} => tx[g] \in Txns /\ tx[g] # t
  BY <1>1 DEF OutcomeOwner, TypeOK
<1>6. OneOutcome'
  BY <1>1, <1>2, <1>3, <1>4 DEF OneOutcome, TypeOK
<1>7. \A g \in Threads : pc'[g] \in {"log", "unlink"} => state'[tx'[g]] \in Finished
  BY <1>1, <1>2, <1>5 DEF OutcomeOwner, TypeOK
<1>8. \A f, g \in Threads : /\ pc'[f] \in {"log", "unlink"}
                            /\ pc'[g] \in {"log", "unlink"}
                            /\ tx'[f] = tx'[g]
                            => f = g
  BY <1>2, <1>5 DEF OutcomeOwner, TypeOK
<1>9. \A g \in Threads : pc'[g] = "log" => \A i \in 1 .. Len(log') : log'[i].txn # tx'[g]
  BY <1>2, <1>4 DEF OutcomeOwner, TypeOK
<1> QED
  BY <1>6, <1>7, <1>8, <1>9 DEF OutcomeOwner

\* The owner's record is the first of its transaction and tells the outcome.
LEMMA WriteLogStep ==
    ASSUME TypeOK, OneOutcome, OutcomeOwner, NEW h \in Threads, WriteLog(h)
    PROVE  OneOutcome' /\ OutcomeOwner'
<1> DEFINE r == [txn |-> tx[h], state |-> state[tx[h]]]
           n == Len(log)
<1>1. pc[h] = "log" /\ tx[h] \in Txns
  BY DEF TypeOK, WriteLog
<1>2. log' = Append(log, r) /\ pc' = [pc EXCEPT ![h] = "unlink"] /\ UNCHANGED <<state, tx>>
  BY DEF WriteLog
<1>3. log \in Seq([txn : Txns, state : Finished]) /\ n \in Nat
  BY DEF TypeOK
<1> HIDE DEF r, n
<1>4. /\ Len(log') = n + 1
      /\ log'[n + 1] = r
      /\ \A i \in 1 .. n : log'[i] = log[i]
  BY <1>2, <1>3 DEF n
<1>5. r.txn = tx[h] /\ r.state = state[tx[h]]
  BY DEF r
<1>6. \A i \in 1 .. n : log[i].txn # tx[h]
  BY <1>1 DEF OutcomeOwner, n
<1>7. OneOutcome'
  BY <1>2, <1>3, <1>4, <1>5, <1>6 DEF OneOutcome, n
<1>8. \A g \in Threads : pc'[g] \in {"log", "unlink"} => pc[g] \in {"log", "unlink"}
  BY <1>1, <1>2 DEF TypeOK
<1>9. ASSUME NEW g \in Threads, pc'[g] = "log", NEW i \in 1 .. Len(log')
      PROVE  log'[i].txn # tx'[g]
  BY <1>2, <1>9, <1>1, <1>3, <1>4, <1>5 DEF TypeOK, OutcomeOwner, n
<1> QED
  BY <1>2, <1>7, <1>8, <1>9 DEF OutcomeOwner

\* Every step keeps one outcome per transaction.
LEMMA OutcomeStep ==
    ASSUME TypeOK, OneOutcome, OutcomeOwner, Next
    PROVE  OneOutcome' /\ OutcomeOwner'
<1> USE DEF TypeOK
<1>1. ASSUME NEW h \in Threads, NEW t \in Txns,
             transaction_begin(h, t) \/ transaction_manager_get_transaction(h, t)
      PROVE  Quiet
  BY <1>1 DEF transaction_begin, transaction_manager_get_transaction, Quiet, Finished
<1>2. ASSUME NEW t \in Txns, abort_transaction_for_deadlock(t)
      PROVE  Quiet
  BY <1>2 DEF abort_transaction_for_deadlock, Quiet, Finished
<1>3. ASSUME NEW h \in Threads, LeaveTable(h)
      PROVE  Quiet
  BY <1>3 DEF LeaveTable, Answer, Quiet
<1>4. ASSUME NEW h \in Threads, Call(h)
      PROVE  Quiet \/ \E outcome \in Finished : Finish(h, outcome)
  <2>1. CASE AddOperation(h)
    BY <2>1 DEF AddOperation, Answer, Quiet
  <2>2. ASSUME NEW name \in Names,
               \/ transaction_create_savepoint(h, name)
               \/ transaction_rollback_to_savepoint(h, name)
               \/ transaction_release_savepoint(h, name)
        PROVE  Quiet
    BY <2>2 DEF transaction_create_savepoint, transaction_rollback_to_savepoint,
                transaction_release_savepoint, Answer, Quiet
  <2>3. CASE Refuse(h)
    BY <2>3 DEF Refuse, Answer, Quiet
  <2>4. CASE transaction_commit(h) \/ transaction_rollback(h)
    BY <2>4 DEF transaction_commit, transaction_rollback, Finished
  <2> QED
    BY <1>4, <2>1, <2>2, <2>3, <2>4 DEF Call, transaction_insert_document,
       transaction_update_document, transaction_delete_document
<1> USE DEF Next, Complete
<1>5. Quiet \/ \E h \in Threads : WriteLog(h) \/ \E outcome \in Finished : Finish(h, outcome)
  BY <1>1, <1>2, <1>3, <1>4
<1> QED
  BY <1>5, QuietStep, FinishStep, WriteLogStep

-----------------------------------------------------------------------------
(* Theorems.                                                               *)

\* The invariant holds in every reachable state, for every number of threads,
\* transactions, operations and savepoint names.
THEOREM InductiveInvariant == Spec => []IInv
<1>1. Init => IInv
  BY TxnAssumption DEF Init, IInv, TypeOK, States, PCs, CountMatchesOperations, OneOutcome,
     OutcomeOwner
<1>2. IInv /\ [Next]_vars => IInv'
  <2> SUFFICES ASSUME IInv, [Next]_vars PROVE IInv'
    OBVIOUS
  <2>1. CASE Next
    BY <2>1, TypeStep, CountStep, OutcomeStep DEF IInv
  <2>2. CASE UNCHANGED vars
    BY <2>2 DEF vars, IInv, TypeOK, CountMatchesOperations, OneOutcome, OutcomeOwner
  <2> QED
    BY <2>1, <2>2
<1> QED
  BY <1>1, <1>2, PTL DEF Spec

\* Every variable keeps its type.
THEOREM TypeCorrect == Spec => []TypeOK
<1>1. IInv => TypeOK
  BY DEF IInv
<1> QED
  BY <1>1, InductiveInvariant, PTL

\* operation_count is the length of the operation list of every transaction,
\* whatever savepoints were created, released and rolled back to.
THEOREM OperationCountCorrect == Spec => []CountMatchesOperations
<1>1. IInv => CountMatchesOperations
  BY DEF IInv
<1> QED
  BY <1>1, InductiveInvariant, PTL

\* However many threads commit and roll back a transaction, the log gets at most
\* one record of it, with the state it ended in.
THEOREM SingleOutcome == Spec => []OneOutcome
<1>1. IInv => OneOutcome
  BY DEF IInv
<1> QED
  BY <1>1, InductiveInvariant, PTL

\* A finished transaction keeps its state and its operations.
THEOREM OutcomeIsFinal == Spec => FinishedIsFinal
<1> DEFINE Final == \A t \in Txns : state[t] \in Finished =>
                        state'[t] = state[t] /\ operations'[t] = operations[t]
<1>1. ASSUME TypeOK, Next
      PROVE  Final
  <2> USE DEF TypeOK, Finished
  <2>0. CASE UNCHANGED <<state, operations>>
    BY <2>0
  <2>1. ASSUME NEW h \in Threads, NEW t \in Txns,
               transaction_begin(h, t) \/ transaction_manager_get_transaction(h, t)
        PROVE  Final
    <3>1. CASE transaction_begin(h, t)
      BY <3>1 DEF transaction_begin
    <3> QED
      BY <2>0, <2>1, <3>1 DEF transaction_manager_get_transaction
  <2>2. ASSUME NEW h \in Threads, Call(h)
        PROVE  Final
    <3>1. CASE AddOperation(h)
      BY <3>1 DEF AddOperation, IsActive
    <3>2. ASSUME NEW name \in Names, transaction_rollback_to_savepoint(h, name)
          PROVE  Final
      BY <3>2 DEF transaction_rollback_to_savepoint, IsActive
    <3>3. ASSUME NEW name \in Names,
                 \/ transaction_create_savepoint(h, name)
                 \/ transaction_release_savepoint(h, name)
          PROVE  Final
      BY <2>0, <3>3 DEF transaction_create_savepoint, transaction_release_savepoint
    <3>4. CASE Refuse(h)
      BY <2>0, <3>4 DEF Refuse
    <3>5. CASE transaction_commit(h) \/ transaction_rollback(h)
      <4>1. state[tx[h]] \notin Finished /\ operations' = operations
        BY <3>5 DEF transaction_commit, transaction_rollback, Finish, CanFinish
      <4>2. \A t \in Txns : t # tx[h] => state'[t] = state[t]
        <5>1. \E outcome : state' = [state EXCEPT ![tx[h]] = outcome]
          BY <3>5 DEF transaction_commit, transaction_rollback, Finish
        <5> QED
          BY <5>1
      <4> QED
        BY <4>1, <4>2
    <3> QED
      BY <2>2, <3>1, <3>2, <3>3, <3>4, <3>5 DEF Call, transaction_insert_document,
         transaction_update_document, transaction_delete_document
  <2>3. ASSUME NEW h \in Threads, Complete(h)
        PROVE  Final
    BY <2>3 DEF Complete, WriteLog, LeaveTable
  <2>4. ASSUME NEW t \in Txns, abort_transaction_for_deadlock(t)
        PROVE  Final
    BY <2>4 DEF abort_transaction_for_deadlock
  <2> QED
    BY <1>1, <2>1, <2>2, <2>3, <2>4 DEF Next
<1>2. TypeOK /\ [Next]_vars => [Final]_vars
  BY <1>1
<1> QED
  BY <1>2, TypeCorrect, PTL DEF Spec, FinishedIsFinal

\* Transactions are sound at every moment: types, one outcome each, and a count that
\* agrees with the operations.
THEOREM TransactionsAreSound == Spec => []TransactionsSound
<1>1. IInv => TransactionsSound
  BY DEF IInv, TransactionsSound
<1> QED
  BY <1>1, InductiveInvariant, PTL

-----------------------------------------------------------------------------
(* Metrics: what connections count.                                        *)

MetricRecs == [requests : Nat, errors : Nat, ops : Nat, reads : Nat, writes : Nat, active : Nat,
               count : Nat, sum : Nat, min : Nat, max : Nat]
Stages     == {"idle", "reading", "dispatch", "answered", "handler", "reads", "writes", "ended",
               "sum", "extremes", "leaving"}
StageRecs  == [at : Stages, took : Nat]

\* How many connections are at one of the stages S.
ConnectionsAt(st, S) == Cardinality({t \in MThreads : st[t].at \in S})

CountTypes ==
    /\ metric \in MetricRecs
    /\ stage \in [MThreads -> StageRecs]
    /\ tally \in [connections : Nat, dispatched : Nat, leaked : Nat]
    /\ observing = {t \in MThreads : stage[t].at \in {"sum", "extremes"}}
    /\ \A t, u \in observing : t = u
    /\ \A t \in observing : stage[t].took \in Durations

\* Each connection is in the gauge while it is served, its first request may still be
\* counted while it reads, and an operation is counted once its kind is.
Gauged ==
    /\ metric.active = ConnectionsAt(stage, Stages \ {"idle"}) + tally.leaked
    /\ tally.dispatched <= metric.requests
    /\ metric.requests + ConnectionsAt(stage, {"reading"}) <= tally.dispatched + tally.connections
    /\ metric.ops + ConnectionsAt(stage, {"reads", "writes"}) = metric.reads + metric.writes

\* n durations with the sum s lie between lo and hi.
Between(n, s, lo, hi) ==
    \/ n = 0 /\ s = 0 /\ lo = Infinite /\ hi = 0
    \/ n > 0 /\ lo < Infinite /\ n * lo <= s /\ s <= n * hi

\* The duration a thread is adding is in the count first, then in the sum.
Timed ==
    /\ observing = {} => Between(metric.count, metric.sum, metric.min, metric.max)
    /\ \A t \in observing :
          /\ metric.count > 0
          /\ stage[t].at = "sum" => Between(metric.count - 1, metric.sum, metric.min, metric.max)
          /\ stage[t].at = "extremes" =>
                metric.sum >= stage[t].took /\ Between(metric.count - 1, metric.sum - stage[t].took, metric.min, metric.max)

CountInv == CountTypes /\ Gauged /\ Timed

LEMMA CountOf ==
    ASSUME NEW st, NEW S
    PROVE  ConnectionsAt(st, S) \in Nat
  BY MetricsAssumption, FS_Subset, FS_CardinalityType DEF ConnectionsAt

LEMMA CountMoves ==
    ASSUME NEW st, NEW su, NEW t \in MThreads, NEW S, \A u \in MThreads : u # t => su[u].at = st[u].at
    PROVE  /\ ConnectionsAt(st, S) \in Nat
           /\ ConnectionsAt(su, S) = ConnectionsAt(st, S) + (IF su[t].at \in S THEN 1 ELSE 0) - (IF st[t].at \in S THEN 1 ELSE 0)
<1> DEFINE A == {u \in MThreads : st[u].at \in S}
           B == {u \in MThreads : su[u].at \in S}
<1>1. IsFiniteSet(A) /\ Cardinality(A) \in Nat
  BY MetricsAssumption, FS_Subset, FS_CardinalityType
<1>2. ASSUME su[t].at \in S, st[t].at \notin S PROVE Cardinality(B) = Cardinality(A) + 1
  <2>1. B = A \cup {t} /\ t \notin A
    BY <1>2
  <2> QED BY <2>1, <1>1, FS_AddElement
<1>3. ASSUME su[t].at \notin S, st[t].at \in S PROVE Cardinality(B) = Cardinality(A) - 1
  <2>1. B = A \ {t} /\ t \in A
    BY <1>3
  <2> QED BY <2>1, <1>1, FS_RemoveElement
<1>4. ASSUME su[t].at \in S <=> st[t].at \in S PROVE Cardinality(B) = Cardinality(A)
  BY <1>4
<1> QED BY <1>1, <1>2, <1>3, <1>4 DEF ConnectionsAt

\* The same for the counts that matter.
LEMMA CountsMove ==
    ASSUME NEW st, NEW su, NEW t \in MThreads, \A u \in MThreads : u # t => su[u].at = st[u].at,
           st[t].at \in Stages, su[t].at \in Stages
    PROVE  /\ ConnectionsAt(st, Stages \ {"idle"}) \in Nat /\ ConnectionsAt(st, {"reading"}) \in Nat /\ ConnectionsAt(st, {"reads", "writes"}) \in Nat
           /\ ConnectionsAt(su, Stages \ {"idle"}) = ConnectionsAt(st, Stages \ {"idle"})
                  + (IF su[t].at # "idle" THEN 1 ELSE 0) - (IF st[t].at # "idle" THEN 1 ELSE 0)
           /\ ConnectionsAt(su, {"reading"}) = ConnectionsAt(st, {"reading"})
                  + (IF su[t].at = "reading" THEN 1 ELSE 0) - (IF st[t].at = "reading" THEN 1 ELSE 0)
           /\ ConnectionsAt(su, {"reads", "writes"}) = ConnectionsAt(st, {"reads", "writes"})
                  + (IF su[t].at \in {"reads", "writes"} THEN 1 ELSE 0) - (IF st[t].at \in {"reads", "writes"} THEN 1 ELSE 0)
<1>1. ASSUME NEW S
      PROVE  /\ ConnectionsAt(st, S) \in Nat
             /\ ConnectionsAt(su, S) = ConnectionsAt(st, S) + (IF su[t].at \in S THEN 1 ELSE 0) - (IF st[t].at \in S THEN 1 ELSE 0)
  BY CountMoves
<1>2. /\ ConnectionsAt(st, Stages \ {"idle"}) \in Nat
      /\ ConnectionsAt(su, Stages \ {"idle"}) = ConnectionsAt(st, Stages \ {"idle"})
            + (IF su[t].at \in Stages \ {"idle"} THEN 1 ELSE 0) - (IF st[t].at \in Stages \ {"idle"} THEN 1 ELSE 0)
  BY <1>1
<1>3. /\ ConnectionsAt(st, {"reading"}) \in Nat
      /\ ConnectionsAt(su, {"reading"}) = ConnectionsAt(st, {"reading"})
            + (IF su[t].at \in {"reading"} THEN 1 ELSE 0) - (IF st[t].at \in {"reading"} THEN 1 ELSE 0)
  BY <1>1
<1>4. /\ ConnectionsAt(st, {"reads", "writes"}) \in Nat
      /\ ConnectionsAt(su, {"reads", "writes"}) = ConnectionsAt(st, {"reads", "writes"})
            + (IF su[t].at \in {"reads", "writes"} THEN 1 ELSE 0) - (IF st[t].at \in {"reads", "writes"} THEN 1 ELSE 0)
  BY <1>1
<1>5. (su[t].at \in Stages \ {"idle"} <=> su[t].at # "idle") /\ (st[t].at \in Stages \ {"idle"} <=> st[t].at # "idle")
  OBVIOUS
<1> QED BY <1>2, <1>3, <1>4, <1>5

\* One duration more.
LEMMA OneMore ==
    ASSUME NEW n \in Nat, NEW s \in Nat, NEW lo \in Nat, NEW hi \in Nat, NEW d \in Durations, Between(n, s, lo, hi)
    PROVE  Between(n + 1, s + d, IF d < lo THEN d ELSE lo, IF d > hi THEN d ELSE hi)
<1> DEFINE l == IF d < lo THEN d ELSE lo
           h == IF d > hi THEN d ELSE hi
<1>1. d \in Nat /\ d < Infinite /\ Infinite \in Nat
  BY MetricsAssumption
<1>2. l \in Nat /\ h \in Nat /\ l <= d /\ d <= h /\ l < Infinite /\ l <= lo /\ hi <= h
  BY <1>1
<1> HIDE DEF l, h
<1>3. (n + 1) * l = n * l + l /\ (n + 1) * h = n * h + h /\ n * l \in Nat /\ n * h \in Nat
  BY <1>2
<1>4. n * l <= s /\ s <= n * h
  BY <1>2 DEF Between
<1>5. Between(n + 1, s + d, l, h)
  BY <1>1, <1>2, <1>3, <1>4 DEF Between
<1> QED BY <1>5 DEF l, h

\* What a thread's next stage does to the counts of threads.
LEMMA StageMoves ==
    ASSUME CountTypes, NEW t \in MThreads, NEW to \in Stages, GoTo(t, to)
    PROVE  /\ stage' \in [MThreads -> StageRecs]
           /\ stage'[t].at = to /\ stage'[t].took = stage[t].took
           /\ \A u \in MThreads : u # t => stage'[u] = stage[u]
  BY DEF CountTypes, GoTo, StageRecs

LEMMA StageCounts ==
    ASSUME CountTypes, NEW t \in MThreads, NEW to \in Stages, GoTo(t, to)
    PROVE  /\ ConnectionsAt(stage, Stages \ {"idle"}) \in Nat /\ ConnectionsAt(stage, {"reading"}) \in Nat /\ ConnectionsAt(stage, {"reads", "writes"}) \in Nat
           /\ ConnectionsAt(stage', Stages \ {"idle"}) = ConnectionsAt(stage, Stages \ {"idle"})
                  + (IF stage'[t].at # "idle" THEN 1 ELSE 0) - (IF stage[t].at # "idle" THEN 1 ELSE 0)
           /\ ConnectionsAt(stage', {"reading"}) = ConnectionsAt(stage, {"reading"})
                  + (IF stage'[t].at = "reading" THEN 1 ELSE 0) - (IF stage[t].at = "reading" THEN 1 ELSE 0)
           /\ ConnectionsAt(stage', {"reads", "writes"}) = ConnectionsAt(stage, {"reads", "writes"})
                  + (IF stage'[t].at \in {"reads", "writes"} THEN 1 ELSE 0) - (IF stage[t].at \in {"reads", "writes"} THEN 1 ELSE 0)
<1>1. /\ stage'[t].at = to
      /\ \A u \in MThreads : u # t => stage'[u].at = stage[u].at
  BY StageMoves
<1>2. stage[t].at \in Stages /\ stage'[t].at \in Stages
  BY <1>1 DEF CountTypes, StageRecs
<1> QED BY <1>1, <1>2, CountsMove

\* Steps outside the timer: what is asked of them is that they count what they do.
LEMMA PlainStep ==
    ASSUME CountInv, NEW t \in MThreads, NEW to \in Stages \ {"sum", "extremes"}, GoTo(t, to),
           stage[t].at \notin {"sum", "extremes"}, observing' = observing,
           metric' \in MetricRecs, tally' \in [connections : Nat, dispatched : Nat, leaked : Nat],
           metric'.count = metric.count, metric'.sum = metric.sum, metric'.min = metric.min, metric'.max = metric.max,
           metric'.active + (IF stage[t].at # "idle" THEN 1 ELSE 0) + tally.leaked
               = metric.active + (IF to # "idle" THEN 1 ELSE 0) + tally'.leaked,
           tally'.dispatched - tally.dispatched \in 0 .. 1, tally'.connections >= tally.connections,
           tally'.dispatched - tally.dispatched <= metric'.requests - metric.requests,
           metric'.requests + (IF to = "reading" THEN 1 ELSE 0) + tally.dispatched + tally.connections
               <= metric.requests + (IF stage[t].at = "reading" THEN 1 ELSE 0) + tally'.dispatched + tally'.connections,
           metric'.ops + (IF to \in {"reads", "writes"} THEN 1 ELSE 0) + metric.reads + metric.writes
               = metric.ops + (IF stage[t].at \in {"reads", "writes"} THEN 1 ELSE 0) + metric'.reads + metric'.writes
    PROVE  CountInv'
<1>1. /\ stage' \in [MThreads -> StageRecs] /\ stage'[t].at = to
      /\ \A u \in MThreads : u # t => stage'[u] = stage[u]
  BY StageMoves DEF CountInv
<1>2. stage[t].at \in Stages /\ \A u \in MThreads : u # t => stage'[u].at = stage[u].at
  BY <1>1 DEF CountInv, CountTypes, StageRecs
<1>3. observing' = {u \in MThreads : stage'[u].at \in {"sum", "extremes"}} /\ \A u \in observing : u # t
  BY <1>1 DEF CountInv, CountTypes
<1>4. CountTypes'
  BY <1>1, <1>3 DEF CountInv, CountTypes
<1>5. Timed'
  BY <1>1, <1>3 DEF CountInv, CountTypes, Timed
<1>6. Gauged'
  <2> DEFINE g == ConnectionsAt(stage, Stages \ {"idle"})
             h == ConnectionsAt(stage', Stages \ {"idle"})
             r == ConnectionsAt(stage, {"reading"})
             q == ConnectionsAt(stage', {"reading"})
             o == ConnectionsAt(stage, {"reads", "writes"})
             p == ConnectionsAt(stage', {"reads", "writes"})
  <2>a. /\ ConnectionsAt(stage, Stages \ {"idle"}) \in Nat /\ ConnectionsAt(stage, {"reading"}) \in Nat /\ ConnectionsAt(stage, {"reads", "writes"}) \in Nat
        /\ ConnectionsAt(stage', Stages \ {"idle"}) = ConnectionsAt(stage, Stages \ {"idle"})
               + (IF stage'[t].at # "idle" THEN 1 ELSE 0) - (IF stage[t].at # "idle" THEN 1 ELSE 0)
        /\ ConnectionsAt(stage', {"reading"}) = ConnectionsAt(stage, {"reading"})
               + (IF stage'[t].at = "reading" THEN 1 ELSE 0) - (IF stage[t].at = "reading" THEN 1 ELSE 0)
        /\ ConnectionsAt(stage', {"reads", "writes"}) = ConnectionsAt(stage, {"reads", "writes"})
               + (IF stage'[t].at \in {"reads", "writes"} THEN 1 ELSE 0) - (IF stage[t].at \in {"reads", "writes"} THEN 1 ELSE 0)
    BY StageCounts DEF CountInv
  <2>1. g \in Nat /\ h = g + (IF to # "idle" THEN 1 ELSE 0) - (IF stage[t].at # "idle" THEN 1 ELSE 0)
    BY <1>1, <2>a
  <2>2. r \in Nat /\ q = r + (IF to = "reading" THEN 1 ELSE 0) - (IF stage[t].at = "reading" THEN 1 ELSE 0)
    BY <1>1, <2>a
  <2>3. o \in Nat /\ p = o + (IF to \in {"reads", "writes"} THEN 1 ELSE 0) - (IF stage[t].at \in {"reads", "writes"} THEN 1 ELSE 0)
    BY <1>1, <2>a
  <2>4. /\ metric.active = g + tally.leaked /\ tally.dispatched <= metric.requests
        /\ metric.requests + r <= tally.dispatched + tally.connections
        /\ metric.ops + o = metric.reads + metric.writes
    BY DEF CountInv, Gauged
  <2>5. metric \in MetricRecs /\ tally \in [connections : Nat, dispatched : Nat, leaked : Nat]
    BY DEF CountInv, CountTypes
  <2> HIDE DEF g, h, r, q, o, p
  <2>6. metric'.active = h + tally'.leaked
    BY <2>1, <2>4, <2>5 DEF MetricRecs
  <2>7. tally'.dispatched <= metric'.requests
    BY <2>4, <2>5 DEF MetricRecs
  <2>8. metric'.requests + q <= tally'.dispatched + tally'.connections
    BY <2>2, <2>4, <2>5 DEF MetricRecs
  <2>9. metric'.ops + p = metric'.reads + metric'.writes
    BY <2>3, <2>4, <2>5 DEF MetricRecs
  <2> QED BY <2>6, <2>7, <2>8, <2>9 DEF Gauged, h, q, p
<1> QED BY <1>4, <1>5, <1>6 DEF CountInv

\* Under the timer's mutex: the counts of threads are those of before.
LEMMA TimerStep ==
    ASSUME CountInv, NEW t \in MThreads, stage' \in [MThreads -> StageRecs],
           \A u \in MThreads : u # t => stage'[u] = stage[u],
           stage[t].at \in {"ended", "sum", "extremes"}, stage'[t].at \in {"sum", "extremes", "leaving"},
           metric' \in MetricRecs, tally' = tally,
           metric'.active = metric.active, metric'.requests = metric.requests,
           metric'.ops = metric.ops, metric'.reads = metric.reads, metric'.writes = metric.writes
    PROVE  Gauged'
  BY CountsMove DEF Stages, CountInv, Gauged

\* The steps of a connection.
ConnStep(t) ==
    \/ handle_client(t) \/ fcntl_fails(t) \/ ReadRequest(t) \/ api_dispatch_request(t) \/ Handler(t)
    \/ CountOperation(t) \/ keep_alive(t) \/ metrics_timer_stop(t) \/ metrics_timer_observe(t) \/ metrics_gauge_dec(t)

LEMMA ConnCounts ==
    ASSUME CountInv, NEW t \in MThreads, ConnStep(t)
    PROVE  CountInv'
<1> USE DEF Stages
<1>0. /\ metric \in MetricRecs /\ tally \in [connections : Nat, dispatched : Nat, leaked : Nat]
      /\ stage \in [MThreads -> StageRecs] /\ stage[t] \in StageRecs
  BY DEF CountInv, CountTypes
<1>1. CASE handle_client(t)
  BY <1>0, <1>1, PlainStep DEF handle_client, Serving, Add, MetricRecs
<1>2. CASE fcntl_fails(t)
  BY <1>0, <1>2, PlainStep DEF fcntl_fails, Serving, MetricRecs
<1>3. CASE ReadRequest(t)
  BY <1>0, <1>3, PlainStep DEF ReadRequest, Serving, MetricRecs, Add
<1>4. CASE api_dispatch_request(t)
  BY <1>0, <1>4, PlainStep DEF api_dispatch_request, Serving, MetricRecs, Add
<1>5. CASE Handler(t)
  BY <1>0, <1>5, PlainStep DEF Handler, Serving, MetricRecs, Add, CountedFirst
<1>6. CASE CountOperation(t)
  <2>1. PICK kind \in {"reads", "writes"} : Serving(t, kind) /\ Add("ops") /\ GoTo(t, "answered") /\ UNCHANGED <<observing, tally>>
    BY <1>6 DEF CountOperation, CountedThen, CountedFirst
  <2> QED BY <1>0, <2>1, PlainStep DEF Serving, MetricRecs, Add
<1>7. CASE keep_alive(t)
  BY <1>0, <1>7, PlainStep DEF keep_alive, Serving, MetricRecs
<1>10. CASE metrics_gauge_dec(t)
  <2>1. ConnectionsAt(stage, Stages \ {"idle"}) > 0
    <3>1. stage[t].at = "leaving"
      BY <1>10 DEF metrics_gauge_dec, Serving
    <3>2. IsFiniteSet({u \in MThreads : stage[u].at \in Stages \ {"idle"}}) /\ t \in {u \in MThreads : stage[u].at \in Stages \ {"idle"}}
      BY <3>1, MetricsAssumption, FS_Subset
    <3> QED BY <3>2, FS_EmptySet, FS_CardinalityType DEF ConnectionsAt
  <2>2. metric.active > 0
    <3>1. ASSUME NEW S PROVE ConnectionsAt(stage, S) \in Nat
      BY CountMoves
    <3>2. metric.active = ConnectionsAt(stage, Stages \ {"idle"}) + tally.leaked
      BY DEF CountInv, Gauged
    <3>3. ConnectionsAt(stage, Stages \ {"idle"}) \in Nat
      BY <3>1
    <3> QED BY <3>2, <3>3, <2>1, <1>0 DEF MetricRecs
  <2>3. metric' \in MetricRecs /\ metric'.active + 1 = metric.active
    BY <1>0, <1>10, <2>2 DEF metrics_gauge_dec, MetricRecs
  <2> QED BY <1>0, <1>10, <2>3, PlainStep DEF metrics_gauge_dec, Serving, MetricRecs
<1>8. CASE metrics_timer_stop(t)
  <2>1. PICK d \in Durations : stage' = [stage EXCEPT ![t] = [at |-> "sum", took |-> d]]
    BY <1>8 DEF metrics_timer_stop
  <2>2. d \in Nat /\ [at |-> "sum", took |-> d] \in StageRecs
    BY MetricsAssumption DEF StageRecs
  <2>3. /\ stage' \in [MThreads -> StageRecs] /\ stage'[t].at = "sum" /\ stage'[t].took = d
        /\ \A u \in MThreads : u # t => stage'[u] = stage[u]
    BY <2>1, <2>2, <1>0
  <2>4. /\ stage[t].at = "ended" /\ observing = {} /\ observing' = {t} /\ tally' = tally
        /\ metric' = [metric EXCEPT !.count = @ + 1]
    BY <1>8 DEF metrics_timer_stop, Serving, Add
  <2>5. metric' \in MetricRecs
    BY <2>4, <1>0 DEF MetricRecs
  <2>6. Gauged'
    BY <2>3, <2>4, <2>5, <1>0, TimerStep DEF MetricRecs
  <2>7. observing' = {u \in MThreads : stage'[u].at \in {"sum", "extremes"}}
    BY <2>3, <2>4 DEF CountInv, CountTypes
  <2>8. CountTypes'
    BY <2>3, <2>4, <2>5, <2>7, <1>0 DEF CountTypes
  <2>9. Between(metric.count, metric.sum, metric.min, metric.max)
    BY <2>4 DEF CountInv, Timed
  <2>10. /\ metric'.count = metric.count + 1 /\ metric'.count > 0 /\ metric'.count - 1 = metric.count
         /\ metric'.sum = metric.sum /\ metric'.min = metric.min /\ metric'.max = metric.max
    BY <2>4, <1>0 DEF MetricRecs
  <2>11. Timed'
    BY <2>3, <2>4, <2>9, <2>10 DEF Timed
  <2> QED BY <2>6, <2>8, <2>11 DEF CountInv
<1>9. CASE metrics_timer_observe(t)
  <2>1. t \in observing /\ observing = {t} /\ stage[t].took \in Durations /\ stage[t].took \in Nat /\ tally' = tally
    BY <1>9, MetricsAssumption DEF metrics_timer_observe, CountInv, CountTypes
  <2>2. CASE stage[t].at = "sum" /\ GoTo(t, "extremes") /\ metric' = [metric EXCEPT !.sum = @ + stage[t].took] /\ UNCHANGED observing
    BY <2>2, StageMoves, <2>1, <1>0, TimerStep DEF CountInv, MetricRecs, CountTypes, Timed
  <2>3. CASE /\ stage[t].at = "extremes" /\ GoTo(t, "leaving") /\ observing' = {}
             /\ metric' = [metric EXCEPT !.min = IF stage[t].took < @ THEN stage[t].took ELSE @,
                                        !.max = IF stage[t].took > @ THEN stage[t].took ELSE @]
    <3>1. /\ stage' \in [MThreads -> StageRecs] /\ stage'[t].at = "leaving"
          /\ \A u \in MThreads : u # t => stage'[u] = stage[u]
      BY <2>3, StageMoves DEF CountInv
    <3>2. /\ metric' \in MetricRecs /\ metric'.sum = metric.sum /\ metric'.count = metric.count
          /\ metric'.min = (IF stage[t].took < metric.min THEN stage[t].took ELSE metric.min)
          /\ metric'.max = (IF stage[t].took > metric.max THEN stage[t].took ELSE metric.max)
      BY <2>1, <2>3, <1>0 DEF MetricRecs
    <3>3. Gauged'
      BY <2>1, <2>3, <3>1, <3>2, <1>0, TimerStep DEF MetricRecs
    <3>4. CountTypes'
      BY <2>1, <2>3, <3>1, <3>2, <1>0 DEF CountInv, CountTypes
    <3>5. /\ metric.count > 0 /\ metric.sum >= stage[t].took
          /\ Between(metric.count - 1, metric.sum - stage[t].took, metric.min, metric.max)
      BY <2>1, <2>3 DEF CountInv, Timed
    <3>6. /\ metric.count - 1 \in Nat /\ metric.sum - stage[t].took \in Nat /\ metric.min \in Nat /\ metric.max \in Nat
          /\ metric.count - 1 + 1 = metric.count /\ metric.sum - stage[t].took + stage[t].took = metric.sum
      BY <3>5, <2>1, <1>0 DEF MetricRecs
    <3>7. Between(metric'.count, metric'.sum, metric'.min, metric'.max)
      <4> DEFINE n == metric.count - 1
                 s == metric.sum - stage[t].took
                 d == stage[t].took
                 lo == metric.min
                 hi == metric.max
      <4>1. n \in Nat /\ s \in Nat /\ lo \in Nat /\ hi \in Nat /\ d \in Durations /\ Between(n, s, lo, hi)
        BY <3>5, <3>6, <2>1
      <4>2. metric'.count = n + 1 /\ metric'.sum = s + d
        BY <3>2, <3>6
      <4>3. metric'.min = (IF d < lo THEN d ELSE lo) /\ metric'.max = (IF d > hi THEN d ELSE hi)
        BY <3>2
      <4> HIDE DEF n, s, d, lo, hi
      <4>4. Between(n + 1, s + d, IF d < lo THEN d ELSE lo, IF d > hi THEN d ELSE hi)
        BY <4>1, OneMore
      <4> QED BY <4>2, <4>3, <4>4
    <3>8. Timed'
      BY <2>3, <3>7 DEF Timed
    <3> QED BY <3>3, <3>4, <3>8 DEF CountInv
  <2> QED BY <1>9, <2>2, <2>3 DEF metrics_timer_observe
<1> QED BY <1>1, <1>2, <1>3, <1>4, <1>5, <1>6, <1>7, <1>8, <1>9, <1>10 DEF ConnStep

-----------------------------------------------------------------------------
(* Metrics: what the persistence thread has read of them.                  *)

MetricNames == {"requests", "errors", "ops", "reads", "writes", "active", "count", "sum", "min", "max"}
Points      == UNION {[F -> Nat] : F \in SUBSET MetricNames}
PointDocs   == [id : Nat, name : Families, mine : BOOLEAN, data : Seq(Points), current : Points, readable : BOOLEAN]
SnapRecs    == [at : {"asleep", "read", "get", "save"}, name : Families \cup {"none"}, todo : Seq(MetricNames),
                got : Points, doc : SUBSET PointDocs, disturbed : BOOLEAN, taken : Nat]

\* What is read of the operations is counted earlier than what is read next.
OpsRead(todo, got, m) ==
    /\ "min" \notin DOMAIN got
    /\ \/ todo = <<"requests", "ops", "reads", "writes">>
       \/ todo = <<"ops", "reads", "writes">>
       \/ /\ todo = <<"reads", "writes">> /\ "ops" \in DOMAIN got
          /\ got["ops"] <= m.reads + m.writes
       \/ /\ todo = <<"writes">> /\ {"ops", "reads"} \subseteq DOMAIN got
          /\ got["ops"] <= got["reads"] + m.writes
       \/ /\ todo = <<>> /\ {"ops", "reads", "writes"} \subseteq DOMAIN got
          /\ got["ops"] <= got["reads"] + got["writes"]

TimerFields == {"count", "sum", "min", "max"}
\* The average of a point is between its extremes.
Ranged(got) ==
    /\ got["min"] # Infinite
    /\ got["count"] = 0 \/ (/\ got["count"] * got["min"] <= got["sum"]
                            /\ got["sum"] <= got["count"] * got["max"])
\* Undisturbed, what was read of the timer is what it is.
TimerSeen(F, got, m, held, disturbed) ==
    /\ F \subseteq DOMAIN got
    /\ ~ disturbed => /\ held = {} /\ m.count > 0
                      /\ "count" \in F => got["count"] = m.count
                      /\ "sum" \in F => got["sum"] = m.sum
                      /\ "min" \in F => got["min"] = m.min
PerfRead(todo, got, m, held, disturbed) ==
    \/ todo = <<"count", "sum", "count", "min", "max", "active">>
    \/ todo = <<"sum", "count", "min", "max", "active">> /\ TimerSeen({"count"}, got, m, held, disturbed)
    \/ todo = <<"count", "min", "max", "active">> /\ TimerSeen({"count", "sum"}, got, m, held, disturbed)
    \/ todo = <<"min", "max", "active">> /\ TimerSeen({"count", "sum"}, got, m, held, disturbed)
    \/ todo = <<"max", "active">> /\ TimerSeen({"count", "sum", "min"}, got, m, held, disturbed)
    \/ /\ todo \in {<<"active">>, <<>>} /\ TimerFields \subseteq DOMAIN got
       /\ ~ disturbed => Ranged(got)

SnapTypes ==
    /\ snap \in SnapRecs
    /\ snap.at # "asleep" => snap.name \in Families
    /\ snap.at \in {"get", "save"} => snap.todo = <<>>

SnapInv ==
    /\ SnapTypes
    /\ snap.at # "asleep" /\ snap.name = "operations" => OpsRead(snap.todo, snap.got, metric)
    /\ snap.at # "asleep" /\ snap.name = "performance" =>
          PerfRead(snap.todo, snap.got, metric, observing, snap.disturbed)

\* What a connection's step means for a snapshot: its counters only grow, and the timer
\* stays as it is unless it is marked.
LEMMA ConnSnaps ==
    ASSUME CountInv, NEW t \in MThreads, ConnStep(t), snap \in SnapRecs
    PROVE  /\ metric'.reads >= metric.reads /\ metric'.writes >= metric.writes
           /\ snap' \in SnapRecs /\ snap' = [snap EXCEPT !.disturbed = snap'.disturbed]
           /\ snap.disturbed => snap'.disturbed
           /\ \/ Awake(snap) /\ snap'.disturbed
              \/ ~ Awake(snap)
              \/ /\ observing' = observing /\ metric'.count = metric.count
                 /\ metric'.sum = metric.sum /\ metric'.min = metric.min
<1>1. metric \in MetricRecs
  BY DEF CountInv, CountTypes
<1> DEFINE step == stage[t].at
<1>2. Serving(t, step)
  BY DEF handle_client, fcntl_fails, ReadRequest, api_dispatch_request, Handler, Serving, CountOperation, keep_alive,
     metrics_timer_stop, metrics_timer_observe, metrics_gauge_dec, ConnStep
<1> HIDE DEF step
<1>3. snap' = [snap EXCEPT !.disturbed = @ \/ (Awake(snap) /\ Observing(step))]
  BY <1>2 DEF Serving
<1>4. /\ snap' \in SnapRecs /\ snap'.disturbed = (snap.disturbed \/ (Awake(snap) /\ Observing(step)))
      /\ snap' = [snap EXCEPT !.disturbed = snap'.disturbed]
  BY <1>3 DEF SnapRecs
<1>5. CASE Observing(step)
  <2>1. ~ (handle_client(t) \/ fcntl_fails(t) \/ ReadRequest(t) \/ api_dispatch_request(t) \/ Handler(t))
    BY <1>5 DEF step, Observing, handle_client, fcntl_fails, ReadRequest, api_dispatch_request, Handler, Serving
  <2>2. ~ (CountOperation(t) \/ keep_alive(t) \/ metrics_gauge_dec(t))
    BY <1>5 DEF step, Observing, CountOperation, keep_alive, metrics_gauge_dec, Serving
  <2>3. metrics_timer_stop(t) \/ metrics_timer_observe(t)
    BY <2>1, <2>2 DEF ConnStep
  <2>4. metric'.reads >= metric.reads /\ metric'.writes >= metric.writes
    <3> DEFINE d == stage[t].took
    <3>1. \/ metric' = [metric EXCEPT !["count"] = @ + 1]
          \/ metric' = [metric EXCEPT !.sum = @ + d]
          \/ metric' = [metric EXCEPT !.min = IF d < @ THEN d ELSE @, !.max = IF d > @ THEN d ELSE @]
      BY <2>3 DEF metrics_timer_stop, metrics_timer_observe, Add
    <3> HIDE DEF d
    <3>2. metric'.reads = metric.reads /\ metric'.writes = metric.writes
      BY <1>1, <3>1 DEF MetricRecs
    <3> QED BY <1>1, <3>2 DEF MetricRecs
  <2> QED BY <1>4, <1>5, <2>4
<1>6. CASE ~ Observing(step)
  <2>1. /\ metric'.reads >= metric.reads /\ metric'.writes >= metric.writes
        /\ observing' = observing /\ metric'.count = metric.count
        /\ metric'.sum = metric.sum /\ metric'.min = metric.min
    <3>1. CASE handle_client(t) \/ fcntl_fails(t) \/ keep_alive(t) \/ api_dispatch_request(t) \/ metrics_gauge_dec(t)
      BY <1>1, <3>1 DEF handle_client, fcntl_fails, keep_alive, api_dispatch_request, metrics_gauge_dec, Add, MetricRecs
    <3>2. CASE ReadRequest(t)
      BY <1>1, <3>2 DEF ReadRequest, Add, MetricRecs
    <3>3. CASE Handler(t)
      <4>1. PICK kind \in {"reads", "writes", "errors"} : metric' = [metric EXCEPT ![kind] = @ + 1]
        BY <3>3 DEF Handler, Add, CountedFirst
      <4> QED BY <1>1, <3>3, <4>1 DEF Handler, MetricRecs
    <3>4. CASE CountOperation(t)
      BY <3>4, <1>1 DEF CountOperation, Add, CountedThen, CountedFirst, MetricRecs
    <3>5. ~ metrics_timer_stop(t) /\ ~ metrics_timer_observe(t)
      BY <1>2, <1>6 DEF step, metrics_timer_stop, metrics_timer_observe, Serving, Observing
    <3> QED BY <3>1, <3>2, <3>3, <3>4, <3>5 DEF ConnStep
  <2> QED BY <1>4, <1>6, <2>1
<1> QED BY <1>5, <1>6

\* So what a snapshot has read stays as good as it was.
LEMMA ConnKeepsSnap ==
    ASSUME CountInv, NEW t \in MThreads, ConnStep(t), SnapInv
    PROVE  SnapInv'
<1>1. /\ metric \in MetricRecs /\ metric' \in MetricRecs
  BY ConnCounts DEF CountInv, CountTypes
<1>2. snap \in SnapRecs
  BY DEF SnapInv, SnapTypes
<1>3. /\ metric'.reads >= metric.reads /\ metric'.writes >= metric.writes
      /\ snap' \in SnapRecs /\ snap' = [snap EXCEPT !.disturbed = snap'.disturbed]
      /\ snap.disturbed => snap'.disturbed
      /\ \/ Awake(snap) /\ snap'.disturbed
         \/ ~ Awake(snap)
         \/ /\ observing' = observing /\ metric'.count = metric.count
            /\ metric'.sum = metric.sum /\ metric'.min = metric.min
  BY <1>2, ConnSnaps
<1>4. /\ snap'.at = snap.at /\ snap'.name = snap.name /\ snap'.todo = snap.todo /\ snap'.got = snap.got
      /\ snap.disturbed \in BOOLEAN /\ snap'.disturbed \in BOOLEAN
  BY <1>2, <1>3 DEF SnapRecs
<1>5. SnapTypes'
  BY <1>3, <1>4 DEF SnapInv, SnapTypes
<1>6. ASSUME snap.at # "asleep", snap.name = "operations" PROVE OpsRead(snap'.todo, snap'.got, metric')
  <2>1. OpsRead(snap.todo, snap.got, metric)
    BY <1>6 DEF SnapInv
  <2>2. \A x \in DOMAIN snap.got : snap.got[x] \in Nat
    BY <1>2 DEF SnapRecs, Points
  <2> DEFINE got == snap.got
             r == metric.reads
             w == metric.writes
  <2>3. /\ r \in Nat /\ w \in Nat /\ metric'.reads \in Nat /\ metric'.writes \in Nat
        /\ metric'.reads >= r /\ metric'.writes >= w
    BY <1>1, <1>3 DEF MetricRecs
  <2>4. "ops" \in DOMAIN got /\ got["ops"] <= r + w => got["ops"] <= metric'.reads + metric'.writes
    BY <2>2, <2>3
  <2>5. {"ops", "reads"} \subseteq DOMAIN got /\ got["ops"] <= got["reads"] + w => got["ops"] <= got["reads"] + metric'.writes
    BY <2>2, <2>3
  <2>6. snap'.todo = snap.todo /\ snap'.got = got
    BY <1>4
  <2> QED BY <2>1, <2>4, <2>5, <2>6 DEF OpsRead
<1>7. ASSUME snap.at # "asleep", snap.name = "performance" PROVE PerfRead(snap'.todo, snap'.got, metric', observing', snap'.disturbed)
  BY <1>7, <1>3, <1>4 DEF SnapInv, Awake, TimerSeen, PerfRead
<1> QED BY <1>4, <1>5, <1>6, <1>7 DEF SnapInv

\* The persistence thread.
SnapStep == \/ save_metrics_snapshot \/ ReadMetric \/ find_metric_by_name \/ GetMetricDocument \/ update_metric_document

LEMMA FreshReading ==
    ASSUME NEW n \in Nat, NEW name \in Families
    PROVE  /\ Reading(name, n) \in SnapRecs /\ Reading(name, n).at = "read" /\ Reading(name, n).name = name
           /\ ~ Reading(name, n).disturbed /\ Reading(name, n).doc = {}
           /\ Reading(name, n).todo = Fields(name) /\ Reading(name, n).got = <<>>
           /\ Sleeping(n) \in SnapRecs /\ Sleeping(n).at = "asleep" /\ Sleeping(n).name = "none" /\ Sleeping(n).doc = {}
<1>1. <<>> \in Points
  <2>1. <<>> \in [{} -> Nat] /\ {} \in SUBSET MetricNames
    OBVIOUS
  <2> QED BY <2>1 DEF Points
<1>2. <<>> \in Seq(MetricNames) /\ Fields(name) \in Seq(MetricNames)
  <2>1. <<"requests", "ops", "reads", "writes">> \in Seq(MetricNames)
    BY DEF MetricNames
  <2>2. <<"count", "sum", "count", "min", "max", "active">> \in Seq(MetricNames)
    BY DEF MetricNames
  <2> QED BY <2>1, <2>2 DEF Fields
<1> QED BY <1>1, <1>2 DEF Reading, Sleeping, SnapRecs, Families

LEMMA FreshSnap ==
    ASSUME NEW n \in Nat, NEW name \in Families, snap' = Reading(name, n)
    PROVE  SnapInv'
  BY FreshReading DEF SnapInv, SnapTypes, OpsRead, PerfRead, Fields, Families

\* One value is read.
LEMMA ReadKeepsSnap ==
    ASSUME CountInv, SnapInv, ReadMetric
    PROVE  SnapInv'
<1> DEFINE f == Head(snap.todo)
           more == [x \in DOMAIN snap.got \cup {f} |-> IF x = f THEN metric[f] ELSE snap.got[x]]
           none == [x \in TimerFields |-> 0]
           empty == f = "count" /\ Len(snap.todo) = Len(Fields("performance")) /\ metric.count = 0
<1>1. /\ metric \in MetricRecs /\ snap \in SnapRecs /\ metric' = metric /\ observing' = observing
      /\ snap.at = "read" /\ snap.todo # <<>> /\ snap.name \in Families /\ snap.disturbed \in BOOLEAN
  BY DEF ReadMetric, Persisting, CountInv, CountTypes, SnapInv, SnapTypes, SnapRecs, countVars
<1>2. snap' = [snap EXCEPT !.todo = IF empty THEN <<"active">> ELSE Tail(@), !.disturbed = @ \/ observing # {},
                           !.got = IF empty THEN none ELSE more]
  BY DEF ReadMetric, TimerFields
<1>3. f \in MetricNames /\ Tail(snap.todo) \in Seq(MetricNames)
  BY <1>1 DEF SnapRecs
<1>4. metric[f] \in Nat
  BY <1>1, <1>3 DEF MetricRecs, MetricNames
<1>5. more \in Points /\ none \in Points
  <2>1. snap.got \in Points
    BY <1>1 DEF SnapRecs
  <2>2. PICK F \in SUBSET MetricNames : snap.got \in [F -> Nat]
    BY <2>1 DEF Points
  <2>3. more \in [F \cup {f} -> Nat] /\ F \cup {f} \in SUBSET MetricNames
    BY <2>2, <1>3, <1>4
  <2>4. none \in [TimerFields -> Nat] /\ TimerFields \in SUBSET MetricNames
    BY DEF TimerFields, MetricNames
  <2> QED BY <2>3, <2>4 DEF Points
<1>6. <<"active">> \in Seq(MetricNames)
  BY DEF MetricNames
<1>7. /\ snap' \in SnapRecs /\ snap'.at = "read" /\ snap'.name = snap.name
      /\ snap'.todo = (IF empty THEN <<"active">> ELSE Tail(snap.todo))
      /\ snap'.got = (IF empty THEN none ELSE more)
      /\ snap'.disturbed = (snap.disturbed \/ observing # {})
  <2> HIDE DEF empty, none, more
  <2> QED BY <1>1, <1>2, <1>3, <1>5, <1>6 DEF SnapRecs
<1>8. SnapTypes'
  BY <1>1, <1>7 DEF SnapTypes
<1>9. ASSUME snap.name = "operations" PROVE OpsRead(snap'.todo, snap'.got, metric')
  <2>1. OpsRead(snap.todo, snap.got, metric)
    BY <1>1, <1>9 DEF SnapInv
  <2>2. /\ Head(<<"requests", "ops", "reads", "writes">>) = "requests" /\ Tail(<<"requests", "ops", "reads", "writes">>) = <<"ops", "reads", "writes">>
        /\ Head(<<"ops", "reads", "writes">>) = "ops" /\ Tail(<<"ops", "reads", "writes">>) = <<"reads", "writes">>
        /\ Head(<<"reads", "writes">>) = "reads" /\ Tail(<<"reads", "writes">>) = <<"writes">>
        /\ Head(<<"writes">>) = "writes" /\ Tail(<<"writes">>) = <<>>
    OBVIOUS
  <2>3. f \in {"requests", "ops", "reads", "writes"} /\ ~ empty
    BY <1>1, <2>1, <2>2 DEF OpsRead
  <2>4. snap'.todo = Tail(snap.todo) /\ snap'.got = more
    BY <1>7, <2>3
  <2>5. /\ DOMAIN more = DOMAIN snap.got \cup {f} /\ "min" \notin DOMAIN more
        /\ more[f] = metric[f] /\ \A x \in DOMAIN snap.got : x # f => more[x] = snap.got[x]
    BY <2>1, <2>3 DEF OpsRead
  <2>6. metric.ops <= metric.reads + metric.writes
    BY CountOf, <1>1 DEF CountInv, Gauged, MetricRecs
  <2> HIDE DEF more, f, empty
  <2>7. CASE snap.todo = <<"requests", "ops", "reads", "writes">>
    BY <2>2, <2>4, <2>5, <2>7 DEF OpsRead
  <2>8. CASE snap.todo = <<"ops", "reads", "writes">>
    BY <1>1, <2>2, <2>4, <2>5, <2>6, <2>8 DEF OpsRead, f
  <2>9. CASE snap.todo = <<"reads", "writes">>
    BY <1>1, <2>1, <2>2, <2>4, <2>5, <2>9 DEF OpsRead, f
  <2>10. CASE snap.todo = <<"writes">>
    BY <1>1, <2>1, <2>2, <2>4, <2>5, <2>10 DEF OpsRead, f
  <2> QED BY <1>1, <2>1, <2>7, <2>8, <2>9, <2>10 DEF OpsRead
<1>10. ASSUME snap.name = "performance" PROVE PerfRead(snap'.todo, snap'.got, metric', observing', snap'.disturbed)
  <2>1. PerfRead(snap.todo, snap.got, metric, observing, snap.disturbed)
    BY <1>1, <1>10 DEF SnapInv
  <2> DEFINE P == <<"count", "sum", "count", "min", "max", "active">>
  <2>2. /\ Head(P) = "count" /\ Tail(P) = <<"sum", "count", "min", "max", "active">> /\ Len(P) = 6
        /\ Head(Tail(P)) = "sum" /\ Tail(Tail(P)) = <<"count", "min", "max", "active">>
        /\ Head(<<"count", "min", "max", "active">>) = "count" /\ Len(<<"count", "min", "max", "active">>) = 4
        /\ Tail(<<"count", "min", "max", "active">>) = <<"min", "max", "active">>
        /\ Head(<<"min", "max", "active">>) = "min" /\ Tail(<<"min", "max", "active">>) = <<"max", "active">>
        /\ Head(<<"max", "active">>) = "max" /\ Tail(<<"max", "active">>) = <<"active">>
        /\ Head(<<"active">>) = "active" /\ Tail(<<"active">>) = <<>>
    OBVIOUS
  <2>3. Fields("performance") = P
    BY DEF Fields
  <2>4. /\ DOMAIN more = DOMAIN snap.got \cup {f}
        /\ more[f] = metric[f] /\ \A x \in DOMAIN snap.got : x # f => more[x] = snap.got[x]
    OBVIOUS
  <2>5. ~ snap'.disturbed => ~ snap.disturbed /\ observing = {}
    BY <1>1, <1>7
  <2> HIDE DEF more
  <2>6. CASE snap.todo = P /\ empty
    BY <1>7, <2>6, MetricsAssumption DEF TimerFields, PerfRead, Ranged
  <2>7. CASE snap.todo = P /\ ~ empty
    BY <1>7, <2>2, <2>7, <1>1, <2>3, <2>4, <2>5 DEF MetricRecs, TimerSeen, PerfRead
  <2>8. CASE snap.todo = <<"sum", "count", "min", "max", "active">>
    BY <1>7, <2>2, <2>8, <2>1, <1>1, <2>4, <2>5 DEF PerfRead, TimerSeen
  <2>9. CASE snap.todo = <<"count", "min", "max", "active">>
    BY <1>7, <2>2, <2>3, <2>9, <2>1, <1>1, <2>4, <2>5 DEF PerfRead, TimerSeen
  <2>10. CASE snap.todo = <<"min", "max", "active">>
    BY <1>7, <2>2, <2>10, <2>1, <1>1, <2>4, <2>5 DEF PerfRead, TimerSeen
  <2>11. CASE snap.todo = <<"max", "active">>
    <3>1. f = "max" /\ snap'.todo = <<"active">> /\ snap'.got = more
      BY <1>7, <2>2, <2>11
    <3>2. TimerSeen({"count", "sum", "min"}, snap.got, metric, observing, snap.disturbed)
      BY <2>1, <2>11 DEF PerfRead
    <3>3. TimerFields \subseteq DOMAIN more
      BY <2>4, <3>1, <3>2 DEF TimerSeen, TimerFields
    <3>4. ASSUME ~ snap'.disturbed PROVE Ranged(more)
      <4>1. /\ observing = {} /\ metric.count > 0 /\ more["count"] = metric.count /\ more["sum"] = metric.sum
            /\ more["min"] = metric.min /\ more["max"] = metric.max
        BY <2>4, <2>5, <3>1, <3>2, <3>4 DEF TimerSeen
      <4>2. Between(metric.count, metric.sum, metric.min, metric.max)
        BY <4>1 DEF CountInv, Timed
      <4>3. metric.count \in Nat /\ metric.min \in Nat /\ Infinite \in Nat
        BY <1>1, MetricsAssumption DEF MetricRecs
      <4> QED BY <4>1, <4>2, <4>3 DEF Ranged, Between
    <3> QED BY <3>1, <3>3, <3>4 DEF PerfRead
  <2>12. CASE snap.todo = <<"active">>
    BY <1>7, <2>2, <2>12, <2>1, <2>4, <2>5 DEF PerfRead, TimerFields, Ranged
  <2> QED BY <1>1, <2>1, <2>6, <2>7, <2>8, <2>9, <2>10, <2>11, <2>12 DEF PerfRead
<1> QED BY <1>7, <1>8, <1>9, <1>10 DEF SnapInv

\* Points of operations show no more of them than reads and writes.
OpsPoints == {p \in Points : {"ops", "reads", "writes"} \subseteq DOMAIN p /\ p["ops"] <= p["reads"] + p["writes"]}
HistorySound(d) ==
    /\ d.data \in Seq(IF d.name = "operations" THEN OpsPoints ELSE Points)
    /\ Len(d.data) <= HistoryLength /\ (d.data # <<>> => Last(d.data) = d.current)

Meddling == [deleted : BOOLEAN, stored : BOOLEAN, poisoned : BOOLEAN, freedRead : BOOLEAN, caught : BOOLEAN]

\* What the thread holds of the documents of metric n, d, fits the documents there are.
HeldSound(at, n, held) ==
    /\ at = "get" /\ ~ meddled.stored => \A i \in WithName(n) : metricDocs[i].id = remembered[n]
    /\ at = "save" =>
          /\ \A d \in held : /\ d.name = n /\ d.id = remembered[n] /\ d.readable /\ HistorySound(d)
                             /\ \A i \in 1 .. Len(metricDocs) : metricDocs[i].id = d.id => metricDocs[i] = d
          /\ ~ meddled.stored => \A i \in WithName(n) : metricDocs[i] \in held

\* The documents of the metrics: each has its own id, one metric has one, and what was
\* remembered of them is still true.
DocsInv ==
    /\ metricDocs \in Seq(PointDocs) /\ nextDoc \in 0 .. MaxMetricDocs
    /\ remembered \in [Families -> 0 .. nextDoc] /\ meddled \in Meddling
    /\ \A i \in 1 .. Len(metricDocs) :
          /\ metricDocs[i].id \in 1 .. nextDoc /\ HistorySound(metricDocs[i])
          /\ metricDocs[i].readable \/ meddled.poisoned
          /\ \A n \in Families : metricDocs[i].id = remembered[n] => metricDocs[i].name = n
    /\ \A i, j \in 1 .. Len(metricDocs) : metricDocs[i].id = metricDocs[j].id => i = j
    /\ ~ meddled.stored => \A n \in Families : \A i, j \in WithName(n) : i = j
    /\ HeldSound(snap.at, snap.name, snap.doc)

LEMMA SnapKeepsSnap ==
    ASSUME CountInv, SnapInv, DocsInv, SnapStep
    PROVE  SnapInv'
<1>1. /\ metric \in MetricRecs /\ snap \in SnapRecs /\ metric' = metric /\ observing' = observing /\ snap.taken \in Nat
  BY DEF SnapStep, save_metrics_snapshot, ReadMetric, find_metric_by_name, GetMetricDocument, update_metric_document,
         Persisting, CountInv, CountTypes, SnapInv, SnapTypes, SnapRecs, countVars
<1>2. CASE save_metrics_snapshot
  BY <1>1, <1>2, FreshSnap DEF save_metrics_snapshot, Families
<1>3. CASE ReadMetric
  BY <1>3, ReadKeepsSnap
<1>4. CASE find_metric_by_name
  BY <1>1, <1>4 DEF find_metric_by_name, Persisting, SnapInv, SnapTypes, SnapRecs
<1>5. CASE GetMetricDocument
  <2> DEFINE found == {metricDocs[i] : i \in {j \in WithId(remembered[snap.name]) : metricDocs[j].readable}}
  <2>1. snap' = [snap EXCEPT !.at = "save", !.doc = found] /\ snap.at = "get"
    BY <1>5 DEF GetMetricDocument, Persisting
  <2>2. found \in SUBSET PointDocs
    BY DEF DocsInv, WithId
  <2> HIDE DEF found
  <2> QED BY <1>1, <2>1, <2>2 DEF SnapInv, SnapTypes, SnapRecs
<1>6. CASE update_metric_document
  BY <1>1, FreshSnap, FreshReading, <1>6 DEF Families, SnapInv, SnapTypes, update_metric_document
<1> QED BY <1>2, <1>3, <1>4, <1>5, <1>6 DEF SnapStep

-----------------------------------------------------------------------------
(* Metrics: the documents of the snapshots.                                *)

\* An element put into a sequence.
LEMMA InsertKeeps ==
    ASSUME NEW S, NEW s \in Seq(S), NEW e \in S, NEW i \in 1 .. Len(s) + 1
    PROVE  /\ InsertAt(s, i, e) \in Seq(S)
           /\ Len(InsertAt(s, i, e)) = Len(s) + 1
           /\ \A j \in 1 .. Len(s) + 1 : InsertAt(s, i, e)[j] = IF j < i THEN s[j] ELSE IF j = i THEN e ELSE s[j - 1]
<1>1. Len(s) \in Nat /\ i \in Nat /\ \A j \in 1 .. Len(s) : s[j] \in S
  BY LenProperties, ElementOfSeq
<1> DEFINE a == SubSeq(s, 1, i - 1)
           b == SubSeq(s, i, Len(s))
<1>2. a \in Seq(S) /\ Len(a) = i - 1 /\ \A j \in 1 .. i - 1 : a[j] = s[j]
  <2>1. \A j \in 1 .. i - 1 : s[j] \in S
    BY <1>1
  <2>2. /\ a \in Seq(S) /\ Len(a) = (IF 1 <= i - 1 THEN (i - 1) - 1 + 1 ELSE 0)
        /\ \A j \in 1 .. (i - 1) - 1 + 1 : a[j] = s[1 + j - 1]
    BY <1>1, <2>1, SubSeqProperties
  <2> HIDE DEF a
  <2> QED BY <1>1, <2>2
<1>3. b \in Seq(S) /\ Len(b) = Len(s) - i + 1 /\ \A j \in 1 .. Len(s) - i + 1 : b[j] = s[i + j - 1]
  <2>1. \A j \in i .. Len(s) : s[j] \in S
    BY <1>1
  <2>2. /\ b \in Seq(S) /\ Len(b) = (IF i <= Len(s) THEN Len(s) - i + 1 ELSE 0)
        /\ \A j \in 1 .. Len(s) - i + 1 : b[j] = s[i + j - 1]
    BY <1>1, <2>1, SubSeqProperties
  <2> HIDE DEF b
  <2> QED BY <1>1, <2>2
<1>4. InsertAt(s, i, e) = a \o <<e>> \o b
  BY DEF InsertAt
<1> HIDE DEF a, b
<1>5. <<e>> \in Seq(S) /\ Len(<<e>>) = 1 /\ <<e>>[1] = e
  OBVIOUS
<1> DEFINE c == a \o <<e>>
<1>6. c \in Seq(S) /\ Len(c) = i /\ \A j \in 1 .. i : c[j] = IF j <= i - 1 THEN a[j] ELSE <<e>>[j - (i - 1)]
  <2>1. c \in Seq(S) /\ Len(c) = Len(a) + 1 /\ \A j \in 1 .. Len(a) + 1 : c[j] = IF j <= Len(a) THEN a[j] ELSE <<e>>[j - Len(a)]
    BY <1>2, <1>5, ConcatProperties
  <2> HIDE DEF c
  <2> QED BY <1>1, <1>2, <2>1
<1>7. c[i] = e /\ \A j \in 1 .. i - 1 : c[j] = s[j]
  <2> HIDE DEF c
  <2>1. i - (i - 1) = 1 /\ ~ i <= i - 1 /\ i \in 1 .. i
    BY <1>1
  <2>2. c[i] = <<e>>[1]
    BY <1>6, <2>1
  <2> QED BY <1>1, <1>2, <1>5, <1>6, <2>2
<1> HIDE DEF c
<1>8. /\ c \o b \in Seq(S) /\ Len(c \o b) = Len(c) + Len(b)
      /\ \A j \in 1 .. Len(c) + Len(b) : (c \o b)[j] = IF j <= Len(c) THEN c[j] ELSE b[j - Len(c)]
  BY <1>3, <1>6, ConcatProperties
<1>9. InsertAt(s, i, e) = c \o b
  BY <1>4 DEF c
<1>10. Len(c) + Len(b) = Len(s) + 1
  BY <1>1, <1>3, <1>6
<1>11. ASSUME NEW j \in 1 .. Len(s) + 1
       PROVE  InsertAt(s, i, e)[j] = IF j < i THEN s[j] ELSE IF j = i THEN e ELSE s[j - 1]
  BY <1>6, <1>8, <1>9, <1>10, <1>1, <1>7, <1>3
<1> QED BY <1>8, <1>9, <1>10, <1>11

\* An element taken out of a sequence.
LEMMA RemoveKeeps ==
    ASSUME NEW S, NEW s \in Seq(S), NEW i \in 1 .. Len(s)
    PROVE  /\ RemoveAt(s, i) \in Seq(S)
           /\ Len(RemoveAt(s, i)) = Len(s) - 1
           /\ \A j \in 1 .. Len(s) - 1 : RemoveAt(s, i)[j] = IF j < i THEN s[j] ELSE s[j + 1]
<1>1. Len(s) \in Nat /\ i \in Nat /\ \A j \in 1 .. Len(s) : s[j] \in S
  BY LenProperties, ElementOfSeq
<1> DEFINE a == SubSeq(s, 1, i - 1)
           b == SubSeq(s, i + 1, Len(s))
<1>2. a \in Seq(S) /\ Len(a) = i - 1 /\ \A j \in 1 .. i - 1 : a[j] = s[j]
  <2>1. \A j \in 1 .. i - 1 : s[j] \in S
    BY <1>1
  <2>2. /\ a \in Seq(S) /\ Len(a) = (IF 1 <= i - 1 THEN (i - 1) - 1 + 1 ELSE 0)
        /\ \A j \in 1 .. (i - 1) - 1 + 1 : a[j] = s[1 + j - 1]
    BY <1>1, <2>1, SubSeqProperties
  <2> HIDE DEF a
  <2> QED BY <1>1, <2>2
<1>3. b \in Seq(S) /\ Len(b) = Len(s) - i /\ \A j \in 1 .. Len(s) - i : b[j] = s[i + j]
  <2>1. \A j \in i + 1 .. Len(s) : s[j] \in S
    BY <1>1
  <2>2. /\ b \in Seq(S) /\ Len(b) = (IF i + 1 <= Len(s) THEN Len(s) - (i + 1) + 1 ELSE 0)
        /\ \A j \in 1 .. Len(s) - (i + 1) + 1 : b[j] = s[(i + 1) + j - 1]
    BY <1>1, <2>1, SubSeqProperties
  <2> HIDE DEF b
  <2> QED BY <1>1, <2>2
<1>4. RemoveAt(s, i) = a \o b
  BY DEF RemoveAt
<1> HIDE DEF a, b
<1>5. /\ a \o b \in Seq(S) /\ Len(a \o b) = Len(a) + Len(b)
      /\ \A j \in 1 .. Len(a) + Len(b) : (a \o b)[j] = IF j <= Len(a) THEN a[j] ELSE b[j - Len(a)]
  BY <1>2, <1>3, ConcatProperties
<1>6. Len(a) + Len(b) = Len(s) - 1
  BY <1>1, <1>2, <1>3
<1>7. ASSUME NEW j \in 1 .. Len(s) - 1
      PROVE  RemoveAt(s, i)[j] = IF j < i THEN s[j] ELSE s[j + 1]
  <2>1. RemoveAt(s, i)[j] = IF j <= i - 1 THEN a[j] ELSE b[j - (i - 1)]
    BY <1>2, <1>4, <1>5, <1>6
  <2>2. CASE j < i
    BY <1>1, <1>2, <2>1, <2>2
  <2>3. CASE j >= i
    BY <1>1, <2>3, <1>3, <2>1
  <2> QED BY <1>1, <2>2, <2>3
<1> QED BY <1>4, <1>5, <1>6, <1>7

\* A point is added to a history, whose oldest goes if it is too long.
LEMMA PointAdded ==
    ASSUME NEW S, NEW s \in Seq(S), NEW e \in S
    PROVE  LET r == LastPoints(Append(s, e)) IN r \in Seq(S) /\ Len(r) <= HistoryLength /\ Last(r) = e
<1> DEFINE a == Append(s, e)
           n == Len(s) + 1
           h == HistoryLength
<1>1. a \in Seq(S) /\ Len(a) = n /\ a[n] = e /\ n \in Nat /\ h \in Nat /\ h > 0
  BY MetricsAssumption
<1>2. \A j \in 1 .. n : a[j] \in S
  BY <1>1, ElementOfSeq
<1> HIDE DEF a, n, h
<1>3. CASE n <= h
  BY <1>1, <1>3 DEF LastPoints, Last, h, a
<1>4. CASE n > h
  <2> DEFINE r == SubSeq(a, n - h + 1, n)
  <2>1. LastPoints(a) = r
    BY <1>1, <1>4 DEF LastPoints, h
  <2>2. \A j \in n - h + 1 .. n : a[j] \in S
    BY <1>1, <1>2, <1>4
  <2>3. n - h + 1 \in Nat /\ n - h + 1 <= n
    BY <1>1, <1>4
  <2>4. /\ r \in Seq(S) /\ Len(r) = (IF n - h + 1 <= n THEN n - (n - h + 1) + 1 ELSE 0)
        /\ \A j \in 1 .. n - (n - h + 1) + 1 : r[j] = a[(n - h + 1) + j - 1]
    BY <1>1, <2>2, <2>3, SubSeqProperties
  <2> HIDE DEF r
  <2>5. Len(r) = h /\ r[h] = a[n]
    <3>1. n - (n - h + 1) + 1 = h /\ h \in 1 .. h /\ (n - h + 1) + h - 1 = n
      BY <1>1
    <3> QED BY <2>3, <2>4, <3>1
  <2>6. Last(r) = e /\ Len(r) <= h
    BY <1>1, <2>5 DEF Last
  <2> QED BY <2>1, <2>4, <2>6 DEF a, h
<1> QED BY <1>1, <1>3, <1>4

\* A non-empty set of places has a first one.
LEMMA LeastPlace ==
    ASSUME NEW S \in SUBSET Nat, S # {}
    PROVE  \E i \in S : \A j \in S : i <= j
<1> DEFINE Below == {p \in Nat \X Nat : p[1] < p[2]}
<1>1. IsWellFoundedOn(Below, Nat)
  BY NatLessThanWellFounded DEF OpToRel
<1> HIDE DEF Below
<1>2. PICK m \in S : \A k \in S : ~ (<<k, m>> \in Below)
  BY <1>1, WFMin
<1>3. \A k \in S : ~ (k < m)
  BY <1>2 DEF Below
<1> QED BY <1>3

\* Steps that leave the documents alone.
LEMMA DocsStill ==
    ASSUME DocsInv, metricDocs' = metricDocs, nextDoc' = nextDoc, remembered' = remembered,
           meddled' \in Meddling, meddled'.stored = meddled.stored, meddled.poisoned => meddled'.poisoned,
           snap'.at \notin {"get", "save"} \/ (snap'.at = snap.at /\ snap'.name = snap.name /\ snap'.doc = snap.doc)
    PROVE  DocsInv'
  BY DEF WithName, DocsInv, HeldSound

\* Looking a document up by its name keeps what is remembered true.
LEMMA FindDocs ==
    ASSUME DocsInv, SnapTypes, find_metric_by_name
    PROVE  DocsInv'
<1> DEFINE n == snap.name
           found == WithName(n)
<1>1. /\ snap \in SnapRecs /\ snap.at = "read" /\ n \in Families /\ metricDocs' = metricDocs /\ nextDoc' = nextDoc
      /\ meddled' = meddled /\ snap' = [snap EXCEPT !.at = "get"]
      /\ remembered' = IF found = {} THEN remembered ELSE [remembered EXCEPT ![n] = metricDocs[FirstPlace(found)].id]
  BY DEF find_metric_by_name, Persisting, SnapTypes
<1>2. snap'.at = "get" /\ snap'.name = n
  BY <1>1 DEF SnapRecs
<1>3. \A m : WithName(m)' = WithName(m)
  BY <1>1 DEF WithName
<1>4. found \in SUBSET (1 .. Len(metricDocs)) /\ \A i \in found : metricDocs[i].name = n
  BY DEF DocsInv, WithName
<1>5. CASE found = {}
  BY <1>1, <1>5, <1>2, <1>3 DEF HeldSound, DocsInv
<1>6. CASE found # {}
  <2> DEFINE p == FirstPlace(found)
  <2>1. p \in found
    BY <1>4, <1>6, LeastPlace DEF FirstPlace
  <2>2. p \in 1 .. Len(metricDocs) /\ metricDocs[p].id \in 1 .. nextDoc /\ metricDocs[p].name = n
    BY <1>4, <2>1 DEF DocsInv
  <2> HIDE DEF p
  <2>3. remembered' = [remembered EXCEPT ![n] = metricDocs[p].id]
    BY <1>1, <1>6 DEF p
  <2>4. remembered' \in [Families -> 0 .. nextDoc'] /\ remembered'[n] = metricDocs[p].id
    BY <2>2, <1>1, <2>3 DEF DocsInv
  <2>5. \A i \in 1 .. Len(metricDocs'), m \in Families : metricDocs'[i].id = remembered'[m] => metricDocs'[i].name = m
    <3>1. ASSUME NEW i \in 1 .. Len(metricDocs), NEW m \in Families, metricDocs[i].id = remembered'[m]
          PROVE  metricDocs[i].name = m
      BY <2>2, <2>4, <3>1, <2>3 DEF DocsInv
    <3> QED BY <1>1, <3>1
  <2>6. HeldSound(snap.at, snap.name, snap.doc)'
    BY <1>1, <2>1, <2>4, <1>2, <1>3 DEF DocsInv, HeldSound
  <2>7. \A i \in 1 .. Len(metricDocs') : HistorySound(metricDocs'[i])
    BY <1>1 DEF DocsInv
  <2> QED BY <1>1, <1>3, <2>4, <2>5, <2>6, <2>7 DEF DocsInv
<1> QED BY <1>5, <1>6

\* Getting a document: one that is there, readable, under the name looked for.
LEMMA GetDocs ==
    ASSUME DocsInv, SnapTypes, GetMetricDocument
    PROVE  DocsInv'
<1> DEFINE n == snap.name
           held == {metricDocs[i] : i \in {j \in WithId(remembered[n]) : metricDocs[j].readable}}
<1>1. /\ snap \in SnapRecs /\ snap.at = "get" /\ n \in Families /\ metricDocs' = metricDocs /\ nextDoc' = nextDoc
      /\ meddled' = meddled /\ remembered' = remembered /\ snap' = [snap EXCEPT !.at = "save", !.doc = held]
  BY DEF GetMetricDocument, Persisting, SnapTypes
<1>2. snap'.at = "save" /\ snap'.name = n /\ snap'.doc = held
  BY <1>1 DEF SnapRecs
<1>3. \A m : WithName(m)' = WithName(m)
  BY <1>1 DEF WithName
<1>4. DOMAIN metricDocs = 1 .. Len(metricDocs)
  BY DEF DocsInv
<1>5. ASSUME NEW d \in held
      PROVE  /\ d.name = n /\ d.id = remembered[n] /\ d.readable /\ HistorySound(d)
             /\ \A i \in 1 .. Len(metricDocs) : metricDocs[i].id = d.id => metricDocs[i] = d
  <2>1. PICK j \in 1 .. Len(metricDocs) : d = metricDocs[j] /\ metricDocs[j].id = remembered[n] /\ metricDocs[j].readable
    BY <1>4, <1>5 DEF WithId
  <2> QED BY <1>1, <2>1 DEF DocsInv
<1>6. ASSUME ~ meddled.stored, NEW i \in WithName(n) PROVE metricDocs[i] \in held
  BY <1>1, <1>6 DEF DocsInv, HeldSound, WithId, WithName
<1> HIDE DEF held
<1>7. HeldSound(snap.at, snap.name, snap.doc)'
  BY <1>1, <1>2, <1>3, <1>5, <1>6 DEF HeldSound
<1>8. \A i \in 1 .. Len(metricDocs') : HistorySound(metricDocs'[i])
  BY <1>1 DEF DocsInv
<1> QED BY <1>1, <1>3, <1>7, <1>8 DEF DocsInv

\* What is saved is sound, and readable unless the snapshot was disturbed.
LEMMA PointSound ==
    ASSUME SnapInv, snap.at = "save", NEW d \in PointDocs, HistorySound(d), d.name = snap.name
    PROVE  /\ WithPoint(d) \in PointDocs /\ HistorySound(WithPoint(d))
           /\ WithPoint(d).id = d.id /\ WithPoint(d).name = d.name
           /\ WithPoint(d).readable \/ snap.disturbed
<1> DEFINE S == IF d.name = "operations" THEN OpsPoints ELSE Points
           r == LastPoints(Append(d.data, snap.got))
<1>1. snap.got \in Points /\ snap.todo = <<>> /\ snap.name \in Families /\ snap.disturbed \in BOOLEAN
  BY DEF SnapInv, SnapTypes, SnapRecs
<1>2. snap.got \in S
  BY <1>1 DEF SnapInv, OpsRead, OpsPoints
<1>3. r \in Seq(S) /\ Len(r) <= HistoryLength /\ Last(r) = snap.got
  BY <1>2, PointAdded DEF HistorySound
<1>4. Readable(snap.got) \in BOOLEAN /\ (Readable(snap.got) \/ snap.disturbed)
  BY <1>1 DEF SnapInv, OpsRead, Readable, PerfRead, Ranged, Families
<1>5. r \in Seq(Points)
  <2>1. \A x \in S : x \in Points
    BY DEF OpsPoints
  <2> HIDE DEF S, r
  <2> QED BY <1>3, <2>1
<1>6. WithPoint(d) = [d EXCEPT !.data = r, !.current = snap.got, !.readable = Readable(snap.got)]
  BY DEF WithPoint
<1> HIDE DEF r
<1>7. /\ WithPoint(d) \in PointDocs /\ WithPoint(d).data = r /\ WithPoint(d).current = snap.got
      /\ WithPoint(d).id = d.id /\ WithPoint(d).name = d.name /\ WithPoint(d).readable = Readable(snap.got)
  BY <1>1, <1>4, <1>5, <1>6 DEF PointDocs
<1> QED BY <1>3, <1>4, <1>7 DEF HistorySound

LEMMA NewDocSound ==
    ASSUME NEW n \in Families, NEW mine \in BOOLEAN, nextDoc \in Nat
    PROVE  /\ NewDoc(n, mine) \in PointDocs /\ HistorySound(NewDoc(n, mine))
           /\ NewDoc(n, mine).id = nextDoc + 1 /\ NewDoc(n, mine).name = n /\ NewDoc(n, mine).readable
<1>1. <<>> \in Points /\ <<>> \in Seq(Points) /\ <<>> \in Seq(OpsPoints) /\ Len(<<>>) = 0
  BY DEF Points
<1>2. NewDoc(n, mine) \in PointDocs /\ NewDoc(n, mine).data = <<>> /\ NewDoc(n, mine).name = n
  BY <1>1 DEF NewDoc, PointDocs
<1>3. HistorySound(NewDoc(n, mine))
  BY <1>1, <1>2, MetricsAssumption DEF HistorySound
<1> QED BY <1>2, <1>3 DEF NewDoc

\* A new document among the others.
LEMMA DocInserted ==
    ASSUME DocsInv, NEW d \in PointDocs, d.id = nextDoc + 1, NEW i \in 1 .. Len(metricDocs) + 1,
           metricDocs' = InsertAt(metricDocs, i, d)
    PROVE  /\ metricDocs' \in Seq(PointDocs)
           /\ \A j \in 1 .. Len(metricDocs') :
                 metricDocs'[j] = d \/ \E k \in 1 .. Len(metricDocs) : metricDocs'[j] = metricDocs[k]
           /\ \A j, k \in 1 .. Len(metricDocs') : metricDocs'[j].id = metricDocs'[k].id => j = k
<1>1. metricDocs \in Seq(PointDocs) /\ Len(metricDocs) \in Nat /\ i \in Nat /\ nextDoc \in Nat
  BY LenProperties, MetricsAssumption DEF DocsInv
<1>2. /\ metricDocs' \in Seq(PointDocs) /\ Len(metricDocs') = Len(metricDocs) + 1
      /\ \A j \in 1 .. Len(metricDocs) + 1 :
            metricDocs'[j] = IF j < i THEN metricDocs[j] ELSE IF j = i THEN d ELSE metricDocs[j - 1]
  <2> DEFINE s == metricDocs
             r == InsertAt(s, i, d)
  <2>1. s \in Seq(PointDocs) /\ i \in 1 .. Len(s) + 1
    BY <1>1
  <2> HIDE DEF s
  <2>2. /\ r \in Seq(PointDocs) /\ Len(r) = Len(s) + 1
        /\ \A j \in 1 .. Len(s) + 1 : r[j] = IF j < i THEN s[j] ELSE IF j = i THEN d ELSE s[j - 1]
    <3> DEFINE P == PointDocs
    <3>1. s \in Seq(P) /\ i \in 1 .. Len(s) + 1 /\ d \in P
      BY <2>1
    <3> HIDE DEF P
    <3>2. /\ InsertAt(s, i, d) \in Seq(P) /\ Len(InsertAt(s, i, d)) = Len(s) + 1
          /\ \A j \in 1 .. Len(s) + 1 : InsertAt(s, i, d)[j] = IF j < i THEN s[j] ELSE IF j = i THEN d ELSE s[j - 1]
      <4>1. InsertAt(s, i, d) \in Seq(P) /\ Len(InsertAt(s, i, d)) = Len(s) + 1
        BY <3>1, InsertKeeps, SMTT(30)
      <4>2. ASSUME NEW j \in 1 .. Len(s) + 1
            PROVE  InsertAt(s, i, d)[j] = IF j < i THEN s[j] ELSE IF j = i THEN d ELSE s[j - 1]
        BY <3>1, InsertKeeps, SMTT(30)
      <4> QED BY <4>1, <4>2
    <3> QED BY <3>2 DEF P
  <2>3. metricDocs' = r
    BY DEF s
  <2> HIDE DEF r
  <2> QED BY <2>2, <2>3 DEF s
<1>3. \A j \in 1 .. Len(metricDocs) + 1 :
        /\ j < i => j \in 1 .. Len(metricDocs) /\ metricDocs'[j] = metricDocs[j]
        /\ j = i => metricDocs'[j] = d
        /\ j > i => j - 1 \in 1 .. Len(metricDocs) /\ metricDocs'[j] = metricDocs[j - 1]
  BY <1>1, <1>2
<1>4. \A j \in 1 .. Len(metricDocs) : metricDocs[j].id # d.id /\ metricDocs[j].id \in Nat
  BY <1>1 DEF DocsInv
<1>5. \A j, k \in 1 .. Len(metricDocs) : metricDocs[j].id = metricDocs[k].id => j = k
  BY DEF DocsInv
<1>a. ASSUME NEW j \in 1 .. Len(metricDocs) + 1, j # i PROVE metricDocs'[j].id # d.id
  <2>1. j < i \/ j > i
    BY <1>1, <1>a
  <2>2. CASE j < i
    BY <1>3, <1>4, <2>2
  <2>3. CASE j > i
    BY <1>3, <1>4, <2>3
  <2> QED BY <2>1, <2>2, <2>3
<1>b. metricDocs'[i] = d
  BY <1>3
<1>6. ASSUME NEW j \in 1 .. Len(metricDocs) + 1, NEW k \in 1 .. Len(metricDocs) + 1, metricDocs'[j].id = metricDocs'[k].id
      PROVE  j = k
  <2>1. CASE j = i
    BY <1>a, <1>b, <1>6, <2>1
  <2>2. CASE k = i
    BY <1>a, <1>b, <1>6, <2>2
  <2>3. CASE j < i /\ k < i
    BY <1>3, <1>5, <1>6, <2>3
  <2>4. CASE j > i /\ k > i
    <3>1. j - 1 = k - 1
      BY <1>3, <1>5, <1>6, <2>4
    <3> QED BY <1>1, <3>1
  <2>5. CASE j < i /\ k > i
    BY <1>3, <1>5, <1>6, <2>5, <1>1
  <2>6. CASE j > i /\ k < i
    BY <1>3, <1>5, <1>6, <2>6, <1>1
  <2> QED BY <1>1, <2>1, <2>2, <2>3, <2>4, <2>5, <2>6
<1>7. ASSUME NEW j \in 1 .. Len(metricDocs) + 1
      PROVE  metricDocs'[j] = d \/ \E k \in 1 .. Len(metricDocs) : metricDocs'[j] = metricDocs[k]
  BY <1>1, <1>3
<1> QED BY <1>2, <1>6, <1>7

\* The metric had no document, or none that could be read.
LEMMA SaveNew ==
    ASSUME DocsInv, SnapInv, snap.at = "save", snap.doc = {}, nextDoc < MaxMetricDocs, nextDoc' = nextDoc + 1,
           NEW i \in 1 .. Len(metricDocs) + 1,
           metricDocs' = InsertAt(metricDocs, i, WithPoint(NewDoc(snap.name, TRUE))),
           remembered' = [remembered EXCEPT ![snap.name] = IF @ = 0 THEN nextDoc + 1 ELSE @],
           meddled' = [meddled EXCEPT !.poisoned = @ \/ snap.disturbed],
           snap'.at \notin {"get", "save"}
    PROVE  DocsInv'
<1> DEFINE n == snap.name
           d == WithPoint(NewDoc(n, TRUE))
<1>1. /\ n \in Families /\ snap.disturbed \in BOOLEAN /\ nextDoc \in Nat /\ nextDoc' \in 0 .. MaxMetricDocs
      /\ MaxMetricDocs \in Nat
  BY MetricsAssumption, SMTT(30) DEF SnapInv, SnapTypes, SnapRecs, DocsInv
<1>2. NewDoc(n, TRUE) \in PointDocs /\ HistorySound(NewDoc(n, TRUE)) /\ NewDoc(n, TRUE).id = nextDoc + 1 /\ NewDoc(n, TRUE).name = n
  BY <1>1, NewDocSound
<1>3. d \in PointDocs /\ HistorySound(d) /\ d.id = nextDoc + 1 /\ d.name = n /\ (d.readable \/ snap.disturbed)
  BY <1>2, PointSound
<1> HIDE DEF d
<1>4. metricDocs' = InsertAt(metricDocs, i, d)
  BY DEF d
<1>5. /\ metricDocs' \in Seq(PointDocs)
      /\ \A j \in 1 .. Len(metricDocs') :
            metricDocs'[j] = d \/ \E k \in 1 .. Len(metricDocs) : metricDocs'[j] = metricDocs[k]
      /\ \A j, k \in 1 .. Len(metricDocs') : metricDocs'[j].id = metricDocs'[k].id => j = k
  BY <1>3, <1>4, DocInserted
<1>6. meddled' \in Meddling /\ meddled'.stored = meddled.stored /\ meddled'.poisoned = (meddled.poisoned \/ snap.disturbed)
  BY <1>1 DEF DocsInv, Meddling
<1>7. /\ remembered' \in [Families -> 0 .. nextDoc']
      /\ \A m \in Families : remembered'[m] = remembered[m] \/ (m = n /\ remembered'[m] = nextDoc + 1)
      /\ \A m \in Families : remembered[m] # nextDoc + 1
  BY <1>1 DEF DocsInv
<1>8. ASSUME NEW j \in 1 .. Len(metricDocs')
      PROVE  /\ metricDocs'[j].id \in 1 .. nextDoc' /\ HistorySound(metricDocs'[j])
             /\ metricDocs'[j].readable \/ meddled'.poisoned
             /\ \A m \in Families : metricDocs'[j].id = remembered'[m] => metricDocs'[j].name = m
  <2>1. CASE metricDocs'[j] = d
    <3>1. d.id \in 1 .. nextDoc'
      BY <1>1, <1>3
    <3>2. \A m \in Families : d.id = remembered'[m] => d.name = m
      BY <1>3, <1>7
    <3> QED BY <1>3, <1>6, <2>1, <3>1, <3>2
  <2>2. ASSUME NEW k \in 1 .. Len(metricDocs), metricDocs'[j] = metricDocs[k]
        PROVE  /\ metricDocs'[j].id \in 1 .. nextDoc' /\ HistorySound(metricDocs'[j])
               /\ metricDocs'[j].readable \/ meddled'.poisoned
               /\ \A m \in Families : metricDocs'[j].id = remembered'[m] => metricDocs'[j].name = m
    <3>1. metricDocs[k].id \in 1 .. nextDoc /\ HistorySound(metricDocs[k]) /\ (metricDocs[k].readable \/ meddled.poisoned)
      BY DEF DocsInv
    <3>2. metricDocs[k].id \in 1 .. nextDoc' /\ metricDocs[k].id # nextDoc + 1
      BY <1>1, <3>1
    <3>3. \A m \in Families : metricDocs[k].id = remembered'[m] => metricDocs[k].name = m
      BY <1>7, <3>2 DEF DocsInv
    <3> QED BY <1>6, <2>2, <3>1, <3>2, <3>3
  <2> QED BY <1>5, <2>1, <2>2
<1>9. ASSUME ~ meddled'.stored, NEW m \in Families, NEW j \in WithName(m)', NEW k \in WithName(m)' PROVE j = k
  <2>1. /\ j \in 1 .. Len(metricDocs') /\ k \in 1 .. Len(metricDocs') /\ metricDocs'[j].name = m /\ metricDocs'[j].readable
        /\ metricDocs'[k].name = m /\ metricDocs'[k].readable
    <3>1. \A r \in Seq(PointDocs) : DOMAIN r = 1 .. Len(r)
      OBVIOUS
    <3>2. DOMAIN metricDocs' = 1 .. Len(metricDocs')
      BY <1>5, <3>1
    <3> QED BY <1>9, <3>2 DEF WithName
  <2>2. WithName(n) = {}
    BY <1>6, <1>9 DEF DocsInv, HeldSound
  <2>3. \A p \in 1 .. Len(metricDocs) : metricDocs[p].name = m /\ metricDocs[p].readable => p \in WithName(m)
    BY DEF WithName, DocsInv
  <2>a. metricDocs'[j] = d \/ \E p \in 1 .. Len(metricDocs) : metricDocs'[j] = metricDocs[p]
    BY <1>5, <2>1
  <2>b. metricDocs'[k] = d \/ \E p \in 1 .. Len(metricDocs) : metricDocs'[k] = metricDocs[p]
    BY <1>5, <2>1
  <2>4. metricDocs'[j].id = metricDocs'[k].id
    <3>1. CASE m = n
      BY <2>1, <2>2, <2>3, <2>a, <3>1, <2>b
    <3>2. CASE m # n
      <4>a. PICK p \in 1 .. Len(metricDocs) : metricDocs'[j] = metricDocs[p]
        BY <1>3, <2>1, <2>a, <3>2
      <4>b. PICK q \in 1 .. Len(metricDocs) : metricDocs'[k] = metricDocs[q]
        BY <1>3, <2>1, <2>b, <3>2
      <4>1. metricDocs'[j] = metricDocs[p] /\ metricDocs'[k] = metricDocs[q]
        BY <4>a, <4>b
      <4>2. p \in WithName(m) /\ q \in WithName(m)
        BY <2>1, <2>3, <4>1
      <4>3. p = q
        BY <1>6, <1>9, <4>2 DEF DocsInv
      <4> QED BY <4>1, <4>3
    <3> QED BY <3>1, <3>2
  <2> QED BY <1>5, <2>1, <2>4
<1>10. HeldSound(snap.at, snap.name, snap.doc)'
  BY DEF HeldSound
<1> QED BY <1>1, <1>5, <1>6, <1>7, <1>8, <1>9, <1>10 DEF DocsInv

\* The metric had one: it is written over where it still is, if anything changed.
LEMMA SaveOver ==
    ASSUME DocsInv, SnapInv, snap.at = "save", NEW d \in snap.doc, nextDoc' = nextDoc, remembered' = remembered,
           metricDocs' = [i \in DOMAIN metricDocs |->
               IF metricDocs[i].id = d.id /\ d.current # snap.got THEN WithPoint(d) ELSE metricDocs[i]],
           meddled' = [meddled EXCEPT !.poisoned = @ \/ snap.disturbed],
           snap'.at \notin {"get", "save"}
    PROVE  DocsInv'
<1>1. snap.disturbed \in BOOLEAN /\ d \in PointDocs /\ HistorySound(d) /\ d.name = snap.name /\ d.readable
  BY DEF SnapInv, SnapTypes, SnapRecs, DocsInv, HeldSound
<1>2. /\ WithPoint(d) \in PointDocs /\ HistorySound(WithPoint(d)) /\ WithPoint(d).id = d.id /\ WithPoint(d).name = d.name
      /\ WithPoint(d).readable \/ snap.disturbed
  BY <1>1, PointSound
<1>3. \A i \in 1 .. Len(metricDocs) : metricDocs[i] \in PointDocs /\ (metricDocs[i].id = d.id => metricDocs[i] = d)
  BY ElementOfSeq DEF DocsInv, HeldSound
<1> DEFINE f == [i \in 1 .. Len(metricDocs) |->
               IF metricDocs[i].id = d.id /\ d.current # snap.got THEN WithPoint(d) ELSE metricDocs[i]]
<1>4. metricDocs \in Seq(PointDocs) /\ Len(metricDocs) \in Nat /\ DOMAIN metricDocs = 1 .. Len(metricDocs)
  BY LenProperties DEF DocsInv
<1>5. metricDocs' = f
  BY <1>4
<1>6. f \in [1 .. Len(metricDocs) -> PointDocs]
  BY <1>2, <1>3
<1>7. metricDocs' \in Seq(PointDocs) /\ Len(metricDocs') = Len(metricDocs)
  BY <1>4, <1>5, <1>6, SeqDef, LenProperties
<1>8. ASSUME NEW i \in 1 .. Len(metricDocs)
      PROVE  /\ metricDocs'[i] = metricDocs[i] \/ (metricDocs'[i] = WithPoint(d) /\ metricDocs[i] = d)
             /\ metricDocs'[i].id = metricDocs[i].id /\ metricDocs'[i].name = metricDocs[i].name
             /\ metricDocs'[i].readable => metricDocs[i].readable
  BY <1>5, <1>1, <1>2, <1>3
<1> HIDE DEF f
<1>9. meddled' \in Meddling /\ meddled'.stored = meddled.stored /\ meddled'.poisoned = (meddled.poisoned \/ snap.disturbed)
  BY <1>1 DEF DocsInv, Meddling
<1>10. ASSUME NEW i \in 1 .. Len(metricDocs')
       PROVE  /\ metricDocs'[i].id \in 1 .. nextDoc' /\ HistorySound(metricDocs'[i])
              /\ metricDocs'[i].readable \/ meddled'.poisoned
              /\ \A m \in Families : metricDocs'[i].id = remembered'[m] => metricDocs'[i].name = m
  <2>1. i \in 1 .. Len(metricDocs)
    BY <1>7
  <2>2. /\ metricDocs[i].id \in 1 .. nextDoc /\ HistorySound(metricDocs[i])
        /\ metricDocs[i].readable \/ meddled.poisoned
        /\ \A m \in Families : metricDocs[i].id = remembered[m] => metricDocs[i].name = m
    BY <2>1 DEF DocsInv
  <2>3. HistorySound(metricDocs'[i]) /\ (metricDocs'[i].readable \/ meddled'.poisoned)
    BY <1>2, <1>8, <1>9, <2>1, <2>2
  <2> QED BY <1>8, <2>1, <2>2, <2>3
<1>11. \A i, j \in 1 .. Len(metricDocs') : metricDocs'[i].id = metricDocs'[j].id => i = j
  <2>1. \A i, j \in 1 .. Len(metricDocs) : metricDocs[i].id = metricDocs[j].id => i = j
    BY DEF DocsInv
  <2>2. \A i \in 1 .. Len(metricDocs) : metricDocs'[i].id = metricDocs[i].id
    BY <1>8
  <2>3. 1 .. Len(metricDocs') = 1 .. Len(metricDocs)
    BY <1>7
  <2>4. ASSUME NEW i \in 1 .. Len(metricDocs'), NEW j \in 1 .. Len(metricDocs'), metricDocs'[i].id = metricDocs'[j].id
        PROVE  i = j
    BY <2>1, <2>2, <2>3, <2>4
  <2> QED BY <2>4
<1>12. \A m : WithName(m)' \subseteq WithName(m)
  BY <1>4, <1>5, <1>6, <1>8 DEF WithName
<1>13. HeldSound(snap.at, snap.name, snap.doc)'
  BY DEF HeldSound
<1>14. ~ meddled'.stored => \A n \in Families : \A i, j \in WithName(n)' : i = j
  BY <1>9, <1>12 DEF DocsInv
<1> QED BY <1>7, <1>9, <1>10, <1>11, <1>13, <1>14 DEF DocsInv

LEMMA SnapKeepsDocs ==
    ASSUME CountInv, SnapInv, DocsInv, SnapStep
    PROVE  DocsInv'
<1>1. snap \in SnapRecs /\ SnapTypes /\ meddled \in Meddling /\ snap.disturbed \in BOOLEAN
  BY DEF SnapInv, SnapTypes, DocsInv, SnapRecs
<1>2. CASE save_metrics_snapshot
  BY <1>1, <1>2, DocsStill DEF save_metrics_snapshot, Reading, Sleeping, Persisting
<1>3. CASE ReadMetric
  BY <1>1, <1>3, DocsStill DEF ReadMetric, Persisting, SnapRecs, Meddling
<1>4. CASE find_metric_by_name
  BY <1>1, <1>4, FindDocs
<1>5. CASE GetMetricDocument
  BY <1>1, <1>5, GetDocs
<1>6. CASE update_metric_document
  <2>1. /\ snap.at = "save" /\ snap.taken \in Nat
        /\ meddled' = [meddled EXCEPT !.poisoned = @ \/ snap.disturbed]
    BY <1>1, <1>6 DEF update_metric_document, Persisting, SnapRecs
  <2>2. snap' \in {Reading("performance", snap.taken), Sleeping(snap.taken)}
    BY <1>6 DEF update_metric_document
  <2>3. snap'.at \notin {"get", "save"}
    BY <2>1, <2>2, FreshReading DEF Families
  <2>4. CASE snap.doc = {}
    <3>1. PICK i \in 1 .. Len(metricDocs) + 1 : metricDocs' = InsertAt(metricDocs, i, WithPoint(NewDoc(snap.name, TRUE)))
      BY <1>6, <2>4 DEF update_metric_document
    <3>2. /\ nextDoc < MaxMetricDocs /\ nextDoc' = nextDoc + 1
          /\ remembered' = [remembered EXCEPT ![snap.name] = IF @ = 0 THEN nextDoc + 1 ELSE @]
      BY <1>6, <2>4 DEF update_metric_document
    <3> QED BY <2>1, <2>3, <2>4, <3>1, <3>2, SaveNew
  <2>5. CASE snap.doc # {}
    <3>1. PICK d \in snap.doc : metricDocs' = [i \in DOMAIN metricDocs |->
                   IF metricDocs[i].id = d.id /\ d.current # snap.got THEN WithPoint(d) ELSE metricDocs[i]]
      BY <1>6, <2>5 DEF update_metric_document
    <3>2. nextDoc' = nextDoc /\ remembered' = remembered
      BY <1>6, <2>5 DEF update_metric_document
    <3> QED BY <2>1, <2>3, <3>1, <3>2, SaveOver
  <2> QED BY <2>4, <2>5
<1> QED BY <1>2, <1>3, <1>4, <1>5, <1>6 DEF SnapStep

\* Requests delete documents of metrics, and store some.
LEMMA ClientDeletes ==
    ASSUME DocsInv, NEW i \in DOMAIN metricDocs, virtual_delete(i)
    PROVE  DocsInv'
<1>1. /\ metricDocs \in Seq(PointDocs) /\ Len(metricDocs) \in Nat /\ DOMAIN metricDocs = 1 .. Len(metricDocs)
      /\ meddled \in Meddling
  BY LenProperties DEF DocsInv
<1>2. /\ metricDocs' = RemoveAt(metricDocs, i) /\ meddled' = [meddled EXCEPT !.deleted = TRUE]
      /\ snap' = snap /\ remembered' = remembered /\ nextDoc' = nextDoc
  BY DEF virtual_delete
<1>3. meddled' \in Meddling /\ meddled'.stored = meddled.stored /\ meddled'.poisoned = meddled.poisoned
  BY <1>1, <1>2 DEF Meddling
<1> DEFINE r == RemoveAt(metricDocs, i)
           old(j) == IF j < i THEN j ELSE j + 1
<1>4. /\ r \in Seq(PointDocs) /\ Len(r) = Len(metricDocs) - 1
      /\ \A j \in 1 .. Len(metricDocs) - 1 : r[j] = IF j < i THEN metricDocs[j] ELSE metricDocs[j + 1]
  BY <1>1, RemoveKeeps
<1> HIDE DEF r
<1>5. /\ \A j \in 1 .. Len(r) : old(j) \in 1 .. Len(metricDocs) /\ r[j] = metricDocs[old(j)]
      /\ \A j, k \in 1 .. Len(r) : old(j) = old(k) => j = k
  BY <1>1, <1>4, SMTT(30)
<1>6. DOMAIN r = 1 .. Len(r) /\ metricDocs' = r
  BY <1>2, <1>4 DEF r
<1> HIDE DEF old
<1>7. \A m : \A j \in WithName(m)' : j \in 1 .. Len(r) /\ old(j) \in WithName(m)
  BY <1>1, <1>5, <1>6 DEF WithName
<1>8. \A j \in 1 .. Len(r) : /\ r[j].id \in 1 .. nextDoc /\ HistorySound(r[j])
                             /\ r[j].readable \/ meddled.poisoned
                             /\ \A n \in Families : r[j].id = remembered[n] => r[j].name = n
  BY <1>5 DEF DocsInv
<1>9. \A j, k \in 1 .. Len(r) : r[j].id = r[k].id => j = k
  BY <1>5 DEF DocsInv
<1>10. ~ meddled.stored => \A n \in Families : \A j, k \in WithName(n)' : j = k
  BY <1>5, <1>7 DEF DocsInv
<1>11. HeldSound(snap.at, snap.name, snap.doc)'
  BY <1>2, <1>6, <1>5, <1>1, <1>3 DEF DocsInv, WithName, HeldSound
<1> QED BY <1>2, <1>3, <1>4, <1>6, <1>8, <1>9, <1>10, <1>11 DEF DocsInv

LEMMA ClientStores ==
    ASSUME SnapInv, DocsInv, NEW n \in Families, storage_insert_document(n)
    PROVE  DocsInv'
<1> DEFINE d == NewDoc(n, FALSE)
<1>1. /\ nextDoc \in Nat /\ nextDoc < MaxMetricDocs /\ MaxMetricDocs \in Nat /\ nextDoc' = nextDoc + 1
      /\ meddled' = [meddled EXCEPT !.stored = TRUE] /\ meddled \in Meddling /\ snap' = snap /\ remembered' = remembered
  BY MetricsAssumption DEF storage_insert_document, DocsInv
<1>2. PICK i \in 1 .. Len(metricDocs) + 1 : metricDocs' = InsertAt(metricDocs, i, d)
  BY DEF storage_insert_document
<1>3. d \in PointDocs /\ HistorySound(d) /\ d.id = nextDoc + 1 /\ d.name = n /\ d.readable
  BY <1>1, NewDocSound
<1> HIDE DEF d
<1>4. /\ metricDocs' \in Seq(PointDocs)
      /\ \A j \in 1 .. Len(metricDocs') :
            metricDocs'[j] = d \/ \E k \in 1 .. Len(metricDocs) : metricDocs'[j] = metricDocs[k]
      /\ \A j, k \in 1 .. Len(metricDocs') : metricDocs'[j].id = metricDocs'[k].id => j = k
  BY <1>2, <1>3, DocInserted
<1>5. meddled' \in Meddling /\ meddled'.stored /\ meddled'.poisoned = meddled.poisoned
  BY <1>1 DEF Meddling
<1>6. /\ remembered' \in [Families -> 0 .. nextDoc'] /\ nextDoc' \in 0 .. MaxMetricDocs
      /\ \A m \in Families : remembered[m] # nextDoc + 1
  BY <1>1 DEF DocsInv
<1>7. ASSUME NEW j \in 1 .. Len(metricDocs')
      PROVE  /\ metricDocs'[j].id \in 1 .. nextDoc' /\ HistorySound(metricDocs'[j])
             /\ metricDocs'[j].readable \/ meddled'.poisoned
             /\ \A m \in Families : metricDocs'[j].id = remembered'[m] => metricDocs'[j].name = m
  BY <1>1, <1>3, <1>6, <1>5, <1>4 DEF DocsInv
<1>8. HeldSound(snap.at, snap.name, snap.doc)'
  <2>1. ASSUME snap.at = "save", NEW e \in snap.doc
        PROVE  /\ e.name = snap.name /\ e.id = remembered[snap.name] /\ e.readable /\ HistorySound(e)
               /\ \A j \in 1 .. Len(metricDocs') : metricDocs'[j].id = e.id => metricDocs'[j] = e
    <3>1. /\ e.name = snap.name /\ e.id = remembered[snap.name] /\ e.readable /\ HistorySound(e)
          /\ \A j \in 1 .. Len(metricDocs) : metricDocs[j].id = e.id => metricDocs[j] = e
      BY <2>1 DEF DocsInv, HeldSound
    <3>2. e.id # d.id
      BY <1>3, <1>6, <2>1, <3>1 DEF SnapInv, SnapTypes
    <3> QED BY <1>4, <3>1, <3>2
  <2> QED BY <1>1, <1>5, <2>1 DEF HeldSound
<1> QED BY <1>1, <1>4, <1>5, <1>6, <1>7, <1>8 DEF DocsInv

-----------------------------------------------------------------------------
(* Metrics: freed metrics, exports and the metrics of libraries.           *)

\* Metrics are freed once; a snapshot that was running then goes on reading them.
FreedInv ==
    /\ registry \in {"live", "freed"}
    /\ registry = "live" => ~ meddled.freedRead
    /\ registry = "freed" /\ Awake(snap) => meddled.caught
    /\ meddled.freedRead => meddled.caught

\* The file is empty from when an export opens it until one closes it, unless another opened
\* it in between.
Open == {e \in {"auto", "request"} : exporters[e] = "open"}
ExportInv ==
    /\ exporters \in [{"auto", "request"} -> {"idle", "open", "gone"}] /\ exportsMet \in Nat
    /\ exportFile = "empty" => Open # {}
    /\ Open # {} /\ exportFile # "empty" => exportsMet > 0
    /\ "auto" \in Open /\ "request" \in Open => exportsMet > 0
    /\ exportFile = "mixed" => exportsMet > 0

RecordsInv ==
    /\ libraryRecords \in Seq([library : LibraryNames, type : LibraryTypes, num : Nat])
    /\ LibrariesAnswerDefault

\* What holds of the metrics in every reachable state.
MetricsInv == CountInv /\ SnapInv /\ DocsInv /\ FreedInv /\ ExportInv /\ RecordsInv

ClientStep  == (\E i \in DOMAIN metricDocs : virtual_delete(i)) \/ (\E name \in Families : storage_insert_document(name))
ExportStep  == auto_export_thread \/ health_api_handle_metrics_export \/ (\E e \in DOMAIN exporters : CloseExport(e))
RecordsStep == \/ \E l \in LibraryNames : library_metrics_aggregate(l) \/ \E k \in LibraryTypes : library_metrics_record(l, k)
               \/ \E q \in DOMAIN queried : ForgetQuery(q)

LEMMA CountsStill ==
    ASSUME CountInv, SnapInv, UNCHANGED countVars, snap' = snap
    PROVE  CountInv' /\ SnapInv'
  BY DEF countVars, CountInv, CountTypes, Gauged, Timed, ConnectionsAt, SnapInv, SnapTypes

\* A step of the thread leaves the counters alone.
LEMMA SnapCounts ==
    ASSUME CountInv, SnapStep
    PROVE  CountInv'
  BY DEF SnapStep, save_metrics_snapshot, ReadMetric, find_metric_by_name, GetMetricDocument, update_metric_document,
     Persisting, countVars, CountInv, CountTypes, Gauged, Timed, ConnectionsAt

\* What a connection's step leaves alone.
LEMMA ConnLeaves ==
    ASSUME NEW t \in MThreads, ConnStep(t)
    PROVE  /\ UNCHANGED <<registry, metricDocs, remembered, nextDoc, meddled, exportVars, libraryMetricVars>>
           /\ snap' = [snap EXCEPT !.disturbed = snap'.disturbed] \/ snap' = snap
<1> DEFINE step == stage[t].at
<1>1. Serving(t, step)
  BY DEF handle_client, fcntl_fails, ReadRequest, api_dispatch_request, Handler, Serving, CountOperation, keep_alive,
     metrics_timer_stop, metrics_timer_observe, metrics_gauge_dec, ConnStep
<1> HIDE DEF step
<1>2. snap' = [snap EXCEPT !.disturbed = @ \/ (Awake(snap) /\ Observing(step))]
  BY <1>1 DEF Serving
<1> QED BY <1>1, <1>2 DEF Serving

LEMMA FreedKept ==
    ASSUME SnapInv, DocsInv, FreedInv, [MetricsNext]_metricsVars
    PROVE  FreedInv'
<1>1. snap \in SnapRecs /\ meddled \in Meddling /\ registry \in {"live", "freed"}
  BY DEF SnapInv, SnapTypes, DocsInv, FreedInv
<1>2. ASSUME NEW t \in MThreads, ConnStep(t) PROVE FreedInv'
  BY <1>2, ConnLeaves, <1>1 DEF SnapRecs, FreedInv, Awake
<1>3. CASE save_metrics_snapshot
  BY <1>3 DEF save_metrics_snapshot, Persisting, FreedInv
<1>4. CASE ReadMetric
  BY <1>1, <1>4 DEF ReadMetric, Persisting, SnapRecs, Meddling, FreedInv, Awake
<1>5. CASE find_metric_by_name \/ GetMetricDocument
  BY <1>5 DEF find_metric_by_name, GetMetricDocument, Persisting, Awake, FreedInv
<1>6. CASE update_metric_document
  BY <1>6, <1>1 DEF update_metric_document, Persisting, Awake, Meddling, FreedInv
<1>7. CASE ClientStep
  BY <1>7, <1>1 DEF ClientStep, virtual_delete, storage_insert_document, Meddling, FreedInv
<1>8. CASE cleanup_metrics
  BY <1>8, <1>1 DEF cleanup_metrics, snapVars, Meddling, FreedInv
<1>9. CASE ExportStep
  BY <1>9 DEF ExportStep, auto_export_thread, health_api_handle_metrics_export, metrics_registry_export, CloseExport,
              Exporting, snapVars, FreedInv
<1>10. CASE RecordsStep
  BY <1>10 DEF RecordsStep, library_metrics_aggregate, library_metrics_record, ForgetQuery, ForLibraries, snapVars, FreedInv
<1>11. CASE UNCHANGED metricsVars
  BY <1>11 DEF metricsVars, snapVars, FreedInv
<1> QED BY <1>2, <1>3, <1>4, <1>5, <1>6, <1>7, <1>8, <1>9, <1>10, <1>11
        DEF MetricsNext, ConnStep, ClientStep, ExportStep, RecordsStep

LEMMA ExportKept ==
    ASSUME ExportInv, [MetricsNext]_metricsVars
    PROVE  ExportInv'
<1>1. /\ exporters \in [{"auto", "request"} -> {"idle", "open", "gone"}] /\ exportsMet \in Nat
      /\ DOMAIN exporters = {"auto", "request"}
  BY DEF ExportInv
<1>2. CASE UNCHANGED exportVars
  BY <1>2 DEF ExportInv, Open, exportVars
<1>3. ASSUME NEW e \in {"auto", "request"}, metrics_registry_export(e)
      PROVE  ExportInv'
  BY <1>1, <1>3 DEF metrics_registry_export, Exporting, Open, ExportInv
<1>4. ASSUME NEW e \in {"auto", "request"}, CloseExport(e)
      PROVE  ExportInv'
  BY <1>4, <1>1 DEF CloseExport, Exporting, Open, ExportInv
<1>5. CASE cleanup_metrics
  BY <1>5, <1>1 DEF cleanup_metrics, Open, ExportInv
<1>6. ASSUME NEW t \in MThreads, ConnStep(t) PROVE UNCHANGED exportVars
  BY <1>6, ConnLeaves
<1>7. CASE SnapStep
  BY <1>2, <1>7 DEF SnapStep, save_metrics_snapshot, ReadMetric, find_metric_by_name, GetMetricDocument, update_metric_document, Persisting
<1>8. CASE ClientStep \/ RecordsStep
  BY <1>2, <1>8 DEF ClientStep, virtual_delete, storage_insert_document, RecordsStep, library_metrics_aggregate,
                    library_metrics_record, ForgetQuery, ForLibraries
<1>9. CASE UNCHANGED metricsVars
  BY <1>2, <1>9 DEF metricsVars
<1> QED BY <1>1, <1>2, <1>3, <1>4, <1>5, <1>6, <1>7, <1>8, <1>9
        DEF MetricsNext, ConnStep, SnapStep, ClientStep, RecordsStep, auto_export_thread, health_api_handle_metrics_export

LEMMA RecordsKept ==
    ASSUME RecordsInv, [MetricsNext]_metricsVars
    PROVE  RecordsInv'
<1> DEFINE R == [library : LibraryNames, type : LibraryTypes, num : Nat]
<1>1. libraryRecords \in Seq(R) /\ DOMAIN libraryRecords = 1 .. Len(libraryRecords) /\ Len(libraryRecords) \in Nat
  BY LenProperties DEF RecordsInv
<1>2. CASE UNCHANGED libraryMetricVars
  BY <1>2 DEF RecordsInv, LibrariesAnswerDefault, libraryMetricVars
<1>3. ASSUME NEW l \in LibraryNames, NEW k \in LibraryTypes, library_metrics_record(l, k)
      PROVE  RecordsInv'
  <2> DEFINE e == [library |-> l, type |-> k, num |-> Len(libraryRecords)]
  <2>1. PICK i \in 1 .. Len(libraryRecords) + 1 : libraryRecords' = InsertAt(libraryRecords, i, e)
    BY <1>3 DEF library_metrics_record
  <2>2. queried' = queried
    BY <1>3 DEF library_metrics_record
  <2>3. e \in R
    BY <1>1
  <2> HIDE DEF R, e
  <2>4. libraryRecords' \in Seq(R)
    BY <1>1, <2>1, <2>3, InsertKeeps
  <2> QED BY <2>2, <2>4 DEF RecordsInv, LibrariesAnswerDefault, R
<1>4. ASSUME NEW l \in LibraryNames, library_metrics_aggregate(l)
      PROVE  RecordsInv'
  <2>1. /\ libraryRecords' = libraryRecords
        /\ queried' = [q \in DOMAIN queried \cup ({l} \X LibraryTypes) |-> IF q \in DOMAIN queried THEN queried[q] ELSE FirstFound(q[2])]
    BY <1>4 DEF library_metrics_aggregate
  <2>2. ASSUME NEW k, NEW r \in FirstFound(k) PROVE r.library = "default" /\ r.type = k
    <3> DEFINE S == library_metrics_query(k)
    <3>1. S \in SUBSET Nat /\ S # {} /\ r = libraryRecords[FirstPlace(S)]
      BY <1>1, <2>2 DEF FirstFound, library_metrics_query
    <3>2. \A i \in S : libraryRecords[i].library = "default" /\ libraryRecords[i].type = k
      BY DEF library_metrics_query
    <3> HIDE DEF S
    <3>3. FirstPlace(S) \in S
      BY <3>1, LeastPlace DEF FirstPlace
    <3> QED BY <3>1, <3>2, <3>3
  <2>3. LibrariesAnswerDefault'
    BY <2>1, <2>2 DEF RecordsInv, LibrariesAnswerDefault
  <2> QED BY <2>1, <2>3 DEF RecordsInv
<1>5. ASSUME NEW q \in DOMAIN queried, ForgetQuery(q)
      PROVE  RecordsInv'
  BY <1>5 DEF ForgetQuery, RecordsInv, LibrariesAnswerDefault
<1>6. ASSUME NEW t \in MThreads, ConnStep(t) PROVE UNCHANGED libraryMetricVars
  BY <1>6, ConnLeaves
<1>7. CASE SnapStep
  BY <1>2, <1>7 DEF SnapStep, save_metrics_snapshot, ReadMetric, find_metric_by_name, GetMetricDocument, update_metric_document, Persisting
<1>8. CASE ClientStep \/ cleanup_metrics \/ ExportStep
  BY <1>2, <1>8 DEF ClientStep, virtual_delete, storage_insert_document, cleanup_metrics, ExportStep, auto_export_thread,
                    health_api_handle_metrics_export, metrics_registry_export, CloseExport, Exporting
<1>9. CASE UNCHANGED metricsVars
  BY <1>2, <1>9 DEF metricsVars
<1> QED BY <1>2, <1>3, <1>4, <1>5, <1>6, <1>7, <1>8, <1>9 DEF MetricsNext, ConnStep, SnapStep, ClientStep, ExportStep

\* An exchange of documents keeps what is known of them.
LEMMA DocsKept ==
    ASSUME CountInv, SnapInv, DocsInv, [MetricsNext]_metricsVars
    PROVE  DocsInv'
<1>1. snap \in SnapRecs /\ meddled \in Meddling
  BY DEF SnapInv, SnapTypes, DocsInv
<1>2. ASSUME NEW t \in MThreads, ConnStep(t) PROVE DocsInv'
  BY <1>2, ConnLeaves, <1>1, DocsStill DEF SnapRecs
<1>3. CASE SnapStep
  BY <1>3, SnapKeepsDocs
<1>4. CASE ClientStep
  BY <1>4, ClientDeletes, ClientStores DEF ClientStep
<1>5. CASE cleanup_metrics
  BY <1>5, <1>1, DocsStill DEF cleanup_metrics, snapVars, Awake, Meddling
<1>6. CASE ExportStep \/ RecordsStep \/ UNCHANGED metricsVars
  <2>1. UNCHANGED <<metricDocs, remembered, nextDoc, snap, meddled>>
    BY <1>6 DEF ExportStep, auto_export_thread, health_api_handle_metrics_export, metrics_registry_export, CloseExport, Exporting,
                RecordsStep, library_metrics_aggregate, library_metrics_record, ForgetQuery, ForLibraries, snapVars, metricsVars
  <2> QED BY <1>1, <2>1, DocsStill
<1> QED BY <1>2, <1>3, <1>4, <1>5, <1>6 DEF MetricsNext, ConnStep, SnapStep, ClientStep, ExportStep, RecordsStep

LEMMA MetricsInvKept ==
    ASSUME MetricsInv, [MetricsNext]_metricsVars
    PROVE  MetricsInv'
<1>1. CountInv' /\ SnapInv'
  <2>1. ASSUME NEW t \in MThreads, ConnStep(t) PROVE CountInv' /\ SnapInv'
    BY <2>1, ConnCounts, ConnKeepsSnap DEF MetricsInv
  <2>2. CASE SnapStep
    BY <2>2, SnapCounts, SnapKeepsSnap DEF MetricsInv
  <2>3. CASE ClientStep \/ cleanup_metrics \/ ExportStep \/ RecordsStep \/ UNCHANGED metricsVars
    <3>1. UNCHANGED countVars /\ snap' = snap
      BY <2>3 DEF ClientStep, virtual_delete, storage_insert_document, cleanup_metrics, ExportStep, auto_export_thread,
                  health_api_handle_metrics_export, metrics_registry_export, CloseExport, Exporting, RecordsStep,
                  library_metrics_aggregate, library_metrics_record, ForgetQuery, ForLibraries, snapVars, metricsVars
    <3> QED BY <3>1, CountsStill DEF MetricsInv
  <2> QED BY <2>1, <2>2, <2>3 DEF MetricsInv, MetricsNext, ConnStep, SnapStep, ClientStep, ExportStep, RecordsStep
<1> QED BY <1>1, DocsKept, FreedKept, ExportKept, RecordsKept DEF MetricsInv

LEMMA MetricsInvAtFirst ==
    ASSUME MetricsInit
    PROVE  MetricsInv
<1>1. CountInv
  <2>1. /\ \A S \in SUBSET Stages : "idle" \notin S => ConnectionsAt(stage, S) = 0
    BY FS_EmptySet DEF MetricsInit, ConnectionsAt
  <2>2. CountTypes
    BY MetricsAssumption DEF MetricsInit, init_metrics, CountTypes, MetricRecs, StageRecs, Stages
  <2>3. /\ ConnectionsAt(stage, Stages \ {"idle"}) = 0 /\ ConnectionsAt(stage, {"reading"}) = 0 /\ ConnectionsAt(stage, {"reads", "writes"}) = 0
    BY <2>1 DEF Stages
  <2>4. Gauged
    BY <2>3 DEF MetricsInit, init_metrics, Gauged
  <2>5. Timed
    BY DEF MetricsInit, init_metrics, Timed, Between
  <2> QED BY <2>2, <2>4, <2>5 DEF CountInv
<1>2. SnapInv
  <2>1. <<>> \in Points
    BY DEF Points, MetricNames
  <2>2. snap \in SnapRecs /\ snap.at = "asleep"
    BY <2>1 DEF MetricsInit, Sleeping, SnapRecs
  <2> QED BY <2>2 DEF SnapInv, SnapTypes
<1>3. DocsInv
  BY MetricsAssumption DEF MetricsInit, DocsInv, Sleeping, HeldSound, WithName, Meddling
<1>4. FreedInv /\ ExportInv /\ RecordsInv
  BY DEF MetricsInit, init_metrics, FreedInv, Awake, Sleeping, ExportInv, Open, RecordsInv, LibrariesAnswerDefault
<1> QED BY <1>1, <1>2, <1>3, <1>4 DEF MetricsInv

-----------------------------------------------------------------------------
(* Metrics: what follows from the invariant.                               *)

LEMMA FewOfEqual ==
    ASSUME NEW S, \A x, y \in S : x = y
    PROVE  Cardinality(S) <= 1
<1>1. CASE S = {}
  BY <1>1, FS_EmptySet
<1>2. CASE S # {}
  <2>1. PICK x \in S : S = {x}
    BY <1>2
  <2> QED BY <2>1, FS_Singleton
<1> QED BY <1>1, <1>2

LEMMA ValuesFollow ==
    ASSUME MetricsInv
    PROVE  MetricValuesOK /\ GaugeAndRequestsExplained
<1>1. /\ metric \in MetricRecs /\ stage \in [MThreads -> StageRecs]
      /\ tally \in [connections : Nat, dispatched : Nat, leaked : Nat]
      /\ \A t, u \in observing : t = u
  BY DEF MetricsInv, CountInv, CountTypes
<1>2. MetricValuesOK
  <2>1. DOMAIN metric = MetricNames
    BY <1>1 DEF MetricRecs, MetricNames
  <2>2. \A f \in MetricNames : metric[f] \in Nat
    BY <1>1 DEF MetricRecs, MetricNames
  <2>3. DOMAIN metricDocs = 1 .. Len(metricDocs) /\ nextDoc <= MaxMetricDocs
    BY MetricsAssumption, LenProperties DEF MetricsInv, DocsInv
  <2> QED BY <1>1, <2>1, <2>2, <2>3, FewOfEqual DEF MetricValuesOK, MetricsInv, DocsInv
<1>3. GaugeAndRequestsExplained
  <2>1. {t \in MThreads : stage[t].at # "idle"} = {t \in MThreads : stage[t].at \in Stages \ {"idle"}}
    BY <1>1 DEF StageRecs
  <2>2. ConnectionsAt(stage, {"reading"}) \in Nat
    BY CountOf
  <2>3. /\ metric.active = ConnectionsAt(stage, Stages \ {"idle"}) + tally.leaked
        /\ tally.dispatched <= metric.requests
        /\ metric.requests + ConnectionsAt(stage, {"reading"}) <= tally.dispatched + tally.connections
    BY DEF MetricsInv, CountInv, Gauged
  <2>4. metric.requests \in Nat /\ tally.dispatched \in Nat /\ tally.connections \in Nat
    BY <1>1 DEF MetricRecs
  <2>5. metric.requests >= tally.dispatched /\ metric.requests <= tally.dispatched + tally.connections
    BY <2>2, <2>3, <2>4
  <2> QED BY <2>1, <2>3, <2>5 DEF GaugeAndRequestsExplained, ConnectionsAt
<1> QED BY <1>2, <1>3

LEMMA ProductsAreNat ==
    ASSUME NEW n \in Nat, NEW lo \in Nat
    PROVE  n * lo \in Nat
OBVIOUS

LEMMA TimerFollows ==
    ASSUME MetricsInv
    PROVE  TimerAddsUp
<1> DEFINE report == metrics_get_json
<1>1. metric \in MetricRecs
  BY DEF MetricsInv, CountInv, CountTypes
<1>2. /\ metric.count \in Nat /\ metric.sum \in Nat /\ metric.min \in Nat /\ metric.max \in Nat
      /\ TimerParts \subseteq DOMAIN metric
  BY <1>1 DEF MetricRecs, TimerParts
<1>3. \A f \in TimerParts : report[f] = IF metric.count = 0 THEN 0 ELSE metric[f]
  BY <1>2 DEF metrics_get_json
<1> HIDE DEF report
<1>4. ASSUME observing = {}
      PROVE  report.min # Infinite /\ report.sum \in report.count * report.min .. report.count * report.max
  BY <1>4, <1>3, MetricsAssumption, <1>2, ProductsAreNat DEF MetricsInv, CountInv, Timed, TimerParts, Between
<1>5. health_api_handle_metrics(FALSE) \cap (health_api_handle_metrics_available.counters \cup {"count"}) = {}
  BY DEF health_api_handle_metrics, health_api_handle_metrics_available, TimerParts
<1> QED BY <1>4, <1>5 DEF TimerAddsUp, report

LEMMA PointsFollow ==
    ASSUME MetricsInv
    PROVE  PointsNeverShort /\ PointInRange /\ UnreadableOnlyIfMet
<1>1. DOMAIN metricDocs = 1 .. Len(metricDocs)
  BY LenProperties DEF MetricsInv, DocsInv
<1>2. PointsNeverShort
  <2>1. ASSUME NEW i \in 1 .. Len(metricDocs), metricDocs[i].name = "operations", NEW p \in ToSet(metricDocs[i].data)
        PROVE  p.ops <= p.reads + p.writes
    <3>1. metricDocs[i].data \in Seq(OpsPoints)
      BY <2>1 DEF MetricsInv, DocsInv, HistorySound
    <3>2. PICK j \in DOMAIN metricDocs[i].data : p = metricDocs[i].data[j]
      BY <2>1 DEF ToSet
    <3>3. p \in OpsPoints
      BY <3>1, <3>2
    <3> QED BY <3>3 DEF OpsPoints
  <2> QED BY <1>1, <2>1 DEF PointsNeverShort
<1>3. PointInRange
  <2> SUFFICES ASSUME snap.at # "asleep", snap.name = "performance", snap.todo = <<>>, ~ snap.disturbed
               PROVE  \/ snap.got.count = 0
                      \/ snap.got.sum \in snap.got.count * snap.got.min .. snap.got.count * snap.got.max
    BY DEF PointInRange
  <2>1. PerfRead(snap.todo, snap.got, metric, observing, snap.disturbed)
    BY DEF MetricsInv, SnapInv
  <2>2. TimerFields \subseteq DOMAIN snap.got /\ Ranged(snap.got)
    BY <2>1 DEF PerfRead
  <2>3. snap.got \in Points
    BY DEF MetricsInv, SnapInv, SnapTypes, SnapRecs
  <2>4. snap.got["count"] \in Nat /\ snap.got["sum"] \in Nat /\ snap.got["min"] \in Nat /\ snap.got["max"] \in Nat
    BY <2>2, <2>3 DEF Points, TimerFields
  <2>5. snap.got["count"] * snap.got["min"] \in Nat /\ snap.got["count"] * snap.got["max"] \in Nat
    BY <2>4, ProductsAreNat
  <2> QED BY <2>2, <2>4, <2>5 DEF Ranged
<1>4. UnreadableOnlyIfMet
  BY <1>1 DEF MetricsInv, DocsInv, UnreadableOnlyIfMet
<1> QED BY <1>2, <1>3, <1>4

LEMMA DocumentsFollow ==
    ASSUME MetricsInv
    PROVE  OneDocumentPerMetric /\ HistoryShowsAll
<1>1. DOMAIN metricDocs = 1 .. Len(metricDocs)
  BY LenProperties DEF MetricsInv, DocsInv
<1>2. ~ meddled.stored => \A n \in Families : \A i, j \in WithName(n) : i = j
  BY DEF MetricsInv, DocsInv
<1>3. ASSUME ~ meddled.stored, NEW n \in Families, NEW i \in WithName(n)
      PROVE  metrics_get_historical(n) = metricDocs[i].data
  <2> DEFINE k == CHOOSE k \in WithName(n) : \A j \in WithName(n) : j <= k
  <2>1. \A j \in WithName(n) : j <= i
    BY <1>1, <1>2, <1>3 DEF WithName
  <2>2. k \in WithName(n)
    BY <1>3, <2>1
  <2>3. k = i
    BY <1>2, <1>3, <2>2
  <2> HIDE DEF k
  <2>4. metrics_get_historical(n) = metricDocs[k].data
    BY <1>3 DEF metrics_get_historical, k
  <2> QED BY <2>3, <2>4
<1>4. \A i \in DOMAIN metricDocs : /\ Len(metricDocs[i].data) <= HistoryLength
                                   /\ metricDocs[i].data # <<>> => Last(metricDocs[i].data) = metricDocs[i].current
  BY <1>1 DEF MetricsInv, DocsInv, HistorySound
<1>5. OneDocumentPerMetric
  BY <1>2, <1>3, <1>4, FewOfEqual DEF OneDocumentPerMetric
<1>6. HistoryShowsAll
  BY DEF HistoryShowsAll, api_handle_metrics_history, api_handle_metrics_aggregate, ParamsInPath
<1> QED BY <1>5, <1>6

\* MetricsSound: for any threads, durations and bounds, the gauge, the counters and the timer
\* add up, stored points are consistent and kept in one document, and freed metrics, exports
\* and libraries go wrong only as stated.
THEOREM MetricsAreSound == MetricsSpec => []MetricsSound
<1>1. MetricsInit => MetricsInv
  BY MetricsInvAtFirst
<1>2. MetricsInv /\ [MetricsNext]_metricsVars => MetricsInv'
  BY MetricsInvKept
<1>3. MetricsInv => MetricsSound
  <2> SUFFICES ASSUME MetricsInv PROVE MetricsSound
    OBVIOUS
  <2>1. FreedReadOnlyIfCaught /\ LibrariesAnswerDefault
    BY DEF MetricsInv, FreedInv, RecordsInv, FreedReadOnlyIfCaught
  <2>2. ExportWholeUnlessOverlapped
    BY DEF MetricsInv, ExportInv, Open, ExportWholeUnlessOverlapped
  <2> QED BY <2>1, <2>2, ValuesFollow, TimerFollows, PointsFollow, DocumentsFollow DEF MetricsSound
<1> QED BY <1>1, <1>2, <1>3, PTL DEF MetricsSpec
=============================================================================
