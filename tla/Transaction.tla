----------------------------- MODULE Transaction -----------------------------
(***************************************************************************)
(* The transactions of components/transaction/transaction.c as the request *)
(* threads of components/api/transaction_api.c drive them.                 *)
(*                                                                         *)
(* A handler looks a transaction up in the manager's hash table (under the *)
(* manager's lock) and then calls one operation on the pointer it got      *)
(* (under the transaction's lock).  Another thread may finish the          *)
(* transaction between the two; a transaction is never freed while the     *)
(* manager lives, so the pointer stays good.  Commit and rollback go on    *)
(* after they release the transaction's lock: they write the log and take  *)
(* the transaction out of the hash table.                                  *)
(*                                                                         *)
(* Operations are list cells that never change once linked, so a pointer   *)
(* into the list is modelled as the sequence of operations from there on,  *)
(* newest first.                                                           *)
(*                                                                         *)
(* The memory checkpoint a transaction owns is modelled in MemoryManager.  *)
(***************************************************************************)
EXTENDS Integers, Sequences

CONSTANTS
    Threads,    \* request threads
    Txns,       \* transaction_t objects
    Ops,        \* operations, each recorded at most once
    Names,      \* savepoint names
    MaxSavepoints,  \* bound on the savepoints a transaction holds
    NoTxn,      \* no transaction
    AllocFails  \* whether the hash table entry may fail to be allocated

ASSUME TxnAssumption == /\ NoTxn \notin Txns
                        /\ MaxSavepoints \in Nat
                        /\ AllocFails \in BOOLEAN

VARIABLES
    state,       \* transaction->state; NONE before transaction_begin
    operations,  \* transaction->operations
    operation_count,
    savepoints,  \* transaction->savepoints, newest first
    table,       \* transactions in manager->tx_hash_table
    log,         \* records of manager->log
    pc, tx,      \* per thread: where it is, and the transaction it holds
    undone       \* history: operations taken back by a rollback to a savepoint

vars == <<state, operations, operation_count, savepoints, table, log, pc, tx, undone>>

States == {"NONE", "ACTIVE", "COMMITTING", "COMMITTED", "ABORTING", "ABORTED"}

Finished == {"COMMITTED", "ABORTED"}

\* found: the handler has the pointer.  log: the outcome is set and the
\* transaction's lock released.  unlink: the log record is written.
PCs == {"idle", "found", "log", "unlink"}

Savepoints == [name : Names, operation : Seq(Ops), operation_count : Nat]

Savepoint(name, ops, n) == [name |-> name, operation |-> ops, operation_count |-> n]

Init ==
    /\ state = [t \in Txns |-> "NONE"]
    /\ operations = [t \in Txns |-> <<>>]
    /\ operation_count = [t \in Txns |-> 0]
    /\ savepoints = [t \in Txns |-> <<>>]
    /\ table = {}
    /\ log = <<>>
    /\ pc = [h \in Threads |-> "idle"]
    /\ tx = [h \in Threads |-> NoTxn]
    /\ undone = {}

-----------------------------------------------------------------------------
(* The manager.                                                            *)

\* transaction_begin: the new transaction is published under the manager's lock.
\* If its hash table entry cannot be allocated it is kept all the same.
transaction_begin(h, t) ==
    /\ pc[h] = "idle"
    /\ state[t] = "NONE"
    /\ state' = [state EXCEPT ![t] = "ACTIVE"]
    /\ \/ table' = table \cup {t}
       \/ AllocFails /\ UNCHANGED table
    /\ UNCHANGED <<operations, operation_count, savepoints, log, pc, tx, undone>>

transaction_manager_get_transaction(h, t) ==
    /\ pc[h] = "idle"
    /\ t \in table
    /\ pc' = [pc EXCEPT ![h] = "found"]
    /\ tx' = [tx EXCEPT ![h] = t]
    /\ UNCHANGED <<state, operations, operation_count, savepoints, table, log, undone>>

\* Variant: the handler keeps the pointer for its next request.
AnswerKeepsPointer(h) == /\ pc' = [pc EXCEPT ![h] = "idle"]
                         /\ UNCHANGED tx

\* The call of thread h on its transaction returns to the handler.
Answer(h) == /\ pc' = [pc EXCEPT ![h] = "idle"]
             /\ tx' = [tx EXCEPT ![h] = NoTxn]

-----------------------------------------------------------------------------
(* Operations on a transaction.  Each holds the transaction's lock.        *)

\* Variant: an operation is recorded whatever the state.
AnyState(t) == TRUE

IsActive(t) == state[t] = "ACTIVE"

Used == (UNION {{operations[t][i] : i \in 1 .. Len(operations[t])} : t \in Txns}) \cup undone

\* The three document operations put a new cell at the head of the list.  None
\* of them reads or writes the document itself.
AddOperation(h) ==
    LET t == tx[h]
    IN  /\ pc[h] = "found"
        /\ IsActive(t)
        /\ \E op \in Ops \ Used :
               operations' = [operations EXCEPT ![t] = <<op>> \o @]
        /\ operation_count' = [operation_count EXCEPT ![t] = @ + 1]
        /\ Answer(h)
        /\ UNCHANGED <<state, savepoints, table, log, undone>>

transaction_insert_document(h) == AddOperation(h)
transaction_update_document(h) == AddOperation(h)
transaction_delete_document(h) == AddOperation(h)

transaction_create_savepoint(h, name) ==
    LET t == tx[h]
    IN  /\ pc[h] = "found"
        /\ IsActive(t)
        /\ Len(savepoints[t]) < MaxSavepoints
        /\ savepoints' = [savepoints EXCEPT ![t] =
               <<Savepoint(name, operations[t], operation_count[t])>> \o @]
        /\ Answer(h)
        /\ UNCHANGED <<state, operations, operation_count, table, log, undone>>

\* The list search stops at the newest savepoint with that name.
IsNewest(t, name, i) == /\ savepoints[t][i].name = name
                        /\ \A j \in 1 .. i - 1 : savepoints[t][j].name # name

\* Variant: the count is left as it was.
CountKept(t, sp) == operation_count[t]

CountAt(t, sp) == sp.operation_count

\* Operations of t that are newer than those the savepoint saw.
Newer(t, sp) == {operations[t][i] : i \in {j \in 1 .. Len(operations[t]) :
                                              j <= Len(operations[t]) - Len(sp.operation)}}

\* The list goes back to what it was at the savepoint; the savepoints stay.
transaction_rollback_to_savepoint(h, name) ==
    LET t == tx[h]
    IN  /\ pc[h] = "found"
        /\ IsActive(t)
        /\ \E i \in 1 .. Len(savepoints[t]) :
               /\ IsNewest(t, name, i)
               /\ operations' = [operations EXCEPT ![t] = savepoints[t][i].operation]
               /\ operation_count' = [operation_count EXCEPT ![t] = CountAt(t, savepoints[t][i])]
               /\ undone' = undone \cup Newer(t, savepoints[t][i])
        /\ Answer(h)
        /\ UNCHANGED <<state, savepoints, table, log>>

transaction_release_savepoint(h, name) ==
    LET t == tx[h]
    IN  /\ pc[h] = "found"
        /\ IsActive(t)
        /\ \E i \in 1 .. Len(savepoints[t]) :
               /\ IsNewest(t, name, i)
               /\ savepoints' = [savepoints EXCEPT ![t] =
                      SubSeq(@, 1, i - 1) \o SubSeq(@, i + 1, Len(@))]
        /\ Answer(h)
        /\ UNCHANGED <<state, operations, operation_count, table, log, undone>>

\* A refused call: the transaction is finished, not active, or has no such
\* savepoint.  transaction_query_documents also changes nothing (its result is
\* always empty), and memory for the operation may run out.
Refuse(h) ==
    /\ pc[h] = "found"
    /\ Answer(h)
    /\ UNCHANGED <<state, operations, operation_count, savepoints, table, log, undone>>

\* Variant: a finished transaction can be finished again.
CanFinishAgain(t) == TRUE

CanFinish(t) == state[t] \notin Finished

\* transaction_commit and transaction_rollback up to the release of the
\* transaction's lock.  COMMITTING and ABORTING are not visible outside it.
\* Neither touches the document store.
Finish(h, outcome) ==
    /\ pc[h] = "found"
    /\ CanFinish(tx[h])
    /\ state' = [state EXCEPT ![tx[h]] = outcome]
    /\ pc' = [pc EXCEPT ![h] = "log"]
    /\ UNCHANGED <<operations, operation_count, savepoints, table, log, tx, undone>>

transaction_commit(h)   == Finish(h, "COMMITTED")
transaction_rollback(h) == Finish(h, "ABORTED")

\* transaction_log_write_state_change reads the state again, without the lock.
WriteLog(h) ==
    /\ pc[h] = "log"
    /\ log' = Append(log, [txn |-> tx[h], state |-> state[tx[h]]])
    /\ pc' = [pc EXCEPT ![h] = "unlink"]
    /\ UNCHANGED <<state, operations, operation_count, savepoints, table, tx, undone>>

\* Variant: only committed transactions leave the table.
RemoveCommitted(t) == IF state[t] = "COMMITTED" THEN table \ {t} ELSE table

transaction_hash_table_remove(t) == table \ {t}

LeaveTable(h) ==
    /\ pc[h] = "unlink"
    /\ table' = transaction_hash_table_remove(tx[h])
    /\ Answer(h)
    /\ UNCHANGED <<state, operations, operation_count, savepoints, log, undone>>

\* The deadlock detector of lock_manager.c marks its victim.
abort_transaction_for_deadlock(t) ==
    /\ state[t] = "ACTIVE"
    /\ state' = [state EXCEPT ![t] = "ABORTING"]
    /\ UNCHANGED <<operations, operation_count, savepoints, table, log, pc, tx, undone>>

Call(h) == \/ transaction_insert_document(h)
           \/ transaction_update_document(h)
           \/ transaction_delete_document(h)
           \/ \E name \in Names : \/ transaction_create_savepoint(h, name)
                                  \/ transaction_rollback_to_savepoint(h, name)
                                  \/ transaction_release_savepoint(h, name)
           \/ Refuse(h)
           \/ transaction_commit(h)
           \/ transaction_rollback(h)

Complete(h) == WriteLog(h) \/ LeaveTable(h)

Next == \/ \E h \in Threads, t \in Txns : \/ transaction_begin(h, t)
                                         \/ transaction_manager_get_transaction(h, t)
        \/ \E h \in Threads : Call(h) \/ Complete(h)
        \/ \E t \in Txns : abort_transaction_for_deadlock(t)

Spec == Init /\ [][Next]_vars

\* A thread that has set an outcome goes on running.
FairSpec == Spec /\ \A h \in Threads : WF_vars(Complete(h))

-----------------------------------------------------------------------------
(* Properties.                                                             *)

\* Every variable has its type.
TypeOK ==
    /\ state \in [Txns -> States]
    /\ operations \in [Txns -> Seq(Ops)]
    /\ operation_count \in [Txns -> Nat]
    /\ savepoints \in [Txns -> Seq(Savepoints)]
    /\ table \subseteq Txns
    /\ log \in Seq([txn : Txns, state : Finished])
    /\ pc \in [Threads -> PCs]
    /\ tx \in [Threads -> Txns \cup {NoTxn}]
    /\ \A h \in Threads : (pc[h] = "idle") <=> (tx[h] = NoTxn)

\* operation_count is the length of the operation list, also after rollbacks to
\* savepoints in any order, whose saved list and saved count must agree.
CountMatchesOperations ==
    \A t \in Txns :
        /\ operation_count[t] = Len(operations[t])
        /\ \A i \in 1 .. Len(savepoints[t]) :
               savepoints[t][i].operation_count = Len(savepoints[t][i].operation)

\* Of several threads that commit or roll back one transaction only one succeeds:
\* the log has at most one record of it, and the record tells how it ended.
OneOutcome ==
    /\ \A i \in 1 .. Len(log) : log[i].state = state[log[i].txn]
    /\ \A i, j \in 1 .. Len(log) : log[i].txn = log[j].txn => i = j

\* Nothing changes the state or the operations of a finished transaction, also
\* not a handler that looked it up while it was active.
FinishedIsFinal ==
    [][\A t \in Txns : state[t] \in Finished =>
           state'[t] = state[t] /\ operations'[t] = operations[t]]_vars

\* A finished transaction eventually leaves the hash table.
FinishedLeaveTable == \A t \in Txns : state[t] \in Finished ~> t \notin table

\* An operation that a rollback to a savepoint took back does not return.
UndoneStaysUndone ==
    \A t \in Txns : \A i \in 1 .. Len(operations[t]) : operations[t][i] \notin undone

\* Transactions at every moment: their types, one outcome each, and an operation
\* count that agrees with the list.
TransactionsSound ==
    /\ TypeOK /\ OneOutcome /\ CountMatchesOperations
=============================================================================
