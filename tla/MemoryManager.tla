---------------------------- MODULE MemoryManager ----------------------------
(***************************************************************************)
(* The checkpoint allocator of components/utils/memory_manager.c with the  *)
(* code that opens and closes checkpoints: request dispatch (core/api.c),  *)
(* virtual_update (database/database.c) and transactions (transaction.c).  *)
(*                                                                         *)
(* Each thread has a stack of checkpoints, linked by parent pointers from  *)
(* tls_memory.current_checkpoint.  A parent pointer never changes, so the  *)
(* chain is a sequence with the current checkpoint first; a checkpoint     *)
(* that was freed out of order stays in the sequence, dangling.  A step    *)
(* that touches a freed checkpoint or block is undefined in C: it sets     *)
(* fault and ends the behaviour.  Addresses are not used again.            *)
(*                                                                         *)
(* The operators of the allocator map one state m of the allocator to the  *)
(* next, so that a caller can do several in one step.                      *)
(***************************************************************************)
EXTENDS Naturals, Sequences, FiniteSets, TLC

CONSTANTS
    Threads,      \* worker threads
    Checkpoints,  \* memory_checkpoint_t structures, each used once
    Blocks,       \* allocations, each used once
    Txns,         \* transactions
    Links,        \* how handlers link blocks into shared structures
    None,         \* the null pointer
    Arena         \* whether the arena allocator is switched on

ASSUME MemoryAssumption == /\ None \notin Checkpoints \cup Blocks
                           /\ Links \subseteq {"plain", "promoted", "hazard"}
                           /\ Arena \in BOOLEAN

VARIABLES
    mm,      \* the allocator
    pc,      \* per thread: idle, handler, update (in virtual_update), send
    req,     \* per thread: the request's checkpoint
    nested,  \* per thread: the checkpoint of virtual_update
    own,     \* per thread: blocks its request allocated
    linked,  \* blocks reachable from structures that outlive the request
    txn      \* per transaction: state, memory_checkpoint, hash table entry

vars == <<mm, pc, req, nested, own, linked, txn>>

PCs == {"idle", "handler", "update", "send"}
Life == {"unused", "live", "freed"}
Allocators == [stack : [Threads -> Seq(Checkpoints)], cp : [Checkpoints -> Life],
               allocs : [Checkpoints -> SUBSET Blocks], arena : [Checkpoints -> SUBSET Blocks],
               mem : [Blocks -> Life], home : [Blocks -> Checkpoints \cup {None}],
               hazard : SUBSET Blocks, kept : SUBSET Blocks, fault : BOOLEAN]
TxnRecords == [state : {"none", "active", "done"}, cp : Checkpoints \cup {None},
               entry : Blocks \cup {None}]

Init ==
    /\ mm = [stack  |-> [h \in Threads |-> <<>>],
             cp     |-> [c \in Checkpoints |-> "unused"],
             allocs |-> [c \in Checkpoints |-> {}],   \* first_alloc ... last_alloc
             arena  |-> [c \in Checkpoints |-> {}],   \* blocks in checkpoint->arena
             mem    |-> [b \in Blocks |-> "unused"],
             home   |-> [b \in Blocks |-> None],      \* header->checkpoint
             hazard |-> {},                           \* MEMORY_FLAG_HAZARD_PROTECTED
             kept   |-> {},   \* history: committed or promoted, and not freed since
             fault  |-> FALSE]
    /\ pc = [h \in Threads |-> "idle"]
    /\ req = [h \in Threads |-> None]
    /\ nested = [h \in Threads |-> None]
    /\ own = [h \in Threads |-> {}]
    /\ linked = {}
    /\ txn = [t \in Txns |-> [state |-> "none", cp |-> None, entry |-> None]]

-----------------------------------------------------------------------------
(* The allocator.                                                          *)

Fault(m) == [m EXCEPT !.fault = TRUE]

memory_checkpoint_create(m, h, c) ==
    [m EXCEPT !.cp[c] = "live", !.stack[h] = <<c>> \o @]

\* The block is tracked by the current checkpoint, or lies in its arena.
memory_alloc(m, h, b) ==
    IF m.stack[h] = <<>> THEN [m EXCEPT !.mem[b] = "live"]
    ELSE LET c == Head(m.stack[h])
         IN  IF m.cp[c] # "live" THEN Fault(m)
             ELSE IF Arena THEN [m EXCEPT !.mem[b] = "live", !.arena[c] = @ \cup {b}]
             ELSE [m EXCEPT !.mem[b] = "live", !.home[b] = c, !.allocs[c] = @ \cup {b}]

\* Variant: the header forgets its checkpoint but stays in the checkpoint's list.
HeaderOnly(m, b) ==
    IF m.mem[b] # "live" THEN Fault(m) ELSE [m EXCEPT !.home[b] = None]

\* Take a block out of the list of its checkpoint.
Unlink(m, b) ==
    IF m.mem[b] # "live" THEN Fault(m)
    ELSE IF m.home[b] = None THEN m
    ELSE IF m.cp[m.home[b]] # "live" THEN Fault(m)
    ELSE [m EXCEPT !.allocs[m.home[b]] = @ \ {b}, !.home[b] = None]

memory_free(m, b) ==
    LET u == Unlink(m, b)
    IN  IF u.fault THEN u
        ELSE [u EXCEPT !.mem[b] = "freed", !.kept = @ \ {b}]

memory_promote(m, b) ==
    LET u == Unlink(m, b)
    IN  IF u.fault THEN u ELSE [u EXCEPT !.kept = @ \cup {b}]

memory_mark_hazard_protected(m, b) == [m EXCEPT !.hazard = @ \cup {b}]

\* Positions above c in a stack.
Above(s, c) == {j \in 1 .. Len(s) : \A k \in 1 .. j : s[k] # c}

\* Variant: one stack for all threads.
PassedAnywhere(m, h, c) == {d \in Checkpoints : m.cp[d] = "live"}

\* Checkpoints that the search for c passes, c included if it is found.
Passed(m, h, c) ==
    LET s == m.stack[h]
    IN  {s[i] : i \in {j \in 1 .. Len(s) : \A k \in 1 .. j - 1 : s[k] # c}}

\* Variant: hazard-protected blocks keep pointing at the freed checkpoint.
HomeKept(m, gone) == m.home

\* Hazard-protected blocks of the checkpoints that go lose their checkpoint.
HomeAfter(m, gone) ==
    [b \in Blocks |-> IF m.home[b] \in gone THEN None ELSE m.home[b]]

\* Every checkpoint above c goes with its blocks; c stays, current and emptied
\* (not its arena).  A checkpoint of another thread is silently left alone.
memory_checkpoint_rewind(m, h, c) ==
    LET s     == m.stack[h]
        found == c \in Passed(m, h, c)
        gone  == Passed(m, h, c) \ {c}
        dead  == (UNION {m.allocs[d] : d \in gone \cup {c}}) \ m.hazard
        lost  == dead \cup (UNION {m.arena[d] : d \in gone})
    IN  IF \E d \in Passed(m, h, c) : m.cp[d] # "live" THEN Fault(m)
        ELSE IF ~found THEN m
        ELSE [m EXCEPT
                !.stack[h] = SubSeq(s, Cardinality(Above(s, c)) + 1, Len(s)),
                !.cp     = [d \in Checkpoints |-> IF d \in gone THEN "freed" ELSE m.cp[d]],
                !.allocs = [d \in Checkpoints |-> IF d \in gone THEN {}
                                                  ELSE IF d = c THEN m.allocs[c] \cap m.hazard
                                                  ELSE m.allocs[d]],
                !.arena  = [d \in Checkpoints |-> IF d \in gone THEN {} ELSE m.arena[d]],
                !.mem    = [b \in Blocks |-> IF b \in lost THEN "freed" ELSE m.mem[b]],
                !.home   = [b \in Blocks |-> IF b \in dead THEN None ELSE HomeAfter(m, gone)[b]]]

\* Variant: the committed checkpoint stays current.
PopNever(s, c) == s

\* The checkpoint leaves the stack only if it is the current one.
Pop(s, c) == IF s # <<>> /\ Head(s) = c THEN Tail(s) ELSE s

\* The blocks lose their checkpoint; the arena is destroyed.  The structure
\* is freed in any case, whoever has it on a stack.
memory_checkpoint_commit(m, h, c) ==
    IF m.cp[c] # "live" THEN Fault(m)
    ELSE [m EXCEPT
            !.stack[h]  = Pop(@, c),
            !.cp[c]     = "freed",
            !.allocs[c] = {},
            !.arena[c]  = {},
            !.mem  = [b \in Blocks |-> IF b \in m.arena[c] THEN "freed" ELSE m.mem[b]],
            !.home = [b \in Blocks |-> IF m.home[b] = c THEN None ELSE m.home[b]],
            !.kept = @ \cup m.allocs[c] \cup m.arena[c]]

-----------------------------------------------------------------------------
(* Requests.                                                               *)

Fresh(c) == mm.cp[c] = "unused"
NewBlock(b) == mm.mem[b] = "unused"

\* api_dispatch_request opens the request's checkpoint.
api_dispatch_request(h) ==
    /\ pc[h] = "idle"
    /\ \E c \in Checkpoints :
           /\ Fresh(c)
           /\ mm' = memory_checkpoint_create(mm, h, c)
           /\ req' = [req EXCEPT ![h] = c]
    /\ pc' = [pc EXCEPT ![h] = "handler"]
    /\ UNCHANGED <<nested, own, linked, txn>>

\* Threads allocate in handlers and, to read the next request, between them.
Allocate(h, b) ==
    /\ NewBlock(b)
    /\ mm' = memory_alloc(mm, h, b)
    /\ own' = [own EXCEPT ![h] = @ \cup {b}]
    /\ UNCHANGED <<pc, req, nested, linked, txn>>

\* How a block is linked: plain (tree leaves, the children of a cached document),
\* promoted (the root of a cached document), hazard (stored document strings).
LinkAs(m, b, l) == IF l = "promoted" THEN memory_promote(m, b)
                   ELSE IF l = "hazard" THEN memory_mark_hazard_protected(m, b)
                   ELSE m

\* A handler puts a block of its request into a cache or the document tree.
Publish(h, b) ==
    /\ pc[h] \in {"handler", "update"}
    /\ b \in own[h] \ linked
    /\ mm.mem[b] = "live"
    /\ \E l \in Links : mm' = LinkAs(mm, b, l)
    /\ linked' = linked \cup {b}
    /\ UNCHANGED <<pc, req, nested, own, txn>>

\* A handler frees a block of its own, or takes one out of a shared structure.
Release(h, b) ==
    /\ pc[h] \in {"handler", "update"}
    /\ b \in linked \/ (b \in own[h] /\ mm.mem[b] = "live")
    /\ \A t \in Txns : txn[t].entry # b
    /\ mm' = memory_free(mm, b)
    /\ own' = [own EXCEPT ![h] = @ \ {b}]
    /\ linked' = linked \ {b}
    /\ UNCHANGED <<pc, req, nested, txn>>

\* A response below 400 carries the checkpoint until it has been sent.
Succeed(h) ==
    /\ pc[h] = "handler"
    /\ pc' = [pc EXCEPT ![h] = "send"]
    /\ UNCHANGED <<mm, req, nested, own, linked, txn>>

api_result_free(h) ==
    /\ pc[h] = "send"
    /\ mm' = memory_checkpoint_commit(mm, h, req[h])
    /\ pc' = [pc EXCEPT ![h] = "idle"]
    /\ req' = [req EXCEPT ![h] = None]
    /\ own' = [own EXCEPT ![h] = {}]
    /\ UNCHANGED <<nested, linked, txn>>

\* An error response is promoted and the checkpoint rewound at once.
RespondError(h, b) ==
    /\ pc[h] = "handler"
    /\ b \in own[h]
    /\ mm.mem[b] = "live"
    /\ mm' = memory_checkpoint_rewind(memory_promote(mm, b), h, req[h])
    /\ pc' = [pc EXCEPT ![h] = "idle"]
    /\ req' = [req EXCEPT ![h] = None]
    /\ own' = [own EXCEPT ![h] = {}]
    /\ UNCHANGED <<nested, linked, txn>>

\* Variant: the request's pointer is not cleared after the rewind.
RejectKeepsPointer(h) ==
    /\ pc[h] = "handler"
    /\ mm' = memory_checkpoint_rewind(mm, h, req[h])
    /\ pc' = [pc EXCEPT ![h] = "idle"]
    /\ own' = [own EXCEPT ![h] = {}]
    /\ UNCHANGED <<req, nested, linked, txn>>

\* No handler ran (no route, rate limit, not authorised): nothing is promoted.
Reject(h) ==
    /\ pc[h] = "handler"
    /\ mm' = memory_checkpoint_rewind(mm, h, req[h])
    /\ pc' = [pc EXCEPT ![h] = "idle"]
    /\ req' = [req EXCEPT ![h] = None]
    /\ own' = [own EXCEPT ![h] = {}]
    /\ UNCHANGED <<nested, linked, txn>>

-----------------------------------------------------------------------------
(* virtual_update: a checkpoint inside the request's.                      *)

UpdateStart(h) ==
    /\ pc[h] = "handler"
    /\ \E c \in Checkpoints :
           /\ Fresh(c)
           /\ mm' = memory_checkpoint_create(mm, h, c)
           /\ nested' = [nested EXCEPT ![h] = c]
    /\ pc' = [pc EXCEPT ![h] = "update"]
    /\ UNCHANGED <<req, own, linked, txn>>

\* The result that is promoted first is among the blocks that are committed.
UpdateDone(h) ==
    /\ pc[h] = "update"
    /\ mm' = memory_checkpoint_commit(mm, h, nested[h])
    /\ nested' = [nested EXCEPT ![h] = None]
    /\ pc' = [pc EXCEPT ![h] = "handler"]
    /\ UNCHANGED <<req, own, linked, txn>>

UpdateFails(h) ==
    /\ pc[h] = "update"
    /\ mm' = memory_checkpoint_rewind(mm, h, nested[h])
    /\ nested' = [nested EXCEPT ![h] = None]
    /\ pc' = [pc EXCEPT ![h] = "handler"]
    /\ UNCHANGED <<req, own, linked, txn>>

-----------------------------------------------------------------------------
(* Transactions: a checkpoint that outlives the request.                   *)

\* The hash table entry is allocated after the transaction's checkpoint.
transaction_begin(h, t) ==
    /\ pc[h] = "handler"
    /\ txn[t].state = "none"
    /\ \E c \in Checkpoints, b \in Blocks :
           /\ Fresh(c)
           /\ NewBlock(b)
           /\ mm' = memory_alloc(memory_checkpoint_create(mm, h, c), h, b)
           /\ linked' = linked \cup {b}
           /\ txn' = [txn EXCEPT ![t] = [state |-> "active", cp |-> c, entry |-> b]]
    /\ UNCHANGED <<pc, req, nested, own>>

\* Both outcomes end with transaction_hash_table_remove, which frees the entry.
FinishTransaction(h, t, m) ==
    /\ pc[h] = "handler"
    /\ txn[t].state = "active"
    /\ mm' = IF m.fault THEN m ELSE memory_free(m, txn[t].entry)
    /\ linked' = linked \ {txn[t].entry}
    /\ txn' = [txn EXCEPT ![t].state = "done"]
    /\ UNCHANGED <<pc, req, nested, own>>

transaction_commit(h, t) ==
    FinishTransaction(h, t, memory_checkpoint_commit(mm, h, txn[t].cp))

transaction_rollback(h, t) ==
    FinishTransaction(h, t, memory_checkpoint_rewind(mm, h, txn[t].cp))

-----------------------------------------------------------------------------
Step(h) ==
    \/ api_dispatch_request(h)
    \/ \E b \in Blocks : \/ Allocate(h, b)
                         \/ Publish(h, b)
                         \/ Release(h, b)
                         \/ RespondError(h, b)
    \/ Succeed(h)
    \/ api_result_free(h)
    \/ Reject(h)
    \/ UpdateStart(h)
    \/ UpdateDone(h)
    \/ UpdateFails(h)
    \/ \E t \in Txns : \/ transaction_begin(h, t)
                       \/ transaction_commit(h, t)
                       \/ transaction_rollback(h, t)

Next == ~mm.fault /\ \E h \in Threads : Step(h)

Spec == Init /\ [][Next]_vars

-----------------------------------------------------------------------------
(* Properties.                                                             *)

\* Every variable has its type.
TypeOK ==
    /\ mm \in Allocators
    /\ pc \in [Threads -> PCs]
    /\ req \in [Threads -> Checkpoints \cup {None}]
    /\ nested \in [Threads -> Checkpoints \cup {None}]
    /\ own \in [Threads -> SUBSET Blocks]
    /\ linked \subseteq Blocks
    /\ txn \in [Txns -> TxnRecords]
    /\ \A h \in Threads : /\ pc[h] # "idle" <=> req[h] # None
                          /\ pc[h] = "update" <=> nested[h] # None

\* The list of a checkpoint and the headers of its blocks agree: a live block
\* never points at a freed checkpoint, and no list holds a freed block.
TrackingConsistent ==
    \A b \in Blocks, c \in Checkpoints :
        /\ b \in mm.allocs[c] <=> mm.home[b] = c
        /\ b \in mm.allocs[c] => mm.mem[b] = "live" /\ mm.cp[c] = "live"

\* A block that was promoted or committed is freed only by memory_free.
KeptIsLive == \A b \in mm.kept : mm.mem[b] = "live"

\* Rolling back or committing leaves nothing behind that a later step would touch
\* after it was freed: no checkpoint on a stack, no block in a list or a table.
NoFault == ~mm.fault

\* Requests alone never touch a freed checkpoint or block, whatever updates nested
\* in them fail and whatever checkpoints earlier errors left on the stack: only
\* transactions, whose checkpoints outlive their request, can.
OnlyTransactionsFault == mm.fault => \E t \in Txns : txn[t].state # "none"

\* A step that commits or rolls back a transaction.
EndsTransaction == \E t \in Txns : txn[t].state # "done" /\ txn'[t].state = "done"

\* Threads have checkpoints of their own: unless it ends a transaction, a thread
\* never frees a checkpoint on the stack of another.
ThreadIsolation ==
    [][\A g, h \in Threads :
           g # h /\ Step(h) /\ ~EndsTransaction =>
               \A i \in 1 .. Len(mm.stack[g]) :
                   mm'.cp[mm.stack[g][i]] = mm.cp[mm.stack[g][i]]]_vars

\* The allocator at every moment: its types, lists that agree with the headers, and
\* kept blocks alive.
ListsSound ==
    /\ TypeOK /\ TrackingConsistent /\ KeptIsLive

-----------------------------------------------------------------------------
(* The model does not tell these values apart.                             *)

Symmetry == Permutations(Threads) \cup Permutations(Checkpoints)
                \cup Permutations(Blocks) \cup Permutations(Txns)
=============================================================================
