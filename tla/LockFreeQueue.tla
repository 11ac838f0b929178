----------------------------- MODULE LockFreeQueue -----------------------------
(***************************************************************************)
(* The queue of core/lockfree_queue.c: a Michael and Scott list whose      *)
(* nodes come from, and go back to, a free list of its own.                *)
(*                                                                         *)
(* Every load, store and exchange of an atomic is a step.  Neither the     *)
(* queue's pointers nor the free list's have a tag, so an exchange may     *)
(* succeed because a node was taken out, recycled and is back.  The model  *)
(* stops there (reused); it shows what the queue does until then.  The     *)
(* failures a weak exchange may have without a reason are left out: all    *)
(* of them lead to another round of the same loop.                         *)
(***************************************************************************)
EXTENDS Integers, Sequences, FiniteSets, SequencesExt

CONSTANTS
    QThreads,       \* threads
    QPool,          \* queue->node_pool_size, the nodes of the free list at the start
    QMemory,        \* nodes the allocator can give beside these
    QLimit,         \* queue->max_size
    MaxQueueOps     \* bound on the operations of a behaviour; items are their numbers

ASSUME QueueAssumption == {QPool, QMemory, QLimit, MaxQueueOps} \subseteq Nat /\ IsFiniteSet(QThreads)

VARIABLES
    qhead, qtail, qfree,    \* queue->head, queue->tail, queue->free_nodes
    qnext, qwork,           \* node->next, node->work
    fresh,                  \* nodes not allocated yet
    qsize,                  \* queue->size, without the wrap
    qpc,                    \* where each thread is
    reg,                    \* its local variables: node, item, head, tail, next
    changed,                \* history: the pointers that changed since it loaded them
    qops,                   \* operations begun
    joined, taken,          \* history: items in the order they went in and out
    reused                  \* history: an exchange met a pointer that had been changed and changed back

queueVars == <<qhead, qtail, qfree, qnext, qwork, fresh, qsize, qpc, reg, changed, qops, joined, taken, reused>>

NoItem == 0
Nil    == 0
QNodes == 1 .. QPool + QMemory + 1

\* lockfree_queue_create: the sentinel, and a pool that was pushed node by node.
QueueInit ==
    /\ qhead = 1 /\ qtail = 1 /\ qfree = (IF QPool = 0 THEN Nil ELSE QPool + 1) /\ fresh = QPool + 2 .. QPool + QMemory + 1
    /\ qnext = [n \in QNodes |-> IF n \in 3 .. QPool + 1 THEN n - 1 ELSE Nil] /\ qwork = [n \in QNodes |-> NoItem] /\ qsize = 0
    /\ qpc = [t \in QThreads |-> "idle"]
    /\ reg = [t \in QThreads |-> [node |-> Nil, item |-> NoItem, head |-> Nil, tail |-> Nil, next |-> Nil]]
    /\ changed = [t \in QThreads |-> {}] /\ qops = 0 /\ joined = <<>> /\ taken = <<>> /\ reused = FALSE

\* The shared pointers.
PHead == <<"head", Nil>>
PTail == <<"tail", Nil>>
PFree == <<"free", Nil>>
PNext(n) == <<"next", n>>

Goto(t, l) == qpc' = [qpc EXCEPT ![t] = l]

\* Thread t has changed some pointers / has loaded one.
Changes(t, p) == changed' = [u \in QThreads |-> IF u = t THEN changed[u] ELSE changed[u] \cup p]
Loads(t, p)   == changed' = [changed EXCEPT ![t] = @ \ {p}]
Exchanges(t, p) == reused' = (reused \/ p \in changed[t]) /\ Changes(t, {p})

-----------------------------------------------------------------------------
(* lockfree_queue_enqueue.                                                 *)

\* The limit is read once; a size that wrapped below zero refuses.
Enqueue(t) ==
    /\ qpc[t] = "idle" /\ qops < MaxQueueOps /\ qsize \in 0 .. QLimit - 1
    /\ qops' = qops + 1 /\ reg' = [reg EXCEPT ![t].item = qops + 1]
    /\ Goto(t, "alloc")
    /\ UNCHANGED <<qhead, qtail, qfree, qnext, qwork, fresh, qsize, changed, joined, taken, reused>>

\* Mutant: an empty free list is not noticed.
AllocLoad_null(t) ==
    /\ qpc[t] = "alloc"
    /\ reg' = [reg EXCEPT ![t].node = qfree] /\ Loads(t, PFree) /\ Goto(t, "alloc_next")
    /\ UNCHANGED <<qhead, qtail, qfree, qnext, qwork, fresh, qsize, qops, joined, taken, reused>>

\* allocate_node: the head of the free list, or new memory.
AllocLoad(t) ==
    /\ qpc[t] = "alloc"
    /\ \/ /\ qfree # Nil
          /\ reg' = [reg EXCEPT ![t].node = qfree] /\ Loads(t, PFree)
          /\ Goto(t, "alloc_next") /\ UNCHANGED fresh
       \/ /\ qfree = Nil
          /\ \E n \in fresh : reg' = [reg EXCEPT ![t].node = n] /\ fresh' = fresh \ {n}
          /\ Goto(t, "fill") /\ UNCHANGED changed
       \/ qfree = Nil /\ fresh = {} /\ Goto(t, "idle") /\ UNCHANGED <<reg, fresh, changed>>
    /\ UNCHANGED <<qhead, qtail, qfree, qnext, qwork, qsize, qops, joined, taken, reused>>

AllocNext(t) ==
    /\ qpc[t] = "alloc_next"
    /\ reg' = [reg EXCEPT ![t].next = qnext[reg[t].node]]
    /\ Goto(t, "alloc_take")
    /\ UNCHANGED <<qhead, qtail, qfree, qnext, qwork, fresh, qsize, changed, qops, joined, taken, reused>>

AllocTake(t) ==
    /\ qpc[t] = "alloc_take"
    /\ IF qfree = reg[t].node
       THEN qfree' = reg[t].next /\ Exchanges(t, PFree) /\ Goto(t, "fill")
       ELSE Goto(t, "alloc") /\ UNCHANGED <<qfree, changed, reused>>
    /\ UNCHANGED <<qhead, qtail, qnext, qwork, fresh, qsize, reg, qops, joined, taken>>

Fill(t) ==
    /\ qpc[t] = "fill"
    /\ qnext' = [qnext EXCEPT ![reg[t].node] = Nil]
    /\ qwork' = [qwork EXCEPT ![reg[t].node] = reg[t].item]
    /\ Changes(t, {PNext(reg[t].node)}) /\ Goto(t, "enq")
    /\ UNCHANGED <<qhead, qtail, qfree, fresh, qsize, reg, qops, joined, taken, reused>>

EnqLoadTail(t) ==
    /\ qpc[t] = "enq"
    /\ reg' = [reg EXCEPT ![t].tail = qtail] /\ Loads(t, PTail)
    /\ Goto(t, "enq_next")
    /\ UNCHANGED <<qhead, qtail, qfree, qnext, qwork, fresh, qsize, qops, joined, taken, reused>>

EnqLoadNext(t) ==
    /\ qpc[t] = "enq_next"
    /\ reg' = [reg EXCEPT ![t].next = qnext[reg[t].tail]] /\ Loads(t, PNext(reg[t].tail))
    /\ Goto(t, "enq_check")
    /\ UNCHANGED <<qhead, qtail, qfree, qnext, qwork, fresh, qsize, qops, joined, taken, reused>>

EnqCheck(t) ==
    /\ qpc[t] = "enq_check"
    /\ Goto(t, IF reg[t].tail # qtail THEN "enq" ELSE IF reg[t].next = Nil THEN "enq_link" ELSE "enq_help")
    /\ UNCHANGED <<qhead, qtail, qfree, qnext, qwork, fresh, qsize, reg, changed, qops, joined, taken, reused>>

EnqLink(t) ==
    /\ qpc[t] = "enq_link"
    /\ IF qnext[reg[t].tail] = reg[t].next
       THEN /\ qnext' = [qnext EXCEPT ![reg[t].tail] = reg[t].node]
            /\ joined' = Append(joined, reg[t].item)
            /\ Exchanges(t, PNext(reg[t].tail)) /\ Goto(t, "enq_swing")
       ELSE Goto(t, "enq") /\ UNCHANGED <<qnext, joined, changed, reused>>
    /\ UNCHANGED <<qhead, qtail, qfree, qwork, fresh, qsize, reg, qops, taken>>

\* The tail is moved to a node: by the enqueuer that joined it, or by one that met a
\* lagging tail.
MoveTail(t, from, to, next) ==
    /\ IF qtail = from THEN qtail' = to /\ Exchanges(t, PTail) ELSE UNCHANGED <<qtail, changed, reused>>
    /\ Goto(t, next)
    /\ UNCHANGED <<qhead, qfree, qnext, qwork, fresh, qsize, reg, qops, joined, taken>>

EnqHelp(t)  == qpc[t] = "enq_help" /\ MoveTail(t, reg[t].tail, reg[t].next, "enq")
EnqSwing(t) == qpc[t] = "enq_swing" /\ MoveTail(t, reg[t].tail, reg[t].node, "enq_count")

Count(t, l, n) ==
    /\ qpc[t] = l
    /\ qsize' = qsize + n /\ Goto(t, "idle")
    /\ UNCHANGED <<qhead, qtail, qfree, qnext, qwork, fresh, reg, changed, qops, joined, taken, reused>>

-----------------------------------------------------------------------------
(* lockfree_queue_dequeue.                                                 *)

Dequeue(t) ==
    /\ qpc[t] = "idle" /\ qops < MaxQueueOps /\ qops' = qops + 1
    /\ Goto(t, "deq")
    /\ UNCHANGED <<qhead, qtail, qfree, qnext, qwork, fresh, qsize, reg, changed, joined, taken, reused>>

DeqLoad(t) ==
    /\ \/ /\ qpc[t] = "deq" /\ Goto(t, "deq_tail")
          /\ reg' = [reg EXCEPT ![t].head = qhead] /\ Loads(t, PHead)
       \/ /\ qpc[t] = "deq_tail" /\ Goto(t, "deq_next")
          /\ reg' = [reg EXCEPT ![t].tail = qtail] /\ Loads(t, PTail)
       \/ /\ qpc[t] = "deq_next" /\ Goto(t, "deq_check")
          /\ reg' = [reg EXCEPT ![t].next = qnext[reg[t].head]] /\ UNCHANGED changed
    /\ UNCHANGED <<qhead, qtail, qfree, qnext, qwork, fresh, qsize, qops, joined, taken, reused>>

DeqCheck(t) ==
    /\ qpc[t] = "deq_check"
    /\ Goto(t, IF reg[t].head # qhead THEN "deq"
               ELSE IF reg[t].head = reg[t].tail THEN IF reg[t].next = Nil THEN "idle" ELSE "deq_help"
               ELSE IF reg[t].next = Nil THEN "deq" ELSE "deq_item")
    /\ UNCHANGED <<qhead, qtail, qfree, qnext, qwork, fresh, qsize, reg, changed, qops, joined, taken, reused>>

DeqHelp(t) == qpc[t] = "deq_help" /\ MoveTail(t, reg[t].tail, reg[t].next, "deq")

\* The payload is copied before the exchange.
DeqItem(t) ==
    /\ qpc[t] = "deq_item"
    /\ reg' = [reg EXCEPT ![t].item = qwork[reg[t].next]]
    /\ Goto(t, "deq_take")
    /\ UNCHANGED <<qhead, qtail, qfree, qnext, qwork, fresh, qsize, changed, qops, joined, taken, reused>>

DeqTake(t) ==
    /\ qpc[t] = "deq_take"
    /\ IF qhead = reg[t].head
       THEN /\ qhead' = reg[t].next /\ taken' = Append(taken, reg[t].item)
            /\ Exchanges(t, PHead) /\ Goto(t, "free")
       ELSE Goto(t, "deq") /\ UNCHANGED <<qhead, taken, changed, reused>>
    /\ UNCHANGED <<qtail, qfree, qnext, qwork, fresh, qsize, reg, qops, joined>>

\* free_node: the payload is cleared, the old head goes on the free list.
FreeLoad(t) ==
    /\ qpc[t] = "free"
    /\ qwork' = [qwork EXCEPT ![reg[t].head] = NoItem]
    /\ reg' = [reg EXCEPT ![t].next = qfree] /\ Loads(t, PFree) /\ Goto(t, "free_next")
    /\ UNCHANGED <<qhead, qtail, qfree, qnext, fresh, qsize, qops, joined, taken, reused>>

FreeNext(t) ==
    /\ qpc[t] = "free_next"
    /\ qnext' = [qnext EXCEPT ![reg[t].head] = reg[t].next]
    /\ Changes(t, {PNext(reg[t].head)}) /\ Goto(t, "free_put")
    /\ UNCHANGED <<qhead, qtail, qfree, qwork, fresh, qsize, reg, qops, joined, taken, reused>>

FreePut(t) ==
    /\ qpc[t] = "free_put"
    /\ IF qfree = reg[t].next
       THEN /\ qfree' = reg[t].head /\ Changes(t, {PFree}) /\ Goto(t, "deq_count") /\ UNCHANGED reg
       ELSE /\ reg' = [reg EXCEPT ![t].next = qfree] /\ Loads(t, PFree) /\ Goto(t, "free_next") /\ UNCHANGED qfree
    /\ UNCHANGED <<qhead, qtail, qnext, qwork, fresh, qsize, qops, joined, taken, reused>>

QueueNext ==
    /\ ~ reused
    /\ \E t \in QThreads :
          \/ Enqueue(t) \/ AllocLoad(t) \/ AllocNext(t) \/ AllocTake(t) \/ Fill(t)
          \/ EnqLoadTail(t) \/ EnqLoadNext(t) \/ EnqCheck(t) \/ EnqLink(t) \/ EnqHelp(t) \/ EnqSwing(t)
          \/ Count(t, "enq_count", 1) \/ Count(t, "deq_count", -1)
          \/ Dequeue(t) \/ DeqLoad(t) \/ DeqCheck(t) \/ DeqHelp(t) \/ DeqItem(t) \/ DeqTake(t)
          \/ FreeLoad(t) \/ FreeNext(t) \/ FreePut(t)

QueueSpec == QueueInit /\ [][QueueNext]_queueVars

-----------------------------------------------------------------------------
(* Properties.                                                             *)

\* The nodes that can be reached from n: those in every set that holds n and the
\* successors of its members.
Chain(n) ==
    {m \in QNodes : \A S \in SUBSET QNodes :
        (n # Nil => n \in S) /\ (\A x \in S : qnext[x] # Nil => qnext[x] \in S) => m \in S}

AtOneOf(ls) == {t \in QThreads : qpc[t] \in ls}

\* Types.
QueueTypeOK ==
    /\ {qhead, qtail} \subseteq QNodes /\ qfree \in QNodes \cup {Nil} /\ qnext \in [QNodes -> QNodes \cup {Nil}]
    /\ qwork \in [QNodes -> 0 .. MaxQueueOps] /\ fresh \subseteq QNodes
    /\ \A t \in AtOneOf({"alloc_next", "alloc_take", "fill", "enq_link"}) : reg[t].node \in QNodes
    /\ \A t \in AtOneOf({"deq_item", "deq_take"}) : reg[t].next \in QNodes

\* First in, first out, nothing lost, nothing twice: the items taken out are those put in,
\* in the order of the exchanges that joined them, until an exchange is fooled by a
\* recycled node.
FirstInFirstOut == ~ reused => IsPrefix(taken, joined)

\* A node is in the queue or on the free list, never in both, and the tail is reachable
\* from the head: the tail never points to a node that was given back.
NodesPartitioned ==
    ~ reused => /\ Chain(qhead) \cap Chain(qfree) = {} /\ Chain(qhead) \cap fresh = {}
                /\ qtail \in Chain(qhead)

\* The size other operations read differs from the number of items by the operations that
\* have not got to the counter; below zero when a dequeue counts before its enqueue did.
SizeIsLate ==
    ~ reused => qsize = Len(joined) - Len(taken) - Cardinality(AtOneOf({"enq_swing", "enq_count"}))
                        + Cardinality(AtOneOf({"free", "free_next", "free_put", "deq_count"}))

\* The queue: first in, first out, every node in one place, and a size that is late
\* by the operations in progress.
QueueSound ==
    /\ QueueTypeOK /\ FirstInFirstOut /\ NodesPartitioned /\ SizeIsLate
===============================================================================
