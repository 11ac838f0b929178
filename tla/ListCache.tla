------------------------------- MODULE ListCache -------------------------------
(***************************************************************************)
(* The list cache of utils/cache.c: one mutex, a doubly linked list, and   *)
(* eviction by recency (LRU), frequency (LFU) or age (FIFO).               *)
(*                                                                         *)
(* Every operation runs under the mutex and is one step.  The mutex is not *)
(* recursive, and cache_put calls cache_run_cleanup, which locks it again, *)
(* with it held: that call never returns (lock = "stuck").  Values are     *)
(* abstracted to their size.  Keys with a life of their own expire one     *)
(* unit of time after they were put.                                       *)
(***************************************************************************)
EXTENDS Naturals, Sequences, FiniteSets, SequencesExt

CONSTANTS
    CKeys,              \* keys
    CSizes,             \* sizes of values
    CConfigs,           \* configurations: [type, capacity, memory], 0 for no limit
    CleanupInterval,    \* config.cleanup_interval
    MaxCacheTime,       \* bound on the clock
    MaxCacheOps         \* bound on the operations of a behaviour

ASSUME CacheAssumption ==
    /\ CSizes \subseteq Nat \ {0} /\ {CleanupInterval, MaxCacheTime, MaxCacheOps} \subseteq Nat
    /\ \A c \in CConfigs : c.type \in {"LRU", "LFU", "FIFO"} /\ {c.capacity, c.memory} \subseteq Nat

VARIABLES
    clist,          \* the entries from head to tail
    config,
    ctime,          \* time(NULL)
    lastCleanup,
    clock,          \* "free" or "stuck"
    cops,           \* operations so far
    recent,         \* history: keys by last use or put, the latest first
    arrived,        \* history: keys by insertion, the latest first
    retyped,        \* history: the policy was changed
    widened,        \* history: a cache without limit was given one
    grown           \* history: an entry was replaced by a larger one, or the memory limit changed

cacheVars == <<clist, config, ctime, lastCleanup, clock, cops, recent, arrived, retyped, widened, grown>>

create_entry(k, n, e) == [key |-> k, size |-> n, expires |-> e, count |-> 1]

CacheKeysOf(l)  == {l[i].key : i \in DOMAIN l}
find_entry(l, k) == CHOOSE i \in DOMAIN l : l[i].key = k
ByteSize(l)     == FoldSeq(LAMBDA e, n : n + e.size, 0, l)
IsExpired(e)    == e.expires > 0 /\ e.expires <= ctime
Life(ttl)       == IF ttl > 0 THEN ctime + ttl ELSE 0

CacheInit ==
    /\ clist = <<>> /\ config \in CConfigs /\ ctime = 0 /\ lastCleanup = 0 /\ clock = "free" /\ cops = 0
    /\ recent = <<>> /\ arrived = <<>> /\ retyped = FALSE /\ widened = FALSE /\ grown = FALSE

-----------------------------------------------------------------------------
(* The list.                                                               *)

move_to_front(l, i) == <<l[i]>> \o RemoveAt(l, i)

\* Behind the last of the leading entries that are used at least as often.
reposition_by_frequency(l, i) ==
    LET rest == RemoveAt(l, i)
        ahead == SelectInSeq(rest, LAMBDA e : e.count < l[i].count)
    IN  InsertAt(rest, IF ahead = 0 THEN Len(rest) + 1 ELSE ahead, l[i])

\* What cache_get and cache_put do with an entry that is there.
Reposition(l, i) ==
    CASE config.type = "LRU"  -> move_to_front(l, i)
      [] config.type = "LFU"  -> reposition_by_frequency(l, i)
      [] config.type = "FIFO" -> l

\* Mutant: the entry at the head goes.
Victim_first(l, type) == 1

Victim(l, type) ==
    IF type # "LFU" THEN Len(l)
    ELSE CHOOSE i \in DOMAIN l : /\ \A j \in DOMAIN l : l[i].count <= l[j].count
                                 /\ \A j \in 1 .. i - 1 : l[i].count < l[j].count

evict_entry(l, type) == RemoveAt(l, Victim(l, type))

\* Evictions until the list fits; an empty list fits.
EvictUntil(l, type, Fits(_)) ==
    LET after[n \in 0 .. Len(l)] == IF n = 0 THEN l ELSE evict_entry(after[n - 1], type)
        Enough(n) == after[n] = <<>> \/ Fits(after[n])
    IN  after[CHOOSE n \in DOMAIN after : Enough(n) /\ \A m \in 0 .. n - 1 : ~ Enough(m)]

\* What the histories keep of keys that have left the cache.
Narrowed(h, l) == SelectSeq(h, LAMBDA k : k \in CacheKeysOf(l))
InFront(h, k)    == <<k>> \o SelectSeq(h, LAMBDA j : j # k)

CacheOp ==
    /\ clock = "free" /\ cops < MaxCacheOps
    /\ cops' = cops + 1

-----------------------------------------------------------------------------
(* The operations.                                                         *)

\* cache_put of a key that is there: nothing is evicted, however large the new value.
PutExisting(k, n, ttl) ==
    LET i == find_entry(clist, k)
        l == [clist EXCEPT ![i].size = n, ![i].expires = Life(ttl), ![i].count = @ + 1]
    IN  /\ clist' = Reposition(l, i)
        /\ grown' = (grown \/ n > clist[i].size)
        /\ recent' = InFront(recent, k)
        /\ UNCHANGED <<clock, arrived>>

\* cache_put of a new key: the periodic clean-up first, which waits for the mutex its
\* caller holds; then room by number and by memory, and the entry at the head.
PutNew(k, n, ttl) ==
    IF ctime - lastCleanup >= CleanupInterval
    THEN clock' = "stuck" /\ UNCHANGED <<clist, recent, arrived, grown>>
    ELSE LET one == IF config.capacity > 0 /\ Len(clist) >= config.capacity
                    THEN evict_entry(clist, config.type) ELSE clist
             all == IF config.memory = 0 THEN one
                    ELSE EvictUntil(one, config.type, LAMBDA l : ByteSize(l) < config.memory)
         IN  /\ clist' = <<create_entry(k, n, Life(ttl))>> \o all
             /\ recent' = InFront(Narrowed(recent, clist'), k)
             /\ arrived' = InFront(Narrowed(arrived, clist'), k)
             /\ UNCHANGED <<clock, grown>>

cache_put(k, n, ttl) ==
    /\ CacheOp
    /\ IF k \in CacheKeysOf(clist) THEN PutExisting(k, n, ttl) ELSE PutNew(k, n, ttl)
    /\ UNCHANGED <<config, ctime, lastCleanup, retyped, widened>>

\* The list without some entries, and the histories after it.
Drop(l) ==
    /\ clist' = l
    /\ recent' = Narrowed(recent, l) /\ arrived' = Narrowed(arrived, l)

\* An expired entry is a miss and is unlinked.
cache_get(k) ==
    /\ CacheOp /\ k \in CacheKeysOf(clist)
    /\ LET i == find_entry(clist, k) IN
         IF IsExpired(clist[i]) THEN Drop(RemoveAt(clist, i))
         ELSE /\ clist' = Reposition([clist EXCEPT ![i].count = @ + 1], i)
              /\ recent' = InFront(recent, k) /\ UNCHANGED arrived
    /\ UNCHANGED <<config, ctime, lastCleanup, clock, retyped, widened, grown>>

cache_remove(k) ==
    /\ CacheOp /\ k \in CacheKeysOf(clist)
    /\ Drop(RemoveAt(clist, find_entry(clist, k)))
    /\ UNCHANGED <<config, ctime, lastCleanup, clock, retyped, widened, grown>>

\* A new life, without a use; even for an entry that has expired already.
cache_touch(k, ttl) ==
    /\ CacheOp /\ k \in CacheKeysOf(clist)
    /\ clist' = [clist EXCEPT ![find_entry(clist, k)].expires = Life(ttl)]
    /\ UNCHANGED <<config, ctime, lastCleanup, clock, recent, arrived, retyped, widened, grown>>

cache_clear ==
    /\ CacheOp
    /\ Drop(<<>>)
    /\ UNCHANGED <<config, ctime, lastCleanup, clock, retyped, widened, grown>>

\* Called from outside.
cache_run_cleanup ==
    /\ CacheOp
    /\ Drop(SelectSeq(clist, LAMBDA e : ~ IsExpired(e)))
    /\ lastCleanup' = ctime
    /\ UNCHANGED <<config, ctime, clock, retyped, widened, grown>>

\* Entries are evicted, by the new policy, only when the new capacity is the smaller number.
cache_set_config(c) ==
    /\ CacheOp /\ c # config
    /\ config' = c
    /\ Drop(IF c.capacity >= config.capacity THEN clist
            ELSE EvictUntil(clist, c.type, LAMBDA l : Len(l) <= c.capacity))
    /\ retyped' = (retyped \/ c.type # config.type)
    /\ widened' = (widened \/ (config.capacity = 0 /\ c.capacity > 0))
    /\ grown' = (grown \/ c.memory # config.memory)
    /\ UNCHANGED <<ctime, lastCleanup, clock>>

CacheTick ==
    /\ ctime < MaxCacheTime
    /\ ctime' = ctime + 1
    /\ UNCHANGED <<clist, config, lastCleanup, clock, cops, recent, arrived, retyped, widened, grown>>

CacheNext ==
    \/ \E k \in CKeys :
          \/ \E ttl \in {0, 1} : cache_touch(k, ttl) \/ \E n \in CSizes : cache_put(k, n, ttl)
          \/ cache_get(k) \/ cache_remove(k)
    \/ cache_clear \/ cache_run_cleanup
    \/ \E c \in CConfigs : cache_set_config(c)
    \/ CacheTick

CacheSpec == CacheInit /\ [][CacheNext]_cacheVars

-----------------------------------------------------------------------------
(* Properties.                                                             *)

\* Types; no key is in the list twice.
CacheTypeOK ==
    /\ config \in CConfigs /\ clock \in {"free", "stuck"} /\ lastCleanup <= ctime
    /\ \A i \in DOMAIN clist : /\ clist[i].key \in CKeys /\ clist[i].size \in CSizes
                              /\ clist[i].count \in Nat /\ clist[i].expires <= ctime + 1
    /\ Cardinality(CacheKeysOf(clist)) = Len(clist)

\* The tail, where evict_entry takes its victim, is the entry used longest ago (LRU) or
\* put first (FIFO), whatever the order of puts, gets, removals and expiries; as long as
\* the policy was not changed with entries in the list.
OrderTellsVictim ==
    LET keys == [i \in DOMAIN clist |-> clist[i].key] IN
    ~ retyped => /\ config.type = "LRU"  => keys = recent
                 /\ config.type = "FIFO" => keys = arrived

\* A put makes room by number before it inserts: the cache never holds more than its
\* capacity.  Not so after cache_set_config gave an unlimited cache (capacity 0) a limit:
\* it compares the numbers, 0 is not above the new limit, and nothing is evicted then or
\* later.
CapacityKept ==
    config.capacity > 0 /\ ~ widened => Len(clist) <= config.capacity

\* The memory of the entries stays below the limit plus one value: room is made for what
\* is there, not for what comes.  Replacing a value evicts nothing.
MemoryKept ==
    config.memory > 0 /\ ~ grown => \E n \in CSizes : ByteSize(clist) < config.memory + n

\* Every path through the operations gives the mutex back, expired entries and failed
\* puts included, with one exception: the put of a new key when the clean-up is due.
StuckOnlyIfOverdue ==
    clock = "stuck" => ctime - lastCleanup >= CleanupInterval

\* A put that evicts under LFU evicts an entry that is used no more than any that stays.
EvictsLeastUsed ==
    [][(/\ config.type = "LFU" /\ UNCHANGED <<config, ctime>>
        /\ CacheKeysOf(clist') \ CacheKeysOf(clist) # {})
       => \A i, j \in DOMAIN clist :
             clist[i].key \notin CacheKeysOf(clist') /\ clist[j].key \in CacheKeysOf(clist')
             => clist[i].count <= clist[j].count]_cacheVars

\* The list cache: its order tells the victim, it keeps its capacity and its memory,
\* and is stuck only when cleaning is overdue.
ListCacheSound ==
    /\ [](CacheTypeOK /\ OrderTellsVictim /\ CapacityKept /\ MemoryKept /\ StuckOnlyIfOverdue)
    /\ EvictsLeastUsed
===============================================================================
