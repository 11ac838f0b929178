----------------------------- MODULE GenericCache -----------------------------
(***************************************************************************)
(* The hash cache of utils/generic_cache.c, which database.c uses for      *)
(* documents and query results: a hash table and an LRU list of the same   *)
(* entries, under a read-write lock.                                       *)
(*                                                                         *)
(* Operations under the write lock are one step.  generic_cache_get finds  *)
(* its entry under the read lock, gives the lock back and takes it again   *)
(* as a write lock to move the entry to the front: two steps.  Entries are *)
(* allocated from a small set of addresses, so that a freed address can be *)
(* allocated again.  Moving an entry that was freed is undefined; the move *)
(* is modelled as what move_to_front does to the list when the memory is   *)
(* still as it was left.                                                   *)
(***************************************************************************)
EXTENDS Naturals, Sequences, FiniteSets, SequencesExt

CONSTANTS
    GThreads,       \* threads that get
    GKeys,          \* keys
    GAddrs,         \* addresses of entries
    GCapacity       \* cache->capacity

ASSUME GenericAssumption ==
    GCapacity \in Nat \ {0} /\ IsFiniteSet(GAddrs) /\ Cardinality(GAddrs) >= GCapacity /\ GKeys # {}

VARIABLES
    glist,          \* addresses from head to tail of the LRU list
    gmem,           \* key of the entry at each address; the last one if it is free
    ghash,          \* addresses in the hash table
    gsize,          \* cache->size
    gpc, gfound,    \* per thread: "idle" or "moving", and the entry it found
    dangled         \* history: an entry was moved after it was freed

genericVars == <<glist, gmem, ghash, gsize, gpc, gfound, dangled>>

\* find_entry: through the hash table.
FoundAt(k) == {a \in ghash : gmem[a] = k}

GenericInit ==
    /\ glist = <<>> /\ gmem \in [GAddrs -> {CHOOSE k \in GKeys : TRUE}] /\ ghash = {} /\ gsize = 0
    /\ gpc = [t \in GThreads |-> "idle"] /\ gfound = [t \in GThreads |-> CHOOSE a \in GAddrs : TRUE]
    /\ dangled = FALSE

\* The list after an entry is unlinked.
Without(l, a) == IF a \in ToSet(l) THEN RemoveAt(l, CHOOSE i \in DOMAIN l : l[i] = a) ELSE l

generic_move_to_front(l, a) == <<a>> \o Without(l, a)

\* evict_lru: the tail leaves the list and its bucket and is freed.
evict_lru == [list |-> Front(glist), hash |-> ghash \ {Last(glist)}]

\* Mutant: room is made for the entry with one place left.
generic_cache_put_early(k) ==
    /\ IF FoundAt(k) # {}
       THEN /\ glist' = generic_move_to_front(glist, CHOOSE a \in FoundAt(k) : TRUE)
            /\ UNCHANGED <<gmem, ghash, gsize>>
       ELSE LET full == gsize + 1 >= GCapacity /\ glist # <<>>
                room == IF full THEN evict_lru ELSE [list |-> glist, hash |-> ghash]
                left == IF full THEN gsize - 1 ELSE gsize
            IN  \E a \in GAddrs \ room.hash :
                   /\ glist' = <<a>> \o Without(room.list, a) /\ ghash' = room.hash \cup {a}
                   /\ gmem' = [gmem EXCEPT ![a] = k] /\ gsize' = left + 1
    /\ UNCHANGED <<gpc, gfound, dangled>>

\* generic_cache_put; without memory for the new entry it returns -1, the room already made.
generic_cache_put(k) ==
    /\ IF FoundAt(k) # {}
       THEN /\ glist' = generic_move_to_front(glist, CHOOSE a \in FoundAt(k) : TRUE)
            /\ UNCHANGED <<gmem, ghash, gsize>>
       ELSE LET full == gsize >= GCapacity /\ glist # <<>>
                room == IF full THEN evict_lru ELSE [list |-> glist, hash |-> ghash]
                left == IF full THEN gsize - 1 ELSE gsize
            IN  \/ /\ glist' = room.list /\ ghash' = room.hash /\ gsize' = left /\ UNCHANGED gmem
                \/ \E a \in GAddrs \ room.hash :
                      /\ glist' = <<a>> \o Without(room.list, a) /\ ghash' = room.hash \cup {a}
                      /\ gmem' = [gmem EXCEPT ![a] = k] /\ gsize' = left + 1
    /\ UNCHANGED <<gpc, gfound, dangled>>

\* generic_cache_get, first part: find and copy under the read lock.
generic_cache_get(t, k) ==
    /\ gpc[t] = "idle"
    /\ \E a \in FoundAt(k) : gfound' = [gfound EXCEPT ![t] = a]
    /\ gpc' = [gpc EXCEPT ![t] = "moving"]
    /\ UNCHANGED <<glist, gmem, ghash, gsize, dangled>>

\* Second part, under the write lock; whether the entry is still there is not asked.
GetMove(t) ==
    /\ gpc[t] = "moving"
    /\ glist' = generic_move_to_front(glist, gfound[t])
    /\ dangled' = (dangled \/ gfound[t] \notin ghash)
    /\ gpc' = [gpc EXCEPT ![t] = "idle"]
    /\ UNCHANGED <<gmem, ghash, gsize, gfound>>

generic_cache_remove(k) ==
    /\ \E a \in FoundAt(k) : glist' = Without(glist, a) /\ ghash' = ghash \ {a}
    /\ gsize' = gsize - 1
    /\ UNCHANGED <<gmem, gpc, gfound, dangled>>

\* What database.c calls after every write.
generic_cache_clear ==
    /\ glist # <<>>
    /\ glist' = <<>> /\ ghash' = {} /\ gsize' = 0
    /\ UNCHANGED <<gmem, gpc, gfound, dangled>>

\* The model stops at the first move of a freed entry.
GenericNext ==
    /\ ~ dangled
    /\ \/ \E k \in GKeys :
             \/ generic_cache_put(k) \/ generic_cache_remove(k)
             \/ \E t \in GThreads : generic_cache_get(t, k)
       \/ \E t \in GThreads : GetMove(t)
       \/ generic_cache_clear

GenericSpec == GenericInit /\ [][GenericNext]_genericVars

-----------------------------------------------------------------------------
(* Properties.                                                             *)

\* Types.
GenericTypeOK ==
    /\ glist \in Seq(GAddrs) /\ gmem \in [GAddrs -> GKeys] /\ ghash \subseteq GAddrs
    /\ gsize \in 0 .. Cardinality(GAddrs) /\ gpc \in [GThreads -> {"idle", "moving"}]
    /\ gfound \in [GThreads -> GAddrs] /\ dangled \in BOOLEAN

\* The hash table and the list hold the same entries, each once, no two with one key and
\* never more than the capacity; so an entry that get finds can always be evicted.  The
\* exception is a get whose entry was freed (evicted, removed, cleared) between its two
\* locks: the list then holds memory the table does not know.
TableAndListAgree ==
    ~ dangled => /\ ToSet(glist) = ghash /\ IsInjective(glist)
                 /\ gsize = Len(glist) /\ gsize <= GCapacity
                 /\ \A a, b \in ghash : gmem[a] = gmem[b] => a = b

\* A get that lost its entry does harm only if somebody freed it: threads that only get
\* and put below the capacity never meet a freed entry, whatever their order.
FoundEntryKept ==
    [][\A t \in GThreads : gpc[t] = "moving" /\ gfound[t] \in ghash /\ gfound[t] \notin ghash'
         => \/ ghash' = {}
            \/ gsize' < gsize
            \/ gsize >= GCapacity]_genericVars

\* The generic cache: table and list agree, and an entry a reader found goes only
\* by a clear, a removal or an eviction.
GenericCacheSound ==
    /\ [](GenericTypeOK /\ TableAndListAgree)
    /\ FoundEntryKept
===============================================================================
