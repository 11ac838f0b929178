------------------------------ MODULE StringPool ------------------------------
(***************************************************************************)
(* Interned strings: utils/string_pool.c and the pools of                  *)
(* utils/config_string_pool.c.                                             *)
(*                                                                         *)
(* A string is one entry with a reference count in a bucket with a mutex.  *)
(* string_pool_intern_len compares the number of strings with the limit    *)
(* before it takes the mutex and counts a new entry after it gave it back; *)
(* string_pool_release counts down with the mutex held.  The counter is an *)
(* atomic size_t: a decrement that comes before its increment wraps.       *)
(***************************************************************************)
EXTENDS Integers, FiniteSets

CONSTANTS
    PThreads,       \* threads
    Strings,        \* strings; each has a bucket of its own
    MaxStrings,     \* pool->max_strings
    MaxRefs         \* bound on the references a thread holds to a string

ASSUME StringPoolAssumption ==
    /\ IsFiniteSet(PThreads) /\ IsFiniteSet(Strings) /\ Strings # {}
    /\ MaxStrings \in Nat \ {0} /\ MaxRefs \in Nat \ {0}

VARIABLES
    refs,           \* reference count of each string; 0 if it has no entry
    held,           \* references of each thread to each string
    current,        \* pool->current_strings, without the wrap
    ppc, arg        \* per thread: "idle", "checked" or "counting", and its string

stringVars == <<refs, held, current, ppc, arg>>

Interned == {s \in Strings : refs[s] > 0}

StringPoolInit ==
    /\ refs = [s \in Strings |-> 0] /\ held = [t \in PThreads |-> [s \in Strings |-> 0]]
    /\ current = 0 /\ ppc = [t \in PThreads |-> "idle"]
    /\ arg = [t \in PThreads |-> CHOOSE s \in Strings : TRUE]

\* The limit, read before the bucket is locked.  A string that is there already is
\* refused at the limit too; the callers in config_string_pool.c then copy it.
LimitCheck(t, s) ==
    /\ ppc[t] = "idle" /\ held[t][s] < MaxRefs /\ current \in 0 .. MaxStrings - 1
    /\ ppc' = [ppc EXCEPT ![t] = "checked"] /\ arg' = [arg EXCEPT ![t] = s]
    /\ UNCHANGED <<refs, held, current>>

\* Mutant: an entry that is found is not counted up.
InternLocked_uncounted(t) ==
    /\ ppc[t] = "checked"
    /\ refs' = [refs EXCEPT ![arg[t]] = IF @ = 0 THEN 1 ELSE @]
    /\ held' = [held EXCEPT ![t][arg[t]] = @ + 1]
    /\ ppc' = [ppc EXCEPT ![t] = IF refs[arg[t]] = 0 THEN "counting" ELSE "idle"]
    /\ UNCHANGED <<current, arg>>

\* Under the bucket's mutex: a reference to the entry there, or a new entry; a new entry
\* may fail for want of memory.
InternLocked(t) ==
    /\ ppc[t] = "checked"
    /\ \/ /\ refs' = [refs EXCEPT ![arg[t]] = @ + 1]
          /\ held' = [held EXCEPT ![t][arg[t]] = @ + 1]
          /\ ppc' = [ppc EXCEPT ![t] = IF refs[arg[t]] = 0 THEN "counting" ELSE "idle"]
       \/ /\ refs[arg[t]] = 0
          /\ ppc' = [ppc EXCEPT ![t] = "idle"]
          /\ UNCHANGED <<refs, held>>
    /\ UNCHANGED <<current, arg>>

\* The counters, after the mutex was given back.
InternCount(t) ==
    /\ ppc[t] = "counting"
    /\ current' = current + 1
    /\ ppc' = [ppc EXCEPT ![t] = "idle"]
    /\ UNCHANGED <<refs, held, arg>>

\* string_pool_release: the last reference unlinks and frees the entry.
string_pool_release(t, s) ==
    /\ ppc[t] = "idle" /\ held[t][s] > 0
    /\ refs' = [refs EXCEPT ![s] = @ - 1]
    /\ held' = [held EXCEPT ![t][s] = @ - 1]
    /\ current' = IF refs[s] = 1 THEN current - 1 ELSE current
    /\ UNCHANGED <<ppc, arg>>

StringPoolNext ==
    \E t \in PThreads :
       \/ \E s \in Strings : LimitCheck(t, s) \/ string_pool_release(t, s)
       \/ InternLocked(t) \/ InternCount(t)

StringPoolSpec == StringPoolInit /\ [][StringPoolNext]_stringVars

-----------------------------------------------------------------------------
(* Properties.                                                             *)

Sum2(f, S) == Cardinality({p \in S \X (1 .. MaxRefs) : p[2] <= f[p[1]]})

\* Types.
StringPoolTypeOK ==
    /\ refs \in [Strings -> Nat] /\ held \in [PThreads -> [Strings -> 0 .. MaxRefs]] /\ current \in Int
    /\ ppc \in [PThreads -> {"idle", "checked", "counting"}] /\ arg \in [PThreads -> Strings]

\* A reference that a thread was given keeps its entry: the count of an entry is the
\* number of references threads hold, so release frees it with the last one and not before.
ReferencesCounted ==
    \A s \in Strings : refs[s] = Sum2([t \in PThreads |-> held[t][s]], PThreads)

\* The number of strings the pool reports differs from the truth only by the entries whose
\* interning has not got to its counters.  It can be below zero, which reads as a huge
\* number and refuses every string: when one of these is released by another thread first.
CountIsLate ==
    current = Cardinality(Interned) - Cardinality({t \in PThreads : ppc[t] = "counting"})

\* The limit holds up to the threads that passed the test together.
LimitOvershoot ==
    Cardinality(Interned) <= MaxStrings + Cardinality(PThreads) - 1

\* The string pool: references counted, its count and its limit late by the calls in
\* progress and no more.
StringPoolSound ==
    /\ StringPoolTypeOK /\ ReferencesCounted /\ CountIsLate /\ LimitOvershoot
===============================================================================
