------------------------- MODULE MemoryManagerProofs -------------------------
(***************************************************************************)
(* Proofs about MemoryManager, for any number of threads, checkpoints,     *)
(* blocks and transactions:                                                *)
(*  - the lists of the checkpoints and the headers of the blocks agree, and *)
(*    a block that was committed or promoted is freed only by memory_free  *)
(*    (IInv: each operator of the allocator keeps it, so the steps that    *)
(*    combine them do);                                                    *)
(*  - the stacks of the threads hold different checkpoints, so no thread   *)
(*    frees what another has on its stack (StackInv);                      *)
(*  - requests touch nothing that was freed (RequestInv).                  *)
(***************************************************************************)
EXTENDS MemoryManager, FiniteSetTheorems, SequenceTheorems, TLAPS

\* Lists and headers agree.
Tracked(m) ==
    \A b \in Blocks, c \in Checkpoints :
        /\ b \in m.allocs[c] <=> m.home[b] = c
        /\ b \in m.allocs[c] => m.mem[b] = "live" /\ m.cp[c] = "live"

\* Blocks in an arena and blocks not yet allocated are on no list.
Untracked(m) ==
    \A b \in Blocks, c \in Checkpoints :
        b \in m.arena[c] \/ m.mem[b] = "unused" => m.home[b] = None

\* Kept blocks are on no list either; without arenas they are live.
Kept(m) ==
    \A b \in m.kept : m.home[b] = None /\ (~Arena => m.mem[b] = "live")

\* Without arenas no block lies in one.
NoArena(m) == ~Arena => \A c \in Checkpoints : m.arena[c] = {}

\* The invariant of an allocator state.
Good(m) == /\ m \in Allocators
           /\ Tracked(m)
           /\ Untracked(m)
           /\ Kept(m)
           /\ NoArena(m)

-----------------------------------------------------------------------------
(* The operators of the allocator keep the invariant.                      *)

\* Recording a fault changes nothing else.
LEMMA FaultGood == ASSUME NEW m, Good(m) PROVE Good(Fault(m))
<1>1. Fault(m) \in Allocators
  BY DEF Good, Fault, Allocators
<1>2. /\ Fault(m).allocs = m.allocs /\ Fault(m).arena = m.arena /\ Fault(m).cp = m.cp
      /\ Fault(m).mem = m.mem /\ Fault(m).home = m.home /\ Fault(m).kept = m.kept
  BY DEF Good, Fault, Allocators
<1> QED
  BY <1>1, <1>2 DEF Good, Tracked, Untracked, Kept, NoArena

\* A new checkpoint has no blocks.
LEMMA CreateGood ==
    ASSUME NEW m, Good(m), NEW h \in Threads, NEW c \in Checkpoints
    PROVE  Good(memory_checkpoint_create(m, h, c))
<1> DEFINE n == memory_checkpoint_create(m, h, c)
<1>1. m.stack[h] \in Seq(Checkpoints)
  BY DEF Good, Allocators
<1>2. <<c>> \o m.stack[h] \in Seq(Checkpoints)
  BY <1>1
<1>3. n \in Allocators
  BY <1>2 DEF Good, Allocators, memory_checkpoint_create, Life
<1>4. /\ n.allocs = m.allocs /\ n.arena = m.arena /\ n.mem = m.mem
      /\ n.home = m.home /\ n.kept = m.kept
      /\ \A d \in Checkpoints : m.cp[d] = "live" => n.cp[d] = "live"
  BY DEF Good, Allocators, memory_checkpoint_create
<1> QED
  BY <1>3, <1>4 DEF Good, Tracked, Untracked, Kept, NoArena

\* A new block enters the list of a live checkpoint, an arena, or neither.
LEMMA AllocGood ==
    ASSUME NEW m, Good(m), NEW h \in Threads, NEW b \in Blocks, m.mem[b] = "unused"
    PROVE  Good(memory_alloc(m, h, b))
<1> DEFINE n == memory_alloc(m, h, b)
           c == Head(m.stack[h])
<1>1. CASE m.stack[h] = <<>>
  <2>1. n \in Allocators
    BY <1>1 DEF Good, Allocators, memory_alloc, Life
  <2>2. /\ n.allocs = m.allocs /\ n.arena = m.arena /\ n.cp = m.cp
        /\ n.home = m.home /\ n.kept = m.kept
        /\ n.mem = [m.mem EXCEPT ![b] = "live"]
    BY <1>1 DEF Good, Allocators, memory_alloc
  <2> QED
    BY <2>1, <2>2 DEF Good, Allocators, Tracked, Untracked, Kept, NoArena
<1>2. CASE m.stack[h] # <<>>
  <2>0. c \in Checkpoints
    BY <1>2, HeadTailProperties DEF Good, Allocators
  <2>1. CASE m.cp[c] # "live"
    BY <1>2, <2>1, FaultGood DEF memory_alloc
  <2>2. CASE m.cp[c] = "live" /\ Arena
    <3>1. n = [m EXCEPT !.mem[b] = "live", !.arena[c] = @ \cup {b}]
      BY <1>2, <2>2 DEF memory_alloc
    <3>2. n \in Allocators
      <4> DEFINE X == [m.mem EXCEPT ![b] = "live"]
                 Y == [m.arena EXCEPT ![c] = @ \cup {b}]
      <4>1. X \in [Blocks -> Life] /\ Y \in [Checkpoints -> SUBSET Blocks]
        BY <2>0 DEF Good, Allocators, Life
      <4>2. n = [m EXCEPT !.mem = X, !.arena = Y]
        BY <3>1 DEF Good, Allocators
      <4> HIDE DEF X, Y, n
      <4> QED
        BY <4>1, <4>2 DEF Good, Allocators
    <3>3. /\ n.allocs = m.allocs /\ n.cp = m.cp /\ n.home = m.home /\ n.kept = m.kept
          /\ n.mem = [m.mem EXCEPT ![b] = "live"]
          /\ n.arena = [m.arena EXCEPT ![c] = @ \cup {b}]
      BY <3>1 DEF Good, Allocators
    <3> QED
      BY <2>0, <2>2, <3>2, <3>3 DEF Good, Allocators, Tracked, Untracked, Kept, NoArena
  <2>3. CASE m.cp[c] = "live" /\ ~Arena
    <3>1. n = [m EXCEPT !.mem[b] = "live", !.home[b] = c, !.allocs[c] = @ \cup {b}]
      BY <1>2, <2>3 DEF memory_alloc
    <3>2. n \in Allocators
      <4> DEFINE X == [m.mem EXCEPT ![b] = "live"]
                 Y == [m.home EXCEPT ![b] = c]
                 Z == [m.allocs EXCEPT ![c] = @ \cup {b}]
      <4>1. /\ X \in [Blocks -> Life]
            /\ Y \in [Blocks -> Checkpoints \cup {None}]
            /\ Z \in [Checkpoints -> SUBSET Blocks]
        BY <2>0 DEF Good, Allocators, Life
      <4>2. n = [m EXCEPT !.mem = X, !.home = Y, !.allocs = Z]
        BY <3>1 DEF Good, Allocators
      <4> HIDE DEF X, Y, Z, n
      <4> QED
        BY <4>1, <4>2 DEF Good, Allocators
    <3>3. /\ n.arena = m.arena /\ n.cp = m.cp /\ n.kept = m.kept
          /\ n.mem = [m.mem EXCEPT ![b] = "live"]
          /\ n.home = [m.home EXCEPT ![b] = c]
          /\ n.allocs = [m.allocs EXCEPT ![c] = @ \cup {b}]
      BY <3>1 DEF Good, Allocators
    <3>4. m.home[b] = None /\ b \notin m.kept
      BY <2>3 DEF Good, Untracked, Kept, Allocators
    <3>5. Tracked(n)
      BY <2>0, <2>3, <3>3, <3>4, MemoryAssumption DEF Good, Allocators, Tracked
    <3>6. Untracked(n) /\ Kept(n) /\ NoArena(n)
      BY <2>0, <2>3, <3>3, <3>4 DEF Good, Allocators, Untracked, Kept, NoArena
    <3> QED
      BY <3>2, <3>5, <3>6 DEF Good
  <2> QED
    BY <2>1, <2>2, <2>3, MemoryAssumption
<1> QED
  BY <1>1, <1>2

\* A block that is unlinked without a fault is live and on no list.
LEMMA UnlinkGood ==
    ASSUME NEW m, Good(m), NEW b \in Blocks
    PROVE  /\ Good(Unlink(m, b))
           /\ \/ Unlink(m, b).fault
              \/ Unlink(m, b).mem[b] = "live" /\ Unlink(m, b).home[b] = None
<1> DEFINE n == Unlink(m, b)
           c == m.home[b]
<1>0. c \in Checkpoints \cup {None} /\ Fault(m).fault = TRUE
  BY DEF Good, Allocators, Fault
<1>1. CASE m.mem[b] # "live"
  BY <1>0, <1>1, FaultGood DEF Unlink
<1>2. CASE m.mem[b] = "live" /\ c = None
  BY <1>2 DEF Unlink
<1>3. CASE m.mem[b] = "live" /\ c # None /\ m.cp[c] # "live"
  BY <1>0, <1>3, FaultGood DEF Unlink
<1>4. CASE m.mem[b] = "live" /\ c # None /\ m.cp[c] = "live"
  <2> DEFINE Y == [m.home EXCEPT ![b] = None]
             Z == [m.allocs EXCEPT ![c] = @ \ {b}]
  <2>1. /\ Y \in [Blocks -> Checkpoints \cup {None}]
        /\ Z \in [Checkpoints -> SUBSET Blocks]
    BY <1>0, <1>4 DEF Good, Allocators
  <2>2. n = [m EXCEPT !.allocs[c] = @ \ {b}, !.home[b] = None]
    BY <1>4 DEF Unlink
  <2>3. n = [m EXCEPT !.allocs = Z, !.home = Y]
    BY <2>2 DEF Good, Allocators
  <2> HIDE DEF n
  <2>4. n \in Allocators /\ n.allocs = Z /\ n.home = Y
    <3> HIDE DEF Y, Z
    <3> QED
      BY <2>1, <2>3 DEF Good, Allocators
  <2>5. n.mem = m.mem /\ n.cp = m.cp /\ n.arena = m.arena /\ n.kept = m.kept
    <3> HIDE DEF Y, Z
    <3> QED
      BY <2>3 DEF Good, Allocators
  <2>6. Tracked(n)
    BY <1>0, <1>4, <2>4, <2>5, MemoryAssumption DEF Good, Allocators, Tracked
  <2>7. Untracked(n) /\ Kept(n) /\ NoArena(n)
    BY <2>4, <2>5 DEF Good, Allocators, Untracked, Kept, NoArena
  <2>8. n.home[b] = None /\ n.mem[b] = "live"
    BY <1>4, <2>4, <2>5 DEF Good, Allocators
  <2> QED
    BY <2>4, <2>6, <2>7, <2>8 DEF Good, n
<1> QED
  BY <1>1, <1>2, <1>3, <1>4

\* A freed block is on no list and no longer kept.
LEMMA FreeGood ==
    ASSUME NEW m, Good(m), NEW b \in Blocks
    PROVE  Good(memory_free(m, b))
<1> DEFINE u == Unlink(m, b)
           n == [u EXCEPT !.mem[b] = "freed", !.kept = @ \ {b}]
           X == [u.mem EXCEPT ![b] = "freed"]
<1>1. Good(u)
  BY UnlinkGood
<1>2. CASE u.fault
  BY <1>1, <1>2 DEF memory_free
<1>3. CASE ~u.fault
  <2>1. u.home[b] = None
    BY <1>3, UnlinkGood
  <2> HIDE DEF u
  <2>2. X \in [Blocks -> Life] /\ n = [u EXCEPT !.mem = X, !.kept = u.kept \ {b}]
    BY <1>1 DEF Good, Allocators, Life
  <2>3. /\ n \in Allocators /\ n.mem = X /\ n.kept = u.kept \ {b}
        /\ n.home = u.home /\ n.allocs = u.allocs /\ n.cp = u.cp /\ n.arena = u.arena
    <3> HIDE DEF X, n
    <3> QED
      BY <1>1, <2>2 DEF Good, Allocators
  <2> HIDE DEF n
  <2>4. Tracked(n)
    BY <1>1, <2>1, <2>3, MemoryAssumption DEF Good, Allocators, Tracked
  <2>5. Untracked(n) /\ Kept(n) /\ NoArena(n)
    BY <1>1, <2>3 DEF Good, Allocators, Untracked, Kept, NoArena
  <2>6. Good(n)
    BY <2>3, <2>4, <2>5 DEF Good
  <2> QED
    BY <1>3, <2>6 DEF memory_free, n, u
<1> QED
  BY <1>2, <1>3

\* A promoted block is live and on no list.
LEMMA PromoteGood ==
    ASSUME NEW m, Good(m), NEW b \in Blocks
    PROVE  Good(memory_promote(m, b))
<1> DEFINE u == Unlink(m, b)
           n == [u EXCEPT !.kept = @ \cup {b}]
<1>1. Good(u)
  BY UnlinkGood
<1>2. CASE u.fault
  BY <1>1, <1>2 DEF memory_promote
<1>3. CASE ~u.fault
  <2>1. u.home[b] = None /\ u.mem[b] = "live"
    BY <1>3, UnlinkGood
  <2> HIDE DEF u
  <2>2. /\ n \in Allocators /\ n.kept = u.kept \cup {b} /\ n.mem = u.mem
        /\ n.home = u.home /\ n.allocs = u.allocs /\ n.cp = u.cp /\ n.arena = u.arena
    BY <1>1 DEF Good, Allocators
  <2> HIDE DEF n
  <2>3. Good(n)
    BY <1>1, <2>1, <2>2 DEF Good, Tracked, Untracked, Kept, NoArena
  <2> QED
    BY <1>3, <2>3 DEF memory_promote, n, u
<1> QED
  BY <1>2, <1>3

\* Marking a block touches no list.
LEMMA HazardGood ==
    ASSUME NEW m, Good(m), NEW b \in Blocks
    PROVE  Good(memory_mark_hazard_protected(m, b))
<1> DEFINE n == memory_mark_hazard_protected(m, b)
<1>1. /\ n \in Allocators /\ n.kept = m.kept /\ n.mem = m.mem
      /\ n.home = m.home /\ n.allocs = m.allocs /\ n.cp = m.cp /\ n.arena = m.arena
  BY DEF Good, Allocators, memory_mark_hazard_protected
<1> HIDE DEF n
<1>2. Good(n)
  BY <1>1 DEF Good, Tracked, Untracked, Kept, NoArena
<1> QED
  BY <1>2 DEF n

\* A commit clears the headers of exactly the blocks on the list.
LEMMA CommitGood ==
    ASSUME NEW m, Good(m), NEW h \in Threads, NEW c \in Checkpoints
    PROVE  Good(memory_checkpoint_commit(m, h, c))
<1> DEFINE n == memory_checkpoint_commit(m, h, c)
<1>1. CASE m.cp[c] # "live"
  BY <1>1, FaultGood DEF memory_checkpoint_commit
<1>2. CASE m.cp[c] = "live"
  <2> DEFINE S == [m.stack EXCEPT ![h] = Pop(@, c)]
             P == [m.cp EXCEPT ![c] = "freed"]
             Z == [m.allocs EXCEPT ![c] = {}]
             R == [m.arena EXCEPT ![c] = {}]
             X == [b \in Blocks |-> IF b \in m.arena[c] THEN "freed" ELSE m.mem[b]]
             Y == [b \in Blocks |-> IF m.home[b] = c THEN None ELSE m.home[b]]
             K == m.kept \cup m.allocs[c] \cup m.arena[c]
  <2>0. m.stack[h] \in Seq(Checkpoints)
    BY DEF Good, Allocators
  <2>1. Pop(m.stack[h], c) \in Seq(Checkpoints)
    BY <2>0, HeadTailProperties DEF Pop
  <2>2. /\ S \in [Threads -> Seq(Checkpoints)]
        /\ P \in [Checkpoints -> Life]
        /\ Z \in [Checkpoints -> SUBSET Blocks]
        /\ R \in [Checkpoints -> SUBSET Blocks]
    BY <2>1 DEF Good, Allocators, Life
  <2>3. /\ X \in [Blocks -> Life]
        /\ Y \in [Blocks -> Checkpoints \cup {None}]
        /\ K \in SUBSET Blocks
    BY DEF Good, Allocators, Life
  <2>4. n = [m EXCEPT !.stack = S, !.cp = P, !.allocs = Z, !.arena = R, !.mem = X,
                      !.home = Y, !.kept = K]
    BY <1>2 DEF memory_checkpoint_commit, Good, Allocators
  <2> HIDE DEF n
  <2>5. /\ n \in Allocators /\ n.cp = P /\ n.allocs = Z /\ n.arena = R
        /\ n.mem = X /\ n.home = Y /\ n.kept = K
    <3> HIDE DEF S, P, Z, R, X, Y, K
    <3> QED
      BY <2>2, <2>3, <2>4 DEF Good, Allocators
  <2>6. Tracked(n)
    BY <1>2, <2>5, MemoryAssumption DEF Good, Allocators, Tracked, Untracked
  <2>7. Untracked(n)
    BY <2>5 DEF Good, Allocators, Untracked
  <2>8. Kept(n)
    BY <2>5 DEF Good, Allocators, Tracked, Untracked, Kept, NoArena
  <2>9. NoArena(n)
    BY <2>5 DEF Good, Allocators, NoArena
  <2> QED
    BY <2>5, <2>6, <2>7, <2>8, <2>9 DEF Good, n
<1> QED
  BY <1>1, <1>2

\* The checkpoints a search passes are checkpoints.
LEMMA PassedType ==
    ASSUME NEW m \in Allocators, NEW h \in Threads, NEW c \in Checkpoints
    PROVE  Passed(m, h, c) \subseteq Checkpoints
  BY DEF Allocators, Passed

\* A position in a stack has a natural number of positions above it.
LEMMA AboveFinite ==
    ASSUME NEW s \in Seq(Checkpoints), NEW c
    PROVE  Cardinality(Above(s, c)) \in Nat
<1>1. Above(s, c) \in SUBSET (1 .. Len(s))
  BY DEF Above
<1>2. IsFiniteSet(1 .. Len(s))
  BY FS_Interval
<1>3. IsFiniteSet(Above(s, c))
  BY <1>1, <1>2, FS_Subset
<1> QED
  BY <1>3, FS_CardinalityType

\* Membership in the union of the lists of several checkpoints.
LEMMA UnionImage ==
    ASSUME NEW f, NEW D, NEW x
    PROVE  x \in UNION {f[d] : d \in D} <=> \E d \in D : x \in f[d]
BY Zenon

\* A rewind empties the lists it frees, and only those.
LEMMA RewindGood ==
    ASSUME NEW m, Good(m), NEW h \in Threads, NEW c \in Checkpoints
    PROVE  Good(memory_checkpoint_rewind(m, h, c))
<1> DEFINE n    == memory_checkpoint_rewind(m, h, c)
           s    == m.stack[h]
           all  == Passed(m, h, c)
           gone == Passed(m, h, c) \ {c}
           dead == (UNION {m.allocs[d] : d \in gone \cup {c}}) \ m.hazard
           lost == dead \cup (UNION {m.arena[d] : d \in gone})
<1>0. /\ all \subseteq Checkpoints /\ gone \subseteq Checkpoints
      /\ c \notin gone
  BY PassedType DEF Good
<1>1. CASE \E d \in all : m.cp[d] # "live"
  BY <1>1, FaultGood DEF memory_checkpoint_rewind
<1>2. CASE (\A d \in all : m.cp[d] = "live") /\ c \notin all
  BY <1>2 DEF memory_checkpoint_rewind
<1>3. CASE (\A d \in all : m.cp[d] = "live") /\ c \in all
  <2> DEFINE S == [m.stack EXCEPT ![h] = SubSeq(s, Cardinality(Above(s, c)) + 1, Len(s))]
             P == [d \in Checkpoints |-> IF d \in gone THEN "freed" ELSE m.cp[d]]
             Z == [d \in Checkpoints |-> IF d \in gone THEN {}
                                         ELSE IF d = c THEN m.allocs[c] \cap m.hazard
                                         ELSE m.allocs[d]]
             R == [d \in Checkpoints |-> IF d \in gone THEN {} ELSE m.arena[d]]
             X == [b \in Blocks |-> IF b \in lost THEN "freed" ELSE m.mem[b]]
             Y == [b \in Blocks |-> IF b \in dead THEN None ELSE HomeAfter(m, gone)[b]]
  <2>1. s \in Seq(Checkpoints) /\ Len(s) \in Nat /\ Cardinality(Above(s, c)) \in Nat
    BY AboveFinite DEF Good, Allocators
  <2>2. SubSeq(s, Cardinality(Above(s, c)) + 1, Len(s)) \in Seq(Checkpoints)
    <3> HIDE DEF gone, s
    <3>1. \A i \in Cardinality(Above(s, c)) + 1 .. Len(s) : s[i] \in Checkpoints
      BY <2>1
    <3> QED
      BY <2>1, <3>1, SubSeqProperties
  <2>3. /\ S \in [Threads -> Seq(Checkpoints)]
        /\ P \in [Checkpoints -> Life]
    BY <2>2 DEF Good, Allocators, Life
  <2>4. /\ Z \in [Checkpoints -> SUBSET Blocks]
        /\ R \in [Checkpoints -> SUBSET Blocks]
    BY DEF Good, Allocators
  <2>5. X \in [Blocks -> Life]
    BY DEF Good, Allocators, Life
  <2>6. Y \in [Blocks -> Checkpoints \cup {None}]
    BY DEF Good, Allocators, HomeAfter
  <2>7. n = [m EXCEPT !.stack[h] = SubSeq(s, Cardinality(Above(s, c)) + 1, Len(s)), !.cp = P,
                      !.allocs = Z, !.arena = R, !.mem = X, !.home = Y]
    BY <1>3 DEF memory_checkpoint_rewind
  <2>8. n = [m EXCEPT !.stack = S, !.cp = P, !.allocs = Z, !.arena = R, !.mem = X, !.home = Y]
    <3> HIDE DEF n, P, Z, R, X, Y, gone
    <3> QED
      BY <2>7 DEF Good, Allocators
  <2> HIDE DEF n
  <2>9. /\ n \in Allocators /\ n.cp = P /\ n.allocs = Z /\ n.arena = R
        /\ n.mem = X /\ n.home = Y /\ n.kept = m.kept
    <3> HIDE DEF S, P, Z, R, X, Y
    <3> QED
      BY <2>3, <2>4, <2>5, <2>6, <2>8 DEF Good, Allocators
  <2>10. \A b \in Blocks : b \in dead <=> m.home[b] \in gone \cup {c} /\ b \notin m.hazard
    <3> SUFFICES ASSUME NEW b \in Blocks
                 PROVE  b \in dead <=> m.home[b] \in gone \cup {c} /\ b \notin m.hazard
      OBVIOUS
    <3> HIDE DEF gone
    <3>0. b \in UNION {m.allocs[d] : d \in gone \cup {c}}
             <=> \E d \in gone \cup {c} : b \in m.allocs[d]
      BY UnionImage
    <3>1. b \in dead <=> b \in UNION {m.allocs[d] : d \in gone \cup {c}} /\ b \notin m.hazard
      BY Zenon
    <3>2. \A d \in gone \cup {c} : b \in m.allocs[d] <=> m.home[b] = d
      BY <1>0 DEF Good, Tracked
    <3> HIDE DEF dead
    <3> QED
      BY <3>0, <3>1, <3>2, Zenon
  <2>11. \A b \in Blocks : m.home[b] # None => \A d \in Checkpoints : b \notin m.arena[d]
    BY DEF Good, Untracked
  <2>12. \A b \in Blocks : b \in lost /\ b \notin dead => m.home[b] = None
    <3> HIDE DEF dead, gone
    <3> QED
      BY <1>0, <2>11
  <2> HIDE DEF gone, dead, lost
  <2>13. \A b \in Blocks : Y[b] = IF m.home[b] \in gone THEN None
                                   ELSE IF m.home[b] = c /\ b \notin m.hazard THEN None
                                   ELSE m.home[b]
    BY <1>0, <2>10 DEF HomeAfter
  <2>14. Tracked(n)
    <3> SUFFICES ASSUME NEW b \in Blocks, NEW d \in Checkpoints
                 PROVE  /\ b \in n.allocs[d] <=> n.home[b] = d
                        /\ b \in n.allocs[d] => n.mem[b] = "live" /\ n.cp[d] = "live"
      BY DEF Tracked
    <3>1. d # None
      BY MemoryAssumption
    <3>2. b \in m.allocs[d] <=> m.home[b] = d
      BY DEF Good, Tracked
    <3>3. b \in n.allocs[d] <=> n.home[b] = d
      BY <1>0, <2>9, <2>13, <3>1, <3>2
    <3>4. ASSUME b \in n.allocs[d]
          PROVE  n.mem[b] = "live" /\ n.cp[d] = "live"
      BY <2>9, <2>13, <3>1, <3>3, <3>4, <2>10, <2>12, <3>2 DEF Good, Tracked
    <3> QED
      BY <3>3, <3>4
  <2>15. Untracked(n)
    <3> SUFFICES ASSUME NEW b \in Blocks, NEW d \in Checkpoints,
                        b \in n.arena[d] \/ n.mem[b] = "unused"
                 PROVE  n.home[b] = None
      BY DEF Untracked
    <3>1. b \in m.arena[d] \/ m.mem[b] = "unused"
      BY <2>9
    <3>2. m.home[b] = None
      BY <3>1 DEF Good, Untracked
    <3> QED
      BY <2>9, <2>13, <3>2
  <2>16. Kept(n)
    <3> SUFFICES ASSUME NEW b \in n.kept
                 PROVE  n.home[b] = None /\ (~Arena => n.mem[b] = "live")
      BY DEF Kept
    <3>1. b \in Blocks /\ m.home[b] = None /\ (~Arena => m.mem[b] = "live")
      BY <2>9 DEF Good, Allocators, Kept
    <3>2. b \notin dead
      BY <1>0, <2>10, <3>1, MemoryAssumption
    <3>3. ~Arena => b \notin lost
      BY <1>0, <3>2 DEF lost, Good, NoArena
    <3> QED
      BY <2>9, <2>13, <3>1, <3>3
  <2>17. NoArena(n)
    BY <2>9 DEF Good, NoArena
  <2> QED
    BY <2>9, <2>14, <2>15, <2>16, <2>17 DEF Good, n
<1> QED
  BY <1>1, <1>2, <1>3

-----------------------------------------------------------------------------
(* The steps of the threads keep the invariant.                            *)

\* An active transaction has its checkpoint and its hash table entry.
TxnHasEntry ==
    \A t \in Txns : txn[t].state = "active" => txn[t].cp # None /\ txn[t].entry # None

\* The inductive invariant.
IInv == TypeOK /\ TxnHasEntry /\ Good(mm)

\* The allocator invariant holds before the first allocation.
LEMMA InitIInv == Init => IInv
<1> SUFFICES ASSUME Init PROVE IInv
  OBVIOUS
<1> USE MemoryAssumption
<1>1. <<>> \in Seq(Checkpoints)
  OBVIOUS
<1>2. mm \in Allocators
  BY <1>1 DEF Init, Allocators, Life
<1>3. /\ mm.allocs = [c \in Checkpoints |-> {}] /\ mm.arena = [c \in Checkpoints |-> {}]
      /\ mm.home = [b \in Blocks |-> None] /\ mm.kept = {}
  BY DEF Init
<1>4. Good(mm)
  BY <1>2, <1>3 DEF Good, Tracked, Untracked, Kept, NoArena
<1>5. TypeOK
  BY <1>2 DEF Init, TypeOK, PCs, TxnRecords
<1>6. TxnHasEntry
  BY DEF Init, TxnHasEntry
<1> QED
  BY <1>4, <1>5, <1>6 DEF IInv

\* A step of the allocator by one thread, whatever the handler does with it.
LEMMA StepGood ==
    ASSUME IInv, NEW h \in Threads, Step(h)
    PROVE  Good(mm')
<1> USE DEF IInv
<1>t. /\ \A c \in Checkpoints : c # None
      /\ pc[h] # "idle" => req[h] \in Checkpoints
      /\ pc[h] = "update" => nested[h] \in Checkpoints
      /\ own[h] \subseteq Blocks
  BY MemoryAssumption DEF TypeOK
<1>e. \A t \in Txns : txn[t].state = "active" => txn[t].cp \in Checkpoints /\ txn[t].entry \in Blocks
  BY DEF TypeOK, TxnRecords, TxnHasEntry
<1>1. CASE api_dispatch_request(h)
  BY <1>1, CreateGood DEF api_dispatch_request
<1>2. ASSUME NEW b \in Blocks, Allocate(h, b) PROVE Good(mm')
  BY <1>2, AllocGood DEF Allocate, NewBlock
<1>3. ASSUME NEW b \in Blocks, Publish(h, b) PROVE Good(mm')
  BY <1>3, PromoteGood, HazardGood DEF Publish, LinkAs
<1>4. ASSUME NEW b \in Blocks, Release(h, b) PROVE Good(mm')
  BY <1>4, FreeGood DEF Release
<1>5. ASSUME NEW b \in Blocks, RespondError(h, b) PROVE Good(mm')
  BY <1>5, PromoteGood, <1>t, RewindGood DEF RespondError
<1>6. CASE Succeed(h)
  BY <1>6 DEF Succeed
<1>7. CASE api_result_free(h)
  BY <1>7, <1>t, CommitGood DEF api_result_free
<1>8. CASE Reject(h)
  BY <1>8, <1>t, RewindGood DEF Reject
<1>9. CASE UpdateStart(h)
  BY <1>9, CreateGood DEF UpdateStart
<1>10. CASE UpdateDone(h)
  BY <1>10, <1>t, CommitGood DEF UpdateDone
<1>11. CASE UpdateFails(h)
  BY <1>11, <1>t, RewindGood DEF UpdateFails
<1>12. ASSUME NEW t \in Txns, transaction_begin(h, t) PROVE Good(mm')
  <2>1. PICK c \in Checkpoints, b \in Blocks :
            /\ mm.mem[b] = "unused"
            /\ mm' = memory_alloc(memory_checkpoint_create(mm, h, c), h, b)
    BY <1>12 DEF transaction_begin, NewBlock
  <2>2. Good(memory_checkpoint_create(mm, h, c))
    BY CreateGood
  <2>3. memory_checkpoint_create(mm, h, c).mem[b] = "unused"
    BY <2>1 DEF memory_checkpoint_create, Good, Allocators
  <2> QED
    BY <2>1, <2>2, <2>3, AllocGood
<1>13. ASSUME NEW t \in Txns, NEW m, Good(m), FinishTransaction(h, t, m) PROVE Good(mm')
  BY <1>13, <1>e, FreeGood DEF FinishTransaction
<1>14. ASSUME NEW t \in Txns, transaction_commit(h, t) PROVE Good(mm')
  BY <1>14, <1>e, CommitGood, <1>13 DEF transaction_commit, FinishTransaction
<1>15. ASSUME NEW t \in Txns, transaction_rollback(h, t) PROVE Good(mm')
  BY <1>15, <1>e, RewindGood, <1>13 DEF transaction_rollback, FinishTransaction
<1> QED
  BY <1>1, <1>2, <1>3, <1>4, <1>5, <1>6, <1>7, <1>8, <1>9, <1>10, <1>11, <1>12, <1>14, <1>15
     DEF Step

\* A step keeps the types, and transactions keep their entries.
LEMMA StepTypes ==
    ASSUME IInv, NEW h \in Threads, Step(h), mm' \in Allocators
    PROVE  TypeOK' /\ TxnHasEntry'
<1> USE MemoryAssumption DEF IInv, PCs
<1>1. CASE api_dispatch_request(h)
  BY <1>1 DEF api_dispatch_request, TypeOK, TxnHasEntry
<1>2. ASSUME NEW b \in Blocks, Allocate(h, b) PROVE TypeOK' /\ TxnHasEntry'
  BY <1>2 DEF Allocate, TypeOK, TxnHasEntry
<1>3. ASSUME NEW b \in Blocks, Publish(h, b) PROVE TypeOK' /\ TxnHasEntry'
  BY <1>3 DEF Publish, TypeOK, TxnHasEntry
<1>4. ASSUME NEW b \in Blocks, Release(h, b) PROVE TypeOK' /\ TxnHasEntry'
  BY <1>4 DEF Release, TypeOK, TxnHasEntry
<1>5. ASSUME NEW b \in Blocks, RespondError(h, b) PROVE TypeOK' /\ TxnHasEntry'
  BY <1>5 DEF RespondError, TypeOK, TxnHasEntry
<1>6. CASE Succeed(h)
  BY <1>6 DEF Succeed, TypeOK, TxnHasEntry
<1>7. CASE api_result_free(h)
  BY <1>7 DEF api_result_free, TypeOK, TxnHasEntry
<1>8. CASE Reject(h)
  BY <1>8 DEF Reject, TypeOK, TxnHasEntry
<1>9. CASE UpdateStart(h)
  BY <1>9 DEF UpdateStart, TypeOK, TxnHasEntry
<1>10. CASE UpdateDone(h)
  BY <1>10 DEF UpdateDone, TypeOK, TxnHasEntry
<1>11. CASE UpdateFails(h)
  BY <1>11 DEF UpdateFails, TypeOK, TxnHasEntry
<1>12. ASSUME NEW t \in Txns, transaction_begin(h, t) PROVE TypeOK' /\ TxnHasEntry'
  <2>1. PICK c \in Checkpoints, b \in Blocks :
            /\ linked' = linked \cup {b}
            /\ txn' = [txn EXCEPT ![t] = [state |-> "active", cp |-> c, entry |-> b]]
    BY <1>12 DEF transaction_begin
  <2>2. txn' \in [Txns -> TxnRecords] /\ linked' \subseteq Blocks
    BY <2>1 DEF TypeOK, TxnRecords
  <2>3. TxnHasEntry'
    BY <2>1 DEF TypeOK, TxnHasEntry
  <2> QED
    BY <1>12, <2>2, <2>3 DEF transaction_begin, TypeOK
<1>13. ASSUME NEW t \in Txns, NEW m, FinishTransaction(h, t, m) PROVE TypeOK' /\ TxnHasEntry'
  BY <1>13 DEF FinishTransaction, TypeOK, TxnRecords, TxnHasEntry
<1> QED
  BY <1>1, <1>2, <1>3, <1>4, <1>5, <1>6, <1>7, <1>8, <1>9, <1>10, <1>11, <1>12, <1>13
     DEF Step, transaction_commit, transaction_rollback

\* IInv holds in every reachable state of memory_manager.c and its callers.
THEOREM InductiveInvariant == Spec => []IInv
<1>1. IInv /\ [Next]_vars => IInv'
  <2> SUFFICES ASSUME IInv, [Next]_vars PROVE IInv'
    OBVIOUS
  <2>1. CASE Next
    <3>1. PICK h \in Threads : Step(h)
      BY <2>1 DEF Next
    <3>2. Good(mm')
      BY <3>1, StepGood
    <3>3. TypeOK' /\ TxnHasEntry'
      BY <3>1, <3>2, StepTypes DEF Good
    <3>4. Good(mm)'
      BY <3>2 DEF Good, Tracked, Untracked, Kept, NoArena
    <3> QED
      BY <3>3, <3>4 DEF IInv
  <2>2. CASE UNCHANGED vars
    BY <2>2 DEF vars, IInv, TypeOK, TxnHasEntry, Good, Tracked, Untracked, Kept, NoArena
  <2> QED
    BY <2>1, <2>2
<1> QED
  BY <1>1, InitIInv, PTL DEF Spec

\* Every variable of the allocator and of its callers keeps its type.
THEOREM TypeCorrect == Spec => []TypeOK
<1>1. IInv => TypeOK
  BY DEF IInv
<1> QED
  BY <1>1, InductiveInvariant, PTL

\* After any interleaving of allocations, promotions, commits and rewinds the
\* list of a checkpoint and the headers of its blocks agree: no live block
\* points at a freed checkpoint and no list holds a freed block.
THEOREM ListsMatchHeaders == Spec => []TrackingConsistent
<1>1. IInv => TrackingConsistent
  BY DEF IInv, Good, Tracked, TrackingConsistent
<1> QED
  BY <1>1, InductiveInvariant, PTL

\* With the arena switched off, as it is by default, no rewind frees a block
\* that was committed or promoted: memory_free alone does.
THEOREM CommittedIsPermanent == ASSUME Arena = FALSE PROVE Spec => []KeptIsLive
<1>1. IInv => KeptIsLive
  BY DEF IInv, Good, Kept, KeptIsLive
<1> QED
  BY <1>1, InductiveInvariant, PTL

\* With the arena switched off the checkpoints' lists, the headers of the blocks and
\* the blocks that were kept agree at every moment.
THEOREM ListsAreSound == ASSUME Arena = FALSE PROVE Spec => []ListsSound
<1>1. TypeOK /\ TrackingConsistent /\ KeptIsLive => ListsSound
  BY DEF ListsSound
<1> QED
  BY <1>1, TypeCorrect, ListsMatchHeaders, CommittedIsPermanent, PTL
-----------------------------------------------------------------------------
(* Checkpoints on the stacks of the threads.                               *)

\* The checkpoints on the stack of thread h.
On(m, h) == {m.stack[h][i] : i \in 1 .. Len(m.stack[h])}

\* A checkpoint that is on a stack was created, and is on that stack only.
Apart(m) ==
    /\ \A h \in Threads : \A c \in On(m, h) : m.cp[c] # "unused"
    /\ \A g, h \in Threads : g # h => On(m, g) \cap On(m, h) = {}

\* The checkpoint c, if there is one, was created and is on no stack but that of h.
NobodyElses(m, h, c) ==
    c # None => /\ m.cp[c] # "unused"
                /\ \A g \in Threads \ {h} : c \notin On(m, g)

\* What a thread may free, it or nobody has on a stack.
StackInv ==
    /\ Apart(mm)
    /\ \A h \in Threads : NobodyElses(mm, h, req[h]) /\ NobodyElses(mm, h, nested[h])

\* What every step but the opening of a checkpoint does to the stacks.
OnlyDrops(m, n) ==
    /\ \A h \in Threads : On(n, h) \subseteq On(m, h)
    /\ \A c \in Checkpoints : n.cp[c] = "unused" => m.cp[c] = "unused"

\* Checkpoints outside D stay as they are.
Spares(m, n, D) == \A c \in Checkpoints \ D : n.cp[c] = m.cp[c]

LEMMA OnType ==
    ASSUME NEW m \in Allocators, NEW h \in Threads
    PROVE  On(m, h) \subseteq Checkpoints
  BY DEF Allocators, On

\* A stack that is left alone keeps its checkpoints.
LEMMA SameDrops ==
    ASSUME NEW m, NEW n, n.stack = m.stack, n.cp = m.cp
    PROVE  OnlyDrops(m, n) /\ Spares(m, n, {})
BY DEF OnlyDrops, Spares, On

LEMMA DropsTransitive ==
    ASSUME NEW m, NEW n, NEW o, OnlyDrops(m, n), OnlyDrops(n, o)
    PROVE  OnlyDrops(m, o)
BY DEF OnlyDrops

\* Dropping checkpoints brings none onto another stack.
LEMMA DropsKeepStacks ==
    ASSUME NEW m \in Allocators, NEW n, Apart(m), OnlyDrops(m, n)
    PROVE  /\ Apart(n)
           /\ \A h \in Threads, c \in Checkpoints \cup {None} :
                  NobodyElses(m, h, c) => NobodyElses(n, h, c)
  BY OnType DEF Apart, OnlyDrops, NobodyElses

\* Opening a checkpoint puts it on the stack of its thread.
LEMMA CreateEffect ==
    ASSUME NEW m \in Allocators, NEW h \in Threads, NEW c \in Checkpoints
    PROVE  LET n == memory_checkpoint_create(m, h, c)
           IN  /\ n.stack[h] = <<c>> \o m.stack[h]
               /\ \A g \in Threads \ {h} : n.stack[g] = m.stack[g]
               /\ n.cp[c] = "live"
               /\ \A d \in Checkpoints \ {c} : n.cp[d] = m.cp[d]
               /\ n.fault = m.fault /\ n.mem = m.mem /\ n.home = m.home
               /\ n.hazard = m.hazard
BY DEF memory_checkpoint_create, Allocators

LEMMA PushedPositions ==
    ASSUME NEW s \in Seq(Checkpoints), NEW c \in Checkpoints, NEW t, t = <<c>> \o s
    PROVE  /\ Len(t) = Len(s) + 1
           /\ t[1] = c
           /\ \A i \in 1 .. Len(s) : t[i + 1] = s[i]
           /\ \A i \in 2 .. Len(t) : i - 1 \in 1 .. Len(s) /\ t[i] = s[i - 1]
  OBVIOUS

LEMMA CreateKeepsStacks ==
    ASSUME NEW m \in Allocators, NEW h \in Threads, NEW c \in Checkpoints, NEW n,
           n = memory_checkpoint_create(m, h, c), Apart(m), m.cp[c] = "unused"
    PROVE  /\ Apart(n)
           /\ NobodyElses(n, h, c)
           /\ \A g \in Threads, d \in Checkpoints \cup {None} :
                  NobodyElses(m, g, d) => NobodyElses(n, g, d)
           /\ Spares(m, n, {c})
<1>1. /\ n.stack[h] = <<c>> \o m.stack[h]
      /\ \A g \in Threads \ {h} : n.stack[g] = m.stack[g]
      /\ n.cp[c] = "live"
      /\ \A d \in Checkpoints \ {c} : n.cp[d] = m.cp[d]
  BY CreateEffect
<1>2. On(n, h) \subseteq On(m, h) \cup {c}
  <2>1. m.stack[h] \in Seq(Checkpoints)
    BY DEF Allocators
  <2>2. ASSUME NEW i \in 1 .. Len(n.stack[h])
        PROVE  n.stack[h][i] \in On(m, h) \cup {c}
    <3>1. CASE i = 1
      BY <1>1, <2>1, <3>1, PushedPositions
    <3>2. CASE i # 1
      <4>1. Len(n.stack[h]) \in Nat /\ i \in 2 .. Len(n.stack[h])
        BY <1>1, <2>1, <3>2
      <4>2. i - 1 \in 1 .. Len(m.stack[h]) /\ n.stack[h][i] = m.stack[h][i - 1]
        BY <1>1, <2>1, <4>1, PushedPositions
      <4> QED
        BY <4>2 DEF On
    <3> QED
      BY <3>1, <3>2
  <2> QED
    BY <2>2 DEF On
<1>3. \A g \in Threads \ {h} : On(n, g) = On(m, g)
  BY <1>1, SMTT(30) DEF On
<1>4. \A g \in Threads : On(m, g) \subseteq Checkpoints \ {c}
  BY OnType DEF Apart
<1>5. Apart(n)
  BY <1>1, <1>2, <1>3, <1>4 DEF Apart
<1>6. NobodyElses(n, h, c)
  BY <1>1, <1>3, <1>4 DEF NobodyElses
<1>7. ASSUME NEW g \in Threads, NEW d \in Checkpoints \cup {None}, NobodyElses(m, g, d)
      PROVE  NobodyElses(n, g, d)
  <2> SUFFICES ASSUME d # None
               PROVE  n.cp[d] # "unused" /\ \A k \in Threads \ {g} : d \notin On(n, k)
    BY DEF NobodyElses
  <2>1. d \in Checkpoints \ {c} /\ m.cp[d] # "unused" /\ \A k \in Threads \ {g} : d \notin On(m, k)
    BY <1>7 DEF NobodyElses
  <2> QED
    BY <1>1, <1>2, <1>3, <2>1
<1> QED
  BY <1>1, <1>5, <1>6, <1>7 DEF Spares
\* Allocating, freeing and promoting a block leave stacks and checkpoints alone.
LEMMA BlockOperations ==
    ASSUME NEW m \in Allocators, NEW h \in Threads, NEW b \in Blocks
    PROVE  /\ Fault(m).stack = m.stack /\ Fault(m).cp = m.cp
           /\ memory_alloc(m, h, b).stack = m.stack /\ memory_alloc(m, h, b).cp = m.cp
           /\ memory_free(m, b).stack = m.stack /\ memory_free(m, b).cp = m.cp
           /\ memory_promote(m, b).stack = m.stack /\ memory_promote(m, b).cp = m.cp
           /\ memory_mark_hazard_protected(m, b).stack = m.stack
           /\ memory_mark_hazard_protected(m, b).cp = m.cp
<1>1. Fault(m).stack = m.stack /\ Fault(m).cp = m.cp
  BY DEF Fault, Allocators
<1>2. memory_alloc(m, h, b).stack = m.stack /\ memory_alloc(m, h, b).cp = m.cp
  BY <1>1 DEF memory_alloc, Allocators
<1>3. /\ Unlink(m, b).stack = m.stack /\ Unlink(m, b).cp = m.cp
      /\ Unlink(m, b) = [Unlink(m, b) EXCEPT !.kept = @]
      /\ DOMAIN Unlink(m, b) = DOMAIN m
  BY <1>1 DEF Unlink, Fault, Allocators
<1> DEFINE u == Unlink(m, b)
<1>4. memory_free(m, b).stack = m.stack /\ memory_free(m, b).cp = m.cp
  BY <1>3 DEF memory_free, Allocators
<1>5. memory_promote(m, b).stack = m.stack /\ memory_promote(m, b).cp = m.cp
  BY <1>3 DEF memory_promote, Allocators
<1>6. memory_mark_hazard_protected(m, b).stack = m.stack /\ memory_mark_hazard_protected(m, b).cp = m.cp
  BY DEF memory_mark_hazard_protected, Allocators
<1> QED
  BY <1>1, <1>2, <1>4, <1>5, <1>6

\* A commit takes c from the stack or leaves it there dangling, and frees it alone.
LEMMA CommitDrops ==
    ASSUME NEW m \in Allocators, NEW h \in Threads, NEW c \in Checkpoints, NEW n,
           n = memory_checkpoint_commit(m, h, c)
    PROVE  OnlyDrops(m, n) /\ Spares(m, n, {c})
<1>1. CASE m.cp[c] # "live"
  BY <1>1 DEF memory_checkpoint_commit, Fault, Allocators, OnlyDrops, Spares, On
<1>2. CASE m.cp[c] = "live"
  <2> DEFINE s == m.stack[h]
             t == Pop(s, c)
  <2>1. n.stack = [m.stack EXCEPT ![h] = t] /\ n.cp = [m.cp EXCEPT ![c] = "freed"]
    BY <1>2 DEF memory_checkpoint_commit, Allocators
  <2>2. s \in Seq(Checkpoints)
    BY DEF Allocators
  <2>3. \A i \in 1 .. Len(t) : \E j \in 1 .. Len(s) : t[i] = s[j]
    <3> HIDE DEF s
    <3>1. CASE t = s
      BY <3>1
    <3>2. CASE s # <<>> /\ t = Tail(s)
      BY <2>2, <3>2, HeadTailProperties
    <3> QED
      BY <3>1, <3>2 DEF Pop
  <2> HIDE DEF t
  <2>4. ASSUME NEW g \in Threads PROVE On(n, g) \subseteq On(m, g)
    BY <2>1, <2>3 DEF Allocators, On
  <2>5. \A d \in Checkpoints : n.cp[d] = IF d = c THEN "freed" ELSE m.cp[d]
    BY <2>1 DEF Allocators
  <2> QED
    BY <2>4, <2>5 DEF OnlyDrops, Spares
<1> QED
  BY <1>1, <1>2

\* The search for a checkpoint passes checkpoints of the thread's own stack.
LEMMA PassedOn ==
    ASSUME NEW m, NEW h, NEW c
    PROVE  Passed(m, h, c) \subseteq On(m, h)
BY DEF Passed, On

\* A rewind drops and frees checkpoints of the thread's own stack.
LEMMA RewindDrops ==
    ASSUME NEW m \in Allocators, NEW h \in Threads, NEW c \in Checkpoints, NEW n,
           n = memory_checkpoint_rewind(m, h, c)
    PROVE  OnlyDrops(m, n) /\ Spares(m, n, On(m, h))
<1> DEFINE s == m.stack[h]
           gone == Passed(m, h, c) \ {c}
           k == Cardinality(Above(s, c))
<1>1. CASE n.stack = m.stack /\ n.cp = m.cp
  BY <1>1 DEF OnlyDrops, Spares, On
<1>2. CASE ~ (n.stack = m.stack /\ n.cp = m.cp)
  <2>1. /\ n.stack = [m.stack EXCEPT ![h] = SubSeq(s, k + 1, Len(s))]
        /\ n.cp = [d \in Checkpoints |-> IF d \in gone THEN "freed" ELSE m.cp[d]]
    <3> HIDE DEF gone, k
    <3> QED
      BY <1>2 DEF memory_checkpoint_rewind, Fault, Allocators, gone, k
  <2>2. s \in Seq(Checkpoints) /\ k \in Nat /\ Len(s) \in Nat
    BY AboveFinite DEF Allocators
  <2>3. ASSUME NEW i \in 1 .. Len(SubSeq(s, k + 1, Len(s)))
        PROVE  k + i \in 1 .. Len(s) /\ SubSeq(s, k + 1, Len(s))[i] = s[k + i]
    <3> HIDE DEF s, k
    <3>1. \A j \in k + 1 .. Len(s) : s[j] \in Checkpoints
      BY <2>2
    <3>2. /\ Len(SubSeq(s, k + 1, Len(s))) = IF k + 1 <= Len(s) THEN Len(s) - (k + 1) + 1 ELSE 0
          /\ \A j \in 1 .. Len(s) - (k + 1) + 1 : SubSeq(s, k + 1, Len(s))[j] = s[(k + 1) + j - 1]
      BY <2>2, <3>1, SubSeqProperties
    <3>3. i \in 1 .. Len(s) - (k + 1) + 1 /\ (k + 1) + i - 1 = k + i /\ k + i \in 1 .. Len(s)
      BY <2>2, <3>2
    <3> QED
      BY <3>2, <3>3
  <2> DEFINE t == SubSeq(s, k + 1, Len(s))
  <2>4. \A i \in 1 .. Len(t) : \E j \in 1 .. Len(s) : t[i] = s[j]
    BY <2>3
  <2> HIDE DEF t, gone
  <2>5. ASSUME NEW g \in Threads PROVE On(n, g) \subseteq On(m, g)
    <3>1. n.stack[g] = IF g = h THEN t ELSE m.stack[g]
      BY <2>1 DEF Allocators, t
    <3> QED
      BY <2>4, <3>1 DEF On
  <2>6. \A d \in Checkpoints : n.cp[d] = IF d \in gone THEN "freed" ELSE m.cp[d]
    BY <2>1
  <2>7. gone \subseteq On(m, h)
    BY PassedOn DEF gone
  <2> QED
    BY <2>5, <2>6, <2>7 DEF OnlyDrops, Spares
<1> QED
  BY <1>1, <1>2
\* Nothing but the opening of a checkpoint, with pointers that are kept or cleared.
DropStep(h) ==
    /\ OnlyDrops(mm, mm')
    /\ \A g \in Threads : req'[g] \in {req[g], None} /\ nested'[g] \in {nested[g], None}

\* The checkpoints on the stacks of other threads stay as they are.
LeavesOthers(h) == \A g \in Threads \ {h} : Spares(mm, mm', Checkpoints \ On(mm, g))

LEMMA DropStepKeepsStacks ==
    ASSUME IInv, StackInv, NEW h \in Threads, DropStep(h)
    PROVE  StackInv'
<1>1. Apart(mm') /\ \A g \in Threads, c \in Checkpoints \cup {None} :
                        NobodyElses(mm, g, c) => NobodyElses(mm', g, c)
  BY DropsKeepStacks DEF IInv, Good, StackInv, DropStep
<1>2. ASSUME NEW g \in Threads PROVE NobodyElses(mm', g, req'[g]) /\ NobodyElses(mm', g, nested'[g])
  BY <1>1 DEF NobodyElses, IInv, TypeOK, StackInv, DropStep
<1>3. /\ Apart(mm)' = Apart(mm')
      /\ \A g \in Threads : /\ NobodyElses(mm, g, req[g])' = NobodyElses(mm', g, req'[g])
                            /\ NobodyElses(mm, g, nested[g])' = NobodyElses(mm', g, nested'[g])
  BY DEF Apart, NobodyElses, On
<1> QED
  BY <1>1, <1>2, <1>3 DEF StackInv

\* The opening of a checkpoint c, with blocks perhaps, by thread h.
CreateStep(h, c, n) ==
    /\ mm.cp[c] = "unused"
    /\ n = memory_checkpoint_create(mm, h, c)
    /\ mm'.stack = n.stack /\ mm'.cp = n.cp
    /\ \A g \in Threads : /\ req'[g] = req[g] \/ (g = h /\ req'[g] = c)
                          /\ nested'[g] = nested[g] \/ (g = h /\ nested'[g] = c)

LEMMA CreateStepKeepsStacks ==
    ASSUME IInv, StackInv, NEW h \in Threads, NEW c \in Checkpoints, NEW n, CreateStep(h, c, n)
    PROVE  StackInv' /\ LeavesOthers(h)
<1>1. /\ Apart(n)
      /\ NobodyElses(n, h, c)
      /\ \A g \in Threads, d \in Checkpoints \cup {None} :
             NobodyElses(mm, g, d) => NobodyElses(n, g, d)
      /\ Spares(mm, n, {c})
  BY CreateKeepsStacks DEF IInv, Good, StackInv, CreateStep
<1>2. \A g \in Threads, d \in Checkpoints \cup {None} : NobodyElses(n, g, d) = NobodyElses(mm', g, d)
  BY DEF NobodyElses, On, CreateStep
<1>3. ASSUME NEW g \in Threads PROVE NobodyElses(mm', g, req'[g]) /\ NobodyElses(mm', g, nested'[g])
  BY <1>1, <1>2 DEF IInv, TypeOK, StackInv, CreateStep
<1>4. Apart(mm')
  <2>1. \A g \in Threads : On(mm', g) = On(n, g)
    BY DEF On, CreateStep
  <2>2. mm'.cp = n.cp
    BY DEF CreateStep
  <2> QED
    BY <1>1, <2>1, <2>2 DEF Apart
<1>5. /\ Apart(mm)' = Apart(mm')
      /\ \A g \in Threads : /\ NobodyElses(mm, g, req[g])' = NobodyElses(mm', g, req'[g])
                            /\ NobodyElses(mm, g, nested[g])' = NobodyElses(mm', g, nested'[g])
  BY DEF Apart, NobodyElses, On
<1>6. LeavesOthers(h)
  BY <1>1 DEF StackInv, Apart, CreateStep, LeavesOthers, Spares
<1> QED
  BY <1>3, <1>4, <1>5, <1>6 DEF StackInv

\* A step that frees checkpoints of the thread's own stack or its own request's.
LEMMA OwnDropLeavesOthers ==
    ASSUME IInv, StackInv, NEW h \in Threads, NEW c \in Checkpoints,
           Spares(mm, mm', On(mm, h)) \/ (Spares(mm, mm', {c}) /\ NobodyElses(mm, h, c))
    PROVE  LeavesOthers(h)
  BY MemoryAssumption DEF StackInv, Apart, LeavesOthers, Spares, NobodyElses
\* A step that ends no transaction frees no checkpoint of another thread.
LEMMA StepStacks ==
    ASSUME IInv, StackInv, NEW h \in Threads, Step(h)
    PROVE  StackInv' /\ (LeavesOthers(h) \/ EndsTransaction)
<1>t. /\ mm \in Allocators
      /\ \A c \in Checkpoints : c # None
      /\ pc[h] # "idle" => req[h] \in Checkpoints
      /\ pc[h] = "update" => nested[h] \in Checkpoints
      /\ own[h] \subseteq Blocks
      /\ req \in [Threads -> Checkpoints \cup {None}]
      /\ nested \in [Threads -> Checkpoints \cup {None}]
  BY MemoryAssumption DEF IInv, Good, TypeOK
<1>e. \A t \in Txns : txn[t].state = "active" => txn[t].cp \in Checkpoints /\ txn[t].entry \in Blocks
  BY DEF IInv, TypeOK, TxnRecords, TxnHasEntry
<1>n. NobodyElses(mm, h, req[h]) /\ NobodyElses(mm, h, nested[h])
  BY DEF StackInv
<1>s. ASSUME mm'.stack = mm.stack, mm'.cp = mm.cp,
             \A g \in Threads : req'[g] \in {req[g], None} /\ nested'[g] \in {nested[g], None}
      PROVE  StackInv' /\ LeavesOthers(h)
  BY <1>s, SameDrops, DropStepKeepsStacks DEF DropStep, LeavesOthers, Spares
<1>c. ASSUME NEW c \in Checkpoints, mm' = memory_checkpoint_commit(mm, h, c), NobodyElses(mm, h, c),
             \A g \in Threads : req'[g] \in {req[g], None} /\ nested'[g] \in {nested[g], None}
      PROVE  StackInv' /\ LeavesOthers(h)
  BY <1>t, <1>c, CommitDrops, DropStepKeepsStacks, OwnDropLeavesOthers DEF DropStep
<1>r. ASSUME NEW c \in Checkpoints, NEW m \in Allocators, m.stack = mm.stack, m.cp = mm.cp,
             mm' = memory_checkpoint_rewind(m, h, c),
             \A g \in Threads : req'[g] \in {req[g], None} /\ nested'[g] \in {nested[g], None}
      PROVE  StackInv' /\ LeavesOthers(h)
  <2>1. OnlyDrops(m, mm') /\ Spares(m, mm', On(m, h))
    BY <1>r, RewindDrops
  <2>2. OnlyDrops(mm, mm') /\ Spares(mm, mm', On(mm, h))
    <3>1. \A g \in Threads : On(m, g) = On(mm, g)
      BY <1>r DEF On
    <3>2. m.cp = mm.cp
      BY <1>r
    <3> QED
      BY <2>1, <3>1, <3>2 DEF OnlyDrops, Spares
  <2> QED
    BY <1>r, <2>2, DropStepKeepsStacks, OwnDropLeavesOthers DEF DropStep
<1>1. CASE api_dispatch_request(h)
  <2>1. PICK c \in Checkpoints : /\ mm.cp[c] = "unused"
                                 /\ mm' = memory_checkpoint_create(mm, h, c)
                                 /\ req' = [req EXCEPT ![h] = c]
    BY <1>1 DEF api_dispatch_request, Fresh
  <2>2. CreateStep(h, c, mm')
    BY <1>1, <1>t, <2>1 DEF CreateStep, api_dispatch_request
  <2> QED
    BY <2>2, CreateStepKeepsStacks
<1>2. ASSUME NEW b \in Blocks, Allocate(h, b) PROVE StackInv' /\ LeavesOthers(h)
  BY <1>2, <1>t, <1>s, BlockOperations DEF Allocate
<1>3. ASSUME NEW b \in Blocks, Publish(h, b) PROVE StackInv' /\ LeavesOthers(h)
  BY <1>3, <1>t, <1>s, BlockOperations DEF Publish, LinkAs
<1>4. ASSUME NEW b \in Blocks, Release(h, b) PROVE StackInv' /\ LeavesOthers(h)
  BY <1>4, <1>t, <1>s, BlockOperations DEF Release
<1>5. ASSUME NEW b \in Blocks, RespondError(h, b) PROVE StackInv' /\ LeavesOthers(h)
  <2> DEFINE m == memory_promote(mm, b)
  <2>1. m \in Allocators /\ m.stack = mm.stack /\ m.cp = mm.cp
    BY <1>t, PromoteGood, BlockOperations DEF Good, IInv
  <2>2. /\ mm' = memory_checkpoint_rewind(m, h, req[h])
        /\ \A g \in Threads : req'[g] \in {req[g], None} /\ nested'[g] \in {nested[g], None}
    BY <1>5, <1>t DEF RespondError
  <2>3. req[h] \in Checkpoints
    BY <1>5, <1>t DEF RespondError
  <2> HIDE DEF m
  <2> QED
    BY <1>r, <2>1, <2>2, <2>3
<1>6. CASE Succeed(h)
  BY <1>6, <1>s DEF Succeed
<1>7. CASE api_result_free(h)
  BY <1>7, <1>t, <1>n, <1>c DEF api_result_free
<1>8. CASE Reject(h)
  BY <1>8, <1>t, <1>r DEF Reject
<1>9. CASE UpdateStart(h)
  <2>1. PICK c \in Checkpoints : /\ mm.cp[c] = "unused"
                                 /\ mm' = memory_checkpoint_create(mm, h, c)
                                 /\ nested' = [nested EXCEPT ![h] = c]
    BY <1>9 DEF UpdateStart, Fresh
  <2>2. CreateStep(h, c, mm')
    BY <1>9, <1>t, <2>1 DEF CreateStep, UpdateStart
  <2> QED
    BY <2>2, CreateStepKeepsStacks
<1>10. CASE UpdateDone(h)
  BY <1>10, <1>t, <1>n, <1>c DEF UpdateDone
<1>11. CASE UpdateFails(h)
  BY <1>11, <1>t, <1>r DEF UpdateFails
<1>12. ASSUME NEW t \in Txns, transaction_begin(h, t) PROVE StackInv' /\ LeavesOthers(h)
  <2>1. PICK c \in Checkpoints : \E b \in Blocks :
            /\ mm.cp[c] = "unused"
            /\ mm' = memory_alloc(memory_checkpoint_create(mm, h, c), h, b)
    BY <1>12 DEF transaction_begin, Fresh
  <2> DEFINE n == memory_checkpoint_create(mm, h, c)
  <2>2. n \in Allocators
    BY CreateGood DEF IInv, Good
  <2>3. mm'.stack = n.stack /\ mm'.cp = n.cp
    BY <2>1, <2>2, BlockOperations
  <2>4. CreateStep(h, c, n)
    BY <1>12, <2>1, <2>3 DEF CreateStep, transaction_begin
  <2> QED
    BY <2>4, CreateStepKeepsStacks
<1>13. ASSUME NEW t \in Txns, NEW m, Good(m), OnlyDrops(mm, m), FinishTransaction(h, t, m)
       PROVE  StackInv' /\ EndsTransaction
  <2>1. mm'.stack = m.stack /\ mm'.cp = m.cp
    BY <1>13, <1>e, BlockOperations DEF FinishTransaction, Good
  <2>2. OnlyDrops(mm, mm')
    BY <1>13, <2>1 DEF OnlyDrops, On
  <2>3. DropStep(h)
    BY <1>13, <2>2 DEF DropStep, FinishTransaction
  <2>4. txn[t].state = "active" /\ txn'[t].state = "done"
    BY <1>13 DEF FinishTransaction, IInv, TypeOK, TxnRecords
  <2> QED
    BY <2>3, <2>4, DropStepKeepsStacks DEF EndsTransaction
<1>14. ASSUME NEW t \in Txns, transaction_commit(h, t) PROVE StackInv' /\ EndsTransaction
  <2>1. txn[t].cp \in Checkpoints
    BY <1>14, <1>e DEF transaction_commit, FinishTransaction
  <2> DEFINE m == memory_checkpoint_commit(mm, h, txn[t].cp)
  <2>2. Good(m) /\ OnlyDrops(mm, m)
    BY <1>t, <2>1, CommitGood, CommitDrops DEF IInv
  <2> QED
    BY <1>13, <1>14, <2>2 DEF transaction_commit
<1>15. ASSUME NEW t \in Txns, transaction_rollback(h, t) PROVE StackInv' /\ EndsTransaction
  <2>1. txn[t].cp \in Checkpoints
    BY <1>15, <1>e DEF transaction_rollback, FinishTransaction
  <2> DEFINE m == memory_checkpoint_rewind(mm, h, txn[t].cp)
  <2>2. Good(m) /\ OnlyDrops(mm, m)
    BY <1>t, <2>1, RewindGood, RewindDrops DEF IInv
  <2> QED
    BY <1>13, <1>15, <2>2 DEF transaction_rollback
<1> QED
  BY <1>1, <1>2, <1>3, <1>4, <1>5, <1>6, <1>7, <1>8, <1>9, <1>10, <1>11, <1>12, <1>14, <1>15
     DEF Step

\* The stacks of the threads hold different checkpoints, and what a request or an update
\* frees at its end is on no stack but that of its thread.
THEOREM StacksAreApart == Spec => []StackInv
<1>1. Init => StackInv
  BY DEF Init, StackInv, Apart, NobodyElses, On
<1>2. IInv /\ StackInv /\ [Next]_vars => StackInv'
  <2> SUFFICES ASSUME IInv, StackInv, [Next]_vars PROVE StackInv'
    OBVIOUS
  <2>1. CASE Next
    <3>1. PICK h \in Threads : Step(h)
      BY <2>1 DEF Next
    <3> QED
      BY <3>1, StepStacks
  <2>2. CASE UNCHANGED vars
    <3>1. mm' = mm /\ req' = req /\ nested' = nested
      BY <2>2 DEF vars
    <3>2. \A h \in Threads : On(mm, h)' = On(mm, h)
      BY <3>1 DEF On
    <3> QED
      BY <3>1, <3>2 DEF StackInv, Apart, NobodyElses
  <2> QED
    BY <2>1, <2>2
<1> QED
  BY <1>1, <1>2, InductiveInvariant, PTL DEF Spec

\* Whatever allocations, commits and rewinds of all threads are interleaved, no thread frees
\* a checkpoint on the stack of another, unless it commits or rolls back a transaction.
THEOREM ThreadsAreIsolated == Spec => ThreadIsolation
<1> DEFINE A == \A g, h \in Threads :
                    g # h /\ Step(h) /\ ~EndsTransaction =>
                        \A i \in 1 .. Len(mm.stack[g]) :
                            mm'.cp[mm.stack[g][i]] = mm.cp[mm.stack[g][i]]
<1>1. IInv /\ StackInv => A
  <2> SUFFICES ASSUME IInv, StackInv, NEW g \in Threads, NEW h \in Threads,
                      g # h, Step(h), ~EndsTransaction,
                      NEW i \in 1 .. Len(mm.stack[g])
               PROVE  mm'.cp[mm.stack[g][i]] = mm.cp[mm.stack[g][i]]
    OBVIOUS
  <2>1. LeavesOthers(h)
    BY StepStacks
  <2>2. mm.stack[g][i] \in On(mm, g) /\ On(mm, g) \subseteq Checkpoints
    BY OnType DEF On, IInv, Good
  <2> QED
    BY <2>1, <2>2 DEF LeavesOthers, Spares
<1>2. [A]_vars <=> (A \/ UNCHANGED vars)
  OBVIOUS
<1> QED
  BY <1>1, InductiveInvariant, StacksAreApart, PTL DEF ThreadIsolation
-----------------------------------------------------------------------------
(* Without transactions nothing is touched after it was freed.             *)

\* A checkpoint is on a stack once.
Distinct(m) == \A h \in Threads : \A i, j \in 1 .. Len(m.stack[h]) :
                   m.stack[h][i] = m.stack[h][j] => i = j

\* The checkpoints of thread h from the current one to the p-th are live.
LiveTop(m, h, p) == \A i \in 1 .. Len(m.stack[h]) : i <= p => m.cp[m.stack[h][i]] = "live"

\* The p-th checkpoint of thread h is c, and those above it and the next one are live.
\* What lies deeper may have been freed.
TopAt(m, h, c, p) == /\ p \in 1 .. Len(m.stack[h])
                     /\ m.stack[h][p] = c
                     /\ LiveTop(m, h, p + 1)

\* Thread h is in the given state, with the checkpoints r of its request and u of its update.
RequestTop(m, h, state, r, u) ==
    /\ state = "idle" => LiveTop(m, h, 1)
    /\ state \in {"handler", "send"} => \E p \in Nat : TopAt(m, h, r, p)
    /\ state = "update" => /\ \E p \in Nat : p > 1 /\ TopAt(m, h, r, p)
                           /\ TopAt(m, h, u, 1)

\* A linked block is out of every list or protected from the rewind.
LinkedSafe(m, bs) ==
    \A b \in bs : m.mem[b] = "live" /\ (b \in m.hazard \/ m.home[b] = None)

NoTransaction == \A t \in Txns : txn[t].state = "none"

\* As long as no transaction has begun.
RequestInv ==
    NoTransaction => /\ ~mm.fault
                     /\ Distinct(mm)
                     /\ \A h \in Threads : RequestTop(mm, h, pc[h], req[h], nested[h])
                     /\ LinkedSafe(mm, linked)

\* From m to n a live checkpoint is committed: the blocks of its list stay, without a header.
Commits(m, n, h, c) ==
    /\ n.stack[h] = Pop(m.stack[h], c)
    /\ \A d \in Checkpoints : n.cp[d] = IF d = c THEN "freed" ELSE m.cp[d]
    /\ n.fault = m.fault /\ n.hazard = m.hazard /\ n.mem = m.mem
    /\ \A b \in Blocks : n.home[b] \in {m.home[b], None}

\* A live checkpoint can be committed.
LEMMA CommitEffect ==
    ASSUME NEW m, Good(m), Arena = FALSE, NEW h \in Threads, NEW c \in Checkpoints, m.cp[c] = "live"
    PROVE  Commits(m, memory_checkpoint_commit(m, h, c), h, c)
<1> DEFINE n == memory_checkpoint_commit(m, h, c)
           S == [m.stack EXCEPT ![h] = Pop(@, c)]
           P == [m.cp EXCEPT ![c] = "freed"]
           Z == [m.allocs EXCEPT ![c] = {}]
           R == [m.arena EXCEPT ![c] = {}]
           X == [b \in Blocks |-> IF b \in m.arena[c] THEN "freed" ELSE m.mem[b]]
           Y == [b \in Blocks |-> IF m.home[b] = c THEN None ELSE m.home[b]]
           K == m.kept \cup m.allocs[c] \cup m.arena[c]
<1>1. n = [m EXCEPT !.stack = S, !.cp = P, !.allocs = Z, !.arena = R, !.mem = X,
                    !.home = Y, !.kept = K]
  BY DEF memory_checkpoint_commit, Good, Allocators
<1> HIDE DEF n
<1>2. n.stack = S /\ n.cp = P /\ n.fault = m.fault /\ n.hazard = m.hazard /\ n.mem = X /\ n.home = Y
  <2> HIDE DEF S, P, Z, R, X, Y, K
  <2> QED
    BY <1>1 DEF Good, Allocators
<1>3. X = m.mem
  BY DEF Good, Allocators, NoArena
<1>4. S[h] = Pop(m.stack[h], c) /\ \A d \in Checkpoints : P[d] = IF d = c THEN "freed" ELSE m.cp[d]
  BY DEF Good, Allocators
<1>5. \A b \in Blocks : Y[b] \in {m.home[b], None}
  OBVIOUS
<1> QED
  BY <1>2, <1>3, <1>4, <1>5 DEF n, Commits

\* Searching for the checkpoint at position p passes the positions up to p.
LEMMA SearchFinds ==
    ASSUME NEW m \in Allocators, NEW h \in Threads, NEW c \in Checkpoints, NEW p \in Nat,
           Distinct(m), p \in 1 .. Len(m.stack[h]), m.stack[h][p] = c
    PROVE  /\ Passed(m, h, c) = {m.stack[h][i] : i \in 1 .. p}
           /\ Cardinality(Above(m.stack[h], c)) = p - 1
<1> DEFINE s == m.stack[h]
<1>1. s \in Seq(Checkpoints) /\ Len(s) \in Nat
  BY DEF Allocators
<1>2. \A i, j \in 1 .. Len(s) : s[i] = s[j] => i = j
  BY DEF Distinct
<1>3. p \in 1 .. Len(s) /\ s[p] = c
  OBVIOUS
<1> HIDE DEF s
<1>4. {j \in 1 .. Len(s) : \A k \in 1 .. j - 1 : s[k] # c} = 1 .. p
  BY <1>1, <1>3, <1>2
<1>5. Above(s, c) = 1 .. p - 1
  BY <1>1, <1>3, <1>2 DEF Above
<1>6. Cardinality(1 .. p - 1) = p - 1
  BY <1>1, <1>3, FS_Interval
<1> QED
  BY <1>4, <1>5, <1>6 DEF Passed, s
\* From m to n the checkpoints above position p are freed, and no block that is protected
\* or on no list.
Rewinds(m, n, h, p) ==
    /\ n.stack[h] = SubSeq(m.stack[h], p, Len(m.stack[h]))
    /\ \A d \in Checkpoints : n.cp[d] = IF \E i \in 1 .. p - 1 : d = m.stack[h][i]
                                        THEN "freed" ELSE m.cp[d]
    /\ n.fault = m.fault /\ n.hazard = m.hazard
    /\ \A b \in Blocks : m.home[b] = None => n.home[b] = None
    /\ \A b \in Blocks : m.home[b] = None \/ b \in m.hazard => n.mem[b] = m.mem[b]

\* A thread can rewind to a checkpoint below which all are live.
LEMMA RewindEffect ==
    ASSUME NEW m, Good(m), Arena = FALSE, NEW h \in Threads, NEW c \in Checkpoints, NEW p \in Nat,
           Distinct(m), TopAt(m, h, c, p)
    PROVE  Rewinds(m, memory_checkpoint_rewind(m, h, c), h, p)
<1> DEFINE n    == memory_checkpoint_rewind(m, h, c)
           s    == m.stack[h]
           k    == Cardinality(Above(s, c))
           all  == Passed(m, h, c)
           gone == Passed(m, h, c) \ {c}
           dead == (UNION {m.allocs[d] : d \in gone \cup {c}}) \ m.hazard
           lost == dead \cup (UNION {m.arena[d] : d \in gone})
           S == [m.stack EXCEPT ![h] = SubSeq(s, k + 1, Len(s))]
           P == [d \in Checkpoints |-> IF d \in gone THEN "freed" ELSE m.cp[d]]
           Z == [d \in Checkpoints |-> IF d \in gone THEN {}
                                       ELSE IF d = c THEN m.allocs[c] \cap m.hazard
                                       ELSE m.allocs[d]]
           R == [d \in Checkpoints |-> IF d \in gone THEN {} ELSE m.arena[d]]
           X == [b \in Blocks |-> IF b \in lost THEN "freed" ELSE m.mem[b]]
           Y == [b \in Blocks |-> IF b \in dead THEN None ELSE HomeAfter(m, gone)[b]]
<1>0. s \in Seq(Checkpoints) /\ Len(s) \in Nat /\ p \in 1 .. Len(s) /\ s[p] = c
  BY DEF Good, Allocators, TopAt
<1>1. all = {s[i] : i \in 1 .. p} /\ k = p - 1
  BY SearchFinds DEF Good, TopAt
<1>2. c \in all /\ \A d \in all : m.cp[d] = "live"
  BY <1>0, <1>1 DEF TopAt, LiveTop
<1>3. n = [m EXCEPT !.stack[h] = SubSeq(s, k + 1, Len(s)), !.cp = P,
                    !.allocs = Z, !.arena = R, !.mem = X, !.home = Y]
  BY <1>2 DEF memory_checkpoint_rewind
<1>4. n = [m EXCEPT !.stack = S, !.cp = P, !.allocs = Z, !.arena = R, !.mem = X, !.home = Y]
  <2> HIDE DEF n, P, Z, R, X, Y, gone, k
  <2> QED
    BY <1>3 DEF Good, Allocators
<1> HIDE DEF n
<1>5. n.stack = S /\ n.cp = P /\ n.fault = m.fault /\ n.hazard = m.hazard /\ n.mem = X /\ n.home = Y
  <2> HIDE DEF S, P, Z, R, X, Y
  <2> QED
    BY <1>4 DEF Good, Allocators
<1>6. S[h] = SubSeq(s, p, Len(s))
  <2>1. k + 1 = p
    BY <1>0, <1>1
  <2> HIDE DEF k, s
  <2> QED
    BY <2>1 DEF Good, Allocators
<1>7. \A d \in Checkpoints : d \in gone <=> \E i \in 1 .. p - 1 : d = s[i]
  <2> SUFFICES ASSUME NEW d \in Checkpoints PROVE d \in gone <=> \E i \in 1 .. p - 1 : d = s[i]
    OBVIOUS
  <2>1. ASSUME d \in gone PROVE \E i \in 1 .. p - 1 : d = s[i]
    <3>1. PICK i \in 1 .. p : d = s[i]
      BY <1>1, <2>1
    <3>2. i # p
      BY <1>0, <2>1, <3>1
    <3>3. i \in 1 .. p - 1
      BY <1>0, <3>2
    <3> QED
      BY <3>1, <3>3
  <2>2. ASSUME NEW i \in 1 .. p - 1, d = s[i] PROVE d \in gone
    BY <1>0, <1>1, <2>2 DEF Distinct
  <2> QED
    BY <2>1, <2>2
<1>8. gone \cup {c} \subseteq Checkpoints
  BY PassedType DEF Good
<1>9. \A b \in Blocks : m.home[b] = None \/ b \in m.hazard => b \notin dead
  <2> SUFFICES ASSUME NEW b \in Blocks, m.home[b] = None, b \in dead PROVE FALSE
    OBVIOUS
  <2> HIDE DEF gone
  <2>1. b \in UNION {m.allocs[d] : d \in gone \cup {c}}
    OBVIOUS
  <2>2. PICK d \in gone \cup {c} : b \in m.allocs[d]
    BY <2>1, UnionImage
  <2> QED
    BY <1>8, <2>2, MemoryAssumption DEF Good, Tracked
<1>10. \A b \in Blocks : b \in lost => b \in dead
  <2> HIDE DEF dead, gone
  <2> QED
    BY <1>8 DEF Good, NoArena
<1> HIDE DEF dead, lost, gone
<1>11. \A b \in Blocks : m.home[b] = None => Y[b] = None
  BY DEF HomeAfter
<1>12. \A b \in Blocks : m.home[b] = None \/ b \in m.hazard => X[b] = m.mem[b]
  BY <1>9, <1>10
<1>13. \A d \in Checkpoints : P[d] = IF \E i \in 1 .. p - 1 : d = s[i] THEN "freed" ELSE m.cp[d]
  BY <1>7
<1> HIDE DEF S, P, X, Y
<1> QED
  BY <1>5, <1>6, <1>11, <1>12, <1>13 DEF n, Rewinds
\* A live block is taken out of its list without a fault.
LEMMA UnlinkCalm ==
    ASSUME NEW m, Good(m), ~m.fault, NEW b \in Blocks, m.mem[b] = "live"
    PROVE  LET u == Unlink(m, b)
           IN  /\ ~u.fault /\ u.mem = m.mem /\ u.hazard = m.hazard
               /\ u.home = [m.home EXCEPT ![b] = None]
  BY DEF Good, Allocators, Unlink, Tracked

LEMMA FreeCalm ==
    ASSUME NEW m, Good(m), ~m.fault, NEW b \in Blocks, m.mem[b] = "live"
    PROVE  LET n == memory_free(m, b)
           IN  /\ ~n.fault /\ n.hazard = m.hazard
               /\ \A x \in Blocks \ {b} : n.mem[x] = m.mem[x] /\ n.home[x] = m.home[x]
<1> DEFINE u == Unlink(m, b)
           n == memory_free(m, b)
<1>1. /\ ~u.fault /\ u.mem = m.mem /\ u.hazard = m.hazard
      /\ u.home = [m.home EXCEPT ![b] = None]
      /\ u \in Allocators
  BY UnlinkCalm, UnlinkGood DEF Good
<1>2. n = [u EXCEPT !.mem[b] = "freed", !.kept = @ \ {b}]
  BY <1>1 DEF memory_free
<1> HIDE DEF u, n
<1>3. /\ n.fault = u.fault /\ n.hazard = u.hazard /\ n.home = u.home
      /\ n.mem = [u.mem EXCEPT ![b] = "freed"]
  BY <1>1, <1>2 DEF Allocators
<1>4. ~n.fault /\ n.hazard = m.hazard
  BY <1>1, <1>3
<1>5. \A x \in Blocks \ {b} : n.mem[x] = m.mem[x] /\ n.home[x] = m.home[x]
  BY <1>1, <1>3 DEF Good, Allocators
<1> QED
  BY <1>4, <1>5 DEF n

LEMMA PromoteCalm ==
    ASSUME NEW m, Good(m), ~m.fault, NEW b \in Blocks, m.mem[b] = "live"
    PROVE  LET n == memory_promote(m, b)
           IN  /\ ~n.fault /\ n.mem = m.mem /\ n.hazard = m.hazard
               /\ n.home[b] = None
               /\ \A x \in Blocks \ {b} : n.home[x] = m.home[x]
<1> DEFINE u == Unlink(m, b)
           n == memory_promote(m, b)
<1>1. /\ ~u.fault /\ u.mem = m.mem /\ u.hazard = m.hazard
      /\ u.home = [m.home EXCEPT ![b] = None]
      /\ u \in Allocators
  BY UnlinkCalm, UnlinkGood DEF Good
<1>2. n = [u EXCEPT !.kept = @ \cup {b}]
  BY <1>1 DEF memory_promote
<1> HIDE DEF u, n
<1>3. /\ n.fault = u.fault /\ n.hazard = u.hazard /\ n.home = u.home /\ n.mem = u.mem
  BY <1>1, <1>2 DEF Allocators
<1>4. ~n.fault /\ n.hazard = m.hazard /\ n.mem = m.mem
  BY <1>1, <1>3
<1>5. n.home[b] = None /\ \A x \in Blocks \ {b} : n.home[x] = m.home[x]
  BY <1>1, <1>3 DEF Good, Allocators
<1> QED
  BY <1>4, <1>5 DEF n

\* With a live checkpoint on top an allocation succeeds.
LEMMA AllocCalm ==
    ASSUME NEW m, Good(m), Arena = FALSE, ~m.fault, NEW h \in Threads, NEW b \in Blocks,
           LiveTop(m, h, 1)
    PROVE  LET n == memory_alloc(m, h, b)
           IN  /\ ~n.fault /\ n.hazard = m.hazard
               /\ \A x \in Blocks \ {b} : n.mem[x] = m.mem[x] /\ n.home[x] = m.home[x]
<1> DEFINE c == Head(m.stack[h])
<1>1. CASE m.stack[h] = <<>>
  BY <1>1 DEF memory_alloc, Good, Allocators
<1>2. CASE m.stack[h] # <<>>
  <2>1. c = m.stack[h][1] /\ 1 \in 1 .. Len(m.stack[h]) /\ c \in Checkpoints
    BY <1>2, HeadTailProperties DEF Good, Allocators
  <2>2. m.cp[c] = "live"
    BY <2>1 DEF LiveTop
  <2>3. memory_alloc(m, h, b) =
            [m EXCEPT !.mem[b] = "live", !.home[b] = c, !.allocs[c] = @ \cup {b}]
    BY <1>2, <2>2 DEF memory_alloc
  <2> HIDE DEF c
  <2> QED
    BY <2>3 DEF Good, Allocators
<1> QED
  BY <1>1, <1>2

-----------------------------------------------------------------------------
(* Stacks, position by position.                                           *)

\* The sequence t is s without its first k entries.
Drops(s, t, k) ==
    /\ k \in 0 .. Len(s)
    /\ Len(t) = Len(s) - k
    /\ \A i \in 1 .. Len(t) : i + k \in 1 .. Len(s) /\ t[i] = s[i + k]

LEMMA DropsDistinct ==
    ASSUME NEW m \in Allocators, Distinct(m), NEW n, NEW h \in Threads, NEW k,
           Drops(m.stack[h], n.stack[h], k), \A g \in Threads \ {h} : n.stack[g] = m.stack[g]
    PROVE  Distinct(n)
<1> SUFFICES ASSUME NEW g \in Threads, NEW i \in 1 .. Len(n.stack[g]), NEW j \in 1 .. Len(n.stack[g]),
                    n.stack[g][i] = n.stack[g][j]
             PROVE  i = j
  BY DEF Distinct
<1>1. CASE g # h
  BY <1>1 DEF Distinct
<1>2. CASE g = h
  <2>1. /\ i + k \in 1 .. Len(m.stack[h]) /\ j + k \in 1 .. Len(m.stack[h])
        /\ m.stack[h][i + k] = m.stack[h][j + k]
    BY <1>2 DEF Drops
  <2> DEFINE a == i + k
             b == j + k
  <2>2. a = b
    <3> HIDE DEF a, b
    <3>1. a \in 1 .. Len(m.stack[h]) /\ b \in 1 .. Len(m.stack[h]) /\ m.stack[h][a] = m.stack[h][b]
      BY <2>1 DEF a, b
    <3> QED
      BY <3>1 DEF Distinct
  <2>3. k \in Int
    BY DEF Drops
  <2> QED
    BY <2>2, <2>3
<1> QED
  BY <1>1, <1>2

LEMMA PopDrops ==
    ASSUME NEW m \in Allocators, Distinct(m), NEW h \in Threads, NEW c \in Checkpoints, NEW p \in Nat,
           TopAt(m, h, c, p)
    PROVE  Drops(m.stack[h], Pop(m.stack[h], c), IF p = 1 THEN 1 ELSE 0)
<1> DEFINE s == m.stack[h]
<1>1. s \in Seq(Checkpoints) /\ p \in 1 .. Len(s) /\ s[p] = c /\ 1 \in 1 .. Len(s)
  BY DEF Allocators, TopAt
<1>2. s[1] = c <=> p = 1
  BY <1>1 DEF Distinct
<1> HIDE DEF s
<1>3. s # <<>> /\ Head(s) = s[1] /\ Len(s) \in Nat
  BY <1>1
<1>4. CASE p = 1
  BY <1>2, <1>3, <1>4, <1>1, HeadTailProperties DEF Pop, Drops, s
<1>5. CASE p # 1
  BY <1>2, <1>3, <1>5 DEF Pop, Drops, s
<1> QED
  BY <1>4, <1>5

LEMMA CutDrops ==
    ASSUME NEW s \in Seq(Checkpoints), NEW p \in 1 .. Len(s)
    PROVE  Drops(s, SubSeq(s, p, Len(s)), p - 1)
  BY SubSeqProperties DEF Drops
-----------------------------------------------------------------------------
(* The steps of requests, one by one.                                      *)

\* The stacks of the other threads and what lies on them stay as they are.
LEMMA OthersKeepTop ==
    ASSUME NEW m \in Allocators, NEW n, NEW h \in Threads, n.stack[h] = m.stack[h],
           \A c \in On(m, h) : n.cp[c] = m.cp[c],
           NEW state, NEW r, NEW u, RequestTop(m, h, state, r, u)
    PROVE  RequestTop(n, h, state, r, u)
<1>1. \A i \in 1 .. Len(n.stack[h]) : n.cp[n.stack[h][i]] = m.cp[m.stack[h][i]]
  BY DEF On
<1>2. \A p \in Nat : LiveTop(m, h, p) => LiveTop(n, h, p)
  BY <1>1 DEF LiveTop
<1>3. \A p \in Nat, c \in Checkpoints \cup {None, r, u} : TopAt(m, h, c, p) => TopAt(n, h, c, p)
  BY <1>2 DEF TopAt
<1>4. 1 \in Nat
  OBVIOUS
<1> QED
  BY <1>2, <1>3, <1>4 DEF RequestTop

\* The checkpoint on top of a stack is live, if there is one.
LEMMA TopIsLive ==
    ASSUME NEW m, NEW h, NEW state \in PCs, NEW r, NEW u, RequestTop(m, h, state, r, u)
    PROVE  LiveTop(m, h, 1)
  BY DEF TopAt, LiveTop, RequestTop, PCs

\* A new checkpoint lies on top of those that were live.
LEMMA CreateTop ==
    ASSUME NEW m \in Allocators, Apart(m), Distinct(m), NEW h \in Threads, NEW c \in Checkpoints,
           m.cp[c] = "unused", NEW n, n = memory_checkpoint_create(m, h, c), LiveTop(m, h, 1)
    PROVE  /\ Distinct(n)
           /\ TopAt(n, h, c, 1)
           /\ \A r \in Checkpoints, p \in Nat : TopAt(m, h, r, p) => TopAt(n, h, r, p + 1)
<1> DEFINE s == m.stack[h]
           t == n.stack[h]
<1>1. /\ t = <<c>> \o s /\ s \in Seq(Checkpoints)
      /\ \A g \in Threads \ {h} : n.stack[g] = m.stack[g]
      /\ n.cp[c] = "live" /\ \A d \in Checkpoints \ {c} : n.cp[d] = m.cp[d]
  BY CreateEffect, SMTT(30) DEF Allocators
<1>2. /\ Len(t) = Len(s) + 1 /\ Len(s) \in Nat
      /\ t[1] = c
      /\ \A i \in 2 .. Len(t) : i - 1 \in 1 .. Len(s) /\ t[i] = s[i - 1]
      /\ \A i \in 1 .. Len(s) : t[i + 1] = s[i]
  BY <1>1, PushedPositions
<1>3. \A i \in 1 .. Len(s) : s[i] \in Checkpoints \ {c}
  BY <1>1 DEF Apart, On
<1>4. \A i \in 1 .. Len(t) : i = 1 \/ i \in 2 .. Len(t)
  BY <1>2
<1>d. \A i, j \in 1 .. Len(s) : s[i] = s[j] => i = j
  BY DEF Distinct
<1>5. Distinct(n)
  <2> SUFFICES ASSUME NEW g \in Threads, NEW i \in 1 .. Len(n.stack[g]),
                      NEW j \in 1 .. Len(n.stack[g]), n.stack[g][i] = n.stack[g][j]
               PROVE  i = j
    BY DEF Distinct
  <2>1. CASE g # h
    BY <1>1, <2>1 DEF Distinct
  <2>2. CASE g = h
    <3>0. i \in 1 .. Len(t) /\ j \in 1 .. Len(t) /\ t[i] = t[j]
      BY <2>2
    <3> HIDE DEF s, t
    <3>1. CASE i = 1 /\ j \in 2 .. Len(t)
      BY <1>2, <1>3, <3>0, <3>1
    <3>2. CASE j = 1 /\ i \in 2 .. Len(t)
      BY <1>2, <1>3, <3>0, <3>2
    <3>3. CASE i \in 2 .. Len(t) /\ j \in 2 .. Len(t)
      <4>1. i - 1 \in 1 .. Len(s) /\ j - 1 \in 1 .. Len(s) /\ s[i - 1] = s[j - 1]
        BY <1>2, <3>0, <3>3
      <4>2. i - 1 = j - 1
        BY <1>d, <4>1
      <4> QED
        BY <3>3, <4>2
    <3> QED
      BY <1>4, <3>0, <3>1, <3>2, <3>3
  <2> QED
    BY <2>1, <2>2
<1>6. ASSUME NEW q \in Nat, LiveTop(m, h, q) PROVE LiveTop(n, h, q + 1)
  <2> SUFFICES ASSUME NEW i \in 1 .. Len(t), i <= q + 1 PROVE n.cp[t[i]] = "live"
    BY DEF LiveTop
  <2>0. \A j \in 1 .. Len(s) : j <= q => m.cp[s[j]] = "live"
    BY <1>6 DEF LiveTop
  <2> HIDE DEF s, t
  <2>1. CASE i = 1
    BY <1>1, <1>2, <2>1
  <2>2. CASE i \in 2 .. Len(t)
    BY <1>2, <2>2, <1>1, <1>3, <2>0
  <2> QED
    BY <1>4, <2>1, <2>2
<1>7. TopAt(n, h, c, 1)
  BY <1>2, <1>6 DEF TopAt
<1>8. ASSUME NEW r \in Checkpoints, NEW p \in Nat, TopAt(m, h, r, p) PROVE TopAt(n, h, r, p + 1)
  BY <1>8, <1>2, SMTT(30), <1>6 DEF TopAt
<1> QED
  BY <1>5, <1>7, <1>8

\* A commit of the checkpoint at position p leaves a live one on top, and if it was on
\* top itself those below it move up.
LEMMA CommitTop ==
    ASSUME NEW m, Good(m), Arena = FALSE, Distinct(m), NEW h \in Threads, NEW c \in Checkpoints,
           NEW p \in Nat, TopAt(m, h, c, p), NEW n, n = memory_checkpoint_commit(m, h, c),
           \A g \in Threads \ {h} : n.stack[g] = m.stack[g]
    PROVE  /\ Distinct(n)
           /\ LiveTop(n, h, 1)
           /\ \A r \in Checkpoints, q \in Nat :
                  p = 1 /\ q > 1 /\ TopAt(m, h, r, q) => TopAt(n, h, r, q - 1)
<1> DEFINE s == m.stack[h]
           t == n.stack[h]
           k == IF p = 1 THEN 1 ELSE 0
<1>0. /\ m \in Allocators /\ s \in Seq(Checkpoints) /\ Len(s) \in Nat
      /\ p \in 1 .. Len(s) /\ s[p] = c
      /\ \A i \in 1 .. Len(s) : i <= p + 1 => m.cp[s[i]] = "live"
      /\ \A i \in 1 .. Len(s) : s[i] = c => i = p
      /\ \A i \in 1 .. Len(s) : s[i] \in Checkpoints
  BY DEF Good, Allocators, TopAt, LiveTop, Distinct
<1>1. m.cp[c] = "live"
  BY <1>0
<1>2. t = Pop(s, c) /\ \A d \in Checkpoints : n.cp[d] = IF d = c THEN "freed" ELSE m.cp[d]
  <2>1. Commits(m, n, h, c)
    BY <1>1, CommitEffect
  <2> QED
    BY <2>1 DEF Commits
<1>3. Drops(s, t, k)
  BY <1>0, <1>2, PopDrops
<1>4. Distinct(n)
  BY <1>0, <1>3, DropsDistinct
<1> HIDE DEF s, t
<1>5. LiveTop(n, h, 1)
  <2> SUFFICES ASSUME 1 \in 1 .. Len(t) PROVE n.cp[t[1]] = "live"
    BY DEF LiveTop, t
  <2>1. t[1] = s[1 + k] /\ 1 + k \in 1 .. Len(s)
    BY <1>3 DEF Drops
  <2>2. 1 + k <= p + 1 /\ 1 + k # p
    BY <1>0
  <2> QED
    BY <1>0, <1>2, <2>1, <2>2
<1>6. ASSUME NEW r \in Checkpoints, NEW q \in Nat, p = 1, q > 1, TopAt(m, h, r, q)
      PROVE  TopAt(n, h, r, q - 1)
  <2>1. /\ q \in 1 .. Len(s) /\ s[q] = r
        /\ \A i \in 1 .. Len(s) : i <= q + 1 => m.cp[s[i]] = "live"
    BY <1>6 DEF TopAt, LiveTop, s
  <2>2. Len(t) = Len(s) - 1 /\ \A i \in 1 .. Len(t) : i + 1 \in 1 .. Len(s) /\ t[i] = s[i + 1]
    BY <1>3, <1>6 DEF Drops
  <2>3. q - 1 \in 1 .. Len(t) /\ t[q - 1] = r
    BY <1>0, <1>6, <2>1, <2>2
  <2>4. ASSUME NEW i \in 1 .. Len(t), i <= (q - 1) + 1 PROVE n.cp[t[i]] = "live"
    <3>1. i + 1 \in 1 .. Len(s) /\ t[i] = s[i + 1] /\ i + 1 <= q + 1 /\ i + 1 # p
      BY <1>6, <2>2, <2>4
    <3> QED
      BY <1>0, <1>2, <2>1, <3>1
  <2> QED
    BY <2>3, <2>4 DEF TopAt, LiveTop, t
<1> QED
  BY <1>4, <1>5, <1>6

\* A rewind to the checkpoint at position p puts it on top; at position 1 nothing moves.
LEMMA RewindTop ==
    ASSUME NEW m, Good(m), Arena = FALSE, Distinct(m), NEW h \in Threads, NEW c \in Checkpoints,
           NEW p \in Nat, TopAt(m, h, c, p), NEW n, n = memory_checkpoint_rewind(m, h, c),
           \A g \in Threads \ {h} : n.stack[g] = m.stack[g]
    PROVE  /\ Distinct(n)
           /\ LiveTop(n, h, 1)
           /\ \A r \in Checkpoints, q \in Nat : p = 1 /\ TopAt(m, h, r, q) => TopAt(n, h, r, q)
<1> DEFINE s == m.stack[h]
           t == n.stack[h]
<1>0. /\ m \in Allocators /\ s \in Seq(Checkpoints) /\ Len(s) \in Nat
      /\ p \in 1 .. Len(s) /\ s[p] = c
      /\ \A i \in 1 .. Len(s) : i <= p + 1 => m.cp[s[i]] = "live"
      /\ \A i, j \in 1 .. Len(s) : s[i] = s[j] => i = j
      /\ \A i \in 1 .. Len(s) : s[i] \in Checkpoints
  BY DEF Good, Allocators, TopAt, LiveTop, Distinct
<1>2. /\ t = SubSeq(s, p, Len(s))
      /\ \A d \in Checkpoints : n.cp[d] = IF \E i \in 1 .. p - 1 : d = s[i] THEN "freed" ELSE m.cp[d]
  <2>1. Rewinds(m, n, h, p)
    BY RewindEffect
  <2> QED
    BY <2>1 DEF Rewinds
<1>3. Drops(s, t, p - 1)
  BY <1>0, <1>2, CutDrops
<1>4. Distinct(n)
  BY <1>0, <1>3, DropsDistinct, ZenonT(60)
<1> HIDE DEF s, t
<1>5. \A i \in 1 .. Len(s) : i >= p => n.cp[s[i]] = m.cp[s[i]]
  <2>1. \A i \in 1 .. Len(s), j \in 1 .. p - 1 : i >= p => i # j /\ j \in 1 .. Len(s)
    BY <1>0
  <2> QED
    BY <1>0, <1>2, <2>1
<1>6. LiveTop(n, h, 1)
  <2> SUFFICES ASSUME 1 \in 1 .. Len(t) PROVE n.cp[t[1]] = "live"
    BY DEF LiveTop, t
  <2>1. t[1] = s[1 + (p - 1)] /\ 1 + (p - 1) = p
    BY <1>3 DEF Drops
  <2> QED
    BY <1>0, <1>5, <2>1
<1>7. ASSUME NEW r \in Checkpoints, NEW q \in Nat, p = 1, TopAt(m, h, r, q)
      PROVE  TopAt(n, h, r, q)
  BY <1>0, <1>3, <1>7, <1>5, SMTT(30) DEF Drops, TopAt, LiveTop, s, t
<1> QED
  BY <1>4, <1>6, <1>7
\* Commits and rewinds change one stack.
LEMMA OtherStacks ==
    ASSUME NEW m \in Allocators, NEW h \in Threads, NEW c \in Checkpoints
    PROVE  \A g \in Threads \ {h} :
               /\ memory_checkpoint_create(m, h, c).stack[g] = m.stack[g]
               /\ memory_checkpoint_commit(m, h, c).stack[g] = m.stack[g]
               /\ memory_checkpoint_rewind(m, h, c).stack[g] = m.stack[g]
<1>1. \A g \in Threads \ {h} : memory_checkpoint_create(m, h, c).stack[g] = m.stack[g]
  BY DEF memory_checkpoint_create, Allocators
<1>2. \A g \in Threads \ {h} : memory_checkpoint_commit(m, h, c).stack[g] = m.stack[g]
  BY DEF memory_checkpoint_commit, Fault, Allocators
<1>3. \A g \in Threads \ {h} : memory_checkpoint_rewind(m, h, c).stack[g] = m.stack[g]
  <2> DEFINE n == memory_checkpoint_rewind(m, h, c)
             t == SubSeq(m.stack[h], Cardinality(Above(m.stack[h], c)) + 1, Len(m.stack[h]))
  <2>1. n.stack = m.stack \/ n.stack = [m.stack EXCEPT ![h] = t]
    BY DEF memory_checkpoint_rewind, Fault, Allocators
  <2> HIDE DEF n, t
  <2>2. \A g \in Threads \ {h} : n.stack[g] = m.stack[g]
    BY <2>1 DEF Allocators
  <2> QED
    BY <2>2 DEF n
<1> QED
  BY <1>1, <1>2, <1>3

\* A step before any transaction faults on nothing and leaves the tops of the stacks live.
LEMMA RequestStep ==
    ASSUME Arena = FALSE, "plain" \notin Links, IInv, StackInv, RequestInv,
           NoTransaction, NEW h \in Threads, Step(h), NoTransaction'
    PROVE  /\ ~mm'.fault
           /\ Distinct(mm')
           /\ \A g \in Threads : RequestTop(mm', g, pc'[g], req'[g], nested'[g])
           /\ LinkedSafe(mm', linked')
<1>t. /\ Good(mm) /\ mm \in Allocators
      /\ \A c \in Checkpoints : c # None
      /\ pc[h] # "idle" => req[h] \in Checkpoints
      /\ pc[h] = "update" => nested[h] \in Checkpoints
      /\ own[h] \subseteq Blocks /\ linked \subseteq Blocks
      /\ pc \in [Threads -> PCs]
      /\ req \in [Threads -> Checkpoints \cup {None}]
      /\ nested \in [Threads -> Checkpoints \cup {None}]
  BY MemoryAssumption DEF IInv, Good, TypeOK
<1>i. /\ ~mm.fault
      /\ Distinct(mm)
      /\ \A g \in Threads : RequestTop(mm, g, pc[g], req[g], nested[g])
      /\ LinkedSafe(mm, linked)
      /\ Apart(mm)
  BY DEF RequestInv, StackInv
<1>l. LiveTop(mm, h, 1)
  BY <1>t, <1>i, TopIsLive
<1>v. LeavesOthers(h)
  BY StepStacks DEF NoTransaction, EndsTransaction
\* The other threads see none of this.
<1>o. ASSUME \A g \in Threads \ {h} : mm'.stack[g] = mm.stack[g],
             \A g \in Threads \ {h} : pc'[g] = pc[g] /\ req'[g] = req[g] /\ nested'[g] = nested[g],
             RequestTop(mm', h, pc'[h], req'[h], nested'[h])
      PROVE  \A g \in Threads : RequestTop(mm', g, pc'[g], req'[g], nested'[g])
  <2> SUFFICES ASSUME NEW g \in Threads \ {h}
               PROVE  RequestTop(mm', g, pc[g], req[g], nested[g])
    BY <1>o
  <2>1. RequestTop(mm, g, pc[g], req[g], nested[g]) /\ mm'.stack[g] = mm.stack[g]
    BY <1>i, <1>o
  <2>2. \A c \in On(mm, g) : mm'.cp[c] = mm.cp[c]
    BY <1>t, <1>v, OnType DEF LeavesOthers, Spares
  <2> DEFINE n == mm'
  <2> HIDE DEF n
  <2>3. RequestTop(n, g, pc[g], req[g], nested[g])
    BY <1>t, <2>1, <2>2, OthersKeepTop DEF n
  <2> QED
    BY <2>3 DEF n
\* Steps that leave the stacks alone.
<1>s. ASSUME mm'.stack = mm.stack, mm'.cp = mm.cp, req' = req, nested' = nested,
             pc' = pc \/ (pc[h] = "handler" /\ pc' = [pc EXCEPT ![h] = "send"])
      PROVE  /\ Distinct(mm')
             /\ \A g \in Threads : RequestTop(mm', g, pc'[g], req'[g], nested'[g])
  BY <1>i, <1>s, <1>l, <1>t, <1>o DEF Distinct, TopAt, LiveTop, RequestTop
\* A commit of the checkpoint at position p.
<1>c. ASSUME NEW c \in Checkpoints, NEW p \in Nat, TopAt(mm, h, c, p),
             mm' = memory_checkpoint_commit(mm, h, c), linked' = linked
      PROVE  /\ ~mm'.fault /\ Distinct(mm') /\ LinkedSafe(mm', linked')
             /\ \A g \in Threads \ {h} : mm'.stack[g] = mm.stack[g]
             /\ LiveTop(mm', h, 1)
             /\ \A r \in Checkpoints, q \in Nat :
                    p = 1 /\ q > 1 /\ TopAt(mm, h, r, q) => TopAt(mm', h, r, q - 1)
  <2>1. mm.cp[c] = "live"
    BY <1>c DEF TopAt, LiveTop
  <2>2. Commits(mm, mm', h, c)
    BY <1>c, <1>t, <2>1, CommitEffect
  <2>3. ~mm'.fault /\ LinkedSafe(mm', linked')
    BY <1>c, <1>t, <1>i, <2>2 DEF Commits, LinkedSafe
  <2>4. \A g \in Threads \ {h} : mm'.stack[g] = mm.stack[g]
    BY <1>c, <1>t, OtherStacks
  <2> DEFINE n == mm'
  <2> HIDE DEF n
  <2>5. /\ Distinct(n) /\ LiveTop(n, h, 1)
        /\ \A r \in Checkpoints, q \in Nat :
               p = 1 /\ q > 1 /\ TopAt(mm, h, r, q) => TopAt(n, h, r, q - 1)
    BY <1>c, <2>4, <1>t, <1>i, CommitTop DEF n
  <2> QED
    BY <2>3, <2>4, <2>5 DEF n
\* A rewind to the checkpoint at position p, after a promotion perhaps.
<1>r. ASSUME NEW m, Good(m), ~m.fault, m.stack = mm.stack, m.cp = mm.cp, LinkedSafe(m, linked),
             NEW c \in Checkpoints, NEW p \in Nat, TopAt(mm, h, c, p),
             mm' = memory_checkpoint_rewind(m, h, c), linked' = linked
      PROVE  /\ ~mm'.fault /\ Distinct(mm') /\ LinkedSafe(mm', linked')
             /\ \A g \in Threads \ {h} : mm'.stack[g] = mm.stack[g]
             /\ LiveTop(mm', h, 1)
             /\ \A r \in Checkpoints, q \in Nat : p = 1 /\ TopAt(mm, h, r, q) => TopAt(mm', h, r, q)
  <2>1. /\ Distinct(m)
        /\ \A r \in Checkpoints, q \in Nat : TopAt(mm, h, r, q) => TopAt(m, h, r, q)
    BY <1>i, <1>r DEF Distinct, TopAt, LiveTop
  <2>2. TopAt(m, h, c, p)
    BY <1>r, <2>1
  <2>3. Rewinds(m, mm', h, p)
    BY <1>r, <2>1, <2>2, RewindEffect
  <2>4. ~mm'.fault /\ LinkedSafe(mm', linked')
    BY <1>r, <1>t, <2>3 DEF Rewinds, LinkedSafe
  <2>5. \A g \in Threads \ {h} : mm'.stack[g] = m.stack[g]
    BY <1>r, OtherStacks DEF Good
  <2> DEFINE n == mm'
  <2> HIDE DEF n
  <2>6. /\ Distinct(n) /\ LiveTop(n, h, 1)
        /\ \A r \in Checkpoints, q \in Nat : p = 1 /\ TopAt(m, h, r, q) => TopAt(n, h, r, q)
    BY <1>r, <2>5, <2>1, <2>2, RewindTop DEF n
  <2>7. \A r \in Checkpoints, q \in Nat : p = 1 /\ TopAt(mm, h, r, q) => TopAt(n, h, r, q)
    BY <2>1, <2>6
  <2> QED
    BY <1>r, <2>4, <2>5, <2>6, <2>7 DEF n
\* Opening a checkpoint.
<1>n. ASSUME NEW c \in Checkpoints, mm.cp[c] = "unused", mm' = memory_checkpoint_create(mm, h, c),
             linked' = linked
      PROVE  /\ ~mm'.fault /\ Distinct(mm') /\ LinkedSafe(mm', linked')
             /\ \A g \in Threads \ {h} : mm'.stack[g] = mm.stack[g]
             /\ TopAt(mm', h, c, 1)
             /\ \A r \in Checkpoints, p \in Nat : TopAt(mm, h, r, p) => TopAt(mm', h, r, p + 1)
  <2>1. ~mm'.fault /\ LinkedSafe(mm', linked')
    BY <1>n, <1>t, <1>i DEF memory_checkpoint_create, Allocators, LinkedSafe
  <2>2. \A g \in Threads \ {h} : mm'.stack[g] = mm.stack[g]
    BY <1>n, <1>t, OtherStacks
  <2> DEFINE n == mm'
  <2> HIDE DEF n
  <2>3. /\ Distinct(n) /\ TopAt(n, h, c, 1)
        /\ \A r \in Checkpoints, p \in Nat : TopAt(mm, h, r, p) => TopAt(n, h, r, p + 1)
    BY <1>n, <1>t, <1>i, <1>l, CreateTop DEF n
  <2> QED
    BY <2>1, <2>2, <2>3 DEF n
<1> DEFINE Safe == /\ ~mm'.fault
                   /\ Distinct(mm')
                   /\ \A g \in Threads : RequestTop(mm', g, pc'[g], req'[g], nested'[g])
                   /\ LinkedSafe(mm', linked')
<1>h. pc[h] = "handler" \/ pc[h] = "send" => \E p \in Nat : TopAt(mm, h, req[h], p)
  BY <1>i DEF RequestTop
<1>u. pc[h] = "update" => /\ \E p \in Nat : p > 1 /\ TopAt(mm, h, req[h], p)
                          /\ TopAt(mm, h, nested[h], 1)
  BY <1>i DEF RequestTop
<1>1. CASE api_dispatch_request(h)
  <2>1. PICK c \in Checkpoints : /\ mm.cp[c] = "unused"
                                 /\ mm' = memory_checkpoint_create(mm, h, c)
                                 /\ req' = [req EXCEPT ![h] = c]
    BY <1>1 DEF api_dispatch_request, Fresh
  <2>2. linked' = linked /\ pc'[h] = "handler" /\ req'[h] = c
        /\ \A g \in Threads \ {h} : pc'[g] = pc[g] /\ req'[g] = req[g] /\ nested'[g] = nested[g]
    BY <1>1, <1>t, <2>1 DEF api_dispatch_request
  <2>3. RequestTop(mm', h, pc'[h], req'[h], nested'[h])
    BY <1>n, <2>1, <2>2 DEF RequestTop
  <2> QED
    BY <1>n, <1>o, <2>1, <2>2, <2>3
<1>2. ASSUME NEW b \in Blocks, Allocate(h, b) PROVE Safe
  <2>1. /\ mm.mem[b] = "unused" /\ mm' = memory_alloc(mm, h, b)
        /\ pc' = pc /\ req' = req /\ nested' = nested /\ linked' = linked
    BY <1>2 DEF Allocate, NewBlock
  <2>2. mm'.stack = mm.stack /\ mm'.cp = mm.cp
    BY <1>t, <2>1, BlockOperations
  <2>3. /\ ~mm'.fault /\ mm'.hazard = mm.hazard
        /\ \A x \in Blocks \ {b} : mm'.mem[x] = mm.mem[x] /\ mm'.home[x] = mm.home[x]
    <3> DEFINE n == memory_alloc(mm, h, b)
    <3>1. /\ ~n.fault /\ n.hazard = mm.hazard
          /\ \A x \in Blocks \ {b} : n.mem[x] = mm.mem[x] /\ n.home[x] = mm.home[x]
      BY <1>t, <1>i, <1>l, AllocCalm
    <3> HIDE DEF n
    <3> QED
      BY <2>1, <3>1 DEF n
  <2>4. LinkedSafe(mm', linked')
    BY <1>t, <1>i, <2>1, <2>3 DEF LinkedSafe
  <2> QED
    BY <1>s, <2>1, <2>2, <2>3, <2>4
<1>3. ASSUME NEW b \in Blocks, Publish(h, b) PROVE Safe
  <2>1. PICK l \in Links : mm' = LinkAs(mm, b, l)
    BY <1>3 DEF Publish
  <2>2. /\ mm.mem[b] = "live"
        /\ pc' = pc /\ req' = req /\ nested' = nested /\ linked' = linked \cup {b}
    BY <1>3 DEF Publish
  <2>3. CASE l = "promoted"
    BY <2>1, <2>3, <1>t, BlockOperations, <1>i, <2>2, PromoteCalm, <1>s DEF LinkAs, LinkedSafe
  <2>4. CASE l = "hazard"
    BY <2>1, <2>4, <1>t, <1>i, <2>2, <1>s DEF LinkAs, memory_mark_hazard_protected, Allocators, LinkedSafe
  <2>5. l = "promoted" \/ l = "hazard"
    BY MemoryAssumption
  <2> QED
    BY <2>3, <2>4, <2>5
<1>4. ASSUME NEW b \in Blocks, Release(h, b) PROVE Safe
  BY <1>4, <1>i, <1>t, BlockOperations, FreeCalm, <1>s DEF Release, LinkedSafe
<1>5. ASSUME NEW b \in Blocks, RespondError(h, b) PROVE Safe
  <2> DEFINE m == memory_promote(mm, b)
  <2>1. /\ mm.mem[b] = "live" /\ mm' = memory_checkpoint_rewind(m, h, req[h])
        /\ pc[h] = "handler" /\ pc'[h] = "idle" /\ linked' = linked
        /\ \A g \in Threads \ {h} : pc'[g] = pc[g] /\ req'[g] = req[g] /\ nested'[g] = nested[g]
    BY <1>5, <1>t DEF RespondError
  <2>2. Good(m) /\ m.stack = mm.stack /\ m.cp = mm.cp
    BY <1>t, PromoteGood, BlockOperations
  <2>3. /\ ~m.fault /\ m.mem = mm.mem /\ m.hazard = mm.hazard /\ m.home[b] = None
        /\ \A x \in Blocks \ {b} : m.home[x] = mm.home[x]
    BY <1>t, <1>i, <2>1, PromoteCalm
  <2> HIDE DEF m
  <2>4. LinkedSafe(m, linked)
    BY <1>t, <1>i, <2>3 DEF LinkedSafe
  <2>5. PICK p \in Nat : TopAt(mm, h, req[h], p)
    BY <1>h, <2>1
  <2>6. req[h] \in Checkpoints
    BY <1>t, <2>1
  <2>7. /\ ~mm'.fault /\ Distinct(mm') /\ LinkedSafe(mm', linked') /\ LiveTop(mm', h, 1)
        /\ \A g \in Threads \ {h} : mm'.stack[g] = mm.stack[g]
    BY <1>r, <2>1, <2>2, <2>3, <2>4, <2>5, <2>6
  <2>8. RequestTop(mm', h, pc'[h], req'[h], nested'[h])
    BY <2>1, <2>7 DEF RequestTop
  <2> QED
    BY <1>o, <2>1, <2>7, <2>8
<1>6. CASE Succeed(h)
  BY <1>6, <1>s, <1>i DEF Succeed
<1>7. CASE api_result_free(h)
  <2>1. /\ mm' = memory_checkpoint_commit(mm, h, req[h])
        /\ pc[h] = "send" /\ pc'[h] = "idle" /\ linked' = linked
        /\ \A g \in Threads \ {h} : pc'[g] = pc[g] /\ req'[g] = req[g] /\ nested'[g] = nested[g]
    BY <1>7, <1>t DEF api_result_free
  <2>2. PICK p \in Nat : TopAt(mm, h, req[h], p)
    BY <1>h, <2>1
  <2>3. req[h] \in Checkpoints
    BY <1>t, <2>1
  <2>4. /\ ~mm'.fault /\ Distinct(mm') /\ LinkedSafe(mm', linked') /\ LiveTop(mm', h, 1)
        /\ \A g \in Threads \ {h} : mm'.stack[g] = mm.stack[g]
    BY <1>c, <2>1, <2>2, <2>3
  <2>5. RequestTop(mm', h, pc'[h], req'[h], nested'[h])
    BY <2>1, <2>4 DEF RequestTop
  <2> QED
    BY <1>o, <2>1, <2>4, <2>5
<1>8. CASE Reject(h)
  <2>1. /\ mm' = memory_checkpoint_rewind(mm, h, req[h])
        /\ pc[h] = "handler" /\ pc'[h] = "idle" /\ linked' = linked
        /\ \A g \in Threads \ {h} : pc'[g] = pc[g] /\ req'[g] = req[g] /\ nested'[g] = nested[g]
    BY <1>8, <1>t DEF Reject
  <2>2. PICK p \in Nat : TopAt(mm, h, req[h], p)
    BY <1>h, <2>1
  <2>3. req[h] \in Checkpoints
    BY <1>t, <2>1
  <2>4. /\ ~mm'.fault /\ Distinct(mm') /\ LinkedSafe(mm', linked') /\ LiveTop(mm', h, 1)
        /\ \A g \in Threads \ {h} : mm'.stack[g] = mm.stack[g]
    BY <1>r, <1>t, <1>i, <2>1, <2>2, <2>3
  <2>5. RequestTop(mm', h, pc'[h], req'[h], nested'[h])
    BY <2>1, <2>4 DEF RequestTop
  <2> QED
    BY <1>o, <2>1, <2>4, <2>5
<1>9. CASE UpdateStart(h)
  <2>1. PICK c \in Checkpoints : /\ mm.cp[c] = "unused"
                                 /\ mm' = memory_checkpoint_create(mm, h, c)
                                 /\ nested' = [nested EXCEPT ![h] = c]
    BY <1>9 DEF UpdateStart, Fresh
  <2>2. /\ linked' = linked /\ pc[h] = "handler" /\ pc'[h] = "update"
        /\ nested'[h] = c /\ req'[h] = req[h]
        /\ \A g \in Threads \ {h} : pc'[g] = pc[g] /\ req'[g] = req[g] /\ nested'[g] = nested[g]
    BY <1>9, <1>t, <2>1 DEF UpdateStart
  <2>3. PICK p \in Nat : TopAt(mm, h, req[h], p)
    BY <1>h, <2>2
  <2>4. RequestTop(mm', h, pc'[h], req'[h], nested'[h])
    <3>1. TopAt(mm', h, c, 1) /\ TopAt(mm', h, req[h], p + 1)
      BY <1>n, <1>t, <2>1, <2>2, <2>3
    <3>2. p + 1 \in Nat /\ p + 1 > 1
      BY <2>3 DEF TopAt
    <3> QED
      BY <2>2, <3>1, <3>2 DEF RequestTop
  <2> QED
    BY <1>n, <1>o, <2>1, <2>2, <2>4
<1>10. CASE UpdateDone(h)
  <2>1. /\ mm' = memory_checkpoint_commit(mm, h, nested[h])
        /\ pc[h] = "update" /\ pc'[h] = "handler" /\ linked' = linked /\ req'[h] = req[h]
        /\ \A g \in Threads \ {h} : pc'[g] = pc[g] /\ req'[g] = req[g] /\ nested'[g] = nested[g]
    BY <1>10, <1>t DEF UpdateDone
  <2>2. PICK p \in Nat : p > 1 /\ TopAt(mm, h, req[h], p)
    BY <1>u, <2>1
  <2>3. /\ req[h] \in Checkpoints /\ nested[h] \in Checkpoints
        /\ 1 \in Nat /\ TopAt(mm, h, nested[h], 1)
    BY <1>t, <1>u, <2>1
  <2>4. /\ ~mm'.fault /\ Distinct(mm') /\ LinkedSafe(mm', linked')
        /\ \A g \in Threads \ {h} : mm'.stack[g] = mm.stack[g]
        /\ \A r \in Checkpoints, q \in Nat : q > 1 /\ TopAt(mm, h, r, q) => TopAt(mm', h, r, q - 1)
    BY <1>c, <2>1, <2>3
  <2>5. RequestTop(mm', h, pc'[h], req'[h], nested'[h])
    BY <2>2, <2>3, <2>4, <2>1 DEF RequestTop
  <2> QED
    BY <1>o, <2>1, <2>4, <2>5
<1>11. CASE UpdateFails(h)
  <2>1. /\ mm' = memory_checkpoint_rewind(mm, h, nested[h])
        /\ pc[h] = "update" /\ pc'[h] = "handler" /\ linked' = linked /\ req'[h] = req[h]
        /\ \A g \in Threads \ {h} : pc'[g] = pc[g] /\ req'[g] = req[g] /\ nested'[g] = nested[g]
    BY <1>11, <1>t DEF UpdateFails
  <2>2. PICK p \in Nat : TopAt(mm, h, req[h], p)
    BY <1>u, <2>1
  <2>3. /\ req[h] \in Checkpoints /\ nested[h] \in Checkpoints
        /\ 1 \in Nat /\ TopAt(mm, h, nested[h], 1)
    BY <1>t, <1>u, <2>1
  <2>4. /\ ~mm'.fault /\ Distinct(mm') /\ LinkedSafe(mm', linked')
        /\ \A g \in Threads \ {h} : mm'.stack[g] = mm.stack[g]
        /\ \A r \in Checkpoints, q \in Nat : TopAt(mm, h, r, q) => TopAt(mm', h, r, q)
    BY <1>r, <1>t, <1>i, <2>1, <2>3
  <2>5. RequestTop(mm', h, pc'[h], req'[h], nested'[h])
    BY <2>1, <2>2, <2>3, <2>4 DEF RequestTop
  <2> QED
    BY <1>o, <2>1, <2>4, <2>5
<1>12. ASSUME NEW t \in Txns, transaction_begin(h, t) PROVE FALSE
  <2>1. PICK c \in Checkpoints, b \in Blocks :
            txn' = [txn EXCEPT ![t] = [state |-> "active", cp |-> c, entry |-> b]]
    BY <1>12 DEF transaction_begin
  <2>2. txn'[t].state = "active"
    BY <2>1 DEF IInv, TypeOK
  <2> QED
    BY <2>2 DEF NoTransaction
<1>13. ASSUME NEW t \in Txns, NEW m, FinishTransaction(h, t, m) PROVE FALSE
  BY <1>13 DEF FinishTransaction, NoTransaction
<1> QED
  BY <1>1, <1>2, <1>3, <1>4, <1>5, <1>6, <1>7, <1>8, <1>9, <1>10, <1>11, <1>12, <1>13
     DEF Step, transaction_commit, transaction_rollback

\* A transaction that has begun has begun for good.
LEMMA TransactionsStay ==
    ASSUME IInv, NEW h \in Threads, Step(h), NoTransaction'
    PROVE  NoTransaction
<1>1. ASSUME NEW t \in Txns, transaction_begin(h, t) PROVE NoTransaction
  <2>1. PICK c \in Checkpoints, b \in Blocks :
            txn' = [txn EXCEPT ![t] = [state |-> "active", cp |-> c, entry |-> b]]
    BY <1>1 DEF transaction_begin
  <2>2. txn'[t].state = "active"
    BY <2>1 DEF IInv, TypeOK
  <2> QED
    BY <2>2 DEF NoTransaction
<1>2. ASSUME NEW t \in Txns, NEW m, FinishTransaction(h, t, m) PROVE NoTransaction
  BY <1>2 DEF FinishTransaction, IInv, TypeOK, TxnRecords, NoTransaction
<1>3. CASE txn' = txn
  BY <1>3 DEF NoTransaction
<1> QED
  BY <1>1, <1>2, <1>3
     DEF Step, transaction_commit, transaction_rollback, api_dispatch_request, Allocate, Publish,
         Release, RespondError, Succeed, api_result_free, Reject, UpdateStart, UpdateDone, UpdateFails

\* Without arenas, and when every block that outlives its request is promoted or protected,
\* requests and the updates nested in them touch nothing that was freed, whatever they leave
\* on the stacks of their threads: the first fault comes after a transaction has begun.
THEOREM RequestsNeverFault ==
    ASSUME Arena = FALSE, "plain" \notin Links
    PROVE  Spec => []OnlyTransactionsFault
<1>1. Init => RequestInv
  <2> SUFFICES ASSUME Init PROVE RequestInv
    OBVIOUS
  <2>1. ~mm.fault /\ Distinct(mm) /\ LinkedSafe(mm, linked)
    BY DEF Init, Distinct, LinkedSafe
  <2>2. \A h \in Threads : pc[h] = "idle" /\ LiveTop(mm, h, 1)
    BY DEF Init, LiveTop
  <2> QED
    BY <2>1, <2>2 DEF RequestInv, RequestTop
<1>2. IInv /\ StackInv /\ RequestInv /\ [Next]_vars => RequestInv'
  <2> SUFFICES ASSUME IInv, StackInv, RequestInv, [Next]_vars, NoTransaction'
               PROVE  /\ ~mm'.fault
                      /\ Distinct(mm')
                      /\ \A h \in Threads : RequestTop(mm', h, pc'[h], req'[h], nested'[h])
                      /\ LinkedSafe(mm', linked')
    BY DEF RequestInv, Distinct, RequestTop, TopAt, LiveTop, LinkedSafe
  <2>1. CASE Next
    <3>1. PICK h \in Threads : Step(h)
      BY <2>1 DEF Next
    <3>2. NoTransaction
      BY <3>1, TransactionsStay
    <3> QED
      BY <3>1, <3>2, RequestStep
  <2>2. CASE UNCHANGED vars
    BY <2>2 DEF vars, NoTransaction, RequestInv
  <2> QED
    BY <2>1, <2>2
<1>3. RequestInv => OnlyTransactionsFault
  BY DEF RequestInv, NoTransaction, OnlyTransactionsFault
<1> QED
  BY <1>1, <1>2, <1>3, InductiveInvariant, StacksAreApart, PTL DEF Spec
=============================================================================
