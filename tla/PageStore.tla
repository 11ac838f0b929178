------------------------------ MODULE PageStore ------------------------------
(***************************************************************************)
(* The database file of storage/jdbx_page_manager.c: its header, and the   *)
(* ring of log pages that is part of it.                                   *)
(*                                                                         *)
(* The file is mapped and shared: what the process writes is in the page   *)
(* cache at once (mem) and on the disk after msync or when the kernel      *)
(* chooses (disk).  The end of the process keeps mem, a power failure      *)
(* leaves disk.  Nothing advances header->transaction_id, so it equals     *)
(* last_checkpoint forever and is left out: jdbx_checkpoint sees something *)
(* to do only when the log has moved to another page, and jdbx_wal_recover *)
(* would pass over every entry.  The log has no caller yet in the          *)
(* repository; its entries come from the environment here.                 *)
(***************************************************************************)
EXTENDS Naturals, FiniteSets, Sequences

CONSTANTS
    WalPages,       \* JDBX_WAL_PAGES
    PageSize,       \* room of a log page after its header
    EntrySizes,     \* sizes of log entries, headers included
    MaxSeq          \* bound on the entries written

ASSUME PageAssumption == /\ WalPages \in Nat \ {0, 1} /\ PageSize \in Nat /\ MaxSeq \in Nat
                         /\ EntrySizes \subseteq Nat \ {0}

VARIABLES
    fileExists,
    mem, disk,      \* [magic, cur, ckpt, seq, sum, wal]: header and log pages
    pm,             \* "closed", "creating" or "open"
    since,          \* history: entries acknowledged since the last open or checkpoint
    oversize,       \* history: an entry did not fit an empty page
    interrupted,    \* history: the process or the power failed while the file was made
    unsummed        \* history: the header changed after its checksum was made

pageVars == <<fileExists, mem, disk, pm, since, oversize, interrupted, unsummed>>

Ring == 0 .. WalPages - 1

EmptyPage == [used |-> 0, entries |-> <<>>]
Blank     == [magic |-> FALSE, cur |-> 0, ckpt |-> 0, seq |-> 0, sum |-> <<>>,
              wal |-> [p \in Ring |-> EmptyPage]]

\* What the checksum of the header covers.
Covered(h) == <<h.cur, h.ckpt, h.seq>>

update_header_checksum(h) == [h EXCEPT !.sum = Covered(h)]

PageInit ==
    /\ fileExists = FALSE /\ mem = Blank /\ disk = Blank /\ pm = "closed"
    /\ since = {} /\ oversize = FALSE /\ interrupted = FALSE /\ unsummed = FALSE

-----------------------------------------------------------------------------
(* Creating, opening and closing.                                          *)

\* jdbx_create makes a file of the full size, all zero ...
jdbx_create ==
    /\ pm = "closed" /\ ~ fileExists
    /\ fileExists' = TRUE /\ mem' = Blank /\ disk' = Blank /\ pm' = "creating"
    /\ UNCHANGED <<since, oversize, interrupted, unsummed>>

\* ... and init_new_file formats it and syncs it.
init_new_file ==
    /\ pm = "creating"
    /\ mem' = update_header_checksum([Blank EXCEPT !.magic = TRUE, !.seq = 1])
    /\ disk' = mem' /\ pm' = "open" /\ since' = {}
    /\ UNCHANGED <<fileExists, oversize, interrupted, unsummed>>

\* What jdbx_open checks.
Openable(h) == h.magic /\ h.sum = Covered(h)

\* jdbx_wal_recover applies nothing and moves the checkpoint.
jdbx_wal_recover(h) == update_header_checksum([h EXCEPT !.ckpt = h.cur])

jdbx_open ==
    /\ pm = "closed" /\ fileExists /\ Openable(mem)
    /\ mem' = IF mem.cur # mem.ckpt THEN jdbx_wal_recover(mem) ELSE mem
    /\ pm' = "open" /\ since' = {}
    /\ UNCHANGED <<fileExists, disk, oversize, interrupted, unsummed>>

Checkpointed(h) == update_header_checksum([h EXCEPT !.ckpt = h.cur])

\* jdbx_checkpoint returns early when the log is still on the page of the last one;
\* header and checksum are not looked at then.
jdbx_checkpoint ==
    /\ pm = "open"
    /\ IF mem.cur = mem.ckpt THEN UNCHANGED <<mem, disk, since, unsummed>>
       ELSE mem' = Checkpointed(mem) /\ disk' = mem' /\ since' = {} /\ unsummed' = FALSE
    /\ UNCHANGED <<fileExists, pm, oversize, interrupted>>

\* jdbx_sync, then jdbx_close with its checkpoint (database_close).
jdbx_close ==
    /\ pm = "open"
    /\ mem' = IF mem.cur = mem.ckpt THEN mem ELSE Checkpointed(mem)
    /\ disk' = mem' /\ pm' = "closed" /\ since' = {}
    /\ unsummed' = (unsummed /\ mem.cur = mem.ckpt)
    /\ UNCHANGED <<fileExists, oversize, interrupted>>

-----------------------------------------------------------------------------
(* The log.                                                                *)

Following(p) == IF p + 1 >= WalPages THEN 0 ELSE p + 1

Entry(n) == [seq |-> mem.seq, size |-> n]

\* Mutant: the ring moves onto the page of the checkpoint.
AdvanceWal_over(n) ==
    IF n > PageSize - mem.wal[mem.cur].used
    THEN {[mem EXCEPT !.cur = Following(mem.cur), !.wal[Following(mem.cur)] = EmptyPage]}
    ELSE {mem}

\* The page the entry goes to: the current one if it has room, else the next one,
\* emptied; none when that is the page of the checkpoint.
AdvanceWal(n) ==
    IF n <= PageSize - mem.wal[mem.cur].used THEN {mem}
    ELSE IF Following(mem.cur) = mem.ckpt THEN {}
    ELSE {[mem EXCEPT !.cur = Following(mem.cur), !.wal[Following(mem.cur)] = EmptyPage]}

WalAppend(h, n) ==
    [h EXCEPT !.seq = @ + 1, !.wal[h.cur] = [used |-> @.used + n, entries |-> Append(@.entries, Entry(n))]]

\* jdbx_wal_write: only the log page is synced; the header, which holds the place and
\* the sequence number, is neither synced nor summed anew.  The size of an entry is not
\* compared with that of an empty page.
jdbx_wal_write(n) ==
    /\ pm = "open" /\ mem.seq <= MaxSeq
    /\ \E h \in AdvanceWal(n) :
          /\ mem' = WalAppend(h, n)
          /\ disk' = [disk EXCEPT !.wal[h.cur] = mem'.wal[h.cur]]
          /\ since' = since \cup {mem.seq}
          /\ oversize' = (oversize \/ n > PageSize)
    /\ unsummed' = TRUE
    /\ UNCHANGED <<fileExists, pm, interrupted>>

-----------------------------------------------------------------------------
(* Failures.                                                               *)

\* The kernel writes the header, or a log page, back.
WriteBack ==
    /\ disk # mem
    /\ \/ disk' = [mem EXCEPT !.wal = disk.wal]
       \/ \E p \in Ring : disk' = [disk EXCEPT !.wal[p] = mem.wal[p]]
    /\ UNCHANGED <<fileExists, mem, pm, since, oversize, interrupted, unsummed>>

ProcessDies ==
    /\ pm # "closed"
    /\ pm' = "closed" /\ since' = {}
    /\ interrupted' = (interrupted \/ pm = "creating")
    /\ UNCHANGED <<fileExists, mem, disk, oversize, unsummed>>

PowerFails ==
    /\ pm # "closed"
    /\ mem' = disk /\ pm' = "closed" /\ since' = {}
    /\ interrupted' = (interrupted \/ pm = "creating")
    /\ UNCHANGED <<fileExists, disk, oversize, unsummed>>

PageNext ==
    \/ jdbx_create \/ init_new_file \/ jdbx_open \/ jdbx_checkpoint \/ jdbx_close
    \/ \E n \in EntrySizes : jdbx_wal_write(n)
    \/ WriteBack \/ ProcessDies \/ PowerFails

PageSpec == PageInit /\ [][PageNext]_pageVars

-----------------------------------------------------------------------------
(* Properties.                                                             *)

Present(h, P) == UNION {{h.wal[p].entries[i].seq : i \in DOMAIN h.wal[p].entries} : p \in P}

\* Log pages from the checkpoint to the current one.
LivePages(h) == IF h.ckpt <= h.cur THEN h.ckpt .. h.cur ELSE {p \in Ring : p >= h.ckpt \/ p <= h.cur}

PageTypeOK ==
    /\ mem.cur \in Ring /\ mem.ckpt \in Ring /\ mem.seq \in 0 .. MaxSeq + 1
    /\ since \subseteq 1 .. MaxSeq

\* A log page is never filled past its end, unless an entry is larger than an empty
\* page: jdbx_wal_write checks the room of the old page only.
LogPagesFit == oversize \/ \A p \in Ring : mem.wal[p].used <= PageSize

\* While the file is open, every entry acknowledged since the last checkpoint is in
\* the pages recovery would read, and on the disk: a full ring refuses entries, it does
\* not overwrite them.
AckedEntriesInRing ==
    pm = "open" => /\ since \subseteq Present(mem, LivePages(mem))
                   /\ since \subseteq Present(disk, Ring)

\* A file is refused by jdbx_open only if its creation was interrupted, or the log
\* changed the header after the checksum of the header was made (jdbx_close does not
\* always make a new one).
RefusedOnlyIf == pm = "closed" /\ fileExists /\ ~ Openable(mem) => interrupted \/ unsummed

\* The page file across crashes: entries that were acknowledged are in the ring, log
\* pages hold what fits, and only what does not is refused.
LogPagesSound ==
    /\ PageTypeOK /\ LogPagesFit /\ AckedEntriesInRing /\ RefusedOnlyIf
=============================================================================
