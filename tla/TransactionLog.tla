--------------------------- MODULE TransactionLog ---------------------------
(***************************************************************************)
(* The transaction log file and its audit file: transaction_log.c and the  *)
(* handlers of api/transaction_log_api.c.                                  *)
(*                                                                         *)
(* Every operation holds log->lock from its first to its last access, so   *)
(* it is one step; compaction is several, because a crash in between       *)
(* leaves different files behind.  A crash of the process keeps what was   *)
(* written to a file; it may cut the line that is being appended.  A line  *)
(* is its type, transaction, value and a serial number that tells it from  *)
(* all others; comment lines are left out.                                 *)
(***************************************************************************)
EXTENDS Integers, FiniteSets, Sequences, FiniteSetsExt, SequencesExt

CONSTANTS
    LTxns,          \* transaction ids
    MaxLines,       \* bound on the lines ever written
    MaxTime,        \* bound on the seconds that pass
    MaxRecovery,    \* MAX_RECOVERY_TRANSACTIONS
    MaxCompleted,   \* MAX_COMPLETED_TRANSACTIONS
    MaxCached,      \* max_cache_entries
    Expiry          \* cache_expiry_seconds

ASSUME LogAssumption ==
    {MaxLines, MaxTime, MaxRecovery, MaxCompleted, MaxCached, Expiry} \subseteq Nat

VARIABLES
    now,            \* time(NULL)
    logFile,        \* lines of log->log_file that parse_log_line accepts
    tail,           \* what a crash left at the end: "ok", or a line cut in its
                    \* timestamp ("early") or after it ("late")
    auditFile,      \* lines of log->audit_file
    archives,       \* serial numbers of the archived lines, by the second in the name
    cached,         \* entry_cache: how many entries of each second it holds
    active,         \* log->active_transactions
    settings,       \* [level, audit]: log_level and audit_enabled
    phase,          \* what the caller has logged of each transaction
    serial,         \* lines written so far
    temp, lpc,      \* the temporary file of a compaction, and where it is
    acked,          \* history: lines whose writer was told of success
    lost,           \* history: lines that went one of the ways AckedLinesKept names
    refused         \* history: the full cache refused an entry, or a transaction
                    \* logged its end only

logHistory == <<acked, lost, refused>>
memory == <<cached, active, settings>>
logVars == <<now, logFile, tail, auditFile, archives, memory, phase, serial, temp, lpc,
             logHistory>>

Final == {"committed", "aborted"}

Line(type, x, v) == [type |-> type, tx |-> x, v |-> v, id |-> serial + 1, at |-> now]
Ids(s)           == {s[i].id : i \in DOMAIN s}

StateLines(s, x) == {i \in DOMAIN s : s[i].type = "STATE" /\ s[i].tx = x}
Logged(s)        == {x \in LTxns : StateLines(s, x) # {}}

\* transaction_log_create: level 1, no audit, an empty cache.
Created == /\ cached' = [s \in 0 .. MaxTime |-> 0] /\ active' = 0 /\ settings' = [level |-> 1, audit |-> FALSE]

LogInit ==
    /\ now = 0 /\ logFile = <<>> /\ tail = "ok" /\ auditFile = <<>>
    /\ archives = [s \in 0 .. MaxTime |-> {}]
    /\ cached = [s \in 0 .. MaxTime |-> 0] /\ active = 0 /\ settings = [level |-> 1, audit |-> FALSE]
    /\ phase = [x \in LTxns |-> "none"] /\ serial = 0
    /\ temp = <<>> /\ lpc = "idle"
    /\ acked = {} /\ lost = {} /\ refused = FALSE

-----------------------------------------------------------------------------
(* Appending.                                                              *)

\* A full cache drops its expired entries; still full, it refuses the entry, and then
\* the counters are left alone too.
add_to_cache(l) ==
    LET Size(c) == MapThenSumSet(LAMBDA s : c[s], DOMAIN c)
        kept == IF Size(cached) >= MaxCached
                THEN [s \in DOMAIN cached |-> IF s < now - Expiry THEN 0 ELSE cached[s]] ELSE cached
        fits == Size(kept) < MaxCached
    IN  /\ cached' = IF fits THEN [kept EXCEPT ![now] = @ + 1] ELSE kept
        /\ active' = active + (IF ~ fits \/ l.type # "STATE" THEN 0
                               ELSE IF l.v = "active" THEN 1 ELSE -1)
        /\ refused' = (refused \/ ~ fits \/ (l.v \in Final /\ phase[l.tx] = "none"))

\* A line appended after one that was cut short becomes part of it: it is lost, unless
\* the cut was within the timestamp.
Appended(l) == IF tail = "late" THEN logFile ELSE Append(logFile, l)

\* log_append_entry: the line is written and synced, then cached; audit lines are not.
log_append_entry(l) ==
    /\ lpc = "idle" /\ serial < MaxLines
    /\ serial' = serial + 1
    /\ logFile' = Appended(l) /\ tail' = "ok"
    /\ lost' = IF tail = "late" THEN lost \cup {l.id} ELSE lost
    /\ acked' = acked \cup {l.id}
    /\ IF l.type = "AUDIT" THEN UNCHANGED <<cached, active, refused>> ELSE add_to_cache(l)

\* The caller logs the start of a transaction or not (transaction.c does not), its
\* operations, and its end.
transaction_log_write_state_change(x, v) ==
    /\ \/ v = "active" /\ phase[x] = "none"
       \/ v \in Final /\ phase[x] \in {"none", "active"}
    /\ log_append_entry(Line("STATE", x, v))
    /\ phase' = [phase EXCEPT ![x] = v]
    /\ UNCHANGED <<now, auditFile, archives, settings, temp, lpc>>

transaction_log_write_operation(x) ==
    /\ phase[x] = "active"
    /\ log_append_entry(Line("OPERATION", x, "update"))
    /\ UNCHANGED <<now, auditFile, archives, settings, phase, temp, lpc>>

\* transaction_log_write_audit: to the log at level 2, and to the audit file.
transaction_log_write_audit(x) ==
    /\ settings.audit /\ phase[x] \in Final
    /\ IF settings.level >= 2 THEN log_append_entry(Line("AUDIT", x, phase[x]))
       ELSE /\ lpc = "idle" /\ serial < MaxLines /\ serial' = serial + 1
            /\ acked' = acked \cup {serial + 1}
            /\ UNCHANGED <<logFile, tail, lost, cached, active, refused>>
    /\ auditFile' = Append(auditFile, Line("AUDIT", x, phase[x]))
    /\ UNCHANGED <<now, archives, settings, phase, temp, lpc>>

transaction_log_configure(level, audit) ==
    /\ lpc = "idle"
    /\ settings' = [level |-> level, audit |-> audit]
    /\ UNCHANGED <<now, logFile, tail, auditFile, archives, cached, active, phase, serial, temp, lpc, logHistory>>

\* A level that is not 0, 1 or 2 leaves the old one.
api_handle_transaction_logs_configure(level, audit) ==
    transaction_log_configure(IF level \in 0 .. 2 THEN level ELSE settings.level, audit)

-----------------------------------------------------------------------------
(* Compaction and archives.                                                *)

\* The first pass: transactions with a final state, as many as the table holds.
CompletedIn(s) ==
    LET ends(x) == {i \in StateLines(s, x) : s[i].v \in Final}
        done == {x \in LTxns : ends(x) # {}}
    IN  {x \in done : Cardinality({y \in done : Min(ends(y)) < Min(ends(x))}) < MaxCompleted}

\* The second pass: of a completed transaction only the final states and the audit
\* lines are kept.
Compact(s) ==
    SelectSeq(s, LAMBDA l : \/ l.tx \notin CompletedIn(s)
                            \/ l.type = "STATE" /\ l.v \in Final
                            \/ l.type = "AUDIT")

\* transaction_log_compact writes the temporary file ...
transaction_log_compact ==
    /\ lpc = "idle"
    /\ temp' = Compact(logFile) /\ lpc' = "written"
    /\ UNCHANGED <<now, logFile, tail, auditFile, archives, memory, phase, serial, logHistory>>

\* ... and renames it.  The temporary file ends with a whole line.
compact_rename ==
    /\ lpc = "written"
    /\ logFile' = temp /\ tail' = "ok" /\ lpc' = "idle" /\ temp' = <<>>
    /\ lost' = lost \cup (Ids(logFile) \ Ids(temp))
    /\ UNCHANGED <<now, auditFile, archives, memory, phase, serial, acked, refused>>

\* If that fails the log is opened for writing, which empties it, ...
compact_truncate ==
    /\ lpc = "written"
    /\ logFile' = <<>> /\ tail' = "ok" /\ lpc' = "copying"
    /\ lost' = lost \cup (Ids(logFile) \ Ids(temp))
    /\ UNCHANGED <<now, auditFile, archives, memory, phase, serial, temp, acked, refused>>

\* ... and the temporary file is copied and unlinked.
compact_copy ==
    /\ lpc = "copying"
    /\ logFile' = temp /\ lpc' = "idle" /\ temp' = <<>>
    /\ UNCHANGED <<now, tail, auditFile, archives, memory, phase, serial, logHistory>>

\* transaction_log_archive: the name of the archive is the second, so that a second one
\* replaces it.  If its file cannot be created nothing happens; the audit file is
\* emptied even if its own copy failed.
transaction_log_archive(opened, auditOpened) ==
    LET copied == Ids(logFile) \cup (IF auditOpened THEN Ids(auditFile) ELSE {})
    IN  /\ lpc = "idle" /\ opened /\ logFile # <<>>
        /\ archives' = [archives EXCEPT ![now] = copied]
        /\ logFile' = <<>> /\ tail' = "ok" /\ auditFile' = <<>>
        /\ lost' = lost \cup archives[now] \cup (Ids(auditFile) \ copied)
        /\ UNCHANGED <<now, memory, phase, serial, temp, lpc, acked, refused>>

-----------------------------------------------------------------------------
(* Reading.                                                                *)

\* create_recovery_transaction starts with ACTIVE whatever its line says; only the
\* lines after it count.
RecoveredState(s, x) ==
    IF Cardinality(StateLines(s, x)) = 1 THEN "active" ELSE s[Max(StateLines(s, x))].v

\* Transactions past the size of the table are not kept.
Tracked(s) ==
    {x \in Logged(s) : Cardinality({y \in Logged(s) :
                           Min(StateLines(s, y)) < Min(StateLines(s, x))}) < MaxRecovery}

\* Mutant: the state of the line that made the entry is never replaced.
Recover_first(s) == {x \in Tracked(s) : s[Min(StateLines(s, x))].v = "committed"}

\* transaction_log_read_operations counts the committed ones and changes nothing.
Recover(s) == {x \in Tracked(s) : RecoveredState(s, x) = "committed"}

\* transaction_log_get_report counts a transaction at its first line in the range, and
\* lists it if that line is final already.
Report(s) ==
    [total  |-> Cardinality(Logged(s)),
     listed |-> SelectSeq(s, LAMBDA l : /\ l.type = "STATE" /\ l.v \in Final
                                        /\ l.id = s[Min(StateLines(s, l.tx))].id)]

\* The lines of the range the request asks for.
api_handle_transaction_logs_report(from) == Report(SelectSeq(logFile, LAMBDA l : l.at >= from))

-----------------------------------------------------------------------------
(* Time and crashes.                                                       *)

LogTick ==
    /\ now < MaxTime /\ now' = now + 1
    /\ UNCHANGED <<logFile, tail, auditFile, archives, memory, phase, serial, temp, lpc, logHistory>>

\* Running transactions end with the process.
Dead == [x \in LTxns |-> IF phase[x] = "active" THEN "aborted" ELSE phase[x]]

\* The process dies and is started again.  If the log was being copied back, a
\* beginning of it is all that is left.
LogCrash ==
    /\ Created /\ phase' = Dead /\ temp' = <<>> /\ lpc' = "idle"
    /\ IF lpc = "copying"
       THEN \E n \in 0 .. Len(temp) :
               /\ logFile' = SubSeq(temp, 1, n)
               /\ lost' = lost \cup Ids(SubSeq(temp, n + 1, Len(temp)))
       ELSE UNCHANGED <<logFile, lost>>
    /\ refused' = FALSE
    /\ UNCHANGED <<now, tail, auditFile, archives, serial, acked>>

\* It dies within an append: nothing is acknowledged, part of the line is in the file.
LogCrashTorn ==
    /\ lpc = "idle" /\ serial < MaxLines /\ \E x \in LTxns : phase[x] = "active"
    /\ tail' \in {"early", "late"}
    /\ Created /\ phase' = Dead /\ serial' = serial + 1
    /\ refused' = FALSE
    /\ UNCHANGED <<now, logFile, auditFile, archives, temp, lpc, acked, lost>>

\* The directory is in the request; the files in it may not open.
api_handle_transaction_logs_archive ==
    \E opened, auditOpened \in BOOLEAN : transaction_log_archive(opened, auditOpened)

LogNext ==
    \/ LogTick \/ LogCrash \/ LogCrashTorn
    \/ \E x \in LTxns :
          \/ \E v \in {"active", "committed", "aborted"} : transaction_log_write_state_change(x, v)
          \/ transaction_log_write_operation(x) \/ transaction_log_write_audit(x)
    \/ \E level \in {1, 2, 3}, audit \in BOOLEAN : api_handle_transaction_logs_configure(level, audit)
    \/ transaction_log_compact \/ compact_rename \/ compact_truncate \/ compact_copy
    \/ api_handle_transaction_logs_archive

LogSpec == LogInit /\ [][LogNext]_logVars

-----------------------------------------------------------------------------
(* Properties.                                                             *)

Everywhere == Ids(logFile) \cup Ids(temp) \cup Ids(auditFile) \cup UNION {archives[s] : s \in DOMAIN archives}

LogTypeOK ==
    /\ Ids(logFile) \cup Ids(auditFile) \subseteq 1 .. serial
    /\ \A s \in DOMAIN cached : cached[s] \in 0 .. MaxCached
    /\ settings.level \in 0 .. 2

\* A line whose writer was told of success stays in the log or in an archive.  The ways
\* to lose it are these: it was glued to a line a crash had cut, a second archive was
\* made in the same second, a crash hit the copy that stands in for the rename of a
\* compaction, the audit file was emptied without a copy, or compaction left it out.
AckedLinesKept == acked \subseteq Everywhere \cup lost

\* Compaction leaves out no line of a transaction that has not ended: recovery would
\* need it.
CompactionKeepsRunning ==
    [][\A i \in DOMAIN logFile :
          phase[logFile[i].tx] = "active" /\ lpc = "written" /\ lpc' = "idle" /\ phase' = phase =>
              logFile[i].id \in Ids(logFile')]_logVars

\* Recovery counts a transaction only if it committed, and counts every one whose
\* first and last state are in the log, as long as the table has room.
RecoveryFindsCommitted ==
    LET both(x) == {logFile[i].v : i \in StateLines(logFile, x)} = {"active", "committed"}
    IN  /\ \A x \in Recover(logFile) : phase[x] = "committed"
        /\ Cardinality(Logged(logFile)) <= MaxRecovery =>
               {x \in LTxns : both(x)} \subseteq Recover(logFile)

\* A report counts each transaction of its range once and lists only transactions that
\* ended, each once, with the state they ended in.
ReportCountsOnce ==
    \A from \in 0 .. MaxTime :
        LET r == api_handle_transaction_logs_report(from)
        IN  /\ Len(r.listed) <= r.total /\ r.total <= Cardinality(LTxns)
            /\ \A i, j \in DOMAIN r.listed :
                  /\ phase[r.listed[i].tx] = r.listed[i].v
                  /\ i # j => r.listed[i].tx # r.listed[j].tx

\* The count of active transactions is not negative, unless the full cache refused an
\* entry (its expired entries did not make room) or a transaction logged its end only.
ActiveCountSound == refused \/ active >= 0

\* The transaction log across crashes: acknowledged lines kept, recovery finds what
\* was committed and counts it once, and compaction keeps what is running.
LogSound ==
    /\ [](/\ LogTypeOK
          /\ AckedLinesKept
          /\ RecoveryFindsCommitted
          /\ ReportCountsOnce
          /\ ActiveCountSound)
    /\ CompactionKeepsRunning
=============================================================================
