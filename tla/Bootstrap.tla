------------------------------ MODULE Bootstrap ------------------------------
(***************************************************************************)
(* How an empty database gets its first users: db_init of                  *)
(* database/database.c and init_rbac at every start, and the first login,  *)
(* api_handle_login of api/api_auth.c, which makes the administrator, the  *)
(* libraries' documents and the system actors under g_bootstrap_mutex      *)
(* before it looks at the name and the password.                           *)
(*                                                                         *)
(* Documents live in memory only: a restart starts over with a page file   *)
(* and no document.  A step that inserts may fail; a failed role or user   *)
(* leaves the bootstrap to the next login.                                 *)
(***************************************************************************)
EXTENDS Naturals, FiniteSets

CONSTANTS
    BThreads,       \* threads that serve requests
    Environments,   \* what JDBX_BOOTSTRAP_ADMIN_USER and _PASS can be: none, short, set
    BPaths,         \* <<library, collection>> that are asked for
    MaxStarts,      \* bound on the starts of the server
    MaxBootFailures,\* bound on the failed steps
    MaxBootLogins   \* bound on the logins

VARIABLES
    environment,    \* the credentials in the environment
    starts,         \* starts so far
    pageFile,       \* the page file exists
    bmode,          \* db->is_bootstrap_mode
    deferred,       \* JDBX_DEFERRED_BOOTSTRAP is "1"
    completed,      \* g_bootstrap_completed
    bmutex,         \* the thread that holds g_bootstrap_mutex
    madeDocs,       \* how many documents of each kind are stored
    adminRoleOf,    \* which of the admin roles the administrator has
    physical,       \* <<library, collection>> that have a list of documents of their own
    userRegistered,     \* an ordinary user registered
    boot,           \* per thread: its login
    bootFailed,     \* history: steps that failed in this life
    bootCalls,      \* logins so far
    answeredEarly           \* history: a login was answered before the bootstrap was over

bootData == <<environment, starts, pageFile, physical>>
bootMode == <<bmode, deferred, completed>>
bootVars == <<bootData, bootMode, bmutex, madeDocs, adminRoleOf, userRegistered, boot, bootFailed, bootCalls, answeredEarly>>

Free == "free"

ASSUME BootAssumption == Free \notin BThreads

DocKinds == {"admin_role", "admin", "system_library", "default_library", "system_roles", "actors", "welcome", "collection"}
NoLogin == [pc |-> "idle", who |-> "", role |-> 0]

BGoto(t, p) == boot' = [boot EXCEPT ![t].pc = p]
StoreDocs(kinds) == madeDocs' = [k \in DocKinds |-> IF k \in kinds THEN madeDocs[k] + 1 ELSE madeDocs[k]]

\* get_or_create_collection: only default/documents has a list; another path makes
\* sure, in ensure_virtual_collection_exists, that a document stands for it.
get_or_create_collection(have, path) ==
    IF path = <<"default", "documents">> THEN have \cup {path} ELSE have

\* db_init makes the welcome document only with a new file.
FirstDocs(new) == [k \in DocKinds |-> IF k = "welcome" /\ new THEN 1 ELSE 0]

BootInit ==
    /\ environment \in Environments /\ starts = 1 /\ pageFile = TRUE
    /\ bmode = TRUE /\ deferred = TRUE /\ completed = FALSE /\ bmutex = Free
    /\ madeDocs = FirstDocs(TRUE) /\ adminRoleOf = 0 /\ userRegistered = FALSE
    /\ physical = get_or_create_collection({}, <<"default", "documents">>)
    /\ boot = [t \in BThreads |-> NoLogin] /\ bootFailed = 0 /\ bootCalls = 0 /\ answeredEarly = FALSE

\* An empty collection, and the page file opened or made.
db_init ==
    /\ madeDocs' = FirstDocs(~ pageFile) /\ adminRoleOf' = 0 /\ userRegistered' = FALSE
    /\ physical' = get_or_create_collection({}, <<"default", "documents">>)
    /\ pageFile' = TRUE

\* Every start is a bootstrap.
init_rbac == bmode' = TRUE /\ deferred' = TRUE /\ completed' = FALSE /\ bmutex' = Free

\* The server is stopped, or dies, at any moment and is started again.
restart ==
    /\ starts < MaxStarts
    /\ starts' = starts + 1
    /\ db_init /\ init_rbac
    /\ boot' = [t \in BThreads |-> NoLogin] /\ bootFailed' = 0 /\ answeredEarly' = FALSE
    /\ UNCHANGED <<environment, bootCalls>>

-----------------------------------------------------------------------------
(* The first login.                                                        *)

\* config_load_bootstrap_admin_credentials: a name that is missing or shorter than three
\* letters is replaced by the placeholder.
is_admin_login(who) == IF environment = "set" THEN who = "admin" ELSE who = "placeholder"

\* is_bootstrap_mode is read without a lock.
api_handle_login(t, who) ==
    /\ boot[t].pc = "idle" /\ bootCalls < MaxBootLogins
    /\ bootCalls' = bootCalls + 1
    /\ boot' = [boot EXCEPT ![t] = [NoLogin EXCEPT !.pc = IF bmode THEN "getenv" ELSE "credentials", !.who = who]]
    /\ UNCHANGED <<bootData, bootMode, bmutex, madeDocs, adminRoleOf, userRegistered, bootFailed, answeredEarly>>

bootRest == <<bootData, userRegistered, bootCalls, answeredEarly>>

check_deferred(t) ==
    /\ boot[t].pc = "getenv"
    /\ BGoto(t, IF deferred THEN "lock" ELSE "credentials")
    /\ UNCHANGED <<bootRest, bootMode, bmutex, madeDocs, adminRoleOf, bootFailed>>

lock_bootstrap(t) ==
    /\ boot[t].pc = "lock" /\ bmutex = Free
    /\ bmutex' = t
    /\ BGoto(t, "inside")
    /\ UNCHANGED <<bootRest, bootMode, madeDocs, adminRoleOf, bootFailed>>

\* Mutant: who waited for the lock does not look again.
check_completed_skipped(t) ==
    /\ boot[t].pc = "inside"
    /\ BGoto(t, "role")
    /\ UNCHANGED <<bootRest, bootMode, bmutex, madeDocs, adminRoleOf, bootFailed>>

check_completed(t) ==
    /\ boot[t].pc = "inside"
    /\ BGoto(t, IF completed THEN "unlock" ELSE "role")
    /\ UNCHANGED <<bootRest, bootMode, bmutex, madeDocs, adminRoleOf, bootFailed>>

\* A step that inserts a document fails.
BootFails == bootFailed < MaxBootFailures /\ bootFailed' = bootFailed + 1

\* In bootstrap mode nobody looks whether the role is there already.
create_default_admin_role(t) ==
    /\ boot[t].pc = "role"
    /\ \/ /\ BootFails /\ BGoto(t, "unlock") /\ UNCHANGED madeDocs
       \/ /\ StoreDocs({"admin_role"})
          /\ boot' = [boot EXCEPT ![t].pc = "user", ![t].role = madeDocs["admin_role"] + 1]
          /\ UNCHANGED bootFailed
    /\ UNCHANGED <<bootRest, bootMode, bmutex, adminRoleOf>>

\* Without credentials in the environment there is no administrator and no error.
create_default_admin_user(t) ==
    /\ boot[t].pc = "user"
    /\ \/ /\ environment = "none"
          /\ BGoto(t, "libraries") /\ UNCHANGED <<madeDocs, adminRoleOf, bootFailed>>
       \/ /\ environment # "none" /\ BootFails /\ BGoto(t, "unlock") /\ UNCHANGED <<madeDocs, adminRoleOf>>
       \/ /\ environment # "none" /\ StoreDocs({"admin"})
          /\ adminRoleOf' = boot[t].role
          /\ BGoto(t, "libraries") /\ UNCHANGED bootFailed
    /\ UNCHANGED <<bootRest, bootMode, bmutex>>

\* The documents of both libraries; a failed insert is only logged.
insert_libraries(t) ==
    /\ boot[t].pc = "libraries"
    /\ \E kinds \in SUBSET {"system_library", "default_library"} :
          /\ IF kinds = {"system_library", "default_library"} THEN UNCHANGED bootFailed ELSE BootFails
          /\ StoreDocs(kinds)
    /\ BGoto(t, "actors")
    /\ UNCHANGED <<bootRest, bootMode, bmutex, adminRoleOf>>

\* Two roles, unasked, and six actors, whose query never finds one (it looks in the
\* library "default"); a failed insert is only logged.
create_system_actors(t) ==
    /\ boot[t].pc = "actors"
    /\ \E kinds \in SUBSET {"system_roles", "actors"} :
          /\ IF kinds = {"system_roles", "actors"} THEN UNCHANGED bootFailed ELSE BootFails
          /\ StoreDocs(kinds)
    /\ BGoto(t, "complete")
    /\ UNCHANGED <<bootRest, bootMode, bmutex, adminRoleOf>>

complete_bootstrap(t) ==
    /\ boot[t].pc = "complete"
    /\ bmode' = FALSE /\ deferred' = FALSE /\ completed' = TRUE
    /\ BGoto(t, IF is_admin_login(boot[t].who) THEN "shortcut" ELSE "unlock")
    /\ UNCHANGED <<bootRest, bmutex, madeDocs, adminRoleOf, bootFailed>>

\* The administrator's login unlocks and looks for its document in default/documents with
\* the library "system", which no document matches: it goes on and unlocks once more.
admin_shortcut(t) ==
    /\ boot[t].pc = "shortcut"
    /\ bmutex' = Free
    /\ BGoto(t, "unlock")
    /\ UNCHANGED <<bootRest, bootMode, madeDocs, adminRoleOf, bootFailed>>

\* The default mutex of glibc does not ask who unlocks it.
unlock_bootstrap(t) ==
    /\ boot[t].pc = "unlock"
    /\ bmutex' = Free
    /\ BGoto(t, "credentials")
    /\ UNCHANGED <<bootRest, bootMode, madeDocs, adminRoleOf, bootFailed>>

\* Every login ends in the usual query for the user and the password.
LoggedIn(who) == (who = "admin" /\ madeDocs["admin"] > 0) \/ (who = "user" /\ userRegistered)
check_credentials(t) ==
    /\ boot[t].pc = "credentials"
    /\ answeredEarly' = (answeredEarly \/ (LoggedIn(boot[t].who) /\ ~ completed /\ bootFailed = 0))
    /\ boot' = [boot EXCEPT ![t] = NoLogin]
    /\ UNCHANGED <<bootData, bootMode, bmutex, madeDocs, adminRoleOf, userRegistered, bootFailed, bootCalls>>

-----------------------------------------------------------------------------
(* Beside it.                                                              *)

\* POST /api/register waits for nothing.
register_user ==
    /\ ~ userRegistered /\ userRegistered' = TRUE
    /\ UNCHANGED <<bootData, bootMode, bmutex, madeDocs, adminRoleOf, boot, bootFailed, bootCalls, answeredEarly>>

\* Both only know the lists there are.
db_collection_exists(path) == path \in physical
db_list_collections == physical

\* db_create_collection: the document that stands for a collection is looked for in
\* default/documents, not found, and made again.
db_create_collection(path) ==
    /\ madeDocs["collection"] < Cardinality(BPaths)
    /\ physical' = get_or_create_collection(physical, path)
    /\ IF path = <<"default", "documents">> THEN UNCHANGED madeDocs ELSE StoreDocs({"collection"})
    /\ UNCHANGED <<environment, starts, pageFile, bootMode, bmutex, adminRoleOf, userRegistered, boot, bootFailed, bootCalls, answeredEarly>>

BootNext ==
    \/ \E t \in BThreads :
          \/ \E who \in {"admin", "placeholder", "user"} : api_handle_login(t, who)
          \/ check_deferred(t) \/ lock_bootstrap(t) \/ check_completed(t)
          \/ create_default_admin_role(t) \/ create_default_admin_user(t) \/ insert_libraries(t)
          \/ create_system_actors(t) \/ complete_bootstrap(t) \/ admin_shortcut(t)
          \/ unlock_bootstrap(t) \/ check_credentials(t)
    \/ \E path \in BPaths : db_create_collection(path)
    \/ register_user
    \/ restart

BootSpec == BootInit /\ [][BootNext]_bootVars

-----------------------------------------------------------------------------
(* Properties.                                                             *)

InSection == {t \in BThreads : boot[t].pc \in {"inside", "role", "user", "libraries", "actors", "complete", "shortcut", "unlock"}}
Making    == {t \in BThreads : boot[t].pc \in {"role", "user", "libraries", "actors", "complete"}}

BootTypeOK ==
    /\ bmutex \in BThreads \cup {Free} /\ adminRoleOf \in 0 .. madeDocs["admin_role"]
    /\ \A k \in DocKinds : madeDocs[k] \in Nat

\* One login at a time makes the first documents, although one that is done unlocks the
\* mutex twice: that lets two in together only when all is made.
OneBootstrapper ==
    /\ Cardinality(Making) <= 1
    /\ Cardinality(InSection) > 1 => completed

\* What a bootstrap makes is there once, whoever logs in how often; only a step that failed
\* makes the next login leave another admin role.
OnceUnlessFailed ==
    /\ \A k \in DocKinds \ {"admin_role", "collection"} : madeDocs[k] <= 1
    /\ madeDocs["admin_role"] <= 1 + bootFailed

\* After it there is an administrator with a role that exists, unless the environment names none.
CompletedHasAdmin ==
    completed => /\ (madeDocs["admin"] = 1 <=> environment # "none")
                 /\ (madeDocs["admin"] = 1 => adminRoleOf > 0)

\* Nobody is let in while the first login is still at it.
NobodyEarly == ~ answeredEarly

\* The mutex is free when no login runs.
BootLockReturned == (\A t \in BThreads : boot[t].pc = "idle") => bmutex = Free

\* One collection holds every document and no other exists, whatever was created; a restart
\* finds a page file but none of the documents: the welcome document is in the first life only.
OneCollectionPerLife ==
    /\ db_list_collections = {<<"default", "documents">>}
    /\ \A path \in BPaths : db_collection_exists(path) <=> path = <<"default", "documents">>
    /\ madeDocs["welcome"] = 1 <=> starts = 1

\* The first login: one at a time makes everything once, nobody is let in before, the
\* administrator has its role, the mutex comes back, and all of it again after a restart.
BootstrapSound ==
    /\ BootTypeOK /\ OneBootstrapper /\ OnceUnlessFailed /\ CompletedHasAdmin
    /\ NobodyEarly /\ BootLockReturned /\ OneCollectionPerLife
=============================================================================
