---------------------------- MODULE ServerConfig ----------------------------
(* Where a setting of the server comes from.  At startup the defaults are    *)
(* overwritten by some command-line options, then by the configuration file, *)
(* the environment (to which an environment file may add), and the other     *)
(* options; while the server runs, by the settings kept in the database.     *)
(* A behaviour follows one setting, `key`, through one choice of sources; of *)
(* its value only the source and whether it is a legal one are kept.         *)
EXTENDS Naturals, FiniteSets, SequencesExt

CONSTANTS
    Inputs,   \* the choices of sources, see InputShape
    MaxPuts   \* bound: updates of the settings in the database

\* cmd, env: the option and the variable of the key ("good": legal, "weak": a
\* value outside what the key allows, "bad": what the reader refuses);
\* envFile: the file of --env-file, discovered: those looked for without it;
\* file: the kind of the configuration file, with its section and entry.
InputShape == {"key", "cmd", "env", "envFile", "discovered", "file", "section", "entry"}
ASSUME ConfigAssumption ==
    /\ \A i \in Inputs : DOMAIN i = InputShape
    /\ MaxPuts \in Nat

VARIABLES
    input,    \* the sources of this behaviour
    server,   \* "down", "failed" or "up"
    value,    \* the setting: [from, good]
    saved,    \* ids of the documents in the configuration collection
    puts,     \* updates answered with success
    claimed   \* the last update said that its settings were applied

configVars == <<input, server, value, saved, puts, claimed>>

-----------------------------------------------------------------------------
(* The keys, by how they are read.                                         *)

\* Options that are kept until the end and options written at once.
Deferred == {"port", "host", "db_file", "log_file", "pid_file", "web_root", "log_level", "use_ssl",
             "cert_path", "jwt_secret", "verbose_mode", "js_enabled"}
Immediate == {"thread_pool_min", "socket_backlog"}
Variables == {"port", "host", "max_connections", "db_file", "log_file", "pid_file", "web_root", "log_level",
              "use_ssl", "cert_path", "jwt_secret", "verbose_mode", "thread_pool_min"}
KeyValues == {"port", "host", "max_connections", "db_file", "jwt_secret", "pid_file", "log_file", "log_level",
              "verbose_mode", "use_ssl", "cert_path", "js_enabled"}
JsonKeys == KeyValues \ {"js_enabled"}
FromDatabase == {"port", "host", "verbose_mode", "use_ssl", "cert_path", "thread_pool_min", "log_level",
                 "jwt_secret"}

\* An option is there for some keys; one that lacks its value ends the start.
ASSUME OptionsAssumption ==
    \A i \in Inputs :
        /\ i.cmd \in {"absent", "good", "weak"}
        /\ i.cmd # "absent" => i.key \in Deferred \cup Immediate

Default == [from |-> "default", good |-> TRUE]
From(source, grade) == [from |-> source, good |-> grade = "good"]

-----------------------------------------------------------------------------
(* The readers, in the order of init_config.                               *)

\* The secret of the environment if it is long enough, else a generated one.
load_jwt_secret_secure(environ) ==
    IF environ.grade = "good" THEN From(environ.from, "good") ELSE Default

config_init_defaults(i) ==
    IF i.key = "jwt_secret" THEN load_jwt_secret_secure([from |-> "env", grade |-> i.env]) ELSE Default

\* The loop over the options writes those of the pool, the cache and the like.
Options(i, v) ==
    IF i.key \in Immediate /\ i.cmd # "absent" THEN From("cmd", i.cmd) ELSE v

\* An entry of the right type whose value the reader takes.
JsonTakes(i) ==
    /\ i.key \in JsonKeys /\ i.section = "object"
    /\ \/ i.entry = "good"
       \/ i.entry = "weak" /\ i.key \notin {"max_connections", "log_level"}

\* Server section, level and verbosity fall back to the default, files stay.
ResetByJson(i) ==
    \/ i.key \in {"port", "host", "max_connections", "log_level", "verbose_mode"}
    \/ i.key = "use_ssl" /\ i.section # "absent"
    \/ i.key = "cert_path" /\ i.section = "other"

SecretAgain(i) == i.key = "jwt_secret" /\ (i.section # "object" \/ i.entry = "absent")

config_load_json(i, v) ==
    IF JsonTakes(i) THEN From("file", i.entry)
    ELSE IF ResetByJson(i) THEN Default
    ELSE IF SecretAgain(i) THEN load_jwt_secret_secure([from |-> "env", grade |-> i.env])
    ELSE v

config_load_keyvalue(i, v) ==
    IF i.key \in KeyValues /\ i.entry # "absent" /\ ~ (i.key = "log_level" /\ i.entry # "good")
    THEN From("file", i.entry) ELSE v

\* By the extension of the file's name.
config_load(i, v) ==
    IF i.file = "json" THEN config_load_json(i, v)
    ELSE IF i.file = "conf" THEN config_load_keyvalue(i, v) ELSE v

\* Mutant: what a file says replaces what the environment has.
load_env_file_over(environ, content) ==
    IF content = "has" THEN [from |-> "envfile", grade |-> "good"] ELSE environ

\* A line of the file sets a variable the environment does not have.
load_env_file(environ, content) ==
    IF content = "has" /\ environ.grade = "absent" THEN [from |-> "envfile", grade |-> "good"] ELSE environ

\* The file asked for, or else the first of those looked for that is there.
Environ(i) ==
    LET process == [from |-> "env", grade |-> i.env]
        there == SelectSeq(i.discovered, LAMBDA c : c # "none") IN
    IF i.envFile # "none" THEN load_env_file(process, i.envFile)
    ELSE IF there = <<>> THEN process ELSE load_env_file(process, Head(there))

\* Every variable that is set is taken, a level only if it is known, a secret
\* only if it is not too short.
load_environment_config(i, v, e) ==
    IF \/ i.key \notin Variables \/ e.grade = "absent"
       \/ i.key = "log_level" /\ e.grade # "good"
       \/ i.key = "jwt_secret" /\ e.grade = "bad"
    THEN v ELSE From(e.from, e.grade)

\* The options kept until now.  An unknown level is the default level, and
\* without --foreground the verbosity is reset.
Overrides(i, v) ==
    IF (i.key = "verbose_mode" /\ i.cmd = "absent") \/ (i.key = "log_level" /\ i.cmd = "weak") THEN Default
    ELSE IF i.key \in Deferred /\ i.cmd # "absent" THEN From("cmd", i.cmd)
    ELSE v

\* What ends the start: a file that cannot be read or parsed, a port given as
\* option that is none.
Rejected(i) ==
    \/ i.file \in {"missing", "broken"} \/ i.envFile = "missing"
    \/ i.key = "port" /\ i.cmd = "weak"

Configured(i) ==
    Overrides(i, load_environment_config(i, config_load(i, Options(i, config_init_defaults(i))), Environ(i)))

-----------------------------------------------------------------------------
(* The settings in the database.                                           *)

CONFIG_DOCUMENT_ID == 0
\* storage_insert_document gives every document an id of its own.
InsertedId == 1 + Cardinality(saved)

\* The document is looked for under its fixed id; a known one is replaced.
config_save_to_database ==
    saved' = IF CONFIG_DOCUMENT_ID \in saved THEN saved ELSE saved \cup {InsertedId}

\* Without the document nothing changes, and that is no error.
config_apply_database_settings(ids, v) ==
    IF CONFIG_DOCUMENT_ID \in ids /\ input.key \in FromDatabase THEN From("db", "good") ELSE v

-----------------------------------------------------------------------------
ConfigInit ==
    /\ input \in Inputs /\ server = "down" /\ value = Default
    /\ saved = {} /\ puts = 0 /\ claimed = FALSE

\* The server starts with the sources there are and what the database holds.
init_config ==
    /\ server = "down"
    /\ server' = IF Rejected(input) THEN "failed" ELSE "up"
    /\ value' = IF Rejected(input) THEN value
                ELSE config_apply_database_settings(saved, Configured(input))
    /\ UNCHANGED <<input, saved, puts, claimed>>

\* PUT of the settings by an administrator: stored, then applied.
api_handle_config_update ==
    /\ server = "up" /\ puts < MaxPuts
    /\ config_save_to_database
    /\ value' = config_apply_database_settings(saved', value)
    /\ puts' = puts + 1 /\ claimed' = TRUE
    /\ UNCHANGED <<input, server>>

api_handle_config_reload ==
    /\ server = "up"
    /\ value' = config_apply_database_settings(saved, value)
    /\ UNCHANGED <<input, server, saved, puts, claimed>>

Restart ==
    /\ server = "up" /\ server' = "down" /\ value' = Default
    /\ UNCHANGED <<input, saved, puts, claimed>>

ConfigNext == init_config \/ api_handle_config_update \/ api_handle_config_reload \/ Restart

ConfigSpec == ConfigInit /\ [][ConfigNext]_configVars

-----------------------------------------------------------------------------
(* Properties *)

Sources == {"default", "cmd", "env", "envfile", "file", "db"}

\* Type correctness of the setting and of what the database holds.
ConfigTypeOK ==
    /\ server \in {"down", "failed", "up"}
    /\ value.from \in Sources /\ value.good \in BOOLEAN
    /\ saved \subseteq 0 .. MaxPuts /\ puts \in 0 .. MaxPuts /\ claimed \in BOOLEAN

\* The environment as the documentation has it: variables, then files.
FileHas(i) ==
    LET there == SelectSeq(i.discovered, LAMBDA c : c # "none") IN
    IF i.envFile # "none" THEN i.envFile = "has" ELSE there # <<>> /\ Head(there) = "has"
Usable(i, grade) ==
    grade # "absent" /\ (i.key = "log_level" => grade = "good") /\ (i.key = "jwt_secret" => grade # "bad")
EnvironmentSays(i) ==
    i.key \in Variables /\ (Usable(i, i.env) \/ (i.env = "absent" /\ FileHas(i)))
FileSays(i) ==
    \/ i.file = "json" /\ JsonTakes(i)
    \/ i.file = "conf" /\ i.key \in KeyValues /\ i.entry # "absent" /\ (i.key = "log_level" => i.entry = "good")

\* The documented priority: options, then environment, then file, then default.
Documented(i) ==
    IF i.cmd # "absent" THEN "cmd"
    ELSE IF EnvironmentSays(i) THEN (IF i.env # "absent" THEN "env" ELSE "envfile")
    ELSE IF FileSays(i) THEN "file" ELSE "default"

\* The disagreements: an option of the pool or the cache loses to a variable,
\* an unknown level counts as an option, verbosity is only ever an option.
Disagrees(i) ==
    \/ i.key \in Immediate /\ i.cmd # "absent" /\ EnvironmentSays(i)
    \/ i.key = "log_level" /\ i.cmd = "weak"
    \/ i.key = "verbose_mode" /\ i.cmd = "absent" /\ (EnvironmentSays(i) \/ FileSays(i))

\* A running server has each setting from the source of the documented
\* priority, except exactly where the order of the readers disagrees with it.
SourceIsDocumented ==
    server = "up" => (value.from = Documented(input) <=> ~ Disagrees(input))

\* A port that is none was never an option: only the variable and the file are
\* taken unchecked.
PortCheckedAsOption ==
    server = "up" /\ input.key = "port" /\ ~ value.good => value.from \in {"env", "file"}

\* The settings in the database are never found again: no value comes from
\* there, though the update claims so, and each update adds a document.
DatabaseNeverApplies ==
    /\ value.from # "db"
    /\ Cardinality(saved) = puts
    /\ (claimed <=> puts > 0)

\* The settings: each from its documented source but for the listed disagreements,
\* a bad port never from an option, and nothing from the database.
ConfigSound ==
    /\ ConfigTypeOK /\ SourceIsDocumented /\ PortCheckedAsOption /\ DatabaseNeverApplies
=============================================================================
