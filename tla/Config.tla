------------------------------- MODULE Config -------------------------------
(***************************************************************************)
(* internal/config: the configuration a process starts with.  Durations    *)
(* are numbers of seconds, a text is empty or not, and texts no decision   *)
(* reads (log level and format) are left out.                              *)
(***************************************************************************)
EXTENDS Integers

CONSTANT Unparsable  \* an environment value that is no number or duration

Defaults ==
    [port |-> 49820, shutdown_timeout |-> 15,
     data_dir |-> "set", shard_max_size |-> 1048576, sync_on_write |-> TRUE,
     escalation_interval |-> 30, reconciliation_interval |-> 300, reeval_interval |-> 60,
     max_retries |-> 3, base_backoff |-> 1, task_timeout |-> 10,
     default_deadline |-> 259200, escalation_deadline_extension |-> 172800,
     max_escalation_level |-> 3,
     store_path |-> "set", session_ttl |-> 28800, required |-> TRUE,
     bootstrap_ok |-> TRUE]

Fields == DOMAIN Defaults

\* The fields the file gives replace the defaults; bootstrap users are none of them.
Unmarshal(file) == [f \in Fields |-> IF f \in DOMAIN file \ {"bootstrap_ok"} THEN file[f] ELSE Defaults[f]]

\* A variable that is set replaces the field.  One that cannot be parsed is
\* ignored, except that whatever is not "true" switches sync_on_write off and
\* a broken list of bootstrap users is remembered as an error.  Auth.Required
\* has no variable.
applyEnvOverrides(cfg, env) ==
    [f \in Fields |->
        IF f \notin DOMAIN env \ {"required"} THEN cfg[f]
        ELSE IF env[f] # Unparsable THEN env[f]
        ELSE IF f \in {"sync_on_write", "bootstrap_ok"} THEN FALSE ELSE cfg[f]]

Empty == ""

\* What Validate accepts.  Intervals, backoff and task timeout are not looked at.
Validate(cfg) ==
    /\ cfg.port > 0 /\ cfg.port <= 65535
    /\ cfg.data_dir # Empty
    /\ cfg.max_escalation_level >= 1
    /\ cfg.default_deadline > 0
    /\ cfg.escalation_deadline_extension > 0
    /\ cfg.max_retries >= 1
    /\ cfg.store_path # Empty /\ cfg.session_ttl > 0
    /\ cfg.bootstrap_ok

\* Deliberate fault: the file is validated, the environment is not.
LoadsFileFirst(file, env) ==
    IF Validate(Unmarshal(file)) THEN {applyEnvOverrides(Unmarshal(file), env)} ELSE {}

\* The configuration Load returns for a file and an environment, if any.
Loads(file, env) == {cfg \in {applyEnvOverrides(Unmarshal(file), env)} : Validate(cfg)}
=============================================================================
