---------------------------- MODULE MCTaskRunner ----------------------------
(***************************************************************************)
(* Values for the constants of TaskRunner.                                 *)
(***************************************************************************)
EXTENDS TaskRunner

File(retries, backoff, timeout) ==
    [max_retries |-> retries, base_backoff |-> backoff, task_timeout |-> timeout]

\* Three attempts whose waits of 1 and 2 seconds fit into the timeout or just
\* do not, a single attempt, and none, which Load refuses.
MCFiles == {File(3, 1, 4), File(3, 1, 3), File(1, 1, 1), File(0, 1, 1)}

\* Nothing set; a value that parses and is refused, one that does not parse,
\* and an interval no ticker accepts.
MCEnvs ==
    {[x \in {} |-> 0], [max_retries |-> 0], [max_escalation_level |-> 0],
     [task_timeout |-> Unparsable], [bootstrap_ok |-> Unparsable], [reeval_interval |-> 0]}
=============================================================================
