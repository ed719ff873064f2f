----------------------------- MODULE MCRepoStore ----------------------------
(***************************************************************************)
(* Values for the constants of RepoStore.                                  *)
(***************************************************************************)
EXTENDS RepoStore, TLC

AllOps    == {"register", "update", "escalate", "reeval", "rule", "batch", "failure", "retry"}
AllFaults == {"write", "torn", "crash", "lose_index"}

\* Records that are rewritten, that a rebuild guesses from, and that are filed
\* under earlier days.
Fragile == {"items", "escalations", "failures"}

\* Some file could not be read, for the index or for the manifest.
ReadFailed ==
  \/ skipped # {} \/ \E new \in scan : new.missed # {}
  \/ \E t \in Unreadable, d \in 1 .. MaxDay :
       LET entry == manifest[t][d]
       IN  entry.status = "corrupted" \/ (entry.status = "ok" /\ entry.size = 0)

\* The states that are looked at: once a read has failed, those with one
\* request at a time and none during a rebuild, and without rules and batches.
Explored ==
  ReadFailed =>
    /\ Cardinality(tx \cup scan) + Cardinality({c \in Clients : pending[c] # {}}) <= 1
    /\ shards["rules"] = <<>> /\ shards["batches"] = <<>>

\* No constant names a client.
Interchangeable == Permutations(Clients)
=============================================================================
