--------------------------- MODULE MCAuthSessions ---------------------------
(***************************************************************************)
(* Values for the constants of AuthSessions.                               *)
(***************************************************************************)
EXTENDS AuthSessions, TLC

CONSTANTS long, short

Seed(id, name, password, role) == [id |-> id, name |-> name, password |-> password, role |-> role]
Admin    == Seed("u1", "admin", long, "admin")
Reviewer == Seed("u2", "reviewer", long, "urban_management_reviewer")

\* No list, the list of the deployment, another one in which the reviewer has
\* become an assessor, and lists Open refuses.
MCBootstraps ==
    {<<>>, <<Admin, Reviewer>>, <<[Reviewer EXCEPT !.role = "lighting_assessor"]>>,
     <<Admin, Admin>>, <<[Admin EXCEPT !.password = short]>>, <<[Admin EXCEPT !.role = "root"]>>}

Interchangeable == Permutations(Clients) \cup Permutations(Tokens)
=============================================================================
