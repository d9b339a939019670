----------------------------- MODULE MCDatabase -----------------------------
(* Database on a small instance.                                           *)
EXTENDS Database

(* An empty database, and processes that all apply schema.sql or that all  *)
(* fail to find it.  (With APPLY_SCHEMA_ON_START off a process does what   *)
(* it does without the file, but for the connection it takes first.)       *)
MCInit == Init /\ apply /\ ~schema /\ file \in {Proc, {}}

MCSpec == MCInit /\ [][Next]_vars /\ Fairness
=============================================================================
