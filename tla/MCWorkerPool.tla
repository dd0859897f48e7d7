---------------------------- MODULE MCWorkerPool ----------------------------
(* Three jobs on two places; answers ranked like the statuses of a DNSBL:   *)
(* a hit before a cut answer before a clean one.                           *)
EXTENDS WorkerPool

MCRank == [v \in {"listed", "cut", "clean", None} |->
             CASE v = "listed" -> 0 [] v = "cut" -> 2 [] OTHER -> 3]

=============================================================================
