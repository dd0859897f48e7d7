---------------------------- MODULE ParallelMap ----------------------------
(***************************************************************************)
(* What a bounded pool of the program promises its caller: every job is    *)
(* answered once, in whatever order; the progress line counts one by one   *)
(* and never ahead of the answers; the caller gets the answers of all jobs *)
(* in the order of Rank, equal ranks in the order the jobs are declared,   *)
(* or, from a pool that must not judge by half an answer, an error once    *)
(* the context has ended.                                                  *)
(***************************************************************************)
EXTENDS Naturals, FiniteSets

CONSTANTS  \* under the assumptions of the pool that instantiates the module
  N,       \* number of jobs
  Values,  \* what a job can answer
  Cut,     \* the answer of a job whose context ended under it
  Rank     \* the key the caller sorts by

Jobs == 1..N
None == "none"  \* no answer yet

VARIABLES
  judged, \* the caller must not judge by half an answer, never changed
  known,  \* the answers so far
  said,   \* the last number of the progress line
  phase,  \* "working", "delivered" or "failed"
  out     \* the jobs in the order the caller sees their answers

mapVars == <<judged, known, said, phase, out>>

Known == {j \in Jobs : known[j] # None}

(* The order of sort.SliceStable over the answers. *)
Ordered(p, answers) ==
  \A j, k \in Jobs : j < k =>
    \/ Rank[answers[p[j]]] < Rank[answers[p[k]]]
    \/ Rank[answers[p[j]]] = Rank[answers[p[k]]] /\ p[j] < p[k]

MapInit ==
  /\ judged \in BOOLEAN
  /\ known = [j \in Jobs |-> None]
  /\ said = 0
  /\ phase = "working"
  /\ out = <<>>

Answer ==
  /\ phase = "working"
  /\ \E j \in Jobs, v \in Values :
       known[j] = None /\ known' = [known EXCEPT ![j] = v]
  /\ UNCHANGED <<judged, said, phase, out>>

Tell ==
  /\ phase = "working"
  /\ said < Cardinality(Known)
  /\ said' = said + 1
  /\ UNCHANGED <<judged, known, phase, out>>

Deliver ==
  /\ phase = "working"
  /\ Known = Jobs /\ said = N
  /\ judged => \A j \in Jobs : known[j] # Cut
  /\ phase' = "delivered"
  /\ out' \in [Jobs -> Jobs] /\ Ordered(out', known)
  /\ UNCHANGED <<judged, known, said>>

Fail ==
  /\ phase = "working"
  /\ Known = Jobs /\ judged
  /\ phase' = "failed"
  /\ UNCHANGED <<judged, known, said, out>>

MapNext == Answer \/ Tell \/ Deliver \/ Fail

MapSpec == MapInit /\ [][MapNext]_mapVars

MapEnds == <>(phase # "working")

=============================================================================
