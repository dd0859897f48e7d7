----------------------------- MODULE WorkerPool -----------------------------
(***************************************************************************)
(* The bounded pool that five tests of the program are written with:       *)
(* Latency, Ports, blocking's run, unblock's Run and CheckBlacklists.  One *)
(* goroutine per job; a buffered channel as a semaphore; each goroutine    *)
(* writes the cell of its own job, counts itself under a mutex and reports *)
(* progress inside it; the caller waits for the group and sorts the cells. *)
(***************************************************************************)
EXTENDS Integers, FiniteSets

CONSTANTS
  N,       \* number of jobs
  Limit,   \* capacity of the semaphore: 4, 5, 6 or 8 in the code
  Values,  \* what a job can answer
  Cut,     \* the answer of a job whose context ended under it
  Rank     \* the key the caller sorts by; a cell nobody wrote has one too

Jobs == 1..N
None == "none"

ASSUME PoolAssumption ==
  /\ N \in Nat
  /\ Limit \in Nat \ {0}
  /\ Cut \in Values
  /\ None \notin Values
  /\ Rank \in [Values \cup {None} -> Nat]

VARIABLES
  judged,   \* the caller looks at ctx.Err() after Wait (blocking), never changed
  main,     \* the caller: "spawning", "waiting", "delivered" or "failed"
  next,     \* the job the caller spawns next
  wg,       \* counter of the WaitGroup
  pc,       \* where the goroutine of each job is
  sem,      \* tokens in the channel sem
  mu,       \* the job that holds the mutex, 0 for none
  seen,     \* what a goroutine read from done under the mutex
  done,     \* jobs counted
  said,     \* the last number given to status
  results,  \* the cells
  ended,    \* ctx.Err() # nil
  out       \* the jobs in the order of the caller's sorted answers

vars == <<judged, main, next, wg, pc, sem, mu, seen, done, said, results, ended, out>>

Place == {"none", "blocked", "working", "stored", "counting", "counted",
          "unlocked", "released", "gone"}

(* The goroutines between the send to sem and the receive from it. *)
InFlight == {j \in Jobs : pc[j] \in {"working", "stored", "counting", "counted", "unlocked"}}
Counting == {"counting", "counted"}

PoolTypeOK ==
  /\ judged \in BOOLEAN
  /\ main \in {"spawning", "waiting", "delivered", "failed"}
  /\ next \in 1..(N + 1)
  /\ wg \in Nat
  /\ pc \in [Jobs -> Place]
  /\ sem \in Nat
  /\ mu \in 0..N
  /\ seen \in [Jobs -> Nat]
  /\ done \in Nat /\ said \in Nat
  /\ results \in [Jobs -> Values \cup {None}]
  /\ ended \in BOOLEAN

Init ==
  /\ judged \in BOOLEAN
  /\ main = "spawning" /\ next = 1 /\ wg = 0
  /\ pc = [j \in Jobs |-> "none"]
  /\ sem = 0 /\ mu = 0
  /\ seen = [j \in Jobs |-> 0]
  /\ done = 0 /\ said = 0
  /\ results = [j \in Jobs |-> None]
  /\ ended \in BOOLEAN
  /\ out = <<>>

Go(j, from, to) == pc[j] = from /\ pc' = [pc EXCEPT ![j] = to]

AddInside(w) == w
WgAdd(w) == w + 1

(* wg.Add(1); go func... *)
Spawn ==
  /\ main = "spawning" /\ next <= N
  /\ wg' = WgAdd(wg)
  /\ Go(next, "none", "blocked")
  /\ next' = next + 1
  /\ UNCHANGED <<judged, main, sem, mu, seen, done, said, results, ended, out>>

Wait ==
  /\ main = "spawning" /\ next > N
  /\ main' = "waiting"
  /\ UNCHANGED <<judged, next, wg, pc, sem, mu, seen, done, said, results, ended, out>>

-----------------------------------------------------------------------------
(* The goroutine of job j *)

NoSemaphore == TRUE
SlotFree == sem < Limit

(* sem <- struct{}{} *)
Acquire(j) ==
  /\ SlotFree
  /\ Go(j, "blocked", "working")
  /\ sem' = sem + 1
  /\ UNCHANGED <<judged, main, next, wg, mu, seen, done, said, results, ended, out>>

(* The job itself, and results[i] = r.  Every job bounds its waiting by a  *)
(* timeout of its own; one whose context has ended may be cut short.       *)
Compute(j) ==
  /\ Go(j, "working", "stored")
  /\ \E v \in Values : (v = Cut => ended) /\ results' = [results EXCEPT ![j] = v]
  /\ UNCHANGED <<judged, main, next, wg, sem, mu, seen, done, said, ended, out>>

NoMutex == TRUE
MutexFree == mu = 0

Lock(j) ==
  /\ MutexFree
  /\ Go(j, "stored", "counting")
  /\ mu' = j
  /\ seen' = [seen EXCEPT ![j] = done]
  /\ UNCHANGED <<judged, main, next, wg, sem, done, said, results, ended, out>>

(* done++; status(..., done, ...) *)
Count(j) ==
  /\ Go(j, "counting", "counted")
  /\ done' = seen[j] + 1
  /\ said' = done'
  /\ UNCHANGED <<judged, main, next, wg, sem, mu, seen, results, ended, out>>

Unlock(j) ==
  /\ Go(j, "counted", "unlocked")
  /\ mu' = 0
  /\ UNCHANGED <<judged, main, next, wg, sem, seen, done, said, results, ended, out>>

KeepSlot(s) == s
GiveBack(s) == s - 1

(* The deferred calls, last in first out: <-sem, then wg.Done(). *)
Release(j) ==
  /\ Go(j, "unlocked", "released")
  /\ sem' = GiveBack(sem)
  /\ UNCHANGED <<judged, main, next, wg, mu, seen, done, said, results, ended, out>>

Exit(j) ==
  /\ Go(j, "released", "gone")
  /\ wg' = wg - 1
  /\ UNCHANGED <<judged, main, next, sem, mu, seen, done, said, results, ended, out>>

-----------------------------------------------------------------------------
(* The caller after wg.Wait() *)

(* The order of sort.SliceStable over the answers. *)
Ordered(p, answers) ==
  \A j, k \in Jobs : j < k =>
    \/ Rank[answers[p[j]]] < Rank[answers[p[k]]]
    \/ Rank[answers[p[j]]] = Rank[answers[p[k]]] /\ p[j] < p[k]

(* Blocking looks at its control hosts after this, on whole answers only. *)
CtxFailed == judged /\ ended

Deliver ==
  /\ main = "waiting" /\ wg = 0
  /\ ~CtxFailed
  /\ main' = "delivered"
  /\ out' \in [Jobs -> Jobs] /\ Ordered(out', results)
  /\ UNCHANGED <<judged, next, wg, pc, sem, mu, seen, done, said, results, ended>>

Fail ==
  /\ main = "waiting" /\ wg = 0
  /\ CtxFailed
  /\ main' = "failed"
  /\ UNCHANGED <<judged, next, wg, pc, sem, mu, seen, done, said, results, ended, out>>

EndContext ==
  /\ ~ended /\ main \in {"spawning", "waiting"}
  /\ ended' = TRUE
  /\ UNCHANGED <<judged, main, next, wg, pc, sem, mu, seen, done, said, results, out>>

Main == Spawn \/ Wait \/ Deliver \/ Fail

Goroutine(j) ==
  \/ Acquire(j) \/ Compute(j)
  \/ Lock(j) \/ Count(j) \/ Unlock(j)
  \/ Release(j) \/ Exit(j)

Next == Main \/ EndContext \/ \E j \in Jobs : Goroutine(j)

(* The scheduler runs every goroutine, and every job ends by its timeout.  *)
Fairness == WF_vars(Main) /\ \A j \in Jobs : WF_vars(Goroutine(j))

Spec == Init /\ [][Next]_vars
FairSpec == Spec /\ Fairness

-----------------------------------------------------------------------------
(* Properties *)

(* Never more jobs in flight than the semaphore has places, whatever the   *)
(* order of the deferred calls and however the jobs end.                   *)
Bounded == Cardinality(InFlight) <= Limit

(* When the caller reads the cells, no goroutine of the pool is left that  *)
(* could still write one, hold a place of the semaphore or the mutex.      *)
NoStragglers ==
  main \in {"delivered", "failed"} =>
    /\ \A j \in Jobs : pc[j] = "gone"
    /\ sem = 0 /\ mu = 0

Phase == IF main \in {"delivered", "failed"} THEN main ELSE "working"

(* The pool implements the promise of ParallelMap: progress told one by    *)
(* one and never ahead of the answers, every job's answer in the delivered *)
(* order, and from a judging caller no answer that a cancelled run cut.    *)
Promise == INSTANCE ParallelMap WITH known <- results, phase <- Phase
ImplementsMap == Promise!MapSpec

(* Every pool comes to an end: no goroutine waits for a place or for the   *)
(* mutex for ever, and the group is counted down to zero.                  *)
PoolEnds == Promise!MapEnds

=============================================================================
