------------------------- MODULE WorkerPool_proofs --------------------------
(***************************************************************************)
(* The pool keeps its bound and the promise of ParallelMap for every       *)
(* number of jobs, every capacity and every interleaving.                  *)
(***************************************************************************)
EXTENDS WorkerPool, FiniteSetTheorems, TLAPS

Alive   == {j \in Jobs : pc[j] \notin {"none", "gone"}}
Counted == {j \in Jobs : pc[j] \in {"counted", "unlocked", "released", "gone"}}

(* The two counters of the pool count what they are meant to. *)
Counters ==
  /\ sem = Cardinality(InFlight) /\ sem <= Limit
  /\ wg = Cardinality(Alive)

(* Jobs are spawned in order, and the caller waits for all of them. *)
Spawned ==
  /\ main # "spawning" => next = N + 1
  /\ \A j \in Jobs : pc[j] = "none" <=> next <= j
  /\ main \in {"delivered", "failed"} => Alive = {}

(* The mutex is held exactly while a goroutine is counting, so what it     *)
(* read from done is still there when it writes.                           *)
Mutex ==
  /\ \A j \in Jobs : pc[j] \in Counting <=> mu = j
  /\ \A j \in Jobs : pc[j] = "counting" => seen[j] = done
  /\ done = Cardinality(Counted) /\ said = done

Cells ==
  \A j \in Jobs :
    /\ results[j] = None <=> pc[j] \in {"none", "blocked", "working"}
    /\ results[j] = Cut => ended

PoolInv == PoolTypeOK /\ Counters /\ Spawned /\ Mutex /\ Cells

LEMMA JobsFinite ==
  ASSUME NEW S \in SUBSET Jobs
  PROVE  IsFiniteSet(S) /\ Cardinality(S) \in Nat
<1>1. IsFiniteSet(Jobs)
  BY PoolAssumption, FS_Interval DEF Jobs
<1> QED BY <1>1, FS_Subset, FS_CardinalityType

LEMMA Sets ==
  /\ IsFiniteSet(InFlight) /\ Cardinality(InFlight) \in Nat
  /\ IsFiniteSet(Alive) /\ Cardinality(Alive) \in Nat
  /\ IsFiniteSet(Counted) /\ Cardinality(Counted) \in Nat
<1>1. InFlight \in SUBSET Jobs /\ Alive \in SUBSET Jobs /\ Counted \in SUBSET Jobs
  BY DEF InFlight, Alive, Counted
<1> QED BY <1>1, JobsFinite

LEMMA PoolInit == Init => PoolInv
<1> SUFFICES ASSUME Init PROVE PoolInv
  OBVIOUS
<1> USE PoolAssumption DEF Init
<1>1. PoolTypeOK
  BY DEF PoolTypeOK, Place, Jobs
<1>2. InFlight = {} /\ Alive = {} /\ Counted = {}
  BY DEF InFlight, Alive, Counted
<1>3. Cardinality({}) = 0
  BY FS_EmptySet
<1>4. Counters
  BY <1>2, <1>3 DEF Counters
<1>5. Spawned /\ Mutex /\ Cells
  BY <1>2, <1>3 DEF Spawned, Mutex, Cells, Counting, Jobs
<1> QED BY <1>1, <1>4, <1>5 DEF PoolInv

LEMMA SpawnStep ==
  ASSUME PoolInv, Spawn
  PROVE  PoolInv'
<1> USE PoolAssumption DEF PoolInv, Spawn, Go, WgAdd
<1>1. next \in Jobs
  BY DEF PoolTypeOK, Jobs
<1>2. PoolTypeOK'
  BY <1>1 DEF PoolTypeOK, Place, Jobs
<1>3. InFlight' = InFlight /\ Counted' = Counted /\ Alive' = Alive \cup {next}
      /\ next \notin Alive
  BY <1>1 DEF InFlight, Counted, Alive, PoolTypeOK
<1>4. Counters'
  BY <1>3, Sets, FS_AddElement DEF Counters
<1>5. Spawned'
  BY <1>1 DEF Spawned, PoolTypeOK, Jobs
<1>6. Mutex' /\ Cells'
  BY <1>1, <1>3 DEF Mutex, Cells, Counting, PoolTypeOK
<1> QED BY <1>2, <1>4, <1>5, <1>6

LEMMA WaitStep ==
  ASSUME PoolInv, Wait
  PROVE  PoolInv'
<1> USE PoolAssumption DEF PoolInv, Wait
<1>1. PoolTypeOK' /\ InFlight' = InFlight /\ Counted' = Counted /\ Alive' = Alive
  BY DEF PoolTypeOK, InFlight, Counted, Alive
<1>2. Spawned'
  BY <1>1 DEF Spawned, PoolTypeOK
<1> QED BY <1>1, <1>2 DEF Counters, Mutex, Cells

LEMMA AcquireStep ==
  ASSUME PoolInv, NEW j \in Jobs, Acquire(j)
  PROVE  PoolInv'
<1> USE PoolAssumption DEF PoolInv, Acquire, Go
<1>1. PoolTypeOK'
  BY DEF PoolTypeOK, Place
<1>2. InFlight' = InFlight \cup {j} /\ j \notin InFlight
      /\ Counted' = Counted /\ Alive' = Alive
  BY DEF InFlight, Counted, Alive, PoolTypeOK
<1>3. Counters'
  <2>1. Cardinality(InFlight') = Cardinality(InFlight) + 1
    BY <1>2, Sets, FS_AddElement
  <2>2. sem < Limit /\ sem \in Nat /\ Limit \in Nat
    BY DEF SlotFree, PoolTypeOK
  <2> QED BY <1>2, <2>1, <2>2 DEF Counters
<1>4. Spawned' /\ Mutex' /\ Cells'
  BY <1>2 DEF Spawned, Mutex, Cells, Counting, PoolTypeOK
<1> QED BY <1>1, <1>3, <1>4

LEMMA ComputeStep ==
  ASSUME PoolInv, NEW j \in Jobs, Compute(j)
  PROVE  PoolInv'
<1> USE PoolAssumption DEF PoolInv, Compute, Go
<1>1. PoolTypeOK'
  BY DEF PoolTypeOK, Place
<1>2. InFlight' = InFlight /\ Counted' = Counted /\ Alive' = Alive
  BY DEF InFlight, Counted, Alive, PoolTypeOK
<1>3. Counters' /\ Spawned' /\ Mutex'
  BY <1>2 DEF Counters, Spawned, Mutex, Counting, PoolTypeOK
<1>4. Cells'
  BY DEF Cells, PoolTypeOK
<1> QED BY <1>1, <1>3, <1>4

LEMMA LockStep ==
  ASSUME PoolInv, NEW j \in Jobs, Lock(j)
  PROVE  PoolInv'
<1> USE PoolAssumption DEF PoolInv, Lock, Go
<1>1. PoolTypeOK'
  BY DEF PoolTypeOK, Place, Jobs
<1>2. InFlight' = InFlight /\ Counted' = Counted /\ Alive' = Alive
  BY DEF InFlight, Counted, Alive, PoolTypeOK
<1>3. Counters' /\ Spawned' /\ Cells'
  BY <1>2 DEF Counters, Spawned, Cells, PoolTypeOK
<1>4. Mutex'
  BY <1>2 DEF Mutex, MutexFree, Counting, PoolTypeOK, Jobs
<1> QED BY <1>1, <1>3, <1>4

LEMMA CountStep ==
  ASSUME PoolInv, NEW j \in Jobs, Count(j)
  PROVE  PoolInv'
<1> USE PoolAssumption DEF PoolInv, Count, Go
<1>1. PoolTypeOK'
  BY DEF PoolTypeOK, Place
<1>2. InFlight' = InFlight /\ Counted' = Counted \cup {j} /\ j \notin Counted
      /\ Alive' = Alive
  BY DEF InFlight, Counted, Alive, PoolTypeOK
<1>3. Counters' /\ Spawned' /\ Cells'
  BY <1>2 DEF Counters, Spawned, Cells, PoolTypeOK
<1>4. (done = Cardinality(Counted) /\ said = done)'
  BY <1>2, Sets, FS_AddElement DEF Mutex
<1>5. Mutex'
  BY <1>4 DEF Mutex, Counting, PoolTypeOK
<1> QED BY <1>1, <1>3, <1>5

LEMMA UnlockStep ==
  ASSUME PoolInv, NEW j \in Jobs, Unlock(j)
  PROVE  PoolInv'
<1> USE PoolAssumption DEF PoolInv, Unlock, Go
<1>1. PoolTypeOK'
  BY DEF PoolTypeOK, Place
<1>2. InFlight' = InFlight /\ Counted' = Counted /\ Alive' = Alive
  BY DEF InFlight, Counted, Alive, PoolTypeOK
<1>3. Counters' /\ Spawned' /\ Cells'
  BY <1>2 DEF Counters, Spawned, Cells, PoolTypeOK
<1>4. Mutex'
  BY <1>2 DEF Mutex, Counting, PoolTypeOK, Jobs
<1> QED BY <1>1, <1>3, <1>4

LEMMA ReleaseStep ==
  ASSUME PoolInv, NEW j \in Jobs, Release(j)
  PROVE  PoolInv'
<1> USE PoolAssumption DEF PoolInv, Release, Go, GiveBack
<1>1. InFlight' = InFlight \ {j} /\ j \in InFlight
      /\ Counted' = Counted /\ Alive' = Alive
  BY DEF InFlight, Counted, Alive, PoolTypeOK
<1>2. sem' = Cardinality(InFlight') /\ sem' <= Limit /\ sem' \in Nat
  <2>1. Cardinality(InFlight') = Cardinality(InFlight) - 1
    BY <1>1, Sets, FS_RemoveElement
  <2>2. Cardinality(InFlight) # 0
    BY <1>1, Sets, FS_EmptySet
  <2> QED BY <2>1, <2>2, Sets DEF Counters
<1>3. PoolTypeOK'
  BY <1>2 DEF PoolTypeOK, Place
<1>4. Counters' /\ Spawned' /\ Mutex' /\ Cells'
  BY <1>1, <1>2 DEF Counters, Spawned, Mutex, Cells, Counting, PoolTypeOK
<1> QED BY <1>3, <1>4

LEMMA ExitStep ==
  ASSUME PoolInv, NEW j \in Jobs, Exit(j)
  PROVE  PoolInv'
<1> USE PoolAssumption DEF PoolInv, Exit, Go
<1>1. InFlight' = InFlight /\ Counted' = Counted
      /\ Alive' = Alive \ {j} /\ j \in Alive
  BY DEF InFlight, Counted, Alive, PoolTypeOK
<1>2. wg' = Cardinality(Alive') /\ wg' \in Nat
  <2>1. Cardinality(Alive') = Cardinality(Alive) - 1
    BY <1>1, Sets, FS_RemoveElement
  <2>2. Cardinality(Alive) # 0
    BY <1>1, Sets, FS_EmptySet
  <2> QED BY <2>1, <2>2, Sets DEF Counters
<1>3. PoolTypeOK'
  BY <1>2 DEF PoolTypeOK, Place
<1>4. Counters' /\ Spawned' /\ Mutex' /\ Cells'
  BY <1>1, <1>2 DEF Counters, Spawned, Mutex, Cells, Counting, PoolTypeOK
<1> QED BY <1>3, <1>4

LEMMA NobodyLeft ==
  ASSUME PoolInv, wg = 0, main = "waiting"
  PROVE  Alive = {} /\ \A j \in Jobs : pc[j] = "gone"
<1>1. Alive = {}
  BY Sets, FS_EmptySet DEF PoolInv, Counters
<1>2. \A j \in Jobs : pc[j] # "none"
  BY PoolAssumption DEF PoolInv, Spawned, PoolTypeOK, Jobs
<1> QED BY <1>1, <1>2 DEF Alive

LEMMA CallerStep ==
  ASSUME PoolInv, Deliver \/ Fail
  PROVE  PoolInv'
<1>1. /\ main = "waiting" /\ wg = 0 /\ main' \in {"delivered", "failed"}
      /\ UNCHANGED <<judged, next, wg, pc, sem, mu, seen, done, said, results, ended>>
  BY DEF Deliver, Fail
<1>2. PoolTypeOK' /\ InFlight' = InFlight /\ Counted' = Counted /\ Alive' = Alive
  BY <1>1 DEF PoolInv, PoolTypeOK, InFlight, Counted, Alive
<1>3. Alive = {}
  BY <1>1, NobodyLeft
<1> QED BY <1>1, <1>2, <1>3 DEF PoolInv, Counters, Spawned, Mutex, Cells

LEMMA EndContextStep ==
  ASSUME PoolInv, EndContext
  PROVE  PoolInv'
<1> USE DEF PoolInv, EndContext
<1>1. PoolTypeOK' /\ InFlight' = InFlight /\ Counted' = Counted /\ Alive' = Alive
  BY DEF PoolTypeOK, InFlight, Counted, Alive
<1> QED BY <1>1 DEF Counters, Spawned, Mutex, Cells

LEMMA PoolStep == PoolInv /\ [Next]_vars => PoolInv'
<1> SUFFICES ASSUME PoolInv, [Next]_vars PROVE PoolInv'
  OBVIOUS
<1>1. CASE Main
  BY <1>1, SpawnStep, WaitStep, CallerStep DEF Main
<1>2. CASE EndContext
  BY <1>2, EndContextStep
<1>3. ASSUME NEW j \in Jobs, Goroutine(j) PROVE PoolInv'
  BY <1>3, AcquireStep, ComputeStep, LockStep, CountStep, UnlockStep,
     ReleaseStep, ExitStep DEF Goroutine
<1>4. CASE UNCHANGED vars
  BY <1>4 DEF vars, PoolInv, PoolTypeOK, InFlight, Counted, Alive,
              Counters, Spawned, Mutex, Cells
<1> QED BY <1>1, <1>2, <1>3, <1>4 DEF Next

THEOREM PoolInvariant == Spec => []PoolInv
<1> QED BY PoolInit, PoolStep, PTL DEF Spec

(* Never more jobs in flight than the semaphore has places, for every      *)
(* number of jobs and every capacity.                                      *)
THEOREM PoolIsBounded == Spec => []Bounded
<1>1. PoolInv => Bounded
  BY DEF PoolInv, Counters, Bounded
<1> QED BY <1>1, PoolInvariant, PTL

(* When the caller reads the cells no goroutine of the pool is left, and   *)
(* the semaphore and the mutex are free.                                   *)
THEOREM PoolLeavesNobody == Spec => []NoStragglers
<1>1. PoolInv => NoStragglers
  <2> SUFFICES ASSUME PoolInv, main \in {"delivered", "failed"}
               PROVE  (\A j \in Jobs : pc[j] = "gone") /\ sem = 0 /\ mu = 0
    BY DEF NoStragglers
  <2> USE PoolAssumption
  <2>1. \A j \in Jobs : pc[j] = "gone"
    <3>1. next = N + 1 /\ Alive = {}
      BY DEF PoolInv, Spawned
    <3>2. \A j \in Jobs : pc[j] # "none"
      BY <3>1 DEF PoolInv, Spawned, Jobs
    <3> QED BY <3>1, <3>2 DEF Alive
  <2>2. InFlight = {}
    BY <2>1 DEF InFlight
  <2>3. sem = 0
    BY <2>2, FS_EmptySet DEF PoolInv, Counters
  <2>4. mu = 0
    <3>1. mu \in 0..N /\ \A j \in Jobs : mu # j
      BY <2>1 DEF PoolInv, Mutex, Counting, PoolTypeOK
    <3> QED BY <3>1 DEF Jobs
  <2> QED BY <2>1, <2>3, <2>4
<1> QED BY <1>1, PoolInvariant, PTL

-----------------------------------------------------------------------------
(* The pool implements ParallelMap. *)

LEMMA MapInitially == Init => Promise!MapInit
BY DEF Init, Promise!MapInit, Phase, Jobs, Promise!Jobs, None, Promise!None

(* Steps the caller of the pool does not see. *)
LEMMA HiddenStep ==
  ASSUME UNCHANGED <<judged, said, results, out>>, Phase' = Phase
  PROVE  UNCHANGED Promise!mapVars
BY DEF Promise!mapVars

LEMMA ComputeAnswers ==
  ASSUME PoolInv, NEW j \in Jobs, Compute(j)
  PROVE  Promise!Answer
<1>1. PICK v \in Values : results' = [results EXCEPT ![j] = v]
  BY DEF Compute
<1>2. results[j] = None
  BY DEF Compute, Go, PoolInv, Cells
<1>3. j \in Alive
  BY DEF Compute, Go, Alive
<1>4. Phase = "working" /\ Phase' = "working"
  BY <1>3 DEF PoolInv, Spawned, Phase, Compute
<1> QED BY <1>1, <1>2, <1>4 DEF Promise!Answer, Compute, None, Promise!None, Jobs, Promise!Jobs

LEMMA SameCardinality == \A S : Promise!Cardinality(S) = Cardinality(S)
BY Zenon DEF Cardinality, Promise!Cardinality

LEMMA CountTells ==
  ASSUME PoolInv, NEW j \in Jobs, Count(j)
  PROVE  Promise!Tell
<1>1. pc[j] = "counting" /\ j \in Alive /\ j \notin Counted
  BY DEF Count, Go, Alive, Counted
<1>2. Phase = "working" /\ Phase' = "working"
  BY <1>1 DEF PoolInv, Spawned, Phase, Count
<1>3. said = Cardinality(Counted) /\ said' = said + 1
  BY <1>1 DEF PoolInv, Mutex, Count
<1>4. Promise!Known \in SUBSET Jobs
  BY DEF Promise!Known, Promise!Jobs, Jobs
<1>5. Counted \cup {j} \in SUBSET Promise!Known
  BY <1>1 DEF PoolInv, Cells, Counted, Promise!Known, Promise!Jobs, Jobs, None, Promise!None
<1>6. Cardinality(Counted \cup {j}) = Cardinality(Counted) + 1
  BY <1>1, Sets, FS_AddElement
<1>7. /\ IsFiniteSet(Promise!Known) /\ Cardinality(Promise!Known) \in Nat
      /\ Cardinality(Counted \cup {j}) <= Cardinality(Promise!Known)
  BY <1>4, <1>5, JobsFinite, FS_Subset
<1>8. said < Cardinality(Promise!Known)
  BY <1>3, <1>6, <1>7, Sets
<1> QED BY <1>2, <1>3, <1>8, SameCardinality DEF Promise!Tell, Count

LEMMA AllKnown ==
  ASSUME PoolInv, wg = 0, main = "waiting"
  PROVE  Promise!Known = Promise!Jobs /\ said = N
<1>1. \A j \in Jobs : pc[j] = "gone"
  BY NobodyLeft
<1>2. Promise!Known = Promise!Jobs
  BY <1>1 DEF PoolInv, Cells, Promise!Known, Promise!Jobs, Jobs, None, Promise!None
<1>3. Counted = 1..N
  BY <1>1 DEF Counted, Jobs
<1>4. Cardinality(1..N) = N
  BY PoolAssumption, FS_Interval
<1> QED BY <1>2, <1>3, <1>4 DEF PoolInv, Mutex

LEMMA DeliverDelivers ==
  ASSUME PoolInv, Deliver
  PROVE  Promise!Deliver
<1>1. Promise!Known = Promise!Jobs /\ said = N
  BY AllKnown DEF Deliver
<1>2. judged => \A j \in Promise!Jobs : results[j] # Cut
  BY DEF Deliver, CtxFailed, PoolInv, Cells, Jobs, Promise!Jobs
<1>3. Phase = "working" /\ Phase' = "delivered"
  BY DEF Deliver, Phase
<1>4. out' \in [Promise!Jobs -> Promise!Jobs] /\ Promise!Ordered(out', results)
  BY DEF Deliver, Ordered, Promise!Ordered, Jobs, Promise!Jobs
<1> QED BY <1>1, <1>2, <1>3, <1>4 DEF Promise!Deliver, Deliver

LEMMA FailFails ==
  ASSUME PoolInv, Fail
  PROVE  Promise!Fail
<1>1. Promise!Known = Promise!Jobs
  BY AllKnown DEF Fail
<1>2. judged /\ Phase = "working" /\ Phase' = "failed"
  BY DEF Fail, CtxFailed, Phase
<1> QED BY <1>1, <1>2 DEF Promise!Fail, Fail

LEMMA MapStep == PoolInv /\ [Next]_vars => [Promise!MapNext]_(Promise!mapVars)
<1> SUFFICES ASSUME PoolInv, [Next]_vars
             PROVE  Promise!MapNext \/ UNCHANGED Promise!mapVars
  OBVIOUS
<1>1. CASE Spawn \/ Wait \/ EndContext \/ UNCHANGED vars
  BY <1>1, HiddenStep DEF Spawn, Wait, EndContext, Phase, vars
<1>2. CASE Deliver \/ Fail
  BY <1>2, DeliverDelivers, FailFails DEF Promise!MapNext
<1>3. ASSUME NEW j \in Jobs, Goroutine(j)
      PROVE  Promise!MapNext \/ UNCHANGED Promise!mapVars
  <2>1. CASE Compute(j)
    BY <2>1, ComputeAnswers DEF Promise!MapNext
  <2>2. CASE Count(j)
    BY <2>2, CountTells DEF Promise!MapNext
  <2>3. CASE Acquire(j) \/ Lock(j) \/ Unlock(j) \/ Release(j) \/ Exit(j)
    BY <2>3, HiddenStep DEF Acquire, Lock, Unlock, Release, Exit, Phase
  <2> QED BY <1>3, <2>1, <2>2, <2>3 DEF Goroutine
<1> QED BY <1>1, <1>2, <1>3 DEF Next, Main

(* The pool implements the abstract parallel map for every number of jobs, *)
(* every capacity, every set of answers and every rank.                    *)
THEOREM PoolImplementsMap == Spec => ImplementsMap
<1>1. Spec => []PoolInv
  BY PoolInvariant
<1> QED BY <1>1, MapInitially, MapStep, PTL DEF Spec, ImplementsMap, Promise!MapSpec

=============================================================================
