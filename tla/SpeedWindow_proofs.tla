------------------------- MODULE SpeedWindow_proofs -------------------------
(***************************************************************************)
(* What a measuring window reports, for every number of streams, every     *)
(* length, budget and server, and every moment at which the context ends,  *)
(* the timer fires or the wall clock is set back.                          *)
(***************************************************************************)
EXTENDS SpeedWindow, FiniteSetTheorems, WellFoundedInduction, TLAPS

LEMMA Constants ==
  /\ Streams # {} /\ IsFiniteSet(Streams)
  /\ Warmup \in Nat /\ Length \in Nat /\ Grace \in Nat /\ Chunk \in Nat /\ Least \in Nat
  /\ Warmup > 0 /\ Length > 0 /\ Grace > 0 /\ Chunk > 0 /\ Least > 0
  /\ PerStream \in Nat /\ Jump \in Nat
BY WindowAssumption DEF WindowAssumption

-----------------------------------------------------------------------------
(* The type of the state *)

Places == {"loop", "transfer", "leave", "gone"}

Clocks ==
  /\ now \in Nat /\ back \in Nat
  /\ warmNanos \in Int /\ warmAt \in Int

Counters ==
  /\ moved \in Nat /\ adrift \in Nat /\ missed \in Nat /\ warmBytes \in Nat /\ total \in Nat /\ warm \in Nat

StreamTypes ==
  /\ stream \in [Streams -> Places]
  /\ sent \in [Streams -> Nat] /\ current \in [Streams -> Nat]
  /\ \A s \in Streams : current[s] <= Chunk
  /\ upload \in BOOLEAN

Typed == Clocks /\ Counters /\ StreamTypes

LEMMA TypedInit == Init => Typed
BY Constants DEF Init, Typed, Clocks, Counters, StreamTypes, Places

LEMMA StreamTyped ==
  ASSUME Typed, NEW s \in Streams, Stream(s)
  PROVE  Typed'
<1> USE Constants DEF Typed
<1>1. Clocks' /\ upload' = upload /\ UNCHANGED <<missed, warmBytes, total, warm>>
  BY DEF Clocks, Stream, Start, Move, Complete, Break, LoopEnds, Leave, streamRest,
         timerVars, readVars
<1>2. CASE Start(s)
  BY <1>1, <1>2 DEF Start, Counters, StreamTypes, Places
<1>3. CASE Move(s)
  BY <1>1, <1>3 DEF Move, Counters, StreamTypes, Places
<1>8. ASSUME Return(s) PROVE adrift' \in Nat
  <2>1. current[s] \in Nat /\ current[s] <= Chunk
    BY DEF StreamTypes
  <2> QED
    BY <1>8, <2>1 DEF Return, Counters
<1>4. CASE Complete(s)
  BY <1>1, <1>4, <1>8 DEF Complete, Return, Counters, StreamTypes, Places
<1>5. ASSUME NEW e \in {"own", "cut"}, Break(s, e) PROVE Typed'
  BY <1>1, <1>5, <1>8 DEF Break, Return, Counters, StreamTypes, Places
<1>6. CASE LoopEnds(s)
  BY <1>1, <1>6 DEF LoopEnds, Counters, StreamTypes, Places
<1>7. CASE Leave(s)
  BY <1>1, <1>7 DEF Leave, Counters, StreamTypes, Places
<1> QED
  BY <1>2, <1>3, <1>4, <1>5, <1>6, <1>7 DEF Stream

LEMMA TypedStep == Typed /\ [Next]_vars => Typed'
<1> SUFFICES ASSUME Typed, [Next]_vars PROVE Typed'
  OBVIOUS
<1> USE Constants DEF Typed
<1>1. CASE Main
  BY <1>1 DEF Main, Deadline, Join, StopTimer, ReadTotal, ReadWarm, ReadWarmAt, Compute,
         mainRest, timerVars, readVars, Clocks, Counters, StreamTypes
<1>2. CASE Callback
  BY <1>2 DEF Callback, Fire, StoreBytes, StoreNanos, Wall, Epoch, clockRest, readVars,
         Clocks, Counters, StreamTypes
<1>3. CASE Tick \/ SetBack \/ EndContext
  BY <1>3 DEF Tick, SetBack, EndContext, clockRest, timerVars, readVars,
         Clocks, Counters, StreamTypes
<1>4. ASSUME NEW s \in Streams, Stream(s) PROVE Typed'
  BY <1>4, StreamTyped
<1>5. CASE Drift
  BY <1>5 DEF Drift, timerVars, readVars, Clocks, Counters, StreamTypes
<1>6. CASE UNCHANGED vars
  BY <1>6 DEF vars, timerVars, readVars, Clocks, Counters, StreamTypes
<1> QED
  BY <1>1, <1>2, <1>3, <1>4, <1>5, <1>6 DEF Next

-----------------------------------------------------------------------------
(* The end of the window is no failure *)

ErrorInv == first \in {"nil", "own"} /\ result.kind \in {"none", "speed", "own", "no data"}

LEMMA ErrorStep == ErrorInv /\ [Next]_vars => ErrorInv'
<1> SUFFICES ASSUME ErrorInv, [Next]_vars PROVE ErrorInv'
  OBVIOUS
<1>1. first' \in {"nil", "own"}
  <2>1. ASSUME NEW s \in Streams, NEW e \in {"own", "cut"}, Break(s, e)
        PROVE  first' \in {"nil", "own"}
    BY <2>1 DEF Break, OwnError, ErrorInv
  <2>2. ASSUME NEW s \in Streams, Start(s) \/ Move(s) \/ Complete(s) \/ LoopEnds(s) \/ Leave(s)
        PROVE  first' \in {"nil", "own"}
    BY <2>2 DEF Start, Move, Complete, LoopEnds, Leave, ErrorInv
  <2>3. CASE Main \/ Callback \/ Tick \/ SetBack \/ EndContext \/ Drift \/ UNCHANGED vars
    BY <2>3 DEF Drift, Main, Deadline, Join, StopTimer, ReadTotal, ReadWarm, ReadWarmAt, Compute,
           Callback, Fire, StoreBytes, StoreNanos, Tick, SetBack, EndContext, mainRest,
           clockRest, vars, ErrorInv
  <2> QED
    BY <2>1, <2>2, <2>3 DEF Next, Stream
<1>2. CASE Compute
  <2>1. Whole.kind = "speed" /\ AfterWarmup.kind = "speed"
    BY DEF Whole, AfterWarmup
  <2>2. \A e : Failure(e).kind = e
    BY DEF Failure
  <2>3. result'.kind \in {"speed", first, "no data"}
        /\ (result'.kind = first => first # "nil" \/ result'.kind = "speed")
    BY <1>2, <2>1, <2>2 DEF Compute, Usable
  <2> QED
    BY <1>1, <2>3 DEF ErrorInv
<1>3. CASE UNCHANGED result
  BY <1>1, <1>3 DEF ErrorInv
<1>4. UNCHANGED result \/ Compute
  BY DEF Next, Main, Deadline, Join, StopTimer, ReadTotal, ReadWarm, ReadWarmAt,
         Callback, Fire, StoreBytes, StoreNanos, Tick, SetBack, EndContext, mainRest,
         clockRest, streamRest, readVars, Stream, Start, Move, Complete, Break, LoopEnds,
         Leave, Drift, vars
<1> QED
  BY <1>2, <1>3, <1>4

(* No error of the cancellation is ever reported, whenever the deadline,   *)
(* the end of the context and the errors of the streams meet.              *)
THEOREM EndOfWindowIsNoFailure == Spec => []EndIsNoError
<1>1. Init => ErrorInv
  BY DEF Init, ErrorInv, NoResult
<1>2. ErrorInv => EndIsNoError
  BY DEF ErrorInv, EndIsNoError
<1> QED
  BY <1>1, <1>2, ErrorStep, PTL DEF Spec

-----------------------------------------------------------------------------
(* The caller waits for every stream *)

Alive == {s \in Streams : stream[s] # "gone"}
Past  == {"joined", "total", "warm", "warmAt", "compute", "done"}

(* The WaitGroup counts the streams that are not through, so past the wait *)
(* there is none, and the counter moves on only by uploads that are adrift *)
(* in the transport; nothing counts as missed before it is read.           *)
JoinInv ==
  /\ Typed
  /\ wg = Cardinality(Alive)
  /\ main \in {"select", "drain"} \cup Past
  /\ main \in Past => Alive = {}
  /\ ~ReadAlready => missed = 0
  /\ ReadAlready => total + missed = moved
  /\ ~upload => adrift = 0 /\ missed = 0

LEMMA AliveCount == IsFiniteSet(Alive) /\ Cardinality(Alive) \in Nat
                      /\ (Cardinality(Alive) = 0 <=> Alive = {})
<1>1. IsFiniteSet(Alive)
  BY Constants, FS_Subset DEF Alive
<1> QED
  BY <1>1, FS_CardinalityType, FS_EmptySet

LEMMA JoinInit == Init => JoinInv
<1> SUFFICES ASSUME Init PROVE JoinInv
  OBVIOUS
<1>1. Alive = Streams
  BY DEF Init, Alive
<1> QED
  BY <1>1, TypedInit DEF Init, JoinInv, Past, ReadAlready

LEMMA StreamJoin ==
  ASSUME JoinInv, NEW s \in Streams, Stream(s)
  PROVE  JoinInv'
<1>1. Typed'
  BY StreamTyped DEF JoinInv
<1>2. s \in Alive /\ UNCHANGED <<main, total, missed, upload>>
  BY DEF Stream, Start, Move, Complete, Break, LoopEnds, Leave, streamRest, readVars, Alive
<1>3. main \notin Past
  BY <1>2 DEF JoinInv
<1>5. ~upload => adrift' = adrift
  BY DEF Stream, Start, Move, Complete, Break, LoopEnds, Leave, Return
<1>4. wg' = Cardinality(Alive')
  <2>1. CASE Leave(s)
    <3>1. Alive' = Alive \ {s}
      BY <2>1 DEF Leave, Alive, JoinInv, Typed, StreamTypes
    <3>2. Cardinality(Alive \ {s}) = Cardinality(Alive) - 1
      BY <1>2, AliveCount, FS_RemoveElement
    <3> QED
      BY <2>1, <3>1, <3>2 DEF Leave, WgDone, JoinInv
  <2>2. CASE ~Leave(s)
    <3>1. stream' = stream \/ \E p \in {"loop", "transfer", "leave"} : stream' = [stream EXCEPT ![s] = p]
      BY <2>2 DEF Stream, Start, Move, Complete, Break, LoopEnds
    <3>2. Alive' = Alive
      BY <1>2, <3>1 DEF Alive, JoinInv, Typed, StreamTypes
    <3>3. wg' = wg
      BY <2>2 DEF Stream, Start, Move, Complete, Break, LoopEnds
    <3> QED
      BY <3>2, <3>3 DEF JoinInv
  <2> QED
    BY <2>1, <2>2
<1> QED
  BY <1>1, <1>2, <1>3, <1>4, <1>5 DEF JoinInv, Past, ReadAlready

LEMMA JoinStep == JoinInv /\ [Next]_vars => JoinInv'
<1> SUFFICES ASSUME JoinInv, [Next]_vars PROVE JoinInv'
  OBVIOUS
<1>1. Typed'
  BY TypedStep DEF JoinInv
<1>2. ASSUME NEW s \in Streams, Stream(s) PROVE JoinInv'
  BY <1>2, StreamJoin
<1>3. CASE Main \/ Callback \/ Tick \/ SetBack \/ EndContext \/ UNCHANGED vars
  <2>1. UNCHANGED <<stream, wg, moved, adrift, missed, upload>>
    BY <1>3 DEF Main, Deadline, Join, StopTimer, ReadTotal, ReadWarm, ReadWarmAt, Compute,
           Callback, Fire, StoreBytes, StoreNanos, Tick, SetBack, EndContext, mainRest,
           clockRest, vars
  <2>2. Alive' = Alive
    BY <2>1 DEF Alive
  <2>3. CASE Main
    <3>1. main' \in Past => main \in Past \/ wg = 0
      BY <2>3 DEF Main, Deadline, Join, StopTimer, ReadTotal, ReadWarm, ReadWarmAt, Compute,
             StreamsDone, Past
    <3>2. main' \in Past => Alive' = {}
      BY <2>2, <3>1, AliveCount DEF JoinInv
    <3>3. main' \in {"drain"} \cup Past /\ (~ReadAlready' => ~ReadAlready)
      BY <2>3 DEF Main, Deadline, Join, StopTimer, ReadTotal, ReadWarm, ReadWarmAt, Compute,
             Past, ReadAlready
    <3>4. ReadAlready' => total' + missed = moved
      <4>1. CASE ReadTotal
        BY <4>1 DEF ReadTotal, JoinInv, ReadAlready, Typed, Counters
      <4>2. CASE ~ReadTotal
        BY <2>3, <4>2 DEF Main, Deadline, Join, StopTimer, ReadWarm, ReadWarmAt, Compute,
               readVars, JoinInv, ReadAlready
      <4> QED
        BY <4>1, <4>2
    <3> QED
      BY <1>1, <2>1, <2>2, <3>2, <3>3, <3>4 DEF JoinInv, ReadAlready
  <2>4. CASE UNCHANGED <<main, total>>
    BY <1>1, <2>1, <2>2, <2>4 DEF JoinInv, ReadAlready
  <2> QED
    BY <1>3, <2>3, <2>4 DEF Callback, Fire, StoreBytes, StoreNanos, Tick, SetBack, EndContext,
       clockRest, readVars, vars
<1>4. CASE Drift
  <2>1. Alive' = Alive
    BY <1>4 DEF Drift, Alive
  <2> QED
    BY <1>1, <1>4, <2>1 DEF Drift, JoinInv, ReadAlready, Typed, Counters, readVars
<1> QED
  BY <1>2, <1>3, <1>4 DEF Next

(* Whatever the streams do, the caller reads the counter when no transfer  *)
(* is under way: of a download it reads all, and of uploads all but what   *)
(* the transport reads later of those that have returned.                  *)
THEOREM TransfersAreCounted == Spec => []CountsTransfers
<1>1. JoinInv => CountsTransfers
  BY DEF JoinInv, CountsTransfers
<1> QED
  BY <1>1, JoinInit, JoinStep, PTL DEF Spec

-----------------------------------------------------------------------------
(* A speed is computed from data *)

SpeedInv == Typed /\ ErrorInv /\ SpeedFromData

LEMMA ComputeSpeed ==
  ASSUME Typed, ErrorInv, Compute
  PROVE  SpeedFromData'
<1> DEFINE chosen == IF warmAt # 0 /\ total > warm THEN AfterWarmup ELSE Whole
           r == Usable(chosen)
<1>1. /\ Whole.kind = "speed" /\ Whole.bytes = total /\ Whole.elapsed = now
      /\ AfterWarmup.kind = "speed" /\ AfterWarmup.bytes = total - warm
      /\ AfterWarmup.elapsed = Wall - warmAt
      /\ Wall \in Int /\ warmAt \in Int /\ total \in Nat /\ warm \in Nat /\ now \in Nat
  BY DEF Whole, AfterWarmup, Wall, Epoch, Typed, Clocks, Counters
<1>2. \A e : Failure(e).kind = e
  BY DEF Failure
<1>3. /\ r.kind = "speed" /\ r.bytes \in Int /\ r.elapsed \in Int
      /\ r = Whole \/ (r.bytes > 0 /\ r.elapsed > 0)
  <2>1. chosen \in {Whole, AfterWarmup}
    OBVIOUS
  <2>2. chosen.kind = "speed" /\ chosen.bytes \in Int /\ chosen.elapsed \in Int
    BY <1>1, <2>1
  <2> HIDE DEF chosen
  <2>3. r = Whole \/ (r = chosen /\ chosen.bytes > 0 /\ chosen.elapsed > 0)
    BY <2>2 DEF Usable
  <2> QED
    BY <1>1, <2>2, <2>3
<1>4. /\ result' = IF total < Least /\ first # "nil" THEN Failure(first)
                   ELSE IF NoData(r)
                   THEN Failure(IF first # "nil" THEN first ELSE "no data")
                   ELSE r
  BY DEF Compute
<1>5. total' = total /\ now' = now
  BY DEF Compute, mainRest
<1> HIDE DEF r
<1>9. first # "speed"
  BY DEF ErrorInv
<1>6. CASE result' = r /\ ~NoData(r)
  <2>1. result'.bytes > 0 /\ result'.elapsed > 0 /\ result'.kind = "speed"
    BY <1>1, <1>3, <1>6 DEF NoData
  <2> QED
    BY <2>1 DEF SpeedFromData
<1>7. CASE NoData(r) /\ result'.kind # "speed"
  <2>1. r = Whole
    BY <1>3, <1>7 DEF NoData
  <2>2. total = 0 \/ now <= 0
    BY <1>1, <1>7, <2>1 DEF NoData
  <2> QED
    BY <1>1, <1>5, <1>7, <2>2, Constants DEF SpeedFromData
<1>8. CASE total < Least /\ result'.kind # "speed"
  BY <1>1, <1>5, <1>8, Constants DEF SpeedFromData
<1> QED
  BY <1>2, <1>4, <1>6, <1>7, <1>8, <1>9

LEMMA SpeedStep == SpeedInv /\ [Next]_vars => SpeedInv'
<1> SUFFICES ASSUME SpeedInv, [Next]_vars PROVE SpeedInv'
  OBVIOUS
<1>1. Typed' /\ ErrorInv'
  BY TypedStep, ErrorStep DEF SpeedInv
<1>2. CASE Compute
  BY <1>1, <1>2, ComputeSpeed DEF SpeedInv
<1>3. CASE main' # "done"
  BY <1>1, <1>3 DEF SpeedInv, SpeedFromData
<1>4. CASE main' = "done" /\ ~Compute
  <2>1. main = "done" /\ UNCHANGED <<result, total, now>>
    BY <1>4 DEF Next, Main, Deadline, Join, StopTimer, ReadTotal, ReadWarm, ReadWarmAt,
           Callback, Fire, StoreBytes, StoreNanos, Tick, SetBack, EndContext, mainRest,
           clockRest, streamRest, readVars, Stream, Start, Move, Complete, Break, LoopEnds,
           Leave, Drift, vars
  <2> QED
    BY <1>1, <1>4, <2>1 DEF SpeedInv, SpeedFromData
<1> QED
  BY <1>2, <1>3, <1>4

(* A speed is a positive number of bytes over a positive time, and enough  *)
(* bytes always give one, however the snapshot, the end of the streams and *)
(* a jump of the wall clock fall together.                                 *)
THEOREM SpeedsComeFromData == Spec => []SpeedFromData
<1>1. Init => SpeedInv
  BY TypedInit DEF Init, SpeedInv, ErrorInv, SpeedFromData, NoResult
<1>2. SpeedInv => SpeedFromData
  BY DEF SpeedInv
<1> QED
  BY <1>1, <1>2, SpeedStep, PTL DEF Spec

-----------------------------------------------------------------------------
(* The budget *)

(* What a stream has moved or left to the transport at most: what it has   *)
(* added up and the transfer under way; once it has left its loop, its     *)
(* share and one transfer less a byte.                                     *)
Most == PerStream + Chunk - 1

Share(s) ==
  IF stream[s] = "loop" THEN sent[s]
  ELSE IF stream[s] = "transfer" THEN sent[s] + current[s]
  ELSE Most

Shares == [s \in Streams |-> Share(s)]

(* A number is no more than the sum of the shares: the partial sums along  *)
(* an order of the streams are the witness.                                *)
Size  == Cardinality(Streams)
Order == CHOOSE e : ExistsBijection(1..Size, Streams) => e \in Bijection(1..Size, Streams)

PartialSums(g, f) ==
  /\ g \in [0..Size -> Int]
  /\ g[0] = 0
  /\ \A k \in 1..Size : g[k] = g[k - 1] + f[Order[k]]

NoMoreThanSum(m, f) == \E g : PartialSums(g, f) /\ m <= g[Size]

LEMMA OrderIs ==
  /\ Size \in Nat
  /\ Order \in [1..Size -> Streams]
  /\ \A s \in Streams : \E k \in 1..Size : Order[k] = s
  /\ \A j, k \in 1..Size : Order[j] = Order[k] => j = k
<1>1. Size \in Nat /\ ExistsBijection(1..Size, Streams)
  BY Constants, FS_CardinalityType DEF Size
<1>2. \E e : e \in Bijection(1..Size, Streams)
  BY <1>1 DEF ExistsBijection
<1>3. Order \in Bijection(1..Size, Streams)
  BY <1>1, <1>2 DEF Order
<1> QED
  BY <1>1, <1>3 DEF Bijection, Injection, Surjection, IsInjective

LEMMA SumOfNothing ==
  ASSUME NEW f, \A s \in Streams : f[s] = 0
  PROVE  NoMoreThanSum(0, f)
<1> DEFINE g == [k \in 0..Size |-> 0]
<1>1. PartialSums(g, f)
  BY OrderIs DEF PartialSums
<1>2. 0 <= g[Size]
  BY OrderIs
<1> HIDE DEF g
<1> QED
  BY <1>1, <1>2 DEF NoMoreThanSum

(* A share that grows carries the sum along. *)
LEMMA SumGrows ==
  ASSUME NEW f \in [Streams -> Int], NEW h \in [Streams -> Int],
         NEW m \in Int, NEW n \in Int,
         NEW s \in Streams, \A t \in Streams : t # s => h[t] = f[t],
         n - m <= h[s] - f[s], NoMoreThanSum(m, f)
  PROVE  NoMoreThanSum(n, h)
<1>1. PICK g : PartialSums(g, f) /\ m <= g[Size]
  BY DEF NoMoreThanSum
<1>2. PICK j \in 1..Size : Order[j] = s
  BY OrderIs
<1> DEFINE d  == h[s] - f[s]
           g2 == [k \in 0..Size |-> IF k >= j THEN g[k] + d ELSE g[k]]
<1>3. d \in Int /\ Size \in Nat /\ j \in 1..Size
  BY OrderIs
<1>4. g2 \in [0..Size -> Int] /\ g2[0] = 0
  BY <1>1, <1>3 DEF PartialSums
<1>5. ASSUME NEW k \in 1..Size PROVE g2[k] = g2[k - 1] + h[Order[k]]
  <2>0. k \in 0..Size /\ k - 1 \in 0..Size
    BY <1>3
  <2>4. Order[k] \in Streams
    BY OrderIs
  <2>1. /\ g[k] = g[k - 1] + f[Order[k]] /\ g[k] \in Int /\ g[k - 1] \in Int
        /\ k \in 0..Size /\ k - 1 \in 0..Size
        /\ Order[k] \in Streams /\ f[Order[k]] \in Int /\ h[Order[k]] \in Int
    BY <1>1, <2>0, <2>4 DEF PartialSums
  <2>2. CASE k = j
    <3>1. h[Order[k]] = f[Order[k]] + d
      BY <1>2, <2>2
    <3>2. g2[k] = g[k] + d /\ g2[k - 1] = g[k - 1]
      BY <2>1, <2>2
    <3> QED
      BY <1>3, <2>1, <3>1, <3>2
  <2>3. CASE k # j
    <3>1. h[Order[k]] = f[Order[k]]
      BY <1>2, <2>1, <2>3, OrderIs
    <3>2. \/ k > j /\ g2[k] = g[k] + d /\ g2[k - 1] = g[k - 1] + d
          \/ k < j /\ g2[k] = g[k] /\ g2[k - 1] = g[k - 1]
      BY <1>3, <2>1, <2>3
    <3> QED
      BY <1>3, <2>1, <3>1, <3>2
  <2> QED
    BY <2>2, <2>3
<1>6. n <= g2[Size]
  BY <1>1, <1>3 DEF PartialSums
<1> HIDE DEF g2
<1> QED
  BY <1>4, <1>5, <1>6 DEF NoMoreThanSum, PartialSums

(* Every set of natural numbers has a least one: the induction over the    *)
(* partial sums.                                                           *)
Less == {p \in Nat \X Nat : p[1] < p[2]}

LEMMA LessIsWellFounded == IsWellFoundedOn(Less, Nat)
<1>1. OpToRel(<, Nat) = Less
  BY DEF OpToRel, Less
<1> QED
  BY <1>1, NatLessThanWellFounded

LEMMA LeastNumber ==
  ASSUME NEW T, T \subseteq Nat, T # {}
  PROVE  \E m \in T : \A n \in T : m <= n
<1>1. \A x, y \in Nat : <<x, y>> \in Less <=> x < y
  BY DEF Less
<1>2. PICK m \in T : \A y \in T : ~(<<y, m>> \in Less)
  BY LessIsWellFounded, WFMin
<1>3. \A y \in T : ~(y < m)
  BY <1>1, <1>2
<1>4. m \in Nat /\ \A y \in T : m <= y
  BY <1>3
<1> QED
  BY <1>4

(* No share above a bound, no sum above its multiple. *)
LEMMA SumBound ==
  ASSUME NEW f \in [Streams -> Int], NEW b \in Int, \A s \in Streams : f[s] <= b,
         NEW g, PartialSums(g, f)
  PROVE  g[Size] <= Size * b
<1>1. Size \in Nat
  BY OrderIs
<1>2. g \in [0..Size -> Int]
  BY DEF PartialSums
<1> DEFINE Over == {k \in 0..Size : g[k] > k * b}
<1>3. ASSUME NEW k \in Over, \A j \in Over : k <= j PROVE FALSE
  <2>1. k \in 0..Size /\ g[k] > k * b
    OBVIOUS
  <2>2. k # 0
    <3>1. 0 * b = 0
      OBVIOUS
    <3> QED
      BY <2>1, <3>1 DEF PartialSums
  <2>3. k \in 1..Size /\ k - 1 \in 0..Size
    BY <1>1, <2>1, <2>2
  <2>4. g[k] = g[k - 1] + f[Order[k]]
    BY <2>3 DEF PartialSums
  <2>5. Order[k] \in Streams
    BY <2>3, OrderIs
  <2>6. g[k] \in Int /\ g[k - 1] \in Int /\ f[Order[k]] \in Int /\ f[Order[k]] <= b
    BY <1>2, <2>1, <2>3, <2>5
  <2>7. k - 1 \notin Over
    BY <1>3, <2>1
  <2>8. (k - 1) * b \in Int /\ k * b \in Int /\ (k - 1) * b + b = k * b
    BY <2>3
  <2>9. g[k - 1] <= (k - 1) * b
    BY <2>3, <2>6, <2>7, <2>8
  <2> QED
    BY <2>1, <2>4, <2>6, <2>8, <2>9
<1>4. Over = {}
  <2>1. Over \subseteq Nat
    BY <1>1
  <2> HIDE DEF Over
  <2> QED
    BY <1>3, <2>1, LeastNumber
<1>5. Size \in 0..Size /\ g[Size] \in Int /\ Size * b \in Int
  BY <1>1, <1>2
<1> QED
  BY <1>4, <1>5

BudgetInv ==
  /\ Typed
  /\ \A s \in Streams :
       /\ stream[s] = "loop" => current[s] = 0 /\ sent[s] <= Most
       /\ stream[s] = "transfer" => sent[s] < PerStream /\ current[s] <= Chunk
  /\ NoMoreThanSum(moved + adrift, Shares)

LEMMA MostIs == Most \in Nat /\ Most = PerStream + Chunk - 1
BY Constants DEF Most

LEMMA SharesTyped == Typed => Shares \in [Streams -> Int]
<1> SUFFICES ASSUME Typed, NEW s \in Streams PROVE Share(s) \in Int
  BY DEF Shares
<1> QED
  BY MostIs DEF Share, Typed, StreamTypes

LEMMA BudgetInit == Init => BudgetInv
<1> SUFFICES ASSUME Init PROVE BudgetInv
  OBVIOUS
<1>1. \A s \in Streams : Shares[s] = 0
  BY DEF Init, Shares, Share
<1>2. NoMoreThanSum(moved + adrift, Shares)
  BY <1>1, SumOfNothing DEF Init
<1> QED
  BY <1>2, TypedInit, MostIs DEF Init, BudgetInv

(* What a stream moves it adds to its own share, and its share never       *)
(* shrinks: an error or the end of the loop takes the whole share.         *)
LEMMA StreamBudget ==
  ASSUME BudgetInv, NEW s \in Streams, Stream(s)
  PROVE  BudgetInv'
<1>1. Typed /\ Typed'
  BY StreamTyped DEF BudgetInv
<1>2. /\ stream \in [Streams -> Places] /\ stream' \in [Streams -> Places]
      /\ sent \in [Streams -> Nat] /\ current \in [Streams -> Nat]
      /\ sent' \in [Streams -> Nat] /\ current' \in [Streams -> Nat]
      /\ moved \in Nat /\ moved' \in Nat /\ adrift \in Nat /\ adrift' \in Nat
      /\ \A t \in Streams : current[t] <= Chunk
  BY <1>1 DEF Typed, StreamTypes, Counters
<1>3. \A t \in Streams \ {s} :
        stream'[t] = stream[t] /\ sent'[t] = sent[t] /\ current'[t] = current[t]
  BY <1>2 DEF Stream, Start, Move, Complete, Return, Break, LoopEnds, Leave
<1>4. /\ stream'[s] = "loop" => current'[s] = 0 /\ sent'[s] <= Most
      /\ stream'[s] = "transfer" => sent'[s] < PerStream /\ current'[s] <= Chunk
      /\ (moved' + adrift') - (moved + adrift) <= Share(s)' - Share(s)
  <2> USE <1>2, MostIs, Constants DEF BudgetInv
  <2>1. CASE Start(s)
    BY <2>1 DEF Start, Share, ShareLeft, streamRest
  <2>2. CASE Move(s)
    BY <2>2 DEF Move, Share, streamRest
  <2>3. CASE Complete(s)
    BY <2>3 DEF Complete, Return, Share, streamRest
  <2>4. ASSUME NEW e \in {"own", "cut"}, Break(s, e)
        PROVE  /\ stream'[s] = "leave"
               /\ (moved' + adrift') - (moved + adrift) <= Share(s)' - Share(s)
    BY <2>4 DEF Break, Return, Share, streamRest
  <2>5. CASE LoopEnds(s)
    BY <2>5 DEF LoopEnds, Share, streamRest
  <2>6. CASE Leave(s)
    BY <2>6 DEF Leave, Share, streamRest
  <2> QED
    BY <2>1, <2>2, <2>3, <2>4, <2>5, <2>6 DEF Stream
<1>5. \A t \in Streams \ {s} : Shares'[t] = Shares[t]
  BY <1>3 DEF Shares, Share
<1>6. Shares'[s] = Share(s)' /\ Shares[s] = Share(s)
  BY DEF Shares
<1>7. Shares \in [Streams -> Int] /\ Shares' \in [Streams -> Int]
  BY <1>1, <1>2, MostIs, SharesTyped DEF Shares, Share
<1>8. NoMoreThanSum(moved + adrift, Shares)
  BY DEF BudgetInv
<1>9. NoMoreThanSum(moved' + adrift', Shares')
  <2>1. moved + adrift \in Int /\ moved' + adrift' \in Int
    BY <1>2
  <2>2. \A t \in Streams : t # s => Shares'[t] = Shares[t]
    BY <1>5
  <2>3. (moved' + adrift') - (moved + adrift) <= Shares'[s] - Shares[s]
    BY <1>4, <1>6
  <2>4. ASSUME NEW f, NEW h, f = Shares, h = Shares',
               NEW m, NEW n, m = moved + adrift, n = moved' + adrift'
        PROVE  NoMoreThanSum(n, h)
    BY <1>7, <1>8, <2>1, <2>2, <2>3, <2>4, SumGrows
  <2> QED
    BY <2>4
<1>10. \A t \in Streams :
         /\ stream'[t] = "loop" => current'[t] = 0 /\ sent'[t] <= Most
         /\ stream'[t] = "transfer" => sent'[t] < PerStream /\ current'[t] <= Chunk
  BY <1>3, <1>4 DEF BudgetInv
<1>11. (NoMoreThanSum(moved + adrift, Shares))'
  BY <1>9 DEF NoMoreThanSum, PartialSums, Size, Order
<1> QED
  BY <1>1, <1>10, <1>11 DEF BudgetInv, Most

LEMMA BudgetStep == BudgetInv /\ [Next]_vars => BudgetInv'
<1> SUFFICES ASSUME BudgetInv, [Next]_vars PROVE BudgetInv'
  OBVIOUS
<1>1. Typed'
  BY TypedStep DEF BudgetInv
<1>2. ASSUME NEW s \in Streams, Stream(s) PROVE BudgetInv'
  BY <1>2, StreamBudget
<1>3. CASE moved' + adrift' = moved + adrift /\ UNCHANGED <<stream, sent, current>>
  <2>1. Shares' = Shares
    BY <1>3 DEF Shares, Share, Most
  <2> QED
    BY <1>1, <1>3, <2>1 DEF BudgetInv, Most, NoMoreThanSum, PartialSums, Size, Order
<1>5. CASE Drift
  BY <1>3, <1>5 DEF Drift, BudgetInv, Typed, Counters
<1>4. CASE Main \/ Callback \/ Tick \/ SetBack \/ EndContext \/ UNCHANGED vars
  BY <1>3, <1>4 DEF Main, Deadline, Join, StopTimer, ReadTotal, ReadWarm, ReadWarmAt, Compute,
     Callback, Fire, StoreBytes, StoreNanos, Tick, SetBack, EndContext, mainRest, clockRest, vars
<1> QED
  BY <1>2, <1>4, <1>5 DEF Next

(* However the streams interleave, break and begin anew, the window moves  *)
(* no more than the budget and less than one transfer per stream beyond.   *)
THEOREM BudgetIsKept == Spec => []BudgetBounded
<1>1. BudgetInv => BudgetBounded
  <2> SUFFICES ASSUME BudgetInv PROVE BudgetBounded
    OBVIOUS
  <2>1. PICK g : PartialSums(g, Shares) /\ moved + adrift <= g[Size]
    BY DEF BudgetInv, NoMoreThanSum
  <2>2. Shares \in [Streams -> Int]
    BY SharesTyped DEF BudgetInv
  <2>3. ASSUME NEW s \in Streams PROVE Shares[s] <= Most
    BY MostIs, Constants DEF BudgetInv, Typed, StreamTypes, Shares, Share
  <2>4. g[Size] <= Size * Most
    BY <2>1, <2>2, <2>3, MostIs, SumBound
  <2>5. g[Size] \in Int /\ Size * Most \in Int /\ moved \in Nat /\ adrift \in Nat
    BY <2>1, OrderIs, MostIs DEF PartialSums, BudgetInv, Typed, Counters
  <2>6. moved <= Size * Most
    BY <2>1, <2>4, <2>5
  <2> QED
    BY <2>6 DEF BudgetBounded, Size, Most
<1> QED
  BY <1>1, BudgetInit, BudgetStep, PTL DEF Spec

=============================================================================
