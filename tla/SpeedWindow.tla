---------------------------- MODULE SpeedWindow ----------------------------
(***************************************************************************)
(* internal/netcheck/speedwindow.go: measureWindow, the engine of both     *)
(* speed tests, with the transfers of speedookla.go and speedcf.go.        *)
(* Streams repeat transfers that add to one counter as the bytes move; a   *)
(* timer takes a snapshot of the counter at the end of the warm-up; the    *)
(* caller waits for the streams, cancels them at the deadline, stops the   *)
(* timer and computes a speed from counter and snapshot.                   *)
(***************************************************************************)
EXTENDS Integers, FiniteSets

CONSTANTS
  Streams,    \* the parallel transfers
  Warmup,     \* ticks of the warm-up
  Length,     \* ticks of the window
  Grace,      \* ticks until the context of the window ends by itself
  Chunk,      \* bytes of one transfer
  PerStream,  \* w.budget / streams
  Least,      \* bytes below which an error is more than the bytes: 1 MiB
  Jump        \* ticks the wall clock may be set back, once

ASSUME WindowAssumption ==
  /\ Streams # {} /\ IsFiniteSet(Streams)
  /\ {Warmup, Length, Grace, Chunk, Least} \subseteq Nat \ {0}
  /\ {PerStream, Jump} \subseteq Nat

Horizon == Length + Grace  \* bound of the clock: the context has ended then
Epoch   == 1000            \* the wall clock, which is never 0, at the start

VARIABLES
  now,       \* the monotonic clock
  back,      \* ticks the wall clock has been set back
  upload,    \* the direction, never changed
  ended,     \* Err() # nil of the context of the window
  stream,    \* where each stream is
  sent,      \* what each stream adds up for its share of the budget
  current,   \* bytes of the transfer of each stream
  moved,     \* the counter all transfers add to
  adrift,    \* bytes of uploads that have returned, still in the transport
  missed,    \* history: bytes moved after the caller has read the counter
  first,     \* the first error of a stream, or "nil"
  wg,        \* the WaitGroup
  main,      \* where the caller is
  timer,     \* the snapshot timer and its callback
  warmBytes, warmNanos,   \* the snapshot
  total, warm, warmAt,    \* what the caller has read
  result

timerVars == <<timer, warmBytes, warmNanos>>
readVars  == <<total, warm, warmAt, result>>
vars == <<now, back, upload, ended, stream, sent, current, moved, first, wg,
          adrift, missed, main, timerVars, readVars>>

NoResult == [kind |-> "none", bytes |-> 0, elapsed |-> 0]
Failure(e) == [kind |-> e, bytes |-> 0, elapsed |-> 0]

Init ==
  /\ now = 0 /\ back = 0 /\ upload \in BOOLEAN /\ ended \in BOOLEAN
  /\ stream = [s \in Streams |-> "loop"]
  /\ sent = [s \in Streams |-> 0] /\ current = [s \in Streams |-> 0]
  /\ moved = 0 /\ adrift = 0 /\ missed = 0 /\ first = "nil" /\ wg = Cardinality(Streams)
  /\ main = "select"
  /\ timer = "armed" /\ warmBytes = 0 /\ warmNanos = 0
  /\ total = 0 /\ warm = 0 /\ warmAt = 0 /\ result = NoResult

Wall == Epoch + now - back
Early == now < Length  \* time.Now().Before(deadline)

-----------------------------------------------------------------------------
(* A stream *)

streamRest == <<now, back, upload, ended, missed, main, timerVars, readVars>>

ShareIgnored(s) == TRUE
ShareLeft(s) == sent[s] < PerStream

Start(s) ==
  /\ stream[s] = "loop" /\ Early /\ ShareLeft(s) /\ ~ended
  /\ stream' = [stream EXCEPT ![s] = "transfer"]
  /\ UNCHANGED <<streamRest, sent, current, moved, adrift, first, wg>>

(* A piece of the body of the transfer under way is read or written. *)
Move(s) ==
  /\ stream[s] = "transfer" /\ current[s] < Chunk
  /\ current' = [current EXCEPT ![s] = @ + 1]
  /\ moved' = moved + 1
  /\ UNCHANGED <<streamRest, stream, sent, adrift, first, wg>>

(* The transfer is over for its stream.  What is left of the body of an    *)
(* upload stays with the transport, whose write goroutine client.Do does   *)
(* not wait for when the server answers early or the context ends.         *)
Return(s) ==
  /\ current' = [current EXCEPT ![s] = 0]
  /\ adrift' = IF upload THEN adrift + (Chunk - current[s]) ELSE adrift

(* transfer returns nil: a download its bytes; an upload the size it       *)
(* announced, even if the server answered before reading it all.           *)
Complete(s) ==
  /\ stream[s] = "transfer"
  /\ sent' = [sent EXCEPT ![s] = @ + IF upload THEN Chunk ELSE current[s]]
  /\ Return(s)
  /\ stream' = [stream EXCEPT ![s] = "loop"]
  /\ UNCHANGED <<streamRest, moved, first, wg>>

AnyError == TRUE
OwnError == ~ended /\ Early

(* transfer returns an error; it counts if the window is not over yet. *)
Break(s, e) ==
  /\ stream[s] = "transfer"
  /\ e = "cut" => ended
  /\ stream' = [stream EXCEPT ![s] = "leave"]
  /\ Return(s)
  /\ first' = IF OwnError /\ first = "nil" THEN e ELSE first
  /\ UNCHANGED <<streamRest, sent, moved, wg>>

LoopEnds(s) ==
  /\ stream[s] = "loop" /\ ~(Early /\ ShareLeft(s) /\ ~ended)
  /\ stream' = [stream EXCEPT ![s] = "leave"]
  /\ UNCHANGED <<streamRest, sent, current, moved, adrift, first, wg>>

Forgotten(w) == w
DoneTwice(w) == w - 2
WgDone(w) == w - 1

Leave(s) ==
  /\ stream[s] = "leave"
  /\ stream' = [stream EXCEPT ![s] = "gone"]
  /\ sent' = [sent EXCEPT ![s] = 0]
  /\ wg' = WgDone(wg)
  /\ UNCHANGED <<streamRest, current, moved, adrift, first>>

ReadAlready == main \in {"warm", "warmAt", "compute", "done"}

(* The write goroutine of the transport reads on in the body of an upload  *)
(* that has returned, until it sees that the connection is closed.         *)
Drift ==
  /\ adrift > 0 /\ main # "done"
  /\ adrift' = adrift - 1 /\ moved' = moved + 1
  /\ missed' = IF ReadAlready THEN missed + 1 ELSE missed
  /\ UNCHANGED <<now, back, upload, ended, stream, sent, current, first, wg, main,
                 timerVars, readVars>>

-----------------------------------------------------------------------------
(* The clocks, the timers and the caller's own context *)

clockRest == <<upload, stream, sent, current, moved, adrift, missed, first, wg, main,
               readVars>>

Tick ==
  /\ now < Horizon /\ main # "done"
  /\ now' = now + 1
  /\ UNCHANGED <<clockRest, back, ended, timerVars>>

(* A jump of the wall clock before the snapshot would change nothing. *)
SetBack ==
  /\ warmNanos # 0 /\ main # "done"
  /\ back = 0 /\ back' = Jump
  /\ UNCHANGED <<clockRest, now, ended, timerVars>>

EndContext ==
  /\ ~ended /\ ended' = TRUE
  /\ UNCHANGED <<clockRest, now, back, timerVars>>

(* The callback runs in a goroutine of its own: two stores. *)
Fire ==
  /\ timer = "armed" /\ now >= Warmup
  /\ timer' = "running"
  /\ UNCHANGED <<clockRest, now, back, ended, warmBytes, warmNanos>>

StoreBytes ==
  /\ timer = "running"
  /\ timer' = "halfway" /\ warmBytes' = moved
  /\ UNCHANGED <<clockRest, now, back, ended, warmNanos>>

StoreNanos ==
  /\ timer = "halfway"
  /\ timer' = "fired" /\ warmNanos' = Wall
  /\ UNCHANGED <<clockRest, now, back, ended, warmBytes>>

-----------------------------------------------------------------------------
(* The caller *)

mainRest == <<now, back, upload, stream, sent, current, moved, adrift, missed, first, wg>>

(* The deadline wins the select: cancel, and wait for the streams. *)
Deadline ==
  /\ main = "select" /\ ~Early
  /\ main' = "drain" /\ ended' = TRUE
  /\ UNCHANGED <<mainRest, timerVars, readVars>>

NoDrain == TRUE
StreamsDone == wg = 0

Join ==
  /\ main \in {"select", "drain"}
  /\ StreamsDone
  /\ main' = "joined"
  /\ UNCHANGED <<mainRest, ended, timerVars, readVars>>

(* Stop keeps a timer from firing; it does not wait for a running callback. *)
StopTimer ==
  /\ main = "joined"
  /\ main' = "total"
  /\ timer' = IF timer = "armed" THEN "stopped" ELSE timer
  /\ UNCHANGED <<mainRest, ended, warmBytes, warmNanos, readVars>>

ReadTotal ==
  /\ main = "total" /\ main' = "warm"
  /\ total' = moved
  /\ UNCHANGED <<mainRest, ended, timerVars, warm, warmAt, result>>

ReadWarm ==
  /\ main = "warm" /\ main' = "warmAt"
  /\ warm' = warmBytes
  /\ UNCHANGED <<mainRest, ended, timerVars, total, warmAt, result>>

ReadWarmAt ==
  /\ main = "warmAt" /\ main' = "compute"
  /\ warmAt' = warmNanos
  /\ UNCHANGED <<mainRest, ended, timerVars, total, warm, result>>

Whole == [kind |-> "speed", bytes |-> total, elapsed |-> now]
AfterWarmup == [kind |-> "speed", bytes |-> total - warm, elapsed |-> Wall - warmAt]

Trusted(r) == r
Usable(r) == IF r.bytes <= 0 \/ r.elapsed <= 0 THEN Whole ELSE r

NoData(r) == r.bytes = 0 \/ r.elapsed <= 0

(* The speed over the part after the warm-up, over the whole window if     *)
(* there is no such part, or an error.                                     *)
Compute ==
  /\ main = "compute" /\ main' = "done"
  /\ LET r == Usable(IF warmAt # 0 /\ total > warm THEN AfterWarmup ELSE Whole) IN
       result' = IF total < Least /\ first # "nil" THEN Failure(first)
                 ELSE IF NoData(r)
                 THEN Failure(IF first # "nil" THEN first ELSE "no data")
                 ELSE r
  /\ UNCHANGED <<mainRest, ended, timerVars, total, warm, warmAt>>

-----------------------------------------------------------------------------

Stream(s) ==
  \/ Start(s) \/ Move(s) \/ Complete(s)
  \/ \E e \in {"own", "cut"} : Break(s, e)
  \/ LoopEnds(s) \/ Leave(s)

Callback == Fire \/ StoreBytes \/ StoreNanos

Main ==
  \/ Deadline \/ Join \/ StopTimer
  \/ ReadTotal \/ ReadWarm \/ ReadWarmAt
  \/ Compute

Next ==
  \/ Main
  \/ Callback
  \/ Tick \/ SetBack
  \/ main \in {"select", "drain"} /\ EndContext
  \/ \E s \in Streams : Stream(s)
  \/ Drift

(* The clock goes on, armed timers fire, goroutines run, and a transfer    *)
(* whose context has ended returns.  Nothing obliges a transfer to return  *)
(* before, nor the transport to read on in a body.                         *)
Fairness ==
  /\ WF_vars(Tick) /\ WF_vars(Main)
  /\ \A s \in Streams :
       /\ WF_vars(Start(s)) /\ WF_vars(LoopEnds(s)) /\ WF_vars(Leave(s))
       /\ WF_vars(Break(s, "cut"))

Spec == Init /\ [][Next]_vars
FairSpec == Spec /\ Fairness

-----------------------------------------------------------------------------
(* Properties *)

WindowTypeOK ==
  /\ now \in 0..Horizon /\ back \in {0, Jump}
  /\ ended \in BOOLEAN /\ upload \in BOOLEAN
  /\ stream \in [Streams -> {"loop", "transfer", "leave", "gone"}]
  /\ sent \in [Streams -> Nat] /\ current \in [Streams -> 0..Chunk]
  /\ moved \in Nat /\ adrift \in Nat /\ missed \in Nat /\ wg \in 0..Cardinality(Streams)
  /\ first \in {"nil", "own", "cut"}
  /\ main \in {"select", "drain", "joined", "total", "warm", "warmAt", "compute", "done"}
  /\ timer \in {"armed", "running", "halfway", "fired", "stopped"}
  /\ warmBytes <= moved /\ total <= moved
  /\ result.kind \in {"none", "speed", "own", "cut", "no data"}

(* No transfer is under way once the caller has read the counter, so the   *)
(* total has all that streams moved; it lacks only what the transport      *)
(* reads afterwards of uploads that have returned, and a download leaves   *)
(* nothing of that kind.                                                   *)
CountsTransfers ==
  ReadAlready =>
    /\ total + missed = moved
    /\ ~upload => missed = 0

(* The budget holds up to the transfer that crosses it: no stream begins a *)
(* transfer on a used-up share, so it moves at most its share and one      *)
(* transfer less a byte, a download as well as an upload, what the         *)
(* transport reads on by itself included.                                  *)
BudgetBounded ==
  moved <= Cardinality(Streams) * (PerStream + Chunk - 1)

(* A speed is a positive number of bytes over a positive time, and a       *)
(* window that moved enough bytes reports one, also when streams broke,    *)
(* all of it fell into the warm-up, or the wall clock was set back after   *)
(* the snapshot.                                                           *)
SpeedFromData ==
  main = "done" =>
    /\ result.kind = "speed" => result.bytes > 0 /\ result.elapsed > 0
    /\ total >= Least /\ now > 0 => result.kind = "speed"

(* The end of the window is no failure: an error that comes of the         *)
(* cancellation alone is never what the test reports.                      *)
EndIsNoError == first # "cut" /\ result.kind # "cut"

(* The window comes to an end however the server behaves. *)
WindowEnds == <>(main = "done")

(* The comment above timer.Stop(): stopped before the counters are read,   *)
(* the timer cannot fire between the reading of one and of the next.       *)
NoSnapshotBetweenReads ==
  [][(main \in {"warm", "warmAt"}) => UNCHANGED timerVars]_vars

=============================================================================
