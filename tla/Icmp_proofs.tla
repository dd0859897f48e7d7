----------------------------- MODULE Icmp_proofs -----------------------------
(***************************************************************************)
(* What a ping counts is the answer of its own host to its own request,    *)
(* and a hop of a trace is a router of its way, for every number of        *)
(* anchors, requests, targets and ticks, and whatever else reaches the     *)
(* machine.                                                                *)
(***************************************************************************)
EXTENDS Icmp, TLAPS

(* The sender of an echo reply and its number are those of the request, so *)
(* the ones left in the air while the pings run tell who they are for.     *)
(* The probes of a trace do not: that none is sent before the last ping is *)
(* over is what keeps them from being taken for replies.                   *)
PingReply(a, n, left) == [kind |-> "reply", peer |-> a, id |-> "own", seq |-> n,
                          to |-> PingOf(a, n), left |-> left]

Shapes ==
  /\ DOMAIN ping = Anchors
  /\ \A a \in Anchors : DOMAIN ping[a] = {"at", "seq", "ok", "wait", "used"}
  /\ DOMAIN trace = {"at", "k", "ttl", "wait", "hops"}

TcpReadsNothing ==
  /\ method \in {"icmp", "icmp-raw", "tcp:443"}
  /\ method = "tcp:443" => \A a \in Anchors : ping[a].at \in {"tcp", "done"}

PingsFirst == trace.at # "idle" => \A a \in Anchors : ping[a].at = "done"

OnlyReplies == trace.at = "idle" =>
  \A p \in flight : \E a \in Anchors : \E n, left : p = PingReply(a, n, left)

IInv == Shapes /\ TcpReadsNothing /\ PingsFirst /\ OnlyReplies /\ OwnReplies

LEMMA InitInv == Init => IInv
BY DEF Init, IInv, Shapes, TcpReadsNothing, PingsFirst, OnlyReplies, OwnReplies, ProbeMethod

LEMMA SharedStays ==
  ASSUME IInv, UNCHANGED <<method, trace, mistaken>>
  PROVE  /\ method' \in {"icmp", "icmp-raw", "tcp:443"}
         /\ DOMAIN trace' = {"at", "k", "ttl", "wait", "hops"}
         /\ OwnReplies'
BY DEF IInv, Shapes, TcpReadsNothing, OwnReplies

(* A goroutine of Latency: it is not done, so no trace has begun. *)
LEMMA PingStep ==
  ASSUME IInv, NEW a \in Anchors, Ping(a)
  PROVE  IInv'
<1>1. trace.at = "idle" /\ UNCHANGED <<method, trace, mistaken>>
  BY DEF Ping, NoSocket, SendEcho, ReplyLate, PingOver, TcpTry, TcpOver, pingRest, constants,
         IInv, PingsFirst
<1>2. Shapes' /\ (\A b \in Anchors \ {a} : ping'[b] = ping[b])
  BY <1>1, SharedStays DEF Ping, NoSocket, SendEcho, ReplyLate, PingOver, TcpTry, TcpOver, Step,
         IInv, Shapes
<1>3. method = "tcp:443" => ping'[a].at \in {"tcp", "done"}
  BY <1>1 DEF Ping, NoSocket, SendEcho, ReplyLate, PingOver, TcpTry, TcpOver, Step,
         IInv, Shapes, TcpReadsNothing
<1>4. TcpReadsNothing'
  BY <1>1, <1>2, <1>3 DEF IInv, TcpReadsNothing
<1>5. OnlyReplies'
  <2>1. CASE SendEcho(a)
    <3>1. Reply(a, ping[a].seq, PingOf(a, ping[a].seq)) = PingReply(a, ping[a].seq, delay)
      BY DEF Reply, PingReply
    <3>2. \A p \in flight' : p \in flight \/ p = PingReply(a, ping[a].seq, delay)
      BY <2>1, <3>1 DEF SendEcho
    <3>3. QED
      BY <1>1, <3>2 DEF IInv, OnlyReplies
  <2>2. CASE ~SendEcho(a)
    BY <2>2, <1>1 DEF Ping, NoSocket, ReplyLate, PingOver, TcpTry, TcpOver, IInv, OnlyReplies
  <2>3. QED
    BY <2>1, <2>2
<1>6. QED
  BY <1>1, <1>2, <1>4, <1>5, SharedStays DEF IInv, PingsFirst

(* Traceroute begins when all pings are over, and goes back to none. *)
LEMMA TraceStep ==
  ASSUME IInv, Traceroute
  PROVE  IInv'
<1>1. UNCHANGED <<method, mistaken>>
  BY DEF Traceroute, StartTraces, NextTarget, TracesOver, SendProbe, HopLate, TraceOver,
         SkipHop, CacheHit, LookupASN, Annotated, traceRest, constants
<1>2. \A a \in Anchors : ping[a].at = "done"
  BY DEF Traceroute, StartTraces, NextTarget, TracesOver, SendProbe, HopLate, TraceOver,
         SkipHop, CacheHit, LookupASN, Annotated, IInv, PingsFirst
<1>3. /\ DOMAIN ping' = Anchors
      /\ \A a \in Anchors : DOMAIN ping'[a] = {"at", "seq", "ok", "wait", "used"}
      /\ \A a \in Anchors : ping'[a].at = "done"
  <2>1. CASE StartTraces
    BY <2>1 DEF StartTraces
  <2>2. CASE ~StartTraces
    <3>1. ping' = ping
      BY <2>2 DEF Traceroute, NextTarget, TracesOver, SendProbe, HopLate, TraceOver,
             SkipHop, CacheHit, LookupASN, Annotated, traceRest
    <3>2. QED
      BY <3>1, <1>2 DEF IInv, Shapes
  <2>3. QED
    BY <2>1, <2>2
<1>4. trace'.at # "idle" /\ DOMAIN trace' = {"at", "k", "ttl", "wait", "hops"}
  <2>1. DOMAIN trace = {"at", "k", "ttl", "wait", "hops"}
    BY DEF IInv, Shapes
  <2>2. CASE StartTraces \/ TracesOver \/ SendProbe \/ HopLate \/ TraceOver \/ Annotated
    BY <2>1, <2>2 DEF StartTraces, TracesOver, SendProbe, HopLate, TraceOver, Annotated
  <2>3. CASE NextTarget
    BY <2>1, <2>3 DEF NextTarget
  <2>4. CASE SkipHop \/ CacheHit \/ LookupASN
    BY <2>1, <2>4 DEF SkipHop, CacheHit, LookupASN, Labelled
  <2>5. QED
    BY <2>2, <2>3, <2>4 DEF Traceroute
<1>5. QED
  BY <1>1, <1>3, <1>4 DEF IInv, Shapes, TcpReadsNothing, PingsFirst, OnlyReplies, OwnReplies

(* Whoever takes a packet for the reply awaited is right. *)
LEMMA TakenIsOwn ==
  ASSUME IInv, NEW p \in flight \cup Strangers, NEW a \in Anchors, AwaitReply(a, p)
  PROVE  p.to = PingOf(a, ping[a].seq)
<1>1. trace.at = "idle"
  BY DEF AwaitReply, IInv, PingsFirst
<1>2. method \in {"icmp", "icmp-raw"}
  BY DEF AwaitReply, IInv, TcpReadsNothing
<1>3. p \notin Strangers
  <2>1. SUFFICES ASSUME NEW n \in Noise, p = Stranger(n[1], n[2], n[3])
                 PROVE  FALSE
    BY DEF Strangers
  <2>2. p.id = "other" /\ p.to.user = "stranger"
    BY <2>1 DEF Stranger, Nobody
  <2>3. QED
    BY <2>2, <1>2 DEF AwaitReply, Hears
<1>4. PICK b \in Anchors : \E n, left : p = PingReply(b, n, left)
  BY <1>1, <1>3 DEF IInv, OnlyReplies
<1>5. PICK n, left : p = PingReply(b, n, left)
  BY <1>4
<1>6. p.peer = b /\ p.seq = n /\ p.to = PingOf(b, n)
  BY <1>5 DEF PingReply
<1>7. QED
  BY <1>6 DEF AwaitReply, PeerIs

LEMMA DeliverStep ==
  ASSUME IInv, NEW p \in flight \cup Strangers, Deliver(p)
  PROVE  IInv'
<1>1. OwnReplies' /\ method' = method
  BY TakenIsOwn DEF Deliver, constants, IInv, OwnReplies
<1>2. /\ DOMAIN ping' = Anchors
      /\ \A a \in Anchors : DOMAIN ping'[a] = {"at", "seq", "ok", "wait", "used"}
  BY DEF Deliver, IInv, Shapes
<1>3. \A a \in Anchors : ping'[a].at = ping[a].at \/ (ping[a].at = "await" /\ ping'[a].at = "icmp")
  <2>1. SUFFICES ASSUME NEW a \in Anchors
                 PROVE  ping'[a].at = ping[a].at \/ (ping[a].at = "await" /\ ping'[a].at = "icmp")
    OBVIOUS
  <2>2. AwaitReply(a, p) => ping[a].at = "await"
    BY DEF AwaitReply
  <2>3. CASE AwaitReply(a, p)
    BY <2>2, <2>3 DEF Deliver, IInv, Shapes
  <2>4. CASE ~AwaitReply(a, p)
    <3>1. ping'[a] = [ping[a] EXCEPT !.wait = Remaining(@, ReplyTimeout)]
      BY <2>4 DEF Deliver
    <3>2. "at" \in DOMAIN ping[a]
      BY DEF IInv, Shapes
    <3>3. QED
      BY <3>1, <3>2
  <2>5. QED
    BY <2>3, <2>4
<1>4. /\ DOMAIN trace' = {"at", "k", "ttl", "wait", "hops"}
      /\ (trace'.at = "idle") = (trace.at = "idle")
  BY DEF Deliver, AwaitHop, IInv, Shapes
<1>5. TcpReadsNothing'
  BY <1>1, <1>3 DEF IInv, TcpReadsNothing
<1>6. PingsFirst'
  BY <1>3, <1>4 DEF IInv, PingsFirst
<1>7. OnlyReplies'
  BY <1>4 DEF Deliver, IInv, OnlyReplies
<1>8. QED
  BY <1>1, <1>2, <1>4, <1>5, <1>6, <1>7 DEF IInv, Shapes

LEMMA TickStep ==
  ASSUME IInv, Tick
  PROVE  IInv'
<1>1. UNCHANGED <<method, mistaken>>
  BY DEF Tick, constants
<1>2. /\ DOMAIN ping' = Anchors
      /\ \A a \in Anchors : DOMAIN ping'[a] = {"at", "seq", "ok", "wait", "used"}
      /\ \A a \in Anchors : ping'[a].at = ping[a].at
  BY DEF Tick, IInv, Shapes
<1>3. DOMAIN trace' = {"at", "k", "ttl", "wait", "hops"} /\ trace'.at = trace.at
  BY DEF Tick, IInv, Shapes
<1>4. OnlyReplies'
  <2>1. SUFFICES ASSUME trace.at = "idle", NEW q \in flight'
                 PROVE  \E a \in Anchors : \E n, left : q = PingReply(a, n, left)
    BY <1>3 DEF OnlyReplies
  <2>2. PICK p \in flight : q = [p EXCEPT !.left = Less(@)]
    BY <2>1 DEF Tick
  <2>3. PICK a \in Anchors : \E n, left : p = PingReply(a, n, left)
    BY <2>1 DEF IInv, OnlyReplies
  <2>4. PICK n, left : p = PingReply(a, n, left)
    BY <2>3
  <2>5. q = PingReply(a, n, Less(left))
    BY <2>2, <2>4 DEF PingReply
  <2>6. QED
    BY <2>5
<1>5. QED
  BY <1>1, <1>2, <1>3, <1>4 DEF IInv, Shapes, TcpReadsNothing, PingsFirst, OwnReplies

LEMMA StepInv == IInv /\ [Next]_vars => IInv'
<1>1. SUFFICES ASSUME IInv, [Next]_vars PROVE IInv'
  OBVIOUS
<1>2. CASE EndContext \/ UNCHANGED vars
  <2>1. /\ method' = method /\ ping' = ping /\ flight' = flight
        /\ trace' = trace /\ mistaken' = mistaken
    BY <1>2 DEF EndContext, vars, constants
  <2>2. Shapes'
    BY <1>1, <2>1 DEF IInv, Shapes
  <2>3. TcpReadsNothing' /\ PingsFirst'
    BY <1>1, <2>1 DEF IInv, TcpReadsNothing, PingsFirst
  <2>4. OnlyReplies'
    BY <1>1, <2>1 DEF IInv, OnlyReplies
  <2>5. QED
    BY <1>1, <2>1, <2>2, <2>3, <2>4 DEF IInv, OwnReplies
<1>3. QED
  BY <1>1, <1>2, PingStep, TraceStep, DeliverStep, TickStep DEF Next

(* No ping counts the answer to another one: not of another anchor, not a  *)
(* late one to an earlier request, not one for another program.            *)
THEOREM RepliesAreOwn == Spec => []OwnReplies
<1>1. IInv => OwnReplies
  BY DEF IInv
<1>2. QED
  BY <1>1, InitInv, StepInv, PTL DEF Spec

-----------------------------------------------------------------------------
(***************************************************************************)
(* The traces.  What is in flight is the answer of an anchor to one of its *)
(* requests, or the answer that the way of some target gives to some       *)
(* number.  Where answers come before the probe stops waiting, the one in  *)
(* flight is that of the probe under way, and its time is known exactly.   *)
(***************************************************************************)

Answer(t, n, left) ==
  IF n < Len(Path[t])
  THEN [kind |-> "exceeded", peer |-> Path[t][n], id |-> "own", seq |-> n, to |-> TraceOf(t, n), left |-> left]
  ELSE [kind |-> "reply", peer |-> t, id |-> "own", seq |-> n, to |-> TraceOf(t, n), left |-> left]

Labels == {"", "unknown", "number", "number and name"}
Hops == [ip : Nodes \cup Anchors \cup {""}, done : BOOLEAN, label : Labels]
Rows == [target : DOMAIN Path, hops : Seq(Hops), note : {"", "skipped", "filtered"}]

PingFields ==
  \A a \in Anchors : /\ ping[a].seq \in Nat /\ ping[a].wait \in Nat
                     /\ ping[a].at = "await" => ping[a].seq < Count

TraceFields ==
  /\ delay \in Nat
  /\ trace.at \in {"idle", "head", "probe", "await", "annotate", "done"}
  /\ trace.k \in Nat \ {0} /\ trace.ttl \in Nat \ {0} /\ trace.wait \in Nat
  /\ trace.hops \in Seq(Hops)
  /\ asnCache \in [Nodes \cup Anchors -> Labels]
  /\ trace.at \in {"probe", "await", "annotate"} => trace.k <= Len(Targets)
  /\ trace.at \in {"idle", "head", "done"} => trace.hops = <<>>
  /\ trace.at \in {"probe", "await"} =>
       trace.ttl = Len(trace.hops) + 1 /\ \A n \in DOMAIN trace.hops : ~trace.hops[n].done
  /\ out \in Seq(Rows) /\ Len(out) = trace.k - 1

IsEcho(p) == \E a \in Anchors, n \in Nat, left \in Nat : n < Count /\ p = PingReply(a, n, left)
IsAnswer(p, k) == \E j \in 1..k, n \in Nat \ {0}, left \in Nat :
                    j <= Len(Targets) /\ p = Answer(Targets[j], n, left)

InFlight == \A p \in flight : IsEcho(p) \/ IsAnswer(p, trace.k)

EchoInTime == delay < ReplyTimeout =>
  \A p \in flight : p.to.user = "ping" =>
    \E a \in Anchors : /\ ping[a].at = "await"
                       /\ p = PingReply(a, ping[a].seq, ping[a].wait - (ReplyTimeout - delay))

AnswerInTime == delay < ReplyTimeout /\ delay < HopTimeout =>
  \A p \in flight : p.to.user = "trace" =>
    trace.at = "await" /\ p = Answer(Target, trace.ttl, trace.wait - (HopTimeout - delay))

Told ==
  /\ Truthful(trace.k, trace.hops)
  /\ \A k \in DOMAIN out : Truthful(k, out[k].hops)

WayInv == IInv /\ PingFields /\ TraceFields /\ InFlight /\ EchoInTime /\ AnswerInTime /\ Told

LEMMA ConstantsHold ==
  /\ {Count, MaxHops, ReplyTimeout, HopTimeout} \subseteq Nat \ {0}
  /\ Delays \subseteq Nat /\ Targets \in Seq(DOMAIN Path)
BY IcmpAssumption

LEMMA WayHolds ==
  ASSUME NEW t \in DOMAIN Path
  PROVE  /\ Path[t] \in Seq(Nodes) /\ Len(Path[t]) \in Nat \ {0}
         /\ Path[t][Len(Path[t])] = t /\ t \in Nodes
         /\ \A n \in 1..Len(Path[t]) : Path[t][n] \in Nodes
<1>1. Path[t] \in Seq(Nodes) /\ Path[t] # <<>> /\ Path[t][Len(Path[t])] = t
  BY IcmpAssumption
<1>2. QED
  BY <1>1

LEMMA AnswerFields ==
  ASSUME NEW t, NEW n, NEW left, NEW p, p = Answer(t, n, left)
  PROVE  /\ p.id = "own" /\ p.seq = n /\ p.to = TraceOf(t, n) /\ p.to.user = "trace" /\ p.left = left
         /\ n < Len(Path[t]) => p.kind = "exceeded" /\ p.peer = Path[t][n]
         /\ ~(n < Len(Path[t])) => p.kind = "reply" /\ p.peer = t
<1>1. CASE n < Len(Path[t])
  BY <1>1 DEF Answer, TraceOf
<1>2. CASE ~(n < Len(Path[t]))
  BY <1>2 DEF Answer, TraceOf
<1>3. QED
  BY <1>1, <1>2

LEMMA AnswerIsHop ==
  ASSUME NEW t \in DOMAIN Path, NEW n \in Nat \ {0}, NEW left, NEW p, p = Answer(t, n, left),
         NEW hop, hop.ip = p.peer, hop.done <=> p.kind = "reply"
  PROVE  p.peer \in Nodes /\ HopOf(t, n, hop)
<1>1. /\ Len(Path[t]) \in Nat \ {0} /\ Path[t][Len(Path[t])] = t /\ t \in Nodes
      /\ \A m \in 1..Len(Path[t]) : Path[t][m] \in Nodes
  BY WayHolds
<1>2. CASE n < Len(Path[t])
  <2>1. hop.ip = Path[t][n] /\ ~hop.done /\ p.peer = Path[t][n]
    BY <1>2, AnswerFields
  <2>2. n \in 1..Len(Path[t]) /\ n <= Len(Path[t])
    BY <1>1, <1>2
  <2>3. QED
    BY <1>1, <2>1, <2>2 DEF HopOf
<1>3. CASE ~(n < Len(Path[t]))
  <2>1. hop.ip = t /\ hop.done /\ p.peer = t
    BY <1>3, AnswerFields
  <2>2. n >= Len(Path[t])
    BY <1>1, <1>3
  <2>3. QED
    BY <1>1, <2>1, <2>2 DEF HopOf
<1>4. QED
  BY <1>2, <1>3

LEMMA EchoFields ==
  ASSUME NEW a, NEW n, NEW left, NEW p, p = PingReply(a, n, left)
  PROVE  /\ p.kind = "reply" /\ p.peer = a /\ p.id = "own" /\ p.seq = n
         /\ p.to = PingOf(a, n) /\ p.to.user = "ping" /\ p.left = left
BY DEF PingReply, PingOf

LEMMA WayInit == Init => WayInv
<1> SUFFICES ASSUME Init PROVE WayInv
  OBVIOUS
<1>1. IInv
  BY InitInv
<1>2. PingFields
  BY ConstantsHold DEF Init, PingFields
<1>3. TraceFields
  <2>1. trace = [at |-> "idle", k |-> 1, ttl |-> 1, wait |-> 0, hops |-> <<>>]
    BY DEF Init
  <2>2. delay \in Nat
    BY ConstantsHold DEF Init
  <2>3. asnCache \in [Nodes \cup Anchors -> Labels]
    <3>1. asnCache = [ip \in Nodes \cup Anchors |-> "unknown"]
      BY DEF Init
    <3>2. QED
      BY <3>1 DEF Labels
  <2>4. out \in Seq(Rows) /\ Len(out) = 0 /\ <<>> \in Seq(Hops)
    BY DEF Init
  <2>5. QED
    BY <2>1, <2>2, <2>3, <2>4 DEF TraceFields
<1>4. InFlight /\ EchoInTime /\ AnswerInTime
  BY DEF Init, InFlight, EchoInTime, AnswerInTime
<1>5. Told
  BY DEF Init, Told, Truthful
<1>6. QED
  BY <1>1, <1>2, <1>3, <1>4, <1>5 DEF WayInv

LEMMA TargetOK ==
  ASSUME NEW j \in Nat \ {0}, j <= Len(Targets)
  PROVE  Targets[j] \in DOMAIN Path
BY ConstantsHold

(* A packet in flight is of one of two kinds, and has time left. *)
LEMMA Flying ==
  ASSUME InFlight, trace.k \in Nat \ {0}, NEW p \in flight
  PROVE  /\ p.left \in Nat
         /\ p.to.user = "ping" => IsEcho(p)
         /\ p.to.user = "trace" => IsAnswer(p, trace.k)
         /\ p.to.user \in {"ping", "trace"}
<1>1. CASE IsEcho(p)
  BY <1>1, EchoFields DEF IsEcho
<1>2. CASE IsAnswer(p, trace.k)
  <2>1. PICK j \in 1..trace.k, n \in Nat \ {0}, left \in Nat :
               j <= Len(Targets) /\ p = Answer(Targets[j], n, left)
    BY <1>2 DEF IsAnswer
  <2>2. Targets[j] \in DOMAIN Path
    BY <2>1, TargetOK
  <2>3. p.left = left /\ p.to.user = "trace"
    BY <2>1, <2>2, AnswerFields
  <2>4. QED
    BY <2>3, <1>2
<1>3. QED
  BY <1>1, <1>2 DEF InFlight

(* In time, nothing is left of a probe when its deadline is reached. *)
LEMMA NoLateEcho ==
  ASSUME WayInv, delay < ReplyTimeout, NEW a \in Anchors, NEW p \in flight,
         p = PingReply(a, ping[a].seq, ping[a].wait - (ReplyTimeout - delay))
  PROVE  ping[a].wait # 0
<1>1. p.left = ping[a].wait - (ReplyTimeout - delay)
  BY EchoFields
<1>2. p.left \in Nat
  BY Flying DEF WayInv, TraceFields
<1>3. delay \in Nat /\ ReplyTimeout \in Nat
  BY ConstantsHold DEF WayInv, TraceFields
<1>4. QED
  BY <1>1, <1>2, <1>3

LEMMA NoLateAnswer ==
  ASSUME WayInv, delay < HopTimeout, trace.at = "await", NEW p \in flight,
         p = Answer(Target, trace.ttl, trace.wait - (HopTimeout - delay))
  PROVE  trace.wait # 0
<1>1. Target \in DOMAIN Path /\ trace.ttl \in Nat \ {0}
  BY TargetOK DEF WayInv, TraceFields, Target
<1>2. p.left = trace.wait - (HopTimeout - delay)
  BY <1>1, AnswerFields
<1>3. p.left \in Nat
  BY Flying DEF WayInv, TraceFields
<1>4. delay \in Nat /\ HopTimeout \in Nat
  BY ConstantsHold DEF WayInv, TraceFields
<1>5. QED
  BY <1>2, <1>3, <1>4

(* What a ping does to its goroutine, and the packet it may send. *)
LEMMA PingMoves ==
  ASSUME WayInv, NEW a \in Anchors, Ping(a)
  PROVE  /\ UNCHANGED <<delay, trace, out, asnCache>>
         /\ DOMAIN ping' = Anchors /\ \A b \in Anchors \ {a} : ping'[b] = ping[b]
         /\ ping'[a].seq \in Nat /\ ping'[a].wait \in Nat
         /\ ping'[a].at = "await" => ping'[a].seq < Count
         /\ ping[a].at = "await" => ping[a].wait = 0
         /\ flight' # flight =>
              /\ ping[a].at = "icmp" /\ ping[a].seq < Count
              /\ ping'[a].at = "await" /\ ping'[a].seq = ping[a].seq /\ ping'[a].wait = ReplyTimeout
              /\ flight' = flight \cup {PingReply(a, ping[a].seq, delay)}
<1>1. /\ DOMAIN ping = Anchors /\ DOMAIN ping[a] = {"at", "seq", "ok", "wait", "used"}
      /\ ping[a].seq \in Nat /\ ping[a].wait \in Nat /\ ReplyTimeout \in Nat
  BY ConstantsHold DEF WayInv, PingFields, IInv, Shapes
<1>2. CASE SendEcho(a)
  <2>1. ping[a].at = "icmp" /\ ping[a].seq < Count
    BY <1>2 DEF SendEcho
  <2>2. CASE ping' = [ping EXCEPT ![a] = [ping[a] EXCEPT !.seq = @ + 1]] /\ flight' = flight
    BY <1>1, <1>2, <2>1, <2>2 DEF SendEcho, pingRest, constants
  <2>3. CASE ping' = [ping EXCEPT ![a] = [ping[a] EXCEPT !.at = "await", !.wait = ReplyTimeout]]
    <3>1. Reply(a, ping[a].seq, PingOf(a, ping[a].seq)) = PingReply(a, ping[a].seq, delay)
      BY DEF Reply, PingReply
    <3>2. ping'[a].at = "await" /\ ping'[a].seq = ping[a].seq /\ ping'[a].wait = ReplyTimeout
      BY <1>1, <2>3
    <3>3. flight' = flight \/ flight' = flight \cup {PingReply(a, ping[a].seq, delay)}
      BY <1>2, <3>1 DEF SendEcho
    <3>4. QED
      BY <1>1, <1>2, <2>1, <2>3, <3>2, <3>3 DEF SendEcho, pingRest, constants
  <2>4. QED
    BY <1>2, <2>2, <2>3 DEF SendEcho, Step
<1>3. CASE NoSocket(a) \/ ReplyLate(a) \/ PingOver(a) \/ TcpTry(a) \/ TcpOver(a)
  <2>1. UNCHANGED <<delay, trace, out, asnCache, flight>>
    BY <1>3 DEF NoSocket, ReplyLate, PingOver, TcpTry, TcpOver, pingRest, constants
  <2>2. ping[a].at = "await" => ping[a].wait = 0
    BY <1>3 DEF NoSocket, ReplyLate, PingOver, TcpTry, TcpOver
  <2>3. /\ DOMAIN ping' = Anchors /\ \A b \in Anchors \ {a} : ping'[b] = ping[b]
        /\ ping'[a].at # "await" /\ ping'[a].seq \in Nat /\ ping'[a].wait \in Nat
    <3>1. CASE NoSocket(a)
      <4>1. ping' = [ping EXCEPT ![a] = [ping[a] EXCEPT !.at = "tcp"]]
        BY <3>1 DEF NoSocket, Step
      <4>2. QED
        BY <1>1, <4>1
    <3>2. CASE ReplyLate(a)
      <4>1. ping' = [ping EXCEPT ![a] = [ping[a] EXCEPT !.at = "icmp", !.seq = @ + 1]]
        BY <3>2 DEF ReplyLate, Step
      <4>2. QED
        BY <1>1, <4>1
    <3>3. CASE PingOver(a)
      <4>1. CASE ping[a].ok > 0
        <5>1. ping' = [ping EXCEPT ![a] = [ping[a] EXCEPT !.at = "done", !.used = method]]
          BY <3>3, <4>1 DEF PingOver, Step
        <5>2. QED
          BY <1>1, <5>1
      <4>2. CASE ~(ping[a].ok > 0)
        <5>1. ping' = [ping EXCEPT ![a] = [ping[a] EXCEPT !.at = "tcp", !.seq = 0]]
          BY <3>3, <4>2 DEF PingOver, Step
        <5>2. QED
          BY <1>1, <5>1
      <4>3. QED
        BY <4>1, <4>2
    <3>4. CASE TcpTry(a)
      <4>1. PICK up \in {0, 1} : ping' = [ping EXCEPT ![a] = [ping[a] EXCEPT !.seq = @ + 1, !.ok = @ + up]]
        BY <3>4 DEF TcpTry, Step
      <4>2. ping[a].at = "tcp"
        BY <3>4 DEF TcpTry
      <4>3. QED
        BY <1>1, <4>1, <4>2
    <3>5. CASE TcpOver(a)
      <4>1. ping' = [ping EXCEPT ![a] = [ping[a] EXCEPT !.at = "done", !.used = "tcp:443"]]
        BY <3>5 DEF TcpOver, Step
      <4>2. QED
        BY <1>1, <4>1
    <3>6. QED
      BY <1>3, <3>1, <3>2, <3>3, <3>4, <3>5
  <2>4. QED
    BY <1>1, <2>1, <2>2, <2>3
<1>4. QED
  BY <1>2, <1>3 DEF Ping

LEMMA PingWay ==
  ASSUME WayInv, NEW a \in Anchors, Ping(a)
  PROVE  WayInv'
<1>1. IInv'
  BY PingStep DEF WayInv
<1>2. PingFields'
  BY PingMoves DEF WayInv, PingFields
<1>3. TraceFields' /\ Told'
  <2>1. UNCHANGED <<delay, trace, out, asnCache>>
    BY PingMoves
  <2>2. TraceFields'
    BY <2>1 DEF WayInv, TraceFields
  <2>3. Told'
    BY <2>1 DEF WayInv, Told, Truthful, LateHop
  <2>4. QED
    BY <2>2, <2>3
<1>4. \A p \in flight' : p \in flight \/ (p = PingReply(a, ping[a].seq, delay) /\ flight' # flight)
  <2>1. SUFFICES ASSUME NEW p \in flight', p \notin flight
                 PROVE  p = PingReply(a, ping[a].seq, delay) /\ flight' # flight
    OBVIOUS
  <2>2. flight' # flight
    BY <2>1
  <2>3. flight' = flight \cup {PingReply(a, ping[a].seq, delay)}
    BY <2>2, PingMoves
  <2>4. QED
    BY <2>1, <2>2, <2>3
<1>5. InFlight'
  <2>1. SUFFICES ASSUME NEW p \in flight' PROVE IsEcho(p)' \/ IsAnswer(p, trace.k)'
    BY DEF InFlight
  <2>2. CASE p \in flight
    BY <2>2, PingMoves DEF WayInv, InFlight, IsEcho, IsAnswer
  <2>3. CASE p = PingReply(a, ping[a].seq, delay) /\ flight' # flight
    BY <2>3, PingMoves DEF WayInv, PingFields, TraceFields, IsEcho
  <2>4. QED
    BY <1>4, <2>2, <2>3
<1>6. EchoInTime'
  <2>1. SUFFICES ASSUME delay < ReplyTimeout, NEW p \in flight', p.to.user = "ping"
                 PROVE  \E b \in Anchors :
                          /\ ping'[b].at = "await"
                          /\ p = PingReply(b, ping'[b].seq, ping'[b].wait - (ReplyTimeout - delay))
    BY PingMoves DEF EchoInTime
  <2>2. CASE p \in flight
    <3>1. PICK b \in Anchors : /\ ping[b].at = "await"
                               /\ p = PingReply(b, ping[b].seq, ping[b].wait - (ReplyTimeout - delay))
      BY <2>1, <2>2 DEF WayInv, EchoInTime
    <3>2. b # a
      BY <2>1, <2>2, <3>1, NoLateEcho, PingMoves
    <3>3. QED
      BY <3>1, <3>2, PingMoves
  <2>3. CASE p = PingReply(a, ping[a].seq, delay) /\ flight' # flight
    <3>1. ReplyTimeout - (ReplyTimeout - delay) = delay
      BY ConstantsHold DEF WayInv, TraceFields
    <3>2. QED
      BY <2>3, <3>1, PingMoves
  <2>4. QED
    BY <1>4, <2>2, <2>3
<1>7. AnswerInTime'
  <2>1. SUFFICES ASSUME delay < ReplyTimeout, delay < HopTimeout, NEW p \in flight', p.to.user = "trace"
                 PROVE  trace.at = "await" /\ p = Answer(Target, trace.ttl, trace.wait - (HopTimeout - delay))
    BY PingMoves DEF AnswerInTime, Target
  <2>2. p \in flight
    BY <1>4, <2>1, EchoFields
  <2>3. QED
    BY <2>1, <2>2 DEF WayInv, AnswerInTime
<1>8. QED
  BY <1>1, <1>2, <1>3, <1>5, <1>6, <1>7 DEF WayInv

LEMMA OlderEcho ==
  ASSUME NEW a, NEW n, NEW left, NEW q, q = [PingReply(a, n, left) EXCEPT !.left = Less(@)]
  PROVE  q = PingReply(a, n, Less(left))
BY DEF PingReply

LEMMA OlderAnswer ==
  ASSUME NEW t, NEW n, NEW left, NEW q, q = [Answer(t, n, left) EXCEPT !.left = Less(@)]
  PROVE  q = Answer(t, n, Less(left))
<1>1. CASE n < Len(Path[t])
  BY <1>1 DEF Answer
<1>2. CASE ~(n < Len(Path[t]))
  BY <1>2 DEF Answer
<1>3. QED
  BY <1>1, <1>2

LEMMA TickMoves ==
  ASSUME WayInv, Tick
  PROVE  /\ UNCHANGED <<delay, out, asnCache>>
         /\ \A a \in Anchors : /\ ping'[a].at = ping[a].at /\ ping'[a].seq = ping[a].seq
                               /\ ping'[a].wait = Less(ping[a].wait)
                               /\ ping[a].at = "await" => ping[a].wait > 0
         /\ trace'.at = trace.at /\ trace'.k = trace.k /\ trace'.ttl = trace.ttl
         /\ trace'.hops = trace.hops /\ trace'.wait = Less(trace.wait)
         /\ trace.at = "await" => trace.wait > 0
         /\ \A q \in flight' : \E p \in flight : p.left > 0 /\ q = [p EXCEPT !.left = Less(@)]
<1>1. \A a \in Anchors : ping'[a] = [ping[a] EXCEPT !.wait = Less(@)]
  BY DEF Tick
<1>2. /\ \A a \in Anchors : DOMAIN ping[a] = {"at", "seq", "ok", "wait", "used"}
      /\ DOMAIN trace = {"at", "k", "ttl", "wait", "hops"}
  BY DEF WayInv, IInv, Shapes
<1>3. \A q \in flight' : \E p \in flight : p.left > 0 /\ q = [p EXCEPT !.left = Less(@)]
  BY DEF Tick
<1>4. trace' = [trace EXCEPT !.wait = Less(@)]
  BY DEF Tick
<1>5. \A a \in Anchors : /\ ping'[a].at = ping[a].at /\ ping'[a].seq = ping[a].seq
                         /\ ping'[a].wait = Less(ping[a].wait)
  BY <1>1, <1>2
<1>6. /\ UNCHANGED <<delay, out, asnCache>>
      /\ \A a \in Anchors : ping[a].at = "await" => ping[a].wait > 0
      /\ trace.at = "await" => trace.wait > 0
  BY DEF Tick, constants
<1>7. /\ trace'.at = trace.at /\ trace'.k = trace.k /\ trace'.ttl = trace.ttl
      /\ trace'.hops = trace.hops /\ trace'.wait = Less(trace.wait)
  BY <1>2, <1>4
<1>8. QED
  BY <1>3, <1>5, <1>6, <1>7

LEMMA LessIsNat == \A n \in Nat : Less(n) \in Nat /\ (n > 0 => Less(n) = n - 1)
BY DEF Less

LEMMA TickWay ==
  ASSUME WayInv, Tick
  PROVE  WayInv'
<1>1. IInv'
  BY TickStep DEF WayInv
<1>2. PingFields'
  BY TickMoves, LessIsNat DEF WayInv, PingFields
<1>3. TraceFields'
  BY TickMoves, LessIsNat DEF WayInv, TraceFields
<1>4. Told'
  <2>1. trace'.k = trace.k /\ trace'.hops = trace.hops /\ out' = out /\ delay' = delay
    BY TickMoves
  <2>2. QED
    BY <2>1 DEF WayInv, Told, Truthful, LateHop
<1>5. InFlight'
  <2>1. SUFFICES ASSUME NEW q \in flight' PROVE IsEcho(q) \/ IsAnswer(q, trace.k)
    BY TickMoves DEF InFlight, IsEcho, IsAnswer
  <2>2. PICK p \in flight : p.left > 0 /\ q = [p EXCEPT !.left = Less(@)]
    BY TickMoves
  <2>3. CASE IsEcho(p)
    <3>1. PICK a \in Anchors, n \in Nat, left \in Nat : n < Count /\ p = PingReply(a, n, left)
      BY <2>3 DEF IsEcho
    <3>2. q = PingReply(a, n, Less(left))
      BY <2>2, <3>1, OlderEcho
    <3>3. QED
      BY <3>1, <3>2, LessIsNat DEF IsEcho
  <2>4. CASE IsAnswer(p, trace.k)
    <3>1. PICK j \in 1..trace.k, n \in Nat \ {0}, left \in Nat :
                 j <= Len(Targets) /\ p = Answer(Targets[j], n, left)
      BY <2>4 DEF IsAnswer
    <3>2. q = Answer(Targets[j], n, Less(left))
      BY <2>2, <3>1, OlderAnswer
    <3>3. QED
      BY <3>1, <3>2, LessIsNat DEF IsAnswer
  <2>5. QED
    BY <2>3, <2>4 DEF WayInv, InFlight
<1>6. EchoInTime'
  <2>1. SUFFICES ASSUME delay < ReplyTimeout, NEW q \in flight', q.to.user = "ping"
                 PROVE  \E a \in Anchors :
                          /\ ping'[a].at = "await"
                          /\ q = PingReply(a, ping'[a].seq, ping'[a].wait - (ReplyTimeout - delay))
    BY TickMoves DEF EchoInTime
  <2>2. PICK p \in flight : p.left > 0 /\ q = [p EXCEPT !.left = Less(@)]
    BY TickMoves
  <2>3. p.to.user = "ping"
    <3>1. IsEcho(p) \/ IsAnswer(p, trace.k)
      BY DEF WayInv, InFlight
    <3>2. CASE IsEcho(p)
      BY <3>2, EchoFields DEF IsEcho
    <3>3. CASE IsAnswer(p, trace.k)
      <4>1. PICK j \in 1..trace.k, n \in Nat \ {0}, left \in Nat : p = Answer(Targets[j], n, left)
        BY <3>3 DEF IsAnswer
      <4>2. q.to.user = "trace"
        BY <2>2, <4>1, OlderAnswer, AnswerFields
      <4>3. QED
        BY <2>1, <4>2
    <3>4. QED
      BY <3>1, <3>2, <3>3
  <2>4. PICK a \in Anchors : /\ ping[a].at = "await"
                             /\ p = PingReply(a, ping[a].seq, ping[a].wait - (ReplyTimeout - delay))
    BY <2>1, <2>3 DEF WayInv, EchoInTime
  <2>5. /\ p.left = ping[a].wait - (ReplyTimeout - delay) /\ p.left \in Nat
        /\ ping[a].wait \in Nat /\ delay \in Nat /\ ReplyTimeout \in Nat
    BY <2>4, EchoFields, Flying, ConstantsHold DEF WayInv, PingFields, TraceFields
  <2>6. Less(ping[a].wait - (ReplyTimeout - delay)) = Less(ping[a].wait) - (ReplyTimeout - delay)
    BY <2>2, <2>4, <2>5, TickMoves DEF Less
  <2>7. q = PingReply(a, ping[a].seq, Less(ping[a].wait) - (ReplyTimeout - delay))
    BY <2>2, <2>4, <2>6, OlderEcho
  <2>8. QED
    BY <2>4, <2>7, TickMoves
<1>7. AnswerInTime'
  <2>1. SUFFICES ASSUME delay < ReplyTimeout, delay < HopTimeout, NEW q \in flight', q.to.user = "trace"
                 PROVE  /\ trace.at = "await"
                        /\ q = Answer(Target, trace.ttl, Less(trace.wait) - (HopTimeout - delay))
    BY TickMoves DEF AnswerInTime, Target
  <2>2. PICK p \in flight : p.left > 0 /\ q = [p EXCEPT !.left = Less(@)]
    BY TickMoves
  <2>3. p.to.user = "trace"
    <3>1. SUFFICES ASSUME IsEcho(p) PROVE FALSE
      BY Flying DEF WayInv, TraceFields
    <3>2. PICK a \in Anchors, n \in Nat, left \in Nat : p = PingReply(a, n, left)
      BY <3>1 DEF IsEcho
    <3>3. q.to.user = "ping"
      BY <2>2, <3>2, OlderEcho, EchoFields
    <3>4. QED
      BY <2>1, <3>3
  <2>4. trace.at = "await" /\ p = Answer(Target, trace.ttl, trace.wait - (HopTimeout - delay))
    BY <2>1, <2>3 DEF WayInv, AnswerInTime
  <2>5. /\ p.left = trace.wait - (HopTimeout - delay) /\ p.left \in Nat
        /\ trace.wait \in Nat /\ delay \in Nat /\ HopTimeout \in Nat
    BY <2>4, AnswerFields, Flying, ConstantsHold DEF WayInv, TraceFields
  <2>6. Less(trace.wait - (HopTimeout - delay)) = Less(trace.wait) - (HopTimeout - delay)
    BY <2>2, <2>4, <2>5, TickMoves DEF Less
  <2>7. QED
    BY <2>2, <2>4, <2>6, OlderAnswer
<1>8. QED
  BY <1>1, <1>2, <1>3, <1>4, <1>5, <1>6, <1>7 DEF WayInv

NewHop(p) == [ip |-> p.peer, done |-> p.kind = "reply", label |-> ""]

LEMMA DeliverMoves ==
  ASSUME WayInv, NEW p \in flight \cup Strangers, Deliver(p)
  PROVE  /\ UNCHANGED <<delay, out, asnCache>> /\ flight' = flight \ {p}
         /\ \A a \in Anchors :
              /\ ping'[a].wait = ping[a].wait
              /\ AwaitReply(a, p)  => ping'[a].at = "icmp" /\ ping'[a].seq = ping[a].seq + 1
              /\ ~AwaitReply(a, p) => ping'[a].at = ping[a].at /\ ping'[a].seq = ping[a].seq
         /\ trace'.k = trace.k /\ trace'.wait = trace.wait
         /\ ~AwaitHop(p) => trace'.at = trace.at /\ trace'.ttl = trace.ttl /\ trace'.hops = trace.hops
         /\ AwaitHop(p) =>
              /\ trace.at = "await" /\ p.id = "own" /\ p.seq = trace.ttl
              /\ trace'.hops = Append(trace.hops, NewHop(p))
              /\ p.kind = "reply" => trace'.at = "annotate" /\ trace'.ttl = 1
              /\ p.kind # "reply" => trace'.at = "probe" /\ trace'.ttl = trace.ttl + 1
<1>1. /\ \A a \in Anchors : DOMAIN ping[a] = {"at", "seq", "ok", "wait", "used"}
      /\ DOMAIN trace = {"at", "k", "ttl", "wait", "hops"}
  BY DEF WayInv, IInv, Shapes
<1>2. ASSUME NEW a \in Anchors
      PROVE  /\ ping'[a].wait = ping[a].wait
             /\ AwaitReply(a, p)  => ping'[a].at = "icmp" /\ ping'[a].seq = ping[a].seq + 1
             /\ ~AwaitReply(a, p) => ping'[a].at = ping[a].at /\ ping'[a].seq = ping[a].seq
  <2>1. CASE AwaitReply(a, p)
    <3>1. ping'[a] = [ping[a] EXCEPT !.at = "icmp", !.seq = @ + 1, !.ok = @ + 1]
      BY <2>1 DEF Deliver
    <3>2. QED
      BY <1>1, <2>1, <3>1
  <2>2. CASE ~AwaitReply(a, p)
    <3>1. ping'[a] = [ping[a] EXCEPT !.wait = Remaining(@, ReplyTimeout)]
      BY <2>2 DEF Deliver
    <3>2. QED
      BY <1>1, <2>2, <3>1 DEF Remaining
  <2>3. QED
    BY <2>1, <2>2
<1>3. CASE AwaitHop(p)
  <2>1. trace' = [trace EXCEPT !.at = IF p.kind = "reply" THEN "annotate" ELSE "probe",
                               !.ttl = IF p.kind = "reply" THEN 1 ELSE @ + 1,
                               !.hops = Append(@, NewHop(p))]
    BY <1>3 DEF Deliver, NewHop
  <2>2. trace.at = "await" /\ p.id = "own" /\ p.seq = trace.ttl
    BY <1>3 DEF AwaitHop, QuotesProbe
  <2>3. UNCHANGED <<delay, out, asnCache>> /\ flight' = flight \ {p}
    BY DEF Deliver, constants
  <2>4. QED
    BY <1>1, <1>2, <1>3, <2>1, <2>2, <2>3
<1>4. CASE ~AwaitHop(p)
  <2>1. trace' = [trace EXCEPT !.wait = @]
    BY <1>4 DEF Deliver, Remaining
  <2>2. UNCHANGED <<delay, out, asnCache>> /\ flight' = flight \ {p}
    BY DEF Deliver, constants
  <2>3. QED
    BY <1>1, <1>2, <1>4, <2>1, <2>2
<1>5. QED
  BY <1>3, <1>4

(* What awaitHop takes is on the way of the target, or late. *)
LEMMA HopIsTold ==
  ASSUME WayInv, NEW p \in flight, trace.at = "await", p.seq = trace.ttl,
         NEW hop, hop.ip = p.peer, hop.done <=> p.kind = "reply"
  PROVE  /\ p.peer \in Nodes \cup Anchors
         /\ HopOf(Target, trace.ttl, hop) \/ LateHop(trace.k, trace.ttl, hop)
<1>1. /\ delay \in Nat /\ trace.k \in Nat \ {0} /\ trace.k <= Len(Targets) /\ trace.ttl \in Nat \ {0}
      /\ ReplyTimeout \in Nat /\ HopTimeout \in Nat
  BY ConstantsHold DEF WayInv, TraceFields
<1>2. CASE IsEcho(p)
  <2>1. PICK a \in Anchors, n \in Nat, left \in Nat : n < Count /\ p = PingReply(a, n, left)
    BY <1>2 DEF IsEcho
  <2>2. hop.done /\ hop.ip = a /\ trace.ttl = n /\ p.to.user = "ping" /\ p.peer = a
    BY <2>1, EchoFields
  <2>3. \A b \in Anchors : ping[b].at = "done"
    BY DEF WayInv, IInv, PingsFirst
  <2>4. delay >= ReplyTimeout
    BY <1>1, <2>2, <2>3 DEF WayInv, EchoInTime
  <2>5. QED
    BY <2>1, <2>2, <2>4 DEF LateHop
<1>3. CASE IsAnswer(p, trace.k)
  <2>1. PICK j \in 1..trace.k, n \in Nat \ {0}, left \in Nat :
               j <= Len(Targets) /\ p = Answer(Targets[j], n, left)
    BY <1>3 DEF IsAnswer
  <2>2. Targets[j] \in DOMAIN Path /\ Target \in DOMAIN Path
    BY <1>1, <2>1, TargetOK DEF Target
  <2>3. n = trace.ttl /\ p.to.user = "trace"
    BY <2>1, AnswerFields
  <2>4. p.peer \in Nodes /\ HopOf(Targets[j], trace.ttl, hop)
    BY <2>1, <2>2, <2>3, AnswerIsHop
  <2>5. CASE j = trace.k
    BY <2>4, <2>5 DEF Target
  <2>6. CASE j # trace.k /\ (delay >= HopTimeout \/ delay >= ReplyTimeout)
    <3>1. j \in 1..(trace.k - 1)
      BY <1>1, <2>6
    <3>2. QED
      BY <2>4, <2>6, <3>1 DEF LateHop
  <2>7. CASE ~(delay >= HopTimeout \/ delay >= ReplyTimeout)
    <3>1. p = Answer(Target, trace.ttl, trace.wait - (HopTimeout - delay))
      BY <1>1, <2>3, <2>7 DEF WayInv, AnswerInTime
    <3>2. QED
      BY <1>1, <2>2, <3>1, AnswerIsHop
  <2>8. QED
    BY <2>5, <2>6, <2>7
<1>4. QED
  BY <1>2, <1>3 DEF WayInv, InFlight

LEMMA StrangersAreOthers ==
  ASSUME NEW p \in Strangers
  PROVE  p.id = "other" /\ p.to.user = "stranger"
BY DEF Strangers, Stranger, Nobody

LEMMA DeliverHop ==
  ASSUME WayInv, NEW p \in flight \cup Strangers, Deliver(p), AwaitHop(p)
  PROVE  /\ trace'.hops = Append(trace.hops, NewHop(p)) /\ NewHop(p) \in Hops
         /\ HopOf(Target, trace.ttl, NewHop(p)) \/ LateHop(trace.k, trace.ttl, NewHop(p))
<1>1. /\ trace.at = "await" /\ p.id = "own" /\ p.seq = trace.ttl
      /\ trace'.hops = Append(trace.hops, NewHop(p))
  BY DeliverMoves
<1>2. p \in flight
  BY <1>1, StrangersAreOthers
<1>3. NewHop(p).ip = p.peer /\ (NewHop(p).done <=> p.kind = "reply")
  BY DEF NewHop
<1>4. /\ p.peer \in Nodes \cup Anchors
      /\ HopOf(Target, trace.ttl, NewHop(p)) \/ LateHop(trace.k, trace.ttl, NewHop(p))
  BY <1>1, <1>2, <1>3, HopIsTold
<1>5. NewHop(p) \in Hops
  <2>1. (p.kind = "reply") \in BOOLEAN
    OBVIOUS
  <2>2. QED
    BY <1>4, <2>1 DEF NewHop, Hops, Labels
<1>6. QED
  BY <1>1, <1>4, <1>5

LEMMA DeliverFields ==
  ASSUME WayInv, NEW p \in flight \cup Strangers, Deliver(p)
  PROVE  TraceFields' /\ Told'
<1>1. /\ UNCHANGED <<delay, out, asnCache>> /\ trace'.k = trace.k /\ trace'.wait = trace.wait
  BY DeliverMoves
<1>2. CASE ~AwaitHop(p)
  <2>1. trace'.at = trace.at /\ trace'.ttl = trace.ttl /\ trace'.hops = trace.hops
    BY <1>2, DeliverMoves
  <2>2. TraceFields'
    BY <1>1, <2>1 DEF WayInv, TraceFields
  <2>3. Told'
    BY <1>1, <2>1 DEF WayInv, Told, Truthful, LateHop
  <2>4. QED
    BY <2>2, <2>3
<1>3. CASE AwaitHop(p)
  <2> DEFINE hops == trace.hops
             hop  == NewHop(p)
  <2>1. /\ trace'.hops = Append(hops, hop) /\ hop \in Hops
        /\ HopOf(Target, trace.ttl, hop) \/ LateHop(trace.k, trace.ttl, hop)
    BY <1>3, DeliverHop
  <2>2. /\ trace.at = "await"
        /\ p.kind = "reply" => trace'.at = "annotate" /\ trace'.ttl = 1
        /\ p.kind # "reply" => trace'.at = "probe" /\ trace'.ttl = trace.ttl + 1
    BY <1>3, DeliverMoves
  <2>3. /\ hops \in Seq(Hops) /\ trace.ttl = Len(hops) + 1 /\ trace.k <= Len(Targets)
        /\ \A n \in DOMAIN hops : ~hops[n].done
    BY <2>2 DEF WayInv, TraceFields
  <2>4. hop.done <=> p.kind = "reply"
    BY DEF NewHop
  <2>5. /\ trace'.hops \in Seq(Hops) /\ Len(trace'.hops) = trace.ttl
        /\ DOMAIN trace'.hops = 1..trace.ttl
        /\ trace'.hops[trace.ttl] = hop
        /\ \A n \in 1..trace.ttl : n # trace.ttl => n \in DOMAIN hops /\ trace'.hops[n] = hops[n]
    BY <2>1, <2>3
  <2>6. p.kind # "reply" => \A n \in DOMAIN trace'.hops : ~trace'.hops[n].done
    BY <2>3, <2>4, <2>5
  <2>7. TraceFields'
    <3>1. CASE p.kind = "reply"
      BY <1>1, <2>2, <2>3, <2>5, <3>1 DEF WayInv, TraceFields
    <3>2. CASE p.kind # "reply"
      BY <1>1, <2>2, <2>3, <2>5, <2>6, <3>2 DEF WayInv, TraceFields
    <3>3. QED
      BY <3>1, <3>2
  <2>8. Truthful(trace.k, trace'.hops)
    <3>1. SUFFICES ASSUME NEW n \in 1..trace.ttl
                   PROVE  LET h == trace'.hops[n] IN
                            /\ h.done => n = trace.ttl
                            /\ h.ip = "" \/ HopOf(Targets[trace.k], n, h) \/ LateHop(trace.k, n, h)
      BY <2>5 DEF Truthful
    <3>2. CASE n = trace.ttl
      BY <2>1, <2>5, <3>2 DEF Target
    <3>3. CASE n # trace.ttl
      BY <2>3, <2>5, <3>3 DEF WayInv, Told, Truthful
    <3>4. QED
      BY <3>2, <3>3
  <2>9. Told'
    BY <1>1, <2>8 DEF WayInv, Told, Truthful, LateHop
  <2>10. QED
    BY <2>7, <2>9
<1>4. QED
  BY <1>2, <1>3

LEMMA DeliverWay ==
  ASSUME WayInv, NEW p \in flight \cup Strangers, Deliver(p)
  PROVE  WayInv'
<1>1. IInv'
  BY DeliverStep DEF WayInv
<1>2. /\ UNCHANGED <<delay, out, asnCache>> /\ trace'.k = trace.k /\ trace'.wait = trace.wait
      /\ flight' = flight \ {p}
  BY DeliverMoves
<1>3. PingFields'
  <2>1. SUFFICES ASSUME NEW a \in Anchors
                 PROVE  /\ ping'[a].seq \in Nat /\ ping'[a].wait \in Nat
                        /\ ping'[a].at = "await" => ping'[a].seq < Count
    BY DEF PingFields
  <2>2. CASE AwaitReply(a, p)
    BY <2>2, DeliverMoves DEF WayInv, PingFields
  <2>3. CASE ~AwaitReply(a, p)
    BY <2>3, DeliverMoves DEF WayInv, PingFields
  <2>4. QED
    BY <2>2, <2>3
<1>4. TraceFields' /\ Told'
  BY DeliverFields
<1>5. InFlight'
  BY <1>2 DEF WayInv, InFlight, IsEcho, IsAnswer
<1>6. EchoInTime'
  <2>1. SUFFICES ASSUME delay < ReplyTimeout, NEW q \in flight, q # p, q.to.user = "ping"
                 PROVE  \E a \in Anchors :
                          /\ ping'[a].at = "await"
                          /\ q = PingReply(a, ping'[a].seq, ping'[a].wait - (ReplyTimeout - delay))
    BY <1>2 DEF EchoInTime
  <2>2. PICK a \in Anchors : /\ ping[a].at = "await"
                             /\ q = PingReply(a, ping[a].seq, ping[a].wait - (ReplyTimeout - delay))
    BY <2>1 DEF WayInv, EchoInTime
  <2>3. ~AwaitReply(a, p)
    <3>1. SUFFICES ASSUME AwaitReply(a, p) PROVE FALSE
      OBVIOUS
    <3>2. p.to = PingOf(a, ping[a].seq)
      BY <3>1, TakenIsOwn DEF WayInv
    <3>3. p.to.user = "ping" /\ p.to.host = a
      BY <3>2 DEF PingOf
    <3>4. p \in flight
      BY <3>3, StrangersAreOthers
    <3>5. PICK b \in Anchors : p = PingReply(b, ping[b].seq, ping[b].wait - (ReplyTimeout - delay))
      BY <2>1, <3>3, <3>4 DEF WayInv, EchoInTime
    <3>6. p.to = PingOf(b, ping[b].seq)
      BY <3>5, EchoFields
    <3>7. a = b
      BY <3>3, <3>6 DEF PingOf
    <3>8. QED
      BY <2>1, <2>2, <3>5, <3>7
  <2>4. QED
    BY <2>2, <2>3, DeliverMoves
<1>7. AnswerInTime'
  <2>1. SUFFICES ASSUME delay < ReplyTimeout, delay < HopTimeout, NEW q \in flight, q # p, q.to.user = "trace"
                 PROVE  /\ trace'.at = "await"
                        /\ q = Answer(Target, trace'.ttl, trace.wait - (HopTimeout - delay))
    BY <1>2 DEF AnswerInTime, Target
  <2>2. trace.at = "await" /\ q = Answer(Target, trace.ttl, trace.wait - (HopTimeout - delay))
    BY <2>1 DEF WayInv, AnswerInTime
  <2>3. ~AwaitHop(p)
    <3>1. SUFFICES ASSUME AwaitHop(p) PROVE FALSE
      OBVIOUS
    <3>2. p \in flight
      BY <3>1, DeliverMoves, StrangersAreOthers
    <3>3. p.to.user # "ping"
      BY <2>1, <2>2, <3>2 DEF WayInv, EchoInTime, IInv, PingsFirst
    <3>4. p.to.user = "trace"
      BY <3>2, <3>3, Flying DEF WayInv, TraceFields
    <3>5. QED
      BY <2>1, <2>2, <3>2, <3>4 DEF WayInv, AnswerInTime
  <2>4. QED
    BY <2>2, <2>3, DeliverMoves
<1>8. QED
  BY <1>1, <1>3, <1>4, <1>5, <1>6, <1>7 DEF WayInv

(* A step of Traceroute: no ping is under way, and no hop is waited for.   *)
LEMMA TraceQuiet ==
  ASSUME WayInv, Traceroute
  PROVE  /\ delay' = delay
         /\ \A a \in Anchors : /\ ping[a].at = "done" /\ ping'[a].at = "done"
                               /\ ping'[a].seq \in Nat /\ ping'[a].wait \in Nat
         /\ trace.at = "await" => trace.wait = 0
<1>1. delay' = delay /\ (trace.at = "await" => trace.wait = 0)
  BY DEF Traceroute, StartTraces, NextTarget, TracesOver, SendProbe, HopLate, TraceOver,
         SkipHop, CacheHit, LookupASN, Annotated, traceRest, constants
<1>2. CASE StartTraces
  BY <1>1, <1>2 DEF StartTraces
<1>3. CASE ~StartTraces
  <2>1. ping' = ping /\ trace.at # "idle"
    BY <1>3 DEF Traceroute, NextTarget, TracesOver, SendProbe, HopLate, TraceOver,
           SkipHop, CacheHit, LookupASN, Annotated, traceRest
  <2>2. QED
    BY <1>1, <2>1 DEF WayInv, PingFields, IInv, PingsFirst
<1>4. QED
  BY <1>2, <1>3

LEMMA TraceSilent ==
  ASSUME WayInv, Traceroute, delay < ReplyTimeout, NEW p \in flight
  PROVE  p.to.user = "trace" /\ delay >= HopTimeout
<1>1. p.to.user = "trace"
  <2>1. p.to.user # "ping"
    BY TraceQuiet DEF WayInv, EchoInTime
  <2>2. QED
    BY <2>1, Flying DEF WayInv, TraceFields
<1>2. ~(delay < HopTimeout)
  <2>1. SUFFICES ASSUME delay < HopTimeout PROVE FALSE
    OBVIOUS
  <2>2. trace.at = "await" /\ p = Answer(Target, trace.ttl, trace.wait - (HopTimeout - delay))
    BY <1>1, <2>1 DEF WayInv, AnswerInTime
  <2>3. QED
    BY <2>1, <2>2, NoLateAnswer, TraceQuiet
<1>3. delay \in Nat /\ HopTimeout \in Nat
  BY ConstantsHold DEF WayInv, TraceFields
<1>4. QED
  BY <1>1, <1>2, <1>3

LEMMA TraceSends ==
  ASSUME WayInv, Traceroute
  PROVE  /\ trace'.k >= trace.k /\ trace'.k \in Nat \ {0}
         /\ flight' = flight \/ /\ flight' = flight \cup {Answer(Target, trace.ttl, delay)}
                                /\ trace.k <= Len(Targets) /\ trace'.k = trace.k /\ trace'.ttl = trace.ttl
                                /\ trace'.at = "await" /\ trace'.wait = HopTimeout
<1>1. DOMAIN trace = {"at", "k", "ttl", "wait", "hops"} /\ trace.k \in Nat \ {0}
  BY DEF WayInv, IInv, Shapes, TraceFields
<1>2. CASE SendProbe
  <2>1. trace' = [trace EXCEPT !.at = "await", !.wait = HopTimeout] /\ trace.k <= Len(Targets)
    BY <1>2 DEF SendProbe, WayInv, TraceFields
  <2>2. flight' = flight \/ flight' = flight \cup {Answer(Target, trace.ttl, delay)}
    <3>1. CASE trace.ttl < Len(Path[Target])
      BY <1>2, <3>1 DEF SendProbe, Answer, Exceeded, Reply
    <3>2. CASE ~(trace.ttl < Len(Path[Target]))
      BY <1>2, <3>2 DEF SendProbe, Answer, Reply
    <3>3. QED
      BY <3>1, <3>2
  <2>3. QED
    BY <1>1, <2>1, <2>2
<1>3. CASE ~SendProbe
  <2>1. flight' = flight
    BY <1>3 DEF Traceroute, StartTraces, NextTarget, TracesOver, HopLate, TraceOver,
           SkipHop, CacheHit, LookupASN, Annotated
  <2>2. trace'.k >= trace.k /\ trace'.k \in Nat \ {0}
    <3>1. CASE StartTraces \/ TracesOver \/ TraceOver
      <4>1. \/ trace' = [trace EXCEPT !.at = "head"] \/ trace' = [trace EXCEPT !.at = "done"]
            \/ trace' = [trace EXCEPT !.at = "annotate", !.ttl = 1]
        BY <3>1 DEF StartTraces, TracesOver, TraceOver
      <4>2. trace'.k = trace.k
        BY <1>1, <4>1
      <4>3. QED
        BY <1>1, <4>2
    <3>2. CASE HopLate
      BY <1>1, <3>2 DEF HopLate
    <3>3. CASE NextTarget
      BY <1>1, <3>3 DEF NextTarget
    <3>4. CASE SkipHop \/ CacheHit \/ LookupASN
      <4>1. \E label : Labelled(label)
        BY <3>4 DEF SkipHop, CacheHit, LookupASN
      <4>2. \A label : Labelled(label) => trace'.k = trace.k
        BY <1>1 DEF Labelled
      <4>3. QED
        BY <1>1, <4>1, <4>2
    <3>5. CASE Annotated
      BY <1>1, <3>5 DEF Annotated
    <3>6. QED
      BY <1>3, <3>1, <3>2, <3>3, <3>4, <3>5 DEF Traceroute
  <2>3. QED
    BY <2>1, <2>2
<1>4. QED
  BY <1>2, <1>3

(* What LookupASN writes changes no hop but for its label. *)
LEMMA LabelFields ==
  ASSUME WayInv, trace.at = "annotate", trace.ttl <= Len(trace.hops), NEW label \in Labels, Labelled(label)
  PROVE  /\ trace'.at = trace.at /\ trace'.k = trace.k /\ trace'.wait = trace.wait
         /\ trace'.ttl \in Nat \ {0} /\ trace'.hops \in Seq(Hops)
         /\ Truthful(trace.k, trace'.hops)
<1> DEFINE hops == trace.hops
           n    == trace.ttl
<1>1. /\ DOMAIN trace = {"at", "k", "ttl", "wait", "hops"} /\ n \in Nat \ {0} /\ hops \in Seq(Hops)
      /\ n \in DOMAIN hops /\ hops[n] \in Hops
  BY DEF WayInv, IInv, Shapes, TraceFields
<1>2. trace' = [trace EXCEPT !.ttl = @ + 1, !.hops = [hops EXCEPT ![n] = [hops[n] EXCEPT !.label = label]]]
  BY <1>1 DEF Labelled
<1>3. trace'.hops = [hops EXCEPT ![n] = [hops[n] EXCEPT !.label = label]]
  BY <1>1, <1>2
<1>4. /\ [hops[n] EXCEPT !.label = label] \in Hops
      /\ [hops[n] EXCEPT !.label = label].ip = hops[n].ip
      /\ [hops[n] EXCEPT !.label = label].done = hops[n].done
  BY <1>1 DEF Hops
<1>5. /\ trace'.hops \in Seq(Hops) /\ DOMAIN trace'.hops = DOMAIN hops /\ Len(trace'.hops) = Len(hops)
      /\ \A m \in DOMAIN hops : trace'.hops[m].ip = hops[m].ip /\ trace'.hops[m].done = hops[m].done
  BY <1>1, <1>3, <1>4
<1>6. Truthful(trace.k, trace'.hops)
  <2>1. SUFFICES ASSUME NEW m \in DOMAIN hops
                 PROVE  LET h == trace'.hops[m] IN
                          /\ h.done => m = Len(hops)
                          /\ h.ip = "" \/ HopOf(Targets[trace.k], m, h) \/ LateHop(trace.k, m, h)
    BY <1>5 DEF Truthful
  <2>2. /\ hops[m].done => m = Len(hops)
        /\ hops[m].ip = "" \/ HopOf(Targets[trace.k], m, hops[m]) \/ LateHop(trace.k, m, hops[m])
    BY DEF WayInv, Told, Truthful
  <2>3. \A t : HopOf(t, m, hops[m]) => HopOf(t, m, trace'.hops[m])
    BY <1>5 DEF HopOf
  <2>4. LateHop(trace.k, m, hops[m]) => LateHop(trace.k, m, trace'.hops[m])
    BY <1>5, <2>3 DEF LateHop
  <2>5. QED
    BY <1>5, <2>2, <2>3, <2>4
<1>7. QED
  BY <1>1, <1>2, <1>5, <1>6

LEMMA LabelWay ==
  ASSUME WayInv, SkipHop \/ CacheHit \/ LookupASN
  PROVE  TraceFields' /\ Told'
<1>1. /\ trace.at = "annotate" /\ trace.ttl <= Len(trace.hops)
      /\ UNCHANGED <<delay, out>>
  BY DEF SkipHop, CacheHit, LookupASN, traceRest, constants
<1>2. asnCache \in [Nodes \cup Anchors -> Labels]
  BY DEF WayInv, TraceFields
<1>3. \E label \in Labels : Labelled(label) /\ asnCache' \in [Nodes \cup Anchors -> Labels]
  <2>1. CASE SkipHop
    BY <1>2, <2>1 DEF SkipHop, Labels
  <2>2. CASE CacheHit
    <3>1. trace.hops \in Seq(Hops) /\ trace.ttl \in Nat \ {0}
      BY DEF WayInv, TraceFields
    <3>2. Hop \in Hops
      BY <1>1, <3>1 DEF Hop
    <3>3. Hop.ip \in Nodes \cup Anchors
      BY <2>2, <3>2 DEF CacheHit, Hops
    <3>4. QED
      BY <1>2, <2>2, <3>3 DEF CacheHit
  <2>3. CASE LookupASN
    <3>1. CASE Labelled("") /\ asnCache' = asnCache
      BY <1>2, <3>1 DEF Labels
    <3>2. CASE \E label \in {"number", "number and name"} :
                 Labelled(label) /\ asnCache' = [asnCache EXCEPT ![Hop.ip] = label]
      BY <1>2, <3>2 DEF Labels
    <3>3. QED
      BY <2>3, <3>1, <3>2 DEF LookupASN
  <2>4. QED
    BY <2>1, <2>2, <2>3
<1>4. PICK label \in Labels : Labelled(label)
  BY <1>3
<1>5. /\ trace'.at = trace.at /\ trace'.k = trace.k /\ trace'.wait = trace.wait
      /\ trace'.ttl \in Nat \ {0} /\ trace'.hops \in Seq(Hops)
      /\ Truthful(trace.k, trace'.hops)
  BY <1>1, <1>4, LabelFields
<1>6. TraceFields'
  BY <1>1, <1>3, <1>5 DEF WayInv, TraceFields
<1>7. Told'
  BY <1>1, <1>5 DEF WayInv, Told, Truthful, LateHop
<1>8. QED
  BY <1>6, <1>7

LEMMA SimpleWay ==
  ASSUME WayInv, StartTraces \/ TracesOver \/ SendProbe \/ TraceOver
  PROVE  TraceFields' /\ Told'
<1>1. UNCHANGED <<delay, out, asnCache>>
  BY DEF StartTraces, TracesOver, SendProbe, TraceOver, traceRest, constants
<1>2. DOMAIN trace = {"at", "k", "ttl", "wait", "hops"} /\ HopTimeout \in Nat
  BY ConstantsHold DEF WayInv, IInv, Shapes
<1>3. CASE StartTraces
  <2>1. trace' = [trace EXCEPT !.at = "head"] /\ trace.at = "idle"
    BY <1>3 DEF StartTraces
  <2>2. /\ trace'.at = "head" /\ trace'.k = trace.k /\ trace'.ttl = trace.ttl
        /\ trace'.wait = trace.wait /\ trace'.hops = trace.hops
    BY <1>2, <2>1
  <2>3. TraceFields'
    BY <1>1, <2>1, <2>2 DEF WayInv, TraceFields
  <2>4. Told'
    BY <1>1, <2>2 DEF WayInv, Told, Truthful, LateHop
  <2>5. QED
    BY <2>3, <2>4
<1>4. CASE TracesOver
  <2>1. trace' = [trace EXCEPT !.at = "done"] /\ trace.at = "head"
    BY <1>4 DEF TracesOver
  <2>2. /\ trace'.at = "done" /\ trace'.k = trace.k /\ trace'.ttl = trace.ttl
        /\ trace'.wait = trace.wait /\ trace'.hops = trace.hops
    BY <1>2, <2>1
  <2>3. TraceFields'
    BY <1>1, <2>1, <2>2 DEF WayInv, TraceFields
  <2>4. Told'
    BY <1>1, <2>2 DEF WayInv, Told, Truthful, LateHop
  <2>5. QED
    BY <2>3, <2>4
<1>5. CASE SendProbe
  <2>1. trace' = [trace EXCEPT !.at = "await", !.wait = HopTimeout] /\ trace.at = "probe"
    BY <1>5 DEF SendProbe
  <2>2. /\ trace'.at = "await" /\ trace'.k = trace.k /\ trace'.ttl = trace.ttl
        /\ trace'.wait = HopTimeout /\ trace'.hops = trace.hops
    BY <1>2, <2>1
  <2>3. TraceFields'
    BY <1>1, <1>2, <2>1, <2>2 DEF WayInv, TraceFields
  <2>4. Told'
    BY <1>1, <2>2 DEF WayInv, Told, Truthful, LateHop
  <2>5. QED
    BY <2>3, <2>4
<1>6. CASE TraceOver
  <2>1. trace' = [trace EXCEPT !.at = "annotate", !.ttl = 1] /\ trace.at = "probe"
    BY <1>6 DEF TraceOver
  <2>2. /\ trace'.at = "annotate" /\ trace'.k = trace.k /\ trace'.ttl = 1
        /\ trace'.wait = trace.wait /\ trace'.hops = trace.hops
    BY <1>2, <2>1
  <2>3. TraceFields'
    BY <1>1, <2>1, <2>2 DEF WayInv, TraceFields
  <2>4. Told'
    BY <1>1, <2>2 DEF WayInv, Told, Truthful, LateHop
  <2>5. QED
    BY <2>3, <2>4
<1>7. QED
  BY <1>3, <1>4, <1>5, <1>6

LEMMA HopShape ==
  ASSUME NEW ip \in Nodes \cup Anchors \cup {""}, NEW done \in BOOLEAN, NEW label \in Labels
  PROVE  [ip |-> ip, done |-> done, label |-> label] \in Hops
BY DEF Hops

LEMMA OneHopMore ==
  ASSUME NEW hops \in Seq(Hops), NEW hop \in Hops
  PROVE  /\ Append(hops, hop) \in Seq(Hops) /\ Len(Append(hops, hop)) = Len(hops) + 1
         /\ \A n \in DOMAIN Append(hops, hop) : \/ n \in DOMAIN hops /\ Append(hops, hop)[n] = hops[n]
                                              \/ Append(hops, hop)[n] = hop
OBVIOUS

(* The system's tool prints part of the way. *)
LEMMA NextTargetWay ==
  ASSUME WayInv, NextTarget
  PROVE  TraceFields' /\ Told'
<1>1. /\ UNCHANGED <<delay, out, asnCache>>
      /\ trace.at = "head" /\ trace.k <= Len(Targets)
  BY DEF NextTarget, traceRest, constants
<1>2. DOMAIN trace = {"at", "k", "ttl", "wait", "hops"} /\ trace.k \in Nat \ {0}
  BY DEF WayInv, IInv, Shapes, TraceFields
<1>3. Target \in DOMAIN Path
  BY <1>1, <1>2, TargetOK DEF Target
<1>4. PICK hops \in IF tool /\ ~native THEN ToolOutput ELSE {<<>>} :
             trace' = [trace EXCEPT !.at = IF native THEN "probe" ELSE "annotate", !.ttl = 1, !.hops = hops]
  BY DEF NextTarget
<1>5. /\ trace'.k = trace.k /\ trace'.ttl = 1 /\ trace'.wait = trace.wait /\ trace'.hops = hops
      /\ trace'.at = IF native THEN "probe" ELSE "annotate"
  BY <1>2, <1>4
<1>6. /\ hops \in Seq(Hops) /\ (native => hops = <<>>)
      /\ \A n \in DOMAIN hops : ~hops[n].done /\ (hops[n].ip = "" \/ HopOf(Target, n, hops[n]))
  <2>1. CASE tool /\ ~native
    <3> DEFINE way == Path[Target]
    <3>0. PICK heard \in SUBSET DOMAIN way : \E len \in 0..Last(way, heard) : hops = Printed(way, heard, len)
      BY <1>4, <2>1 DEF ToolOutput
    <3>1. PICK len \in 0..Last(way, heard) : hops = Printed(way, heard, len)
      BY <3>0
    <3>2. Len(Path[Target]) \in Nat /\ \A n \in 1..Len(Path[Target]) : Path[Target][n] \in Nodes
      BY <1>3, WayHolds
    <3>3. len \in Nat /\ DOMAIN hops = 1..len /\ \A n \in heard : n \in 1..Len(way)
      <4>1. DOMAIN way = 1..Len(way)
        BY <1>3, WayHolds
      <4>2. Last(way, heard) \in Nat
        BY <3>2, ConstantsHold DEF Last
      <4>3. len \in Nat
        BY <4>2
      <4>4. DOMAIN hops = 1..len
        BY <3>1 DEF Printed
      <4>5. QED
        BY <4>1, <4>3, <4>4
    <3>4. ASSUME NEW n \in 1..len
          PROVE  /\ hops[n] \in Hops /\ ~hops[n].done
                 /\ hops[n].ip = "" \/ HopOf(Target, n, hops[n])
      <4> DEFINE ip == IF n \in heard THEN way[n] ELSE ""
      <4>1. hops[n] = [ip |-> ip, done |-> FALSE, label |-> ""]
        BY <3>1 DEF NoHop, Printed
      <4>2. /\ n \in heard => ip = Path[Target][n] /\ ip \in Nodes
            /\ n \notin heard => ip = ""
        BY <3>2, <3>3
      <4> HIDE DEF ip
      <4>3. hops[n].ip = ip /\ ~hops[n].done /\ hops[n] \in Hops
        <5>1. hops[n] \in Hops
          BY <4>1, <4>2, HopShape DEF Labels
        <5>2. \A x : LET h == [ip |-> x, done |-> FALSE, label |-> ""] IN h.ip = x /\ ~h.done
          OBVIOUS
        <5>3. QED
          BY <4>1, <5>1, <5>2
      <4>4. CASE n \in heard
        <5>1. n \in 1..Len(way)
          BY <3>3, <4>4
        <5>2. n <= Len(Path[Target])
          BY <3>2, <5>1
        <5>3. hops[n].ip = Path[Target][n]
          BY <4>2, <4>3, <4>4
        <5>4. HopOf(Target, n, hops[n])
          BY <4>3, <5>2, <5>3, Zenon DEF HopOf
        <5>5. QED
          BY <4>3, <5>4
      <4>5. CASE n \notin heard
        BY <4>2, <4>3, <4>5
      <4>6. QED
        BY <4>4, <4>5
    <3>5. hops \in Seq(Hops)
      <4>1. hops \in [1..len -> Hops]
        BY <3>1, <3>4 DEF Printed
      <4>2. QED
        BY <3>3, <4>1
    <3>6. QED
      BY <2>1, <3>3, <3>4, <3>5
  <2>2. CASE ~(tool /\ ~native)
    <3>1. hops = <<>>
      BY <1>4, <2>2
    <3>2. <<>> \in Seq(Hops) /\ DOMAIN <<>> = {}
      OBVIOUS
    <3>3. QED
      BY <3>1, <3>2
  <2>3. QED
    BY <2>1, <2>2
<1>7. TraceFields'
  <2>0. hops \in Seq(Hops) /\ (native => hops = <<>>)
    BY <1>6
  <2>1. CASE native
    BY <1>1, <1>2, <1>5, <2>0, <2>1 DEF WayInv, TraceFields
  <2>2. CASE ~native
    BY <1>1, <1>2, <1>5, <2>0, <2>2 DEF WayInv, TraceFields
  <2>3. QED
    BY <2>1, <2>2
<1>8. Told'
  <2>1. Truthful(trace.k, hops)
    BY <1>6 DEF Truthful, Target
  <2>2. QED
    BY <1>1, <1>5, <2>1 DEF WayInv, Told, Truthful, LateHop
<1>9. QED
  BY <1>7, <1>8

LEMMA HopLateWay ==
  ASSUME WayInv, HopLate
  PROVE  TraceFields' /\ Told'
<1> DEFINE hops == trace.hops
<1>1. UNCHANGED <<delay, out, asnCache>> /\ trace.at = "await"
  BY DEF HopLate, traceRest, constants
<1>2. /\ DOMAIN trace = {"at", "k", "ttl", "wait", "hops"} /\ trace.k \in Nat \ {0} /\ hops \in Seq(Hops)
      /\ trace.ttl = Len(hops) + 1 /\ \A n \in DOMAIN hops : ~hops[n].done
  BY <1>1 DEF WayInv, IInv, Shapes, TraceFields
<1>3. trace' = [trace EXCEPT !.at = "probe", !.ttl = @ + 1, !.hops = Append(@, NoHop)]
  BY DEF HopLate
<1>4. /\ trace'.at = "probe" /\ trace'.k = trace.k /\ trace'.ttl = trace.ttl + 1
      /\ trace'.wait = trace.wait /\ trace'.hops = Append(hops, NoHop)
  BY <1>2, <1>3
<1>5. NoHop \in Hops /\ NoHop.ip = "" /\ ~NoHop.done
  BY DEF NoHop, Hops, Labels
<1>6. /\ trace'.hops \in Seq(Hops) /\ Len(trace'.hops) = Len(hops) + 1
      /\ \A n \in DOMAIN trace'.hops : \/ n \in DOMAIN hops /\ trace'.hops[n] = hops[n]
                                       \/ trace'.hops[n] = NoHop
  BY <1>2, <1>4, <1>5, OneHopMore
<1>7. \A n \in DOMAIN trace'.hops : ~trace'.hops[n].done
  BY <1>2, <1>5, <1>6
<1>8. TraceFields'
  BY <1>1, <1>2, <1>4, <1>6, <1>7 DEF WayInv, TraceFields
<1>9. Told'
  <2>1. Truthful(trace.k, trace'.hops)
    BY <1>5, <1>6, <1>7 DEF WayInv, Told, Truthful
  <2>2. QED
    BY <1>1, <1>4, <2>1 DEF WayInv, Told, Truthful, LateHop
<1>10. QED
  BY <1>8, <1>9

(* A trace that is over is in the report, hop for hop. *)
LEMMA AnnotatedWay ==
  ASSUME WayInv, Annotated
  PROVE  TraceFields' /\ Told'
<1>1. UNCHANGED <<delay, asnCache>> /\ trace.at = "annotate"
  BY DEF Annotated, traceRest, constants
<1>2. /\ DOMAIN trace = {"at", "k", "ttl", "wait", "hops"} /\ trace.k \in Nat \ {0}
      /\ trace.hops \in Seq(Hops) /\ trace.k <= Len(Targets)
      /\ out \in Seq(Rows) /\ Len(out) = trace.k - 1
  BY <1>1 DEF WayInv, IInv, Shapes, TraceFields
<1>3. trace' = [trace EXCEPT !.at = "head", !.k = @ + 1, !.hops = <<>>]
  BY DEF Annotated
<1>4. /\ trace'.at = "head" /\ trace'.k = trace.k + 1 /\ trace'.ttl = trace.ttl
      /\ trace'.wait = trace.wait /\ trace'.hops = <<>>
  BY <1>2, <1>3
<1> DEFINE row == [target |-> Target, hops |-> trace.hops, note |-> Note(trace.hops)]
<1>5. out' = Append(out, row) /\ row.hops = trace.hops
  BY DEF Annotated
<1>6. row \in Rows
  <2>1. Note(trace.hops) \in {"", "skipped", "filtered"}
    BY DEF Note
  <2>2. QED
    BY <1>2, <2>1, TargetOK DEF Rows, Target
<1>7. /\ out' \in Seq(Rows) /\ Len(out') = trace.k
      /\ \A k \in DOMAIN out' : \/ k \in DOMAIN out /\ out'[k] = out[k]
                                \/ k = trace.k /\ out'[k] = row
  BY <1>2, <1>5, <1>6
<1>8. TraceFields'
  BY <1>1, <1>2, <1>4, <1>7 DEF WayInv, TraceFields
<1>9. Told'
  <2>1. \A k \in DOMAIN out' : Truthful(k, out'[k].hops)
    BY <1>5, <1>7 DEF WayInv, Told
  <2>2. Truthful(trace'.k, trace'.hops)
    <3>1. DOMAIN trace'.hops = {}
      BY <1>4
    <3>2. QED
      BY <3>1 DEF Truthful
  <2>3. QED
    BY <1>1, <2>1, <2>2 DEF Told, Truthful, LateHop
<1>10. QED
  BY <1>8, <1>9

LEMMA TraceWay ==
  ASSUME WayInv, Traceroute
  PROVE  WayInv'
<1>1. IInv'
  BY TraceStep DEF WayInv
<1>2. PingFields'
  BY TraceQuiet DEF PingFields
<1>3. TraceFields' /\ Told'
  BY SimpleWay, NextTargetWay, HopLateWay, AnnotatedWay, LabelWay DEF Traceroute
<1>4. /\ delay' = delay /\ delay \in Nat /\ trace.k \in Nat \ {0} /\ trace.ttl \in Nat \ {0}
      /\ trace'.k >= trace.k /\ trace'.k \in Nat \ {0} /\ HopTimeout \in Nat
  BY TraceQuiet, TraceSends, ConstantsHold DEF WayInv, TraceFields
<1>5. ASSUME NEW p \in flight', p \notin flight
      PROVE  /\ p = Answer(Target, trace.ttl, delay)
             /\ trace.k <= Len(Targets) /\ trace'.k = trace.k /\ trace'.ttl = trace.ttl
             /\ trace'.at = "await" /\ trace'.wait = HopTimeout
  <2>1. flight' # flight
    BY <1>5
  <2>2. QED
    BY <1>5, <2>1, TraceSends
<1>6. InFlight'
  <2>1. SUFFICES ASSUME NEW p \in flight' PROVE IsEcho(p) \/ IsAnswer(p, trace'.k)
    BY DEF InFlight, IsEcho, IsAnswer
  <2>2. CASE p \in flight
    <3>1. 1..trace.k \subseteq 1..trace'.k
      BY <1>4
    <3>2. IsAnswer(p, trace.k) => IsAnswer(p, trace'.k)
      BY <3>1 DEF IsAnswer
    <3>3. QED
      BY <2>2, <3>2 DEF WayInv, InFlight
  <2>3. CASE p \notin flight
    BY <1>4, <1>5, <2>3 DEF IsAnswer, Target
  <2>4. QED
    BY <2>2, <2>3
<1>7. EchoInTime'
  <2>1. SUFFICES ASSUME delay < ReplyTimeout, NEW p \in flight', p.to.user = "ping" PROVE FALSE
    BY <1>4 DEF EchoInTime
  <2>2. CASE p \in flight
    BY <2>1, <2>2, TraceSilent
  <2>3. CASE p \notin flight
    BY <1>5, <2>1, <2>3, AnswerFields
  <2>4. QED
    BY <2>2, <2>3
<1>8. AnswerInTime'
  <2>1. SUFFICES ASSUME delay < ReplyTimeout, delay < HopTimeout, NEW p \in flight', p.to.user = "trace"
                 PROVE  /\ trace'.at = "await"
                        /\ p = Answer(Targets[trace'.k], trace'.ttl, trace'.wait - (HopTimeout - delay))
    BY <1>4 DEF AnswerInTime, Target
  <2>2. p \notin flight
    BY <1>4, <2>1, TraceSilent
  <2>3. HopTimeout - (HopTimeout - delay) = delay
    BY <1>4
  <2>4. QED
    BY <1>5, <2>2, <2>3 DEF Target
<1>9. QED
  BY <1>1, <1>2, <1>3, <1>6, <1>7, <1>8 DEF WayInv

LEMMA WayStep == WayInv /\ [Next]_vars => WayInv'
<1>1. SUFFICES ASSUME WayInv, [Next]_vars PROVE WayInv'
  OBVIOUS
<1>2. CASE EndContext \/ UNCHANGED vars
  <2>1. UNCHANGED <<delay, ping, flight, trace, out, asnCache>>
    BY <1>2 DEF EndContext, vars, constants
  <2>2. IInv'
    BY <1>1, StepInv DEF WayInv
  <2>3. PingFields' /\ TraceFields'
    BY <1>1, <2>1 DEF WayInv, PingFields, TraceFields
  <2>4. InFlight' /\ EchoInTime' /\ AnswerInTime'
    BY <1>1, <2>1 DEF WayInv, InFlight, IsEcho, IsAnswer, EchoInTime, AnswerInTime, Target
  <2>5. Told'
    BY <1>1, <2>1 DEF WayInv, Told, Truthful, LateHop
  <2>6. QED
    BY <2>2, <2>3, <2>4, <2>5 DEF WayInv
<1>3. QED
  BY <1>1, <1>2, PingWay, TraceWay, DeliverWay, TickWay DEF Next

(* Every hop of every trace is the router at its distance on the way to    *)
(* the target, unless answers may come after the time a probe waits; then  *)
(* it may be the answer to an earlier probe with that number.              *)
THEOREM HopsAreTruthful == Spec => []TruthfulHops
<1>1. WayInv => TruthfulHops
  BY DEF WayInv, Told, TruthfulHops
<1>2. QED
  BY <1>1, WayInit, WayStep, PTL DEF Spec

=============================================================================
