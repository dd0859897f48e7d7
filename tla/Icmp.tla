-------------------------------- MODULE Icmp --------------------------------
(***************************************************************************)
(* internal/netcheck/latency.go, trace.go, cymru.go: the probes of the     *)
(* network test.  Latency pings its anchors at the same time, each from a  *)
(* socket of its own; afterwards Traceroute takes its targets one by one.  *)
(* A raw socket hears every ICMP packet that reaches the machine, and all  *)
(* probes of the process carry the same ID, so what keeps the answers      *)
(* apart is the sender and the sequence number.                            *)
(*                                                                         *)
(* A waiting goroutine reads a packet as it comes, and works in no time    *)
(* between two waits.  The pool around the pings is in WorkerPool.         *)
(***************************************************************************)
EXTENDS Integers, Sequences, FiniteSets

CONSTANTS
  Anchors,       \* hosts of Latency
  Targets,       \* hosts of Traceroute, in order
  Path,          \* the way to a target: its routers and, last, itself
  Private,       \* routers with a private address
  Count,         \* echo requests to an anchor
  MaxHops,       \* hops of a trace
  ReplyTimeout,  \* ticks a ping waits
  HopTimeout,    \* ticks a hop waits
  Noise,         \* kind, sender and number of the packets for other programs
  Delays         \* ticks the answers of a network may travel at most

Nodes == UNION {{Path[t][n] : n \in DOMAIN Path[t]} : t \in DOMAIN Path}

ASSUME IcmpAssumption ==
  /\ {Count, MaxHops, ReplyTimeout, HopTimeout} \subseteq Nat \ {0} /\ Delays \subseteq Nat
  /\ Targets \in Seq(DOMAIN Path)
  /\ \A t \in DOMAIN Path : Path[t] \in Seq(Nodes) /\ Path[t] # <<>> /\ Path[t][Len(Path[t])] = t
  /\ Noise \subseteq {"reply", "exceeded"} \X (Anchors \cup Nodes) \X Nat
  /\ Private \subseteq Nodes
  /\ \A j, k \in DOMAIN Targets : Targets[j] = Targets[k] => j = k

VARIABLES
  method,    \* how Latency probes, never changed
  native,    \* raw sockets can be had, never changed
  tool,      \* a system traceroute is installed, never changed
  delay,     \* ticks an answer travels at most here, never changed
  ended,     \* the context of the test has ended
  ping,      \* the goroutine of each anchor
  flight,    \* answers on their way, with the ticks they have left
  trace,     \* the trace under way
  out,       \* the traces of the report
  asnCache,  \* what is known of an address
  mistaken   \* history: a probe that was answered, and another it was taken for

vars == <<method, native, tool, delay, ended, ping, flight, trace, out, asnCache, mistaken>>

PingOf(a, seq)  == [user |-> "ping", host |-> a, seq |-> seq]
TraceOf(t, ttl) == [user |-> "trace", host |-> t, seq |-> ttl]
Nobody          == [user |-> "stranger", host |-> "none", seq |-> 0]

NoHop == [ip |-> "", done |-> FALSE, label |-> ""]

(* Datagram sockets first, raw ones for root, TCP otherwise. *)
ProbeMethod(datagram, raw) ==
  IF datagram THEN "icmp" ELSE IF raw THEN "icmp-raw" ELSE "tcp:443"

Init ==
  /\ native \in BOOLEAN /\ tool \in BOOLEAN
  /\ \E datagram \in BOOLEAN : method = ProbeMethod(datagram, native)
  /\ delay \in Delays /\ ended = FALSE
  /\ ping = [a \in Anchors |-> [at |-> IF method = "tcp:443" THEN "tcp" ELSE "icmp",
                                seq |-> 0, ok |-> 0, wait |-> 0, used |-> "none"]]
  /\ flight = {}
  /\ trace = [at |-> "idle", k |-> 1, ttl |-> 1, wait |-> 0, hops |-> <<>>]
  /\ out = <<>>
  /\ asnCache = [ip \in Nodes \cup Anchors |-> "unknown"]
  /\ mistaken = {}

constants == <<method, native, tool, delay>>

-----------------------------------------------------------------------------
(* Packets.  What is quoted in an error counts as its ID and number. *)

Reply(peer, seq, to) ==
  [kind |-> "reply", peer |-> peer, id |-> "own", seq |-> seq, to |-> to, left |-> delay]

Exceeded(peer, seq, to) == [Reply(peer, seq, to) EXCEPT !.kind = "exceeded"]

(* Of other programs: an ID of their own. *)
Stranger(kind, peer, seq) ==
  [kind |-> kind, peer |-> peer, id |-> "other", seq |-> seq, to |-> Nobody, left |-> 0]

Strangers == {Stranger(n[1], n[2], n[3]) : n \in Noise}

AnyPeer(peer, host) == TRUE
PeerIs(peer, host) == peer = host

(* A datagram socket gets the answers to its own requests alone. *)
Hears(a, p) == method = "icmp" => p.to.user = "ping" /\ p.to.host = a

AwaitReply(a, p) ==
  /\ ping[a].at = "await" /\ Hears(a, p)
  /\ PeerIs(p.peer, a) /\ p.kind = "reply" /\ p.seq = ping[a].seq
  /\ method = "icmp-raw" => p.id = "own"

QuotesAny(p, ttl) == p.seq = ttl
QuotesProbe(p, ttl) == p.id = "own" /\ p.seq = ttl

AwaitHop(p) == trace.at = "await" /\ QuotesProbe(p, trace.ttl)

Renewed(wait, full) == full
Remaining(wait, full) == wait  \* the deadline is set once, before the loop

-----------------------------------------------------------------------------
(* Latency: icmpPing, then tcpPing if no reply came *)

pingRest == <<constants, ended, trace, out, asnCache, mistaken>>

Step(a, next) == ping' = [ping EXCEPT ![a] = next]

(* No address, or no socket: over to TCP. *)
NoSocket(a) ==
  /\ ping[a].at = "icmp" /\ ping[a].seq = 0
  /\ Step(a, [ping[a] EXCEPT !.at = "tcp"])
  /\ UNCHANGED <<pingRest, flight>>

(* The request is refused, or lost, or answered by its host. *)
SendEcho(a) ==
  /\ ping[a].at = "icmp" /\ ping[a].seq < Count /\ ~ended
  /\ \/ Step(a, [ping[a] EXCEPT !.seq = @ + 1]) /\ UNCHANGED flight
     \/ /\ Step(a, [ping[a] EXCEPT !.at = "await", !.wait = ReplyTimeout])
        /\ \/ UNCHANGED flight
           \/ flight' = flight \cup {Reply(a, ping[a].seq, PingOf(a, ping[a].seq))}
  /\ UNCHANGED pingRest

ReplyLate(a) ==
  /\ ping[a].at = "await" /\ ping[a].wait = 0
  /\ Step(a, [ping[a] EXCEPT !.at = "icmp", !.seq = @ + 1])
  /\ UNCHANGED <<pingRest, flight>>

PingOver(a) ==
  /\ ping[a].at = "icmp"
  /\ ping[a].seq = Count \/ ended
  /\ Step(a, IF ping[a].ok > 0 THEN [ping[a] EXCEPT !.at = "done", !.used = method]
                               ELSE [ping[a] EXCEPT !.at = "tcp", !.seq = 0])
  /\ UNCHANGED <<pingRest, flight>>

TcpTry(a) ==
  /\ ping[a].at = "tcp" /\ ping[a].seq < Count /\ ~ended
  /\ \E up \in {0, 1} : Step(a, [ping[a] EXCEPT !.seq = @ + 1, !.ok = @ + up])
  /\ UNCHANGED <<pingRest, flight>>

(* No connection at all is an error in the row. *)
TcpOver(a) ==
  /\ ping[a].at = "tcp"
  /\ ping[a].seq = Count \/ ended
  /\ Step(a, [ping[a] EXCEPT !.at = "done", !.used = "tcp:443"])
  /\ UNCHANGED <<pingRest, flight>>

-----------------------------------------------------------------------------
(* Traceroute *)

traceRest == <<constants, ended, ping, mistaken>>
Target == Targets[trace.k]

(* The pings are over, and their rows are in the report.                   *)
StartTraces ==
  /\ trace.at = "idle" /\ \A a \in Anchors : ping[a].at = "done"
  /\ trace' = [trace EXCEPT !.at = "head"]
  /\ ping' = [a \in Anchors |-> [at |-> "done", seq |-> 0, ok |-> 0, wait |-> 0, used |-> "none"]]
  /\ UNCHANGED <<constants, ended, mistaken, flight, out, asnCache>>

(* systemTrace: whatever part of the way the tool printed in a minute; it  *)
(* has a row for a router that kept silent, and rows to its last hop if    *)
(* the target did.                                                         *)
Last(way, heard) == IF Len(way) \in heard /\ Len(way) < MaxHops THEN Len(way) ELSE MaxHops

Printed(way, heard, len) ==
  [n \in 1..len |-> [NoHop EXCEPT !.ip = IF n \in heard THEN way[n] ELSE ""]]

ToolOutput ==
  LET way == Path[Target] IN
  UNION {{Printed(way, heard, len) : len \in 0..Last(way, heard)} : heard \in SUBSET DOMAIN way}

NextTarget ==
  /\ trace.at = "head" /\ trace.k <= Len(Targets) /\ ~ended
  /\ \E hops \in IF tool /\ ~native THEN ToolOutput ELSE {<<>>} :
       trace' = [trace EXCEPT !.at = IF native THEN "probe" ELSE "annotate",
                              !.ttl = 1, !.hops = hops]
  /\ UNCHANGED <<traceRest, flight, out, asnCache>>

TracesOver ==
  /\ trace.at = "head"
  /\ trace.k > Len(Targets) \/ ended
  /\ trace' = [trace EXCEPT !.at = "done"]
  /\ UNCHANGED <<traceRest, flight, out, asnCache>>

(* The packet dies at router ttl, or reaches the target; either may keep   *)
(* silent.                                                                 *)
SendProbe ==
  /\ trace.at = "probe" /\ trace.ttl <= MaxHops /\ ~ended
  /\ trace' = [trace EXCEPT !.at = "await", !.wait = HopTimeout]
  /\ LET way == Path[Target]
         to  == TraceOf(Target, trace.ttl)
         answer == IF trace.ttl < Len(way) THEN Exceeded(way[trace.ttl], trace.ttl, to)
                                           ELSE Reply(Target, trace.ttl, to) IN
       flight' = flight \/ flight' = flight \cup {answer}
  /\ UNCHANGED <<traceRest, out, asnCache>>

HopLate ==
  /\ trace.at = "await" /\ trace.wait = 0
  /\ trace' = [trace EXCEPT !.at = "probe", !.ttl = @ + 1, !.hops = Append(@, NoHop)]
  /\ UNCHANGED <<traceRest, flight, out, asnCache>>

(* The last hop, the target, the end of the context, or a request that     *)
(* cannot be sent: annotateASN.                                            *)
TraceOver ==
  /\ trace.at = "probe"
  /\ trace' = [trace EXCEPT !.at = "annotate", !.ttl = 1]
  /\ UNCHANGED <<traceRest, flight, out, asnCache>>

-----------------------------------------------------------------------------
(* LookupASN: the number by one DNS query, the name by another; a failure  *)
(* of the first is not remembered, one of the second is, with the number.  *)

Hop == trace.hops[trace.ttl]
Labelled(label) == trace' = [trace EXCEPT !.ttl = @ + 1, !.hops[trace.ttl].label = label]

SkipHop ==
  /\ trace.at = "annotate" /\ trace.ttl <= Len(trace.hops) /\ Hop.ip \in Private \cup {""}
  /\ Labelled("")
  /\ UNCHANGED <<traceRest, flight, out, asnCache>>

CacheHit ==
  /\ trace.at = "annotate" /\ trace.ttl <= Len(trace.hops)
  /\ Hop.ip \notin Private \cup {""} /\ asnCache[Hop.ip] # "unknown"
  /\ Labelled(asnCache[Hop.ip])
  /\ UNCHANGED <<traceRest, flight, out, asnCache>>

LookupASN ==
  /\ trace.at = "annotate" /\ trace.ttl <= Len(trace.hops)
  /\ Hop.ip \notin Private \cup {""} /\ asnCache[Hop.ip] = "unknown"
  /\ \/ Labelled("") /\ UNCHANGED asnCache
     \/ /\ ~ended
        /\ \E label \in {"number", "number and name"} :
             Labelled(label) /\ asnCache' = [asnCache EXCEPT ![Hop.ip] = label]
  /\ UNCHANGED <<traceRest, flight, out>>

AnyHopAnswered(hops) == \E n \in DOMAIN hops : hops[n].ip # ""

Note(hops) == CASE ~native /\ ~tool -> "skipped"
                [] native \/ tool   -> IF hops # <<>> /\ ~AnyHopAnswered(hops) THEN "filtered" ELSE ""

Annotated ==
  /\ trace.at = "annotate" /\ trace.ttl > Len(trace.hops)
  /\ out' = Append(out, [target |-> Target, hops |-> trace.hops, note |-> Note(trace.hops)])
  /\ trace' = [trace EXCEPT !.at = "head", !.k = @ + 1, !.hops = <<>>]
  /\ UNCHANGED <<traceRest, flight, asnCache>>

-----------------------------------------------------------------------------
(* The network and the clock *)

(* A packet reaches every socket; who waits for it goes on.                *)
Deliver(p) ==
  /\ p \in flight \cup Strangers
  /\ flight' = flight \ {p}
  /\ ping' = [a \in Anchors |->
       IF AwaitReply(a, p) THEN [ping[a] EXCEPT !.at = "icmp", !.seq = @ + 1, !.ok = @ + 1]
       ELSE [ping[a] EXCEPT !.wait = Remaining(@, ReplyTimeout)]]
  /\ trace' = IF AwaitHop(p)
              THEN [trace EXCEPT
                     !.at = IF p.kind = "reply" THEN "annotate" ELSE "probe",
                     !.ttl = IF p.kind = "reply" THEN 1 ELSE @ + 1,
                     !.hops = Append(@, [ip |-> p.peer, done |-> p.kind = "reply", label |-> ""])]
              ELSE [trace EXCEPT !.wait = Remaining(@, HopTimeout)]
  /\ mistaken' = mistaken \cup
       {<<p.to, PingOf(a, ping[a].seq)>> :
          a \in {b \in Anchors : AwaitReply(b, p) /\ p.to # PingOf(b, ping[b].seq)}}
  /\ UNCHANGED <<constants, ended, out, asnCache>>

Less(n) == IF n > 0 THEN n - 1 ELSE 0

(* A tick: whoever is out of time goes on before it.  An answer that has   *)
(* travelled for its whole life is lost.                                   *)
Tick ==
  /\ trace.at # "done"
  /\ \A a \in Anchors : ping[a].at = "await" => ping[a].wait > 0
  /\ trace.at = "await" => trace.wait > 0
  /\ ping' = [a \in Anchors |-> [ping[a] EXCEPT !.wait = Less(@)]]
  /\ trace' = [trace EXCEPT !.wait = Less(@)]
  /\ flight' = {[p EXCEPT !.left = Less(@)] : p \in {q \in flight : q.left > 0}}
  /\ UNCHANGED <<constants, ended, out, asnCache, mistaken>>

EndContext ==
  /\ ~ended /\ trace.at # "done" /\ ended' = TRUE
  /\ UNCHANGED <<constants, ping, flight, trace, out, asnCache, mistaken>>

-----------------------------------------------------------------------------

Ping(a) == NoSocket(a) \/ SendEcho(a) \/ ReplyLate(a) \/ PingOver(a) \/ TcpTry(a) \/ TcpOver(a)

Traceroute ==
  \/ StartTraces \/ NextTarget \/ TracesOver
  \/ SendProbe \/ HopLate \/ TraceOver
  \/ SkipHop \/ CacheHit \/ LookupASN \/ Annotated

Next ==
  \/ \E a \in Anchors : Ping(a)
  \/ Traceroute
  \/ \E p \in flight \cup Strangers : Deliver(p)
  \/ Tick \/ EndContext

(* The goroutines run and the clock goes on.  The network owes nothing. *)
Fairness ==
  /\ WF_vars(Tick) /\ WF_vars(Traceroute)
  /\ \A a \in Anchors : WF_vars(Ping(a))

Spec == Init /\ [][Next]_vars
FairSpec == Spec /\ Fairness

-----------------------------------------------------------------------------
(* Properties *)

IcmpTypeOK ==
  /\ \A a \in Anchors : /\ ping[a].at \in {"icmp", "await", "tcp", "done"}
                        /\ ping[a].ok <= ping[a].seq /\ ping[a].seq <= Count
                        /\ ping[a].wait \in 0..ReplyTimeout
  /\ trace.at \in {"idle", "head", "probe", "await", "annotate", "done"}
  /\ trace.k \in 1..(Len(Targets) + 1) /\ Len(trace.hops) <= MaxHops
  /\ \A p \in flight : p.left \in 0..delay

(* What a ping counts is the answer of its own host to its own request:    *)
(* neither one of another anchor, pinged at the same time, nor a late one  *)
(* to an earlier request, nor one for another program.                     *)
OwnReplies == mistaken = {}

(* The comments of nativeTrace and awaitHop: a hop of the report is the    *)
(* router at that distance on the way to the target, and a trace ends at   *)
(* the target.  Where answers may come after the time a probe waits, the   *)
(* hop can be of a probe with the same number of an earlier trace, or of   *)
(* an earlier ping; but an answer never moves along the way.               *)
HopOf(t, n, hop) == IF hop.done THEN n >= Len(Path[t]) /\ hop.ip = t
                                ELSE n <= Len(Path[t]) /\ hop.ip = Path[t][n]

LateHop(k, n, hop) ==
  \/ /\ delay >= HopTimeout \/ delay >= ReplyTimeout
     /\ \E j \in 1..(k - 1) : HopOf(Targets[j], n, hop)
  \/ delay >= ReplyTimeout /\ hop.done /\ hop.ip \in Anchors /\ n < Count

Truthful(k, hops) ==
  \A n \in DOMAIN hops :
    /\ hops[n].done => n = Len(hops)
    /\ hops[n].ip = "" \/ HopOf(Targets[k], n, hops[n]) \/ LateHop(k, n, hops[n])

TruthfulHops ==
  /\ trace.k <= Len(Targets) => Truthful(trace.k, trace.hops)
  /\ \A k \in DOMAIN out : Truthful(k, out[k].hops)

(* Other ICMP traffic of the machine, however busy, keeps no probe waiting *)
(* beyond its deadline: the test comes to an end.                          *)
ProbesEnd == <>(trace.at = "done")

=============================================================================
