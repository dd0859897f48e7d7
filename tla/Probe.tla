------------------------------- MODULE Probe -------------------------------
(***************************************************************************)
(* internal/blocking: one endpoint taken through DNS, TCP, TLS and HTTP.   *)
(* The network decides what happens at each step, and `net' remembers it;  *)
(* the probe sees only answers, errors and timeouts and has to name the    *)
(* step the network breaks.  Time matters in the last step alone, where    *)
(* deadlines on the connection are set by the probe for the answer, again  *)
(* for every piece of the body, and by a callback when the context ends.   *)
(***************************************************************************)
EXTENDS Naturals, Sequences

CONSTANTS
  RespTimeout,  \* ticks from the request to the headers
  IdleTimeout,  \* ticks of silence after which the body has stalled
  Window,       \* ticks for the body as a whole
  Cap,          \* pieces of the body that are read at most
  RateMin,      \* pieces from which the rate counts
  SlowRate,     \* pieces per tick that are not slow
  MaxAddrs      \* bound: addresses a resolver gives

ASSUME ProbeAssumption ==
  /\ {RespTimeout, IdleTimeout, Window, Cap} \subseteq Nat \ {0}
  /\ {RateMin, SlowRate, MaxAddrs} \subseteq Nat \ {0}

Horizon == RespTimeout + Window + IdleTimeout  \* bound of the clock, past every deadline

VARIABLES
  tcpOnly,   \* the target has a fixed address and speaks no HTTPS
  net,       \* history: what the network did to this endpoint
  ended,     \* the context of the test has ended
  pc,        \* where the probe is
  dnsBlock,  \* the system resolver lied or kept silent
  addrs,     \* number of addresses to try
  tries,     \* attempts begun
  first,     \* what the first attempt found
  res,       \* the result
  cutter,    \* the callback of context.AfterFunc
  now,       \* ticks since the request
  deadline,  \* of reads on the connection
  begun,     \* when the reading of the body began
  bytes,     \* pieces of the body read
  heard      \* history: when the last piece came

connVars  == <<cutter, now, deadline, begun, bytes, heard>>
probeVars == <<tcpOnly, net, ended, pc, dnsBlock, addrs, tries, first, res, connVars>>

Status == {"ok", "blocked", "throttled", "failed"}
Nothing == [status |-> "failed", stage |-> "none", reachable |-> FALSE]

(* What breaks a step: "dead" is a timeout, a reset, a refusal, a dropped  *)
(* connection or a foreign certificate, "odd" an error of any other kind.  *)
Ways == {"fine", "dead", "odd"}

Answers == {"addresses", "unknown", "useless", "silent"}

Network == [sys  : {"unasked", "public", "bogus", "error"},
            doh  : Seq(Answers),
            tcp  : Seq(Ways),
            tls  : Ways \cup {"unasked"},
            http : Ways \cup {"unasked", "451", "body"},
            body : {"unasked", "eof", "full", "quiet", "dead", "odd"}]

ProbeTypeOK ==
  /\ tcpOnly \in BOOLEAN /\ ended \in BOOLEAN /\ dnsBlock \in BOOLEAN
  /\ net \in Network
  /\ pc \in {"lookup", "resolve", "dial", "handshake", "request", "headers",
             "extend", "read", "done"}
  /\ addrs \in 0..MaxAddrs /\ tries \in 0..2
  /\ first \in [status : Status, stage : STRING, reachable : BOOLEAN]
  /\ res \in [status : Status, stage : STRING, reachable : BOOLEAN]
  /\ cutter \in {"none", "armed", "ran", "stopped"}
  /\ {now, deadline, begun, heard} \subseteq Nat
  /\ bytes \in 0..Cap

ProbeInit ==
  /\ tcpOnly \in BOOLEAN /\ ended \in BOOLEAN
  /\ net = [sys |-> "unasked", doh |-> <<>>, tcp |-> <<>>,
            tls |-> "unasked", http |-> "unasked", body |-> "unasked"]
  /\ pc = IF tcpOnly THEN "dial" ELSE "lookup"
  /\ dnsBlock = FALSE /\ addrs = IF tcpOnly THEN 1 ELSE 0
  /\ tries = 0 /\ first = Nothing /\ res = Nothing
  /\ cutter = "none" /\ now = 0 /\ deadline = 0 /\ begun = 0 /\ bytes = 0 /\ heard = 0

OK(stage) == [status |-> "ok", stage |-> stage, reachable |-> FALSE]
Bad(status, stage) == [status |-> status, stage |-> stage, reachable |-> FALSE]

Fail(stage, way) == Bad(IF way = "odd" THEN "failed" ELSE "blocked", stage)

(* A call under an ended context may be cut: by a signal the error is      *)
(* "canceled", which is odd, by a timeout it looks like a timeout.         *)
Cuts == IF ended THEN {"dead", "odd"} ELSE {}

-----------------------------------------------------------------------------
(* dns *)

Honest(answer) == answer = "public"

(* The system resolver; the reference is asked only where it must be wrong. *)
Lookup ==
  /\ pc = "lookup"
  /\ \E answer \in {"public", "bogus", "error"}, n \in 1..MaxAddrs :
       /\ net' = [net EXCEPT !.sys = answer]
       /\ IF Honest(answer)
          THEN pc' = "dial" /\ addrs' = n
          ELSE pc' = "resolve" /\ n = 1 /\ UNCHANGED addrs
  /\ UNCHANGED <<tcpOnly, ended, dnsBlock, tries, first, res, connVars>>

(* The system resolver lied or kept silent about a name that exists.       *)
Resolved(n) ==
  /\ dnsBlock' = TRUE /\ addrs' = n
  /\ pc' = "dial" /\ UNCHANGED res

(* With no address there is nothing to connect to: private addresses are a *)
(* lie all the same, but a name that no resolver knows is a failure of the *)
(* check.                                                                  *)
Unresolved ==
  /\ res' = Bad(IF net.sys = "bogus" THEN "blocked" ELSE "failed", "dns")
  /\ pc' = "done" /\ UNCHANGED <<dnsBlock, addrs>>

Endpoints == 2  \* dohEndpoints

(* dohLookup asks the independent resolvers one after another, and stops   *)
(* at addresses or at NXDOMAIN; an error or an empty answer is no answer.  *)
(* A silent resolver uses up the time of both: dnsTimeout is the timeout   *)
(* of one request as well as of the whole look-up.                         *)
Resolve ==
  /\ pc = "resolve"
  /\ \E answer \in Answers, n \in 1..MaxAddrs :
       /\ net' = [net EXCEPT !.doh = Append(@, answer)]
       /\ IF answer = "addresses" THEN Resolved(n)
          ELSE n = 1 /\ IF answer = "useless" /\ Len(net'.doh) < Endpoints
                        THEN UNCHANGED <<pc, res, dnsBlock, addrs>>
                        ELSE Unresolved
  /\ UNCHANGED <<tcpOnly, ended, tries, first, connVars>>

-----------------------------------------------------------------------------
(* transport and attempt *)

DnsWins(r) == [status |-> "blocked", stage |-> "dns", reachable |-> r.status = "ok"]

(* The end of probe: a lie of the resolver is the verdict, with a remark   *)
(* when the address itself answers.  Deferred: stop, and close.            *)
Finish(r) ==
  /\ res' = IF dnsBlock THEN DnsWins(r) ELSE r
  /\ cutter' = IF cutter = "armed" THEN "stopped" ELSE cutter
  /\ pc' = "done"

OnceMore == tries + 1 < addrs
TryAgain == tries + 1 < addrs /\ tries + 1 < 2

DialFails(way) ==
  LET r == Fail("tcp", way) IN
  /\ first' = IF tries = 0 THEN r ELSE first
  /\ IF TryAgain THEN pc' = "dial" /\ UNCHANGED <<res, cutter>> ELSE Finish(first')

Dial ==
  /\ pc = "dial"
  /\ tries' = tries + 1
  /\ \/ /\ net' = [net EXCEPT !.tcp = Append(@, "fine")]
        /\ IF tcpOnly THEN Finish(OK("none"))
           ELSE pc' = "handshake" /\ UNCHANGED <<res, cutter>>
        /\ UNCHANGED first
     \/ \E way \in {"dead", "odd"} :
          net' = [net EXCEPT !.tcp = Append(@, way)] /\ DialFails(way)
     \/ \E way \in Cuts : UNCHANGED net /\ DialFails(way)
  /\ UNCHANGED <<tcpOnly, ended, dnsBlock, addrs, now, deadline, begun, bytes, heard>>

(* After the handshake fetch arms the callback. *)
Handshake ==
  /\ pc = "handshake"
  /\ \/ /\ net' = [net EXCEPT !.tls = "fine"]
        /\ pc' = "request" /\ cutter' = "armed" /\ UNCHANGED res
     \/ \E way \in {"dead", "odd"} :
          net' = [net EXCEPT !.tls = way] /\ Finish(Fail("tls", way))
     \/ \E way \in Cuts : UNCHANGED net /\ Finish(Fail("tls", way))
  /\ UNCHANGED <<tcpOnly, ended, dnsBlock, addrs, tries, first,
                 now, deadline, begun, bytes, heard>>

-----------------------------------------------------------------------------
(* fetch and drain *)

fetchRest == <<tcpOnly, ended, dnsBlock, addrs, tries, first, now>>

(* conn.SetDeadline for the request and the headers *)
Request ==
  /\ pc = "request"
  /\ deadline' = now + RespTimeout
  /\ pc' = "headers"
  /\ UNCHANGED <<fetchRest, net, res, cutter, begun, bytes, heard>>

NoDeadline == TRUE
OpenInTime == now < deadline

(* req.Write and http.ReadResponse *)
Headers ==
  /\ pc = "headers" /\ OpenInTime
  /\ \/ /\ net' = [net EXCEPT !.http = "body"]
        /\ pc' = "extend" /\ begun' = now /\ heard' = now
        /\ UNCHANGED <<res, cutter>>
     \/ /\ net' = [net EXCEPT !.http = "451"]
        /\ Finish(Bad("blocked", "http")) /\ UNCHANGED <<begun, heard>>
     \/ /\ \E way \in {"dead", "odd"} :
             net' = [net EXCEPT !.http = way] /\ Finish(Fail("http", way))
        /\ UNCHANGED <<begun, heard>>
  /\ UNCHANGED <<fetchRest, deadline, bytes>>

HeadersTimeout ==
  /\ pc = "headers" /\ ~OpenInTime
  /\ net' = IF now >= RespTimeout THEN [net EXCEPT !.http = "dead"] ELSE net
  /\ Finish(Bad("blocked", "http"))
  /\ UNCHANGED <<fetchRest, deadline, begun, bytes, heard>>

End == begun + Window
IdleOnly == now + IdleTimeout
NextDeadline == IF now + IdleTimeout > End THEN End ELSE now + IdleTimeout

(* One turn of the loop of drain: a new deadline for every piece. *)
Extend ==
  /\ pc = "extend" /\ bytes < Cap
  /\ deadline' = NextDeadline
  /\ pc' = "read"
  /\ UNCHANGED <<fetchRest, net, res, cutter, begun, bytes, heard>>

Piece ==
  /\ pc = "read" /\ OpenInTime
  /\ bytes' = bytes + 1 /\ heard' = now
  /\ pc' = "extend"
  /\ UNCHANGED <<fetchRest, net, res, cutter, deadline, begun>>

Slow == bytes >= RateMin /\ bytes < SlowRate * (now - begun)

(* The body is over, or enough of it has been read. *)
Whole ==
  /\ \/ /\ pc = "read" /\ OpenInTime
        /\ net' = [net EXCEPT !.body = "eof"]
     \/ /\ pc = "extend" /\ bytes = Cap
        /\ net' = [net EXCEPT !.body = "full"]
  /\ Finish(IF Slow THEN Bad("throttled", "http") ELSE OK("none"))
  /\ UNCHANGED <<fetchRest, deadline, begun, bytes, heard>>

Broken ==
  /\ pc = "read" /\ OpenInTime
  /\ \E way \in {"dead", "odd"} :
       net' = [net EXCEPT !.body = way] /\ Finish(Fail("http", way))
  /\ UNCHANGED <<fetchRest, deadline, begun, bytes, heard>>

(* A read that timed out: stalled, or slow once the window is over. *)
Silence ==
  /\ pc = "read" /\ ~OpenInTime
  /\ net' = IF now - heard >= IdleTimeout \/ now >= End
            THEN [net EXCEPT !.body = "quiet"] ELSE net
  /\ Finish(Bad("throttled", "http"))
  /\ UNCHANGED <<fetchRest, deadline, begun, bytes, heard>>

-----------------------------------------------------------------------------
(* Time and the context *)

(* The probe's own computing takes no time against seconds: the clock goes *)
(* on while the probe waits in a call on the connection.                   *)
Tick ==
  /\ pc \in {"headers", "read"} /\ OpenInTime /\ now < Horizon
  /\ now' = now + 1
  /\ UNCHANGED <<tcpOnly, net, ended, pc, dnsBlock, addrs, tries, first, res,
                 cutter, deadline, begun, bytes, heard>>

(* The callback, in a goroutine of its own: conn.SetDeadline(time.Now()). *)
Cut ==
  /\ ended /\ cutter = "armed"
  /\ cutter' = "ran" /\ deadline' = now
  /\ UNCHANGED <<tcpOnly, net, ended, pc, dnsBlock, addrs, tries, first, res,
                 now, begun, bytes, heard>>

ProbeStep ==
  \/ Lookup \/ Resolve
  \/ Dial \/ Handshake
  \/ Request \/ Headers \/ HeadersTimeout
  \/ Extend \/ Piece \/ Whole \/ Broken \/ Silence

-----------------------------------------------------------------------------
(* What the network did, as a verdict: the first step that it broke, or    *)
(* the quality of the transfer.                                            *)

Untested == Bad("untested", "none")

Open == {k \in DOMAIN net.tcp : net.tcp[k] = "fine"}

Connection ==
  IF net.tcp = <<>> THEN Untested
  ELSE IF Open = {} THEN Fail("tcp", net.tcp[1])
  ELSE IF tcpOnly THEN OK("none")
  ELSE IF net.tls \in {"dead", "odd"} THEN Fail("tls", net.tls)
  ELSE IF net.http \in {"dead", "odd"} THEN Fail("http", net.http)
  ELSE IF net.http = "451" THEN Bad("blocked", "http")
  ELSE IF net.body \in {"dead", "odd"} THEN Fail("http", net.body)
  ELSE IF net.body = "quiet" \/ Slow THEN Bad("throttled", "http")
  ELSE IF net.body \in {"eof", "full"} THEN OK("none")
  ELSE Untested

Exists == \E k \in DOMAIN net.doh : net.doh[k] = "addresses"

Truth ==
  IF net.sys \in {"unasked", "public"} THEN Connection
  ELSE IF Exists
  THEN [status |-> "blocked", stage |-> "dns", reachable |-> Connection.status = "ok"]
  ELSE Bad(IF net.sys = "bogus" THEN "blocked" ELSE "failed", "dns")

=============================================================================
