--------------------------- MODULE Blocking_proofs ---------------------------
(* Theorems about Blocking, for all limits and all networks.                *)
EXTENDS Blocking, TLAPS, FiniteSetTheorems

-----------------------------------------------------------------------------
(* The clock *)

(* A waiting probe has not passed its deadline, and no deadline is later    *)
(* than the limits allow, whether the probe or the callback set it last.    *)
ClockInv ==
  /\ {now, deadline, begun, heard} \subseteq Nat
  /\ pc \in {"lookup", "resolve", "dial", "handshake", "request"} => now = 0
  /\ pc = "headers" => now <= deadline /\ deadline <= RespTimeout
  /\ pc \in {"extend", "read"} =>
       begun <= RespTimeout /\ heard <= now /\ begun <= now
  /\ pc = "extend" => now = heard /\ now <= begun + Window
  /\ pc = "read" => /\ now <= deadline
                    /\ deadline <= heard + IdleTimeout
                    /\ deadline <= begun + Window
  /\ now <= RespTimeout + Window
  /\ pc \in {"lookup", "resolve", "dial", "handshake", "request", "headers",
             "extend", "read", "done"}

LEMMA ClockInit == Init => ClockInv
  BY ProbeAssumption DEF Init, ProbeInit, ClockInv

LEMMA ClockStep == ClockInv /\ [Next]_vars => ClockInv'
<1> SUFFICES ASSUME ClockInv, [Next]_vars PROVE ClockInv'
  OBVIOUS
<1> USE ProbeAssumption DEF ClockInv
<1>1. CASE Lookup \/ Resolve
  BY <1>1 DEF Lookup, Resolve, Resolved, Unresolved, connVars
<1>2. CASE Dial
  BY <1>2 DEF Dial, DialFails, Finish
<1>3. CASE Handshake
  BY <1>3 DEF Handshake, Finish
<1>4. CASE Request
  BY <1>4 DEF Request, fetchRest
<1>5. CASE Headers \/ HeadersTimeout
  BY <1>5 DEF Headers, HeadersTimeout, Finish, fetchRest, OpenInTime
<1>6. CASE Extend
  BY <1>6 DEF Extend, NextDeadline, End, fetchRest
<1>7. CASE Piece
  BY <1>7 DEF Piece, fetchRest, OpenInTime
<1>8. CASE Whole \/ Broken \/ Silence
  BY <1>8 DEF Whole, Broken, Silence, Finish, fetchRest
<1>9. CASE Tick
  BY <1>9 DEF Tick, OpenInTime
<1>10. CASE Cut
  BY <1>10 DEF Cut
<1>11. CASE Judge \/ EndContext \/ UNCHANGED vars
  BY <1>11 DEF Judge, EndContext, vars, probeVars, connVars, judgeVars
<1>12. QED
  BY <1>1, <1>2, <1>3, <1>4, <1>5, <1>6, <1>7, <1>8, <1>9, <1>10, <1>11
  DEF Next, ProbeStep

(* For all limits: silence is noticed within the idle time, and request and *)
(* body end within their two limits, whoever set the deadline last.         *)
THEOREM StallsAreCaught == Spec => []StallIsCaught
<1>1. ClockInv => StallIsCaught
  BY ProbeAssumption DEF ClockInv, StallIsCaught
<1>2. QED
  BY <1>1, ClockInit, ClockStep, PTL DEF Spec

-----------------------------------------------------------------------------
(* The verdict *)

Untouched ==
  net.tls = "unasked" /\ net.http = "unasked" /\ net.body = "unasked"

(* The name is settled: by the target, by an honest resolver, or by the     *)
(* independent one after the system resolver lied.                          *)
Settled ==
  \/ net.sys = "unasked" /\ ~dnsBlock
  \/ net.sys = "public" /\ ~dnsBlock
  \/ net.sys \in {"bogus", "error"} /\ Exists /\ dnsBlock

NamePhase ==
  /\ pc = "lookup" => net.doh = <<>>
  /\ pc = "resolve" => net.sys \in {"bogus", "error"} /\ ~Exists
  /\ pc \in {"lookup", "resolve"} =>
       ~dnsBlock /\ net.tcp = <<>> /\ tries = 0 /\ Untouched

DialPhase ==
  pc = "dial" =>
    /\ Settled /\ Untouched
    /\ Open = {} /\ Len(net.tcp) = tries
    /\ tries > 0 => first = Fail("tcp", net.tcp[1])

OpenPhase ==
  pc \in {"handshake", "request", "headers", "extend", "read"} =>
    /\ Settled /\ Open # {} /\ ~tcpOnly
    /\ net.tls = IF pc = "handshake" THEN "unasked" ELSE "fine"
    /\ net.http = IF pc \in {"extend", "read"} THEN "body" ELSE "unasked"
    /\ net.body = "unasked"
    /\ pc = "headers" => deadline = RespTimeout
    /\ pc = "read" => deadline = heard + IdleTimeout \/ deadline = End

(* As long as the context lives, the probe knows what the network did, and  *)
(* its result, once there is one, is the truth about it.                    *)
Knows == NamePhase /\ DialPhase /\ OpenPhase /\ (pc = "done" => res = Truth)

VerdictInv ==
  /\ ClockInv
  /\ net \in Network /\ tries \in Nat
  /\ ended \in BOOLEAN
  /\ ~ended => Knows
  /\ judgement = "table" => res = Truth
  /\ judgement # "open" => pc = "done"

(* The two ways to end a probe agree with the truth: what its connection    *)
(* says, under the rule that a lie of the resolver comes first.             *)
LEMMA FinishTells ==
  ASSUME Settled', Finish(Connection'), UNCHANGED dnsBlock
  PROVE  res' = Truth'
<1>1. CASE ~dnsBlock
  BY <1>1 DEF Settled, Finish, Truth
<1>2. CASE dnsBlock
  BY <1>2 DEF Settled, Finish, DnsWins, Truth
<1>3. QED
  BY <1>1, <1>2

LEMMA ConnectionDialFails ==
  ASSUME net \in Network, Open = {}, Untouched, Len(net.tcp) = tries, tries \in Nat,
         tries > 0 => first = Fail("tcp", net.tcp[1]),
         NEW way \in {"dead", "odd"},
         net' = [net EXCEPT !.tcp = Append(@, way)],
         first' = IF tries = 0 THEN Fail("tcp", way) ELSE first
  PROVE  Open' = {} /\ Len(net'.tcp) = tries + 1 /\ first' = Fail("tcp", net'.tcp[1])
         /\ Untouched' /\ Connection' = first'
<1>1. net.tcp \in Seq(Ways) /\ way \in Ways
  BY DEF Network, Ways
<1>2. net'.tcp = Append(net.tcp, way)
  BY DEF Network
<1>3. Len(net'.tcp) = tries + 1 /\ net'.tcp # <<>>
  BY <1>1, <1>2
<1>4. Open' = {}
  <2>1. \A k \in DOMAIN net.tcp : net.tcp[k] # "fine"
    BY DEF Open
  <2>2. \A k \in DOMAIN net'.tcp : net'.tcp[k] # "fine"
    BY <1>1, <1>2, <2>1
  <2>3. QED
    BY <2>2 DEF Open
<1>5. first' = Fail("tcp", net'.tcp[1])
  <2>1. CASE tries = 0
    BY <2>1, <1>1, <1>2
  <2>2. CASE tries > 0
    BY <2>2, <1>1, <1>2
  <2>3. QED
    BY <2>1, <2>2
<1>6. Untouched'
  BY DEF Untouched, Network
<1>7. Connection' = first'
  BY <1>3, <1>4, <1>5 DEF Connection
<1>8. QED
  BY <1>3, <1>4, <1>5, <1>6, <1>7

LEMMA VerdictInit == Init => VerdictInv
<1> SUFFICES ASSUME Init PROVE VerdictInv
  OBVIOUS
<1> USE DEF Init, ProbeInit
<1>1. net \in Network
  BY DEF Network, Ways
<1>2. Open = {} /\ Untouched
  BY DEF Open, Untouched
<1>3. Knows
  <2>1. NamePhase
    BY <1>2 DEF NamePhase
  <2>2. DialPhase
    BY <1>2 DEF DialPhase, Settled
  <2>3. OpenPhase
    BY DEF OpenPhase
  <2>4. QED
    BY <2>1, <2>2, <2>3 DEF Knows
<1>4. QED
  BY <1>1, <1>3, ClockInit DEF VerdictInv

LEMMA TypesStep ==
  VerdictInv /\ [Next]_vars => net' \in Network /\ tries' \in Nat /\ ended' \in BOOLEAN
<1> SUFFICES ASSUME VerdictInv, [Next]_vars
             PROVE  net' \in Network /\ tries' \in Nat /\ ended' \in BOOLEAN
  OBVIOUS
<1>0. net \in Network /\ tries \in Nat /\ ended \in BOOLEAN
  BY DEF VerdictInv
<1>1. CASE Lookup
  BY <1>0, <1>1 DEF Lookup, Network
<1>2. CASE Resolve
  <2>1. PICK answer \in Answers :
          net' = [net EXCEPT !.doh = Append(@, answer)]
    BY <1>2 DEF Resolve
  <2>2. Append(net.doh, answer) \in Seq(Answers)
    BY <1>0 DEF Network
  <2>3. net' \in Network
    BY <1>0, <2>1, <2>2 DEF Network
  <2>4. QED
    BY <1>0, <1>2, <2>3 DEF Resolve
<1>3. CASE Dial
  <2>1. net' = net \/ \E way \in Ways : net' = [net EXCEPT !.tcp = Append(@, way)]
    BY <1>3 DEF Dial, Ways
  <2>2. \A way \in Ways : Append(net.tcp, way) \in Seq(Ways)
    BY <1>0 DEF Network
  <2>3. net' \in Network
    BY <1>0, <2>1, <2>2 DEF Network
  <2>4. QED
    BY <1>0, <1>3, <2>3 DEF Dial
<1>4. CASE Handshake
  BY <1>0, <1>4 DEF Handshake, Network, Ways
<1>5. CASE Headers \/ HeadersTimeout
  BY <1>0, <1>5 DEF Headers, HeadersTimeout, fetchRest, Network, Ways
<1>6. CASE Request \/ Extend \/ Piece
  BY <1>0, <1>6 DEF Request, Extend, Piece, fetchRest
<1>7. CASE Whole \/ Broken \/ Silence
  BY <1>0, <1>7 DEF Whole, Broken, Silence, fetchRest, Network, Ways
<1>8. CASE Tick \/ Cut
  BY <1>0, <1>8 DEF Tick, Cut
<1>9. CASE Judge \/ EndContext \/ UNCHANGED vars
  BY <1>0, <1>9 DEF Judge, EndContext, vars, probeVars
<1>10. QED
  BY <1>1, <1>2, <1>3, <1>4, <1>5, <1>6, <1>7, <1>8, <1>9 DEF Next, ProbeStep

(* What is known of the name and the address stays known while the later    *)
(* fields of the history are filled in.                                     *)
LEMMA NameStays ==
  ASSUME net \in Network, UNCHANGED <<dnsBlock, tcpOnly>>,
         net'.sys = net.sys, net'.doh = net.doh, net'.tcp = net.tcp
  PROVE  (Settled => Settled') /\ (Open' = Open)
BY DEF Settled, Exists, Open

LEMMA NameKnows ==
  ASSUME VerdictInv, ~ended, Lookup \/ Resolve
  PROVE  Knows'
<1>0. net \in Network /\ Knows
  BY DEF VerdictInv
<1> USE DEF NamePhase, Knows
<1>1. CASE Lookup
  <2>1. PICK answer \in {"public", "bogus", "error"} :
          /\ net' = [net EXCEPT !.sys = answer]
          /\ IF answer = "public" THEN pc' = "dial" ELSE pc' = "resolve"
    BY <1>1 DEF Lookup, Honest
  <2>2. /\ net'.sys = answer /\ net'.doh = <<>> /\ net'.tcp = <<>>
        /\ ~dnsBlock' /\ tries' = 0 /\ Untouched'
    BY <1>0, <1>1, <2>1 DEF Lookup, Untouched, Network
  <2>3. ~Exists' /\ Open' = {}
    BY <2>2 DEF Exists, Open
  <2>4. DialPhase'
    BY <2>1, <2>2, <2>3 DEF DialPhase, Settled
  <2>5. OpenPhase'
    BY <2>1 DEF OpenPhase
  <2>6. QED
    BY <2>1, <2>2, <2>3, <2>4, <2>5
<1>2. CASE Resolve
  <2>1. PICK answer \in Answers, n \in 1..MaxAddrs :
          /\ net' = [net EXCEPT !.doh = Append(@, answer)]
          /\ IF answer = "addresses" THEN Resolved(n)
             ELSE n = 1 /\ IF answer = "useless" /\ Len(net'.doh) < Endpoints
                           THEN UNCHANGED <<pc, res, dnsBlock, addrs>>
                           ELSE Unresolved
    BY <1>2 DEF Resolve
  <2>2. /\ pc = "resolve" /\ net.sys \in {"bogus", "error"} /\ ~Exists
        /\ ~dnsBlock /\ net.tcp = <<>> /\ tries = 0 /\ Untouched
        /\ tries' = tries /\ net.doh \in Seq(Answers)
    BY <1>0, <1>2 DEF Resolve, Network
  <2>3. /\ net'.sys = net.sys /\ net'.doh = Append(net.doh, answer)
        /\ net'.tcp = <<>> /\ Untouched' /\ net'.sys \in {"bogus", "error"}
    BY <1>0, <2>1, <2>2 DEF Untouched, Network
  <2>4. Exists' <=> answer = "addresses"
    <3>1. \A k \in DOMAIN net.doh : net.doh[k] # "addresses"
      BY <2>2 DEF Exists
    <3>2. /\ DOMAIN net'.doh = 1..(Len(net.doh) + 1)
          /\ net'.doh[Len(net.doh) + 1] = answer
          /\ \A k \in DOMAIN net.doh : net'.doh[k] = net.doh[k]
          /\ DOMAIN net.doh = 1..Len(net.doh) /\ Len(net.doh) \in Nat
      BY <2>2, <2>3
    <3>3. CASE answer = "addresses"
      BY <3>2, <3>3 DEF Exists
    <3>4. CASE answer # "addresses"
      <4>1. \A k \in DOMAIN net'.doh : net'.doh[k] # "addresses"
        BY <3>1, <3>2, <3>4
      <4>2. QED
        BY <4>1, <3>4 DEF Exists
    <3>5. QED
      BY <3>3, <3>4
  <2>5. Open' = {}
    BY <2>3 DEF Open
  <2>6. CASE answer = "addresses"
    BY <2>1, <2>2, <2>3, <2>4, <2>5, <2>6
    DEF Resolved, DialPhase, OpenPhase, Settled
  <2>7. CASE answer # "addresses" /\ Unresolved
    <3>1. res' = Truth'
      BY <2>3, <2>4, <2>7 DEF Unresolved, Truth
    <3>2. QED
      BY <3>1, <2>7 DEF Unresolved, DialPhase, OpenPhase
  <2>8. CASE answer # "addresses" /\ UNCHANGED <<pc, res, dnsBlock, addrs>>
    BY <2>2, <2>3, <2>4, <2>8 DEF DialPhase, OpenPhase
  <2>9. QED
    BY <2>1, <2>6, <2>7, <2>8
<1>3. QED
  BY <1>1, <1>2

(* The end of a probe: nothing is left to know but the result.              *)
LEMMA FinishKnows ==
  ASSUME Settled', Finish(Connection'), UNCHANGED dnsBlock
  PROVE  Knows'
<1>1. res' = Truth' /\ pc' = "done"
  BY FinishTells DEF Finish
<1>2. QED
  BY <1>1 DEF Knows, NamePhase, DialPhase, OpenPhase

LEMMA DialKnows ==
  ASSUME VerdictInv, ~ended, Dial
  PROVE  Knows'
<1>0. /\ net \in Network /\ tries \in Nat /\ Settled /\ Untouched /\ Open = {}
      /\ Len(net.tcp) = tries /\ (tries > 0 => first = Fail("tcp", net.tcp[1]))
  BY DEF VerdictInv, Knows, DialPhase, Dial
<1>1. UNCHANGED <<dnsBlock, tcpOnly>> /\ tries' = tries + 1 /\ Cuts = {}
  BY DEF Dial, Cuts
<1>2. CASE net' = [net EXCEPT !.tcp = Append(@, "fine")]
  <2>1. /\ net'.tcp = Append(net.tcp, "fine") /\ net.tcp \in Seq(Ways) /\ "fine" \in Ways
        /\ net'.sys = net.sys /\ net'.doh = net.doh /\ Untouched'
    BY <1>0, <1>2 DEF Network, Untouched, Ways
  <2>2. Len(net.tcp) + 1 \in DOMAIN net'.tcp /\ net'.tcp[Len(net.tcp) + 1] = "fine"
    BY <2>1
  <2>3. Open' # {} /\ net'.tcp # <<>>
    BY <2>2 DEF Open
  <2>4. Settled'
    BY <1>0, <1>1, <2>1 DEF Settled, Exists
  <2>5. CASE tcpOnly /\ Finish(OK("none"))
    <3>1. Connection' = OK("none")
      BY <1>1, <2>3, <2>5 DEF Connection
    <3>2. QED
      BY <1>1, <2>4, <2>5, <3>1, FinishKnows
  <2>6. CASE ~tcpOnly /\ pc' = "handshake"
    BY <1>1, <2>1, <2>3, <2>4, <2>6
    DEF Knows, NamePhase, DialPhase, OpenPhase, Untouched
  <2>7. CASE \E way \in {"dead", "odd"} : net' = [net EXCEPT !.tcp = Append(@, way)]
    <3>1. PICK way \in {"dead", "odd"} : net' = [net EXCEPT !.tcp = Append(@, way)]
      BY <2>7
    <3>2. net'.tcp = Append(net.tcp, way)
      BY <1>0, <3>1 DEF Network
    <3>3. net'.tcp[Len(net.tcp) + 1] = way
      BY <2>1, <3>2
    <3>4. QED
      BY <2>2, <3>3
  <2>8. QED
    BY <2>5, <2>6, <2>7, <1>1 DEF Dial
<1>3. CASE \E way \in {"dead", "odd"} :
             net' = [net EXCEPT !.tcp = Append(@, way)] /\ DialFails(way)
  <2>1. PICK way \in {"dead", "odd"} :
          net' = [net EXCEPT !.tcp = Append(@, way)] /\ DialFails(way)
    BY <1>3
  <2>2. first' = IF tries = 0 THEN Fail("tcp", way) ELSE first
    BY <2>1 DEF DialFails
  <2>3. /\ Open' = {} /\ Len(net'.tcp) = tries + 1 /\ first' = Fail("tcp", net'.tcp[1])
        /\ Untouched' /\ Connection' = first'
    BY <1>0, <2>1, <2>2, ConnectionDialFails
  <2>4. net'.sys = net.sys /\ net'.doh = net.doh
    BY <1>0, <2>1 DEF Network
  <2>5. Settled'
    BY <1>0, <1>1, <2>4 DEF Settled, Exists
  <2>6. CASE pc' = "dial"
    BY <1>1, <2>3, <2>5, <2>6 DEF Knows, NamePhase, DialPhase, OpenPhase
  <2>7. CASE Finish(first')
    BY <1>1, <2>3, <2>5, <2>7, FinishKnows
  <2>8. QED
    BY <2>1, <2>6, <2>7 DEF DialFails
<1>4. QED
  BY <1>1, <1>2, <1>3 DEF Dial

LEMMA HandshakeKnows ==
  ASSUME VerdictInv, ~ended, Handshake
  PROVE  Knows'
<1>0. /\ net \in Network /\ Settled /\ Open # {} /\ ~tcpOnly
      /\ net.tls = "unasked" /\ net.http = "unasked" /\ net.body = "unasked"
  BY DEF VerdictInv, Knows, OpenPhase, Handshake
<1>1. UNCHANGED <<dnsBlock, tcpOnly>> /\ Cuts = {}
  BY DEF Handshake, Cuts
<1>2. CASE net' = [net EXCEPT !.tls = "fine"] /\ pc' = "request"
  <2>1. /\ net'.tls = "fine" /\ net'.http = "unasked" /\ net'.body = "unasked"
        /\ net'.sys = net.sys /\ net'.doh = net.doh /\ net'.tcp = net.tcp
    BY <1>0, <1>2 DEF Network
  <2>2. Settled' /\ Open' # {}
    BY <1>0, <1>1, <2>1, NameStays
  <2>3. QED
    BY <1>0, <1>1, <1>2, <2>1, <2>2 DEF Knows, NamePhase, DialPhase, OpenPhase
<1>3. CASE \E way \in {"dead", "odd"} :
             net' = [net EXCEPT !.tls = way] /\ Finish(Fail("tls", way))
  <2>1. PICK way \in {"dead", "odd"} :
          net' = [net EXCEPT !.tls = way] /\ Finish(Fail("tls", way))
    BY <1>3
  <2>2. /\ net'.tls = way /\ net'.sys = net.sys
        /\ net'.doh = net.doh /\ net'.tcp = net.tcp
    BY <1>0, <2>1 DEF Network
  <2>3. Settled' /\ Open' # {} /\ net'.tcp # <<>>
    BY <1>0, <1>1, <2>2, NameStays DEF Open
  <2>4. Connection' = Fail("tls", way)
    BY <1>0, <1>1, <2>2, <2>3 DEF Connection
  <2>5. QED
    BY <1>1, <2>1, <2>3, <2>4, FinishKnows
<1>4. QED
  BY <1>1, <1>2, <1>3 DEF Handshake

Fetching == Request \/ Headers \/ HeadersTimeout \/ Extend \/ Piece \/ Whole \/ Broken \/ Silence

LEMMA FetchKnows ==
  ASSUME VerdictInv, ~ended, Fetching
  PROVE  Knows'
<1>0. /\ net \in Network /\ Settled /\ Open # {} /\ ~tcpOnly /\ ClockInv
      /\ net.tls = "fine" /\ net.body = "unasked"
      /\ net.http = IF pc \in {"extend", "read"} THEN "body" ELSE "unasked"
      /\ pc = "headers" => deadline = RespTimeout
      /\ pc = "read" => deadline = heard + IdleTimeout \/ deadline = End
  BY DEF VerdictInv, Knows, OpenPhase, Fetching, Request, Headers, HeadersTimeout,
         Extend, Piece, Whole, Broken, Silence
<1>1. UNCHANGED <<dnsBlock, tcpOnly, now>>
  BY DEF Fetching, Request, Headers, HeadersTimeout, Extend, Piece, Whole, Broken,
         Silence, fetchRest
<1>2. /\ net'.sys = net.sys /\ net'.doh = net.doh /\ net'.tcp = net.tcp
      /\ net'.tls = "fine"
  BY <1>0 DEF Fetching, Request, Headers, HeadersTimeout, Extend, Piece, Whole,
              Broken, Silence, Network
<1>3. Settled' /\ Open' # {} /\ net'.tcp # <<>>
  BY <1>0, <1>1, <1>2, NameStays DEF Open
<1>4. CASE Request
  BY <1>0, <1>1, <1>3, <1>4, ProbeAssumption
  DEF Request, ClockInv, Knows, NamePhase, DialPhase, OpenPhase
<1>5. CASE Extend
  <2>1. heard = now /\ deadline' = NextDeadline /\ net' = net /\ pc' = "read"
        /\ begun' = begun /\ heard' = heard
    BY <1>0, <1>5 DEF Extend, ClockInv
  <2>2. deadline' = heard' + IdleTimeout \/ deadline' = End'
    BY <1>0, <2>1 DEF NextDeadline, End
  <2>3. QED
    BY <1>0, <1>1, <1>3, <1>5, <2>1, <2>2
    DEF Extend, Knows, NamePhase, DialPhase, OpenPhase
<1>6. CASE Piece
  BY <1>0, <1>1, <1>3, <1>6 DEF Piece, Knows, NamePhase, DialPhase, OpenPhase
<1>7. CASE Headers
  <2>1. CASE net' = [net EXCEPT !.http = "body"] /\ pc' = "extend"
    <3>1. net'.http = "body" /\ net'.body = "unasked"
      BY <1>0, <2>1 DEF Network
    <3>2. QED
      BY <1>0, <1>1, <1>2, <1>3, <2>1, <3>1 DEF Knows, NamePhase, DialPhase, OpenPhase
  <2>2. CASE net' = [net EXCEPT !.http = "451"] /\ Finish(Bad("blocked", "http"))
    <3>1. net'.http = "451"
      BY <1>0, <2>2 DEF Network
    <3>2. Connection' = Bad("blocked", "http")
      BY <1>0, <1>1, <1>2, <1>3, <3>1 DEF Connection
    <3>3. QED
      BY <1>1, <1>3, <2>2, <3>2, FinishKnows
  <2>3. CASE \E way \in {"dead", "odd"} :
               net' = [net EXCEPT !.http = way] /\ Finish(Fail("http", way))
    <3>1. PICK way \in {"dead", "odd"} :
            net' = [net EXCEPT !.http = way] /\ Finish(Fail("http", way))
      BY <2>3
    <3>2. net'.http = way
      BY <1>0, <3>1 DEF Network
    <3>3. Connection' = Fail("http", way)
      BY <1>0, <1>1, <1>2, <1>3, <3>2 DEF Connection
    <3>4. QED
      BY <1>1, <1>3, <3>1, <3>3, FinishKnows
  <2>4. QED
    BY <1>7, <2>1, <2>2, <2>3 DEF Headers
<1>8. CASE HeadersTimeout
  <2>1. now >= RespTimeout /\ Finish(Bad("blocked", "http"))
    BY <1>0, <1>8, ProbeAssumption DEF HeadersTimeout, OpenInTime, ClockInv
  <2>2. net'.http = "dead"
    BY <1>0, <1>8, <2>1 DEF HeadersTimeout, Network
  <2>3. Connection' = Bad("blocked", "http")
    BY <1>0, <1>1, <1>2, <1>3, <2>2 DEF Connection, Fail
  <2>4. QED
    BY <1>1, <1>3, <2>1, <2>3, FinishKnows
<1>9. CASE Whole
  <2>1. UNCHANGED <<bytes, begun>> /\ net'.http = "body" /\ net'.body \in {"eof", "full"}
    BY <1>0, <1>9 DEF Whole, Network
  <2>2. Slow' = Slow
    BY <1>1, <2>1 DEF Slow
  <2>3. Connection' = IF Slow THEN Bad("throttled", "http") ELSE OK("none")
    BY <1>0, <1>1, <1>2, <1>3, <2>1, <2>2 DEF Connection
  <2>4. QED
    BY <1>1, <1>3, <1>9, <2>3, FinishKnows DEF Whole
<1>10. CASE Broken
  <2>1. PICK way \in {"dead", "odd"} :
          net' = [net EXCEPT !.body = way] /\ Finish(Fail("http", way))
    BY <1>10 DEF Broken
  <2>2. net'.body = way /\ net'.http = "body"
    BY <1>0, <1>10, <2>1 DEF Broken, Network
  <2>3. Connection' = Fail("http", way)
    BY <1>0, <1>1, <1>2, <1>3, <2>2 DEF Connection
  <2>4. QED
    BY <1>1, <1>3, <2>1, <2>3, FinishKnows
<1>11. CASE Silence
  <2>1. now - heard >= IdleTimeout \/ now >= End
    BY <1>0, <1>11, ProbeAssumption DEF Silence, OpenInTime, ClockInv, End
  <2>2. net'.body = "quiet" /\ net'.http = "body"
    BY <1>0, <1>11, <2>1 DEF Silence, Network
  <2>3. Connection' = Bad("throttled", "http")
    BY <1>0, <1>1, <1>2, <1>3, <2>2 DEF Connection
  <2>4. QED
    BY <1>1, <1>3, <1>11, <2>3, FinishKnows DEF Silence
<1>12. QED
  BY <1>4, <1>5, <1>6, <1>7, <1>8, <1>9, <1>10, <1>11 DEF Fetching

LEMMA VerdictStep == VerdictInv /\ [Next]_vars => VerdictInv'
<1> SUFFICES ASSUME VerdictInv, [Next]_vars PROVE VerdictInv'
  OBVIOUS
<1>1. ClockInv' /\ net' \in Network /\ tries' \in Nat /\ ended' \in BOOLEAN
  BY ClockStep, TypesStep DEF VerdictInv
<1>2. ASSUME ~ended' PROVE Knows' /\ ~ended
  <2>1. ~ended /\ Knows
    <3>1. ended => ended'
      BY DEF Next, ProbeStep, Lookup, Resolve, Dial, Handshake, Request, Headers,
             HeadersTimeout, Extend, Piece, Whole, Broken, Silence, fetchRest,
             Tick, Cut, Judge, EndContext, vars, probeVars
    <3>2. QED
      BY <1>2, <3>1 DEF VerdictInv
  <2>2. CASE Lookup \/ Resolve
    BY <2>1, <2>2, NameKnows
  <2>3. CASE Dial
    BY <2>1, <2>3, DialKnows
  <2>4. CASE Handshake
    BY <2>1, <2>4, HandshakeKnows
  <2>5. CASE Fetching
    BY <2>1, <2>5, FetchKnows
  <2>6. CASE Tick
    BY <2>1, <2>6 DEF Tick, Knows, NamePhase, DialPhase, OpenPhase, Settled, Untouched,
                      Exists, Open, End
  <2>7. CASE Cut \/ EndContext
    BY <1>2, <2>1, <2>7 DEF Cut, EndContext
  <2>8. CASE UNCHANGED probeVars
    BY <2>1, <2>8 DEF probeVars, connVars, Knows, NamePhase, DialPhase, OpenPhase,
       Settled, Untouched, Exists, Open, End, Truth, Connection, Slow
  <2>9. QED
    BY <2>1, <2>2, <2>3, <2>4, <2>5, <2>6, <2>7, <2>8
    DEF Next, ProbeStep, Fetching, Judge, vars
<1>3. (judgement = "table" => res = Truth)' /\ (judgement # "open" => pc = "done")'
  <2>1. CASE Judge
    <3>1. pc = "done" /\ UNCHANGED probeVars /\ pc' = "done"
      BY <2>1 DEF Judge, probeVars
    <3>2. judgement' = "table" => ~ended
      BY <2>1 DEF Judge, IsCut
    <3>3. judgement' = "table" => res = Truth
      BY <3>1, <3>2 DEF VerdictInv, Knows
    <3>4. Truth' = Truth /\ res' = res
      BY <3>1 DEF probeVars, connVars, Truth, Connection, Exists, Open, Slow
    <3>5. QED
      BY <3>1, <3>3, <3>4
  <2>2. CASE judgement = "open" /\ judgement' = "open"
    BY <2>2
  <2>3. CASE UNCHANGED vars
    BY <2>3 DEF VerdictInv, vars, judgeVars, probeVars, connVars, Truth, Connection,
                Exists, Open, Slow
  <2>4. CASE pc = "done" /\ (ProbeStep \/ Tick)
    BY <2>4 DEF ProbeStep, Lookup, Resolve, Dial, Handshake, Request, Headers,
       HeadersTimeout, Extend, Piece, Whole, Broken, Silence, Tick, VerdictInv
  <2>5. CASE Cut /\ UNCHANGED judgeVars
    <3>1. UNCHANGED <<net, res, pc, tcpOnly, now, begun, bytes>>
      BY <2>5 DEF Cut
    <3>2. Truth' = Truth
      BY <3>1 DEF Truth, Connection, Exists, Open, Slow
    <3>3. UNCHANGED judgement
      BY <2>5 DEF judgeVars
    <3>4. QED
      BY <3>1, <3>2, <3>3 DEF VerdictInv
  <2>6. QED
    BY <2>1, <2>2, <2>3, <2>4, <2>5 DEF Next, judgeVars, EndContext, VerdictInv
<1>4. QED
  BY <1>1, <1>2, <1>3 DEF VerdictInv

(* For all limits, numbers of addresses and networks: what a table says of  *)
(* an endpoint is what the network did to it, and no interruption gets in.  *)
THEOREM TablesTellTruth == Spec => []TableTellsTruth
<1>1. VerdictInv => TableTellsTruth
  BY DEF VerdictInv, TableTellsTruth
<1>2. QED
  BY <1>1, VerdictInit, VerdictStep, PTL DEF Spec

-----------------------------------------------------------------------------
(* The status of the service *)

(* A verdict of the probe always is one of the four statuses.               *)
Graded == res.status \in Status /\ first.status \in Status

LEMMA GradedStep == Graded /\ [Next]_vars => Graded'
<1> SUFFICES ASSUME Graded, [Next]_vars PROVE Graded'
  OBVIOUS
<1> USE DEF Graded, Status
<1>1. ASSUME NEW r, r.status \in Status, Finish(r) PROVE res'.status \in Status
  BY <1>1 DEF Finish, DnsWins
<1>2. ASSUME NEW stage, NEW way PROVE Fail(stage, way).status \in Status
  BY DEF Fail, Bad
<1>3. CASE Lookup \/ Resolve
  BY <1>3 DEF Lookup, Resolve, Resolved, Unresolved, Bad
<1>4. CASE Dial
  <2>1. ASSUME NEW way, DialFails(way) PROVE Graded'
    <3>1. first'.status \in Status
      BY <1>2, <2>1 DEF DialFails
    <3>2. QED
      BY <1>1, <2>1, <3>1 DEF DialFails
  <2>2. OK("none").status \in Status
    BY DEF OK
  <2>3. QED
    BY <1>1, <1>4, <2>1, <2>2 DEF Dial
<1>5. CASE Handshake \/ Headers \/ HeadersTimeout \/ Broken \/ Silence
  <2>1. UNCHANGED first
    BY <1>5 DEF Handshake, Headers, HeadersTimeout, Broken, Silence, fetchRest
  <2>2. Bad("blocked", "http").status \in Status /\ Bad("throttled", "http").status \in Status
    BY DEF Bad
  <2>3. QED
    BY <1>1, <1>2, <1>5, <2>1, <2>2
    DEF Handshake, Headers, HeadersTimeout, Broken, Silence
<1>6. CASE Whole
  <2>1. (IF Slow THEN Bad("throttled", "http") ELSE OK("none")).status \in Status
    BY DEF Bad, OK
  <2>2. QED
    BY <1>1, <1>6, <2>1 DEF Whole, fetchRest
<1>7. CASE Request \/ Extend \/ Piece \/ Tick \/ Cut \/ Judge \/ EndContext \/ UNCHANGED vars
  BY <1>7 DEF Request, Extend, Piece, Tick, Cut, Judge, EndContext, fetchRest, vars, probeVars
<1>8. QED
  BY <1>3, <1>4, <1>5, <1>6, <1>7 DEF Next, ProbeStep

(* A status that agrees with the votes, by cases.                           *)
Fits(v, votes) ==
  /\ votes = {} => v = "failed"
  /\ votes # {} /\ "ok" \notin votes =>
       v = IF "blocked" \in votes THEN "blocked" ELSE "throttled"
  /\ votes = {"ok"} => v = "ok"
  /\ "ok" \in votes /\ votes # {"ok"} => v = "partial"

VotesCast == {IF m = "followed" THEN res.status ELSE others[m] : m \in Members} \ {"failed"}

LEMMA FairByCases ==
  ASSUME judgement = "table" => Fits(service, VotesCast)
  PROVE  FairVote
<1>1. CASE judgement = "table" /\ VotesCast = {}
  BY <1>1 DEF FairVote, Fits, VotesCast
<1>2. CASE judgement = "table" /\ VotesCast # {} /\ "ok" \notin VotesCast
  BY <1>2 DEF FairVote, Fits, VotesCast
<1>3. CASE judgement = "table" /\ VotesCast = {"ok"}
  BY <1>3 DEF FairVote, Fits, VotesCast
<1>4. CASE judgement = "table" /\ "ok" \in VotesCast /\ VotesCast # {"ok"}
  BY <1>4 DEF FairVote, Fits, VotesCast
<1>5. QED
  BY <1>1, <1>2, <1>3, <1>4 DEF FairVote

LEMMA SwitchFits ==
  ASSUME NEW a \in Nat, NEW b \in Nat, NEW c \in Nat,
         NEW votes \in SUBSET {"ok", "blocked", "throttled"},
         a > 0 <=> "ok" \in votes, b > 0 <=> "blocked" \in votes,
         c > 0 <=> "throttled" \in votes
  PROVE  Fits(Verdict(a, b, c), votes)
<1>1. CASE a = 0 /\ b = 0 /\ c = 0
  BY <1>1 DEF Fits, Verdict
<1>2. CASE a = 0 /\ b > 0
  BY <1>2 DEF Fits, Verdict
<1>3. CASE a = 0 /\ b = 0 /\ c > 0
  BY <1>3 DEF Fits, Verdict
<1>4. CASE a > 0 /\ b = 0 /\ c = 0
  BY <1>4 DEF Fits, Verdict
<1>5. CASE a > 0 /\ (b > 0 \/ c > 0)
  BY <1>5 DEF Fits, Verdict
<1>6. QED
  BY <1>1, <1>2, <1>3, <1>4, <1>5

(* The switch over the counters answers by which statuses occur at all.     *)
LEMMA CountersVote ==
  ASSUME NEW S, IsFiniteSet(S), NEW st \in [S -> Status],
         NEW a, NEW b, NEW c,
         a = Cardinality({m \in S : st[m] = "ok"}),
         b = Cardinality({m \in S : st[m] = "blocked"}),
         c = Cardinality({m \in S : st[m] = "throttled"}),
         NEW votes, votes = {st[m] : m \in S} \ {"failed"}
  PROVE  Fits(Verdict(a, b, c), votes)
<1>1. ASSUME NEW x \in Status \ {"failed"}, NEW n, n = Cardinality({m \in S : st[m] = x})
      PROVE  n \in Nat /\ (n > 0 <=> x \in votes)
  <2> DEFINE T == {m \in S : st[m] = x}
  <2>1. IsFiniteSet(T)
    BY FS_Subset
  <2>2. Cardinality(T) \in Nat /\ (Cardinality(T) = 0 <=> T = {})
    BY <2>1, FS_CardinalityType, FS_EmptySet
  <2>3. T # {} <=> x \in votes
    OBVIOUS
  <2>4. n = Cardinality(T)
    BY <1>1
  <2> HIDE DEF T
  <2>5. QED
    BY <2>2, <2>3, <2>4
<1>2. votes \subseteq {"ok", "blocked", "throttled"}
  BY DEF Status
<1>3. /\ a \in Nat /\ (a > 0 <=> "ok" \in votes)
      /\ b \in Nat /\ (b > 0 <=> "blocked" \in votes)
      /\ c \in Nat /\ (c > 0 <=> "throttled" \in votes)
  BY <1>1 DEF Status
<1>4. QED
  BY <1>2, <1>3, SwitchFits

FairInv == VerdictInv /\ Graded /\ (judgement = "table" => Fits(service, VotesCast))

LEMMA FairInit == Init => FairInv
<1> SUFFICES ASSUME Init PROVE FairInv
  OBVIOUS
<1>1. Graded
  BY DEF Init, ProbeInit, Graded, Nothing, Status
<1>2. judgement # "table"
  BY DEF Init
<1>3. QED
  BY <1>1, <1>2, VerdictInit DEF FairInv

LEMMA JudgeIsFair ==
  ASSUME Graded, Judge, judgement' = "table"
  PROVE  Fits(service, VotesCast)'
<1>1. res' = res /\ Members' = Members
  BY DEF Judge, probeVars, Members
<1>2. IsFiniteSet(Members)
  BY SiblingsAssumption, FS_AddElement, FS_EmptySet DEF Members
<1> DEFINE st == [m \in Members |-> StatusOf(m)]
           votes == {st[m] : m \in Members} \ {"failed"}
<1>3. st \in [Members -> Status]
  BY DEF Judge, Graded, StatusOf, Members, Others
<1>4. /\ Votes("ok") = Cardinality({m \in Members : st[m] = "ok"})
      /\ Votes("blocked") = Cardinality({m \in Members : st[m] = "blocked"})
      /\ Votes("throttled") = Cardinality({m \in Members : st[m] = "throttled"})
  <2>1. ASSUME NEW x
        PROVE  {m \in Members : StatusOf(m) = x} = {m \in Members : st[m] = x}
    OBVIOUS
  <2>2. QED
    BY <2>1 DEF Votes
<1>5. service' = Verdict(Votes("ok"), Votes("blocked"), Votes("throttled"))
  BY DEF Judge
<1>6. VotesCast' = votes
  BY <1>1 DEF StatusOf, VotesCast
<1> HIDE DEF st
<1>7. Fits(service', votes)
  BY <1>2, <1>3, <1>4, <1>5, CountersVote
<1>8. QED
  BY <1>6, <1>7 DEF Fits

LEMMA FairStep == FairInv /\ [Next]_vars => FairInv'
<1> SUFFICES ASSUME FairInv, [Next]_vars PROVE FairInv'
  OBVIOUS
<1>1. VerdictInv' /\ Graded'
  BY VerdictStep, GradedStep DEF FairInv
<1>2. judgement' = "table" => Fits(service, VotesCast)'
  <2>1. CASE Judge
    BY <2>1, JudgeIsFair DEF FairInv
  <2>2. CASE ~Judge
    <3>1. UNCHANGED judgeVars
      BY <2>2 DEF Next, EndContext, vars
    <3>2. judgement = "table" => pc = "done"
      BY DEF FairInv, VerdictInv
    <3>3. pc = "done" => UNCHANGED res
      BY <2>2 DEF Next, ProbeStep, Lookup, Resolve, Dial, Handshake, Request, Headers,
         HeadersTimeout, Extend, Piece, Whole, Broken, Silence, Tick, Cut, EndContext,
         vars, probeVars
    <3>4. UNCHANGED <<judgement, control, others, service>>
      BY <3>1 DEF judgeVars
    <3>5. UNCHANGED res => UNCHANGED VotesCast
      BY <3>4 DEF VotesCast, Members
    <3>6. QED
      BY <3>2, <3>3, <3>4, <3>5 DEF FairInv, Fits
  <2>3. QED
    BY <2>1, <2>2
<1>3. QED
  BY <1>1, <1>2 DEF FairInv

(* However many endpoints a service has: it is called blocked or throttled  *)
(* only if none of them answered, and failed checks have no vote.           *)
THEOREM ServicesAreJudgedFairly == Spec => []FairVote
<1>1. FairInv => FairVote
  BY FairByCases DEF FairInv
<1>2. QED
  BY <1>1, FairInit, FairStep, PTL DEF Spec

=============================================================================
