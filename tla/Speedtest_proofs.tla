-------------------------- MODULE Speedtest_proofs --------------------------
(***************************************************************************)
(* reachable picks the first `want' candidates that answer, for every      *)
(* number of candidates, every `want' and every order of the answers; and  *)
(* speedtest.net is never asked for a list sooner than the gap after the   *)
(* last answer, for every set of nodes, every limit of time and number of  *)
(* attempts, and whatever was asked before the test began.                 *)
(***************************************************************************)
EXTENDS Reachable, SpeedNodes, FiniteSetTheorems, WellFoundedInduction, TLAPS

-----------------------------------------------------------------------------
(* The picker of the first live candidates *)

Open == {c \in Candidates : state[c] = "unknown"}

(* A candidate's answer is on its way, in the channel or with the picker,  *)
(* and it is the truth about the host unless a context has ended.          *)
Truthful ==
  \A c \in Candidates :
    /\ c \in results => probe[c] = "gone" /\ state[c] = "unknown"
    /\ probe[c] # "gone" => state[c] = "unknown"
    /\ probe[c] # "asking" /\ ok[c] => c \in host
    /\ probe[c] # "asking" /\ ~ok[c] => c \notin host \/ ended \/ main = "returned"
    /\ state[c] = "answers" => c \in host
    /\ state[c] = "silent" => c \notin host \/ ended

(* The picker is through with the candidates before the border: all known, *)
(* those that answer chosen, in order.                                     *)
Prefix ==
  /\ InOrder
  /\ \A k \in DOMAIN chosen : chosen[k] < next /\ state[chosen[k]] = "answers"
  /\ \A c \in Candidates : c < next =>
       state[c] # "unknown" /\ (state[c] = "answers" => c \in Picked)

Border == next > N \/ state[next] = "unknown" \/ Full

(* Between two answers the border stands where it has to stop; the loop    *)
(* ends with a full picker or with nothing unknown.                        *)
Settled ==
  /\ main # "mark" => Border
  /\ main = "returned" => Full \/ Open = {}
  /\ canceled => main = "returned"

PickInv ==
  /\ PickTypeOK
  /\ Truthful
  /\ Prefix
  /\ Settled
  /\ pending = Cardinality(Open)

LEMMA OpenFinite == IsFiniteSet(Open) /\ Cardinality(Open) \in Nat
<1>1. IsFiniteSet(Candidates)
  BY PickAssumption, FS_Interval DEF Candidates
<1> QED BY <1>1, FS_Subset, FS_CardinalityType DEF Open

LEMMA PickInvInit == PickInit => PickInv
<1> SUFFICES ASSUME PickInit PROVE PickInv
  OBVIOUS
<1> USE PickAssumption DEF PickInit
<1>1. <<>> \in Seq(Candidates) /\ Len(<<>>) = 0
  OBVIOUS
<1>2. PickTypeOK
  <2>1. chosen \in Seq(Candidates) /\ Len(chosen) <= Wanted
    BY <1>1
  <2>2. pending \in Nat /\ next \in 1..(N + 1)
    OBVIOUS
  <2> QED BY <2>1, <2>2 DEF PickTypeOK
<1>3. Truthful
  BY DEF Truthful
<1>4. Prefix
  BY DEF Prefix, InOrder, Candidates
<1>5. Settled
  BY DEF Settled, Border, Candidates
<1>6. Open = 1..N
  BY DEF Open, Candidates
<1>7. pending = Cardinality(Open)
  BY <1>6, FS_Interval
<1> QED BY <1>2, <1>3, <1>4, <1>5, <1>7 DEF PickInv

(* What the goroutines do leaves the picker alone. *)
LEMMA AskStep ==
  ASSUME PickInv, NEW c \in Candidates, Ask(c)
  PROVE  PickInv'
<1> USE DEF PickInv, Ask
<1>1. PickTypeOK'
  BY DEF PickTypeOK
<1>2. Truthful'
  BY DEF Truthful, PickTypeOK, Settled
<1>3. Prefix'
  BY DEF Prefix, InOrder, Picked
<1>4. Settled' /\ (pending = Cardinality(Open))'
  BY DEF Settled, Border, Full, Open
<1> QED BY <1>1, <1>2, <1>3, <1>4

LEMMA SendStep ==
  ASSUME PickInv, NEW c \in Candidates, Send(c)
  PROVE  PickInv'
<1> USE DEF PickInv, Send
<1>1. PickTypeOK'
  BY DEF PickTypeOK
<1>2. Truthful'
  BY DEF Truthful, PickTypeOK
<1>3. Prefix'
  BY DEF Prefix, InOrder, Picked
<1>4. Settled' /\ (pending = Cardinality(Open))'
  BY DEF Settled, Border, Full, Open
<1> QED BY <1>1, <1>2, <1>3, <1>4

LEMMA ReceiveStep ==
  ASSUME PickInv, NEW c \in Candidates, Receive(c)
  PROVE  PickInv'
<1> USE DEF PickInv
<1>1. /\ c \in Open /\ state[c] = "unknown"
      /\ state' = [state EXCEPT ![c] = IF ok[c] THEN "answers" ELSE "silent"]
      /\ pending > 0 /\ pending' = pending - 1
      /\ main = "collect" /\ main' = "mark"
      /\ UNCHANGED <<host, probe, ok, next, chosen, canceled, ended>>
      /\ results' = results \ {c}
  BY DEF Receive, Truthful, Open
<1>2. PickTypeOK'
  BY <1>1 DEF PickTypeOK
<1>3. Truthful'
  BY <1>1 DEF Truthful, PickTypeOK, Receive
<1>4. Prefix'
  BY <1>1 DEF Prefix, InOrder, Picked, PickTypeOK
<1>5. Settled'
  BY <1>1 DEF Settled
<1>6. Open' = Open \ {c}
  BY <1>1 DEF Open, PickTypeOK
<1>7. pending' = Cardinality(Open')
  BY <1>1, <1>6, OpenFinite, FS_RemoveElement
<1> QED BY <1>2, <1>3, <1>4, <1>5, <1>7

LEMMA AdvanceStep ==
  ASSUME PickInv, Advance
  PROVE  PickInv'
<1> USE DEF PickInv
<1>1. /\ main = "mark" /\ main' = "mark"
      /\ next \in Candidates /\ state[next] # "unknown" /\ Len(chosen) < Wanted
      /\ next' = next + 1
      /\ chosen' = IF state[next] = "answers" THEN Append(chosen, next) ELSE chosen
      /\ UNCHANGED <<host, pending, probe, ok, results, state, canceled, ended>>
      /\ N \in Nat /\ Wanted \in Nat /\ chosen \in Seq(Candidates)
  BY PickAssumption DEF Advance, BorderKnown, Looping, Full, PickTypeOK, Candidates
<1>2. /\ Len(chosen) \in Nat /\ DOMAIN chosen = 1..Len(chosen)
      /\ \A k \in DOMAIN chosen : chosen[k] \in Candidates
  BY <1>1
<1>3. Truthful' /\ Settled' /\ (pending = Cardinality(Open))'
  BY <1>1 DEF Truthful, Settled, Open
<1>4. CASE state[next] # "answers"
  <2>1. chosen' = chosen
    BY <1>1, <1>4
  <2>2. PickTypeOK'
    BY <1>1, <2>1 DEF PickTypeOK, Candidates
  <2>3. Prefix'
    BY <1>1, <1>2, <1>4, <2>1 DEF Prefix, InOrder, Picked, Candidates
  <2> QED BY <1>3, <2>2, <2>3
<1>5. CASE state[next] = "answers"
  <2> DEFINE cs == Append(chosen, next)
  <2>1. /\ cs \in Seq(Candidates) /\ Len(cs) = Len(chosen) + 1
        /\ DOMAIN cs = 1..(Len(chosen) + 1)
        /\ cs[Len(chosen) + 1] = next
        /\ \A k \in 1..Len(chosen) : cs[k] = chosen[k]
    BY <1>1
  <2>2. chosen' = cs
    BY <1>1, <1>5
  <2> HIDE DEF cs
  <2>3. PickTypeOK'
    <3>1. chosen' \in Seq(Candidates) /\ Len(chosen') <= Wanted
      BY <1>1, <1>2, <2>1, <2>2
    <3>2. next' \in 1..(N + 1)
      BY <1>1 DEF Candidates
    <3> QED BY <1>1, <3>1, <3>2 DEF PickTypeOK
  <2>4. \A k \in DOMAIN cs : k \in 1..Len(chosen) \/ k = Len(chosen) + 1
    BY <1>2, <2>1
  <2>5. InOrder'
    <3> SUFFICES ASSUME NEW j \in DOMAIN cs, NEW k \in DOMAIN cs, j < k
                 PROVE  cs[j] < cs[k]
      BY <2>2 DEF InOrder
    <3>1. j \in 1..Len(chosen)
      BY <1>2, <2>1
    <3> QED BY <1>2, <2>1, <2>4, <3>1 DEF Prefix, InOrder
  <2>6. \A k \in DOMAIN cs : cs[k] < next + 1 /\ state[cs[k]] = "answers"
    <3> SUFFICES ASSUME NEW k \in DOMAIN cs
                 PROVE  cs[k] < next + 1 /\ state[cs[k]] = "answers"
      OBVIOUS
    <3>1. CASE k = Len(chosen) + 1
      BY <1>1, <1>5, <2>1, <3>1 DEF Candidates
    <3>2. CASE k \in 1..Len(chosen)
      <4>1. cs[k] = chosen[k] /\ chosen[k] \in Candidates
        BY <1>2, <2>1, <3>2
      <4>2. chosen[k] < next /\ state[chosen[k]] = "answers"
        BY <1>2, <3>2 DEF Prefix
      <4> QED BY <1>1, <4>1, <4>2 DEF Candidates
    <3> QED BY <2>4, <3>1, <3>2
  <2>7. \A c \in Picked \cup {next} : c \in Picked'
    BY <1>2, <2>1, <2>2 DEF Picked
  <2>8. Prefix'
    BY <1>1, <2>2, <2>5, <2>6, <2>7 DEF Prefix, Candidates
  <2> QED BY <1>3, <2>3, <2>8
<1> QED BY <1>4, <1>5

LEMMA MarkedStep ==
  ASSUME PickInv, Marked
  PROVE  PickInv'
<1> USE DEF PickInv, Marked
<1>1. PickTypeOK'
  BY DEF PickTypeOK
<1>2. Truthful' /\ Prefix' /\ (pending = Cardinality(Open))'
  BY DEF Truthful, Prefix, InOrder, Picked, Open
<1>3. Settled'
  BY PickAssumption DEF Settled, Border, BorderKnown, Full, PickTypeOK
<1> QED BY <1>1, <1>2, <1>3

LEMMA ReturnStep ==
  ASSUME PickInv, ReturnPicked
  PROVE  PickInv'
<1> USE DEF PickInv, ReturnPicked
<1>1. PickTypeOK'
  BY DEF PickTypeOK
<1>2. Truthful' /\ Prefix' /\ (pending = Cardinality(Open))'
  BY DEF Truthful, Prefix, InOrder, Picked, Open
<1>3. Full \/ Open = {}
  BY OpenFinite, FS_EmptySet
<1>4. Settled'
  BY <1>3 DEF Settled, Border, Full, Open
<1> QED BY <1>1, <1>2, <1>4

LEMMA EndContextStep ==
  ASSUME PickInv, EndContext
  PROVE  PickInv'
<1> USE DEF PickInv, EndContext
<1>1. PickTypeOK'
  BY DEF PickTypeOK
<1>2. Truthful' /\ Prefix' /\ (pending = Cardinality(Open))'
  BY DEF Truthful, Prefix, InOrder, Picked, Open
<1>3. Settled'
  BY DEF Settled, Border, Full, Open
<1> QED BY <1>1, <1>2, <1>3

LEMMA PickStep == PickInv /\ [PickNext]_pickVars => PickInv'
<1> SUFFICES ASSUME PickInv, [PickNext]_pickVars PROVE PickInv'
  OBVIOUS
<1>1. CASE PickMain
  BY <1>1, AdvanceStep, MarkedStep, ReturnStep, ReceiveStep DEF PickMain
<1>2. CASE EndContext
  BY <1>2, EndContextStep
<1>3. ASSUME NEW c \in Candidates, Goroutine(c) PROVE PickInv'
  BY <1>3, AskStep, SendStep DEF Goroutine
<1>4. CASE UNCHANGED pickVars
  BY <1>4 DEF pickVars, PickInv, PickTypeOK, Truthful, Prefix, InOrder, Picked,
              Settled, Border, Full, Open
<1> QED BY <1>1, <1>2, <1>3, <1>4 DEF PickNext

THEOREM PickInvariant == PickSpec => []PickInv
<1> QED BY PickInvInit, PickStep, PTL DEF PickSpec

(* reachable returns the best live candidates in order, whatever the order *)
(* of the answers, the number of candidates and the number wanted.         *)
THEOREM PicksFirstAlive == PickSpec => []FirstAlive
<1>1. PickInv => FirstAlive
  <2> SUFFICES ASSUME PickInv, main = "returned" PROVE
        /\ InOrder
        /\ Picked \subseteq host
        /\ ended \/ \A c \in host \ Picked : Full /\ \A p \in Picked : p < c
    BY DEF FirstAlive
  <2>1. \A k \in DOMAIN chosen : chosen[k] \in Candidates
    BY DEF PickInv, PickTypeOK
  <2>2. InOrder /\ Picked \subseteq host
    BY <2>1 DEF PickInv, Prefix, Truthful, Picked
  <2>3. ASSUME ~ended, NEW c \in host \ Picked
        PROVE  Full /\ \A p \in Picked : p < c
    <3>1. c \in Candidates
      BY DEF PickInv, PickTypeOK
    <3>2. state[c] # "answers" \/ ~(c < next)
      BY <3>1 DEF PickInv, Prefix
    <3>3. state[c] # "silent"
      BY <2>3, <3>1 DEF PickInv, Truthful
    <3>4. c >= next
      BY <3>1, <3>2, <3>3, PickAssumption DEF PickInv, Prefix, PickTypeOK, Candidates
    <3>5. \A p \in Picked : p < c
      BY <3>1, <3>4, <2>1 DEF PickInv, Prefix, Picked, PickTypeOK, Candidates
    <3>6. Full
      <4>1. CASE Open = {}
        <5>1. next \in Candidates /\ state[next] # "unknown"
          BY <3>1, <3>4, <4>1, PickAssumption DEF Open, PickInv, PickTypeOK, Candidates
        <5> QED BY <5>1, PickAssumption DEF PickInv, Settled, Border, Candidates
      <4> QED BY <4>1 DEF PickInv, Settled
    <3> QED BY <3>5, <3>6
  <2> QED BY <2>2, <2>3
<1> QED BY <1>1, PickInvariant, PTL

LEMMA PickedBound ==
  ASSUME PickTypeOK
  PROVE  IsFiniteSet(Picked) /\ Cardinality(Picked) \in Nat
         /\ Cardinality(Picked) <= Len(chosen)
<1>1. Len(chosen) \in Nat /\ chosen \in [1..Len(chosen) -> Candidates]
      /\ DOMAIN chosen = 1..Len(chosen)
  BY DEF PickTypeOK
<1>2. chosen \in Surjection(1..Len(chosen), Picked)
  BY <1>1 DEF Surjection, Picked
<1>3. IsFiniteSet(1..Len(chosen)) /\ Cardinality(1..Len(chosen)) = Len(chosen)
  BY <1>1, FS_Interval
<1>4. IsFiniteSet(Picked) /\ Cardinality(Picked) <= Len(chosen)
  BY <1>2, <1>3, FS_Surjection
<1> QED BY <1>4, FS_CardinalityType

(* The caller never waits for an answer it does not need, for any number   *)
(* of candidates and any number wanted.                                    *)
THEOREM NoNeedlessWait == PickSpec => []EarlyExit
<1>1. PickInv => EarlyExit
  <2> SUFFICES ASSUME PickInv, main = "collect", NEW n \in Candidates,
                      \A c \in 1..n : state[c] # "unknown",
                      Cardinality({c \in 1..n : state[c] = "answers"}) >= Wanted,
                      ~Full
               PROVE  FALSE
    BY DEF EarlyExit
  <2> DEFINE A == {c \in 1..n : state[c] = "answers"}
  <2>1. next \in 1..(N + 1) /\ n \in 1..N /\ N \in Nat /\ Wanted \in Nat
        /\ Len(chosen) \in Nat /\ Len(chosen) < Wanted
    BY PickAssumption DEF PickInv, PickTypeOK, Candidates, Full
  <2>2. n < next
    BY <2>1 DEF PickInv, Settled, Border
  <2>3. A \subseteq Picked
    BY <2>1, <2>2 DEF PickInv, Prefix, Candidates
  <2>4. IsFiniteSet(Picked) /\ Cardinality(Picked) \in Nat
        /\ Cardinality(Picked) <= Len(chosen)
    BY PickedBound DEF PickInv
  <2>5. Cardinality(A) <= Cardinality(Picked) /\ Cardinality(A) \in Nat
    BY <2>3, <2>4, FS_Subset, FS_CardinalityType
  <2> QED BY <2>1, <2>4, <2>5
<1> QED BY <1>1, PickInvariant, PTL

-----------------------------------------------------------------------------
(* The gap between two requests for the list *)

(* The time a pause ends at keeps the gap: the first request of a node     *)
(* waits for the rest of it, a retry for at least one Retry after the last *)
(* answer, which is not shorter.                                           *)
GapInv ==
  /\ now \in Int /\ lastList \in Int /\ due \in Int /\ attempt \in Nat
  /\ lastList <= now
  /\ pc = "pause" => due >= lastList + Gap

Constants ==
  {TestTimeout, NodeTimeout, Gap, Retry, Attempts, Tries} \subseteq Nat \ {0} /\ Gap <= Retry

LEMMA ConstantsHold == Constants
BY NodesAssumption DEF NodesAssumption, Constants

LEMMA GapInit == Init => GapInv
BY ConstantsHold DEF Init, GapInv, Constants

LEMMA AtLeastOnce ==
  ASSUME NEW n \in Nat, n > 0, NEW d \in Nat
  PROVE  n * d >= d /\ n * d \in Nat
<1>1. n = (n - 1) + 1 /\ n - 1 \in Nat
  OBVIOUS
<1>2. n * d = (n - 1) * d + d /\ (n - 1) * d >= 0 /\ (n - 1) * d \in Nat
  BY <1>1
<1>3. QED
  BY <1>2

LEMMA AttemptStep ==
  ASSUME GapInv, Attempt
  PROVE  GapInv'
<1>1. due' = Pause /\ pc' = "pause" /\ now' = now /\ lastList' = lastList /\ attempt' = attempt
  BY DEF Attempt, clock
<1>2. Gap \in Nat /\ Retry \in Nat /\ Gap <= Retry
  BY ConstantsHold DEF Constants
<1>3. Pause \in Int /\ Pause >= lastList + Gap
  <2>1. CASE attempt > 0
    <3>1. attempt * Retry >= Retry /\ attempt * Retry \in Nat
      BY <2>1, <1>2, AtLeastOnce DEF GapInv
    <3>2. QED
      BY <2>1, <3>1, <1>2 DEF GapInv, Pause
  <2>2. CASE ~(attempt > 0)
    BY <2>2, <1>2 DEF GapInv, Pause
  <2>3. QED
    BY <2>1, <2>2
<1>4. QED
  BY <1>1, <1>3 DEF GapInv

(* A request that was answered, or not: the gap counts from now. *)
LEMMA AnswerStep ==
  ASSUME GapInv, ListRefused \/ \E list \in Lists : GotList(list)
  PROVE  GapInv'
BY DEF GapInv, ListRefused, GotList, clock

(* No other step of the goroutine begins a pause or touches the gap. *)
LEMMA OtherStep ==
  ASSUME GapInv,
         \/ Resolve \/ UserInfo \/ Loop \/ AskList \/ PauseCut \/ GiveUp
         \/ PickServers \/ MeasureNode \/ CfSpeedtest
  PROVE  GapInv'
<1>1. now' = now /\ lastList' = lastList
  <2>1. CASE Resolve \/ UserInfo \/ Loop \/ AskList \/ PauseCut \/ GiveUp
    BY <2>1 DEF Resolve, UserInfo, Loop, AskList, PauseCut, GiveUp, clock, listVars
  <2>2. CASE PickServers \/ MeasureNode
    BY <2>2 DEF PickServers, Reach, ByID, MeasureNode, Try, Ping, Endpoints, Upload, Download,
           clock, listVars
  <2>3. CASE CfSpeedtest
    BY <2>3 DEF CfSpeedtest, Cloudflare, CfEdge, CfLatency, CfLatencyOver, CfDownload, CfUpload,
           cfRest, clock, listVars
  <2>4. QED
    BY <2>1, <2>2, <2>3
<1>2. due' = due /\ attempt' \in {attempt, attempt + 1, 0}
  <2>1. CASE Resolve \/ UserInfo \/ Loop \/ AskList \/ PauseCut \/ GiveUp
    BY <2>1 DEF Resolve, UserInfo, Loop, AskList, PauseCut, GiveUp, clock, listVars
  <2>2. CASE PickServers \/ MeasureNode
    BY <2>2 DEF PickServers, Reach, ByID, MeasureNode, Try, Ping, Endpoints, Upload, Download,
           clock, listVars
  <2>3. CASE CfSpeedtest
    BY <2>3 DEF CfSpeedtest, Cloudflare, CfEdge, CfLatency, CfLatencyOver, CfDownload, CfUpload,
           cfRest, clock, listVars
  <2>4. QED
    BY <2>1, <2>2, <2>3
<1>3. pc' # "pause"
  <2>1. CASE Resolve \/ UserInfo \/ Loop \/ AskList \/ PauseCut \/ GiveUp
    BY <2>1 DEF Resolve, UserInfo, Loop, AskList, PauseCut, GiveUp, Return, Row
  <2>2. CASE PickServers
    BY <2>2 DEF PickServers, Reach, ByID, NextTry, Row
  <2>3. CASE MeasureNode
    BY <2>3 DEF MeasureNode, Try, Ping, Endpoints, Upload, Download, SkipServer, NextTry, Row
  <2>4. CASE CfSpeedtest
    BY <2>4 DEF CfSpeedtest, Cloudflare, CfEdge, CfLatency, CfLatencyOver, CfDownload, CfUpload,
           Return
  <2>5. QED
    BY <2>1, <2>2, <2>3, <2>4
<1>4. QED
  BY <1>1, <1>2, <1>3 DEF GapInv

LEMMA ClockStep ==
  ASSUME GapInv, Tick \/ Interrupt \/ UNCHANGED vars
  PROVE  GapInv'
BY DEF GapInv, Tick, Interrupt, vars, listVars

LEMMA GapNext == GapInv /\ [Next]_vars => GapInv'
BY AttemptStep, AnswerStep, OtherStep, ClockStep DEF Next, Main, FetchList

(* Two requests for the list are a gap apart, whatever fails, is retried,  *)
(* or is cut between them.                                                 *)
THEOREM GapIsKept == Spec => ListGapKept
<1>1. GapInv /\ [Next]_vars => [AskList => now >= lastList + Gap]_vars
  <2>1. Gap \in Nat
    BY ConstantsHold DEF Constants
  <2>2. QED
    BY <2>1 DEF GapInv, AskList
<1>2. QED
  BY <1>1, GapInit, GapNext, PTL DEF Spec, ListGapKept

-----------------------------------------------------------------------------
(* What the loops of resolveSet leave behind *)

Less == {p \in Nat \X Nat : p[1] < p[2]}

LEMMA LessIsWellFounded == IsWellFoundedOn(Less, Nat)
<1>1. OpToRel(<, Nat) = Less
  BY DEF OpToRel, Less
<1> QED
  BY <1>1, NatLessThanWellFounded

(* The least number outside U would follow one inside. *)
LEMMA AllNumbers ==
  ASSUME NEW U, 0 \in U, \A n \in Nat : n \in U => n + 1 \in U
  PROVE  Nat \subseteq U
<1> SUFFICES ASSUME Nat \ U # {} PROVE FALSE
  OBVIOUS
<1>1. \A x, y \in Nat : <<x, y>> \in Less <=> x < y
  BY DEF Less
<1>2. PICK m \in Nat \ U : \A y \in Nat \ U : ~(<<y, m>> \in Less)
  BY LessIsWellFounded, WFMin
<1>3. m # 0 /\ m - 1 \in Nat /\ m - 1 < m /\ (m - 1) + 1 = m
  BY <1>2
<1>4. m - 1 \in U
  BY <1>1, <1>2, <1>3
<1> QED
  BY <1>2, <1>3, <1>4

(* One turn of a loop: over the nodes of a set, over the parts of the      *)
(* flag, or over servers, of which those in T are kept.  g holds what a    *)
(* loop over s has made of out after each turn.                            *)
Turn(loop, T, acc, x) ==
  IF loop = "nodes" THEN IF x \in Range(acc) THEN acc ELSE Append(acc, x)
  ELSE IF loop = "parts" THEN AddNew(acc, PartNodes(x))
  ELSE IF x \in T THEN Append(acc, x) ELSE acc

Turns(g, loop, T, m, out, s) ==
  g = [k \in 0..m |-> IF k = 0 THEN out ELSE Turn(loop, T, g[k - 1], s[k])]

LEMMA TurnsStep ==
  ASSUME NEW loop, NEW T, NEW s, NEW out, NEW k \in Nat, NEW g, Turns(g, loop, T, k, out, s)
  PROVE  \E h : Turns(h, loop, T, k + 1, out, s)
<1> DEFINE x == Turn(loop, T, g[k], s[k + 1])
           h == [n \in 0..(k + 1) |-> IF n = k + 1 THEN x ELSE g[n]]
<1>1. ASSUME NEW n \in 0..(k + 1)
      PROVE  h[n] = IF n = 0 THEN out ELSE Turn(loop, T, h[n - 1], s[n])
  <2>1. CASE n = k + 1
    <3>1. n # 0 /\ n - 1 = k /\ h[n] = x /\ h[n - 1] = g[k]
      BY <2>1
    <3> QED
      BY <2>1, <3>1
  <2>2. CASE n = 0
    <3>1. h[n] = g[n] /\ n \in 0..k
      BY <2>2
    <3> QED
      BY <2>2, <3>1 DEF Turns
  <2>3. CASE n # 0 /\ n # k + 1
    <3>1. n \in 0..k /\ h[n] = g[n] /\ h[n - 1] = g[n - 1]
      BY <2>3
    <3>2. g[n] = Turn(loop, T, g[n - 1], s[n])
      BY <2>3, <3>1 DEF Turns
    <3> QED
      BY <2>3, <3>1, <3>2
  <2> QED
    BY <2>1, <2>2, <2>3
<1>2. h = [n \in 0..(k + 1) |-> h[n]]
  OBVIOUS
<1> HIDE DEF h
<1>3. [n \in 0..(k + 1) |-> h[n]]
        = [n \in 0..(k + 1) |-> IF n = 0 THEN out ELSE Turn(loop, T, h[n - 1], s[n])]
  BY <1>1
<1>4. Turns(h, loop, T, k + 1, out, s)
  BY <1>2, <1>3, Zenon DEF Turns
<1> QED
  BY <1>4

LEMMA TurnsExist ==
  ASSUME NEW loop, NEW T, NEW s, NEW out, NEW m \in Nat
  PROVE  \E g : Turns(g, loop, T, m, out, s)
<1> DEFINE U == {k \in Nat : \E g : Turns(g, loop, T, k, out, s)}
<1>1. 0 \in U
  <2>1. \A n \in 0..0 : n = 0
    OBVIOUS
  <2> DEFINE g == [n \in 0..0 |-> out]
  <2>2. Turns(g, loop, T, 0, out, s)
    BY <2>1 DEF Turns
  <2> QED
    BY <2>2
<1>2. ASSUME NEW k \in Nat, k \in U PROVE k + 1 \in U
  BY <1>2, TurnsStep
<1>3. Nat \subseteq U
  <2> HIDE DEF U
  <2> QED
    BY <1>1, <1>2, AllNumbers
<1> QED
  BY <1>3

LEMMA TurnsAre ==
  ASSUME NEW loop, NEW T, NEW s, NEW out, NEW m \in Nat, NEW g, Turns(g, loop, T, m, out, s)
  PROVE  g[0] = out /\ \A n \in 1..m : g[n] = Turn(loop, T, g[n - 1], s[n])
<1>1. 0 \in 0..m /\ \A n \in 1..m : n \in 0..m /\ n # 0
  OBVIOUS
<1>2. \A n \in 0..m : g[n] = IF n = 0 THEN out ELSE Turn(loop, T, g[n - 1], s[n])
  BY Zenon DEF Turns
<1> QED
  BY <1>1, <1>2

LEMMA AddNewIs ==
  ASSUME NEW S, NEW more \in Seq(S), NEW out
  PROVE  \E g : /\ AddNew(out, more) = g[Len(more)]
                /\ g[0] = out
                /\ \A n \in 1..Len(more) : g[n] = Turn("nodes", {}, g[n - 1], more[n])
<1> DEFINE g == CHOOSE f : Turns(f, "nodes", {}, Len(more), out, more)
<1>1. AddNew(out, more) = g[Len(more)]
  BY DEF AddNew, Turns, Turn
<1>2. Len(more) \in Nat
  OBVIOUS
<1>3. Turns(g, "nodes", {}, Len(more), out, more)
  BY <1>2, TurnsExist
<1> HIDE DEF g
<1>4. g[0] = out /\ \A n \in 1..Len(more) : g[n] = Turn("nodes", {}, g[n - 1], more[n])
  BY <1>2, <1>3, TurnsAre
<1> QED
  BY <1>1, <1>4

(* No node stands twice in s. *)
Once(s) == \A j, k \in DOMAIN s : s[j] = s[k] => j = k

LEMMA RangeIs ==
  ASSUME NEW S, NEW s \in Seq(S)
  PROVE  Range(s) = {s[k] : k \in 1..Len(s)} /\ DOMAIN s = 1..Len(s) /\ Len(s) \in Nat
BY DEF Range

LEMMA AppendNew ==
  ASSUME NEW S, NEW s \in Seq(S), NEW x \in S, Once(s), x \notin Range(s)
  PROVE  /\ Append(s, x) \in Seq(S) /\ Once(Append(s, x))
         /\ Range(Append(s, x)) = Range(s) \cup {x}
<1> DEFINE r == Append(s, x)
<1>1. /\ r \in Seq(S) /\ DOMAIN r = 1..(Len(s) + 1) /\ DOMAIN s = 1..Len(s)
      /\ Len(s) \in Nat /\ r[Len(s) + 1] = x
      /\ \A k \in 1..Len(s) : r[k] = s[k]
  OBVIOUS
<1> HIDE DEF r
<1>2. \A k \in 1..Len(s) : s[k] # x
  BY <1>1 DEF Range
<1>3. Once(r)
  <2> SUFFICES ASSUME NEW j \in DOMAIN r, NEW k \in DOMAIN r, r[j] = r[k] PROVE j = k
    BY DEF Once
  <2>1. (j \in 1..Len(s) \/ j = Len(s) + 1) /\ (k \in 1..Len(s) \/ k = Len(s) + 1)
    BY <1>1
  <2> QED
    BY <1>1, <1>2, <2>1 DEF Once
<1>4. Range(r) = Range(s) \cup {x}
  <2>1. 1..(Len(s) + 1) = (1..Len(s)) \cup {Len(s) + 1}
    BY <1>1
  <2> QED
    BY <1>1, <2>1 DEF Range
<1> QED
  BY <1>1, <1>3, <1>4 DEF r

LEMMA AddNewAdds ==
  ASSUME NEW S, NEW out \in Seq(S), Once(out), NEW more \in Seq(S)
  PROVE  /\ AddNew(out, more) \in Seq(S) /\ Once(AddNew(out, more))
         /\ Range(AddNew(out, more)) = Range(out) \cup Range(more)
<1>1. PICK g : /\ AddNew(out, more) = g[Len(more)]
               /\ g[0] = out
               /\ \A n \in 1..Len(more) : g[n] = Turn("nodes", {}, g[n - 1], more[n])
  BY AddNewIs
<1> DEFINE Good(n) == /\ g[n] \in Seq(S) /\ Once(g[n])
                      /\ Range(g[n]) = Range(out) \cup {more[k] : k \in 1..n}
           U == {n \in Nat : n <= Len(more) => Good(n)}
<1>2. 0 \in U
  <2>1. 1..0 = {}
    OBVIOUS
  <2> QED
    BY <1>1, <2>1
<1>3. ASSUME NEW n \in Nat, n \in U PROVE n + 1 \in U
  <2> SUFFICES ASSUME n + 1 <= Len(more) PROVE Good(n + 1)
    OBVIOUS
  <2> DEFINE q == g[n]  x == more[n + 1]
  <2>1. q \in Seq(S) /\ Once(q) /\ Range(q) = Range(out) \cup {more[k] : k \in 1..n}
    BY <1>3
  <2>2. n + 1 \in 1..Len(more) /\ (n + 1) - 1 = n /\ x \in S
    OBVIOUS
  <2>3. g[n + 1] = IF x \in Range(q) THEN q ELSE Append(q, x)
    BY <1>1, <2>2 DEF Turn
  <2>4. {more[k] : k \in 1..(n + 1)} = {more[k] : k \in 1..n} \cup {x}
    <3>1. 1..(n + 1) = (1..n) \cup {n + 1}
      OBVIOUS
    <3> QED
      BY <3>1
  <2>5. g[n + 1] \in Seq(S) /\ Once(g[n + 1]) /\ Range(g[n + 1]) = Range(q) \cup {x}
    <3> HIDE DEF q, x
    <3>1. CASE x \in Range(q)
      BY <2>1, <2>3, <3>1
    <3>2. CASE x \notin Range(q)
      BY <2>1, <2>2, <2>3, <3>2, AppendNew
    <3> QED
      BY <3>1, <3>2
  <2> HIDE DEF q, x
  <2> QED
    BY <2>1, <2>4, <2>5
<1>4. Nat \subseteq U
  <2> HIDE DEF U
  <2> QED
    BY <1>2, <1>3, AllNumbers
<1>5. Len(more) \in Nat /\ Range(more) = {more[k] : k \in 1..Len(more)}
  BY RangeIs
<1>6. Good(Len(more))
  BY <1>4, <1>5
<1> HIDE DEF U
<1> QED
  BY <1>1, <1>5, <1>6

Understood(part) == part = "" \/ IsServerID(part) \/ KnownSet(part)

LEMMA ResolveSetIs ==
  ASSUME NEW parts, Len(parts) \in Nat, \A k \in DOMAIN parts : Understood(parts[k])
  PROVE  \E g : /\ ResolveSet(parts) = g[Len(parts)]
                /\ g[0] = <<>>
                /\ \A n \in 1..Len(parts) : g[n] = AddNew(g[n - 1], PartNodes(parts[n]))
<1> DEFINE none == <<>>
           g == CHOOSE f : Turns(f, "parts", {}, Len(parts), none, parts)
<1>1. ResolveSet(parts) = g[Len(parts)]
  BY DEF ResolveSet, Turns, Turn, Understood
<1>2. Turns(g, "parts", {}, Len(parts), none, parts)
  BY TurnsExist
<1> HIDE DEF g, none
<1>3. g[0] = none /\ \A n \in 1..Len(parts) : g[n] = Turn("parts", {}, g[n - 1], parts[n])
  BY <1>2, TurnsAre
<1>4. \A n \in 1..Len(parts) : g[n] = AddNew(g[n - 1], PartNodes(parts[n]))
  BY <1>3 DEF Turn
<1> QED
  BY <1>1, <1>3, <1>4 DEF none

Node == [label : STRING, kind : Kinds]

LEMMA PartNodesTyped ==
  ASSUME NEW part, Understood(part)
  PROVE  PartNodes(part) \in Seq(Node)
<1>1. CASE part = ""
  <2>1. PartNodes(part) = <<>>
    BY <1>1 DEF PartNodes
  <2>2. <<>> \in Seq(Node)
    OBVIOUS
  <2> QED
    BY <2>1, <2>2, Zenon
<1>2. CASE part # "" /\ KnownSet(part)
  <2>1. PartNodes(part) = NodeSets[part]
    BY <1>2 DEF PartNodes
  <2> QED
    BY <1>2, <2>1, NodesAssumption DEF NodesAssumption, KnownSet, Node
<1>3. CASE part # "" /\ ~KnownSet(part)
  <2>1. [label |-> part, kind |-> "id"] \in Node
    BY <1>3, NodesAssumption DEF NodesAssumption, Understood, IsServerID, Node, Kinds
  <2>2. PartNodes(part) = <<[label |-> part, kind |-> "id"]>>
    BY <1>3 DEF PartNodes
  <2>3. <<[label |-> part, kind |-> "id"]>> \in Seq(Node)
    BY <2>1
  <2> QED
    BY <2>2, <2>3, Zenon
<1> QED
  BY <1>1, <1>2, <1>3

(* What resolveSet makes of a flag it understands: the nodes of its parts, *)
(* and each of them once.                                                  *)
LEMMA ResolveSetUnites ==
  ASSUME NEW parts \in Seq(STRING), \A k \in DOMAIN parts : Understood(parts[k])
  PROVE  /\ ResolveSet(parts) \in Seq(Node) /\ Once(ResolveSet(parts))
         /\ Range(ResolveSet(parts)) = UNION {Range(PartNodes(part)) : part \in Range(parts)}
<1>1. Len(parts) \in Nat /\ DOMAIN parts = 1..Len(parts)
  OBVIOUS
<1>2. PICK g : /\ ResolveSet(parts) = g[Len(parts)]
               /\ g[0] = <<>>
               /\ \A n \in 1..Len(parts) : g[n] = AddNew(g[n - 1], PartNodes(parts[n]))
  BY <1>1, ResolveSetIs
<1> DEFINE Good(n) == /\ g[n] \in Seq(Node) /\ Once(g[n])
                      /\ Range(g[n]) = UNION {Range(PartNodes(parts[k])) : k \in 1..n}
           U == {n \in Nat : n <= Len(parts) => Good(n)}
<1>3. 0 \in U
  <2>1. 1..0 = {} /\ Range(<<>>) = {} /\ Once(<<>>) /\ <<>> \in Seq(Node)
    BY DEF Range, Once
  <2> QED
    BY <1>2, <2>1
<1>4. ASSUME NEW n \in Nat, n \in U PROVE n + 1 \in U
  <2> SUFFICES ASSUME n + 1 <= Len(parts) PROVE Good(n + 1)
    OBVIOUS
  <2> DEFINE q == g[n]  more == PartNodes(parts[n + 1])
             Up(m) == UNION {Range(PartNodes(parts[k])) : k \in 1..m}
  <2>1. q \in Seq(Node) /\ Once(q) /\ Range(q) = Up(n)
    BY <1>4
  <2>2. n + 1 \in 1..Len(parts) /\ (n + 1) - 1 = n
    OBVIOUS
  <2>3. more \in Seq(Node)
    BY <1>1, <2>2, PartNodesTyped
  <2>4. g[n + 1] = AddNew(q, more)
    BY <1>2, <2>2
  <2>5. Up(n + 1) = Up(n) \cup Range(more)
    <3>1. 1..(n + 1) = (1..n) \cup {n + 1}
      OBVIOUS
    <3> QED
      BY <3>1, Zenon
  <2>6. g[n + 1] \in Seq(Node) /\ Once(g[n + 1]) /\ Range(g[n + 1]) = Range(q) \cup Range(more)
    <3> HIDE DEF q, more
    <3> QED
      BY <2>1, <2>3, <2>4, AddNewAdds
  <2>7. Range(g[n + 1]) = Up(n + 1)
    <3> HIDE DEF q, more, Up
    <3> QED
      BY <2>1, <2>5, <2>6
  <2> QED
    BY <2>6, <2>7
<1>5. Nat \subseteq U
  <2> HIDE DEF U
  <2> QED
    BY <1>3, <1>4, AllNumbers
<1>6. Good(Len(parts))
  <2>1. Len(parts) \in U
    <3> HIDE DEF U
    <3> QED
      BY <1>1, <1>5
  <2> HIDE DEF Good
  <2> QED
    BY <1>1, <2>1
<1>7. UNION {Range(PartNodes(parts[k])) : k \in 1..Len(parts)}
        = UNION {Range(PartNodes(part)) : part \in Range(parts)}
  <2>1. Range(parts) = {parts[k] : k \in 1..Len(parts)}
    BY RangeIs
  <2> QED
    BY <2>1, Zenon
<1> HIDE DEF U
<1> QED
  BY <1>2, <1>6, <1>7

-----------------------------------------------------------------------------
(* The table of a speed test *)

Inside == {"byID", "fetch", "pause", "list", "reach", "try", "ping", "endpoints",
           "upload", "download"}
CfPlaces == {"cfEdge", "cfLatency", "cfDownload", "cfUpload"}

TableTypes ==
  /\ now \in Nat /\ free \in Nat /\ begun \in Nat /\ i \in Nat /\ i >= 1
  /\ flag \in Flags /\ nodes \in Seq(Node)

(* Where the goroutine can be with nodes to measure, and where without.    *)
Placed ==
  /\ pc \in Inside \cup {"loop", "user"} => nodes # <<>>
  /\ pc \in CfPlaces \cup {"resolve"} => nodes = <<>>
  /\ pc \in {"resolve", "user"} => i = 1 /\ rows = <<>>
  /\ result # "none" => pc = "done"
  /\ pc \in Inside => i <= Len(nodes)

(* The nodes are those of the flag. *)
Asked ==
  nodes # <<>> =>
    Once(nodes) /\ Range(nodes) = UNION {Range(PartNodes(part)) : part \in Range(Parts(flag))}

(* A row for each node the loop is through with, in order. *)
Listed ==
  nodes # <<>> =>
    /\ i <= Len(nodes) + 1
    /\ \E S : rows \in Seq(S)
    /\ Len(rows) = i - 1
    /\ \A k \in 1..(i - 1) : rows[k].node = nodes[k]

(* No node takes longer than its timeout, and between two no time passes.  *)
(* So a loop with time for all of them does not meet the end of the test.  *)
InTime ==
  nodes # <<>> /\ ~interrupted =>
    /\ pc = "loop" => now <= free + (i - 1) * NodeTimeout
    /\ pc \in Inside => begun <= free + (i - 1) * NodeTimeout /\ now <= begun + NodeTimeout
    /\ result = "table" /\ TestTimeout - free >= Len(nodes) * NodeTimeout => i = Len(nodes) + 1

TableInv == TableTypes /\ Placed /\ Asked /\ Listed /\ InTime

LEMMA TableInit == Init => TableInv
BY DEF Init, TableInv, TableTypes, Placed, Asked, Listed, InTime, Inside, CfPlaces

(* The time of one more node. *)
LEMMA OneMore ==
  ASSUME NEW k \in Nat, NEW d \in Nat
  PROVE  k * d \in Nat /\ (k + 1) * d = k * d + d
OBVIOUS

LEMMA NoMoreThan ==
  ASSUME NEW k \in Nat, NEW n \in Nat, k <= n, NEW d \in Nat
  PROVE  k * d <= n * d
<1>1. n - k \in Nat /\ n = k + (n - k)
  OBVIOUS
<1>2. (n - k) * d \in Nat
  BY <1>1
<1>3. n * d = k * d + (n - k) * d
  BY <1>1
<1>4. k * d \in Nat
  OBVIOUS
<1> QED
  BY <1>2, <1>3, <1>4

(* The node under way is over, with a row of its own. *)
LEMMA RowStep ==
  ASSUME TableInv, pc \in Inside, NEW r, r.node = nodes[i], Row(r),
         UNCHANGED <<flag, now, interrupted, nodes, begun, free, result>>
  PROVE  TableInv'
<1>1. rows' = Append(rows, r) /\ i' = i + 1 /\ pc' = "loop"
  BY DEF Row
<1>2. nodes # <<>> /\ i <= Len(nodes) /\ Len(nodes) \in Nat /\ i \in Nat /\ i >= 1
  BY DEF TableInv, TableTypes, Placed
<1>3. TableTypes' /\ Placed' /\ Asked'
  BY <1>1, <1>2 DEF TableInv, TableTypes, Placed, Asked, Inside, CfPlaces
<1>4. Listed'
  <2>1. PICK S : rows \in Seq(S)
    BY <1>2 DEF TableInv, Listed
  <2>2. Len(rows) = i - 1 /\ \A k \in 1..(i - 1) : rows[k].node = nodes[k]
    BY <1>2 DEF TableInv, Listed
  <2>3. rows \in Seq(S \cup {r}) /\ r \in S \cup {r}
    BY <2>1
  <2>4. /\ rows' \in Seq(S \cup {r}) /\ Len(rows') = Len(rows) + 1
        /\ rows'[Len(rows) + 1] = r
        /\ \A k \in 1..Len(rows) : rows'[k] = rows[k]
    BY <1>1, <2>3
  <2>5. \A k \in 1..(i' - 1) : rows'[k].node = nodes'[k]
    <3> SUFFICES ASSUME NEW k \in 1..(i' - 1) PROVE rows'[k].node = nodes[k]
      OBVIOUS
    <3>1. k \in 1..(i - 1) \/ k = i
      BY <1>1, <1>2
    <3>2. CASE k \in 1..(i - 1)
      <4>1. rows'[k] = rows[k] /\ rows[k].node = nodes[k]
        BY <2>2, <2>4, <3>2
      <4> QED
        BY <4>1
    <3>3. CASE k = i
      <4>1. rows'[k] = r
        BY <1>2, <2>2, <2>4, <3>3
      <4> QED
        BY <3>3, <4>1
    <3> QED
      BY <3>1, <3>2, <3>3
  <2>6. i' <= Len(nodes') + 1 /\ Len(rows') = i' - 1
    BY <1>1, <1>2, <2>2, <2>4
  <2> QED
    BY <2>4, <2>5, <2>6 DEF Listed
<1>5. InTime'
  <2> SUFFICES ASSUME ~interrupted PROVE now <= free + (i' - 1) * NodeTimeout
    BY <1>1 DEF InTime, TableInv, Placed, Inside
  <2>1. begun <= free + (i - 1) * NodeTimeout /\ now <= begun + NodeTimeout
    BY <1>2 DEF TableInv, InTime
  <2>2. NodeTimeout \in Nat
    BY ConstantsHold DEF Constants
  <2>3. i - 1 \in Nat /\ i' - 1 = (i - 1) + 1
    BY <1>1, <1>2
  <2>4. (i - 1) * NodeTimeout \in Nat
        /\ (i' - 1) * NodeTimeout = (i - 1) * NodeTimeout + NodeTimeout
    BY <2>2, <2>3, OneMore
  <2> QED
    BY <2>1, <2>2, <2>4 DEF TableInv, TableTypes
<1> QED
  BY <1>3, <1>4, <1>5 DEF TableInv

(* The measurement goes on. *)
LEMMA InsideStep ==
  ASSUME TableInv, pc \in Inside, pc' \in Inside,
         UNCHANGED <<flag, now, interrupted, nodes, begun, free, result, i, rows>>
  PROVE  TableInv'
<1>1. TableTypes' /\ Asked' /\ Listed'
  BY DEF TableInv, TableTypes, Asked, Listed
<1>2. Placed'
  BY DEF TableInv, Placed, Inside, CfPlaces
<1>3. InTime'
  BY DEF TableInv, Placed, InTime, Inside
<1> QED
  BY <1>1, <1>2, <1>3 DEF TableInv

LEMMA Single ==
  ASSUME NEW S, NEW x \in S
  PROVE  <<x>> \in Seq(S)
OBVIOUS

LEMMA ResolveTable ==
  ASSUME TableInv, Resolve
  PROVE  TableInv'
<1>1. /\ pc = "resolve" /\ nodes' = ResolveSet(Parts(flag))
      /\ UNCHANGED <<flag, now, interrupted, i, begun, rows, free>>
      /\ i = 1 /\ rows = <<>> /\ flag \in Flags /\ nodes = <<>> /\ result = "none"
  BY DEF Resolve, clock, nodeVars, TableInv, TableTypes, Placed
<1>2. \/ nodes' = <<>> /\ pc' = "done"
      \/ nodes' # <<>> /\ pc' = "user" /\ result' = "none"
  BY <1>1 DEF Resolve, Return, Unresolved
<1>3. Parts(flag) \in Seq(STRING)
  <2>1. flag \in Seq(STRING)
    BY <1>1, NodesAssumption, Zenon DEF NodesAssumption
  <2>2. <<"default">> \in Seq(STRING)
    <3>1. "default" \in STRING
      BY NodesAssumption, Zenon DEF NodesAssumption
    <3> QED
      BY <3>1, Single
  <2> QED
    BY <2>1, <2>2, Zenon DEF Parts
<1>4. CASE \A k \in DOMAIN Parts(flag) : Understood(Parts(flag)[k])
  <2>1. /\ nodes' \in Seq(Node) /\ Once(nodes')
        /\ Range(nodes') = UNION {Range(PartNodes(part)) : part \in Range(Parts(flag))}
    BY <1>1, <1>3, <1>4, ResolveSetUnites
  <2>2. Asked'
    BY <1>1, <2>1, Zenon DEF Asked
  <2>3. TableTypes'
    BY <1>1, <2>1 DEF TableInv, TableTypes
  <2>4. Placed'
    BY <1>1, <1>2 DEF Placed, Inside, CfPlaces
  <2>5. Listed'
    <3>1. rows' \in Seq({}) /\ Len(rows') = 0 /\ i' = 1 /\ Len(nodes') \in Nat
      BY <1>1, <2>1
    <3>2. 1..(i' - 1) = {} /\ 1 <= Len(nodes') + 1 /\ Len(rows') = i' - 1
      BY <3>1
    <3> QED
      BY <3>1, <3>2 DEF Listed
  <2>6. InTime'
    BY <1>1, <1>2 DEF InTime, Inside
  <2> QED
    BY <2>2, <2>3, <2>4, <2>5, <2>6 DEF TableInv
<1>5. CASE ~(\A k \in DOMAIN Parts(flag) : Understood(Parts(flag)[k]))
  <2>1. ResolveSet(Parts(flag)) = Unresolved
    BY <1>5, Zenon DEF ResolveSet, Understood
  <2>2. nodes' = <<>> /\ pc' = "done"
    BY <1>1, <1>2, <2>1 DEF Unresolved
  <2>3. <<>> \in Seq(Node)
    OBVIOUS
  <2> QED
    BY <1>1, <2>2, <2>3
       DEF TableInv, TableTypes, Placed, Asked, Listed, InTime, Inside, CfPlaces
<1> QED
  BY <1>4, <1>5

LEMMA UserInfoTable ==
  ASSUME TableInv, UserInfo
  PROVE  TableInv'
<1>1. /\ pc = "user" /\ pc' = "loop" /\ free' = now /\ i = 1 /\ rows = <<>> /\ nodes # <<>>
      /\ UNCHANGED <<flag, now, interrupted, nodes, i, begun, rows, result>>
  BY DEF UserInfo, clock, nodeVars, TableInv, Placed
<1>2. TableTypes' /\ Asked' /\ Listed'
  BY <1>1 DEF TableInv, TableTypes, Asked, Listed
<1>3. Placed'
  BY <1>1 DEF TableInv, Placed, Inside, CfPlaces
<1>4. InTime'
  <2>1. NodeTimeout \in Nat /\ now \in Nat
    BY ConstantsHold DEF Constants, TableInv, TableTypes
  <2>2. now <= now + (1 - 1) * NodeTimeout
    BY <2>1
  <2> QED
    BY <1>1, <2>2 DEF TableInv, Placed, InTime, Inside
<1> QED
  BY <1>2, <1>3, <1>4 DEF TableInv

LEMMA LoopTable ==
  ASSUME TableInv, Loop
  PROVE  TableInv'
<1>1. /\ pc = "loop" /\ nodes # <<>> /\ result = "none"
      /\ UNCHANGED <<flag, now, interrupted, nodes, i, rows, free>>
  BY DEF Loop, clock, nodeVars, TableInv, Placed
<1>2. i \in Nat /\ i >= 1 /\ Len(nodes) \in Nat /\ i <= Len(nodes) + 1 /\ now \in Nat /\ free \in Nat
  BY <1>1 DEF TableInv, TableTypes, Listed
<1>3. NodeTimeout \in Nat /\ TestTimeout \in Nat /\ NodeTimeout > 0
  BY ConstantsHold DEF Constants
<1>4. CASE i > Len(nodes) \/ Ended
  <2>1. pc' = "done" /\ begun' = begun
    BY <1>4 DEF Loop, Return, nodeVars
  <2>2. TableTypes' /\ Asked' /\ Listed'
    BY <1>1, <2>1 DEF TableInv, TableTypes, Asked, Listed
  <2>3. Placed'
    BY <1>1, <2>1 DEF TableInv, Placed, Inside, CfPlaces
  <2>4. InTime'
    <3> SUFFICES ASSUME ~interrupted, TestTimeout - free >= Len(nodes) * NodeTimeout
                 PROVE  i = Len(nodes) + 1
      BY <1>1, <2>1 DEF InTime, Inside
    <3> SUFFICES ASSUME i <= Len(nodes) PROVE FALSE
      BY <1>2
    <3>1. now >= TestTimeout
      BY <1>4, <1>2 DEF Ended
    <3>2. now <= free + (i - 1) * NodeTimeout
      BY <1>1 DEF TableInv, InTime
    <3>3. i - 1 \in Nat /\ (i - 1) + 1 = i
      BY <1>2
    <3>4. (i - 1) * NodeTimeout \in Nat /\ i * NodeTimeout = (i - 1) * NodeTimeout + NodeTimeout
      BY <1>3, <3>3, OneMore
    <3>5. i * NodeTimeout <= Len(nodes) * NodeTimeout
      BY <1>2, <1>3, NoMoreThan
    <3>6. Len(nodes) * NodeTimeout \in Nat
      BY <1>2, <1>3
    <3> HIDE DEF TableInv
    <3> QED
      BY <1>2, <1>3, <3>1, <3>2, <3>4, <3>5, <3>6
  <2> QED
    BY <2>2, <2>3, <2>4 DEF TableInv
<1>5. CASE ~(i > Len(nodes) \/ Ended)
  <2>1. begun' = now /\ pc' \in {"byID", "fetch"} /\ result' = result /\ i <= Len(nodes)
    BY <1>2, <1>5 DEF Loop
  <2>2. TableTypes' /\ Asked' /\ Listed'
    BY <1>1, <2>1 DEF TableInv, TableTypes, Asked, Listed
  <2>3. Placed'
    BY <1>1, <2>1 DEF TableInv, Placed, Inside, CfPlaces
  <2>4. InTime'
    <3> SUFFICES ASSUME ~interrupted
                 PROVE  now <= free + (i - 1) * NodeTimeout /\ now <= now + NodeTimeout
      BY <1>1, <2>1 DEF InTime, Inside
    <3> QED
      BY <1>1, <1>2, <1>3 DEF TableInv, InTime
  <2> QED
    BY <2>2, <2>3, <2>4 DEF TableInv
<1> QED
  BY <1>4, <1>5

(* Inside a node time goes on only before the end of its timeout. *)
LEMMA TickTable ==
  ASSUME TableInv, Tick
  PROVE  TableInv'
<1>1. /\ now' = now + 1
      /\ UNCHANGED <<flag, pc, interrupted, nodes, i, begun, rows, result, free>>
  BY DEF Tick, nodeVars
<1>2. TableTypes' /\ Placed' /\ Asked' /\ Listed'
  BY <1>1 DEF TableInv, TableTypes, Placed, Asked, Listed
<1>3. InTime'
  <2>1. pc # "loop"
    BY DEF Tick, Waiting
  <2>2. pc \in Inside => now < begun + NodeTimeout
    <3>1. pc \in Inside => ~NodeEnded
      BY DEF Tick, Waiting, Inside
    <3>2. NodeTimeout \in Nat
      BY ConstantsHold DEF Constants
    <3> QED
      BY <3>1, <3>2 DEF NodeEnded, TableInv, TableTypes
  <2>3. NodeTimeout \in Nat /\ now \in Nat /\ begun \in Nat
    BY ConstantsHold DEF Constants, TableInv, TableTypes
  <2> QED
    BY <1>1, <2>1, <2>2, <2>3 DEF TableInv, InTime
<1> QED
  BY <1>2, <1>3 DEF TableInv

LEMMA InterruptTable ==
  ASSUME TableInv, Interrupt
  PROVE  TableInv'
<1>1. /\ interrupted' = TRUE
      /\ UNCHANGED <<flag, now, pc, nodes, i, begun, rows, result, free>>
  BY DEF Interrupt, nodeVars
<1> QED
  BY <1>1 DEF TableInv, TableTypes, Placed, Asked, Listed, InTime

(* The other method has no nodes. *)
LEMMA CfTable ==
  ASSUME TableInv, CfSpeedtest
  PROVE  TableInv'
<1> DEFINE Effect ==
             /\ pc \in CfPlaces \cup {"resolve"} /\ pc' \in CfPlaces \cup {"done"}
             /\ UNCHANGED <<flag, now, nodes, i, free>>
             /\ begun' \in {begun, now} /\ (result' = result \/ pc' = "done")
<1>1. Effect
  <2>1. CASE Cloudflare
    BY <2>1 DEF Cloudflare, CfPlaces, clock
  <2>2. CASE CfEdge
    BY <2>2 DEF CfEdge, CfPlaces, cfRest, clock
  <2>3. ASSUME NEW back \in {0, 1}, CfLatency(back) PROVE Effect
    BY <2>3 DEF CfLatency, CfPlaces, clock
  <2>4. CASE CfLatencyOver
    BY <2>4 DEF CfLatencyOver, Return, CfPlaces, cfRest, clock
  <2>5. CASE CfDownload
    BY <2>5 DEF CfDownload, Return, CfPlaces, cfRest, clock
  <2>6. CASE CfUpload
    BY <2>6 DEF CfUpload, Return, CfPlaces, cfRest, clock
  <2> QED
    BY <2>1, <2>2, <2>3, <2>4, <2>5, <2>6 DEF CfSpeedtest
<1>2. nodes = <<>> /\ nodes' = <<>>
  BY <1>1 DEF TableInv, Placed
<1>3. TableTypes'
  BY <1>1 DEF TableInv, TableTypes
<1>4. Placed'
  BY <1>1, <1>2 DEF TableInv, Placed, Inside, CfPlaces
<1> QED
  BY <1>2, <1>3, <1>4 DEF TableInv, Asked, Listed, InTime

(* Each step of a node either ends it with a row, or stays inside.         *)
LEMMA NodeTable ==
  ASSUME TableInv, FetchList \/ PickServers \/ MeasureNode
  PROVE  TableInv'
<1> DEFINE Same == UNCHANGED <<flag, now, interrupted, nodes, begun, free, result>>
           Over == pc \in Inside /\ Same /\ \E r : r.node = nodes[i] /\ Row(r)
           Stays == pc \in Inside /\ pc' \in Inside /\ Same /\ i' = i /\ rows' = rows
<1>1. Failed.node = nodes[i] /\ \A s : Measured(s).node = nodes[i]
  BY DEF Failed, Measured
<1>2. Over \/ Stays
  <2>1. CASE PauseCut \/ GiveUp
    BY <1>1, <2>1 DEF PauseCut, GiveUp, Inside, clock
  <2>2. CASE Attempt \/ AskList \/ ListRefused \/ \E list \in Lists : GotList(list)
    BY <2>2 DEF Attempt, AskList, ListRefused, GotList, Inside, clock, nodeVars
  <2>3. ASSUME NEW answered, Reach(answered) PROVE Over \/ Stays
    BY <1>1, <2>3 DEF Reach, NextTry, Inside, clock
  <2>4. ASSUME NEW list, ByID(list) PROVE Over \/ Stays
    BY <1>1, <2>4 DEF ByID, NextTry, Inside, clock
  <2>5. CASE Try
    BY <1>1, <2>5 DEF Try, Inside, clock
  <2>6. CASE Ping \/ Endpoints \/ Upload
    BY <2>6 DEF Ping, Endpoints, Upload, SkipServer, NextTry, Inside, clock
  <2>7. CASE Download
    BY <1>1, <2>7 DEF Download, SkipServer, NextTry, Inside, clock
  <2> HIDE DEF Over, Stays
  <2> QED
    BY <2>1, <2>2, <2>3, <2>4, <2>5, <2>6, <2>7 DEF FetchList, PickServers, MeasureNode
<1>3. CASE Over
  <2>1. PICK r : r.node = nodes[i] /\ Row(r)
    BY <1>3
  <2>2. pc \in Inside /\ Same
    BY <1>3
  <2> QED
    BY <2>1, <2>2, RowStep
<1>4. CASE Stays
  <2>1. /\ pc \in Inside /\ pc' \in Inside
        /\ UNCHANGED <<flag, now, interrupted, nodes, begun, free, result, i, rows>>
    BY <1>4
  <2> HIDE DEF Stays
  <2> QED
    BY <2>1, InsideStep
<1> HIDE DEF Over, Stays
<1> QED
  BY <1>2, <1>3, <1>4

LEMMA TableStep == TableInv /\ [Next]_vars => TableInv'
<1> SUFFICES ASSUME TableInv, [Next]_vars PROVE TableInv'
  OBVIOUS
<1>1. CASE UNCHANGED vars
  BY <1>1 DEF vars, nodeVars, TableInv, TableTypes, Placed, Asked, Listed, InTime
<1> QED
  BY <1>1, ResolveTable, UserInfoTable, LoopTable, NodeTable, CfTable, TickTable, InterruptTable
     DEF Next, Main

LEMMA CountNumbers ==
  ASSUME NEW n \in Nat
  PROVE  IsFiniteSet(1..n) /\ Cardinality(1..n) = n
BY FS_Interval

LEMMA CountNodes ==
  ASSUME NEW S, NEW s \in Seq(S), Once(s)
  PROVE  Cardinality(Range(s)) = Len(s)
<1> DEFINE n == Len(s)
           R == Range(s)
<1>1. n \in Nat /\ DOMAIN s = 1..n /\ s = [k \in 1..n |-> s[k]]
  OBVIOUS
<1>2. R = {s[k] : k \in 1..n}
  BY RangeIs
<1>3. \A j, k \in 1..n : s[j] = s[k] => j = k
  BY <1>1 DEF Once
<1> HIDE DEF n, R
<1>4. s \in [1..n -> R]
  BY <1>1, <1>2
<1>5. s \in Surjection(1..n, R) /\ s \in Injection(1..n, R)
  <2>1. \A x \in R : \E k \in 1..n : s[k] = x
    BY <1>2
  <2> QED
    BY <1>3, <1>4, <2>1, Zenon DEF Injection, Surjection, IsInjective
<1>6. IsFiniteSet(1..n) /\ Cardinality(1..n) = n
  BY <1>1, CountNumbers
<1>7. Cardinality(R) = n
  <2>1. Cardinality(R) = Cardinality(1..n) <=> s \in Injection(1..n, R)
    BY <1>5, <1>6, FS_Surjection, Zenon
  <2> QED
    BY <1>5, <1>6, <2>1, Zenon
<1> QED
  BY <1>7 DEF n, R

(* When the time left covers the timeouts of all the nodes, the table has a *)
(* row for each, in order, and the nodes are those of the flag, each once. *)
THEOREM TablesAreWhole == Spec => []WholeTable
<1>1. TableInv => WholeTable
  <2> SUFFICES ASSUME TableInv, result = "table", ~interrupted, nodes # <<>>,
                      TestTimeout - free >= Len(nodes) * NodeTimeout
               PROVE  /\ [k \in DOMAIN rows |-> rows[k].node] = nodes
                      /\ Cardinality(Range(nodes)) = Len(nodes)
                      /\ Range(nodes)
                           = UNION {Range(PartNodes(part)) : part \in Range(Parts(flag))}
    BY Zenon DEF WholeTable
  <2>1. i = Len(nodes) + 1
    BY DEF TableInv, InTime
  <2>2. PICK S : rows \in Seq(S)
    BY DEF TableInv, Listed
  <2>3. Len(rows) = i - 1 /\ \A k \in 1..(i - 1) : rows[k].node = nodes[k]
    BY DEF TableInv, Listed
  <2>4. nodes \in Seq(Node)
    BY DEF TableInv, TableTypes
  <2>5. DOMAIN rows = 1..Len(nodes) /\ \A k \in 1..Len(nodes) : rows[k].node = nodes[k]
    BY <2>1, <2>2, <2>3, <2>4
  <2>6. nodes = [k \in 1..Len(nodes) |-> nodes[k]]
    BY <2>4
  <2>7. [k \in DOMAIN rows |-> rows[k].node] = nodes
    BY <2>5, <2>6
  <2>8. Once(nodes) /\ Range(nodes) = UNION {Range(PartNodes(part)) : part \in Range(Parts(flag))}
    BY Zenon DEF TableInv, Asked
  <2> QED
    BY <2>4, <2>7, <2>8, CountNodes
<1> QED
  BY <1>1, TableInit, TableStep, PTL DEF Spec

-----------------------------------------------------------------------------
(* A node fails only after all its candidates                              *)

LEMMA KeptIs ==
  ASSUME NEW s, Len(s) \in Nat, NEW T
  PROVE  \E g : /\ Kept(s, T) = g[Len(s)]
                /\ g[0] = <<>>
                /\ \A n \in 1..Len(s) :
                     g[n] = IF s[n] \in T THEN Append(g[n - 1], s[n]) ELSE g[n - 1]
<1> DEFINE none == <<>>
           g == CHOOSE f : Turns(f, "servers", T, Len(s), none, s)
<1>1. Kept(s, T) = g[Len(s)]
  BY DEF Kept, Turns, Turn
<1>2. Turns(g, "servers", T, Len(s), none, s)
  BY TurnsExist
<1> HIDE DEF g, none
<1>3. g[0] = none /\ \A n \in 1..Len(s) : g[n] = Turn("servers", T, g[n - 1], s[n])
  BY <1>2, TurnsAre
<1>4. \A n \in 1..Len(s) : g[n] = IF s[n] \in T THEN Append(g[n - 1], s[n]) ELSE g[n - 1]
  BY <1>3 DEF Turn
<1> QED
  BY <1>1, <1>3, <1>4 DEF none

(* h leads from the places of r to those of s that it was copied from, in  *)
(* order: of the first n elements of s all that are in T, and no other.    *)
Copied(h, r, s, T, n) ==
  /\ h \in [1..Len(r) -> 1..n]
  /\ \A x \in 1..Len(r) : r[x] = s[h[x]] /\ r[x] \in T
  /\ \A x, y \in 1..Len(r) : x < y => h[x] < h[y]
  /\ \A k \in 1..n : s[k] \in T => \E x \in 1..Len(r) : h[x] = k

LEMMA CopyOne ==
  ASSUME NEW U, NEW s, NEW T, NEW n \in Nat, NEW r \in Seq(U), s[n + 1] \in U \cap T,
         NEW h, Copied(h, r, s, T, n)
  PROVE  \E f : Copied(f, Append(r, s[n + 1]), s, T, n + 1)
<1> DEFINE q == Append(r, s[n + 1])
           f == [x \in 1..(Len(r) + 1) |-> IF x = Len(r) + 1 THEN n + 1 ELSE h[x]]
<1>1. /\ Len(q) = Len(r) + 1 /\ Len(r) \in Nat /\ q[Len(r) + 1] = s[n + 1]
      /\ \A x \in 1..Len(r) : q[x] = r[x]
  OBVIOUS
<1>2. \A x \in 1..(Len(r) + 1) : x \in 1..Len(r) \/ x = Len(r) + 1
  BY <1>1
<1>3. \A x \in 1..Len(r) : f[x] = h[x] /\ f[x] \in 1..n
  BY <1>1 DEF Copied
<1>4. f[Len(r) + 1] = n + 1 /\ DOMAIN f = 1..(Len(r) + 1)
  BY <1>1
<1>5. f = [x \in 1..(Len(r) + 1) |-> f[x]]
  OBVIOUS
<1> HIDE DEF q, f
<1>6. f \in [1..Len(q) -> 1..(n + 1)]
  <2>1. \A x \in 1..(Len(r) + 1) : f[x] \in 1..(n + 1)
    BY <1>2, <1>3, <1>4
  <2> QED
    BY <1>1, <1>5, <2>1
<1>7. \A x \in 1..Len(q) : q[x] = s[f[x]] /\ q[x] \in T
  <2> SUFFICES ASSUME NEW x \in 1..Len(q) PROVE q[x] = s[f[x]] /\ q[x] \in T
    OBVIOUS
  <2>1. CASE x \in 1..Len(r)
    <3>1. q[x] = r[x] /\ f[x] = h[x]
      BY <1>1, <1>3, <2>1
    <3> QED
      BY <2>1, <3>1 DEF Copied
  <2>2. CASE x = Len(r) + 1
    BY <1>1, <1>4, <2>2
  <2> QED
    BY <1>1, <1>2, <2>1, <2>2
<1>8. \A x, y \in 1..Len(q) : x < y => f[x] < f[y]
  <2> SUFFICES ASSUME NEW x \in 1..Len(q), NEW y \in 1..Len(q), x < y PROVE f[x] < f[y]
    OBVIOUS
  <2>1. x \in 1..Len(r)
    BY <1>1
  <2>2. CASE y \in 1..Len(r)
    BY <1>3, <2>1, <2>2 DEF Copied
  <2>3. CASE y = Len(r) + 1
    BY <1>3, <1>4, <2>1, <2>3
  <2> QED
    BY <1>1, <1>2, <2>2, <2>3
<1>9. \A k \in 1..(n + 1) : s[k] \in T => \E x \in 1..Len(q) : f[x] = k
  <2> SUFFICES ASSUME NEW k \in 1..(n + 1), s[k] \in T PROVE \E x \in 1..Len(q) : f[x] = k
    OBVIOUS
  <2>1. CASE k = n + 1
    BY <1>1, <1>4, <2>1
  <2>2. CASE k \in 1..n
    <3>1. PICK x \in 1..Len(r) : h[x] = k
      BY <2>2 DEF Copied
    <3> QED
      BY <1>1, <1>3, <3>1
  <2> QED
    BY <2>1, <2>2
<1> QED
  BY <1>6, <1>7, <1>8, <1>9 DEF Copied, q

LEMMA CopyNone ==
  ASSUME NEW s, NEW T, NEW n \in Nat, s[n + 1] \notin T, NEW r, NEW h, Copied(h, r, s, T, n)
  PROVE  Copied(h, r, s, T, n + 1)
<1>1. h \in [1..Len(r) -> 1..(n + 1)]
  <2>1. 1..n \subseteq 1..(n + 1)
    OBVIOUS
  <2> QED
    BY <2>1 DEF Copied
<1>2. \A k \in 1..(n + 1) : k \in 1..n \/ k = n + 1
  OBVIOUS
<1> QED
  BY <1>1, <1>2 DEF Copied

LEMMA KeptCopies ==
  ASSUME NEW U, NEW s \in Seq(U), NEW T
  PROVE  Kept(s, T) \in Seq(U) /\ \E h : Copied(h, Kept(s, T), s, T, Len(s))
<1>1. Len(s) \in Nat /\ \A n \in 1..Len(s) : s[n] \in U
  OBVIOUS
<1>2. PICK g : /\ Kept(s, T) = g[Len(s)]
               /\ g[0] = <<>>
               /\ \A n \in 1..Len(s) :
                    g[n] = IF s[n] \in T THEN Append(g[n - 1], s[n]) ELSE g[n - 1]
  BY <1>1, KeptIs
<1> DEFINE Good(n) == g[n] \in Seq(U) /\ \E h : Copied(h, g[n], s, T, n)
           V == {n \in Nat : n <= Len(s) => Good(n)}
<1>3. 0 \in V
  <2>1. g[0] \in Seq(U) /\ 1..0 = {} /\ Len(g[0]) = 0
    BY <1>2
  <2>2. [x \in {} |-> x] \in [{} -> {}]
    OBVIOUS
  <2>3. Copied([x \in {} |-> x], g[0], s, T, 0)
    BY <2>1, <2>2 DEF Copied
  <2> QED
    BY <2>1, <2>3
<1>4. ASSUME NEW n \in Nat, n \in V PROVE n + 1 \in V
  <2> SUFFICES ASSUME n + 1 <= Len(s) PROVE Good(n + 1)
    OBVIOUS
  <2>1. Good(n)
    BY <1>1, <1>4
  <2>2. n + 1 \in 1..Len(s) /\ (n + 1) - 1 = n
    BY <1>1
  <2>3. PICK h : Copied(h, g[n], s, T, n)
    BY <2>1
  <2>4. g[n] \in Seq(U) /\ s[n + 1] \in U
    BY <1>1, <2>1, <2>2
  <2>5. g[n + 1] = IF s[n + 1] \in T THEN Append(g[n], s[n + 1]) ELSE g[n]
    BY <1>2, <2>2
  <2>6. CASE s[n + 1] \in T
    <3>1. \E f : Copied(f, Append(g[n], s[n + 1]), s, T, n + 1)
      BY <2>3, <2>4, <2>6, CopyOne
    <3>2. Append(g[n], s[n + 1]) \in Seq(U)
      BY <2>4
    <3> QED
      BY <2>5, <2>6, <3>1, <3>2
  <2>7. CASE s[n + 1] \notin T
    <3>1. Copied(h, g[n], s, T, n + 1)
      BY <2>3, <2>7, CopyNone
    <3> QED
      BY <2>4, <2>5, <2>7, <3>1
  <2> QED
    BY <2>6, <2>7
<1>5. Nat \subseteq V
  <2> HIDE DEF V
  <2> QED
    BY <1>3, <1>4, AllNumbers
<1>6. Good(Len(s))
  BY <1>1, <1>5
<1> QED
  BY <1>2, <1>6

LEMMA BetterIsStrict ==
  ASSUME NEW j \in DOMAIN given, NEW k \in DOMAIN given, DOMAIN given \subseteq Nat, j \in Better(k)
  PROVE  k \notin Better(j) /\ j # k
<1>1. Rank(given[j]) \in Nat /\ Rank(given[k]) \in Nat
  BY DEF Rank
<1>2. Rank(given[j]) < Rank(given[k]) \/ (Rank(given[j]) = Rank(given[k]) /\ j < k)
  BY Zenon DEF Better
<1>3. k \in Better(j) =>
        Rank(given[k]) < Rank(given[j]) \/ (Rank(given[k]) = Rank(given[j]) /\ k < j)
  BY Zenon DEF Better
<1> HIDE DEF Rank
<1> QED
  BY <1>1, <1>2, <1>3

(* s holds servers of the list, at the places e of it, the better ones     *)
(* first.                                                                  *)
InLine(e, s) ==
  /\ s \in Seq(Servers)
  /\ e \in [1..Len(s) -> DOMAIN given]
  /\ \A x \in 1..Len(s) : s[x] = given[e[x]]
  /\ \A x, y \in 1..Len(s) : x < y => e[x] \in Better(e[y])

LEMMA LineIs ==
  ASSUME NEW e, NEW s, InLine(e, s)
  PROVE  Len(s) \in Nat /\ \A x \in 1..Len(s) : e[x] \in DOMAIN given /\ s[x] = given[e[x]]
BY DEF InLine

(* The line r is what was kept of the line s. *)
KeptLine(f, r, e, s, T) ==
  /\ InLine(f, r)
  /\ \A y \in 1..Len(r) : r[y] \in T /\ \E x \in 1..Len(s) : f[y] = e[x]
  /\ \A x \in 1..Len(s) : s[x] \in T => \E y \in 1..Len(r) : f[y] = e[x]

LEMMA KeptInLine ==
  ASSUME NEW s, NEW e, InLine(e, s), NEW T
  PROVE  \E f : KeptLine(f, Kept(s, T), e, s, T)
<1> DEFINE r == Kept(s, T)
<1>1. r \in Seq(Servers) /\ \E h : Copied(h, r, s, T, Len(s))
  BY KeptCopies DEF InLine
<1>2. PICK h : Copied(h, r, s, T, Len(s))
  BY <1>1
<1> DEFINE f == [y \in 1..Len(r) |-> e[h[y]]]
<1> HIDE DEF r
<1>3. \A y \in 1..Len(r) : f[y] = e[h[y]] /\ h[y] \in 1..Len(s)
  BY <1>2 DEF Copied
<1>4. f \in [1..Len(r) -> DOMAIN given]
  BY <1>3 DEF InLine
<1> HIDE DEF f
<1>5. \A y \in 1..Len(r) : r[y] = given[f[y]]
  BY <1>2, <1>3 DEF Copied, InLine
<1>6. \A x, y \in 1..Len(r) : x < y => f[x] \in Better(f[y])
  BY <1>2, <1>3 DEF Copied, InLine
<1>7. InLine(f, r)
  BY <1>1, <1>4, <1>5, <1>6 DEF InLine
<1>8. \A y \in 1..Len(r) : r[y] \in T /\ \E x \in 1..Len(s) : f[y] = e[x]
  BY <1>2, <1>3 DEF Copied
<1>9. \A x \in 1..Len(s) : s[x] \in T => \E y \in 1..Len(r) : f[y] = e[x]
  <2> SUFFICES ASSUME NEW x \in 1..Len(s), s[x] \in T PROVE \E y \in 1..Len(r) : f[y] = e[x]
    OBVIOUS
  <2>1. PICK y \in 1..Len(r) : h[y] = x
    BY <1>2 DEF Copied
  <2> QED
    BY <1>3, <2>1
<1> QED
  BY <1>7, <1>8, <1>9 DEF r, KeptLine

LEMMA FirstInLine ==
  ASSUME NEW s, NEW e, InLine(e, s), NEW n \in Nat
  PROVE  LET r == FirstOf(n, s) IN
           /\ Len(r) \in Nat /\ Len(r) = (IF Len(s) < n THEN Len(s) ELSE n)
           /\ InLine([x \in 1..Len(r) |-> e[x]], r)
<1> DEFINE m == IF Len(s) < n THEN Len(s) ELSE n
           r == FirstOf(n, s)
           f == [x \in 1..Len(r) |-> e[x]]
<1>1. s \in Seq(Servers) /\ Len(s) \in Nat /\ m \in 0..Len(s)
  BY DEF InLine
<1>2. r = SubSeq(s, 1, m)
  BY DEF FirstOf
<1> HIDE DEF m, r
<1>3. r \in Seq(Servers) /\ Len(r) = m /\ \A x \in 1..m : r[x] = s[x]
  BY <1>1, <1>2
<1>4. \A x \in 1..Len(r) : f[x] = e[x] /\ x \in 1..Len(s)
  BY <1>1, <1>3
<1>5. f \in [1..Len(r) -> DOMAIN given]
  BY <1>4 DEF InLine
<1> HIDE DEF f
<1>6. InLine(f, r)
  BY <1>1, <1>3, <1>4, <1>5 DEF InLine
<1> QED
  BY <1>1, <1>3, <1>6 DEF m, r, f

(* Two lines, all of the first before all of the second. *)
Before(e, s, f, r) == \A x \in 1..Len(s), y \in 1..Len(r) : e[x] \in Better(f[y])

Together(g, e, s, f, r) ==
  /\ InLine(g, s \o r)
  /\ \A x \in 1..Len(s) : \E z \in 1..Len(s \o r) : g[z] = e[x]
  /\ \A y \in 1..Len(r) : \E z \in 1..Len(s \o r) : g[z] = f[y]
  /\ \A z \in 1..Len(s \o r) : \/ \E x \in 1..Len(s) : g[z] = e[x]
                               \/ \E y \in 1..Len(r) : g[z] = f[y]

LEMMA OneLine ==
  ASSUME NEW s, NEW e, InLine(e, s), NEW r, NEW f, InLine(f, r), Before(e, s, f, r)
  PROVE  \E g : Together(g, e, s, f, r)
<1> DEFINE q == s \o r
           n == Len(s)
           g == [z \in 1..Len(q) |-> IF z <= n THEN e[z] ELSE f[z - n]]
<1>1. /\ q \in Seq(Servers) /\ n \in Nat /\ Len(r) \in Nat /\ Len(q) = n + Len(r)
      /\ \A x \in 1..n : q[x] = s[x]
      /\ \A y \in 1..Len(r) : q[n + y] = r[y]
  BY DEF InLine
<1> HIDE DEF q
<1>2. \A z \in 1..Len(q) : z \in 1..n \/ (z - n \in 1..Len(r) /\ ~(z <= n) /\ z = n + (z - n))
  BY <1>1
<1>3. \A x \in 1..n : x \in 1..Len(q) /\ g[x] = e[x]
  BY <1>1
<1>4. \A y \in 1..Len(r) : n + y \in 1..Len(q) /\ g[n + y] = f[y]
  <2> SUFFICES ASSUME NEW y \in 1..Len(r) PROVE n + y \in 1..Len(q) /\ g[n + y] = f[y]
    OBVIOUS
  <2>1. n + y \in 1..Len(q) /\ ~(n + y <= n) /\ (n + y) - n = y
    BY <1>1
  <2> QED
    BY <2>1
<1>5. g = [z \in 1..Len(q) |-> g[z]]
  OBVIOUS
<1> HIDE DEF g, n
<1>6. e \in [1..n -> DOMAIN given] /\ f \in [1..Len(r) -> DOMAIN given]
  BY DEF InLine, n
<1>7. \A z \in 1..Len(q) : g[z] \in DOMAIN given /\ q[z] = given[g[z]]
  <2> SUFFICES ASSUME NEW z \in 1..Len(q) PROVE g[z] \in DOMAIN given /\ q[z] = given[g[z]]
    OBVIOUS
  <2>1. CASE z \in 1..n
    <3>1. q[z] = s[z] /\ g[z] = e[z] /\ s[z] = given[e[z]]
      BY <1>1, <1>3, <2>1 DEF InLine, n
    <3> QED
      BY <1>6, <2>1, <3>1
  <2>2. CASE z \notin 1..n
    <3>1. PICK y \in 1..Len(r) : z = n + y
      BY <1>2, <2>2
    <3>2. q[z] = r[y] /\ g[z] = f[y] /\ r[y] = given[f[y]]
      BY <1>1, <1>4, <3>1 DEF InLine
    <3> QED
      BY <1>6, <3>2
  <2> QED
    BY <2>1, <2>2
<1>8. \A w, z \in 1..Len(q) : w < z => g[w] \in Better(g[z])
  <2> SUFFICES ASSUME NEW w \in 1..Len(q), NEW z \in 1..Len(q), w < z PROVE g[w] \in Better(g[z])
    OBVIOUS
  <2>1. CASE z \in 1..n
    <3>1. w \in 1..n
      BY <1>1, <2>1
    <3> QED
      BY <1>3, <2>1, <3>1 DEF InLine, n
  <2>2. CASE z \notin 1..n
    <3>1. PICK y \in 1..Len(r) : z = n + y
      BY <1>2, <2>2
    <3>2. CASE w \in 1..n
      <4>1. e[w] \in Better(f[y])
        BY <3>2 DEF n, Before
      <4> QED
        BY <1>3, <1>4, <3>1, <3>2, <4>1
    <3>3. CASE w \notin 1..n
      <4>1. PICK x \in 1..Len(r) : w = n + x
        BY <1>2, <3>3
      <4>2. x < y
        BY <1>1, <3>1, <4>1
      <4>3. f[x] \in Better(f[y])
        BY <4>2 DEF InLine
      <4> QED
        BY <1>4, <3>1, <4>1, <4>3
    <3> QED
      BY <3>2, <3>3
  <2> QED
    BY <2>1, <2>2
<1>9. InLine(g, q)
  <2>1. g \in [1..Len(q) -> DOMAIN given]
    BY <1>5, <1>7
  <2> QED
    BY <1>1, <1>7, <1>8, <2>1 DEF InLine
<1>10. \A x \in 1..n : \E z \in 1..Len(q) : g[z] = e[x]
  BY <1>3
<1>11. \A y \in 1..Len(r) : \E z \in 1..Len(q) : g[z] = f[y]
  BY <1>4
<1>12. \A z \in 1..Len(q) : (\E x \in 1..n : g[z] = e[x]) \/ (\E y \in 1..Len(r) : g[z] = f[y])
  BY <1>2, <1>3, <1>4
<1> QED
  BY <1>9, <1>10, <1>11, <1>12 DEF q, n, Together

(* Of the servers of one place the list has an order already. *)
PlaceLine(e, r, place) ==
  /\ InLine(e, r)
  /\ \A x \in 1..Len(r) : given[e[x]].place = place
  /\ \A k \in DOMAIN given : given[k].place = place => \E x \in 1..Len(r) : e[x] = k

LEMMA PlaceInLine ==
  ASSUME NEW place, given \in Seq(Servers), nodes[i].kind = "city",
         NEW r, r = Kept(given, {s \in Range(given) : s.place = place})
  PROVE  \E e : PlaceLine(e, r, place)
<1> DEFINE T == {s \in Range(given) : s.place = place}
           n == Len(given)
<1>1. r \in Seq(Servers) /\ \E h : Copied(h, r, given, T, n)
  BY KeptCopies
<1>2. PICK e : Copied(e, r, given, T, n)
  BY <1>1
<1>3. DOMAIN given = 1..n /\ n \in Nat /\ \A k \in 1..n : given[k] \in Range(given)
  BY RangeIs
<1>4. \A x \in 1..Len(r) : e[x] \in 1..n /\ r[x] = given[e[x]] /\ given[e[x]].place = place
  BY <1>2 DEF Copied
<1>5. \A x, y \in 1..Len(r) : x < y => e[x] \in Better(e[y])
  <2> SUFFICES ASSUME NEW x \in 1..Len(r), NEW y \in 1..Len(r), x < y PROVE e[x] \in Better(e[y])
    OBVIOUS
  <2>1. e[x] < e[y]
    BY <1>2 DEF Copied
  <2>2. Rank(given[e[x]]) = Rank(given[e[y]])
    BY <1>4 DEF Rank
  <2>3. e[x] \in DOMAIN given
    BY <1>3, <1>4
  <2> QED
    BY <2>1, <2>2, <2>3, Zenon DEF Better
<1>6. InLine(e, r)
  BY <1>1, <1>2, <1>3, <1>4, <1>5 DEF InLine, Copied
<1>7. \A k \in DOMAIN given : given[k].place = place => \E x \in 1..Len(r) : e[x] = k
  BY <1>2, <1>3 DEF Copied
<1> QED
  BY <1>4, <1>6, <1>7 DEF PlaceLine

(* e goes through all places of the list. *)
Everyone(e, s) == \A k \in DOMAIN given : \E x \in 1..Len(s) : e[x] = k

LEMMA ByPlaces ==
  ASSUME given \in Seq(Servers), nodes[i].kind = "city"
  PROVE  \E e : InLine(e, MatchServers(given)) /\ Everyone(e, MatchServers(given))
<1> DEFINE At(place) == Kept(given, {s \in Range(given) : s.place = place})
           r1 == At("city")  r2 == At("country")  r3 == At("abroad")
           s2 == r1 \o r2
<1>1. PICK e1 : PlaceLine(e1, r1, "city")
  BY PlaceInLine
<1>2. PICK e2 : PlaceLine(e2, r2, "country")
  BY PlaceInLine
<1>3. PICK e3 : PlaceLine(e3, r3, "abroad")
  BY PlaceInLine
<1>4. MatchServers(given) = s2 \o r3
  <2>1. r1 \in Seq(Servers) /\ r2 \in Seq(Servers) /\ r3 \in Seq(Servers)
    BY <1>1, <1>2, <1>3 DEF InLine, PlaceLine
  <2>2. MatchServers(given) = r1 \o r2 \o r3
    BY Zenon DEF MatchServers
  <2> QED
    BY <2>2
<1>5. \A s : /\ s.place = "city" => Rank(s) = 1
             /\ s.place = "country" => Rank(s) = 2
             /\ s.place = "abroad" => Rank(s) = 3
  BY DEF Rank
<1>6. \A j, k \in DOMAIN given : Rank(given[j]) < Rank(given[k]) => j \in Better(k)
  BY Zenon DEF Better
<1> HIDE DEF r1, r2, r3
<1>7. InLine(e1, r1) /\ \A x \in 1..Len(r1) : e1[x] \in DOMAIN given /\ Rank(given[e1[x]]) = 1
  BY <1>1, <1>5 DEF InLine, PlaceLine
<1>8. InLine(e2, r2) /\ \A x \in 1..Len(r2) : e2[x] \in DOMAIN given /\ Rank(given[e2[x]]) = 2
  BY <1>2, <1>5 DEF InLine, PlaceLine
<1>9. InLine(e3, r3) /\ \A x \in 1..Len(r3) : e3[x] \in DOMAIN given /\ Rank(given[e3[x]]) = 3
  BY <1>3, <1>5 DEF InLine, PlaceLine
<1>10. PICK e : Together(e, e1, r1, e2, r2)
  <2>1. Before(e1, r1, e2, r2)
    BY <1>6, <1>7, <1>8 DEF Before
  <2> QED
    BY <1>7, <1>8, <2>1, OneLine
<1>11. InLine(e, s2) /\ \A z \in 1..Len(s2) : e[z] \in DOMAIN given /\ Rank(given[e[z]]) < 3
  <2>1. InLine(e, s2)
    BY <1>10 DEF Together
  <2>2. ASSUME NEW z \in 1..Len(s2) PROVE e[z] \in DOMAIN given /\ Rank(given[e[z]]) < 3
    <3>1. (\E x \in 1..Len(r1) : e[z] = e1[x]) \/ (\E y \in 1..Len(r2) : e[z] = e2[y])
      BY <1>10, Zenon DEF Together
    <3> QED
      BY <1>7, <1>8, <3>1
  <2> QED
    BY <2>1, <2>2
<1> HIDE DEF s2
<1>12. PICK g : Together(g, e, s2, e3, r3)
  <2>1. Before(e, s2, e3, r3)
    BY <1>6, <1>9, <1>11 DEF Before
  <2> QED
    BY <1>9, <1>11, <2>1, OneLine
<1>13. Everyone(g, s2 \o r3)
  <2> SUFFICES ASSUME NEW k \in DOMAIN given PROVE \E z \in 1..Len(s2 \o r3) : g[z] = k
    BY Zenon DEF Everyone
  <2>1. given[k].place \in {"city", "country", "abroad"}
    <3>1. given[k] \in Servers
      OBVIOUS
    <3> QED
      BY <3>1 DEF Servers
  <2>2. ASSUME NEW z \in 1..Len(s2), e[z] = k PROVE \E y \in 1..Len(s2 \o r3) : g[y] = k
    BY <1>12, <2>2 DEF Together
  <2>3. CASE given[k].place = "city"
    <3>1. PICK x \in 1..Len(r1) : e1[x] = k
      BY <1>1, <2>3 DEF PlaceLine
    <3>2. PICK z \in 1..Len(s2) : e[z] = k
      BY <1>10, <3>1 DEF Together, s2
    <3> QED
      BY <2>2, <3>2
  <2>4. CASE given[k].place = "country"
    <3>1. PICK x \in 1..Len(r2) : e2[x] = k
      BY <1>2, <2>4 DEF PlaceLine
    <3>2. PICK z \in 1..Len(s2) : e[z] = k
      BY <1>10, <3>1 DEF Together, s2
    <3> QED
      BY <2>2, <3>2
  <2>5. CASE given[k].place = "abroad"
    <3>1. PICK x \in 1..Len(r3) : e3[x] = k
      BY <1>3, <2>5 DEF PlaceLine
    <3> QED
      BY <1>12, <3>1 DEF Together
  <2> QED
    BY <2>1, <2>3, <2>4, <2>5
<1> QED
  BY <1>4, <1>12, <1>13 DEF Together

LEMMA OrderedInLine ==
  ASSUME given \in Seq(Servers), NEW s, s = Ordered(nodes[i].kind, given)
  PROVE  \E e : InLine(e, s) /\ Everyone(e, s)
<1>1. CASE nodes[i].kind = "city"
  <2>1. s = MatchServers(given)
    BY <1>1 DEF Ordered
  <2> QED
    BY <1>1, <2>1, ByPlaces
<1>2. CASE nodes[i].kind # "city"
  <2>1. s = given
    BY <1>2 DEF Ordered
  <2> DEFINE e == [x \in 1..Len(given) |-> x]
  <2>2. DOMAIN given = 1..Len(given) /\ Len(given) \in Nat
    OBVIOUS
  <2>3. \A j, k \in DOMAIN given : j < k => j \in Better(k)
    BY <1>2 DEF Better, Rank
  <2>4. \A x \in 1..Len(given) : e[x] = x
    OBVIOUS
  <2>5. e \in [1..Len(given) -> DOMAIN given]
    BY <2>2
  <2> HIDE DEF e
  <2>6. InLine(e, given)
    BY <2>2, <2>3, <2>4, <2>5 DEF InLine
  <2>7. Everyone(e, given)
    BY <2>2, <2>4 DEF Everyone
  <2> QED
    BY <2>1, <2>6, <2>7
<1> QED
  BY <1>1, <1>2

(* Nobody stands twice in a line: so many are the first y.                 *)
LEMMA CountLine ==
  ASSUME NEW s, NEW e, InLine(e, s), given \in Seq(Servers), NEW y \in 0..Len(s)
  PROVE  Cardinality({e[x] : x \in 1..y}) = y
<1> DEFINE D == {e[x] : x \in 1..y}
           f == [x \in 1..y |-> e[x]]
<1>1. Len(s) \in Nat /\ y \in Nat /\ DOMAIN given \subseteq Nat
  BY DEF InLine
<1>2. \A x \in 1..y : x \in 1..Len(s) /\ f[x] = e[x] /\ e[x] \in DOMAIN given
  BY <1>1 DEF InLine
<1>3. f \in Surjection(1..y, D)
  BY <1>2 DEF Surjection
<1>4. f \in Injection(1..y, D)
  <2> SUFFICES ASSUME NEW x \in 1..y, NEW z \in 1..y, f[x] = f[z] PROVE x = z
    BY <1>3 DEF Surjection, Injection, IsInjective
  <2> HIDE DEF f, D
  <2>1. \A v, w \in 1..y : v < w => f[v] # f[w]
    <3> SUFFICES ASSUME NEW v \in 1..y, NEW w \in 1..y, v < w PROVE f[v] # f[w]
      OBVIOUS
    <3>1. e[v] \in Better(e[w])
      BY <1>2 DEF InLine
    <3>2. e[v] # e[w]
      BY <1>1, <1>2, <3>1, BetterIsStrict
    <3> QED
      BY <1>2, <3>2
  <2>2. x \in Int /\ z \in Int
    BY <1>1
  <2>3. ~(x < z) /\ ~(z < x)
    BY <2>1
  <2> QED
    BY <2>2, <2>3
<1>5. IsFiniteSet(1..y) /\ Cardinality(1..y) = y
  BY <1>1, FS_Interval
<1> HIDE DEF f, D
<1>6. Cardinality(D) = Cardinality(1..y)
  BY <1>3, <1>4, <1>5, FS_Surjection, Zenon
<1> QED
  BY <1>5, <1>6 DEF D

(* Before the one at place y of a line of everyone stand the better ones.  *)
LEMMA BetterInLine ==
  ASSUME NEW s, NEW e, InLine(e, s), Everyone(e, s), given \in Seq(Servers), NEW y \in 1..Len(s)
  PROVE  \A k : k \in Better(e[y]) <=> \E x \in 1..Len(s) : x < y /\ e[x] = k
<1>1. Len(s) \in Nat /\ DOMAIN given \subseteq Nat /\ \A x \in 1..Len(s) : e[x] \in DOMAIN given
  BY DEF InLine
<1>2. ASSUME NEW k \in Better(e[y]) PROVE \E x \in 1..Len(s) : x < y /\ e[x] = k
  <2>1. k \in DOMAIN given
    BY Zenon DEF Better
  <2>2. PICK x \in 1..Len(s) : e[x] = k
    BY <2>1, Zenon DEF Everyone
  <2>3. k # e[y] /\ e[y] \notin Better(k)
    BY <1>1, <1>2, <2>1, BetterIsStrict
  <2>4. ~(y < x)
    BY <2>2, <2>3 DEF InLine
  <2>5. x # y
    BY <2>2, <2>3
  <2> QED
    BY <1>1, <2>2, <2>4, <2>5
<1>3. ASSUME NEW x \in 1..Len(s), x < y PROVE e[x] \in Better(e[y])
  BY <1>3 DEF InLine
<1> QED
  BY <1>2, <1>3

(* What reachable hands on are the candidates, the better ones first.      *)
LEMMA ReachedAre ==
  ASSUME given \in Seq(Servers), nodes[i].kind \in Kinds \ {"id"},
         NEW r, r = Reached(nodes[i].kind, given, Range(given))
  PROVE  \E f : /\ InLine(f, r)
                /\ \A x \in 1..Len(r) : Candidate(f[x])
                /\ \A k \in DOMAIN given : Candidate(k) => \E x \in 1..Len(r) : f[x] = k
<1> DEFINE kind == nodes[i].kind
           limit == Limit[kind]
           want == Want[kind]
           T == {s \in Range(given) : s.alive}
           all == Ordered(kind, given)
           asked == FirstOf(limit, all)
           alive == Kept(asked, T)
<1>1. limit \in Nat /\ want \in Nat
  BY NodesAssumption, Zenon DEF NodesAssumption
<1>2. r = FirstOf(want, alive)
  BY Zenon DEF Reached
<1>3. PICK e : InLine(e, all) /\ Everyone(e, all)
  BY OrderedInLine
<1> HIDE DEF limit, want, all
<1>4. /\ Len(asked) \in Nat /\ Len(asked) = (IF Len(all) < limit THEN Len(all) ELSE limit)
      /\ InLine([x \in 1..Len(asked) |-> e[x]], asked)
  BY <1>1, <1>3, FirstInLine
<1> HIDE DEF asked
<1>5. PICK e1 : InLine(e1, asked) /\ \A x \in 1..Len(asked) : e1[x] = e[x]
  <2>1. \A x \in 1..Len(asked) : [z \in 1..Len(asked) |-> e[z]][x] = e[x]
    OBVIOUS
  <2> QED
    BY <1>4, <2>1
<1>6. PICK h : KeptLine(h, alive, e1, asked, T)
  BY <1>5, KeptInLine
<1> HIDE DEF alive
<1>7. /\ Len(r) \in Nat /\ Len(r) = (IF Len(alive) < want THEN Len(alive) ELSE want)
      /\ InLine([x \in 1..Len(r) |-> h[x]], r)
  BY <1>1, <1>2, <1>6, FirstInLine DEF KeptLine
<1>8. PICK f : InLine(f, r) /\ \A x \in 1..Len(r) : f[x] = h[x]
  <2>1. \A x \in 1..Len(r) : [z \in 1..Len(r) |-> h[z]][x] = h[x]
    OBVIOUS
  <2> QED
    BY <1>7, <2>1
<1>9. /\ Len(all) \in Nat /\ Len(alive) \in Nat
      /\ \A x \in 1..Len(all) : e[x] \in DOMAIN given
      /\ \A y \in 1..Len(alive) : h[y] \in DOMAIN given
  <2>1. InLine(e, all) /\ InLine(h, alive)
    BY <1>3, <1>6 DEF KeptLine
  <2> QED
    BY <2>1, LineIs
<1>10. DOMAIN given \subseteq Nat
  OBVIOUS
<1>11. ASSUME NEW x \in 1..Len(asked) PROVE x \in 1..Len(all) /\ asked[x] = given[e[x]]
  <2>1. x \in 1..Len(all)
    BY <1>4, <1>9
  <2>2. asked[x] = given[e1[x]] /\ e1[x] = e[x]
    BY <1>5 DEF InLine
  <2> QED
    BY <2>1, <2>2
(* How many are better than the one at a place of the whole line. *)
<1>12. ASSUME NEW x \in 1..Len(all) PROVE Cardinality(Better(e[x])) = x - 1
  <2>1. \A k : k \in Better(e[x]) <=> \E z \in 1..Len(all) : z < x /\ e[z] = k
    BY <1>3, BetterInLine
  <2>2. \A z \in Int : z \in 1..(x - 1) <=> (z \in 1..Len(all) /\ z < x)
    BY <1>9
  <2>3. Better(e[x]) = {e[z] : z \in 1..(x - 1)}
    <3>1. ASSUME NEW k \in Better(e[x]) PROVE k \in {e[z] : z \in 1..(x - 1)}
      <4>1. PICK z \in 1..Len(all) : z < x /\ e[z] = k
        BY <2>1
      <4>2. z \in 1..(x - 1)
        BY <2>2, <4>1
      <4> QED
        BY <4>1, <4>2
    <3>2. ASSUME NEW z \in 1..(x - 1) PROVE e[z] \in Better(e[x])
      BY <2>1, <2>2
    <3> QED
      BY <3>1, <3>2
  <2>4. x - 1 \in 0..Len(all)
    BY <1>9
  <2> QED
    BY <1>3, <2>3, <2>4, CountLine
(* An alive one that is asked stands among those that answer. *)
<1>13. ASSUME NEW x \in 1..Len(asked), given[e[x]].alive
       PROVE  \E y \in 1..Len(alive) : h[y] = e[x]
  <2>1. given[e[x]] \in T
    BY <1>9, <1>11, <1>13 DEF Range
  <2>2. asked[x] \in T /\ e1[x] = e[x]
    BY <1>5, <1>11, <2>1
  <2> QED
    BY <1>6, <2>2 DEF KeptLine
(* How many of the better ones are alive. *)
<1>14. ASSUME NEW y \in 1..Len(alive)
       PROVE  /\ \E x \in 1..Len(asked) : h[y] = e[x]
              /\ given[h[y]].alive
              /\ Cardinality({j \in Better(h[y]) : given[j].alive}) = y - 1
  <2>1. PICK x \in 1..Len(asked) : h[y] = e[x]
    BY <1>5, <1>6 DEF KeptLine
  <2>2. \A z \in 1..Len(alive) : given[h[z]].alive
    BY <1>6 DEF InLine, KeptLine
  <2>3. ASSUME NEW j \in Better(h[y]), given[j].alive PROVE j \in {h[z] : z \in 1..(y - 1)}
    <3>1. x \in 1..Len(all)
      BY <1>11
    <3>2. \A k : k \in Better(e[x]) <=> \E v \in 1..Len(all) : v < x /\ e[v] = k
      BY <1>3, <3>1, BetterInLine
    <3>3. PICK v \in 1..Len(all) : v < x /\ e[v] = j
      BY <2>1, <2>3, <3>2
    <3>4. v \in 1..Len(asked)
      BY <1>4, <1>9, <3>3
    <3>5. PICK z \in 1..Len(alive) : h[z] = j
      BY <1>13, <2>3, <3>3, <3>4
    <3>6. j # h[y] /\ h[y] \notin Better(j)
      <4>1. j \in DOMAIN given /\ h[y] \in DOMAIN given
        BY <1>9, <3>3
      <4> QED
        BY <1>10, <2>3, <4>1, BetterIsStrict
    <3>7. ~(y < z) /\ z # y
      BY <1>6, <3>5, <3>6 DEF InLine, KeptLine
    <3>8. z \in 1..(y - 1)
      BY <1>9, <3>7
    <3> QED
      BY <3>5, <3>8
  <2>4. ASSUME NEW z \in 1..(y - 1) PROVE h[z] \in Better(h[y]) /\ given[h[z]].alive
    <3>1. z \in 1..Len(alive) /\ z < y
      BY <1>9
    <3> QED
      BY <1>6, <2>2, <3>1 DEF InLine, KeptLine
  <2>5. {j \in Better(h[y]) : given[j].alive} = {h[z] : z \in 1..(y - 1)}
    BY <2>3, <2>4
  <2>6. y - 1 \in 0..Len(alive)
    BY <1>9
  <2>7. Cardinality({h[z] : z \in 1..(y - 1)}) = y - 1
    <3> DEFINE w == y - 1
    <3>1. w \in 0..Len(alive) /\ InLine(h, alive)
      BY <1>6, <2>6 DEF KeptLine
    <3> HIDE DEF w
    <3>2. Cardinality({h[z] : z \in 1..w}) = w
      BY <3>1, CountLine
    <3> QED
      BY <3>2 DEF w
  <2>8. Cardinality({j \in Better(h[y]) : given[j].alive}) = y - 1
    BY <2>5, <2>7
  <2>9. \E v \in 1..Len(asked) : h[y] = e[v]
    BY <2>1
  <2> QED
    BY <2>2, <2>8, <2>9, Zenon
<1>15. ASSUME NEW x \in 1..Len(r) PROVE Candidate(f[x])
  <2>1. x \in 1..Len(alive) /\ f[x] = h[x] /\ x - 1 < want
    <3>1. Len(r) \in Nat /\ Len(alive) \in Nat /\ Len(r) = (IF Len(alive) < want THEN Len(alive) ELSE want)
      BY <1>7, <1>9
    <3>2. f[x] = h[x]
      BY <1>8
    <3> QED
      BY <1>1, <3>1, <3>2
  <2>2. PICK v \in 1..Len(asked) : h[x] = e[v]
    BY <1>14, <2>1
  <2>3. Cardinality(Better(h[x])) = v - 1 /\ v - 1 < limit
    BY <1>1, <1>4, <1>9, <1>11, <1>12, <2>2
  <2>4. given[h[x]].alive /\ Cardinality({j \in Better(h[x]) : given[j].alive}) = x - 1
    BY <1>14, <2>1
  <2> QED
    BY <2>1, <2>3, <2>4 DEF Candidate, limit, want
<1>16. ASSUME NEW k \in DOMAIN given, Candidate(k) PROVE \E x \in 1..Len(r) : f[x] = k
  <2>1. /\ given[k].alive /\ Cardinality(Better(k)) < limit
        /\ Cardinality({j \in Better(k) : given[j].alive}) < want
    BY <1>16 DEF Candidate, limit, want
  <2>2. PICK x \in 1..Len(all) : e[x] = k
    BY <1>3 DEF Everyone
  <2>3. x - 1 < limit
    BY <1>12, <2>1, <2>2
  <2>4. x \in 1..Len(asked)
    BY <1>1, <1>4, <1>9, <2>3
  <2>5. PICK y \in 1..Len(alive) : h[y] = k
    BY <1>13, <2>1, <2>2, <2>4
  <2>6. y - 1 < want
    BY <1>14, <2>1, <2>5
  <2>7. y \in 1..Len(r)
    BY <1>1, <1>7, <1>9, <2>6
  <2> QED
    BY <1>8, <2>5, <2>7
<1> QED
  BY <1>8, <1>15, <1>16

(* c is what is left to try: candidates, the better ones first, and with   *)
(* every one among them that works.  Only one asked for by its ID may be   *)
(* dead.                                                                   *)
Queue(c) ==
  \E f : /\ InLine(f, c)
         /\ \A x \in 1..Len(c) : given[f[x]].alive => Candidate(f[x])
         /\ \A k \in Working : \E x \in 1..Len(c) : f[x] = k

Trying == {"try", "ping", "endpoints", "upload", "download"}

QueueInv ==
  /\ given \in Seq(Servers)
  /\ pc \in {"byID", "fetch", "pause", "list"} => given = <<>>
  /\ pc \in {"fetch", "pause", "list", "reach"} => nodes[i].kind # "id"
  /\ pc = "byID" => nodes[i].kind = "id"
  /\ pc \in Trying /\ ~NodeEnded =>
       /\ Queue(candidates)
       /\ pc # "try" => candidates # <<>>
       /\ pc \in {"endpoints", "upload", "download"} => Head(candidates).alive

LEMMA QueueInit == Init => QueueInv
BY DEF Init, QueueInv, Trying

LEMMA SameQueue ==
  ASSUME Queue(candidates'), UNCHANGED <<given, nodes, i>>
  PROVE  Queue(candidates)'
<1>1. \A k : Better(k)' = Better(k)
  BY DEF Better, Rank
<1>2. \A k : Candidate(k)' <=> Candidate(k)
  BY <1>1 DEF Candidate
<1>3. Working' = Working
  BY <1>2 DEF Working
<1>4. \A f : InLine(f, candidates') => InLine(f, candidates)'
  BY <1>1 DEF InLine
<1> QED
  BY <1>2, <1>3, <1>4 DEF Queue

(* The first of the queue is no good. *)
LEMMA TailQueue ==
  ASSUME given \in Seq(Servers), NEW c, Queue(c), c # <<>>,
         Head(c).alive => Head(c).fault # "none"
  PROVE  Queue(Tail(c))
<1>1. PICK f : /\ InLine(f, c)
               /\ \A x \in 1..Len(c) : given[f[x]].alive => Candidate(f[x])
               /\ \A k \in Working : \E x \in 1..Len(c) : f[x] = k
  BY DEF Queue
<1> DEFINE t == Tail(c)
           g == [x \in 1..Len(t) |-> f[x + 1]]
<1>2. c \in Seq(Servers) /\ \A x \in 1..Len(c) : f[x] \in DOMAIN given /\ c[x] = given[f[x]]
  BY <1>1 DEF InLine
<1>3. /\ t \in Seq(Servers) /\ Len(t) \in Nat /\ Len(c) = Len(t) + 1 /\ Head(c) = c[1]
      /\ \A x \in 1..Len(t) : t[x] = c[x + 1]
  BY <1>2
<1> HIDE DEF t
<1>4. \A x \in 1..Len(t) : g[x] = f[x + 1] /\ x + 1 \in 1..Len(c)
  BY <1>3
<1>5. g \in [1..Len(t) -> DOMAIN given]
  BY <1>2, <1>4
<1> HIDE DEF g
<1>6. InLine(g, t)
  <2>1. \A x \in 1..Len(t) : t[x] = given[g[x]]
    BY <1>2, <1>3, <1>4
  <2>2. ASSUME NEW x \in 1..Len(t), NEW y \in 1..Len(t), x < y PROVE g[x] \in Better(g[y])
    <3>1. x + 1 < y + 1
      BY <1>3, <2>2
    <3> QED
      BY <1>1, <1>4, <3>1 DEF InLine
  <2> QED
    BY <1>3, <1>5, <2>1, <2>2 DEF InLine
<1>7. \A x \in 1..Len(t) : given[g[x]].alive => Candidate(g[x])
  BY <1>1, <1>4
<1>8. ASSUME NEW k \in Working PROVE \E x \in 1..Len(t) : g[x] = k
  <2>1. PICK x \in 1..Len(c) : f[x] = k
    BY <1>1
  <2>2. given[k].alive /\ given[k].fault = "none"
    BY DEF Working, Candidate
  <2>3. x # 1
    BY <1>2, <1>3, <2>1, <2>2
  <2>4. x - 1 \in 1..Len(t) /\ (x - 1) + 1 = x
    BY <1>3, <2>3
  <2>5. g[x - 1] = k
    BY <1>4, <2>1, <2>4
  <2> QED
    BY <2>4, <2>5
<1>9. Queue(t)
  BY <1>6, <1>7, <1>8 DEF Queue
<1> QED
  BY <1>9 DEF t

(* A server asked for by its ID is alone, dead or alive. *)
LEMMA OneQueue ==
  ASSUME NEW s \in Servers, given' = <<s>>, nodes'[i'].kind = "id"
  PROVE  Queue(<<s>>)'
<1> DEFINE f == [x \in 1..1 |-> 1]
           c == <<s>>
<1>1. c \in Seq(Servers) /\ Len(c) = 1 /\ DOMAIN c = 1..1 /\ c[1] = s
  OBVIOUS
<1>2. given' = c
  OBVIOUS
<1>3. \A x \in 1..1 : x = 1
  OBVIOUS
<1>4. f \in [1..1 -> 1..1] /\ f[1] = 1
  OBVIOUS
<1> HIDE DEF f, c
<1>5. InLine(f, c)'
  BY <1>1, <1>2, <1>3, <1>4 DEF InLine
<1>6. \A x \in 1..1 : given'[f[x]].alive => Candidate(f[x])'
  BY <1>2, <1>3, <1>4 DEF Candidate
<1>7. \A k \in Working' : \E x \in 1..1 : f[x] = k
  BY <1>1, <1>2, <1>3, <1>4 DEF Working
<1>8. Queue(c)'
  BY <1>1, <1>5, <1>6, <1>7 DEF Queue
<1> QED
  BY <1>8 DEF c

(* The time of a node that is over does not come back. *)
LEMMA SameTime ==
  ASSUME UNCHANGED <<now, interrupted, begun>>
  PROVE  NodeEnded' = NodeEnded
BY DEF NodeEnded, Ended

(* Nobody is dropped from the queue without having been tried.             *)
LEMMA TryingStep ==
  ASSUME QueueInv, pc \in Trying, pc' \in Trying,
         UNCHANGED <<now, interrupted, begun, given, nodes, i>>,
         ~NodeEnded =>
           \/ /\ candidates' = candidates
              /\ pc' # "try" => candidates # <<>>
              /\ pc' \in {"endpoints", "upload", "download"} => Head(candidates).alive
           \/ /\ pc # "try" /\ pc' = "try" /\ candidates' = Tail(candidates)
              /\ Head(candidates).alive => Head(candidates).fault # "none"
  PROVE  QueueInv'
<1>1. given' \in Seq(Servers)
  BY DEF QueueInv
<1>2. pc' \notin {"byID", "fetch", "pause", "list", "reach"}
  BY DEF Trying
<1>3. ASSUME ~NodeEnded'
      PROVE  /\ Queue(candidates)'
             /\ pc' # "try" => candidates' # <<>>
             /\ pc' \in {"endpoints", "upload", "download"} => Head(candidates').alive
  <2>1. ~NodeEnded
    BY <1>3, SameTime
  <2>2. Queue(candidates) /\ (pc # "try" => candidates # <<>>)
    BY <2>1 DEF QueueInv
  <2>3. CASE /\ candidates' = candidates
             /\ pc' # "try" => candidates # <<>>
             /\ pc' \in {"endpoints", "upload", "download"} => Head(candidates).alive
    <3>1. Queue(candidates)'
      BY <2>2, <2>3, SameQueue
    <3> QED
      BY <2>3, <3>1
  <2>4. CASE /\ pc # "try" /\ pc' = "try" /\ candidates' = Tail(candidates)
             /\ Head(candidates).alive => Head(candidates).fault # "none"
    <3>1. Queue(Tail(candidates))
      BY <2>2, <2>4, TailQueue DEF QueueInv
    <3>2. Queue(candidates)'
      BY <2>4, <3>1, SameQueue
    <3> QED
      BY <2>4, <3>2
  <2> QED
    BY <2>1, <2>3, <2>4
<1> QED
  BY <1>1, <1>2, <1>3 DEF QueueInv

LEMMA MeasureQueue ==
  ASSUME TableInv, QueueInv, MeasureNode, pc' # "loop"
  PROVE  QueueInv'
<1> DEFINE Same == UNCHANGED <<now, interrupted, begun, given, nodes, i>>
           Kept1 == /\ candidates' = candidates
                    /\ pc' # "try" => candidates # <<>>
                    /\ pc' \in {"endpoints", "upload", "download"} => Head(candidates).alive
           Dropped == /\ pc # "try" /\ pc' = "try" /\ candidates' = Tail(candidates)
                      /\ Head(candidates).alive => Head(candidates).fault # "none"
<1>1. pc \in Trying /\ pc' \in Trying /\ Same /\ (~NodeEnded => Kept1 \/ Dropped)
  <2>1. CASE Try
    BY <2>1 DEF Try, Row, Trying, clock
  <2>2. CASE Ping
    BY <2>2 DEF Ping, SkipServer, NextTry, Fault, QueueInv, Trying, clock
  <2>3. CASE Endpoints
    BY <2>3 DEF Endpoints, SkipServer, NextTry, Fault, QueueInv, Trying, clock
  <2>4. CASE Upload
    BY <2>4 DEF Upload, SkipServer, NextTry, Fault, QueueInv, Trying, clock
  <2>5. CASE Download
    BY <2>5 DEF Download, SkipServer, NextTry, Row, Fault, QueueInv, Trying, clock
  <2> HIDE DEF Same, Kept1, Dropped
  <2> QED
    BY <2>1, <2>2, <2>3, <2>4, <2>5 DEF MeasureNode
<1> QED
  BY <1>1, TryingStep

(* The servers are those reachable picked, or the one of an ID.            *)
LEMMA PickQueue ==
  ASSUME TableInv, QueueInv, PickServers, pc' # "loop"
  PROVE  QueueInv'
<1>1. ASSUME NEW answered, Reach(answered) PROVE QueueInv'
  <2> DEFINE picked == Reached(nodes[i].kind, given, answered)
  <2>1. /\ pc = "reach" /\ pc' = "try" /\ candidates' = picked
        /\ UNCHANGED <<now, interrupted, begun, given, nodes, i>>
        /\ NodeEnded \/ answered = Range(given)
    BY <1>1 DEF Reach, NextTry, Row, clock
  <2>2. nodes[i].kind \in Kinds \ {"id"} /\ given \in Seq(Servers)
    <3>1. i \in 1..Len(nodes) /\ nodes \in Seq(Node)
      BY <2>1 DEF TableInv, TableTypes, Placed, Inside
    <3>2. nodes[i] \in Node
      BY <3>1
    <3> QED
      BY <2>1, <3>2 DEF Node, QueueInv
  <2> HIDE DEF picked
  <2>3. ASSUME ~NodeEnded PROVE Queue(candidates)'
    <3>1. picked = Reached(nodes[i].kind, given, Range(given))
      BY <2>1, <2>3 DEF picked
    <3>2. Queue(picked)
      <4>1. PICK f : /\ InLine(f, picked)
                     /\ \A x \in 1..Len(picked) : Candidate(f[x])
                     /\ \A k \in DOMAIN given : Candidate(k) => \E x \in 1..Len(picked) : f[x] = k
        BY <2>2, <3>1, ReachedAre
      <4> QED
        BY <4>1 DEF Queue, Working
    <3> QED
      BY <2>1, <3>2, SameQueue
  <2>4. ~NodeEnded' => ~NodeEnded
    BY <2>1, SameTime
  <2> QED
    BY <2>1, <2>3, <2>4 DEF QueueInv
<1>2. ASSUME NEW list \in Lists, ByID(list) PROVE QueueInv'
  <2> DEFINE c == <<Head(list)>>
  <2>1. /\ pc = "byID" /\ pc' = "try" /\ candidates' = c /\ given' = c /\ list # <<>>
        /\ UNCHANGED <<nodes, i>>
    BY <1>2 DEF ByID, NextTry, Row, clock
  <2>2. Head(list) \in Servers
    <3>1. list \in Seq(Servers)
      BY NodesAssumption DEF NodesAssumption
    <3> QED
      BY <2>1, <3>1
  <2>3. c \in Seq(Servers)
    BY <2>2
  <2>4. nodes'[i'].kind = "id"
    BY <2>1 DEF QueueInv
  <2>5. Queue(c)'
    BY <2>1, <2>2, <2>4, OneQueue
  <2> HIDE DEF c
  <2>6. Queue(candidates)'
    BY <2>1, <2>5
  <2> QED
    BY <2>1, <2>3, <2>6 DEF QueueInv
<1> QED
  BY <1>1, <1>2 DEF PickServers

LEMMA OtherQueue ==
  ASSUME TableInv, QueueInv,
         \/ Resolve \/ UserInfo \/ Loop \/ FetchList \/ CfSpeedtest
         \/ Tick \/ Interrupt \/ UNCHANGED vars
  PROVE  QueueInv'
<1>1. CASE Resolve \/ UserInfo
  BY <1>1 DEF Resolve, UserInfo, Return, nodeVars, QueueInv, Trying
<1>2. CASE Loop
  <2>1. given' = given \/ given' = <<>>
    BY <1>2 DEF Loop, nodeVars
  <2>2. <<>> \in Seq(Servers)
    OBVIOUS
  <2>3. \/ pc' = "done"
        \/ /\ given' = <<>> /\ nodes' = nodes /\ i' = i
           /\ (pc' = "byID" /\ nodes[i].kind = "id") \/ (pc' = "fetch" /\ nodes[i].kind # "id")
    BY <1>2 DEF Loop, Return, nodeVars
  <2> QED
    BY <2>1, <2>2, <2>3 DEF QueueInv, Trying
<1>3. CASE FetchList
  <2>1. CASE PauseCut \/ GiveUp
    BY <2>1 DEF PauseCut, GiveUp, Row, QueueInv, Trying
  <2>2. CASE Attempt \/ AskList \/ ListRefused
    BY <2>2 DEF Attempt, AskList, ListRefused, nodeVars, QueueInv, Trying
  <2>3. ASSUME NEW list \in Lists, GotList(list) PROVE QueueInv'
    <3>1. list \in Seq(Servers)
      BY NodesAssumption DEF NodesAssumption
    <3>2. given' \in Targets(nodes[i].kind, list)
      BY <2>3 DEF GotList
    <3>3. \A s \in Range(list) : <<s>> \in Seq(Servers)
      BY <3>1 DEF Range
    <3>4. given' \in Seq(Servers)
      BY <3>1, <3>2, <3>3 DEF Targets
    <3> QED
      BY <2>3, <3>4 DEF GotList, QueueInv, Trying
  <2> QED
    BY <1>3, <2>1, <2>2, <2>3 DEF FetchList
<1>4. CASE CfSpeedtest
  <2>1. given' = given /\ pc' \in CfPlaces \cup {"done"}
    BY <1>4 DEF CfSpeedtest, Cloudflare, CfEdge, CfLatency, CfLatencyOver, CfDownload, CfUpload,
           cfRest, Return, CfPlaces
  <2> QED
    BY <2>1 DEF QueueInv, Trying, CfPlaces
<1>5. CASE Tick \/ Interrupt \/ UNCHANGED vars
  <2>1. UNCHANGED <<pc, given, nodes, i, candidates, begun>>
    BY <1>5 DEF Tick, Interrupt, vars, nodeVars
  <2>2. NodeEnded => NodeEnded'
    <3>1. now \in Nat /\ (now' = now \/ now' = now + 1) /\ (interrupted => interrupted')
      BY <1>5 DEF Tick, Interrupt, vars, TableInv, TableTypes
    <3>2. TestTimeout \in Nat /\ NodeTimeout \in Nat /\ begun \in Nat
      BY ConstantsHold DEF Constants, TableInv, TableTypes
    <3> QED
      BY <2>1, <3>1, <3>2 DEF NodeEnded, Ended
  <2>3. Queue(candidates) => Queue(candidates)'
    BY <2>1, SameQueue
  <2> QED
    BY <2>1, <2>2, <2>3 DEF QueueInv
<1> QED
  BY <1>1, <1>2, <1>3, <1>4, <1>5

LEMMA RowQueue ==
  ASSUME QueueInv, PickServers \/ MeasureNode, pc' = "loop"
  PROVE  QueueInv'
<1>1. given' = given
  BY DEF PickServers, Reach, ByID, NextTry, MeasureNode, Try, Ping, Endpoints, Upload, Download
<1> QED
  BY <1>1 DEF QueueInv, Trying

LEMMA QueueStep == TableInv /\ QueueInv /\ [Next]_vars => QueueInv'
BY MeasureQueue, PickQueue, OtherQueue, RowQueue DEF Next, Main

(* What the row of a node whose time is not over has to say.               *)
Best(server) ==
  \/ Working = {} /\ server = NoServer
  \/ \E k \in Working : Working \cap Better(k) = {} /\ server = given[k]

LEMMA NobodyWorks ==
  ASSUME given = <<>> \/ Queue(<<>>)
  PROVE  Best(Failed.server)
<1>1. Failed.server = NoServer
  BY DEF Failed
<1>2. CASE given = <<>>
  <2>1. DOMAIN given = {}
    BY <1>2
  <2> QED
    BY <1>1, <2>1 DEF Best, Working
<1>3. CASE Queue(<<>>)
  <2>1. 1..Len(<<>>) = {}
    OBVIOUS
  <2>2. Working = {}
    BY <1>3, <2>1 DEF Queue
  <2> QED
    BY <1>1, <2>2 DEF Best
<1> QED
  BY <1>2, <1>3

(* The first of the queue works: no better one does. *)
LEMMA FirstIsBest ==
  ASSUME given \in Seq(Servers), Queue(candidates), candidates # <<>>,
         Head(candidates).alive, Head(candidates).fault = "none"
  PROVE  Best(Head(candidates))
<1>1. PICK f : /\ InLine(f, candidates)
               /\ \A x \in 1..Len(candidates) : given[f[x]].alive => Candidate(f[x])
               /\ \A k \in Working : \E x \in 1..Len(candidates) : f[x] = k
  BY DEF Queue
<1>2. candidates \in Seq(Servers) /\ Len(candidates) \in Nat /\ DOMAIN given \subseteq Nat
  BY <1>1 DEF InLine
<1>3. 1 \in 1..Len(candidates) /\ Head(candidates) = candidates[1]
  BY <1>2
<1>4. f[1] \in DOMAIN given /\ candidates[1] = given[f[1]]
  BY <1>1, <1>3, LineIs
<1>5. f[1] \in Working
  BY <1>1, <1>3, <1>4 DEF Working
<1>6. ASSUME NEW k \in Working, k \in Better(f[1]) PROVE FALSE
  <2>1. PICK x \in 1..Len(candidates) : f[x] = k
    BY <1>1
  <2>2. k \in DOMAIN given
    BY DEF Working
  <2>3. f[1] \notin Better(k) /\ k # f[1]
    BY <1>2, <1>4, <1>6, <2>2, BetterIsStrict
  <2>4. ~(1 < x) /\ x # 1
    BY <1>1, <1>3, <2>1, <2>3 DEF InLine
  <2> QED
    BY <1>2, <2>4
<1> QED
  BY <1>3, <1>4, <1>5, <1>6 DEF Best

(* Each row that is written in time is such a row. *)
LEMMA RowIsBest ==
  ASSUME TableInv, QueueInv, [Next]_vars, rows' # rows, nodes # <<>>, ~NodeEnded
  PROVE  \E r : rows' = Append(rows, r) /\ Best(r.server)
<1> DEFINE Fails == rows' = Append(rows, Failed) /\ Best(Failed.server)
<1>1. CASE FetchList
  <2>1. CASE GiveUp
    BY <2>1, NobodyWorks DEF GiveUp, Row, QueueInv
  <2>2. ~(Attempt \/ AskList \/ PauseCut \/ ListRefused \/ \E list \in Lists : GotList(list))
    BY DEF Attempt, AskList, PauseCut, ListRefused, GotList
  <2> QED
    BY <1>1, <2>1, <2>2 DEF FetchList
<1>2. ASSUME NEW answered, Reach(answered) PROVE Fails
  <2> DEFINE picked == Reached(nodes[i].kind, given, answered)
  <2>1. /\ pc = "reach" /\ picked = <<>> /\ rows' = Append(rows, Failed)
        /\ answered = Range(given)
    BY <1>2 DEF Reach, Row
  <2>2. nodes[i].kind \in Kinds \ {"id"} /\ given \in Seq(Servers)
    <3>1. i \in 1..Len(nodes) /\ nodes \in Seq(Node)
      BY <2>1 DEF TableInv, TableTypes, Placed, Inside
    <3>2. nodes[i] \in Node
      BY <3>1
    <3> QED
      BY <2>1, <3>2 DEF Node, QueueInv
  <2>3. picked = Reached(nodes[i].kind, given, Range(given))
    BY <2>1
  <2> HIDE DEF picked
  <2>4. PICK f : /\ InLine(f, picked)
                 /\ \A x \in 1..Len(picked) : Candidate(f[x])
                 /\ \A k \in DOMAIN given : Candidate(k) => \E x \in 1..Len(picked) : f[x] = k
    BY <2>2, <2>3, ReachedAre
  <2>5. Queue(picked)
    BY <2>4 DEF Queue, Working
  <2> QED
    BY <2>1, <2>5, NobodyWorks
<1>3. ASSUME NEW list, ByID(list) PROVE Fails
  BY <1>3, NobodyWorks DEF ByID, Row, QueueInv
<1>4. CASE Try
  <2>1. pc = "try" /\ candidates = <<>> /\ rows' = Append(rows, Failed)
    BY <1>4 DEF Try, Row
  <2>2. Queue(<<>>)
    BY <2>1 DEF QueueInv, Trying
  <2> QED
    BY <2>1, <2>2, NobodyWorks
<1>5. CASE Download
  <2> DEFINE s == Head(candidates)
  <2>1. pc = "download" /\ s.fault = "none" /\ rows' = Append(rows, Measured(s))
    BY <1>5 DEF Download, Row, Fault
  <2>2. Measured(s).server = s
    BY DEF Measured
  <2>3. given \in Seq(Servers) /\ Queue(candidates) /\ candidates # <<>> /\ s.alive
    BY <2>1 DEF QueueInv, Trying
  <2>4. Best(s)
    BY <2>1, <2>3, FirstIsBest
  <2> QED
    BY <2>1, <2>2, <2>4
<1>6. ~(Ping \/ Endpoints \/ Upload \/ Resolve \/ UserInfo \/ Loop \/ Tick \/ Interrupt \/ UNCHANGED vars)
  BY DEF Ping, Endpoints, Upload, Resolve, UserInfo, Loop, Tick, Interrupt, vars
<1>7. ~CfSpeedtest
  <2>1. pc \notin CfPlaces \cup {"resolve"}
    BY DEF TableInv, Placed
  <2> QED
    BY <2>1 DEF CfSpeedtest, Cloudflare, CfEdge, CfLatency, CfLatencyOver, CfDownload, CfUpload, CfPlaces
<1> HIDE DEF Fails
<1>8. Fails => \E r : rows' = Append(rows, r) /\ Best(r.server)
  BY DEF Fails
<1> QED
  BY <1>1, <1>2, <1>3, <1>4, <1>5, <1>6, <1>7, <1>8 DEF Next, Main, PickServers, MeasureNode

(* The row of a node names the best server that works, for all lists of    *)
(* servers, limits and faults, or none when none of the candidates works.  *)
THEOREM NodesFailAfterAll == Spec => FailedAfterAll
<1>1. ASSUME TableInv, QueueInv, [Next]_vars, rows' # rows, nodes # <<>>, ~NodeEnded
      PROVE  LET server == rows'[Len(rows')].server IN
               \/ Working = {} /\ server = NoServer
               \/ \E k \in Working : Working \cap Better(k) = {} /\ server = given[k]
  <2>1. PICK r : rows' = Append(rows, r) /\ Best(r.server)
    BY <1>1, RowIsBest
  <2>2. PICK S : rows \in Seq(S)
    BY <1>1 DEF TableInv, Listed
  <2>3. rows \in Seq(S \cup {r}) /\ r \in S \cup {r}
    BY <2>2
  <2>4. rows'[Len(rows')] = r
    BY <2>1, <2>3
  <2> QED
    BY <2>1, <2>4 DEF Best
<1>2. TableInv /\ QueueInv /\ [Next]_vars =>
        [(rows' # rows /\ nodes # <<>> /\ ~NodeEnded) =>
           LET server == rows'[Len(rows')].server IN
             \/ Working = {} /\ server = NoServer
             \/ \E k \in Working : Working \cap Better(k) = {} /\ server = given[k]]_vars
  BY <1>1
<1> QED
  BY <1>2, TableInit, TableStep, QueueInit, QueueStep, PTL DEF Spec, FailedAfterAll

=============================================================================
