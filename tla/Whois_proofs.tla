---------------------------- MODULE Whois_proofs ----------------------------
(***************************************************************************)
(* What Lookup keeps of the sources it asks, for every set of pages and    *)
(* answers, every referral between servers and every request that fails.   *)
(***************************************************************************)
EXTENDS Whois, WellFoundedInduction, TLAPS

(* What stands in the sources when the chain begins. *)
OfPage == IF page = NoPage THEN <<>> ELSE <<"whois.com">>

Part == [server : Hosts, lines : Texts]

(* Nothing has been asked on port 43, and no page was read before "site". *)
Before ==
  /\ at \in {"normalize", "refused", "site", "root"} =>
       asked = <<>> /\ parts = <<>> /\ "port43" \notin notes /\ sources = OfPage
  /\ at \in {"normalize", "refused", "site"} => page = NoPage /\ info = NoInfo /\ notes = {}

(* The next server is one that was not asked, and there is room for it.    *)
Chain ==
  at = "chain" =>
    /\ Len(asked) < MaxHops /\ server \in Hosts /\ FreshServer(server, asked)
    /\ "port43" \notin notes /\ sources = OfPage
    /\ Len(parts) = Len(asked)

Chained ==
  at \in {"dns", "report", "error"} =>
    /\ sources = OfPage \o Servers(parts)
    /\ asked # <<>> => ("port43" \in notes) = (parts = <<>>)

Heads ==
  /\ asked \in Seq(Hosts) /\ Len(asked) <= MaxHops /\ IsInjective(asked)
  /\ parts \in Seq(Part)

ChainInv == Heads /\ Before /\ Chain /\ Chained

LEMMA ReferIs == ASSUME NEW text PROVE Refer(text) \in Hosts \cup {""}
BY DEF Refer

LEMMA AppendFresh ==
  ASSUME NEW s \in Hosts, asked \in Seq(Hosts), IsInjective(asked), FreshServer(s, asked)
  PROVE  /\ Append(asked, s) \in Seq(Hosts) /\ Len(Append(asked, s)) = Len(asked) + 1
         /\ IsInjective(Append(asked, s)) /\ Append(asked, s) # <<>>
<1> DEFINE q == Append(asked, s)
<1>1. /\ q \in Seq(Hosts) /\ Len(q) = Len(asked) + 1 /\ Len(asked) \in Nat
      /\ DOMAIN q = 1..(Len(asked) + 1) /\ DOMAIN asked = 1..Len(asked)
      /\ q[Len(asked) + 1] = s
      /\ \A k \in 1..Len(asked) : q[k] = asked[k]
  OBVIOUS
<1> HIDE DEF q
<1>2. \A k \in 1..Len(asked) : asked[k] # s
  BY <1>1 DEF FreshServer, ToSet
<1>3. ASSUME NEW a \in DOMAIN q, NEW b \in DOMAIN q, q[a] = q[b] PROVE a = b
  <2>1. (a \in 1..Len(asked) \/ a = Len(asked) + 1) /\ (b \in 1..Len(asked) \/ b = Len(asked) + 1)
    BY <1>1
  <2> QED
    BY <1>1, <1>2, <1>3, <2>1 DEF IsInjective
<1>4. IsInjective(q)
  BY <1>3 DEF IsInjective
<1>5. q # <<>>
  BY <1>1
<1> QED
  BY <1>1, <1>4, <1>5 DEF q

LEMMA ServersOf ==
  ASSUME NEW p \in Seq(Part)
  PROVE  /\ Servers(p) \in Seq(Hosts)
         /\ p = <<>> => Servers(p) = <<>>
<1>0. DOMAIN p = 1..Len(p) /\ Len(p) \in Nat /\ \A k \in 1..Len(p) : p[k] \in Part
  OBVIOUS
<1>1. DOMAIN p = 1..Len(p) /\ Len(p) \in Nat /\ \A k \in 1..Len(p) : p[k].server \in Hosts
  BY <1>0 DEF Part
<1>2. Servers(p) = [k \in 1..Len(p) |-> p[k].server]
  BY <1>1 DEF Servers
<1>3. [k \in 1..Len(p) |-> p[k].server] \in Seq(Hosts)
  BY <1>1
<1>4. ASSUME p = <<>> PROVE Servers(p) = <<>>
  <2>1. Servers(p) \in Seq(Hosts) /\ DOMAIN Servers(p) = {}
    BY <1>1, <1>2, <1>3, <1>4
  <2> QED
    BY <2>1
<1> QED
  BY <1>2, <1>3, <1>4

LEMMA OfPageIs == OfPage \o <<>> = OfPage
<1>1. <<"whois.com">> \in Seq({"whois.com"}) /\ <<>> \in Seq({"whois.com"})
  OBVIOUS
<1>2. \A q \in Seq({"whois.com"}) : q \o <<>> = q
  OBVIOUS
<1> QED
  BY <1>1, <1>2 DEF OfPage

LEMMA NobodyAsked == \A s : FreshServer(s, <<>>)
<1>1. DOMAIN <<>> = {}
  OBVIOUS
<1> QED
  BY <1>1 DEF FreshServer, ToSet

LEMMA ChainInit == Init => ChainInv
<1> SUFFICES ASSUME Init PROVE ChainInv
  OBVIOUS
<1>1. <<>> \in Seq(Hosts) /\ <<>> \in Seq(Part) /\ Len(<<>>) = 0 /\ IsInjective(<<>>)
  BY DEF IsInjective
<1>2. Heads
  <2>1. asked = <<>> /\ parts = <<>>
    BY DEF Init
  <2> QED
    BY <1>1, <2>1 DEF Heads, MaxHops
<1> QED
  BY <1>1, <1>2 DEF Init, ChainInv, Before, Chain, Chained, OfPage

(* Before the chain begins there is nothing in it. *)
LEMMA EntryStep ==
  ASSUME ChainInv, Normalize \/ SiteFails \/ (\E p \in Pages : Site(p)) \/ RootFails
  PROVE  ChainInv'
<1> USE DEF ChainInv
<1>1. Heads'
  BY DEF Normalize, SiteFails, Site, RootFails, chain, Heads
<1>2. UNCHANGED <<asked, parts>> /\ asked = <<>> /\ parts = <<>> /\ Servers(parts) = <<>>
  BY ServersOf DEF Normalize, SiteFails, Site, RootFails, chain, Before, Heads
<1>3. CASE Normalize
  BY <1>2, <1>3, <1>1 DEF Normalize, Before, Chain, Chained, OfPage
<1>4. CASE SiteFails
  <2>1. page' = page /\ sources' = sources /\ page = NoPage /\ sources = <<>> /\ notes = {}
    BY <1>4 DEF SiteFails, Before, OfPage
  <2>2. at' \in {"root", "dns"} /\ notes' = {"whois.com"}
    BY <1>4, <2>1 DEF SiteFails, AfterSite
  <2>3. <<>> \o <<>> = <<>>
    OBVIOUS
  <2> QED
    BY <1>1, <1>2, <2>1, <2>2, <2>3 DEF Before, Chain, Chained, OfPage, Servers
<1>5. ASSUME NEW p \in Pages, Site(p) PROVE ChainInv'
  <2>1. page' = p /\ sources = <<>> /\ sources' = Append(sources, "whois.com") /\ notes = {} /\ notes' = notes
    BY <1>5 DEF Site, Before, OfPage
  <2>2. at' \in {"root", "dns"}
    BY <1>5 DEF Site, AfterSite
  <2>3. p # NoPage
    BY <1>5 DEF Site, PageFails, NoPage
  <2>4. sources' = <<"whois.com">> /\ <<"whois.com">> \o <<>> = <<"whois.com">>
    BY <2>1
  <2> QED
    BY <1>1, <1>2, <2>1, <2>2, <2>3, <2>4 DEF Before, Chain, Chained, OfPage, Servers
<1>6. CASE RootFails
  <2>2. OfPage \o <<>> = OfPage
    BY OfPageIs
  <2>3. /\ sources' = sources /\ page' = page /\ sources = OfPage
        /\ at' = "dns"
    BY <1>6 DEF RootFails, ChainFails, Before
  <2> QED
    BY <1>1, <1>2, <2>2, <2>3 DEF Before, Chain, Chained, OfPage, Servers
<1> QED
  BY <1>3, <1>4, <1>5, <1>6

LEMMA RootStep ==
  ASSUME ChainInv, NEW text \in Texts, Root(text)
  PROVE  ChainInv'
<1>1. /\ at = "root" /\ at' = "chain"
      /\ UNCHANGED <<sources, notes, asked, parts, page>>
      /\ server' \in Hosts
  BY ReferIs, WhoisAssumption DEF Root
<1>2. asked = <<>> /\ parts = <<>> /\ "port43" \notin notes /\ sources = OfPage
  BY <1>1 DEF ChainInv, Before
<1>3. FreshServer(server', asked)
  BY <1>2, NobodyAsked
<1>4. Len(asked') = 0 /\ Len(parts') = 0
  BY <1>1, <1>2
<1> QED
  BY <1>1, <1>2, <1>3, <1>4 DEF ChainInv, Heads, Before, Chain, Chained, OfPage, FreshServer, MaxHops

LEMMA AnsweredStep ==
  ASSUME ChainInv, NEW text \in Texts, Answered(text)
  PROVE  ChainInv'
<1> DEFINE part == [server |-> server, lines |-> text]
<1>1. /\ server \in Hosts /\ FreshServer(server, asked) /\ Len(asked) < MaxHops
      /\ asked \in Seq(Hosts) /\ IsInjective(asked)
  BY DEF Answered, ChainInv, Chain, Heads
<1>2. /\ at = "chain" /\ sources = OfPage /\ "port43" \notin notes
      /\ Len(parts) = Len(asked) /\ parts \in Seq(Part)
  BY DEF Answered, ChainInv, Chain, Heads
<1>3. part \in Part
  BY <1>1 DEF Part
<1> HIDE DEF part
<1>4. asked' = Append(asked, server)
  BY DEF Answered
<1>5. parts' = Append(parts, part)
  BY DEF Answered, part
<1>6. page' = page /\ server' \in Hosts \cup {""}
  BY ReferIs DEF Answered
<1>7. /\ asked' \in Seq(Hosts) /\ Len(asked') = Len(asked) + 1 /\ Len(asked) \in Nat
      /\ IsInjective(asked') /\ asked' # <<>>
  BY <1>1, <1>4, AppendFresh
<1>8. parts' \in Seq(Part) /\ Len(parts') = Len(parts) + 1 /\ parts' # <<>>
  BY <1>2, <1>3, <1>5
<1>9. Heads'
  BY <1>1, <1>7, <1>8 DEF Heads, MaxHops
<1>10. CASE Onward(server', asked')
  <2>1. UNCHANGED <<at, info, sources, notes>>
    BY <1>10 DEF Answered
  <2> QED
    BY <1>2, <1>6, <1>7, <1>8, <1>9, <1>10, <2>1
       DEF ChainInv, Before, Chain, Chained, OfPage, Onward, MaxHops
<1>11. CASE ~Onward(server', asked')
  <2>1. /\ at' = "dns" /\ notes' = notes
        /\ sources' = sources \o [k \in DOMAIN parts' |-> parts'[k].server]
    BY <1>11 DEF Answered, ChainEnds
  <2>2. sources' = OfPage' \o Servers(parts')
    BY <1>2, <1>6, <2>1 DEF Servers, OfPage
  <2>3. Chained'
    <3>1. ("port43" \in notes') = (parts' = <<>>)
      BY <1>2, <1>8, <2>1
    <3> QED
      BY <2>2, <3>1 DEF Chained
  <2>4. Before' /\ Chain'
    BY <2>1 DEF Before, Chain
  <2> QED
    BY <1>9, <2>3, <2>4 DEF ChainInv
<1> QED
  BY <1>10, <1>11

LEMMA ServerFailsStep ==
  ASSUME ChainInv, ServerFails
  PROVE  ChainInv'
<1>0. /\ at = "chain" /\ server \in Hosts /\ FreshServer(server, asked) /\ Len(asked) < MaxHops
      /\ sources = OfPage /\ "port43" \notin notes
      /\ asked \in Seq(Hosts) /\ IsInjective(asked) /\ parts \in Seq(Part)
  BY DEF ServerFails, ChainInv, Chain, Heads
<1>1. asked' = Append(asked, server) /\ parts' = parts /\ page' = page /\ at' = "dns"
  BY DEF ServerFails, ChainFails, ChainEnds
<1>2. /\ asked' \in Seq(Hosts) /\ Len(asked') = Len(asked) + 1 /\ Len(asked) \in Nat
      /\ IsInjective(asked') /\ asked' # <<>>
  BY <1>0, <1>1, AppendFresh
<1>3. Heads'
  BY <1>0, <1>1, <1>2 DEF Heads, MaxHops
<1>4. CASE parts = <<>>
  <2>1. notes' = notes \cup {"port43"} /\ sources' = sources
    BY <1>4 DEF ServerFails, NothingYet, ChainFails
  <2>3. OfPage \o <<>> = OfPage /\ Servers(parts) = <<>>
    BY <1>0, <1>4, OfPageIs, ServersOf
  <2> QED
    BY <1>0, <1>1, <1>3, <1>4, <2>1, <2>3 DEF ChainInv, Before, Chain, Chained, OfPage, Servers
<1>5. CASE parts # <<>>
  <2>1. /\ notes' = notes
        /\ sources' = sources \o [k \in DOMAIN parts' |-> parts'[k].server]
    BY <1>5 DEF ServerFails, NothingYet, ChainEnds
  <2> QED
    BY <1>0, <1>1, <1>3, <1>5, <2>1 DEF ChainInv, Before, Chain, Chained, OfPage, Servers
<1> QED
  BY <1>4, <1>5

LEMMA ChainStep == ChainInv /\ [Next]_vars => ChainInv'
<1> SUFFICES ASSUME ChainInv, [Next]_vars PROVE ChainInv'
  OBVIOUS
<1>1. CASE \E t \in Types, n \in Counts : Resolve(t, n)
  BY <1>1 DEF Resolve, chain, ChainInv, Heads, Before, Chain, Chained, OfPage, Servers
<1>2. CASE Return
  BY <1>2 DEF Return, chain, ChainInv, Heads, Before, Chain, Chained, OfPage, Servers
<1>3. CASE UNCHANGED vars
  BY <1>3 DEF vars, ChainInv, Heads, Before, Chain, Chained, OfPage, Servers
<1> QED
  BY <1>1, <1>2, <1>3, EntryStep, RootStep, AnsweredStep, ServerFailsStep DEF Next

(* However the servers refer to each other and wherever the chain breaks,  *)
(* nobody is asked twice or after MaxHops, and what was received is in the *)
(* report.                                                                 *)
THEOREM ChainIsKept == Spec => []ChainKeeps
<1>1. ChainInv => ChainKeeps
  BY DEF ChainInv, Heads, Chained, ChainKeeps, Ended, OfPage
<1> QED
  BY <1>1, ChainInit, ChainStep, PTL DEF Spec

-----------------------------------------------------------------------------
(* What the loops over lines, rows and answers leave behind *)

Less == {p \in Nat \X Nat : p[1] < p[2]}

LEMMA LessIsWellFounded == IsWellFoundedOn(Less, Nat)
<1>1. OpToRel(<, Nat) = Less
  BY DEF OpToRel, Less
<1> QED
  BY <1>1, NatLessThanWellFounded

LEMMA LeastNumber ==
  ASSUME NEW U, Nat \ U # {}
  PROVE  \E m \in Nat \ U : \A y \in Nat \ U : m =< y
<1>1. \A x, y \in Nat : <<x, y>> \in Less <=> x < y
  BY DEF Less
<1>2. \A T : T \subseteq Nat /\ T # {} => \E m \in T : \A y \in T : ~(<<y, m>> \in Less)
  BY LessIsWellFounded, WFMin, Zenon
<1> DEFINE T == Nat \ U
<1>3. T \subseteq Nat /\ T # {}
  OBVIOUS
<1> HIDE DEF T
<1>4. PICK m \in T : \A y \in T : ~(<<y, m>> \in Less)
  BY <1>2, <1>3, Zenon
<1>5. ASSUME NEW y \in T PROVE m =< y
  <2>1. y \in Nat /\ m \in Nat /\ ~(<<y, m>> \in Less)
    BY <1>3, <1>4
  <2>2. ~(y < m)
    BY <1>1, <2>1
  <2> QED
    BY <2>1, <2>2
<1> QED
  BY <1>5 DEF T

(* The least number outside U would follow one inside. *)
LEMMA AllNumbers ==
  ASSUME NEW U, 0 \in U, \A n \in Nat : n \in U => n + 1 \in U
  PROVE  Nat \subseteq U
<1> SUFFICES ASSUME Nat \ U # {} PROVE FALSE
  OBVIOUS
<1>1. PICK m \in Nat \ U : \A y \in Nat \ U : m =< y
  BY LeastNumber
<1>2. m # 0 /\ m - 1 \in Nat /\ m - 1 < m /\ (m - 1) + 1 = m
  BY <1>1
<1>3. m - 1 \in U
  BY <1>1, <1>2
<1> QED
  BY <1>1, <1>2, <1>3

(* One turn of a loop over the lines of a text, the rows of the page, the  *)
(* answers of the chain, or the tokens an input is cut at; g holds what    *)
(* the loop has made of start after each turn.                             *)
Turn(loop, acc, x) ==
  IF loop = "lines" THEN ApplyLine(acc, x)
  ELSE IF loop = "rows" THEN ApplyRow(acc, x)
  ELSE IF loop = "starts" THEN CutBefore(acc, x)
  ELSE IF loop = "ends" THEN CutAfter(acc, x) ELSE Glue(acc, x)

Turns(g, loop, m, start, s) ==
  g = [k \in 0..m |-> IF k = 0 THEN start ELSE Turn(loop, g[k - 1], s[k])]

LEMMA TurnsStep ==
  ASSUME NEW loop, NEW s, NEW start, NEW k \in Nat, NEW g, Turns(g, loop, k, start, s)
  PROVE  \E h : Turns(h, loop, k + 1, start, s)
<1> DEFINE x == Turn(loop, g[k], s[k + 1])
           h == [n \in 0..(k + 1) |-> IF n = k + 1 THEN x ELSE g[n]]
<1>1. ASSUME NEW n \in 0..(k + 1)
      PROVE  h[n] = IF n = 0 THEN start ELSE Turn(loop, h[n - 1], s[n])
  <2>1. CASE n = k + 1
    <3>1. n # 0 /\ n - 1 = k /\ h[n] = x /\ h[n - 1] = g[k]
      BY <2>1
    <3> QED
      BY <2>1, <3>1
  <2>2. CASE n = 0
    <3>1. h[n] = g[n] /\ n \in 0..k
      BY <2>2
    <3> QED
      BY <2>2, <3>1 DEF Turns
  <2>3. CASE n # 0 /\ n # k + 1
    <3>1. n \in 0..k /\ h[n] = g[n] /\ h[n - 1] = g[n - 1]
      BY <2>3
    <3>2. g[n] = Turn(loop, g[n - 1], s[n])
      BY <2>3, <3>1 DEF Turns
    <3> QED
      BY <2>3, <3>1, <3>2
  <2> QED
    BY <2>1, <2>2, <2>3
<1>2. h = [n \in 0..(k + 1) |-> h[n]]
  OBVIOUS
<1> HIDE DEF h
<1>3. [n \in 0..(k + 1) |-> h[n]]
        = [n \in 0..(k + 1) |-> IF n = 0 THEN start ELSE Turn(loop, h[n - 1], s[n])]
  BY <1>1
<1>4. Turns(h, loop, k + 1, start, s)
  BY <1>2, <1>3, Zenon DEF Turns
<1> QED
  BY <1>4

LEMMA TurnsExist ==
  ASSUME NEW loop, NEW s, NEW start, NEW m \in Nat
  PROVE  \E g : Turns(g, loop, m, start, s)
<1> DEFINE U == {k \in Nat : \E g : Turns(g, loop, k, start, s)}
<1>1. 0 \in U
  <2>1. \A n \in 0..0 : n = 0
    OBVIOUS
  <2> DEFINE g == [n \in 0..0 |-> start]
  <2>2. Turns(g, loop, 0, start, s)
    BY <2>1 DEF Turns
  <2> QED
    BY <2>2
<1>2. ASSUME NEW k \in Nat, k \in U PROVE k + 1 \in U
  BY <1>2, TurnsStep
<1>3. Nat \subseteq U
  <2> HIDE DEF U
  <2> QED
    BY <1>1, <1>2, AllNumbers
<1> QED
  BY <1>3

(* Loop(step, start, s) is the last of the turns. *)
Result(loop, start, s) ==
  LET g == CHOOSE f : Turns(f, loop, Len(s), start, s) IN g[Len(s)]

LEMMA ResultIs ==
  ASSUME NEW loop, NEW start, NEW s, Len(s) \in Nat
  PROVE  \E g : /\ Result(loop, start, s) = g[Len(s)]
                /\ g[0] = start
                /\ \A n \in 1..Len(s) : g[n] = Turn(loop, g[n - 1], s[n])
<1> DEFINE g == CHOOSE f : Turns(f, loop, Len(s), start, s)
<1>1. Result(loop, start, s) = g[Len(s)]
  BY DEF Result
<1>2. Turns(g, loop, Len(s), start, s)
  BY TurnsExist
<1> HIDE DEF g
<1>3. 0 \in 0..Len(s) /\ \A n \in 1..Len(s) : n \in 0..Len(s) /\ n # 0
  OBVIOUS
<1>4. \A n \in 0..Len(s) : g[n] = IF n = 0 THEN start ELSE Turn(loop, g[n - 1], s[n])
  BY <1>2, Zenon DEF Turns
<1>5. g[0] = start /\ \A n \in 1..Len(s) : g[n] = Turn(loop, g[n - 1], s[n])
  BY <1>3, <1>4
<1> QED
  BY <1>1, <1>5

Start(lines) == [NoInfo EXCEPT !.raw = lines, !.available = NoMatch(lines)]

LEMMA ParseRawIs == ASSUME NEW lines PROVE ParseRaw(lines) = Result("lines", Start(lines), lines)
BY Zenon DEF ParseRaw, Loop, Result, Turns, Turn, Start

LEMMA SiteInfoIs ==
  ASSUME NEW p PROVE SiteInfo(p) = Result("rows", [NoInfo EXCEPT !.raw = p.raw], p.rows)
BY Zenon DEF SiteInfo, Loop, Result, Turns, Turn

LEMMA GluedIs == ASSUME NEW answers PROVE Glued(answers) = Result("answers", <<>>, answers)
BY Zenon DEF Glued, Loop, Result, Turns, Turn

-----------------------------------------------------------------------------
(* What one line adds to a record *)

LEMMA KeepEmpty == \A v : Keep(Empty, v) = v /\ Keep(v, Empty) = v
BY Zenon DEF Keep

LEMMA KeepFirst == \A x, y, z : Keep(Keep(x, y), z) = Keep(x, Keep(y, z))
BY Zenon DEF Keep

(* The form of a record, whatever is in it. *)
IsRecord(e) == e = [available |-> e.available, has |-> e.has, f |-> e.f,
                    status |-> e.status, ns |-> e.ns, raw |-> e.raw]

Shaped(d) ==
  /\ IsRecord(d)
  /\ d.available \in BOOLEAN
  /\ d.f = [b \in Blocks |-> [k \in Keys |-> d.f[b][k]]]

Named(d) == \E S : d.ns \in Seq(S)

LEMMA NoInfoIs ==
  /\ Shaped(NoInfo) /\ NoInfo.available = FALSE /\ NoInfo.has = {} /\ NoInfo.ns = <<>>
  /\ \A b \in Blocks, k \in Keys : NoInfo.f[b][k] = Empty
<1> DEFINE F == [b \in Blocks |-> [k \in Keys |-> Empty]]
<1>1. NoInfo = [available |-> FALSE, has |-> {}, f |-> F, status |-> <<>>, ns |-> <<>>, raw |-> <<>>]
  BY DEF NoInfo
<1>2. /\ F = [b \in Blocks |-> [k \in Keys |-> F[b][k]]]
      /\ \A b \in Blocks, k \in Keys : F[b][k] = Empty
  OBVIOUS
<1> HIDE DEF F
<1> QED
  BY <1>1, <1>2 DEF Shaped, IsRecord

(* Setting the fields of a part. *)
LEMMA FieldsSet ==
  ASSUME NEW f, f = [b \in Blocks |-> [k \in Keys |-> f[b][k]]], NEW b, NEW g,
         g = [k \in Keys |-> g[k]]
  PROVE  /\ [f EXCEPT ![b] = g] = [c \in Blocks |-> [k \in Keys |-> [f EXCEPT ![b] = g][c][k]]]
         /\ \A c \in Blocks : [f EXCEPT ![b] = g][c] = IF c = b THEN g ELSE f[c]
<1> DEFINE h == [f EXCEPT ![b] = g]
<1>1. DOMAIN f = Blocks /\ \A c \in Blocks : f[c] = [k \in Keys |-> f[c][k]]
  OBVIOUS
<1>2. h = [c \in Blocks |-> IF c = b THEN g ELSE f[c]]
  BY <1>1
<1> HIDE DEF h
<1>3. \A c \in Blocks : h[c] = IF c = b THEN g ELSE f[c]
  BY <1>2
<1>4. \A c \in Blocks : h[c] = [k \in Keys |-> h[c][k]]
  <2> SUFFICES ASSUME NEW c \in Blocks PROVE h[c] = [k \in Keys |-> h[c][k]]
    OBVIOUS
  <2>1. CASE c = b
    BY <1>3, <2>1
  <2>2. CASE c # b
    BY <1>1, <1>3, <2>2
  <2> QED
    BY <2>1, <2>2
<1>5. DOMAIN h = Blocks /\ h = [c \in Blocks |-> h[c]]
  BY <1>2
<1>6. h = [c \in Blocks |-> [k \in Keys |-> h[c][k]]]
  BY <1>4, <1>5, Zenon
<1> QED
  BY <1>3, <1>6 DEF h

(* The fields a line sets, and what it sets them to. *)
LineKeys(l) == IF l.block \in Roles /\ l.key = "email" THEN ContactKey(l.value) ELSE {l.key}
LineFields(f, l) ==
  [k \in Keys |-> IF k \in LineKeys(l) THEN Keep(f[k], Value(k, l.value)) ELSE f[k]]

WithStatus(d, s)    == [d EXCEPT !.status = s]
WithHosts(d, s)     == [d EXCEPT !.ns = s]
WithFields(d, h, f) == [d EXCEPT !.has = h, !.f = f]

LEMMA LineIs ==
  ASSUME NEW d, Shaped(d), NEW l
  PROVE  /\ Skipped(l) => ApplyLine(d, l) = d
         /\ ~Skipped(l) /\ l.key = "status" =>
              \E s : ApplyLine(d, l) = WithStatus(d, s)
         /\ ~Skipped(l) /\ l.key = "ns" =>
              ApplyLine(d, l) = WithHosts(d, AddHost(d.ns, l.value))
         /\ ~Skipped(l) /\ l.key \notin {"status", "ns"} =>
              ApplyLine(d, l) = WithFields(d, d.has \cup {l.block},
                                  [d.f EXCEPT ![l.block] = LineFields(d.f[l.block], l)])
BY DEF ApplyLine, LineFields, LineKeys, Shaped, IsRecord, WithStatus, WithHosts, WithFields

LEMMA StatusSet ==
  ASSUME NEW d, Shaped(d), NEW s
  PROVE  /\ IsRecord(WithStatus(d, s)) /\ WithStatus(d, s).available = d.available
         /\ WithStatus(d, s).has = d.has /\ WithStatus(d, s).f = d.f /\ WithStatus(d, s).ns = d.ns
<1>1. WithStatus(d, s) = [available |-> d.available, has |-> d.has, f |-> d.f,
                          status |-> s, ns |-> d.ns, raw |-> d.raw]
  BY DEF Shaped, IsRecord, WithStatus
<1> QED
  BY <1>1 DEF IsRecord

LEMMA HostsSet ==
  ASSUME NEW d, Shaped(d), NEW s
  PROVE  /\ IsRecord(WithHosts(d, s)) /\ WithHosts(d, s).available = d.available
         /\ WithHosts(d, s).has = d.has /\ WithHosts(d, s).f = d.f /\ WithHosts(d, s).ns = s
<1>1. WithHosts(d, s) = [available |-> d.available, has |-> d.has, f |-> d.f,
                         status |-> d.status, ns |-> s, raw |-> d.raw]
  BY DEF Shaped, IsRecord, WithHosts
<1> QED
  BY <1>1 DEF IsRecord

LEMMA PartSet ==
  ASSUME NEW d, Shaped(d), NEW h, NEW f
  PROVE  /\ IsRecord(WithFields(d, h, f)) /\ WithFields(d, h, f).available = d.available
         /\ WithFields(d, h, f).has = h /\ WithFields(d, h, f).f = f
         /\ WithFields(d, h, f).ns = d.ns
<1>1. WithFields(d, h, f) = [available |-> d.available, has |-> h, f |-> f,
                             status |-> d.status, ns |-> d.ns, raw |-> d.raw]
  <2>1. IsRecord(d)
    BY DEF Shaped
  <2> DEFINE e == [d EXCEPT !.has = h]
  <2>2. e = [available |-> d.available, has |-> h, f |-> d.f,
             status |-> d.status, ns |-> d.ns, raw |-> d.raw]
    BY <2>1 DEF IsRecord
  <2>3. WithFields(d, h, f) = [e EXCEPT !.f = f]
    BY DEF WithFields
  <2> HIDE DEF e
  <2> QED
    BY <2>2, <2>3
<1> QED
  BY <1>1 DEF IsRecord

LEMMA HostAdded ==
  ASSUME NEW S, NEW s \in Seq(S), NEW v
  PROVE  AddHost(s, v) # <<>> /\ \E T : AddHost(s, v) \in Seq(T)
<1> DEFINE h == HostName(v)
<1>1. AddHost(s, v) = IF h \in ToSet(s) THEN s ELSE Append(s, h)
  BY DEF AddHost, Add
<1> HIDE DEF h
<1>2. CASE h \in ToSet(s)
  <2>1. DOMAIN s # {}
    BY <1>2 DEF ToSet
  <2> QED
    BY <1>1, <1>2, <2>1
<1>3. CASE h \notin ToSet(s)
  <2>1. s \in Seq(S \cup {h}) /\ h \in S \cup {h}
    OBVIOUS
  <2>2. Append(s, h) \in Seq(S \cup {h}) /\ Len(Append(s, h)) = Len(s) + 1 /\ Len(s) \in Nat
    BY <2>1
  <2>3. Append(s, h) # <<>>
    BY <2>2
  <2> QED
    BY <1>1, <1>3, <2>2, <2>3
<1> QED
  BY <1>2, <1>3

LEMMA LineShaped ==
  ASSUME NEW d, Shaped(d), Named(d), NEW l
  PROVE  Shaped(ApplyLine(d, l)) /\ Named(ApplyLine(d, l)) /\ ApplyLine(d, l).available = d.available
<1>1. CASE Skipped(l)
  BY <1>1, LineIs
<1>2. CASE ~Skipped(l) /\ l.key = "status"
  <2>1. PICK s : ApplyLine(d, l) = WithStatus(d, s)
    BY <1>2, LineIs
  <2> QED
    BY <2>1, StatusSet DEF Shaped, Named, IsRecord
<1>3. CASE ~Skipped(l) /\ l.key = "ns"
  <2>1. ApplyLine(d, l) = WithHosts(d, AddHost(d.ns, l.value))
    BY <1>3, LineIs
  <2>2. \E T : AddHost(d.ns, l.value) \in Seq(T)
    BY HostAdded DEF Named
  <2> QED
    BY <2>1, <2>2, HostsSet DEF Shaped, Named, IsRecord
<1>4. CASE ~Skipped(l) /\ l.key \notin {"status", "ns"}
  <2> DEFINE g == LineFields(d.f[l.block], l)
             F == [d.f EXCEPT ![l.block] = g]
  <2>1. ApplyLine(d, l) = WithFields(d, d.has \cup {l.block}, F)
    BY <1>4, LineIs
  <2>2. g = [k \in Keys |-> g[k]]
    BY DEF LineFields
  <2>3. d.f = [b \in Blocks |-> [k \in Keys |-> d.f[b][k]]]
    BY DEF Shaped
  <2> HIDE DEF g
  <2>4. F = [b \in Blocks |-> [k \in Keys |-> F[b][k]]]
    BY <2>2, <2>3, FieldsSet
  <2> HIDE DEF F
  <2> DEFINE e == ApplyLine(d, l)
  <2>5. IsRecord(e) /\ e.available = d.available /\ e.f = F /\ e.ns = d.ns
    BY <2>1, PartSet
  <2> HIDE DEF e
  <2>6. Shaped(e) /\ Named(e)
    BY <2>4, <2>5 DEF Shaped, Named
  <2> QED
    BY <2>5, <2>6 DEF e
<1> QED
  BY <1>1, <1>2, <1>3, <1>4

(* d says what base says and, where base is silent, what e says. *)
Follows(d, base, e) ==
  /\ d.has = base.has \cup e.has
  /\ (d.ns = <<>>) = (base.ns = <<>> /\ e.ns = <<>>)
  /\ \A b \in Blocks, k \in Keys : d.f[b][k] = Keep(base.f[b][k], e.f[b][k])

LEMMA LineFollows ==
  ASSUME NEW d, NEW base, NEW e, Shaped(d), Named(d), Shaped(e), Named(e),
         Follows(d, base, e), NEW l
  PROVE  Follows(ApplyLine(d, l), base, ApplyLine(e, l))
<1>1. CASE Skipped(l)
  BY <1>1, LineIs
<1>2. CASE ~Skipped(l) /\ l.key = "status"
  <2>1. PICK s : ApplyLine(d, l) = WithStatus(d, s)
    BY <1>2, LineIs
  <2>2. PICK t : ApplyLine(e, l) = WithStatus(e, t)
    BY <1>2, LineIs
  <2> QED
    BY <2>1, <2>2, StatusSet DEF Follows
<1>3. CASE ~Skipped(l) /\ l.key = "ns"
  <2>1. /\ ApplyLine(d, l) = WithHosts(d, AddHost(d.ns, l.value))
        /\ ApplyLine(e, l) = WithHosts(e, AddHost(e.ns, l.value))
    BY <1>3, LineIs
  <2>2. AddHost(d.ns, l.value) # <<>> /\ AddHost(e.ns, l.value) # <<>>
    BY HostAdded DEF Named
  <2> QED
    BY <2>1, <2>2, HostsSet DEF Follows
<1>4. CASE ~Skipped(l) /\ l.key \notin {"status", "ns"}
  <2> DEFINE gd == LineFields(d.f[l.block], l)
             ge == LineFields(e.f[l.block], l)
             Fd == [d.f EXCEPT ![l.block] = gd]
             Fe == [e.f EXCEPT ![l.block] = ge]
  <2>1. /\ ApplyLine(d, l) = WithFields(d, d.has \cup {l.block}, Fd)
        /\ ApplyLine(e, l) = WithFields(e, e.has \cup {l.block}, Fe)
    BY <1>4, LineIs
  <2>2. gd = [k \in Keys |-> gd[k]] /\ ge = [k \in Keys |-> ge[k]]
    BY DEF LineFields
  <2>3. \A k \in Keys :
          /\ gd[k] = IF k \in LineKeys(l) THEN Keep(d.f[l.block][k], Value(k, l.value))
                                          ELSE d.f[l.block][k]
          /\ ge[k] = IF k \in LineKeys(l) THEN Keep(e.f[l.block][k], Value(k, l.value))
                                          ELSE e.f[l.block][k]
    BY DEF LineFields
  <2> HIDE DEF gd, ge
  <2>4. /\ \A c \in Blocks : Fd[c] = IF c = l.block THEN gd ELSE d.f[c]
        /\ \A c \in Blocks : Fe[c] = IF c = l.block THEN ge ELSE e.f[c]
    BY <2>2, FieldsSet DEF Shaped
  <2> HIDE DEF Fd, Fe
  <2>5. ASSUME NEW b \in Blocks, NEW k \in Keys
        PROVE  Fd[b][k] = Keep(base.f[b][k], Fe[b][k])
    <3>1. d.f[b][k] = Keep(base.f[b][k], e.f[b][k])
      BY DEF Follows
    <3>2. CASE b = l.block /\ k \in LineKeys(l)
      BY <2>3, <2>4, <3>1, <3>2, KeepFirst
    <3>3. CASE b = l.block /\ k \notin LineKeys(l)
      BY <2>3, <2>4, <3>1, <3>3
    <3>4. CASE b # l.block
      BY <2>4, <3>1, <3>4
    <3> QED
      BY <3>2, <3>3, <3>4
  <2>6. /\ ApplyLine(d, l).has = d.has \cup {l.block} /\ ApplyLine(e, l).has = e.has \cup {l.block}
        /\ ApplyLine(d, l).ns = d.ns /\ ApplyLine(e, l).ns = e.ns
        /\ ApplyLine(d, l).f = Fd /\ ApplyLine(e, l).f = Fe
    BY <2>1, PartSet
  <2> QED
    BY <2>5, <2>6 DEF Follows
<1> QED
  BY <1>1, <1>2, <1>3, <1>4

-----------------------------------------------------------------------------
(* What one text says, and what two texts say one after the other *)

(* d is what the loop of parseRaw makes of the first m lines of t.         *)
Reads(d, m, t) == \A n \in 1..m : d[n] = ApplyLine(d[n - 1], t[n])

(* Two loops over the same lines stay together. *)
LEMMA BothFollow ==
  ASSUME NEW d, NEW e, NEW t, NEW m \in Nat, NEW base, Reads(d, m, t), Reads(e, m, t),
         Shaped(d[0]), Named(d[0]), Shaped(e[0]), Named(e[0]), Follows(d[0], base, e[0])
  PROVE  /\ Follows(d[m], base, e[m]) /\ Shaped(d[m]) /\ Named(d[m])
         /\ d[m].available = d[0].available
<1> DEFINE AllWell(n) == /\ Follows(d[n], base, e[n]) /\ d[n].available = d[0].available
                      /\ Shaped(d[n]) /\ Named(d[n]) /\ Shaped(e[n]) /\ Named(e[n])
           U == {n \in Nat : n <= m => AllWell(n)}
<1>1. 0 \in U
  OBVIOUS
<1>2. ASSUME NEW n \in Nat, n \in U PROVE n + 1 \in U
  <2> SUFFICES ASSUME n + 1 <= m PROVE AllWell(n + 1)
    OBVIOUS
  <2>1. n + 1 \in 1..m /\ (n + 1) - 1 = n
    OBVIOUS
  <2>2. d[n + 1] = ApplyLine(d[n], t[n + 1]) /\ e[n + 1] = ApplyLine(e[n], t[n + 1])
    BY <2>1 DEF Reads
  <2>3. AllWell(n)
    BY <1>2
  <2> QED
    BY <2>2, <2>3, LineShaped, LineFollows
<1>3. Nat \subseteq U
  <2> HIDE DEF U
  <2> QED
    BY <1>1, <1>2, AllNumbers
<1>4. m \in U
  <2> HIDE DEF U
  <2> QED
    BY <1>3
<1>5. AllWell(m)
  <2> HIDE DEF AllWell
  <2> QED
    BY <1>4
<1> QED
  BY <1>5

LEMMA StartIs ==
  ASSUME NEW lines
  PROVE  /\ Shaped(Start(lines)) /\ Named(Start(lines))
         /\ Start(lines).available = NoMatch(lines)
         /\ Start(lines).has = {} /\ Start(lines).ns = <<>> /\ Start(lines).f = NoInfo.f
<1>1. NoMatch(lines) \in BOOLEAN
  BY DEF NoMatch
<1> DEFINE d == [NoInfo EXCEPT !.raw = lines]
<1>2. d = [available |-> NoInfo.available, has |-> NoInfo.has, f |-> NoInfo.f,
           status |-> NoInfo.status, ns |-> NoInfo.ns, raw |-> lines]
  <2>1. IsRecord(NoInfo)
    BY NoInfoIs DEF Shaped
  <2> QED
    BY <2>1 DEF IsRecord
<1>3. Start(lines) = [d EXCEPT !.available = NoMatch(lines)]
  BY DEF Start
<1> HIDE DEF d
<1>4. Start(lines) = [available |-> NoMatch(lines), has |-> NoInfo.has, f |-> NoInfo.f,
                      status |-> NoInfo.status, ns |-> NoInfo.ns, raw |-> lines]
  BY <1>2, <1>3
<1>5. <<>> \in Seq({})
  OBVIOUS
<1> QED
  BY <1>1, <1>4, <1>5, NoInfoIs DEF Shaped, IsRecord, Named

(* ParseRaw as a loop. *)
LEMMA Parsed ==
  ASSUME NEW lines, Len(lines) \in Nat
  PROVE  \E g : /\ ParseRaw(lines) = g[Len(lines)]
                /\ g[0] = Start(lines) /\ Reads(g, Len(lines), lines)
<1>1. PICK g : /\ Result("lines", Start(lines), lines) = g[Len(lines)]
               /\ g[0] = Start(lines)
               /\ \A n \in 1..Len(lines) : g[n] = Turn("lines", g[n - 1], lines[n])
  BY ResultIs
<1>2. Reads(g, Len(lines), lines)
  BY <1>1 DEF Turn, Reads
<1> QED
  BY <1>1, <1>2, ParseRawIs

LEMMA SameFollows ==
  ASSUME NEW d, NEW e, d.has = e.has, d.ns = e.ns, d.f = e.f, NEW base,
         base.has = {}, base.ns = <<>>, \A b \in Blocks, k \in Keys : base.f[b][k] = Empty
  PROVE  Follows(d, base, e)
BY KeepEmpty DEF Follows

LEMMA StartsAlike ==
  ASSUME NEW s, NEW t
  PROVE  Follows(Start(s), NoInfo, Start(t))
BY StartIs, NoInfoIs, SameFollows

LEMMA ParsedShape ==
  ASSUME NEW lines, Len(lines) \in Nat
  PROVE  /\ Shaped(ParseRaw(lines)) /\ Named(ParseRaw(lines))
         /\ ParseRaw(lines).available = NoMatch(lines)
<1>1. PICK g : /\ ParseRaw(lines) = g[Len(lines)]
               /\ g[0] = Start(lines) /\ Reads(g, Len(lines), lines)
  BY Parsed
<1>2. Shaped(g[0]) /\ Named(g[0]) /\ g[0].available = NoMatch(lines)
  BY <1>1, StartIs
<1>3. Follows(g[0], NoInfo, g[0])
  BY <1>1, StartsAlike
<1>4. /\ Shaped(g[Len(lines)]) /\ Named(g[Len(lines)])
      /\ g[Len(lines)].available = g[0].available
  BY <1>1, <1>2, <1>3, BothFollow
<1> QED
  BY <1>1, <1>2, <1>4

(* Of two texts with a comment between them, the second is read where the  *)
(* first is silent.                                                        *)
LEMMA OneAfterTheOther ==
  ASSUME NEW X, NEW s \in Seq(X), NEW x \in X, NEW t \in Seq(X), Skipped(x)
  PROVE  Follows(ParseRaw(s \o <<x>> \o t), ParseRaw(s), ParseRaw(t))
<1> DEFINE w == s \o <<x>> \o t
           a == Len(s)
           m == Len(t)
<1>1. /\ a \in Nat /\ m \in Nat /\ Len(w) = a + 1 + m /\ Len(w) \in Nat
      /\ \A n \in 1..a : w[n] = s[n]
      /\ w[a + 1] = x
      /\ \A n \in 1..m : w[a + 1 + n] = t[n]
  OBVIOUS
<1> HIDE DEF w, a, m
<1>2. PICK g : /\ ParseRaw(w) = g[Len(w)]
               /\ g[0] = Start(w) /\ Reads(g, Len(w), w)
  BY <1>1, Parsed
<1>3. PICK h : /\ ParseRaw(s) = h[a]
               /\ h[0] = Start(s) /\ Reads(h, a, s)
  BY <1>1, Parsed DEF a
<1>4. PICK e : /\ ParseRaw(t) = e[m]
               /\ e[0] = Start(t) /\ Reads(e, m, t)
  BY <1>1, Parsed DEF m
<1>5. Follows(g[a], NoInfo, h[a]) /\ Shaped(g[a]) /\ Named(g[a])
  <2>1. Reads(g, a, s)
    <3>1. \A n \in 1..a : n \in 1..Len(w)
      BY <1>1
    <3> QED
      BY <1>1, <1>2, <3>1 DEF Reads
  <2>2. Shaped(g[0]) /\ Named(g[0]) /\ Shaped(h[0]) /\ Named(h[0]) /\ Follows(g[0], NoInfo, h[0])
    BY <1>2, <1>3, StartIs, StartsAlike
  <2> QED
    BY <1>1, <1>3, <2>1, <2>2, BothFollow
<1>6. g[a + 1] = g[a]
  <2>1. a + 1 \in 1..Len(w) /\ (a + 1) - 1 = a
    BY <1>1
  <2>2. g[a + 1] = ApplyLine(g[a], x)
    BY <1>1, <1>2, <2>1 DEF Reads
  <2> QED
    BY <1>5, <2>2, LineIs
<1> DEFINE d == [n \in 0..m |-> g[a + 1 + n]]
<1>7. d[0] = g[a] /\ d[m] = ParseRaw(w)
  BY <1>1, <1>2, <1>6
<1>8. Reads(d, m, t)
  <2> SUFFICES ASSUME NEW n \in 1..m PROVE d[n] = ApplyLine(d[n - 1], t[n])
    BY DEF Reads
  <2>1. a + 1 + n \in 1..Len(w) /\ n \in 0..m /\ n - 1 \in 0..m
        /\ (a + 1 + n) - 1 = a + 1 + (n - 1)
    <3>1. a \in Nat /\ m \in Nat /\ Len(w) = a + 1 + m
      BY <1>1
    <3> QED
      BY <3>1
  <2>2. g[a + 1 + n] = ApplyLine(g[a + 1 + (n - 1)], w[a + 1 + n])
    BY <1>2, <2>1 DEF Reads
  <2> QED
    BY <1>1, <2>1, <2>2
<1> HIDE DEF d
<1>9. Follows(d[0], h[a], e[0])
  <2>1. e[0].has = {} /\ e[0].ns = <<>> /\ \A b \in Blocks, k \in Keys : e[0].f[b][k] = Empty
    BY <1>4, StartIs, NoInfoIs
  <2>2. /\ d[0].has = h[a].has /\ (d[0].ns = <<>>) = (h[a].ns = <<>>)
        /\ \A b \in Blocks, k \in Keys : d[0].f[b][k] = h[a].f[b][k]
    BY <1>5, <1>7, NoInfoIs, KeepEmpty DEF Follows
  <2> QED
    BY <2>1, <2>2, KeepEmpty DEF Follows
<1>10. Follows(d[m], h[a], e[m])
  <2>1. Shaped(d[0]) /\ Named(d[0]) /\ Shaped(e[0]) /\ Named(e[0])
    BY <1>4, <1>5, <1>7, StartIs
  <2> QED
    BY <1>1, <1>4, <1>8, <1>9, <2>1, BothFollow
<1>11. Follows(ParseRaw(w), ParseRaw(s), ParseRaw(t))
  BY <1>3, <1>4, <1>7, <1>10
<1> QED
  BY <1>11 DEF w

-----------------------------------------------------------------------------
(* What the answers of the chain say, read as one text *)

AnyLine == Line \cup {Comment(s)[1] : s \in Hosts}

LEMMA CommentSkipped ==
  ASSUME NEW s \in Hosts
  PROVE  Comment(s) = <<Comment(s)[1]>> /\ Comment(s)[1] \in AnyLine /\ Skipped(Comment(s)[1])
<1>1. Comment(s)[1] = [block |-> "%", key |-> Empty, value |-> s]
      /\ Comment(s) = <<Comment(s)[1]>>
  BY DEF Comment
<1>2. Comment(s)[1].block = "%"
  BY <1>1
<1>3. "%" \notin Blocks
  BY Zenon DEF Blocks, Roles
<1> QED
  BY <1>1, <1>2, <1>3, Zenon DEF AnyLine, Skipped

(* G[n] is the text of the first n answers. *)
Texted(G, answers) ==
  /\ G[0] = <<>>
  /\ \A n \in 1..Len(answers) :
       G[n] = G[n - 1] \o Comment(answers[n].server) \o answers[n].lines

LEMMA GluedLoop ==
  ASSUME NEW answers \in Seq(Part)
  PROVE  \E G : Glued(answers) = G[Len(answers)] /\ Texted(G, answers)
<1>1. Len(answers) \in Nat
  OBVIOUS
<1> DEFINE none == <<>>
<1>0. Glued(answers) = Result("answers", none, answers)
  BY GluedIs
<1> HIDE DEF none
<1>2. PICK G : /\ Result("answers", none, answers) = G[Len(answers)]
               /\ G[0] = none
               /\ \A n \in 1..Len(answers) : G[n] = Turn("answers", G[n - 1], answers[n])
  BY <1>1, ResultIs
<1>3. \A acc, x : Turn("answers", acc, x) = Glue(acc, x)
  BY DEF Turn
<1>4. \A n \in 1..Len(answers) : G[n] = Glue(G[n - 1], answers[n])
  BY <1>2, <1>3
<1> QED
  BY <1>0, <1>2, <1>4 DEF Texted, Glue, none

LEMMA AnswerTyped ==
  ASSUME NEW a \in Part
  PROVE  a.server \in Hosts /\ a.lines \in Texts /\ a.lines \in Seq(AnyLine)
<1>1. a.server \in Hosts /\ a.lines \in Texts
  BY DEF Part
<1>2. a.lines \in Seq(Line)
  BY <1>1, WhoisAssumption, Zenon DEF WhoisAssumption
<1> QED
  BY <1>1, <1>2 DEF AnyLine

LEMMA TextTyped ==
  ASSUME NEW answers \in Seq(Part), NEW G, Texted(G, answers)
  PROVE  \A n \in 0..Len(answers) : G[n] \in Seq(AnyLine)
<1> DEFINE U == {n \in Nat : n <= Len(answers) => G[n] \in Seq(AnyLine)}
<1>1. 0 \in U
  <2>1. <<>> \in Seq(AnyLine)
    OBVIOUS
  <2>2. G[0] \in Seq(AnyLine)
    BY <2>1, Zenon DEF Texted
  <2> HIDE DEF AnyLine
  <2> QED
    BY <2>2
<1>2. ASSUME NEW n \in Nat, n \in U PROVE n + 1 \in U
  <2> SUFFICES ASSUME n + 1 <= Len(answers) PROVE G[n + 1] \in Seq(AnyLine)
    OBVIOUS
  <2>1. n + 1 \in 1..Len(answers) /\ (n + 1) - 1 = n /\ answers[n + 1] \in Part
    OBVIOUS
  <2> DEFINE a == answers[n + 1]
  <2>2. G[n + 1] = G[n] \o Comment(a.server) \o a.lines
    BY <2>1 DEF Texted
  <2>3. G[n] \in Seq(AnyLine)
    BY <1>2
  <2>4. a.server \in Hosts /\ a.lines \in Seq(AnyLine)
    BY <2>1, AnswerTyped
  <2> HIDE DEF a
  <2>5. Comment(a.server) \in Seq(AnyLine)
    <3> DEFINE x == Comment(a.server)[1]
    <3>1. Comment(a.server) = <<x>> /\ x \in AnyLine
      BY <2>4, CommentSkipped
    <3> HIDE DEF x
    <3> QED
      BY <3>1
  <2> QED
    BY <2>2, <2>3, <2>4, <2>5
<1>3. Nat \subseteq U
  <2> HIDE DEF U
  <2> QED
    BY <1>1, <1>2, AllNumbers
<1> QED
  BY <1>3

LEMMA NextAnswer ==
  ASSUME NEW answers \in Seq(Part), NEW G, Texted(G, answers), NEW n \in 1..Len(answers)
  PROVE  /\ Follows(ParseRaw(G[n]), ParseRaw(G[n - 1]), ParseRaw(answers[n].lines))
         /\ NoMatch(G[n - 1]) \/ NoMatch(answers[n].lines) => NoMatch(G[n])
<1> DEFINE s == G[n - 1]
           t == answers[n].lines
           x == Comment(answers[n].server)[1]
<1>1. n - 1 \in 0..Len(answers) /\ answers[n] \in Part
  OBVIOUS
<1>2. s \in Seq(AnyLine) /\ t \in Seq(AnyLine)
  BY <1>1, TextTyped, AnswerTyped
<1>3. Comment(answers[n].server) = <<x>> /\ x \in AnyLine /\ Skipped(x)
  BY <1>1, AnswerTyped, CommentSkipped
<1>4. G[n] = s \o <<x>> \o t
  BY <1>3 DEF Texted
<1> HIDE DEF s, t, x
<1>5. Follows(ParseRaw(s \o <<x>> \o t), ParseRaw(s), ParseRaw(t))
  BY <1>2, <1>3, OneAfterTheOther
<1>6. NoMatch(s) \/ NoMatch(t) => NoMatch(s \o <<x>> \o t)
  <2> DEFINE w == s \o <<x>> \o t
  <2>1. /\ DOMAIN s = 1..Len(s) /\ DOMAIN t = 1..Len(t) /\ DOMAIN w = 1..(Len(s) + 1 + Len(t))
        /\ Len(s) \in Nat /\ Len(t) \in Nat
        /\ \A k \in 1..Len(s) : w[k] = s[k]
        /\ \A k \in 1..Len(t) : w[Len(s) + 1 + k] = t[k]
    BY <1>2, <1>3
  <2> HIDE DEF w
  <2>2. \A k \in DOMAIN s : k \in DOMAIN w /\ w[k] = s[k]
    BY <2>1
  <2>3. \A k \in DOMAIN t : Len(s) + 1 + k \in DOMAIN w /\ w[Len(s) + 1 + k] = t[k]
    BY <2>1
  <2>4. NoMatch(s) => NoMatch(w)
    BY <2>2, Zenon DEF NoMatch
  <2>5. NoMatch(t) => NoMatch(w)
    BY <2>3, Zenon DEF NoMatch
  <2> QED
    BY <2>4, <2>5 DEF w
<1> QED
  BY <1>4, <1>5, <1>6 DEF s, t

LEMMA NothingRead ==
  /\ ParseRaw(<<>>).available = FALSE /\ ParseRaw(<<>>).has = {} /\ ParseRaw(<<>>).ns = <<>>
  /\ \A b \in Blocks, k \in Keys : ParseRaw(<<>>).f[b][k] = Empty
<1>1. Len(<<>>) = 0 /\ DOMAIN <<>> = {}
  OBVIOUS
<1>2. ParseRaw(<<>>) = Start(<<>>)
  <2> DEFINE none == <<>>
  <2>1. Len(none) \in Nat /\ Len(none) = 0
    BY <1>1
  <2> HIDE DEF none
  <2>2. ParseRaw(none) = Start(none)
    BY <2>1, Parsed
  <2> QED
    BY <2>2 DEF none
<1>3. NoMatch(<<>>) = FALSE
  BY <1>1, Zenon DEF NoMatch
<1> QED
  BY <1>2, <1>3, StartIs, NoInfoIs

-----------------------------------------------------------------------------
(* What the page says *)

LEMMA FieldSet ==
  ASSUME NEW f, f = [k \in Keys |-> f[k]], NEW x, NEW y
  PROVE  [f EXCEPT ![x] = y] = [k \in Keys |-> [f EXCEPT ![x] = y][k]]
OBVIOUS

LEMMA NoPartSet ==
  ASSUME NEW f, f = [b \in Blocks |-> [k \in Keys |-> f[b][k]]], NEW b, b \notin Blocks, NEW g
  PROVE  [f EXCEPT ![b] = g] = f
<1>1. DOMAIN f = Blocks /\ f = [c \in Blocks |-> f[c]]
  OBVIOUS
<1>2. [f EXCEPT ![b] = g] = [c \in Blocks |-> IF c = b THEN g ELSE f[c]]
  BY <1>1
<1>3. [c \in Blocks |-> IF c = b THEN g ELSE f[c]] = [c \in Blocks |-> f[c]]
  OBVIOUS
<1> QED
  BY <1>1, <1>2, <1>3

(* The fields of a part after a row about it. *)
RowFields(f, row) ==
  LET v == row.vals[1] IN
    IF row.key = "email" /\ row.block = "registrar" THEN PickContact(f, "url", "abuseEmail", v)
    ELSE IF row.key = "email" THEN PickContact(f, "web", "email", v)
    ELSE IF row.key = "location" /\ f.location # Empty THEN [f EXCEPT !.location = Joined(@, v)]
    ELSE IF row.key \in Keys THEN [f EXCEPT ![row.key] = Value(row.key, v)]
    ELSE f

LEMMA RowFieldsSet ==
  ASSUME NEW f, f = [k \in Keys |-> f[k]], NEW row
  PROVE  RowFields(f, row) = [k \in Keys |-> RowFields(f, row)[k]]
<1>1. \/ RowFields(f, row) = f
      \/ \E x, y : RowFields(f, row) = [f EXCEPT ![x] = y]
  BY Zenon DEF RowFields, PickContact
<1>2. CASE RowFields(f, row) = f
  BY <1>2
<1>3. ASSUME NEW x, NEW y, RowFields(f, row) = [f EXCEPT ![x] = y]
      PROVE  RowFields(f, row) = [k \in Keys |-> RowFields(f, row)[k]]
  BY <1>3, FieldSet
<1> QED
  BY <1>1, <1>2, <1>3

LEMMA RowIs ==
  ASSUME NEW d, Shaped(d), NEW row
  PROVE  \/ ApplyRow(d, row) = d
         \/ \E s : ApplyRow(d, row) = WithStatus(d, s)
         \/ \E s : ApplyRow(d, row) = WithHosts(d, s)
         \/ ApplyRow(d, row) = WithFields(d, d.has \cup {row.block},
                                 [d.f EXCEPT ![row.block] = RowFields(d.f[row.block], row)])
<1>1. CASE row.vals = <<>>
  BY <1>1 DEF ApplyRow
<1>2. CASE row.vals # <<>> /\ row.key = "status"
  <2>1. ApplyRow(d, row) = WithStatus(d, d.status \o row.vals)
    BY <1>2 DEF ApplyRow, WithStatus
  <2> QED
    BY <2>1
<1>3. CASE row.vals # <<>> /\ row.key = "ns"
  <2>1. ApplyRow(d, row) = WithHosts(d, HostsIn(row.vals))
    BY <1>3 DEF ApplyRow, WithHosts
  <2> QED
    BY <2>1
<1>4. CASE row.vals # <<>> /\ row.key \notin {"status", "ns"}
  <2>1. ApplyRow(d, row) = WithFields(d, d.has \cup {row.block},
                             [d.f EXCEPT ![row.block] = RowFields(d.f[row.block], row)])
    BY <1>4, Zenon DEF ApplyRow, WithFields, RowFields
  <2> QED
    BY <2>1
<1> QED
  BY <1>1, <1>2, <1>3, <1>4

LEMMA RowShaped ==
  ASSUME NEW d, Shaped(d), NEW row
  PROVE  Shaped(ApplyRow(d, row))
<1> DEFINE e == ApplyRow(d, row)
           g == RowFields(d.f[row.block], row)
           F == [d.f EXCEPT ![row.block] = g]
<1>1. d.f = [b \in Blocks |-> [k \in Keys |-> d.f[b][k]]]
  BY DEF Shaped
<1>2. F = [b \in Blocks |-> [k \in Keys |-> F[b][k]]]
  <2>1. CASE row.block \in Blocks
    <3>1. d.f[row.block] = [k \in Keys |-> d.f[row.block][k]]
      BY <1>1, <2>1
    <3>2. g = [k \in Keys |-> g[k]]
      BY <3>1, RowFieldsSet
    <3> HIDE DEF g
    <3> QED
      BY <1>1, <3>2, FieldsSet
  <2>2. CASE row.block \notin Blocks
    <3> HIDE DEF g
    <3>1. F = d.f
      BY <1>1, <2>2, NoPartSet
    <3> QED
      BY <1>1, <3>1
  <2> QED
    BY <2>1, <2>2
<1>3. ASSUME e = d PROVE Shaped(e)
  BY <1>3
<1>4. ASSUME NEW s, e = WithStatus(d, s) PROVE Shaped(e)
  BY <1>4, StatusSet DEF Shaped
<1>5. ASSUME NEW s, e = WithHosts(d, s) PROVE Shaped(e)
  BY <1>5, HostsSet DEF Shaped
<1>6. ASSUME e = WithFields(d, d.has \cup {row.block}, F) PROVE Shaped(e)
  <2> HIDE DEF F, e
  <2>1. IsRecord(e) /\ e.available = d.available /\ e.f = F
    BY <1>6, PartSet
  <2>2. d.available \in BOOLEAN
    BY DEF Shaped
  <2>3. e.f = [b \in Blocks |-> [k \in Keys |-> e.f[b][k]]]
    BY <1>2, <2>1, Zenon
  <2>4. Shaped(e)
    BY <2>1, <2>2, <2>3 DEF Shaped
  <2> QED
    BY <2>4 DEF e
<1>7. \/ e = d \/ (\E s : e = WithStatus(d, s)) \/ (\E s : e = WithHosts(d, s))
      \/ e = WithFields(d, d.has \cup {row.block}, F)
  BY RowIs
<1> HIDE DEF e, F
<1>8. Shaped(e)
  BY <1>3, <1>4, <1>5, <1>6, <1>7, Zenon
<1> QED
  BY <1>8 DEF e

LEMMA SiteShaped ==
  ASSUME NEW p, Len(p.rows) \in Nat
  PROVE  Shaped(SiteInfo(p))
<1> DEFINE start == [NoInfo EXCEPT !.raw = p.raw]
           rows == p.rows
<1>1. Shaped(start)
  <2>1. start = [available |-> NoInfo.available, has |-> NoInfo.has, f |-> NoInfo.f,
                 status |-> NoInfo.status, ns |-> NoInfo.ns, raw |-> p.raw]
    <3>1. IsRecord(NoInfo)
      BY NoInfoIs DEF Shaped
    <3> QED
      BY <3>1 DEF IsRecord
  <2> HIDE DEF start
  <2> QED
    BY <2>1, NoInfoIs DEF Shaped, IsRecord
<1>2. SiteInfo(p) = Result("rows", start, rows) /\ Len(rows) \in Nat
  BY SiteInfoIs
<1> HIDE DEF start, rows
<1> DEFINE m == Len(rows)
<1>3. PICK g : /\ Result("rows", start, rows) = g[m]
               /\ g[0] = start
               /\ \A n \in 1..m : g[n] = Turn("rows", g[n - 1], rows[n])
  BY <1>2, ResultIs
<1>4. \A acc, x : Turn("rows", acc, x) = ApplyRow(acc, x)
  BY DEF Turn
<1> DEFINE U == {n \in Nat : n <= m => Shaped(g[n])}
<1>5. m \in Nat
  BY <1>2
<1> HIDE DEF m
<1>6. 0 \in U
  BY <1>1, <1>3
<1>7. ASSUME NEW n \in Nat, n \in U PROVE n + 1 \in U
  <2> SUFFICES ASSUME n + 1 <= m PROVE Shaped(g[n + 1])
    OBVIOUS
  <2>1. n + 1 \in 1..m /\ (n + 1) - 1 = n /\ Shaped(g[n])
    BY <1>5, <1>7
  <2>2. g[n + 1] = ApplyRow(g[n], rows[n + 1])
    BY <1>3, <1>4, <2>1
  <2> QED
    BY <2>1, <2>2, RowShaped
<1>8. Nat \subseteq U
  <2> HIDE DEF U
  <2> QED
    BY <1>6, <1>7, AllNumbers
<1> QED
  BY <1>2, <1>3, <1>5, <1>8

-----------------------------------------------------------------------------
(* What the chain says, answer by answer *)

TextLen(G, answers) == \A n \in 0..Len(answers) : Len(G[n]) \in Nat

LEMMA TextHasLength ==
  ASSUME NEW answers \in Seq(Part), NEW G, Texted(G, answers)
  PROVE  TextLen(G, answers)
<1>1. \A n \in 0..Len(answers) : G[n] \in Seq(AnyLine)
  BY TextTyped
<1> QED
  BY <1>1 DEF TextLen

LEMMA PartHasLength ==
  ASSUME NEW answers \in Seq(Part), NEW n \in 1..Len(answers)
  PROVE  Len(answers[n].lines) \in Nat
<1>1. answers[n] \in Part
  OBVIOUS
<1>2. answers[n].lines \in Seq(AnyLine)
  BY <1>1, AnswerTyped
<1> QED
  BY <1>2

(* Nothing can be said by both only if neither says anything.              *)
LEMMA FollowsNothing ==
  ASSUME NEW d, NEW base, NEW e, Follows(d, base, e), Nothing(d),
         base.available \/ e.available => d.available
  PROVE  Nothing(base) /\ Nothing(e)
<1>1. "domain" \in Blocks /\ "registered" \in Keys
  BY DEF Blocks, Keys
<1>2. \A x, y : Keep(x, y) = Empty => x = Empty /\ y = Empty
  BY Zenon DEF Keep
<1>3. d.f["domain"].registered = Keep(base.f["domain"].registered, e.f["domain"].registered)
  BY <1>1 DEF Follows
<1>4. base.f["domain"].registered = Empty /\ e.f["domain"].registered = Empty
  BY <1>2, <1>3 DEF Nothing, Bare
<1> QED
  BY <1>4 DEF Follows, Nothing, Bare

LEMMA NothingOfAnswers ==
  ASSUME NEW answers \in Seq(Part), Nothing(ParseRaw(Glued(answers))),
         NEW j \in 1..Len(answers)
  PROVE  Nothing(ParseRaw(answers[j].lines))
<1> DEFINE m == Len(answers)
<1>1. PICK G : Glued(answers) = G[m] /\ Texted(G, answers)
  BY GluedLoop
<1>2. ASSUME NEW n \in 1..m, Nothing(ParseRaw(G[n]))
      PROVE  Nothing(ParseRaw(G[n - 1])) /\ Nothing(ParseRaw(answers[n].lines))
  <2>1. Follows(ParseRaw(G[n]), ParseRaw(G[n - 1]), ParseRaw(answers[n].lines))
    BY <1>1, NextAnswer
  <2>2. NoMatch(G[n - 1]) \/ NoMatch(answers[n].lines) => NoMatch(G[n])
    BY <1>1, NextAnswer
  <2>3. n \in 0..m /\ n - 1 \in 0..m
    OBVIOUS
  <2>4. Len(G[n]) \in Nat /\ Len(G[n - 1]) \in Nat /\ Len(answers[n].lines) \in Nat
    BY <1>1, <2>3, TextHasLength, PartHasLength DEF TextLen
  <2>5. /\ ParseRaw(G[n]).available = NoMatch(G[n])
        /\ ParseRaw(G[n - 1]).available = NoMatch(G[n - 1])
        /\ ParseRaw(answers[n].lines).available = NoMatch(answers[n].lines)
    BY <2>4, ParsedShape
  <2> QED
    BY <1>2, <2>1, <2>2, <2>5, FollowsNothing
<1> DEFINE U == {n \in Nat : n <= m /\ Nothing(ParseRaw(G[n])) =>
                               \A k \in 1..n : Nothing(ParseRaw(answers[k].lines))}
<1>3. 0 \in U
  OBVIOUS
<1>4. ASSUME NEW n \in Nat, n \in U PROVE n + 1 \in U
  <2> SUFFICES ASSUME n + 1 <= m, Nothing(ParseRaw(G[n + 1])), NEW k \in 1..(n + 1)
               PROVE  Nothing(ParseRaw(answers[k].lines))
    OBVIOUS
  <2>1. n + 1 \in 1..m /\ (n + 1) - 1 = n /\ n <= m
    OBVIOUS
  <2>2. Nothing(ParseRaw(G[n])) /\ Nothing(ParseRaw(answers[n + 1].lines))
    BY <1>2, <2>1
  <2>3. \A i \in 1..n : Nothing(ParseRaw(answers[i].lines))
    BY <1>4, <2>1, <2>2
  <2> QED
    BY <2>2, <2>3
<1>5. m \in Nat /\ m \in U
  <2>1. Nat \subseteq U
    <3> HIDE DEF U
    <3> QED
      BY <1>3, <1>4, AllNumbers
  <2> QED
    BY <2>1
<1>6. Nothing(ParseRaw(G[m]))
  BY <1>1
<1> QED
  BY <1>5, <1>6

(* v is what the first of v0, h[1], ..., h[n] that is set says. *)
FirstOf(v, v0, h, n) ==
  IF v = Empty THEN v0 = Empty /\ \A j \in 1..n : h[j] = Empty
  ELSE \/ v = v0
       \/ v0 = Empty /\ \E j \in 1..n : h[j] = v /\ \A i \in 1..(j - 1) : h[i] = Empty

LEMMA OneMore ==
  ASSUME NEW n \in Nat, NEW v, NEW v0, NEW h, FirstOf(v, v0, h, n)
  PROVE  FirstOf(Keep(v, h[n + 1]), v0, h, n + 1)
<1>1. CASE v = Empty
  <2>1. v0 = Empty /\ \A j \in 1..n : h[j] = Empty
    BY <1>1 DEF FirstOf
  <2>2. Keep(v, h[n + 1]) = h[n + 1]
    BY <1>1, KeepEmpty
  <2>3. CASE h[n + 1] = Empty
    <3>1. \A j \in 1..(n + 1) : h[j] = Empty
      BY <2>1, <2>3
    <3> QED
      BY <2>1, <2>2, <2>3, <3>1 DEF FirstOf
  <2>4. CASE h[n + 1] # Empty
    <3>1. n + 1 \in 1..(n + 1) /\ \A i \in 1..((n + 1) - 1) : h[i] = Empty
      BY <2>1
    <3> QED
      BY <2>1, <2>2, <2>4, <3>1 DEF FirstOf
  <2> QED
    BY <2>3, <2>4
<1>2. CASE v # Empty
  <2>1. Keep(v, h[n + 1]) = v
    BY <1>2 DEF Keep
  <2>2. \A j \in 1..n : j \in 1..(n + 1)
    OBVIOUS
  <2> QED
    BY <1>2, <2>1, <2>2 DEF FirstOf
<1> QED
  BY <1>1, <1>2

LEMMA FirstOfAnswers ==
  ASSUME NEW answers \in Seq(Part), NEW b \in Blocks, NEW k \in Keys, NEW v0,
         NEW h, \A j \in 1..Len(answers) : h[j] = ParseRaw(answers[j].lines).f[b][k]
  PROVE  FirstOf(Keep(v0, ParseRaw(Glued(answers)).f[b][k]), v0, h, Len(answers))
<1> DEFINE m == Len(answers)
<1>1. PICK G : Glued(answers) = G[m] /\ Texted(G, answers)
  BY GluedLoop
<1> DEFINE P(n) == ParseRaw(G[n]).f[b][k]
           U == {n \in Nat : n <= m => FirstOf(Keep(v0, P(n)), v0, h, n)}
<1>2. 0 \in U
  <2>1. G[0] = <<>>
    BY <1>1 DEF Texted
  <2>2. P(0) = Empty
    BY <2>1, NothingRead
  <2> HIDE DEF P
  <2>3. Keep(v0, P(0)) = v0
    BY <2>2, KeepEmpty
  <2> QED
    BY <2>3 DEF FirstOf
<1>3. ASSUME NEW n \in Nat, n \in U PROVE n + 1 \in U
  <2> SUFFICES ASSUME n + 1 <= m PROVE FirstOf(Keep(v0, P(n + 1)), v0, h, n + 1)
    OBVIOUS
  <2>1. n + 1 \in 1..m /\ (n + 1) - 1 = n /\ n <= m
    OBVIOUS
  <2>2. Follows(ParseRaw(G[n + 1]), ParseRaw(G[n]), ParseRaw(answers[n + 1].lines))
    BY <1>1, <2>1, NextAnswer
  <2>3. P(n + 1) = Keep(P(n), h[n + 1])
    BY <2>1, <2>2 DEF Follows
  <2>4. FirstOf(Keep(v0, P(n)), v0, h, n)
    BY <1>3, <2>1
  <2> HIDE DEF P
  <2>5. Keep(v0, P(n + 1)) = Keep(Keep(v0, P(n)), h[n + 1])
    BY <2>3, KeepFirst
  <2> QED
    BY <2>4, <2>5, OneMore
<1>4. m \in Nat /\ m \in U
  <2>1. Nat \subseteq U
    <3> HIDE DEF U
    <3> QED
      BY <1>2, <1>3, AllNumbers
  <2> QED
    BY <2>1
<1> QED
  BY <1>1, <1>4

-----------------------------------------------------------------------------
(* How the report comes out of the page and the chain *)

(* d and s say the same of everything a report is judged by. *)
Alike(d, s) == d.available = s.available /\ d.has = s.has /\ d.f = s.f /\ d.ns = s.ns

(* d is what the page says, s, completed by what the chain says, p: field  *)
(* by field, but for a contact of the page.                                *)
Completes(d, s, p) ==
  /\ d.available = (s.available \/ p.available)
  /\ d.has = s.has \cup p.has
  /\ (d.ns = <<>>) = (s.ns = <<>> /\ p.ns = <<>>)
  /\ \A b \in Blocks : b \in Roles /\ b \in s.has => d.f[b] = s.f[b]
  /\ \A b \in Blocks : ~(b \in Roles /\ b \in s.has) =>
       \A k \in Keys : d.f[b][k] = Keep(s.f[b][k], p.f[b][k])

LEMMA MergeCompletes ==
  ASSUME NEW d, NEW s, NEW p, Alike(d, s)
  PROVE  Completes(Merge(d, p), s, p)
<1> DEFINE m == Merge(d, p)
           F == [b \in Blocks |-> IF b \in Roles /\ b \in d.has THEN d.f[b]
                                  ELSE [k \in Keys |-> Keep(d.f[b][k], p.f[b][k])]]
<1>1. /\ m.available = (d.available \/ p.available) /\ m.has = d.has \cup p.has
      /\ m.ns = IF d.ns = <<>> THEN p.ns ELSE d.ns
      /\ m.f = F
  BY DEF Merge
<1>2. \A b \in Blocks : b \in Roles /\ b \in d.has => F[b] = d.f[b]
  OBVIOUS
<1>3. \A b \in Blocks : ~(b \in Roles /\ b \in d.has) =>
        \A k \in Keys : F[b][k] = Keep(d.f[b][k], p.f[b][k])
  OBVIOUS
<1> HIDE DEF m, F
<1>4. Completes(m, s, p)
  BY <1>1, <1>2, <1>3 DEF Alike, Completes
<1> QED
  BY <1>4 DEF m

LEMMA NoMergeCompletes ==
  ASSUME NEW d, NEW s, NEW p, Alike(d, s), s.available \in BOOLEAN,
         p.available = FALSE, p.has = {}, p.ns = <<>>,
         \A b \in Blocks, k \in Keys : p.f[b][k] = Empty
  PROVE  Completes(d, s, p)
BY KeepEmpty DEF Alike, Completes

LEMMA MergeOfPage ==
  ASSUME NEW d, NEW s, Shaped(s), Alike(d, NoInfo)
  PROVE  Alike(Merge(d, s), s)
<1> DEFINE m == Merge(d, s)
           F == [b \in Blocks |-> IF b \in Roles /\ b \in d.has THEN d.f[b]
                                  ELSE [k \in Keys |-> Keep(d.f[b][k], s.f[b][k])]]
<1>1. /\ m.available = (d.available \/ s.available) /\ m.has = d.has \cup s.has
      /\ m.ns = IF d.ns = <<>> THEN s.ns ELSE d.ns
      /\ m.f = F
  BY DEF Merge
<1>2. /\ d.available = FALSE /\ d.has = {} /\ d.ns = <<>>
      /\ \A b \in Blocks, k \in Keys : d.f[b][k] = Empty
  BY NoInfoIs DEF Alike
<1>3. F = [b \in Blocks |-> [k \in Keys |-> s.f[b][k]]]
  <2>1. ASSUME NEW b \in Blocks
        PROVE  (IF b \in Roles /\ b \in d.has THEN d.f[b]
                ELSE [k \in Keys |-> Keep(d.f[b][k], s.f[b][k])]) = [k \in Keys |-> s.f[b][k]]
    BY <1>2, KeepEmpty
  <2> QED
    BY <2>1
<1>4. s.f = [b \in Blocks |-> [k \in Keys |-> s.f[b][k]]] /\ s.available \in BOOLEAN
  BY DEF Shaped
<1> HIDE DEF m, F
<1>5. m.f = s.f
  BY <1>1, <1>3, <1>4, Zenon
<1>6. Alike(m, s)
  BY <1>1, <1>2, <1>4, <1>5 DEF Alike
<1> QED
  BY <1>6 DEF m

LEMMA PageRows ==
  ASSUME NEW p \in Pages \cup {NoPage}
  PROVE  Shaped(SiteInfo(p))
<1>1. Len(p.rows) \in Nat
  <2>1. CASE p \in Pages
    <3>1. p.rows \in Seq(RowOfPage)
      BY <2>1, WhoisAssumption, Zenon DEF WhoisAssumption
    <3> QED
      BY <3>1
  <2>2. CASE p = NoPage
    <3>1. p.rows = <<>> /\ Len(<<>>) = 0
      BY <2>2 DEF NoPage
    <3> QED
      BY <3>1
  <2> QED
    BY <2>1, <2>2
<1> QED
  BY <1>1, SiteShaped

LEMMA NoPageIs == Alike(NoInfo, SiteInfo(NoPage))
<1> DEFINE start == [NoInfo EXCEPT !.raw = NoPage.raw]
           rows == NoPage.rows
<1>1. Len(rows) = 0
  BY DEF NoPage
<1>2. SiteInfo(NoPage) = Result("rows", start, rows)
  BY SiteInfoIs
<1>3. Alike(NoInfo, start)
  <2>1. start = [available |-> NoInfo.available, has |-> NoInfo.has, f |-> NoInfo.f,
                 status |-> NoInfo.status, ns |-> NoInfo.ns, raw |-> NoPage.raw]
    <3>1. IsRecord(NoInfo)
      BY NoInfoIs DEF Shaped
    <3> QED
      BY <3>1 DEF IsRecord
  <2> HIDE DEF start
  <2> QED
    BY <2>1 DEF Alike
<1> HIDE DEF start, rows
<1>4. PICK g : Result("rows", start, rows) = g[Len(rows)] /\ g[0] = start
  BY <1>1, ResultIs
<1> QED
  BY <1>1, <1>2, <1>3, <1>4

LEMMA NoAnswers ==
  ASSUME NEW answers, answers = <<>>
  PROVE  Glued(answers) = <<>>
<1> DEFINE none == <<>>
<1>1. Len(none) = 0
  OBVIOUS
<1>2. Glued(none) = Result("answers", none, none)
  BY GluedIs
<1> HIDE DEF none
<1>3. PICK g : Result("answers", none, none) = g[Len(none)] /\ g[0] = none
  BY <1>1, ResultIs
<1>4. Glued(none) = none
  BY <1>1, <1>2, <1>3
<1> QED
  BY <1>4 DEF none

-----------------------------------------------------------------------------
(* The report is the page's, and then the page's completed by the chain *)

BeforeChainEnds == {"normalize", "refused", "site", "root", "chain"}
AfterChain      == {"dns", "report", "error"}

Told ==
  /\ page \in Pages \cup {NoPage}
  /\ at \in BeforeChainEnds => Alike(info, SiteInfo(page))
  /\ at \in AfterChain => Completes(info, SiteInfo(page), ParseRaw(Glued(parts)))
  /\ at = "error" => Nothing(info)

Noted ==
  at \in {"root", "chain", "dns", "report", "error"} => ("whois.com" \in notes) = (page = NoPage)

InfoInv == ChainInv /\ Told /\ Noted

LEMMA InfoInit == Init => InfoInv
BY ChainInit, NoPageIs DEF Init, InfoInv, Told, Noted, BeforeChainEnds, AfterChain

(* With nothing asked, what the page says is all there is.                 *)
LEMMA PageAlone ==
  ASSUME NEW p \in Pages \cup {NoPage}, NEW d, Alike(d, SiteInfo(p)), NEW answers, answers = <<>>
  PROVE  Completes(d, SiteInfo(p), ParseRaw(Glued(answers)))
<1>1. Glued(answers) = <<>>
  BY NoAnswers
<1>2. SiteInfo(p).available \in BOOLEAN
  BY PageRows DEF Shaped
<1> DEFINE r == ParseRaw(Glued(answers))
<1>3. /\ r.available = FALSE /\ r.has = {} /\ r.ns = <<>>
      /\ \A b \in Blocks, k \in Keys : r.f[b][k] = Empty
  BY <1>1, NothingRead
<1> HIDE DEF r
<1>4. Completes(d, SiteInfo(p), r)
  BY <1>2, <1>3, NoMergeCompletes
<1> QED
  BY <1>4 DEF r

LEMMA NormalizeTold == ASSUME InfoInv, Normalize PROVE Told' /\ Noted'
BY DEF InfoInv, Told, Noted, Normalize, BeforeChainEnds, AfterChain

LEMMA SiteFailsTold ==
  ASSUME InfoInv, SiteFails
  PROVE  Told' /\ Noted'
<1>1. /\ at = "site" /\ info' = info /\ page' = page /\ parts' = parts /\ page = NoPage
      /\ parts = <<>> /\ notes' = notes \cup {"whois.com"} /\ at' \in {"root", "dns"}
      /\ Alike(info, SiteInfo(page))
  BY DEF SiteFails, InfoInv, Told, ChainInv, Before, chain, AfterSite, BeforeChainEnds
<1>2. Completes(info', SiteInfo(page'), ParseRaw(Glued(parts')))
  BY <1>1, PageAlone
<1> QED
  BY <1>1, <1>2 DEF Told, Noted, BeforeChainEnds, AfterChain

LEMMA SiteTold ==
  ASSUME InfoInv, NEW p \in Pages, Site(p)
  PROVE  Told' /\ Noted'
<1>1. /\ page' = p /\ parts' = parts /\ notes' = notes /\ parts = <<>> /\ notes = {}
      /\ at' \in {"root", "dns"} /\ info = NoInfo /\ info' = Merge(info, SiteInfo(p))
  BY DEF Site, InfoInv, ChainInv, Before, chain, AfterSite
<1>2. p # NoPage
  BY DEF Site, PageFails, NoPage
<1>3. Alike(info', SiteInfo(page'))
  <2>1. Alike(info, NoInfo) /\ Shaped(SiteInfo(p))
    BY <1>1, PageRows DEF Alike
  <2> QED
    BY <1>1, <2>1, MergeOfPage
<1>4. Completes(info', SiteInfo(page'), ParseRaw(Glued(parts')))
  BY <1>1, <1>3, PageAlone
<1> QED
  BY <1>1, <1>2, <1>3, <1>4 DEF Told, Noted, BeforeChainEnds, AfterChain

LEMMA RootTold ==
  ASSUME InfoInv, RootFails \/ \E text \in Texts : Root(text)
  PROVE  Told' /\ Noted'
<1>1. /\ at = "root" /\ info' = info /\ page' = page /\ parts' = parts /\ parts = <<>>
      /\ ("whois.com" \in notes') = ("whois.com" \in notes)
      /\ at' \in {"chain", "dns"} /\ Alike(info, SiteInfo(page))
      /\ page \in Pages \cup {NoPage}
  <2>1. at = "root" /\ UNCHANGED <<info, page, parts>> /\ at' \in {"chain", "dns"}
    BY DEF Root, RootFails, ChainFails, chain
  <2>2. notes' = notes \/ notes' = notes \cup {"port43"}
    BY DEF Root, RootFails, ChainFails
  <2>3. parts = <<>> /\ Alike(info, SiteInfo(page)) /\ page \in Pages \cup {NoPage}
    BY <2>1 DEF InfoInv, Told, ChainInv, Before, BeforeChainEnds
  <2> QED
    BY <2>1, <2>2, <2>3
<1>2. Completes(info', SiteInfo(page'), ParseRaw(Glued(parts')))
  BY <1>1, PageAlone
<1> QED
  BY <1>1, <1>2 DEF InfoInv, Told, Noted, BeforeChainEnds, AfterChain

(* The chain ends: its text is merged into the report. *)
LEMMA EndTold ==
  ASSUME InfoInv, at = "chain", ChainEnds, page' = page
  PROVE  Told' /\ Noted'
<1>1. /\ at' = "dns" /\ notes' = notes /\ info' = Merge(info, ParseRaw(Glued(parts')))
      /\ Alike(info, SiteInfo(page))
  BY DEF ChainEnds, InfoInv, Told, BeforeChainEnds
<1>2. Completes(info', SiteInfo(page'), ParseRaw(Glued(parts')))
  BY <1>1, MergeCompletes
<1> QED
  BY <1>1, <1>2 DEF InfoInv, Told, Noted, BeforeChainEnds, AfterChain

LEMMA AnsweredTold ==
  ASSUME InfoInv, NEW text \in Texts, Answered(text)
  PROVE  Told' /\ Noted'
<1>1. at = "chain" /\ page' = page
  BY DEF Answered
<1>2. CASE Onward(server', asked')
  <2>1. UNCHANGED <<at, info, notes>>
    BY <1>2 DEF Answered
  <2> QED
    BY <1>1, <2>1 DEF InfoInv, Told, Noted, BeforeChainEnds, AfterChain
<1>3. CASE ~Onward(server', asked')
  <2>1. ChainEnds
    BY <1>3 DEF Answered
  <2> QED
    BY <1>1, <2>1, EndTold
<1> QED
  BY <1>2, <1>3

LEMMA ServerFailsTold ==
  ASSUME InfoInv, ServerFails
  PROVE  Told' /\ Noted'
<1>1. at = "chain" /\ page' = page /\ parts' = parts
  BY DEF ServerFails
<1>2. CASE parts = <<>>
  <2>1. at' = "dns" /\ info' = info /\ notes' = notes \cup {"port43"}
    BY <1>2 DEF ServerFails, NothingYet, ChainFails
  <2>2. Alike(info', SiteInfo(page')) /\ page \in Pages \cup {NoPage}
    BY <1>1, <2>1 DEF InfoInv, Told, BeforeChainEnds
  <2>3. Completes(info', SiteInfo(page'), ParseRaw(Glued(parts')))
    BY <1>1, <1>2, <2>2, PageAlone
  <2> QED
    BY <1>1, <2>1, <2>2, <2>3 DEF InfoInv, Told, Noted, BeforeChainEnds, AfterChain
<1>3. CASE parts # <<>>
  <2>1. ChainEnds
    BY <1>3 DEF ServerFails, NothingYet
  <2> QED
    BY <1>1, <2>1, EndTold
<1> QED
  BY <1>2, <1>3

LEMMA RestTold ==
  ASSUME InfoInv, (\E t \in Types, n \in Counts : Resolve(t, n)) \/ Return \/ UNCHANGED vars
  PROVE  Told' /\ Noted'
<1>1. CASE \E t \in Types, n \in Counts : Resolve(t, n)
  <2>1. UNCHANGED <<at, info, notes, parts, page>>
    BY <1>1 DEF Resolve, chain
  <2> QED
    BY <2>1 DEF InfoInv, Told, Noted, BeforeChainEnds, AfterChain
<1>2. CASE Return
  <2>1. /\ at = "dns" /\ at' = (IF Nothing(info) THEN "error" ELSE "report")
        /\ UNCHANGED <<info, notes, parts, page>>
    BY <1>2 DEF Return, chain
  <2> QED
    BY <2>1 DEF InfoInv, Told, Noted, BeforeChainEnds, AfterChain
<1>3. CASE UNCHANGED vars
  BY <1>3 DEF vars, InfoInv, Told, Noted, BeforeChainEnds, AfterChain
<1> QED
  BY <1>1, <1>2, <1>3

LEMMA InfoStep == InfoInv /\ [Next]_vars => InfoInv'
<1> SUFFICES ASSUME InfoInv, [Next]_vars PROVE InfoInv'
  OBVIOUS
<1>1. ChainInv'
  BY ChainStep DEF InfoInv
<1>2. Told' /\ Noted'
  BY NormalizeTold, SiteFailsTold, SiteTold, RootTold, AnsweredTold, ServerFailsTold, RestTold
     DEF Next
<1> QED
  BY <1>1, <1>2 DEF InfoInv

-----------------------------------------------------------------------------
(* What a reader of the report may rely on *)

LEMMA HeardIs ==
  ASSUME parts \in Seq(Part)
  PROVE  /\ DOMAIN Heard = 1..(1 + Len(parts)) /\ Heard[1] = SiteInfo(page)
         /\ \A j \in 1..Len(parts) : Heard[j + 1] = ParseRaw(parts[j].lines)
<1> DEFINE said == [k \in DOMAIN parts |-> ParseRaw(parts[k].lines)]
           X == {said[k] : k \in DOMAIN parts} \cup {SiteInfo(page)}
           x == SiteInfo(page)
<1>1. /\ DOMAIN parts = 1..Len(parts) /\ Len(parts) \in Nat
      /\ \A j \in 1..Len(parts) : said[j] = ParseRaw(parts[j].lines)
  OBVIOUS
<1>2. DOMAIN said = 1..Len(parts) /\ said = [k \in 1..Len(parts) |-> said[k]]
      /\ \A k \in 1..Len(parts) : said[k] \in X
  BY <1>1
<1>3. Heard = <<x>> \o said /\ x \in X
  BY DEF Heard
<1> HIDE DEF said, X, x
<1>4. said \in Seq(X) /\ Len(said) = Len(parts)
  BY <1>1, <1>2
<1>5. /\ DOMAIN (<<x>> \o said) = 1..(1 + Len(parts)) /\ (<<x>> \o said)[1] = x
      /\ \A j \in 1..Len(parts) : (<<x>> \o said)[j + 1] = said[j]
  BY <1>1, <1>3, <1>4
<1> QED
  BY <1>1, <1>3, <1>5 DEF x

LEMMA FirstIsSaid ==
  ASSUME parts \in Seq(Part), NEW b \in Blocks, NEW k \in Keys, NEW h,
         \A j \in 1..Len(parts) : h[j] = ParseRaw(parts[j].lines).f[b][k],
         NEW v, FirstOf(v, SiteInfo(page).f[b][k], h, Len(parts))
  PROVE  FirstSaid(v, b, k)
<1> DEFINE w(j) == Heard[j].f[b][k]
           n == Len(parts)
<1>1. n \in Nat /\ DOMAIN Heard = 1..(1 + n)
  BY HeardIs
<1>2. w(1) = SiteInfo(page).f[b][k] /\ \A j \in 1..n : w(j + 1) = h[j]
  BY HeardIs
<1>3. FirstOf(v, w(1), h, n)
  BY <1>2
<1>4. FirstSaid(v, b, k) <=>
        IF v = Empty THEN \A j \in 1..(1 + n) : w(j) = Empty
        ELSE \E j \in 1..(1 + n) : w(j) = v /\ \A i \in 1..(j - 1) : w(i) = Empty
  BY <1>1, Zenon DEF FirstSaid
<1> HIDE DEF w, n
<1>5. CASE v = Empty
  <2>1. ASSUME NEW j \in 1..(1 + n) PROVE w(j) = Empty
    <3>1. j = 1 \/ (j - 1 \in 1..n /\ (j - 1) + 1 = j)
      BY <1>1
    <3> QED
      BY <1>2, <1>3, <1>5, <3>1 DEF FirstOf
  <2> QED
    BY <1>4, <1>5, <2>1
<1>6. CASE v # Empty /\ v = w(1)
  <2>1. 1 \in 1..(1 + n) /\ \A i \in 1..(1 - 1) : w(i) = Empty
    BY <1>1
  <2> QED
    BY <1>4, <1>6, <2>1
<1>7. CASE v # Empty /\ v # w(1)
  <2>1. PICK j \in 1..n : h[j] = v /\ \A i \in 1..(j - 1) : h[i] = Empty
    BY <1>3, <1>7 DEF FirstOf
  <2>2. w(1) = Empty
    BY <1>3, <1>7 DEF FirstOf
  <2>3. j + 1 \in 1..(1 + n) /\ w(j + 1) = v
    BY <1>1, <1>2, <2>1
  <2>4. ASSUME NEW i \in 1..((j + 1) - 1) PROVE w(i) = Empty
    <3>1. i = 1 \/ (i - 1 \in 1..(j - 1) /\ i - 1 \in 1..n /\ (i - 1) + 1 = i)
      BY <1>1
    <3> QED
      BY <1>2, <2>1, <2>2, <3>1
  <2> QED
    BY <1>4, <1>7, <2>3, <2>4
<1> QED
  BY <1>5, <1>6, <1>7

LEMMA FirstKept == InfoInv => FirstSourceWins
<1> SUFFICES ASSUME InfoInv, Ended PROVE FirstSourceWins
  BY DEF FirstSourceWins
<1>1. parts \in Seq(Part)
  BY DEF InfoInv, ChainInv, Heads
<1> DEFINE s == SiteInfo(page)
           p == ParseRaw(Glued(parts))
<1>2. Completes(info, s, p)
  BY DEF InfoInv, Told, AfterChain, Ended
<1>3. Heard[1] = s
  BY <1>1, HeardIs
<1>4. ASSUME NEW b \in {"domain", "registrar"}, NEW k \in Keys
      PROVE  FirstSaid(info.f[b][k], b, k)
  <2>1. b \in Blocks /\ b \notin Roles
    BY Zenon DEF Blocks, Roles
  <2> DEFINE h == [j \in 1..Len(parts) |-> ParseRaw(parts[j].lines).f[b][k]]
  <2>2. \A j \in 1..Len(parts) : h[j] = ParseRaw(parts[j].lines).f[b][k]
    OBVIOUS
  <2> HIDE DEF h
  <2>3. FirstOf(Keep(s.f[b][k], p.f[b][k]), s.f[b][k], h, Len(parts))
    BY <1>1, <2>1, <2>2, FirstOfAnswers
  <2>4. info.f[b][k] = Keep(s.f[b][k], p.f[b][k])
    BY <1>2, <2>1 DEF Completes
  <2>5. FirstOf(info.f[b][k], SiteInfo(page).f[b][k], h, Len(parts))
    BY <2>3, <2>4
  <2> HIDE DEF s, p
  <2> QED
    BY <1>1, <2>1, <2>2, <2>5, FirstIsSaid
<1> HIDE DEF s, p
<1>5. \A b \in Roles \cap Heard[1].has : info.f[b] = Heard[1].f[b]
  <2>1. Roles \subseteq Blocks
    BY Zenon DEF Blocks
  <2> QED
    BY <1>2, <1>3, <2>1 DEF Completes
<1> QED
  BY <1>4, <1>5 DEF FirstSourceWins

(* Whatever the page and the servers leave out and wherever the chain      *)
(* breaks, each field of the domain and of the registrar that has one      *)
(* value is that of the first source that has it, and a contact of the     *)
(* page stays whole.                                                       *)
THEOREM FirstSourceIsKept == Spec => []FirstSourceWins
BY FirstKept, InfoInit, InfoStep, PTL DEF Spec

LEMMA NothingLost == InfoInv => EssentialsKept
<1> SUFFICES ASSUME InfoInv PROVE EssentialsKept
  OBVIOUS
<1>1. parts \in Seq(Part)
  BY DEF InfoInv, ChainInv, Heads
<1>2. ASSUME at = "error", NEW j \in DOMAIN Heard PROVE Nothing(Heard[j])
  <2> DEFINE s == SiteInfo(page)
             p == ParseRaw(Glued(parts))
  <2>1. Completes(info, s, p) /\ Nothing(info)
    BY <1>2 DEF InfoInv, Told, AfterChain
  <2>2. Nothing(p) /\ Nothing(s)
    <3>1. "domain" \in Blocks /\ "domain" \notin Roles /\ "registered" \in Keys
      BY DEF Blocks, Roles, Keys
    <3>2. \A x, y : Keep(x, y) = Empty => x = Empty /\ y = Empty
      BY Zenon DEF Keep
    <3> HIDE DEF s, p
    <3>3. info.f["domain"]["registered"]
            = Keep(s.f["domain"]["registered"], p.f["domain"]["registered"])
      BY <2>1, <3>1 DEF Completes
    <3>4. s.f["domain"].registered = Empty /\ p.f["domain"].registered = Empty
      BY <2>1, <3>2, <3>3 DEF Nothing, Bare
    <3> QED
      BY <2>1, <3>4 DEF Completes, Nothing, Bare
  <2>3. j = 1 \/ (j - 1 \in 1..Len(parts) /\ (j - 1) + 1 = j)
    BY <1>1, HeardIs
  <2>4. CASE j = 1
    BY <1>1, <2>2, <2>4, HeardIs
  <2>5. CASE j - 1 \in 1..Len(parts) /\ (j - 1) + 1 = j
    <3>1. Nothing(ParseRaw(parts[j - 1].lines))
      BY <1>1, <2>2, <2>5, NothingOfAnswers
    <3>2. Heard[j] = ParseRaw(parts[j - 1].lines)
      BY <1>1, <2>5, HeardIs
    <3> QED
      BY <3>1, <3>2
  <2> QED
    BY <2>3, <2>4, <2>5
<1>3. Ended => ("whois.com" \in notes) = (page = NoPage)
  BY DEF InfoInv, Noted, Ended
<1>4. ASSUME NEW j \in DOMAIN Heard, Essential(Heard[j]), Ended PROVE at = "report"
  BY <1>2, <1>4 DEF Ended, Essential, Nothing, Bare
<1> QED
  BY <1>3, <1>4 DEF EssentialsKept

(* A registrar, a date of registration, a name server or the word that the *)
(* domain is free, said by any source, one of a broken chain included, is  *)
(* never answered with an error, and a page that could not be had is in    *)
(* the notes.                                                              *)
THEOREM EssentialsAreKept == Spec => []EssentialsKept
BY NothingLost, InfoInit, InfoStep, PTL DEF Spec

-----------------------------------------------------------------------------
(* What Normalize cuts out of an input *)

LEMMA AuthorityIs ==
  ASSUME NEW i PROVE Authority(i) = Result("starts", i, Starts)
BY Zenon DEF Authority, Loop, Result, Turns, Turn

LEMMA HostPartIs ==
  ASSUME NEW i PROVE HostPart(i) = Result("ends", Authority(i), Ends)
BY Zenon DEF HostPart, Loop, Result, Turns, Turn

LEMMA LeastOf ==
  ASSUME NEW I, I \subseteq Nat, I # {}
  PROVE  Min(I) \in I /\ \A y \in I : Min(I) =< y
<1> DEFINE U == Nat \ I
<1>1. Nat \ U = I
  OBVIOUS
<1> HIDE DEF U
<1>2. \E m \in Nat \ U : \A y \in Nat \ U : m =< y
  BY <1>1, LeastNumber
<1> QED
  BY <1>1, <1>2 DEF Min

LEMMA PositionIs ==
  ASSUME NEW X, NEW s \in Seq(X), NEW t
  PROVE  /\ Position(s, t) \in 0..Len(s)
         /\ Position(s, t) # 0 => s[Position(s, t)] = t
         /\ Position(s, t) = 0 => \A k \in 1..Len(s) : s[k] # t
         /\ Position(s, t) # 0 => \A k \in 1..(Position(s, t) - 1) : s[k] # t
<1> DEFINE I == {k \in 1..Len(s) : s[k] = t}
<1>1. Position(s, t) = IF I # {} THEN Min(I) ELSE 0
  BY DEF Position, SelectInSeq
<1>2. I \subseteq Nat
  OBVIOUS
<1> HIDE DEF I
<1>3. I # {} => Min(I) \in I /\ \A y \in I : Min(I) =< y
  BY <1>2, LeastOf
<1>4. CASE I = {}
  BY <1>1, <1>4 DEF I
<1>5. CASE I # {}
  <2>1. Position(s, t) \in I /\ \A y \in I : Position(s, t) =< y
    BY <1>1, <1>3, <1>5
  <2> HIDE DEF Position
  <2> QED
    BY <2>1 DEF I
<1> QED
  BY <1>4, <1>5

(* a is what s is from start on, for the length of a. *)
Piece(a, s, start) ==
  /\ \E X : a \in Seq(X)
  /\ start \in Nat /\ start + Len(a) =< Len(s)
  /\ \A k \in 1..Len(a) : a[k] = s[start + k]

(* ... and ends where s ends or at a token of E. *)
Whole(a, s, start, E) ==
  /\ Piece(a, s, start)
  /\ start + Len(a) = Len(s) \/ s[start + Len(a) + 1] \in E

LEMMA CutBeforeIs ==
  ASSUME NEW X, NEW s \in Seq(X), NEW start \in 0..Len(s), NEW a, NEW t,
         Piece(a, s, start), start + Len(a) = Len(s)
  PROVE  /\ Piece(CutBefore(a, t), s, start + Position(a, t))
         /\ start + Position(a, t) + Len(CutBefore(a, t)) = Len(s)
         /\ CutBefore(a, t) = SubSeq(a, Position(a, t) + 1, Len(a))
<1>1. PICK Y : a \in Seq(Y)
  BY DEF Piece
<1> DEFINE p == Position(a, t)
           c == SubSeq(a, p + 1, Len(a))
<1>2. p \in 0..Len(a) /\ Len(a) \in Nat /\ Len(s) \in Nat
  BY <1>1, PositionIs
<1>3. CutBefore(a, t) = IF p = 0 THEN a ELSE c
  BY DEF CutBefore
<1> HIDE DEF p
<1>4. c \in Seq(Y) /\ Len(c) = Len(a) - p /\ \A k \in 1..Len(c) : c[k] = a[p + k]
  BY <1>1, <1>2
<1>5. p = 0 => c = a
  BY <1>1, <1>2, <1>4
<1>6. CutBefore(a, t) = c
  BY <1>3, <1>5
<1> HIDE DEF c
<1>7. ASSUME NEW k \in 1..Len(c) PROVE c[k] = s[(start + p) + k]
  <2>1. c[k] = a[p + k] /\ p + k \in 1..Len(a) /\ start + (p + k) = (start + p) + k
    BY <1>2, <1>4
  <2> QED
    BY <2>1 DEF Piece
<1>8. Piece(c, s, start + p) /\ start + p + Len(c) = Len(s)
  <2>0. Len(c) = Len(a) - p
    BY <1>4
  <2>1. start + p \in Nat /\ start + p + Len(c) = Len(s)
    BY <1>2, <2>0
  <2>2. start + p + Len(c) =< Len(s)
    BY <1>2, <2>1
  <2> QED
    BY <1>4, <1>7, <2>1, <2>2, Zenon DEF Piece
<1> QED
  BY <1>6, <1>8 DEF p, c

(* c is where a begins, and holds no t. *)
UpTo(c, a, t) == \A k \in 1..Len(c) : c[k] = a[k] /\ a[k] # t

LEMMA CutAfterIs ==
  ASSUME NEW s, NEW start, NEW a, NEW E, NEW t, Len(s) \in Nat,
         t \in E, Whole(a, s, start, E)
  PROVE  /\ Whole(CutAfter(a, t), s, start, E)
         /\ Len(CutAfter(a, t)) =< Len(a)
         /\ UpTo(CutAfter(a, t), a, t)
<1>1. PICK Y : a \in Seq(Y)
  BY DEF Whole, Piece
<1> DEFINE p == Position(a, t)
           c == SubSeq(a, 1, p - 1)
<1>2. /\ p \in 0..Len(a) /\ Len(a) \in Nat /\ Len(s) \in Nat
      /\ p # 0 => a[p] = t /\ \A k \in 1..(p - 1) : a[k] # t
      /\ p = 0 => \A k \in 1..Len(a) : a[k] # t
  BY <1>1, PositionIs
<1>3. CutAfter(a, t) = IF p = 0 THEN a ELSE c
  BY DEF CutAfter
<1> HIDE DEF p
<1>4. CASE p = 0
  BY <1>2, <1>3, <1>4 DEF UpTo
<1>5. CASE p # 0
  <2>1. c \in Seq(Y) /\ Len(c) = p - 1 /\ \A k \in 1..Len(c) : c[k] = a[k]
    BY <1>1, <1>2, <1>5
  <2> HIDE DEF c
  <2>2. /\ start \in Nat /\ start + Len(a) =< Len(s)
        /\ \A k \in 1..Len(a) : a[k] = s[start + k]
    BY DEF Whole, Piece
  <2>3. Piece(c, s, start)
    <3>1. start + Len(c) =< Len(s) /\ \A k \in 1..Len(c) : c[k] = s[start + k]
      BY <1>2, <1>5, <2>1, <2>2
    <3> QED
      BY <2>1, <2>2, <3>1, Zenon DEF Piece
  <2>4. s[start + Len(c) + 1] \in E
    <3>1. start + Len(c) + 1 = start + p
      BY <1>2, <2>1, <2>2
    <3>2. a[p] = s[start + p] /\ a[p] = t
      BY <1>2, <1>5, <2>2
    <3> QED
      BY <3>1, <3>2
  <2>5. Len(c) =< Len(a) /\ \A k \in 1..Len(c) : c[k] = a[k] /\ a[k] # t
    BY <1>2, <1>5, <2>1
  <2> QED
    BY <1>3, <1>5, <2>3, <2>4, <2>5 DEF Whole, UpTo
<1> QED
  BY <1>4, <1>5

LEMMA TwoOf == \A a, b : Len(<<a, b>>) = 2 /\ <<a, b>>[1] = a /\ <<a, b>>[2] = b
OBVIOUS

LEMMA FourOf == \A a, b, c, d :
  LET q == <<a, b, c, d>> IN
    Len(q) = 4 /\ q[1] = a /\ q[2] = b /\ q[3] = c /\ q[4] = d /\ DOMAIN q = 1..4
OBVIOUS

(* Where the host of an input begins. *)
StartOf(i) ==
  LET scheme == Position(i, "://") IN
    scheme + Position(SubSeq(i, scheme + 1, Len(i)), "@")

LEMMA AuthorityAt ==
  ASSUME NEW X, NEW i \in Seq(X)
  PROVE  /\ Piece(Authority(i), i, StartOf(i))
         /\ StartOf(i) + Len(Authority(i)) = Len(i)
<1>1. Len(Starts) = 2 /\ Starts[1] = "://" /\ Starts[2] = "@"
  BY TwoOf, Zenon DEF Starts
<1>2. PICK g : /\ Result("starts", i, Starts) = g[Len(Starts)]
               /\ g[0] = i
               /\ \A n \in 1..Len(Starts) : g[n] = Turn("starts", g[n - 1], Starts[n])
  BY <1>1, ResultIs
<1>3. \A acc, x : Turn("starts", acc, x) = CutBefore(acc, x)
  BY DEF Turn
<1>4. /\ g[1] = CutBefore(i, Starts[1]) /\ g[2] = CutBefore(g[1], Starts[2])
      /\ Authority(i) = g[2]
  BY <1>1, <1>2, <1>3, AuthorityIs
<1> DEFINE t == Starts[1]
           u == Starts[2]
           p == Position(i, t)
           q == Position(g[1], u)
<1>5. StartOf(i) = p + Position(SubSeq(i, p + 1, Len(i)), u)
  BY <1>1, Zenon DEF StartOf
<1> HIDE DEF t, u
<1>6. p \in 0..Len(i)
  BY PositionIs
<1>7. Piece(i, i, 0) /\ 0 + Len(i) = Len(i) /\ 0 \in 0..Len(i)
  BY DEF Piece
<1>8. /\ Piece(g[1], i, 0 + p) /\ 0 + p + Len(g[1]) = Len(i)
      /\ g[1] = SubSeq(i, p + 1, Len(i))
  BY <1>4, <1>7, CutBeforeIs DEF t
<1> HIDE DEF p
<1>9. 0 + p = p
  BY <1>6
<1>10. Piece(g[2], i, p + q) /\ p + q + Len(g[2]) = Len(i)
  <2>1. g[2] = CutBefore(g[1], u)
    BY <1>4 DEF u
  <2>2. Piece(g[1], i, p) /\ p + Len(g[1]) = Len(i)
    BY <1>8, <1>9
  <2> QED
    BY <1>6, <2>1, <2>2, CutBeforeIs
<1>11. StartOf(i) = p + q
  BY <1>5, <1>8
<1> QED
  BY <1>4, <1>10, <1>11

(* a holds none of the first n tokens that end a host. *)
Clear(a, n) == \A m \in 1..n : \A k \in 1..Len(a) : a[k] # Ends[m]

LEMMA HostAt ==
  ASSUME NEW X, NEW i \in Seq(X)
  PROVE  /\ Whole(HostPart(i), i, StartOf(i), ToSet(Ends))
         /\ \A k \in 1..Len(HostPart(i)) : HostPart(i)[k] \notin ToSet(Ends)
<1>1. Len(Ends) = 4 /\ DOMAIN Ends = 1..4
  BY FourOf, Zenon DEF Ends
<1> DEFINE start == Authority(i)
<1> HIDE DEF start
<1>0. Len(Ends) \in Nat
  BY <1>1
<1>2. PICK g : /\ Result("ends", start, Ends) = g[Len(Ends)]
               /\ g[0] = start
               /\ \A n \in 1..Len(Ends) : g[n] = Turn("ends", g[n - 1], Ends[n])
  BY <1>0, ResultIs
<1>M. PICK marks : marks = ToSet(Ends)
  OBVIOUS
<1>F. PICK from : from = StartOf(i)
  OBVIOUS
<1> DEFINE W(d) == Whole(d, i, from, marks)
<1>3. \A acc, x : Turn("ends", acc, x) = CutAfter(acc, x)
  BY DEF Turn
<1>4. /\ \A n \in 1..4 : Ends[n] \in marks
      /\ \A t \in marks : \E n \in 1..4 : Ends[n] = t
  BY <1>1, <1>M DEF ToSet
<1>5. W(g[0]) /\ Clear(g[0], 0)
  BY <1>2, <1>F, AuthorityAt DEF Whole, start, Clear
<1>6. ASSUME NEW n \in 1..4, W(g[n - 1]), Clear(g[n - 1], n - 1)
      PROVE  W(g[n]) /\ Clear(g[n], n)
  <2>1. g[n] = CutAfter(g[n - 1], Ends[n])
    BY <1>1, <1>2, <1>3
  <2>5. Whole(g[n - 1], i, from, marks) /\ Ends[n] \in marks /\ Len(i) \in Nat
    BY <1>4, <1>6
  <2>7. /\ Whole(CutAfter(g[n - 1], Ends[n]), i, from, marks)
        /\ Len(CutAfter(g[n - 1], Ends[n])) =< Len(g[n - 1])
        /\ UpTo(CutAfter(g[n - 1], Ends[n]), g[n - 1], Ends[n])
    BY <2>5, CutAfterIs
  <2>2. /\ W(g[n]) /\ Len(g[n]) =< Len(g[n - 1])
        /\ \A k \in 1..Len(g[n]) : g[n][k] = g[n - 1][k] /\ g[n - 1][k] # Ends[n]
    BY <2>1, <2>7 DEF UpTo
  <2>3. Len(g[n]) \in Nat /\ Len(g[n - 1]) \in Nat
    BY <1>6, <2>2 DEF W, Whole, Piece
  <2>4. ASSUME NEW m \in 1..n, NEW k \in 1..Len(g[n]) PROVE g[n][k] # Ends[m]
    <3>1. k \in 1..Len(g[n - 1]) /\ (m = n \/ m \in 1..(n - 1))
      BY <2>2, <2>3
    <3> QED
      BY <1>6, <2>2, <3>1 DEF Clear
  <2> QED
    BY <2>2, <2>4 DEF Clear
<1> HIDE DEF W
<1>7. W(g[1]) /\ Clear(g[1], 1)
  BY <1>5, <1>6
<1>8. W(g[2]) /\ Clear(g[2], 2)
  BY <1>6, <1>7
<1>9. W(g[3]) /\ Clear(g[3], 3)
  BY <1>6, <1>8
<1>10. W(g[4]) /\ Clear(g[4], 4)
  BY <1>6, <1>9
<1>11. HostPart(i) = g[4]
  BY <1>1, <1>2, HostPartIs DEF start
<1>12. \A k \in 1..Len(g[4]) : g[4][k] \notin marks
  BY <1>4, <1>10 DEF Clear
<1> QED
  BY <1>10, <1>11, <1>12, <1>F, <1>M DEF W

(* A link with one scheme and one user at most, none of them in the path:  *)
(* where its host begins no path has begun, and no scheme or user follows. *)
LEMMA StartIsPlain ==
  ASSUME NEW X, NEW i \in Seq(X), PlainLink(i)
  PROVE  /\ StartOf(i) \in 0..Len(i)
         /\ StartOf(i) # 0 => i[StartOf(i)] \in ToSet(Starts)
         /\ \A k \in 1..StartOf(i) : i[k] \notin PathMarks
         /\ \A k \in (StartOf(i) + 1)..Len(i) : i[k] \notin ToSet(Starts)
<1> DEFINE p == Position(i, "://")
           c == SubSeq(i, p + 1, Len(i))
           q == Position(c, "@")
           st == p + q
<1>1. StartOf(i) = st
  BY DEF StartOf
<1>2. ToSet(Starts) = {"://", "@"}
  <2>1. Len(Starts) = 2 /\ Starts[1] = "://" /\ Starts[2] = "@" /\ DOMAIN Starts = 1..2
    BY TwoOf DEF Starts
  <2> QED
    BY <2>1 DEF ToSet
<1>3. /\ p \in 0..Len(i) /\ Len(i) \in Nat
      /\ p # 0 => i[p] = "://"
      /\ p = 0 => \A k \in 1..Len(i) : i[k] # "://"
  BY PositionIs
<1> HIDE DEF p
<1>4. c \in Seq(X) /\ Len(c) = Len(i) - p /\ \A k \in 1..Len(c) : c[k] = i[p + k]
  BY <1>3
<1> HIDE DEF c
<1>5. /\ q \in 0..Len(c)
      /\ q # 0 => c[q] = "@"
      /\ q = 0 => \A k \in 1..Len(c) : c[k] # "@"
  BY <1>4, PositionIs
<1> HIDE DEF q
<1>6. st \in 0..Len(i) /\ p =< st
  BY <1>3, <1>4, <1>5
<1>7. /\ q # 0 => st # 0 /\ i[st] = "@"
      /\ q = 0 => st = p
  <2>1. q # 0 => q \in 1..Len(c)
    BY <1>3, <1>4, <1>5
  <2> QED
    BY <1>3, <1>4, <1>5, <2>1
<1>8. st # 0 => i[st] \in {"://", "@"}
  BY <1>3, <1>7
<1>9. \A k \in 1..Len(i) : i[k] \in {"://", "@"} =>
        \A j \in 1..(k - 1) : i[j] \notin PathMarks /\ i[j] # i[k]
  BY <1>2 DEF PlainLink
<1>10. ASSUME NEW k \in 1..st PROVE i[k] \notin PathMarks
  <2>1. st \in 1..Len(i) /\ (k = st \/ k \in 1..(st - 1))
    BY <1>6
  <2> QED
    BY <1>8, <1>9, <2>1 DEF PathMarks
<1>11. ASSUME NEW k \in (st + 1)..Len(i) PROVE i[k] \notin {"://", "@"}
  <2>1. k \in 1..Len(i) /\ k - p \in 1..Len(c) /\ p + (k - p) = k
    BY <1>3, <1>4, <1>6
  <2>2. i[k] # "://"
    <3>1. p # 0 => p \in 1..(k - 1)
      BY <1>3, <1>6
    <3> QED
      BY <1>3, <1>9, <2>1, <3>1
  <2>3. i[k] # "@"
    <3>1. CASE q = 0
      BY <1>4, <1>5, <2>1, <3>1
    <3>2. CASE q # 0
      <4>1. st \in 1..(k - 1)
        BY <1>6, <1>7, <3>2
      <4> QED
        BY <1>7, <1>9, <2>1, <3>2, <4>1
    <3> QED
      BY <3>1, <3>2
  <2> QED
    BY <2>2, <2>3
<1> HIDE DEF st
<1> QED
  BY <1>1, <1>2, <1>6, <1>8, <1>10, <1>11

Looked ==
  /\ input \in Inputs
  /\ at = "normalize" => name = <<>>
  /\ name # <<>> => name = Labels(input) /\ Len(name) >= 2

(* What the cuts leave of a plain link is its host. *)
LEMMA LabelsAt ==
  ASSUME NEW X, NEW i \in Seq(X), PlainLink(i), Len(Labels(i)) >= 2
  PROVE  \E first, last \in DOMAIN i :
           /\ IsHost(i, first, last)
           /\ Labels(i) = SubSeq(i, IF i[first] = "www" THEN first + 1 ELSE first, last)
<1> DEFINE start == StartOf(i)
           h == HostPart(i)
           l == Labels(i)
<1>1. Whole(h, i, start, ToSet(Ends)) /\ \A k \in 1..Len(h) : h[k] \notin ToSet(Ends)
  BY HostAt
<1>2. l = IF Len(h) > 1 /\ h[1] = "www" THEN Tail(h) ELSE h
  BY DEF Labels
<1>3. /\ start \in 0..Len(i)
      /\ start # 0 => i[start] \in ToSet(Starts)
      /\ \A k \in 1..start : i[k] \notin PathMarks
      /\ \A k \in (start + 1)..Len(i) : i[k] \notin ToSet(Starts)
  BY StartIsPlain
<1>0. Len(l) >= 2
  OBVIOUS
<1> HIDE DEF start, h, l
<1>4. PICK Y : h \in Seq(Y)
  BY <1>1 DEF Whole, Piece
<1>5. /\ start \in Nat /\ start + Len(h) =< Len(i) /\ Len(h) \in Nat /\ Len(i) \in Nat
      /\ \A k \in 1..Len(h) : h[k] = i[start + k]
      /\ start + Len(h) = Len(i) \/ i[start + Len(h) + 1] \in ToSet(Ends)
  BY <1>1, <1>4 DEF Whole, Piece
<1>6. Len(h) >= 2
  <2>1. CASE l = h
    BY <1>0, <2>1
  <2>2. CASE l = Tail(h) /\ Len(h) > 1
    BY <1>5, <2>2
  <2> QED
    BY <1>2, <2>1, <2>2
<1> DEFINE first == start + 1
           last  == start + Len(h)
<1>7. first \in DOMAIN i /\ last \in DOMAIN i /\ i[first] = h[1]
  <2>1. 1 \in 1..Len(h)
    BY <1>5, <1>6
  <2> QED
    BY <1>5, <1>6, <2>1
<1>8. IsHost(i, first, last)
  <2>1. first = 1 \/ i[first - 1] \in ToSet(Starts)
    BY <1>3, <1>5
  <2>2. ASSUME NEW k \in first..last PROVE i[k] \notin ToSet(Starts) \cup ToSet(Ends)
    <3>1. k - start \in 1..Len(h) /\ start + (k - start) = k /\ k \in (start + 1)..Len(i)
      BY <1>5
    <3> QED
      BY <1>1, <1>3, <1>5, <3>1
  <2>3. \A k \in 1..(first - 1) : i[k] \notin PathMarks
    BY <1>3, <1>5
  <2>4. \A k \in (last + 1)..Len(i) : i[k] \notin ToSet(Starts)
    BY <1>3, <1>5
  <2> QED
    BY <1>5, <2>1, <2>2, <2>3, <2>4 DEF IsHost
<1> HIDE DEF first, last
<1>9. l = SubSeq(i, IF i[first] = "www" THEN first + 1 ELSE first, last)
  <2>1. CASE h[1] # "www"
    <3> DEFINE r == SubSeq(i, start + 1, start + Len(h))
    <3>1. r \in Seq(X) /\ Len(r) = Len(h) /\ \A k \in 1..Len(h) : r[k] = i[start + k]
      BY <1>5
    <3> HIDE DEF r
    <3>2. r = h
      BY <1>4, <1>5, <3>1
    <3> QED
      BY <1>2, <1>7, <2>1, <3>2 DEF r, first, last
  <2>2. CASE h[1] = "www"
    <3>1. l = Tail(h)
      BY <1>2, <1>5, <1>6, <2>2
    <3>2. l \in Seq(Y) /\ Len(l) = Len(h) - 1 /\ \A k \in 1..Len(l) : l[k] = h[k + 1]
      BY <1>4, <1>5, <1>6, <3>1
    <3> DEFINE r == SubSeq(i, start + 2, start + Len(h))
    <3>3. r \in Seq(X) /\ Len(r) = Len(h) - 1 /\ \A k \in 1..(Len(h) - 1) : r[k] = i[start + (k + 1)]
      BY <1>5, <1>6
    <3> HIDE DEF r
    <3>4. ASSUME NEW k \in 1..Len(l) PROVE r[k] = l[k]
      <4>1. k + 1 \in 1..Len(h) /\ k \in 1..(Len(h) - 1)
        BY <1>5, <3>2
      <4> QED
        BY <1>5, <3>2, <3>3, <4>1
    <3>5. r = l
      BY <3>2, <3>3, <3>4
    <3>6. first + 1 = start + 2
      BY <1>5 DEF first
    <3> QED
      BY <1>7, <2>2, <3>5, <3>6 DEF r, last
  <2> QED
    BY <2>1, <2>2
<1> QED
  BY <1>7, <1>8, <1>9 DEF l

LEMMA LookedStep == Looked /\ [Next]_vars => Looked'
<1> SUFFICES ASSUME Looked, [Next]_vars PROVE Looked'
  OBVIOUS
<1>1. CASE Normalize
  BY <1>1 DEF Normalize, Looked, Valid
<1>2. CASE UNCHANGED vars
  BY <1>2 DEF vars, Looked
<1>3. CASE /\ UNCHANGED <<input, name>> /\ at' # "normalize"
  BY <1>3 DEF Looked
<1>4. ASSUME SiteFails \/ (\E p \in Pages : Site(p)) PROVE UNCHANGED <<input, name>> /\ at' # "normalize"
  BY <1>4 DEF SiteFails, Site, AfterSite
<1>5. ASSUME RootFails \/ ServerFails PROVE UNCHANGED <<input, name>> /\ at' # "normalize"
  BY <1>5 DEF RootFails, ServerFails, ChainFails, ChainEnds
<1>6. ASSUME NEW text \in Texts, Root(text) \/ Answered(text)
      PROVE  UNCHANGED <<input, name>> /\ at' # "normalize"
  BY <1>6 DEF Root, Answered, ChainEnds
<1>7. ASSUME NEW t \in Types, NEW n \in Counts, Resolve(t, n)
      PROVE  UNCHANGED <<input, name>> /\ at' # "normalize"
  BY <1>7 DEF Resolve
<1>8. ASSUME Return PROVE UNCHANGED <<input, name>> /\ at' # "normalize"
  BY <1>8 DEF Return
<1> QED
  BY <1>1, <1>2, <1>3, <1>4, <1>5, <1>6, <1>7, <1>8 DEF Next

LEMMA LookedTells == Looked => HostOfLink
<1> SUFFICES ASSUME Looked, PlainLink(input), name # <<>> PROVE LinkGivesHost
  BY DEF HostOfLink, LinkGivesHost
<1>1. input \in Seq(STRING) /\ name = Labels(input) /\ Len(name) >= 2
  BY WhoisAssumption DEF Looked, WhoisAssumption
<1>2. \E first, last \in DOMAIN input :
        /\ IsHost(input, first, last)
        /\ Labels(input) = SubSeq(input, IF input[first] = "www" THEN first + 1 ELSE first, last)
  BY <1>1, LabelsAt
<1> QED
  BY <1>1, <1>2, Zenon DEF LinkGivesHost

(* Of every link whose path has no mark of a scheme or a user, the host is *)
(* looked up, without www, wherever it stands; of other links this is not  *)
(* true.                                                                   *)
THEOREM HostIsLookedUp == Spec => []HostOfLink
<1>1. Init => Looked
  BY DEF Init, Looked
<1> QED
  BY <1>1, LookedStep, LookedTells, PTL DEF Spec

=============================================================================
