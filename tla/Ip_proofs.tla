------------------------------ MODULE Ip_proofs ------------------------------
(***************************************************************************)
(* The memo of LookupGeo: no provider is asked twice for an address, and   *)
(* one report speaks of one machine, for every number of providers, RDAP   *)
(* servers, zones and runs.                                                *)
(***************************************************************************)
EXTENDS Ip, FiniteSetTheorems, TLAPS

Shapes ==
  /\ DOMAIN memo = Families
  /\ asked \in [Families -> [1..Providers -> Nat]]
  /\ DOMAIN lookup = {"family", "p", "back"}
  /\ DOMAIN rep = {"header", "ip", "section", "notes", "blacklist", "listed", "resolver"}
  /\ DOMAIN rep.section = {"v4", "v6", "rdap"}

InCall == at \in {"memo", "provider"}

(* A call of LookupGeo knows its version and where it returns to. *)
Calls ==
  /\ InCall =>
       /\ lookup.family \in Families /\ lookup.p \in 1..Providers
       /\ lookup.back \in {"header", "ip4", "ip6", "check"}
       /\ ((lookup.back = "ip6") <=> (lookup.family = "v6"))
  /\ at = "memo" => lookup.p = 1
  /\ at = "provider" => memo[lookup.family] = "absent"

(* As long as nothing is remembered, nobody was asked but the providers    *)
(* the call under way is through with.                                     *)
Untouched == \A f \in Families, p \in 1..Providers :
  memo[f] = "absent" /\ ~(at = "provider" /\ lookup.family = f /\ p < lookup.p) => asked[f][p] = 0

AskInv == Shapes /\ Calls /\ Untouched /\ AskedOnce

USE IpAssumption

LEMMA AskInit == Init => AskInv
<1> SUFFICES ASSUME Init PROVE AskInv
  OBVIOUS
<1>1. asked \in [Families -> [1..Providers -> Nat]]
      /\ \A f \in Families, p \in 1..Providers : asked[f][p] = 0
  BY DEF Init
<1>2. DOMAIN rep = {"header", "ip", "section", "notes", "blacklist", "listed", "resolver"}
      /\ DOMAIN rep.section = {"v4", "v6", "rdap"}
  BY DEF Init, EmptyReport, NoSection
<1>3. Shapes
  BY <1>1, <1>2 DEF Init, Shapes
<1>4. Calls /\ Untouched /\ AskedOnce
  BY <1>1 DEF Init, Calls, Untouched, AskedOnce, InCall
<1>5. QED
  BY <1>3, <1>4 DEF AskInv

(* The tests between two calls: they ask nobody, and a call starts with    *)
(* the first provider.                                                     *)
Test == \/ Begin \/ Collect \/ Header \/ IpTest \/ GotV4 \/ GotV6
        \/ LookupRDAP \/ Blacklist \/ Stack \/ NextRun \/ EndContext

Enters == \E f \in Families : \E back \in {"header", "ip4", "ip6", "check"} :
  Call(f, back) /\ ((back = "ip6") <=> (f = "v6"))

LEMMA TestCalls ==
  ASSUME Test
  PROVE  /\ UNCHANGED <<memo, asked>>
         /\ \/ ~InCall /\ ~InCall' /\ UNCHANGED lookup
            \/ Enters /\ ~InCall
            \/ UNCHANGED <<at, lookup>>
<1> USE DEF InCall, Enters, Families, process, testRest
<1>1. CASE Begin \/ Header \/ Stack \/ NextRun \/ EndContext
  BY <1>1 DEF Begin, BeginTest, Header, Stack, NextRun, EndContext
<1>2. CASE Collect
  BY <1>2 DEF Collect
<1>3. CASE IpTest
  BY <1>3 DEF IpTest
<1>4. CASE GotV4
  BY <1>4 DEF GotV4, Resolved
<1>5. CASE GotV6
  BY <1>5 DEF GotV6, Resolved
<1>6. CASE LookupRDAP
  BY <1>6 DEF LookupRDAP, FetchRDAP, NoRDAP, AskWhois, WhoisFallback, NoRecord
<1>7. CASE Blacklist
  BY <1>7 DEF Blacklist, PublicIPv4, CheckBlacklists, ZonesDone, QueryZone
<1>8. QED
  BY <1>1, <1>2, <1>3, <1>4, <1>5, <1>6, <1>7 DEF Test

LEMMA TestShapes ==
  ASSUME Shapes, Test
  PROVE  Shapes'
<1>1. memo' = memo /\ asked' = asked
  BY TestCalls
<1>2. DOMAIN lookup' = {"family", "p", "back"}
  BY TestCalls DEF Shapes, Enters, Call
<1>3. /\ DOMAIN rep' = {"header", "ip", "section", "notes", "blacklist", "listed", "resolver"}
      /\ DOMAIN rep'.section = {"v4", "v6", "rdap"}
  <2> USE DEF Shapes
  <2>1. CASE Begin \/ Collect \/ IpTest \/ EndContext
    <3>1. rep' = rep
      BY <2>1 DEF Begin, BeginTest, Collect, IpTest, EndContext
    <3>2. QED
      BY <3>1
  <2>5. CASE NextRun
    BY <2>5 DEF NextRun, EmptyReport, NoSection
  <2>6. CASE Header \/ Stack
    BY <2>6 DEF Header, Stack
  <2>2. CASE GotV4 \/ GotV6
    <3>1. \A section : DOMAIN section = {"v4", "v6", "rdap"} /\ Resolved(section) =>
             /\ DOMAIN rep' = {"header", "ip", "section", "notes", "blacklist", "listed", "resolver"}
             /\ DOMAIN rep'.section = {"v4", "v6", "rdap"}
      BY DEF Resolved, NoSection
    <3>2. DOMAIN [NoSection EXCEPT !.v4 = got] = {"v4", "v6", "rdap"}
          /\ DOMAIN [rep.section EXCEPT !.v6 = got] = {"v4", "v6", "rdap"}
      BY DEF NoSection
    <3>3. CASE rep' = [rep EXCEPT !.section.v4 = got]
      BY <3>3
    <3>4. QED
      BY <2>2, <3>1, <3>2, <3>3 DEF GotV4, GotV6
  <2>3. CASE LookupRDAP
    BY <2>3 DEF LookupRDAP, FetchRDAP, NoRDAP, AskWhois, WhoisFallback, NoRecord
  <2>4. CASE Blacklist
    BY <2>4 DEF Blacklist, PublicIPv4, CheckBlacklists, ZonesDone, QueryZone
  <2>7. QED
    BY <2>1, <2>2, <2>3, <2>4, <2>5, <2>6 DEF Test
<1>4. QED
  BY <1>1, <1>2, <1>3 DEF Shapes

LEMMA TestAsk ==
  ASSUME AskInv, Test
  PROVE  AskInv'
<1>1. memo' = memo /\ asked' = asked
  BY TestCalls
<1>2. CASE ~InCall /\ ~InCall' /\ UNCHANGED lookup
  BY <1>1, <1>2, TestShapes DEF AskInv, Calls, Untouched, AskedOnce, InCall
<1>3. CASE Enters /\ ~InCall
  <2>1. at' = "memo" /\ lookup'.p = 1 /\ lookup'.family \in Families
        /\ lookup'.back \in {"header", "ip4", "ip6", "check"}
        /\ ((lookup'.back = "ip6") <=> (lookup'.family = "v6"))
    BY <1>3 DEF Enters, Call
  <2>2. Calls'
    BY <2>1 DEF Calls, InCall
  <2>3. QED
    BY <1>1, <1>3, <2>1, <2>2, TestShapes DEF AskInv, Untouched, AskedOnce, InCall
<1>4. CASE UNCHANGED <<at, lookup>>
  BY <1>1, <1>4, TestShapes DEF AskInv, Calls, Untouched, AskedOnce, InCall
<1>5. QED
  BY <1>2, <1>3, <1>4, TestCalls

(* LookupGeo: the provider asked is one that was not, and what is          *)
(* remembered ends the asking.                                             *)
Asks == (\E g \in Says[lookup.family] : ProviderAnswers(g)) \/ ProviderMalformed \/ ProviderFails

LEMMA AskEffect ==
  ASSUME AskInv, Asks
  PROVE  /\ at = "provider" /\ asked' = [asked EXCEPT ![lookup.family][lookup.p] = @ + 1]
         /\ UNCHANGED <<cut, rep>>
         /\ \/ /\ UNCHANGED <<memo, got, at>>
               /\ lookup' = [lookup EXCEPT !.p = @ + 1] /\ lookup.p < Providers
            \/ /\ got' # "absent" /\ memo' = [memo EXCEPT ![lookup.family] = got']
               /\ at' = lookup.back /\ UNCHANGED lookup
<1>1. CASE \E g \in Says[lookup.family] : ProviderAnswers(g)
  <2>1. PICK g \in Says[lookup.family] : ProviderAnswers(g)
    BY <1>1
  <2>2. at = "provider" /\ got' = g /\ g # "absent"
    BY <2>1 DEF ProviderAnswers, ReturnGeo, AskInv, Calls, InCall
  <2>3. QED
    BY <2>1, <2>2 DEF ProviderAnswers, CountRequest, Remember, ReturnGeo, geoRest, AskInv, Calls, InCall
<1>2. CASE ProviderMalformed \/ ProviderFails
  BY <1>2 DEF ProviderMalformed, ProviderFails, NextProvider, CountRequest, Remember, ReturnGeo,
         geoRest, Nil
<1>3. QED
  BY <1>1, <1>2 DEF Asks

LEMMA AskStep ==
  ASSUME AskInv, Asks
  PROVE  AskInv'
<1>1. lookup.family \in Families /\ lookup.p \in 1..Providers /\ memo[lookup.family] = "absent"
  BY AskEffect DEF AskInv, Calls, InCall
<1>2. asked[lookup.family][lookup.p] = 0
  BY <1>1 DEF AskInv, Untouched
<1>3. /\ asked' \in [Families -> [1..Providers -> Nat]]
      /\ \A f \in Families, p \in 1..Providers :
           asked'[f][p] = IF f = lookup.family /\ p = lookup.p THEN 1 ELSE asked[f][p]
  <2>1. asked \in [Families -> [1..Providers -> Nat]]
    BY DEF AskInv, Shapes
  <2>2. asked' = [asked EXCEPT ![lookup.family] =
                    [asked[lookup.family] EXCEPT ![lookup.p] = 1]]
    BY <1>2, AskEffect
  <2>3. QED
    BY <1>1, <2>1, <2>2
<1>4. AskedOnce'
  BY <1>3 DEF AskInv, AskedOnce
<1>5. CASE /\ UNCHANGED <<memo, got, at>>
           /\ lookup' = [lookup EXCEPT !.p = @ + 1] /\ lookup.p < Providers
  <2>1. lookup'.p = lookup.p + 1 /\ lookup'.family = lookup.family /\ lookup'.back = lookup.back
        /\ DOMAIN lookup' = DOMAIN lookup
    BY <1>5 DEF AskInv, Shapes
  <2>2. Shapes'
    BY <1>3, <1>5, <2>1, AskEffect DEF AskInv, Shapes
  <2>3. Calls'
    BY <1>1, <1>5, <2>1, AskEffect DEF AskInv, Calls, InCall
  <2>4. Untouched'
    BY <1>1, <1>3, <1>5, <2>1, AskEffect DEF AskInv, Untouched
  <2>5. QED
    BY <1>4, <2>2, <2>3, <2>4 DEF AskInv
<1>6. CASE /\ got' # "absent" /\ memo' = [memo EXCEPT ![lookup.family] = got']
           /\ at' = lookup.back /\ UNCHANGED lookup
  <2>1. at' \notin {"memo", "provider"}
    BY <1>6, AskEffect DEF AskInv, Calls, InCall
  <2>2. Shapes'
    BY <1>3, <1>6, AskEffect DEF AskInv, Shapes
  <2>3. Calls' /\ Untouched'
    BY <1>1, <1>3, <1>6, <2>1 DEF AskInv, Shapes, Calls, Untouched, InCall
  <2>4. QED
    BY <1>4, <2>2, <2>3 DEF AskInv
<1>7. QED
  BY <1>5, <1>6, AskEffect

LEMMA AskNext == AskInv /\ [Next]_vars => AskInv'
<1>1. SUFFICES ASSUME AskInv, [Next]_vars PROVE AskInv'
  OBVIOUS
<1>2. CASE MemoHit
  BY <1>1, <1>2 DEF MemoHit, ReturnGeo, geoRest, AskInv, Shapes, Calls, Untouched, AskedOnce, InCall
<1>3. CASE MemoMiss
  BY <1>1, <1>3 DEF MemoMiss, Known, geoRest, AskInv, Shapes, Calls, Untouched, AskedOnce, InCall
<1>4. CASE UNCHANGED vars
  BY <1>1, <1>4 DEF vars, AskInv, Shapes, Calls, Untouched, AskedOnce, InCall
<1>5. QED
  BY <1>1, <1>2, <1>3, <1>4, TestAsk, AskStep DEF Next, LookupGeo, Asks, Test

(* No provider is asked twice for an address of the same version in the    *)
(* life of the process.                                                    *)
THEOREM ProvidersAskedOnce == Spec => []AskedOnce
<1>1. AskInv => AskedOnce
  BY DEF AskInv
<1>2. QED
  BY <1>1, AskInit, AskNext, PTL DEF Spec

-----------------------------------------------------------------------------

(* An address in the report is the one the memo holds from then on.        *)
Held(v) == v = memo["v4"] /\ v # "absent"

Remembered ==
  /\ rep.header = "none" \/ Held(rep.header)
  /\ rep.section.v4 = Nil \/ Held(rep.section.v4)
  /\ rep.blacklist = Nil \/ Held(rep.blacklist)
  /\ at \in {"header", "ip4", "check"} => Held(got)

(* Until the ip test has an address nothing is recorded; from there to its *)
(* end the record is looked up under that address.                         *)
Before == \/ at \in {"system?", "system", "header", "ip?", "ip", "ip4", "ip6"}
          \/ InCall /\ lookup.back # "check"

Recorded ==
  /\ Before \/ at \in {"rdap", "whois"} =>
       rep.ip = "none" /\ rep.section.rdap = Unrecorded /\ "RDAP lookup" \notin rep.notes
  /\ at \in {"rdap", "whois"} => Target # Nil
  /\ rep.ip = "section" =>
       /\ Target # Nil
       /\ rep.section.rdap.query \in {Nil, Target}
       /\ (rep.section.rdap = Unrecorded) <=> ("RDAP lookup" \in rep.notes)

MachineInv == AskInv /\ Remembered /\ Recorded

LEMMA MachineInit == Init => MachineInv
<1> SUFFICES ASSUME Init PROVE MachineInv
  OBVIOUS
<1>1. Remembered
  BY DEF Init, Remembered, Held, EmptyReport, NoSection, Families
<1>2. Recorded
  BY DEF Init, Recorded, Before, InCall, EmptyReport, NoSection, Unrecorded
<1>3. QED
  BY <1>1, <1>2, AskInit DEF MachineInv

(* What the steps of the ip test write. *)
LEMMA ResolvedWrites ==
  ASSUME Shapes, NEW section, Resolved(section)
  PROVE  /\ rep'.header = rep.header /\ rep'.blacklist = rep.blacklist /\ rep'.ip = rep.ip
         /\ \/ /\ at' = "blacklist?" /\ rep'.section = NoSection
               /\ rep'.notes = rep.notes \cup {"ip"}
            \/ /\ at' = "rdap" /\ rep'.section = section /\ rep'.notes = rep.notes
               /\ section.v4 # Nil \/ section.v6 # Nil
<1>1. CASE section.v4 = Nil /\ section.v6 = Nil
  BY <1>1 DEF Shapes, Resolved
<1>2. CASE section.v4 # Nil \/ section.v6 # Nil
  BY <1>2 DEF Shapes, Resolved
<1>3. QED
  BY <1>1, <1>2

LEMMA FamilyWrites ==
  ASSUME Shapes, rep' = [rep EXCEPT !.section.v4 = got]
  PROVE  /\ rep'.header = rep.header /\ rep'.blacklist = rep.blacklist /\ rep'.ip = rep.ip
         /\ rep'.notes = rep.notes /\ rep'.section.v4 = got /\ rep'.section.rdap = rep.section.rdap
BY DEF Shapes

LEMMA AsksForV4 ==
  ASSUME PublicIPv4
  PROVE  at' = "check" \/ (at' = "memo" /\ lookup'.back = "check")
BY DEF PublicIPv4, Call

LEMMA RecordWrites ==
  ASSUME Shapes, NEW r, rep' = [rep EXCEPT !.section.rdap = r, !.ip = "section"]
  PROVE  /\ rep'.header = rep.header /\ rep'.blacklist = rep.blacklist
         /\ rep'.notes = rep.notes /\ rep'.ip = "section" /\ rep'.section.rdap = r
         /\ rep'.section.v4 = rep.section.v4 /\ rep'.section.v6 = rep.section.v6
BY DEF Shapes

(* While the memo keeps what it holds of IPv4, an address reaches the      *)
(* report from the memo alone.                                             *)
LEMMA TestRemembers ==
  ASSUME AskInv, Remembered, Test
  PROVE  Remembered'
<1> USE DEF AskInv, Shapes, Remembered
<1>1. \A v : Held(v)' = (v = memo["v4"] /\ v # "absent")
  BY TestCalls DEF Held
<1>2. CASE Begin \/ Collect \/ IpTest \/ EndContext
  BY <1>1, <1>2 DEF Held, Begin, BeginTest, Collect, IpTest, Call, EndContext, InTest
<1>3. CASE Header
  BY <1>1, <1>3 DEF Held, Header
<1>4. CASE GotV4
  <2>1. Held(got)
    BY <1>4 DEF GotV4
  <2>2. CASE skip6
    <3> DEFINE section == [NoSection EXCEPT !.v4 = got]
    <3>1. Resolved(section)
      BY <1>4, <2>2 DEF GotV4
    <3>2. section.v4 = got /\ NoSection.v4 = Nil
      BY DEF NoSection
    <3> HIDE DEF section
    <3>3. QED
      BY <1>1, <2>1, <3>1, <3>2, ResolvedWrites DEF Held
  <2>3. CASE ~skip6
    <3>1. rep' = [rep EXCEPT !.section.v4 = got] /\ at' = "memo"
      BY <1>4, <2>3 DEF GotV4, Call
    <3>2. QED
      BY <1>1, <2>1, <3>1, FamilyWrites DEF Held
  <2>4. QED
    BY <2>2, <2>3
<1>5. CASE GotV6
  <2> DEFINE section == [rep.section EXCEPT !.v6 = got]
  <2>1. Resolved(section)
    BY <1>5 DEF GotV6
  <2>2. section.v4 = rep.section.v4 /\ NoSection.v4 = Nil
    BY DEF NoSection
  <2> HIDE DEF section
  <2>3. QED
    BY <1>1, <2>1, <2>2, ResolvedWrites DEF Held
<1>6. CASE LookupRDAP
  <2>1. /\ rep'.header = rep.header /\ rep'.blacklist = rep.blacklist
        /\ rep'.section.v4 = rep.section.v4
        /\ at' \in {"rdap", "whois", "blacklist?"}
    <3>1. CASE NoRDAP \/ AskWhois \/ NoRecord
      BY <3>1 DEF NoRDAP, AskWhois, NoRecord
    <3>2. CASE \E p \in Answers : FetchRDAP(p)
      BY <3>2, RecordWrites DEF FetchRDAP
    <3>3. CASE \E lines \in WhoisTexts : WhoisFallback(lines)
      BY <3>3, RecordWrites DEF WhoisFallback
    <3>4. QED
      BY <1>6, <3>1, <3>2, <3>3 DEF LookupRDAP
  <2>2. QED
    BY <1>1, <2>1 DEF Held
<1>7. CASE PublicIPv4
  BY <1>1, <1>7 DEF PublicIPv4, Call, Held
<1>8. CASE CheckBlacklists
  <2>1. Held(got)
    BY <1>8 DEF CheckBlacklists
  <2>2. /\ rep'.header = rep.header /\ rep'.section = rep.section
        /\ rep'.blacklist \in {rep.blacklist, got} /\ at' \in {"stack?", "zones"}
    BY <1>8 DEF CheckBlacklists
  <2>3. QED
    BY <1>1, <2>1, <2>2 DEF Held
<1>9. CASE ZonesDone \/ Stack
  <2>1. /\ rep'.header = rep.header /\ rep'.section = rep.section
        /\ rep'.blacklist = rep.blacklist /\ at' \in {"stack?", "end"}
    BY <1>9 DEF ZonesDone, Stack
  <2>2. QED
    BY <1>1, <2>1 DEF Held
<1>10. CASE \E z \in Zones, told \in {"no such name", "failure", "addresses"},
               addrs \in SUBSET Codes : QueryZone(z, told, addrs)
  BY <1>1, <1>10 DEF QueryZone, Held
<1>11. CASE NextRun
  BY <1>11 DEF NextRun, EmptyReport, NoSection
<1>12. QED
  BY <1>2, <1>3, <1>4, <1>5, <1>6, <1>7, <1>8, <1>9, <1>10, <1>11 DEF Test, Blacklist

LEMMA TestRecords ==
  ASSUME AskInv, Recorded, Test
  PROVE  Recorded'
<1> USE DEF AskInv, Shapes, Recorded
<1> DEFINE Early == {"system?", "system", "header", "ip?", "ip", "ip4", "ip6"}
<1>1. CASE Begin \/ IpTest \/ Collect
  <2>1. rep' = rep
    BY <1>1 DEF Begin, BeginTest, Collect, IpTest
  <2>2. Before' => Before
    BY <1>1 DEF Begin, BeginTest, Collect, IpTest, Call, Before, InCall
  <2>3. at' \notin {"rdap", "whois"}
    BY <1>1 DEF Begin, BeginTest, Collect, IpTest, Call
  <2>4. QED
    BY <2>1, <2>2, <2>3 DEF Target
<1>2. CASE EndContext
  BY <1>2 DEF EndContext, process, Before, InCall, Target
<1>3. CASE Header
  <2>1. /\ rep'.ip = rep.ip /\ rep'.section = rep.section /\ rep'.notes = rep.notes
        /\ Before /\ at' = "ip?"
    BY <1>3 DEF Header, Before
  <2>2. QED
    BY <2>1 DEF Target
<1>4. CASE GotV4 \/ GotV6
  <2>1. rep.ip = "none" /\ rep.section.rdap = Unrecorded /\ "RDAP lookup" \notin rep.notes
    BY <1>4 DEF GotV4, GotV6, Before
  <2>2. \A section : section.rdap = Unrecorded /\ Resolved(section) => Recorded'
    <3>1. SUFFICES ASSUME NEW section, section.rdap = Unrecorded, Resolved(section)
                   PROVE  Recorded'
      OBVIOUS
    <3>2. rep'.ip = "none" /\ rep'.section.rdap = Unrecorded /\ "RDAP lookup" \notin rep'.notes
      <4>1. NoSection.rdap = Unrecorded
        BY DEF NoSection
      <4>2. QED
        BY <2>1, <3>1, <4>1, ResolvedWrites
    <3>3. at' = "rdap" => Target' # Nil
      BY <3>1, ResolvedWrites DEF Target
    <3>4. at' \in {"rdap", "blacklist?"}
      BY <3>1, ResolvedWrites
    <3>5. QED
      BY <3>2, <3>3, <3>4
  <2>3. CASE GotV4 /\ ~skip6
    <3>1. rep'.ip = rep.ip /\ rep'.section.rdap = rep.section.rdap /\ rep'.notes = rep.notes
          /\ at' = "memo"
      <4>1. rep' = [rep EXCEPT !.section.v4 = got] /\ at' = "memo"
        BY <2>3 DEF GotV4, Call
      <4>2. QED
        BY <4>1, FamilyWrites
    <3>2. QED
      BY <2>1, <3>1
  <2>4. CASE GotV4 /\ skip6
    <3>1. [NoSection EXCEPT !.v4 = got].rdap = Unrecorded
      BY DEF NoSection
    <3>2. QED
      BY <2>2, <2>4, <3>1 DEF GotV4
  <2>5. CASE GotV6
    <3>1. [rep.section EXCEPT !.v6 = got].rdap = Unrecorded
      BY <2>1
    <3>2. QED
      BY <2>2, <2>5, <3>1 DEF GotV6
  <2>6. QED
    BY <1>4, <2>3, <2>4, <2>5
<1>5. CASE LookupRDAP
  <2>1. /\ at \in {"rdap", "whois"} /\ Target # Nil
        /\ rep.ip = "none" /\ rep.section.rdap = Unrecorded /\ "RDAP lookup" \notin rep.notes
    BY <1>5 DEF LookupRDAP, FetchRDAP, NoRDAP, AskWhois, WhoisFallback, NoRecord
  <2>2. CASE NoRDAP \/ AskWhois
    <3>1. rep' = rep /\ at' \in {"rdap", "whois"}
      BY <2>2 DEF NoRDAP, AskWhois
    <3>2. QED
      BY <2>1, <3>1 DEF Target
  <2>3. ASSUME NEW r, r.query = Target,
               rep' = [rep EXCEPT !.section.rdap = r, !.ip = "section"], at' = "blacklist?"
        PROVE  Recorded'
    <3>1. /\ rep'.section.rdap = r /\ rep'.notes = rep.notes /\ rep'.section.v4 = rep.section.v4
          /\ rep'.section.v6 = rep.section.v6
      BY <2>3, RecordWrites
    <3>2. Target' = Target
      BY <3>1 DEF Target
    <3>3. Unrecorded.query = Nil
      BY DEF Unrecorded
    <3>4. r # Unrecorded /\ "RDAP lookup" \notin rep'.notes
      BY <2>1, <2>3, <3>1, <3>3
    <3>5. ~Before' /\ at' \notin {"rdap", "whois"}
      BY <2>3 DEF Before, InCall
    <3>6. /\ Target' # Nil /\ rep'.section.rdap.query \in {Nil, Target'}
          /\ (rep'.section.rdap = Unrecorded) <=> ("RDAP lookup" \in rep'.notes)
      BY <2>1, <2>3, <3>1, <3>2, <3>4
    <3>7. QED
      BY <3>5, <3>6
  <2>4. CASE \E p \in Answers : FetchRDAP(p)
    <3>1. PICK p : FetchRDAP(p)
      BY <2>4
    <3>2. Record(p, Target).query = Target
      BY DEF Record
    <3>3. rep' = [rep EXCEPT !.section.rdap = Record(p, Target), !.ip = "section"]
          /\ at' = "blacklist?"
      BY <3>1 DEF FetchRDAP
    <3>4. QED
      BY <2>3, <3>2, <3>3
  <2>5. CASE \E lines \in WhoisTexts : WhoisFallback(lines)
    <3>1. PICK lines : WhoisFallback(lines)
      BY <2>5
    <3>2. WhoisRecord(lines, Target).query = Target
      BY DEF WhoisRecord
    <3>3. rep' = [rep EXCEPT !.section.rdap = WhoisRecord(lines, Target), !.ip = "section"]
          /\ at' = "blacklist?"
      BY <3>1 DEF WhoisFallback
    <3>4. QED
      BY <2>3, <3>2, <3>3
  <2>6. CASE NoRecord
    <3>1. /\ rep'.section = rep.section /\ rep'.notes = rep.notes \cup {"RDAP lookup"}
          /\ at' = "blacklist?"
      BY <2>6 DEF NoRecord
    <3>2. Target' = Target
      BY <3>1 DEF Target
    <3>3. Unrecorded.query = Nil
      BY DEF Unrecorded
    <3>4. QED
      BY <2>1, <3>1, <3>2, <3>3 DEF Before, InCall
  <2>7. QED
    BY <1>5, <2>2, <2>4, <2>5, <2>6 DEF LookupRDAP
<1>6. CASE Blacklist \/ Stack
  <2>1. rep'.ip = rep.ip /\ rep'.section = rep.section
    BY <1>6 DEF Blacklist, PublicIPv4, CheckBlacklists, ZonesDone, QueryZone, Stack
  <2>2. rep'.notes = rep.notes \/ rep'.notes = rep.notes \cup {"blacklist"}
    BY <1>6 DEF Blacklist, PublicIPv4, CheckBlacklists, ZonesDone, QueryZone, Stack
  <2>3. ~Before' /\ at' \notin {"rdap", "whois"}
    <3>1. CASE PublicIPv4
      BY <3>1, AsksForV4 DEF Before, InCall
    <3>2. CASE ~PublicIPv4
      BY <1>6, <3>2 DEF Blacklist, CheckBlacklists, ZonesDone, QueryZone, Stack, Before, InCall
    <3>3. QED
      BY <3>1, <3>2
  <2>4. Target' = Target /\ (("RDAP lookup" \in rep'.notes) <=> ("RDAP lookup" \in rep.notes))
    <3>1. Target' = Target
      BY <2>1 DEF Target
    <3>2. ("RDAP lookup" \in rep'.notes) <=> ("RDAP lookup" \in rep.notes)
      BY <2>2
    <3>3. QED
      BY <3>1, <3>2
  <2>5. QED
    BY <2>1, <2>3, <2>4
<1>7. CASE NextRun
  BY <1>7 DEF NextRun, EmptyReport, NoSection, Unrecorded
<1>8. QED
  BY <1>1, <1>2, <1>3, <1>4, <1>5, <1>6, <1>7 DEF Test

(* A call changes what the memo holds only where it held nothing. *)
LEMMA AskMachine ==
  ASSUME MachineInv, Asks
  PROVE  Remembered' /\ Recorded'
<1>1. /\ at = "provider" /\ memo[lookup.family] = "absent" /\ lookup.family \in Families
      /\ rep' = rep /\ DOMAIN memo = Families
      /\ lookup.back \in {"header", "ip4", "ip6", "check"}
      /\ ((lookup.back = "ip6") <=> (lookup.family = "v6"))
  BY AskEffect DEF MachineInv, AskInv, Shapes, Calls, InCall
<1>2. CASE /\ UNCHANGED <<memo, got, at>>
           /\ lookup' = [lookup EXCEPT !.p = @ + 1] /\ lookup.p < Providers
  <2>1. lookup'.back = lookup.back
    BY <1>2 DEF MachineInv, AskInv, Shapes
  <2>2. QED
    BY <1>1, <1>2, <2>1 DEF MachineInv, Remembered, Held, Recorded, Before, InCall, Target
<1>3. CASE /\ got' # "absent" /\ memo' = [memo EXCEPT ![lookup.family] = got']
           /\ at' = lookup.back /\ UNCHANGED lookup
  <2>1. \A v : Held(v) => Held(v)'
    BY <1>1, <1>3 DEF Held, Families
  <2>2. at' \in {"header", "ip4", "check"} => Held(got)'
    BY <1>1, <1>3 DEF Held, Families
  <2>3. Remembered'
    BY <1>1, <2>1, <2>2 DEF MachineInv, Remembered
  <2>4. Before' => Before
    BY <1>1, <1>3 DEF Before, InCall
  <2>5. QED
    BY <1>1, <1>3, <2>3, <2>4 DEF MachineInv, Recorded, Target
<1>4. QED
  BY <1>2, <1>3, AskEffect DEF MachineInv

LEMMA MachineNext == MachineInv /\ [Next]_vars => MachineInv'
<1>1. SUFFICES ASSUME MachineInv, [Next]_vars PROVE Remembered' /\ Recorded'
  BY AskNext DEF MachineInv
<1>2. CASE MemoHit
  <2>1. /\ rep' = rep /\ memo' = memo /\ lookup' = lookup /\ got' = memo[lookup.family]
        /\ got' # "absent" /\ at = "memo" /\ at' = lookup.back
    BY <1>2 DEF MemoHit, Known, ReturnGeo, geoRest
  <2>2. /\ lookup.back \in {"header", "ip4", "ip6", "check"} /\ lookup.family \in Families
        /\ ((lookup.back = "ip6") <=> (lookup.family = "v6"))
    BY <1>1, <2>1 DEF MachineInv, AskInv, Calls, InCall
  <2>3. Remembered'
    BY <1>1, <2>1, <2>2 DEF MachineInv, Remembered, Held, Families
  <2>4. Before' => Before
    BY <2>1, <2>2 DEF Before, InCall
  <2>5. QED
    BY <1>1, <2>1, <2>2, <2>3, <2>4 DEF MachineInv, Recorded, Target
<1>3. CASE MemoMiss
  <2>1. rep' = rep /\ memo' = memo /\ lookup' = lookup /\ got' = got /\ at = "memo" /\ at' = "provider"
    BY <1>3 DEF MemoMiss, geoRest
  <2>2. QED
    BY <1>1, <2>1 DEF MachineInv, Remembered, Held, Recorded, Before, InCall, Target
<1>4. CASE UNCHANGED vars
  <2>1. rep' = rep /\ memo' = memo /\ lookup' = lookup /\ got' = got /\ at' = at
    BY <1>4 DEF vars
  <2>2. QED
    BY <1>1, <2>1 DEF MachineInv, Remembered, Held, Recorded, Before, InCall, Target
<1>5. CASE Asks
  BY <1>1, <1>5, AskMachine
<1>6. CASE Test
  BY <1>1, <1>6, TestRemembers, TestRecords DEF MachineInv
<1>7. QED
  BY <1>1, <1>2, <1>3, <1>4, <1>5, <1>6 DEF Next, LookupGeo, Asks, Test

(* One report names one IPv4 address, and its notes say that the record of *)
(* its address is missing exactly where it is.                             *)
THEOREM ReportOfOneMachine == Spec => []OneMachine
<1>1. MachineInv => OneMachine
  <2>1. SUFFICES ASSUME MachineInv PROVE OneMachine
    OBVIOUS
  <2>2. {rep.header, rep.section.v4, rep.blacklist} \ {"none", Nil} \subseteq {memo["v4"]}
    BY <2>1 DEF MachineInv, Remembered, Held
  <2>3. Cardinality({rep.header, rep.section.v4, rep.blacklist} \ {"none", Nil}) <= 1
    <3>1. IsFiniteSet({memo["v4"]}) /\ Cardinality({memo["v4"]}) = 1
      BY FS_Singleton
    <3>2. QED
      BY <2>2, <3>1, FS_Subset
  <2>4. QED
    BY <2>1, <2>3 DEF MachineInv, Recorded, OneMachine
<1>2. QED
  BY <1>1, MachineInit, MachineNext, PTL DEF Spec

-----------------------------------------------------------------------------

(* The status of a zone is what its answer means, and only an answer of    *)
(* addresses has any.                                                      *)
Judged == /\ DOMAIN zone = Zones
          /\ \A z \in Zones : zone[z] = Waiting \/
               /\ zone[z].status = ZoneStatus(zone[z].told, zone[z].addrs)
               /\ zone[z].told \in {"no such name", "failure", "addresses"}
               /\ zone[z].addrs \subseteq Codes
               /\ zone[z].told # "addresses" => zone[z].addrs = {}

Listing == {z \in Zones : Answered(z)}

(* An address is in the report while its zones are asked, and the number   *)
(* next to it from their end on.                                           *)
Counted ==
  /\ at \notin {"zones", "stack?", "stack", "end"} => rep.blacklist = Nil
  /\ at \in {"stack?", "stack", "end"} /\ rep.blacklist # Nil => rep.listed = Cardinality(Listing)

VerdictInv == AskInv /\ Judged /\ Counted

LEMMA Meaning ==
  ASSUME Judged, NEW z \in Zones
  PROVE  /\ zone[z].status = "clean" => zone[z].told # "failure" /\ zone[z].addrs = {}
         /\ zone[z].status = "listed" <=> Answered(z)
<1>1. CASE zone[z] = Waiting
  BY <1>1 DEF Waiting, Answered
<1>2. CASE zone[z] # Waiting
  <2> DEFINE told == zone[z].told
             addrs == zone[z].addrs
  <2>1. /\ zone[z].status = ZoneStatus(told, addrs)
        /\ addrs \subseteq Codes
        /\ told # "addresses" => addrs = {}
    BY <1>2 DEF Judged
  <2>2. Answered(z) <=> addrs # {} /\ "refusal" \notin addrs
    BY DEF Answered
  <2> HIDE DEF told, addrs
  <2>3. ZoneStatus(told, addrs) = "clean" => told # "failure" /\ addrs = {}
    BY <2>1 DEF ZoneStatus
  <2>4. ZoneStatus(told, addrs) = "listed" <=> addrs # {} /\ "refusal" \notin addrs
    BY <2>1 DEF ZoneStatus
  <2>5. QED
    BY <2>1, <2>2, <2>3, <2>4 DEF told, addrs
<1>3. QED
  BY <1>1, <1>2

(* A new round of waiting zones, or the answer of one, or nothing. *)
LEMMA TestJudges ==
  ASSUME Judged, Test
  PROVE  Judged'
<1>1. CASE CheckBlacklists \/ NextRun
  <2>1. zone' = zone \/ zone' = [z \in Zones |-> Waiting]
    BY <1>1 DEF CheckBlacklists, NextRun
  <2>2. QED
    BY <2>1 DEF Judged
<1>2. CASE \E z \in Zones, told \in {"no such name", "failure", "addresses"},
              addrs \in SUBSET Codes : QueryZone(z, told, addrs)
  <2>1. PICK z \in Zones, told \in {"no such name", "failure", "addresses"},
             addrs \in SUBSET Codes : QueryZone(z, told, addrs)
    BY <1>2
  <2> DEFINE new == [told |-> told, addrs |-> addrs, status |-> ZoneStatus(told, addrs)]
  <2>2. zone' = [zone EXCEPT ![z] = new]
    BY <2>1 DEF QueryZone
  <2>3. new.status = ZoneStatus(new.told, new.addrs) /\ new.told = told /\ new.addrs = addrs
        /\ (told # "addresses" => addrs = {})
    BY <2>1 DEF QueryZone
  <2> HIDE DEF new
  <2>4. QED
    BY <2>2, <2>3 DEF Judged
<1>3. CASE Begin \/ Collect \/ Header \/ IpTest \/ GotV4 \/ GotV6 \/ Stack \/ EndContext
  <2>1. zone' = zone
    BY <1>3 DEF Begin, BeginTest, Collect, Header, IpTest, GotV4, GotV6, Stack, EndContext, testRest
  <2>2. QED
    BY <2>1 DEF Judged
<1>4. CASE LookupRDAP \/ PublicIPv4 \/ ZonesDone
  <2>1. zone' = zone
    BY <1>4 DEF LookupRDAP, FetchRDAP, NoRDAP, AskWhois, WhoisFallback, NoRecord, PublicIPv4,
           ZonesDone, testRest
  <2>2. QED
    BY <2>1 DEF Judged
<1>5. QED
  BY <1>1, <1>2, <1>3, <1>4 DEF Test, Blacklist

LEMMA TestCounts ==
  ASSUME AskInv, Judged, Counted, Test
  PROVE  Counted'
<1>1. Shapes
  BY DEF AskInv
<1>2. CASE CheckBlacklists
  BY <1>2, <1>1 DEF CheckBlacklists, Counted, Shapes
<1>3. CASE NextRun
  BY <1>3 DEF NextRun, EmptyReport, Counted
<1>4. CASE ZonesDone
  <2>1. {z \in Zones : zone[z].status = "listed"} = Listing
    BY Meaning DEF Listing
  <2>2. zone' = zone /\ at' = "stack?" /\ rep'.listed = Cardinality(Listing)
    BY <1>4, <1>1, <2>1 DEF ZonesDone, testRest, Shapes
  <2>3. QED
    BY <2>2 DEF Counted, Listing, Answered
<1>5. CASE \E z \in Zones, told \in {"no such name", "failure", "addresses"},
              addrs \in SUBSET Codes : QueryZone(z, told, addrs)
  BY <1>5 DEF QueryZone, Counted
<1>6. CASE Begin \/ Stack \/ EndContext
  <2>1. zone' = zone /\ rep'.blacklist = rep.blacklist /\ rep'.listed = rep.listed
    BY <1>6, <1>1 DEF Begin, BeginTest, Stack, EndContext, testRest, Shapes
  <2>2. at' \in {"zones", "stack?", "stack", "end"} =>
          at' = at \/ at \in {"stack?", "stack"} \/ rep.blacklist = Nil
    BY <1>6 DEF Begin, BeginTest, Stack, EndContext, Counted
  <2>3. at \in {"stack?", "stack", "end", "zones"} => at' = at \/ at' \in {"stack", "end"}
    BY <1>6 DEF Begin, BeginTest, Stack, EndContext
  <2>4. at \in {"stack?", "stack"} /\ at' = "zones" => FALSE
    BY <1>6 DEF Begin, BeginTest, Stack, EndContext
  <2>5. at = "zones" => at' = "zones"
    BY <1>6 DEF Begin, BeginTest, Stack, EndContext
  <2>6. QED
    BY <2>1, <2>2, <2>3, <2>4, <2>5 DEF Counted, Listing, Answered
<1>7. CASE Collect \/ Header \/ IpTest \/ GotV4 \/ GotV6 \/ LookupRDAP \/ PublicIPv4
  <2>1. at \notin {"zones", "stack?", "stack", "end"} /\ at' \notin {"zones", "stack?", "stack", "end"}
    BY <1>7, AsksForV4 DEF Collect, Header, IpTest, GotV4, GotV6, Resolved, Call, LookupRDAP, FetchRDAP,
           NoRDAP, AskWhois, WhoisFallback, NoRecord, PublicIPv4
  <2>2. rep'.blacklist = rep.blacklist
    <3>1. CASE Collect \/ Header \/ IpTest \/ PublicIPv4
      BY <3>1, <1>1 DEF Collect, Header, IpTest, PublicIPv4, Shapes
    <3>2. CASE GotV4
      BY <3>2, <1>1, ResolvedWrites, FamilyWrites DEF GotV4
    <3>3. CASE GotV6
      BY <3>3, <1>1, ResolvedWrites DEF GotV6
    <3>4. CASE NoRDAP \/ AskWhois \/ NoRecord
      BY <3>4, <1>1 DEF NoRDAP, AskWhois, NoRecord, Shapes
    <3>5. CASE \E p \in Answers : FetchRDAP(p)
      BY <3>5, <1>1, RecordWrites DEF FetchRDAP
    <3>6. CASE \E lines \in WhoisTexts : WhoisFallback(lines)
      BY <3>6, <1>1, RecordWrites DEF WhoisFallback
    <3>7. QED
      BY <1>7, <3>1, <3>2, <3>3, <3>4, <3>5, <3>6 DEF LookupRDAP
  <2>3. QED
    BY <2>1, <2>2 DEF Counted
<1>8. QED
  BY <1>2, <1>3, <1>4, <1>5, <1>6, <1>7 DEF Test, Blacklist

LEMMA VerdictNext == VerdictInv /\ [Next]_vars => VerdictInv'
<1>1. SUFFICES ASSUME VerdictInv, [Next]_vars PROVE Judged' /\ Counted'
  BY AskNext DEF VerdictInv
<1>2. CASE MemoHit \/ MemoMiss \/ Asks
  <2>1. zone' = zone /\ rep' = rep /\ InCall /\ at' \in {"memo", "provider", lookup.back}
    <3>1. CASE MemoHit \/ MemoMiss
      BY <3>1 DEF MemoHit, MemoMiss, ReturnGeo, geoRest, InCall
    <3>2. CASE Asks
      <4>1. zone' = zone
        BY <3>2 DEF Asks, ProviderAnswers, ProviderMalformed, ProviderFails, geoRest
      <4>2. QED
        BY <1>1, <3>2, <4>1, AskEffect DEF VerdictInv, InCall
    <3>3. QED
      BY <1>2, <3>1, <3>2
  <2>2. lookup.back \in {"header", "ip4", "ip6", "check"}
    BY <1>1, <2>1 DEF VerdictInv, AskInv, Calls
  <2>3. QED
    BY <1>1, <2>1, <2>2 DEF VerdictInv, Judged, Counted, InCall
<1>3. CASE Test
  BY <1>1, <1>3, TestJudges, TestCounts DEF VerdictInv
<1>4. CASE UNCHANGED vars
  <2>1. zone' = zone /\ rep' = rep /\ at' = at
    BY <1>4 DEF vars
  <2>2. QED
    BY <1>1, <2>1 DEF VerdictInv, Judged, Counted, Listing, Answered
<1>5. QED
  BY <1>1, <1>2, <1>3, <1>4 DEF Next, LookupGeo, Asks, Test

(* A zone that could not be asked, or that refused, is neither clean nor   *)
(* listed, and the report counts as listings the zones that answered with  *)
(* addresses and no refusal.                                               *)
THEOREM VerdictsAreTold == Spec => []NoFalseVerdict
<1>1. Init => VerdictInv
  <2>1. SUFFICES ASSUME Init PROVE Judged /\ Counted
    BY AskInit DEF VerdictInv
  <2>2. QED
    BY <2>1 DEF Init, Judged, Counted, EmptyReport
<1>2. VerdictInv => NoFalseVerdict
  BY Meaning DEF VerdictInv, Counted, Listing, NoFalseVerdict
<1>3. QED
  BY <1>1, <1>2, VerdictNext, PTL DEF Spec

=============================================================================
