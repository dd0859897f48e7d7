--------------------------------- MODULE Ip ---------------------------------
(***************************************************************************)
(* internal/ipinfo (geo.go, rdap.go, blacklist.go) and the tests that use  *)
(* it: what the process knows of its own address, asked for by the system, *)
(* ip and blacklist tests of several runs, with the resolver of the stack  *)
(* check of internal/netcheck/stack.go.  The runs and the contexts of the  *)
(* tests are in Runner and Session; here a test may be left out, and the   *)
(* context of a test may end at any moment of it.                          *)
(***************************************************************************)
EXTENDS Integers, Sequences, FiniteSets, Rdap

CONSTANTS
  Says,        \* addresses a provider may see, for each version of IP
  Providers,   \* how many are asked, one after another
  Endpoints,   \* RDAP servers
  Answers,     \* records an RDAP server may answer with
  WhoisTexts,  \* texts the whois program may print
  Zones,       \* of dnsblZones
  Runs         \* runs of the process, from the menu

Families == {"v4", "v6"}
Nil == "nil"

ASSUME IpAssumption ==
  /\ \A f \in Families : Says[f] \subseteq STRING /\ Says[f] \cap {Nil, "absent"} = {}
  /\ {Providers, Endpoints, Runs} \subseteq Nat \ {0}

VARIABLES
  memo,      \* geoMemo: "absent", Nil or an address
  asked,     \* history: requests to each provider, for each version
  run,       \* the run under way
  at,        \* the next step of the test under way, or of the run
  cut,       \* the context of the test has ended
  skip6,     \* -no-ipv6
  lookup,    \* the call of LookupGeo: its version, provider and caller
  got,       \* what it returned
  endpoint,  \* position of the loop over the RDAP servers
  zone,      \* the goroutine of each zone: what it was told, and its status
  rep        \* the report of the run

vars == <<memo, asked, run, at, cut, skip6, lookup, got, endpoint, zone, rep>>

Unrecorded == [query |-> Nil]
NoSection == [v4 |-> Nil, v6 |-> Nil, rdap |-> Unrecorded]
EmptyReport == [header |-> "none", ip |-> "none", section |-> NoSection, notes |-> {},
                blacklist |-> Nil, listed |-> 0, resolver |-> ""]

Waiting == [told |-> "nothing", addrs |-> {}, status |-> "waiting"]

Init ==
  /\ memo = [f \in Families |-> "absent"]
  /\ asked = [f \in Families |-> [p \in 1..Providers |-> 0]]
  /\ run = 1 /\ at = "system?" /\ cut = FALSE /\ skip6 \in BOOLEAN
  /\ lookup = [family |-> "v4", p |-> 0, back |-> "none"] /\ got = Nil
  /\ endpoint = 0
  /\ zone = [z \in Zones |-> Waiting]
  /\ rep = EmptyReport

process == <<memo, asked, run, skip6>>

-----------------------------------------------------------------------------
(* LookupGeo *)

Call(f, back) ==
  /\ lookup' = [family |-> f, p |-> 1, back |-> back]
  /\ at' = "memo"

ReturnGeo(g) == got' = g /\ at' = lookup.back

geoRest == <<run, cut, skip6, endpoint, zone, rep>>

KnownGood == memo[lookup.family] \notin {"absent", Nil}
Known == memo[lookup.family] # "absent"

(* The memo has an address, or the failure of an earlier call. *)
MemoHit ==
  /\ at = "memo" /\ Known
  /\ ReturnGeo(memo[lookup.family])
  /\ UNCHANGED <<geoRest, memo, asked, lookup>>

MemoMiss ==
  /\ at = "memo" /\ ~Known
  /\ at' = "provider"
  /\ UNCHANGED <<geoRest, memo, asked, lookup, got>>

CountRequest ==
  asked' = [asked EXCEPT ![lookup.family][lookup.p] = @ + 1]

RememberFailure(g) == memo' = [memo EXCEPT ![lookup.family] = IF g = Nil THEN Nil ELSE @]
Remember(g) == memo' = [memo EXCEPT ![lookup.family] = g]

(* No provider is left: the failure is remembered as well. *)
NextProvider(left) ==
  IF left /\ lookup.p < Providers
  THEN lookup' = [lookup EXCEPT !.p = @ + 1] /\ UNCHANGED <<memo, got, at>>
  ELSE Remember(Nil) /\ ReturnGeo(Nil) /\ UNCHANGED lookup

(* sanitize lets an address through and nothing else. *)
ProviderAnswers(g) ==
  /\ at = "provider" /\ ~cut
  /\ CountRequest
  /\ Remember(g) /\ ReturnGeo(g)
  /\ UNCHANGED <<geoRest, lookup>>

ProviderMalformed ==
  /\ at = "provider" /\ ~cut
  /\ CountRequest
  /\ NextProvider(TRUE)
  /\ UNCHANGED geoRest

(* No answer, no JSON, or one that says it failed; under an ended context  *)
(* no other provider is asked.                                             *)
ProviderFails ==
  /\ at = "provider"
  /\ CountRequest
  /\ NextProvider(~cut)
  /\ UNCHANGED geoRest

-----------------------------------------------------------------------------
(* The tests, in the order of the registry *)

testRest == <<process, endpoint, zone>>

(* runner.Run begins a test with a context of its own, or leaves it out.   *)
BeginTest(here, first, after) ==
  /\ at = here
  /\ cut' = FALSE
  /\ at' \in {first, after}
  /\ UNCHANGED <<testRest, lookup, got, rep>>

Begin ==
  \/ BeginTest("system?", "system", "ip?")
  \/ BeginTest("ip?", "ip", "blacklist?")
  \/ BeginTest("blacklist?", "blacklist", "stack?")
  \/ BeginTest("stack?", "stack", "end")

(* sysinfo.Collect: the header asks only if a connection over IPv4 works.  *)
Collect ==
  /\ at = "system"
  /\ \/ at' = "ip?" /\ UNCHANGED lookup
     \/ ~cut /\ Call("v4", "header")
  /\ UNCHANGED <<testRest, cut, got, rep>>

Header ==
  /\ at = "header"
  /\ rep' = [rep EXCEPT !.header = IF got = Nil THEN "none" ELSE got]
  /\ at' = "ip?"
  /\ UNCHANGED <<testRest, cut, lookup, got>>

IpTest ==
  /\ at = "ip"
  /\ Call("v4", "ip4")
  /\ UNCHANGED <<testRest, cut, got, rep>>

Target == IF rep.section.v4 # Nil THEN rep.section.v4 ELSE rep.section.v6

(* With no address of either version the test fails; otherwise the record  *)
(* of the address is looked up.                                            *)
Resolved(section) ==
  IF section.v4 = Nil /\ section.v6 = Nil
  THEN /\ rep' = [rep EXCEPT !.notes = @ \cup {"ip"}, !.section = NoSection]
       /\ at' = "blacklist?"
       /\ UNCHANGED endpoint
  ELSE /\ rep' = [rep EXCEPT !.section = section]
       /\ at' = "rdap" /\ endpoint' = 1

GotV4 ==
  /\ at = "ip4"
  /\ IF skip6
     THEN Resolved([NoSection EXCEPT !.v4 = got]) /\ UNCHANGED lookup
     ELSE /\ rep' = [rep EXCEPT !.section.v4 = got]
          /\ Call("v6", "ip6")
          /\ UNCHANGED endpoint
  /\ UNCHANGED <<process, zone, cut, got>>

GotV6 ==
  /\ at = "ip6"
  /\ Resolved([rep.section EXCEPT !.v6 = got])
  /\ UNCHANGED <<process, zone, cut, got, lookup>>

(* The record of the first server that has one. *)
FetchRDAP(p) ==
  /\ at = "rdap" /\ endpoint <= Endpoints /\ ~cut
  /\ rep' = [rep EXCEPT !.section.rdap = Record(p, Target), !.ip = "section"]
  /\ at' = "blacklist?"
  /\ UNCHANGED <<testRest, cut, lookup, got>>

(* No answer, a status other than 200, or an empty record. *)
NoRDAP ==
  /\ at = "rdap" /\ endpoint <= Endpoints /\ ~cut
  /\ endpoint' = endpoint + 1
  /\ UNCHANGED <<process, zone, cut, at, lookup, got, rep>>

AskWhois ==
  /\ at = "rdap"
  /\ endpoint > Endpoints \/ cut
  /\ at' = "whois"
  /\ UNCHANGED <<testRest, cut, lookup, got, rep>>

WhoisFallback(lines) ==
  /\ at = "whois" /\ ~cut /\ WhoisUsable(lines)
  /\ rep' = [rep EXCEPT !.section.rdap = WhoisRecord(lines, Target), !.ip = "section"]
  /\ at' = "blacklist?"
  /\ UNCHANGED <<testRest, cut, lookup, got>>

(* The section stands without a record, and the notes say so. *)
NoRecord ==
  /\ at = "whois"
  /\ rep' = [rep EXCEPT !.ip = "section", !.notes = @ \cup {"RDAP lookup"}]
  /\ at' = "blacklist?"
  /\ UNCHANGED <<testRest, cut, lookup, got>>

-----------------------------------------------------------------------------
(* The blacklist test *)

(* publicIPv4: the address of the ip section, or the one LookupGeo knows.  *)
PublicIPv4 ==
  /\ at = "blacklist"
  /\ IF rep.ip = "section" /\ rep.section.v4 # Nil
     THEN got' = rep.section.v4 /\ at' = "check" /\ UNCHANGED lookup
     ELSE Call("v4", "check") /\ UNCHANGED got
  /\ UNCHANGED <<testRest, cut, rep>>

CheckBlacklists ==
  /\ at = "check"
  /\ IF got = Nil
     THEN rep' = [rep EXCEPT !.notes = @ \cup {"blacklist"}] /\ at' = "stack?" /\ UNCHANGED zone
     ELSE rep' = [rep EXCEPT !.blacklist = got] /\ at' = "zones" /\ zone' = [z \in Zones |-> Waiting]
  /\ UNCHANGED <<process, endpoint, cut, lookup, got>>

ErrorIsClean(told, addrs) ==
  IF told = "failure" \/ addrs = {} THEN "clean" ELSE IF "refusal" \in addrs THEN "unavailable" ELSE "listed"

(* What an answer of a zone means: no such name, or no address, is clean;  *)
(* any other failure is an error; a code 127.255.255.x is a refusal.       *)
ZoneStatus(told, addrs) ==
  IF told = "failure" THEN "error"
  ELSE IF told = "no such name" \/ addrs = {} THEN "clean"
  ELSE IF "refusal" \in addrs THEN "unavailable"
  ELSE "listed"

(* Addresses of an answer: a code 127.0.0.x, a refusal 127.255.255.x, and  *)
(* any other, as of a resolver that has an address for names without one.  *)
Codes == {"listing", "refusal", "other"}

(* queryZone; a listed address has its reason looked up, in vain or not.   *)
QueryZone(z, told, addrs) ==
  /\ at = "zones" /\ zone[z].status = "waiting"
  /\ cut => told = "failure"
  /\ told # "addresses" => addrs = {}
  /\ zone' = [zone EXCEPT ![z] = [told |-> told, addrs |-> addrs, status |-> ZoneStatus(told, addrs)]]
  /\ UNCHANGED <<process, endpoint, cut, at, lookup, got, rep>>

(* All goroutines are through: count what is listed. *)
ZonesDone ==
  /\ at = "zones" /\ \A z \in Zones : zone[z].status # "waiting"
  /\ rep' = [rep EXCEPT !.listed = Cardinality({z \in Zones : zone[z].status = "listed"})]
  /\ at' = "stack?"
  /\ UNCHANGED <<testRest, cut, lookup, got>>

-----------------------------------------------------------------------------
(* The stack check, and the end of a run *)

(* LookupGeoIP places the public resolver, if one is found; no memo.       *)
Stack ==
  /\ at = "stack"
  /\ \E resolver \in {""} \cup (IF cut THEN {} ELSE {"address", "address and place"}) :
       rep' = [rep EXCEPT !.resolver = resolver]
  /\ at' = "end"
  /\ UNCHANGED <<testRest, cut, lookup, got>>

(* From the menu, the next run has a new report; the memo stays. *)
NextRun ==
  /\ at = "end" /\ run < Runs
  /\ run' = run + 1 /\ at' = "system?" /\ rep' = EmptyReport
  /\ zone' = [z \in Zones |-> Waiting]
  /\ UNCHANGED <<memo, asked, skip6, endpoint, cut, lookup, got>>

InTest == at \notin {"system?", "ip?", "blacklist?", "stack?", "end"}

EndContext ==
  /\ InTest /\ ~cut /\ cut' = TRUE
  /\ UNCHANGED <<process, at, lookup, got, endpoint, zone, rep>>

-----------------------------------------------------------------------------

LookupGeo ==
  \/ MemoHit \/ MemoMiss
  \/ \E g \in Says[lookup.family] : ProviderAnswers(g)
  \/ ProviderMalformed \/ ProviderFails

LookupRDAP ==
  \/ \E p \in Answers : FetchRDAP(p)
  \/ NoRDAP \/ AskWhois
  \/ \E lines \in WhoisTexts : WhoisFallback(lines)
  \/ NoRecord

Blacklist ==
  \/ PublicIPv4 \/ CheckBlacklists \/ ZonesDone
  \/ \E z \in Zones, told \in {"no such name", "failure", "addresses"},
        addrs \in SUBSET Codes : QueryZone(z, told, addrs)

Next ==
  \/ Begin
  \/ Collect \/ Header
  \/ IpTest \/ GotV4 \/ GotV6
  \/ LookupGeo \/ LookupRDAP \/ Blacklist
  \/ Stack \/ NextRun \/ EndContext

Spec == Init /\ [][Next]_vars

-----------------------------------------------------------------------------
(* Properties *)

IpTypeOK ==
  /\ \A f \in Families : memo[f] \in Says[f] \cup {"absent", Nil}
  /\ asked \in [Families -> [1..Providers -> Nat]]
  /\ run \in 1..Runs /\ endpoint \in 0..(Endpoints + 1)
  /\ lookup.family \in Families /\ lookup.p \in 0..Providers

(* The comment of LookupGeo: the limits of the free services are small,    *)
(* and a failure is remembered as well.  No provider is asked twice for an *)
(* address of the same version, whatever tests and runs follow each other, *)
(* fail or are cut short.                                                  *)
AskedOnce == \A f \in Families, p \in 1..Providers : asked[f][p] <= 1

(* One report speaks of one machine: header, ip section and blacklist name *)
(* the same IPv4 address although they ask at different times and the      *)
(* providers disagree, and where the record of its address is missing a    *)
(* note says so, and only there.                                           *)
OneMachine ==
  /\ Cardinality({rep.header, rep.section.v4, rep.blacklist} \ {"none", Nil}) <= 1
  /\ rep.ip = "section" =>
       /\ Target # Nil
       /\ (rep.section.rdap = Unrecorded) <=> ("RDAP lookup" \in rep.notes)

(* The comment of queryZone: an answer that failed, for whatever reason,   *)
(* does not pass as clean, and a refusal passes neither as a listing nor   *)
(* as clean.  So the number of listings is one of zones that answered with *)
(* addresses, a refusal not among them.                                    *)
Answered(z) == zone[z].addrs # {} /\ "refusal" \notin zone[z].addrs

NoFalseVerdict ==
  /\ \A z \in Zones :
       /\ zone[z].status = "clean"  => zone[z].told # "failure" /\ zone[z].addrs = {}
       /\ zone[z].status = "listed" => Answered(z)
  /\ at \in {"stack?", "stack", "end"} /\ rep.blacklist # Nil =>
       rep.listed = Cardinality({z \in Zones : Answered(z)})

(* The comment above dnsblZones: "an answer 127.0.0.x means the address is *)
(* in the list".  So what counts as listed has such a code in its answer.  *)
ListedByCode == \A z \in Zones : zone[z].status = "listed" => "listing" \in zone[z].addrs

=============================================================================
