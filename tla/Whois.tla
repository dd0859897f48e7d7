-------------------------------- MODULE Whois --------------------------------
(***************************************************************************)
(* internal/whois, Lookup: the page of whois.com, the chain of servers on  *)
(* port 43 that starts at IANA (queryChain), and the DNS records, asked    *)
(* for by one goroutine per type (lookupDNS).  Every request may fail; the *)
(* context of the test ends requests and nothing else.                     *)
(***************************************************************************)
EXTENDS WhoisText

CONSTANTS
  Inputs,   \* what may be typed: sequences of tokens
  Good,     \* labels that may stand in a name
  Pages,    \* pages whois.com may send
  Texts,    \* answers on port 43
  Types,    \* record types that are asked for
  Counts    \* numbers of records of a type

MaxHops == 3
MaxTXT  == 6
NicOfTLD == "whois.nic.tld"

Line == [block : STRING, key : STRING, value : STRING]
RowOfPage == [block : STRING, key : STRING, vals : Seq(STRING)]

ASSUME WhoisAssumption ==
  /\ \A i \in Inputs : i \in Seq(STRING)
  /\ \A text \in Texts : text \in Seq(Line)
  /\ \A p \in Pages : p.rows \in Seq(RowOfPage)
  /\ {"A", "TXT"} \subseteq Types /\ Types \subseteq {"A", "AAAA", "NS", "MX", "TXT", "CNAME"}
  /\ NicOfTLD \in Hosts /\ "" \notin Hosts
  /\ 0 \in Counts /\ Counts \subseteq Nat

VARIABLES
  at,       \* the next step of Lookup
  input, name,
  info,     \* the report under way
  sources, notes,
  server,   \* the next one of the chain
  asked,    \* the servers asked so far, in order
  parts,    \* the servers that answered, and what they said
  page,     \* history: the page, if it could be read
  dns,      \* for each type: how many records, and how many were left out
  dnsErr    \* the error next to them

vars == <<at, input, name, info, sources, notes, server, asked, parts, page, dns, dnsErr>>
records == <<dns, dnsErr>>

Pending == [done |-> FALSE, records |-> 0, more |-> 0]
NoPage == [kind |-> "none", raw |-> <<>>, rows |-> <<>>]

Init ==
  /\ at = "normalize" /\ input \in Inputs /\ name = <<>>
  /\ info = NoInfo /\ sources = <<>> /\ notes = {}
  /\ server = "" /\ asked = <<>> /\ parts = <<>> /\ page = NoPage
  /\ dns = [t \in Types |-> Pending] /\ dnsErr = ""

chain == <<server, asked, parts>>

Normalize ==
  /\ at = "normalize"
  /\ IF Valid(Labels(input), Good)
     THEN at' = "site" /\ name' = Labels(input)
     ELSE at' = "refused" /\ UNCHANGED name
  /\ UNCHANGED <<input, info, sources, notes, chain, page, records>>

-----------------------------------------------------------------------------
(* The page *)

(* To the registry only for what the page did not tell. *)
AfterSite(d) == IF NeedsRegistry(d) THEN "root" ELSE "dns"

SiteFails ==
  /\ at = "site"
  /\ notes' = notes \cup {"whois.com"}
  /\ at' = AfterSite(info)
  /\ UNCHANGED <<input, name, info, sources, chain, page, records>>

Site(p) ==
  /\ at = "site" /\ ~PageFails(p)
  /\ page' = p
  /\ info' = Merge(info, SiteInfo(p))
  /\ sources' = Append(sources, "whois.com")
  /\ at' = AfterSite(info')
  /\ UNCHANGED <<input, name, notes, chain, records>>

-----------------------------------------------------------------------------
(* queryChain *)

ChainFails ==
  /\ notes' = notes \cup {"port43"}
  /\ at' = "dns"
  /\ UNCHANGED <<info, sources>>

(* One text, with a comment before each answer. *)
Comment(s) == <<[block |-> "%", key |-> Empty, value |-> s]>>
Glue(lines, answer) == lines \o Comment(answer.server) \o answer.lines
Glued(answers) == Loop(Glue, <<>>, answers)

(* The answers become one text, and one record. *)
ChainEnds ==
  /\ info' = Merge(info, ParseRaw(Glued(parts')))
  /\ sources' = sources \o [k \in DOMAIN parts' |-> parts'[k].server]
  /\ at' = "dns"
  /\ UNCHANGED notes

RootFails ==
  /\ at = "root"
  /\ ChainFails
  /\ UNCHANGED <<input, name, chain, page, records>>

(* Where IANA names no server, the usual name is tried. *)
Root(text) ==
  /\ at = "root"
  /\ server' = IF Refer(text) = "" THEN NicOfTLD ELSE Refer(text)
  /\ at' = "chain"
  /\ UNCHANGED <<input, name, info, sources, notes, asked, parts, page, records>>

AnyServer(s, past)   == TRUE
FreshServer(s, past) == s \notin ToSet(past)

(* The condition of the loop. *)
Onward(s, past) == Len(past) < MaxHops /\ s # "" /\ FreshServer(s, past)

Answered(text) ==
  /\ at = "chain"
  /\ asked' = Append(asked, server)
  /\ parts' = Append(parts, [server |-> server, lines |-> text])
  /\ server' = Refer(text)
  /\ IF Onward(server', asked') THEN UNCHANGED <<at, info, sources, notes>> ELSE ChainEnds
  /\ UNCHANGED <<input, name, page, records>>

AllLost(answers)    == TRUE
NothingYet(answers) == answers = <<>>

(* A chain that breaks half way keeps what it has. *)
ServerFails ==
  /\ at = "chain"
  /\ asked' = Append(asked, server)
  /\ UNCHANGED <<input, name, server, parts, page, records>>
  /\ IF NothingYet(parts) THEN ChainFails ELSE ChainEnds

-----------------------------------------------------------------------------
(* lookupDNS *)

(* A goroutine stores what it got, under the mutex.  The resolver's error  *)
(* for an address is an error of type A only.                              *)
Resolve(t, n) ==
  /\ at = "dns" /\ ~dns[t].done
  /\ LET shown == IF t = "TXT" /\ n > MaxTXT THEN MaxTXT ELSE n IN
       dns' = [dns EXCEPT ![t] = [done |-> TRUE, records |-> shown, more |-> n - shown]]
  /\ \/ dnsErr' = dnsErr
     \/ t = "A" /\ n = 0 /\ dnsErr' = "resolver"
  /\ UNCHANGED <<at, input, name, info, sources, notes, chain, page>>

NoRecords == \A t \in Types \ {"TXT", "CNAME"} : dns[t].records = 0

-----------------------------------------------------------------------------
(* The end *)

Nothing(d) == ~d.available /\ Bare(d)

Return ==
  /\ at = "dns" /\ \A t \in Types : dns[t].done
  /\ dnsErr' = IF NoRecords /\ dnsErr = "" THEN "empty" ELSE dnsErr
  /\ at' = IF Nothing(info) THEN "error" ELSE "report"
  /\ UNCHANGED <<input, name, info, sources, notes, chain, page, dns>>

Next ==
  \/ Normalize
  \/ SiteFails \/ \E p \in Pages : Site(p)
  \/ RootFails \/ ServerFails
  \/ \E text \in Texts : Root(text) \/ Answered(text)
  \/ \E t \in Types, n \in Counts : Resolve(t, n)
  \/ Return

Spec == Init /\ [][Next]_vars

-----------------------------------------------------------------------------
(* Properties *)

WhoisTypeOK ==
  /\ at \in {"normalize", "refused", "site", "root", "chain", "dns", "report", "error"}
  /\ server \in Hosts \cup {""} /\ asked \in Seq(Hosts)
  /\ notes \subseteq {"whois.com", "port43"}
  /\ \A t \in Types : dns[t].more > 0 => dns[t].records = MaxTXT

Ended == at \in {"report", "error"}
Servers(answers) == [k \in DOMAIN answers |-> answers[k].server]

(* The comments of queryChain: referrals that lead in a circle end, no     *)
(* server of the chain is asked twice, and when the chain breaks half way  *)
(* everything received so far is in the report, named as a source, in the  *)
(* order of the chain; port 43 is in the notes only if nothing came.  The  *)
(* first question, to IANA, is not of the chain: a server that refers back *)
(* to IANA has it asked once more.                                         *)
ChainKeeps ==
  /\ Len(asked) <= MaxHops /\ IsInjective(asked)
  /\ Ended => sources = (IF page = NoPage THEN <<>> ELSE <<"whois.com">>) \o Servers(parts)
  /\ Ended /\ asked # <<>> => ("port43" \in notes) = (parts = <<>>)

(* Who is heard first: the page, then the servers in the order of the      *)
(* chain.                                                                  *)
Heard == <<SiteInfo(page)>> \o [k \in DOMAIN parts |-> ParseRaw(parts[k].lines)]
FirstSaid(v, b, k) ==
  IF v = Empty THEN \A j \in DOMAIN Heard : Heard[j].f[b][k] = Empty
  ELSE \E j \in DOMAIN Heard : /\ Heard[j].f[b][k] = v
                               /\ \A n \in 1..(j - 1) : Heard[n].f[b][k] = Empty

(* The comment of merge: the first source is the better one.  A field with *)
(* one value that the report has of the domain or the registrar is the one *)
(* of the first source that has it, wherever the page is silent on part of *)
(* it and however the chain goes on; of a contact, the page has all or     *)
(* nothing.  Status and name servers are lists, which the answers of a     *)
(* chain add up: nothing is said of them here.                             *)
FirstSourceWins == Ended =>
  /\ \A b \in {"domain", "registrar"}, k \in Keys : FirstSaid(info.f[b][k], b, k)
  /\ \A b \in Roles \cap Heard[1].has : info.f[b] = Heard[1].f[b]

(* What Lookup takes for essential is not lost on the way: if any source,  *)
(* be it the page or one server of a chain that broke, named a registrar,  *)
(* a date of registration or a name server, or said that the domain is     *)
(* free, there is a report.  A page that could not be had is in the notes. *)
Essential(d) ==
  d.available \/ "registrar" \in d.has \/ d.f["domain"].registered # Empty \/ d.ns # <<>>

EssentialsKept == Ended =>
  /\ (\E j \in DOMAIN Heard : Essential(Heard[j])) => at = "report"
  /\ ("whois.com" \in notes) = (page = NoPage)

(* The comment of Lookup: an error only if there is no data at all.        *)
ErrorMeansNoData == at = "error" =>
  /\ info.has = {} /\ info.status = <<>> /\ info.ns = <<>>
  /\ \A b \in Blocks, k \in Keys : info.f[b][k] = Empty

(* The comment of DomainInfo.Notes: the sources that did not answer.       *)
SilentSourcesNoted == Ended /\ Len(parts) < Len(asked) => "port43" \in notes

(* The host of a link, read by the grammar of links: it stands at the      *)
(* beginning or behind a scheme or a user, not in the path, and goes up to *)
(* the path, the port or the end; what stands before a user or a scheme    *)
(* that follows is no host.                                                *)
PathMarks == {"/", "?", "#"}
IsHost(s, first, last) ==
  /\ first = 1 \/ s[first - 1] \in ToSet(Starts)
  /\ last = Len(s) \/ s[last + 1] \in ToSet(Ends)
  /\ \A k \in first..last : s[k] \notin ToSet(Starts) \cup ToSet(Ends)
  /\ \A k \in 1..(first - 1) : s[k] \notin PathMarks
  /\ \A k \in (last + 1)..Len(s) :
       s[k] \in ToSet(Starts) => \E j \in (last + 1)..(k - 1) : s[j] \in PathMarks

(* README.md:196 and the comment of Normalize: people paste a whole link   *)
(* and its host is looked up, without www.                                 *)
LinkGivesHost == name # <<>> =>
  \E first, last \in DOMAIN input :
    /\ IsHost(input, first, last)
    /\ name = SubSeq(input, IF input[first] = "www" THEN first + 1 ELSE first, last)

(* A link with one scheme and one user at most, and neither mark of them   *)
(* in its path.                                                            *)
PlainLink(s) ==
  \A k \in DOMAIN s : s[k] \in ToSet(Starts) =>
    \A j \in 1..(k - 1) : s[j] \notin PathMarks \cup {s[k]}

(* Of such a link it is true, whatever stands around the host.             *)
HostOfLink == PlainLink(input) => LinkGivesHost

(* The comment of DomainInfo: Available means that the domain is free, the *)
(* other fields are empty then.  PrintDomain shows none of them.           *)
AvailableMeansFree == at = "report" /\ info.available => Bare(info)

=============================================================================
