------------------------------ MODULE WhoisText ------------------------------
(***************************************************************************)
(* internal/whois, the part without a network: what a pasted text names    *)
(* (Normalize), what a page of whois.com (site.go) and an answer on port   *)
(* 43 (parse.go) say, and how two of them become one (merge).              *)
(*                                                                         *)
(* A line of an answer, or a row of the page, is [block, key, value]: the  *)
(* spellings of a label are already one key, and block says which part of  *)
(* the record it is about.  A page has several values in a row.            *)
(***************************************************************************)
EXTENDS Integers, Sequences, FiniteSets, SequencesExt

CONSTANTS
  Calendar,  \* spellings of dates that dateLayouts knows, and their days
  Redacted,  \* placeholders for what is hidden
  Links,     \* values that are URLs
  Mails,     \* values that are mail addresses
  Phrases,   \* values of several words
  Hosts,     \* well-formed host names
  HostOf     \* the host of a URL, or of a name in another spelling

Roles  == {"registrant", "admin", "tech", "billing", "contact"}
Blocks == {"domain", "registrar"} \cup Roles
Keys   == {"registered", "updated", "expires", "dnssec",                       \* of a domain
           "ianaID", "url", "whoisServer", "abuseEmail", "abusePhone",        \* of a registrar
           "name", "organization", "email", "web", "phone", "country", "location"}
Dated  == {"registered", "updated", "expires"}

Empty  == ""  \* a field that is not set

(* report.DomainInfo; has: the parts that were allocated. *)
NoInfo ==
  [available |-> FALSE, has |-> {}, f |-> [b \in Blocks |-> [k \in Keys |-> Empty]],
   status |-> <<>>, ns |-> <<>>, raw |-> <<>>]

Keep(old, v)     == IF old = Empty THEN v ELSE old
Add(s, v)        == IF v \in ToSet(s) THEN s ELSE Append(s, v)
NormalizeDate(v) == IF v \in DOMAIN Calendar THEN Calendar[v] ELSE v
HostName(v)      == IF v \in DOMAIN HostOf THEN HostOf[v] ELSE v
AddHost(s, v)    == Add(s, HostName(v))
Value(key, v)    == IF key \in Dated THEN NormalizeDate(v) ELSE v

(* What a loop over s makes of start: FoldLeft, as a recursive function.   *)
Loop(step(_, _), start, s) ==
  LET after[n \in 0..Len(s)] == IF n = 0 THEN start ELSE step(after[n - 1], s[n])
  IN after[Len(s)]

HostsIn(vals) == Loop(AddHost, <<>>, vals)

-----------------------------------------------------------------------------
(* parse.go: the first value wins *)

Skipped(l) == l.block \notin Blocks \/ l.value \in Redacted \cup {Empty}

(* A link is no mail address; anything else that is none either is lost.   *)
ContactKey(v) == IF v \in Mails THEN {"email"} ELSE IF v \in Links THEN {"web"} ELSE {}

ApplyLine(d, l) ==
  IF Skipped(l) THEN d
  ELSE IF l.key = "status" THEN [d EXCEPT !.status = Add(@, l.value)]
  ELSE IF l.key = "ns" THEN [d EXCEPT !.ns = AddHost(@, l.value)]
  ELSE LET keys == IF l.block \in Roles /\ l.key = "email" THEN ContactKey(l.value) ELSE {l.key} IN
       [d EXCEPT !.has = @ \cup {l.block},
                 !.f[l.block] = [k \in Keys |-> IF k \in keys THEN Keep(@[k], Value(k, l.value)) ELSE @[k]]]

(* reNoMatch looks at the whole text, comments and notices included.       *)
NoMatch(lines) == \E k \in DOMAIN lines :
  \/ lines[k].value = "notFound"
  \/ lines[k].key = "status" /\ lines[k].value \in {"available", "free"}

ParseRaw(lines) ==
  Loop(ApplyLine, [NoInfo EXCEPT !.raw = lines, !.available = NoMatch(lines)], lines)

(* port43.go, refer: the first pointer of one word, if that is a server.   *)
Points(l) == l.block # "%" /\ l.key \in {"refer", "whoisServer"} /\ l.value \notin Phrases \cup {Empty}
Pointers(lines) == SelectSeq(lines, Points)
Refer(lines) ==
  LET to == Pointers(lines) IN
    IF to # <<>> /\ HostName(to[1].value) \in Hosts THEN HostName(to[1].value) ELSE ""

-----------------------------------------------------------------------------
(* site.go: the last row wins, but for mail addresses and forms *)

PickContact(f, web, mail, v) ==
  LET k == IF v \in Links THEN web ELSE mail IN [f EXCEPT ![k] = Keep(@, v)]

Joined(old, v) == old \o ", " \o v

ApplyRow(d, row) ==
  LET v == row.vals[1]
      f == d.f[row.block]
      fields ==
        IF row.key = "email" /\ row.block = "registrar" THEN PickContact(f, "url", "abuseEmail", v)
        ELSE IF row.key = "email" THEN PickContact(f, "web", "email", v)
        ELSE IF row.key = "location" /\ f.location # Empty THEN [f EXCEPT !.location = Joined(@, v)]
        ELSE IF row.key \in Keys THEN [f EXCEPT ![row.key] = Value(row.key, v)]
        ELSE f IN
  IF row.vals = <<>> THEN d
  ELSE IF row.key = "status" THEN [d EXCEPT !.status = @ \o row.vals]
  ELSE IF row.key = "ns" THEN [d EXCEPT !.ns = HostsIn(row.vals)]
  ELSE [d EXCEPT !.has = @ \cup {row.block}, !.f[row.block] = fields]

SiteInfo(page) == Loop(ApplyRow, [NoInfo EXCEPT !.raw = page.raw], page.rows)

Bare(d) == "registrar" \notin d.has /\ d.f["domain"].registered = Empty /\ d.ns = <<>>

(* A check for robots, a page without a record, and a record without a     *)
(* field are errors of the page.                                           *)
PageFails(page) == page.kind # "record" \/ (Bare(SiteInfo(page)) /\ page.raw = <<>>)

-----------------------------------------------------------------------------
(* whois.go *)

(* As setIfEmpty would be with its arguments swapped. *)
LastKept(d, s) ==
  [s EXCEPT !.available = @ \/ d.available, !.has = @ \cup d.has,
            !.f = [b \in Blocks |-> [k \in Keys |-> Keep(s.f[b][k], d.f[b][k])]]]

Merge(d, s) ==
  [available |-> d.available \/ s.available,
   has       |-> d.has \cup s.has,
   f         |-> [b \in Blocks |-> IF b \in Roles /\ b \in d.has THEN d.f[b]
                                   ELSE [k \in Keys |-> Keep(d.f[b][k], s.f[b][k])]],
   status    |-> IF d.status = <<>> THEN s.status ELSE d.status,
   ns        |-> IF d.ns = <<>> THEN s.ns ELSE d.ns,
   raw       |-> IF d.raw = <<>> THEN s.raw ELSE d.raw]

NeedsRegistry(d) ==
  ~d.available /\ (\/ "registrar" \notin d.has
                   \/ Empty \in {d.f["domain"].registered, d.f["domain"].expires}
                   \/ d.raw = <<>>)

(* Normalize, on tokens: separators, "www", and labels.  What stands       *)
(* before a scheme or a user goes first, then what follows the host.       *)
Starts           == <<"://", "@">>
Ends             == <<"/", "?", "#", ":">>
Position(s, t)   == SelectInSeq(s, LAMBDA x : x = t)
CutBefore(s, t)  == IF Position(s, t) = 0 THEN s ELSE SubSeq(s, Position(s, t) + 1, Len(s))
CutAfter(s, t)   == IF Position(s, t) = 0 THEN s ELSE SubSeq(s, 1, Position(s, t) - 1)
UserKept(input)  == CutAfter(CutBefore(input, "://"), "@")
Authority(input) == Loop(CutBefore, input, Starts)
HostPart(input)  == Loop(CutAfter, Authority(input), Ends)
Labels(input)    == LET h == HostPart(input) IN
                      IF Len(h) > 1 /\ h[1] = "www" THEN Tail(h) ELSE h

(* validate: labels of letters and digits, two at least, and no address.   *)
Valid(labels, good) == Len(labels) >= 2 /\ ToSet(labels) \subseteq good

=============================================================================
