----------------------------- MODULE SpeedNodes -----------------------------
(***************************************************************************)
(* internal/netcheck/speedtest.go: Speedtest over the nodes of a set, one  *)
(* row per node, with the server list it fetches, the candidates it picks  *)
(* and tries, and the other method of speedcf.go.  The streams inside a    *)
(* window are in SpeedWindow, the probes inside reachable in Reachable:    *)
(* here a window ends with a speed or an error, and reachable returns the  *)
(* first candidates whose host answers.                                    *)
(*                                                                         *)
(* Time goes on only while the goroutine waits for the network or for a    *)
(* timer, and not past the end of its context: a call under an ended       *)
(* context returns at once.                                                *)
(***************************************************************************)
EXTENDS Integers, Sequences, FiniteSets, SequencesExt, Selection

CONSTANTS
  NodeSets,     \* the named sets: a function from names to sequences of nodes
  IDs,          \* numbers of servers
  Flags,        \* values of -nodes, split at the commas
  Lists,        \* server lists speedtest.net can answer with
  TestTimeout,  \* ticks the test has: -test-timeout
  NodeTimeout,  \* ticks of one node
  Gap,          \* listGap
  Retry,        \* ticks of the first pause before a retry
  Attempts,     \* requests for one list
  Limit, Want,  \* candidates probed and wanted, for each kind of search
  Tries         \* empty requests of cfLatency

(* A node has a name and a way to find its servers: the nearest ones, one  *)
(* by its ID, or those of a city.  A server has an ID, a place seen from   *)
(* the node, a host that answers or not, and the step it fails at, if any. *)
Kinds  == {"nearest", "id", "city"}
Faults == {"ping", "url", "upload", "download", "zero", "none"}
Servers == [id : Nat, place : {"city", "country", "abroad"}, alive : BOOLEAN, fault : Faults]

ASSUME NodesAssumption ==
  /\ \A name \in DOMAIN NodeSets : NodeSets[name] \in Seq([label : STRING, kind : Kinds])
  /\ DOMAIN NodeSets \cup IDs \subseteq STRING /\ \A parts \in Flags : parts \in Seq(STRING)
  /\ "default" \in DOMAIN NodeSets
  /\ IDs \cap (DOMAIN NodeSets \cup {""}) = {}
  /\ \A list \in Lists : list \in Seq(Servers)
  /\ {TestTimeout, NodeTimeout, Gap, Retry, Attempts, Tries} \subseteq Nat \ {0}
  /\ Gap <= Retry
  /\ Limit \in [Kinds \ {"id"} -> Nat \ {0}] /\ Want \in [Kinds \ {"id"} -> Nat \ {0}]

VARIABLES
  flag,         \* the value of -nodes, never changed
  pc,           \* where the goroutine of the test is
  now,          \* the clock, 0 when the test begins
  interrupted,  \* the context of the test has ended before its timeout
  nodes,        \* what resolveSet made of flag
  i,            \* the node being measured
  begun,        \* when the node began, for its timeout
  attempt,      \* requests for the list so far
  due,          \* when the next one may be sent
  lastList,     \* when the last one was over, in this process
  candidates,   \* servers of the node still to try
  dead,         \* the window began under an ended context
  best,         \* cfLatency: the requests that came back
  rows,         \* out.Nodes
  result,       \* "none" until Speedtest returns
  free,         \* history: when the user information was there
  given         \* the servers found for the node

listVars == <<attempt, due, lastList>>
nodeVars == <<i, begun, candidates, dead, given>>
vars == <<flag, pc, now, interrupted, nodes, nodeVars, listVars, best, rows, result, free>>

-----------------------------------------------------------------------------
(* Values of -nodes *)

IsServerID(part) == part \in IDs
KnownSet(part) == part \in DOMAIN NodeSets

PartNodes(part) ==
  IF part = "" THEN <<>>
  ELSE IF KnownSet(part) THEN NodeSets[part] ELSE <<[label |-> part, kind |-> "id"]>>

AddAll(out, more) == out \o more
AddNew(out, more) ==
  LET added[k \in 0..Len(more)] ==
        IF k = 0 THEN out
        ELSE IF more[k] \in Range(added[k - 1]) THEN added[k - 1] ELSE Append(added[k - 1], more[k])
  IN added[Len(more)]

Unresolved == <<>>  \* resolveSet returns an error

(* Known names and IDs, in the order given, each node once; a part that is *)
(* neither, or no part at all, is an error; no value is the default set.   *)
Parts(set) == IF set = <<>> THEN <<"default">> ELSE set

ResolveSet(parts) ==
  LET out[k \in 0..Len(parts)] ==
        IF k = 0 THEN <<>> ELSE AddNew(out[k - 1], PartNodes(parts[k]))
  IN IF \A k \in DOMAIN parts : parts[k] = "" \/ IsServerID(parts[k]) \/ KnownSet(parts[k])
     THEN out[Len(parts)]
     ELSE Unresolved

-----------------------------------------------------------------------------

Init ==
  /\ flag \in Flags
  /\ pc = "resolve" /\ now = 0 /\ interrupted = FALSE
  /\ nodes = <<>> /\ i = 1 /\ begun = 0
  /\ attempt = 0 /\ due = 0 /\ lastList \in (-Gap)..0
  /\ candidates = <<>> /\ dead = FALSE /\ best = 0 /\ given = <<>>
  /\ rows = <<>> /\ result = "none" /\ free = 0

Ended == interrupted \/ now >= TestTimeout
NodeEnded == Ended \/ now >= begun + NodeTimeout

(* A place where the goroutine waits for an answer or a timer. *)
Waiting ==
  \/ pc = "user" /\ ~Ended
  \/ pc \in {"pause", "list", "byID", "reach", "ping", "endpoints", "upload",
             "download", "cfEdge", "cfLatency", "cfDownload", "cfUpload"} /\ ~NodeEnded

Tick ==
  /\ Waiting /\ (pc = "pause" => now < due)
  /\ now' = now + 1
  /\ UNCHANGED <<flag, pc, interrupted, nodes, nodeVars, listVars, best, rows, result, free>>

(* A signal, or the timeout of the whole run. *)
Interrupt ==
  /\ ~Ended /\ result = "none" /\ interrupted' = TRUE
  /\ UNCHANGED <<flag, pc, now, nodes, nodeVars, listVars, best, rows, result, free>>

clock == <<flag, now, interrupted>>

Return(r) == pc' = "done" /\ result' = r

-----------------------------------------------------------------------------
(* ooklaSpeedtest *)

Resolve ==
  /\ pc = "resolve"
  /\ nodes' = ResolveSet(Parts(flag))
  /\ IF nodes' = Unresolved THEN Return("error") ELSE pc' = "user" /\ UNCHANGED result
  /\ UNCHANGED <<clock, nodeVars, listVars, best, rows, free>>

(* An error of the request for the user information is ignored. *)
UserInfo ==
  /\ pc = "user"
  /\ pc' = "loop" /\ free' = now
  /\ UNCHANGED <<clock, nodes, nodeVars, listVars, best, rows, result>>

(* With every node, or at the end of the context, the rows there are. *)
Loop ==
  /\ pc = "loop"
  /\ IF i > Len(nodes) \/ Ended
     THEN /\ Return("table")
          /\ UNCHANGED <<nodeVars, attempt, due>>
     ELSE /\ begun' = now
          /\ pc' = IF nodes[i].kind = "id" THEN "byID" ELSE "fetch"
          /\ attempt' = 0 /\ candidates' = <<>> /\ dead' = FALSE /\ given' = <<>>
          /\ UNCHANGED <<i, due, result>>
  /\ UNCHANGED <<clock, nodes, lastList, best, rows, free>>

(* A row is appended, and the loop takes the next node. *)
Row(r) == rows' = Append(rows, r) /\ i' = i + 1 /\ pc' = "loop"

Measured(s) == [node |-> nodes[i], server |-> s]
NoServer == [id |-> 0, place |-> "none", alive |-> FALSE, fault |-> "none"]
Failed == [node |-> nodes[i], server |-> NoServer]

-----------------------------------------------------------------------------
(* fetchServerList.  The mutex is held across the whole call; the tests of *)
(* a run follow one another, so nobody ever waits for it.                  *)

NoPause == now
Pause == IF attempt > 0 THEN now + attempt * Retry ELSE lastList + Gap

Attempt ==
  /\ pc = "fetch" /\ attempt < Attempts
  /\ due' = Pause
  /\ pc' = "pause"
  /\ UNCHANGED <<clock, nodes, nodeVars, attempt, lastList, best, rows, result, free>>

AskList ==
  /\ pc = "pause" /\ now >= due
  /\ pc' = "list"
  /\ UNCHANGED <<clock, nodes, nodeVars, listVars, best, rows, result, free>>

PauseCut ==
  /\ pc = "pause" /\ now < due /\ NodeEnded
  /\ Row(Failed)
  /\ UNCHANGED <<clock, nodes, begun, candidates, dead, given, listVars, best, result, free>>

(* An answer that is no list, or no answer: try again after a pause. *)
ListRefused ==
  /\ pc = "list"
  /\ lastList' = now /\ attempt' = attempt + 1
  /\ pc' = "fetch"
  /\ UNCHANGED <<clock, nodes, nodeVars, due, best, rows, result, free>>

GiveUp ==
  /\ pc = "fetch" /\ attempt = Attempts
  /\ Row(Failed)
  /\ UNCHANGED <<clock, nodes, begun, candidates, dead, given, listVars, best, result, free>>

(* Servers of the city first, then of the country, then the others. *)
MatchServers(list) ==
  LET At(place) == Kept(list, {s \in Range(list) : s.place = place}) IN
    At("city") \o At("country") \o At("abroad")

FirstOf(n, list) == SubSeq(list, 1, IF Len(list) < n THEN Len(list) ELSE n)

(* What of a list is left to choose from.  For the nearest node the code   *)
(* asks the library for one server (FindServer without IDs), and the       *)
(* limit of six and the choice of two that follow have only that one.      *)
Targets(kind, list) ==
  IF kind = "nearest" /\ list # <<>> THEN {<<s>> : s \in Range(list)} ELSE {list}

GotList(list) ==
  /\ pc = "list" /\ ~NodeEnded
  /\ lastList' = now
  /\ given' \in Targets(nodes[i].kind, list)
  /\ pc' = "reach"
  /\ UNCHANGED <<clock, nodes, i, begun, candidates, dead, attempt, due, best, rows, result, free>>

-----------------------------------------------------------------------------
(* pickServers and measureNode *)

NextTry(rest) == pc' = "try" /\ candidates' = rest

(* The first Want whose host answers, of a city in the order of            *)
(* matchServers; the nearest node has one to ask.                          *)
Ordered(kind, list) == IF kind = "city" THEN MatchServers(list) ELSE list

Reached(kind, list, answered) ==
  LET asked == FirstOf(Limit[kind], Ordered(kind, list)) IN
    FirstOf(Want[kind], Kept(asked, {s \in answered : s.alive}))

(* The end of the context cuts probes. *)
Reach(answered) ==
  LET picked == Reached(nodes[i].kind, given, answered) IN
    /\ pc = "reach"
    /\ NodeEnded \/ answered = Range(given)
    /\ IF picked = <<>> THEN Row(Failed) /\ UNCHANGED candidates
                        ELSE NextTry(picked) /\ UNCHANGED <<rows, i>>
    /\ UNCHANGED <<clock, nodes, begun, dead, given, listVars, best, result, free>>

(* A server asked for by its ID is the only candidate, or none. *)
ByID(list) ==
  /\ pc = "byID"
  /\ IF list = <<>> \/ NodeEnded
     THEN Row(Failed) /\ UNCHANGED <<candidates, given>>
     ELSE NextTry(<<Head(list)>>) /\ given' = <<Head(list)>> /\ UNCHANGED <<rows, i>>
  /\ UNCHANGED <<clock, nodes, begun, dead, listVars, best, result, free>>

Try ==
  /\ pc = "try"
  /\ IF candidates = <<>> \/ NodeEnded THEN Row(Failed) ELSE pc' = "ping" /\ UNCHANGED <<rows, i>>
  /\ UNCHANGED <<clock, nodes, begun, candidates, dead, given, listVars, best, result, free>>

(* What was asked of the server failed: the next candidate. *)
EndNode    == NextTry(<<>>)
SkipServer == NextTry(Tail(candidates))

Fault == Head(candidates).fault

Ping ==
  /\ pc = "ping"
  /\ IF Fault = "ping" \/ ~Head(candidates).alive \/ NodeEnded THEN SkipServer ELSE pc' = "endpoints" /\ UNCHANGED candidates
  /\ UNCHANGED <<clock, nodes, i, begun, dead, given, listVars, best, rows, result, free>>

(* ooklaEndpoints: an address that redirects is followed, one that cannot  *)
(* be asked is used as it is; only an address that does not parse fails.   *)
Endpoints ==
  /\ pc = "endpoints"
  /\ IF Fault = "url" THEN SkipServer /\ UNCHANGED dead
                      ELSE pc' = "upload" /\ dead' = NodeEnded /\ UNCHANGED candidates
  /\ UNCHANGED <<clock, nodes, i, begun, given, listVars, best, rows, result, free>>

(* A window that the end of the context cuts has a speed all the same, if  *)
(* it moved something; one that begins after it has an error.              *)
Upload ==
  /\ pc = "upload"
  /\ \/ /\ ~dead /\ Fault # "upload"
        /\ pc' = "download" /\ dead' = NodeEnded /\ UNCHANGED candidates
     \/ /\ Fault = "upload" \/ NodeEnded
        /\ SkipServer /\ UNCHANGED dead
  /\ UNCHANGED <<clock, nodes, i, begun, given, listVars, best, rows, result, free>>

Download ==
  /\ pc = "download"
  /\ \/ /\ ~dead /\ Fault = "none"
        /\ Row(Measured(Head(candidates))) /\ UNCHANGED candidates
     \/ /\ Fault # "none" \/ NodeEnded
        /\ SkipServer /\ UNCHANGED <<rows, i>>
  /\ UNCHANGED <<clock, nodes, begun, dead, given, listVars, best, result, free>>

-----------------------------------------------------------------------------
(* cloudflareSpeedtest: one node without a list of servers *)

cfRest == <<clock, nodes, i, begun, candidates, given, listVars, free>>

(* The name of the edge is optional. *)
CfEdge ==
  /\ pc = "cfEdge" /\ pc' = "cfLatency"
  /\ UNCHANGED <<cfRest, dead, best, rows, result>>

(* attempt counts the empty requests, best the ones that came back. *)
CfLatency(back) ==
  /\ pc = "cfLatency" /\ attempt < Tries /\ ~NodeEnded
  /\ attempt' = attempt + 1 /\ best' = best + back
  /\ UNCHANGED <<clock, nodes, i, begun, candidates, given, due, lastList, free, pc, dead, rows, result>>

CfLatencyOver ==
  /\ pc = "cfLatency"
  /\ attempt = Tries \/ NodeEnded
  /\ IF best = 0 THEN Return("error") /\ UNCHANGED dead
                 ELSE pc' = "cfDownload" /\ dead' = NodeEnded /\ UNCHANGED result
  /\ UNCHANGED <<cfRest, best, rows>>

CfDownload ==
  /\ pc = "cfDownload"
  /\ \/ ~dead /\ pc' = "cfUpload" /\ dead' = NodeEnded /\ UNCHANGED result
     \/ Return("error") /\ UNCHANGED dead
  /\ UNCHANGED <<cfRest, best, rows>>

CfUpload ==
  /\ pc = "cfUpload"
  /\ \/ ~dead /\ Return("table") /\ rows' = <<[node |-> "Cloudflare", server |-> "edge"]>>
     \/ Return("error") /\ UNCHANGED rows
  /\ UNCHANGED <<cfRest, dead, best>>

(* Speedtest: the method. *)
Cloudflare ==
  /\ pc = "resolve"
  /\ pc' = "cfEdge" /\ begun' = now /\ attempt' = 0
  /\ UNCHANGED <<clock, nodes, i, candidates, dead, given, due, lastList, best, rows, result, free>>

-----------------------------------------------------------------------------

FetchList == Attempt \/ AskList \/ PauseCut \/ ListRefused \/ GiveUp
               \/ \E list \in Lists : GotList(list)
PickServers == (\E answered \in SUBSET Range(given) : Reach(answered))
                 \/ \E list \in Lists : ByID(list)
MeasureNode == Try \/ Ping \/ Endpoints \/ Upload \/ Download
CfSpeedtest == Cloudflare \/ CfEdge \/ (\E back \in {0, 1} : CfLatency(back)) \/ CfLatencyOver
                 \/ CfDownload \/ CfUpload

Main == Resolve \/ UserInfo \/ Loop \/ FetchList \/ PickServers \/ MeasureNode \/ CfSpeedtest

Next == Main \/ Tick \/ Interrupt

Spec == Init /\ [][Next]_vars

-----------------------------------------------------------------------------
(* Properties *)

NodesTypeOK ==
  /\ now \in 0..TestTimeout /\ interrupted \in BOOLEAN
  /\ i \in 1..(Len(nodes) + 1) /\ attempt \in Nat /\ best \in 0..attempt
  /\ lastList <= now /\ dead \in BOOLEAN
  /\ result \in {"none", "table", "error"} /\ (pc = "done") = (result # "none")

(* speedtest.net refuses lists that are asked for too fast: two requests   *)
(* of one process are Gap apart, whatever fails, is retried or cut, and    *)
(* whatever the test before this one did.                                  *)
ListGapKept == [][AskList => now >= lastList + Gap]_vars

(* The comment in measureNode: a node is marked as failed only after all   *)
(* its candidates, unless its time is over.  Those of a city are the best  *)
(* Want of the servers alive among the best Limit of the list, servers of  *)
(* the city before those of the country before any other; the nearest node *)
(* and one given by ID have the one server that was found, and no other    *)
(* takes its place.  The row is the best candidate that works.             *)
Rank(s) == IF nodes[i].kind # "city" \/ s.place = "city" THEN 1
           ELSE IF s.place = "country" THEN 2 ELSE 3

Better(k) == {j \in DOMAIN given : \/ Rank(given[j]) < Rank(given[k])
                                   \/ Rank(given[j]) = Rank(given[k]) /\ j < k}

Candidate(k) ==
  /\ given[k].alive
  /\ nodes[i].kind # "id" =>
       /\ Cardinality(Better(k)) < Limit[nodes[i].kind]
       /\ Cardinality({j \in Better(k) : given[j].alive}) < Want[nodes[i].kind]

Working == {k \in DOMAIN given : Candidate(k) /\ given[k].fault = "none"}

FailedAfterAll ==
  [][(rows' # rows /\ nodes # <<>> /\ ~NodeEnded) =>
       LET server == rows'[Len(rows')].server IN
         \/ Working = {} /\ server = NoServer
         \/ \E k \in Working : Working \cap Better(k) = {} /\ server = given[k]]_vars

(* The comment of nodeTimeout: when the time left for the nodes covers     *)
(* their number times the timeout of one, the table is whole: it has a row *)
(* for every node the flag asks for, in order, and none of them twice.     *)
WholeTable ==
  result = "table" /\ ~interrupted /\ nodes # <<>>
    /\ TestTimeout - free >= Len(nodes) * NodeTimeout =>
      /\ [k \in DOMAIN rows |-> rows[k].node] = nodes
      /\ Cardinality(Range(nodes)) = Len(nodes)
      /\ Range(nodes) = UNION {Range(PartNodes(part)) : part \in Range(Parts(flag))}

=============================================================================
