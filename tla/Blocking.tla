------------------------------ MODULE Blocking ------------------------------
(***************************************************************************)
(* internal/blocking: run and its verdict.  The probes of all endpoints    *)
(* share nothing but the context (the pool is WorkerPool), so one of them  *)
(* is followed step by step and the others are what they may answer: a     *)
(* second control host, and the endpoints of the followed one's service.    *)
(***************************************************************************)
EXTENDS Probe, FiniteSets

CONSTANT Siblings  \* the other endpoints of the service

ASSUME SiblingsAssumption == IsFiniteSet(Siblings) /\ "followed" \notin Siblings

VARIABLES
  control,   \* the followed probe is of a control host, never changed
  others,    \* the statuses of the probes that are not followed
  judgement, \* what run returned: "open", "canceled", "no control", "table"
  service    \* the service's status in the table

judgeVars == <<control, others, judgement, service>>
vars == <<probeVars, judgeVars>>

Others == {"other control"} \cup Siblings
Unknown == [o \in Others |-> "unknown"]

BlockingTypeOK ==
  /\ ProbeTypeOK
  /\ control \in BOOLEAN
  /\ others \in [Others -> Status] \cup {Unknown}
  /\ judgement \in {"open", "canceled", "no control", "table"}
  /\ service \in Status \cup {"none", "partial"}

Init ==
  /\ ProbeInit
  /\ control \in BOOLEAN /\ (tcpOnly => ~control)
  /\ others = Unknown
  /\ judgement = "open" /\ service = "none"

AnyReachable(statuses) == statuses \cap {"ok", "throttled"} # {}

VerdictAllVote(ok, blocked, throttled) ==
  IF ok > 0 THEN "ok" ELSE IF blocked > 0 THEN "blocked" ELSE "throttled"

(* The switch of verdict over its counters. *)
Verdict(ok, blocked, throttled) ==
  CASE ok + blocked + throttled = 0 -> "failed"
    [] ok > 0 /\ blocked + throttled = 0 -> "ok"
    [] ok > 0 /\ blocked + throttled > 0 -> "partial"
    [] ok = 0 /\ blocked > 0 -> "blocked"
    [] OTHER -> "throttled"

Members == Siblings \cup IF control THEN {} ELSE {"followed"}
StatusOf(m) == IF m = "followed" THEN res.status ELSE others'[m]
Votes(status) == Cardinality({m \in Members : StatusOf(m) = status})

Controls == {others'["other control"]} \cup IF control THEN {res.status} ELSE {}

NeverCut == FALSE
IsCut == ended

(* After wg.Wait(): ctx.Err(), the control hosts, and the table. *)
Judge ==
  /\ pc = "done" /\ judgement = "open"
  /\ others' \in [Others -> Status]
  /\ judgement' = IF IsCut THEN "canceled"
                  ELSE IF AnyReachable(Controls) THEN "table" ELSE "no control"
  /\ service' = IF judgement' = "table"
                THEN Verdict(Votes("ok"), Votes("blocked"), Votes("throttled"))
                ELSE "none"
  /\ UNCHANGED <<probeVars, control>>

EndContext ==
  /\ ~ended /\ judgement = "open"
  /\ ended' = TRUE
  /\ UNCHANGED <<tcpOnly, net, pc, dnsBlock, addrs, tries, first, res, connVars, judgeVars>>

Next ==
  \/ (ProbeStep \/ Tick \/ Cut) /\ UNCHANGED judgeVars
  \/ Judge
  \/ EndContext

(* Every call of the probe returns, by its answer or by its deadline, and  *)
(* the clock goes on.                                                      *)
Fairness ==
  /\ WF_vars(Judge)
  /\ WF_vars((Lookup \/ Resolve \/ Dial \/ Handshake) /\ UNCHANGED judgeVars)
  /\ WF_vars((Request \/ HeadersTimeout \/ Extend \/ Silence) /\ UNCHANGED judgeVars)
  /\ WF_vars((bytes = Cap /\ Whole) /\ UNCHANGED judgeVars)
  /\ WF_vars(Tick /\ UNCHANGED judgeVars)

Spec == Init /\ [][Next]_vars
FairSpec == Spec /\ Fairness

-----------------------------------------------------------------------------
(* Properties *)

(* A table is never built on a probe that the end of the test cut short:   *)
(* whatever the context does, the step and the status in it are what the   *)
(* network did, the first step it broke on the way, also when a second     *)
(* address was tried or the resolver had lied before.                      *)
TableTellsTruth == judgement = "table" => res = Truth

(* A service is called blocked or throttled only if no endpoint of it      *)
(* answered, ok only if none was held up; failed checks have no vote.      *)
FairVote ==
  judgement = "table" =>
    LET Votes0 == {IF m = "followed" THEN res.status ELSE others[m] : m \in Members} \ {"failed"}
    IN  CASE Votes0 = {}                          -> service = "failed"
          [] Votes0 # {} /\ "ok" \notin Votes0     -> service = IF "blocked" \in Votes0
                                                               THEN "blocked" ELSE "throttled"
          [] Votes0 = {"ok"}                      -> service = "ok"
          [] "ok" \in Votes0 /\ Votes0 # {"ok"}    -> service = "partial"

(* A silent stream is noticed within the idle time, and request and body   *)
(* take no longer than their two limits, whatever the server drips and     *)
(* whichever deadline was set last.                                        *)
StallIsCaught ==
  /\ pc = "read" => now - heard <= IdleTimeout /\ now - begun <= Window
  /\ now <= RespTimeout + Window

(* Every run of the test comes to its judgement. *)
JudgementComes == <>(judgement # "open")

(* The comment of Run: an error comes only if no control host answered. *)
ControlsDecide ==
  judgement = "no control" /\ control => Truth.status # "ok" /\ ~Truth.reachable

=============================================================================
