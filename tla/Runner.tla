------------------------------- MODULE Runner -------------------------------
(***************************************************************************)
(* internal/runner: Run executes the selected tests one after another      *)
(* under the context of the run, gives each of them a context of its own   *)
(* and writes into the report which tests were started and why the failed  *)
(* ones failed.  A test is abstracted to what its Run function in          *)
(* cmd/serverok/tests.go can hand back: an error or none, with or without  *)
(* a section in the report.                                                *)
(***************************************************************************)
EXTENDS Naturals, Sequences, Selection

CONSTANTS
  Tests,      \* IDs of the registered tests
  Registry,   \* those IDs in the order New sorts them into
  Rows,       \* tests that keep the rows they have (speedtest)
  Unfailing,  \* tests whose Run always stores a section and returns nil
  Noted       \* tests that may add a note about a part of theirs (ip)

Distinct(s) == \A j, k \in DOMAIN s : s[j] = s[k] => j = k

ASSUME RegistryAssumption ==
  /\ Registry \in Seq(Tests) /\ Distinct(Registry)
  /\ "RDAP lookup" \notin Tests
  /\ Rows \subseteq Tests
  /\ Unfailing \subseteq Tests
  /\ Noted \subseteq Tests

VARIABLES
  at,       \* where the goroutine of Run is
  sel,      \* the tests of this run, in registry order
  i,        \* the position of the loop over sel
  limited,  \* opts.Timeout > 0
  rep,      \* the report: tests started, failures, sections
  ctxErr,   \* Err() of the context of the run
  tctxErr,  \* Err() of the context of the running test
  err,      \* what the test returned
  late      \* history: tests started although ctx had already ended

runnerVars == <<at, sel, i, limited, rep, ctxErr, tctxErr, err, late>>

CtxErr  == {"nil", "canceled", "deadline"}
TestErr == CtxErr \cup {"own"}
Reason  == {"interrupted", "cancelled", "timed out", "own"}

Note    == "RDAP lookup"  \* what the ip test notes instead of failing

Failure == [test : Tests \cup {Note}, reason : Reason]
Report  == [tests : Seq(Tests), failures : Seq(Failure), sections : SUBSET Tests]

EmptyReport == [tests |-> <<>>, failures |-> <<>>, sections |-> {}]

TypeOK ==
  /\ at \in {"idle", "head", "begin", "running", "returned", "done"}
  /\ sel \in Seq(Tests)
  /\ i \in Nat \ {0}
  /\ limited \in BOOLEAN
  /\ rep \in Report
  /\ ctxErr \in CtxErr
  /\ tctxErr \in CtxErr
  /\ err \in TestErr
  /\ late \in Nat

RunnerInit ==
  /\ at = "idle" /\ sel = <<>> /\ i = 1 /\ limited = FALSE
  /\ rep = EmptyReport
  /\ ctxErr = "nil" /\ tctxErr = "nil" /\ err = "nil" /\ late = 0

(***************************************************************************)
(* Registry.Select: the requested IDs in registry order, each once.        *)
(***************************************************************************)
SelectAsAsked(ids) == ids

Select(ids) == Kept(Registry, {ids[k] : k \in DOMAIN ids})

HumanErrorRaw(e, parent) == e

HumanError(e, parent) ==
  CASE e = "canceled" /\ parent # "nil" -> "interrupted"
    [] e = "canceled" /\ parent = "nil" -> "cancelled"
    [] e = "deadline"                   -> "timed out"
    [] OTHER                            -> "own"

-----------------------------------------------------------------------------

(* The caller enters Run with a live context and an empty report. *)
Call(s, limit) ==
  /\ at = "idle"
  /\ at' = "head" /\ sel' = s /\ i' = 1 /\ limited' = limit
  /\ rep' = EmptyReport
  /\ ctxErr' = "nil" /\ tctxErr' = "nil" /\ err' = "nil" /\ late' = 0

AddFailure(test, reason) ==
  [rep EXCEPT !.failures = Append(@, [test |-> test, reason |-> reason])]

(* The loop over the tests is over. *)
Finish ==
  /\ at = "head" /\ i > Len(sel)
  /\ at' = "done"
  /\ UNCHANGED <<sel, i, limited, rep, ctxErr, tctxErr, err, late>>

(* ctx.Err() # nil between two tests: note the next test and return. *)
Interrupt ==
  /\ at = "head" /\ i <= Len(sel) /\ ctxErr # "nil"
  /\ rep' = AddFailure(sel[i], "interrupted")
  /\ at' = "done"
  /\ UNCHANGED <<sel, i, limited, ctxErr, tctxErr, err, late>>

ContextAliveNoCheck == TRUE
ContextAlive == ctxErr = "nil"

Check ==
  /\ at = "head" /\ i <= Len(sel) /\ ContextAlive
  /\ at' = "begin"
  /\ UNCHANGED <<sel, i, limited, rep, ctxErr, tctxErr, err, late>>

(* The test is listed in the report and gets a context below ctx: a child  *)
(* of a context that has ended meanwhile is born ended.                    *)
Begin ==
  /\ at = "begin"
  /\ rep' = [rep EXCEPT !.tests = Append(@, sel[i])]
  /\ tctxErr' = ctxErr
  /\ late' = IF ctxErr = "nil" THEN late ELSE late + 1
  /\ at' = "running"
  /\ UNCHANGED <<sel, i, limited, ctxErr, err>>

OutcomesKeepRows(t) ==
  [err : {"nil", "own"}, section : {TRUE}] \cup [err : {"own"}, section : {FALSE}]

(***************************************************************************)
(* What t.Run hands back.  A test may finish its work even when its        *)
(* context has ended; it may fail on its own, or by a deadline of one of   *)
(* its inner calls; cut short, most return the error of their context, the *)
(* Unfailing ones store what they have, and one of Rows returns nil with   *)
(* no section at all when it has no row yet.                               *)
(***************************************************************************)
Outcomes(t) ==
  {[err |-> "nil", section |-> TRUE]}
    \cup (IF t \in Unfailing THEN {}
          ELSE [err : {"own", "deadline"}, section : {FALSE}])
    \cup (IF t \in Unfailing \/ tctxErr = "nil" THEN {}
          ELSE {[err |-> tctxErr, section |-> FALSE]})
    \cup (IF t \in Rows /\ tctxErr # "nil"
          THEN {[err |-> "nil", section |-> FALSE]} ELSE {})

Stored(t, note) ==
  LET noted == IF note THEN AddFailure(Note, "own") ELSE rep
  IN  [noted EXCEPT !.sections = @ \cup {t}]

Return ==
  /\ at = "running"
  /\ \E out \in Outcomes(sel[i]), note \in BOOLEAN :
       /\ note => sel[i] \in Noted
       /\ err' = out.err
       /\ rep' = IF out.section THEN Stored(sel[i], note) ELSE rep
  /\ at' = "returned"
  /\ UNCHANGED <<sel, i, limited, ctxErr, tctxErr, late>>

(* Run releases the timer and turns an error into a failure of the report; *)
(* the loop goes on either way.                                            *)
Record ==
  /\ at = "returned"
  /\ rep' = IF err = "nil" THEN rep ELSE AddFailure(sel[i], HumanError(err, ctxErr))
  /\ i' = i + 1 /\ at' = "head"
  /\ tctxErr' = "nil" /\ err' = "nil"
  /\ UNCHANGED <<sel, limited, ctxErr, late>>

(* The timer of withTimeout, set only when the limit is positive. *)
ExpireTest ==
  /\ at = "running" /\ limited /\ tctxErr = "nil"
  /\ tctxErr' = "deadline"
  /\ UNCHANGED <<at, sel, i, limited, rep, ctxErr, err, late>>

(* The caller's context ends, and with it the context of the test. *)
EndContext(e) ==
  /\ at # "idle" /\ ctxErr = "nil"
  /\ ctxErr' = e
  /\ tctxErr' = IF at = "running" /\ tctxErr = "nil" THEN e ELSE tctxErr
  /\ UNCHANGED <<at, sel, i, limited, rep, err, late>>

(* The caller is through with the report, and the run's contexts with it. *)
Leave ==
  /\ at = "done"
  /\ at' = "idle" /\ sel' = <<>> /\ i' = 1 /\ limited' = FALSE
  /\ rep' = EmptyReport
  /\ ctxErr' = "nil" /\ tctxErr' = "nil" /\ err' = "nil" /\ late' = 0

Stepping == Finish \/ Interrupt \/ Check \/ Begin \/ Record

RunnerNext ==
  \/ /\ sel' \in Seq(Tests) /\ Distinct(sel') /\ limited' \in BOOLEAN
     /\ Call(sel', limited')
  \/ Stepping
  \/ Return
  \/ Leave
  \/ ExpireTest
  \/ \E e \in CtxErr \ {"nil"} : EndContext(e)

RunnerSpec == RunnerInit /\ [][RunnerNext]_runnerVars

-----------------------------------------------------------------------------

Failed(t) == \E k \in DOMAIN rep.failures : rep.failures[k].test = t
Shown(t)  == t \in rep.sections

(* The tests of the report are the first of the selection, in its order. *)
StartedInOrder ==
  /\ Len(rep.tests) = IF at \in {"running", "returned"} THEN i ELSE i - 1
  /\ \A k \in DOMAIN rep.tests : rep.tests[k] = sel[k]

Told(t)   == Failed(t) \/ Shown(t)

(* No test leaves both a section and a failure of its own, a test that     *)
(* does not keep rows leaves one of the two, and one of Rows (speedtest)   *)
(* leaves neither only after its context could end.                        *)
Covered ==
  \A k \in 1..Len(sel) : k < i =>
    /\ ~(Failed(sel[k]) /\ Shown(sel[k]))
    /\ sel[k] \notin Rows => Told(sel[k])
    /\ ~Told(sel[k]) => limited \/ ctxErr # "nil"

(* If Run left tests out, its context had ended, and the last failure of   *)
(* the report names the first of them.                                     *)
Abandoned ==
  at = "done" /\ i <= Len(sel) =>
    /\ ctxErr # "nil"
    /\ rep.failures # <<>>
    /\ rep.failures[Len(rep.failures)] = [test |-> sel[i], reason |-> "interrupted"]

(* Whatever fails, times out or is interrupted, in whatever order: the     *)
(* report lists what was started, a test of Rows apart it has a section or *)
(* a failure for each, and it says at which test the run broke off.        *)
Accounted == StartedInOrder /\ Covered /\ Abandoned

(* What model.go:49 promises: no failure is lost silently, so a test Run   *)
(* is through with has left a section or a failure.                        *)
NoneSilent == \A k \in 1..Len(sel) : k < i => Told(sel[k])

(* A context can end between ctx.Err() and t.Run, so one test may start    *)
(* under a context that has ended; the next turn of the loop sees it, so   *)
(* there are never two.                                                    *)
LateStarts == late <= 1

=============================================================================
