--------------------------- MODULE Session_proofs ---------------------------
(***************************************************************************)
(* What holds of runner.Run for every registry, every selection and every  *)
(* moment at which a context ends; and what a signal can do to the         *)
(* process, for every command line and every number of runs and signals.   *)
(***************************************************************************)
EXTENDS Session, WellFoundedInduction, TLAPS

-----------------------------------------------------------------------------
(* runner.Run: the type of its state *)


LEMMA AddFailureIs ==
  ASSUME TypeOK, NEW t, NEW r
  PROVE  AddFailure(t, r) =
           [tests |-> rep.tests, sections |-> rep.sections,
            failures |-> Append(rep.failures, [test |-> t, reason |-> r])]
<1> DEFINE q == Append(rep.failures, [test |-> t, reason |-> r])
<1>1. AddFailure(t, r) = [rep EXCEPT !.failures = q]
  BY DEF AddFailure
<1> HIDE DEF q
<1>2. [rep EXCEPT !.failures = q] =
        [tests |-> rep.tests, sections |-> rep.sections, failures |-> q]
  BY DEF TypeOK, Report
<1> QED BY <1>1, <1>2 DEF q

(* What a test hands back is one of these four. *)
LEMMA OutcomeCases ==
  ASSUME NEW t, NEW out \in Outcomes(t)
  PROVE  \/ out.err = "nil" /\ out.section = TRUE
         \/ out.err \in {"own", "deadline"} /\ out.section = FALSE
         \/ out.err = tctxErr /\ tctxErr # "nil" /\ out.section = FALSE
         \/ out.err = "nil" /\ out.section = FALSE /\ t \in Rows /\ tctxErr # "nil"
<1>1. \/ out = [err |-> "nil", section |-> TRUE]
      \/ out \in [err : {"own", "deadline"}, section : {FALSE}]
      \/ out = [err |-> tctxErr, section |-> FALSE] /\ tctxErr # "nil"
      \/ out = [err |-> "nil", section |-> FALSE] /\ t \in Rows /\ tctxErr # "nil"
  BY Zenon DEF Outcomes
<1>2. CASE out = [err |-> "nil", section |-> TRUE]
  BY <1>2
<1>3. CASE out \in [err : {"own", "deadline"}, section : {FALSE}]
  BY <1>3
<1>4. CASE out = [err |-> tctxErr, section |-> FALSE] /\ tctxErr # "nil"
  BY <1>4
<1>5. CASE out = [err |-> "nil", section |-> FALSE] /\ t \in Rows /\ tctxErr # "nil"
  BY <1>5
<1> QED BY <1>1, <1>2, <1>3, <1>4, <1>5

LEMMA AppendLemma ==
  ASSUME NEW fs \in Seq(Failure), NEW f \in Failure
  PROVE  /\ Append(fs, f) \in Seq(Failure)
         /\ Append(fs, f) # <<>>
         /\ Append(fs, f)[Len(Append(fs, f))] = f
         /\ \A u : (\E k \in DOMAIN Append(fs, f) : Append(fs, f)[k].test = u)
                   <=> (\E k \in DOMAIN fs : fs[k].test = u) \/ f.test = u
<1> DEFINE gs == Append(fs, f)
<1>1. /\ Len(gs) = Len(fs) + 1
      /\ gs[Len(fs) + 1] = f
      /\ \A k \in 1..Len(fs) : gs[k] = fs[k]
      /\ DOMAIN gs = 1..(Len(fs) + 1) /\ DOMAIN fs = 1..Len(fs)
      /\ Len(fs) \in Nat
      /\ gs \in Seq(Failure)
  OBVIOUS
<1> HIDE DEF gs
<1>2. gs # <<>>
  BY <1>1
<1>3. ASSUME NEW u
      PROVE  (\E k \in DOMAIN gs : gs[k].test = u)
               <=> (\E k \in DOMAIN fs : fs[k].test = u) \/ f.test = u
  <2>1. ASSUME NEW k \in DOMAIN gs, gs[k].test = u
        PROVE  (\E j \in DOMAIN fs : fs[j].test = u) \/ f.test = u
    <3>1. k \in 1..Len(fs) \/ k = Len(fs) + 1
      BY <1>1, <2>1
    <3> QED BY <1>1, <2>1, <3>1
  <2>2. ASSUME NEW k \in DOMAIN fs, fs[k].test = u
        PROVE  \E j \in DOMAIN gs : gs[j].test = u
    BY <1>1, <2>2
  <2>3. ASSUME f.test = u
        PROVE  \E j \in DOMAIN gs : gs[j].test = u
    BY <1>1, <2>3
  <2> QED BY <2>1, <2>2, <2>3
<1> QED BY <1>1, <1>2, <1>3 DEF gs

(* Appending a failure keeps the rest of the report, and of what has       *)
(* failed it changes the test it names and nothing else.                   *)
LEMMA AddFailureLemma ==
  ASSUME TypeOK, NEW t \in Tests \cup {Note}, NEW r \in Reason,
         rep' = AddFailure(t, r)
  PROVE  /\ rep' \in Report
         /\ rep'.tests = rep.tests
         /\ rep'.sections = rep.sections
         /\ rep'.failures # <<>>
         /\ rep'.failures[Len(rep'.failures)] = [test |-> t, reason |-> r]
         /\ \A u : Failed(u)' <=> Failed(u) \/ u = t
<1> DEFINE f == [test |-> t, reason |-> r]
<1>1. f \in Failure /\ f.test = t
  BY DEF Failure
<1>2. rep.failures \in Seq(Failure) /\ rep.tests \in Seq(Tests) /\ rep.sections \in SUBSET Tests
  BY DEF TypeOK, Report
<1>3. rep' = [tests |-> rep.tests, failures |-> Append(rep.failures, f),
              sections |-> rep.sections]
  BY AddFailureIs
<1>4. /\ rep'.tests = rep.tests /\ rep'.sections = rep.sections
      /\ rep'.failures = Append(rep.failures, f)
  BY <1>3
<1> HIDE DEF f
<1> DEFINE fs == rep.failures
<1> HIDE DEF fs
<1>5. fs \in Seq(Failure) /\ rep'.failures = Append(fs, f)
  BY <1>2, <1>4 DEF fs
<1>6. /\ rep'.failures \in Seq(Failure) /\ rep'.failures # <<>>
      /\ rep'.failures[Len(rep'.failures)] = f
      /\ \A u : (\E k \in DOMAIN rep'.failures : rep'.failures[k].test = u)
                <=> (\E k \in DOMAIN fs : fs[k].test = u) \/ f.test = u
  BY <1>1, <1>5, AppendLemma
<1>7. rep' \in Report
  BY <1>2, <1>3, <1>6 DEF Report
<1>8. \A u : Failed(u)' <=> Failed(u) \/ u = t
  BY <1>1, <1>6 DEF Failed, fs
<1> QED
  BY <1>4, <1>6, <1>7, <1>8 DEF f

(* Storing a section keeps the tests that have failed, as the note that    *)
(* may come with it names no test.                                         *)
LEMMA StoredLemma ==
  ASSUME TypeOK, NEW t \in Tests, NEW note \in BOOLEAN, rep' = Stored(t, note)
  PROVE  /\ rep' \in Report
         /\ rep'.tests = rep.tests
         /\ rep'.sections = rep.sections \cup {t}
         /\ \A u \in Tests : Failed(u)' <=> Failed(u)
<1> DEFINE f == [test |-> Note, reason |-> "own"]
<1>1. f \in Failure /\ f.test = Note /\ Note \notin Tests
  BY RegistryAssumption DEF Failure, Reason, Note
<1>2. rep.failures \in Seq(Failure) /\ rep.tests \in Seq(Tests) /\ rep.sections \in SUBSET Tests
  BY DEF TypeOK, Report
<1>3. CASE note
  <2> DEFINE noted == AddFailure(Note, "own")
             q == noted.sections \cup {t}
             fs == Append(rep.failures, f)
  <2>1. rep' = [noted EXCEPT !.sections = q]
    BY <1>3 DEF Stored
  <2>2. noted = [tests |-> rep.tests, sections |-> rep.sections, failures |-> fs]
    BY AddFailureIs
  <2> HIDE DEF f
  <2>3. /\ fs \in Seq(Failure)
        /\ \A u : (\E k \in DOMAIN fs : fs[k].test = u)
                <=> (\E k \in DOMAIN rep.failures : rep.failures[k].test = u) \/ f.test = u
    BY <1>1, <1>2, AppendLemma
  <2> HIDE DEF noted, fs
  <2>4. noted \in Report /\ q = rep.sections \cup {t}
    BY <1>2, <2>2, <2>3 DEF Report
  <2> HIDE DEF q
  <2>5. rep' = [tests |-> noted.tests, sections |-> q, failures |-> noted.failures]
    BY <2>1, <2>4 DEF Report
  <2>6. rep'.tests = rep.tests /\ rep'.sections = q /\ rep'.failures = fs
    BY <2>2, <2>5
  <2>7. \A u \in Tests : Failed(u)' <=> Failed(u)
    BY <1>1, <2>3, <2>6 DEF Failed
  <2>8. rep' \in Report
    BY <1>2, <2>2, <2>3, <2>4, <2>5 DEF Report
  <2> QED BY <2>4, <2>6, <2>7, <2>8
<1>4. CASE ~note
  <2>1. rep' = [tests |-> rep.tests, sections |-> rep.sections \cup {t},
                failures |-> rep.failures]
    BY <1>4 DEF Stored, TypeOK, Report
  <2> QED BY <1>2, <2>1 DEF Report, Failed
<1> QED BY <1>3, <1>4

-----------------------------------------------------------------------------
(* Type correctness *)

LEMMA EmptyReportType ==
  EmptyReport \in Report
<1>1. <<>> \in Seq(Tests) /\ <<>> \in Seq(Failure)
  OBVIOUS
<1> QED BY <1>1 DEF EmptyReport, Report

LEMMA TypeInit == RunnerInit => TypeOK
<1>1. <<>> \in Seq(Tests)
  OBVIOUS
<1>2. RunnerInit => limited \in BOOLEAN
  BY Zenon DEF RunnerInit
<1> QED BY <1>1, <1>2, EmptyReportType DEF RunnerInit, TypeOK, CtxErr, TestErr

(* An index inside the selection names a test. *)
LEMMA SelElement ==
  ASSUME TypeOK, i <= Len(sel)
  PROVE  sel[i] \in Tests
  BY DEF TypeOK

(* Past the head of the loop there is a test to work on. *)
InLoop == at \in {"begin", "running", "returned"} => i <= Len(sel)

LEMMA TypeStep == TypeOK /\ InLoop /\ [RunnerNext]_runnerVars => TypeOK'
<1> SUFFICES ASSUME TypeOK, InLoop, [RunnerNext]_runnerVars
             PROVE  TypeOK'
  OBVIOUS
<1> USE DEF InLoop
<1>1. ASSUME sel' \in Seq(Tests), limited' \in BOOLEAN, Call(sel', limited')
      PROVE  TypeOK'
  BY <1>1, EmptyReportType DEF Call, TypeOK, CtxErr, TestErr
<1>2. CASE Finish
  BY <1>2 DEF Finish, TypeOK
<1>3. CASE Interrupt
  <2>1. sel[i] \in Tests /\ "interrupted" \in Reason
    BY <1>3, SelElement DEF Interrupt, Reason
  <2> QED BY <1>3, <2>1, AddFailureLemma DEF Interrupt, TypeOK
<1>4. CASE Check
  BY <1>4 DEF Check, TypeOK
<1>5. CASE Begin
  <2>1. sel[i] \in Tests
    BY <1>5, SelElement DEF Begin
  <2>2. Append(rep.tests, sel[i]) \in Seq(Tests)
    BY <2>1 DEF TypeOK, Report
  <2>3. rep' = [tests |-> Append(rep.tests, sel[i]), failures |-> rep.failures,
                sections |-> rep.sections]
    BY <1>5 DEF Begin, TypeOK, Report
  <2>4. rep' \in Report
    BY <2>2, <2>3 DEF TypeOK, Report
  <2> QED BY <1>5, <2>4 DEF Begin, TypeOK
<1>6. CASE Return
  <2>1. sel[i] \in Tests
    BY <1>6, SelElement DEF Return
  <2>2. PICK out \in Outcomes(sel[i]), note \in BOOLEAN :
          err' = out.err /\ rep' = IF out.section THEN Stored(sel[i], note) ELSE rep
    BY <1>6 DEF Return
  <2>3. out.err \in TestErr
    <3>1. tctxErr \in TestErr /\ {"nil", "own", "deadline"} \subseteq TestErr
      BY DEF TypeOK, TestErr, CtxErr
    <3>2. out \in Outcomes(sel[i])
      BY <2>2
    <3> QED BY <3>1, <3>2, OutcomeCases
  <2>4. rep' \in Report
    BY <2>1, <2>2, StoredLemma DEF TypeOK
  <2> QED BY <1>6, <2>2, <2>3, <2>4 DEF Return, TypeOK
<1>7. CASE Record
  <2>1. sel[i] \in Tests
    BY <1>7, SelElement DEF Record
  <2>2. HumanError(err, ctxErr) \in Reason
    BY DEF HumanError, Reason
  <2>3. rep' \in Report
    <3>1. CASE err = "nil"
      BY <1>7, <3>1 DEF Record, TypeOK
    <3>2. CASE err # "nil"
      BY <1>7, <2>1, <2>2, <3>2, AddFailureLemma DEF Record
    <3> QED BY <3>1, <3>2
  <2> QED BY <1>7, <2>3 DEF Record, TypeOK, CtxErr, TestErr
<1>8. CASE ExpireTest
  BY <1>8 DEF ExpireTest, TypeOK, CtxErr
<1>9. ASSUME NEW e \in CtxErr \ {"nil"}, EndContext(e) PROVE TypeOK'
  BY <1>9 DEF EndContext, TypeOK
<1>10. CASE Leave
  <2>1. <<>> \in Seq(Tests)
    OBVIOUS
  <2>2. limited' \in BOOLEAN
    BY <1>10, Zenon DEF Leave
  <2> QED BY <1>10, <2>1, <2>2, EmptyReportType DEF Leave, TypeOK, CtxErr, TestErr
<1>11. CASE UNCHANGED runnerVars
  BY <1>11 DEF runnerVars, TypeOK
<1> QED
  BY <1>1, <1>2, <1>3, <1>4, <1>5, <1>6, <1>7, <1>8, <1>9, <1>10, <1>11
  DEF RunnerNext, Stepping

LEMMA InLoopStep == TypeOK /\ InLoop /\ [RunnerNext]_runnerVars => InLoop'
<1> SUFFICES ASSUME TypeOK, InLoop, [RunnerNext]_runnerVars
             PROVE  InLoop'
  OBVIOUS
<1>1. CASE UNCHANGED runnerVars
  BY <1>1 DEF runnerVars, InLoop
<1>2. CASE RunnerNext
  BY <1>2 DEF RunnerNext, Stepping, Call, Finish, Interrupt, Check, Begin, Return,
              Record, Leave, ExpireTest, EndContext, InLoop
<1> QED BY <1>1, <1>2

(* Run keeps its state well formed, whatever the tests hand back. *)
THEOREM TypeCorrect == RunnerSpec => [](TypeOK /\ InLoop)
<1>1. RunnerInit => TypeOK /\ InLoop
  BY TypeInit DEF RunnerInit, InLoop
<1>2. TypeOK /\ InLoop /\ [RunnerNext]_runnerVars => (TypeOK /\ InLoop)'
  BY TypeStep, InLoopStep
<1> QED BY <1>1, <1>2, PTL DEF RunnerSpec

-----------------------------------------------------------------------------
(* At most one test starts under a context that has ended *)

LateInv ==
  /\ late <= 1
  /\ late = 1 => ctxErr # "nil"
  /\ at = "begin" => late = 0

LEMMA LateStep == TypeOK /\ LateInv /\ [RunnerNext]_runnerVars => LateInv'
<1> SUFFICES ASSUME TypeOK, LateInv, [RunnerNext]_runnerVars
             PROVE  LateInv'
  OBVIOUS
<1> late \in Nat
  BY DEF TypeOK
<1>1. CASE Check
  BY <1>1 DEF Check, ContextAlive, LateInv
<1>2. CASE Begin
  BY <1>2 DEF Begin, LateInv
<1>3. ASSUME NEW e \in CtxErr \ {"nil"}, EndContext(e) PROVE LateInv'
  BY <1>3 DEF EndContext, LateInv
<1>4. CASE Finish \/ Interrupt \/ Return \/ Record \/ ExpireTest
  BY <1>4 DEF Finish, Interrupt, Return, Record, ExpireTest, LateInv
<1>5. ASSUME Leave \/ Call(sel', limited') PROVE LateInv'
  BY <1>5 DEF Leave, Call, LateInv
<1>6. CASE UNCHANGED runnerVars
  BY <1>6 DEF runnerVars, LateInv
<1> QED
  BY <1>1, <1>2, <1>3, <1>4, <1>5, <1>6 DEF RunnerNext, Stepping

(* A context may end between the check of the loop and the start of the    *)
(* test, so one test can start late; the loop stops before a second one.   *)
THEOREM AtMostOneLateStart == RunnerSpec => []LateStarts
<1>1. RunnerInit => LateInv
  BY DEF RunnerInit, LateInv
<1>2. TypeOK /\ LateInv /\ [RunnerNext]_runnerVars => LateInv'
  BY LateStep
<1>3. LateInv => LateStarts
  BY DEF LateInv, LateStarts
<1> QED BY <1>1, <1>2, <1>3, TypeCorrect, PTL DEF RunnerSpec

-----------------------------------------------------------------------------
(* The report accounts for the run *)

(* What Run has not come to has left no trace in the report, and the       *)
(* result of the test that has just returned is not recorded yet.          *)
Untouched == \A k \in 1..Len(sel) : k > i => ~Failed(sel[k]) /\ ~Shown(sel[k])

Current ==
  i <= Len(sel) =>
    /\ at \in {"head", "begin", "running"} => ~Failed(sel[i]) /\ ~Shown(sel[i])
    /\ at = "returned" =>
         /\ ~Failed(sel[i])
         /\ err # "nil" => ~Shown(sel[i])
         /\ err = "nil" => \/ Shown(sel[i])
                           \/ sel[i] \in Rows /\ (limited \/ ctxErr # "nil")

AccountInv ==
  /\ Distinct(sel)
  /\ tctxErr # "nil" => limited \/ ctxErr # "nil"
  /\ Untouched
  /\ Current
  /\ Accounted

(* Steps that leave the report and the loop alone. *)
LEMMA QuietStep ==
  ASSUME TypeOK, AccountInv, UNCHANGED <<sel, i, limited, rep>>,
         tctxErr' # "nil" => limited \/ ctxErr' # "nil",
         ctxErr # "nil" => ctxErr' # "nil",
         \/ at' = at /\ err' = err
         \/ at = "head" /\ at' = "begin"
         \/ at = "head" /\ at' = "done" /\ i > Len(sel)
  PROVE  AccountInv'
<1>1. \A u : (Failed(u)' <=> Failed(u)) /\ (Shown(u)' <=> Shown(u))
  BY DEF Failed, Shown
<1>2. Len(sel) \in Nat /\ i \in Nat
  BY DEF TypeOK
<1>3. Distinct(sel)' /\ Untouched' /\ Covered'
  BY <1>1, <1>2 DEF AccountInv, Distinct, Untouched, Covered, Told, Accounted
<1>4. Current'
  BY <1>1, <1>2 DEF AccountInv, Current
<1>5. StartedInOrder' /\ Abandoned'
  BY <1>2 DEF AccountInv, Accounted, StartedInOrder, Abandoned
<1> QED BY <1>3, <1>4, <1>5 DEF AccountInv, Accounted

LEMMA FreshInv ==
  ASSUME i = 1, sel \in Seq(Tests), Distinct(sel), rep = EmptyReport, tctxErr = "nil",
         at \in {"idle", "head"}
  PROVE  AccountInv
<1>1. \A u : ~Failed(u) /\ ~Shown(u)
  BY DEF Failed, Shown, EmptyReport
<1>2. StartedInOrder
  BY DEF StartedInOrder, EmptyReport
<1> QED BY <1>1, <1>2 DEF AccountInv, Untouched, Current, Accounted, Covered, Abandoned

LEMMA FreshInvNext ==
  ASSUME i' = 1, sel' \in Seq(Tests), Distinct(sel'), rep' = EmptyReport, tctxErr' = "nil",
         at' \in {"idle", "head"}
  PROVE  AccountInv'
<1>1. \A u : ~Failed(u)' /\ ~Shown(u)'
  BY DEF Failed, Shown, EmptyReport
<1>2. StartedInOrder'
  BY DEF StartedInOrder, EmptyReport
<1> QED BY <1>1, <1>2 DEF AccountInv, Untouched, Current, Accounted, Covered, Abandoned, Distinct

LEMMA InterruptStep ==
  ASSUME TypeOK, InLoop, AccountInv, Interrupt
  PROVE  AccountInv'
<1>1. sel[i] \in Tests /\ "interrupted" \in Reason
  BY SelElement DEF Interrupt, Reason
<1>2. /\ \A u : Failed(u)' <=> Failed(u) \/ u = sel[i]
      /\ rep'.tests = rep.tests /\ rep'.sections = rep.sections
      /\ rep'.failures # <<>>
      /\ rep'.failures[Len(rep'.failures)] = [test |-> sel[i], reason |-> "interrupted"]
  BY <1>1, AddFailureLemma DEF Interrupt
<1>3. \A u : Shown(u)' <=> Shown(u)
  BY <1>2 DEF Shown
<1>4. Len(sel) \in Nat /\ i \in 1..Len(sel) /\ DOMAIN sel = 1..Len(sel)
  BY DEF TypeOK, Interrupt
<1>5. \A k \in 1..Len(sel) : k # i => sel[k] # sel[i]
  BY <1>4 DEF AccountInv, Distinct, Interrupt
<1>6. Untouched' /\ Covered'
  BY <1>2, <1>3, <1>4, <1>5 DEF AccountInv, Untouched, Covered, Told, Accounted, Interrupt
<1>7. StartedInOrder'
  BY <1>2 DEF AccountInv, Accounted, StartedInOrder, Interrupt
<1>8. Abandoned' /\ Current'
  BY <1>2 DEF Abandoned, Current, Interrupt
<1> QED BY <1>6, <1>7, <1>8 DEF AccountInv, Accounted, Interrupt, Distinct

LEMMA BeginStep ==
  ASSUME TypeOK, InLoop, AccountInv, Begin
  PROVE  AccountInv'
<1>1. rep' = [tests |-> Append(rep.tests, sel[i]), failures |-> rep.failures,
              sections |-> rep.sections]
  BY DEF Begin, TypeOK, Report
<1>2. \A u : (Failed(u)' <=> Failed(u)) /\ (Shown(u)' <=> Shown(u))
  BY <1>1 DEF Failed, Shown
<1>3. Len(sel) \in Nat /\ i \in Nat /\ i <= Len(sel) /\ sel[i] \in Tests
      /\ rep.tests \in Seq(Tests)
  BY SelElement DEF TypeOK, Begin, InLoop, Report
<1>4. Len(rep.tests) = i - 1 /\ \A k \in DOMAIN rep.tests : rep.tests[k] = sel[k]
  BY DEF AccountInv, Accounted, StartedInOrder, Begin
<1>5. StartedInOrder'
  <2>1. /\ Len(rep'.tests) = i
        /\ rep'.tests[i] = sel[i]
        /\ \A k \in 1..(i - 1) : rep'.tests[k] = rep.tests[k]
        /\ DOMAIN rep'.tests = 1..i /\ DOMAIN rep.tests = 1..(i - 1)
    BY <1>1, <1>3, <1>4
  <2> QED BY <1>3, <1>4, <2>1 DEF StartedInOrder, Begin
<1>6. Untouched' /\ Covered' /\ Current' /\ Abandoned'
  BY <1>2, <1>3 DEF AccountInv, Untouched, Covered, Told, Accounted, Current, Abandoned, Begin
<1> QED BY <1>5, <1>6 DEF AccountInv, Accounted, Begin, Distinct

LEMMA ReturnStep ==
  ASSUME TypeOK, InLoop, AccountInv, Return
  PROVE  AccountInv'
<1>1. sel[i] \in Tests /\ Len(sel) \in Nat /\ i \in 1..Len(sel) /\ sel' = sel /\ i' = i
  BY SelElement DEF TypeOK, Return, InLoop
<1>2. PICK out \in Outcomes(sel[i]), note \in BOOLEAN :
        err' = out.err /\ rep' = IF out.section THEN Stored(sel[i], note) ELSE rep
  BY DEF Return
<1>4. /\ rep'.tests = rep.tests
      /\ out.section => rep'.sections = rep.sections \cup {sel[i]}
      /\ ~out.section => rep'.sections = rep.sections
      /\ \A u \in Tests : Failed(u)' <=> Failed(u)
  <2>1. CASE out.section
    BY <1>1, <1>2, <2>1, StoredLemma
  <2>2. CASE ~out.section
    BY <1>2, <2>2 DEF Failed
  <2> QED BY <2>1, <2>2
<1>5. \A k \in 1..Len(sel) : sel[k] \in Tests /\ (k # i => sel[k] # sel[i])
  BY <1>1 DEF TypeOK, AccountInv, Distinct
<1>6. \A k \in 1..Len(sel) :
        (Failed(sel[k])' <=> Failed(sel[k])) /\ (k # i => (Shown(sel[k])' <=> Shown(sel[k])))
  BY <1>1, <1>4, <1>5 DEF Shown
<1>7. Shown(sel[i])' <=> out.section
  BY <1>1, <1>4 DEF AccountInv, Current, Return, Shown
<1>8. Current'
  <2>1. ~Failed(sel[i])'
    BY <1>1, <1>6 DEF AccountInv, Current, Return
  <2>2. err' # "nil" => ~Shown(sel[i])'
    BY <1>2, <1>7, OutcomeCases
  <2>3. err' = "nil" => Shown(sel[i])' \/ (sel[i] \in Rows /\ (limited \/ ctxErr # "nil"))
    BY <1>2, <1>7, OutcomeCases DEF AccountInv
  <2> QED BY <2>1, <2>2, <2>3 DEF Current, Return
<1>9. Untouched' /\ Covered'
  BY <1>1, <1>6 DEF AccountInv, Untouched, Covered, Told, Accounted, Return
<1>10. StartedInOrder' /\ Abandoned'
  BY <1>4 DEF AccountInv, Accounted, StartedInOrder, Abandoned, Return
<1> QED BY <1>8, <1>9, <1>10 DEF AccountInv, Accounted, Return, Distinct

LEMMA RecordStep ==
  ASSUME TypeOK, InLoop, AccountInv, Record
  PROVE  AccountInv'
<1>1. sel[i] \in Tests /\ Len(sel) \in Nat /\ i \in 1..Len(sel) /\ sel' = sel /\ i' = i + 1
  BY SelElement DEF TypeOK, Record, InLoop
<1> HumanError(err, ctxErr) \in Reason
  BY DEF HumanError, Reason
<1>2. /\ rep'.tests = rep.tests /\ rep'.sections = rep.sections
      /\ \A u : Failed(u)' <=> Failed(u) \/ (u = sel[i] /\ err # "nil")
  <2>1. CASE err = "nil"
    BY <2>1 DEF Record, Failed
  <2>2. CASE err # "nil"
    BY <1>1, <2>2, AddFailureLemma DEF Record
  <2> QED BY <2>1, <2>2
<1>3. \A k \in 1..Len(sel) : k # i => sel[k] # sel[i]
  BY <1>1 DEF TypeOK, AccountInv, Distinct
<1>4. \A u : Shown(u)' <=> Shown(u)
  BY <1>2 DEF Shown
<1>5. Covered'
  <2> SUFFICES ASSUME NEW k \in 1..Len(sel), k < i + 1
               PROVE  /\ ~(Failed(sel[k])' /\ Shown(sel[k])')
                      /\ sel[k] \notin Rows => Failed(sel[k])' \/ Shown(sel[k])'
                      /\ \/ Failed(sel[k])'
                         \/ Shown(sel[k])'
                         \/ limited \/ ctxErr # "nil"
    BY DEF Covered, Told, Record
  <2>1. CASE k < i
    BY <1>1, <1>2, <1>3, <1>4, <2>1 DEF AccountInv, Accounted, Covered, Told, Record
  <2>2. CASE k = i
    BY <1>1, <1>2, <1>4, <2>2 DEF AccountInv, Current, Record
  <2> QED BY <1>1, <2>1, <2>2
<1>6. Untouched' /\ Current'
  BY <1>1, <1>2, <1>3, <1>4 DEF AccountInv, Untouched, Current, Record
<1>7. StartedInOrder' /\ Abandoned'
  BY <1>1, <1>2 DEF AccountInv, Accounted, StartedInOrder, Abandoned, Record
<1> QED BY <1>5, <1>6, <1>7 DEF AccountInv, Accounted, Record, Distinct

LEMMA AccountStep == TypeOK /\ InLoop /\ AccountInv /\ [RunnerNext]_runnerVars => AccountInv'
<1> SUFFICES ASSUME TypeOK, InLoop, AccountInv, [RunnerNext]_runnerVars
             PROVE  AccountInv'
  OBVIOUS
<1>1. ASSUME sel' \in Seq(Tests), Distinct(sel'), Call(sel', limited')
      PROVE  AccountInv'
  BY <1>1, FreshInvNext DEF Call
<1>2. CASE Leave
  <2>1. <<>> \in Seq(Tests) /\ Distinct(<<>>)
    BY DEF Distinct
  <2> QED BY <1>2, <2>1, FreshInvNext DEF Leave
<1>3. CASE Interrupt
  BY <1>3, InterruptStep
<1>4. CASE Begin
  BY <1>4, BeginStep
<1>5. CASE Return
  BY <1>5, ReturnStep
<1>6. CASE Record
  BY <1>6, RecordStep
<1>7. CASE Finish \/ Check
  BY <1>7, QuietStep DEF Finish, Check, AccountInv
<1>8. CASE ExpireTest
  BY <1>8, QuietStep DEF ExpireTest, AccountInv
<1>9. ASSUME NEW e \in CtxErr \ {"nil"}, EndContext(e) PROVE AccountInv'
  BY <1>9, QuietStep DEF EndContext, AccountInv
<1>10. CASE UNCHANGED runnerVars
  BY <1>10, QuietStep DEF runnerVars, AccountInv
<1> QED
  BY <1>1, <1>2, <1>3, <1>4, <1>5, <1>6, <1>7, <1>8, <1>9, <1>10 DEF RunnerNext, Stepping

(* However the tests end and whenever a context ends, the report names the *)
(* tests that were started, each of them but one of Rows left a section or *)
(* a failure and none left both, a test of Rows that left neither did so   *)
(* only where a context could end, and a run that stops early says at      *)
(* which test.                                                             *)
THEOREM ReportAccounts == RunnerSpec => []Accounted
<1>1. RunnerInit => AccountInv
  <2>1. <<>> \in Seq(Tests) /\ Distinct(<<>>)
    BY DEF Distinct
  <2> QED BY <2>1, FreshInv DEF RunnerInit
<1>2. TypeOK /\ InLoop /\ AccountInv /\ [RunnerNext]_runnerVars => AccountInv'
  BY AccountStep
<1>3. AccountInv => Accounted
  BY DEF AccountInv
<1> QED BY <1>1, <1>2, <1>3, TypeCorrect, PTL DEF RunnerSpec

-----------------------------------------------------------------------------
(* The session: signals and prompts *)


Between == Prompts \cup {"start"}

(* The channel of a run is registered during the run only, and no trace of *)
(* the next run exists before it starts.                                   *)
Registered ==
  /\ notify \subseteq {run}
  /\ pc \notin RunPhases => notify = {}
  /\ pc \in Between => run \notin queued \cup canceled

(* The default action is back only after a signal of this run, which the   *)
(* channel of the run has received before the context ended.               *)
Restored ==
  pc \in RunPhases =>
    /\ hits \in Nat
    /\ run \in queued => hits > 0
    /\ run \in canceled => run \in queued
    /\ run \notin notify => run \in canceled
    /\ killed => hits > 1

(* What saveOutputs has tried so far. *)
Saved ==
  /\ cfg.outputs \subseteq Formats
  /\ pc \in Between \cup {"run", "json"} => tried = {}
  /\ pc = "md" => tried = {"json"} \cap cfg.outputs
  /\ pc \in {"verdict", "defers"} => tried = cfg.outputs

SessionInv ==
  /\ run \in Nat
  /\ notify \subseteq Nat /\ canceled \subseteq Nat /\ queued \subseteq Nat
  /\ \A r \in queued \cup canceled : r <= run
  /\ Registered /\ Restored /\ Saved

LEMMA SessionInit == Init => SessionInv
<1> SUFFICES ASSUME Init PROVE SessionInv
  OBVIOUS
<1>1. cfg.outputs \subseteq Formats
  BY SessionAssumption DEF Init, Config
<1> QED
  BY <1>1 DEF Init, SessionInv, Registered, Restored, Saved, Between,
              Prompts, RunPhases, Runs

USE DEF Prompts, RunPhases, Between

(* The prompts change neither signals nor runs. *)
LEMMA MenuStepInv ==
  ASSUME SessionInv, MenuStep
  PROVE  SessionInv'
<1>1. /\ pc \in Prompts /\ pc' \in Between \cup {"exit"}
      /\ UNCHANGED <<cfg, run, notify, queued, canceled, tried>>
  BY DEF MenuStep, Quit, Pick, AskProfile, AskDomain, signalVars
<1> QED
  BY <1>1 DEF SessionInv, Registered, Restored, Saved

LEMMA StartRunInv ==
  ASSUME SessionInv, StartRun, ~Over
  PROVE  SessionInv'
<1>1. /\ pc = "start" /\ pc' = "run" /\ hits' = 0 /\ ~killed /\ killed' = killed
      /\ notify' = notify \cup {run} /\ run \in Nat
      /\ UNCHANGED <<cfg, run, queued, canceled, tried>>
  BY DEF StartRun, menuVars, Over, SessionInv
<1> QED
  BY <1>1 DEF SessionInv, Registered, Restored, Saved

(* runner.Run and its contexts are no part of the invariant. *)
LEMMA RunInv ==
  ASSUME SessionInv, RunStep \/ TestReturns \/ TestTimeout \/ BudgetExpires
  PROVE  SessionInv'
<1>1. UNCHANGED sessionVars
  BY DEF RunStep, TestReturns, TestTimeout, BudgetExpires
<1>2. UNCHANGED <<cfg, killed, run, pc, notify, canceled, queued, hits, tried>>
  BY <1>1 DEF sessionVars
<1> QED BY <1>2 DEF SessionInv, Registered, Restored, Saved

LEMMA SaveInv ==
  ASSUME SessionInv, EndOfRun \/ Save("json", "md") \/ Save("md", "verdict") \/ Verdict
  PROVE  SessionInv'
<1>1. /\ UNCHANGED <<cfg, killed, run, notify, queued, canceled, hits>>
      /\ pc \in RunPhases /\ pc' \in RunPhases
  BY DEF EndOfRun, Save, Verdict, signalVars, menuVars
<1>2. (run \in Nat /\ notify \subseteq Nat /\ canceled \subseteq Nat /\ queued \subseteq Nat
       /\ \A r \in queued \cup canceled : r <= run)' /\ Registered' /\ Restored'
  BY <1>1 DEF SessionInv, Registered, Restored
<1>3. Saved'
  BY <1>1 DEF EndOfRun, Save, Verdict, menuVars, SessionInv, Saved, Formats
<1> QED BY <1>2, <1>3 DEF SessionInv

LEMMA DefersInv ==
  ASSUME SessionInv, Defers
  PROVE  SessionInv'
<1>1. /\ pc = "defers" /\ pc' \in {"menu", "exit"}
      /\ run' = IF pc' = "menu" THEN run + 1 ELSE run
      /\ notify' = notify \ {run} /\ canceled' = canceled \cup {run}
      /\ tried' = {}
      /\ UNCHANGED <<cfg, queued>>
  BY DEF Defers, StopNotify
<1>2. notify' = {} /\ run' \in Nat /\ run' >= run
  BY <1>1 DEF SessionInv, Registered
<1>3. \A r \in queued' \cup canceled' : r <= run'
  BY <1>1, <1>2 DEF SessionInv
<1>4. pc' \in Between => run' \notin queued' \cup canceled'
  BY <1>1 DEF SessionInv
<1> QED
  BY <1>1, <1>2, <1>3, <1>4 DEF SessionInv, Registered, Restored, Saved

LEMMA SignalInv ==
  ASSUME SessionInv, Signal, ~Over
  PROVE  SessionInv'
<1>1. /\ ~killed /\ (killed' => notify = {})
      /\ queued' = queued \cup notify
      /\ hits' = IF pc \in RunPhases THEN hits + 1 ELSE hits
      /\ UNCHANGED <<cfg, pc, run, notify, canceled, tried>>
  BY DEF Signal, Over
<1>2. Registered' /\ Saved'
  BY <1>1 DEF SessionInv, Registered, Saved
<1>3. Restored'
  BY <1>1 DEF SessionInv, Registered, Restored
<1> QED
  BY <1>1, <1>2, <1>3 DEF SessionInv, Registered

LEMMA CancelBySignalInv ==
  ASSUME SessionInv, NEW r \in Runs, CancelBySignal(r)
  PROVE  SessionInv'
<1>1. /\ r \in queued /\ canceled' = canceled \cup {r}
      /\ UNCHANGED <<cfg, killed, run, pc, notify, queued, hits, tried>>
  BY DEF CancelBySignal, menuVars
<1> QED BY <1>1 DEF SessionInv, Registered, Restored, Saved

LEMMA RestoreInv ==
  ASSUME SessionInv, NEW r \in Runs, Restore(r)
  PROVE  SessionInv'
<1>1. /\ r \in canceled /\ notify' = notify \ {r}
      /\ UNCHANGED <<cfg, killed, run, pc, canceled, queued, hits, tried>>
  BY DEF Restore, StopNotify, menuVars
<1> QED BY <1>1 DEF SessionInv, Registered, Restored, Saved

LEMMA SessionStep == SessionInv /\ [Next]_vars => SessionInv'
<1> SUFFICES ASSUME SessionInv, [Next]_vars PROVE SessionInv'
  OBVIOUS
<1>1. CASE UNCHANGED vars
  BY <1>1 DEF vars, sessionVars, SessionInv, Registered, Restored, Saved
<1>2. CASE ~Over /\ MainStep
  BY <1>2, StartRunInv, RunInv, SaveInv, DefersInv DEF MainStep
<1>3. ASSUME ~Over, NEW r \in Runs, CancelBySignal(r) \/ Restore(r)
      PROVE  SessionInv'
  BY <1>3, CancelBySignalInv, RestoreInv
<1>4. CASE ~Over /\ (MenuStep \/ TestReturns \/ TestTimeout \/ BudgetExpires \/ Signal)
  BY <1>4, MenuStepInv, RunInv, SignalInv
<1> QED BY <1>1, <1>2, <1>3, <1>4 DEF Next

THEOREM SessionInvariant == Spec => []SessionInv
<1> QED BY SessionInit, SessionStep, PTL DEF Spec

(* At a prompt a signal always has its default action, whatever the        *)
(* goroutines of earlier runs have left to do.                             *)
THEOREM PromptsAreKillable == Spec => []PromptsKillable
<1>1. SessionInv => PromptsKillable
  BY DEF SessionInv, Registered, PromptsKillable
<1> QED BY <1>1, SessionInvariant, PTL

(* One signal never costs the report, however the signal, the end of the   *)
(* run and the writing of the files interleave.                            *)
THEOREM ReportSurvivesOneSignal == Spec => []OneSignalKeepsReport
<1>1. SessionInv => OneSignalKeepsReport
  BY DEF SessionInv, Restored, Saved, OneSignalKeepsReport
<1> QED BY <1>1, SessionInvariant, PTL

-----------------------------------------------------------------------------

(* Run has returned from an interrupted run only after a signal, and the   *)
(* menu is left by the choice of the user or after such a run.             *)
EndInv ==
  /\ SessionInv
  /\ pc = "defers" /\ ~verdict => hits > 0
  /\ pc = "exit" /\ cfg.interactive => quit \/ hits > 0

LEMMA EndInit == Init => EndInv
<1> SUFFICES ASSUME Init PROVE EndInv
  OBVIOUS
<1>1. pc \in {"menu", "start"}
  BY DEF Init
<1> QED BY <1>1, SessionInit DEF EndInv

LEMMA EndStep == EndInv /\ [Next]_vars => EndInv'
<1> SUFFICES ASSUME EndInv, [Next]_vars PROVE EndInv'
  OBVIOUS
<1>0. SessionInv /\ SessionInv'
  BY SessionStep DEF EndInv
<1>1. CASE UNCHANGED <<pc, cfg, verdict, quit, hits>>
  BY <1>0, <1>1 DEF EndInv
<1>2. CASE MenuStep \/ StartRun \/ EndOfRun \/ Save("json", "md") \/ Save("md", "verdict")
  <2>1. pc' \in Prompts \cup {"start", "run", "json", "md", "verdict"} \/ quit'
    BY <1>2 DEF MenuStep, Quit, Pick, AskProfile, AskDomain, StartRun, EndOfRun, Save
  <2>2. quit' => pc' # "defers"
    BY <1>2 DEF MenuStep, Quit, Pick, AskProfile, AskDomain, StartRun, EndOfRun, Save
  <2> QED BY <1>0, <2>1, <2>2 DEF EndInv
<1>3. CASE Verdict
  <2>1. /\ pc = "verdict" /\ pc' = "defers" /\ hits' = hits
        /\ ~verdict' => run \in canceled
    BY <1>3 DEF Verdict, NotInterrupted, signalVars
  <2>2. run \in canceled => hits > 0
    BY <1>0, <2>1 DEF SessionInv, Restored
  <2> QED BY <1>0, <2>1, <2>2 DEF EndInv
<1>4. CASE Defers
  <2>1. /\ pc = "defers" /\ hits' = hits /\ cfg' = cfg
        /\ pc' = IF verdict /\ cfg.interactive THEN "menu" ELSE "exit"
    BY <1>4 DEF Defers
  <2> QED BY <1>0, <2>1 DEF EndInv
<1>5. CASE ~Over /\ Signal
  <2>1. /\ UNCHANGED <<pc, cfg, verdict, quit>> /\ pc # "exit"
        /\ hits' = IF pc \in RunPhases THEN hits + 1 ELSE hits
    BY <1>5 DEF Signal, Over
  <2>2. pc = "defers" => hits \in Nat
    BY <1>0 DEF SessionInv, Restored
  <2> QED BY <1>0, <2>1, <2>2 DEF EndInv
<1>6. CASE RunStep \/ TestReturns \/ TestTimeout \/ BudgetExpires
           \/ \E r \in Runs : CancelBySignal(r) \/ Restore(r)
  BY <1>1, <1>6 DEF RunStep, TestReturns, TestTimeout, BudgetExpires, CancelBySignal,
                   Restore, sessionVars, menuVars
<1>7. CASE UNCHANGED vars
  BY <1>1, <1>7 DEF vars, sessionVars
<1> QED
  BY <1>2, <1>3, <1>4, <1>5, <1>6, <1>7 DEF Next, MainStep

(* No timeout and no failure of a test ends a menu session: the process    *)
(* goes on to the next prompt until the user leaves or sends a signal.     *)
THEOREM MenuOutlivesTests == Spec => []EndsOnRequestOnly
<1>1. EndInv => EndsOnRequestOnly
  BY DEF EndInv, EndsOnRequestOnly, Over
<1> QED BY <1>1, EndInit, EndStep, PTL DEF Spec

-----------------------------------------------------------------------------
(* Selecting tests: the loops of Select and without *)

(* Every set of numbers that holds 0 and with a number the next one holds  *)
(* all of them.                                                            *)
Less == {p \in Nat \X Nat : p[1] < p[2]}

LEMMA LessIsWellFounded == IsWellFoundedOn(Less, Nat)
<1>1. OpToRel(<, Nat) = Less
  BY DEF OpToRel, Less
<1> QED
  BY <1>1, NatLessThanWellFounded

LEMMA AllNumbers ==
  ASSUME NEW U, 0 \in U, \A n \in Nat : n \in U => n + 1 \in U
  PROVE  Nat \subseteq U
<1> SUFFICES ASSUME Nat \ U # {} PROVE FALSE
  OBVIOUS
<1>1. \A x, y \in Nat : <<x, y>> \in Less <=> x < y
  BY DEF Less
<1>2. PICK m \in Nat \ U : \A y \in Nat \ U : ~(<<y, m>> \in Less)
  BY LessIsWellFounded, WFMin
<1>3. m # 0 /\ m - 1 \in Nat /\ m - 1 < m /\ (m - 1) + 1 = m
  BY <1>2
<1>4. m - 1 \in U
  BY <1>1, <1>2, <1>3
<1> QED
  BY <1>2, <1>3, <1>4

(* g holds what the loop has copied after each of the first m elements. *)
Copies(g, m, s, T) ==
  g = [n \in 0..m |-> IF n = 0 THEN <<>>
                      ELSE IF s[n] \in T THEN Append(g[n - 1], s[n]) ELSE g[n - 1]]

LEMMA CopiesStep ==
  ASSUME NEW s, NEW T, NEW k \in Nat, NEW g, Copies(g, k, s, T)
  PROVE  \E h : Copies(h, k + 1, s, T)
<1> DEFINE x == IF s[k + 1] \in T THEN Append(g[k], s[k + 1]) ELSE g[k]
           h == [n \in 0..(k + 1) |-> IF n = k + 1 THEN x ELSE g[n]]
<1>1. ASSUME NEW n \in 0..(k + 1)
      PROVE  h[n] = IF n = 0 THEN <<>>
                    ELSE IF s[n] \in T THEN Append(h[n - 1], s[n]) ELSE h[n - 1]
  <2>1. CASE n = k + 1
    <3>1. n # 0 /\ n - 1 = k /\ h[n] = x /\ h[n - 1] = g[k]
      BY <2>1
    <3> QED
      BY <2>1, <3>1
  <2>2. CASE n = 0
    <3>1. h[n] = g[n] /\ n \in 0..k
      BY <2>2
    <3> QED
      BY <2>2, <3>1 DEF Copies
  <2>3. CASE n # 0 /\ n # k + 1
    <3>1. n \in 0..k /\ h[n] = g[n] /\ h[n - 1] = g[n - 1]
      BY <2>3
    <3>2. g[n] = IF s[n] \in T THEN Append(g[n - 1], s[n]) ELSE g[n - 1]
      BY <2>3, <3>1 DEF Copies
    <3> QED
      BY <2>3, <3>1, <3>2
  <2> QED
    BY <2>1, <2>2, <2>3
<1>2. h = [n \in 0..(k + 1) |-> h[n]]
  OBVIOUS
<1> HIDE DEF h
<1>3. [n \in 0..(k + 1) |-> h[n]]
        = [n \in 0..(k + 1) |-> IF n = 0 THEN <<>>
                                ELSE IF s[n] \in T THEN Append(h[n - 1], s[n]) ELSE h[n - 1]]
  BY <1>1
<1>4. Copies(h, k + 1, s, T)
  BY <1>2, <1>3, Zenon DEF Copies
<1> QED
  BY <1>4

LEMMA CopiesExist ==
  ASSUME NEW s, NEW T, NEW m \in Nat
  PROVE  \E g : Copies(g, m, s, T)
<1> DEFINE U == {k \in Nat : \E g : Copies(g, k, s, T)}
<1>1. 0 \in U
  <2>1. \A n \in 0..0 : n = 0
    OBVIOUS
  <2> DEFINE g == [n \in 0..0 |-> <<>>]
  <2>2. Copies(g, 0, s, T)
    BY <2>1 DEF Copies
  <2> QED
    BY <2>2
<1>2. ASSUME NEW k \in Nat, k \in U PROVE k + 1 \in U
  BY <1>2, CopiesStep
<1>3. Nat \subseteq U
  <2> HIDE DEF U
  <2> QED
    BY <1>1, <1>2, AllNumbers
<1> QED
  BY <1>3

LEMMA KeptIs ==
  ASSUME NEW S, NEW s \in Seq(S), NEW T
  PROVE  \E g : /\ Kept(s, T) = g[Len(s)]
                /\ g[0] = <<>>
                /\ \A n \in 1..Len(s) :
                     g[n] = IF s[n] \in T THEN Append(g[n - 1], s[n]) ELSE g[n - 1]
<1> DEFINE g == CHOOSE f : Copies(f, Len(s), s, T)
<1>1. Kept(s, T) = g[Len(s)]
  BY DEF Kept, Copies
<1>2. Len(s) \in Nat
  OBVIOUS
<1>3. Copies(g, Len(s), s, T)
  BY <1>2, CopiesExist
<1> HIDE DEF g
<1>4. /\ g[0] = <<>>
      /\ \A n \in 1..Len(s) :
           g[n] = IF s[n] \in T THEN Append(g[n - 1], s[n]) ELSE g[n - 1]
  <2>1. 0 \in 0..Len(s) /\ \A n \in 1..Len(s) : n \in 0..Len(s) /\ n # 0
    BY <1>2
  <2>2. \A n \in 0..Len(s) :
          g[n] = IF n = 0 THEN <<>>
                 ELSE IF s[n] \in T THEN Append(g[n - 1], s[n]) ELSE g[n - 1]
    BY <1>3, Zenon DEF Copies
  <2> QED
    BY <2>1, <2>2
<1> QED
  BY <1>1, <1>4

(* The copy holds the elements of s that are in T, and, s being without    *)
(* repetition, each of them once.                                          *)
LEMMA KeptElements ==
  ASSUME NEW S, NEW s \in Seq(S), NEW T, Distinct(s)
  PROVE  /\ Kept(s, T) \in Seq(S) /\ Distinct(Kept(s, T))
         /\ \A k \in DOMAIN Kept(s, T) : Kept(s, T)[k] \in T
         /\ \A k \in DOMAIN Kept(s, T) : \E j \in DOMAIN s : s[j] = Kept(s, T)[k]
<1>1. PICK g : /\ Kept(s, T) = g[Len(s)]
               /\ g[0] = <<>>
               /\ \A n \in 1..Len(s) :
                    g[n] = IF s[n] \in T THEN Append(g[n - 1], s[n]) ELSE g[n - 1]
  BY KeptIs
<1> DEFINE Good(n) == /\ g[n] \in Seq(S) /\ Distinct(g[n])
                      /\ \A k \in DOMAIN g[n] : g[n][k] \in T
                      /\ \A k \in DOMAIN g[n] : \E j \in 1..n : s[j] = g[n][k]
           U == {n \in Nat : n <= Len(s) => Good(n)}
<1>2. 0 \in U
  <2>1. g[0] = <<>>
    BY <1>1
  <2>2. g[0] \in Seq(S) /\ DOMAIN g[0] = {}
    BY <2>1
  <2> QED
    BY <2>2 DEF Distinct
<1>3. ASSUME NEW n \in Nat, n \in U PROVE n + 1 \in U
  <2> SUFFICES ASSUME n + 1 <= Len(s) PROVE Good(n + 1)
    OBVIOUS
  <2>1. Good(n)
    BY <1>3
  <2>2. n + 1 \in 1..Len(s) /\ (n + 1) - 1 = n
    OBVIOUS
  <2>3. g[n + 1] = IF s[n + 1] \in T THEN Append(g[n], s[n + 1]) ELSE g[n]
    BY <1>1, <2>2
  <2>4. CASE s[n + 1] \notin T
    <3>1. g[n + 1] = g[n]
      BY <2>3, <2>4
    <3> QED
      BY <2>1, <3>1
  <2>5. CASE s[n + 1] \in T
    <3> DEFINE q == g[n]  r == g[n + 1]
    <3>1. q \in Seq(S) /\ s[n + 1] \in S /\ r = Append(q, s[n + 1])
      BY <2>1, <2>2, <2>3, <2>5
    <3> HIDE DEF q, r
    <3>2. /\ r \in Seq(S) /\ DOMAIN r = 1..(Len(q) + 1) /\ DOMAIN q = 1..Len(q)
          /\ Len(q) \in Nat /\ r[Len(q) + 1] = s[n + 1]
          /\ \A k \in 1..Len(q) : r[k] = q[k]
      BY <3>1
    <3>3. \A k \in DOMAIN r : r[k] \in T /\ \E j \in 1..(n + 1) : s[j] = r[k]
      <4> SUFFICES ASSUME NEW k \in DOMAIN r
                   PROVE  r[k] \in T /\ \E j \in 1..(n + 1) : s[j] = r[k]
        OBVIOUS
      <4>1. CASE k = Len(q) + 1
        BY <2>5, <3>2, <4>1
      <4>2. CASE k \in 1..Len(q)
        <5>1. q[k] \in T /\ \E j \in 1..n : s[j] = q[k]
          BY <2>1, <3>2, <4>2 DEF q
        <5> QED
          BY <3>2, <4>2, <5>1
      <4> QED
        BY <3>2, <4>1, <4>2
    <3>4. \A k \in 1..Len(q) : q[k] # s[n + 1]
      <4> SUFFICES ASSUME NEW k \in 1..Len(q), q[k] = s[n + 1] PROVE FALSE
        OBVIOUS
      <4>1. PICK j \in 1..n : s[j] = q[k]
        BY <2>1, <3>2 DEF q
      <4> QED
        BY <2>2, <4>1 DEF Distinct
    <3>5. Distinct(r)
      <4> SUFFICES ASSUME NEW j \in DOMAIN r, NEW k \in DOMAIN r, r[j] = r[k] PROVE j = k
        BY DEF Distinct
      <4>1. Distinct(q)
        BY <2>1 DEF q
      <4>2. (j \in 1..Len(q) \/ j = Len(q) + 1) /\ (k \in 1..Len(q) \/ k = Len(q) + 1)
        BY <3>2
      <4> QED
        BY <3>2, <3>4, <4>1, <4>2 DEF Distinct
    <3> QED
      BY <3>2, <3>3, <3>5 DEF r
  <2> QED
    BY <2>4, <2>5
<1>4. Nat \subseteq U
  <2> HIDE DEF U
  <2> QED
    BY <1>2, <1>3, AllNumbers
<1>5. Good(Len(s)) /\ DOMAIN s = 1..Len(s)
  <2>1. Len(s) \in Nat /\ DOMAIN s = 1..Len(s)
    OBVIOUS
  <2> QED
    BY <1>4, <2>1
<1> HIDE DEF U
<1> QED
  BY <1>1, <1>5

LEMMA SelectIs ==
  ASSUME NEW ids
  PROVE  Select(ids) \in Seq(Tests) /\ Distinct(Select(ids))
BY RegistryAssumption, KeptElements DEF Select

LEMMA WithoutIs ==
  ASSUME NEW s \in Seq(Tests), Distinct(s), NEW id
  PROVE  /\ Without(s, id) \in Seq(Tests) /\ Distinct(Without(s, id))
         /\ ~Includes(Without(s, id), id)
         /\ \A t : Includes(Without(s, id), t) => Includes(s, t)
<1> DEFINE T == Tests \ {id}
           w == Kept(s, T)
<1>1. /\ w \in Seq(Tests) /\ Distinct(w)
      /\ \A k \in DOMAIN w : w[k] \in T
      /\ \A k \in DOMAIN w : \E j \in DOMAIN s : s[j] = w[k]
  <2> HIDE DEF T
  <2> QED
    BY KeptElements
<1> HIDE DEF w
<1>2. ~Includes(w, id) /\ \A t : Includes(w, t) => Includes(s, t)
  BY <1>1 DEF Includes
<1>3. Without(s, id) = w
  BY DEF Without, w
<1> QED
  BY <1>1, <1>2, <1>3

LEMMA FlagSelectionIs ==
  ASSUME NEW c
  PROVE  FlagSelection(c) \in Seq(Tests) /\ Distinct(FlagSelection(c))
BY RegistryAssumption, SelectIs, WithoutIs DEF FlagSelection

-----------------------------------------------------------------------------
(* The type of the session's own state, and Run's promises under the       *)
(* session: it uses Run as runner.Run may be used.                         *)

Flags == killed \in BOOLEAN /\ quit \in BOOLEAN /\ verdict \in BOOLEAN

Selections ==
  /\ cfg \in Configs
  /\ picked \in Seq(Tests) /\ Distinct(picked)
  /\ opts \in [domain : Nat, nodes : Nat]

Counted ==
  /\ pc \in Prompts \cup RunPhases \cup {"start", "exit"}
  /\ run \in 1..(MaxRuns + 1)
  /\ pc \notin {"menu", "exit"} => run <= MaxRuns
  /\ hits \in Nat /\ left \in Nat

Handlers ==
  /\ notify \subseteq Runs /\ queued \subseteq Runs
  /\ canceled \subseteq Runs /\ watcher \subseteq Runs
  /\ tried \subseteq Formats

Shape == Flags /\ Selections /\ Counted /\ Handlers

LEMMA ConfigIs ==
  ASSUME cfg \in Configs
  PROVE  /\ cfg.limited \in BOOLEAN /\ cfg.interactive \in BOOLEAN
         /\ cfg.outputs \subseteq Formats
  BY SessionAssumption DEF Config

LEMMA ShapeInit == Init => Shape
<1> SUFFICES ASSUME Init PROVE Shape
  OBVIOUS
<1>1. Flags
  BY Zenon DEF Init, Flags
<1>2. Selections
  <2>1. <<>> \in Seq(Tests) /\ Distinct(<<>>)
    BY DEF Distinct
  <2>2. picked \in Seq(Tests) /\ Distinct(picked)
    BY <2>1, FlagSelectionIs DEF Init
  <2> QED
    BY <2>2 DEF Init, Selections, FlagOpts
<1>3. Counted
  BY SessionAssumption DEF Init, Counted
<1>4. Handlers
  BY DEF Init, Handlers
<1> QED
  BY <1>1, <1>2, <1>3, <1>4 DEF Shape

LEMMA FlagsStep == Shape /\ [Next]_vars => Flags'
<1> SUFFICES ASSUME Shape, [Next]_vars PROVE Flags'
  OBVIOUS
<1>1. killed' \in BOOLEAN
  <2>1. killed' = killed \/ killed' = TRUE
    BY Zenon DEF Next, MenuStep, Quit, Pick, AskProfile, AskDomain, MainStep, StartRun, RunStep,
       EndOfRun, Save, Verdict, Defers, TestReturns, TestTimeout, BudgetExpires, Signal,
       CancelBySignal, Restore, menuVars, sessionVars, vars
  <2> QED
    BY <2>1, Zenon DEF Shape, Flags
<1>2. quit' \in BOOLEAN
  <2>1. quit' = quit \/ quit' = TRUE
    BY Zenon DEF Next, MenuStep, Quit, Pick, AskProfile, AskDomain, MainStep, StartRun, RunStep,
       EndOfRun, Save, Verdict, Defers, TestReturns, TestTimeout, BudgetExpires, Signal,
       CancelBySignal, Restore, menuVars, sessionVars, vars
  <2> QED
    BY <2>1, Zenon DEF Shape, Flags
<1>3. verdict' \in BOOLEAN
  <2>1. verdict' = verdict \/ verdict' = FALSE \/ verdict' = NotInterrupted
    BY Zenon DEF Next, MenuStep, Quit, Pick, AskProfile, AskDomain, MainStep, StartRun, RunStep,
       EndOfRun, Save, Verdict, Defers, TestReturns, TestTimeout, BudgetExpires, Signal,
       CancelBySignal, Restore, sessionVars, vars
  <2>2. NotInterrupted \in BOOLEAN
    BY DEF NotInterrupted
  <2> QED
    BY <2>1, <2>2, Zenon DEF Shape, Flags
<1> QED
  BY <1>1, <1>2, <1>3 DEF Flags

LEMMA SelectionsStep == Shape /\ [Next]_vars => Selections'
<1> SUFFICES ASSUME Shape, [Next]_vars PROVE Selections'
  OBVIOUS
<1> USE DEF Shape
<1>1. CASE UNCHANGED <<cfg, picked, opts>>
  BY <1>1 DEF Selections
<1>2. run \in Nat
  BY SessionAssumption DEF Counted
<1>3. ASSUME NEW ids, Pick(ids) PROVE Selections'
  BY <1>3, SelectIs DEF Pick, Selections, PickOpts, FlagOpts, signalVars
<1>4. CASE AskProfile
  BY <1>2, <1>4 DEF AskProfile, Selections, signalVars
<1>5. ASSUME NEW answered, AskDomain(answered) PROVE Selections'
  <2>1. picked' = picked \/ picked' = Without(picked, "whois")
    BY <1>5 DEF AskDomain
  <2>2. opts' = opts \/ opts' = [opts EXCEPT !.domain = run]
    BY <1>5 DEF AskDomain
  <2>3. cfg' = cfg
    BY <1>5 DEF AskDomain
  <2> QED
    BY <1>2, <2>1, <2>2, <2>3, WithoutIs DEF Selections
<1>6. CASE Defers
  <2>1. <<>> \in Seq(Tests) /\ Distinct(<<>>)
    BY DEF Distinct
  <2> QED
    BY <1>6, <2>1 DEF Defers, Selections
<1>7. CASE Quit \/ StartRun \/ RunStep \/ EndOfRun \/ Save("json", "md") \/ Save("md", "verdict")
           \/ Verdict \/ TestReturns \/ TestTimeout \/ BudgetExpires \/ Signal
           \/ (\E r \in Runs : CancelBySignal(r) \/ Restore(r)) \/ UNCHANGED vars
  BY <1>1, <1>7 DEF Quit, StartRun, RunStep, EndOfRun, Save, Verdict, TestReturns, TestTimeout,
     BudgetExpires, Signal, CancelBySignal, Restore, menuVars, sessionVars, vars
<1> QED
  BY <1>3, <1>4, <1>5, <1>6, <1>7 DEF Next, MenuStep, MainStep

LEMMA CountedStep == Shape /\ [Next]_vars => Counted'
<1> SUFFICES ASSUME Shape, [Next]_vars PROVE Counted'
  OBVIOUS
<1>0. Counted /\ MaxRuns \in Nat
  BY SessionAssumption DEF Shape
<1>1. CASE UNCHANGED <<pc, run, hits, left>>
  BY <1>0, <1>1 DEF Counted
<1>2. CASE MenuStep
  BY <1>0, <1>2 DEF MenuStep, Quit, Pick, AskProfile, AskDomain, signalVars, Counted
<1>3. CASE StartRun \/ EndOfRun \/ Save("json", "md") \/ Save("md", "verdict") \/ Verdict
  BY <1>0, <1>3 DEF StartRun, EndOfRun, Save, Verdict, signalVars, menuVars, Counted
<1>4. CASE Defers
  BY <1>0, <1>4 DEF Defers, Counted
<1>5. CASE Signal
  BY <1>0, <1>5 DEF Signal, Counted
<1>6. CASE RunStep \/ TestReturns \/ TestTimeout \/ BudgetExpires
           \/ (\E r \in Runs : CancelBySignal(r) \/ Restore(r)) \/ UNCHANGED vars
  BY <1>1, <1>6 DEF RunStep, TestReturns, TestTimeout, BudgetExpires, CancelBySignal,
     Restore, menuVars, sessionVars, vars
<1> QED
  BY <1>2, <1>3, <1>4, <1>5, <1>6 DEF Next, MainStep

LEMMA HandlersStep == Shape /\ [Next]_vars => Handlers'
<1> SUFFICES ASSUME Shape, [Next]_vars PROVE Handlers'
  OBVIOUS
<1>0. /\ Handlers
      /\ pc \notin {"menu", "exit"} => run \in Runs
      /\ cfg.outputs \subseteq Formats
  BY SessionAssumption, ConfigIs DEF Shape, Counted, Runs, Selections
<1>1. CASE UNCHANGED <<notify, queued, canceled, watcher, tried>>
  BY <1>0, <1>1 DEF Handlers
<1>2. CASE StartRun
  BY <1>0, <1>2 DEF StartRun, Handlers
<1>3. CASE Save("json", "md") \/ Save("md", "verdict")
  BY <1>0, <1>3 DEF Save, signalVars, Handlers
<1>4. CASE Defers
  BY <1>0, <1>4 DEF Defers, StopNotify, Handlers
<1>5. CASE Signal
  BY <1>0, <1>5 DEF Signal, Handlers
<1>6. ASSUME NEW r \in Runs, CancelBySignal(r) \/ Restore(r) PROVE Handlers'
  BY <1>0, <1>6 DEF CancelBySignal, Restore, StopNotify, Handlers
<1>7. CASE MenuStep \/ EndOfRun \/ Verdict \/ RunStep \/ TestReturns \/ TestTimeout
           \/ BudgetExpires \/ UNCHANGED vars
  BY <1>1, <1>7 DEF MenuStep, Quit, Pick, AskProfile, AskDomain, EndOfRun, Verdict, RunStep,
     TestReturns, TestTimeout, BudgetExpires, signalVars, sessionVars, vars
<1> QED
  BY <1>2, <1>3, <1>4, <1>5, <1>6, <1>7 DEF Next, MainStep

LEMMA ShapeStep == Shape /\ [Next]_vars => Shape'
BY FlagsStep, SelectionsStep, CountedStep, HandlersStep DEF Shape

(* Every step of the session is a step of Run or leaves it alone. *)
LEMMA SessionRefines == Shape /\ [Next]_vars => [RunnerNext]_runnerVars
<1> SUFFICES ASSUME Shape, [Next]_vars PROVE RunnerNext \/ UNCHANGED runnerVars
  OBVIOUS
<1>1. CASE StartRun
  <2>1. Call(picked, cfg.limited) /\ sel' = picked /\ limited' = cfg.limited
    BY <1>1, Zenon DEF StartRun, Call
  <2>2. picked \in Seq(Tests) /\ Distinct(picked) /\ cfg.limited \in BOOLEAN
    BY ConfigIs DEF Shape, Selections
  <2> QED
    BY <2>1, <2>2, Zenon DEF RunnerNext
<1>2. CASE RunStep \/ TestReturns \/ TestTimeout \/ Defers
  BY <1>2 DEF RunStep, TestReturns, TestTimeout, Defers, RunnerNext
<1>3. "deadline" \in CtxErr \ {"nil"} /\ "canceled" \in CtxErr \ {"nil"}
  BY DEF CtxErr
<1>4. CASE BudgetExpires
  BY <1>3, <1>4 DEF BudgetExpires, RunnerNext
<1>5. ASSUME NEW r \in Runs, CancelBySignal(r) \/ Restore(r)
      PROVE  RunnerNext \/ UNCHANGED runnerVars
  BY <1>3, <1>5 DEF CancelBySignal, Restore, RunnerNext
<1>6. CASE MenuStep \/ EndOfRun \/ Save("json", "md") \/ Save("md", "verdict") \/ Verdict
           \/ Signal \/ UNCHANGED vars
  BY <1>6 DEF MenuStep, Quit, Pick, AskProfile, AskDomain, EndOfRun, Save, Verdict, Signal, vars
<1> QED
  BY <1>1, <1>2, <1>4, <1>5, <1>6 DEF Next, MainStep

(* The session drives runner.Run only in the ways its promises are made    *)
(* for: with a selection of its registry, once at a time, and with signals *)
(* and the -timeout as ends of its context.                                *)
THEOREM SessionImplementsRunner == Spec => RunnerSpec
<1>1. Init => RunnerInit
  BY DEF Init
<1> QED
  BY <1>1, ShapeInit, ShapeStep, SessionRefines, PTL DEF Spec, RunnerSpec

THEOREM SessionTypeCorrect == Spec => []SessionTypeOK
<1>1. TypeOK /\ Shape => SessionTypeOK
  BY DEF Shape, Flags, Selections, Counted, Handlers, SessionTypeOK
<1> QED
  BY <1>1, ShapeInit, ShapeStep, SessionImplementsRunner, TypeCorrect, PTL DEF Spec

(* What Run promises of its report it promises in every run of a session.  *)
THEOREM SessionAccounts == Spec => [](Accounted /\ LateStarts)
BY SessionImplementsRunner, ReportAccounts, AtMostOneLateStart, PTL

-----------------------------------------------------------------------------
(* Every run has the answers of its own prompts *)

WhoisSettled(s)     == Includes(s, "whois") => cfg.domain \/ opts.domain = run
SpeedtestSettled(s) == Includes(s, "speedtest") => cfg.speedFlags \/ opts.nodes = run

AnswerInv ==
  cfg.interactive =>
    /\ pc = "profile" => opts.domain = 0
    /\ pc = "domain" => opts.domain = 0 /\ SpeedtestSettled(picked)
    /\ pc = "start" => WhoisSettled(picked) /\ SpeedtestSettled(picked)
    /\ pc = "run" => WhoisSettled(sel) /\ SpeedtestSettled(sel)

LEMMA AnswerStep == Shape /\ AnswerInv /\ [Next]_vars => AnswerInv'
<1> SUFFICES ASSUME Shape, AnswerInv, [Next]_vars PROVE AnswerInv'
  OBVIOUS
<1> USE DEF WhoisSettled, SpeedtestSettled, Includes
<1>0. Selections
  BY DEF Shape
<1>1. CASE UNCHANGED <<cfg, pc, opts, run, picked, sel>>
  BY <1>1 DEF AnswerInv
<1>2. ASSUME NEW ids, Pick(ids) PROVE AnswerInv'
  BY <1>2 DEF Pick, PickOpts, FlagOpts, AnswerInv
<1>3. CASE AskProfile
  BY <1>0, <1>3 DEF AskProfile, AnswerInv, Selections
<1>4. ASSUME NEW answered, AskDomain(answered) PROVE AnswerInv'
  <2>1. cfg' = cfg /\ run' = run /\ pc = "domain" /\ pc' \in {"menu", "start"}
    BY <1>4 DEF AskDomain
  <2> SUFFICES ASSUME cfg.interactive PROVE WhoisSettled(picked)' /\ SpeedtestSettled(picked)'
    BY <2>1 DEF AnswerInv
  <2>2. opts.domain = 0 /\ SpeedtestSettled(picked)
    BY <2>1 DEF AnswerInv
  <2>3. /\ picked \in Seq(Tests) /\ Distinct(picked)
        /\ opts \in [domain : Nat, nodes : Nat]
    BY <1>0 DEF Selections
  <2> DEFINE ask == Includes(picked, "whois") /\ ~cfg.domain /\ opts.domain = 0
  <2>4. /\ opts' = IF ask /\ answered THEN [opts EXCEPT !.domain = run] ELSE opts
        /\ picked' = IF ask /\ ~answered THEN Without(picked, "whois") ELSE picked
    BY <1>4, Zenon DEF AskDomain
  <2> HIDE DEF Includes, SpeedtestSettled, WhoisSettled
  <2>5. CASE ask /\ ~answered
    <3>1. /\ picked' = Without(picked, "whois") /\ opts' = opts
          /\ ~Includes(picked', "whois")
          /\ Includes(picked', "speedtest") => Includes(picked, "speedtest")
      BY <2>3, <2>4, <2>5, WithoutIs
    <3> QED
      BY <2>1, <2>2, <3>1 DEF WhoisSettled, SpeedtestSettled
  <2>6. CASE ask /\ answered
    <3>1. picked' = picked /\ opts'.domain = run /\ opts'.nodes = opts.nodes
      BY <2>3, <2>4, <2>6
    <3> QED
      BY <2>1, <2>2, <3>1 DEF WhoisSettled, SpeedtestSettled
  <2>7. CASE ~ask
    <3>1. picked' = picked /\ opts' = opts
      BY <2>4, <2>7
    <3> QED
      BY <2>1, <2>2, <2>7, <3>1 DEF WhoisSettled, SpeedtestSettled
  <2> QED
    BY <2>5, <2>6, <2>7
<1>5. CASE StartRun
  BY <1>5 DEF StartRun, Call, menuVars, AnswerInv
<1>6. CASE RunStep
  <2>1. UNCHANGED <<sel, cfg, pc, opts, run>>
    BY <1>6 DEF RunStep, Stepping, Finish, Interrupt, Check, Begin, Record, sessionVars
  <2> QED
    BY <2>1, <1>6 DEF RunStep, AnswerInv
<1>7. CASE TestReturns \/ TestTimeout \/ BudgetExpires
           \/ (\E r \in Runs : CancelBySignal(r) \/ Restore(r))
  BY <1>1, <1>7 DEF TestReturns, TestTimeout, BudgetExpires, CancelBySignal, Restore, Return,
     ExpireTest, EndContext, runnerVars, sessionVars, menuVars
<1>8. CASE Quit \/ EndOfRun \/ Save("json", "md") \/ Save("md", "verdict") \/ Verdict \/ Defers
  BY <1>8 DEF Quit, EndOfRun, Save, Verdict, Defers, menuVars, AnswerInv
<1>9. CASE Signal \/ UNCHANGED vars
  BY <1>1, <1>9 DEF Signal, runnerVars, sessionVars, vars
<1> QED
  BY <1>2, <1>3, <1>4, <1>5, <1>6, <1>7, <1>8, <1>9 DEF Next, MenuStep, MainStep

(* A run from the menu has the domain and the nodes of its own prompts,    *)
(* never those of an earlier run.                                          *)
THEOREM AnswersAreOwn == Spec => []OwnAnswers
<1>1. Init => AnswerInv
  BY DEF Init, AnswerInv
<1>2. AnswerInv => OwnAnswers
  BY DEF AnswerInv, OwnAnswers, WhoisSettled, SpeedtestSettled
<1> QED
  BY <1>1, <1>2, ShapeInit, ShapeStep, AnswerStep, PTL DEF Spec

=============================================================================
