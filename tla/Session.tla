------------------------------ MODULE Session ------------------------------
(***************************************************************************)
(* cmd/serverok: the life of the process.  The main goroutine asks for a   *)
(* set of tests (or takes it from the flags), runs it through runner.Run,  *)
(* saves the report and comes back to the menu.  Around every run it keeps *)
(* a signal handler: signal.NotifyContext registers a channel and starts a *)
(* goroutine that cancels the run's context when a signal is in it, and a  *)
(* watcher goroutine restores the default action once the context ended.   *)
(***************************************************************************)
EXTENDS Runner, FiniteSets

CONSTANTS
  Configs,     \* the command lines: records of Config
  MaxRuns,     \* bound: runs of one process
  MaxPick,     \* bound: tests picked at the menu for one run
  MaxSignals   \* bound: SIGINT and SIGTERM received

Runs == 1..MaxRuns

VARIABLES
  cfg,       \* the parsed flags, never changed
  pc,        \* where the main goroutine is
  killed,    \* the default action of a signal ended the process
  quit,      \* the user chose 0, or the input ended
  run,       \* number of the current or next run
  picked,    \* the tests about to run
  opts,      \* run.opts: the run whose prompts settled the domain and the
             \* speedtest nodes, 0 where the flags hold
  notify,    \* runs whose channel is registered with os/signal
  queued,    \* runs whose channel holds a signal
  canceled,  \* runs whose signal context was cancelled
  watcher,   \* runs whose watcher goroutine is waiting
  hits,      \* history: signals received during this run
  verdict,   \* what runTests is about to return
  tried,     \* formats saveOutputs has tried for this run
  left       \* bound: signals still to come

sessionVars == <<cfg, pc, killed, quit, run, picked, opts, notify, queued,
                 canceled, watcher, hits, verdict, tried, left>>
vars == <<runnerVars, sessionVars>>

Formats == {"json", "md"}
Config == [interactive : BOOLEAN,       \* no -test, no -all, and a terminal
           list : Seq(Tests),           \* -test, <<>> when it is not given
           domain : BOOLEAN,            \* -domain is given
           speedFlags : BOOLEAN,        \* -nodes or -speed-method is given
           limited : BOOLEAN,           \* -test-timeout > 0
           budget : BOOLEAN,            \* -timeout > 0
           outputs : SUBSET Formats]    \* -json, -md

ASSUME SessionAssumption ==
  /\ \A c \in Configs : c \in Config /\ (c.interactive => c.list = <<>>)
  /\ {"speedtest", "whois"} \subseteq Tests
  /\ MaxRuns \in Nat \ {0} /\ MaxPick \in Nat /\ MaxSignals \in Nat

Prompts   == {"menu", "profile", "domain"}
RunPhases == {"run", "json", "md", "verdict", "defers"}

SessionTypeOK ==
  /\ TypeOK
  /\ cfg \in Configs
  /\ pc \in Prompts \cup RunPhases \cup {"start", "exit"}
  /\ killed \in BOOLEAN /\ quit \in BOOLEAN /\ verdict \in BOOLEAN
  /\ run \in 1..(MaxRuns + 1)
  /\ picked \in Seq(Tests)
  /\ opts \in [domain : Nat, nodes : Nat]
  /\ notify \subseteq Runs /\ queued \subseteq Runs
  /\ canceled \subseteq Runs /\ watcher \subseteq Runs
  /\ hits \in Nat
  /\ tried \subseteq Formats
  /\ left \in Nat

FlagOpts == [domain |-> 0, nodes |-> 0]

Without(s, id) == Kept(s, Tests \ {id})
Includes(s, id) == \E k \in DOMAIN s : s[k] = id

(* selectByFlags, and the rule that drops whois from "run everything". *)
FlagSelection(c) ==
  IF c.list # <<>> THEN Select(c.list)
  ELSE IF c.domain THEN Registry ELSE Without(Registry, "whois")

Init ==
  /\ RunnerInit
  /\ cfg \in Configs
  /\ pc = IF cfg.interactive THEN "menu" ELSE "start"
  /\ picked = IF cfg.interactive THEN <<>> ELSE FlagSelection(cfg)
  /\ opts = FlagOpts
  /\ killed = FALSE /\ quit = FALSE /\ verdict = FALSE
  /\ run = 1
  /\ notify = {} /\ queued = {} /\ canceled = {} /\ watcher = {}
  /\ hits = 0
  /\ tried = {} /\ left = MaxSignals

signalVars == <<notify, queued, canceled, watcher, hits, left>>
menuVars   == <<cfg, killed, quit, run, picked, opts>>

-----------------------------------------------------------------------------
(* The menu loop of main *)

Quit ==
  /\ pc = "menu"
  /\ quit' = TRUE /\ pc' = "exit"
  /\ UNCHANGED <<runnerVars, signalVars, cfg, killed, run, picked, opts, verdict, tried>>

PickOptsStale == opts
PickOpts == FlagOpts

(* Every turn of the loop starts from a copy of the flags: run := cfg.  (A *)
(* mistyped ID changes nothing: Select refuses it and the menu comes back.) *)
Pick(ids) ==
  /\ pc = "menu" /\ run <= MaxRuns
  /\ picked' = Select(ids)
  /\ opts' = PickOpts
  /\ pc' = "profile"
  /\ UNCHANGED <<runnerVars, signalVars, cfg, killed, quit, run, verdict, tried>>

(* askSpeedProfile, unless a flag has settled it. *)
AskProfile ==
  /\ pc = "profile"
  /\ opts' = IF Includes(picked, "speedtest") /\ ~cfg.speedFlags
             THEN [opts EXCEPT !.nodes = run] ELSE opts
  /\ pc' = "domain"
  /\ UNCHANGED <<runnerVars, signalVars, cfg, killed, quit, run, picked, verdict, tried>>

(* askDomain; an empty answer drops whois, an empty selection asks again. *)
AskDomain(answered) ==
  /\ pc = "domain"
  /\ LET ask == Includes(picked, "whois") /\ ~cfg.domain /\ opts.domain = 0 IN
       /\ opts' = IF ask /\ answered THEN [opts EXCEPT !.domain = run] ELSE opts
       /\ picked' = IF ask /\ ~answered THEN Without(picked, "whois") ELSE picked
  /\ pc' = IF picked' = <<>> THEN "menu" ELSE "start"
  /\ UNCHANGED <<runnerVars, signalVars, cfg, killed, quit, run, verdict, tried>>

-----------------------------------------------------------------------------
(* runTests *)

(* The handler is installed, the watcher started, Run entered. *)
StartRun ==
  /\ pc = "start"
  /\ notify' = notify \cup {run} /\ watcher' = watcher \cup {run}
  /\ Call(picked, cfg.limited)
  /\ hits' = 0
  /\ pc' = "run"
  /\ UNCHANGED <<menuVars, queued, canceled, left, verdict, tried>>

RunStep ==
  /\ pc = "run"
  /\ Stepping
  /\ UNCHANGED sessionVars

TestReturns ==
  /\ pc = "run"
  /\ Return
  /\ UNCHANGED sessionVars

TestTimeout ==
  /\ ExpireTest
  /\ UNCHANGED sessionVars

(* The deadline of -timeout, armed until the deferred cancel. *)
BudgetExpires ==
  /\ cfg.budget /\ pc \in RunPhases
  /\ EndContext("deadline")
  /\ UNCHANGED sessionVars

(* saveOutputs after Run: JSON, then Markdown, a failed write stops neither. *)
EndOfRun ==
  /\ pc = "run" /\ at = "done"
  /\ pc' = "json"
  /\ UNCHANGED <<runnerVars, signalVars, menuVars, verdict, tried>>

SaveWholeRuns(format, next) ==
  /\ pc = format
  /\ tried' = IF ctxErr = "nil" THEN tried \cup ({format} \cap cfg.outputs) ELSE tried
  /\ pc' = next
  /\ UNCHANGED <<runnerVars, signalVars, menuVars, verdict>>

Save(format, next) ==
  /\ pc = format
  /\ tried' = tried \cup ({format} \cap cfg.outputs)
  /\ pc' = next
  /\ UNCHANGED <<runnerVars, signalVars, menuVars, verdict>>

NotInterruptedByCtx == ctxErr = "nil"
NotInterrupted == run \notin canceled

(* return sigCtx.Err() == nil *)
Verdict ==
  /\ pc = "verdict"
  /\ verdict' = NotInterrupted
  /\ pc' = "defers"
  /\ UNCHANGED <<runnerVars, signalVars, menuVars, tried>>

StopNothing(r) == notify
StopNotify(r) == notify \ {r}

(* The deferred calls: cancel of -timeout, then stop, which cancels the    *)
(* signal context and takes its channel out of os/signal.                  *)
Defers ==
  /\ pc = "defers"
  /\ canceled' = canceled \cup {run}
  /\ notify' = StopNotify(run)
  /\ Leave
  /\ pc' = IF verdict /\ cfg.interactive THEN "menu" ELSE "exit"
  /\ run' = IF pc' = "menu" THEN run + 1 ELSE run
  /\ picked' = <<>> /\ verdict' = FALSE /\ tried' = {}
  /\ UNCHANGED <<cfg, killed, quit, opts, queued, watcher, hits, left>>

-----------------------------------------------------------------------------
(* Signals *)

(* A signal fills the one place of every registered channel, or, with none *)
(* registered, kills the process.                                          *)
Signal ==
  /\ left > 0
  /\ left' = left - 1
  /\ IF notify = {} THEN killed' = TRUE ELSE killed' = killed
  /\ queued' = queued \cup notify
  /\ hits' = IF pc \in RunPhases THEN hits + 1 ELSE hits
  /\ UNCHANGED <<runnerVars, cfg, pc, quit, run, picked, opts, notify, canceled,
                 watcher, verdict, tried>>

CancelSignalOnly(r) ==
  /\ r \in queued /\ r \notin canceled
  /\ canceled' = canceled \cup {r}
  /\ UNCHANGED <<runnerVars, menuVars, pc, notify, queued, watcher, hits, left, verdict, tried>>

(* The goroutine of NotifyContext cancels the context and all below it. *)
CancelBySignal(r) ==
  /\ r \in queued /\ r \notin canceled
  /\ canceled' = canceled \cup {r}
  /\ IF ctxErr = "nil" THEN EndContext("canceled") ELSE UNCHANGED runnerVars
  /\ UNCHANGED <<menuVars, pc, notify, queued, watcher, hits, left, verdict, tried>>

(* The watcher of runTests: <-sigCtx.Done(); stop(). *)
Restore(r) ==
  /\ r \in watcher /\ r \in canceled
  /\ notify' = StopNotify(r)
  /\ watcher' = watcher \ {r}
  /\ UNCHANGED <<runnerVars, menuVars, pc, queued, canceled, hits, left, verdict, tried>>

-----------------------------------------------------------------------------

MenuStep ==
  \/ Quit
  \/ \E n \in 1..MaxPick : \E ids \in [1..n -> Tests] : Pick(ids)
  \/ AskProfile
  \/ \E answered \in BOOLEAN : AskDomain(answered)

MainStep ==
  \/ StartRun
  \/ RunStep
  \/ EndOfRun
  \/ Save("json", "md")
  \/ Save("md", "verdict")
  \/ Verdict
  \/ Defers

Over == killed \/ pc = "exit"

Next ==
  /\ ~Over
  /\ \/ MenuStep
     \/ MainStep
     \/ TestReturns
     \/ TestTimeout
     \/ BudgetExpires
     \/ Signal
     \/ \E r \in Runs : CancelBySignal(r) \/ Restore(r)

(***************************************************************************)
(* The scheduler runs every goroutine, armed timers fire, and a test whose *)
(* context has ended returns.  Nothing obliges a test to return earlier,   *)
(* the user to answer a prompt, or a signal to come.                       *)
(***************************************************************************)
Fairness ==
  /\ WF_vars(~Over /\ MainStep)
  /\ WF_vars(~Over /\ tctxErr # "nil" /\ TestReturns)
  /\ WF_vars(~Over /\ TestTimeout)
  /\ \A r \in Runs : WF_vars(~Over /\ CancelBySignal(r)) /\ WF_vars(~Over /\ Restore(r))

Spec == Init /\ [][Next]_vars
FairSpec == Spec /\ Fairness

-----------------------------------------------------------------------------
(* Properties *)

(* Ctrl+C at a prompt ends the process at once: the handler is installed   *)
(* for the run only, so whatever the goroutines of earlier runs still have *)
(* to do, no channel is registered while the program waits for input.      *)
PromptsKillable == pc \in Prompts \cup {"start"} => notify = {}

(* One Ctrl+C never costs the report: a run is only killed by a signal     *)
(* that follows another, and if it is not killed it has tried every format *)
(* asked for before it decides how to go on, interrupted or not.           *)
OneSignalKeepsReport ==
  /\ killed /\ pc \in RunPhases => hits >= 2
  /\ pc \in {"verdict", "defers"} => tried = cfg.outputs

(* A menu session ends by the user's choice or a signal only; no timeout   *)
(* and no failure of a test ends it.                                       *)
EndsOnRequestOnly ==
  Over /\ cfg.interactive => quit \/ killed \/ hits > 0

(* A run from the menu has the domain and the nodes of its own prompts,    *)
(* never those of an earlier run; flags are stronger than prompts.         *)
OwnAnswers ==
  pc = "run" /\ cfg.interactive =>
    /\ Includes(sel, "whois") => cfg.domain \/ opts.domain = run
    /\ Includes(sel, "speedtest") => cfg.speedFlags \/ opts.nodes = run

(* After the first signal the second one kills: the default action comes   *)
(* back although the test may hang in a call that ignores its context.     *)
SecondSignalKills ==
  \A r \in Runs : r \in queued ~> (r \notin notify \/ Over)

(* A run ends when every test has a time limit, or once a signal came,     *)
(* provided tests return when their context ends.                          *)
RunEnds ==
  (pc = "run" /\ (limited \/ run \in queued)) ~> (pc # "run" \/ Over)

=============================================================================
