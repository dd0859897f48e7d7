# ServerOk, a verification development in TLA+

ServerOk is a command line tool that checks a server: it runs a selection of
tests (system information, IP and blacklists, network, latency, traceroute,
ports, censorship, streaming access, domain whois, benchmarks, speed tests)
and prints and saves one report. This directory holds TLA+ models of the parts
whose correctness depends on order, time and failures of others, the TLC
configurations that check them on small instances, and TLAPS proofs of the main results for all values of
the parameters.

    tlc -config MCSession.cfg MCSession        # and likewise for the other MC modules
    tlapm Session_proofs.tla                   # and likewise for the other *_proofs

## 1. The system

### Components

| component | code | state | operations | right when |
|---|---|---|---|---|
| runner | `internal/runner/runner.go` | the report being written, the loop position, the contexts | `Run`, `withTimeout`, `Select`, `humanError` | the report accounts for every test: a section, or a failure with the true reason (a speed test with no row yet leaves neither: finding 2) |
| session | `cmd/serverok/main.go` | the flags, the options of the turn, the signal handler, the watcher | menu loop, prompts, `runTests`, `saveOutputs` | Ctrl+C at a prompt ends the process; one during a run ends the run and keeps the report; a second one always kills |
| test registry | `cmd/serverok/tests.go` | none; wires tests to report fields | `buildTests` | a test stores its section or returns an error |
| report model | `internal/report/model.go` | tests, failures, sections | `AddFailure`, `Tests`, `Failures` | nothing is overwritten |
| bounded pools | `Latency`, `Ports`, blocking `run`, unblock `Run`, `CheckBlacklists` | cells, semaphore, counter, mutex, wait group | one goroutine per job, deferred release | at most `limit` in flight, every job answered, progress counts up, order by rank |
| server picking | `netcheck/speedtest.go` `reachable`, `prefixPicker` | probe answers, the border of the known prefix | probe goroutines, `mark` | the first live candidates of the list, no needless wait, no leaked goroutine |
| speed window | `netcheck/speedwindow.go` with the transfers of `speedookla.go`, `speedcf.go` | byte counter, warm-up snapshot, timer, contexts | `measureWindow` | what transfers moved is counted, budget respected, a speed exactly when data moved |
| speed test nodes | `netcheck/speedtest.go`, `speedcf.go` | server list and its lock, rows | `ooklaSpeedtest`, `measureNode`, `fetchServerList`, `resolveSet` | rows in node order, requests spaced, a failed candidate does not end a node |
| censorship probe | `blocking/blocking.go` | per-domain result, connection deadlines | `probe`, `dns`, `attempt`, `fetch`, `drain`, `verdict` | a verdict rests on finished probes only |
| unblock checks | `unblock/*.go` | a status per service | `runOne` and one check per service | a panic or error is a status, not a crash |
| latency, traceroute | `netcheck/latency.go`, `trace.go`, `cymru.go` | raw sockets, sequence numbers, ASN cache | `icmpPing`, `awaitReply`, `nativeTrace`, `awaitHop` | a reply is credited to its own request |
| network stack | `netcheck/stack.go` | none | three look-ups | none depends on another |
| geolocation memo | `ipinfo/geo.go` | one answer per version of IP, for the whole process | `LookupGeo`, `fetchGeo` | no provider is asked twice, a failure counts as an answer |
| RDAP, DNSBL | `ipinfo/rdap.go`, `blacklist.go` | none | `LookupRDAP`, fallback, `queryZone` | the record is of the address it stands under; a failed query is not "clean" |
| domain whois | `whois/*.go` | the merged record | `Lookup`, `queryChain`, `merge` | the chain ends; what was received is kept |
| benchmarks | `bench/*.go` | temporary file, stop flag | `Disk`, `CPU`, `Memory` | temporary files removed, free space respected |
| menu input | `ui/menu.go` | the reader | `Menu`, `Ask`, `Choose` | a mistyped answer asks again |
| rendering, files | `ui/*`, `report/*` | none | text, JSON, Markdown | pure output |
| host information | `sysinfo/*` | none | reads of the operating system | pure input |
| HTTP helpers | `netutil/http.go` | none | clients | a request ends by its timeout or its context |
| install script | `scripts/install.sh` | files on disk | download, verify, install | nothing unverified is installed |

### How they interact

The main goroutine asks, calls `runTests`, which calls `runner.Run`, which calls
one test at a time. Everything below is bound together by **contexts**: the
signal context of a run, below it the context of `-timeout`, below it the
context of `Run`'s test, and below it those of single nodes, windows and
requests. A context that ends ends everything below it, at any moment, and
nobody is told except by looking. **Signals** reach a run through a channel
`signal.NotifyContext` registers; a watcher goroutine takes it out again as
soon as the context has ended, so that the next signal has its default action.
**Goroutines** inside a test share counters, cells and channels with the
goroutine that started them and are joined before the test returns; the
probes of `reachable` are the exception and are left behind with a buffered
channel. **State that outlives a test** is small: the options of a turn of the
menu, the geolocation memo, the ASN cache, the server list with its lock.
**Prompts** are reads from the terminal between two runs, with no handler
installed.

### What is hard here

- The context of a run can end between any two statements, for two reasons (a
  signal, the overall timeout) that the report and the menu have to tell apart.
- Watchers of earlier runs may still be pending when the next prompt or run is
  reached.
- A pool's deferred calls run in an order the source reads backwards.
- Answers arrive in any order but the choice is by the order of a list.
- The transport may read on in the body of an upload, and count, after its request
  has returned.
- `timer.Stop` does not wait for a callback; the wall clock of the snapshot can
  be set back, the monotonic clock of the window cannot.
- Cancelling a window on purpose produces errors that are none.
- Requests for the server list are spaced over retries, nodes and runs, and a
  pause may be cut by a context.
- Every raw ICMP socket hears the answers to all probes, which carry one ID.
- Providers of the own address disagree, and three tests ask at different times.
- A chain of referrals can loop, break or repeat itself, and two sources of one
  record say different things.

`PROJECT.json` lists each of these at its line under "hazards", with the
properties that cover it, or a note where none does.

## 2. The modules

| module | what it is |
|---|---|
| `Selection` | the loop that copies the wanted elements of a list, in their order |
| `Runner` | `Run` and what it writes into the report; a specification of its own (`RunnerSpec`) with any context, any failures |
| `Session` | the process around it: extends `Runner`, takes its actions apart by the main goroutine's position, adds signals and watchers |
| `MCSession` | four tests and four command lines |
| `ParallelMap` | the abstract promise of a pool to its caller |
| `WorkerPool` | the pool the five tests share, shown to implement `ParallelMap` |
| `Reachable` | `reachable` with `prefixPicker.mark` |
| `SpeedWindow` | `measureWindow` with the transfers it repeats |
| `Probe` | the censorship probe of one endpoint, against a network that may break any step |
| `Blocking` | `run` around it: the control hosts, the verdict over a service; extends `Probe` |
| `SpeedNodes` | the rows of a speed test: nodes, server list, candidates, the Cloudflare method |
| `Icmp` | pings and traces over the shared ICMP sockets, with the ASN cache |
| `Rdap` | what is taken from an RDAP answer or a text of the whois program: operators |
| `Ip` | what the process learns of its own address, over several tests and runs; extends `Rdap` |
| `WhoisText` | what an input names and what pages and answers say, and `merge`: operators |
| `Whois` | `Lookup` of a domain; extends `WhoisText` |
| `Session_proofs`, `WorkerPool_proofs`, `Speedtest_proofs`, `SpeedWindow_proofs`, `Blocking_proofs`, `Icmp_proofs`, `Ip_proofs`, `Whois_proofs` | the theorems; those of `Runner` are in `Session_proofs`, those of `Reachable` and `SpeedNodes` in `Speedtest_proofs` |

The other `MC` modules give one component its small constants. Where the code loops
over a slice and the result is reasoned about (`Kept`, `AddNew`, `ResolveSet`, the
loops of `WhoisText`), the model has a recursive function of the number of turns,
which the provers can expand, and not an operator of the library.

### Runner

`at` is the position in the loop of `Run`: `head` (the check of `ctx.Err()`),
`begin` (past the check, before the test), `running`, `returned` (the test has
handed back, `err` not yet looked at). The check and the start of a test are two
actions because the context can end between them. `Call` is the entry, `Check`,
`Interrupt` and `Finish` are the three ways through the head, `Begin` lists the
test and derives its context (`tctxErr`), `Return` is the test, `Record` turns
its error into a failure through `HumanError` and cancels the test's context,
`ExpireTest` is the timer of `withTimeout`, armed only when the limit is
positive. A test is what its `Run` function in `tests.go` can hand back
(`Outcomes`): it may succeed, fail by itself or by a deadline of an inner call,
and when its context has ended return that error, return nil with what it has
(`Unfailing`), or return nil with nothing at all (`Rows`, the speed test with no
row yet). `Noted` is the ip test, which notes a failed RDAP lookup next to its
section. `Select` is `Registry.Select` for IDs that exist; an unknown ID is
refused before a run and changes nothing.

### Session

`pc` follows the main goroutine: `menu`, `profile`, `domain` (prompts), `start`,
then `runTests`: `run`, `json`, `md`, `verdict` (the evaluation of
`sigCtx.Err() == nil`) and `defers`. A signal is put into the channel of every
registered handler or, with none registered, kills (`Signal`); the goroutine of
`NotifyContext` cancels (`CancelBySignal`); the watcher calls `stop`
(`Restore`). These are three actors, and each is indexed by the run it belongs
to, so that an old watcher can act during a later run. What `opts` remembers is
the run whose prompts gave the domain and the nodes; the answer itself is data.

### WorkerPool and ParallelMap

One module for five copies of the same code. The goroutine of a job goes through
`blocked`, `working`, `stored`, `counting`, `counted`, `unlocked`, `released`,
`gone`; the two steps of `done++` under the mutex are apart so that dropping the
mutex would be seen. The deferred calls run in reverse: the place of the
semaphore first, the wait group last. `judged` chooses between the callers that
look at `ctx.Err()` after the wait (blocking) and those that do not. Jobs that
return their rows in the order of declaration have a constant `Rank`.
`ParallelMap` is the promise: answers appear one by one, progress never runs
ahead of them nor jumps, and what is delivered is complete and ordered, and for
a judging caller never contains an answer that was cut.

### Reachable

The channel is a set because the order of the sends is arbitrary. `Receive`
includes the first line of `mark` (the answer is noted); `Advance` is one turn
of its loop over the known prefix, `Marked` its end. `host` is the set of
candidates that are alive; a live one may still be reported silent when a
context cuts its probe. `Return` includes the deferred cancel, after which the
remaining probes fail and send into a channel nobody reads.

### SpeedWindow

`now` is the monotonic clock in ticks, `Wall` the wall clock the snapshot is
taken with (`time.Unix` carries no monotonic reading), `back` how far it was
set back. A transfer moves the counter one unit at a time and may be broken by
its own failure or, once the context has ended, be cut. A completed upload
counts for its share what it announced although the counter has what was read,
as the code does. `adrift` is what is left of the bodies of uploads that have
returned: `net/http` does not wait for the goroutine that writes the body when
the server answers early or the context ends, so the counter may still grow
(`Drift`), even after the caller has read it (`missed`). The two stores of the timer's callback and the two reads of
the caller are four actions, in the order of the code. `Compute` is the choice
between the part after the warm-up, the whole window, and an error.

### Probe and Blocking

`pc` is the position of `probe`: `lookup` and `resolve` (the two resolvers of
`dns`), `dial` (`transport`, up to two addresses), `handshake` (`attempt`),
`request` and `headers` (`fetch`), `extend` and `read` (one turn of `drain`: set
a deadline, read a piece), `done`. The record `net` is a history of what the
network did, kept apart from what the probe concluded in `res`; `Truth` reads
the verdict off `net` alone, in the order of the steps, and the properties
compare the two. A step under an ended context may be cut instead of answered;
then `net` is left alone, because the network was not asked. Time runs only
while the probe waits in a call on the connection (`Tick`): DNS, dialling and
handshake have a timeout each that is one of their outcomes. `deadline` is
shared by the probe, which moves it for the request and for each piece, and by
`Cut`, the callback of `context.AfterFunc`, a goroutine of its own. Two
independent resolvers are asked in turn; a silent one uses up the time of both,
since `dnsTimeout` is the timeout of one request as well as of the look-up.

`Judge` is the rest of `run` after `wg.Wait()`: `ctx.Err()`, the control hosts,
`verdict` per service. The probes share nothing but the context, and that they
are all joined is `WorkerPool`; so one probe is followed step by step, as a
control host or as a member of the service, and the others are any status.

### SpeedNodes

`pc` names the step: `resolve`, `user`, the `loop` over the nodes, then for a
node `fetch`, `pause`, `list` (`fetchServerList`), `reach` or `byID`
(`pickServers`), and `try`, `ping`, `endpoints`, `upload`, `download` for each
candidate; `cf...` are the steps of the other method. A server is a record of
its place and of the step it fails at; `given` keeps what speedtest.net gave, for
the properties. `Targets` is what of a list is chosen from: for the nearest node the
library picks one server (`FindServer` without IDs), which stands for the list.
`reachable` and `measureWindow` are one step each: their inner
steps are `Reachable` and `SpeedWindow`. Time passes while the goroutine waits,
and `NodeEnded` is the end of the node's context, by its own timeout or by one
above it. A window that an ended context cuts may still have a speed; one that
begins under an ended context (`dead`) has none. The mutex of the server list is
not a variable, since the tests of a run follow each other; `lastList`, which it
guards, begins with any value, left by an earlier run.

### Icmp

`ping` holds the goroutine of each anchor (`icmp` before a request, `await`,
`tcp`, `done`), `trace` the one of `Traceroute`. `flight` are the answers on the
way; `Deliver` hands a packet to everyone who listens, and `AwaitReply` and
`AwaitHop` are the conditions of the two loops that wait. A datagram socket hears
its own answers alone, a raw one everything, also packets for other programs
(`Strangers`). `wait` is the deadline, set once before the loop. `delay` is what
an answer may take on this network, shorter or longer than the probes wait.
`mistaken` records each answer taken for that of another probe. `TraceOver` is
any end of a trace. `ToolOutput` is what the system's tool printed, with rows for
hops that kept silent. A cached ASN is reused by later traces; a failed number is
not cached, a failed name is.

### Rdap and Ip

`at` is the next step of the test under way, or of the run; a test that is
deselected is skipped (`BeginTest`). `LookupGeo` is called by the header of the
system test, the ip test and the blacklist test; `lookup.back` is the step after
the call. The memo has one entry per version, which is the key the callers use,
and lives as long as the process (`NextRun` leaves it). `ProviderAnswers`,
`ProviderMalformed` and `ProviderFails` are the turns of the loop over the
providers. `Resolved` is the ip test's end of address look-ups, `FetchRDAP`,
`NoRDAP`, `AskWhois` and `WhoisFallback` its record. Each zone's goroutine is one
step, `QueryZone`, in any order; its addresses are codes of the list, refusals, or
any other, as of a resolver that rewrites names that do not exist. `cut`, the end of the test's context, may come at
any moment of a test.

`Rdap` has what is read out of an answer (`Record`) and out of the lines of the
whois program (`WhoisRecord`): the dates, the maintainers left out, the first few
entities, remarks and the registry. The values are opaque.

### WhoisText and Whois

An input is a sequence of tokens; `Normalize` cuts scheme, user, path, port and
`www` off in the order of the code. `SiteInfo` reads the rows of a page,
`ParseRaw` the lines of an answer, `Refer` the server it points to (a pointer of
several words, in `Phrases`, is passed over), `Merge` fills in field by field what the first
source left empty, but takes a contact as a whole. In `Whois`, `at` is the next
step of `Lookup`: the page, IANA (`root`), the `chain`, the `dns` records. Any
request may fail at any time, which is also how an ended context shows itself
here, because no step of `Lookup` looks at the context by itself. The answers of
the chain are glued into one text and parsed at its end, as in the code; the
property compares with each answer parsed alone.

## 3. The runs

| run | asks | answer |
|---|---|---|
| `session` (`MCSession.cfg`) | two runs of one process, up to two signals and all timeouts at any moment | holds |
| `session_silent` (`MCSessionSilent.cfg`) | does every test that started leave a section or a failure? | no, finding 2 |
| `pool` (`MCWorkerPool.cfg`) | three jobs on two places, context ending at any moment | holds |
| `picker` (`MCReachable.cfg`) | four candidates, every set of live hosts, every order of answers | holds |
| `window` (`MCSpeedWindow.cfg`) | two streams, both directions, deadline, warm-up, clock set back, uploads read on after their return | holds |
| `blocking` (`MCBlocking.cfg`) | one endpoint, every network, every deadline, context ending at any moment | holds |
| `blocking_controls` (`MCBlockingControls.cfg`) | is a control host that answers counted as one? | no, finding 1 |
| `speednodes` (`MCSpeedNodes.cfg`) | every kind of node, lists with a fault at every step, contexts ending anywhere | holds |
| `network` (`MCIcmp.cfg`) | two pings at once, then two traces, with answers late, lost or foreign | holds |
| `ip` (`MCIp.cfg`) | two runs, disagreeing and failing providers, RDAP and zones | holds |
| `whois` (`MCWhois.cfg`) | pasted links, pages, chains that loop or break | holds |
| `whois_link` (`MCWhoisLink.cfg`) | does every link give its host? | no, finding 3 |

Five further configurations check one comment of the code each, which TLC refutes:
`MCSpeedWindowSnapshot`, `MCWhoisAvailable`, `MCWhoisPartial`, `MCWhoisNotes` and
`MCIpListing` (section 5).

**session.** `Accounted`: the report lists the started tests in order, a test that
is over has a section or a failure and never both, and an abandoned run names
the test it stopped at. The speed test is let out of the first half: cut before its
first row it leaves neither (`NoneSilent`, finding 2). `LateStarts`: at most one test of a run starts under an
ended context. `PromptsKillable`: no handler at a prompt, whatever the watchers
of earlier runs still have to do. `OneSignalKeepsReport`: a run is killed by a
second signal only, otherwise every requested file is tried.
`EndsOnRequestOnly`: no timeout ends the menu. `OwnAnswers`: prompts of one turn
do not leak into the next. `RunnerSpec`: what the session does to the runner's
variables is a behaviour of the runner's own specification (a refinement with
the identity mapping), so what is proved of `Runner` holds in the session.
`SecondSignalKills` and `RunEnds` are the liveness.

**pool.** `ImplementsMap` is the refinement of `ParallelMap`; `Bounded` and
`NoStragglers` are about what the promise hides: the bound, and that nobody is
left who could still write. `PoolEnds`: the semaphore and mutex lose nothing.

**picker.** `FirstAlive` compares with waiting for everybody; `EarlyExit` says
the caller is not kept waiting by a slow tail; `ReturnsClean` says it returns
and every probe, also the unread ones, ends.

**speednodes.** `WholeTable`: when the time left covers the nodes, the table has
a row for each of them, in order and once, whatever fails. `ListGapKept`: two
requests for the list are never closer than the gap, over retries, cut pauses,
nodes and the run before. `FailedAfterAll`: the row of a node is the best of its
candidates that works, and a failed row means that none did (the nearest node has
one candidate, so nothing stands in for it when it is dead); "best" and
"candidate" are counted afresh over the list, by rank, and not with the helpers of
the model.

**network.** `OwnReplies`: a ping counts the answer of its host to its own
request. `TruthfulHops`: a hop of a trace is the router at that distance; where an
answer can come later than a probe waits, it may be a late answer to a probe of
the same number (section 5), but none moves along the way. `ProbesEnd`: foreign
packets do not keep a probe waiting.

**ip.** `AskedOnce`: over all tests and runs no provider is asked twice for the same
version. `OneMachine`: header, section and blacklist of a report name one IPv4
address, and a note says that a record is missing exactly where it is.
`NoFalseVerdict`: no failed zone is clean, no refusal is clean or a listing, and the
total counts the zones that answered with addresses, no refusal among them.
`ListedByCode`, that these addresses are codes of the list, does not hold.

**whois.** `ChainKeeps`: the chain ends, asks none of its servers twice, keeps what it
received and names it; that a server refers back to IANA, which is asked before the
chain begins, makes IANA be asked again. `FirstSourceWins`: each field with one value
is that of the first source that has it; status and name servers are lists that add
up. `EssentialsKept`: no registrar, date of registration, name server or "free" that
any source gave is lost, wherever the chain broke. That is less than the comment of
`Lookup` says, which is `ErrorMeansNoData`. `HostOfLink`: what is looked up is the
whole host of the link, but for a leading "www". The host is defined by the grammar
of links (`IsHost`: behind the scheme and the user, before path or port, never in
the path) and not by the cuts of the code. It holds of a `PlainLink`, one scheme and
one user at most with neither mark in the path; `LinkGivesHost`, without that
condition, does not hold.

**window.** `CountsTransfers` (no transfer is under way when the counter is read; the
total lacks only what the transport still reads of uploads that have returned),
`BudgetBounded` (the exact overshoot: share plus one transfer less a byte per stream,
what the transport reads on included), `SpeedFromData` (positive bytes over
positive time, and a speed whenever enough data moved), `EndIsNoError`,
`WindowEnds`.

**blocking.** `TableTellsTruth` is the point of the package: whatever is in a
table is what the network did, also after a second address, a lie of the
resolver, or a context that ended while the probe was on its way (a cut probe
looks like a blocked one; `run` must not use it). `FairVote`: a service is
blocked or throttled only if no endpoint answered, ok only if none was held up,
and a failed check has no vote. `StallIsCaught`: silence is noticed within the
idle time and request and body end within their two limits, although the
deadline is set anew for every piece. `JudgementComes`: the test ends.

### Bounds

- `MaxRuns = 2`: everything that crosses from one run to another (watcher,
  queued signal, options) is between a run and its successor. `MaxSignals = 2`:
  the code tells the first signal of a handler from the next, no more.
  `MaxPick = 2` of four tests, one of each way to end; whole-registry runs come
  from the flag configurations, one of which repeats an ID. The four command
  lines vary menu or flags, limits on or off, domain and speed flags, outputs.
- `N = 3`, `Limit = 2`: one job has to wait for a place; two can meet at the
  mutex while a third waits. Three answers: two with equal rank.
- `N = 4`, `Want = 2`: an early exit with unread answers, a gap of a silent
  candidate before, between and after the picked ones, and too few live ones.
- Window of two ticks with one of warm-up: all data before, after and around
  the snapshot. `Chunk = 2` and `PerStream = 2`: a download of part of a chunk
  leaves a share that the next transfer overshoots. `Least = 2` is between one
  and the most bytes that can be moved. `Jump = 2` sets the wall clock back by
  as much as the window is long. `Horizon` ends the clock when the context of
  the window has ended by itself.

- `RespTimeout = 2`, `IdleTimeout = 2`, `Window = 4`, `Cap = 4`, `RateMin = 2`,
  `SlowRate = 1`: a body can be whole and fast, whole and slow, cut by the
  window while it drips, stalled before and after the first piece, or longer
  than is read; the last idle time before the end of the window is cut short by
  it. `MaxAddrs = 3`: a third address is there and not tried. `Siblings` has
  one member, which with the followed one makes every mix of two votes. The
  clock stops at `Horizon`, past every deadline.

- `TestTimeout = 6`, `NodeTimeout = 2`: two nodes may take all their time with some
  to spare, three may not. `Gap = Retry = 1`, `Attempts = 2`: one retry, with the
  pause cut by the node's timeout or not. The sets overlap, an ID occurs twice, and
  one part is unknown; each list has servers for one or two of the faults, and more
  than `Limit` or `Want` take.
- Two anchors and two targets: answers of another anchor, of an earlier trace, and
  of the router both ways share. `Count = 2`, `MaxHops = 3`: an earlier and a later
  request, and a hop past the target. Timeouts of one tick and `Delays` 0 and 1:
  a network whose answers come in time, and one where an answer reaches the next
  probe. `Noise` has both kinds of packet with the numbers in use.
- Two providers, two endpoints, two zones, two runs: an earlier and a later one of
  each. Two addresses of IPv4, so that providers can disagree. Each set of the three
  kinds of address a zone can answer with.
- `Hosts`: a registry, a registrar and the host of the default name; with
  `MaxHops = 3` of the code a chain can loop, be longer than the limit, and break
  at each place. The pages and texts have all, some or none of the fields, in
  conflict with each other, one has a status and an expiry only, one a pointer of
  several words; links have an "@" before the host, in the path, or none. `Counts` has no record and more than are shown.

`CHECK_DEADLOCK FALSE` is in every configuration because all the models are of
computations that end: the process exits, and each test returns.

### Fairness

The Go scheduler runs every goroutine that can run, and timers that are armed
fire: weak fairness of the main goroutine's steps, of each other goroutine, of
the clock and of `ExpireTest`. A call under a context that has ended returns:
every network call of the program is made with the context or a deadline set
from it. Nothing obliges a test to return before, a user to answer, a signal to
come, a transfer to complete or a host to answer. `SecondSignalKills` does not
use the fairness of tests: it is for a test that ignores its context. In the
pool and the picker each job ends by a timeout of its own, which is what the
timeouts in the five callers are for. In `Blocking` the steps of the probe that
end by a timeout of their own (look-ups, dial, handshake, and the reads at their
deadline) are fair; that a server answers or sends more is not. In `Icmp` the clock
and the goroutines go on; no answer is owed. `SpeedNodes`, `Ip` and `Whois` are
checked for safety only: each is one goroutine that goes from one request to the
next and ends because every request does, so termination would only restate the
fairness assumed.

## 4. The proofs

Every safety property of the passing runs is also a theorem, for every value of the
constants, from the assumptions named in the modules:

- `RegistryAssumption`: the registry is a sequence without repetition;
  `SessionAssumption`: command lines are of their type.
- `PoolAssumption`: at least one place, `Rank` on the answers; `PickAssumption`:
  naturals.
- `WindowAssumption`: finitely many streams, at least one; positive lengths, and
  naturals for the budget and the jump of the clock.
- `NodesAssumption`: node sets, flags and server lists are sequences of their type;
  the default set exists and IDs are no names; positive limits, and a first retry
  pause no shorter than the gap.
- `ProbeAssumption`: positive limits; `SiblingsAssumption`: finitely many.
- `IcmpAssumption`: paths end at their targets; `IpAssumption`: addresses are strings
  other than the marks of the memo.
- `WhoisAssumption`: inputs, pages and texts are sequences of their tokens, rows and
  lines; the host of the default name is one, and the empty host is none.

TLC evaluates each of them on the runs of its module.

### Runner and Session (`Session_proofs`)

- `TypeCorrect`; `AtMostOneLateStart`, whose invariant adds that a late start is the
  present one or the context is still seen ended at the head; `ReportAccounts`, whose
  invariant adds what is known about each position before the loop (the failures and
  sections of tests not yet reached are empty, which needs the selection to be without
  repetition, and the note of the RDAP lookup is no test).
- `SessionInvariant` says that a registered channel belongs to the present run and to a
  phase inside it, that a handler has gone only after a cancel, a cancel before the
  deferred calls only after a queued signal, and a queued signal only after a hit; that
  chain is what makes `OneSignalKeepsReport` inductive. `PromptsAreKillable` and
  `ReportSurvivesOneSignal` follow. `MenuOutlivesTests` adds that a run found interrupted
  has met a signal, and that the menu was left by the user or after such a run.
- `SessionImplementsRunner`: the refinement. Each step of the session is one of the
  runner's or leaves its variables alone; `Call` is where it could fail, because the
  runner asks for a selection, and that `Select` and the dropping of whois give lists
  of registered tests without repetition is a lemma about `Kept`. `SessionAccounts`
  carries the runner's theorems over. `SessionTypeCorrect` is the type invariant of
  the whole process. `AnswersAreOwn`: a selected test that needs an answer has the
  one of the prompts of its own run, or whois was dropped.

### Pool, picker, window

- **WorkerPool**: `PoolInvariant` ties the counters to the places of the goroutines:
  `wg` and `sem` are cardinalities of sets of jobs, the holder of the mutex is the only
  one that counts and has read the present count, `done` is the number of those past the
  count. From it `PoolIsBounded`, `PoolLeavesNobody`, and `PoolImplementsMap`: initial
  states map to initial states and each step to a step of `ParallelMap` or a stutter.
- **Reachable** (`Speedtest_proofs`): `PickInvariant` says `chosen` is exactly the
  answering part of the prefix below `next`, in order, and that what is unanswered is
  still pending. From it `PicksFirstAlive` and `NoNeedlessWait`.
- **SpeedWindow**: `EndOfWindowIsNoFailure` needs only that the errors of the end are
  sorted out where they are stored. `TransfersAreCounted`: the wait group is the number of
  streams not yet through, so when the caller is past the wait there is none, and from
  the reading on the total and what is missed make up the counter.
  `SpeedsComeFromData`: the bytes after the snapshot are no more than all, and a part
  that is used has a positive time. `BudgetIsKept`: the bytes moved and adrift are bounded by the
  sum of what each stream has put on its share, which never shrinks. The sum over an
  arbitrary finite set of streams is not a recursive operator but "a number no greater
  than the last of some partial sums", kept along an enumeration of the streams
  (`NoMoreThanSum`); with each share below its limit, so is the sum.

### Speed test nodes (`Speedtest_proofs`)

- `GapIsKept`: `GapInv` says the last request is not in the future, and that a pause
  under way ends no earlier than the gap after it: before a retry it is counted from the
  present, which is never before the last request, and the retry pause is no shorter
  than the gap.
- `TablesAreWhole`: the time of a table is cut into slots. `InTime` says that the loop
  reaches node `i` after at most `i - 1` timeouts, and that inside a node no more than
  one has passed; so while the total covers the nodes the loop does not meet the end of
  the test. That the nodes are those of the flag, each once, is a lemma about
  `ResolveSet` (`ResolveSetUnites`).
- `NodesFailAfterAll`: the property counts how many servers are better than one; the
  code filters, concatenates and cuts lists. `InLine(e, s)` joins them: `s` holds servers
  of the list at the places `e`, the better ones first. Filtering (`KeptInLine`), cutting
  (`FirstInLine`) and joining (`OneLine`) keep a line, the three places give a line of
  everyone (`ByPlaces`), and in a line the place of a server is the number of its
  betters plus one (`CountLine`, `BetterInLine`); so what `reachable` hands on are the
  candidates and no other (`ReachedAre`). `QueueInv` then says that while the time of a
  node lasts, what is left to try is a line that has every candidate that works: one is
  dropped only when it is dead or has failed.

### Censorship probe (`Blocking_proofs`)

`ClockInv` says a waiting probe has not passed its deadline and that no deadline, the
callback's included, is later than the limits allow; `StallsAreCaught` follows.
`VerdictInv` says that as long as the context lives the probe knows what the network
did, phase by phase (`NamePhase`, `DialPhase`, `OpenPhase`: what is settled, what is
still untouched, which deadline is set), so that each end of the probe writes the truth;
a table is built only if the context lived until all probes were done, hence
`TablesTellTruth`. `FinishTells` carries the rule that a lie of the resolver comes first.
`ServicesAreJudgedFairly`: every verdict of a probe is one of four statuses, and a
counter is positive if and only if its status occurs.

### Pings and traces (`Icmp_proofs`)

`RepliesAreOwn`: a reply on its way comes from the host it was asked of and bears that
request's number, a request in flight to a waiting anchor with the awaited number is the
awaited one, no trace packet exists before the pings are over, and nobody on TCP reads.
`HopsAreTruthful`: what is in flight during a trace is an echo of a request or an answer
from the way to some target with that answer's number; when answers come in time, the one
in flight belongs to the probe under way and arrives before its deadline, so none is left
over when a deadline is reached.

### Own address (`Ip_proofs`)

`ProvidersAskedOnce`, whose invariant says that as long as the memo has no entry a
provider was asked only if the present call is past it; `ReportOfOneMachine`, whose
invariant ties what a call returned, and each of the three places of the report, to the
memo, which once filled does not change; `VerdictsAreTold`, for each zone's status and,
with it, for the total.

### Domain whois (`Whois_proofs`)

- `ChainIsKept`: `ChainInv` follows the chain (nobody is asked who was asked before, the
  answers are those of the hosts asked, and what is received stands in the order of the
  questions).
- `FirstSourceIsKept` and `EssentialsAreKept`: `InfoInv` adds that the record `Completes`
  what the page said, source by source. The heart is about the text: the code glues all
  answers into one and parses that, the property speaks of each answer by itself. What a
  loop over lines leaves behind is `Result`, by induction over the numbers of its turns;
  `OneAfterTheOther` says that reading the glued text is reading the parts one after the
  other, each field staying with the first that has it, with the comments that are glued
  between the answers saying nothing.
- `HostIsLookedUp`: each cut of `Normalize` leaves a `Piece` of the input that begins
  where `StartOf` says, and after all cuts the piece is whole up to one of `Ends`. In a
  plain link no path has begun where that piece begins and no scheme or user follows it
  before a path does (`StartIsPlain`), which makes it the host of the grammar.

### What stays with TLC

The liveness properties and what they assume of fairness (`SecondSignalKills`, `RunEnds`,
`PoolEnds`, `ReturnsClean`, `WindowEnds`, `JudgementComes`, `ProbesEnd`), which the prover
does not reach; so do the properties that are expected to fail (section 5). What is
read out of an RDAP record (`Rdap`) is evaluated by TLC only: no theorem needs more of it
than that it is a record of the address asked for.

Induction over the turns of a loop is not written with the library's induction theorems,
which take an operator as a parameter: `AllNumbers` (`Speedtest_proofs`) and its like
say that a set with 0 and all successors has all numbers, from the well-foundedness
of <. What a loop does is therefore a set of numbers of turns, and the loop a recursive
function. The type invariants that no configuration lists (`PoolTypeOK`, `WindowTypeOK`,
`NodesTypeOK` and so on) document the variables; what of them is needed is part of the
inductive invariants.

## 5. Findings

1. `blocking_controls`: the comment of `Run` (`blocking.go:153`) says an error is
   returned only if no control host answered. A control host whose name the
   system resolver falsifies is probed at its true address and may answer; its
   result is then overwritten with "blocked" at line 218 and does not count, so
   a server with falsified DNS gets the error of one without outgoing HTTPS.
2. `session_silent`: the comment of `Failure` (`model.go:49`) says no failure may be
   lost silently. A speed test whose context ends before its first row returns an
   empty table and no error (`speedtest.go:178`), and the test returns that nil
   (`tests.go:102`): neither a section nor a failure.
3. `whois_link`: the README (lines 59, 195) and `whois.go:154` say a pasted link gives
   its host. `Normalize` cuts at the first "@" before it cuts the path:
   "https://example.com/@name" looks up "name".

Comments of the code that a configuration of this directory refutes in the same way:

- `MCSpeedWindowSnapshot.cfg`: the comment above `timer.Stop()` (`speedwindow.go:105`)
  says the snapshot cannot fire between the reads. `Stop` does not wait for a
  callback that has begun; its two stores can fall between the reads. The
  window then divides all bytes by the time after the warm-up.
- `MCWhoisAvailable.cfg`: the comment of `DomainInfo.Available` (`model.go:375`) says the
  other fields are empty. `parseRaw` looks for the phrases of a free domain in
  the whole text, comments and legal notices included, and goes on reading; a
  registered domain whose registry has such a phrase in a comment is printed as
  available and nothing else.
- `MCWhoisPartial.cfg`: the comment of `Lookup` (`whois.go:31`) says an error is returned
  only if there is no data at all. It is returned unless there is a registrar, a
  date of registration, a name server or the word that the domain is free; expiry,
  status, contacts, raw text and DNS records are dropped with it.
- `MCWhoisNotes.cfg`: `Notes` are the sources that did not answer (`model.go:393`). A
  server of the chain that fails after another has answered is in none
  (`port43.go:83`).
- `MCIpListing.cfg`: the comment of `blacklist.go:20` says an answer 127.0.0.x is a
  listing. `queryZone` takes any address that is no refusal for one, also that of
  a resolver which rewrites names that do not exist.

Smaller disagreements met on the way, which no configuration is spent on:

- The comment of `humanError` (`runner.go:150`) says "interrupted" is the user's
  Ctrl+C. When `-timeout` runs out between two tests, `Run` (line 177) notes the
  next test as "interrupted" with no signal (`Interrupt` in `Runner`).
- The comment of `PrintFailures` (`text.go:611`) says a missing section is found in
  the notes; `Run` notes only the first of the tests it leaves out.
- The comment in `fetch` (`blocking.go:317`) says the callback spares Ctrl+C the wait
  for the reading window; the next deadline the probe sets (lines 335, 405)
  overwrites the one of the callback, which runs once.
- `awaitHop` (`trace.go:179`) compares neither sender nor destination, and all
  probes of the process share the ID and count from small numbers: a reply to a
  ping, or of the trace before, that arrives later than its probe waited can be
  taken for a hop of the next trace and, if it is a reply, ends it (`LateHop`).
- A scheme in a query ("example.com/?u=https://other.com") is taken for the scheme of
  the link by `Normalize` (`whois.go:155`), as an "@" in the path is for a user.
- The comments in `cfTransfer` (`speedcf.go:217`) and `ooklaTransfer`
  (`speedookla.go:188`) say that `zeroReader` has counted the body of an upload by
  then. When the server answers early the rest is still with the transport, which may
  count it later (`Drift`), and the share of the stream gets the announced size.
- `pickServers` (`speedtest.go:262`) chooses two of up to six servers for the nearest
  node, but `FindServer` without IDs (line 258) returns one: when that one is dead,
  none stands in for it.

## 6. Not modelled

- Rendering, file formats and host information: pure output and input, without
  an order or a failure that matters.
- The checks of single streaming services (`unblock/checks.go`): each classifies the
  answers of one third-party site by status and words of the page and keeps no
  state; the pool that runs them and turns a panic into a status is `WorkerPool`.
- The benchmarks: arithmetic kernels are data, and the disk test is one goroutine
  around file system calls.
- HTTP client configuration: a library's, relied on only for ending a request.
- The install script: downloads and copies without state that survives it.
- The parsing of flags and of a menu line into IDs: a list chosen freely here.
- Wording, spellings of whois keys, date layouts, IDNA, JSON and vCard decoding:
  reduced to small alphabets in `WhoisText` and `Rdap`.

## 7. Plan

Done, in the order of weight: `Runner` and `Session`, in which everything runs;
`ParallelMap`, `WorkerPool`, `Reachable`, `SpeedWindow`, the concurrency shared by most tests;
`Probe` and `Blocking`; `SpeedNodes`; `Icmp`; `Rdap` and `Ip`; `WhoisText` and `Whois`; the
proofs above.

Left:

1. `DiskTest`: size choice in 64-bit arithmetic, runs, temporary file, kill.
2. `MenuInput`: the parsing of the answers of `Menu`, `Ask`, `Choose`.
3. `Icmp` with traces under way while a next run's pings begin: the late answers of
   one run in another.
4. Proofs: that what `Rdap` reads from an answer is what the answer says, with its
   selections as loops.
