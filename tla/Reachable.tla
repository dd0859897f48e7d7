------------------------------ MODULE Reachable ------------------------------
(***************************************************************************)
(* internal/netcheck/speedtest.go, reachable and prefixPicker: one probe   *)
(* goroutine per candidate server asks its host and sends the answer into  *)
(* a buffered channel; the caller takes answers as they come and keeps the *)
(* first `want' candidates that answer, first in the order of the list and *)
(* not of the arrivals, and returns without the answers it does not need.  *)
(* The order of the channel is the order of the sends, any order at all,   *)
(* so the channel is the set of the answers in it.                         *)
(***************************************************************************)
EXTENDS Integers, Sequences, FiniteSets

CONSTANTS
  N,    \* number of candidates
  Wanted  \* how many are wanted

Candidates == 1..N

ASSUME PickAssumption == N \in Nat /\ Wanted \in Nat

VARIABLES
  host,      \* the candidates whose host answers, never changed
  main,      \* the caller: "collect", "mark" or "returned"
  pending,   \* answers the loop still counts on
  probe,     \* where the goroutine of each candidate is
  ok,        \* err == nil of a finished probe
  results,   \* the candidates whose answer is in the channel
  state,     \* what the picker knows of a candidate
  next,      \* the border of the prefix the picker is through with
  chosen,    \* the candidates picked
  canceled,  \* the deferred cancel of pctx has run
  ended      \* the caller's own context has ended

pickVars == <<host, main, pending, probe, ok, results, state, next, chosen, canceled, ended>>

PickTypeOK ==
  /\ host \subseteq Candidates
  /\ main \in {"collect", "mark", "returned"}
  /\ pending \in Nat
  /\ probe \in [Candidates -> {"asking", "sending", "gone"}]
  /\ ok \in [Candidates -> BOOLEAN]
  /\ results \subseteq Candidates
  /\ state \in [Candidates -> {"unknown", "answers", "silent"}]
  /\ next \in 1..(N + 1)
  /\ chosen \in Seq(Candidates) /\ Len(chosen) <= Wanted
  /\ canceled \in BOOLEAN /\ ended \in BOOLEAN

PickInit ==
  /\ host \in SUBSET Candidates
  /\ main = "collect" /\ pending = N
  /\ probe = [c \in Candidates |-> "asking"]
  /\ ok = [c \in Candidates |-> FALSE]
  /\ results = {}
  /\ state = [c \in Candidates |-> "unknown"]
  /\ next = 1 /\ chosen = <<>>
  /\ canceled = FALSE /\ ended = FALSE

FullTooLate == Len(chosen) > Wanted
Full == Len(chosen) >= Wanted

-----------------------------------------------------------------------------
(* The goroutine of candidate c *)

(* netutil.Get: a silent host fails it, by the five seconds at the latest; *)
(* a host that answers can still be cut off when pctx has ended.           *)
Ask(c) ==
  /\ probe[c] = "asking"
  /\ \E answer \in BOOLEAN :
       /\ answer => c \in host
       /\ ~answer => c \notin host \/ canceled \/ ended
       /\ ok' = [ok EXCEPT ![c] = answer]
  /\ probe' = [probe EXCEPT ![c] = "sending"]
  /\ UNCHANGED <<host, main, pending, results, state, next, chosen, canceled, ended>>

OnePlace == 1
Capacity == N

(* results <- probe{i, err == nil} *)
Send(c) ==
  /\ probe[c] = "sending"
  /\ Cardinality(results) < Capacity
  /\ results' = results \cup {c}
  /\ probe' = [probe EXCEPT ![c] = "gone"]
  /\ UNCHANGED <<host, main, pending, ok, state, next, chosen, canceled, ended>>

-----------------------------------------------------------------------------
(* The caller *)

(* p := <-results; the first line of picker.mark *)
Receive(c) ==
  /\ main = "collect" /\ pending > 0 /\ ~Full
  /\ c \in results
  /\ results' = results \ {c}
  /\ pending' = pending - 1
  /\ state' = [state EXCEPT ![c] = IF ok[c] THEN "answers" ELSE "silent"]
  /\ main' = "mark"
  /\ UNCHANGED <<host, probe, ok, next, chosen, canceled, ended>>

BorderAnyway == next <= N /\ ~Full
BorderKnown == next <= N /\ state[next] # "unknown" /\ ~Full

AdvanceOnce == "collect"
Looping == "mark"

(* One turn of the loop of mark. *)
Advance ==
  /\ main = "mark" /\ BorderKnown
  /\ chosen' = IF state[next] = "answers" THEN Append(chosen, next) ELSE chosen
  /\ next' = next + 1
  /\ main' = Looping
  /\ UNCHANGED <<host, pending, probe, ok, results, state, canceled, ended>>

Marked ==
  /\ main = "mark" /\ ~BorderKnown
  /\ main' = "collect"
  /\ UNCHANGED <<host, pending, probe, ok, results, state, next, chosen, canceled, ended>>

(* The loop is over; the deferred cancel stops the probes left. *)
ReturnPicked ==
  /\ main = "collect" /\ (pending = 0 \/ Full)
  /\ main' = "returned" /\ canceled' = TRUE
  /\ UNCHANGED <<host, pending, probe, ok, results, state, next, chosen, ended>>

(* The time of the node is over, or the run is interrupted. *)
EndContext ==
  /\ ~ended /\ main # "returned"
  /\ ended' = TRUE
  /\ UNCHANGED <<host, main, pending, probe, ok, results, state, next, chosen, canceled>>

PickMain == Advance \/ Marked \/ ReturnPicked \/ \E c \in Candidates : Receive(c)
Goroutine(c) == Ask(c) \/ Send(c)

PickNext == PickMain \/ EndContext \/ \E c \in Candidates : Goroutine(c)

(* The scheduler runs every goroutine; a probe ends by its own timeout. *)
Fairness == WF_pickVars(PickMain) /\ \A c \in Candidates : WF_pickVars(Goroutine(c))

PickSpec == PickInit /\ [][PickNext]_pickVars
FairSpec == PickSpec /\ Fairness

-----------------------------------------------------------------------------
(* Properties *)

Picked == {chosen[k] : k \in DOMAIN chosen}

InOrder == \A j, k \in DOMAIN chosen : j < k => chosen[j] < chosen[k]

(* Whatever order the answers come in, the result is what waiting for all  *)
(* of them would give: live candidates in the order of the list, and one   *)
(* that is left out has `want' better ones before it.  Only an ended       *)
(* context may cost candidates, and never brings in a silent one.          *)
FirstAlive ==
  main = "returned" =>
    /\ InOrder
    /\ Picked \subseteq host
    /\ ended \/ \A c \in host \ Picked : Full /\ \A p \in Picked : p < c

(* The caller does not wait for an answer it does not need: once the known *)
(* head of the list holds `want' candidates that answer, the picker is     *)
(* full, however late the rest of the list is.                             *)
EarlyExit ==
  main = "collect" =>
    \A n \in Candidates :
      /\ \A c \in 1..n : state[c] # "unknown"
      /\ Cardinality({c \in 1..n : state[c] = "answers"}) >= Wanted
      => Full

(* reachable returns, and it leaves no goroutine behind: a probe whose     *)
(* answer nobody reads any more still finds a place in the channel.        *)
ReturnsClean ==
  <>(main = "returned" /\ \A c \in Candidates : probe[c] = "gone")

=============================================================================
