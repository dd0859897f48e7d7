----------------------------- MODULE MCSession -----------------------------
(* A registry of four tests, one of each way to end, and the command lines *)
(* that differ in what the session does with them.                         *)
EXTENDS Session

MCTests    == {"speedtest", "ip", "unblock", "whois"}
MCRegistry == <<"speedtest", "ip", "unblock", "whois">>

Menu == [interactive |-> TRUE, list |-> <<>>, domain |-> FALSE, speedFlags |-> FALSE,
         limited |-> TRUE, budget |-> TRUE, outputs |-> {"json"}]

MCConfigs ==
  {Menu,
   [Menu EXCEPT !.domain = TRUE, !.speedFlags = TRUE, !.limited = FALSE, !.outputs = {}],
   [Menu EXCEPT !.interactive = FALSE, !.outputs = {"json", "md"}],
   [Menu EXCEPT !.interactive = FALSE, !.list = <<"whois", "ip", "whois">>, !.budget = FALSE]}

=============================================================================
