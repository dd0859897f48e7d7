------------------------------- MODULE MCWhois -------------------------------
(* A registry and a registrar that may refer to each other, themselves or  *)
(* nobody, and pages with all, some or none of the fields.                 *)
EXTENDS Whois

L(block, key, value) == [block |-> block, key |-> key, value |-> value]
R(block, key, vals)  == [block |-> block, key |-> key, vals |-> vals]

MCCalendar == [spelled1 |-> "day1"]
MCHostOf == [REG |-> "reg", form |-> "reg"]

MCInputs ==
  {<<"://", "example", "tld", ":", "/", "x">>, <<"example", "tld", "@", "www", "domain", "tld", "?">>,
   <<"https", "://", "example", "tld", "/", "@", "domain", "tld">>,
   <<"www", "tld">>, <<"example", "tld", "#", "a">>, <<"exa mple", "tld">>}

MCTexts ==
  {<<>>,
   <<L("domain", "status", "ok"), L("domain", "expires", "day5")>>,
   <<L("domain", "status", "ok"), L("none", "refer", "by mail"), L("registrar", "whoisServer", "rar"),
     L("domain", "registered", "spelled1"), L("domain", "registered", "day3"),
     L("registrant", "email", "form"), L("registrar", "name", "hidden")>>,
   <<L("%", "refer", "reg"), L("none", "refer", "form"), L("%", "", "notFound"),
     L("registrant", "email", "mail"), L("registrant", "name", "B"), L("domain", "expires", "day5")>>,
   <<L("registrar", "name", "Rar"), L("domain", "ns", "REG"), L("domain", "registered", "day2")>>}

MCPages ==
  {[kind |-> "captcha", raw |-> <<>>, rows |-> <<>>],
   [kind |-> "record", raw |-> <<>>, rows |-> <<R("registrant", "name", <<"A">>)>>],
   [kind |-> "record", raw |-> <<"text">>, rows |-> <<>>],
   [kind |-> "record", raw |-> <<"text">>,
    rows |-> <<R("registrar", "name", <<"Site">>), R("registrar", "email", <<"form">>), R("registrar", "fax", <<"x">>),
               R("registrant", "email", <<"form">>), R("domain", "status", <<>>), R("domain", "status", <<"ok", "ok">>),
               R("domain", "ns", <<"ns1", "reg", "ns1">>), R("domain", "registered", <<"spelled1">>),
               R("registrant", "location", <<"X">>), R("registrant", "location", <<"Y">>)>>],
   [kind |-> "record", raw |-> <<"text">>,
    rows |-> <<R("registrar", "name", <<"Site">>), R("domain", "registered", <<"spelled1">>),
               R("domain", "expires", <<"day9">>)>>]}

=============================================================================
