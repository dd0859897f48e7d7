-------------------------------- MODULE MCIp --------------------------------
(* Two providers that see different addresses, and answers with whatever   *)
(* the record is read from.                                                *)
EXTENDS Ip

MCSays == [v4 |-> {"192.0.2.1", "192.0.2.2"}, v6 |-> {"2001:db8::1"}]

MCDays == [t1 |-> "d1", t2 |-> "d2"]
MCRegistries == [ripe |-> "RIPE NCC"]

E(handle, name, mnt, depth, roles, contact) ==
  [handle |-> handle, name |-> name, mnt |-> mnt, depth |-> depth, roles |-> roles, contact |-> contact]

MCAnswers ==
  {[events |-> <<[action |-> "last changed", date |-> "t2"], [action |-> "registration", date |-> "t1"],
                 [action |-> "last update of rdap database", date |-> "d3"]>>,
    port43 |-> "", host |-> "rdap.example", remarks |-> <<"", "r">>,
    entities |-> <<E("X-MNT", "", TRUE, 0, {"registrant"}, FALSE), E("O", "Org", FALSE, 0, {"registrant"}, FALSE),
                   E("A", "Abuse", FALSE, 1, {"abuse"}, TRUE), E("O", "Org", FALSE, 0, {"technical"}, FALSE)>>],
   [events |-> <<>>, port43 |-> "ripe", host |-> "rdap.example", remarks |-> <<>>, entities |-> <<>>]}

MCWhoisTexts ==
  {<<>>,
   <<[key |-> "netname", value |-> "NET"], [key |-> "created", value |-> "t1"],
     [key |-> "created", value |-> "d2"]>>}

=============================================================================
