------------------------------- MODULE MCIcmp -------------------------------
(* Two anchors, and two targets that share a router.                 *)
EXTENDS Icmp

MCTargets == <<"t1", "t2">>
MCNoise   == {"reply", "exceeded"} \X {"a1"} \X {0, 1}
MCPath    == [t1 |-> <<"gw", "r", "t1">>, t2 |-> <<"r", "t2">>]

=============================================================================
