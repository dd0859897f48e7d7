---------------------------- MODULE MCSpeedNodes ----------------------------
(* Overlapping sets and IDs, and lists with a server for every fault.      *)
EXTENDS SpeedNodes

Near   == [label |-> "near", kind |-> "nearest"]
CityA  == [label |-> "A", kind |-> "city"]
CityB  == [label |-> "B", kind |-> "city"]

MCNodeSets == [default |-> <<Near, CityA>>, eu |-> <<CityA, CityB>>]
MCFlags == {<<>>, <<"">>, <<"eu", "default">>, <<"7", "", "7">>, <<"eu", "moon">>}

MCLimit == [nearest |-> 2, city |-> 3]
MCWant  == [nearest |-> 1, city |-> 2]

S(id, place, alive, fault) == [id |-> id, place |-> place, alive |-> alive, fault |-> fault]
MCLists ==
  {<<>>,
   <<S(1, "abroad", TRUE, "none"), S(2, "country", TRUE, "none"), S(3, "city", TRUE, "upload")>>,
   <<S(1, "country", TRUE, "none"), S(2, "city", FALSE, "none"), S(3, "city", TRUE, "ping")>>,
   <<S(1, "city", TRUE, "url"), S(2, "abroad", TRUE, "none"), S(3, "country", TRUE, "none"),
     S(4, "city", TRUE, "zero")>>}

=============================================================================
