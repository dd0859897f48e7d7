--------------------------- MODULE MCSpeedWindow ----------------------------
(* Two streams, each with a share of one full transfer: a transfer that    *)
(* ends early lets a second one begin, and that one crosses the share.     *)
EXTENDS SpeedWindow
=============================================================================
