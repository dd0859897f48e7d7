----------------------------- MODULE MCBlocking -----------------------------
(* Four pieces of body in four ticks, so that a body can be whole, slow    *)
(* and in time, slow past the window, or stalled at either place.          *)
EXTENDS Blocking
=============================================================================
