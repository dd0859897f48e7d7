------------------------------ MODULE Selection ------------------------------
(***************************************************************************)
(* The loop the program filters a list with: of the elements of a slice it *)
(* appends those that are wanted to a new one, so that their order stays.  *)
(* Select of internal/runner, and the choice of servers in                 *)
(* internal/netcheck/speedtest.go, are such loops.  It is written as a     *)
(* function of the number of turns.                                        *)
(***************************************************************************)
EXTENDS Naturals, Sequences

Kept(s, T) ==
  LET kept[n \in 0..Len(s)] ==
        IF n = 0 THEN <<>>
        ELSE IF s[n] \in T THEN Append(kept[n - 1], s[n]) ELSE kept[n - 1]
  IN  kept[Len(s)]

=============================================================================
