--------------------------- MODULE MCDatagramFlow ---------------------------
(* DatagramFlow for TLC: two sessions, three datagrams of unequal size. *)
EXTENDS DatagramFlow, TLC

CONSTANTS d1, d2, d3

MCSize == (d1 :> 1) @@ (d2 :> 1) @@ (d3 :> 2)
=============================================================================
