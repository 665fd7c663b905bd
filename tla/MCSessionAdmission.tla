-------------------------- MODULE MCSessionAdmission --------------------------
(* SessionAdmission for TLC: two sessions of one id from different addresses. *)
EXTENDS SessionAdmission, TLC

CONSTANTS s1, s2, id, ipA, ipB

MCIdOf == [s \in Sessions |-> id]
MCIpOf == (s1 :> ipA) @@ (s2 :> ipB)
=============================================================================
