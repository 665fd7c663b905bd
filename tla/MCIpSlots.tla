------------------------------ MODULE MCIpSlots ------------------------------
(* IpSlots for TLC: six sessions from four addresses. *)
EXTENDS IpSlots, TLC

CONSTANTS s1, s2, s3, s4, s5, s6, ipA, ipB, ipC, ipD

MCIpOf == (s1 :> ipA) @@ (s2 :> ipA) @@ (s3 :> ipA) @@ (s4 :> ipB) @@ (s5 :> ipC) @@ (s6 :> ipD)

\* The sessions of ipA are interchangeable.
SessionSymmetry == Permutations({s1, s2, s3})
=============================================================================
