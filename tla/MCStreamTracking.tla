--------------------------- MODULE MCStreamTracking ---------------------------
(* StreamTracking for TLC: two bidirectional and two unidirectional streams. *)
EXTENDS StreamTracking, TLC

CONSTANTS b1, b2, u1, u2

MCSessionOf == [x \in Streams |-> CHOOSE s \in Sessions : TRUE]
MCKindOf == [x \in Streams |-> IF x \in {u1, u2} THEN "unidirectional" ELSE "bidirectional"]
MCMaxOfKind == [k \in Kinds |-> IF k = "bidirectional" THEN 1 ELSE 2]
=============================================================================
