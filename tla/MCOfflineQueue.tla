--------------------------- MODULE MCOfflineQueue ---------------------------
(* Two saves of one content and one that the server refuses.               *)
EXTENDS OfflineQueue

CONSTANTS s1, s2, bad
MCContent == [s \in {s1, s2, bad} |-> IF s = bad THEN "y" ELSE "x"]
=============================================================================
