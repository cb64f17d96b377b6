-------------------------- MODULE MCConsolidation --------------------------
(* Two sessions in two projects, one of them too large for the model; a    *)
(* tier 1 batch is always full, a tier 2 batch may be.                     *)
EXTENDS Consolidation

CONSTANTS s1, huge
MCProject == <<"a", "b">>
MCProjectOf == [s \in {s1, huge} |-> IF s = huge THEN "a" ELSE "b"]
=============================================================================
