--------------------------- MODULE MCMemoryStore ---------------------------
(* Two spellings of one title and two bodies, so that two texts share a     *)
(* hash and two do not.                                                     *)
EXTENDS MemoryStore, TLC

MCTitle == {"fix", "Fix"}
MCBody == {"a", "b"}
MCNormal == [w \in MCTitle \cup MCBody |-> IF w = "Fix" THEN "fix" ELSE w]

CONSTANTS u1, u2, c1, c2, c3, c4
MCCaller == [c \in {c1, c2, c3, c4} |-> IF c = c4 THEN u2 ELSE u1]

Symmetry == Permutations({c1, c2, c3}) \cup Permutations(MemoryId)
=============================================================================
