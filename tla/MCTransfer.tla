----------------------------- MODULE MCTransfer -----------------------------
(* Accounts of up to three memories, and files of three lines with every     *)
(* kind of line among them.                                                 *)
EXTENDS Transfer
Mine == [NoSourceRow EXCEPT !.live = TRUE, !.says = "a"]
Mates == [Mine EXCEPT !.owner = "mate", !.shared = TRUE]
MCInitial == {<<Mine, Mine, NoSourceRow>>, <<Mates, [Mine EXCEPT !.superseded = TRUE], Mates>>}
MCByHand == {Memory(1, "a"), Refusable("b")} \X {Memory(1, "a"), Memory(2, "b"), ErrorRecord, HalfLine, Blank} \X {Memory(2, "b")}
=============================================================================
