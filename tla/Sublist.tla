------------------------------ MODULE Sublist ------------------------------
(* What is left of a list when some of its members are dropped: the lines   *)
(* of the queue file that Dequeue writes back, the sessions a query returns. *)
EXTENDS Naturals, FiniteSets

\* The members of list but those of done, in their order.
Without(list, done) ==
  LET kept == {i \in DOMAIN list : list[i] \notin done}
      Place(i) == Cardinality({j \in kept : j <= i})
  IN  [k \in 1 .. Cardinality(kept) |-> list[CHOOSE i \in kept : Place(i) = k]]
=============================================================================
