----------------------------- MODULE MCRateLimit -----------------------------
(* Two processes of one key and one of another, with a minute of four seconds. *)
EXTENDS RateLimit, TLC
CONSTANTS hooks, cli, other
Callers == {hooks, cli, other}
Keys == (hooks :> "a") @@ (cli :> "a") @@ (other :> "b")
Budgets == [write |-> 1, read |-> 2]
=============================================================================
