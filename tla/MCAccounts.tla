----------------------------- MODULE MCAccounts -----------------------------
(* A server that migrates on start, one of an older release that does not,  *)
(* and `dkm migrate` of this configuration or one of other dimensions.      *)
EXTENDS Accounts

CONSTANTS server, older, command, kuong, default, acme, r1, r2
MCShips == [p \in {server, older, command} |-> IF p = older THEN 1 ELSE 2]
MCDimensions == [p \in {server, older, command} |-> IF p = command THEN {"384", "768"} ELSE {"384"}]
MCTalks == [r \in {r1, r2} |-> IF r = r1 THEN {older} ELSE {server}]
MCAsked ==
  [r \in {r1, r2} |->
     IF r = r1 THEN {[kind |-> "get"]}
     ELSE {[kind |-> "issue", user |-> kuong], [kind |-> "team", team |-> acme],
           [kind |-> "user", user |-> kuong, team |-> acme, admin |-> TRUE],
           [kind |-> "user", user |-> kuong, team |-> default, admin |-> FALSE],
           [kind |-> "revoke", key |-> 1]}]
=============================================================================
