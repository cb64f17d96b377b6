------------------------------ MODULE MCService ------------------------------
(***************************************************************************)
(* Three things the server does: it composes a prompt, it keeps an API key  *)
(* to its budget (a minute of two seconds), and it rebuilds the knowledge   *)
(* graph (three files with room for two, a memory that names two, and three *)
(* observations of one session, of which only neighbours connect files).    *)
(* They share no state, so a behaviour runs one of them, and the others     *)
(* stay in one of their initial states.                                     *)
(***************************************************************************)
EXTENDS MCPrompt, MCRateLimit, Graph

MCNames == [m \in {1} |-> {1, 2}]
MCFrom == [m \in {1} |-> "s1"]
MCTouched == [o \in {1, 2, 3} |-> IF o = 2 THEN {2, 3} ELSE {1}]
MCDuring == [o \in {1, 2, 3} |-> "s1"]

VARIABLE part

NoPrompt ==
  /\ PromptInit /\ store = {} /\ failing = {}
  /\ ask = [kind |-> "preview", project |-> "p", mode |-> "", small |-> FALSE]
  /\ provider = [name |-> "none", keyed |-> FALSE]

ServiceInit ==
  /\ part \in {"prompt", "limit", "graph"}
  /\ IF part = "prompt" THEN PromptInit ELSE NoPrompt
  /\ LimitInit /\ GraphInit

ServiceNext ==
  /\ UNCHANGED part
  /\ \/ part = "prompt" /\ PromptNext /\ UNCHANGED <<limitVars, graphVars>>
     \/ part = "limit" /\ LimitNext /\ UNCHANGED <<promptVars, graphVars>>
     \/ part = "graph" /\ GraphNext /\ UNCHANGED <<promptVars, limitVars>>

ServiceSpec == ServiceInit /\ [][ServiceNext]_<<part, promptVars, limitVars, graphVars>>
=============================================================================
