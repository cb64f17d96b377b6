------------------------------ MODULE MCPrompt ------------------------------
(* One request over small corpora, three memories to a prompt. *)
EXTENDS Prompt, TLC

Row(id, kind) ==
  [id |-> id, owner |-> "me", shared |-> FALSE, project |-> "p", kind |-> kind, gone |-> "no", brief |-> FALSE,
   chars |-> 20, lex |-> 0, sim |-> 0, strength |-> 1, age |-> 0]

Conventions ==
  { [Row(1, "preference") EXCEPT !.brief = TRUE, !.chars = 24], Row(2, "lesson"), [Row(3, "lesson") EXCEPT !.strength = 5, !.sim = 2],
    [Row(4, "decision") EXCEPT !.lex = 2, !.sim = 1], [Row(5, "fact") EXCEPT !.project = "", !.lex = 1, !.sim = 4] }
Mixed ==
  { [Row(1, "lesson") EXCEPT !.owner = "mate", !.sim = 3], [Row(2, "lesson") EXCEPT !.owner = "mate", !.shared = TRUE, !.sim = 2, !.lex = 1],
    [Row(3, "decision") EXCEPT !.gone = "superseded", !.lex = 3], [Row(4, "decision") EXCEPT !.chars = 150, !.age = 2, !.lex = 2],
    [Row(5, "session") EXCEPT !.chars = 30], [Row(6, "session") EXCEPT !.chars = 0], [Row(7, "fact") EXCEPT !.sim = 1] }
Fused ==
  { [Row(1, "fact") EXCEPT !.lex = 2, !.strength = 5], [Row(2, "fact") EXCEPT !.sim = 3], [Row(3, "fact") EXCEPT !.sim = 1, !.strength = 5] }
Large == { [Row(i, "lesson") EXCEPT !.chars = 11 * i, !.lex = i] : i \in 1..4 }

Stores == {{}, Conventions, Mixed, Fused, Large}
Asks ==
  { [kind |-> "prompt", project |-> "p", mode |-> "", small |-> TRUE], [kind |-> "prompt", project |-> "", mode |-> "full", small |-> TRUE],
    [kind |-> "preview", project |-> "p", mode |-> "", small |-> FALSE], [kind |-> "context", project |-> "p", mode |-> "", small |-> FALSE] }
Models ==
  { [name |-> n, keyed |-> TRUE] : n \in {"openai", "anthropic", "google"} }
  \cup { [name |-> "openai", keyed |-> FALSE], [name |-> "none", keyed |-> FALSE] }
Written == { <<"understood", "text", "text">>, <<"understood", "fence", "text", "fence">> }
Lengths == [lesson |-> 12, decision |-> 14, preference |-> 16, fact |-> 9, session |-> 19]
Waiting == {0, 5}

=============================================================================
