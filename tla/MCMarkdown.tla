----------------------------- MODULE MCMarkdown -----------------------------
(* Corpora of two memories whose bodies have up to three lines of every      *)
(* kind, and all documents of four lines.                                   *)
EXTENDS Markdown
T1 == [adr |-> FALSE, name |-> "t"]
T2 == [adr |-> TRUE, name |-> "u"]
Marks == {Banner, [is |-> "meta", kind |-> "lesson", visibility |-> "team", files |-> {}]}
Lines == {Text(T1), Heading(2, T1), Heading(5, T2), Fence, Comment, Opening}
MCBodies == {<<>>} \cup {<<l>> : l \in Lines} \cup (Lines \cup Marks) \X Lines
              \cup {<<Fence, l, Fence>> : l \in Lines}
Rec(k, v, t, b, p) == [kind |-> k, visibility |-> v, title |-> t, body |-> b, files |-> {}, project |-> p]
Short == {<<Text(T1)>>, <<Fence>>, <<Heading(1, T2), Text(T2)>>}
MCCorpora ==
  {<<Rec("fact", "team", T1, b, 1), [Rec(k, "private", T2, c, p) EXCEPT !.files = {"f"}]>> :
     b \in MCBodies, c \in Short, k \in {"lesson", "decision", "fact"}, p \in {1, 2}}
  \cup {<<Rec("decision", "team", T2, b, 2), Rec("fact", "private", T1, c, 3)>> : b \in MCBodies, c \in Short}
DocLines == {Text(T1), Heading(1, T1), Heading(2, T2), Heading(3, T1), Fence, Comment, Opening} \cup Marks
MCDocuments == DocLines \X DocLines \X DocLines \X DocLines
=============================================================================
