------------------------------- MODULE Recall -------------------------------
(***************************************************************************)
(* What the server remembers for a task: hybrid search, which fuses the    *)
(* ranks of a keyword and of a vector search (store/search.go, Search),    *)
(* and the token-budgeted context of a project (BuildContext).             *)
(*                                                                         *)
(* A memory is a record: its row's owner, sharing, project, kind and state *)
(* (gone: "no", "deleted" or "superseded"); lex and sim, how well it       *)
(* matches the query by keyword and by vector, 0 for not at all or for no  *)
(* vector; strength; age in recency half-lives; chars, the length of its   *)
(* line.  Scores are whole numbers: Scale is a common multiple.            *)
(***************************************************************************)
EXTENDS Integers, Sequences, FiniteSets, FiniteSetsExt

CONSTANTS
  RRFK,           \* search.rrf_k
  Scale,          \* a common multiple of the denominators RRFK + rank
  CandidateLimit, \* search.candidate_limit
  ListLimit,      \* rows a section of the context reads (25)
  SessionLimit,   \* sessions it reads for their summaries (5)
  Headings        \* section -> length of its heading in the context's text

ASSUME ScaleAssumption == \A r \in 1..CandidateLimit : Scale % (RRFK + r) = 0

-----------------------------------------------------------------------------
(* Orders and pages *)

SortedBy(S, Before(_, _)) ==
  [i \in 1..Cardinality(S) |-> CHOOSE m \in S : Cardinality({n \in S : Before(n, m)}) = i - 1]

Page(seq, n) == SubSeq(seq, 1, Min({n, Len(seq)}))

Place(seq, m) == IF \E i \in 1..Len(seq) : seq[i] = m THEN CHOOSE i \in 1..Len(seq) : seq[i] = m ELSE 0

Newest(m, n) == m.id > n.id

Visible(m) == m.owner = "me" \/ m.shared
Current(m) == m.gone = "no"

-----------------------------------------------------------------------------
(* Search *)

\* The rows both retrievers start from; a memory of no project belongs to every one.
Candidates(corpus, q) ==
  {m \in corpus : Visible(m) /\ Current(m) /\ m.kind \in q.kinds /\ (q.project = "" \/ m.project \in {q.project, ""})}

BM25(corpus, q, n) ==
  Page(SortedBy({m \in Candidates(corpus, q) : m.lex > 0},
                LAMBDA a, b : a.lex > b.lex \/ (a.lex = b.lex /\ a.id < b.id)), n)

\* Without a query vector the vector search finds nothing, and nothing fails.
Nearest(corpus, q, n) ==
  IF ~q.vector THEN <<>>
  ELSE Page(SortedBy({m \in Candidates(corpus, q) : m.sim > 0},
                     LAMBDA a, b : a.sim > b.sim \/ (a.sim = b.sim /\ a.id < b.id)), n)

\* BUG (a mutant of RankScore): a memory one search did not find counts as that search's last.
RankScoreLast(list, m) ==
  Scale \div (RRFK + IF Place(list, m) = 0 THEN Len(list) ELSE Place(list, m))

\* 1 / (k + rank), or 0 for a memory this search did not find.
RankScore(list, m) == IF Place(list, m) = 0 THEN 0 ELSE Scale \div (RRFK + Place(list, m))

\* Strength and recency weigh up to 15 % each.
Weight(m) ==
  (85 * 5 + 15 * Min({Max({m.strength, 0}), 5})) * (85 * 4 + 15 * (4 \div (2 ^ Min({m.age, 3}))))

Search(corpus, q) ==
  LET n == Max({q.limit, CandidateLimit})
      words == BM25(corpus, q, n)
      near == Nearest(corpus, q, n)
      found == {m \in corpus : Place(words, m) > 0 \/ Place(near, m) > 0}
      score == [m \in found |-> (RankScore(words, m) + RankScore(near, m)) * Weight(m)]
  IN [score |-> score,
      hits |-> Page(SortedBy(found, LAMBDA a, b : score[a] > score[b] \/ (score[a] = score[b] /\ a.id > b.id)), q.limit)]

-----------------------------------------------------------------------------
(* The context of a project *)

EstimateTokens(chars) == IF chars = 0 THEN 0 ELSE chars \div 4 + 1

Lessons(corpus, project) ==
  Page(SortedBy({m \in corpus : Visible(m) /\ Current(m) /\ m.kind = "lesson" /\ (project = "" \/ m.project \in {project, ""})},
                LAMBDA a, b : a.strength > b.strength
                  \/ (a.strength = b.strength /\ (a.age < b.age \/ (a.age = b.age /\ a.id > b.id)))), ListLimit)

\* A listing is of the project itself: memories of no project are not in it.
ListMemories(corpus, project, kind, limit) ==
  Page(SortedBy({m \in corpus : Visible(m) /\ Current(m) /\ m.kind = kind /\ (project = "" \/ m.project = project)}, Newest), limit)

\* The team's last sessions, without those that have no summary.
Summaries(corpus, project) ==
  SelectSeq(Page(SortedBy({m \in corpus : m.kind = "session" /\ (project = "" \/ m.project = project)}, Newest), SessionLimit),
            LAMBDA m : m.chars > 0)

SectionOrder == <<"lesson", "decision", "preference", "fact", "session">>

SectionLines(corpus, project, kind) ==
  CASE kind = "lesson"  -> Lessons(corpus, project)
    [] kind = "session" -> Summaries(corpus, project)
    [] OTHER            -> ListMemories(corpus, project, kind, ListLimit)

\* BUG (a mutant of Taken): a line is taken while there is any budget over.
TakenWhileAny(lines, budget) ==
  LET spent(k) == MapThenSumSet(LAMBDA i : EstimateTokens(lines[i].chars), 1..k)
  IN Max({k \in 0..Len(lines) : k = 0 \/ spent(k - 1) < budget})

Spent(lines, k) == MapThenSumSet(LAMBDA i : EstimateTokens(lines[i].chars), 1..k)

\* A section takes lines while they fit in what the budget has left, and
\* stops at the first that does not.
Taken(lines, budget) == Max({k \in 0..Len(lines) : Spent(lines, k) <= budget})

\* The context: the sections in their order, each on what the earlier ones left.
BuildContext(corpus, project, budget, include) ==
  LET lines(kind) ==
        IF kind \in include THEN SectionLines(corpus, project, kind) ELSE <<>>
      rest[s \in 1..(Len(SectionOrder) + 1)] ==
        IF s = 1 THEN budget
        ELSE LET l == lines(SectionOrder[s - 1]) IN rest[s - 1] - Spent(l, Taken(l, rest[s - 1]))
      section == [s \in 1..Len(SectionOrder) |-> Page(lines(SectionOrder[s]), Taken(lines(SectionOrder[s]), rest[s]))]
  IN [sections |-> section,
      truncated |-> \E s \in 1..Len(SectionOrder) : Len(section[s]) < Len(lines(SectionOrder[s])),
      chars |-> MapThenSumSet(LAMBDA s : IF section[s] = <<>> THEN 0
                                ELSE Headings[SectionOrder[s]] + MapThenSumSet(LAMBDA i : section[s][i].chars + 1, 1..Len(section[s])),
                              1..Len(SectionOrder))]
=============================================================================
