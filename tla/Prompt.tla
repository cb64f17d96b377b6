------------------------------- MODULE Prompt -------------------------------
(***************************************************************************)
(* The prompt composer: one request to /v1/prompt                          *)
(* (api/handlers_prompt.go, handlePrompt), from the memories it is         *)
(* grounded in, ranked and cut to size (compose/compose.go), through the   *)
(* completion at the configured provider and its retries                   *)
(* (consolidate/llm.go, completeWithRetry), to the text that is handed to  *)
(* the developer (compose.Normalise).  A request to /v1/context is the     *)
(* same reading of the store without a provider.                           *)
(*                                                                         *)
(* The provider is the environment: each attempt it may do anything a      *)
(* provider does.  The text of a reply is a sequence of lines, each known  *)
(* by what Normalise looks for in it.                                      *)
(***************************************************************************)
EXTENDS Recall

CONSTANTS
  Corpora,        \* what the store may hold
  Requests,       \* [kind, project, mode, small]: small is a short task with at most one emphasis
  Providers,      \* [name, keyed]: the configured provider, and whether its API key is set
  Prompts,        \* texts of prompts a provider writes, sequences of lines
  SearchLimit,    \* memories the search for a task returns (12)
  BriefLimit,     \* preferences among which the brief is looked for (50)
  ContextBudget,  \* tokens of the standing context (700)
  MaxMemories,    \* memories in a prompt (8)
  MaxMemoryChars, \* length of their lines together (1200)
  MaxLineChars,   \* length a memory's body is cut to (200)
  NarrowTo,       \* memories a second try keeps (3)
  MaxAttempts,    \* tries of one completion (5)
  BackoffBase,    \* the first delay, in seconds (3)
  RetryAfters     \* what a busy provider's Retry-After may say, in seconds

ASSUME PromptAssumption == {MaxAttempts, BackoffBase, MaxMemories} \subseteq Nat \ {0}

VARIABLES
  store,      \* the corpus
  ask,        \* the request being served
  provider,   \* the configured provider
  failing,    \* the parts of the retrieval that fail, and "embedder"
  handling,   \* [pc, memories, mode]: where the handler is, what it sends
  call,       \* the completion: [pc, attempt, error, wait]
  sent,       \* prompts sent to the provider, [memories, mode], newest last
  trail,      \* errors of this completion's attempts, and its waits
  clientLeft, \* the client went away
  answer      \* the response

promptVars == <<store, ask, provider, failing, handling, call, sent, trail, clientLeft, answer>>

-----------------------------------------------------------------------------
(* Grounding *)

Grounded(m, source, score) == [id |-> m.id, kind |-> m.kind, chars |-> Min({m.chars, MaxLineChars}), source |-> source, score |-> score]
Flatten(seq) == [i \in 1..Len(seq) |-> Grounded(seq[i], "context", 0)]

Brief ==
  LET page == ListMemories(store, ask.project, "preference", BriefLimit)
      named == {i \in 1..Len(page) : page[i].brief}
  IN IF ask.project = "" \/ "brief" \in failing \/ named = {} THEN <<>>
     ELSE <<Grounded(page[Min(named)], "brief", 0)>>

Standing ==
  IF "context" \in failing THEN <<>>
  ELSE LET s == BuildContext(store, ask.project, ContextBudget, {"lesson", "decision", "preference"}).sections
       IN Flatten(s[1]) \o Flatten(s[2]) \o Flatten(s[3])

Found ==
  IF "search" \in failing THEN <<>>
  ELSE LET r == Search(store, [project |-> ask.project, kinds |-> {"lesson", "decision", "preference", "fact"},
                               limit |-> SearchLimit, vector |-> "embedder" \notin failing])
       IN [i \in 1..Len(r.hits) |-> Grounded(r.hits[i], "search", r.score[r.hits[i]])]

\* Of two memories of one ID the first stays.
Dedupe(ms) ==
  LET keep == {i \in 1..Len(ms) : \A j \in 1..(i - 1) : ms[j].id # ms[i].id}
  IN [i \in 1..Cardinality(keep) |-> ms[CHOOSE k \in keep : Cardinality({j \in keep : j < k}) = i - 1]]

KindOrder == [lesson |-> 0, decision |-> 1, preference |-> 2, fact |-> 3]

\* BUG (a mutant of Ahead): the brief is ranked by its kind, as any preference.
AheadByKind(a, b) ==
  KindOrder[a.kind] < KindOrder[b.kind] \/ (KindOrder[a.kind] = KindOrder[b.kind] /\ a.score > b.score)

Ahead(a, b) ==
  LET brief(m) == m.source = "brief"
  IN IF brief(a) # brief(b) THEN brief(a)
     ELSE KindOrder[a.kind] < KindOrder[b.kind] \/ (KindOrder[a.kind] = KindOrder[b.kind] /\ a.score > b.score)

\* A stable sort.
RankMemories(ms) ==
  LET first(i, j) == Ahead(ms[i], ms[j]) \/ (~Ahead(ms[j], ms[i]) /\ i < j)
  IN [k \in 1..Len(ms) |-> ms[CHOOSE i \in 1..Len(ms) : Cardinality({j \in 1..Len(ms) : first(j, i)}) = k - 1]]

\* What will reach the model: the longest start of the list within the caps.
Select(ms) ==
  SubSeq(ms, 1, Max({k \in 0..Min({MaxMemories, Len(ms)}) : MapThenSumSet(LAMBDA i : ms[i].chars, 1..k) <= MaxMemoryChars}))

\* BUG (a mutant of Grounding): what was retrieved is reported, not what fits.
GroundingUncut == RankMemories(Dedupe(Brief \o Standing \o Found))

Grounding == Select(RankMemories(Dedupe(Brief \o Standing \o Found)))

\* Build: the memories are cut to size once more, and the mode is picked when none was asked for.
Build(given, mode) ==
  [memories |-> Select(given),
   mode |-> IF mode # "" THEN mode ELSE IF ask.small THEN "brief" ELSE "full"]

-----------------------------------------------------------------------------
(* One completion, retried *)

Fresh == [errors |-> <<>>, waits |-> <<>>]
NoError == [kind |-> "none", after |-> 0]
NoCall == [pc |-> "none", attempt |-> 0, error |-> NoError, wait |-> 0, text |-> <<>>]
BeginCall == [NoCall EXCEPT !.pc = "sending", !.attempt = 1]

\* What an attempt may come to, by provider: an HTTP status with its
\* Retry-After, a network error, a body that is no JSON or holds no choice,
\* a model that spent its budget thinking, or a text.
Failures(p) ==
  IF ~p.keyed THEN {[kind |-> "no key", after |-> 0]}
  ELSE {[kind |-> k, after |-> 0] : k \in {"refused", "network", "garbled"}}
       \cup {[kind |-> "busy", after |-> a] : a \in RetryAfters}
       \cup (IF p.name = "anthropic" THEN {} ELSE {[kind |-> "no choices", after |-> 0]})
       \cup (IF p.name = "openai" THEN {[kind |-> "token budget", after |-> 0], [kind |-> "no answer", after |-> 0]} ELSE {})

\* Texts: a prompt, plain or as models wrap one, or nothing.
Wraps(lines) ==
  LET fenced == <<"fence">> \o lines \o <<"fence">>
  IN {lines, <<"preamble">> \o lines, fenced, <<"preamble">> \o fenced, <<"fence", "preamble">> \o lines \o <<"fence">>}
Texts(p) == IF p.keyed THEN UNION {Wraps(l) : l \in Prompts} \cup {<<>>} ELSE {}

\* BUG (a mutant of Final): an exhausted token budget is tried again.
FinalButBudget(e) == e.kind = "refused"

\* A refusal and an exhausted token budget are final; anything else may clear.
Final(e) == e.kind \in {"refused", "token budget"}

Backoff(n) == BackoffBase * 3 ^ (n - 1)

\* BUG (a mutant of WaitBefore): the delay of the first retry before every one.
WaitBeforeFirst(attempt, e) == Max({Backoff(1), e.after})

\* The exponential delay, or the provider's when it is longer.
WaitBefore(attempt, e) == Max({Backoff(attempt - 1), e.after})

Serving == handling.pc \in {"first", "second"}
\* The provider is only asked when the key is there.
Asked == IF provider.keyed THEN sent' = Append(sent, Build(handling.memories, handling.mode)) ELSE UNCHANGED sent

AttemptFails ==
  \E e \in Failures(provider) :
    /\ Serving /\ call.pc = "sending" /\ ~clientLeft
    /\ Asked
    /\ trail' = [trail EXCEPT !.errors = Append(@, e)]
    /\ call' = IF Final(e) \/ call.attempt = MaxAttempts
               THEN [call EXCEPT !.pc = "failed", !.error = e]
               ELSE [call EXCEPT !.pc = "waiting", !.error = e, !.attempt = @ + 1, !.wait = WaitBefore(call.attempt + 1, e)]
    /\ UNCHANGED <<store, ask, provider, failing, handling, clientLeft, answer>>

AttemptAnswers ==
  \E text \in Texts(provider) :
    /\ Serving /\ call.pc = "sending"
    /\ Asked
    /\ call' = [call EXCEPT !.pc = "answered", !.text = text]
    /\ UNCHANGED <<store, ask, provider, failing, handling, trail, clientLeft, answer>>

WaitOver ==
  /\ Serving /\ call.pc = "waiting"
  /\ trail' = [trail EXCEPT !.waits = Append(@, call.wait)]
  /\ call' = [call EXCEPT !.pc = "sending", !.wait = 0]
  /\ UNCHANGED <<store, ask, provider, failing, handling, sent, clientLeft, answer>>

ClientLeft ==
  /\ Serving /\ ~clientLeft /\ clientLeft' = TRUE
  /\ UNCHANGED <<store, ask, provider, failing, handling, call, sent, trail, answer>>

\* The context is done: a wait or an attempt ends with its error.
Cancelled ==
  /\ Serving /\ clientLeft /\ call.pc \in {"waiting", "sending"}
  /\ call' = [call EXCEPT !.pc = "failed", !.error = [kind |-> "cancelled", after |-> 0], !.wait = 0]
  /\ UNCHANGED <<store, ask, provider, failing, handling, sent, trail, clientLeft, answer>>

-----------------------------------------------------------------------------
(* The text that is handed out: the output contract, enforced in code *)

IsFence(line) == line = "fence"

\* A fence around the whole reply goes first, then a preamble line.
StripFence(lines) ==
  IF Len(lines) > 1 /\ IsFence(lines[1]) /\ IsFence(lines[Len(lines)]) THEN SubSeq(lines, 2, Len(lines) - 1) ELSE lines

\* BUG (a mutant of Normalise): any fence line goes, the ones inside the prompt too.
NormaliseAllFences(lines) ==
  LET s == SelectSeq(lines, LAMBDA l : ~IsFence(l)) IN IF s # <<>> /\ s[1] = "preamble" THEN Tail(s) ELSE s

Normalise(lines) ==
  LET s == StripFence(lines) IN IF s # <<>> /\ s[1] = "preamble" THEN Tail(s) ELSE s

-----------------------------------------------------------------------------
(* The handler *)

NoAnswer == [kind |-> "none", memories |-> <<>>, text |-> <<>>, context |-> <<>>]

PromptInit ==
  /\ store \in Corpora /\ ask \in Requests /\ provider \in Providers
  /\ failing \in {{}, {"embedder"}, {"context"}, {"search"}, {"brief"}}
  /\ handling = [pc |-> "new", memories |-> <<>>, mode |-> ""]
  /\ call = NoCall /\ sent = <<>> /\ trail = Fresh /\ clientLeft = FALSE /\ answer = NoAnswer

\* Without a provider the answer is the reason.
HandleDisabled ==
  /\ handling.pc = "new" /\ ask.kind = "prompt" /\ provider.name = "none"
  /\ handling' = [handling EXCEPT !.pc = "done"] /\ answer' = [NoAnswer EXCEPT !.kind = "not generated"]
  /\ UNCHANGED <<store, ask, provider, failing, call, sent, trail, clientLeft>>

HandlePreview ==
  /\ handling.pc = "new" /\ ask.kind = "preview"
  /\ handling' = [handling EXCEPT !.pc = "done"]
  /\ answer' = [NoAnswer EXCEPT !.kind = "preview", !.memories = Grounding]
  /\ UNCHANGED <<store, ask, provider, failing, call, sent, trail, clientLeft>>

HandleContext ==
  /\ handling.pc = "new" /\ ask.kind = "context"
  /\ handling' = [handling EXCEPT !.pc = "done"]
  /\ answer' = [NoAnswer EXCEPT !.kind = "context",
                  !.context = <<BuildContext(store, ask.project, ContextBudget,
                                             {SectionOrder[s] : s \in 1..Len(SectionOrder)})>>]
  /\ UNCHANGED <<store, ask, provider, failing, call, sent, trail, clientLeft>>

HandlePrompt ==
  /\ handling.pc = "new" /\ ask.kind = "prompt" /\ provider.name # "none"
  /\ handling' = [pc |-> "first", memories |-> Grounding, mode |-> ask.mode]
  /\ call' = BeginCall /\ trail' = Fresh
  /\ UNCHANGED <<store, ask, provider, failing, sent, clientLeft, answer>>

\* An exhausted token budget is answered with one more completion, of the
\* brief form and at most NarrowTo memories.
Narrow ==
  /\ handling.pc = "first" /\ call.pc = "failed" /\ call.error.kind = "token budget"
  /\ handling' = [pc |-> "second", memories |-> Page(handling.memories, NarrowTo), mode |-> "brief"]
  /\ call' = BeginCall /\ trail' = Fresh
  /\ UNCHANGED <<store, ask, provider, failing, sent, clientLeft, answer>>

Unavailable ==
  /\ Serving /\ \/ call.pc = "failed" /\ (call.error.kind # "token budget" \/ handling.pc = "second")
                \/ call.pc = "answered" /\ Normalise(call.text) = <<>>
  /\ handling' = [handling EXCEPT !.pc = "done"] /\ answer' = [NoAnswer EXCEPT !.kind = "unavailable"]
  /\ UNCHANGED <<store, ask, provider, failing, call, sent, trail, clientLeft>>

Respond ==
  /\ Serving /\ call.pc = "answered" /\ Normalise(call.text) # <<>>
  /\ handling' = [handling EXCEPT !.pc = "done"]
  /\ answer' = [NoAnswer EXCEPT !.kind = "generated", !.memories = handling.memories, !.text = Normalise(call.text)]
  /\ UNCHANGED <<store, ask, provider, failing, call, sent, trail, clientLeft>>

PromptNext ==
  \/ HandleDisabled \/ HandlePreview \/ HandleContext \/ HandlePrompt
  \/ AttemptFails \/ AttemptAnswers \/ WaitOver \/ ClientLeft \/ Cancelled
  \/ Narrow \/ Unavailable \/ Respond

PromptSpec == PromptInit /\ [][PromptNext]_promptVars

-----------------------------------------------------------------------------
(* Properties *)

\* The memories a response lists are those the provider was given in the call
\* it answered, after the cut to size and after a second, narrower try; and
\* each is one the caller may read, neither deleted nor superseded
\* (api/handlers_prompt.go, handlePrompt; compose.Select).
GroundingReported ==
  answer.kind = "generated" =>
    /\ answer.memories = sent[Len(sent)].memories
    /\ \A i \in 1..Len(answer.memories) :
         \E m \in store : m.id = answer.memories[i].id /\ Visible(m) /\ Current(m)

\* A brief that is among the preferences the handler reads leads every prompt
\* that is sent, however poorly it matches the task, and is in the narrower
\* second one (api/handlers_prompt.go, groundingFor; compose.Rank).
BriefLeads ==
  Brief # <<>> => \A i \in 1..Len(sent) : sent[i].memories # <<>> /\ sent[i].memories[1].source = "brief"

\* A completion that fails with its client still there either met an answer
\* that cannot change, at once, or was tried as often as it may be; before each
\* further attempt it waited the whole exponential delay and the Retry-After of
\* the failure before it, and nothing is tried again after a refusal or an
\* exhausted token budget, which would be billed again (consolidate/llm.go,
\* completeWithRetry).
RetriesRight ==
  LET e == trail.errors
      last == Len(e)
      fixed(i) == e[i].kind \in {"refused", "token budget"}
  IN /\ \A i \in 1..(last - 1) : ~fixed(i)
     /\ \A i \in 1..Len(trail.waits) : i <= last /\ trail.waits[i] = Max({Backoff(i), e[i].after})
     /\ call.pc = "failed" /\ call.error.kind # "cancelled" =>
          (last = MaxAttempts \/ fixed(last)) /\ Len(trail.waits) = last - 1

\* What is handed out is the prompt the provider wrote, with nothing of it
\* lost, its own code fences among it; a single wrap around it is gone
\* (compose/compose.go, Normalise).
PromptIsWhole ==
  answer.kind = "generated" => \E l \in Prompts : answer.text \in {l, <<"fence">> \o l \o <<"fence">>}

\* What a prompt is drafted from is what was reported, the brief first, and what
\* is handed out is what was drafted.
PromptSound == GroundingReported /\ BriefLeads /\ PromptIsWhole

\* One more memory that matches the task worst in the one search that finds
\* it does not change the order of the others (store/search.go, Search).
FusionStable ==
  LET q == [project |-> ask.project, kinds |-> {"lesson", "decision", "preference", "fact"},
            limit |-> SearchLimit, vector |-> "embedder" \notin failing]
      worst(m) == m.lex = 0 /\ \A n \in store \ {m} : n.sim = 0 \/ n.sim > m.sim
  IN handling.pc = "new" =>
       \A m \in store : worst(m) =>
         Search(store \ {m}, q).hits = SelectSeq(Search(store, q).hits, LAMBDA n : n # m)

\* The text of a context is longer than its budget by no more than its
\* headings, and a lesson the caller could have had is only left out of a
\* context that says it was cut short (store/search.go, BuildContext).
ContextHonest ==
  LET heads == MapThenSumSet(LAMBDA k : Headings[k], {SectionOrder[s] : s \in 1..Len(SectionOrder)})
  IN answer.kind = "context" =>
       LET c == answer.context[1]
       IN /\ EstimateTokens(c.chars) <= ContextBudget + EstimateTokens(heads)
          /\ c.truncated \/ \A k \in 1..Len(Lessons(store, ask.project)) :
               \E i \in 1..Len(c.sections[1]) : c.sections[1][i] = Lessons(store, ask.project)[k]
=============================================================================
