--------------------------- MODULE Consolidation ---------------------------
(***************************************************************************)
(* The consolidation worker (internal/consolidate/worker.go) over the       *)
(* sessions table (internal/store/sessions.go, consolidation.go): tier 1    *)
(* summarises closed sessions in batches, tier 2 extracts facts from the    *)
(* summaries project by project, on the schedule and on request (RunNow),   *)
(* which does not take the schedule's guard, so all of them overlap.        *)
(* One team.  A session yields one fact per summary that is read, and a     *)
(* fact that is there already is reinforced.  Tier 3, token counts and the  *)
(* strength of memories are left out.  A database error is modelled where   *)
(* the worker goes on after it: at the insert of a fact.                    *)
(***************************************************************************)
EXTENDS Naturals, Sequences, FiniteSets, SequencesExt, Sublist

CONSTANTS
  Session,
  Project,    \* a sequence: the projects in the order the query sorts them
  ProjectOf,  \* the project of each session
  Huge,       \* sessions on which the model always exhausts its budget
  Request,    \* RunNow calls with drain set
  Tiers,      \* the tiers they ask for
  Tier1Batch, Tier2Batch, MaxDrainBatches,
  MaxFailures \* how often the model fails for another reason, the insert of
              \* a fact fails, or the server stops

ASSUME SessionAssumption ==
  /\ ProjectOf \in [Session -> Range(Project)]
  /\ Huge \subseteq Session /\ IsFiniteSet(Session)
ASSUME RequestAssumption == IsFiniteSet(Request)
ASSUME TiersAssumption == Tiers \subseteq {1, 2} /\ Tiers # {}
ASSUME BatchAssumption ==
  /\ Tier1Batch \in Nat \ {0} /\ Tier2Batch \in Nat \ {0}
  /\ MaxDrainBatches \in Nat \ {0} /\ MaxFailures \in Nat

Scheduled == {"tier1", "tier2"}  \* everyTick and everyCron: one loop per name
Job == Scheduled \cup Request

NoSummary == "null"
Summary == {NoSummary, "", "client", "model"}

VARIABLES
  session,    \* the sessions table
  ended,      \* the closed sessions by ended_at
  facts,      \* the facts stored: <<session, summary>> each was drawn from
  unfinished, \* rows of consolidation_runs that this run of the server left
              \* without finished_at
  job,        \* what each job holds
  failures,   \* failures still to come
  due,        \* history: the sessions each request's drain found waiting
  outcome,    \* history: how its last tier ended
  dropped     \* history: the facts whose insert failed

vars == <<session, ended, facts, unfinished, job, failures, due, outcome, dropped>>
history == <<due, outcome, dropped>>
NoOutcome == <<0, "">>

Start(j) ==
  IF j = "tier2" \/ (j \in Request /\ 1 \notin Tiers) THEN "claim2" ELSE "claim1"
Between(pc, batches, cancelled) ==
  [pc |-> pc, todo |-> <<>>, claimed |-> 0, groups |-> {}, group |-> {}, found |-> {},
   err |-> FALSE, batches |-> batches, cancelled |-> cancelled]
Fresh(pc) == Between(pc, 0, FALSE)

-----------------------------------------------------------------------------
(* The work queues *)

AwaitingSummary(s) == session[s].ended /\ ~session[s].summarised

\* BUG (a mutant of AwaitingFacts): only what the model itself wrote.
AwaitingFactsModel(s) ==
  session[s].summarised /\ ~session[s].extracted /\ session[s].summary = "model"

AwaitingFacts(s) ==
  /\ session[s].summarised /\ ~session[s].extracted
  /\ session[s].summary \notin {NoSummary, ""}

Limit(seq, n) == SubSeq(seq, 1, IF Len(seq) < n THEN Len(seq) ELSE n)

\* ORDER BY ended_at LIMIT
SessionsAwaitingSummary == 
  Limit(Without(ended, {s \in Session : ~AwaitingSummary(s)}), Tier1Batch)

\* ORDER BY team_id, project, ended_at
Before(s, t) ==
  LET At(seq, x) == CHOOSE i \in DOMAIN seq : seq[i] = x
      P(x) == At(Project, ProjectOf[x])
  IN  P(s) < P(t) \/ (P(s) = P(t) /\ At(ended, s) < At(ended, t))

SessionsAwaitingFacts ==
  LET waiting == {s \in Session : AwaitingFacts(s)}
  IN  {s \in waiting : Cardinality({t \in waiting : Before(t, s)}) < Tier2Batch}

MarkSummarised(s, text) ==
  session' = [session EXCEPT ![s].summary = text, ![s].summarised = TRUE]

-----------------------------------------------------------------------------
(* How a pass over one batch ends: the schedule waits for its next turn,    *)
(* RunNow goes on with the drain or the next tier.                          *)

\* BUG (a mutant of PartialBatch): a full batch counts as the last one.
PartialBatchLoose(n, batch) == n <= batch

\* What tells a drain that the queue is empty.
PartialBatch(n, batch) == n < batch

\* drainLoop: no error, a full batch, and the ceiling not reached.
GoAgain(j, n, batch, err) ==
  ~err /\ ~PartialBatch(n, batch) /\ job[j].batches + 1 < MaxDrainBatches

\* A cancelled context ends the loop before its next batch, and RunNow before
\* its next tier; after a partial batch the loop does not look at it.
AfterPass(j, tier, n, batch, err) ==
  LET claim == IF tier = 1 THEN "claim1" ELSE "claim2"
      Goto(pc, batches) ==
        job' = [job EXCEPT ![j] = Between(pc, batches, job[j].cancelled)]
  IN  IF j \in Scheduled
      THEN Goto(claim, 0) /\ UNCHANGED outcome
      ELSE IF GoAgain(j, n, batch, err) /\ ~job[j].cancelled
      THEN Goto(claim, job[j].batches + 1) /\ UNCHANGED outcome
      ELSE /\ Goto(IF tier = 1 /\ 2 \in Tiers /\ ~job[j].cancelled THEN "claim2" ELSE "done", 0)
           /\ outcome' = [outcome EXCEPT ![j] =
                            IF err THEN <<tier, "error">>
                            ELSE IF PartialBatch(n, batch) THEN <<tier, "drained">>
                            ELSE IF job[j].cancelled THEN <<tier, "error">>
                            ELSE <<tier, "ceiling">>]

\* Notes what a drain finds waiting when it begins.
Waiting(j, sessions) ==
  due' = IF j \in Request /\ job[j].batches = 0 THEN [due EXCEPT ![j] = sessions] ELSE due

-----------------------------------------------------------------------------
(* Tier 1 *)

\* SessionsAwaitingSummary and, if there is work, StartRun.
Claim1(j) ==
  /\ job[j].pc = "claim1"
  /\ Waiting(j, {s \in Session : AwaitingSummary(s)})
  /\ LET batch == SessionsAwaitingSummary
     IN  IF batch = <<>> \/ job[j].cancelled
         THEN /\ AfterPass(j, 1, 0, Tier1Batch, job[j].cancelled)
              /\ UNCHANGED unfinished
         ELSE /\ job' = [job EXCEPT ![j].pc = "tier1", ![j].todo = batch,
                                    ![j].claimed = Len(batch)]
              /\ unfinished' = unfinished + 1
              /\ UNCHANGED outcome
  /\ UNCHANGED <<session, ended, facts, failures, dropped>>

\* The next session's observations are read; one without any is closed at once.
\* Whether it has some is open at each read: clients add them at any time, to a
\* closed session as well, and retention purges them.
Read1(j) ==
  /\ job[j].pc = "tier1" /\ job[j].todo # <<>> /\ ~job[j].err /\ ~job[j].cancelled
  /\ \/ job' = [job EXCEPT ![j].pc = "model1"] /\ UNCHANGED session
     \/ /\ job' = [job EXCEPT ![j].todo = Tail(@)]
        /\ MarkSummarised(Head(job[j].todo), "")
  /\ UNCHANGED <<ended, facts, unfinished, failures, history>>

\* BUG (a mutant of Model1): a token budget error ends the batch like any other.
Model1Abandon(j) ==
  /\ job[j].pc = "model1"
  /\ LET s == Head(job[j].todo)
     IN  IF s \in Huge \/ job[j].cancelled
         THEN job' = [job EXCEPT ![j].pc = "tier1", ![j].err = TRUE] /\ UNCHANGED session
         ELSE /\ job' = [job EXCEPT ![j].pc = "tier1", ![j].todo = Tail(@)]
              /\ MarkSummarised(s, "model")
  /\ UNCHANGED <<ended, facts, unfinished, failures, history>>

\* The model answers with text, or with none; it runs out of budget, on the
\* short slice too, and the session is given up with an empty summary; or the
\* call fails, after its retries or for good, and the batch with it.
Model1(j) ==
  /\ job[j].pc = "model1"
  /\ LET s == Head(job[j].todo)
     IN  \/ /\ ~job[j].cancelled
            /\ job' = [job EXCEPT ![j].pc = "tier1", ![j].todo = Tail(@)]
            /\ \/ s \notin Huge /\ MarkSummarised(s, "model")
               \/ MarkSummarised(s, "")
            /\ UNCHANGED failures
         \/ /\ \/ job[j].cancelled /\ UNCHANGED failures
               \/ ~job[j].cancelled /\ failures > 0 /\ failures' = failures - 1
            /\ job' = [job EXCEPT ![j].pc = "tier1", ![j].err = TRUE]
            /\ UNCHANGED session
  /\ UNCHANGED <<ended, facts, unfinished, history>>

\* BUG (a mutant of Finish1): the run is closed under the request's context.
Finish1Cancelled(j) ==
  /\ job[j].pc = "tier1"
  /\ job[j].todo = <<>> \/ job[j].err \/ job[j].cancelled
  /\ unfinished' = IF job[j].cancelled THEN unfinished ELSE unfinished - 1
  /\ AfterPass(j, 1, job[j].claimed, Tier1Batch, job[j].err)
  /\ UNCHANGED <<session, ended, facts, failures, due, dropped>>

\* FinishRun under context.WithoutCancel.
Finish1(j) ==
  /\ job[j].pc = "tier1"
  /\ job[j].todo = <<>> \/ job[j].err \/ job[j].cancelled
  /\ unfinished' = unfinished - 1
  /\ AfterPass(j, 1, job[j].claimed, Tier1Batch, job[j].err)
  /\ UNCHANGED <<session, ended, facts, failures, due, dropped>>

-----------------------------------------------------------------------------
(* Tier 2 *)

\* SessionsAwaitingFacts, grouped by project.  The summaries stay as read here.
Claim2(j) ==
  /\ job[j].pc = "claim2"
  /\ Waiting(j, {s \in Session : AwaitingFacts(s)})
  /\ LET batch  == SessionsAwaitingFacts
         Of(p)  == {<<s, session[s].summary>> : s \in {t \in batch : ProjectOf[t] = p}}
     IN  IF batch = {} \/ job[j].cancelled
         THEN AfterPass(j, 2, 0, Tier2Batch, job[j].cancelled)
         ELSE /\ job' = [job EXCEPT ![j].pc = "tier2",
                           ![j].groups = {Of(p) : p \in Range(Project)} \ {{}},
                           ![j].claimed = Cardinality(batch)]
              /\ outcome' = IF j \in Request THEN [outcome EXCEPT ![j] = NoOutcome] ELSE outcome
  /\ UNCHANGED <<session, ended, facts, unfinished, failures, dropped>>

\* extractForProject begins with StartRun.
Group2(j) ==
  /\ job[j].pc = "tier2" /\ ~job[j].cancelled
  /\ \E g \in job[j].groups :
       job' = [job EXCEPT ![j].pc = "model2", ![j].group = g, ![j].groups = @ \ {g}]
  /\ unfinished' = unfinished + 1
  /\ UNCHANGED <<session, ended, facts, failures, history>>

\* The deferred FinishRun, and on to the next group whatever came of this one.
EndGroup(j) ==
  /\ job' = [job EXCEPT ![j].pc = "tier2", ![j].group = {}, ![j].found = {}]
  /\ unfinished' = unfinished - 1

\* The model answers with one fact per summary, or with an error or a reply
\* that is not a list; then the group's error is only logged.
Model2(j) ==
  /\ job[j].pc = "model2"
  /\ \/ /\ ~job[j].cancelled
        /\ job' = [job EXCEPT ![j].pc = "facts", ![j].found = job[j].group]
        /\ UNCHANGED <<unfinished, failures>>
     \/ /\ \/ job[j].cancelled /\ UNCHANGED failures
           \/ ~job[j].cancelled /\ failures > 0 /\ failures' = failures - 1
        /\ EndGroup(j)
  /\ UNCHANGED <<session, ended, facts, history>>

\* Reinforce, or CreateMemory and its error only logged.
StoreFact2(j) ==
  /\ job[j].pc = "facts"
  /\ \E f \in job[j].found :
       /\ job' = [job EXCEPT ![j].found = @ \ {f}]
       /\ \/ /\ facts' = IF job[j].cancelled THEN facts ELSE facts \cup {f}
             /\ UNCHANGED <<failures, dropped>>
          \/ /\ ~job[j].cancelled /\ failures > 0 /\ failures' = failures - 1
             /\ dropped' = dropped \cup {f} /\ UNCHANGED facts
  /\ UNCHANGED <<session, ended, unfinished, due, outcome>>

\* BUG (a mutant of Mark2): the watermark is written under WithoutCancel too.
Mark2Always(j) ==
  /\ job[j].pc = "facts" /\ job[j].found = {}
  /\ session' = [s \in Session |->
       IF \E x \in job[j].group : x[1] = s
       THEN [session[s] EXCEPT !.extracted = TRUE] ELSE session[s]]
  /\ EndGroup(j)
  /\ UNCHANGED <<ended, facts, failures, history>>

\* MarkFactsExtracted, which a cancelled context fails.
Mark2(j) ==
  /\ job[j].pc = "facts" /\ job[j].found = {}
  /\ session' = [s \in Session |->
       IF ~job[j].cancelled /\ \E x \in job[j].group : x[1] = s
       THEN [session[s] EXCEPT !.extracted = TRUE] ELSE session[s]]
  /\ EndGroup(j)
  /\ UNCHANGED <<ended, facts, failures, history>>

\* The batch is over, or the context is cancelled between two groups.
Finish2(j) ==
  /\ job[j].pc = "tier2"
  /\ job[j].groups = {} \/ job[j].cancelled
  /\ AfterPass(j, 2, job[j].claimed, Tier2Batch, job[j].groups # {})
  /\ UNCHANGED <<session, ended, facts, unfinished, failures, due, dropped>>

-----------------------------------------------------------------------------
(* The clients, cancellation and crashes *)

\* A session can be ended again, and takes its place in the queue anew.
EndSession(s, summary) ==
  /\ session' = [session EXCEPT ![s].ended = TRUE,
                   ![s].summary = IF summary = NoSummary THEN @ ELSE summary]
  /\ ended' = Append(Without(ended, {s}), s)
  /\ UNCHANGED <<facts, unfinished, job, failures, history>>

\* The client of an on-demand run goes away.
Cancel(r) ==
  /\ job[r].pc # "done" /\ ~job[r].cancelled
  /\ job' = [job EXCEPT ![r].cancelled = TRUE]
  /\ UNCHANGED <<session, ended, facts, unfinished, failures, history>>

InRun(j) == job[j].pc \in {"tier1", "model1", "model2", "facts"}

\* The server stops, in the middle of what it does, and starts again.  The rows it
\* leaves open are its predecessor's then: Progress takes them for dead after
\* 30 minutes.
Crash ==
  /\ failures > 0 /\ failures' = failures - 1
  /\ job' = [j \in Job |-> Fresh(IF j \in Scheduled THEN Start(j) ELSE "done")]
  /\ unfinished' = 0
  /\ due' = [r \in Request |-> {}] /\ outcome' = [r \in Request |-> NoOutcome]
  /\ UNCHANGED <<session, ended, facts, dropped>>

-----------------------------------------------------------------------------
Init ==
  /\ session = [s \in Session |-> [ended |-> FALSE, summary |-> NoSummary,
                  summarised |-> FALSE, extracted |-> FALSE]]
  /\ ended = <<>> /\ facts = {} /\ unfinished = 0
  /\ job = [j \in Job |-> Fresh(Start(j))]
  /\ failures = MaxFailures
  /\ due = [r \in Request |-> {}]
  /\ outcome = [r \in Request |-> NoOutcome]
  /\ dropped = {}

Tier1(j) == Claim1(j) \/ Read1(j) \/ Model1(j) \/ Finish1(j)
Tier2(j) ==
  Claim2(j) \/ Group2(j) \/ Model2(j) \/ StoreFact2(j) \/ Mark2(j) \/ Finish2(j)

Next ==
  \/ \E j \in Job : Tier1(j) \/ Tier2(j)
  \/ \E s \in Session :
       \E summary \in {NoSummary, "client"} : EndSession(s, summary)
  \/ \E r \in Request : Cancel(r)
  \/ Crash

Spec == Init /\ [][Next]_vars

\* The two scheduled loops go on; clients and requests need not.
FairSpec == Spec /\ WF_vars(Tier1("tier1")) /\ WF_vars(Tier2("tier2"))

-----------------------------------------------------------------------------
(* What the pipeline promises *)

\* A run row without finished_at is a run in progress, unless the server was
\* cut off: no error, cancelled request or given-up session leaves one behind.
RunsClosed ==
  unfinished = Cardinality({j \in Job : InRun(j)})

\* A session counts as read for facts only when a fact of it is stored,
\* whatever is cancelled, crashes or runs beside it between the two writes; a
\* failed insert is the one way to lose what the model found.
ExtractedIsStored ==
  \A s \in Session : session[s].extracted => \E f \in facts \cup dropped : f[1] = s

\* A tier 1 drain that ends with nothing to report has summarised every
\* session it found waiting, however many batches that took, if its client is
\* still there to be told.
DrainedTier1 ==
  \A r \in Request : outcome[r] = <<1, "drained">> /\ ~job[r].cancelled =>
    \A s \in due[r] : session[s].summarised

\* What a pass reports and marks as read it has done.
PassesSound == ExtractedIsStored /\ DrainedTier1

\* Every closed session leaves the tier 1 queue, a session no model can
\* summarise included, and so do those behind it.
EndedIsSummarised ==
  \A s \in Session : session[s].ended ~> session[s].summarised

\* Every summary with text in it is read for facts in the end, although a
\* group of the batch fails and its error goes no further than the log, unless
\* a tier 1 pass that overlapped the first one blanks it before.
SummaryIsRead ==
  \A s \in Session :
    session[s].summarised /\ session[s].summary \in {"client", "model"}
      ~> session[s].extracted \/ session[s].summary = ""
=============================================================================
