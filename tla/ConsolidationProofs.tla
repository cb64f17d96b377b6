------------------------ MODULE ConsolidationProofs ------------------------
(* Machine-checked proofs about Consolidation, for any sessions, projects,  *)
(* requests, batch sizes and ceilings, and any number of failures.          *)
EXTENDS Consolidation, SublistProofs

-----------------------------------------------------------------------------
(* Types *)

SessionRow == [ended : BOOLEAN, summary : Summary, summarised : BOOLEAN, extracted : BOOLEAN]
Fact == Session \X Summary
JobPc == {"claim1", "tier1", "model1", "claim2", "tier2", "model2", "facts", "done"}
JobState ==
  [pc : JobPc, todo : Seq(Session), claimed : Nat, groups : SUBSET SUBSET Fact,
   group : SUBSET Fact, found : SUBSET Fact, err : BOOLEAN, batches : Nat, cancelled : BOOLEAN]
Outcome == {NoOutcome} \cup ({1, 2} \X {"error", "drained", "ceiling"})

TypeOK ==
  /\ session \in [Session -> SessionRow] /\ ended \in Seq(Session)
  /\ facts \subseteq Fact /\ dropped \subseteq Fact
  /\ unfinished \in Nat /\ failures \in Nat
  /\ job \in [Job -> JobState]
  /\ due \in [Request -> SUBSET Session]
  /\ outcome \in [Request -> Outcome]
  /\ \A j \in Job : job[j].pc = "model1" => job[j].todo # <<>>

-----------------------------------------------------------------------------
(* What a job that reads summaries still has to store, and what a drain     *)
(* still has to summarise                                                   *)

\* What the model found in a group is stored, dropped or in hand.
InHand ==
  \A j \in Job : job[j].pc = "facts" /\ ~job[j].cancelled =>
    job[j].group \subseteq facts \cup dropped \cup job[j].found

\* The query over the sessions table sees every closed session.
Queued == \A s \in Session : session[s].ended => s \in ToSet(ended)

\* What a drain found waiting is closed, or has been dealt with since.
DueClosed ==
  \A r \in Request : \A s \in due[r] : session[s].ended \/ session[s].summarised

InTier1(r) == job[r].pc \in {"claim1", "tier1", "model1"}
InBatch1(r) == job[r].pc \in {"tier1", "model1"}

\* A tier 1 drain has reported nothing yet, and a batch that was not full holds
\* all that is left of what the drain found waiting.
Draining ==
  \A r \in Request :
    /\ InTier1(r) => outcome[r] = NoOutcome
    /\ InBatch1(r) /\ PartialBatch(job[r].claimed, Tier1Batch) =>
         \A s \in due[r] : session[s].summarised \/ s \in ToSet(job[r].todo)

WorkerInv ==
  /\ TypeOK /\ RunsClosed
  /\ InHand /\ ExtractedIsStored
  /\ Queued /\ DueClosed /\ Draining /\ DrainedTier1

-----------------------------------------------------------------------------
(* Lists of sessions *)

\* A session that is ended again goes to the end of the queue, and the others stay.
LEMMA Requeued ==
  ASSUME NEW list \in Seq(Session), NEW s \in Session
  PROVE  /\ Append(Without(list, {s}), s) \in Seq(Session)
         /\ ToSet(list) \cup {s} \subseteq ToSet(Append(Without(list, {s}), s))
<1>1. Without(list, {s}) \in Seq(Session) /\ ToSet(Without(list, {s})) = ToSet(list) \ {s}
  BY WithoutMembers
<1> QED BY <1>1, AppendedMember

\* A batch that is not full holds every session the query was after.
LEMMA BatchHolds ==
  ASSUME TypeOK, Queued
  PROVE  /\ SessionsAwaitingSummary \in Seq(Session)
         /\ PartialBatch(Len(SessionsAwaitingSummary), Tier1Batch) =>
              \A s \in Session : AwaitingSummary(s) => s \in ToSet(SessionsAwaitingSummary)
<1> DEFINE rest == {s \in Session : ~AwaitingSummary(s)}
           all == Without(ended, rest)
<1>1. all \in Seq(Session) /\ ToSet(all) = ToSet(ended) \ rest
  BY WithoutMembers DEF TypeOK
<1>2. SessionsAwaitingSummary =
        SubSeq(all, 1, IF Len(all) < Tier1Batch THEN Len(all) ELSE Tier1Batch)
  BY DEF SessionsAwaitingSummary, Limit
<1> HIDE DEF all
<1>3. SessionsAwaitingSummary \in Seq(Session)
  BY <1>1, <1>2, BatchAssumption
<1>4. PartialBatch(Len(SessionsAwaitingSummary), Tier1Batch) => SessionsAwaitingSummary = all
  BY <1>1, <1>2, BatchAssumption DEF PartialBatch
<1>5. \A s \in Session : AwaitingSummary(s) => s \in ToSet(all)
  BY <1>1 DEF Queued, AwaitingSummary
<1> QED BY <1>3, <1>4, <1>5

-----------------------------------------------------------------------------
(* Open runs are counted *)

RunPc == {"tier1", "model1", "model2", "facts"}

\* A job that opens a run, closes the one it has or does neither, in step with
\* the table.
LEMMA RunsCounted ==
  ASSUME TypeOK, RunsClosed, NEW j \in Job, NEW state \in JobState,
         job' = [job EXCEPT ![j] = state],
         \/ unfinished' = unfinished /\ (InRun(j) <=> state.pc \in RunPc)
         \/ unfinished' = unfinished + 1 /\ ~InRun(j) /\ state.pc \in RunPc
         \/ unfinished' = unfinished - 1 /\ InRun(j) /\ state.pc \notin RunPc
  PROVE  RunsClosed' /\ unfinished' \in Nat
<1> DEFINE open == {i \in Job : InRun(i)}
           after == {i \in Job : job'[i].pc \in RunPc}
<1>1. \A i \in Job : job'[i] = IF i = j THEN state ELSE job[i]
  BY DEF TypeOK
<1>2. unfinished = Cardinality(open) /\ unfinished \in Nat
  BY DEF RunsClosed, TypeOK
<1>3. IsFiniteSet(Job)
  <2>1. Scheduled = {"tier1"} \cup {"tier2"}
    BY DEF Scheduled
  <2>2. IsFiniteSet(Scheduled)
    BY <2>1, FS_Singleton, FS_Union
  <2> QED BY <2>2, RequestAssumption, FS_Union DEF Job
<1>4. IsFiniteSet(open)
  BY <1>3, FS_Subset
<1>5. RunsClosed' <=> unfinished' = Cardinality(after)
  BY DEF RunsClosed, InRun, RunPc
<1>6. CASE unfinished' = unfinished /\ (InRun(j) <=> state.pc \in RunPc)
  <2>1. after = open
    BY <1>1, <1>6 DEF InRun, RunPc
  <2> QED BY <1>2, <1>5, <1>6, <2>1
<1>7. CASE unfinished' = unfinished + 1 /\ ~InRun(j) /\ state.pc \in RunPc
  <2>1. after = open \cup {j} /\ j \notin open
    BY <1>1, <1>7 DEF InRun, RunPc
  <2>2. Cardinality(after) = Cardinality(open) + 1
    BY <1>4, <2>1, FS_AddElement
  <2> QED BY <1>2, <1>5, <1>7, <2>2
<1>8. CASE unfinished' = unfinished - 1 /\ InRun(j) /\ state.pc \notin RunPc
  <2>1. after = open \ {j} /\ j \in open
    BY <1>1, <1>8 DEF InRun, RunPc
  <2>2. Cardinality(after) = Cardinality(open) - 1 /\ IsFiniteSet(after)
    BY <1>4, <2>1, FS_RemoveElement
  <2>3. Cardinality(after) \in Nat
    BY <2>2, FS_CardinalityType
  <2> QED BY <1>2, <1>5, <1>8, <2>2, <2>3
<1> QED BY <1>6, <1>7, <1>8

-----------------------------------------------------------------------------
(* How a pass ends *)

LEMMA NotDrained == NoOutcome # <<1, "drained">>
<1>1. NoOutcome[1] = 0 /\ <<1, "drained">>[1] = 1
  BY DEF NoOutcome
<1> QED BY <1>1

LEMMA BetweenState ==
  \A pc \in JobPc, n \in Nat, cancelled \in BOOLEAN :
    /\ Between(pc, n, cancelled) \in JobState
    /\ Between(pc, n, cancelled).pc = pc /\ Between(pc, n, cancelled).cancelled = cancelled
BY DEF Between, JobState, JobPc

LEMMA FreshState == \A pc \in JobPc : Fresh(pc) \in JobState /\ Fresh(pc).pc = pc
BY DEF Fresh, Between, JobState

LEMMA PassEnds ==
  ASSUME TypeOK, NEW j \in Job, NEW tier \in {1, 2}, NEW n \in Nat, NEW batch \in Nat,
         NEW err, AfterPass(j, tier, n, batch, err)
  PROVE  \E state \in JobState :
           /\ job' = [job EXCEPT ![j] = state] /\ state.cancelled = job[j].cancelled
           /\ state.pc \in {"claim1", "claim2", "done"}
           /\ tier = 2 => state.pc \in {"claim2", "done"}
           /\ \/ UNCHANGED outcome
              \/ /\ j \in Request /\ state.pc \in {"claim2", "done"}
                 /\ \E how \in {"error", "drained", "ceiling"} :
                      /\ outcome' = [outcome EXCEPT ![j] = <<tier, how>>]
                      /\ how = "drained" => ~err /\ PartialBatch(n, batch)
<1> DEFINE cancelled == job[j].cancelled
           claim == IF tier = 1 THEN "claim1" ELSE "claim2"
           over == IF tier = 1 /\ 2 \in Tiers /\ ~cancelled THEN "claim2" ELSE "done"
           State(pc, k) == Between(pc, k, cancelled)
           how == IF err THEN "error" ELSE IF PartialBatch(n, batch) THEN "drained"
                  ELSE IF cancelled THEN "error" ELSE "ceiling"
<1>1. cancelled \in BOOLEAN /\ job[j].batches \in Nat
  BY DEF TypeOK, JobState
<1>2. claim \in {"claim1", "claim2"} /\ (tier = 2 => claim = "claim2")
      /\ over \in {"claim2", "done"}
  OBVIOUS
<1>3. \A pc \in {"claim1", "claim2", "done"}, k \in Nat :
        State(pc, k) \in JobState /\ State(pc, k).pc = pc /\ State(pc, k).cancelled = cancelled
  BY <1>1, BetweenState DEF JobPc
<1>4. \/ job' = [job EXCEPT ![j] = State(claim, 0)] /\ UNCHANGED outcome
      \/ job' = [job EXCEPT ![j] = State(claim, job[j].batches + 1)] /\ UNCHANGED outcome
      \/ /\ j \in Request /\ job' = [job EXCEPT ![j] = State(over, 0)]
         /\ outcome' = [outcome EXCEPT ![j] =
                          IF err THEN <<tier, "error">>
                          ELSE IF PartialBatch(n, batch) THEN <<tier, "drained">>
                          ELSE IF cancelled THEN <<tier, "error">> ELSE <<tier, "ceiling">>]
  BY Zenon DEF AfterPass, Job
<1>5. 0 \in Nat /\ job[j].batches + 1 \in Nat
  BY <1>1
<1> HIDE DEF State, claim, over, cancelled
<1>6. CASE job' = [job EXCEPT ![j] = State(claim, 0)] /\ UNCHANGED outcome
  BY <1>2, <1>3, <1>5, <1>6 DEF cancelled
<1>7. CASE job' = [job EXCEPT ![j] = State(claim, job[j].batches + 1)] /\ UNCHANGED outcome
  BY <1>2, <1>3, <1>5, <1>7 DEF cancelled
<1>8. CASE /\ j \in Request /\ job' = [job EXCEPT ![j] = State(over, 0)]
           /\ outcome' = [outcome EXCEPT ![j] =
                            IF err THEN <<tier, "error">>
                            ELSE IF PartialBatch(n, batch) THEN <<tier, "drained">>
                            ELSE IF cancelled THEN <<tier, "error">> ELSE <<tier, "ceiling">>]
  <2>1. how \in {"error", "drained", "ceiling"} /\ (how = "drained" => ~err /\ PartialBatch(n, batch))
    OBVIOUS
  <2>2. outcome' = [outcome EXCEPT ![j] = <<tier, how>>]
    BY <1>8
  <2> HIDE DEF how
  <2> QED BY <1>2, <1>3, <1>5, <1>8, <2>1, <2>2 DEF cancelled
<1> QED BY <1>4, <1>6, <1>7, <1>8

-----------------------------------------------------------------------------
(* What a step of one job must see to *)

\* The tables only gain: nothing that was stored or marked is taken back, and a
\* mark that facts are extracted comes after them.
Grows ==
  /\ session' \in [Session -> SessionRow] /\ ended' = ended /\ failures' \in Nat
  /\ facts \subseteq facts' /\ facts' \subseteq Fact
  /\ dropped \subseteq dropped' /\ dropped' \subseteq Fact
  /\ \A s \in Session :
       /\ session'[s].ended = session[s].ended
       /\ session[s].summarised => session'[s].summarised
       /\ session'[s].extracted =>
            session[s].extracted \/ \E f \in facts \cup dropped : f[1] = s

\* What job j, in its new state, has noted and reported.
Reports(j, state) ==
  /\ due' \in [Request -> SUBSET Session] /\ outcome' \in [Request -> Outcome]
  /\ \A r \in Request \ {j} : due'[r] = due[r] /\ outcome'[r] = outcome[r]
  /\ j \in Request =>
       /\ \A s \in due'[j] : session'[s].ended \/ session'[s].summarised
       /\ state.pc \in {"claim1", "tier1", "model1"} => outcome'[j] = NoOutcome
       /\ state.pc \in {"tier1", "model1"} /\ PartialBatch(state.claimed, Tier1Batch) =>
            \A s \in due'[j] : session'[s].summarised \/ s \in ToSet(state.todo)
       /\ outcome'[j] = <<1, "drained">> /\ ~state.cancelled =>
            \A s \in due'[j] : session'[s].summarised

HoldsSound(state) ==
  /\ state.pc = "model1" => state.todo # <<>>
  /\ state.pc = "facts" /\ ~state.cancelled =>
       state.group \subseteq facts' \cup dropped' \cup state.found

LEMMA JobStep ==
  ASSUME WorkerInv, NEW j \in Job, NEW state \in JobState, job' = [job EXCEPT ![j] = state],
         Grows, Reports(j, state), HoldsSound(state),
         \/ unfinished' = unfinished /\ (InRun(j) <=> state.pc \in RunPc)
         \/ unfinished' = unfinished + 1 /\ ~InRun(j) /\ state.pc \in RunPc
         \/ unfinished' = unfinished - 1 /\ InRun(j) /\ state.pc \notin RunPc
  PROVE  WorkerInv'
<1> USE DEF WorkerInv
<1>1. RunsClosed' /\ unfinished' \in Nat
  BY RunsCounted
<1>2. job' \in [Job -> JobState] /\ \A i \in Job : job'[i] = IF i = j THEN state ELSE job[i]
  BY DEF TypeOK
<1>3. TypeOK'
  BY <1>1, <1>2 DEF TypeOK, Grows, Reports, HoldsSound
<1>4. InHand'
  BY <1>2 DEF InHand, HoldsSound, Grows
<1>5. ExtractedIsStored'
  BY DEF ExtractedIsStored, Grows
<1>6. Queued'
  BY DEF Queued, Grows
<1>7. \A r \in Request : r \in Job /\ due[r] \subseteq Session
  BY DEF TypeOK, Job
<1>8. DueClosed'
  BY <1>7 DEF DueClosed, Reports, Grows
<1>9. Draining'
  <2>1. SUFFICES ASSUME NEW r \in Request
                 PROVE  /\ InTier1(r)' => outcome'[r] = NoOutcome
                        /\ InBatch1(r)' /\ PartialBatch(job'[r].claimed, Tier1Batch) =>
                             \A s \in due'[r] : session'[s].summarised \/ s \in ToSet(job'[r].todo)
    BY DEF Draining
  <2>2. CASE r = j
    BY <1>2, <2>2 DEF Reports, InTier1, InBatch1
  <2>3. CASE r # j
    <3>1. job'[r] = job[r] /\ due'[r] = due[r] /\ outcome'[r] = outcome[r]
      BY <1>2, <1>7, <2>3 DEF Reports
    <3> QED BY <1>7, <3>1 DEF Draining, InTier1, InBatch1, Grows
  <2> QED BY <2>2, <2>3
<1>10. DrainedTier1'
  <2>1. SUFFICES ASSUME NEW r \in Request, outcome'[r] = <<1, "drained">>, ~job'[r].cancelled
                 PROVE  \A s \in due'[r] : session'[s].summarised
    BY DEF DrainedTier1
  <2>2. CASE r = j
    BY <1>2, <2>1, <2>2 DEF Reports
  <2>3. CASE r # j
    <3>1. job'[r] = job[r] /\ due'[r] = due[r] /\ outcome'[r] = outcome[r]
      BY <1>2, <1>7, <2>3 DEF Reports
    <3> QED BY <1>7, <2>1, <3>1 DEF DrainedTier1, Grows
  <2> QED BY <2>2, <2>3
<1> QED BY <1>1, <1>3, <1>4, <1>5, <1>6, <1>8, <1>9, <1>10

\* A step inside a pass reports nothing, and takes a session off its batch only
\* when it is dealt with.
LEMMA SilentReports ==
  ASSUME WorkerInv, NEW j \in Job, NEW state \in JobState, Grows, UNCHANGED <<due, outcome>>,
         state.cancelled = job[j].cancelled,
         state.pc \in {"tier1", "model1"} =>
           /\ InBatch1(j) /\ state.claimed = job[j].claimed
           /\ \A s \in ToSet(job[j].todo) : s \in ToSet(state.todo) \/ session'[s].summarised,
         state.pc # "claim1"
  PROVE  Reports(j, state)
<1> USE DEF WorkerInv
<1>1. due \in [Request -> SUBSET Session] /\ outcome \in [Request -> Outcome]
  BY DEF TypeOK
<1>2. CASE j \in Request
  <2>1. \A s \in due[j] : session'[s].ended \/ session'[s].summarised
    BY <1>1, <1>2 DEF DueClosed, Grows
  <2>2. state.pc \in {"tier1", "model1"} => outcome[j] = NoOutcome
    BY <1>2 DEF Draining, InTier1, InBatch1
  <2>3. state.pc \in {"tier1", "model1"} /\ PartialBatch(state.claimed, Tier1Batch) =>
          \A s \in due[j] : session'[s].summarised \/ s \in ToSet(state.todo)
    BY <1>1, <1>2 DEF Draining, Grows
  <2>4. outcome[j] = <<1, "drained">> /\ ~state.cancelled => \A s \in due[j] : session'[s].summarised
    BY <1>1, <1>2 DEF DrainedTier1, Grows
  <2> QED BY <1>1, <2>1, <2>2, <2>3, <2>4 DEF Reports
<1>3. CASE j \notin Request
  BY <1>1, <1>3 DEF Reports
<1> QED BY <1>2, <1>3

\* Marking a session as summarised disturbs nothing else.
LEMMA MarkedGrows ==
  ASSUME TypeOK, NEW s \in Session, NEW text \in Summary, MarkSummarised(s, text),
         UNCHANGED <<ended, facts, dropped>>, failures' \in Nat
  PROVE  Grows /\ session'[s].summarised
<1> DEFINE marked == [session[s] EXCEPT !.summary = text, !.summarised = TRUE]
<1>1. session' = [session EXCEPT ![s] = marked]
  BY DEF MarkSummarised, TypeOK, SessionRow
<1>2. /\ marked \in SessionRow /\ marked.summarised = TRUE
      /\ marked.ended = session[s].ended /\ marked.extracted = session[s].extracted
  BY DEF TypeOK, SessionRow
<1> HIDE DEF marked
<1> QED BY <1>1, <1>2 DEF Grows, TypeOK

LEMMA NothingGrows ==
  ASSUME TypeOK, UNCHANGED <<session, ended, facts, dropped>>, failures' \in Nat
  PROVE  Grows
BY DEF Grows, TypeOK

-----------------------------------------------------------------------------
(* Tier 1 *)

LEMMA TypeFacts ==
  ASSUME TypeOK
  PROVE  /\ failures \in Nat /\ unfinished \in Nat /\ \A j \in Job : job[j] \in JobState
         /\ session \in [Session -> SessionRow] /\ job \in [Job -> JobState]
BY DEF TypeOK

LEMMA Read1Keeps ==
  ASSUME WorkerInv, NEW j \in Job, Read1(j)
  PROVE  WorkerInv'
<1> USE DEF WorkerInv
<1>1. /\ job[j].pc = "tier1" /\ job[j].todo # <<>> /\ job[j] \in JobState /\ failures \in Nat
      /\ UNCHANGED <<ended, facts, unfinished, failures, due, outcome, dropped>>
  BY TypeFacts DEF Read1, history
<1>2. CASE job' = [job EXCEPT ![j].pc = "model1"] /\ UNCHANGED session
  <2> DEFINE state == [job[j] EXCEPT !.pc = "model1"]
  <2>1. job' = [job EXCEPT ![j] = state]
    BY <1>2, TypeFacts
  <2>2. /\ state \in JobState /\ state.pc = "model1" /\ state.todo = job[j].todo
        /\ state.claimed = job[j].claimed /\ state.cancelled = job[j].cancelled
    BY <1>1 DEF JobState, JobPc
  <2> HIDE DEF state
  <2>3. Grows
    BY <1>1, <1>2, NothingGrows
  <2>4. Reports(j, state)
    BY <1>1, <2>2, <2>3, SilentReports DEF InBatch1
  <2> QED BY <1>1, <2>1, <2>2, <2>3, <2>4, JobStep DEF HoldsSound, InRun, RunPc
<1>3. CASE job' = [job EXCEPT ![j].todo = Tail(@)] /\ MarkSummarised(Head(job[j].todo), "")
  <2> DEFINE state == [job[j] EXCEPT !.todo = Tail(job[j].todo)]
             s == Head(job[j].todo)
  <2>1. job' = [job EXCEPT ![j] = state]
    BY <1>3, TypeFacts
  <2>2. /\ s \in Session /\ Tail(job[j].todo) \in Seq(Session)
        /\ \A t \in ToSet(job[j].todo) : t = s \/ t \in ToSet(Tail(job[j].todo))
    BY <1>1, HeadOrTail DEF JobState
  <2>3. /\ state \in JobState /\ state.pc = "tier1" /\ state.todo = Tail(job[j].todo)
        /\ state.claimed = job[j].claimed /\ state.cancelled = job[j].cancelled
    BY <1>1, <2>2 DEF JobState
  <2>4. Grows /\ session'[s].summarised
    BY <1>1, <1>3, <2>2, MarkedGrows DEF Summary
  <2> HIDE DEF state, s
  <2>5. Reports(j, state)
    BY <1>1, <2>2, <2>3, <2>4, SilentReports DEF InBatch1
  <2> QED BY <1>1, <2>1, <2>3, <2>4, <2>5, JobStep DEF HoldsSound, InRun, RunPc
<1> QED BY <1>2, <1>3 DEF Read1

LEMMA Model1Keeps ==
  ASSUME WorkerInv, NEW j \in Job, Model1(j)
  PROVE  WorkerInv'
<1> USE DEF WorkerInv
<1> DEFINE s == Head(job[j].todo)
<1>1. /\ job[j].pc = "model1" /\ job[j] \in JobState /\ failures \in Nat
      /\ UNCHANGED <<ended, facts, unfinished, due, outcome, dropped>>
  BY TypeFacts DEF Model1, history
<1>2. job[j].todo # <<>>
  BY <1>1 DEF TypeOK
<1>3. /\ s \in Session /\ Tail(job[j].todo) \in Seq(Session)
      /\ \A t \in ToSet(job[j].todo) : t = s \/ t \in ToSet(Tail(job[j].todo))
  BY <1>1, <1>2, HeadOrTail DEF JobState
<1>4. ASSUME job' = [job EXCEPT ![j].pc = "tier1", ![j].todo = Tail(@)], UNCHANGED failures,
             NEW text \in Summary, MarkSummarised(s, text)
      PROVE  WorkerInv'
  <2> DEFINE state == [job[j] EXCEPT !.pc = "tier1", !.todo = Tail(job[j].todo)]
  <2>1. job' = [job EXCEPT ![j] = state]
    BY <1>4, TypeFacts DEF JobState
  <2>2. /\ state \in JobState /\ state.pc = "tier1" /\ state.todo = Tail(job[j].todo)
        /\ state.claimed = job[j].claimed /\ state.cancelled = job[j].cancelled
    BY <1>1, <1>3 DEF JobState, JobPc
  <2>3. Grows /\ session'[s].summarised
    BY <1>1, <1>3, <1>4, MarkedGrows
  <2> HIDE DEF state, s
  <2>4. Reports(j, state)
    BY <1>1, <1>3, <2>2, <2>3, SilentReports DEF InBatch1
  <2> QED BY <1>1, <2>1, <2>2, <2>3, <2>4, JobStep DEF HoldsSound, InRun, RunPc
<1>5. ASSUME job' = [job EXCEPT ![j].pc = "tier1", ![j].err = TRUE], UNCHANGED session,
             failures' \in Nat
      PROVE  WorkerInv'
  <2> DEFINE state == [job[j] EXCEPT !.pc = "tier1", !.err = TRUE]
  <2>1. job' = [job EXCEPT ![j] = state]
    BY <1>5, TypeFacts DEF JobState
  <2>2. /\ state \in JobState /\ state.pc = "tier1" /\ state.todo = job[j].todo
        /\ state.claimed = job[j].claimed /\ state.cancelled = job[j].cancelled
    BY <1>1 DEF JobState, JobPc
  <2> HIDE DEF state
  <2>3. Grows
    BY <1>1, <1>5, NothingGrows
  <2>4. Reports(j, state)
    BY <1>1, <2>2, <2>3, SilentReports DEF InBatch1
  <2> QED BY <1>1, <2>1, <2>2, <2>3, <2>4, JobStep DEF HoldsSound, InRun, RunPc
<1>6. "model" \in Summary /\ "" \in Summary
  BY DEF Summary
<1>7. \/ /\ job' = [job EXCEPT ![j].pc = "tier1", ![j].todo = Tail(@)] /\ UNCHANGED failures
         /\ MarkSummarised(s, "model") \/ MarkSummarised(s, "")
      \/ /\ job' = [job EXCEPT ![j].pc = "tier1", ![j].err = TRUE] /\ UNCHANGED session
         /\ failures' = failures \/ (failures > 0 /\ failures' = failures - 1)
  BY Zenon DEF Model1
<1>8. failures' = failures \/ (failures > 0 /\ failures' = failures - 1) => failures' \in Nat
  BY <1>1
<1> HIDE DEF WorkerInv
<1> QED BY <1>4, <1>5, <1>6, <1>7, <1>8

\* A batch is claimed, or there is none and the pass ends.
LEMMA Claim1Keeps ==
  ASSUME WorkerInv, NEW j \in Job, Claim1(j)
  PROVE  WorkerInv'
<1> USE DEF WorkerInv
<1> DEFINE batch == SessionsAwaitingSummary
           waiting == {s \in Session : AwaitingSummary(s)}
<1>1. /\ job[j].pc = "claim1" /\ job[j] \in JobState /\ failures \in Nat /\ unfinished \in Nat
      /\ UNCHANGED <<session, ended, facts, failures, dropped>>
      /\ due' = IF j \in Request /\ job[j].batches = 0 THEN [due EXCEPT ![j] = waiting] ELSE due
  BY TypeFacts DEF Claim1, Waiting
<1>2. /\ batch \in Seq(Session)
      /\ PartialBatch(Len(batch), Tier1Batch) => \A s \in waiting : s \in ToSet(batch)
  BY BatchHolds
<1>3. Grows
  BY <1>1, NothingGrows
<1>4. /\ due' \in [Request -> SUBSET Session]
      /\ \A r \in Request \ {j} : due'[r] = due[r]
      /\ j \in Request => \A s \in due'[j] : session'[s].ended \/ session'[s].summarised
  <2>1. due \in [Request -> SUBSET Session] /\ waiting \in SUBSET Session
    BY DEF TypeOK
  <2>2. \A s \in waiting : session[s].ended
    BY DEF AwaitingSummary
  <2> HIDE DEF waiting
  <2> QED BY <1>1, <2>1, <2>2 DEF DueClosed
\* Whatever the drain has found, now or before, is in the queue unless it is summarised.
<1>5. j \in Request => \A s \in due'[j] : session'[s].summarised \/ s \in waiting
  BY <1>1, <1>4 DEF AwaitingSummary
<1>6. outcome \in [Request -> Outcome] /\ (j \in Request => outcome[j] = NoOutcome)
  BY <1>1 DEF TypeOK, Draining, InTier1
<1>7. CASE batch = <<>> \/ job[j].cancelled
  <2>1. AfterPass(j, 1, 0, Tier1Batch, job[j].cancelled) /\ UNCHANGED unfinished
    BY <1>7, Zenon DEF Claim1
  <2>2. 0 \in Nat /\ 1 \in {1, 2} /\ Tier1Batch \in Nat
    BY BatchAssumption
  <2>3. PICK state \in JobState :
           /\ job' = [job EXCEPT ![j] = state] /\ state.cancelled = job[j].cancelled
           /\ state.pc \in {"claim1", "claim2", "done"}
           /\ \/ UNCHANGED outcome
              \/ /\ j \in Request /\ state.pc \in {"claim2", "done"}
                 /\ \E how \in {"error", "drained", "ceiling"} :
                      /\ outcome' = [outcome EXCEPT ![j] = <<1, how>>]
                      /\ how = "drained" => ~job[j].cancelled /\ PartialBatch(0, Tier1Batch)
    BY <2>1, <2>2, PassEnds
  <2>4. outcome' \in [Request -> Outcome] /\ \A r \in Request \ {j} : outcome'[r] = outcome[r]
    BY <1>6, <2>3 DEF Outcome
  <2>5. j \in Request /\ state.pc = "claim1" => outcome'[j] = NoOutcome
    BY <1>6, <2>3
  <2>6. ASSUME j \in Request, outcome'[j] = <<1, "drained">>
        PROVE  \A s \in due'[j] : session'[s].summarised
    <3>1. ~job[j].cancelled
      <4>1. outcome'[j] # outcome[j]
        BY <1>6, <2>6, NotDrained
      <4> QED BY <1>6, <2>3, <2>6, <4>1
    <3>2. batch = <<>>
      BY <1>7, <3>1
    <3>3. Len(batch) = 0 /\ ToSet(batch) = {}
      BY <3>2 DEF ToSet
    <3>4. waiting = {}
      BY <1>2, <3>3, BatchAssumption DEF PartialBatch
    <3> QED BY <1>5, <2>6, <3>4
  <2>7. Reports(j, state)
    BY <1>4, <2>3, <2>4, <2>5, <2>6 DEF Reports
  <2> QED BY <1>1, <1>3, <2>1, <2>3, <2>7, JobStep DEF HoldsSound, InRun, RunPc
<1>8. CASE ~(batch = <<>> \/ job[j].cancelled)
  <2> DEFINE state == [job[j] EXCEPT !.pc = "tier1", !.todo = batch, !.claimed = Len(batch)]
  <2>1. /\ job' = [job EXCEPT ![j].pc = "tier1", ![j].todo = batch, ![j].claimed = Len(batch)]
        /\ unfinished' = unfinished + 1 /\ UNCHANGED outcome
    BY <1>8, Zenon DEF Claim1
  <2>2. Len(batch) \in Nat
    BY <1>2
  <2> HIDE DEF batch
  <2>3. job' = [job EXCEPT ![j] = state]
    BY <2>1, TypeFacts DEF JobState
  <2>4. /\ state \in JobState /\ state.pc = "tier1" /\ state.todo = batch
        /\ state.claimed = Len(batch) /\ state.cancelled = job[j].cancelled
    BY <1>1, <1>2, <2>2 DEF JobState, JobPc
  <2> HIDE DEF state
  <2>5. j \in Request => outcome'[j] = NoOutcome /\ outcome'[j] # <<1, "drained">>
    BY <1>6, <2>1, NotDrained
  <2>6. Reports(j, state)
    <3>1. j \in Request /\ PartialBatch(state.claimed, Tier1Batch) =>
            \A s \in due'[j] : session'[s].summarised \/ s \in ToSet(state.todo)
      BY <1>2, <1>5, <2>4
    <3> QED BY <1>4, <1>6, <2>1, <2>5, <3>1 DEF Reports
  <2> QED BY <1>1, <1>3, <2>1, <2>3, <2>4, <2>6, JobStep DEF HoldsSound, InRun, RunPc
<1> QED BY <1>7, <1>8

LEMMA Finish1Keeps ==
  ASSUME WorkerInv, NEW j \in Job, Finish1(j)
  PROVE  WorkerInv'
<1> USE DEF WorkerInv
<1>1. /\ job[j].pc = "tier1" /\ job[j] \in JobState /\ failures \in Nat /\ unfinished \in Nat
      /\ job[j].todo = <<>> \/ job[j].err \/ job[j].cancelled
      /\ unfinished' = unfinished - 1
      /\ UNCHANGED <<session, ended, facts, failures, due, dropped>>
      /\ AfterPass(j, 1, job[j].claimed, Tier1Batch, job[j].err)
  BY TypeFacts DEF Finish1
<1>2. job[j].claimed \in Nat /\ 1 \in {1, 2} /\ Tier1Batch \in Nat
  BY <1>1, BatchAssumption DEF JobState
<1>3. PICK state \in JobState :
         /\ job' = [job EXCEPT ![j] = state] /\ state.cancelled = job[j].cancelled
         /\ state.pc \in {"claim1", "claim2", "done"}
         /\ \/ UNCHANGED outcome
            \/ /\ j \in Request /\ state.pc \in {"claim2", "done"}
               /\ \E how \in {"error", "drained", "ceiling"} :
                    /\ outcome' = [outcome EXCEPT ![j] = <<1, how>>]
                    /\ how = "drained" =>
                         ~job[j].err /\ PartialBatch(job[j].claimed, Tier1Batch)
  BY <1>1, <1>2, PassEnds
<1>4. Grows
  BY <1>1, NothingGrows
<1>5. outcome \in [Request -> Outcome] /\ (j \in Request => outcome[j] = NoOutcome)
  BY <1>1 DEF TypeOK, Draining, InTier1
<1>6. outcome' \in [Request -> Outcome] /\ \A r \in Request \ {j} : outcome'[r] = outcome[r]
  BY <1>3, <1>5 DEF Outcome
<1>7. j \in Request /\ state.pc = "claim1" => outcome'[j] = NoOutcome
  BY <1>3, <1>5
<1>8. ASSUME j \in Request, outcome'[j] = <<1, "drained">>, ~job[j].cancelled
      PROVE  \A s \in due[j] : session[s].summarised
  <2>1. ~job[j].err /\ PartialBatch(job[j].claimed, Tier1Batch)
    <3>1. outcome'[j] # outcome[j]
      BY <1>5, <1>8, NotDrained
    <3> QED BY <1>3, <1>5, <1>8, <3>1
  <2>2. ToSet(job[j].todo) = {}
    BY <1>1, <1>8, <2>1 DEF ToSet
  <2> QED BY <1>1, <1>8, <2>1, <2>2 DEF Draining, InBatch1
<1>9. Reports(j, state)
  <2>1. due \in [Request -> SUBSET Session]
    BY DEF TypeOK
  <2>2. j \in Request => \A s \in due'[j] : session'[s].ended \/ session'[s].summarised
    BY <1>1 DEF DueClosed
  <2> QED BY <1>1, <1>3, <1>6, <1>7, <1>8, <2>1, <2>2 DEF Reports
<1> QED BY <1>1, <1>3, <1>4, <1>9, JobStep DEF HoldsSound, InRun, RunPc

-----------------------------------------------------------------------------
(* Tier 2 *)

LEMMA BatchOfFacts ==
  /\ SessionsAwaitingFacts \subseteq {s \in Session : AwaitingFacts(s)}
  /\ Cardinality(SessionsAwaitingFacts) \in Nat
<1>1. SessionsAwaitingFacts \subseteq {s \in Session : AwaitingFacts(s)}
  BY DEF SessionsAwaitingFacts
<1>2. SessionsAwaitingFacts \subseteq Session
  BY <1>1
<1> QED BY <1>1, <1>2, SessionAssumption, FS_Subset, FS_CardinalityType

LEMMA Claim2Keeps ==
  ASSUME WorkerInv, NEW j \in Job, Claim2(j)
  PROVE  WorkerInv'
<1> USE DEF WorkerInv
<1> DEFINE batch == SessionsAwaitingFacts
           waiting == {s \in Session : AwaitingFacts(s)}
           Of(p) == {<<s, session[s].summary>> : s \in {t \in batch : ProjectOf[t] = p}}
           groups == {Of(p) : p \in Range(Project)} \ {{}}
<1>1. /\ job[j].pc = "claim2" /\ job[j] \in JobState /\ failures \in Nat /\ unfinished \in Nat
      /\ UNCHANGED <<session, ended, facts, unfinished, failures, dropped>>
      /\ due' = IF j \in Request /\ job[j].batches = 0 THEN [due EXCEPT ![j] = waiting] ELSE due
  BY TypeFacts DEF Claim2, Waiting
<1>2. Grows
  BY <1>1, NothingGrows
<1>3. due \in [Request -> SUBSET Session] /\ outcome \in [Request -> Outcome]
  BY DEF TypeOK
<1>4. waiting \in SUBSET Session /\ \A s \in waiting : session[s].summarised
  BY DEF AwaitingFacts
<1>5. /\ due' \in [Request -> SUBSET Session]
      /\ \A r \in Request \ {j} : due'[r] = due[r]
      /\ j \in Request => \A s \in due'[j] : session'[s].ended \/ session'[s].summarised
  <2> HIDE DEF waiting
  <2> QED BY <1>1, <1>3, <1>4 DEF DueClosed
\* A report of the tier before stands only over what that tier had found.
<1>6. ASSUME j \in Request, outcome[j] = <<1, "drained">>, ~job[j].cancelled
      PROVE  \A s \in due'[j] : session'[s].summarised
  <2> HIDE DEF waiting
  <2> QED BY <1>1, <1>3, <1>4, <1>6 DEF DrainedTier1
<1>7. CASE batch = {} \/ job[j].cancelled
  <2>1. AfterPass(j, 2, 0, Tier2Batch, job[j].cancelled)
    BY <1>7, Zenon DEF Claim2
  <2>2. 0 \in Nat /\ 2 \in {1, 2} /\ Tier2Batch \in Nat
    BY BatchAssumption
  <2>3. PICK state \in JobState :
           /\ job' = [job EXCEPT ![j] = state] /\ state.cancelled = job[j].cancelled
           /\ state.pc \in {"claim2", "done"}
           /\ \/ UNCHANGED outcome
              \/ /\ j \in Request
                 /\ \E how \in {"error", "drained", "ceiling"} :
                      outcome' = [outcome EXCEPT ![j] = <<2, how>>]
    BY <2>1, <2>2, PassEnds
  <2>4. Reports(j, state)
    BY <1>3, <1>5, <1>6, <2>3 DEF Reports, Outcome
  <2> QED BY <1>1, <1>2, <2>3, <2>4, JobStep DEF HoldsSound, InRun, RunPc
<1>8. CASE ~(batch = {} \/ job[j].cancelled)
  <2> DEFINE n == Cardinality(batch)
             state == [job[j] EXCEPT !.pc = "tier2", !.groups = groups, !.claimed = n]
  <2>1. /\ job' = [job EXCEPT ![j].pc = "tier2", ![j].groups = groups, ![j].claimed = n]
        /\ outcome' = IF j \in Request THEN [outcome EXCEPT ![j] = NoOutcome] ELSE outcome
    BY <1>8, Zenon DEF Claim2
  <2>2. n \in Nat /\ groups \in SUBSET SUBSET Fact
    <3>1. \A s \in batch : <<s, session[s].summary>> \in Fact
      BY <1>4, BatchOfFacts, TypeFacts DEF Fact, SessionRow
    <3> QED BY <3>1, BatchOfFacts
  <2> HIDE DEF groups, n
  <2>3. job' = [job EXCEPT ![j] = state]
    BY <2>1, TypeFacts DEF JobState
  <2>4. state \in JobState /\ state.pc = "tier2" /\ state.cancelled = job[j].cancelled
    BY <1>1, <2>2 DEF JobState, JobPc
  <2> HIDE DEF state
  <2>5. outcome' \in [Request -> Outcome] /\ \A r \in Request \ {j} : outcome'[r] = outcome[r]
    BY <1>3, <2>1 DEF Outcome
  <2>6. j \in Request => outcome'[j] # <<1, "drained">>
    BY <1>3, <2>1, NotDrained
  <2>7. Reports(j, state)
    BY <1>5, <2>4, <2>5, <2>6 DEF Reports
  <2> QED BY <1>1, <1>2, <2>3, <2>4, <2>7, JobStep DEF HoldsSound, InRun, RunPc
<1> QED BY <1>7, <1>8

LEMMA Group2Keeps ==
  ASSUME WorkerInv, NEW j \in Job, Group2(j)
  PROVE  WorkerInv'
<1> USE DEF WorkerInv
<1>1. /\ job[j].pc = "tier2" /\ job[j] \in JobState /\ failures \in Nat
      /\ UNCHANGED <<session, ended, facts, failures, due, outcome, dropped>>
      /\ unfinished' = unfinished + 1
  BY TypeFacts DEF Group2, history
<1>2. PICK g \in job[j].groups :
        job' = [job EXCEPT ![j].pc = "model2", ![j].group = g, ![j].groups = @ \ {g}]
  BY DEF Group2
<1> DEFINE state == [job[j] EXCEPT !.pc = "model2", !.group = g, !.groups = job[j].groups \ {g}]
<1>3. job' = [job EXCEPT ![j] = state]
  BY <1>2, TypeFacts DEF JobState
<1>4. g \in SUBSET Fact
  BY <1>1, <1>2 DEF JobState
<1>5. state \in JobState /\ state.pc = "model2" /\ state.cancelled = job[j].cancelled
  BY <1>1, <1>4 DEF JobState, JobPc
<1> HIDE DEF state
<1>6. Grows
  BY <1>1, NothingGrows
<1>7. Reports(j, state)
  BY <1>1, <1>5, <1>6, SilentReports
<1> QED BY <1>1, <1>3, <1>5, <1>6, <1>7, JobStep DEF HoldsSound, InRun, RunPc

\* However a group ends, its run is closed and nothing is reported.
LEMMA EndGroupKeeps ==
  ASSUME WorkerInv, NEW j \in Job, job[j].pc \in {"model2", "facts"}, EndGroup(j), Grows,
         UNCHANGED <<due, outcome>>
  PROVE  WorkerInv'
<1> USE DEF WorkerInv
<1> DEFINE state == [job[j] EXCEPT !.pc = "tier2", !.group = {}, !.found = {}]
<1>1. job' = [job EXCEPT ![j] = state] /\ unfinished' = unfinished - 1
  BY TypeFacts DEF EndGroup, JobState
<1>2. state \in JobState /\ state.pc = "tier2" /\ state.cancelled = job[j].cancelled
  BY TypeFacts DEF JobState, JobPc
<1> HIDE DEF state
<1>3. Reports(j, state)
  BY <1>2, SilentReports
<1> QED BY <1>1, <1>2, <1>3, JobStep DEF HoldsSound, InRun, RunPc

LEMMA Model2Keeps ==
  ASSUME WorkerInv, NEW j \in Job, Model2(j)
  PROVE  WorkerInv'
<1> USE DEF WorkerInv
<1>1. /\ job[j].pc = "model2" /\ job[j] \in JobState /\ failures \in Nat
      /\ UNCHANGED <<session, ended, facts, due, outcome, dropped>>
  BY TypeFacts DEF Model2, history
<1>2. CASE /\ job' = [job EXCEPT ![j].pc = "facts", ![j].found = job[j].group]
           /\ UNCHANGED <<unfinished, failures>>
  <2> DEFINE state == [job[j] EXCEPT !.pc = "facts", !.found = job[j].group]
  <2>1. job' = [job EXCEPT ![j] = state]
    BY <1>2, TypeFacts DEF JobState
  <2>2. /\ state \in JobState /\ state.pc = "facts" /\ state.cancelled = job[j].cancelled
        /\ state.group = state.found
    BY <1>1 DEF JobState, JobPc
  <2> HIDE DEF state
  <2>3. Grows
    BY <1>1, <1>2, NothingGrows
  <2>4. Reports(j, state)
    BY <1>1, <2>2, <2>3, SilentReports
  <2> QED BY <1>1, <1>2, <2>1, <2>2, <2>3, <2>4, JobStep DEF HoldsSound, InRun, RunPc
<1>3. CASE EndGroup(j) /\ (failures' = failures \/ (failures > 0 /\ failures' = failures - 1))
  <2>1. failures' \in Nat
    BY <1>1, <1>3
  <2>2. Grows
    BY <1>1, <2>1, NothingGrows
  <2> QED BY <1>1, <1>3, <2>2, EndGroupKeeps
<1> QED BY <1>2, <1>3, Zenon DEF Model2

\* A fact leaves the job's hands only into the table or, counted, out of it.
LEMMA StoreFact2Keeps ==
  ASSUME WorkerInv, NEW j \in Job, StoreFact2(j)
  PROVE  WorkerInv'
<1> USE DEF WorkerInv
<1>1. /\ job[j].pc = "facts" /\ job[j] \in JobState /\ failures \in Nat
      /\ UNCHANGED <<session, ended, unfinished, due, outcome>>
  BY TypeFacts DEF StoreFact2
<1>2. PICK f \in job[j].found :
       /\ job' = [job EXCEPT ![j].found = @ \ {f}]
       /\ \/ /\ facts' = IF job[j].cancelled THEN facts ELSE facts \cup {f}
             /\ UNCHANGED <<failures, dropped>>
          \/ /\ ~job[j].cancelled /\ failures > 0 /\ failures' = failures - 1
             /\ dropped' = dropped \cup {f} /\ UNCHANGED facts
  BY Zenon DEF StoreFact2
<1>3. f \in Fact
  BY <1>1, <1>2 DEF JobState
<1> DEFINE state == [job[j] EXCEPT !.found = job[j].found \ {f}]
<1>4. job' = [job EXCEPT ![j] = state]
  BY <1>2, TypeFacts
<1>5. /\ state \in JobState /\ state.pc = "facts" /\ state.cancelled = job[j].cancelled
      /\ state.group = job[j].group /\ state.found = job[j].found \ {f}
  BY <1>1 DEF JobState
<1> HIDE DEF state
<1>6. Grows
  <2>1. failures' \in Nat
    BY <1>1, <1>2
  <2> QED BY <1>1, <1>2, <1>3, <2>1 DEF Grows, TypeOK
<1>7. Reports(j, state)
  BY <1>1, <1>5, <1>6, SilentReports
<1>8. HoldsSound(state)
  <2>1. ~job[j].cancelled => job[j].group \subseteq facts \cup dropped \cup job[j].found
    BY <1>1 DEF InHand
  <2> QED BY <1>2, <1>5, <2>1 DEF HoldsSound
<1> QED BY <1>1, <1>4, <1>5, <1>6, <1>7, <1>8, JobStep DEF InRun, RunPc

\* The watermark is set when nothing of the group is in hand any more.
LEMMA Mark2Keeps ==
  ASSUME WorkerInv, NEW j \in Job, Mark2(j)
  PROVE  WorkerInv'
<1> USE DEF WorkerInv
<1>1. /\ job[j].pc = "facts" /\ job[j].found = {} /\ failures \in Nat
      /\ UNCHANGED <<ended, facts, failures, due, outcome, dropped>> /\ EndGroup(j)
      /\ session \in [Session -> SessionRow]
  BY TypeFacts DEF Mark2, history
<1>2. \A s \in Session :
        session'[s] = IF ~job[j].cancelled /\ \E x \in job[j].group : x[1] = s
                      THEN [session[s] EXCEPT !.extracted = TRUE] ELSE session[s]
  BY DEF Mark2
<1>3. ASSUME NEW s \in Session
      PROVE  /\ session'[s] \in SessionRow
             /\ session'[s].ended = session[s].ended
             /\ session'[s].summarised = session[s].summarised
             /\ session'[s].extracted =>
                  session[s].extracted \/ \E f \in facts \cup dropped : f[1] = s
  <2>1. CASE ~job[j].cancelled /\ \E x \in job[j].group : x[1] = s
    <3>1. \E f \in facts \cup dropped : f[1] = s
      BY <1>1, <2>1 DEF InHand
    <3>2. session'[s] = [session[s] EXCEPT !.extracted = TRUE]
      BY <1>2, <2>1
    <3> QED BY <1>1, <3>1, <3>2 DEF SessionRow
  <2>2. CASE ~(~job[j].cancelled /\ \E x \in job[j].group : x[1] = s)
    <3>1. session'[s] = session[s]
      BY <1>2, <2>2
    <3> QED BY <1>1, <3>1
  <2> QED BY <2>1, <2>2
<1>4. session' \in [Session -> SessionRow]
  <2>1. session' = [s \in Session |-> session'[s]]
    BY DEF Mark2
  <2> QED BY <1>3, <2>1
<1>5. Grows
  BY <1>1, <1>3, <1>4 DEF Grows, TypeOK
<1> QED BY <1>1, <1>5, EndGroupKeeps

LEMMA Finish2Keeps ==
  ASSUME WorkerInv, NEW j \in Job, Finish2(j)
  PROVE  WorkerInv'
<1> USE DEF WorkerInv
<1>1. /\ job[j].pc = "tier2" /\ job[j] \in JobState /\ failures \in Nat
      /\ UNCHANGED <<session, ended, facts, unfinished, failures, due, dropped>>
      /\ AfterPass(j, 2, job[j].claimed, Tier2Batch, job[j].groups # {})
  BY TypeFacts DEF Finish2
<1>2. job[j].claimed \in Nat /\ 2 \in {1, 2} /\ Tier2Batch \in Nat
  BY <1>1, BatchAssumption DEF JobState
<1>3. PICK state \in JobState :
         /\ job' = [job EXCEPT ![j] = state] /\ state.cancelled = job[j].cancelled
         /\ state.pc \in {"claim2", "done"}
         /\ \/ UNCHANGED outcome
            \/ /\ j \in Request
               /\ \E how \in {"error", "drained", "ceiling"} :
                    outcome' = [outcome EXCEPT ![j] = <<2, how>>]
  BY <1>1, <1>2, PassEnds
<1>4. Grows
  BY <1>1, NothingGrows
<1>5. Reports(j, state)
  <2>1. due \in [Request -> SUBSET Session] /\ outcome \in [Request -> Outcome]
    BY DEF TypeOK
  <2>2. j \in Request => \A s \in due[j] : session[s].ended \/ session[s].summarised
    BY DEF DueClosed
  <2>3. j \in Request /\ outcome[j] = <<1, "drained">> /\ ~job[j].cancelled =>
          \A s \in due[j] : session[s].summarised
    BY DEF DrainedTier1
  <2> QED BY <1>1, <1>3, <2>1, <2>2, <2>3 DEF Reports, Outcome
<1> QED BY <1>1, <1>3, <1>4, <1>5, JobStep DEF HoldsSound, InRun, RunPc

-----------------------------------------------------------------------------
(* Clients, cancellation and restarts *)

LEMMA EndSessionKeeps ==
  ASSUME WorkerInv, NEW s \in Session, NEW summary \in {NoSummary, "client"},
         EndSession(s, summary)
  PROVE  WorkerInv'
<1> USE DEF WorkerInv
<1>1. /\ ended' = Append(Without(ended, {s}), s)
      /\ UNCHANGED <<facts, unfinished, job, failures, due, outcome, dropped>>
      /\ session' = [session EXCEPT ![s].ended = TRUE,
                       ![s].summary = IF summary = NoSummary THEN @ ELSE summary]
  BY DEF EndSession, history
<1> DEFINE text == IF summary = NoSummary THEN session[s].summary ELSE summary
           row == [session[s] EXCEPT !.ended = TRUE, !.summary = text]
<1>2. session \in [Session -> SessionRow] /\ text \in Summary
  BY TypeFacts DEF SessionRow, Summary
<1>3. session' = [session EXCEPT ![s] = row]
  BY <1>1, <1>2 DEF SessionRow
<1>4. /\ row \in SessionRow /\ row.ended = TRUE
      /\ row.summarised = session[s].summarised /\ row.extracted = session[s].extracted
  BY <1>2 DEF SessionRow
<1> HIDE DEF row
<1>5. /\ session' \in [Session -> SessionRow]
      /\ \A t \in Session : /\ session'[t].ended <=> session[t].ended \/ t = s
                            /\ session'[t].summarised = session[t].summarised
                            /\ session'[t].extracted = session[t].extracted
  BY <1>2, <1>3, <1>4 DEF SessionRow
<1>6. ended' \in Seq(Session) /\ ToSet(ended) \cup {s} \subseteq ToSet(ended')
  BY <1>1, Requeued DEF TypeOK
<1>7. TypeOK'
  BY <1>1, <1>5, <1>6 DEF TypeOK
<1>8. RunsClosed' /\ InHand' /\ ExtractedIsStored'
  BY <1>1, <1>5 DEF RunsClosed, InRun, InHand, ExtractedIsStored
<1>9. Queued'
  BY <1>5, <1>6 DEF Queued
<1>10. \A r \in Request : due[r] \subseteq Session
  BY DEF TypeOK
<1>11. DueClosed' /\ Draining' /\ DrainedTier1'
  BY <1>1, <1>5, <1>10 DEF DueClosed, Draining, DrainedTier1, InTier1, InBatch1
<1> QED BY <1>7, <1>8, <1>9, <1>11

LEMMA CancelKeeps ==
  ASSUME WorkerInv, NEW r \in Request, Cancel(r)
  PROVE  WorkerInv'
<1> USE DEF WorkerInv
<1> DEFINE state == [job[r] EXCEPT !.cancelled = TRUE]
<1>1. /\ r \in Job /\ job[r] \in JobState /\ failures \in Nat
      /\ UNCHANGED <<session, ended, facts, unfinished, failures, due, outcome, dropped>>
  BY TypeFacts DEF Cancel, history, Job
<1>2. job' = [job EXCEPT ![r] = state]
  BY DEF Cancel
<1>3. /\ state \in JobState /\ state.cancelled = TRUE /\ state.pc = job[r].pc
      /\ state.todo = job[r].todo /\ state.claimed = job[r].claimed
  BY <1>1 DEF JobState
<1> HIDE DEF state
<1>4. Grows
  BY <1>1, NothingGrows
<1>5. Reports(r, state)
  BY <1>1, <1>3 DEF Reports, TypeOK, DueClosed, Draining, InTier1, InBatch1
<1>6. HoldsSound(state)
  BY <1>1, <1>3 DEF HoldsSound, TypeOK
<1> QED BY <1>1, <1>2, <1>3, <1>4, <1>5, <1>6, JobStep DEF InRun, RunPc

\* No job is in a run, and none has noted or reported anything.
LEMMA NothingStarted ==
  ASSUME NEW jobs \in [Job -> {"claim1", "claim2", "done"}],
         job' = [j \in Job |-> Fresh(jobs[j])],
         unfinished' = 0, due' = [r \in Request |-> {}],
         outcome' = [r \in Request |-> NoOutcome]
  PROVE  /\ job' \in [Job -> JobState] /\ due' \in [Request -> SUBSET Session]
         /\ outcome' \in [Request -> Outcome]
         /\ \A j \in Job : job'[j].pc \in {"claim1", "claim2", "done"}
         /\ RunsClosed' /\ InHand' /\ DueClosed' /\ Draining' /\ DrainedTier1'
<1>1. \A j \in Job : Fresh(jobs[j]) \in JobState /\ Fresh(jobs[j]).pc = jobs[j]
  BY FreshState DEF JobPc
<1>2. job' \in [Job -> JobState] /\ \A j \in Job : job'[j].pc \in {"claim1", "claim2", "done"}
  BY <1>1
<1>3. due' \in [Request -> SUBSET Session] /\ outcome' \in [Request -> Outcome]
  BY DEF Outcome
<1>4. RunsClosed'
  <2>1. {j \in Job : InRun(j)'} = {}
    BY <1>2 DEF InRun
  <2> QED BY <2>1, FS_EmptySet DEF RunsClosed
<1>5. \A r \in Request : r \in Job
  BY DEF Job
<1>6. InHand' /\ DueClosed' /\ Draining' /\ DrainedTier1'
  BY <1>2, <1>5 DEF InHand, DueClosed, Draining, DrainedTier1, InTier1, InBatch1
<1> QED BY <1>2, <1>3, <1>4, <1>6

LEMMA CrashKeeps ==
  ASSUME WorkerInv, Crash
  PROVE  WorkerInv'
<1> USE DEF WorkerInv
<1> DEFINE jobs == [j \in Job |-> IF j \in Scheduled THEN Start(j) ELSE "done"]
<1>1. failures' \in Nat /\ UNCHANGED <<session, ended, facts, dropped>>
  BY TypeFacts DEF Crash
<1>2. jobs \in [Job -> {"claim1", "claim2", "done"}]
  BY DEF Start
<1>3. job' = [j \in Job |-> Fresh(jobs[j])]
  BY DEF Crash
<1> HIDE DEF jobs
<1>4. unfinished' = 0 /\ due' = [r \in Request |-> {}] /\ outcome' = [r \in Request |-> NoOutcome]
  BY DEF Crash
<1>5. /\ job' \in [Job -> JobState] /\ due' \in [Request -> SUBSET Session]
      /\ outcome' \in [Request -> Outcome]
      /\ \A j \in Job : job'[j].pc \in {"claim1", "claim2", "done"}
      /\ RunsClosed' /\ InHand' /\ DueClosed' /\ Draining' /\ DrainedTier1'
  BY <1>2, <1>3, <1>4, NothingStarted
<1>6. TypeOK'
  BY <1>1, <1>4, <1>5 DEF TypeOK
<1>7. ExtractedIsStored' /\ Queued'
  BY <1>1 DEF ExtractedIsStored, Queued
<1> QED BY <1>5, <1>6, <1>7

-----------------------------------------------------------------------------
(* The theorems *)

LEMMA WorkerInvInit == Init => WorkerInv
<1> SUFFICES ASSUME Init PROVE WorkerInv
  OBVIOUS
<1>1. /\ \A j \in Job : job[j] = Fresh(Start(j)) /\ Start(j) \in {"claim1", "claim2"}
      /\ job = [j \in Job |-> job[j]]
  BY DEF Init, Start
<1>2. \A j \in Job : job[j] \in JobState /\ job[j].pc \in {"claim1", "claim2"}
  BY <1>1, FreshState DEF JobPc
<1>3. job \in [Job -> JobState]
  BY <1>1, <1>2
<1>4. [ended |-> FALSE, summary |-> NoSummary, summarised |-> FALSE, extracted |-> FALSE]
        \in SessionRow
  BY DEF SessionRow, Summary
<1>5. TypeOK
  BY <1>2, <1>3, <1>4, BatchAssumption DEF Init, TypeOK, Outcome
<1>6. RunsClosed
  <2>1. {j \in Job : InRun(j)} = {}
    BY <1>2 DEF InRun
  <2> QED BY <2>1, FS_EmptySet DEF Init, RunsClosed
<1>7. InHand
  BY <1>2 DEF InHand
<1>8. ExtractedIsStored /\ Queued
  BY DEF Init, ExtractedIsStored, Queued
<1>9. DueClosed /\ DrainedTier1
  BY DEF Init, DueClosed, DrainedTier1
<1>10. Draining
  <2>1. \A r \in Request : r \in Job
    BY DEF Job
  <2> QED BY <1>2, <2>1 DEF Init, Draining, InTier1, InBatch1
<1> QED BY <1>5, <1>6, <1>7, <1>8, <1>9, <1>10 DEF WorkerInv

LEMMA WorkerInvStep == WorkerInv /\ [Next]_vars => WorkerInv'
<1> SUFFICES ASSUME WorkerInv, [Next]_vars PROVE WorkerInv'
  OBVIOUS
<1>1. CASE UNCHANGED vars
  BY <1>1 DEF vars, WorkerInv, TypeOK, RunsClosed, InRun, InHand, ExtractedIsStored, Queued,
     DueClosed, Draining, InTier1, InBatch1, DrainedTier1
<1>2. CASE \E j \in Job : Tier1(j)
  BY <1>2, Claim1Keeps, Read1Keeps, Model1Keeps, Finish1Keeps DEF Tier1
<1>3. CASE \E j \in Job : Tier2(j)
  BY <1>3, Claim2Keeps, Group2Keeps, Model2Keeps, StoreFact2Keeps, Mark2Keeps, Finish2Keeps
     DEF Tier2
<1>4. CASE \E s \in Session : \E summary \in {NoSummary, "client"} : EndSession(s, summary)
  BY <1>4, EndSessionKeeps
<1>5. CASE \E r \in Request : Cancel(r)
  BY <1>5, CancelKeeps
<1>6. CASE Crash
  BY <1>6, CrashKeeps
<1> QED BY <1>1, <1>2, <1>3, <1>4, <1>5, <1>6 DEF Next

LEMMA WorkerInvCorrect == Spec => []WorkerInv
BY WorkerInvInit, WorkerInvStep, PTL DEF Spec

\* The sessions table and what each job holds keep their types.
THEOREM TypeCorrect == Spec => []TypeOK
<1>1. WorkerInv => TypeOK
  BY DEF WorkerInv
<1> QED BY <1>1, WorkerInvCorrect, PTL

\* Between restarts the run rows without finished_at are those of the passes in
\* progress, however many overlap, fail or are cancelled.
THEOREM RunsClosedCorrect == Spec => []RunsClosed
<1>1. WorkerInv => RunsClosed
  BY DEF WorkerInv
<1> QED BY <1>1, WorkerInvCorrect, PTL

\* No session is marked as read for facts before its facts are stored or lost to
\* a failed insert, and a tier 1 drain that reports an empty queue has summarised
\* all it found waiting, for any batch size, ceiling, cancellations and restarts.
THEOREM PassesSoundCorrect == Spec => []PassesSound
<1>1. WorkerInv => PassesSound
  BY DEF WorkerInv, PassesSound
<1> QED BY <1>1, WorkerInvCorrect, PTL
=============================================================================
