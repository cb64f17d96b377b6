----------------------------- MODULE ClientProofs -----------------------------
(***************************************************************************)
(* Machine-checked proofs about what the program does on a developer's     *)
(* machine: the hooks of a session, agent setup, the IDs it draws, import  *)
(* and export, and the import of transcripts.  The parts share no state;   *)
(* each has its inductive invariant and its theorems.                      *)
(***************************************************************************)
EXTENDS HookBuffer, Connect, Ulid, Transfer, Transcripts, SublistProofs,
        NaturalsInduction, WellFoundedInduction

-----------------------------------------------------------------------------
(***************************************************************************)
(* HookBuffer: any hooks side by side, any thresholds, failures            *)
(***************************************************************************)

-----------------------------------------------------------------------------
(* The inductive invariant *)

Pc == {"new", "append", "create", "note", "noted", "read", "session", "send", "remove",
       "state", "close", "clear", "clearbuffer", "over"}
HookRecord == [event : Event, pc : Pc, items : SUBSET Hook, session : Hook \cup {NoSession},
               failed : BOOLEAN, alone : BOOLEAN]

HookTypeOK ==
  /\ hook \in [Hook -> HookRecord]
  /\ buffer \subseteq Hook /\ captured \subseteq Hook /\ ended \subseteq Hook
  /\ state \in Hook \cup {NoSession}
  /\ stored \subseteq Hook \X Hook
  /\ trouble \in Nat

Sending == {"session", "create", "note", "noted", "send", "remove"}
Ending == {"state", "close", "clear", "clearbuffer"}
\* Between the read of the buffer and its removal.
Holding(h) == hook[h].pc \in Sending /\ hook[h].event # "session-start"

\* Which event a step is of, and what a hook that has not read the buffer holds.
InPhase(h) ==
  /\ hook[h].pc = "new" => hook[h] = NotRun
  /\ hook[h].pc \in {"new", "append", "read"} => hook[h].items = {}
  /\ hook[h].pc = "append" => hook[h].event \in {"prompt", "tool"}
  /\ hook[h].pc \in Sending => hook[h].event # "prompt"
  /\ hook[h].pc \in {"read", "session", "send", "remove"} =>
       hook[h].event \in {"tool", "session-end"}
  /\ hook[h].pc \in Ending => hook[h].event = "session-end"
Phases == \A h \in Hook : InPhase(h)

\* A session is closed that was noted.
Named == \A h \in Hook : hook[h].pc = "close" => hook[h].session \in Hook

\* Only tool hooks overlap, and they know it.
Apart ==
  \A g, h \in Hook :
    g # h /\ HookRuns(g) /\ HookRuns(h) => hook[g].event = "tool" /\ ~hook[g].alone

\* An observation is captured once, before anybody reads or sends it.
Known ==
  /\ buffer \subseteq captured
  /\ \A o \in captured : hook[o].pc \notin {"new", "append"}
  /\ \A h \in Hook : hook[h].items \subseteq captured
  /\ \A o, h \in Hook : <<o, h>> \in stored => o \in hook[h].items

\* What a hook that runs alone, as a session end does, has read is what is in the
\* buffer, and what it removes it has sent.
Carried ==
  \A h \in Hook :
    /\ Holding(h) =>
         /\ hook[h].items # {}
         /\ hook[h].alone \/ hook[h].event = "session-end" => buffer = hook[h].items
    /\ hook[h].pc = "remove" => \A o \in hook[h].items : <<o, h>> \in stored

\* What a session end takes with it, it could not send.
Closing ==
  \A h \in Hook :
    hook[h].pc \in Ending => buffer = {} \/ (hook[h].failed /\ buffer \subseteq hook[h].items)

\* What a hook sent that ran alone and did not fail is with nobody else.
Delivered ==
  \A g \in Hook : hook[g].alone /\ ~hook[g].failed =>
    \A o \in Hook : <<o, g>> \in stored =>
      hook[g].pc = "remove" \/ (o \notin buffer /\ \A h \in Hook : Holding(h) => o \notin hook[h].items)

HookInv ==
  /\ HookTypeOK /\ Phases /\ Named /\ Apart /\ Known /\ Carried /\ Closing /\ Delivered
  /\ LostOnlyAtEndOrBeside /\ SentTwiceOnlyIfCut

-----------------------------------------------------------------------------
(* What a step of a hook may do *)

\* The hook goes to pc with these items, having failed if fails; no other changes.
Becomes(h, pc, items, fails) ==
  /\ hook' \in [Hook -> HookRecord]
  /\ \A g \in Hook \ {h} : hook'[g] = hook[g]
  /\ hook'[h].event = hook[h].event /\ hook'[h].alone = hook[h].alone
  /\ hook'[h].pc = pc /\ hook'[h].items = items
  /\ hook[h].failed \/ fails => hook'[h].failed

Appends(h) ==
  /\ hook[h].pc = "append"
  /\ buffer' = buffer \cup {h} /\ captured' = captured \cup {h} /\ stored' = stored
  /\ \/ Becomes(h, "over", hook[h].items, FALSE)
     \/ hook[h].event = "tool" /\ Becomes(h, "read", hook[h].items, FALSE)

Reads(h) ==
  /\ hook[h].pc = "read" /\ buffer # {}
  /\ UNCHANGED <<buffer, captured, stored>>
  /\ Becomes(h, "session", buffer, FALSE)

\* A step between the two ends of a flush, or of a session end.
HookOnward(h, next, fails) ==
  \/ next = "over" /\ (fails \/ hook[h].pc # "remove")
  \/ /\ hook[h].pc \in Sending \ {"remove"} /\ next \in {"create", "note", "noted", "send"}
     /\ next \in {"create", "send"} => hook[h].event # "session-start"
  \/ /\ next = "state" /\ hook[h].event = "session-end"
     /\ (hook[h].pc = "read" /\ buffer = {}) \/ (hook[h].pc \in Sending /\ fails)
  \/ hook[h].pc \in Ending /\ next \in Ending

Proceeds(h) ==
  /\ HookRuns(h) /\ UNCHANGED <<buffer, captured, stored>>
  /\ \E next \in Pc, fails \in BOOLEAN :
       HookOnward(h, next, fails) /\ Becomes(h, next, hook[h].items, fails)

Sends(h) ==
  /\ hook[h].pc = "send"
  /\ UNCHANGED <<buffer, captured>> /\ stored' = stored \cup (hook[h].items \X {h})
  /\ \/ Becomes(h, "remove", hook[h].items, FALSE)
     \/ Becomes(h, AfterFlush(h), hook[h].items, TRUE)

Removes(h) ==
  /\ buffer' = {} /\ UNCHANGED <<captured, stored>>
  /\ \/ hook[h].pc = "remove" /\ Becomes(h, AfterFlush(h), hook[h].items, FALSE)
     \/ hook[h].pc = "clearbuffer" /\ Becomes(h, "over", hook[h].items, FALSE)

LEMMA RecordFields ==
  ASSUME NEW x \in HookRecord, NEW pc \in Pc, NEW items \in SUBSET Hook,
         NEW session \in Hook \cup {NoSession}
  PROVE  /\ [x EXCEPT !.pc = pc] \in HookRecord
         /\ [x EXCEPT !.pc = pc, !.items = items] \in HookRecord
         /\ [x EXCEPT !.pc = pc, !.failed = TRUE] \in HookRecord
         /\ [x EXCEPT !.session = session, !.pc = pc] \in HookRecord
<1>1. [x EXCEPT !.pc = pc] \in HookRecord
  BY DEF HookRecord
<1>2. [x EXCEPT !.pc = pc, !.items = items] \in HookRecord
  BY DEF HookRecord
<1>3. [x EXCEPT !.pc = pc, !.failed = TRUE] \in HookRecord
  BY DEF HookRecord
<1>4. [x EXCEPT !.session = session, !.pc = pc] \in HookRecord
  BY DEF HookRecord
<1>5. QED
  BY <1>1, <1>2, <1>3, <1>4

LEMMA Went ==
  ASSUME HookTypeOK, NEW h \in Hook, NEW pc \in Pc, Goto(h, pc)
  PROVE  Becomes(h, pc, hook[h].items, FALSE)
<1>1. hook' = [hook EXCEPT ![h] = [hook[h] EXCEPT !.pc = pc]]
  BY DEF Goto, HookTypeOK
<1>2. [hook[h] EXCEPT !.pc = pc] \in HookRecord
  BY RecordFields DEF HookTypeOK
<1>3. QED
  BY <1>1, <1>2 DEF Becomes, HookTypeOK, HookRecord

LEMMA WentWith ==
  ASSUME HookTypeOK, NEW h \in Hook, NEW pc \in Pc, NEW session \in Hook \cup {NoSession},
         hook' = [hook EXCEPT ![h].session = session, ![h].pc = pc]
  PROVE  Becomes(h, pc, hook[h].items, FALSE)
<1>1. hook' = [hook EXCEPT ![h] = [hook[h] EXCEPT !.session = session, !.pc = pc]]
  BY DEF HookTypeOK
<1>2. [hook[h] EXCEPT !.session = session, !.pc = pc] \in HookRecord
  BY RecordFields DEF HookTypeOK
<1>3. QED
  BY <1>1, <1>2 DEF Becomes, HookTypeOK, HookRecord

LEMMA HookFailed ==
  ASSUME HookTypeOK, NEW h \in Hook, NEW pc \in Pc,
         hook' = [hook EXCEPT ![h].pc = pc, ![h].failed = TRUE]
  PROVE  Becomes(h, pc, hook[h].items, TRUE)
<1>1. hook' = [hook EXCEPT ![h] = [hook[h] EXCEPT !.pc = pc, !.failed = TRUE]]
  BY DEF HookTypeOK
<1>2. [hook[h] EXCEPT !.pc = pc, !.failed = TRUE] \in HookRecord
  BY RecordFields DEF HookTypeOK
<1>3. QED
  BY <1>1, <1>2 DEF Becomes, HookTypeOK, HookRecord

LEMMA AfterFlushPc == \A h \in Hook : AfterFlush(h) \in Pc
  BY DEF AfterFlush, Pc

LEMMA AppendStep ==
  ASSUME HookTypeOK, NEW h \in Hook, BufferObservation(h)
  PROVE  Appends(h)
<1>1. CASE hook[h].event = "tool"
  <2>1. Becomes(h, "read", hook[h].items, FALSE)
    BY <1>1, Went DEF BufferObservation, Pc
  <2>2. QED
    BY <1>1, <2>1 DEF BufferObservation, Appends
<1>2. CASE hook[h].event # "tool"
  <2>1. Becomes(h, "over", hook[h].items, FALSE)
    BY <1>2, Went DEF BufferObservation, Pc
  <2>2. QED
    BY <2>1 DEF BufferObservation, Appends
<1>3. QED
  BY <1>1, <1>2

LEMMA ReadStep ==
  ASSUME HookTypeOK, Phases, NEW h \in Hook, FlushRead(h)
  PROVE  Reads(h) \/ Proceeds(h)
<1>1. hook[h].pc = "read" /\ UNCHANGED <<buffer, captured, stored>> /\ HookRuns(h)
      /\ hook[h].event \in {"tool", "session-end"}
  BY DEF FlushRead, HookRuns, Phases, InPhase
<1>2. CASE Due(h, buffer)
  <2>1. hook' = [hook EXCEPT ![h] = [hook[h] EXCEPT !.pc = "session", !.items = buffer]]
    BY <1>2 DEF FlushRead, HookTypeOK
  <2>2. [hook[h] EXCEPT !.pc = "session", !.items = buffer] \in HookRecord
    BY RecordFields DEF HookTypeOK, Pc
  <2>3. Becomes(h, "session", buffer, FALSE)
    BY <2>1, <2>2 DEF Becomes, HookTypeOK, HookRecord
  <2>4. QED
    BY <1>1, <1>2, <2>3 DEF Reads, Due
<1>3. CASE ~Due(h, buffer)
  <2>1. Becomes(h, AfterFlush(h), hook[h].items, FALSE)
    BY <1>3, Went, AfterFlushPc DEF FlushRead, Goto
  <2>2. HookOnward(h, AfterFlush(h), FALSE)
    BY <1>1, <1>3 DEF HookOnward, AfterFlush, Due
  <2>3. QED
    BY <1>1, <2>1, <2>2, AfterFlushPc DEF Proceeds
<1>4. QED
  BY <1>2, <1>3

LEMMA SendStep ==
  ASSUME HookTypeOK, Phases, NEW h \in Hook, Send(h)
  PROVE  Sends(h) \/ Proceeds(h)
<1>1. hook[h].pc = "send" /\ UNCHANGED <<buffer, captured>> /\ HookRuns(h)
      /\ hook[h].event \in {"tool", "session-end"}
  BY DEF Send, HookRuns, Phases, InPhase
<1>2. CASE Store(h) /\ Goto(h, "remove")
  BY <1>1, <1>2, Went DEF Sends, Store, Pc
<1>3. CASE hook' = [hook EXCEPT ![h].pc = AfterFlush(h), ![h].failed = TRUE]
           /\ (Store(h) \/ UNCHANGED stored)
  <2>1. Becomes(h, AfterFlush(h), hook[h].items, TRUE)
    BY <1>3, HookFailed, AfterFlushPc
  <2>2. CASE Store(h)
    BY <1>1, <2>1, <2>2 DEF Sends, Store
  <2>3. CASE UNCHANGED stored
    <3>1. HookOnward(h, AfterFlush(h), TRUE)
      BY <1>1 DEF HookOnward, AfterFlush, Sending
    <3>2. QED
      BY <1>1, <2>1, <2>3, <3>1, AfterFlushPc DEF Proceeds
  <2>4. QED
    BY <1>3, <2>2, <2>3
<1>4. QED
  BY <1>2, <1>3 DEF Send, FailTo

LEMMA ProceedStep ==
  ASSUME HookTypeOK, Phases, NEW h \in Hook,
         \/ CreateSession(h) \/ NoteTruncate(h) \/ NoteWrite(h) \/ FlushSession(h)
         \/ EndState(h) \/ EndSession(h) \/ ClearState(h) \/ Cut(h)
  PROVE  Proceeds(h)
<1>1. HookRuns(h) /\ UNCHANGED <<buffer, captured, stored>>
  BY DEF CreateSession, NoteTruncate, NoteWrite, FlushSession, EndState, EndSession,
     ClearState, Cut, HookRuns
<1>2. SUFFICES \E next \in Pc, fails \in BOOLEAN :
                 HookOnward(h, next, fails) /\ Becomes(h, next, hook[h].items, fails)
  BY <1>1 DEF Proceeds
<1>3. ASSUME NEW next \in Pc, HookOnward(h, next, FALSE), Goto(h, next) PROVE <1>2!1
  BY <1>3, Went
<1>4. ASSUME NEW next \in Pc, HookOnward(h, next, FALSE), NEW session \in Hook \cup {NoSession},
             hook' = [hook EXCEPT ![h].session = session, ![h].pc = next]
      PROVE  <1>2!1
  BY <1>4, WentWith
<1>5. ASSUME NEW next \in Pc, HookOnward(h, next, TRUE), FailTo(h, next) PROVE <1>2!1
  BY <1>5, HookFailed DEF FailTo
<1>6. CASE CreateSession(h)
  <2>1. /\ HookOnward(h, "note", FALSE) /\ HookOnward(h, AfterFlush(h), TRUE) /\ "note" \in Pc
    BY <1>6 DEF CreateSession, HookOnward, AfterFlush, Sending, Pc
  <2>2. CASE FailTo(h, AfterFlush(h))
    BY <1>5, <2>1, <2>2, AfterFlushPc
  <2>3. CASE ~FailTo(h, AfterFlush(h))
    <3>1. hook' = [hook EXCEPT ![h].session = h, ![h].pc = "note"]
      BY <1>6, <2>3 DEF CreateSession, HookTypeOK, HookRecord
    <3>2. QED
      BY <1>4, <2>1, <3>1
  <2>4. QED
    BY <2>2, <2>3
<1>7. CASE NoteTruncate(h)
  BY <1>3, <1>7 DEF NoteTruncate, HookOnward, Sending, Pc
<1>8. CASE NoteWrite(h)
  BY <1>3, <1>8 DEF NoteWrite, HookOnward, Sending, Pc
<1>9. CASE FlushSession(h)
  <2>1. hook[h].pc = "session" /\ hook[h].event # "session-start"
    BY <1>9 DEF FlushSession, Phases, InPhase
  <2>2. QED
    BY <1>4, <1>9, <2>1 DEF FlushSession, HookOnward, Sending, Pc, HookTypeOK
<1>10. CASE EndState(h)
  BY <1>4, <1>10 DEF EndState, HookOnward, Ending, Pc, HookTypeOK
<1>11. CASE EndSession(h)
  BY <1>3, <1>5, <1>11 DEF EndSession, HookOnward, Ending, Pc
<1>12. CASE ClearState(h)
  BY <1>3, <1>12 DEF ClearState, HookOnward, Ending, Pc
<1>13. CASE Cut(h)
  BY <1>5, <1>13 DEF Cut, HookOnward, Pc
<1>14. QED
  BY <1>6, <1>7, <1>8, <1>9, <1>10, <1>11, <1>12, <1>13

LEMMA RemoveStep ==
  ASSUME HookTypeOK, NEW h \in Hook, RemoveBuffer(h) \/ ClearBuffer(h)
  PROVE  Removes(h)
<1>1. CASE RemoveBuffer(h)
  BY <1>1, Went, AfterFlushPc DEF RemoveBuffer, Removes
<1>2. CASE ClearBuffer(h)
  BY <1>2, Went DEF ClearBuffer, Removes, Pc
<1>3. QED
  BY <1>1, <1>2

\* A hook begins; those that run beside it are no longer alone.
Begins(h, event) ==
  /\ hook' \in [Hook -> HookRecord]
  /\ hook[h].pc = "new" /\ UNCHANGED <<buffer, captured, stored>>
  /\ hook'[h].event = event /\ hook'[h].pc = FirstStep(event)
  /\ hook'[h].items = {} /\ ~hook'[h].failed
  /\ \A g \in Hook \ {h} :
       /\ hook'[g].event = hook[g].event /\ hook'[g].pc = hook[g].pc
       /\ hook'[g].items = hook[g].items /\ hook'[g].failed = hook[g].failed
       /\ hook'[g].session = hook[g].session
       /\ hook'[g].alone => hook[g].alone
       /\ HookRuns(g) => ~hook'[g].alone /\ ~hook'[h].alone /\ hook[g].event = "tool" /\ event = "tool"
       /\ ~HookRuns(g) => hook'[g] = hook[g]

LEMMA HookBeginStep ==
  ASSUME HookTypeOK, NEW h \in Hook, NEW event \in Event, BeginHook(h, event)
  PROVE  Begins(h, event)
<1> DEFINE beside == {g \in Hook : HookRuns(g)}
           first == Run(event, FirstStep(event), beside = {})
           other(g) == [hook[g] EXCEPT !.alone = hook[g].alone /\ g \notin beside]
<1>1. /\ hook' = [g \in Hook |-> IF g = h THEN first ELSE other(g)]
      /\ hook[h].pc = "new" /\ UNCHANGED <<buffer, captured, stored>>
      /\ beside # {} => event = "tool" /\ \A g \in beside : hook[g].event = "tool"
  BY DEF BeginHook
<1>2. /\ first \in HookRecord
      /\ first.event = event /\ first.pc = FirstStep(event) /\ first.alone = (beside = {})
      /\ first.items = {} /\ first.failed = FALSE
  <2>1. FirstStep(event) \in Pc /\ (beside = {}) \in BOOLEAN
    BY DEF FirstStep, Pc
  <2>2. PICK none \in BOOLEAN : none = (beside = {})
    BY <2>1
  <2>3. first = [event |-> event, pc |-> FirstStep(event), items |-> {}, session |-> NoSession,
                 failed |-> FALSE, alone |-> none]
    BY <2>2 DEF Run
  <2> HIDE DEF first, beside
  <2>4. /\ first \in HookRecord /\ first.event = event /\ first.pc = FirstStep(event)
        /\ first.alone = none /\ first.items = {} /\ first.failed = FALSE
    BY <2>1, <2>3 DEF HookRecord
  <2>5. QED
    BY <2>2, <2>4
<1>4. ASSUME NEW g \in Hook
      PROVE  /\ other(g) \in HookRecord
             /\ other(g).event = hook[g].event /\ other(g).pc = hook[g].pc
             /\ other(g).items = hook[g].items /\ other(g).failed = hook[g].failed
             /\ other(g).session = hook[g].session
             /\ other(g).alone = (hook[g].alone /\ g \notin beside)
  <2>1. hook[g] \in HookRecord
    BY DEF HookTypeOK
  <2>2. QED
    BY <2>1 DEF HookRecord
<1>5. ASSUME NEW g \in Hook, ~HookRuns(g) PROVE other(g) = hook[g]
  <2>1. hook[g] \in HookRecord /\ g \notin beside
    BY <1>5 DEF HookTypeOK
  <2>2. (hook[g].alone /\ g \notin beside) = hook[g].alone
    BY <2>1 DEF HookRecord
  <2>3. QED
    BY <2>1, <2>2 DEF HookRecord
<1>6. hook' \in [Hook -> HookRecord]
  BY <1>1, <1>2, <1>4
<1>7. hook'[h].event = event /\ hook'[h].pc = FirstStep(event) /\ hook'[h].items = {}
      /\ ~hook'[h].failed /\ hook'[h].alone = (beside = {})
  BY <1>1, <1>2
<1>8. \A g \in Hook \ {h} : hook'[g] = other(g)
  BY <1>1
<1>9. ASSUME NEW g \in Hook \ {h}, HookRuns(g)
      PROVE  ~hook'[g].alone /\ ~hook'[h].alone /\ hook[g].event = "tool" /\ event = "tool"
  <2>1. g \in beside
    BY <1>9
  <2>2. QED
    BY <1>1, <1>4, <1>7, <1>8, <2>1
<1> HIDE DEF other, first, beside
<1>10. QED
  BY <1>1, <1>4, <1>5, <1>6, <1>7, <1>8, <1>9 DEF Begins

Steps(h) == Appends(h) \/ Reads(h) \/ Proceeds(h) \/ Sends(h) \/ Removes(h)

LEMMA EveryStep ==
  ASSUME HookTypeOK, Phases, [HookNext]_hookVars
  PROVE  \/ \E h \in Hook, event \in Event : Begins(h, event)
         \/ \E h \in Hook : Steps(h)
         \/ UNCHANGED hookVars
<1>1. ASSUME NEW h \in Hook, NEW event \in Event, BeginHook(h, event) PROVE Begins(h, event)
  BY <1>1, HookBeginStep
<1>2. ASSUME NEW h \in Hook, Flush(h) PROVE Steps(h)
  BY <1>2, ReadStep, ProceedStep, SendStep, RemoveStep DEF Flush, Steps
<1>3. ASSUME NEW h \in Hook, End(h) PROVE Steps(h)
  BY <1>3, ProceedStep, RemoveStep DEF End, Steps
<1>4. ASSUME NEW h \in Hook,
             BufferObservation(h) \/ CreateSession(h) \/ NoteTruncate(h) \/ NoteWrite(h) \/ Cut(h)
      PROVE  Steps(h)
  BY <1>4, AppendStep, ProceedStep DEF Steps
<1>5. QED
  BY <1>1, <1>2, <1>3, <1>4 DEF HookNext

\* Whatever its step, the hook runs, and what it has been through stays.
LEMMA StepOf ==
  ASSUME HookTypeOK, NEW h \in Hook, Steps(h)
  PROVE  /\ hook' \in [Hook -> HookRecord]
         /\ HookRuns(h) /\ \A g \in Hook \ {h} : hook'[g] = hook[g]
         /\ hook'[h].event = hook[h].event /\ hook'[h].alone = hook[h].alone
         /\ hook[h].failed => hook'[h].failed
         /\ hook'[h].pc # "new"
         /\ hook[h].pc # "read" => hook'[h].items = hook[h].items
         /\ captured \subseteq captured'
         /\ stored \subseteq stored'
<1>1. CASE Appends(h)
  BY <1>1 DEF Appends, Becomes, HookRuns
<1>2. CASE Reads(h)
  BY <1>2 DEF Reads, Becomes, HookRuns
<1>3. CASE Proceeds(h)
  <2>1. PICK next \in Pc, fails \in BOOLEAN :
          HookOnward(h, next, fails) /\ Becomes(h, next, hook[h].items, fails)
    BY <1>3 DEF Proceeds
  <2>2. next # "new"
    BY <2>1 DEF HookOnward, Ending
  <2>3. QED
    BY <1>3, <2>1, <2>2 DEF Proceeds, Becomes
<1>4. CASE Sends(h)
  BY <1>4 DEF Sends, Becomes, HookRuns, AfterFlush
<1>5. CASE Removes(h)
  BY <1>5 DEF Removes, Becomes, HookRuns, AfterFlush
<1>6. QED
  BY <1>1, <1>2, <1>3, <1>4, <1>5 DEF Steps

-----------------------------------------------------------------------------
(* Each part of the invariant is kept *)

LEMMA NextNamed ==
  ASSUME HookTypeOK, Phases, Named, [HookNext]_hookVars
  PROVE  Named'
<1>1. ASSUME NEW h \in Hook, \A g \in Hook \ {h} : hook'[g] = hook[g], hook'[h].pc # "close"
      PROVE  Named'
  BY <1>1 DEF Named
<1>2. ASSUME NEW h \in Hook, NEW event \in Event, BeginHook(h, event) PROVE Named'
  <2>1. \A g \in Hook : hook'[g].pc = "close" => g # h /\ hook'[g].session = hook[g].session
                                                  /\ hook'[g].pc = hook[g].pc
    <3>1. Begins(h, event) /\ FirstStep(event) # "close"
      BY <1>2, HookBeginStep DEF FirstStep
    <3>2. QED
      BY <3>1 DEF Begins
  <2>2. QED
    BY <2>1 DEF Named
<1>3. ASSUME NEW h \in Hook, NEW pc \in Pc \ {"close"}, Goto(h, pc) \/ FailTo(h, pc) PROVE Named'
  <2>1. Becomes(h, pc, hook[h].items, FALSE)
    BY <1>3, Went, HookFailed DEF FailTo, Becomes
  <2>2. QED
    BY <1>1, <1>3, <2>1 DEF Becomes
<1>4. ASSUME NEW h \in Hook, NEW pc \in Pc \ {"close"}, NEW session \in Hook \cup {NoSession},
             hook' = [hook EXCEPT ![h].session = session, ![h].pc = pc]
      PROVE  Named'
  <2>1. Becomes(h, pc, hook[h].items, FALSE)
    BY <1>4, WentWith
  <2>2. QED
    BY <1>1, <1>4, <2>1 DEF Becomes
<1>5. ASSUME NEW h \in Hook, AfterFlush(h) = "close" PROVE FALSE
  BY <1>5 DEF AfterFlush
<1>6. ASSUME NEW h \in Hook, BufferObservation(h) \/ NoteTruncate(h) \/ NoteWrite(h)
                             \/ RemoveBuffer(h) \/ ClearState(h) \/ ClearBuffer(h) \/ Cut(h)
                             \/ EndSession(h)
      PROVE  Named'
  BY <1>3, <1>5, <1>6, AfterFlushPc DEF BufferObservation, NoteTruncate, NoteWrite, RemoveBuffer,
     ClearState, ClearBuffer, Cut, EndSession, Pc
<1>7. ASSUME NEW h \in Hook, CreateSession(h) PROVE Named'
  <2>1. CASE FailTo(h, AfterFlush(h))
    BY <1>3, <1>5, <2>1, AfterFlushPc
  <2>2. CASE ~FailTo(h, AfterFlush(h))
    <3>1. hook' = [hook EXCEPT ![h].session = h, ![h].pc = "note"]
      BY <1>7, <2>2 DEF CreateSession, HookTypeOK, HookRecord
    <3>2. QED
      BY <1>4, <3>1 DEF Pc
  <2>3. QED
    BY <2>1, <2>2
<1>8. ASSUME NEW h \in Hook, FlushSession(h) PROVE Named'
  BY <1>4, <1>8 DEF FlushSession, Pc, HookTypeOK
<1>9. ASSUME NEW h \in Hook, Send(h) PROVE Named'
  <2>1. CASE Goto(h, "remove")
    BY <1>3, <2>1 DEF Pc
  <2>2. CASE hook' = [hook EXCEPT ![h].pc = AfterFlush(h), ![h].failed = TRUE]
    <3>1. Becomes(h, AfterFlush(h), hook[h].items, TRUE)
      BY <2>2, HookFailed, AfterFlushPc
    <3>2. QED
      BY <1>1, <1>5, <3>1 DEF Becomes
  <2>3. QED
    BY <1>9, <2>1, <2>2 DEF Send, FailTo
<1>10. ASSUME NEW h \in Hook, FlushRead(h) PROVE Named'
  <2>1. hook[h].pc = "read" /\ (Reads(h) \/ Proceeds(h))
    BY <1>10, ReadStep DEF FlushRead
  <2>2. \A g \in Hook \ {h} : hook'[g] = hook[g]
    BY <2>1, StepOf DEF Steps
  <2>3. hook'[h].pc # "close"
    BY <2>1 DEF Reads, Proceeds, Becomes, HookOnward, Sending, Ending
  <2>4. QED
    BY <1>1, <2>2, <2>3
<1>11. ASSUME NEW h \in Hook, EndState(h) PROVE Named'
  <2>1. CASE state = NoSession
    BY <1>4, <1>11, <2>1 DEF EndState, Pc
  <2>2. CASE state # NoSession
    <3>1. hook' = [hook EXCEPT ![h] = [hook[h] EXCEPT !.session = state, !.pc = "close"]]
      BY <1>11, <2>2 DEF EndState, HookTypeOK
    <3>2. hook'[h].session = state /\ \A g \in Hook \ {h} : hook'[g] = hook[g]
      BY <3>1 DEF HookTypeOK, HookRecord
    <3>3. QED
      BY <2>2, <3>2 DEF Named, HookTypeOK
  <2>3. QED
    BY <2>1, <2>2
<1>12. CASE UNCHANGED hookVars
  BY <1>12 DEF hookVars, Named
<1>13. QED
  BY <1>2, <1>6, <1>7, <1>8, <1>9, <1>10, <1>11, <1>12 DEF HookNext, Flush, End

LEMMA NextTypeOK ==
  ASSUME HookTypeOK, Phases, Named, [HookNext]_hookVars
  PROVE  HookTypeOK'
<1> USE DEF HookTypeOK
<1>1. hook' \in [Hook -> HookRecord]
  BY EveryStep, StepOf DEF Begins, hookVars
<1>2. ASSUME NEW h \in Hook PROVE hook[h].items \subseteq Hook /\ hook[h].session \in Hook \cup {NoSession}
  BY DEF HookRecord
<1>3. trouble' \in Nat
  <2>1. ASSUME Fail PROVE trouble' \in Nat
    BY <2>1 DEF Fail
  <2>2. QED
    BY <2>1 DEF HookNext, hookVars, BeginHook, BufferObservation, CreateSession, NoteTruncate,
       NoteWrite, Flush, FlushRead, FlushSession, Send, RemoveBuffer, End, EndState, EndSession,
       ClearState, ClearBuffer, Cut, FailTo
<1>4. state' \in Hook \cup {NoSession}
  BY <1>2 DEF HookNext, hookVars, BeginHook, BufferObservation, CreateSession, NoteTruncate,
     NoteWrite, Flush, FlushRead, FlushSession, Send, RemoveBuffer, End, EndState, EndSession,
     ClearState, ClearBuffer, Cut
<1>5. ended' \subseteq Hook
  <2>1. ASSUME NEW h \in Hook, EndSession(h) PROVE ended' \subseteq Hook
    BY <2>1 DEF EndSession, Named
  <2>2. QED
    BY <2>1 DEF HookNext, hookVars, BeginHook, BufferObservation, CreateSession, NoteTruncate,
       NoteWrite, Flush, FlushRead, FlushSession, Send, RemoveBuffer, End, EndState, ClearState,
       ClearBuffer, Cut
<1>6. buffer' \subseteq Hook /\ captured' \subseteq Hook /\ stored' \subseteq Hook \X Hook
  <2>1. ASSUME NEW h \in Hook, Steps(h)
        PROVE  buffer' \subseteq Hook /\ captured' \subseteq Hook /\ stored' \subseteq Hook \X Hook
    BY <1>2, <2>1 DEF Steps, Appends, Reads, Proceeds, Sends, Removes
  <2>2. QED
    BY <2>1, EveryStep DEF Begins, hookVars
<1>7. QED
  BY <1>1, <1>3, <1>4, <1>5, <1>6

LEMMA NextPhases ==
  ASSUME HookTypeOK, Phases, [HookNext]_hookVars
  PROVE  Phases'
<1>1. ASSUME NEW h \in Hook, NEW event \in Event, Begins(h, event) PROVE Phases'
  <2>1. ASSUME NEW g \in Hook \ {h} PROVE InPhase(g)'
    <3>1. InPhase(g)
      BY DEF Phases
    <3>2. CASE HookRuns(g)
      <4>1. hook'[g].pc = hook[g].pc /\ hook'[g].items = hook[g].items
            /\ hook'[g].event = hook[g].event /\ hook'[g].pc # "new"
        BY <1>1, <3>2 DEF Begins, HookRuns
      <4>2. QED
        BY <3>1, <4>1 DEF InPhase
    <3>3. CASE ~HookRuns(g)
      <4>1. hook'[g] = hook[g]
        BY <1>1, <3>3 DEF Begins
      <4>2. QED
        BY <3>1, <4>1 DEF InPhase
    <3>4. QED
      BY <3>2, <3>3
  <2>2. InPhase(h)'
    <3>1. /\ hook'[h].pc = FirstStep(event) /\ hook'[h].event = event /\ hook'[h].items = {}
      BY <1>1 DEF Begins
    <3>2. QED
      BY <3>1 DEF InPhase, FirstStep, Sending, Ending, Event
  <2>3. QED
    BY <2>1, <2>2 DEF Phases
<1>2. ASSUME NEW h \in Hook, Steps(h) PROVE Phases'
  <2>1. ASSUME NEW g \in Hook \ {h} PROVE InPhase(g)'
    BY <1>2, StepOf DEF Phases, InPhase
  <2>2. /\ InPhase(h) /\ hook'[h].event = hook[h].event /\ hook'[h].pc # "new" /\ HookRuns(h)
        /\ hook[h].event \in {"session-start", "prompt", "tool", "session-end"}
    BY <1>2, StepOf DEF Phases, HookTypeOK, HookRecord, Event
  <2>3. CASE Appends(h)
    <3>1. hook[h].pc = "append" /\ hook'[h].items = hook[h].items
          /\ (hook'[h].pc = "over" \/ (hook'[h].pc = "read" /\ hook[h].event = "tool"))
      BY <2>3 DEF Appends, Becomes
    <3>2. QED
      BY <2>1, <2>2, <3>1 DEF Phases, InPhase, Sending, Ending
  <2>4. CASE Reads(h)
    <3>1. hook[h].pc = "read" /\ hook'[h].pc = "session"
      BY <2>4 DEF Reads, Becomes
    <3>2. QED
      BY <2>1, <2>2, <3>1 DEF Phases, InPhase, Sending, Ending
  <2>5. CASE Proceeds(h)
    <3>1. PICK next \in Pc, fails \in BOOLEAN :
            HookOnward(h, next, fails) /\ Becomes(h, next, hook[h].items, fails)
      BY <2>5 DEF Proceeds
    <3>2. hook'[h].pc = next
      BY <3>1 DEF Becomes
    <3>3. QED
      BY <2>1, <2>2, <3>1, <3>2 DEF Phases, InPhase, HookOnward, Sending, Ending
  <2>6. CASE Sends(h)
    <3>1. hook[h].pc = "send" /\ hook'[h].pc \in {"remove", AfterFlush(h)}
      BY <2>6 DEF Sends, Becomes
    <3>2. QED
      BY <2>1, <2>2, <3>1 DEF Phases, InPhase, AfterFlush, Sending, Ending
  <2>7. CASE Removes(h)
    <3>1. hook'[h].pc \in {"over", AfterFlush(h)}
      BY <2>7 DEF Removes, Becomes
    <3>2. QED
      BY <2>1, <2>2, <3>1 DEF Phases, InPhase, AfterFlush, Sending, Ending
  <2>8. QED
    BY <1>2, <2>3, <2>4, <2>5, <2>6, <2>7 DEF Steps
<1>3. CASE UNCHANGED hookVars
  BY <1>3 DEF hookVars, Phases, InPhase
<1>4. QED
  BY <1>1, <1>2, <1>3, EveryStep

LEMMA NextApart ==
  ASSUME HookTypeOK, Phases, Apart, [HookNext]_hookVars
  PROVE  Apart'
<1>1. ASSUME NEW h \in Hook, NEW event \in Event, Begins(h, event) PROVE Apart'
  <2>1. ASSUME NEW g \in Hook, NEW k \in Hook, g # k, HookRuns(g)', HookRuns(k)'
        PROVE  hook'[g].event = "tool" /\ ~hook'[g].alone
    <3>1. CASE g = h
      <4>1. HookRuns(k)
        BY <1>1, <2>1, <3>1 DEF Begins, HookRuns
      <4>2. QED
        BY <1>1, <2>1, <3>1, <4>1 DEF Begins
    <3>2. CASE g # h
      <4>1. HookRuns(g)
        BY <1>1, <2>1, <3>2 DEF Begins, HookRuns
      <4>2. QED
        BY <1>1, <3>2, <4>1 DEF Begins
    <3>3. QED
      BY <3>1, <3>2
  <2>2. QED
    BY <2>1 DEF Apart
<1>2. ASSUME NEW h \in Hook, Steps(h) PROVE Apart'
  <2>1. \A g \in Hook : hook'[g].event = hook[g].event /\ hook'[g].alone = hook[g].alone
                        /\ (HookRuns(g)' => HookRuns(g))
    BY <1>2, StepOf DEF HookRuns
  <2>2. QED
    BY <2>1 DEF Apart
<1>3. CASE UNCHANGED hookVars
  BY <1>3 DEF hookVars, Apart, HookRuns
<1>4. QED
  BY <1>1, <1>2, <1>3, EveryStep

LEMMA NextKnown ==
  ASSUME HookTypeOK, Phases, Known, [HookNext]_hookVars
  PROVE  Known'
<1>1. ASSUME NEW h \in Hook, NEW event \in Event, Begins(h, event) PROVE Known'
  <2>1. h \notin captured /\ hook[h].items = {}
    BY <1>1 DEF Begins, Known, Phases, InPhase
  <2>2. \A g \in Hook : hook'[g].items = hook[g].items
    BY <1>1, <2>1 DEF Begins
  <2>3. \A o \in captured : hook'[o].pc = hook[o].pc
    BY <1>1, <2>1 DEF Begins, HookTypeOK
  <2>4. QED
    BY <1>1, <2>2, <2>3 DEF Begins, Known
<1>2. ASSUME NEW h \in Hook, Steps(h) PROVE Known'
  <2>1. \A g \in Hook \ {h} : hook'[g] = hook[g]
    BY <1>2, StepOf
  <2>2. CASE Appends(h)
    <3>1. hook'[h].pc \in {"over", "read"} /\ hook'[h].items = hook[h].items
          /\ buffer' = buffer \cup {h} /\ captured' = captured \cup {h} /\ stored' = stored
      BY <2>2 DEF Appends, Becomes
    <3>2. QED
      BY <2>1, <3>1 DEF Known, HookTypeOK
  <2>3. ASSUME hook[h].pc # "append", captured' = captured, buffer' \subseteq captured,
               hook'[h].pc \notin {"new", "append"},
               hook'[h].items = hook[h].items \/ (hook[h].items = {} /\ hook'[h].items = buffer),
               \A o, g \in Hook : <<o, g>> \in stored' =>
                 <<o, g>> \in stored \/ (g = h /\ o \in hook[h].items)
        PROVE  Known'
    BY <2>1, <2>3 DEF Known, HookTypeOK
  <2>4. CASE Reads(h)
    <3>1. hook[h].items = {} /\ hook[h].pc = "read"
      BY <2>4 DEF Reads, Phases, InPhase
    <3>2. QED
      BY <2>3, <2>4, <3>1 DEF Reads, Becomes, Known
  <2>5. CASE Proceeds(h)
    <3>1. PICK next \in Pc, fails \in BOOLEAN :
            HookOnward(h, next, fails) /\ Becomes(h, next, hook[h].items, fails)
      BY <2>5 DEF Proceeds
    <3>2. next \notin {"new", "append"}
      BY <3>1 DEF HookOnward, Ending
    <3>3. QED
      BY <2>1, <2>5, <3>1, <3>2 DEF Proceeds, Becomes, Known, HookTypeOK
  <2>6. CASE Sends(h)
    <3>1. hook[h].pc = "send" /\ hook'[h].pc \notin {"new", "append"}
          /\ hook'[h].items = hook[h].items
      BY <2>6 DEF Sends, Becomes, AfterFlush
    <3>2. QED
      BY <2>3, <2>6, <3>1 DEF Sends, Known
  <2>7. CASE Removes(h)
    <3>1. hook[h].pc # "append" /\ hook'[h].pc \notin {"new", "append"}
          /\ hook'[h].items = hook[h].items
      BY <2>7 DEF Removes, Becomes, AfterFlush
    <3>2. QED
      BY <2>3, <2>7, <3>1 DEF Removes, Known
  <2>8. QED
    BY <1>2, <2>2, <2>4, <2>5, <2>6, <2>7 DEF Steps
<1>3. CASE UNCHANGED hookVars
  BY <1>3 DEF hookVars, Known
<1>4. QED
  BY <1>1, <1>2, <1>3, EveryStep

LEMMA NextCarried ==
  ASSUME HookTypeOK, Phases, Apart, Carried, [HookNext]_hookVars
  PROVE  Carried'
<1>1. ASSUME NEW h \in Hook, NEW event \in Event, Begins(h, event) PROVE Carried'
  <2>1. ~Holding(h)' /\ hook'[h].pc # "remove"
    BY <1>1 DEF Begins, Holding, FirstStep, Sending
  <2>2. ASSUME NEW g \in Hook \ {h}
        PROVE  /\ Holding(g)' => Holding(g) /\ hook'[g].items = hook[g].items
                                 /\ hook'[g].event = hook[g].event
               /\ hook'[g].alone => hook[g].alone
               /\ hook'[g].pc = "remove" => hook[g].pc = "remove" /\ hook'[g].items = hook[g].items
    BY <1>1 DEF Begins, Holding
  <2>3. buffer' = buffer /\ stored' = stored
    BY <1>1 DEF Begins
  <2>4. QED
    BY <2>1, <2>2, <2>3 DEF Carried
<1>2. ASSUME NEW h \in Hook, Steps(h) PROVE Carried'
  <2>1. ASSUME NEW g \in Hook \ {h}, Holding(g)'
        PROVE  /\ hook'[g].items # {}
               /\ ~(hook'[g].alone \/ hook'[g].event = "session-end")
    <3>1. HookRuns(h) /\ hook'[g] = hook[g]
      BY <1>2, StepOf
    <3>2. Holding(g) /\ HookRuns(g)
      BY <2>1, <3>1 DEF Holding, HookRuns, Sending
    <3>3. QED
      BY <3>1, <3>2 DEF Carried, Apart
  <2>2. ASSUME NEW g \in Hook \ {h}, hook'[g].pc = "remove"
        PROVE  \A o \in hook'[g].items : <<o, g>> \in stored'
    <3>1. hook'[g] = hook[g] /\ stored \subseteq stored'
      BY <1>2, StepOf
    <3>2. QED
      BY <2>2, <3>1 DEF Carried
  <2>3. ASSUME Holding(h)' =>
                 /\ hook'[h].items # {}
                 /\ hook'[h].alone \/ hook'[h].event = "session-end" => buffer' = hook'[h].items,
               hook'[h].pc = "remove" => \A o \in hook'[h].items : <<o, h>> \in stored'
        PROVE  Carried'
    BY <2>1, <2>2, <2>3 DEF Carried
  <2>4. CASE Appends(h) \/ Removes(h)
    <3>1. hook'[h].pc \in {"over", "read", AfterFlush(h)}
      BY <2>4 DEF Appends, Removes, Becomes
    <3>2. ~Holding(h)' /\ hook'[h].pc # "remove"
      BY <3>1 DEF Holding, Sending, AfterFlush
    <3>3. QED
      BY <2>3, <3>2
  <2>5. CASE Reads(h)
    BY <2>3, <2>5 DEF Reads, Becomes
  <2>6. CASE Proceeds(h)
    <3>1. PICK next \in Pc, fails \in BOOLEAN :
            HookOnward(h, next, fails) /\ Becomes(h, next, hook[h].items, fails)
      BY <2>6 DEF Proceeds
    <3>2. hook'[h].pc = next /\ hook'[h].items = hook[h].items /\ buffer' = buffer
          /\ hook'[h].event = hook[h].event /\ hook'[h].alone = hook[h].alone
      BY <2>6, <3>1 DEF Proceeds, Becomes
    <3>3. next # "remove" /\ (Holding(h)' => Holding(h))
      BY <3>1, <3>2 DEF HookOnward, Holding, Sending, Ending
    <3>4. QED
      BY <2>3, <3>2, <3>3 DEF Carried
  <2>7. CASE Sends(h)
    <3>1. Holding(h)
      BY <2>7 DEF Sends, Holding, Sending, Phases, InPhase
    <3>2. /\ hook'[h].items = hook[h].items /\ buffer' = buffer
          /\ hook'[h].event = hook[h].event /\ hook'[h].alone = hook[h].alone
          /\ \A o \in hook[h].items : <<o, h>> \in stored'
      BY <2>7 DEF Sends, Becomes
    <3>3. QED
      BY <2>3, <3>1, <3>2 DEF Carried
  <2>8. QED
    BY <1>2, <2>4, <2>5, <2>6, <2>7 DEF Steps
<1>3. CASE UNCHANGED hookVars
  BY <1>3 DEF hookVars, Carried, Holding
<1>4. QED
  BY <1>1, <1>2, <1>3, EveryStep

LEMMA NextClosing ==
  ASSUME HookTypeOK, Phases, Apart, Carried, Closing, [HookNext]_hookVars
  PROVE  Closing'
<1>1. ASSUME NEW h \in Hook, NEW event \in Event, Begins(h, event) PROVE Closing'
  <2>1. hook'[h].pc \notin Ending
    BY <1>1 DEF Begins, FirstStep, Ending
  <2>2. QED
    BY <1>1, <2>1 DEF Begins, Closing
<1>2. ASSUME NEW h \in Hook, Steps(h) PROVE Closing'
  <2>1. ASSUME NEW g \in Hook \ {h} PROVE hook'[g].pc \notin Ending
    <3>1. HookRuns(h) /\ hook'[g] = hook[g]
      BY <1>2, StepOf
    <3>2. ASSUME hook[g].pc \in Ending PROVE FALSE
      <4>1. hook[g].event = "session-end" /\ HookRuns(g)
        BY <3>2 DEF Phases, InPhase, HookRuns, Ending
      <4>2. QED
        BY <3>1, <4>1 DEF Apart
    <3>3. QED
      BY <3>1, <3>2
  <2>2. ASSUME hook'[h].pc \in Ending => buffer' = {} \/ (hook'[h].failed /\ buffer' \subseteq hook'[h].items)
        PROVE  Closing'
    BY <2>1, <2>2 DEF Closing
  <2>3. CASE Appends(h) \/ Reads(h)
    <3>1. hook'[h].pc \in {"over", "read", "session"}
      BY <2>3 DEF Appends, Reads, Becomes
    <3>2. QED
      BY <2>2, <3>1 DEF Ending
  <2>4. CASE Removes(h)
    BY <2>2, <2>4 DEF Removes
  <2>5. CASE Proceeds(h)
    <3>1. PICK next \in Pc, fails \in BOOLEAN :
            HookOnward(h, next, fails) /\ Becomes(h, next, hook[h].items, fails)
      BY <2>5 DEF Proceeds
    <3>2. hook'[h].pc = next /\ hook'[h].items = hook[h].items /\ buffer' = buffer
          /\ (hook[h].failed \/ fails => hook'[h].failed)
      BY <2>5, <3>1 DEF Proceeds, Becomes
    <3>3. CASE next \notin Ending
      BY <2>2, <3>2, <3>3
    <3>4. CASE next \in Ending /\ hook[h].pc \in Ending
      BY <2>2, <3>2, <3>4 DEF Closing
    <3>5. CASE next \in Ending /\ hook[h].pc \notin Ending
      <4>1. hook[h].event = "session-end"
            /\ (buffer = {} \/ (hook[h].pc \in Sending /\ fails))
        BY <3>1, <3>5 DEF HookOnward, Ending
      <4>2. hook[h].pc \in Sending => Holding(h)
        BY <4>1 DEF Holding
      <4>3. QED
        BY <2>2, <3>2, <4>1, <4>2 DEF Carried
    <3>6. QED
      BY <3>3, <3>4, <3>5
  <2>6. CASE Sends(h)
    <3>1. Holding(h)
      BY <2>6 DEF Sends, Holding, Sending, Phases, InPhase
    <3>2. buffer' = buffer /\ hook'[h].items = hook[h].items
      BY <2>6 DEF Sends, Becomes
    <3>3. ASSUME hook'[h].pc \in Ending PROVE hook[h].event = "session-end" /\ hook'[h].failed
      BY <2>6, <3>3 DEF Sends, Becomes, AfterFlush, Ending
    <3>4. QED
      BY <2>2, <3>1, <3>2, <3>3 DEF Carried
  <2>7. QED
    BY <1>2, <2>3, <2>4, <2>5, <2>6 DEF Steps
<1>3. CASE UNCHANGED hookVars
  BY <1>3 DEF hookVars, Closing
<1>4. QED
  BY <1>1, <1>2, <1>3, EveryStep

LEMMA NextDelivered ==
  ASSUME HookTypeOK, Phases, Apart, Known, Delivered, [HookNext]_hookVars
  PROVE  Delivered'
<1>1. ASSUME NEW h \in Hook, NEW event \in Event, Begins(h, event) PROVE Delivered'
  <2>1. ~Holding(h)' /\ \A k \in Hook \ {h} : Holding(k)' => Holding(k) /\ hook'[k].items = hook[k].items
    BY <1>1 DEF Begins, Holding, FirstStep, Sending
  <2>2. ASSUME NEW g \in Hook, NEW o \in Hook, hook'[g].alone, ~hook'[g].failed, <<o, g>> \in stored'
        PROVE  hook'[g].pc = "remove" \/ (o \notin buffer' /\ \A k \in Hook : Holding(k)' => o \notin hook'[k].items)
    <3>1. g # h
      BY <1>1, <2>2 DEF Begins, Known, Phases, InPhase
    <3>2. <<o, g>> \in stored /\ hook[g].alone /\ ~hook[g].failed /\ hook'[g].pc = hook[g].pc
          /\ buffer' = buffer
      BY <1>1, <2>2, <3>1 DEF Begins
    <3>3. QED
      BY <2>1, <3>2 DEF Delivered
  <2>3. QED
    BY <2>2 DEF Delivered
<1>2. ASSUME NEW h \in Hook, Steps(h) PROVE Delivered'
  <2>1. ASSUME NEW g \in Hook, NEW o \in Hook, hook'[g].alone, ~hook'[g].failed, <<o, g>> \in stored'
        PROVE  hook'[g].pc = "remove" \/ (o \notin buffer' /\ \A k \in Hook : Holding(k)' => o \notin hook'[k].items)
    <3> DEFINE Free == o \notin buffer' /\ \A k \in Hook : Holding(k)' => o \notin hook'[k].items
    <3>0. /\ HookRuns(h) /\ \A k \in Hook \ {h} : hook'[k] = hook[k]
          /\ hook[g].alone /\ ~hook[g].failed
      BY <1>2, <2>1, StepOf
    <3>1. ASSUME g = h \/ HookRuns(g) PROVE \A k \in Hook \ {g} : ~HookRuns(k)
      BY <3>0, <3>1 DEF Apart
    <3>2. CASE <<o, g>> \notin stored
      <4>1. Sends(h) /\ g = h
        <5>1. stored' # stored
          BY <2>1, <3>2
        <5>2. Sends(h)
          BY <1>2, <5>1 DEF Steps, Appends, Reads, Proceeds, Removes
        <5>3. stored' = stored \cup (hook[h].items \X {h})
          BY <5>2 DEF Sends
        <5>4. QED
          BY <2>1, <3>2, <5>2, <5>3
      <4>2. QED
        BY <2>1, <4>1 DEF Sends, Becomes
    <3>3. CASE <<o, g>> \in stored /\ hook[g].pc = "remove"
      <4>1. HookRuns(g)
        BY <3>3 DEF HookRuns
      <4>2. g = h
        BY <3>0, <3>1, <4>1
      <4>3. CASE Removes(h)
        <5>1. buffer' = {} /\ hook'[h].pc \in {"over", AfterFlush(h)}
          BY <4>3 DEF Removes, Becomes
        <5>2. ~Holding(h)'
          BY <5>1 DEF Holding, Sending, AfterFlush
        <5>3. \A k \in Hook \ {h} : ~Holding(k)'
          BY <3>0, <3>1, <4>2 DEF Holding, HookRuns, Sending
        <5>4. QED
          BY <5>1, <5>2, <5>3
      <4>4. CASE Proceeds(h)
        <5>1. PICK next \in Pc, fails \in BOOLEAN :
                HookOnward(h, next, fails) /\ Becomes(h, next, hook[h].items, fails)
          BY <4>4 DEF Proceeds
        <5>2. fails
          BY <3>3, <4>2, <5>1 DEF HookOnward, Sending, Ending
        <5>3. QED
          BY <2>1, <4>2, <5>1, <5>2 DEF Becomes
      <4>5. QED
        BY <1>2, <3>3, <4>2, <4>3, <4>4 DEF Steps, Appends, Reads, Sends
    <3>4. CASE <<o, g>> \in stored /\ hook[g].pc # "remove"
      <4>1. o \notin buffer /\ \A k \in Hook : Holding(k) => o \notin hook[k].items
        BY <3>0, <3>4 DEF Delivered
      <4>2. \A k \in Hook \ {h} : Holding(k)' => o \notin hook'[k].items
        BY <3>0, <4>1 DEF Holding
      <4>3. ASSUME o \notin buffer', Holding(h)' => o \notin hook'[h].items PROVE Free
        BY <4>2, <4>3
      <4>4. CASE Appends(h)
        <5>1. o \in captured /\ hook[o].pc # "append"
          BY <3>4 DEF Known
        <5>2. buffer' = buffer \cup {h} /\ hook[h].pc = "append" /\ hook'[h].pc \in {"over", "read"}
          BY <4>4 DEF Appends, Becomes
        <5>3. ~Holding(h)'
          BY <5>2 DEF Holding, Sending
        <5>4. QED
          BY <4>1, <4>3, <5>1, <5>2, <5>3
      <4>5. CASE Reads(h)
        BY <4>1, <4>3, <4>5 DEF Reads, Becomes
      <4>6. CASE Proceeds(h)
        <5>1. PICK next \in Pc, fails \in BOOLEAN :
                HookOnward(h, next, fails) /\ Becomes(h, next, hook[h].items, fails)
          BY <4>6 DEF Proceeds
        <5>2. Holding(h)' => Holding(h)
          BY <5>1 DEF HookOnward, Becomes, Holding, Sending, Ending
        <5>3. buffer' = buffer /\ hook'[h].items = hook[h].items
          BY <4>6, <5>1 DEF Proceeds, Becomes
        <5>4. QED
          BY <4>1, <4>3, <5>2, <5>3
      <4>7. CASE Sends(h)
        <5>1. Holding(h)
          BY <4>7 DEF Sends, Holding, Sending, Phases, InPhase
        <5>2. buffer' = buffer /\ hook'[h].items = hook[h].items
          BY <4>7 DEF Sends, Becomes
        <5>3. QED
          BY <4>1, <4>3, <5>1, <5>2
      <4>8. CASE Removes(h)
        <5>1. buffer' = {} /\ hook'[h].pc \in {"over", AfterFlush(h)}
          BY <4>8 DEF Removes, Becomes
        <5>2. ~Holding(h)'
          BY <5>1 DEF Holding, Sending, AfterFlush
        <5>3. QED
          BY <4>3, <5>1, <5>2
      <4>9. QED
        BY <1>2, <4>4, <4>5, <4>6, <4>7, <4>8 DEF Steps
    <3>5. QED
      BY <3>2, <3>3, <3>4
  <2>2. QED
    BY <2>1 DEF Delivered
<1>3. CASE UNCHANGED hookVars
  BY <1>3 DEF hookVars, Delivered, Holding
<1>4. QED
  BY <1>1, <1>2, <1>3, EveryStep

\* Why an observation is gone.
Lost(h, o) ==
  \/ hook[h].event = "session-end" /\ hook[h].failed /\ o \in hook[h].items
  \/ ~hook[h].alone /\ (\E sent \in Hook : <<sent, h>> \in stored) /\ o \notin hook[h].items

LEMMA NextLost ==
  ASSUME HookTypeOK, Phases, Apart, Known, Carried, Closing, LostOnlyAtEndOrBeside,
         [HookNext]_hookVars
  PROVE  LostOnlyAtEndOrBeside'
<1>1. ASSUME NEW h \in Hook, NEW event \in Event, Begins(h, event) PROVE LostOnlyAtEndOrBeside'
  <2>1. ASSUME NEW o \in captured, NEW k \in Hook, Lost(k, o) PROVE Lost(k, o)'
    <3>1. k # h
      BY <1>1, <2>1 DEF Begins, Lost, Phases, InPhase, NotRun, Run
    <3>2. QED
      BY <1>1, <2>1, <3>1 DEF Begins, Lost
  <2>2. \A o \in captured : Kept(o)' <=> Kept(o)
    BY <1>1 DEF Begins, Kept, SentBy
  <2>3. captured' = captured
    BY <1>1 DEF Begins
  <2>4. QED
    BY <2>1, <2>2, <2>3 DEF LostOnlyAtEndOrBeside, Lost
<1>2. ASSUME NEW h \in Hook, Steps(h) PROVE LostOnlyAtEndOrBeside'
  <2>0. /\ \A k \in Hook \ {h} : hook'[k] = hook[k]
        /\ hook'[h].event = hook[h].event /\ hook'[h].alone = hook[h].alone
        /\ hook[h].failed => hook'[h].failed
        /\ hook[h].pc # "read" => hook'[h].items = hook[h].items
        /\ stored \subseteq stored'
    BY <1>2, StepOf
  <2>1. ASSUME NEW o \in captured, NEW k \in Hook, Lost(k, o) PROVE Lost(k, o)'
    <3>1. CASE k # h
      BY <2>0, <2>1, <3>1 DEF Lost
    <3>2. CASE k = h
      <4>1. hook[h].items # {}
        BY <2>1, <3>2 DEF Lost, Known
      <4>2. hook'[h].items = hook[h].items
        BY <2>0, <4>1 DEF Phases, InPhase
      <4>3. QED
        BY <2>0, <2>1, <3>2, <4>2 DEF Lost
    <3>3. QED
      BY <3>1, <3>2
  <2>2. ASSUME NEW o \in captured', ~Kept(o)' PROVE \E k \in Hook : Lost(k, o)'
    <3>1. o \in captured
      BY <1>2, <2>2 DEF Steps, Appends, Reads, Proceeds, Sends, Removes, Kept
    <3>2. CASE ~Kept(o)
      BY <2>1, <3>1, <3>2 DEF LostOnlyAtEndOrBeside, Lost
    <3>3. CASE Kept(o)
      <4>1. o \in buffer /\ o \notin buffer' /\ \A k \in Hook : <<o, k>> \notin stored'
        BY <2>0, <2>2, <3>3 DEF Kept, SentBy
      <4>2. Removes(h)
        BY <1>2, <4>1 DEF Steps, Appends, Reads, Proceeds, Sends
      <4>3. hook'[h].items = hook[h].items
        BY <4>2 DEF Removes, Becomes
      <4>4. CASE hook[h].pc = "remove"
        <5>1. Holding(h)
          BY <4>4 DEF Holding, Sending, Phases, InPhase
        <5>2. o \notin hook[h].items
          BY <2>0, <4>1, <4>4 DEF Carried
        <5>3. ~hook[h].alone
          BY <4>1, <5>1, <5>2 DEF Carried
        <5>4. PICK sent \in hook[h].items : <<sent, h>> \in stored
          BY <4>4, <5>1 DEF Carried
        <5>5. sent \in Hook
          BY <5>4 DEF HookTypeOK
        <5>6. Lost(h, o)
          BY <5>2, <5>3, <5>4, <5>5 DEF Lost
        <5>7. QED
          BY <2>1, <3>1, <5>6
      <4>5. CASE hook[h].pc = "clearbuffer"
        <5>1. hook[h].event = "session-end" /\ hook[h].failed /\ o \in hook[h].items
          BY <4>1, <4>5 DEF Closing, Phases, InPhase, Ending
        <5>2. Lost(h, o)
          BY <5>1 DEF Lost
        <5>3. QED
          BY <2>1, <3>1, <5>2
      <4>6. QED
        BY <4>2, <4>4, <4>5 DEF Removes
    <3>4. QED
      BY <3>2, <3>3
  <2>3. QED
    BY <2>2 DEF LostOnlyAtEndOrBeside, Lost
<1>3. CASE UNCHANGED hookVars
  BY <1>3 DEF hookVars, LostOnlyAtEndOrBeside, Kept, SentBy
<1>4. QED
  BY <1>1, <1>2, <1>3, EveryStep

LEMMA NextSentTwice ==
  ASSUME HookTypeOK, Phases, Apart, Known, Delivered, SentTwiceOnlyIfCut, [HookNext]_hookVars
  PROVE  SentTwiceOnlyIfCut'
<1> DEFINE Excused(k) == hook[k].failed \/ ~hook[k].alone
<1>1. ASSUME NEW h \in Hook, NEW event \in Event, Begins(h, event) PROVE SentTwiceOnlyIfCut'
  <2>1. ASSUME NEW o \in Hook, NEW k \in Hook, <<o, k>> \in stored, Excused(k) PROVE Excused(k)'
    <3>1. k # h
      BY <1>1, <2>1 DEF Begins, Known, Phases, InPhase
    <3>2. QED
      BY <1>1, <2>1, <3>1 DEF Begins
  <2>2. stored' = stored
    BY <1>1 DEF Begins
  <2>3. QED
    BY <2>1, <2>2 DEF SentTwiceOnlyIfCut, SentBy
<1>2. ASSUME NEW h \in Hook, Steps(h) PROVE SentTwiceOnlyIfCut'
  <2>1. ASSUME NEW k \in Hook, Excused(k) PROVE Excused(k)'
    BY <1>2, <2>1, StepOf
  <2>2. ASSUME NEW o \in Hook, NEW g \in Hook \ {h}, <<o, g>> \in stored',
               <<o, h>> \in stored', <<o, h>> \notin stored
        PROVE  Excused(g)
    <3>1. stored' # stored
      BY <2>2
    <3>2. Sends(h)
      BY <1>2, <3>1 DEF Steps, Appends, Reads, Proceeds, Removes
    <3>3. stored' = stored \cup (hook[h].items \X {h})
      BY <3>2 DEF Sends
    <3>4. <<o, g>> \in stored /\ o \in hook[h].items
      BY <2>2, <3>3
    <3>5. Holding(h) /\ HookRuns(h)
      BY <3>2 DEF Sends, Holding, Sending, HookRuns, Phases, InPhase
    <3>6. CASE hook[g].pc = "remove"
      BY <3>5, <3>6 DEF Apart, HookRuns
    <3>7. CASE hook[g].pc # "remove"
      BY <3>4, <3>5, <3>7 DEF Delivered
    <3>8. QED
      BY <3>6, <3>7
  <2>3. \A o \in Hook, g \in Hook \ {h} : <<o, g>> \in stored' => <<o, g>> \in stored
    <3>1. stored' = stored \/ stored' = stored \cup (hook[h].items \X {h})
      BY <1>2 DEF Steps, Appends, Reads, Proceeds, Sends, Removes
    <3>2. QED
      BY <3>1
  <2>4. ASSUME NEW o \in Hook, NEW g \in SentBy(o)', NEW k \in SentBy(o)', g # k
        PROVE  \E e \in {g, k} : Excused(e)'
    <3>1. g \in Hook /\ k \in Hook /\ <<o, g>> \in stored' /\ <<o, k>> \in stored'
      BY DEF SentBy
    <3>2. CASE <<o, g>> \in stored /\ <<o, k>> \in stored
      <4>1. \E e \in {g, k} : Excused(e)
        BY <2>4, <3>1, <3>2 DEF SentTwiceOnlyIfCut, SentBy
      <4>2. QED
        BY <2>1, <3>1, <4>1
    <3>3. CASE <<o, g>> \notin stored
      <4>1. g = h /\ k \in Hook \ {h}
        BY <2>3, <2>4, <3>1, <3>3
      <4>2. Excused(k)
        BY <2>2, <3>1, <3>3, <4>1
      <4>3. QED
        BY <2>1, <3>1, <4>2
    <3>4. CASE <<o, k>> \notin stored
      <4>1. k = h /\ g \in Hook \ {h}
        BY <2>3, <2>4, <3>1, <3>4
      <4>2. Excused(g)
        BY <2>2, <3>1, <3>4, <4>1
      <4>3. QED
        BY <2>1, <3>1, <4>2
    <3>5. QED
      BY <3>2, <3>3, <3>4
  <2>5. QED
    BY <2>4 DEF SentTwiceOnlyIfCut
<1>3. CASE UNCHANGED hookVars
  BY <1>3 DEF hookVars, SentTwiceOnlyIfCut, SentBy
<1>4. QED
  BY <1>1, <1>2, <1>3, EveryStep

-----------------------------------------------------------------------------
(* The theorems *)

LEMMA HookInitInv == HookInit => HookInv
<1> SUFFICES ASSUME HookInit PROVE HookInv
  OBVIOUS
<1>1. NotRun \in HookRecord /\ NotRun.pc = "new" /\ NotRun.items = {}
  BY DEF NotRun, Run, HookRecord, Event, Pc
<1>2. \A h \in Hook : hook[h] = NotRun
  BY DEF HookInit
<1>3. HookTypeOK
  BY <1>1, LimitAssumption DEF HookInit, HookTypeOK
<1>4. \A h \in Hook : hook[h].pc = "new" /\ ~HookRuns(h) /\ ~Holding(h) /\ hook[h].items = {}
  BY <1>1, <1>2 DEF HookRuns, Holding, Sending
<1>5. Phases /\ Named /\ Apart
  BY <1>2, <1>4 DEF Phases, InPhase, Named, Apart, Sending, Ending
<1>6. Known /\ Carried /\ Closing /\ Delivered
  BY <1>4 DEF HookInit, Known, Carried, Closing, Delivered, Ending
<1>7. LostOnlyAtEndOrBeside /\ SentTwiceOnlyIfCut
  BY DEF HookInit, LostOnlyAtEndOrBeside, SentTwiceOnlyIfCut, SentBy
<1>8. QED
  BY <1>3, <1>5, <1>6, <1>7 DEF HookInv

LEMMA HookInductive ==
  ASSUME HookInv, [HookNext]_hookVars
  PROVE  HookInv'
<1>1. HookTypeOK' /\ Phases' /\ Named'
  BY NextTypeOK, NextPhases, NextNamed DEF HookInv
<1>2. Apart' /\ Known' /\ Carried' /\ Closing'
  BY NextApart, NextKnown, NextCarried, NextClosing DEF HookInv
<1>3. Delivered'
  BY NextDelivered DEF HookInv
<1>4. LostOnlyAtEndOrBeside' /\ SentTwiceOnlyIfCut'
  BY NextLost, NextSentTwice DEF HookInv
<1>5. QED
  BY <1>1, <1>2, <1>3, <1>4 DEF HookInv

LEMMA HookInvHolds == HookSpec => []HookInv
<1>1. HookInv /\ [HookNext]_hookVars => HookInv'
  BY HookInductive
<1>2. QED
  BY HookInitInv, <1>1, PTL DEF HookSpec

\* The buffer, the state file, the server and every hook keep their types, wherever
\* hooks are cut off (internal/cli/hook.go).
THEOREM HookTypeCorrect == HookSpec => []HookTypeOK
<1>1. HookInv => HookTypeOK
  BY DEF HookInv
<1>2. QED
  BY HookInvHolds, <1>1, PTL

\* What the hooks captured is neither lost nor doubled, but for the ways out that
\* CapturedOnce names (bufferObservation, flushBuffer, hookSessionEnd).
THEOREM CapturedOnceCorrect == HookSpec => []CapturedOnce
<1>1. HookInv => CapturedOnce
  BY DEF HookInv, CapturedOnce
<1>2. QED
  BY HookInvHolds, <1>1, PTL

-----------------------------------------------------------------------------
(***************************************************************************)
(* Connect: any binaries, entries, commands, edits and failed writes       *)
(***************************************************************************)

AnyContent == [form : {"absent", "empty", "broken", "null", "object"},
               mine : Seq(Ours), theirs : SUBSET Entry, raw : BOOLEAN]
Todo == {<<>>, Plan, <<"hooks", "sections">>, <<"sections">>}
AnyCommand == [op : {"idle", "connect", "disconnect"}, binary : Binary \cup {Nobody},
               todo : Todo,
               step : {"next", "backup", "truncate", "write"},
               read : AnyContent, out : AnyContent, ok : BOOLEAN]

ConnectTypeOK ==
  /\ disk \in [File -> AnyContent] /\ bak \in [File -> AnyContent]
  /\ command \in AnyCommand /\ (Running <=> command.todo # <<>>)
  /\ command.op = "connect" => command.binary \in Binary
  /\ wanted \in [File -> SUBSET Entry]
  /\ {raced, cut, restarted} \subseteq SUBSET File
  /\ settled \in Binary \cup {Nobody, Gone}

-----------------------------------------------------------------------------
(* The invariant *)

\* The command is between reading the file and writing it.
Held(f) == Running /\ Head(command.todo) = f /\ command.step # "next"

\* A file that is not there, is empty or is `null` holds nothing.
Hollow(f, c) ==
  /\ c.form \in {"absent", "empty", "null"} => c.mine = <<>> /\ c.theirs = {}
  /\ f = "sections" => c.form # "null"

\* What a command holds is what it read, until somebody edits the file.
HeldAsRead(f) ==
  Held(f) =>
    /\ Hollow(f, command.read) /\ command.out = Merged(f, command.read)
    /\ f \notin raced => disk[f] = IF command.step = "write" THEN Empty ELSE command.read
    /\ f \notin raced /\ command.step = "truncate" =>
         bak[f] = command.read \/ command.read.form \in {"absent", "empty"}

\* Where the entries of the user are: in the file, but while it is written, and
\* then in its backup.
Whereabouts(f) ==
  f \notin raced /\ f \notin cut \cap restarted =>
    /\ wanted[f] \subseteq disk[f].theirs \cup bak[f].theirs
    /\ f \notin cut => IF Held(f) THEN wanted[f] \subseteq command.read.theirs
                       ELSE wanted[f] \subseteq disk[f].theirs
    /\ Held(f) /\ command.step = "write" => wanted[f] \subseteq bak[f].theirs

\* What a command leaves of a file.
AsConnected(f, b) ==
  IF f = "hooks" THEN disk[f].mine # <<>> /\ Last(disk[f].mine).binary = b
  ELSE IsConnected(f) /\ disk[f].mine[1].binary = b
AsDisconnected(f) ==
  IF f = "hooks" THEN Recognised = {} \/ disk["servers"].form = "absent" ELSE ~IsConnected(f)

\* The files a command is done with when these are left.
Past(todo) == File \ ToSet(todo)

Reported ==
  /\ \A i, j \in Recognised : i = j
  /\ Running /\ command.ok /\ command.op = "connect" => \A f \in Past(command.todo) : AsConnected(f, command.binary)
  /\ Running /\ command.ok /\ command.op = "disconnect" => \A f \in Past(command.todo) : AsDisconnected(f)
  /\ settled \in Binary /\ ~Running => \A f \in File : AsConnected(f, settled)
  /\ settled = Gone => ~Running /\ \A f \in File : AsDisconnected(f)

ConnectInv ==
  /\ ConnectTypeOK /\ Reported
  /\ \A f \in File : Hollow(f, disk[f]) /\ HeldAsRead(f) /\ Whereabouts(f)

-----------------------------------------------------------------------------
(* What a command makes of a file *)

LEMMA OurGroups == ASSUME NEW b \in Binary PROVE [binary |-> b, extra |-> {}] \in Ours
  BY DEF Ours

\* No recognised hook is left, and none is added but the new one.
LEMMA HooksRemoved ==
  ASSUME NEW groups \in Seq(Ours)
  PROVE  /\ RemoveHooks(groups) \in Seq(Ours)
         /\ \A i \in DOMAIN RemoveHooks(groups) : ~EntryMentionsDKM(RemoveHooks(groups)[i])
<1> DEFINE gone == {g \in Ours : EntryMentionsDKM(g)}
<1>1. RemoveHooks(groups) \in Seq(Ours) /\ ToSet(RemoveHooks(groups)) = ToSet(groups) \ gone
  BY WithoutMembers DEF RemoveHooks
<1>2. ASSUME NEW i \in DOMAIN RemoveHooks(groups) PROVE ~EntryMentionsDKM(RemoveHooks(groups)[i])
  <2>1. RemoveHooks(groups)[i] \in ToSet(RemoveHooks(groups)) /\ RemoveHooks(groups)[i] \in Ours
    BY <1>1 DEF ToSet
  <2>2. QED
    BY <1>1, <2>1
<1>3. QED
  BY <1>1, <1>2

LEMMA HooksWritten ==
  ASSUME NEW groups \in Seq(Ours), NEW b \in Binary, NEW list, list = WriteClaudeHooks(groups, b)
  PROVE  /\ list \in Seq(Ours) /\ list # <<>> /\ Last(list).binary = b
         /\ \A i, j \in DOMAIN list : EntryMentionsDKM(list[i]) /\ EntryMentionsDKM(list[j]) => i = j
<1> PICK rest : rest = RemoveHooks(groups)
  OBVIOUS
<1> PICK one : one = [binary |-> b, extra |-> {}]
  OBVIOUS
<1>1. rest \in Seq(Ours) /\ \A i \in DOMAIN rest : ~EntryMentionsDKM(rest[i])
  BY HooksRemoved
<1>2. one \in Ours /\ one.binary = b /\ list = Append(rest, one)
  BY OurGroups DEF WriteClaudeHooks
<1>3. /\ list \in Seq(Ours) /\ Len(list) = Len(rest) + 1 /\ list[Len(list)] = one /\ list # <<>>
      /\ \A i \in DOMAIN list : i \in DOMAIN rest \/ i = Len(list)
      /\ \A i \in DOMAIN rest : list[i] = rest[i]
  BY <1>1, <1>2
<1>4. ASSUME NEW i \in DOMAIN list, EntryMentionsDKM(list[i]) PROVE i = Len(list)
  BY <1>1, <1>3, <1>4
<1>5. QED
  BY <1>2, <1>3, <1>4 DEF Last

\* A command keeps what is the user's, and what it writes is a file's content.
LEMMA MergedKeeps ==
  ASSUME ConnectTypeOK, Running, NEW f \in File, NEW c \in AnyContent, Hollow(f, c)
  PROVE  /\ Mutated(f, c) \in Seq(Ours)
         /\ Merged(f, c) \in AnyContent /\ Merged(f, c).theirs = c.theirs
         /\ Merged(f, c).mine = Mutated(f, c) /\ Hollow(f, Merged(f, c))
         /\ f # "sections" => Merged(f, c).form = "object"
<1>1. command.op \in {"connect", "disconnect"} /\ (command.op = "connect" => command.binary \in Binary)
  BY DEF ConnectTypeOK, AnyCommand, Running
<1>2. c.mine \in Seq(Ours) /\ c.theirs \in SUBSET Entry
  BY DEF AnyContent
<1>3. Mutated(f, c) \in Seq(Ours)
  <2>1. CASE command.op = "connect" /\ f = "hooks"
    <3>1. Mutated(f, c) = WriteClaudeHooks(c.mine, command.binary)
      BY <2>1 DEF Mutated
    <3>2. QED
      BY <1>1, <1>2, <2>1, <3>1, HooksWritten
  <2>2. CASE command.op = "connect" /\ f # "hooks"
    <3>1. Mutated(f, c) = <<[binary |-> command.binary, extra |-> {}]>>
      BY <2>2 DEF Mutated
    <3>2. QED
      BY <1>1, <2>2, <3>1, OurGroups
  <2>3. CASE command.op = "disconnect" /\ f = "hooks"
    <3>1. Mutated(f, c) = RemoveHooks(c.mine)
      BY <2>3 DEF Mutated
    <3>2. QED
      BY <1>2, <3>1, HooksRemoved
  <2>4. CASE command.op = "disconnect" /\ f # "hooks"
    BY <2>4 DEF Mutated
  <2>5. QED
    BY <1>1, <2>1, <2>2, <2>3, <2>4
<1> HIDE DEF Mutated
<1>4. CASE f = "sections"
  <2>1. Merged(f, c) = [c EXCEPT !.mine = Mutated(f, c),
                                 !.form = IF c.form \in {"absent", "empty"} THEN "object" ELSE @]
    BY <1>4 DEF Merged, EditTOML
  <2>2. QED
    BY <1>3, <1>4, <2>1 DEF AnyContent, Hollow
<1>5. CASE f # "sections"
  <2>1. Merged(f, c) = [form |-> "object", mine |-> Mutated(f, c), theirs |-> c.theirs, raw |-> FALSE]
    BY <1>5 DEF Merged, MergeJSON
  <2>2. QED
    BY <1>2, <1>3, <1>5, <2>1 DEF AnyContent, Hollow
<1>6. QED
  BY <1>4, <1>5

\* What a command makes of what it read does not change while it runs.
LEMMA MergedStays ==
  ASSUME NEW f, NEW c, c = command.read, command'.read = c,
         command'.op = command.op, command'.binary = command.binary
  PROVE  Merged(f, command.read)' = Merged(f, c) /\ (Hollow(f, command.read)' <=> Hollow(f, c))
BY DEF Merged, EditTOML, MergeJSON, Mutated, Hollow

-----------------------------------------------------------------------------
(* How a command goes on *)

LEMMA TodoIs ==
  ASSUME ConnectTypeOK, Running
  PROVE  LET f == Head(command.todo) IN
         /\ f \in File /\ Tail(command.todo) \in Todo \ {Plan} /\ AfterError(f) \in Todo \ {Plan}
         /\ Past(Tail(command.todo)) = Past(command.todo) \cup {f} /\ f \notin Past(command.todo)
         /\ f = "servers" => Past(command.todo) = {}
         /\ \A c : AfterRead(f, c) \in {Tail(command.todo), <<"sections">>}
<1>1. command.todo \in {Plan, <<"hooks", "sections">>, <<"sections">>}
  BY DEF ConnectTypeOK, AnyCommand, Todo
<1>2. /\ Past(<<>>) = File /\ Past(<<"sections">>) = {"servers", "hooks"}
      /\ Past(<<"hooks", "sections">>) = {"servers"} /\ Past(Plan) = {}
  BY DEF Past, File, Plan, ToSet
<1>3. CASE command.todo = Plan
  <2>1. Head(command.todo) = "servers" /\ Tail(command.todo) = <<"hooks", "sections">>
    BY <1>3 DEF Plan
  <2>2. <<"hooks", "sections">> \in Todo \ {Plan} /\ <<"sections">> \in Todo \ {Plan}
    BY DEF Todo, Plan
  <2>3. QED
    BY <1>2, <1>3, <2>1, <2>2 DEF File, AfterError, AfterRead
<1>4. CASE command.todo = <<"hooks", "sections">>
  <2>1. Head(command.todo) = "hooks" /\ Tail(command.todo) = <<"sections">>
    BY <1>4
  <2>2. <<"sections">> \in Todo \ {Plan}
    BY DEF Todo, Plan
  <2>3. QED
    BY <1>2, <1>4, <2>1, <2>2 DEF File, AfterError, AfterRead
<1>5. CASE command.todo = <<"sections">>
  <2>1. Head(command.todo) = "sections" /\ Tail(command.todo) = <<>>
    BY <1>5
  <2>2. <<>> \in Todo \ {Plan}
    BY DEF Todo, Plan
  <2>3. QED
    BY <1>2, <1>5, <2>1, <2>2 DEF File, AfterError, AfterRead
<1>6. QED
  BY <1>1, <1>3, <1>4, <1>5

LEMMA IdleType == Idle \in AnyCommand /\ Absent \in AnyContent /\ Empty \in AnyContent /\ Torn \in AnyContent
<1>1. Absent \in AnyContent /\ Empty \in AnyContent /\ Torn \in AnyContent
  <2>1. <<>> \in Seq(Ours)
    OBVIOUS
  <2>2. Absent \in AnyContent
    BY <2>1 DEF AnyContent, Absent
  <2>3. Empty \in AnyContent /\ Torn \in AnyContent
    BY <2>2 DEF AnyContent, Empty, Torn
  <2>4. QED
    BY <2>2, <2>3
<1> HIDE DEF Absent
<1>2. Idle \in AnyCommand
  BY <1>1 DEF Idle, AnyCommand, Todo
<1>3. QED
  BY <1>1, <1>2

\* What the end of a file's turn leaves of the command.
LEMMA ProceedIs ==
  ASSUME ConnectTypeOK, Running, NEW left \in Todo, NEW ok \in BOOLEAN, Proceed(left, ok)
  PROVE  /\ command' \in AnyCommand /\ (Running' <=> command'.todo # <<>>)
         /\ command'.op = "connect" => command'.binary \in Binary
         /\ settled' \in Binary \cup {Nobody, Gone}
         /\ \A f : ~Held(f)'
         /\ Running' => /\ command'.todo = left /\ command'.op = command.op /\ command'.binary = command.binary
                        /\ command'.ok = (command.ok /\ ok) /\ settled' = settled
         /\ ~Running' => /\ left = <<>>
                         /\ settled' = IF ~ok \/ ~command.ok THEN Nobody
                                       ELSE IF command.op = "connect" THEN command.binary ELSE Gone
<1>1. CASE left = <<>>
  <2>1. command' = Idle /\ settled' = IF ~ok \/ ~command.ok THEN Nobody
                                      ELSE IF command.op = "connect" THEN command.binary ELSE Gone
    BY <1>1 DEF Proceed, Finished
  <2>2. Idle.op = "idle" /\ Idle.todo = <<>>
    BY DEF Idle
  <2>3. settled' \in Binary \cup {Nobody, Gone}
    BY <2>1 DEF ConnectTypeOK
  <2>4. QED
    BY <1>1, <2>1, <2>2, <2>3, IdleType DEF Running, Held
<1>2. CASE left # <<>>
  <2>1. /\ command' = [command EXCEPT !.todo = left, !.step = "next", !.ok = @ /\ ok,
                                      !.read = Absent, !.out = Absent]
        /\ settled' = settled
    BY <1>2 DEF Proceed
  <2>2. command' \in AnyCommand
    BY <2>1, IdleType DEF ConnectTypeOK, AnyCommand
  <2>3. /\ command'.todo = left /\ command'.op = command.op /\ command'.binary = command.binary
        /\ command'.ok = (command.ok /\ ok) /\ command'.step = "next"
    BY <2>1 DEF ConnectTypeOK, AnyCommand
  <2>4. QED
    BY <1>2, <2>1, <2>2, <2>3 DEF Running, Held, ConnectTypeOK
<1>3. QED
  BY <1>1, <1>2

\* What a command reports holds, if the files it is done with are as it says.
LEMMA ProceedReports ==
  ASSUME ConnectTypeOK, Reported, Running, NEW left \in Todo, NEW ok \in BOOLEAN, Proceed(left, ok),
         \A i, j \in Recognised' : i = j,
         NEW b, b = command.binary,
         command.ok /\ ok /\ command.op = "connect" => \A f \in Past(left) : AsConnected(f, b)',
         command.ok /\ ok /\ command.op = "disconnect" => \A f \in Past(left) : AsDisconnected(f)'
  PROVE  Reported'
<1>1. command.op \in {"connect", "disconnect"} /\ (command.op = "connect" => b \in Binary)
  BY DEF ConnectTypeOK, AnyCommand, Running
<1>2. settled # Gone
  BY DEF Reported
<1>3. CASE Running'
  <2>1. /\ command'.todo = left /\ command'.op = command.op /\ command'.binary = b
        /\ command'.ok = (command.ok /\ ok) /\ settled' = settled
    BY <1>3, ProceedIs
  <2>2. command'.ok /\ command'.op = "connect" => \A f \in Past(left) : AsConnected(f, command.binary)'
    BY <2>1 DEF AsConnected
  <2>3. QED
    BY <1>2, <1>3, <2>1, <2>2 DEF Reported
<1>4. CASE ~Running'
  <2>1. /\ left = <<>>
        /\ settled' = IF ~ok \/ ~command.ok THEN Nobody ELSE IF command.op = "connect" THEN b ELSE Gone
    BY <1>4, ProceedIs
  <2>2. Past(left) = File
    BY <2>1 DEF Past, ToSet
  <2>3. settled' \in Binary => \A f \in File : AsConnected(f, settled)'
    <3>1. settled' \in Binary => settled' = b /\ command.ok /\ ok /\ command.op = "connect"
      BY <2>1, NobodyAssumption
    <3>2. QED
      BY <2>2, <3>1 DEF AsConnected
  <2>4. settled' = Gone => \A f \in File : AsDisconnected(f)'
    <3>1. settled' = Gone => command.ok /\ ok /\ command.op = "disconnect"
      BY <1>1, <2>1, NobodyAssumption
    <3>2. QED
      BY <2>2, <3>1
  <2>5. QED
    BY <1>4, <2>3, <2>4 DEF Reported
<1>5. QED
  BY <1>3, <1>4

-----------------------------------------------------------------------------
(* What a command's work on a file amounts to *)

\* A merged file is as the command is to leave it, whichever file it is.
LEMMA MergedIsDone ==
  ASSUME ConnectTypeOK, Running, NEW f \in File, NEW c \in AnyContent, Hollow(f, c),
         NEW d, d = Merged(f, c)
  PROVE  /\ command.op = "connect" /\ f # "hooks" =>
              d.mine # <<>> /\ d.mine[1].binary = command.binary /\ (d.form = "object" \/ f = "sections")
         /\ command.op = "connect" /\ f = "hooks" => d.mine # <<>> /\ Last(d.mine).binary = command.binary
         /\ command.op = "disconnect" /\ f # "hooks" => d.mine = <<>>
         /\ command.op = "disconnect" /\ f = "hooks" => \A i \in DOMAIN d.mine : ~EntryMentionsDKM(d.mine[i])
         /\ f = "hooks" =>
              \A i, j \in DOMAIN d.mine : EntryMentionsDKM(d.mine[i]) /\ EntryMentionsDKM(d.mine[j]) => i = j
<1>1. command.op \in {"connect", "disconnect"} /\ (command.op = "connect" => command.binary \in Binary)
  BY DEF ConnectTypeOK, AnyCommand, Running
<1>2. c.mine \in Seq(Ours) /\ d.mine = Mutated(f, c) /\ (f # "sections" => d.form = "object")
  BY MergedKeeps DEF AnyContent
<1>3. CASE command.op = "connect" /\ f = "hooks"
  <2>1. d.mine = WriteClaudeHooks(c.mine, command.binary)
    BY <1>2, <1>3 DEF Mutated
  <2>2. QED
    BY <1>1, <1>2, <1>3, <2>1, HooksWritten
<1>4. CASE command.op = "connect" /\ f # "hooks"
  <2>1. d.mine = <<[binary |-> command.binary, extra |-> {}]>>
    BY <1>2, <1>4 DEF Mutated
  <2>2. d.mine # <<>> /\ d.mine[1].binary = command.binary
    BY <2>1
  <2>3. QED
    BY <1>2, <1>4, <2>2
<1>5. CASE command.op = "disconnect" /\ f = "hooks"
  <2>1. d.mine = RemoveHooks(c.mine)
    BY <1>2, <1>5 DEF Mutated
  <2>2. QED
    BY <1>2, <1>5, <2>1, HooksRemoved
<1>6. CASE command.op = "disconnect" /\ f # "hooks"
  BY <1>2, <1>6 DEF Mutated
<1>7. QED
  BY <1>1, <1>3, <1>4, <1>5, <1>6

\* A file that needs no writing is as the command is to leave it.
LEMMA UnchangedIsDone ==
  ASSUME ConnectTypeOK, Running, NEW f \in File, Hollow(f, disk[f]), ~Panics(disk[f]), Unchanged(f, disk[f])
  PROVE  /\ command.op = "connect" => AsConnected(f, command.binary)
         /\ command.op = "disconnect" => AsDisconnected(f)
<1> PICK c : c = disk[f]
  OBVIOUS
<1>1. c \in AnyContent /\ Hollow(f, c)
  BY DEF ConnectTypeOK
<1>2. CASE Merged(f, c) = c
  BY <1>1, <1>2, MergedIsDone DEF AsConnected, AsDisconnected, IsConnected, Recognised
<1>3. CASE command.op = "disconnect" /\ c.form \in {"absent", "null"}
  <2>1. c.mine = <<>>
    BY <1>1, <1>3 DEF Hollow
  <2>2. QED
    BY <1>3, <2>1 DEF AsDisconnected, IsConnected, Recognised
<1>4. CASE command.op = "disconnect" /\ f = "sections" /\ c.mine = <<>>
  BY <1>4 DEF AsDisconnected, IsConnected
<1>5. QED
  BY <1>2, <1>3, <1>4 DEF Unchanged

\* A file that was written is as the command is to leave it.
LEMMA WrittenIsDone ==
  ASSUME ConnectTypeOK, Running, NEW f \in File, NEW c \in AnyContent, Hollow(f, c),
         disk'[f] = Merged(f, c), NEW b, b = command.binary
  PROVE  /\ command.op = "connect" => AsConnected(f, b)'
         /\ command.op = "disconnect" => AsDisconnected(f)'
         /\ f = "hooks" => \A i, j \in Recognised' : i = j
<1> PICK d : d = Merged(f, c)
  OBVIOUS
<1>1. disk'[f] = d
  OBVIOUS
<1>2. QED
  BY <1>1, MergedIsDone DEF AsConnected, AsDisconnected, IsConnected, Recognised

-----------------------------------------------------------------------------
(* The steps *)

Files == \A f \in File : Hollow(f, disk[f]) /\ HeldAsRead(f) /\ Whereabouts(f)

\* A command that lets go of a file it has not opened for writing leaves all as it was.
LEMMA FilesLetGo ==
  ASSUME ConnectTypeOK, Files, UNCHANGED <<disk, bak, wanted, raced, cut, restarted>>,
         \A f \in File : Held(f) => command.step # "write",
         \A f \in File : ~Held(f)'
  PROVE  Files'
<1>1. SUFFICES ASSUME NEW f \in File
               PROVE  Hollow(f, disk[f])' /\ HeldAsRead(f)' /\ Whereabouts(f)'
  BY DEF Files
<1>2. Hollow(f, disk[f])'
  BY DEF Files, Hollow
<1>3. HeldAsRead(f)'
  BY DEF HeldAsRead
<1>4. Whereabouts(f)'
  <2>1. Held(f) /\ f \notin raced => disk[f] = command.read
    BY DEF Files, HeldAsRead
  <2>2. Whereabouts(f)
    BY DEF Files
  <2>3. QED
    BY <2>1, <2>2 DEF Whereabouts
<1>5. QED
  BY <1>2, <1>3, <1>4

LEMMA BeginStep ==
  ASSUME ConnectInv, NEW op \in {"connect", "disconnect"}, NEW b,
         op = "connect" => b \in Binary, op = "disconnect" => b = Nobody, Begin(op, b)
  PROVE  ConnectInv'
<1> USE DEF Begin
<1>1. ConnectTypeOK /\ Reported /\ Files
  BY DEF ConnectInv, Files
<1>2. /\ command' \in AnyCommand /\ command'.op = op /\ command'.binary = b /\ command'.todo = Plan
      /\ command'.step = "next" /\ Running' /\ Plan # <<>>
  BY IdleType DEF AnyCommand, Idle, Todo, Running, Plan
<1>3. settled' \in {settled, Nobody} /\ (settled' = settled => settled' \in Binary \cup {Nobody})
  BY <1>1 DEF ConnectTypeOK, Reported
<1>4. ConnectTypeOK'
  BY <1>1, <1>2, <1>3 DEF ConnectTypeOK
<1>5. Files'
  BY <1>1, <1>2, FilesLetGo DEF Held
<1>6. Reported'
  <2>1. Past(Plan) = {}
    BY DEF Past, Plan, File, ToSet
  <2>2. Recognised' = Recognised
    BY DEF Recognised
  <2>3. settled' # Gone
    BY <1>3, NobodyAssumption
  <2>4. QED
    BY <1>1, <1>2, <2>1, <2>2, <2>3 DEF Reported
<1>7. QED
  BY <1>4, <1>5, <1>6 DEF ConnectInv, Files

\* The end of a file's turn at which nothing is written.
LEMMA LetGo ==
  ASSUME ConnectInv, Running, UNCHANGED <<disk, wanted, raced>>, Files',
         bak' \in [File -> AnyContent], {cut', restarted'} \subseteq SUBSET File,
         NEW left \in Todo, NEW ok \in BOOLEAN, Proceed(left, ok),
         command.ok /\ ok /\ command.op = "connect" => \A f \in Past(left) : AsConnected(f, command.binary),
         command.ok /\ ok /\ command.op = "disconnect" => \A f \in Past(left) : AsDisconnected(f)
  PROVE  ConnectInv'
<1>1. ConnectTypeOK /\ Reported
  BY DEF ConnectInv
<1>2. ConnectTypeOK'
  BY <1>1, ProceedIs DEF ConnectTypeOK
<1>3. Recognised' = Recognised
  BY DEF Recognised
<1>4. \A f \in File, b \in Binary : AsConnected(f, b)' = AsConnected(f, b)
  BY DEF AsConnected, IsConnected
<1>5. \A f \in File : AsDisconnected(f)' = AsDisconnected(f)
  BY <1>3 DEF AsDisconnected, IsConnected
<1>6. Reported'
  <2> PICK b : b = command.binary
    OBVIOUS
  <2>1. command.op = "connect" => b \in Binary
    BY <1>1 DEF ConnectTypeOK
  <2>2. command.ok /\ ok /\ command.op = "connect" => \A f \in Past(left) : AsConnected(f, b)'
    BY <1>4, <2>1 DEF Past
  <2>3. command.ok /\ ok /\ command.op = "disconnect" => \A f \in Past(left) : AsDisconnected(f)'
    BY <1>5 DEF Past
  <2>4. \A i, j \in Recognised' : i = j
    BY <1>1, <1>3 DEF Reported
  <2>5. QED
    BY <1>1, <2>2, <2>3, <2>4, ProceedReports
<1>7. QED
  BY <1>2, <1>6 DEF ConnectInv, Files

\* Reading a file: it is left alone, or the command now holds what it read.
LEMMA ReadFileStep ==
  ASSUME ConnectInv, ReadFile
  PROVE  ConnectInv'
<1> USE DEF ReadFile
<1> PICK f : f = Head(command.todo)
  OBVIOUS
<1> PICK c : c = disk[f]
  OBVIOUS
<1>1. ConnectTypeOK /\ Reported /\ Files /\ Running /\ command.step = "next"
  BY DEF ConnectInv, Files
<1>2. /\ f \in File /\ Tail(command.todo) \in Todo /\ AfterError(f) \in Todo /\ <<>> \in Todo
      /\ Past(Tail(command.todo)) = Past(command.todo) \cup {f}
      /\ f = "servers" => Past(command.todo) = {}
      /\ c \in AnyContent /\ Hollow(f, c)
  BY <1>1, TodoIs DEF ConnectTypeOK, Files, Todo
<1>3. /\ UNCHANGED <<disk, bak, wanted, raced, cut, restarted>>
      /\ \A g \in File : ~Held(g)
      /\ bak' \in [File -> AnyContent] /\ {cut', restarted'} \subseteq SUBSET File
  BY <1>1 DEF Held, ConnectTypeOK
<1>4. /\ CASE Refused(f, c) -> Proceed(AfterError(f), FALSE)
           [] Panics(c) -> Finished(FALSE)
           [] ~Refused(f, c) /\ ~Panics(c) /\ Unchanged(f, c) -> Proceed(AfterRead(f, c), TRUE)
           [] OTHER ->
                /\ command' = [command EXCEPT !.read = c, !.out = Merged(f, c),
                     !.step = IF c.form \in {"absent", "empty"} THEN "truncate" ELSE "backup"]
                /\ UNCHANGED settled
  OBVIOUS
<1>5. ASSUME NEW left \in Todo, NEW ok \in BOOLEAN, Proceed(left, ok),
             command.ok /\ ok /\ command.op = "connect" => \A g \in Past(left) : AsConnected(g, command.binary),
             command.ok /\ ok /\ command.op = "disconnect" => \A g \in Past(left) : AsDisconnected(g)
      PROVE  ConnectInv'
  <2>1. \A g \in File : ~Held(g)'
    BY <1>1, <1>5, ProceedIs
  <2>2. Files'
    BY <1>1, <1>3, <2>1, FilesLetGo
  <2>3. QED
    BY <1>1, <1>3, <1>5, <2>2, LetGo
<1>6. CASE Refused(f, c) \/ Panics(c)
  <2>1. Proceed(AfterError(f), FALSE) \/ Proceed(<<>>, FALSE)
    BY <1>4, <1>6 DEF Proceed, Refused, Panics
  <2>2. QED
    BY <1>2, <1>5, <2>1
<1>7. CASE ~Refused(f, c) /\ ~Panics(c) /\ Unchanged(f, c)
  <2>1. Proceed(AfterRead(f, c), TRUE)
    BY <1>4, <1>7
  <2>2. /\ command.op = "connect" => AsConnected(f, command.binary)
        /\ command.op = "disconnect" => AsDisconnected(f)
    BY <1>1, <1>2, <1>7, UnchangedIsDone
  <2>3. CASE AfterRead(f, c) = Tail(command.todo)
    BY <1>1, <1>2, <1>5, <2>1, <2>2, <2>3 DEF Reported
  <2>4. CASE AfterRead(f, c) # Tail(command.todo)
    <3>1. command.op = "disconnect" /\ f = "servers" /\ c.form = "absent" /\ AfterRead(f, c) = <<"sections">>
      BY <2>4 DEF AfterRead
    <3>2. Past(<<"sections">>) = {"servers", "hooks"} /\ <<"sections">> \in Todo
      BY DEF Past, File, ToSet, Todo
    <3>3. AsDisconnected("hooks")
      BY <3>1 DEF AsDisconnected
    <3>4. QED
      BY <1>5, <2>1, <2>2, <3>1, <3>2, <3>3
  <2>5. QED
    BY <2>3, <2>4
<1>8. CASE ~Refused(f, c) /\ ~Panics(c) /\ ~Unchanged(f, c)
  <2>1. /\ command' = [command EXCEPT !.read = c, !.out = Merged(f, c),
               !.step = IF c.form \in {"absent", "empty"} THEN "truncate" ELSE "backup"]
        /\ settled' = settled
    BY <1>4, <1>8
  <2>2. Merged(f, c) \in AnyContent
    BY <1>1, <1>2, MergedKeeps
  <2>3. /\ command' \in AnyCommand /\ command'.op = command.op /\ command'.binary = command.binary
        /\ command'.todo = command.todo /\ command'.ok = command.ok /\ command'.read = c
        /\ command'.out = Merged(f, c) /\ Running' /\ command'.step \in {"truncate", "backup"}
        /\ command'.step = "truncate" => c.form \in {"absent", "empty"}
    BY <1>1, <1>2, <2>1, <2>2 DEF ConnectTypeOK, AnyCommand, Running
  <2>4. ConnectTypeOK'
    BY <1>1, <2>1, <2>3 DEF ConnectTypeOK
  <2>5. Reported'
    <3>1. Recognised' = Recognised
      BY DEF Recognised
    <3>2. \A g \in File : AsDisconnected(g)' = AsDisconnected(g)
      BY <3>1 DEF AsDisconnected, IsConnected
    <3>3. command.ok /\ command.op = "connect" => \A g \in Past(command.todo) : AsConnected(g, command.binary)'
      BY <1>1, <2>3 DEF Reported, AsConnected, IsConnected
    <3>4. command.ok /\ command.op = "disconnect" => \A g \in Past(command.todo) : AsDisconnected(g)'
      BY <1>1, <3>2 DEF Reported, Past
    <3>5. QED
      BY <1>1, <2>1, <2>3, <3>1, <3>3, <3>4 DEF Reported
  <2>6. ASSUME NEW g \in File
        PROVE  Hollow(g, disk[g])' /\ HeldAsRead(g)' /\ Whereabouts(g)'
    <3>1. Hollow(g, disk[g])'
      BY <1>1, <1>3 DEF Files, Hollow
    <3>2. Held(g)' => g = f
      BY <2>3 DEF Held
    <3>3. Hollow(f, command.read)'
      BY <1>2, <2>3 DEF Hollow
    <3>4. Merged(f, command.read)' = Merged(f, c)
      BY <2>3 DEF Merged, EditTOML, MergeJSON, Mutated
    <3>5. HeldAsRead(g)'
      BY <1>3, <2>3, <3>2, <3>3, <3>4 DEF HeldAsRead
    <3>6. Whereabouts(g)'
      <4>1. Whereabouts(g) /\ ~Held(g)
        BY <1>1, <1>3 DEF Files
      <4>2. ~(Held(g)' /\ command'.step = "write") /\ (Held(g)' => command'.read = disk[g])
        BY <2>3, <3>2
      <4>3. QED
        BY <1>3, <4>1, <4>2 DEF Whereabouts
    <3>7. QED
      BY <3>1, <3>5, <3>6
  <2>7. QED
    BY <2>4, <2>5, <2>6 DEF ConnectInv
<1>9. QED
  BY <1>6, <1>7, <1>8

\* A step that does not touch a file's part of the state leaves what is known of it.
LEMMA Elsewhere ==
  ASSUME Files, NEW g \in File, ~Held(g), ~Held(g)',
         disk'[g] = disk[g], bak'[g] = bak[g], wanted'[g] = wanted[g],
         g \in raced' <=> g \in raced, g \in cut' <=> g \in cut, g \in restarted' <=> g \in restarted
  PROVE  Hollow(g, disk[g])' /\ HeldAsRead(g)' /\ Whereabouts(g)'
<1>1. Hollow(g, disk[g])'
  BY DEF Files, Hollow
<1>2. HeldAsRead(g)'
  BY DEF HeldAsRead
<1>3. Whereabouts(g)'
  <2>1. Whereabouts(g)
    BY DEF Files
  <2>2. QED
    BY <2>1 DEF Whereabouts
<1>4. QED
  BY <1>1, <1>2, <1>3

\* The file at hand is not one of those a command has done.
LEMMA StillReports ==
  ASSUME ConnectTypeOK, Reported, Running, NEW f, f = Head(command.todo),
         \A g \in File \ {f} : disk'[g] = disk[g], \A i, j \in Recognised' : i = j,
         command'.op = command.op, command'.binary = command.binary, command'.todo = command.todo,
         command'.ok = command.ok, settled' = settled
  PROVE  Reported'
<1>1. f \in File /\ f \notin Past(command.todo) /\ (f = "servers" => Past(command.todo) = {})
  BY TodoIs
<1>2. Running'
  BY DEF Running
<1>3. ASSUME NEW g \in Past(command.todo)
      PROVE  /\ AsConnected(g, command.binary) => AsConnected(g, command.binary)'
             /\ AsDisconnected(g) => AsDisconnected(g)'
  <2>1. g \in File \ {f} /\ f # "servers" /\ "servers" \in File
    BY <1>1 DEF Past, File
  <2>2. disk'[g] = disk[g] /\ disk'["servers"] = disk["servers"]
    BY <2>1
  <2>3. g = "hooks" => Recognised' = Recognised
    BY <2>2 DEF Recognised
  <2>4. QED
    BY <2>2, <2>3 DEF AsConnected, AsDisconnected, IsConnected
<1>4. settled # Gone
  BY DEF Reported
<1>5. QED
  BY <1>2, <1>3, <1>4 DEF Reported

LEMMA BackupStep ==
  ASSUME ConnectInv, Backup
  PROVE  ConnectInv'
<1> USE DEF Backup
<1> PICK f : f = Head(command.todo)
  OBVIOUS
<1> PICK c : c = command.read
  OBVIOUS
<1>1. ConnectTypeOK /\ Reported /\ Files /\ Running /\ command.step = "backup"
  BY DEF ConnectInv, Files
<1>2. f \in File /\ c \in AnyContent /\ Held(f) /\ \A g : Held(g) => g = f
  BY <1>1, TodoIs DEF ConnectTypeOK, AnyCommand, Held
<1>3. /\ command' \in AnyCommand /\ command'.op = command.op /\ command'.binary = command.binary
      /\ command'.todo = command.todo /\ command'.ok = command.ok /\ command'.read = c
      /\ command'.out = command.out /\ command'.step = "truncate"
  BY <1>1 DEF ConnectTypeOK, AnyCommand
<1>4. Running' /\ \A g : Held(g)' => g = f
  BY <1>1, <1>3 DEF Running, Held
<1>5. UNCHANGED <<disk, wanted, raced, cut, settled>> /\ bak' = [bak EXCEPT ![f] = c]
  BY <1>1
<1>6. bak' \in [File -> AnyContent] /\ bak'[f] = c /\ \A g \in File \ {f} : bak'[g] = bak[g]
  BY <1>1, <1>2, <1>5 DEF ConnectTypeOK
<1>7. /\ restarted' \in SUBSET File /\ restarted \subseteq restarted'
      /\ \A g \in File \ {f} : g \in restarted' <=> g \in restarted
      /\ f \notin restarted' => wanted[f] \subseteq c.theirs
  BY <1>1, <1>2 DEF Lacking, ConnectTypeOK
<1>8. ConnectTypeOK'
  BY <1>1, <1>3, <1>4, <1>5, <1>6, <1>7 DEF ConnectTypeOK
<1>9. Reported'
  <2>1. Recognised' = Recognised
    BY <1>5 DEF Recognised
  <2>2. \A i, j \in Recognised' : i = j
    BY <1>1, <2>1 DEF Reported
  <2>3. QED
    BY <1>1, <1>3, <1>5, <2>2, StillReports
<1>10. ASSUME NEW g \in File
       PROVE  Hollow(g, disk[g])' /\ HeldAsRead(g)' /\ Whereabouts(g)'
  <2>1. CASE g # f
    BY <1>1, <1>2, <1>4, <1>5, <1>6, <1>7, <2>1, Elsewhere
  <2>2. CASE g = f
    <3>1. Hollow(f, disk[f]) /\ HeldAsRead(f) /\ Whereabouts(f)
      BY <1>1, <1>2 DEF Files
    <3>2. Hollow(f, disk[f])'
      BY <1>5, <3>1 DEF Hollow
    <3>4. HeldAsRead(f)'
      <4>1. Hollow(f, c) /\ command.out = Merged(f, c) /\ (f \notin raced => disk[f] = c)
        BY <1>1, <1>2, <3>1 DEF HeldAsRead
      <4>2. Hollow(f, command.read)' /\ Merged(f, command.read)' = Merged(f, c)
        BY <1>3, <4>1, MergedStays
      <4>3. QED
        BY <1>3, <1>5, <1>6, <4>1, <4>2 DEF HeldAsRead
    <3>5. Whereabouts(f)'
      <4>1. f \notin raced => disk[f] = c
        BY <1>1, <1>2, <3>1 DEF HeldAsRead
      <4>2. f \notin raced /\ f \notin cut => wanted[f] \subseteq c.theirs
        BY <1>2, <3>1 DEF Whereabouts
      <4>3. f \notin raced /\ f \notin cut \cap restarted' => wanted[f] \subseteq c.theirs
        BY <1>7, <4>2
      <4>4. QED
        BY <1>3, <1>5, <1>6, <4>1, <4>3 DEF Whereabouts
    <3>6. QED
      BY <2>2, <3>2, <3>4, <3>5
  <2>3. QED
    BY <2>1, <2>2
<1>11. QED
  BY <1>8, <1>9, <1>10 DEF ConnectInv

LEMMA TruncateStep ==
  ASSUME ConnectInv, Truncate
  PROVE  ConnectInv'
<1> USE DEF Truncate
<1> PICK f : f = Head(command.todo)
  OBVIOUS
<1> PICK c : c = command.read
  OBVIOUS
<1>1. ConnectTypeOK /\ Reported /\ Files /\ Running /\ command.step = "truncate"
  BY DEF ConnectInv, Files
<1>2. f \in File /\ c \in AnyContent /\ Held(f) /\ \A g : Held(g) => g = f
  BY <1>1, TodoIs DEF ConnectTypeOK, AnyCommand, Held
<1>3. /\ command' \in AnyCommand /\ command'.op = command.op /\ command'.binary = command.binary
      /\ command'.todo = command.todo /\ command'.ok = command.ok /\ command'.read = c
      /\ command'.out = command.out /\ command'.step = "write"
  BY <1>1 DEF ConnectTypeOK, AnyCommand
<1>4. Running' /\ Held(f)' /\ \A g : Held(g)' => g = f
  BY <1>1, <1>3 DEF Running, Held
<1>5. UNCHANGED <<bak, wanted, raced, cut, restarted, settled>> /\ disk' = [disk EXCEPT ![f] = Empty]
  BY <1>1
<1>6. disk' \in [File -> AnyContent] /\ disk'[f] = Empty /\ \A g \in File \ {f} : disk'[g] = disk[g]
  BY <1>1, <1>2, <1>5, IdleType DEF ConnectTypeOK
<1>7. Empty.mine = <<>> /\ Empty.theirs = {} /\ Empty.form = "empty"
  BY DEF Empty, Absent
<1>8. ConnectTypeOK'
  BY <1>1, <1>3, <1>4, <1>5, <1>6 DEF ConnectTypeOK
<1>9. Reported'
  <2>1. \A i, j \in Recognised' : i = j
    <3>1. CASE f = "hooks"
      BY <1>6, <1>7, <3>1 DEF Recognised
    <3>2. CASE f # "hooks"
      BY <1>1, <1>6, <3>2 DEF Recognised, Reported, File
    <3>3. QED
      BY <3>1, <3>2
  <2>2. QED
    BY <1>1, <1>3, <1>5, <1>6, <2>1, StillReports
<1>10. ASSUME NEW g \in File
       PROVE  Hollow(g, disk[g])' /\ HeldAsRead(g)' /\ Whereabouts(g)'
  <2>1. CASE g # f
    BY <1>1, <1>2, <1>4, <1>5, <1>6, <2>1, Elsewhere
  <2>2. CASE g = f
    <3>1. Hollow(f, disk[f]) /\ HeldAsRead(f) /\ Whereabouts(f)
      BY <1>1, <1>2 DEF Files
    <3>2. Hollow(f, disk[f])'
      BY <1>6, <1>7 DEF Hollow
    <3>3. Hollow(f, c) /\ command.out = Merged(f, c)
      BY <1>2, <3>1 DEF HeldAsRead
    <3>4. HeldAsRead(f)'
      <4>1. Hollow(f, command.read)' /\ Merged(f, command.read)' = Merged(f, c)
        BY <1>3, <3>3, MergedStays
      <4>2. QED
        BY <1>3, <1>6, <3>3, <4>1 DEF HeldAsRead
    <3>5. Whereabouts(f)'
      <4>1. SUFFICES ASSUME f \notin raced, f \notin cut \cap restarted
                     PROVE  wanted[f] \subseteq bak[f].theirs /\ (f \notin cut => wanted[f] \subseteq c.theirs)
        BY <1>3, <1>4, <1>5 DEF Whereabouts
      <4>2. /\ wanted[f] \subseteq disk[f].theirs \cup bak[f].theirs /\ disk[f] = c
            /\ f \notin cut => wanted[f] \subseteq c.theirs
        BY <1>1, <1>2, <3>1, <4>1 DEF Whereabouts, HeldAsRead
      <4>3. CASE bak[f] = c
        BY <4>2, <4>3
      <4>4. CASE c.form \in {"absent", "empty"}
        BY <3>3, <4>2, <4>4 DEF Hollow
      <4>5. QED
        BY <1>1, <1>2, <3>1, <4>1, <4>2, <4>3, <4>4 DEF HeldAsRead
    <3>6. QED
      BY <2>2, <3>2, <3>4, <3>5
  <2>3. QED
    BY <2>1, <2>2
<1>11. QED
  BY <1>8, <1>9, <1>10 DEF ConnectInv

LEMMA WriteStep ==
  ASSUME ConnectInv, Write
  PROVE  ConnectInv'
<1> USE DEF Write
<1> PICK f : f = Head(command.todo)
  OBVIOUS
<1> PICK c : c = command.read
  OBVIOUS
<1> PICK b : b = command.binary
  OBVIOUS
<1>1. ConnectTypeOK /\ Reported /\ Files /\ Running /\ command.step = "write"
  BY DEF ConnectInv, Files
<1>2. /\ f \in File /\ c \in AnyContent /\ Held(f) /\ \A g : Held(g) => g = f
      /\ Tail(command.todo) \in Todo /\ f \notin Past(command.todo)
      /\ Past(Tail(command.todo)) = Past(command.todo) \cup {f}
      /\ f = "servers" => Past(command.todo) = {}
  BY <1>1, TodoIs DEF ConnectTypeOK, AnyCommand, Held
<1>3. Hollow(f, c) /\ command.out = Merged(f, c) /\ Whereabouts(f)
  BY <1>1, <1>2 DEF Files, HeldAsRead
<1>4. Merged(f, c) \in AnyContent /\ Merged(f, c).theirs = c.theirs /\ Hollow(f, Merged(f, c))
  BY <1>1, <1>2, <1>3, MergedKeeps
<1> PICK d : d = Merged(f, c)
  OBVIOUS
<1>5. UNCHANGED <<bak, wanted, raced, cut>> /\ disk' = [disk EXCEPT ![f] = d]
  BY <1>1, <1>3
<1>6. disk' \in [File -> AnyContent] /\ disk'[f] = d /\ \A g \in File \ {f} : disk'[g] = disk[g]
  BY <1>1, <1>2, <1>4, <1>5 DEF ConnectTypeOK
<1>7. /\ restarted' \in SUBSET File
      /\ \A g \in File \ {f} : g \in restarted' <=> g \in restarted
      /\ f \notin restarted' => wanted[f] \subseteq c.theirs
  BY <1>1, <1>2 DEF Lacking, ConnectTypeOK
<1>8. Proceed(Tail(command.todo), TRUE)
  OBVIOUS
<1>9. ConnectTypeOK' /\ \A g \in File : ~Held(g)'
  <2>1. /\ command' \in AnyCommand /\ (Running' <=> command'.todo # <<>>)
        /\ command'.op = "connect" => command'.binary \in Binary
        /\ settled' \in Binary \cup {Nobody, Gone} /\ \A g : ~Held(g)'
    BY <1>1, <1>2, <1>8, ProceedIs
  <2>2. QED
    BY <1>1, <1>5, <1>6, <1>7, <2>1 DEF ConnectTypeOK
<1>10. Reported'
  <2>1. /\ command.op = "connect" => AsConnected(f, b)'
        /\ command.op = "disconnect" => AsDisconnected(f)'
        /\ f = "hooks" => \A i, j \in Recognised' : i = j
    BY <1>1, <1>2, <1>3, <1>6, WrittenIsDone
  <2>2. \A i, j \in Recognised' : i = j
    <3>1. CASE f # "hooks"
      BY <1>1, <1>6, <3>1 DEF Recognised, Reported, File
    <3>2. QED
      BY <2>1, <3>1
  <2>3. ASSUME NEW g \in Past(command.todo)
        PROVE  /\ AsConnected(g, b) => AsConnected(g, b)'
               /\ AsDisconnected(g) => AsDisconnected(g)'
    <3>1. g \in File \ {f} /\ f # "servers" /\ "servers" \in File
      BY <1>2 DEF Past, File
    <3>2. disk'[g] = disk[g] /\ disk'["servers"] = disk["servers"]
      BY <1>6, <3>1
    <3>3. g = "hooks" => Recognised' = Recognised
      BY <3>2 DEF Recognised
    <3>4. QED
      BY <3>2, <3>3 DEF AsConnected, AsDisconnected, IsConnected
  <2>4. command.ok /\ TRUE /\ command.op = "connect" => \A g \in Past(Tail(command.todo)) : AsConnected(g, b)'
    BY <1>1, <1>2, <2>1, <2>3 DEF Reported
  <2>5. command.ok /\ TRUE /\ command.op = "disconnect" => \A g \in Past(Tail(command.todo)) : AsDisconnected(g)'
    BY <1>1, <1>2, <2>1, <2>3 DEF Reported
  <2>6. QED
    BY <1>1, <1>2, <1>8, <2>2, <2>4, <2>5, ProceedReports
<1>11. ASSUME NEW g \in File
       PROVE  Hollow(g, disk[g])' /\ HeldAsRead(g)' /\ Whereabouts(g)'
  <2>1. CASE g # f
    BY <1>1, <1>2, <1>5, <1>6, <1>7, <1>9, <2>1, Elsewhere
  <2>2. CASE g = f
    <3>1. Hollow(f, disk[f])'
      BY <1>4, <1>6 DEF Hollow
    <3>2. HeldAsRead(f)'
      BY <1>2, <1>9 DEF HeldAsRead
    <3>3. f \notin raced /\ f \notin cut => wanted[f] \subseteq c.theirs
      BY <1>2, <1>3 DEF Whereabouts
    <3>4. f \notin raced /\ f \notin cut \cap restarted' => wanted[f] \subseteq c.theirs
      BY <1>7, <3>3
    <3>5. Whereabouts(f)'
      BY <1>2, <1>4, <1>5, <1>6, <1>9, <3>4 DEF Whereabouts
    <3>6. QED
      BY <2>2, <3>1, <3>2, <3>5
  <2>3. QED
    BY <2>1, <2>2
<1>12. QED
  BY <1>9, <1>10, <1>11 DEF ConnectInv

\* A write that is cut short costs the file its content and not its backup; a
\* backup that is cut short leaves the file as it was.
LEMMA HalfWrittenStep ==
  ASSUME ConnectInv, Running, command.step \in {"backup", "write"}, HalfWritten(Head(command.todo)),
         UNCHANGED <<wanted, raced>>, NEW left \in Todo, Proceed(left, FALSE)
  PROVE  ConnectInv'
<1> PICK f : f = Head(command.todo)
  OBVIOUS
<1> PICK c : c = command.read
  OBVIOUS
<1>1. ConnectTypeOK /\ Reported /\ Files
  BY DEF ConnectInv, Files
<1>2. f \in File /\ c \in AnyContent /\ Held(f) /\ \A g : Held(g) => g = f
  BY <1>1, TodoIs DEF ConnectTypeOK, AnyCommand, Held
<1>3. HeldAsRead(f) /\ Whereabouts(f)
  BY <1>1, <1>2 DEF Files
<1>4. PICK part \in {Empty, Torn} :
        IF command.step = "write"
        THEN disk' = [disk EXCEPT ![f] = part] /\ cut' = cut \cup {f} /\ UNCHANGED <<bak, restarted>>
        ELSE /\ bak' = [bak EXCEPT ![f] = part]
             /\ restarted' = restarted \cup Lacking(command.read)
             /\ UNCHANGED <<disk, cut>>
  BY DEF HalfWritten
<1>5. part \in AnyContent /\ part.mine = <<>> /\ part.theirs = {} /\ Hollow(f, part)
  BY IdleType DEF Empty, Torn, Absent, Hollow
<1>6. /\ command' \in AnyCommand /\ (Running' <=> command'.todo # <<>>)
      /\ command'.op = "connect" => command'.binary \in Binary
      /\ settled' \in Binary \cup {Nobody, Gone} /\ \A g : ~Held(g)'
  BY <1>1, ProceedIs
<1>7. UNCHANGED <<wanted, raced>>
  OBVIOUS
<1>8. CASE command.step = "write"
  <2>1. disk' = [disk EXCEPT ![f] = part] /\ cut' = cut \cup {f} /\ UNCHANGED <<bak, restarted>>
    BY <1>4, <1>8
  <2>2. disk' \in [File -> AnyContent] /\ disk'[f] = part /\ \A g \in File \ {f} : disk'[g] = disk[g]
    BY <1>1, <1>2, <1>5, <2>1 DEF ConnectTypeOK
  <2>3. ConnectTypeOK'
    BY <1>1, <1>2, <1>6, <1>7, <2>1, <2>2 DEF ConnectTypeOK
  <2>4. \A i, j \in Recognised' : i = j
    <3>1. CASE f = "hooks"
      BY <1>5, <2>2, <3>1 DEF Recognised
    <3>2. CASE f # "hooks"
      BY <1>1, <2>2, <3>2 DEF Recognised, Reported, File
    <3>3. QED
      BY <3>1, <3>2
  <2>5. Reported'
    BY <1>1, <2>4, ProceedReports
  <2>6. ASSUME NEW g \in File
        PROVE  Hollow(g, disk[g])' /\ HeldAsRead(g)' /\ Whereabouts(g)'
    <3>1. CASE g # f
      BY <1>1, <1>2, <1>6, <1>7, <2>1, <2>2, <3>1, Elsewhere
    <3>2. CASE g = f
      <4>1. Hollow(f, disk[f])'
        BY <1>5, <2>2 DEF Hollow
      <4>2. f \notin raced /\ f \notin restarted => wanted[f] \subseteq bak[f].theirs
        BY <1>2, <1>3, <1>8 DEF Whereabouts
      <4>3. f \in cut'
        BY <2>1
      <4>4. HeldAsRead(f)' /\ Whereabouts(f)'
        BY <1>6, <1>7, <2>1, <4>2, <4>3 DEF HeldAsRead, Whereabouts
      <4>5. QED
        BY <3>2, <4>1, <4>4
    <3>3. QED
      BY <3>1, <3>2
  <2>7. QED
    BY <2>3, <2>5, <2>6 DEF ConnectInv
<1>9. CASE command.step = "backup"
  <2>1. /\ bak' = [bak EXCEPT ![f] = part] /\ UNCHANGED <<disk, cut>>
        /\ restarted' = restarted \cup Lacking(c)
    BY <1>4, <1>9
  <2>2. bak' \in [File -> AnyContent] /\ bak'[f] = part /\ \A g \in File \ {f} : bak'[g] = bak[g]
    BY <1>1, <1>2, <1>5, <2>1 DEF ConnectTypeOK
  <2>3. /\ restarted' \in SUBSET File
        /\ \A g \in File \ {f} : g \in restarted' <=> g \in restarted
        /\ f \notin restarted' => wanted[f] \subseteq c.theirs
    BY <1>1, <1>2, <2>1 DEF Lacking, ConnectTypeOK
  <2>4. ASSUME NEW g \in File
        PROVE  Hollow(g, disk[g])' /\ HeldAsRead(g)' /\ Whereabouts(g)'
    <3>1. CASE g # f
      BY <1>1, <1>2, <1>6, <1>7, <2>1, <2>2, <2>3, <3>1, Elsewhere
    <3>2. CASE g = f
      <4>1. Hollow(f, disk[f])'
        BY <1>1, <1>2, <2>1 DEF Files, Hollow
      <4>2. f \notin raced => disk[f] = c
        BY <1>2, <1>3, <1>9 DEF HeldAsRead
      <4>3. f \notin raced /\ f \notin cut => wanted[f] \subseteq c.theirs
        BY <1>2, <1>3 DEF Whereabouts
      <4>4. f \notin raced /\ f \notin cut \cap restarted' => wanted[f] \subseteq c.theirs
        BY <2>3, <4>3
      <4>5. HeldAsRead(f)' /\ Whereabouts(f)'
        BY <1>6, <1>7, <2>1, <4>2, <4>4 DEF HeldAsRead, Whereabouts
      <4>6. QED
        BY <3>2, <4>1, <4>5
    <3>3. QED
      BY <3>1, <3>2
  <2>5. QED
    BY <1>7, <2>1, <2>2, <2>3, <2>4, LetGo DEF Files, ConnectTypeOK, ConnectInv
<1>10. QED
  BY <1>8, <1>9

LEMMA WriteFailsStep ==
  ASSUME ConnectInv, WriteFails
  PROVE  ConnectInv'
<1>1. /\ Running /\ command.step \in {"backup", "write"} /\ HalfWritten(Head(command.todo))
      /\ UNCHANGED <<wanted, raced>> /\ Proceed(AfterError(Head(command.todo)), FALSE)
  BY DEF WriteFails
<1>2. AfterError(Head(command.todo)) \in Todo
  BY <1>1, TodoIs DEF ConnectInv
<1>3. QED
  BY <1>1, <1>2, HalfWrittenStep

LEMMA KilledStep ==
  ASSUME ConnectInv, Killed
  PROVE  ConnectInv'
<1>1. Running /\ UNCHANGED <<wanted, raced>> /\ Proceed(<<>>, FALSE) /\ <<>> \in Todo
  BY DEF Killed, Proceed, Todo
<1>2. CASE command.step \in {"backup", "write"} /\ HalfWritten(Head(command.todo))
  BY <1>1, <1>2, HalfWrittenStep
<1>3. CASE command.step # "write" /\ UNCHANGED <<disk, bak, cut, restarted>>
  <2>1. ConnectTypeOK /\ Files
    BY DEF ConnectInv, Files
  <2>2. \A g \in File : ~Held(g)'
    BY <1>1, <2>1, ProceedIs
  <2>3. Files'
    BY <1>1, <1>3, <2>1, <2>2, FilesLetGo
  <2>4. bak' \in [File -> AnyContent] /\ {cut', restarted'} \subseteq SUBSET File
    BY <1>3, <2>1 DEF ConnectTypeOK
  <2>5. QED
    BY <1>1, <1>3, <2>3, <2>4, LetGo
<1>4. QED
  BY <1>2, <1>3 DEF Killed

\* An edit leaves a file that holds what the user then wants in it, if it held
\* what they wanted before, and no hook of dkm's that was not there.
LEMMA EditStep ==
  ASSUME ConnectInv, NEW f \in File, NEW d \in AnyContent, NEW want \in SUBSET Entry, Edit(f, d, want),
         Hollow(f, d), wanted[f] \subseteq disk[f].theirs => want \subseteq d.theirs,
         \A i \in DOMAIN d.mine : i \in DOMAIN disk[f].mine /\ d.mine[i].binary = disk[f].mine[i].binary
  PROVE  ConnectInv'
<1> USE DEF Edit
<1>1. ConnectTypeOK /\ Reported /\ Files
  BY DEF ConnectInv, Files
<1>2. /\ command' \in AnyCommand /\ command'.op = command.op /\ command'.binary = command.binary
      /\ command'.todo = command.todo /\ command'.step = command.step /\ command'.ok = FALSE
      /\ command'.read = command.read /\ command'.out = command.out
      /\ (Running' <=> Running) /\ \A g : Held(g)' <=> Held(g)
  BY <1>1 DEF ConnectTypeOK, AnyCommand, Running, Held
<1>3. disk' \in [File -> AnyContent] /\ disk'[f] = d /\ \A g \in File \ {f} : disk'[g] = disk[g]
  BY <1>1 DEF ConnectTypeOK
<1>4. wanted' \in [File -> SUBSET Entry] /\ wanted'[f] = want /\ \A g \in File \ {f} : wanted'[g] = wanted[g]
  BY <1>1 DEF ConnectTypeOK
<1>5. /\ UNCHANGED <<bak, cut>> /\ settled' = Nobody /\ raced \subseteq raced'
      /\ \A g \in File \ {f} : (g \in raced' <=> g \in raced) /\ (g \in restarted' <=> g \in restarted)
      /\ Held(f) => f \in raced'
      /\ f \notin restarted' => wanted[f] \subseteq disk[f].theirs
      /\ restarted \subseteq restarted' /\ {raced', restarted'} \subseteq SUBSET File
  BY <1>1 DEF Held, ConnectTypeOK
<1>6. ConnectTypeOK'
  BY <1>1, <1>2, <1>3, <1>4, <1>5 DEF ConnectTypeOK
<1>7. Reported'
  <2>1. \A i, j \in Recognised' : i = j
    <3>1. CASE f = "hooks"
      BY <1>1, <1>3, <3>1 DEF Recognised, Reported, EntryMentionsDKM
    <3>2. CASE f # "hooks"
      BY <1>1, <1>3, <3>2 DEF Recognised, Reported, File
    <3>3. QED
      BY <3>1, <3>2
  <2>2. QED
    BY <1>2, <1>5, <2>1, NobodyAssumption DEF Reported
<1>8. ASSUME NEW g \in File
      PROVE  Hollow(g, disk[g])' /\ HeldAsRead(g)' /\ Whereabouts(g)'
  <2>1. Hollow(g, disk[g]) /\ HeldAsRead(g) /\ Whereabouts(g)
    BY <1>1 DEF Files
  <2>2. Held(g) => Hollow(g, command.read)' /\ command'.out = Merged(g, command.read)'
    <3>1. Held(g) => Hollow(g, command.read) /\ command.out = Merged(g, command.read)
      BY <2>1 DEF HeldAsRead
    <3>2. QED
      BY <1>2, <3>1, MergedStays
  <2>3. CASE g = f
    <3>1. Hollow(f, disk[f])'
      BY <1>3 DEF Hollow
    <3>2. HeldAsRead(f)'
      BY <1>2, <1>5, <2>2, <2>3 DEF HeldAsRead
    <3>3. f \notin raced' /\ f \notin cut \cap restarted' => wanted[f] \subseteq disk[f].theirs
      BY <1>5, <2>1, <2>3 DEF Whereabouts
    <3>4. Whereabouts(f)'
      BY <1>2, <1>3, <1>4, <1>5, <3>3 DEF Whereabouts
    <3>5. QED
      BY <2>3, <3>1, <3>2, <3>4
  <2>4. CASE g # f
    <3>1. disk'[g] = disk[g] /\ wanted'[g] = wanted[g]
      BY <1>3, <1>4, <2>4
    <3>2. Hollow(g, disk[g])'
      BY <2>1, <3>1 DEF Hollow
    <3>3. HeldAsRead(g)'
      BY <1>2, <1>5, <2>1, <2>2, <2>4, <3>1 DEF HeldAsRead
    <3>4. Whereabouts(g)'
      BY <1>2, <1>5, <2>1, <2>4, <3>1 DEF Whereabouts
    <3>5. QED
      BY <3>2, <3>3, <3>4
  <2>5. QED
    BY <2>3, <2>4
<1>9. QED
  BY <1>6, <1>7, <1>8 DEF ConnectInv

LEMMA UserSteps ==
  ASSUME ConnectInv, UserStep
  PROVE  ConnectInv'
<1> PICK f \in File : \/ \E e \in Entry : Add(f, e) \/ Drop(f, e) \/ AddWithin(f, e)
                      \/ Spoil(f) \/ Discard(f)
  BY DEF UserStep
<1> PICK c : c = disk[f]
  OBVIOUS
<1>1. /\ c \in AnyContent /\ Hollow(f, c) /\ wanted[f] \in SUBSET Entry
      /\ c.mine \in Seq(Ours) /\ c.theirs \in SUBSET Entry
      /\ c.form \in {"absent", "empty", "broken", "null", "object"} /\ c.raw \in BOOLEAN
  BY DEF ConnectInv, ConnectTypeOK, AnyContent
<1>2. ASSUME NEW e \in Entry, Add(f, e) PROVE ConnectInv'
  <2>1. PICK raw \in BOOLEAN :
          Edit(f, [c EXCEPT !.form = IF @ = "broken" THEN @ ELSE "object", !.theirs = @ \cup {e}, !.raw = raw],
               wanted[f] \cup {e})
    BY <1>2 DEF Add
  <2> PICK d : d = [c EXCEPT !.form = IF @ = "broken" THEN @ ELSE "object", !.theirs = @ \cup {e}, !.raw = raw]
    OBVIOUS
  <2>2. d \in AnyContent /\ d.mine = c.mine /\ d.theirs = c.theirs \cup {e} /\ d.form \in {"broken", "object"}
    BY <1>1, <2>1 DEF AnyContent
  <2>3. Hollow(f, d)
    BY <2>2 DEF Hollow
  <2>4. Edit(f, d, wanted[f] \cup {e}) /\ wanted[f] \cup {e} \in SUBSET Entry
    BY <1>1, <2>1
  <2>5. QED
    BY <2>2, <2>3, <2>4, EditStep
<1>3. ASSUME NEW e \in Entry, Drop(f, e) PROVE ConnectInv'
  <2> PICK d : d = [c EXCEPT !.theirs = @ \ {e}]
    OBVIOUS
  <2>1. d \in AnyContent /\ d.mine = c.mine /\ d.theirs = c.theirs \ {e} /\ d.form = c.form
    BY <1>1 DEF AnyContent
  <2>2. Hollow(f, d)
    BY <1>1, <2>1 DEF Hollow
  <2>3. Edit(f, d, wanted[f] \ {e}) /\ wanted[f] \ {e} \in SUBSET Entry
    BY <1>1, <1>3 DEF Drop
  <2>4. QED
    BY <2>1, <2>2, <2>3, EditStep
<1>4. ASSUME NEW e \in Entry, AddWithin(f, e) PROVE ConnectInv'
  <2>1. PICK first : first = [c.mine[1] EXCEPT !.extra = @ \cup {e}]
    OBVIOUS
  <2>2. PICK list : list = [c.mine EXCEPT ![1] = first]
    OBVIOUS
  <2>3. PICK d : d = [c EXCEPT !.mine = list]
    OBVIOUS
  <2>4. d = [c EXCEPT !.mine[1].extra = @ \cup {e}]
    BY <2>1, <2>2, <2>3, Zenon
  <2>5. c.mine # <<>> /\ Edit(f, d, wanted[f])
    BY <1>4, <2>4 DEF AddWithin
  <2>6. 1 \in DOMAIN c.mine /\ c.mine[1] \in Ours
    BY <1>1, <2>5
  <2>7. first \in Ours /\ first.binary = c.mine[1].binary
    BY <2>1, <2>6 DEF Ours
  <2>8. list \in Seq(Ours) /\ \A i \in DOMAIN list : i \in DOMAIN c.mine /\ list[i].binary = c.mine[i].binary
    BY <1>1, <2>2, <2>6, <2>7
  <2>9. d \in AnyContent /\ d.mine = list /\ d.theirs = c.theirs /\ d.form = c.form
    BY <1>1, <2>3, <2>8 DEF AnyContent
  <2>10. Hollow(f, d)
    BY <1>1, <2>5, <2>9 DEF Hollow
  <2>11. QED
    BY <1>1, <2>5, <2>8, <2>9, <2>10, EditStep
<1>5. CASE Spoil(f)
  <2> PICK d : d = [c EXCEPT !.form = IF @ = "object" THEN "broken" ELSE "object", !.raw = TRUE]
    OBVIOUS
  <2>1. d \in AnyContent /\ d.mine = c.mine /\ d.theirs = c.theirs /\ d.form \in {"broken", "object"}
    BY <1>1 DEF AnyContent
  <2>2. Hollow(f, d)
    BY <2>1 DEF Hollow
  <2>3. Edit(f, d, wanted[f])
    BY <1>5 DEF Spoil
  <2>4. QED
    BY <1>1, <2>1, <2>2, <2>3, EditStep
<1>6. CASE Discard(f)
  <2>1. ASSUME NEW d \in AnyContent, d.mine = <<>>, d.theirs = {}, Edit(f, d, {}),
               f = "sections" => d.form # "null"
        PROVE  ConnectInv'
    <3>1. Hollow(f, d)
      BY <2>1 DEF Hollow
    <3>2. DOMAIN d.mine = {}
      BY <2>1
    <3>3. {} \in SUBSET Entry /\ (wanted[f] \subseteq disk[f].theirs => {} \subseteq d.theirs)
      OBVIOUS
    <3>4. QED
      BY <2>1, <3>1, <3>2, <3>3, EditStep
  <2>2. PICK null : null = [Absent EXCEPT !.form = "null"]
    OBVIOUS
  <2>3. /\ null \in AnyContent /\ null.mine = <<>> /\ null.theirs = {}
        /\ Absent \in AnyContent /\ Absent.mine = <<>> /\ Absent.theirs = {} /\ Absent.form = "absent"
    <3>1. Absent \in AnyContent
      BY IdleType
    <3>2. QED
      BY <2>2, <3>1 DEF Absent, AnyContent
  <2>4. CASE Edit(f, Absent, {})
    BY <2>1, <2>3, <2>4
  <2>5. CASE f # "sections" /\ Edit(f, null, {})
    BY <2>1, <2>3, <2>5
  <2>6. QED
    BY <1>6, <2>2, <2>4, <2>5 DEF Discard
<1>7. QED
  BY <1>2, <1>3, <1>4, <1>5, <1>6

LEMMA ConnectStarts ==
  ASSUME ConnectInit
  PROVE  ConnectInv
<1>1. /\ command = Idle /\ Idle \in AnyCommand /\ Idle.op = "idle" /\ Idle.todo = <<>> /\ ~Running
      /\ Absent \in AnyContent
  <2>1. command = Idle /\ Idle.op = "idle" /\ Idle.todo = <<>>
    BY DEF Idle, ConnectInit
  <2>2. QED
    BY <2>1, IdleType DEF Running
<1>2. ASSUME NEW f \in File
      PROVE  /\ disk[f] \in AnyContent /\ disk[f].mine = <<>> /\ disk[f].theirs = wanted[f]
             /\ Hollow(f, disk[f])
  <2>1. wanted[f] \in SUBSET Entry
    BY DEF ConnectInit
  <2>2. disk[f] = IF wanted[f] = {} THEN Absent
                  ELSE [Absent EXCEPT !.form = "object", !.theirs = wanted[f], !.raw = TRUE]
    BY DEF ConnectInit
  <2>3. ASSUME NEW c, NEW want \in SUBSET Entry,
               c = IF want = {} THEN Absent
                   ELSE [Absent EXCEPT !.form = "object", !.theirs = want, !.raw = TRUE]
        PROVE  c \in AnyContent /\ c.mine = <<>> /\ c.theirs = want /\ Hollow(f, c)
    <3>1. <<>> \in Seq(Ours)
      OBVIOUS
    <3>2. CASE want = {}
      BY <1>1, <2>3, <3>2 DEF Absent, Hollow
    <3>3. CASE want # {}
      BY <2>3, <3>1, <3>3 DEF Absent, AnyContent, Hollow
    <3>4. QED
      BY <3>2, <3>3
  <2>4. QED
    BY <2>1, <2>2, <2>3
<1>3. ConnectTypeOK
  BY <1>1, <1>2 DEF ConnectTypeOK, ConnectInit
<1>4. Reported
  <2>1. \A i, j \in Recognised : i = j
    BY <1>2 DEF Recognised, File
  <2>2. settled = Nobody
    BY DEF ConnectInit
  <2>3. QED
    BY <1>1, <2>1, <2>2, NobodyAssumption DEF Reported
<1>5. QED
  BY <1>1, <1>2, <1>3, <1>4 DEF ConnectInv, HeldAsRead, Whereabouts, Held

LEMMA ConnectStutters ==
  ASSUME ConnectInv, UNCHANGED connectVars
  PROVE  ConnectInv'
<1>1. UNCHANGED <<disk, bak, skill, command, commands, edits, faults, wanted, raced, cut,
                  restarted, settled>>
  BY DEF connectVars
<1>2. ConnectTypeOK' /\ Reported'
  BY <1>1 DEF ConnectInv, ConnectTypeOK, Reported, Recognised, AsConnected, AsDisconnected,
              IsConnected, Running
<1>3. ASSUME NEW f \in File
      PROVE  Hollow(f, disk[f])' /\ HeldAsRead(f)' /\ Whereabouts(f)'
  <2>1. Hollow(f, disk[f]) /\ HeldAsRead(f) /\ Whereabouts(f)
    BY DEF ConnectInv
  <2>2. Merged(f, command.read)' = Merged(f, command.read) /\ (Hollow(f, command.read)' <=> Hollow(f, command.read))
    BY <1>1, MergedStays
  <2>3. Hollow(f, disk[f])' /\ Whereabouts(f)'
    BY <1>1, <2>1 DEF Hollow, Whereabouts, Held, Running
  <2>4. HeldAsRead(f)'
    BY <1>1, <2>1, <2>2 DEF HeldAsRead, Held, Running
  <2>5. QED
    BY <2>1, <2>3, <2>4
<1>4. QED
  BY <1>2, <1>3 DEF ConnectInv

LEMMA ConnectInvHolds == ConnectSpec => []ConnectInv
<1>1. ASSUME ConnectInv, [ConnectNext]_connectVars
      PROVE  ConnectInv'
  <2>1. ASSUME NEW b \in Binary, Begin("connect", b) PROVE ConnectInv'
    BY <1>1, <2>1, BeginStep
  <2>2. CASE Begin("disconnect", Nobody)
    BY <1>1, <2>2, BeginStep
  <2>3. CASE UNCHANGED connectVars
    BY <1>1, <2>3, ConnectStutters
  <2>4. QED
    BY <1>1, <2>1, <2>2, <2>3, ReadFileStep, BackupStep, TruncateStep, WriteStep, WriteFailsStep,
       KilledStep, UserSteps DEF ConnectNext
<1>2. QED
  BY <1>1, ConnectStarts, PTL DEF ConnectSpec

-----------------------------------------------------------------------------
(* The theorems *)

\* Every file, its backup and the command are what the code can leave, whatever
\* the lists of hooks have grown to.
THEOREM ConnectTypeCorrect == ConnectSpec => []ConnectTypeOK
<1>1. ConnectInv => ConnectTypeOK
  BY DEF ConnectInv
<1>2. QED
  BY <1>1, ConnectInvHolds, PTL

\* Merge, never overwrite, for any number of commands, edits, crashes and failed
\* writes: an entry of the user's is in the file or in its .bak, unless the file
\* was edited under a command, or lost what a cut write cost it to a later one.
THEOREM EntriesAreNeverLost == ConnectSpec => []UserEntriesKept
<1>1. ConnectInv => UserEntriesKept
  BY DEF ConnectInv, Whereabouts, UserEntriesKept
<1>2. QED
  BY <1>1, ConnectInvHolds, PTL

\* What a command has reported is what the files say: one recognised hook to an
\* event, the last binary that was connected, and none of dkm's after a disconnect.
THEOREM ReportsAreTrue == ConnectSpec => []ReportHolds
<1>1. ASSUME ConnectInv PROVE Cardinality(Recognised) <= 1
  <2>1. \A i, j \in Recognised : i = j
    BY <1>1 DEF ConnectInv, Reported
  <2>2. CASE Recognised = {}
    BY <2>2, FS_EmptySet
  <2>3. CASE Recognised # {}
    <3>1. PICK i : Recognised = {i}
      BY <2>1, <2>3
    <3>2. Cardinality({i}) = 1
      BY FS_Singleton
    <3>3. QED
      BY <3>1, <3>2
  <2>4. QED
    BY <2>2, <2>3
<1>2. ConnectInv => ReportHolds
  <2> SUFFICES ASSUME ConnectInv PROVE ReportHolds
    OBVIOUS
  <2>1. settled \in Binary /\ ~Running => \A f \in File : AsConnected(f, settled)
    BY DEF ConnectInv, Reported
  <2>2. settled = Gone => \A f \in File : AsDisconnected(f)
    BY DEF ConnectInv, Reported
  <2>3. QED
    BY <1>1, <2>1, <2>2 DEF ReportHolds, AsConnected, AsDisconnected, File
<1>3. QED
  BY <1>2, ConnectInvHolds, PTL

-----------------------------------------------------------------------------
(***************************************************************************)
(* Ulid: any calls, any length and base of the random part                 *)
(***************************************************************************)

UlidId == [ms : Nat, rand : Random]
UlidCall == [pc : {"new", "lock", "done"}, ms : Nat, id : UlidId]

UlidTypeOK ==
  /\ clock \in Nat /\ putBack \in Nat /\ last \in UlidId
  /\ new \in [New -> UlidCall] /\ before \in [New -> SUBSET New] /\ drawn \in Seq(New)

\* The calls that had their turn are the ones that are done.
HadTurn == \A c \in New : new[c].pc = "done" <=> \E i \in 1 .. Len(drawn) : drawn[i] = c

\* A call began after those it is to sort after, and as long as the clock was
\* not put back it read a time that is no earlier.
BeganAfter ==
  \A b \in New :
    /\ new[b].pc = "new" => before[b] = {}
    /\ \A a \in before[b] : new[a].pc = "done"
    /\ putBack = 0 /\ new[b].pc # "new" =>
         new[b].ms <= clock /\ \A a \in before[b] : new[a].ms <= new[b].ms

\* An ID is of the time its call read, or of one later.
SteppedForward == \A c \in New : new[c].pc = "done" => new[c].id.ms \in {new[c].ms, new[c].ms + 1}

\* The calls from a on.
Since(a) == {c \in New : \E i, j \in 1 .. Len(drawn) : i <= j /\ drawn[i] = a /\ drawn[j] = c}

\* What remains of an ID that was drawn: a full counter or another time since
\* then, or the process still counts up from it.
Remains(a) ==
  \/ \E c \in Since(a) : new[c].id.ms > new[c].ms
  \/ \E c \in Since(a) : new[c].ms # new[a].ms
  \/ /\ last.ms = new[a].ms /\ new[a].id.ms = new[a].ms
     /\ new[a].id = last \/ Below(new[a].id, last)

UlidInv ==
  /\ UlidTypeOK /\ HadTurn /\ BeganAfter /\ SteppedForward
  /\ \A a \in New : new[a].pc = "done" => Remains(a)
  /\ IdsAscend

-----------------------------------------------------------------------------
(* Counting up *)

LEMMA LastOne ==
  ASSUME NEW T, T \subseteq 1 .. RandLength, T # {}
  PROVE  \E i \in T : \A k \in T : k <= i
<1> DEFINE Less == OpToRel(<, Nat)
           U == {RandLength - i : i \in T}
<1>1. RandLength \in Nat
  BY RandAssumption
<1>2. IsWellFoundedOn(Less, Nat)
  BY NatLessThanWellFounded
<1>3. U \subseteq Nat /\ U # {}
  <2>1. \A i \in T : i \in 1 .. RandLength /\ RandLength - i \in Nat
    BY <1>1
  <2>2. QED
    BY <2>1
<1>4. PICK least \in U : \A u \in U : <<u, least>> \notin Less
  <2> HIDE DEF Less, U
  <2> QED BY <1>2, <1>3, WFMin, Zenon
<1>5. PICK i \in T : least = RandLength - i
  OBVIOUS
<1>6. ASSUME NEW k \in T PROVE k <= i
  <2>1. RandLength - k \in U /\ RandLength - k \in Nat /\ least \in Nat /\ k \in Int /\ i \in Int
    BY <1>1, <1>3
  <2>2. ~(RandLength - k < least)
    <3> HIDE DEF U
    <3> QED BY <1>4, <2>1 DEF OpToRel
  <2>3. QED
    BY <1>1, <1>5, <2>1, <2>2
<1>7. QED
  BY <1>6

\* A counter with room counts up, and stays a random part of its length.
LEMMA IncrementAscends ==
  ASSUME NEW r \in Random, Room(r) # {}
  PROVE  /\ Increment(r) \in Random
         /\ \E i \in 1 .. RandLength : r[i] < Increment(r)[i] /\ \A k \in 1 .. i - 1 : r[k] = Increment(r)[k]
<1> DEFINE i == CHOOSE k \in Room(r) : \A l \in Room(r) : l <= k
<1>1. Room(r) \subseteq 1 .. RandLength
  BY DEF Room
<1>2. i \in Room(r) /\ \A l \in Room(r) : l <= i
  <2>1. \E k \in Room(r) : \A l \in Room(r) : l <= k
    BY <1>1, LastOne
  <2>2. QED
    BY <2>1
<1> HIDE DEF i
<1>3. Increment(r) = [k \in 1 .. RandLength |-> CASE k < i -> r[k] [] k = i -> r[k] + 1 [] OTHER -> 0]
  BY DEF Increment, i
<1>4. RandTop \in Nat /\ RandLength \in Nat /\ i \in 1 .. RandLength /\ r[i] # RandTop
  BY <1>2, RandAssumption DEF Room
<1>5. \A k \in 1 .. RandLength : r[k] \in 0 .. RandTop
  BY DEF Random
<1>6. r[i] \in 0 .. RandTop /\ r[i] + 1 \in 0 .. RandTop
  BY <1>4, <1>5
<1>7. ASSUME NEW k \in 1 .. RandLength
      PROVE  (CASE k < i -> r[k] [] k = i -> r[k] + 1 [] OTHER -> 0) \in 0 .. RandTop
  BY <1>4, <1>5, <1>6
<1>8. Increment(r) \in Random
  BY <1>3, <1>7 DEF Random
<1>9. Increment(r)[i] = r[i] + 1
  BY <1>3, <1>4
<1>10. \A k \in 1 .. i - 1 : Increment(r)[k] = r[k]
  BY <1>3, <1>4
<1>11. QED
  BY <1>4, <1>6, <1>8, <1>9, <1>10

LEMMA BelowTransitive ==
  ASSUME NEW x \in UlidId, NEW y \in UlidId, NEW z \in UlidId, Below(x, y), Below(y, z)
  PROVE  Below(x, z)
<1>1. x.ms \in Nat /\ y.ms \in Nat /\ z.ms \in Nat
  BY DEF UlidId
<1>2. \A k \in 1 .. RandLength : x.rand[k] \in Nat /\ y.rand[k] \in Nat /\ z.rand[k] \in Nat
  BY RandAssumption DEF UlidId, Random
<1>3. CASE x.ms = y.ms /\ y.ms = z.ms
  <2>1. PICK i \in 1 .. RandLength : x.rand[i] < y.rand[i] /\ \A k \in 1 .. i - 1 : x.rand[k] = y.rand[k]
    BY <1>1, <1>3 DEF Below
  <2>2. PICK j \in 1 .. RandLength : y.rand[j] < z.rand[j] /\ \A k \in 1 .. j - 1 : y.rand[k] = z.rand[k]
    BY <1>1, <1>3 DEF Below
  <2>3. \E f \in 1 .. RandLength : x.rand[f] < z.rand[f] /\ \A k \in 1 .. f - 1 : x.rand[k] = z.rand[k]
    <3>1. CASE i < j
      <4>1. x.rand[i] < z.rand[i] /\ \A k \in 1 .. i - 1 : x.rand[k] = z.rand[k]
        BY <1>2, <2>1, <2>2, <3>1, RandAssumption
      <4>2. QED
        BY <4>1
    <3>2. CASE i = j
      <4>1. x.rand[i] < z.rand[i] /\ \A k \in 1 .. i - 1 : x.rand[k] = z.rand[k]
        BY <1>2, <2>1, <2>2, <3>2, RandAssumption
      <4>2. QED
        BY <4>1
    <3>3. CASE i > j
      <4>1. x.rand[j] < z.rand[j] /\ \A k \in 1 .. j - 1 : x.rand[k] = z.rand[k]
        BY <1>2, <2>1, <2>2, <3>3, RandAssumption
      <4>2. QED
        BY <4>1
    <3>4. QED
      BY <3>1, <3>2, <3>3, RandAssumption
  <2>4. QED
    BY <1>3, <2>3 DEF Below
<1>4. CASE ~(x.ms = y.ms /\ y.ms = z.ms)
  BY <1>1, <1>4 DEF Below
<1>5. QED
  BY <1>3, <1>4

-----------------------------------------------------------------------------
(* The steps *)

\* What a turn may draw.
LEMMA DrawnIs ==
  ASSUME UlidTypeOK, NEW m \in Nat, NEW x \in Drawn(m)
  PROVE  /\ x \in UlidId /\ x.ms \in {m, m + 1}
         /\ m = last.ms /\ x.ms = m => Below(last, x)
<1>1. last \in UlidId /\ last.rand \in Random /\ last.ms \in Nat
  BY DEF UlidTypeOK, UlidId
<1>2. CASE m # last.ms
  BY <1>2 DEF Drawn, UlidId
<1>3. CASE m = last.ms /\ Room(last.rand) # {}
  <2>1. x = [ms |-> m, rand |-> Increment(last.rand)]
    BY <1>3 DEF Drawn
  <2>2. QED
    BY <1>1, <1>3, <2>1, IncrementAscends DEF UlidId, Below
<1>4. CASE m = last.ms /\ Room(last.rand) = {}
  BY <1>4 DEF Drawn, UlidId
<1>5. QED
  BY <1>2, <1>3, <1>4

\* Nothing that is said of an ID is undone by what leaves the IDs alone.
LEMMA IdsStand ==
  ASSUME UlidInv, UlidTypeOK', UNCHANGED <<last, drawn>>, putBack' >= putBack,
         \A c \in New : new'[c].pc = "done" <=> new[c].pc = "done",
         \A c \in New : new[c].pc = "done" => new'[c] = new[c] /\ before'[c] = before[c]
  PROVE  /\ HadTurn' /\ SteppedForward'
         /\ \A a \in New : new'[a].pc = "done" => Remains(a)'
         /\ IdsAscend'
<1>1. HadTurn' /\ SteppedForward'
  BY DEF UlidInv, HadTurn, SteppedForward
<1>2. \A i \in 1 .. Len(drawn) : drawn[i] \in New /\ new[drawn[i]].pc = "done" /\ new'[drawn[i]] = new[drawn[i]]
  BY DEF UlidInv, HadTurn, UlidTypeOK
<1>3. \A a \in New : Since(a)' = Since(a) /\ \A c \in Since(a) : new'[c] = new[c]
  BY <1>2 DEF Since
<1>4. \A a \in New : new'[a].pc = "done" => Remains(a)'
  BY <1>3 DEF UlidInv, Remains
<1>5. \A b \in ToSet(drawn) : b \in New /\ new'[b] = new[b] /\ before'[b] = before[b]
                              /\ \A a \in before[b] : new'[a] = new[a]
  BY <1>2 DEF UlidInv, ToSet, BeganAfter, UlidTypeOK
<1>6. \A a, b : Turns(a, b)' = Turns(a, b) /\ \A c \in Turns(a, b) : new'[c] = new[c]
  BY <1>5 DEF Turns
<1>7. putBack > 0 => putBack' > 0
  BY DEF UlidInv, UlidTypeOK
<1>8. IdsAscend'
  BY <1>5, <1>6, <1>7 DEF UlidInv, IdsAscend
<1>9. QED
  BY <1>1, <1>4, <1>8

LEMMA ReadClockStep ==
  ASSUME UlidInv, NEW c \in New, ReadClock(c)
  PROVE  UlidInv'
<1> USE DEF ReadClock
<1>1. UlidTypeOK /\ HadTurn /\ BeganAfter
  BY DEF UlidInv
<1>2. UlidTypeOK'
  BY <1>1 DEF UlidTypeOK, UlidCall
<1>3. \A d \in New \ {c} : new'[d] = new[d] /\ before'[d] = before[d]
  BY <1>1 DEF UlidTypeOK
<1>4. /\ new'[c].pc = "lock" /\ new'[c].ms = clock
      /\ before'[c] = {d \in New : new[d].pc = "done"}
  BY <1>1 DEF UlidTypeOK, UlidCall
<1>5. BeganAfter'
  <2>1. ASSUME NEW b \in New, b # c
        PROVE  /\ new'[b].pc = "new" => before'[b] = {}
               /\ \A a \in before'[b] : new'[a].pc = "done"
               /\ putBack' = 0 /\ new'[b].pc # "new" =>
                    new'[b].ms <= clock' /\ \A a \in before'[b] : new'[a].ms <= new'[b].ms
    <3>1. new'[b] = new[b] /\ before'[b] = before[b]
      BY <1>3, <2>1
    <3>2. \A a \in before[b] : a \in New \ {c} /\ new'[a] = new[a]
      BY <1>1, <1>3 DEF BeganAfter, UlidTypeOK
    <3>3. QED
      BY <1>1, <3>1, <3>2 DEF BeganAfter
  <2>2. \A a \in before'[c] : a \in New \ {c} /\ new'[a] = new[a] /\ new[a].pc = "done"
    BY <1>3, <1>4
  <2>3. putBack = 0 => \A a \in before'[c] : new[a].ms <= clock
    BY <1>1, <2>2 DEF BeganAfter
  <2>4. clock' = clock /\ putBack' = putBack /\ clock <= clock
    BY <1>1 DEF UlidTypeOK
  <2>5. /\ new'[c].pc # "new" /\ \A a \in before'[c] : new'[a].pc = "done"
        /\ putBack' = 0 => new'[c].ms <= clock' /\ \A a \in before'[c] : new'[a].ms <= new'[c].ms
    BY <1>4, <2>2, <2>3, <2>4
  <2>6. QED
    BY <2>1, <2>5 DEF BeganAfter
<1>6. putBack' >= putBack
  BY <1>1 DEF UlidTypeOK
<1>7. QED
  BY <1>2, <1>3, <1>4, <1>5, <1>6, IdsStand DEF UlidInv

LEMMA ClockStep ==
  ASSUME UlidInv, ClockTick \/ ClockPutBack
  PROVE  UlidInv'
<1> USE DEF ClockTick, ClockPutBack
<1>1. UlidTypeOK /\ HadTurn /\ BeganAfter
  BY DEF UlidInv
<1>2. UlidTypeOK' /\ putBack' >= putBack
  BY <1>1 DEF UlidTypeOK
<1>3. putBack' = 0 => putBack = 0 /\ clock' >= clock
  BY <1>1 DEF UlidTypeOK
<1>4. \A b \in New : new[b].ms \in Nat
  BY <1>1 DEF UlidTypeOK, UlidCall
<1>5. BeganAfter'
  BY <1>1, <1>2, <1>3, <1>4 DEF BeganAfter, UlidTypeOK
<1>6. QED
  BY <1>2, <1>5, IdsStand DEF UlidInv

\* A turn: what remains of the earlier IDs tells where the new one sorts.
LEMMA NewAtStep ==
  ASSUME UlidInv, NEW b \in New, NewAt(b)
  PROVE  UlidInv'
<1> PICK n : n = Len(drawn)
  OBVIOUS
<1> PICK m : m = new[b].ms
  OBVIOUS
<1>1. UlidTypeOK /\ HadTurn /\ BeganAfter /\ SteppedForward /\ IdsAscend
      /\ \A a \in New : new[a].pc = "done" => Remains(a)
  BY DEF UlidInv
<1>2. /\ n \in Nat /\ m \in Nat /\ new[b].pc = "lock"
      /\ last' \in Drawn(m) /\ drawn' = Append(drawn, b)
      /\ UNCHANGED <<clock, before, putBack>>
  BY <1>1 DEF NewAt, UlidTypeOK, UlidCall
<1>3. /\ last' \in UlidId /\ last'.ms \in {m, m + 1}
      /\ m = last.ms /\ last'.ms = m => Below(last, last')
  BY <1>1, <1>2, DrawnIs
<1>4. /\ new'[b].pc = "done" /\ new'[b].ms = m /\ new'[b].id = last'
      /\ \A c \in New \ {b} : new'[c] = new[c]
  BY <1>1 DEF NewAt, UlidTypeOK, UlidCall
<1>5. UlidTypeOK'
  <2>1. new' \in [New -> UlidCall]
    BY <1>1, <1>3 DEF NewAt, UlidTypeOK, UlidCall
  <2>2. QED
    BY <1>1, <1>2, <1>3, <2>1 DEF UlidTypeOK
<1>6. Len(drawn') = n + 1 /\ drawn'[n + 1] = b /\ \A i \in 1 .. n : drawn'[i] = drawn[i]
  BY <1>1, <1>2 DEF UlidTypeOK
<1>7. \A i \in 1 .. n : drawn[i] \in New \ {b} /\ new[drawn[i]].pc = "done" /\ new'[drawn[i]] = new[drawn[i]]
  BY <1>1, <1>2, <1>4 DEF HadTurn, UlidTypeOK
<1>8. HadTurn'
  <2>1. ASSUME NEW c \in New PROVE new'[c].pc = "done" <=> \E i \in 1 .. n + 1 : drawn'[i] = c
    BY <1>1, <1>2, <1>4, <1>6, <2>1 DEF HadTurn
  <2>2. QED
    BY <1>6, <2>1 DEF HadTurn
<1>9. \A c \in New : before[c] \subseteq New \ {b} /\ \A a \in before[c] : new[a].pc = "done" /\ new'[a] = new[a]
  BY <1>1, <1>2, <1>4 DEF BeganAfter, UlidTypeOK
<1>10. BeganAfter'
  <2>1. ASSUME NEW c \in New
        PROVE  /\ new'[c].pc = "new" => before[c] = {}
               /\ \A a \in before[c] : new'[a].pc = "done"
               /\ putBack = 0 /\ new'[c].pc # "new" =>
                    new'[c].ms <= clock /\ \A a \in before[c] : new'[a].ms <= new'[c].ms
    <3>1. new'[c].ms = new[c].ms /\ (new'[c].pc = "new" <=> new[c].pc = "new")
      BY <1>2, <1>4
    <3>2. QED
      BY <1>1, <1>9, <3>1 DEF BeganAfter
  <2>2. QED
    BY <1>2, <2>1 DEF BeganAfter
<1>11. SteppedForward'
  BY <1>1, <1>3, <1>4 DEF SteppedForward
<1>12. ASSUME NEW a \in New
       PROVE  /\ Since(a) \subseteq Since(a)' /\ \A c \in Since(a) : new'[c] = new[c] /\ c \in New
              /\ new[a].pc = "done" \/ a = b => b \in Since(a)'
  <2>1. Since(a) \subseteq Since(a)'
    BY <1>2, <1>6 DEF Since
  <2>2. \A c \in Since(a) : new'[c] = new[c] /\ c \in New
    BY <1>7 DEF Since
  <2>3. ASSUME new[a].pc = "done" \/ a = b PROVE b \in Since(a)'
    <3>1. PICK i \in 1 .. n + 1 : drawn'[i] = a
      BY <1>1, <1>2, <1>6, <2>3 DEF HadTurn
    <3>2. i <= n + 1 /\ n + 1 \in 1 .. n + 1 /\ drawn'[n + 1] = b
      BY <1>2, <1>6
    <3>3. QED
      BY <1>6, <3>1, <3>2 DEF Since
  <2>4. QED
    BY <2>1, <2>2, <2>3
<1>13. ASSUME NEW a \in New, new'[a].pc = "done" PROVE Remains(a)'
  <2>1. b \in Since(a)'
    BY <1>4, <1>12, <1>13
  <2>2. CASE last'.ms = m + 1 \/ m # new'[a].ms
    <3>1. new'[b].id.ms > new'[b].ms \/ new'[b].ms # new'[a].ms
      BY <1>2, <1>3, <1>4, <2>2
    <3>2. QED
      BY <2>1, <3>1 DEF Remains
  <2>3. CASE last'.ms = m /\ m = new'[a].ms /\ a = b
    BY <1>4, <2>3 DEF Remains
  <2>4. CASE last'.ms = m /\ m = new'[a].ms /\ a # b
    <3>1. new'[a] = new[a] /\ Remains(a) /\ new[a].id \in UlidId
      BY <1>1, <1>4, <1>13, <2>4 DEF UlidTypeOK, UlidCall
    <3>2. CASE \E c \in Since(a) : new[c].id.ms > new[c].ms
      <4>1. PICK c \in Since(a) : new[c].id.ms > new[c].ms
        BY <3>2
      <4>2. c \in Since(a)' /\ new'[c] = new[c]
        BY <1>12
      <4>3. QED
        BY <4>1, <4>2 DEF Remains
    <3>3. CASE \E c \in Since(a) : new[c].ms # new[a].ms
      <4>1. PICK c \in Since(a) : new[c].ms # new[a].ms
        BY <3>3
      <4>2. c \in Since(a)' /\ new'[c] = new[c]
        BY <1>12
      <4>3. QED
        BY <3>1, <4>1, <4>2 DEF Remains
    <3>4. CASE last.ms = new[a].ms /\ new[a].id.ms = new[a].ms /\ (new[a].id = last \/ Below(new[a].id, last))
      <4>1. Below(last, last') /\ last \in UlidId
        BY <1>1, <1>3, <2>4, <3>1, <3>4 DEF UlidTypeOK
      <4>2. Below(new[a].id, last')
        BY <1>3, <3>1, <3>4, <4>1, BelowTransitive
      <4>3. QED
        BY <2>4, <3>1, <3>4, <4>2 DEF Remains
    <3>5. QED
      BY <3>1, <3>2, <3>3, <3>4 DEF Remains
  <2>5. QED
    BY <1>3, <2>2, <2>3, <2>4
<1>14. \A a, x : Turns(a, x) \subseteq Turns(a, x)' /\ \A c \in Turns(a, x) : new'[c] = new[c]
  <2>1. ASSUME NEW a, NEW x, NEW c \in Turns(a, x) PROVE c \in Turns(a, x)' /\ new'[c] = new[c]
    <3>1. PICK i \in 1 .. n, j \in 1 .. n, k \in 1 .. n :
            i <= j /\ j < k /\ drawn[i] = a /\ drawn[j] = c /\ drawn[k] = x
      BY DEF Turns
    <3>2. /\ i \in 1 .. n + 1 /\ j \in 1 .. n + 1 /\ k \in 1 .. n + 1
          /\ drawn'[i] = a /\ drawn'[j] = c /\ drawn'[k] = x
      BY <1>2, <1>6, <3>1
    <3>3. c \in ToSet(drawn)'
      BY <1>5, <1>6, <3>2 DEF ToSet, UlidTypeOK
    <3>4. QED
      BY <1>6, <1>7, <3>1, <3>2, <3>3 DEF Turns
  <2>2. QED
    BY <2>1
<1>15. \A a \in before[b] : Since(a) \subseteq Turns(a, b)'
  <2>1. ASSUME NEW a \in before[b], NEW c \in Since(a) PROVE c \in Turns(a, b)'
    <3>1. PICK i \in 1 .. n, j \in 1 .. n : i <= j /\ drawn[i] = a /\ drawn[j] = c
      BY DEF Since
    <3>2. /\ i \in 1 .. n + 1 /\ j \in 1 .. n + 1 /\ n + 1 \in 1 .. n + 1 /\ j < n + 1
          /\ drawn'[i] = a /\ drawn'[j] = c /\ drawn'[n + 1] = b
      BY <1>2, <1>6, <3>1
    <3>3. c \in ToSet(drawn)'
      BY <1>5, <1>6, <3>2 DEF ToSet, UlidTypeOK
    <3>4. QED
      BY <1>6, <3>1, <3>2, <3>3 DEF Turns
  <2>2. QED
    BY <2>1
<1>16. ASSUME NEW a \in before[b]
       PROVE  \/ Below(new[a].id, last')
              \/ m < new[a].ms /\ putBack > 0
              \/ \E c \in Since(a) : new[c].ms # m /\ new[a].ms = m
              \/ \E c \in Since(a) : new[c].id.ms > new[c].ms
  <2>1. a \in New /\ new[a].pc = "done" /\ Remains(a) /\ new[a].ms \in Nat /\ new[a].id \in UlidId
    BY <1>1, <1>9 DEF UlidTypeOK, UlidCall
  <2>2. a \in Since(a)
    BY <1>1, <2>1 DEF Since, HadTurn
  <2>3. CASE new[a].id.ms > new[a].ms
    BY <2>2, <2>3
  <2>4. CASE new[a].id.ms = new[a].ms /\ m < new[a].ms
    <3>1. putBack # 0
      BY <1>1, <1>2, <2>1, <2>4 DEF BeganAfter
    <3>2. QED
      BY <1>1, <2>4, <3>1 DEF UlidTypeOK
  <2>5. CASE new[a].id.ms = new[a].ms /\ m > new[a].ms
    BY <1>2, <1>3, <2>1, <2>5 DEF Below
  <2>6. CASE new[a].id.ms = new[a].ms /\ m = new[a].ms
    <3>1. CASE last'.ms = m + 1
      BY <1>2, <2>1, <2>6, <3>1 DEF Below
    <3>2. CASE last'.ms = m /\ last.ms = new[a].ms /\ (new[a].id = last \/ Below(new[a].id, last))
      <4>1. Below(last, last') /\ last \in UlidId
        BY <1>1, <1>3, <2>6, <3>2 DEF UlidTypeOK
      <4>2. QED
        BY <1>3, <2>1, <3>2, <4>1, BelowTransitive
    <3>3. CASE \E c \in Since(a) : new[c].id.ms > new[c].ms \/ new[c].ms # new[a].ms
      BY <2>6, <3>3
    <3>4. QED
      BY <1>3, <2>1, <3>1, <3>2, <3>3 DEF Remains
  <2>7. QED
    BY <1>1, <1>2, <2>1, <2>3, <2>4, <2>5, <2>6 DEF SteppedForward
<1>17. IdsAscend'
  <2>1. SUFFICES ASSUME NEW x \in ToSet(drawn)', NEW a \in before[x]
                 PROVE  \/ Below(new'[a].id, new'[x].id)
                        \/ new'[x].ms < new'[a].ms /\ putBack > 0
                        \/ \E c \in Turns(a, x)' : new'[c].ms # new'[x].ms /\ new'[a].ms = new'[x].ms
                        \/ \E c \in Turns(a, x)' : new'[c].id.ms > new'[c].ms
    BY <1>2 DEF IdsAscend
  <2>2. PICK i \in 1 .. n + 1 : drawn'[i] = x
    BY <1>5, <1>6 DEF ToSet, UlidTypeOK
  <2>3. CASE i = n + 1
    <3>1. x = b /\ new'[a] = new[a] /\ Since(a) \subseteq Turns(a, b)' /\ a \in New
      BY <1>6, <1>9, <1>15, <2>2, <2>3
    <3>2. \A c \in Since(a) : new'[c] = new[c]
      BY <1>12, <3>1
    <3>3. QED
      BY <1>4, <1>16, <3>1, <3>2
  <2>4. CASE i \in 1 .. n
    <3>1. x \in New \ {b} /\ x \in ToSet(drawn) /\ new'[x] = new[x] /\ new'[a] = new[a]
      BY <1>1, <1>6, <1>7, <1>9, <2>2, <2>4 DEF ToSet, UlidTypeOK
    <3>2. \/ Below(new[a].id, new[x].id)
          \/ new[x].ms < new[a].ms /\ putBack > 0
          \/ \E c \in Turns(a, x) : new[c].ms # new[x].ms /\ new[a].ms = new[x].ms
          \/ \E c \in Turns(a, x) : new[c].id.ms > new[c].ms
      BY <1>1, <3>1 DEF IdsAscend
    <3>3. QED
      BY <1>14, <3>1, <3>2
  <2>5. QED
    BY <1>2, <2>3, <2>4
<1>18. QED
  BY <1>5, <1>8, <1>10, <1>11, <1>13, <1>17 DEF UlidInv

LEMMA UlidInvInitially ==
  ASSUME UlidInit
  PROVE  UlidInv
<1> USE DEF UlidInit
<1>1. NotCalled \in UlidCall /\ NotCalled.id \in UlidId /\ NotCalled.pc = "new"
  BY RandAssumption DEF NotCalled, UlidCall, UlidId, Random
<1>2. UlidTypeOK
  BY <1>1 DEF UlidTypeOK
<1>3. HadTurn /\ SteppedForward /\ BeganAfter
  BY <1>1 DEF HadTurn, SteppedForward, BeganAfter
<1>4. IdsAscend
  BY DEF IdsAscend, ToSet
<1>5. QED
  BY <1>1, <1>2, <1>3, <1>4 DEF UlidInv

LEMMA UlidInvInductive ==
  ASSUME UlidInv, [UlidNext]_ulidVars
  PROVE  UlidInv'
<1>1. CASE UNCHANGED ulidVars
  <2> USE <1>1 DEF ulidVars
  <2>1. UlidTypeOK' /\ BeganAfter' /\ putBack' >= putBack
    BY DEF UlidInv, UlidTypeOK, BeganAfter
  <2>2. QED
    BY <2>1, IdsStand DEF UlidInv
<1>2. CASE \E c \in New : ReadClock(c) \/ NewAt(c)
  BY <1>2, ReadClockStep, NewAtStep
<1>3. CASE ClockTick \/ ClockPutBack
  BY <1>3, ClockStep
<1>4. QED
  BY <1>1, <1>2, <1>3 DEF UlidNext

LEMMA UlidInvAlways == UlidSpec => []UlidInv
  BY UlidInvInitially, UlidInvInductive, PTL DEF UlidSpec

\* What the process counts up from, and every ID it drew, is of the length and
\* the base of an ID (ulid/ulid.go, lastMS and lastRand).
THEOREM UlidTypeCorrect == UlidSpec => []UlidTypeOK
<1>1. UlidInv => UlidTypeOK
  BY DEF UlidInv
<1>2. QED
  BY <1>1, UlidInvAlways, PTL

\* However many calls draw IDs side by side, and however long the random part
\* is, an ID sorts after all that had been returned when its call began, but for
\* a clock put back, a turn that read another millisecond and a full counter
\* (ulid/ulid.go, NewAt and increment).
THEOREM IdsAlwaysAscend == UlidSpec => []IdsAscend
<1>1. UlidInv => IdsAscend
  BY DEF UlidInv
<1>2. QED
  BY <1>1, UlidInvAlways, PTL

-----------------------------------------------------------------------------
(***************************************************************************)
(* Transfer: any rows, pages, failures, files and imports                  *)
(***************************************************************************)

TransferTypeOK ==
  /\ source \in [RowId -> SourceRow]
  /\ export \in [state : {"new", "none", "paging", "written", "failed"}, scope : {"me", "team"},
                 cursor : {0} \cup RowId]
  /\ file \in Seq(Line) /\ done \in Seq(Line)
  /\ target \in [Wording -> Nat]
  /\ import \in [state : {"none", "reading", "answered", "lost"}, todo : Seq(Line),
                 count : [imported : Nat, duplicate : Nat, skipped : Nat], refused : BOOLEAN]
  /\ imports \in Nat /\ transferChanges \in Nat /\ transferFaults \in Nat
  /\ steady \subseteq RowId /\ removed \subseteq Wording

-----------------------------------------------------------------------------
(* The invariant *)

\* What the pages so far are: every memory from the newest to the cursor that has
\* been exportable all the while, each once and in the order of the IDs.
Paged ==
  export.state = "paging" =>
    /\ \A k \in DOMAIN file : file[k].is = "memory"
    /\ \A j, k \in DOMAIN file : j < k => file[j].id > file[k].id
    /\ export.cursor = 0 => file = <<>>
    /\ export.cursor # 0 => \A k \in DOMAIN file : file[k].id >= export.cursor
    /\ \A i \in steady :
         /\ Exportable(source[i], export.scope)
         /\ export.cursor # 0 /\ i >= export.cursor => \E k \in DOMAIN file : file[k].id = i

\* The lines an import has read, and those of them of some kinds.
ReadLines == Len(file) - Len(import.todo)
HowMany(lines, n, kinds) == Cardinality({k \in 1 .. n : lines[k].is \in kinds})
One(holds) == IF holds THEN 1 ELSE 0
Records == {"memory", "invalid", "error", "malformed"}
Memories == {"memory", "invalid"}

\* What an import has still to read is the rest of the file.
Remainder ==
  import.state \in {"reading", "answered"} =>
    /\ Len(import.todo) <= Len(file)
    /\ \A i \in DOMAIN import.todo : import.todo[i] = file[ReadLines + i]
    /\ import.state = "answered" => import.todo = <<>>

\* What it has read is in the account and in its counts.
InAccount ==
  import.state \in {"reading", "answered"} /\ ~import.refused =>
    \A k \in 1 .. ReadLines :
      file[k].is = "memory" => target[file[k].says] = 1 \/ file[k].says \in removed
InCounts ==
  import.state \in {"reading", "answered"} =>
    LET c == import.count
    IN  /\ c.imported + c.duplicate + c.skipped = HowMany(file, ReadLines, Records)
        /\ c.imported + c.duplicate <= HowMany(file, ReadLines, Memories)
        /\ ~import.refused => c.imported + c.duplicate = HowMany(file, ReadLines, Memories)

ImportInv ==
  /\ \A w \in Wording : target[w] <= 1
  /\ import.state # "none" \/ done # <<>> => export.state \notin {"new", "paging"}
  /\ done # <<>> /\ done = file => \A k \in Exported : target[file[k].says] = 1
  /\ Remainder /\ InAccount /\ InCounts

TransferInv == TransferTypeOK /\ Paged /\ NeverSilentlyShort /\ ImportInv

-----------------------------------------------------------------------------
(* What a page is *)

\* The IDs of a set, each once, from the newest on.
LEMMA DescendingIs ==
  ASSUME NEW ids \in SUBSET RowId, NEW list, list = Descending(ids)
  PROVE  /\ list \in Seq(RowId) /\ ToSet(list) = ids
         /\ \A j, k \in DOMAIN list : j < k => list[j] > list[k]
<1>1. MaxId \in Nat
  BY TransferBounds
<1>2. PICK all : all = [k \in RowId |-> MaxId + 1 - k]
  OBVIOUS
<1>3. all \in Seq(RowId)
  BY <1>1, <1>2 DEF RowId
<1>4. DOMAIN all = RowId /\ \A j, k \in RowId : j < k => all[j] > all[k]
  BY <1>1, <1>2 DEF RowId
<1>5. ToSet(all) = RowId
  <2>1. ASSUME NEW i \in RowId PROVE i \in ToSet(all)
    <3>1. MaxId + 1 - i \in RowId /\ all[MaxId + 1 - i] = i
      BY <1>1, <1>2 DEF RowId
    <3>2. QED
      BY <1>4, <3>1 DEF ToSet
  <2>2. ToSet(all) \subseteq RowId
    BY <1>3 DEF ToSet
  <2>3. QED
    BY <2>1, <2>2
<1>6. PICK gone : gone = RowId \ ids /\ list = Without(all, gone)
  BY <1>2 DEF Descending
<1>7. list \in Seq(RowId) /\ ToSet(list) = ids
  <2>1. Without(all, gone) \in Seq(RowId) /\ ToSet(Without(all, gone)) = ToSet(all) \ gone
    BY <1>3, WithoutIs
  <2>2. QED
    BY <1>5, <1>6, <2>1
<1>8. ASSUME NEW j \in DOMAIN list, NEW k \in DOMAIN list, j < k PROVE list[j] > list[k]
  <2>1. list = Without(all, gone)
    BY <1>6
  <2>2. PICK a \in DOMAIN all, b \in DOMAIN all : a < b /\ list[j] = all[a] /\ list[k] = all[b]
    BY <1>3, <1>8, <2>1, WithoutOrder
  <2>3. QED
    BY <1>4, <2>2
<1>9. QED
  BY <1>7, <1>8

Found(scope, cursor) == {i \in RowId : Exportable(source[i], scope) /\ (cursor = 0 \/ i < cursor)}

\* A page has what was found down to its last row, and the cursor is that row.
PageOf(found, ids, next) ==
  /\ ids \in Seq(RowId) /\ next \in {0} \cup RowId /\ ToSet(ids) \subseteq found
  /\ \A j, k \in DOMAIN ids : j < k => ids[j] > ids[k]
  /\ next = 0 => found \subseteq ToSet(ids)
  /\ next # 0 => /\ next \in found /\ \A k \in DOMAIN ids : ids[k] >= next
                 /\ \A i \in found : i >= next => i \in ToSet(ids)

LEMMA PageIs ==
  ASSUME NEW scope, NEW cursor
  PROVE  PageOf(Found(scope, cursor), ListMemories(scope, cursor).ids, ListMemories(scope, cursor).next)
<1> PICK found : found = Found(scope, cursor)
  OBVIOUS
<1> PICK ids : ids = ListMemories(scope, cursor).ids
  OBVIOUS
<1> PICK next : next = ListMemories(scope, cursor).next
  OBVIOUS
<1> PICK page : page = Descending(found)
  OBVIOUS
<1>1. /\ page \in Seq(RowId) /\ ToSet(page) = found
      /\ \A j, k \in DOMAIN page : j < k => page[j] > page[k]
  BY DescendingIs DEF Found
<1>2. PageLimit \in Nat \ {0} /\ 0 \notin RowId /\ \A i \in RowId : i \in Nat
  BY TransferBounds DEF RowId
<1>3. CASE Len(page) <= PageLimit
  <2>1. ids = page /\ next = 0
    BY <1>3 DEF ListMemories, Found
  <2>2. QED
    BY <1>1, <2>1 DEF PageOf
<1>4. CASE ~(Len(page) <= PageLimit)
  <2>1. ids = SubSeq(page, 1, PageLimit) /\ next = page[PageLimit]
    BY <1>4 DEF ListMemories, Found
  <2>2. Len(page) \in Nat /\ PageLimit < Len(page) /\ DOMAIN page = 1 .. Len(page)
    BY <1>1, <1>2, <1>4
  <2>3. /\ ids \in Seq(RowId) /\ DOMAIN ids = 1 .. PageLimit
        /\ \A k \in 1 .. PageLimit : ids[k] = page[k] /\ k \in DOMAIN page
    BY <1>1, <1>2, <2>1, <2>2
  <2>4. \A k \in DOMAIN page : page[k] \in found /\ page[k] \in RowId
    BY <1>1 DEF ToSet
  <2>5. next \in found /\ next \in RowId /\ next # 0
    BY <1>2, <2>1, <2>2, <2>4
  <2>6. ToSet(ids) \subseteq found
    BY <2>3, <2>4 DEF ToSet
  <2>7. \A j, k \in DOMAIN ids : j < k => ids[j] > ids[k]
    BY <1>1, <2>3
  <2>8. ASSUME NEW k \in DOMAIN ids PROVE ids[k] >= next
    <3>1. k \in 1 .. PageLimit /\ ids[k] = page[k] /\ k \in DOMAIN page /\ PageLimit \in DOMAIN page
      BY <1>2, <2>2, <2>3
    <3>2. k < PageLimit \/ k = PageLimit
      BY <1>2, <3>1
    <3>3. page[k] \in Nat /\ next \in Nat
      BY <1>2, <2>4, <2>5, <3>1
    <3>4. QED
      BY <1>1, <2>1, <3>1, <3>2, <3>3
  <2>9. ASSUME NEW i \in found, i >= next PROVE i \in ToSet(ids)
    <3>1. PICK k \in DOMAIN page : page[k] = i
      BY <1>1 DEF ToSet
    <3>2. CASE k <= PageLimit
      <4>1. k \in 1 .. PageLimit
        BY <1>2, <2>2, <3>1, <3>2
      <4>2. QED
        BY <2>3, <3>1, <4>1 DEF ToSet
    <3>3. CASE ~(k <= PageLimit)
      <4>1. PageLimit < k /\ PageLimit \in DOMAIN page
        BY <1>2, <2>2, <3>1, <3>3
      <4>2. page[PageLimit] > page[k]
        BY <1>1, <3>1, <4>1
      <4>3. i \in Nat /\ next \in Nat
        BY <1>2, <2>4, <2>5, <3>1
      <4>4. QED
        BY <2>1, <2>9, <3>1, <4>2, <4>3
    <3>4. QED
      BY <3>2, <3>3
  <2>10. QED
    BY <2>3, <2>5, <2>6, <2>7, <2>8, <2>9 DEF PageOf
<1>5. QED
  BY <1>3, <1>4

-----------------------------------------------------------------------------
(* The export *)

LEMMA LinesAre ==
  /\ \A l \in Line : l.is \in Records \cup {"blank"} /\ (l.is = "memory" => l.id \in RowId /\ l.says \in Wording)
  /\ \A i \in RowId, w \in Wording :
       Memory(i, w) \in Line /\ Memory(i, w).is = "memory" /\ Memory(i, w).id = i
  /\ ErrorRecord \in Line /\ ErrorRecord.is = "error" /\ HalfLine \in Line
BY DEF Line, Records, Memory, ErrorRecord, HalfLine, Blank

\* While an export runs nothing has been imported from its file.
LEMMA ImportUntouched ==
  ASSUME ImportInv, export.state \in {"new", "paging"}, UNCHANGED <<import, done, target>>
  PROVE  ImportInv'
<1>1. import.state = "none" /\ done = <<>>
  BY DEF ImportInv
<1>2. (\A w \in Wording : target[w] <= 1)'
  BY DEF ImportInv
<1>3. Remainder' /\ InAccount' /\ InCounts'
  BY <1>1 DEF Remainder, InAccount, InCounts
<1>4. QED
  BY <1>1, <1>2, <1>3 DEF ImportInv

LEMMA ExportUntouched ==
  ASSUME Paged, NeverSilentlyShort, UNCHANGED <<export, file, source, steady>>
  PROVE  Paged' /\ NeverSilentlyShort'
<1>1. Exported' = Exported
  BY DEF Exported
<1>2. \A i : Exportable(source[i], export.scope)' = Exportable(source[i], export.scope)
  BY DEF Exportable
<1>3. Paged'
  BY <1>2 DEF Paged
<1>4. NeverSilentlyShort'
  BY <1>1 DEF NeverSilentlyShort
<1>5. QED
  BY <1>3, <1>4

LEMMA ExportStartStep ==
  ASSUME TransferInv, NEW scope \in {"me", "team"}, ExportStart(scope)
  PROVE  TransferInv'
<1> USE DEF ExportStart
<1>1. TransferTypeOK /\ ImportInv /\ export.state = "new"
  BY DEF TransferInv
<1>2. export' = [state |-> "paging", scope |-> scope, cursor |-> 0] /\ file' = <<>>
  OBVIOUS
<1>3. ImportInv'
  BY <1>1, ImportUntouched
<1>4. TransferTypeOK'
  BY <1>1, <1>2 DEF TransferTypeOK
<1>5. Paged' /\ NeverSilentlyShort'
  <2>1. steady' = {i \in RowId : Exportable(source[i], scope)} /\ source' = source
    OBVIOUS
  <2>2. export'.state = "paging" /\ export'.scope = scope /\ export'.cursor = 0
    BY <1>2
  <2>3. \A i \in steady' : Exportable(source[i], export.scope)'
    BY <2>1, <2>2 DEF Exportable
  <2>4. QED
    BY <1>2, <2>2, <2>3 DEF Paged, NeverSilentlyShort
<1>6. QED
  BY <1>3, <1>4, <1>5 DEF TransferInv

LEMMA Joined ==
  ASSUME NEW S, NEW old \in Seq(S), NEW added \in Seq(S), NEW n, n = Len(old), NEW m, m = Len(added),
         NEW both, both = old \o added
  PROVE  /\ both \in Seq(S) /\ DOMAIN both = 1 .. n + m
         /\ \A k \in 1 .. n : k \in DOMAIN both /\ both[k] = old[k]
         /\ \A k \in 1 .. m : n + k \in DOMAIN both /\ both[n + k] = added[k]
         /\ \A k \in DOMAIN both : k \in 1 .. n \/ (k - n \in 1 .. m /\ both[k] = added[k - n])
<1>1. n \in Nat /\ m \in Nat
  OBVIOUS
<1>2. both \in Seq(S) /\ DOMAIN both = 1 .. n + m
  OBVIOUS
<1>3. \A k \in 1 .. n : k \in DOMAIN both /\ both[k] = old[k]
  BY <1>1, <1>2
<1>4. \A k \in 1 .. m : n + k \in DOMAIN both /\ both[n + k] = added[k]
  BY <1>1, <1>2
<1>5. ASSUME NEW k \in DOMAIN both, k \notin 1 .. n
      PROVE  k - n \in 1 .. m /\ both[k] = added[k - n]
  <2>1. k - n \in 1 .. m /\ k = n + (k - n)
    BY <1>1, <1>2, <1>5
  <2>2. QED
    BY <1>4, <2>1
<1>6. QED
  BY <1>2, <1>3, <1>4, <1>5

\* A page continues the file where the last one ended, and misses nothing steady.
LEMMA ExportPageStep ==
  ASSUME TransferInv, ExportPage
  PROVE  TransferInv'
<1>1. TransferTypeOK /\ Paged /\ ImportInv /\ export.state = "paging"
  BY DEF TransferInv, ExportPage
<1> PICK scope : scope = export.scope
  OBVIOUS
<1> PICK cursor : cursor = export.cursor
  OBVIOUS
<1>2. PICK ids, next : ids = ListMemories(scope, cursor).ids /\ next = ListMemories(scope, cursor).next
  OBVIOUS
<1>3. PICK added : added = [k \in 1 .. Len(ids) |-> Memory(ids[k], source[ids[k]].says)]
  OBVIOUS
<1>4. /\ file' = file \o added
      /\ export' = [export EXCEPT !.cursor = next, !.state = IF next = 0 THEN "written" ELSE @]
      /\ UNCHANGED <<source, target, import, imports, transferChanges, transferFaults, steady, removed, done>>
  BY <1>2, <1>3 DEF ExportPage
<1>5. PICK found : found = Found(scope, cursor)
  OBVIOUS
<1>6. /\ ids \in Seq(RowId) /\ next \in {0} \cup RowId /\ ToSet(ids) \subseteq found
      /\ \A j, k \in DOMAIN ids : j < k => ids[j] > ids[k]
      /\ next = 0 => found \subseteq ToSet(ids)
      /\ next # 0 => /\ next \in found /\ \A k \in DOMAIN ids : ids[k] >= next
                     /\ \A i \in found : i >= next => i \in ToSet(ids)
  <2>1. PageOf(Found(scope, cursor), ListMemories(scope, cursor).ids, ListMemories(scope, cursor).next)
    BY PageIs
  <2>2. PageOf(found, ids, next)
    BY <1>2, <1>5, <2>1
  <2>3. QED
    BY <2>2 DEF PageOf
<1>7. \A i \in RowId : i \in Nat /\ i # 0
  BY TransferBounds DEF RowId
<1> DEFINE n == Len(file)
<1>8. /\ file \in Seq(Line) /\ n \in Nat /\ DOMAIN file = 1 .. n
      /\ DOMAIN ids = 1 .. Len(ids) /\ Len(ids) \in Nat /\ source \in [RowId -> SourceRow]
  BY <1>1, <1>6 DEF TransferTypeOK
<1>9. /\ added \in Seq(Line) /\ Len(added) = Len(ids)
      /\ \A k \in DOMAIN ids : added[k].is = "memory" /\ added[k].id = ids[k]
  <2>1. ASSUME NEW k \in DOMAIN ids
        PROVE  added[k] \in Line /\ added[k].is = "memory" /\ added[k].id = ids[k]
    <3>1. ids[k] \in RowId /\ source[ids[k]].says \in Wording
      BY <1>6, <1>8 DEF SourceRow
    <3>2. added[k] = Memory(ids[k], source[ids[k]].says)
      BY <1>3, <1>8
    <3>3. QED
      BY <3>1, <3>2, LinesAre
  <2>2. QED
    BY <1>3, <1>8, <2>1
<1>10. /\ file' \in Seq(Line) /\ DOMAIN file' = 1 .. n + Len(ids)
       /\ \A k \in DOMAIN file : k \in DOMAIN file' /\ file'[k] = file[k]
       /\ \A k \in DOMAIN ids : n + k \in DOMAIN file' /\ file'[n + k] = added[k]
       /\ \A k \in DOMAIN file' : k \in DOMAIN file \/ (k - n \in DOMAIN ids /\ file'[k] = added[k - n])
  <2> HIDE DEF n
  <2>1. Len(file) = n
    BY DEF n
  <2>2. QED
    BY <1>4, <1>8, <1>9, <2>1, Joined
<1>11. /\ \A k \in DOMAIN file : file[k].is = "memory" /\ file[k].id \in RowId
       /\ \A j, k \in DOMAIN file : j < k => file[j].id > file[k].id
       /\ export.cursor = 0 => DOMAIN file = {}
       /\ export.cursor # 0 => \A k \in DOMAIN file : file[k].id >= export.cursor
  BY <1>1, <1>8, LinesAre DEF Paged
<1>12. \A k \in DOMAIN ids : ids[k] \in found /\ (export.cursor # 0 => ids[k] < export.cursor)
  BY <1>5, <1>6 DEF ToSet, Found
<1>13. export.cursor \in Nat /\ export.scope \in {"me", "team"}
  BY <1>1, <1>7 DEF TransferTypeOK
<1>14. ASSUME NEW j \in DOMAIN file', NEW k \in DOMAIN file', j < k
       PROVE  file'[j].id > file'[k].id
  <2>1. CASE j \in DOMAIN file /\ k \in DOMAIN file
    BY <1>10, <1>11, <1>14, <2>1
  <2>2. CASE j \in DOMAIN file /\ k \notin DOMAIN file
    <3>1. k - n \in DOMAIN ids /\ file'[k] = added[k - n]
      BY <1>10, <2>2
    <3>2. export.cursor # 0 /\ file[j].id >= export.cursor /\ ids[k - n] < export.cursor
      BY <1>11, <1>12, <2>2, <3>1
    <3>3. file[j].id \in Nat /\ ids[k - n] \in Nat
      BY <1>6, <1>7, <1>11, <2>2, <3>1
    <3>4. QED
      BY <1>9, <1>10, <1>13, <2>2, <3>1, <3>2, <3>3
  <2>3. CASE j \notin DOMAIN file
    <3>1. j - n \in DOMAIN ids /\ file'[j] = added[j - n]
      BY <1>10, <2>3
    <3>2. k \notin DOMAIN file
      BY <1>8, <1>10, <1>14, <2>3
    <3>3. k - n \in DOMAIN ids /\ file'[k] = added[k - n]
      BY <1>10, <3>2
    <3>4. j - n < k - n
      BY <1>8, <1>10, <1>14
    <3>5. QED
      BY <1>6, <1>9, <3>1, <3>3, <3>4
  <2>4. QED
    BY <2>1, <2>2, <2>3
<1>15. \A k \in DOMAIN file' : file'[k].is = "memory" /\ file'[k].id \in RowId
  BY <1>6, <1>9, <1>10, <1>11
<1>16. ASSUME NEW i \in steady, next = 0 \/ i >= next PROVE \E k \in DOMAIN file' : file'[k].id = i
  <2>1. i \in RowId /\ Exportable(source[i], export.scope)
        /\ (export.cursor # 0 /\ i >= export.cursor => \E k \in DOMAIN file : file[k].id = i)
    BY <1>1 DEF Paged, TransferTypeOK
  <2>2. CASE export.cursor # 0 /\ i >= export.cursor
    BY <1>10, <2>1, <2>2
  <2>3. CASE export.cursor = 0 \/ i < export.cursor
    <3>1. i \in found
      BY <1>5, <2>1, <2>3 DEF Found
    <3>2. PICK k \in DOMAIN ids : ids[k] = i
      BY <1>6, <1>16, <3>1 DEF ToSet
    <3>3. QED
      BY <1>9, <1>10, <3>2
  <2>4. QED
    BY <1>7, <1>13, <2>1, <2>2, <2>3
<1>17. /\ export' \in [state : {"new", "none", "paging", "written", "failed"}, scope : {"me", "team"},
                       cursor : {0} \cup RowId]
       /\ export'.cursor = next /\ export'.scope = export.scope
       /\ export'.state = IF next = 0 THEN "written" ELSE "paging"
  BY <1>1, <1>4, <1>6 DEF TransferTypeOK
<1>18. TransferTypeOK'
  BY <1>1, <1>4, <1>10, <1>17 DEF TransferTypeOK
<1>19. ImportInv'
  BY <1>1, <1>4, ImportUntouched
<1>20. Paged'
  <2>1. SUFFICES ASSUME next # 0 PROVE Paged'
    BY <1>17 DEF Paged
  <2>2. \A k \in DOMAIN file' : file'[k].id >= next
    <3>1. next \in found /\ next \in RowId
      BY <1>6, <2>1
    <3>2. export.cursor # 0 => next < export.cursor
      BY <1>5, <3>1 DEF Found
    <3>3. ASSUME NEW k \in DOMAIN file PROVE file[k].id >= next
      <4>1. export.cursor # 0 /\ file[k].id >= export.cursor /\ file[k].id \in Nat /\ next \in Nat
        BY <1>7, <1>11, <3>1
      <4>2. QED
        BY <1>13, <3>2, <4>1
    <3>4. \A k \in DOMAIN ids : ids[k] >= next
      BY <1>6, <2>1
    <3>5. QED
      BY <1>9, <1>10, <3>3, <3>4
  <2>3. \A i \in steady : Exportable(source[i], export.scope)'
    BY <1>1, <1>4, <1>17 DEF Paged, Exportable
  <2>4. QED
    BY <1>4, <1>14, <1>15, <1>16, <1>17, <2>1, <2>2, <2>3 DEF Paged
<1>21. NeverSilentlyShort'
  <2>1. SUFFICES ASSUME next = 0 PROVE NeverSilentlyShort'
    BY <1>17 DEF NeverSilentlyShort
  <2>2. Exported' = DOMAIN file'
    BY <1>10, <1>15 DEF Exported
  <2>3. ASSUME NEW j \in DOMAIN file', NEW k \in DOMAIN file', file'[j].id = file'[k].id PROVE j = k
    <3>1. j \in Nat /\ k \in Nat /\ file'[j].id \in Nat
      BY <1>7, <1>8, <1>10, <1>15
    <3>2. QED
      BY <1>14, <2>3, <3>1
  <2>4. steady' \subseteq {file'[k].id : k \in DOMAIN file'}
    BY <1>4, <1>16, <2>1
  <2>5. QED
    BY <2>2, <2>3, <2>4 DEF NeverSilentlyShort
<1>22. QED
  BY <1>18, <1>19, <1>20, <1>21 DEF TransferInv

\* The error record is the last line, and no memory.
LEMMA ExportFailsStep ==
  ASSUME TransferInv, ExportFails
  PROVE  TransferInv'
<1> USE DEF ExportFails, Fault
<1>1. TransferTypeOK /\ Paged /\ ImportInv /\ export.state = "paging"
  BY DEF TransferInv
<1>2. export'.state = "written" /\ ImportInv' /\ transferFaults' \in Nat
      /\ export' \in [state : {"new", "none", "paging", "written", "failed"}, scope : {"me", "team"},
                     cursor : {0} \cup RowId]
  <2>1. export' = [export EXCEPT !.state = "written"] /\ transferFaults' = transferFaults - 1 /\ transferFaults > 0
    OBVIOUS
  <2>2. ImportInv'
    BY <1>1, ImportUntouched
  <2>3. transferFaults \in Nat
    BY <1>1 DEF TransferTypeOK
  <2>4. export' \in [state : {"new", "none", "paging", "written", "failed"}, scope : {"me", "team"},
                     cursor : {0} \cup RowId]
    BY <1>1, <2>1 DEF TransferTypeOK
  <2>5. QED
    BY <1>1, <2>1, <2>2, <2>3, <2>4 DEF TransferTypeOK
<1>3. /\ file \in Seq(Line) /\ DOMAIN file = 1 .. Len(file) /\ Len(file) \in Nat
      /\ file' = Append(file, ErrorRecord)
  BY <1>1 DEF TransferTypeOK
<1>4. /\ file' \in Seq(Line) /\ Len(file') = Len(file) + 1 /\ DOMAIN file' = 1 .. Len(file) + 1
      /\ \A k \in DOMAIN file : file'[k] = file[k]
      /\ file'[Len(file) + 1] = ErrorRecord /\ file' # <<>> /\ Last(file') = ErrorRecord
  BY <1>3, LinesAre DEF Last
<1>5. TransferTypeOK'
  BY <1>1, <1>2, <1>4 DEF TransferTypeOK
<1>6. NeverSilentlyShort'
  <2>1. Exported' \subseteq DOMAIN file
    BY <1>3, <1>4, LinesAre DEF Exported
  <2>2. ASSUME NEW j \in Exported', NEW k \in Exported', file'[j].id = file'[k].id PROVE j = k
    <3>1. j \in DOMAIN file /\ k \in DOMAIN file
      BY <2>1
    <3>2. file[j].id = file[k].id /\ file[j].id \in RowId
      <4>1. file[j].is = "memory" /\ file[j] \in Line
        BY <1>1, <1>3, <3>1 DEF Paged
      <4>2. QED
        BY <1>4, <2>2, <3>1, <4>1, LinesAre
    <3>3. file[j].id \in Nat /\ j \in Nat /\ k \in Nat
      BY <1>3, <3>1, <3>2, TransferBounds DEF RowId
    <3>4. \A a, b \in DOMAIN file : a < b => file[a].id > file[b].id
      BY <1>1 DEF Paged
    <3>5. QED
      BY <3>1, <3>2, <3>3, <3>4
  <2>3. QED
    BY <1>4, <2>2 DEF NeverSilentlyShort
<1>7. QED
  BY <1>2, <1>5, <1>6 DEF TransferInv, Paged

LEMMA ExportLostStep ==
  ASSUME TransferInv, ExportLost
  PROVE  TransferInv'
<1> USE DEF ExportLost, Fault
<1>1. TransferTypeOK /\ ImportInv /\ export.state = "paging"
  BY DEF TransferInv
<1>2. export'.state = "failed" /\ ImportInv' /\ transferFaults' \in Nat
      /\ export' \in [state : {"new", "none", "paging", "written", "failed"}, scope : {"me", "team"},
                     cursor : {0} \cup RowId]
  <2>1. export' = [export EXCEPT !.state = "failed"] /\ transferFaults' = transferFaults - 1 /\ transferFaults > 0
    OBVIOUS
  <2>2. ImportInv'
    BY <1>1, ImportUntouched
  <2>3. transferFaults \in Nat
    BY <1>1 DEF TransferTypeOK
  <2>4. export' \in [state : {"new", "none", "paging", "written", "failed"}, scope : {"me", "team"},
                     cursor : {0} \cup RowId]
    BY <1>1, <2>1 DEF TransferTypeOK
  <2>5. QED
    BY <1>1, <2>1, <2>2, <2>3, <2>4 DEF TransferTypeOK
<1>3. PICK n \in 0 .. Len(file), half \in BOOLEAN :
        file' = SubSeq(file, 1, n) \o (IF half THEN <<HalfLine>> ELSE <<>>)
  OBVIOUS
<1>4. file' \in Seq(Line)
  <2>1. file \in Seq(Line) /\ HalfLine \in Line
    BY <1>1, LinesAre DEF TransferTypeOK
  <2>2. PICK part : part = SubSeq(file, 1, n)
    OBVIOUS
  <2>3. part \in Seq(Line)
    BY <2>1, <2>2
  <2>4. PICK end : end = IF half THEN <<HalfLine>> ELSE <<>>
    OBVIOUS
  <2>5. end \in Seq(Line)
    BY <2>1, <2>4
  <2>6. file' = part \o end
    BY <1>3, <2>2, <2>4
  <2>7. part \o end \in Seq(Line)
    BY <2>3, <2>5
  <2>8. QED
    BY <2>6, <2>7
<1>5. TransferTypeOK'
  BY <1>1, <1>2, <1>4 DEF TransferTypeOK
<1>6. QED
  BY <1>2, <1>5 DEF TransferInv, Paged, NeverSilentlyShort

\* A row that changes is no longer steady, unless it stays exportable.
LEMMA SourceChangeStep ==
  ASSUME TransferInv, NEW i \in RowId, NEW row \in SourceRow, SourceChange(i, row)
  PROVE  TransferInv'
<1> USE DEF SourceChange
<1>1. TransferTypeOK /\ Paged /\ ImportInv /\ export.state = "paging"
  BY DEF TransferInv
<1>2. ImportInv'
  BY <1>1, ImportUntouched
<1>3. source' \in [RowId -> SourceRow] /\ source'[i] = row /\ \A j \in RowId \ {i} : source'[j] = source[j]
  BY <1>1 DEF TransferTypeOK
<1>4. TransferTypeOK'
  BY <1>1, <1>3 DEF TransferTypeOK
<1>5. ASSUME NEW j \in steady'
      PROVE  j \in steady /\ Exportable(source[j], export.scope)'
  <2>1. j \in steady /\ (j = i => Exportable(row, export.scope)) /\ j \in RowId
    BY <1>1 DEF TransferTypeOK
  <2>2. Exportable(source[j], export.scope)
    BY <1>1, <2>1 DEF Paged
  <2>3. QED
    BY <1>3, <2>1, <2>2 DEF Exportable
<1>6. Paged' /\ NeverSilentlyShort'
  BY <1>1, <1>5 DEF Paged, NeverSilentlyShort
<1>7. QED
  BY <1>2, <1>4, <1>6 DEF TransferInv

-----------------------------------------------------------------------------
(* The import *)

\* A line that is read is counted where it is of a kind.
LEMMA OneMore ==
  ASSUME NEW lines, NEW n \in Nat, NEW kinds
  PROVE  /\ HowMany(lines, n, kinds) \in Nat /\ HowMany(lines, 0, kinds) = 0
         /\ HowMany(lines, n + 1, kinds) = HowMany(lines, n, kinds) + One(lines[n + 1].is \in kinds)
<1> DEFINE Of(m) == {k \in 1 .. m : lines[k].is \in kinds}
<1>1. IsFiniteSet(Of(n)) /\ n + 1 \notin Of(n)
  <2>1. IsFiniteSet(1 .. n)
    BY FS_Interval
  <2>2. Of(n) \subseteq 1 .. n
    OBVIOUS
  <2>3. QED
    BY <2>1, <2>2, FS_Subset
<1>2. Of(0) = {}
  OBVIOUS
<1>3. Of(n + 1) = IF lines[n + 1].is \in kinds THEN Of(n) \cup {n + 1} ELSE Of(n)
  <2>1. \A k : k \in 1 .. n + 1 <=> k \in 1 .. n \/ k = n + 1
    OBVIOUS
  <2>2. QED
    BY <2>1
<1>4. \A m : HowMany(lines, m, kinds) = Cardinality(Of(m))
  BY DEF HowMany
<1> HIDE DEF Of
<1>5. Cardinality(Of(n)) \in Nat /\ Cardinality(Of(n) \cup {n + 1}) = Cardinality(Of(n)) + 1
  BY <1>1, FS_AddElement, FS_CardinalityType
<1>6. QED
  BY <1>2, <1>3, <1>4, <1>5, FS_EmptySet DEF One

\* What a step of the import changes of its record.
LEMMA CountedIs ==
  ASSUME TransferTypeOK, import.todo # <<>>, NEW field \in {"imported", "duplicate", "skipped"}
  PROVE  /\ Counted(field) \in
              [state : {"none", "reading", "answered", "lost"}, todo : Seq(Line),
               count : [imported : Nat, duplicate : Nat, skipped : Nat], refused : BOOLEAN]
         /\ Counted(field).state = import.state /\ Counted(field).todo = Tail(import.todo)
         /\ Counted(field).refused = import.refused
         /\ Counted(field).count = [import.count EXCEPT ![field] = @ + 1]
<1> PICK c : c = Counted(field)
  OBVIOUS
<1>1. PICK count : count = [import.count EXCEPT ![field] = @ + 1]
  OBVIOUS
<1>2. c = [import EXCEPT !.todo = Tail(@), !.count = count]
  BY <1>1, Zenon DEF Counted
<1>3. import \in [state : {"none", "reading", "answered", "lost"}, todo : Seq(Line),
                  count : [imported : Nat, duplicate : Nat, skipped : Nat], refused : BOOLEAN]
  BY DEF TransferTypeOK
<1>4. import.todo \in Seq(Line) /\ Tail(import.todo) \in Seq(Line)
  BY <1>3
<1>5. count \in [imported : Nat, duplicate : Nat, skipped : Nat]
  BY <1>1, <1>3
<1>6. /\ c \in [state : {"none", "reading", "answered", "lost"}, todo : Seq(Line),
                count : [imported : Nat, duplicate : Nat, skipped : Nat], refused : BOOLEAN]
      /\ c.state = import.state /\ c.todo = Tail(import.todo) /\ c.refused = import.refused
      /\ c.count = count
  BY <1>2, <1>3, <1>4, <1>5
<1>7. QED
  BY <1>1, <1>6

\* The line an import reads next, and what it has read then.
LEMMA RestOf ==
  ASSUME NEW S, NEW all \in Seq(S), NEW todo \in Seq(S), todo # <<>>, Len(todo) <= Len(all),
         NEW n, n = Len(all) - Len(todo), \A i \in DOMAIN todo : todo[i] = all[n + i]
  PROVE  /\ n \in Nat /\ n + 1 \in DOMAIN all /\ all[n + 1] = Head(todo)
         /\ Len(Tail(todo)) <= Len(all) /\ Len(all) - Len(Tail(todo)) = n + 1
         /\ \A i \in DOMAIN Tail(todo) : Tail(todo)[i] = all[n + 1 + i]
<1>1. PICK f, t : f = Len(all) /\ t = Len(todo)
  OBVIOUS
<1>2. f \in Nat /\ t \in Nat /\ t >= 1 /\ DOMAIN todo = 1 .. t /\ DOMAIN all = 1 .. f
  BY <1>1
<1>3. n = f - t /\ t <= f
  BY <1>1
<1>4. n \in Nat /\ n + 1 \in 1 .. f /\ f - (t - 1) = n + 1 /\ t - 1 <= f
  BY <1>2, <1>3
<1>5. Len(Tail(todo)) = t - 1 /\ DOMAIN Tail(todo) = 1 .. t - 1 /\ \A i \in 1 .. t - 1 : Tail(todo)[i] = todo[i + 1]
  BY <1>1, <1>2
<1>6. Head(todo) = todo[1] /\ 1 \in DOMAIN todo
  BY <1>2
<1>7. ASSUME NEW i \in 1 .. t - 1 PROVE todo[i + 1] = all[n + 1 + i]
  <2>1. i + 1 \in DOMAIN todo /\ n + (i + 1) = n + 1 + i
    BY <1>2, <1>4
  <2>2. QED
    BY <2>1
<1>8. QED
  BY <1>1, <1>2, <1>4, <1>5, <1>6, <1>7

\* What the step that reads a line does to the counts.
Tally(l, c, d, refused) ==
  /\ d.imported + d.duplicate + d.skipped = c.imported + c.duplicate + c.skipped + One(l.is \in Records)
  /\ d.imported + d.duplicate <= c.imported + c.duplicate + One(l.is \in Memories)
  /\ ~refused => d.imported + d.duplicate = c.imported + c.duplicate + One(l.is \in Memories)

\* What must hold of a step that reads a line.
LEMMA LineRead ==
  ASSUME TransferInv, TransferTypeOK', import.state = "reading", import.todo # <<>>,
         UNCHANGED <<source, export, file, steady, removed, done>>,
         import'.state = "reading", import'.todo = Tail(import.todo), import.refused => import'.refused,
         \A w \in Wording : target'[w] <= 1 /\ (target[w] = 1 => target'[w] = 1),
         ~import'.refused /\ Head(import.todo).is = "memory" => target'[Head(import.todo).says] = 1,
         Tally(Head(import.todo), import.count, import'.count, import'.refused)
  PROVE  TransferInv'
<1>1. TransferTypeOK /\ Paged /\ NeverSilentlyShort /\ ImportInv
  BY DEF TransferInv
<1>2. Paged' /\ NeverSilentlyShort'
  BY <1>1, ExportUntouched
<1>3. PICK n, l, c, d : n = ReadLines /\ l = Head(import.todo) /\ c = import.count /\ d = import'.count
  OBVIOUS
<1>4. file \in Seq(Line) /\ DOMAIN file = 1 .. Len(file) /\ Len(file) \in Nat
  BY <1>1 DEF TransferTypeOK
<1>5. /\ n \in Nat /\ n + 1 \in DOMAIN file /\ file[n + 1] = l
      /\ Len(import'.todo) <= Len(file) /\ Len(file) - Len(import'.todo) = n + 1
      /\ \A i \in DOMAIN import'.todo : import'.todo[i] = file[n + 1 + i]
  <2>1. PICK todo : todo = import.todo
    OBVIOUS
  <2>2. todo \in Seq(Line) /\ todo # <<>>
    BY <1>1, <2>1 DEF TransferTypeOK
  <2>3. Len(todo) <= Len(file) /\ n = Len(file) - Len(todo) /\ \A i \in DOMAIN todo : todo[i] = file[n + i]
    BY <1>1, <1>3, <2>1 DEF ImportInv, Remainder, ReadLines
  <2>4. /\ n \in Nat /\ n + 1 \in DOMAIN file /\ file[n + 1] = Head(todo)
        /\ Len(Tail(todo)) <= Len(file) /\ Len(file) - Len(Tail(todo)) = n + 1
        /\ \A i \in DOMAIN Tail(todo) : Tail(todo)[i] = file[n + 1 + i]
    BY <1>4, <2>2, <2>3, RestOf
  <2>5. import'.todo = Tail(todo) /\ l = Head(todo)
    BY <1>3, <2>1
  <2>6. QED
    BY <2>4, <2>5
<1>6. ReadLines' = n + 1 /\ file' = file
  BY <1>5 DEF ReadLines
<1>7. /\ c.imported \in Nat /\ c.duplicate \in Nat /\ c.skipped \in Nat
      /\ d.imported \in Nat /\ d.duplicate \in Nat /\ d.skipped \in Nat
  BY <1>1, <1>3 DEF TransferTypeOK
<1>8. Remainder'
  BY <1>5, <1>6 DEF Remainder
<1>9. InAccount'
  <2>1. SUFFICES ASSUME ~import'.refused, NEW k \in 1 .. n + 1, file[k].is = "memory"
                 PROVE  target'[file[k].says] = 1 \/ file[k].says \in removed
    BY <1>6 DEF InAccount
  <2>2. CASE k = n + 1
    BY <1>3, <1>5, <2>1, <2>2
  <2>3. CASE k # n + 1
    <3>1. k \in 1 .. n /\ ~import.refused /\ k \in DOMAIN file
      BY <1>4, <1>5, <2>1, <2>3
    <3>2. target[file[k].says] = 1 \/ file[k].says \in removed
      BY <1>1, <1>3, <2>1, <3>1 DEF ImportInv, InAccount
    <3>3. file[k].says \in Wording
      BY <1>4, <2>1, <3>1, LinesAre
    <3>4. QED
      BY <3>2, <3>3
  <2>4. QED
    BY <2>2, <2>3
<1>10. InCounts'
  <2>1. PICK r, m, x, y : /\ r = HowMany(file, n, Records) /\ m = HowMany(file, n, Memories)
                          /\ x = One(l.is \in Records) /\ y = One(l.is \in Memories)
    OBVIOUS
  <2>2. /\ c.imported + c.duplicate + c.skipped = r
        /\ c.imported + c.duplicate <= m
        /\ ~import.refused => c.imported + c.duplicate = m
    BY <1>1, <1>3, <2>1 DEF ImportInv, InCounts
  <2>3. r \in Nat /\ HowMany(file, n + 1, Records) = r + x
    BY <1>5, <2>1, OneMore
  <2>4. m \in Nat /\ HowMany(file, n + 1, Memories) = m + y
    BY <1>5, <2>1, OneMore
  <2>5. x \in Nat /\ y \in Nat
    BY <2>1 DEF One
  <2>6. /\ d.imported + d.duplicate + d.skipped = c.imported + c.duplicate + c.skipped + x
        /\ d.imported + d.duplicate <= c.imported + c.duplicate + y
        /\ ~import'.refused => d.imported + d.duplicate = c.imported + c.duplicate + y
    BY <1>3, <2>1 DEF Tally
  <2>7. /\ d.imported + d.duplicate + d.skipped = r + x
        /\ d.imported + d.duplicate <= m + y
        /\ ~import'.refused => d.imported + d.duplicate = m + y
    <3>1. ~import'.refused => ~import.refused
      OBVIOUS
    <3>2. c.imported + c.duplicate \in Nat /\ d.imported + d.duplicate \in Nat
      BY <1>7
    <3>3. d.imported + d.duplicate + d.skipped = r + x
      BY <2>2, <2>6
    <3>4. d.imported + d.duplicate <= m + y
      <4>1. ASSUME NEW a \in Nat, NEW b \in Nat, b <= a + y, a <= m PROVE b <= m + y
        BY <2>4, <2>5, <4>1
      <4>2. QED
        BY <2>2, <2>6, <3>2, <4>1
    <3>5. ~import'.refused => d.imported + d.duplicate = m + y
      BY <2>2, <2>6, <3>1
    <3>6. QED
      BY <3>3, <3>4, <3>5
  <2>8. QED
    BY <1>3, <1>6, <2>3, <2>4, <2>7 DEF InCounts
<1>11. ASSUME done # <<>>, done = file, NEW k \in Exported PROVE target'[file[k].says] = 1
  <2>1. target[file[k].says] = 1
    BY <1>1, <1>11 DEF ImportInv
  <2>2. k \in DOMAIN file /\ file[k].is = "memory"
    BY <1>4 DEF Exported
  <2>3. file[k].says \in Wording
    BY <1>4, <2>2, LinesAre
  <2>4. QED
    BY <2>1, <2>3
<1>12. Exported' = Exported
  BY DEF Exported
<1>13. ImportInv'
  <2>1. import.state # "none" \/ done # <<>> => export.state \notin {"new", "paging"}
    BY <1>1 DEF ImportInv
  <2>2. QED
    BY <1>8, <1>9, <1>10, <1>11, <1>12, <2>1 DEF ImportInv
<1>14. QED
  BY <1>2, <1>13 DEF TransferInv

LEMMA ImportOtherStep ==
  ASSUME TransferInv, ImportOther
  PROVE  TransferInv'
<1> USE DEF ImportOther
<1> PICK l : l = Head(import.todo)
  OBVIOUS
<1> PICK c : c = import.count
  OBVIOUS
<1>1. /\ TransferTypeOK /\ ImportInv /\ import.state = "reading" /\ import.todo # <<>> /\ l.is # "memory"
      /\ UNCHANGED <<source, export, file, target, imports, transferChanges, transferFaults, steady, removed, done>>
  BY DEF TransferInv
<1>2. l.is \in Records \cup {"blank"}
  <2>1. import.todo \in Seq(Line)
    BY <1>1 DEF TransferTypeOK
  <2>2. l \in Line
    BY <1>1, <2>1
  <2>3. QED
    BY <2>2, LinesAre
<1>3. c.imported \in Nat /\ c.duplicate \in Nat /\ c.skipped \in Nat
  BY <1>1 DEF TransferTypeOK
<1>4. \A w \in Wording : target'[w] <= 1 /\ (target[w] = 1 => target'[w] = 1)
  BY <1>1 DEF ImportInv
<1>5. CASE l.is = "blank"
  <2>1. import' = [import EXCEPT !.todo = Tail(@)]
    BY <1>5
  <2>2. /\ import' \in [state : {"none", "reading", "answered", "lost"}, todo : Seq(Line),
                        count : [imported : Nat, duplicate : Nat, skipped : Nat], refused : BOOLEAN]
        /\ import'.state = import.state /\ import'.todo = Tail(import.todo)
        /\ import'.refused = import.refused /\ import'.count = c
    <3>1. import.todo \in Seq(Line) /\ Tail(import.todo) \in Seq(Line)
      BY <1>1 DEF TransferTypeOK
    <3>2. QED
      BY <1>1, <2>1, <3>1 DEF TransferTypeOK
  <2>3. TransferTypeOK'
    BY <1>1, <2>2 DEF TransferTypeOK
  <2>4. One(l.is \in Records) = 0 /\ One(l.is \in Memories) = 0
    BY <1>5 DEF Records, Memories, One
  <2>5. Tally(l, c, c, import'.refused)
    BY <1>3, <2>4 DEF Tally
  <2>6. QED
    BY <1>1, <1>4, <2>2, <2>3, <2>5, LineRead
<1>6. CASE l.is # "blank"
  <2>1. PICK next : next = Counted("skipped")
    OBVIOUS
  <2>2. /\ next \in [state : {"none", "reading", "answered", "lost"}, todo : Seq(Line),
                     count : [imported : Nat, duplicate : Nat, skipped : Nat], refused : BOOLEAN]
        /\ next.state = import.state /\ next.todo = Tail(import.todo) /\ next.refused = import.refused
        /\ next.count = [c EXCEPT !.skipped = @ + 1]
    BY <1>1, <2>1, CountedIs
  <2>3. import' = IF l.is = "invalid" THEN [next EXCEPT !.refused = TRUE] ELSE next
    BY <1>6, <2>1
  <2>4. PICK d : d = import'.count
    OBVIOUS
  <2>5. /\ import' \in [state : {"none", "reading", "answered", "lost"}, todo : Seq(Line),
                        count : [imported : Nat, duplicate : Nat, skipped : Nat], refused : BOOLEAN]
        /\ import'.state = import.state /\ import'.todo = Tail(import.todo) /\ import'.count = next.count
        /\ import'.refused = IF l.is = "invalid" THEN TRUE ELSE import.refused
    BY <2>2, <2>3
  <2>6. d.imported = c.imported /\ d.duplicate = c.duplicate /\ d.skipped = c.skipped + 1
    BY <1>1, <2>2, <2>4, <2>5 DEF TransferTypeOK
  <2>7. TransferTypeOK'
    BY <1>1, <2>5 DEF TransferTypeOK
  <2>8. /\ One(l.is \in Records) = 1 /\ One(l.is \in Memories) \in Nat
        /\ ~import'.refused => One(l.is \in Memories) = 0
    BY <1>1, <1>2, <1>6, <2>5 DEF Records, Memories, One
  <2>9. Tally(l, c, d, import'.refused)
    BY <1>3, <2>6, <2>8 DEF Tally
  <2>10. QED
    BY <1>1, <1>4, <2>4, <2>5, <2>7, <2>9, LineRead
<1>7. QED
  BY <1>5, <1>6

LEMMA ImportMemoryStep ==
  ASSUME TransferInv, ImportMemory
  PROVE  TransferInv'
<1> PICK l : l = Head(import.todo)
  OBVIOUS
<1> PICK c : c = import.count
  OBVIOUS
<1> PICK d : d = import'.count
  OBVIOUS
<1>1. /\ TransferTypeOK /\ ImportInv /\ import.state = "reading" /\ import.todo # <<>> /\ l.is = "memory"
      /\ UNCHANGED <<source, export, file, imports, transferChanges, transferFaults, steady, removed, done>>
      /\ IF target[l.says] > 0 THEN import' = Counted("duplicate") /\ target' = target
         ELSE target' = [target EXCEPT ![l.says] = 1] /\ import' = Counted("imported")
  BY DEF TransferInv, ImportMemory
<1>2. l.says \in Wording
  <2>1. import.todo \in Seq(Line)
    BY <1>1 DEF TransferTypeOK
  <2>2. l \in Line
    BY <1>1, <2>1
  <2>3. QED
    BY <1>1, <2>2, LinesAre
<1>3. /\ c.imported \in Nat /\ c.duplicate \in Nat /\ c.skipped \in Nat
      /\ target \in [Wording -> Nat] /\ \A w \in Wording : target[w] <= 1
  BY <1>1 DEF TransferTypeOK, ImportInv
<1>4. PICK field \in {"imported", "duplicate"} : import' = Counted(field)
  BY <1>1
<1>5. /\ import' \in [state : {"none", "reading", "answered", "lost"}, todo : Seq(Line),
                      count : [imported : Nat, duplicate : Nat, skipped : Nat], refused : BOOLEAN]
      /\ import'.state = import.state /\ import'.todo = Tail(import.todo)
      /\ import'.refused = import.refused /\ d = [c EXCEPT ![field] = @ + 1]
  <2>1. PICK next : next = Counted(field)
    OBVIOUS
  <2>2. /\ next \in [state : {"none", "reading", "answered", "lost"}, todo : Seq(Line),
                     count : [imported : Nat, duplicate : Nat, skipped : Nat], refused : BOOLEAN]
        /\ next.state = import.state /\ next.todo = Tail(import.todo) /\ next.refused = import.refused
        /\ next.count = [c EXCEPT ![field] = @ + 1]
    BY <1>1, <1>4, <2>1, CountedIs
  <2>3. QED
    BY <1>4, <2>1, <2>2
<1>6. d.imported + d.duplicate = c.imported + c.duplicate + 1 /\ d.skipped = c.skipped /\ d.imported + d.duplicate \in Nat
  <2>1. c \in [imported : Nat, duplicate : Nat, skipped : Nat]
    BY <1>1 DEF TransferTypeOK
  <2>2. CASE field = "imported"
    <3>1. d.imported = c.imported + 1 /\ d.duplicate = c.duplicate /\ d.skipped = c.skipped
      BY <1>5, <2>1, <2>2
    <3>2. QED
      BY <1>3, <3>1
  <2>3. CASE field = "duplicate"
    <3>1. d.imported = c.imported /\ d.duplicate = c.duplicate + 1 /\ d.skipped = c.skipped
      BY <1>5, <2>1, <2>3
    <3>2. QED
      BY <1>3, <3>1
  <2>4. QED
    BY <1>4, <2>2, <2>3
<1>7. /\ target' \in [Wording -> Nat] /\ target'[l.says] = 1
      /\ \A w \in Wording : target'[w] <= 1 /\ (target[w] = 1 => target'[w] = 1)
  <2>1. CASE target[l.says] > 0
    BY <1>1, <1>2, <1>3, <2>1
  <2>2. CASE ~(target[l.says] > 0)
    BY <1>1, <1>2, <1>3, <2>2
  <2>3. QED
    BY <2>1, <2>2
<1>8. TransferTypeOK'
  BY <1>1, <1>5, <1>7 DEF TransferTypeOK
<1>9. Tally(l, c, d, import'.refused)
  <2>1. One(l.is \in Records) = 1 /\ One(l.is \in Memories) = 1
    BY <1>1 DEF One, Records, Memories
  <2>2. QED
    BY <1>3, <1>6, <2>1 DEF Tally
<1>10. QED
  BY <1>1, <1>5, <1>7, <1>8, <1>9, LineRead

LEMMA ImportRefusedStep ==
  ASSUME TransferInv, ImportRefused
  PROVE  TransferInv'
<1> PICK l : l = Head(import.todo)
  OBVIOUS
<1> PICK c : c = import.count
  OBVIOUS
<1> PICK d : d = import'.count
  OBVIOUS
<1>1. /\ TransferTypeOK /\ ImportInv /\ import.state = "reading" /\ import.todo # <<>> /\ l.is = "memory"
      /\ UNCHANGED <<source, export, file, target, imports, transferChanges, steady, removed, done>>
      /\ transferFaults > 0 /\ transferFaults' = transferFaults - 1
      /\ import' = [Counted("skipped") EXCEPT !.refused = TRUE]
  BY DEF TransferInv, ImportRefused, Fault
<1>2. PICK next : next = Counted("skipped")
  OBVIOUS
<1>3. /\ next \in [state : {"none", "reading", "answered", "lost"}, todo : Seq(Line),
                   count : [imported : Nat, duplicate : Nat, skipped : Nat], refused : BOOLEAN]
      /\ next.state = import.state /\ next.todo = Tail(import.todo)
      /\ next.count = [c EXCEPT !.skipped = @ + 1]
  BY <1>1, <1>2, CountedIs
<1>4. /\ import' \in [state : {"none", "reading", "answered", "lost"}, todo : Seq(Line),
                      count : [imported : Nat, duplicate : Nat, skipped : Nat], refused : BOOLEAN]
      /\ import'.state = import.state /\ import'.todo = Tail(import.todo)
      /\ import'.refused = TRUE /\ d = next.count
  <2>1. import' = [next EXCEPT !.refused = TRUE]
    BY <1>1, <1>2
  <2>2. QED
    BY <1>3, <2>1
<1>5. /\ c.imported \in Nat /\ c.duplicate \in Nat /\ c.skipped \in Nat
      /\ d.imported = c.imported /\ d.duplicate = c.duplicate /\ d.skipped = c.skipped + 1
  BY <1>1, <1>3, <1>4 DEF TransferTypeOK
<1>6. Tally(l, c, d, import'.refused)
  <2>1. One(l.is \in Records) = 1 /\ One(l.is \in Memories) = 1
    BY <1>1 DEF One, Records, Memories
  <2>2. /\ d.imported + d.duplicate + d.skipped = c.imported + c.duplicate + c.skipped + 1
        /\ d.imported + d.duplicate <= c.imported + c.duplicate + 1
    BY <1>5
  <2>3. QED
    BY <1>4, <2>1, <2>2 DEF Tally
<1>7. transferFaults' \in Nat
  BY <1>1 DEF TransferTypeOK
<1>8. TransferTypeOK'
  BY <1>1, <1>4, <1>7 DEF TransferTypeOK
<1>9. \A w \in Wording : target'[w] <= 1 /\ (target[w] = 1 => target'[w] = 1)
  BY <1>1 DEF ImportInv
<1>10. QED
  BY <1>1, <1>4, <1>6, <1>8, <1>9, LineRead

LEMMA ImportStartStep ==
  ASSUME TransferInv, ImportStart
  PROVE  TransferInv'
<1>1. /\ TransferTypeOK /\ Paged /\ NeverSilentlyShort /\ ImportInv
      /\ UNCHANGED <<source, export, file, target, transferChanges, transferFaults, steady, done>>
      /\ removed' = {} /\ imports > 0 /\ imports' = imports - 1
  BY DEF TransferInv, ImportStart
<1>2. /\ file \in Seq(Line) /\ Len(file) \in Nat /\ DOMAIN file = 1 .. Len(file)
      /\ export.state \notin {"new", "paging"}
  BY <1>1 DEF TransferTypeOK, ImportStart
<1>3. import' = [state |-> "reading", todo |-> file, count |-> Zero, refused |-> FALSE]
  BY DEF NoImport, ImportStart
<1>4. /\ import'.state = "reading" /\ import'.todo = file /\ import'.refused = FALSE
      /\ import'.count.imported = 0 /\ import'.count.duplicate = 0 /\ import'.count.skipped = 0
  <2>1. Zero.imported = 0 /\ Zero.duplicate = 0 /\ Zero.skipped = 0
    BY DEF Zero
  <2>2. QED
    BY <1>3, <2>1
<1>5. TransferTypeOK'
  <2>1. Zero \in [imported : Nat, duplicate : Nat, skipped : Nat]
    BY DEF Zero
  <2>2. imports' \in Nat
    BY <1>1 DEF TransferTypeOK
  <2>3. import' \in [state : {"none", "reading", "answered", "lost"}, todo : Seq(Line),
                     count : [imported : Nat, duplicate : Nat, skipped : Nat], refused : BOOLEAN]
    BY <1>2, <1>3, <2>1
  <2>4. QED
    BY <1>1, <2>2, <2>3 DEF TransferTypeOK
<1>6. Paged' /\ NeverSilentlyShort'
  BY <1>1, ExportUntouched
<1>7. ReadLines' = 0
  BY <1>1, <1>2, <1>4 DEF ReadLines
<1>8. Remainder' /\ InAccount'
  BY <1>1, <1>2, <1>4, <1>7 DEF Remainder, InAccount
<1>9. InCounts'
  <2>1. HowMany(file, 0, Records) = 0 /\ HowMany(file, 0, Memories) = 0
    BY OneMore
  <2>2. QED
    BY <1>1, <1>4, <1>7, <2>1 DEF InCounts
<1>10. Exported' = Exported
  BY <1>1 DEF Exported
<1>11. QED
  BY <1>1, <1>2, <1>5, <1>6, <1>8, <1>9, <1>10 DEF TransferInv, ImportInv

\* The whole file is read: it is in the account, unless a line was refused or
\* something removed.
LEMMA ImportEndStep ==
  ASSUME TransferInv, ImportEnd
  PROVE  TransferInv'
<1> USE DEF ImportEnd
<1>1. TransferTypeOK /\ Paged /\ NeverSilentlyShort /\ ImportInv /\ import.state = "reading"
  BY DEF TransferInv
<1>2. file \in Seq(Line) /\ Len(file) \in Nat /\ export.state \notin {"new", "paging"}
  BY <1>1 DEF TransferTypeOK, ImportInv
<1>3. /\ import' \in [state : {"none", "reading", "answered", "lost"}, todo : Seq(Line),
                      count : [imported : Nat, duplicate : Nat, skipped : Nat], refused : BOOLEAN]
      /\ import'.state = "answered" /\ import'.todo = <<>> /\ import.todo = <<>>
      /\ import'.refused = import.refused /\ import'.count = import.count
  BY <1>1 DEF TransferTypeOK
<1>4. TransferTypeOK'
  BY <1>1, <1>3 DEF TransferTypeOK
<1>5. Paged' /\ NeverSilentlyShort'
  BY <1>1, ExportUntouched
<1>6. ReadLines' = ReadLines /\ ReadLines = Len(file) /\ Exported' = Exported
  BY <1>2, <1>3 DEF ReadLines, Exported
<1>7. Remainder' /\ InAccount' /\ InCounts'
  <2>1. Remainder'
    BY <1>2, <1>3 DEF Remainder
  <2>2. InAccount'
    BY <1>1, <1>3, <1>6 DEF InAccount, ImportInv
  <2>3. InCounts'
    BY <1>1, <1>3, <1>6 DEF InCounts, ImportInv
  <2>4. QED
    BY <2>1, <2>2, <2>3
<1>8. done' # <<>> /\ done' = file => \A k \in Exported : target[file[k].says] = 1
  <2>1. CASE import.refused \/ removed # {}
    BY <1>1, <2>1 DEF ImportInv
  <2>2. CASE ~(import.refused \/ removed # {})
    BY <1>1, <1>6, <2>2 DEF ImportInv, InAccount, Exported
  <2>3. QED
    BY <2>1, <2>2
<1>9. QED
  BY <1>1, <1>2, <1>4, <1>5, <1>6, <1>7, <1>8 DEF TransferInv, ImportInv

LEMMA ImportLostStep ==
  ASSUME TransferInv, ImportLost
  PROVE  TransferInv'
<1> USE DEF ImportLost, Fault
<1>1. TransferTypeOK /\ Paged /\ NeverSilentlyShort /\ ImportInv /\ import.state = "reading"
  BY DEF TransferInv
<1>2. /\ import' \in [state : {"none", "reading", "answered", "lost"}, todo : Seq(Line),
                      count : [imported : Nat, duplicate : Nat, skipped : Nat], refused : BOOLEAN]
      /\ import'.state = "lost"
  BY <1>1 DEF TransferTypeOK
<1>3. transferFaults' \in Nat
  BY <1>1 DEF TransferTypeOK
<1>4. TransferTypeOK'
  BY <1>1, <1>2, <1>3 DEF TransferTypeOK
<1>5. Paged' /\ NeverSilentlyShort'
  BY <1>1, ExportUntouched
<1>6. Exported' = Exported
  BY DEF Exported
<1>7. Remainder' /\ InAccount' /\ InCounts'
  BY <1>2 DEF Remainder, InAccount, InCounts
<1>8. QED
  BY <1>1, <1>4, <1>5, <1>6, <1>7 DEF TransferInv, ImportInv

\* What the user removes is missing from the account, and is remembered.
LEMMA TargetChangeStep ==
  ASSUME TransferInv, NEW w \in Wording, TargetChange(w)
  PROVE  TransferInv'
<1> USE DEF TargetChange
<1>1. TransferTypeOK /\ Paged /\ NeverSilentlyShort /\ ImportInv
  BY DEF TransferInv
<1>2. /\ target \in [Wording -> Nat] /\ \A v \in Wording : target[v] = 0 \/ target[v] = 1
      /\ file \in Seq(Line)
  BY <1>1 DEF TransferTypeOK, ImportInv
<1>3. /\ target' \in [Wording -> Nat] /\ \A v \in Wording \ {w} : target'[v] = target[v]
      /\ target'[w] = IF target[w] = 0 THEN 1 ELSE 0
  BY <1>2
<1>4. /\ removed \subseteq removed' /\ removed' \subseteq Wording
      /\ target[w] = 1 => w \in removed' /\ done' = <<>>
      /\ target[w] = 0 => done' = done
      /\ transferChanges' \in Nat /\ done' \in Seq(Line)
  BY <1>1, <1>2 DEF TransferTypeOK
<1>5. TransferTypeOK'
  BY <1>1, <1>3, <1>4 DEF TransferTypeOK
<1>6. Paged' /\ NeverSilentlyShort'
  BY <1>1, ExportUntouched
<1>7. Exported' = Exported /\ ReadLines' = ReadLines
  BY DEF Exported, ReadLines
<1>8. Remainder' /\ InCounts'
  BY <1>1, <1>7 DEF Remainder, InCounts, ImportInv
<1>9. ASSUME NEW v \in Wording, target[v] = 1 \/ v \in removed
      PROVE  target'[v] = 1 \/ v \in removed'
  BY <1>2, <1>3, <1>4, <1>9
<1>10. ASSUME NEW k \in DOMAIN file, file[k].is = "memory" PROVE file[k].says \in Wording
  BY <1>2, <1>10, LinesAre
<1>11. ReadLines <= Len(file) /\ DOMAIN file = 1 .. Len(file) /\ ReadLines \in Int /\ Len(file) \in Nat
  <2>1. import.todo \in Seq(Line)
    BY <1>1 DEF TransferTypeOK
  <2>2. Len(import.todo) \in Nat /\ Len(file) \in Nat /\ DOMAIN file = 1 .. Len(file)
    BY <1>2, <2>1
  <2>3. QED
    BY <2>2 DEF ReadLines
<1>12. InAccount'
  <2>1. SUFFICES ASSUME import.state \in {"reading", "answered"}, ~import.refused,
                        NEW k \in 1 .. ReadLines, file[k].is = "memory"
                 PROVE  target'[file[k].says] = 1 \/ file[k].says \in removed'
    BY <1>7 DEF InAccount
  <2>2. target[file[k].says] = 1 \/ file[k].says \in removed
    BY <1>1, <2>1 DEF ImportInv, InAccount
  <2>3. k \in DOMAIN file
    BY <1>11, <2>1
  <2>4. QED
    BY <1>9, <1>10, <2>1, <2>2, <2>3
<1>13. ASSUME done' # <<>>, done' = file, NEW k \in Exported PROVE target'[file[k].says] = 1
  <2>1. done' = done /\ target[w] = 0
    BY <1>2, <1>4, <1>13
  <2>2. target[file[k].says] = 1
    BY <1>1, <1>13, <2>1 DEF ImportInv
  <2>3. file[k].says \in Wording
    BY <1>10, <1>11 DEF Exported
  <2>4. QED
    BY <1>3, <2>1, <2>2, <2>3
<1>14. export.state \notin {"new", "paging"}
  OBVIOUS
<1>15. \A v \in Wording : target'[v] <= 1
  BY <1>2, <1>3
<1>16. ImportInv'
  BY <1>7, <1>8, <1>12, <1>13, <1>14, <1>15 DEF ImportInv
<1>17. QED
  BY <1>5, <1>6, <1>16 DEF TransferInv

-----------------------------------------------------------------------------
(* The theorems *)

LEMMA TransferStarts ==
  ASSUME TransferInit
  PROVE  TransferInv
<1> USE DEF TransferInit
<1>1. /\ export.state \in {"new", "none"} /\ file \in Seq(Line)
      /\ export \in [state : {"new", "none", "paging", "written", "failed"}, scope : {"me", "team"},
                     cursor : {0} \cup RowId]
  <2>1. <<>> \in Seq(Line)
    OBVIOUS
  <2>2. CASE export = [state |-> "new", scope |-> "me", cursor |-> 0] /\ file = <<>>
    BY <2>1, <2>2
  <2>3. CASE export = [state |-> "none", scope |-> "me", cursor |-> 0] /\ file \in ByHand
    BY <2>3, ByHandAssumption
  <2>4. QED
    BY <2>2, <2>3
<1>2. target \in [Wording -> Nat] /\ \A w \in Wording : target[w] <= 1
  <2>1. target \in [Wording -> {0}] \/ target \in [Wording -> {1}]
    OBVIOUS
  <2>2. QED
    BY <2>1
<1>3. /\ import \in [state : {"none", "reading", "answered", "lost"}, todo : Seq(Line),
                     count : [imported : Nat, duplicate : Nat, skipped : Nat], refused : BOOLEAN]
      /\ import.state = "none" /\ done = <<>> /\ done \in Seq(Line)
  BY DEF NoImport, Zero
<1>4. TransferTypeOK
  BY <1>1, <1>2, <1>3, TransferBounds, InitialAssumption DEF TransferTypeOK
<1>5. ImportInv
  BY <1>2, <1>3 DEF ImportInv, Remainder, InAccount, InCounts
<1>6. Paged /\ NeverSilentlyShort
  BY <1>1 DEF Paged, NeverSilentlyShort
<1>7. QED
  BY <1>4, <1>5, <1>6 DEF TransferInv

LEMMA TransferStutters ==
  ASSUME TransferInv, UNCHANGED transferVars
  PROVE  TransferInv'
<1>1. UNCHANGED <<source, export, file, target, import, imports, transferChanges,
                  transferFaults, steady, removed, done>>
  BY DEF transferVars
<1>2. Paged' /\ NeverSilentlyShort'
  BY <1>1, ExportUntouched DEF TransferInv
<1>3. TransferTypeOK'
  BY <1>1 DEF TransferInv, TransferTypeOK
<1>4. ImportInv'
  BY <1>1 DEF TransferInv, ImportInv, Remainder, InAccount, InCounts, ReadLines, Exported
<1>5. QED
  BY <1>2, <1>3, <1>4 DEF TransferInv

LEMMA TransferInvHolds == TransferSpec => []TransferInv
<1>1. ASSUME TransferInv, [TransferNext]_transferVars
      PROVE  TransferInv'
  <2>1. CASE \E scope \in {"me", "team"} : ExportStart(scope)
    BY <1>1, <2>1, ExportStartStep
  <2>2. CASE \E i \in RowId, row \in SourceRow : SourceChange(i, row)
    BY <1>1, <2>2, SourceChangeStep
  <2>3. CASE \E w \in Wording : TargetChange(w)
    BY <1>1, <2>3, TargetChangeStep
  <2>4. CASE UNCHANGED transferVars
    BY <1>1, <2>4, TransferStutters
  <2>5. QED
    BY <1>1, <2>1, <2>2, <2>3, <2>4, ExportPageStep, ExportFailsStep, ExportLostStep, ImportStartStep,
       ImportOtherStep, ImportMemoryStep, ImportRefusedStep, ImportEndStep, ImportLostStep DEF TransferNext
<1>2. QED
  BY <1>1, TransferStarts, PTL DEF TransferSpec

\* Every row, line and count is one the code can have.
THEOREM TransferTypeCorrect == TransferSpec => []TransferTypeOK
<1>1. TransferInv => TransferTypeOK
  BY DEF TransferInv
<1>2. QED
  BY <1>1, TransferInvHolds, PTL

\* Whatever a team does between the pages, and however many pages there are, an
\* export that is reported as done has what was to be exported all the while,
\* once, or ends with an error record; an answered import that refused nothing
\* has left the file in the account, and has counted what the dry run counts.
THEOREM TransfersAreSound == TransferSpec => []TransferSound
<1>1. ASSUME TransferInv PROVE ImportLands
  <2>1. import.state = "answered" => ReadLines = Len(file)
    <3>1. import.state = "answered" => import.todo = <<>>
      BY <1>1 DEF TransferInv, ImportInv, Remainder
    <3>2. Len(file) \in Nat /\ Len(<<>>) = 0
      BY <1>1 DEF TransferInv, TransferTypeOK
    <3>3. QED
      BY <3>1, <3>2 DEF ReadLines
  <2>2. QED
    BY <1>1, <2>1 DEF TransferInv, ImportInv, InAccount, ImportLands, Exported
<1>2. ASSUME TransferInv PROVE DryRunHolds
  <2>1. SUFFICES ASSUME import.state = "answered" PROVE DryRunHolds
    BY DEF DryRunHolds
  <2>2. import.todo = <<>> /\ file \in Seq(Line) /\ import.count \in [imported : Nat, duplicate : Nat, skipped : Nat]
    BY <1>2, <2>1 DEF TransferInv, ImportInv, Remainder, TransferTypeOK
  <2>3. ReadLines = Len(file) /\ DOMAIN file = 1 .. Len(file) /\ Len(file) \in Nat
    BY <2>2 DEF ReadLines
  <2>4. PICK p : p = ImportPreview(file)
    OBVIOUS
  <2>5. p.records = HowMany(file, ReadLines, Records) /\ p.memories = HowMany(file, ReadLines, Memories)
    BY <2>3, <2>4 DEF ImportPreview, HowMany, Records, Memories
  <2>6. p.memories \in Nat
    BY <2>3, <2>5, OneMore
  <2>7. LET c == import.count
        IN  /\ c.imported + c.duplicate + c.skipped = p.records
            /\ c.imported + c.duplicate <= p.memories
            /\ ~import.refused => c.imported + c.duplicate = p.memories
    BY <1>2, <2>1, <2>5 DEF TransferInv, ImportInv, InCounts
  <2>8. QED
    BY <2>2, <2>4, <2>6, <2>7 DEF DryRunHolds
<1>3. TransferInv => TransferSound
  BY <1>1, <1>2 DEF TransferSound, ImportSound, TransferInv
<1>4. QED
  BY <1>3, TransferInvHolds, PTL

-----------------------------------------------------------------------------
(***************************************************************************)
(* Transcripts: any histories, batches, failures and interruptions         *)
(***************************************************************************)

-----------------------------------------------------------------------------
(* What the files hold, and the sessions made of them *)

Path == 1 .. Len(history)
Project == Existing \cup {"own", NoDir}
Observation == [kind : {"prompt", "response", "summary", "note"}, says : STRING]

\* The observations of each file, and what a scan may return.
Transcript == [p \in Path |-> ParseJSONL(p).observations]
Scan == {ParseJSONL(p) : p \in {q \in Path : ~Unreadable(q) /\ ParseJSONL(q).observations # <<>>}}

ImportedSession == [of : Path, project : Project, stored : Seq(Observation), ended : BOOLEAN]
ImportRun == [state : {"none", "next", "fill", "close"}, todo : Seq(Scan), sent : Nat, session : Nat,
              cancelled : BOOLEAN, scanned : Seq(Scan), clean : BOOLEAN, before : Nat]

TranscriptsTypeOK ==
  /\ history \in Histories
  /\ run \in ImportRun
  /\ sessions \in Seq(ImportedSession)
  /\ runs \in Nat /\ importFaults \in Nat
  /\ said \subseteq Nat
  /\ finished \subseteq Seq(Scan) \X Nat

-----------------------------------------------------------------------------
(* The inductive invariant *)

Whole(s) == s.ended /\ s.stored = Transcript[s.of]
Begun(s) == \E n \in 0 .. Len(Transcript[s.of]) : s.stored = SubSeq(Transcript[s.of], 1, n)

\* Every session has a beginning, and all of it unless it is the one being worked
\* on or an error was printed about it.
Beginnings ==
  \A i \in 1 .. Len(sessions) :
    Begun(sessions[i]) /\ (Whole(sessions[i]) \/ i = run.session \/ i \in said)

\* The session being worked on was opened by this run for the transcript at the
\* head of its list, holds what the run has sent, and is not closed.
AtWork ==
  /\ run.state \in {"none", "next"} => run.session = 0
  /\ run.state \in {"fill", "close"} =>
       /\ run.session \in run.before + 1 .. Len(sessions) /\ run.todo # <<>>
       /\ sessions[run.session].of = Head(run.todo).of
       /\ sessions[run.session].project = Head(run.todo).project
       /\ ~sessions[run.session].ended
  /\ run.state = "fill" =>
       /\ run.sent < Len(Transcript[Head(run.todo).of])
       /\ sessions[run.session].stored = SubSeq(Transcript[Head(run.todo).of], 1, run.sent)
  /\ run.state = "close" =>
       \/ sessions[run.session].stored = Transcript[Head(run.todo).of]
       \/ run.session \in said /\ ~run.clean

\* The whole sessions, by their numbers; and those a run has made of what it has
\* behind it, as long as nothing failed.
Standing ==
  {<<i, sessions[i].of, sessions[i].project>> : i \in {j \in 1 .. Len(sessions) : Whole(sessions[j])}}
Stands(x, since) == \E i \in since + 1 .. Len(sessions) : <<i, x.of, x.project>> \in Standing

Behind == Len(run.scanned) - Len(run.todo)
Course ==
  /\ run.before <= Len(sessions)
  /\ Len(run.todo) <= Len(run.scanned)
  /\ \A k \in 1 .. Len(run.todo) : run.todo[k] = run.scanned[Behind + k]
  /\ run.clean => ~run.cancelled /\ \A k \in 1 .. Behind : Stands(run.scanned[k], run.before)

FinishedRuns == \A f \in finished : \A k \in 1 .. Len(f[1]) : Stands(f[1][k], f[2])

TranscriptsInv == TranscriptsTypeOK /\ Beginnings /\ AtWork /\ Course /\ FinishedRuns

-----------------------------------------------------------------------------
(* Scanning *)

LEMMA ProjectKnown ==
  ASSUME NEW entries
  PROVE  ResolveProject(entries) \in Project
BY DEF ResolveProject, Project

LEMMA SaidKnown ==
  ASSUME NEW l \in [is : {"entry"}, outer : Saying, inner : Saying]
  PROVE  Flattened(l) \in Saying
<1>1. l.outer \in Saying /\ l.inner \in Saying
  OBVIOUS
<1> QED BY <1>1 DEF Flattened, Saying

LEMMA RenderedKnown ==
  ASSUME NEW e \in Saying
  PROVE  RenderEntry(e) \in Observation
<1>1. e.says \in STRING
  BY DEF Saying
<1> QED BY <1>1 DEF RenderEntry, Observation

LEMMA Parsed ==
  ASSUME history \in Histories, NEW p \in Path
  PROVE  /\ ParseJSONL(p).of = p /\ ParseJSONL(p).project \in Project
         /\ ParseJSONL(p).observations \in Seq(Observation)
<1> DEFINE lines == Without(history[p], {BrokenLine, LongLine})
           entries == [i \in 1 .. Len(lines) |-> Flattened(lines[i])]
           mute == {e \in ToSet(entries) : e.says = ""}
           spoken == Without(entries, mute)
<1>1. history[p] \in Seq(TranscriptLine)
  <2>1. history \in Seq(Seq(TranscriptLine))
    BY HistoriesAssumption
  <2> QED BY <2>1 DEF Path
<1>2. /\ lines \in Seq(TranscriptLine)
      /\ ToSet(lines) = ToSet(history[p]) \ {BrokenLine, LongLine}
  BY <1>1, WithoutMembers
<1> HIDE DEF lines
<1>3. ASSUME NEW i \in 1 .. Len(lines) PROVE Flattened(lines[i]) \in Saying
  <2>1. lines[i] \in TranscriptLine /\ lines[i] \in ToSet(lines)
    BY <1>2, <1>3 DEF ToSet
  <2>2. lines[i] \in [is : {"entry"}, outer : Saying, inner : Saying]
    BY <2>1, <1>2 DEF TranscriptLine
  <2> QED BY <2>2, SaidKnown
<1>4. entries \in Seq(Saying)
  BY <1>2, <1>3
<1>5. spoken \in Seq(Saying)
  <2> HIDE DEF entries, mute
  <2> QED BY <1>4, WithoutMembers
<1>6. [i \in 1 .. Len(spoken) |-> RenderEntry(spoken[i])] \in Seq(Observation)
  <2> HIDE DEF spoken
  <2>1. ASSUME NEW i \in 1 .. Len(spoken) PROVE RenderEntry(spoken[i]) \in Observation
    <3>1. spoken[i] \in Saying
      BY <1>5, <2>1
    <3> QED BY <3>1, RenderedKnown
  <2> QED BY <1>5, <2>1
<1>7. ParseJSONL(p) = [of |-> p, project |-> ResolveProject(entries),
                       observations |-> [i \in 1 .. Len(spoken) |-> RenderEntry(spoken[i])]]
  BY DEF ParseJSONL, lines
<1> HIDE DEF entries, spoken
<1> QED BY <1>6, <1>7, ProjectKnown

LEMMA ScanIs ==
  ASSUME history \in Histories, NEW x \in Scan
  PROVE  /\ x.of \in Path /\ x.project \in Project /\ x.observations = Transcript[x.of]
         /\ ~Unreadable(x.of)
         /\ Transcript[x.of] \in Seq(Observation) /\ Len(Transcript[x.of]) \in Nat \ {0}
<1>1. PICK p \in Path : x = ParseJSONL(p) /\ ~Unreadable(p) /\ ParseJSONL(p).observations # <<>>
  BY DEF Scan
<1>2. x.of = p /\ x.project \in Project /\ x.observations \in Seq(Observation)
  BY <1>1, Parsed
<1>3. Transcript[p] = x.observations
  BY <1>1 DEF Transcript
<1> QED BY <1>1, <1>2, <1>3

LEMMA TranscriptTyped ==
  ASSUME history \in Histories, NEW p \in Path
  PROVE  Transcript[p] \in Seq(Observation) /\ Len(Transcript[p]) \in Nat
<1>1. Transcript[p] \in Seq(Observation)
  BY Parsed DEF Transcript
<1> QED BY <1>1

LEMMA Scanned ==
  ASSUME history \in Histories
  PROVE  ScanJSONL \in Seq(Scan)
<1> DEFINE paths == 1 .. Len(history)
           all == [p \in paths |-> p]
           skipped == {p \in paths : Unreadable(p) \/ ParseJSONL(p).observations = <<>>}
           kept == Without(all, skipped)
<1>1. all \in Seq(Path)
  <2>1. Len(history) \in Nat
    BY HistoriesAssumption
  <2> QED BY <2>1 DEF Path
<1>2. kept \in Seq(Path) /\ ToSet(kept) = ToSet(all) \ skipped
  <2> HIDE DEF all, skipped
  <2> QED BY <1>1, WithoutMembers
<1>3. ASSUME NEW i \in 1 .. Len(kept) PROVE ParseJSONL(kept[i]) \in Scan
  <2>1. kept[i] \in Path /\ kept[i] \in ToSet(kept)
    <3> HIDE DEF kept
    <3> QED BY <1>2, <1>3 DEF ToSet
  <2>2. kept[i] \notin skipped
    BY <1>2, <2>1
  <2> HIDE DEF kept
  <2>3. ~Unreadable(kept[i]) /\ ParseJSONL(kept[i]).observations # <<>>
    BY <2>1, <2>2 DEF Path
  <2> QED BY <2>1, <2>3 DEF Scan
<1>4. ScanJSONL = [i \in 1 .. Len(kept) |-> ParseJSONL(kept[i])]
  BY DEF ScanJSONL
<1> HIDE DEF kept
<1> QED BY <1>2, <1>3, <1>4

LEMMA HistoryStays ==
  ASSUME UNCHANGED history
  PROVE  /\ Path' = Path /\ Transcript' = Transcript /\ Scan' = Scan
         /\ ImportedSession' = ImportedSession /\ ImportRun' = ImportRun
<1>1. Path' = Path
  BY DEF Path
<1>2. Transcript' = Transcript /\ Scan' = Scan
  BY <1>1 DEF Transcript, Scan, ParseJSONL, Unreadable
<1> QED BY <1>1, <1>2 DEF ImportedSession, ImportRun

-----------------------------------------------------------------------------
(* Sessions that grow and are closed *)

LEMMA BeginningGrows ==
  ASSUME NEW S, NEW all \in Seq(S), NEW n \in Nat, NEW m \in Nat, n <= m, m <= Len(all)
  PROVE  /\ SubSeq(all, 1, n) \o SubSeq(all, n + 1, m) = SubSeq(all, 1, m)
         /\ SubSeq(all, n + 1, m) \in Seq(S) /\ Len(SubSeq(all, n + 1, m)) = m - n
<1>1. /\ SubSeq(all, 1, n) \in Seq(S) /\ Len(SubSeq(all, 1, n)) = n
      /\ SubSeq(all, n + 1, m) \in Seq(S) /\ Len(SubSeq(all, n + 1, m)) = m - n
      /\ SubSeq(all, 1, m) \in Seq(S) /\ Len(SubSeq(all, 1, m)) = m
      /\ \A i \in 1 .. n : SubSeq(all, 1, n)[i] = all[i]
      /\ \A i \in 1 .. m - n : SubSeq(all, n + 1, m)[i] = all[n + i]
      /\ \A i \in 1 .. m : SubSeq(all, 1, m)[i] = all[i]
  OBVIOUS
<1> DEFINE both == SubSeq(all, 1, n) \o SubSeq(all, n + 1, m)
<1>2. /\ both \in Seq(S) /\ Len(both) = m
      /\ \A i \in 1 .. n : both[i] = all[i]
      /\ \A i \in n + 1 .. m : both[i] = SubSeq(all, n + 1, m)[i - n]
  BY <1>1
<1>3. \A i \in 1 .. m : both[i] = all[i]
  <2> SUFFICES ASSUME NEW i \in n + 1 .. m PROVE both[i] = all[i]
    BY <1>2
  <2>1. i - n \in 1 .. m - n /\ n + (i - n) = i
    OBVIOUS
  <2> QED BY <1>1, <1>2, <2>1
<1> HIDE DEF both
<1>4. both = SubSeq(all, 1, m)
  BY <1>1, <1>2, <1>3
<1> QED BY <1>1, <1>4 DEF both

LEMMA WholeBeginning ==
  ASSUME NEW S, NEW all \in Seq(S)
  PROVE  SubSeq(all, 1, Len(all)) = all /\ SubSeq(all, 1, 0) = <<>> /\ Len(all) \in Nat
OBVIOUS

LEMMA RunTyped ==
  ASSUME TranscriptsTypeOK
  PROVE  /\ run.state \in {"none", "next", "fill", "close"} /\ run.todo \in Seq(Scan)
         /\ run.sent \in Nat /\ run.session \in Nat /\ run.cancelled \in BOOLEAN
         /\ run.scanned \in Seq(Scan) /\ run.clean \in BOOLEAN /\ run.before \in Nat
         /\ Len(sessions) \in Nat /\ Len(run.todo) \in Nat /\ Len(run.scanned) \in Nat
         /\ DOMAIN sessions = 1 .. Len(sessions)
<1>1. /\ run.state \in {"none", "next", "fill", "close"} /\ run.todo \in Seq(Scan)
      /\ run.sent \in Nat /\ run.session \in Nat /\ run.cancelled \in BOOLEAN
      /\ run.scanned \in Seq(Scan) /\ run.clean \in BOOLEAN /\ run.before \in Nat
  BY DEF TranscriptsTypeOK, ImportRun
<1>2. sessions \in Seq(ImportedSession)
  BY DEF TranscriptsTypeOK
<1> QED BY <1>1, <1>2

LEMMA AtHead ==
  ASSUME TranscriptsInv, run.todo # <<>>
  PROVE  /\ Head(run.todo) \in Scan /\ Head(run.todo).of \in Path /\ Head(run.todo).project \in Project
         /\ Head(run.todo).observations = Transcript[Head(run.todo).of]
         /\ Transcript[Head(run.todo).of] \in Seq(Observation)
         /\ Len(Transcript[Head(run.todo).of]) \in Nat \ {0}
         /\ Tail(run.todo) \in Seq(Scan) /\ Len(Tail(run.todo)) = Len(run.todo) - 1
         /\ Head(run.todo) = run.todo[1] /\ Len(run.todo) >= 1
         /\ \A k \in 1 .. Len(run.todo) - 1 : Tail(run.todo)[k] = run.todo[k + 1]
<1>1. run.todo \in Seq(Scan) /\ history \in Histories
  BY RunTyped DEF TranscriptsInv, TranscriptsTypeOK
<1>2. Head(run.todo) \in Scan
  BY <1>1
<1>3. /\ Tail(run.todo) \in Seq(Scan) /\ Len(Tail(run.todo)) = Len(run.todo) - 1
      /\ Head(run.todo) = run.todo[1] /\ Len(run.todo) >= 1
      /\ \A k \in 1 .. Len(run.todo) - 1 : Tail(run.todo)[k] = run.todo[k + 1]
  BY <1>1
<1> QED BY <1>1, <1>2, <1>3, ScanIs

\* What stands goes on standing while sessions are added and others worked on.
LEMMA StandingKept ==
  ASSUME UNCHANGED history, Len(sessions) \in Nat, Len(sessions') \in Nat, Len(sessions) <= Len(sessions'),
         \A i \in 1 .. Len(sessions) : Whole(sessions[i]) => sessions'[i] = sessions[i]
  PROVE  Standing \subseteq Standing'
<1>1. Transcript' = Transcript
  BY HistoryStays
<1>2. ASSUME NEW i \in 1 .. Len(sessions), Whole(sessions[i])
      PROVE  <<i, sessions[i].of, sessions[i].project>> \in Standing'
  <2>1. i \in 1 .. Len(sessions') /\ sessions'[i] = sessions[i]
    BY <1>2
  <2>2. Whole(sessions[i])'
    BY <1>1, <1>2, <2>1 DEF Whole
  <2> QED BY <2>1, <2>2 DEF Standing
<1> QED BY <1>2 DEF Standing

LEMMA PastKept ==
  ASSUME TranscriptsInv, UNCHANGED finished, Standing \subseteq Standing',
         Len(sessions') \in Nat, Len(sessions) <= Len(sessions')
  PROVE  FinishedRuns'
<1>1. ASSUME NEW f \in finished, NEW k \in 1 .. Len(f[1])
      PROVE  \E i \in f[2] + 1 .. Len(sessions') : <<i, f[1][k].of, f[1][k].project>> \in Standing'
  <2>1. PICK i \in f[2] + 1 .. Len(sessions) : <<i, f[1][k].of, f[1][k].project>> \in Standing
    BY <1>1 DEF TranscriptsInv, FinishedRuns, Stands
  <2>2. f[2] \in Nat /\ Len(sessions) \in Nat
    BY RunTyped DEF TranscriptsInv, TranscriptsTypeOK
  <2>3. i \in f[2] + 1 .. Len(sessions')
    BY <2>1, <2>2
  <2>4. <<i, f[1][k].of, f[1][k].project>> \in Standing'
    BY <2>1
  <2> QED BY <2>3, <2>4
<1> QED BY <1>1 DEF FinishedRuns, Stands

LEMMA CourseKept ==
  ASSUME TranscriptsInv, Standing \subseteq Standing', Len(sessions') \in Nat, Len(sessions) <= Len(sessions'),
         run'.scanned = run.scanned, run'.todo = run.todo, run'.before = run.before,
         run'.clean => run.clean /\ run'.cancelled = run.cancelled
  PROVE  Course'
<1>1. /\ Len(sessions) \in Nat /\ Len(run.todo) \in Nat /\ Len(run.scanned) \in Nat /\ run.before \in Nat
  BY RunTyped DEF TranscriptsInv
<1>2. Course /\ Behind' = Behind
  BY DEF TranscriptsInv, Behind
<1>3. ASSUME run'.clean, NEW k \in 1 .. Behind PROVE Stands(run.scanned[k], run.before)'
  <2>1. PICK i \in run.before + 1 .. Len(sessions) : <<i, run.scanned[k].of, run.scanned[k].project>> \in Standing
    BY <1>2, <1>3 DEF Course, Stands
  <2>2. i \in run'.before + 1 .. Len(sessions')
    BY <1>1, <2>1
  <2>3. <<i, run'.scanned[k].of, run'.scanned[k].project>> \in Standing'
    BY <2>1
  <2> QED BY <2>2, <2>3 DEF Stands
<1>4. run'.before <= Len(sessions')
  BY <1>1, <1>2 DEF Course
<1> QED BY <1>2, <1>3, <1>4 DEF Course

LEMMA CourseMoves ==
  ASSUME TranscriptsInv, Standing \subseteq Standing', Len(sessions') \in Nat, Len(sessions) <= Len(sessions'),
         run.todo # <<>>, run'.scanned = run.scanned, run'.todo = Tail(run.todo), run'.before = run.before,
         run'.clean => /\ run.clean /\ run'.cancelled = run.cancelled
                       /\ \E i \in run.before + 1 .. Len(sessions') :
                            <<i, Head(run.todo).of, Head(run.todo).project>> \in Standing'
  PROVE  Course'
<1>1. /\ Len(sessions) \in Nat /\ Len(run.todo) \in Nat /\ Len(run.scanned) \in Nat /\ run.before \in Nat
  BY RunTyped DEF TranscriptsInv
<1>2. /\ Len(run'.todo) = Len(run.todo) - 1 /\ Len(run.todo) >= 1 /\ Head(run.todo) = run.todo[1]
      /\ \A k \in 1 .. Len(run.todo) - 1 : run'.todo[k] = run.todo[k + 1]
  BY AtHead
<1>3. Course /\ Behind \in Nat /\ Behind' = Behind + 1
  <2>1. Len(run.todo) <= Len(run.scanned) /\ Course
    BY DEF TranscriptsInv, Course
  <2>2. Len(run'.scanned) = Len(run.scanned)
    OBVIOUS
  <2>3. Behind = Len(run.scanned) - Len(run.todo) /\ Behind' = Len(run.scanned) - (Len(run.todo) - 1)
    BY <1>2, <2>2 DEF Behind
  <2>4. \A m, n \in Nat : n <= m => m - n \in Nat /\ m - (n - 1) = (m - n) + 1
    OBVIOUS
  <2> QED BY <1>1, <2>1, <2>3, <2>4
<1>4. ASSUME NEW k \in 1 .. Len(run'.todo) PROVE run'.todo[k] = run'.scanned[Behind' + k]
  <2>1. k + 1 \in 1 .. Len(run.todo) /\ Behind' + k = Behind + (k + 1)
    BY <1>1, <1>2, <1>3
  <2>2. run.todo[k + 1] = run.scanned[Behind + (k + 1)]
    BY <1>3, <2>1 DEF Course
  <2> QED BY <1>1, <1>2, <2>1, <2>2
<1>5. ASSUME run'.clean, NEW k \in 1 .. Behind' PROVE Stands(run.scanned[k], run.before)'
  <2>1. CASE k = Behind + 1
    <3>1. run.scanned[k] = Head(run.todo)
      BY <1>1, <1>2, <1>3, <2>1 DEF Course
    <3> QED BY <1>5, <3>1 DEF Stands
  <2>2. CASE k # Behind + 1
    <3>1. k \in 1 .. Behind
      BY <1>3, <2>2
    <3>2. PICK i \in run.before + 1 .. Len(sessions) : <<i, run.scanned[k].of, run.scanned[k].project>> \in Standing
      BY <1>3, <1>5, <3>1 DEF Course, Stands
    <3>3. i \in run'.before + 1 .. Len(sessions')
      BY <1>1, <3>2
    <3>4. <<i, run'.scanned[k].of, run'.scanned[k].project>> \in Standing'
      BY <3>2
    <3> QED BY <3>3, <3>4 DEF Stands
  <2> QED BY <2>1, <2>2
<1>6. run'.before <= Len(sessions') /\ Len(run'.todo) <= Len(run'.scanned)
  BY <1>1, <1>2, <1>3 DEF Course
<1>7. run'.clean => ~run'.cancelled
  BY <1>3 DEF Course
<1> QED BY <1>4, <1>5, <1>6, <1>7 DEF Course

-----------------------------------------------------------------------------
(* The steps *)

\* A step that works on the session at hand, and may print an error about it.
LEMMA Worked ==
  ASSUME TranscriptsInv, UNCHANGED history, run.state \in {"fill", "close"},
         sessions' \in Seq(ImportedSession), Len(sessions') = Len(sessions),
         \A i \in 1 .. Len(sessions) : i # run.session => sessions'[i] = sessions[i],
         said \subseteq said',
         sessions'[run.session].of = sessions[run.session].of,
         \E n \in 0 .. Len(Transcript[sessions[run.session].of]) :
           sessions'[run.session].stored = SubSeq(Transcript[sessions[run.session].of], 1, n),
         \/ /\ sessions'[run.session].ended
            /\ sessions'[run.session].stored = Transcript[sessions[run.session].of]
         \/ run'.session = run.session
         \/ run.session \in said'
  PROVE  Standing \subseteq Standing' /\ Beginnings'
<1>1. Transcript' = Transcript
  BY HistoryStays
<1>2. Len(sessions) \in Nat /\ run.session \in 1 .. Len(sessions) /\ ~sessions[run.session].ended
  <2>1. run.session \in run.before + 1 .. Len(sessions) /\ ~sessions[run.session].ended
    BY DEF TranscriptsInv, AtWork
  <2> QED BY <2>1, RunTyped DEF TranscriptsInv
<1>3. \A i \in 1 .. Len(sessions) : Whole(sessions[i]) => sessions'[i] = sessions[i]
  BY <1>2 DEF Whole
<1>4. Standing \subseteq Standing'
  BY <1>2, <1>3, StandingKept
<1>5. ASSUME NEW i \in 1 .. Len(sessions')
      PROVE  (Begun(sessions[i]) /\ (Whole(sessions[i]) \/ i = run.session \/ i \in said))'
  <2>1. CASE i = run.session
    <3>1. Begun(sessions[i])'
      BY <1>1, <2>1 DEF Begun
    <3>2. (Whole(sessions[i]) \/ i = run.session \/ i \in said)'
      BY <1>1, <2>1 DEF Whole
    <3> QED BY <3>1, <3>2
  <2>2. CASE i # run.session
    <3>1. Begun(sessions[i]) /\ (Whole(sessions[i]) \/ i \in said) /\ sessions'[i] = sessions[i]
      BY <1>5, <2>2 DEF TranscriptsInv, Beginnings
    <3>2. Begun(sessions[i])'
      BY <1>1, <3>1 DEF Begun
    <3>3. (Whole(sessions[i]) \/ i \in said)'
      BY <1>1, <3>1 DEF Whole
    <3> QED BY <3>2, <3>3
  <2> QED BY <2>1, <2>2
<1>6. Beginnings'
  BY <1>5 DEF Beginnings
<1> QED BY <1>4, <1>6

\* What a session at work on has of its transcript.
LEMMA AtHand ==
  ASSUME TranscriptsInv, run.state \in {"fill", "close"}
  PROVE  /\ run.session \in 1 .. Len(sessions) /\ run.before < run.session /\ run.todo # <<>>
         /\ sessions[run.session] \in ImportedSession /\ ~sessions[run.session].ended
         /\ sessions[run.session].of = Head(run.todo).of
         /\ sessions[run.session].project = Head(run.todo).project
         /\ \E n \in 0 .. Len(Transcript[sessions[run.session].of]) :
              sessions[run.session].stored = SubSeq(Transcript[sessions[run.session].of], 1, n)
<1>1. /\ run.session \in run.before + 1 .. Len(sessions) /\ ~sessions[run.session].ended
      /\ sessions[run.session].of = Head(run.todo).of /\ run.todo # <<>>
      /\ sessions[run.session].project = Head(run.todo).project
  BY DEF TranscriptsInv, AtWork
<1>2. run.session \in 1 .. Len(sessions) /\ run.before < run.session
  BY <1>1, RunTyped DEF TranscriptsInv
<1>3. sessions[run.session] \in ImportedSession
  BY <1>2 DEF TranscriptsInv, TranscriptsTypeOK
<1> QED BY <1>1, <1>2, <1>3 DEF TranscriptsInv, Beginnings, Begun

\* A session added to the others.
LEMMA Opened ==
  ASSUME TranscriptsInv, UNCHANGED history, run.todo # <<>>, sessions' = Append(sessions, NewSession)
  PROVE  /\ sessions' \in Seq(ImportedSession) /\ Len(sessions') = Len(sessions) + 1
         /\ \A i \in 1 .. Len(sessions) : sessions'[i] = sessions[i]
         /\ sessions'[Len(sessions) + 1] = NewSession
         /\ NewSession.stored = SubSeq(Transcript[Head(run.todo).of], 1, 0)
         /\ Standing \subseteq Standing'
<1>1. sessions \in Seq(ImportedSession) /\ Len(sessions) \in Nat
  BY DEF TranscriptsInv, TranscriptsTypeOK
<1>2. NewSession \in ImportedSession
  BY AtHead DEF NewSession, ImportedSession
<1>3. /\ sessions' \in Seq(ImportedSession) /\ Len(sessions') = Len(sessions) + 1
      /\ \A i \in 1 .. Len(sessions) : sessions'[i] = sessions[i]
      /\ sessions'[Len(sessions) + 1] = NewSession
  BY <1>1, <1>2
<1>4. NewSession.stored = SubSeq(Transcript[Head(run.todo).of], 1, 0)
  BY AtHead, WholeBeginning DEF NewSession
<1>5. Standing \subseteq Standing'
  BY <1>1, <1>3, StandingKept
<1> QED BY <1>3, <1>4, <1>5

LEMMA OpenedBeginnings ==
  ASSUME TranscriptsInv, UNCHANGED history, run.todo # <<>>, sessions' = Append(sessions, NewSession),
         run.session = 0, said \subseteq said',
         run'.session = Len(sessions) + 1 \/ Len(sessions) + 1 \in said'
  PROVE  Beginnings'
<1>1. /\ Len(sessions') = Len(sessions) + 1 /\ Len(sessions) \in Nat
      /\ \A i \in 1 .. Len(sessions) : sessions'[i] = sessions[i]
      /\ sessions'[Len(sessions) + 1] = NewSession
      /\ NewSession.stored = SubSeq(Transcript[Head(run.todo).of], 1, 0)
  BY Opened, RunTyped DEF TranscriptsInv
<1>2. Transcript' = Transcript
  BY HistoryStays
<1>3. ASSUME NEW i \in 1 .. Len(sessions')
      PROVE  (Begun(sessions[i]) /\ (Whole(sessions[i]) \/ i = run.session \/ i \in said))'
  <2>1. CASE i = Len(sessions) + 1
    <3>1. NewSession.of = Head(run.todo).of /\ Len(Transcript[Head(run.todo).of]) \in Nat
      BY AtHead DEF NewSession
    <3>a. /\ 0 \in 0 .. Len(Transcript[sessions'[i].of])
          /\ sessions'[i].stored = SubSeq(Transcript[sessions'[i].of], 1, 0)
      BY <1>1, <2>1, <3>1
    <3>2. Begun(sessions[i])'
      BY <1>2, <3>a DEF Begun
    <3> QED BY <2>1, <3>2
  <2>2. CASE i # Len(sessions) + 1
    <3>1. i \in 1 .. Len(sessions) /\ sessions'[i] = sessions[i] /\ i # run.session
      BY <1>1, <2>2
    <3>2. Begun(sessions[i]) /\ (Whole(sessions[i]) \/ i \in said)
      BY <3>1 DEF TranscriptsInv, Beginnings
    <3>3. Begun(sessions[i])'
      BY <1>2, <3>1, <3>2 DEF Begun
    <3>4. (Whole(sessions[i]) \/ i \in said)'
      BY <1>2, <3>1, <3>2 DEF Whole
    <3> QED BY <3>3, <3>4
  <2> QED BY <2>1, <2>2
<1> QED BY <1>3 DEF Beginnings

\* No session is touched.
LEMMA BeginningsKept ==
  ASSUME TranscriptsInv, UNCHANGED <<history, sessions>>, said \subseteq said',
         run'.session = run.session \/ run.session = 0 \/ run.session \in said'
  PROVE  Beginnings' /\ Standing' = Standing
<1>1. Transcript' = Transcript
  BY HistoryStays
<1>2. ASSUME NEW i \in 1 .. Len(sessions)
      PROVE  (Begun(sessions[i]) /\ (Whole(sessions[i]) \/ i = run.session \/ i \in said))'
  <2>1. Begun(sessions[i]) /\ (Whole(sessions[i]) \/ i = run.session \/ i \in said)
    BY <1>2 DEF TranscriptsInv, Beginnings
  <2>2. Begun(sessions[i])'
    BY <1>1, <2>1 DEF Begun
  <2>3. (Whole(sessions[i]) \/ i = run.session \/ i \in said)'
    BY <1>1, <2>1 DEF Whole
  <2> QED BY <2>2, <2>3
<1>3. Standing' = Standing
  BY <1>1 DEF Standing, Whole
<1> QED BY <1>2, <1>3 DEF Beginnings

LEMMA InterruptStep ==
  ASSUME TranscriptsInv, Interrupt
  PROVE  TranscriptsInv'
<1>1. /\ run' = [run EXCEPT !.cancelled = TRUE, !.clean = FALSE]
      /\ UNCHANGED <<history, sessions, runs, importFaults, said, finished>>
  BY DEF Interrupt
<1>2. /\ run'.state = run.state /\ run'.todo = run.todo /\ run'.sent = run.sent /\ run'.session = run.session
      /\ run'.scanned = run.scanned /\ run'.before = run.before /\ run'.clean = FALSE /\ run' \in ImportRun
  BY <1>1 DEF TranscriptsInv, TranscriptsTypeOK, ImportRun
<1>3. TranscriptsTypeOK'
  BY <1>1, <1>2, HistoryStays DEF TranscriptsInv, TranscriptsTypeOK
<1>4. Beginnings' /\ Standing' = Standing
  BY <1>1, <1>2, BeginningsKept
<1>5. AtWork'
  <2>1. Transcript' = Transcript
    BY <1>1, HistoryStays
  <2> QED BY <1>1, <1>2, <2>1 DEF TranscriptsInv, AtWork
<1>6. Course' /\ FinishedRuns'
  BY <1>1, <1>2, <1>4, RunTyped, CourseKept, PastKept DEF TranscriptsInv
<1> QED BY <1>3, <1>4, <1>5, <1>6 DEF TranscriptsInv

LEMMA ImportStarts ==
  ASSUME TranscriptsInv, NEW limit \in 1 .. Len(ScanJSONL), ImportTranscripts(limit)
  PROVE  TranscriptsInv'
<1> DEFINE scanned == SubSeq(ScanJSONL, 1, limit)
<1>1. /\ run.state = "none" /\ runs > 0 /\ runs' = runs - 1
      /\ run' = [NoRun EXCEPT !.state = "next", !.todo = scanned, !.scanned = scanned, !.before = Len(sessions)]
      /\ UNCHANGED <<history, sessions, importFaults, said, finished>>
  BY DEF ImportTranscripts
<1>2. scanned \in Seq(Scan) /\ Len(sessions) \in Nat
  <2>1. ScanJSONL \in Seq(Scan) /\ limit \in 1 .. Len(ScanJSONL)
    BY Scanned DEF TranscriptsInv, TranscriptsTypeOK
  <2> QED BY <2>1, RunTyped DEF TranscriptsInv
<1> HIDE DEF scanned
<1>3. run' = [state |-> "next", todo |-> scanned, sent |-> 0, session |-> 0, cancelled |-> FALSE,
              scanned |-> scanned, clean |-> TRUE, before |-> Len(sessions)]
  BY <1>1 DEF NoRun
<1>4. TranscriptsTypeOK'
  <2>1. run' \in ImportRun
    BY <1>2, <1>3 DEF ImportRun
  <2>2. runs' \in Nat
    BY <1>1 DEF TranscriptsInv, TranscriptsTypeOK
  <2> QED BY <1>1, <2>1, <2>2, HistoryStays DEF TranscriptsInv, TranscriptsTypeOK
<1>5. run.session = 0
  BY <1>1 DEF TranscriptsInv, AtWork
<1>6. Beginnings' /\ Standing' = Standing
  BY <1>1, <1>5, BeginningsKept
<1>7. AtWork'
  BY <1>3 DEF AtWork
<1>8. Course'
  <2>1. Len(scanned) \in Nat
    BY <1>2
  <2>2. Behind' = 0 /\ run'.todo = scanned /\ run'.scanned = scanned /\ run'.before = Len(sessions')
        /\ ~run'.cancelled
    <3>1. /\ run'.todo = scanned /\ run'.scanned = scanned /\ run'.before = Len(sessions')
          /\ run'.cancelled = FALSE
      <4>1. sessions' = sessions
        BY <1>1
      <4> QED BY <1>3, <4>1
    <3>2. Behind' = Len(scanned) - Len(scanned)
      BY <3>1 DEF Behind
    <3> QED BY <2>1, <3>1, <3>2
  <2>3. \A k \in 1 .. Len(scanned) : 0 + k = k
    OBVIOUS
  <2>4. \A k \in 1 .. Len(run'.todo) : run'.todo[k] = run'.scanned[Behind' + k]
    BY <2>2, <2>3
  <2>5. run'.before <= Len(sessions') /\ Len(run'.todo) <= Len(run'.scanned)
    BY <1>1, <1>2, <2>1, <2>2
  <2>6. 1 .. Behind' = {}
    BY <2>2
  <2> QED BY <2>2, <2>4, <2>5, <2>6 DEF Course
<1>9. FinishedRuns'
  BY <1>1, <1>2, <1>6, PastKept
<1> QED BY <1>4, <1>6, <1>7, <1>8, <1>9 DEF TranscriptsInv

LEMMA NoRunIsSound ==
  ASSUME TranscriptsInv, UNCHANGED <<history, sessions>>, run' = NoRun, said \subseteq said', said' \subseteq Nat,
         run.session = 0 \/ run.session \in said', runs' \in Nat, importFaults' \in Nat
  PROVE  /\ finished' \subseteq Seq(Scan) \X Nat => TranscriptsTypeOK'
         /\ Beginnings' /\ Standing' = Standing /\ AtWork' /\ Course'
<1>1. Beginnings' /\ Standing' = Standing
  BY BeginningsKept
<1>2. AtWork'
  BY DEF AtWork, NoRun
<1>3. Len(sessions) \in Nat
  BY RunTyped DEF TranscriptsInv
<1>4. Course'
  <2>1. Behind' = 0
    BY DEF Behind, NoRun
  <2> QED BY <1>3, <2>1 DEF Course, NoRun
<1>5. ASSUME finished' \subseteq Seq(Scan) \X Nat PROVE TranscriptsTypeOK'
  <2>1. run' \in ImportRun
    BY DEF ImportRun, NoRun
  <2> QED BY <1>5, <2>1, HistoryStays DEF TranscriptsInv, TranscriptsTypeOK
<1> QED BY <1>1, <1>2, <1>4, <1>5

LEMMA ImportKilledStep ==
  ASSUME TranscriptsInv, NEW at, ImportKilled(at)
  PROVE  TranscriptsInv'
<1>1. /\ run' = NoRun /\ said' = said \cup ({run.session} \ {0}) /\ importFaults' = importFaults - 1
      /\ importFaults > 0 /\ UNCHANGED <<history, sessions, runs, finished>>
  BY DEF ImportKilled
<1>2. said' \subseteq Nat /\ runs' \in Nat /\ importFaults' \in Nat /\ finished' \subseteq Seq(Scan) \X Nat
  <2>1. run.session \in Nat /\ said \subseteq Nat
    BY RunTyped DEF TranscriptsInv, TranscriptsTypeOK
  <2>2. importFaults' \in Nat
    BY <1>1 DEF TranscriptsInv, TranscriptsTypeOK
  <2> QED BY <1>1, <2>1, <2>2 DEF TranscriptsInv, TranscriptsTypeOK
<1>3. /\ TranscriptsTypeOK' /\ Beginnings' /\ Standing' = Standing /\ AtWork' /\ Course'
  BY <1>1, <1>2, NoRunIsSound
<1>4. FinishedRuns'
  BY <1>1, <1>3, RunTyped, PastKept DEF TranscriptsInv
<1> QED BY <1>3, <1>4 DEF TranscriptsInv

LEMMA RunEndsStep ==
  ASSUME TranscriptsInv, RunEnds
  PROVE  TranscriptsInv'
<1>1. /\ run.state = "next" /\ (run.cancelled \/ run.todo = <<>>) /\ run' = NoRun
      /\ finished' = IF run.clean THEN finished \cup {<<run.scanned, run.before>>} ELSE finished
      /\ UNCHANGED <<history, sessions, runs, importFaults, said>>
  BY DEF RunEnds
<1>2. /\ run.session = 0 /\ said' \subseteq Nat /\ runs' \in Nat /\ importFaults' \in Nat
      /\ finished' \subseteq Seq(Scan) \X Nat
  <2>1. <<run.scanned, run.before>> \in Seq(Scan) \X Nat
    BY RunTyped DEF TranscriptsInv
  <2> QED BY <1>1, <2>1 DEF TranscriptsInv, TranscriptsTypeOK, AtWork
<1>3. /\ TranscriptsTypeOK' /\ Beginnings' /\ Standing' = Standing /\ AtWork' /\ Course'
  BY <1>1, <1>2, NoRunIsSound
<1>4. ASSUME NEW f \in finished', NEW k \in 1 .. Len(f[1])
      PROVE  \E i \in f[2] + 1 .. Len(sessions) : <<i, f[1][k].of, f[1][k].project>> \in Standing
  <2>1. CASE f \in finished
    BY <1>4, <2>1 DEF TranscriptsInv, FinishedRuns, Stands
  <2>2. CASE f \notin finished
    <3>1. run.clean /\ f[1] = run.scanned /\ f[2] = run.before
      BY <1>1, <2>2
    <3>2. run.todo = <<>>
      BY <1>1, <3>1 DEF TranscriptsInv, Course
    <3>3. Behind = Len(run.scanned)
      BY <3>2, RunTyped DEF Behind, TranscriptsInv
    <3> QED BY <1>4, <3>1, <3>3 DEF TranscriptsInv, Course, Stands
  <2> QED BY <2>1, <2>2
<1>5. FinishedRuns'
  BY <1>1, <1>3, <1>4 DEF FinishedRuns, Stands
<1> QED BY <1>3, <1>5 DEF TranscriptsInv

LEMMA Faults ==
  ASSUME TranscriptsInv, Answered \/ Failed
  PROVE  importFaults' \in Nat
BY DEF Answered, Failed, TranscriptsInv, TranscriptsTypeOK

LEMMA StartSessionStep ==
  ASSUME TranscriptsInv, StartSession
  PROVE  TranscriptsInv'
<1>1. /\ run.state = "next" /\ run.todo # <<>>
      /\ sessions' = Append(sessions, NewSession)
      /\ run' = [run EXCEPT !.state = "fill", !.session = Len(sessions'), !.sent = 0]
      /\ UNCHANGED <<history, runs, said, finished, importFaults>>
  BY DEF StartSession, Answered
<1>2. /\ sessions' \in Seq(ImportedSession) /\ Len(sessions') = Len(sessions) + 1 /\ Len(sessions) \in Nat
      /\ sessions'[Len(sessions) + 1] = NewSession
      /\ NewSession.stored = SubSeq(Transcript[Head(run.todo).of], 1, 0)
      /\ Standing \subseteq Standing'
  BY <1>1, Opened, RunTyped DEF TranscriptsInv
<1>3. /\ run'.state = "fill" /\ run'.session = Len(sessions) + 1 /\ run'.sent = 0
      /\ run'.todo = run.todo /\ run'.before = run.before /\ run'.scanned = run.scanned
      /\ run'.clean = run.clean /\ run'.cancelled = run.cancelled
      /\ run' \in ImportRun
  <2>1. run \in ImportRun /\ Len(sessions') \in Nat /\ Len(sessions') = Len(sessions) + 1
    BY <1>2 DEF TranscriptsInv, TranscriptsTypeOK
  <2> QED BY <1>1, <2>1 DEF ImportRun
<1>4. TranscriptsTypeOK'
  BY <1>1, <1>2, <1>3, HistoryStays DEF TranscriptsInv, TranscriptsTypeOK
<1>5. run.session = 0
  BY <1>1 DEF TranscriptsInv, AtWork
<1>6. Beginnings'
  BY <1>1, <1>3, <1>5, OpenedBeginnings
<1>7. AtWork'
  <2>1. Transcript' = Transcript
    BY <1>1, HistoryStays
  <2>2. run'.session \in run'.before + 1 .. Len(sessions')
    BY <1>2, <1>3, RunTyped DEF TranscriptsInv, Course
  <2>3. 0 < Len(Transcript[Head(run.todo).of])
    BY <1>1, AtHead
  <2>4. /\ sessions'[run'.session].of = Head(run.todo).of /\ sessions'[run'.session].project = Head(run.todo).project
        /\ ~sessions'[run'.session].ended
    BY <1>2, <1>3 DEF NewSession
  <2> QED BY <1>1, <1>2, <1>3, <2>1, <2>2, <2>3, <2>4 DEF AtWork
<1>8. Course' /\ FinishedRuns'
  BY <1>1, <1>2, <1>3, CourseKept, PastKept
<1> QED BY <1>4, <1>6, <1>7, <1>8 DEF TranscriptsInv

LEMMA CreateFailsStep ==
  ASSUME TranscriptsInv, CreateFails
  PROVE  TranscriptsInv'
<1>1. /\ run.state = "next" /\ run.todo # <<>> /\ Failed
      /\ run' = [run EXCEPT !.todo = Tail(@), !.clean = FALSE]
      /\ UNCHANGED <<history, runs, finished>>
      /\ \/ UNCHANGED <<sessions, said>>
         \/ sessions' = Append(sessions, NewSession) /\ said' = said \cup {Len(sessions')}
  BY DEF CreateFails
<1>2. /\ run.session = 0 /\ Len(sessions) \in Nat /\ said \subseteq Nat /\ sessions \in Seq(ImportedSession)
      /\ importFaults' \in Nat
  BY <1>1, Faults, RunTyped DEF TranscriptsInv, TranscriptsTypeOK, AtWork
<1>3. /\ run'.state = "next" /\ run'.session = 0 /\ run'.clean = FALSE
      /\ run'.todo = Tail(run.todo) /\ run'.before = run.before /\ run'.scanned = run.scanned
      /\ run' \in ImportRun
  <2>1. Tail(run.todo) \in Seq(Scan)
    BY <1>1, AtHead
  <2>2. run \in ImportRun
    BY DEF TranscriptsInv, TranscriptsTypeOK
  <2> QED BY <1>1, <1>2, <2>1, <2>2 DEF ImportRun
<1>4. /\ sessions' \in Seq(ImportedSession) /\ said' \subseteq Nat /\ Beginnings' /\ Standing \subseteq Standing'
      /\ Len(sessions') \in Nat /\ Len(sessions) <= Len(sessions')
  <2>1. CASE UNCHANGED <<sessions, said>>
    BY <1>1, <1>2, <2>1, BeginningsKept
  <2>2. CASE sessions' = Append(sessions, NewSession) /\ said' = said \cup {Len(sessions')}
    <3>1. /\ sessions' \in Seq(ImportedSession) /\ Len(sessions') = Len(sessions) + 1
          /\ Standing \subseteq Standing'
      BY <1>1, <2>2, Opened
    <3>a. said' = said \cup {Len(sessions) + 1} /\ Len(sessions) + 1 \in Nat
      BY <1>2, <2>2, <3>1
    <3>2. Len(sessions) + 1 \in said' /\ said \subseteq said' /\ said' \subseteq Nat
      BY <1>2, <3>a
    <3>3. Beginnings'
      BY <1>1, <1>2, <2>2, <3>2, OpenedBeginnings
    <3> QED BY <1>2, <3>1, <3>2, <3>3
  <2> QED BY <1>1, <2>1, <2>2
<1>5. TranscriptsTypeOK'
  BY <1>1, <1>2, <1>3, <1>4, HistoryStays DEF TranscriptsInv, TranscriptsTypeOK
<1>6. AtWork'
  BY <1>3 DEF AtWork
<1>7. Course' /\ FinishedRuns'
  BY <1>1, <1>3, <1>4, CourseMoves, PastKept
<1> QED BY <1>4, <1>5, <1>6, <1>7 DEF TranscriptsInv

\* The session at hand with more in it, or closed.
LEMMA Written ==
  ASSUME TranscriptsInv, run.state \in {"fill", "close"},
         NEW row \in ImportedSession, sessions' = [sessions EXCEPT ![run.session] = row]
  PROVE  /\ sessions' \in Seq(ImportedSession) /\ Len(sessions') = Len(sessions)
         /\ \A i \in 1 .. Len(sessions) : i # run.session => sessions'[i] = sessions[i]
         /\ sessions'[run.session] = row
<1>1. run.session \in 1 .. Len(sessions) /\ sessions \in Seq(ImportedSession)
  BY AtHand DEF TranscriptsInv, TranscriptsTypeOK
<1> QED BY <1>1

\* What the next batch makes of it.
Reach == IF run.sent + Batch < Len(Transcript[Head(run.todo).of]) THEN run.sent + Batch
         ELSE Len(Transcript[Head(run.todo).of])
Fuller == [sessions[run.session] EXCEPT !.stored = SubSeq(Transcript[Head(run.todo).of], 1, Reach)]

LEMMA BatchStored ==
  ASSUME TranscriptsInv, run.state = "fill"
  PROVE  /\ Stored = [sessions EXCEPT ![run.session] = Fuller] /\ Fuller \in ImportedSession
         /\ run.sent + Len(Piece) = Reach /\ Reach \in 0 .. Len(Transcript[Head(run.todo).of])
         /\ AfterPiece = IF Reach < Len(Transcript[Head(run.todo).of]) THEN "fill" ELSE "close"
         /\ Fuller.of = Head(run.todo).of /\ Fuller.project = Head(run.todo).project /\ ~Fuller.ended
         /\ Fuller.stored = SubSeq(Transcript[Head(run.todo).of], 1, Reach)
<1> DEFINE all == Transcript[Head(run.todo).of]
<1>1. /\ run.todo # <<>> /\ run.session \in 1 .. Len(sessions) /\ sessions[run.session] \in ImportedSession
      /\ sessions[run.session].of = Head(run.todo).of /\ ~sessions[run.session].ended
      /\ sessions[run.session].project = Head(run.todo).project
  BY AtHand
<1>2. /\ all \in Seq(Observation) /\ Len(all) \in Nat /\ Head(run.todo).observations = all
  BY <1>1, AtHead
<1>3. run.sent \in Nat /\ run.sent < Len(all) /\ sessions[run.session].stored = SubSeq(all, 1, run.sent)
  BY RunTyped DEF TranscriptsInv, AtWork
<1>4. Reach \in Nat /\ run.sent <= Reach /\ Reach <= Len(all)
  <2>1. Reach = IF run.sent + Batch < Len(all) THEN run.sent + Batch ELSE Len(all)
    BY DEF Reach
  <2>2. run.sent \in Nat /\ run.sent < Len(all) /\ Len(all) \in Nat /\ Batch \in Nat
    BY <1>2, <1>3, TranscriptBounds
  <2> HIDE DEF all
  <2> QED BY <2>1, <2>2
<1>5. Piece = SubSeq(all, run.sent + 1, Reach)
  BY <1>2 DEF Piece, Reach
<1> HIDE DEF all
<1>6. /\ SubSeq(all, 1, run.sent) \o SubSeq(all, run.sent + 1, Reach) = SubSeq(all, 1, Reach)
      /\ Len(SubSeq(all, run.sent + 1, Reach)) = Reach - run.sent
  <2>1. /\ all \in Seq(Observation) /\ run.sent \in Nat /\ Reach \in Nat
        /\ run.sent <= Reach /\ Reach <= Len(all)
    BY <1>2, <1>3, <1>4
  <2> QED BY <2>1, BeginningGrows
<1>7. run.sent + Len(Piece) = Reach
  BY <1>3, <1>4, <1>5, <1>6
<1>8. SubSeq(all, 1, Reach) \in Seq(Observation)
  BY <1>2, <1>4
<1>9. /\ Fuller = [sessions[run.session] EXCEPT !.stored = SubSeq(all, 1, Reach)]
      /\ Fuller \in ImportedSession
  BY <1>1, <1>8 DEF Fuller, all, ImportedSession
<1>10. Stored = [sessions EXCEPT ![run.session] = Fuller]
  BY <1>3, <1>5, <1>6, <1>9 DEF Stored
<1>11. /\ Fuller.of = Head(run.todo).of /\ Fuller.project = Head(run.todo).project /\ ~Fuller.ended
       /\ Fuller.stored = SubSeq(all, 1, Reach)
  BY <1>1, <1>9 DEF ImportedSession
<1>12. AfterPiece = IF Reach < Len(all) THEN "fill" ELSE "close"
  BY <1>2, <1>7 DEF AfterPiece
<1> QED BY <1>4, <1>7, <1>9, <1>10, <1>11, <1>12 DEF all

\* The steps of one transcript share what they leave alone.
LEMMA WorkGoesOn ==
  ASSUME TranscriptsInv, run.state \in {"fill", "close"}, UNCHANGED <<history, runs, finished>>,
         sessions' \in Seq(ImportedSession), Len(sessions') = Len(sessions),
         Standing \subseteq Standing', Beginnings', run' \in ImportRun, said' \subseteq Nat, importFaults' \in Nat,
         AtWork', Course'
  PROVE  TranscriptsInv'
<1>1. TranscriptsTypeOK'
  BY HistoryStays DEF TranscriptsInv, TranscriptsTypeOK
<1>2. FinishedRuns'
  BY PastKept, RunTyped DEF TranscriptsInv
<1> QED BY <1>1, <1>2 DEF TranscriptsInv

LEMMA AddObservationsStep ==
  ASSUME TranscriptsInv, AddObservations
  PROVE  TranscriptsInv'
<1> DEFINE x == Head(run.todo)
<1>1. /\ run.state = "fill" /\ Answered /\ sessions' = Stored
      /\ run' = [run EXCEPT !.sent = run.sent + Len(Piece), !.state = AfterPiece]
      /\ UNCHANGED <<history, runs, said, finished, importFaults>>
  BY DEF AddObservations, Answered
<1>2. /\ run.session \in 1 .. Len(sessions) /\ run.before < run.session /\ run.todo # <<>>
      /\ sessions[run.session].of = x.of
  BY <1>1, AtHand
<1>3. /\ sessions' = [sessions EXCEPT ![run.session] = Fuller] /\ Fuller \in ImportedSession
      /\ run.sent + Len(Piece) = Reach /\ Reach \in 0 .. Len(Transcript[x.of])
      /\ AfterPiece = IF Reach < Len(Transcript[x.of]) THEN "fill" ELSE "close"
      /\ Fuller.of = x.of /\ Fuller.project = x.project /\ ~Fuller.ended
      /\ Fuller.stored = SubSeq(Transcript[x.of], 1, Reach)
  BY <1>1, BatchStored
<1>4. /\ sessions' \in Seq(ImportedSession) /\ Len(sessions') = Len(sessions)
      /\ \A i \in 1 .. Len(sessions) : i # run.session => sessions'[i] = sessions[i]
      /\ sessions'[run.session] = Fuller
  BY <1>1, <1>3, Written
<1>5. Transcript[x.of] \in Seq(Observation) /\ Len(Transcript[x.of]) \in Nat /\ Reach \in Nat
  BY <1>2, <1>3, AtHead
<1>6. /\ run'.sent = Reach /\ run'.state \in {"fill", "close"}
      /\ run'.state = IF Reach < Len(Transcript[x.of]) THEN "fill" ELSE "close"
      /\ run'.todo = run.todo /\ run'.session = run.session /\ run'.before = run.before
      /\ run'.scanned = run.scanned /\ run'.clean = run.clean /\ run'.cancelled = run.cancelled
      /\ run' \in ImportRun
  <2>1. run' = [run EXCEPT !.sent = Reach, !.state = IF Reach < Len(Transcript[x.of]) THEN "fill" ELSE "close"]
    BY <1>1, <1>3
  <2>2. run \in ImportRun
    BY DEF TranscriptsInv, TranscriptsTypeOK
  <2> QED BY <1>5, <2>1, <2>2 DEF ImportRun
<1>7. Standing \subseteq Standing' /\ Beginnings'
  BY <1>1, <1>2, <1>3, <1>4, <1>6, Worked
<1>8. AtWork'
  <2>1. Transcript' = Transcript
    BY <1>1, HistoryStays
  <2>2. run'.session \in run'.before + 1 .. Len(sessions')
    BY <1>2, <1>4, <1>6, RunTyped DEF TranscriptsInv
  <2>3. run'.state = "close" => sessions'[run'.session].stored = Transcript[x.of]
    BY <1>3, <1>4, <1>5, <1>6, WholeBeginning
  <2>4. run'.state = "fill" => run'.sent < Len(Transcript[x.of])
    BY <1>5, <1>6
  <2> QED BY <1>2, <1>3, <1>4, <1>6, <2>1, <2>2, <2>3, <2>4 DEF AtWork
<1>9. Course'
  BY <1>4, <1>6, <1>7, RunTyped, CourseKept DEF TranscriptsInv
<1>10. said' \subseteq Nat /\ importFaults' \in Nat
  BY <1>1, Faults DEF TranscriptsInv, TranscriptsTypeOK
<1> QED BY <1>1, <1>4, <1>6, <1>7, <1>8, <1>9, <1>10, WorkGoesOn

LEMMA AddFailsStep ==
  ASSUME TranscriptsInv, AddFails
  PROVE  TranscriptsInv'
<1> DEFINE x == Head(run.todo)
<1>1. /\ run.state = "fill" /\ Failed /\ sessions' \in {sessions, Stored}
      /\ run' = [run EXCEPT !.state = "close", !.clean = FALSE]
      /\ said' = said \cup {run.session}
      /\ UNCHANGED <<history, runs, finished>>
  BY DEF AddFails
<1>2. /\ run.session \in 1 .. Len(sessions) /\ run.before < run.session /\ run.todo # <<>>
      /\ sessions[run.session].of = x.of /\ sessions[run.session].project = x.project
      /\ ~sessions[run.session].ended
      /\ \E n \in 0 .. Len(Transcript[x.of]) : sessions[run.session].stored = SubSeq(Transcript[x.of], 1, n)
  BY <1>1, AtHand
<1>3. /\ sessions' \in Seq(ImportedSession) /\ Len(sessions') = Len(sessions)
      /\ \A i \in 1 .. Len(sessions) : i # run.session => sessions'[i] = sessions[i]
      /\ sessions'[run.session].of = x.of /\ sessions'[run.session].project = x.project
      /\ ~sessions'[run.session].ended
      /\ \E n \in 0 .. Len(Transcript[x.of]) : sessions'[run.session].stored = SubSeq(Transcript[x.of], 1, n)
  <2>1. CASE sessions' = sessions
    BY <1>2, <2>1 DEF TranscriptsInv, TranscriptsTypeOK
  <2>2. CASE sessions' = Stored
    <3>1. /\ sessions' = [sessions EXCEPT ![run.session] = Fuller] /\ Fuller \in ImportedSession
          /\ Reach \in 0 .. Len(Transcript[x.of])
          /\ Fuller.of = x.of /\ Fuller.project = x.project /\ ~Fuller.ended
          /\ Fuller.stored = SubSeq(Transcript[x.of], 1, Reach)
      BY <1>1, <2>2, BatchStored
    <3>2. /\ sessions' \in Seq(ImportedSession) /\ Len(sessions') = Len(sessions)
          /\ \A i \in 1 .. Len(sessions) : i # run.session => sessions'[i] = sessions[i]
          /\ sessions'[run.session] = Fuller
      BY <1>1, <3>1, Written
    <3> QED BY <3>1, <3>2
  <2> QED BY <1>1, <2>1, <2>2
<1>4. /\ run'.state = "close" /\ run'.clean = FALSE
      /\ run'.todo = run.todo /\ run'.session = run.session /\ run'.before = run.before
      /\ run'.scanned = run.scanned /\ run' \in ImportRun
  <2>1. run \in ImportRun
    BY DEF TranscriptsInv, TranscriptsTypeOK
  <2> QED BY <1>1, <2>1 DEF ImportRun
<1>5. Standing \subseteq Standing' /\ Beginnings'
  BY <1>1, <1>2, <1>3, <1>4, Worked
<1>6. AtWork'
  <2>1. run'.session \in run'.before + 1 .. Len(sessions')
    BY <1>2, <1>3, <1>4, RunTyped DEF TranscriptsInv
  <2> QED BY <1>1, <1>2, <1>3, <1>4, <2>1 DEF AtWork
<1>7. Course'
  BY <1>3, <1>4, <1>5, RunTyped, CourseKept DEF TranscriptsInv
<1>8. said' \subseteq Nat /\ importFaults' \in Nat
  BY <1>1, Faults, RunTyped DEF TranscriptsInv, TranscriptsTypeOK
<1> QED BY <1>1, <1>3, <1>4, <1>5, <1>6, <1>7, <1>8, WorkGoesOn

LEMMA SessionClosed ==
  ASSUME TranscriptsInv, run.state = "close", sessions' = Closed
  PROVE  /\ sessions' \in Seq(ImportedSession) /\ Len(sessions') = Len(sessions)
         /\ \A i \in 1 .. Len(sessions) : i # run.session => sessions'[i] = sessions[i]
         /\ sessions'[run.session].of = sessions[run.session].of
         /\ sessions'[run.session].project = sessions[run.session].project
         /\ sessions'[run.session].stored = sessions[run.session].stored
         /\ sessions'[run.session].ended
<1> DEFINE row == [sessions[run.session] EXCEPT !.ended = TRUE]
<1>1. sessions[run.session] \in ImportedSession /\ run.session \in 1 .. Len(sessions)
  BY AtHand
<1>2. /\ row \in ImportedSession /\ row.of = sessions[run.session].of /\ row.ended
      /\ row.project = sessions[run.session].project /\ row.stored = sessions[run.session].stored
  BY <1>1 DEF ImportedSession
<1>3. sessions' = [sessions EXCEPT ![run.session] = row]
  BY DEF Closed
<1> HIDE DEF row
<1>4. /\ sessions' \in Seq(ImportedSession) /\ Len(sessions') = Len(sessions)
      /\ \A i \in 1 .. Len(sessions) : i # run.session => sessions'[i] = sessions[i]
      /\ sessions'[run.session] = row
  BY <1>2, <1>3, Written
<1> QED BY <1>2, <1>4

LEMMA MovesOn ==
  ASSUME TranscriptsInv, run.todo # <<>>, run' = Onward \/ run' = [Onward EXCEPT !.clean = FALSE]
  PROVE  /\ run'.state = "next" /\ run'.session = 0 /\ run'.todo = Tail(run.todo)
         /\ run'.scanned = run.scanned /\ run'.before = run.before /\ run'.cancelled = run.cancelled
         /\ run'.clean => run' = Onward /\ run.clean
         /\ run' \in ImportRun
<1>1. run \in ImportRun /\ Tail(run.todo) \in Seq(Scan)
  BY AtHead DEF TranscriptsInv, TranscriptsTypeOK
<1>2. /\ Onward.state = "next" /\ Onward.session = 0 /\ Onward.todo = Tail(run.todo)
      /\ Onward.scanned = run.scanned /\ Onward.before = run.before /\ Onward.cancelled = run.cancelled
      /\ Onward.clean = run.clean /\ Onward \in ImportRun
  BY <1>1 DEF Onward, ImportRun
<1>3. CASE run' = Onward
  BY <1>2, <1>3
<1>4. CASE run' = [Onward EXCEPT !.clean = FALSE]
  BY <1>2, <1>4 DEF ImportRun
<1> QED BY <1>3, <1>4

LEMMA EndImportedStep ==
  ASSUME TranscriptsInv, EndImported
  PROVE  TranscriptsInv'
<1> DEFINE x == Head(run.todo)
<1>1. /\ run.state = "close" /\ Answered /\ sessions' = Closed /\ run' = Onward
      /\ UNCHANGED <<history, runs, said, finished, importFaults>>
  BY DEF EndImported, Answered
<1>2. /\ run.session \in 1 .. Len(sessions) /\ run.before < run.session /\ run.todo # <<>>
      /\ sessions[run.session].of = x.of /\ sessions[run.session].project = x.project
      /\ \E n \in 0 .. Len(Transcript[x.of]) : sessions[run.session].stored = SubSeq(Transcript[x.of], 1, n)
  BY <1>1, AtHand
<1>3. /\ sessions' \in Seq(ImportedSession) /\ Len(sessions') = Len(sessions)
      /\ \A i \in 1 .. Len(sessions) : i # run.session => sessions'[i] = sessions[i]
      /\ sessions'[run.session].of = x.of /\ sessions'[run.session].project = x.project
      /\ sessions'[run.session].stored = sessions[run.session].stored
      /\ sessions'[run.session].ended
  BY <1>1, <1>2, SessionClosed
<1>4. sessions[run.session].stored = Transcript[x.of] \/ (run.session \in said /\ ~run.clean)
  BY <1>1 DEF TranscriptsInv, AtWork
<1>5. /\ run'.state = "next" /\ run'.session = 0 /\ run'.todo = Tail(run.todo)
      /\ run'.scanned = run.scanned /\ run'.before = run.before /\ run'.cancelled = run.cancelled
      /\ run'.clean => run.clean
      /\ run' \in ImportRun
  BY <1>1, <1>2, MovesOn
<1>6. Standing \subseteq Standing' /\ Beginnings'
  BY <1>1, <1>2, <1>3, <1>4, Worked
<1>7. AtWork'
  BY <1>5 DEF AtWork
<1>8. Course'
  <2>1. Len(sessions) \in Nat /\ run.before \in Nat
    BY RunTyped DEF TranscriptsInv
  <2>2. ASSUME run'.clean PROVE <<run.session, x.of, x.project>> \in Standing'
    <3>1. sessions'[run.session].stored = Transcript[x.of]
      BY <1>3, <1>4, <1>5, <2>2
    <3>2. Transcript' = Transcript
      BY <1>1, HistoryStays
    <3>3. \A i \in 1 .. Len(sessions') : Whole(sessions[i])' =>
            <<i, sessions'[i].of, sessions'[i].project>> \in Standing'
      BY DEF Standing
    <3>4. ASSUME NEW i \in 1 .. Len(sessions'), i = run.session PROVE Whole(sessions[i])'
      BY <1>3, <3>1, <3>2, <3>4 DEF Whole
    <3> QED BY <1>2, <1>3, <3>3, <3>4
  <2>3. run.session \in run.before + 1 .. Len(sessions')
    BY <1>2, <1>3, <2>1
  <2>4. run'.clean => \E i \in run.before + 1 .. Len(sessions') : <<i, x.of, x.project>> \in Standing'
    BY <2>2, <2>3
  <2> QED BY <1>2, <1>3, <1>5, <1>6, <2>1, <2>4, CourseMoves
<1>9. said' \subseteq Nat /\ importFaults' \in Nat
  BY <1>1, Faults DEF TranscriptsInv, TranscriptsTypeOK
<1> QED BY <1>1, <1>3, <1>5, <1>6, <1>7, <1>8, <1>9, WorkGoesOn

LEMMA EndFailsStep ==
  ASSUME TranscriptsInv, EndFails
  PROVE  TranscriptsInv'
<1> DEFINE x == Head(run.todo)
<1>1. /\ run.state = "close" /\ Failed /\ sessions' \in {sessions, Closed}
      /\ run' = [Onward EXCEPT !.clean = FALSE] /\ said' = said \cup {run.session}
      /\ UNCHANGED <<history, runs, finished>>
  BY DEF EndFails
<1>2. /\ run.session \in 1 .. Len(sessions) /\ run.todo # <<>>
      /\ sessions[run.session].of = x.of
      /\ \E n \in 0 .. Len(Transcript[x.of]) : sessions[run.session].stored = SubSeq(Transcript[x.of], 1, n)
  BY <1>1, AtHand
<1>3. /\ sessions' \in Seq(ImportedSession) /\ Len(sessions') = Len(sessions)
      /\ \A i \in 1 .. Len(sessions) : i # run.session => sessions'[i] = sessions[i]
      /\ sessions'[run.session].of = x.of
      /\ sessions'[run.session].stored = sessions[run.session].stored
  <2>1. CASE sessions' = sessions
    BY <1>2, <2>1 DEF TranscriptsInv, TranscriptsTypeOK
  <2>2. CASE sessions' = Closed
    BY <1>1, <1>2, <2>2, SessionClosed
  <2> QED BY <1>1, <2>1, <2>2
<1>4. /\ run'.state = "next" /\ run'.session = 0 /\ run'.todo = Tail(run.todo)
      /\ run'.scanned = run.scanned /\ run'.before = run.before /\ run' \in ImportRun
  BY <1>1, <1>2, MovesOn
<1>5. ~run'.clean
  BY <1>1 DEF Onward, TranscriptsInv, TranscriptsTypeOK, ImportRun
<1>6. Standing \subseteq Standing' /\ Beginnings'
  BY <1>1, <1>2, <1>3, Worked
<1>7. AtWork'
  BY <1>4 DEF AtWork
<1>8. Course'
  BY <1>2, <1>3, <1>4, <1>5, <1>6, RunTyped, CourseMoves DEF TranscriptsInv
<1>9. said' \subseteq Nat /\ importFaults' \in Nat
  BY <1>1, Faults, RunTyped DEF TranscriptsInv, TranscriptsTypeOK
<1> QED BY <1>1, <1>3, <1>4, <1>6, <1>7, <1>8, <1>9, WorkGoesOn

-----------------------------------------------------------------------------
(* The theorem *)

LEMMA TranscriptsStart == TranscriptsInit => TranscriptsInv
<1> SUFFICES ASSUME TranscriptsInit PROVE TranscriptsInv
  OBVIOUS
<1>1. /\ history \in Histories /\ run = NoRun /\ sessions = <<>> /\ runs = MaxRuns
      /\ importFaults = MaxImportFaults /\ said = {} /\ finished = {}
  BY DEF TranscriptsInit
<1>2. TranscriptsTypeOK
  BY <1>1, TranscriptBounds DEF TranscriptsTypeOK, ImportRun, NoRun
<1>3. Beginnings /\ AtWork /\ FinishedRuns
  BY <1>1 DEF Beginnings, AtWork, FinishedRuns, NoRun
<1>4. Course
  <2>1. Behind = 0
    BY <1>1 DEF Behind, NoRun
  <2> QED BY <1>1, <2>1 DEF Course, NoRun
<1> QED BY <1>2, <1>3, <1>4 DEF TranscriptsInv

LEMMA TranscriptsStutter == ASSUME TranscriptsInv, UNCHANGED transcriptVars PROVE TranscriptsInv'
<1>1. UNCHANGED <<history, run, sessions, runs, importFaults, said, finished>>
  BY DEF transcriptVars
<1>2. TranscriptsTypeOK'
  BY <1>1, HistoryStays DEF TranscriptsInv, TranscriptsTypeOK
<1>3. Beginnings' /\ Standing' = Standing
  BY <1>1, BeginningsKept
<1>4. AtWork'
  <2>1. Transcript' = Transcript
    BY <1>1, HistoryStays
  <2> QED BY <1>1, <2>1 DEF TranscriptsInv, AtWork
<1>5. Course' /\ FinishedRuns'
  BY <1>1, <1>3, RunTyped, CourseKept, PastKept DEF TranscriptsInv
<1> QED BY <1>2, <1>3, <1>4, <1>5 DEF TranscriptsInv

LEMMA TranscriptsInvHolds == TranscriptsSpec => []TranscriptsInv
<1>1. TranscriptsInv /\ [TranscriptsNext]_transcriptVars => TranscriptsInv'
  <2> SUFFICES ASSUME TranscriptsInv, [TranscriptsNext]_transcriptVars PROVE TranscriptsInv'
    OBVIOUS
  <2>1. CASE \E limit \in 1 .. Len(ScanJSONL) : ImportTranscripts(limit)
    BY <2>1, ImportStarts
  <2>2. CASE \E at \in {"next", "fill", "close"} : ImportKilled(at)
    BY <2>2, ImportKilledStep
  <2>3. CASE Interrupt
    BY <2>3, InterruptStep
  <2>4. CASE StartSession
    BY <2>4, StartSessionStep
  <2>5. CASE CreateFails
    BY <2>5, CreateFailsStep
  <2>6. CASE AddObservations
    BY <2>6, AddObservationsStep
  <2>7. CASE AddFails
    BY <2>7, AddFailsStep
  <2>8. CASE EndImported
    BY <2>8, EndImportedStep
  <2>9. CASE EndFails
    BY <2>9, EndFailsStep
  <2>10. CASE RunEnds
    BY <2>10, RunEndsStep
  <2>11. CASE UNCHANGED transcriptVars
    BY <2>11, TranscriptsStutter
  <2> QED BY <2>1, <2>2, <2>3, <2>4, <2>5, <2>6, <2>7, <2>8, <2>9, <2>10, <2>11 DEF TranscriptsNext
<1> QED BY <1>1, TranscriptsStart, PTL DEF TranscriptsSpec

\* The import, the sessions it opens and its history keep their types.
THEOREM TranscriptsTypeCorrect == TranscriptsSpec => []TranscriptsTypeOK
BY TranscriptsInvHolds, PTL DEF TranscriptsInv

\* For any directories, batch sizes, refusals, lost answers, interruptions and
\* kills, a session on the server is a beginning of its transcript, and whole and
\* closed unless an error was printed about it or the command did not live to; and
\* a run without an error has left a whole session for each transcript it counted
\* (cli/transfer.go, importTranscripts; importers/transcripts.go, ScanJSONL).
THEOREM TranscriptsAreStored == TranscriptsSpec => []TranscriptsStored
<1>1. TranscriptsInv => TranscriptsStored
  <2> SUFFICES ASSUME TranscriptsInv PROVE TranscriptsStored
    OBVIOUS
  <2>1. /\ history \in Histories /\ sessions \in Seq(ImportedSession) /\ Len(sessions) \in Nat
        /\ \A i \in 1 .. Len(sessions) : sessions[i].of \in Path
    <3>1. history \in Histories /\ sessions \in Seq(ImportedSession)
      BY DEF TranscriptsInv, TranscriptsTypeOK
    <3>2. \A i \in 1 .. Len(sessions) : sessions[i] \in ImportedSession
      BY <3>1
    <3> QED BY <3>1, <3>2, RunTyped DEF TranscriptsInv, ImportedSession
  <2>2. ASSUME NEW p \in Path PROVE Transcript[p] = ParseJSONL(p).observations
    BY DEF Transcript
  <2>3. ASSUME NEW i \in 1 .. Len(sessions)
        PROVE  /\ IsPrefix(sessions[i].stored, ParseJSONL(sessions[i].of).observations)
               /\ Whole(sessions[i]) => Complete(sessions[i])
               /\ Whole(sessions[i]) \/ i = run.session \/ i \in said
    <3>1. Transcript[sessions[i].of] = ParseJSONL(sessions[i].of).observations
      BY <2>1, <2>2, <2>3
    <3>2. Transcript[sessions[i].of] \in Seq(Observation) /\ Len(Transcript[sessions[i].of]) \in Nat
      BY <2>1, <2>3, TranscriptTyped
    <3>3. PICK n \in 0 .. Len(Transcript[sessions[i].of]) :
            sessions[i].stored = SubSeq(Transcript[sessions[i].of], 1, n)
      BY <2>3 DEF TranscriptsInv, Beginnings, Begun
    <3>4. Len(sessions[i].stored) = n /\ SubSeq(sessions[i].stored, 1, n) = sessions[i].stored
      BY <3>2, <3>3
    <3>5. IsPrefix(sessions[i].stored, ParseJSONL(sessions[i].of).observations)
      BY <3>1, <3>2, <3>3, <3>4 DEF IsPrefix
    <3> QED BY <2>3, <3>1, <3>5 DEF TranscriptsInv, Beginnings, Whole, Complete
  <2>4. BeginningsStored
    BY <2>3 DEF BeginningsStored
  <2>5. ASSUME NEW f \in finished, NEW k \in 1 .. Len(f[1])
        PROVE  /\ \A i \in 1 .. Len(history[f[1][k].of]) : history[f[1][k].of][i].is # "long"
               /\ \E i \in f[2] + 1 .. Len(sessions) :
                    sessions[i].of = f[1][k].of /\ Complete(sessions[i]) /\ sessions[i].project = f[1][k].project
    <3>1. f[1] \in Seq(Scan) /\ f[2] \in Nat
      BY <2>5 DEF TranscriptsInv, TranscriptsTypeOK
    <3>2. f[1][k] \in Scan
      BY <2>5, <3>1
    <3>3. ~Unreadable(f[1][k].of)
      BY <2>1, <3>2, ScanIs
    <3>4. PICK i \in f[2] + 1 .. Len(sessions) : <<i, f[1][k].of, f[1][k].project>> \in Standing
      BY <2>5 DEF TranscriptsInv, FinishedRuns, Stands
    <3>5. PICK j \in 1 .. Len(sessions) :
            Whole(sessions[j]) /\ <<i, f[1][k].of, f[1][k].project>> = <<j, sessions[j].of, sessions[j].project>>
      BY <3>4 DEF Standing
    <3>6. i = j /\ sessions[j].of = f[1][k].of /\ sessions[j].project = f[1][k].project
      BY <3>5
    <3>7. Complete(sessions[i])
      BY <2>3, <3>5, <3>6
    <3> QED BY <3>3, <3>4, <3>6, <3>7 DEF Unreadable
  <2>6. ScannedIsStored
    BY <2>5 DEF ScannedIsStored
  <2> QED BY <2>4, <2>6 DEF TranscriptsStored
<1> QED BY <1>1, TranscriptsInvHolds, PTL
=============================================================================
