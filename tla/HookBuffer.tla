----------------------------- MODULE HookBuffer -----------------------------
(***************************************************************************)
(* The hooks of one session of an agent host (internal/cli/hook.go).  The   *)
(* host runs `dkm hook <event>` as a process per event; each captures at    *)
(* most one observation into a buffer file and some flush the file to the   *)
(* server, under the session a state file names.  A hook that runs out of   *)
(* its budget is cut off where it is.  Parallel tool calls make tool hooks  *)
(* run side by side.  An observation is named by the hook that captured     *)
(* it, a session of the server by the hook that opened it.                  *)
(***************************************************************************)
EXTENDS Naturals, FiniteSets

CONSTANTS
  MaxHooks,   \* how many hooks the host runs
  Abreast,    \* how many of them it runs side by side
  FlushAt,    \* hookFlushAt
  MaxItems,   \* observations the server takes in one call
  MaxTrouble, \* how many hooks are cut off or calls fail
  NoSession

ASSUME LimitAssumption ==
  /\ MaxHooks \in Nat /\ Abreast \in Nat \ {0} /\ FlushAt \in Nat \ {0}
  /\ MaxItems \in Nat \ {0} /\ MaxTrouble \in Nat
ASSUME NoSessionAssumption == NoSession \notin 1 .. MaxHooks

Hook == 1 .. MaxHooks
Event == {"session-start", "prompt", "tool", "session-end"}

VARIABLES
  hook,    \* each hook: its event, its next step, the items and the session it
           \* holds, and as history how it went
  buffer,  \* the observations in <session>.ndjson
  state,   \* the session <session>.json names
  ended,   \* the sessions that are closed on the server
  stored,  \* the observations on the server, with the hook that sent each
  trouble,
  captured \* history: the observations that were written to the buffer

hookVars == <<hook, buffer, state, ended, stored, trouble, captured>>

Run(event, pc, alone) ==
  [event |-> event, pc |-> pc, items |-> {}, session |-> NoSession,
   failed |-> FALSE, alone |-> alone]
NotRun == Run("tool", "new", TRUE)
HookRuns(h) == hook[h].pc \notin {"new", "over"}

Goto(h, pc) == hook' = [hook EXCEPT ![h].pc = pc]
Fail == trouble > 0 /\ trouble' = trouble - 1

\* Where a hook goes on when flushBuffer returns.
AfterFlush(h) == IF hook[h].event = "session-end" THEN "state" ELSE "over"

\* The call is refused, not answered, or answered after the budget: the server
\* may have done its part.
FailTo(h, pc) == Fail /\ hook' = [hook EXCEPT ![h].pc = pc, ![h].failed = TRUE]

-----------------------------------------------------------------------------
FirstStep(event) ==
  IF event = "session-start" THEN "create"
  ELSE IF event = "session-end" THEN "read" ELSE "append"

\* The host waits for a hook before the next event, but for tools that ran in
\* parallel.
BeginHook(h, event) ==
  LET beside == {g \in Hook : HookRuns(g)}
  IN  /\ hook[h].pc = "new" /\ \A g \in Hook : g < h => hook[g].pc # "new"
      /\ Cardinality(beside) < Abreast
      /\ beside # {} => event = "tool" /\ \A g \in beside : hook[g].event = "tool"
      /\ hook' = [g \in Hook |->
           IF g = h THEN Run(event, FirstStep(event), beside = {})
           ELSE [hook[g] EXCEPT !.alone = @ /\ g \notin beside]]
      /\ UNCHANGED <<buffer, state, ended, stored, trouble, captured>>

\* bufferObservation: one line, appended.  A prompt is searched for then, a tool
\* goes on to a flush.
BufferObservation(h) ==
  /\ hook[h].pc = "append"
  /\ buffer' = buffer \cup {h} /\ captured' = captured \cup {h}
  /\ Goto(h, IF hook[h].event = "tool" THEN "read" ELSE "over")
  /\ UNCHANGED <<state, ended, stored, trouble>>

\* Of SessionStart, or of a flush that finds no session noted.
CreateSession(h) ==
  /\ hook[h].pc = "create"
  /\ \/ /\ hook' = [hook EXCEPT ![h].pc = "note", ![h].session = h]
        /\ UNCHANGED trouble
     \/ FailTo(h, AfterFlush(h))
  /\ UNCHANGED <<buffer, state, ended, stored, captured>>

\* writeHookState truncates the file and writes it.
NoteTruncate(h) ==
  /\ hook[h].pc = "note"
  /\ state' = NoSession
  /\ Goto(h, "noted")
  /\ UNCHANGED <<buffer, ended, stored, trouble, captured>>

NoteWrite(h) ==
  /\ hook[h].pc = "noted"
  /\ state' = hook[h].session
  /\ Goto(h, IF hook[h].event = "session-start" THEN "over" ELSE "send")
  /\ UNCHANGED <<buffer, ended, stored, trouble, captured>>

-----------------------------------------------------------------------------
(* flushBuffer *)

\* Enough, or at the end of the session whatever there is.
Due(h, items) ==
  items # {} /\ (hook[h].event = "session-end" \/ Cardinality(items) >= FlushAt)

FlushRead(h) ==
  /\ hook[h].pc = "read"
  /\ hook' = IF Due(h, buffer)
             THEN [hook EXCEPT ![h].pc = "session", ![h].items = buffer]
             ELSE [hook EXCEPT ![h].pc = AfterFlush(h)]
  /\ UNCHANGED <<buffer, state, ended, stored, trouble, captured>>

FlushSession(h) ==
  /\ hook[h].pc = "session"
  /\ hook' = [hook EXCEPT ![h].session = state,
                          ![h].pc = IF state = NoSession THEN "create" ELSE "send"]
  /\ UNCHANGED <<buffer, state, ended, stored, trouble, captured>>

\* AddObservations inserts the items in one transaction, into a closed session too.
Store(h) == stored' = stored \cup (hook[h].items \X {h})
TooMany(h) == Cardinality(hook[h].items) > MaxItems

\* BUG (a mutant of Send): the file goes whatever came of the call.
SendAndForget(h) ==
  /\ hook[h].pc = "send"
  /\ Goto(h, "remove")
  /\ IF TooMany(h) THEN UNCHANGED stored ELSE Store(h)
  /\ UNCHANGED <<buffer, state, ended, trouble, captured>>

\* BUG (a mutant of Send): what was sent stays in the file.
SendKeeping(h) ==
  /\ hook[h].pc = "send"
  /\ ~TooMany(h) /\ Store(h)
  /\ Goto(h, AfterFlush(h))
  /\ UNCHANGED <<buffer, state, ended, trouble, captured>>

Send(h) ==
  /\ hook[h].pc = "send"
  /\ \/ ~TooMany(h) /\ Store(h) /\ Goto(h, "remove") /\ UNCHANGED trouble
     \/ /\ TooMany(h)
        /\ hook' = [hook EXCEPT ![h].pc = AfterFlush(h), ![h].failed = TRUE]
        /\ UNCHANGED <<stored, trouble>>
     \/ ~TooMany(h) /\ FailTo(h, AfterFlush(h)) /\ (Store(h) \/ UNCHANGED stored)
  /\ UNCHANGED <<buffer, state, ended, captured>>

RemoveBuffer(h) ==
  /\ hook[h].pc = "remove"
  /\ buffer' = {}
  /\ Goto(h, AfterFlush(h))
  /\ UNCHANGED <<state, ended, stored, trouble, captured>>

-----------------------------------------------------------------------------
(* The rest of hookSessionEnd *)

EndState(h) ==
  /\ hook[h].pc = "state"
  /\ hook' = [hook EXCEPT ![h].session = state,
                          ![h].pc = IF state = NoSession THEN "over" ELSE "close"]
  /\ UNCHANGED <<buffer, state, ended, stored, trouble, captured>>

EndSession(h) ==
  /\ hook[h].pc = "close"
  /\ \/ ended' = ended \cup {hook[h].session} /\ Goto(h, "clear") /\ UNCHANGED trouble
     \/ /\ FailTo(h, "over")
        /\ ended' \in {ended, ended \cup {hook[h].session}}
  /\ UNCHANGED <<buffer, state, stored, captured>>

\* clearHookState removes the state file and then the buffer.
ClearState(h) ==
  /\ hook[h].pc = "clear"
  /\ state' = NoSession
  /\ Goto(h, "clearbuffer")
  /\ UNCHANGED <<buffer, ended, stored, trouble, captured>>

ClearBuffer(h) ==
  /\ hook[h].pc = "clearbuffer"
  /\ buffer' = {}
  /\ Goto(h, "over")
  /\ UNCHANGED <<state, ended, stored, trouble, captured>>

\* The budget runs out, or the host goes away with its hooks.
Cut(h) ==
  /\ HookRuns(h)
  /\ FailTo(h, "over")
  /\ UNCHANGED <<buffer, state, ended, stored, captured>>

-----------------------------------------------------------------------------
HookInit ==
  /\ hook = [h \in Hook |-> NotRun]
  /\ buffer = {} /\ state = NoSession
  /\ ended = {} /\ stored = {} /\ captured = {}
  /\ trouble = MaxTrouble

Flush(h) == FlushRead(h) \/ FlushSession(h) \/ Send(h) \/ RemoveBuffer(h)
End(h) == EndState(h) \/ EndSession(h) \/ ClearState(h) \/ ClearBuffer(h)

HookNext ==
  \E h \in Hook :
    \/ \E event \in Event : BeginHook(h, event)
    \/ BufferObservation(h) \/ CreateSession(h) \/ NoteTruncate(h) \/ NoteWrite(h)
    \/ Flush(h) \/ End(h) \/ Cut(h)

HookSpec == HookInit /\ [][HookNext]_hookVars

-----------------------------------------------------------------------------
(* What the hooks promise *)

SentBy(o) == {h \in Hook : <<o, h>> \in stored}
Kept(o) == o \in buffer \/ SentBy(o) # {}

\* What was captured is in the buffer or on the server, through failed calls and
\* hooks that are cut off anywhere.  The two ways out: a session end that could
\* not send closes the session and takes the buffer with it, and of hooks that
\* overlap one removes what another appended after it read.
LostOnlyAtEndOrBeside ==
  \A o \in captured : ~Kept(o) =>
    \E h \in Hook :
      \/ hook[h].event = "session-end" /\ hook[h].failed /\ o \in hook[h].items
      \/ ~hook[h].alone /\ (\E sent \in Hook : <<sent, h>> \in stored) /\ o \notin hook[h].items

\* An observation is sent twice only if a hook that sent it failed or was cut
\* off before it removed the buffer, or did not run alone.
SentTwiceOnlyIfCut ==
  \A o \in Hook : \A g, h \in SentBy(o) :
    g # h => \E k \in {g, h} : hook[k].failed \/ ~hook[k].alone

\* What the hooks captured reaches the server once: not lost, and not doubled.
CapturedOnce == LostOnlyAtEndOrBeside /\ SentTwiceOnlyIfCut

\* "Left on disk for the next flush" (hook.go:374), "whatever was buffered stays
\* on disk and goes out with the next hook" (hook.go:134).
ObservationsKept == \A o \in captured : Kept(o)
=============================================================================
