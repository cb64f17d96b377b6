----------------------------- MODULE Transcripts -----------------------------
(***************************************************************************)
(* `dkm import claude-code` and `dkm import codex` (internal/importers/     *)
(* transcripts.go, internal/cli/transfer.go): the session files of an agent *)
(* host are parsed, and each becomes a session of the server, opened,       *)
(* filled in batches and closed by calls of their own.  The command may be  *)
(* interrupted or killed, and be run again.                                 *)
(***************************************************************************)
EXTENDS Naturals, SequencesExt, Sublist

CONSTANTS
  Histories, \* what the directory may hold: a sequence of files, by path
  Existing,  \* the working directories that are still there
  Batch,     \* observations sent in one call
  MaxRuns, MaxImportFaults,
  NoDir      \* no directory recorded, no project

ASSUME TranscriptBounds ==
  Batch \in Nat \ {0} /\ MaxRuns \in Nat /\ MaxImportFaults \in Nat /\ NoDir \notin Existing

\* A line that is no JSON, or one too long for the scanner, or an entry: who
\* speaks, what is said, where; Codex has a second one inside.
BrokenLine == [is |-> "broken"]
LongLine == [is |-> "long"]
TranscriptEntry(outer, inner) == [is |-> "entry", outer |-> outer, inner |-> inner]
Saying == [role : STRING, says : STRING, cwd : STRING]
Silent == [role |-> "", says |-> "", cwd |-> NoDir]
TranscriptLine == {BrokenLine, LongLine} \cup [is : {"entry"}, outer : Saying, inner : Saying]

ASSUME HistoriesAssumption == \A h \in Histories : h \in Seq(Seq(TranscriptLine))

VARIABLES
  history,            \* the files
  run,                \* the import under way: what it has scanned, where it is
  sessions,           \* the sessions on the server, as they were opened
  runs, importFaults, \* what the bounds leave
  said,               \* history: the sessions, by number, an error was printed about
  finished            \* history: runs that ended by themselves, with what they scanned
                      \* and the sessions that were there when they began

transcriptVars == <<history, run, sessions, runs, importFaults, said, finished>>

-----------------------------------------------------------------------------
(* Scanning *)

\* What is inside counts, where it says something.
Flattened(e) ==
  [role |-> IF e.inner.role # "" THEN e.inner.role ELSE e.outer.role,
   says |-> IF e.inner.says # "" THEN e.inner.says ELSE e.outer.says,
   cwd |-> IF e.inner.cwd # NoDir THEN e.inner.cwd ELSE e.outer.cwd]

RenderEntry(e) ==
  [kind |-> CASE e.role \in {"user", "human"} -> "prompt"
              [] e.role \in {"assistant", "model"} -> "response"
              [] e.role = "summary" -> "summary"
              [] OTHER -> "note",
   says |-> e.says]

\* The directory a session names first is its project, if it still exists; a file
\* that names none is of the project of its own directory.
ResolveProject(entries) ==
  LET named == SelectSeq(entries, LAMBDA e : e.cwd # NoDir)
  IN  IF named = <<>> THEN "own" ELSE IF named[1].cwd \in Existing THEN named[1].cwd ELSE NoDir

ParseJSONL(path) ==
  LET lines == Without(history[path], {BrokenLine, LongLine})
      entries == [i \in 1 .. Len(lines) |-> Flattened(lines[i])]
      spoken == Without(entries, {e \in ToSet(entries) : e.says = ""})
  IN  [of |-> path, project |-> ResolveProject(entries),
       observations |-> [i \in 1 .. Len(spoken) |-> RenderEntry(spoken[i])]]

\* BUG (a mutant of Unreadable): what was read before the long line counts.
UnreadableNever(path) == FALSE

\* A file with a line beyond the scanner's buffer is skipped whole.
Unreadable(path) == \E i \in 1 .. Len(history[path]) : history[path][i].is = "long"

\* The paths in order; files that cannot be read or say nothing are skipped.
ScanJSONL ==
  LET paths == 1 .. Len(history)
      kept == Without([p \in paths |-> p], {p \in paths : Unreadable(p) \/ ParseJSONL(p).observations = <<>>})
  IN  [i \in 1 .. Len(kept) |-> ParseJSONL(kept[i])]

-----------------------------------------------------------------------------
(* Importing *)

NoRun == [state |-> "none", todo |-> <<>>, sent |-> 0, session |-> 0, cancelled |-> FALSE,
          scanned |-> <<>>, clean |-> TRUE, before |-> 0]

ImportTranscripts(limit) ==
  /\ run.state = "none" /\ runs > 0
  /\ runs' = runs - 1
  /\ LET scanned == SubSeq(ScanJSONL, 1, limit)
     IN  run' = [NoRun EXCEPT !.state = "next", !.todo = scanned, !.scanned = scanned,
                              !.before = Len(sessions)]
  /\ UNCHANGED <<history, sessions, importFaults, said, finished>>

\* Ctrl-C: calls fail from now on and the loop stops before the next transcript.
Interrupt ==
  /\ run.state # "none" /\ ~run.cancelled
  /\ run' = [run EXCEPT !.cancelled = TRUE, !.clean = FALSE]
  /\ UNCHANGED <<history, sessions, runs, importFaults, said, finished>>

ImportKilled(at) ==
  /\ run.state = at /\ importFaults > 0
  /\ importFaults' = importFaults - 1
  /\ run' = NoRun
  /\ said' = said \cup ({run.session} \ {0})
  /\ UNCHANGED <<history, sessions, runs, finished>>

\* A call is answered; or the server refuses it, or does it and nobody waits for
\* the answer, or it is not made any more.
Answered == ~run.cancelled /\ UNCHANGED importFaults
Failed == IF run.cancelled THEN UNCHANGED importFaults
          ELSE importFaults > 0 /\ importFaults' = importFaults - 1

NewSession == [of |-> Head(run.todo).of, project |-> Head(run.todo).project, stored |-> <<>>, ended |-> FALSE]

StartSession ==
  /\ run.state = "next" /\ ~run.cancelled /\ run.todo # <<>> /\ Answered
  /\ sessions' = Append(sessions, NewSession)
  /\ run' = [run EXCEPT !.state = "fill", !.session = Len(sessions'), !.sent = 0]
  /\ UNCHANGED <<history, runs, said, finished>>

\* The transcript is given up, with a session or without.
CreateFails ==
  /\ run.state = "next" /\ ~run.cancelled /\ run.todo # <<>> /\ Failed
  /\ \/ UNCHANGED <<sessions, said>>
     \/ sessions' = Append(sessions, NewSession) /\ said' = said \cup {Len(sessions')}
  /\ run' = [run EXCEPT !.todo = Tail(@), !.clean = FALSE]
  /\ UNCHANGED <<history, runs, finished>>

Piece == LET all == Head(run.todo).observations
         IN  SubSeq(all, run.sent + 1, IF run.sent + Batch < Len(all) THEN run.sent + Batch ELSE Len(all))
Stored == [sessions EXCEPT ![run.session].stored = @ \o Piece]
AfterPiece == IF run.sent + Len(Piece) < Len(Head(run.todo).observations) THEN "fill" ELSE "close"

AddObservations ==
  /\ run.state = "fill" /\ Answered
  /\ sessions' = Stored
  /\ run' = [run EXCEPT !.sent = @ + Len(Piece), !.state = AfterPiece]
  /\ UNCHANGED <<history, runs, said, finished>>

\* BUG (a mutant of AddFails): the batches after a failed one are sent.
AddFailsGoesOn ==
  /\ run.state = "fill" /\ Failed
  /\ sessions' \in {sessions, Stored}
  /\ run' = [run EXCEPT !.sent = @ + Len(Piece), !.state = AfterPiece, !.clean = FALSE]
  /\ said' = said \cup {run.session}
  /\ UNCHANGED <<history, runs, finished>>

\* The batches after a failed one are not sent, and the session is closed.
AddFails ==
  /\ run.state = "fill" /\ Failed
  /\ sessions' \in {sessions, Stored}
  /\ run' = [run EXCEPT !.state = "close", !.clean = FALSE]
  /\ said' = said \cup {run.session}
  /\ UNCHANGED <<history, runs, finished>>

Closed == [sessions EXCEPT ![run.session].ended = TRUE]
Onward == [run EXCEPT !.state = "next", !.todo = Tail(@), !.session = 0]

EndImported ==
  /\ run.state = "close" /\ Answered
  /\ sessions' = Closed /\ run' = Onward
  /\ UNCHANGED <<history, runs, said, finished>>

EndFails ==
  /\ run.state = "close" /\ Failed
  /\ sessions' \in {sessions, Closed}
  /\ run' = [Onward EXCEPT !.clean = FALSE]
  /\ said' = said \cup {run.session}
  /\ UNCHANGED <<history, runs, finished>>

RunEnds ==
  /\ run.state = "next" /\ (run.cancelled \/ run.todo = <<>>)
  /\ run' = NoRun
  /\ finished' = IF run.clean THEN finished \cup {<<run.scanned, run.before>>} ELSE finished
  /\ UNCHANGED <<history, sessions, runs, importFaults, said>>

-----------------------------------------------------------------------------
TranscriptsInit ==
  /\ history \in Histories
  /\ run = NoRun /\ sessions = <<>> /\ runs = MaxRuns /\ importFaults = MaxImportFaults
  /\ said = {} /\ finished = {}

TranscriptsNext ==
  \/ \E limit \in 1 .. Len(ScanJSONL) : ImportTranscripts(limit)
  \/ Interrupt
  \/ \E at \in {"next", "fill", "close"} : ImportKilled(at)
  \/ StartSession \/ CreateFails \/ AddObservations \/ AddFails \/ EndImported \/ EndFails
  \/ RunEnds

TranscriptsSpec == TranscriptsInit /\ [][TranscriptsNext]_transcriptVars

-----------------------------------------------------------------------------
(* Properties *)

Complete(s) == s.ended /\ s.stored = ParseJSONL(s.of).observations

(***************************************************************************)
(* Whatever fails or is cut off, a session has the beginning of its         *)
(* transcript, in order and without a gap; and one that is not whole and    *)
(* closed when no import works on it is one the command said so of, or did  *)
(* not live to.                                                             *)
(***************************************************************************)
BeginningsStored ==
  \A i \in 1 .. Len(sessions) :
    /\ IsPrefix(sessions[i].stored, ParseJSONL(sessions[i].of).observations)
    /\ Complete(sessions[i]) \/ i = run.session \/ i \in said

(***************************************************************************)
(* A run that printed no error has left a whole session for each transcript *)
(* it counted, of files that could be read to their end, beside those that  *)
(* were there.                                                              *)
(***************************************************************************)
ScannedIsStored ==
  \A f \in finished : \A k \in 1 .. Len(f[1]) :
    /\ \A i \in 1 .. Len(history[f[1][k].of]) : history[f[1][k].of][i].is # "long"
    /\ \E i \in f[2] + 1 .. Len(sessions) :
         sessions[i].of = f[1][k].of /\ Complete(sessions[i]) /\ sessions[i].project = f[1][k].project

(***************************************************************************)
(* A transcript is on the server from its beginning, and whole unless the   *)
(* command said otherwise or did not live to.                               *)
(***************************************************************************)
TranscriptsStored == BeginningsStored /\ ScannedIsStored

(***************************************************************************)
(* What the command prints when it is interrupted: transcripts that were    *)
(* imported are not duplicated by a further run.                            *)
(***************************************************************************)
NotDuplicated ==
  \A i, j \in 1 .. Len(sessions) :
    Complete(sessions[i]) /\ Complete(sessions[j]) /\ sessions[i].of = sessions[j].of => i = j
=============================================================================
