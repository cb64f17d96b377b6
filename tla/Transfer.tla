------------------------------ MODULE Transfer ------------------------------
(***************************************************************************)
(* `dkm export` and `dkm import ndjson` (internal/api/handlers_transfer.go, *)
(* internal/client, internal/cli/transfer.go): an account is streamed to a  *)
(* file by pages while its team goes on working, and the file is read into  *)
(* another account, line by line, as often as the user tries.  Edits of     *)
(* the file by hand are among the files an import may meet.                 *)
(***************************************************************************)
EXTENDS Naturals, SequencesExt, Sublist

CONSTANTS
  MaxId,     \* IDs are numbered in their order
  Wording,   \* what a memory says
  Initial,   \* the accounts an export may start from
  ByHand,    \* files people have written
  PageLimit, \* rows of a page of ListMemories
  MaxTransferChanges, MaxTransferFaults, MaxImports

ASSUME TransferBounds ==
  /\ MaxId \in Nat /\ PageLimit \in Nat \ {0}
  /\ MaxTransferChanges \in Nat /\ MaxTransferFaults \in Nat /\ MaxImports \in Nat

RowId == 1 .. MaxId

\* A row of the user or of a teammate.
SourceRow == [owner : {"me", "mate"}, says : Wording, shared : BOOLEAN, superseded : BOOLEAN, live : BOOLEAN]
NoSourceRow == [owner |-> "me", says |-> CHOOSE w \in Wording : TRUE, shared |-> FALSE,
                superseded |-> FALSE, live |-> FALSE]

Memory(id, w) == [is |-> "memory", id |-> id, says |-> w]
Refusable(w) == [is |-> "invalid", says |-> w]  \* a memory CreateMemory refuses
ErrorRecord == [is |-> "error"]
HalfLine == [is |-> "malformed"]
Blank == [is |-> "blank"]
Line == [is : {"memory"}, id : RowId, says : Wording] \cup [is : {"invalid"}, says : Wording]
          \cup {ErrorRecord, HalfLine, Blank}

ASSUME InitialAssumption == Initial \subseteq [RowId -> SourceRow]
ASSUME ByHandAssumption == ByHand \subseteq Seq(Line)

VARIABLES
  source,                                   \* the rows of the account's team, by ID
  export,                                   \* the export under way: its scope, its cursor, how it stands
  file,                                     \* what it has written
  target,                                   \* how many live memories of each wording the importing account has
  import,                                   \* the import under way: the lines it has still to read, its counts
  imports, transferChanges, transferFaults, \* what the bounds leave
  steady,                                   \* history: the IDs exportable from the start of the export on
  removed,                                  \* history: the wordings the user has removed from the target
                                            \* since the import began
  done                                      \* history: the file as a finished import has read it without
                                            \* failures, and nothing was removed since

transferVars == <<source, export, file, target, import, imports, transferChanges,
                  transferFaults, steady, removed, done>>

Fault == transferFaults > 0 /\ transferFaults' = transferFaults - 1

-----------------------------------------------------------------------------
(* Export *)

\* What ListMemories selects: history that was superseded is exported too.
Exportable(row, scope) ==
  row.live /\ (row.owner = "me" \/ (scope = "team" /\ row.shared))

Descending(ids) == Without([k \in RowId |-> MaxId + 1 - k], RowId \ ids)

\* BUG (a mutant of ListMemories): the cursor is the row read to see if more exist.
ListMemoriesExtra(scope, cursor) ==
  LET page == Descending({i \in RowId : Exportable(source[i], scope) /\ (cursor = 0 \/ i < cursor)})
  IN  IF Len(page) <= PageLimit THEN [ids |-> page, next |-> 0]
      ELSE [ids |-> SubSeq(page, 1, PageLimit), next |-> page[PageLimit + 1]]

\* A page by descending IDs, and the cursor of the next.
ListMemories(scope, cursor) ==
  LET page == Descending({i \in RowId : Exportable(source[i], scope) /\ (cursor = 0 \/ i < cursor)})
  IN  IF Len(page) <= PageLimit THEN [ids |-> page, next |-> 0]
      ELSE [ids |-> SubSeq(page, 1, PageLimit), next |-> page[PageLimit]]

ExportStart(scope) ==
  /\ export.state = "new"
  /\ export' = [state |-> "paging", scope |-> scope, cursor |-> 0]
  /\ file' = <<>>
  /\ steady' = {i \in RowId : Exportable(source[i], scope)}
  /\ UNCHANGED <<source, target, import, imports, transferChanges, transferFaults, removed, done>>

\* One statement, its rows encoded and flushed.
ExportPage ==
  /\ export.state = "paging"
  /\ LET page == ListMemories(export.scope, export.cursor)
     IN  /\ file' = file \o [k \in 1 .. Len(page.ids) |-> Memory(page.ids[k], source[page.ids[k]].says)]
         /\ export' = [export EXCEPT !.cursor = page.next,
                                     !.state = IF page.next = 0 THEN "written" ELSE @]
  /\ UNCHANGED <<source, target, import, imports, transferChanges, transferFaults, steady, removed, done>>

\* BUG (a mutant of ExportFails): the stream just ends.
ExportFailsSilently ==
  /\ export.state = "paging" /\ Fault
  /\ export' = [export EXCEPT !.state = "written"]
  /\ UNCHANGED <<source, file, target, import, imports, transferChanges, steady, removed, done>>

\* The statement fails when the status is sent: an error record ends a stream
\* that the command takes for whole.
ExportFails ==
  /\ export.state = "paging" /\ Fault
  /\ file' = Append(file, ErrorRecord)
  /\ export' = [export EXCEPT !.state = "written"]
  /\ UNCHANGED <<source, target, import, imports, transferChanges, steady, removed, done>>

\* The connection is lost and with it what was not flushed; the command says so.
ExportLost ==
  /\ export.state = "paging" /\ Fault
  /\ export' = [export EXCEPT !.state = "failed"]
  /\ \E n \in 0 .. Len(file), half \in BOOLEAN :
       file' = SubSeq(file, 1, n) \o (IF half THEN <<HalfLine>> ELSE <<>>)
  /\ UNCHANGED <<source, target, import, imports, transferChanges, steady, removed, done>>

\* Somebody creates, edits, shares, supersedes or deletes a memory meanwhile; an
\* ID may come from a queue and be older than others.
SourceChange(i, row) ==
  /\ export.state = "paging" /\ transferChanges > 0
  /\ row # source[i] /\ (source[i] # NoSourceRow => source[i].live /\ row.owner = source[i].owner)
  /\ source' = [source EXCEPT ![i] = row]
  /\ transferChanges' = transferChanges - 1
  /\ steady' = IF Exportable(row, export.scope) THEN steady ELSE steady \ {i}
  /\ UNCHANGED <<export, file, target, import, imports, transferFaults, removed, done>>

-----------------------------------------------------------------------------
(* Import *)

Zero == [imported |-> 0, duplicate |-> 0, skipped |-> 0]
NoImport == [state |-> "none", todo |-> <<>>, count |-> Zero, refused |-> FALSE]

\* The dry run: the lines that are records, and those it takes for memories.
ImportPreview(lines) ==
  LET of(kinds) == Cardinality({k \in DOMAIN lines : lines[k].is \in kinds})
  IN  [records |-> of({"memory", "invalid", "error", "malformed"}),
       memories |-> of({"memory", "invalid"}), malformed |-> of({"malformed"})]

ImportStart ==
  /\ export.state \notin {"new", "paging"} /\ import.state # "reading" /\ imports > 0
  /\ imports' = imports - 1
  /\ import' = [NoImport EXCEPT !.state = "reading", !.todo = file]
  /\ removed' = {}
  /\ UNCHANGED <<source, export, file, target, transferChanges, transferFaults, steady, done>>

Counted(field) == [import EXCEPT !.todo = Tail(@), !.count[field] = @ + 1]

\* A line that is no memory.
ImportOther ==
  /\ import.state = "reading" /\ import.todo # <<>> /\ Head(import.todo).is # "memory"
  /\ import' = CASE Head(import.todo).is = "blank" -> [import EXCEPT !.todo = Tail(@)]
                 [] Head(import.todo).is = "invalid" -> [Counted("skipped") EXCEPT !.refused = TRUE]
                 [] OTHER -> Counted("skipped")
  /\ UNCHANGED <<source, export, file, target, imports, transferChanges, transferFaults, steady, removed, done>>

\* BUG (a mutant of ImportMemory): nothing is a duplicate.
ImportMemoryAgain ==
  /\ import.state = "reading" /\ import.todo # <<>> /\ Head(import.todo).is = "memory"
  /\ target' = [target EXCEPT ![Head(import.todo).says] = @ + 1]
  /\ import' = Counted("imported")
  /\ UNCHANGED <<source, export, file, imports, transferChanges, transferFaults, steady, removed, done>>

\* CreateMemory under an ID of its own: a live memory of the wording is a duplicate.
ImportMemory ==
  /\ import.state = "reading" /\ import.todo # <<>> /\ Head(import.todo).is = "memory"
  /\ LET w == Head(import.todo).says
     IN  IF target[w] > 0 THEN import' = Counted("duplicate") /\ UNCHANGED target
         ELSE /\ target' = [target EXCEPT ![w] = 1]
              /\ import' = Counted("imported")
  /\ UNCHANGED <<source, export, file, imports, transferChanges, transferFaults, steady, removed, done>>

\* The insert fails: the line is counted and the import goes on.
ImportRefused ==
  /\ import.state = "reading" /\ import.todo # <<>> /\ Head(import.todo).is = "memory" /\ Fault
  /\ import' = [Counted("skipped") EXCEPT !.refused = TRUE]
  /\ UNCHANGED <<source, export, file, target, imports, transferChanges, steady, removed, done>>

\* The whole file is read and the counts are answered.
ImportEnd ==
  /\ import.state = "reading" /\ import.todo = <<>>
  /\ import' = [import EXCEPT !.state = "answered"]
  /\ done' = IF import.refused \/ removed # {} THEN done ELSE file
  /\ UNCHANGED <<source, export, file, target, imports, transferChanges, transferFaults, steady, removed>>

\* The stream breaks off or the answer is lost: what was read is stored.
ImportLost ==
  /\ import.state = "reading" /\ Fault
  /\ import' = [import EXCEPT !.state = "lost"]
  /\ UNCHANGED <<source, export, file, target, imports, transferChanges, steady, removed, done>>

\* The user saves or deletes beside the import; an edit does both.
TargetChange(w) ==
  /\ transferChanges > 0 /\ export.state \notin {"new", "paging"}
  /\ transferChanges' = transferChanges - 1
  /\ target' = [target EXCEPT ![w] = IF @ = 0 THEN 1 ELSE @ - 1]
  /\ removed' = IF target[w] > 0 THEN removed \cup {w} ELSE removed
  /\ done' = IF target[w] > 0 THEN <<>> ELSE done
  /\ UNCHANGED <<source, export, file, import, imports, transferFaults, steady>>

-----------------------------------------------------------------------------
TransferInit ==
  /\ source \in Initial /\ steady = {}
  /\ \/ export = [state |-> "new", scope |-> "me", cursor |-> 0] /\ file = <<>>
     \/ export = [state |-> "none", scope |-> "me", cursor |-> 0] /\ file \in ByHand
  /\ target \in [Wording -> {0}] \cup [Wording -> {1}]
  /\ import = NoImport /\ imports = MaxImports
  /\ transferChanges = MaxTransferChanges /\ transferFaults = MaxTransferFaults
  /\ removed = {} /\ done = <<>>

TransferNext ==
  \/ \E scope \in {"me", "team"} : ExportStart(scope)
  \/ ExportPage \/ ExportFails \/ ExportLost
  \/ \E i \in RowId, row \in SourceRow : SourceChange(i, row)
  \/ ImportStart \/ ImportOther \/ ImportMemory \/ ImportRefused \/ ImportEnd \/ ImportLost
  \/ \E w \in Wording : TargetChange(w)

TransferSpec == TransferInit /\ [][TransferNext]_transferVars

-----------------------------------------------------------------------------
(* Properties *)

Exported == {k \in 1 .. Len(file) : file[k].is = "memory"}

(***************************************************************************)
(* An export that the command reports as done has, exactly once, every      *)
(* memory that was to be exported all the while, whatever else was created, *)
(* deleted, shared or edited between its pages; or its last line is an      *)
(* error record.  It is never silently short.                               *)
(***************************************************************************)
NeverSilentlyShort ==
  export.state = "written" =>
    /\ \A j, k \in Exported : file[j].id = file[k].id => j = k
    /\ (file # <<>> /\ Last(file) = ErrorRecord) \/ steady \subseteq {file[k].id : k \in Exported}

(***************************************************************************)
(* An import that was answered and refused nothing has left every memory of *)
(* the file in the account, once, but for what the user removed since it    *)
(* began; and a further one of the same file adds nothing.                  *)
(***************************************************************************)
ImportLands ==
  /\ \A w \in Wording : target[w] <= 1
  /\ import.state = "answered" /\ ~import.refused =>
       \A k \in Exported : target[file[k].says] = 1 \/ file[k].says \in removed
  /\ done # <<>> /\ done = file => \A k \in Exported : target[file[k].says] = 1

(***************************************************************************)
(* The dry run tells what the import does: the records it counts are those  *)
(* that are imported, duplicate or skipped, and the memories those that are *)
(* not skipped, unless the store refuses one.                               *)
(***************************************************************************)
DryRunHolds ==
  import.state = "answered" =>
    LET p == ImportPreview(file)
        c == import.count
    IN  /\ p.records = c.imported + c.duplicate + c.skipped
        /\ p.memories >= c.imported + c.duplicate
        /\ ~import.refused => p.memories = c.imported + c.duplicate

(***************************************************************************)
(* An import does what it said: what the file has is in the account, once,  *)
(* and it is what the dry run counted.                                      *)
(***************************************************************************)
ImportSound == ImportLands /\ DryRunHolds

(***************************************************************************)
(* What leaves one account by a file arrives in the other, or it is said    *)
(* that it does not.                                                        *)
(***************************************************************************)
TransferSound == NeverSilentlyShort /\ ImportSound
=============================================================================
