------------------------------- MODULE Connect -------------------------------
(***************************************************************************)
(* `dkm connect` and `dkm disconnect` (internal/connect, internal/cli/      *)
(* setup.go): the configuration files of the agent hosts of a machine,      *)
(* which dkm reads, changes and writes back while the user and the hosts    *)
(* edit the same files.  A file is what it holds of dkm's and of the        *)
(* user's; the lifecycle events of the hook file are treated alike and one  *)
(* stands for them.  The three files differ in how they are merged:         *)
(*   "servers"   a JSON file with one server entry of dkm's                 *)
(*   "hooks"     a JSON file with a list of entries per event               *)
(*   "sections"  Codex's config.toml, edited as text                        *)
(***************************************************************************)
EXTENDS Naturals, SequencesExt, Sublist

CONSTANTS
  Binary,      \* where the program may be installed
  Plain,       \* the binaries whose hook commands contain "dkm hook"
  Entry,       \* servers, hooks and settings of the user's own
  MaxCommands, MaxEdits, MaxFaults,
  Nobody, Gone \* no binary; no binary any more

ASSUME PlainAssumption == Plain \subseteq Binary
ASSUME NobodyAssumption == Nobody \notin Binary /\ Gone \notin Binary /\ Nobody # Gone
ASSUME ConnectBounds == MaxCommands \in Nat /\ MaxEdits \in Nat /\ MaxFaults \in Nat

File == {"servers", "hooks", "sections"}

VARIABLES
  disk,                    \* each file
  bak,                     \* its .bak
  skill,                   \* SKILL.md is installed
  command,                 \* the dkm that runs: what it does, the files it has to go, the
                           \* file it read and what it will write
  commands, edits, faults, \* what the bounds leave
  wanted,                  \* history: the entries the user has put in a file, outside dkm's
  raced,                   \* history: the files edited between a command's read and write
  cut,                     \* history: the files whose write was cut short
  restarted,               \* history: the files that lost something and were written anew
  settled                  \* history: the binary of the last connect, or Gone after a
                           \* disconnect, if it reported no error and no file was edited since

connectVars == <<disk, bak, skill, command, commands, edits, faults, wanted, raced, cut,
          restarted, settled>>

\* An entry, a section or a hook group of dkm's, with what the user put in it.
Ours == [binary : Binary, extra : SUBSET Entry]

\* raw: not as MarshalIndent writes it.
Content == [form : {"absent", "empty", "broken", "null", "object"},
            mine : UNION {[1 .. n -> Ours] : n \in 0 .. MaxCommands},
            theirs : SUBSET Entry, raw : BOOLEAN]

Absent == [form |-> "absent", mine |-> <<>>, theirs |-> {}, raw |-> FALSE]
Empty == [Absent EXCEPT !.form = "empty"]
Torn == [Absent EXCEPT !.form = "broken"]

Idle == [op |-> "idle", binary |-> Nobody, todo |-> <<>>, step |-> "next",
         read |-> Absent, out |-> Absent, ok |-> TRUE]

-----------------------------------------------------------------------------
(* What a command makes of a file *)

\* entryMentionsDKM looks for "dkm hook" in the command: `dkm.exe hook` and a
\* quoted path do not contain it.
EntryMentionsDKM(group) == group.binary \in Plain

\* BUG (a mutant of WriteClaudeHooks): earlier hooks stay.
WriteClaudeHooksAdding(groups, binary) == Append(groups, [binary |-> binary, extra |-> {}])

RemoveHooks(groups) == Without(groups, {g \in Ours : EntryMentionsDKM(g)})

WriteClaudeHooks(groups, binary) == Append(RemoveHooks(groups), [binary |-> binary, extra |-> {}])

\* What is dkm's in a file after the command.
Mutated(f, c) ==
  CASE command.op = "connect" /\ f = "hooks" -> WriteClaudeHooks(c.mine, command.binary)
    [] command.op = "connect" /\ f # "hooks" -> <<[binary |-> command.binary, extra |-> {}]>>
    [] command.op = "disconnect" /\ f = "hooks" -> RemoveHooks(c.mine)
    [] command.op = "disconnect" /\ f # "hooks" -> <<>>

\* BUG (a mutant of MergeJSON): the file is replaced by dkm's part of it.
MergeJSONReplacing(f, c) ==
  [form |-> "object", mine |-> Mutated(f, c), theirs |-> {}, raw |-> FALSE]

\* The document is decoded and encoded again.
MergeJSON(f, c) ==
  [form |-> "object", mine |-> Mutated(f, c), theirs |-> c.theirs, raw |-> FALSE]

\* One section is replaced in the text.
EditTOML(f, c) ==
  [c EXCEPT !.mine = Mutated(f, c),
            !.form = IF c.form \in {"absent", "empty"} THEN "object" ELSE @]

Merged(f, c) == IF f = "sections" THEN EditTOML(f, c) ELSE MergeJSON(f, c)

\* A file that is not JSON is refused; text is never parsed.
Refused(f, c) == c.form = "broken" /\ f # "sections"

\* A document that is `null` decodes to a nil map, and assigning to it panics.
Panics(c) == c.form = "null" /\ command.op = "connect"

\* Nothing to write: the rendered bytes are those of the file, or disconnect
\* finds no file, no section, or nothing in a `null` document.
Unchanged(f, c) ==
  \/ Merged(f, c) = c
  \/ command.op = "disconnect" /\ c.form \in {"absent", "null"}
  \/ command.op = "disconnect" /\ f = "sections" /\ c.mine = <<>>

\* IsConnected: dkm's entry is in the host's configuration.
IsConnected(f) == disk[f].mine # <<>> /\ (disk[f].form = "object" \/ f = "sections")

-----------------------------------------------------------------------------
(* The command *)

Running == command.op # "idle"

\* The files of the hosts that --all finds, a host's own one after the other.
Plan == <<"servers", "hooks", "sections">>

Begin(op, binary) ==
  /\ ~Running /\ commands > 0
  /\ commands' = commands - 1
  /\ command' = [Idle EXCEPT !.op = op, !.binary = binary, !.todo = Plan]
  /\ settled' = IF op = "connect" /\ settled = binary THEN settled ELSE Nobody
  /\ UNCHANGED <<disk, bak, skill, edits, faults, wanted, raced, cut, restarted>>

\* When all of its files are done a command has settled, unless one failed.
Finished(ok) ==
  /\ command' = Idle
  /\ settled' = IF ~ok \/ ~command.ok THEN Nobody
                ELSE IF command.op = "connect" THEN command.binary ELSE Gone

\* On to the next file; `left` is what is left to do.
Proceed(left, ok) ==
  IF left = <<>> THEN Finished(ok)
  ELSE /\ command' = [command EXCEPT !.todo = left, !.step = "next", !.ok = @ /\ ok,
                                     !.read = Absent, !.out = Absent]
       /\ UNCHANGED settled

\* After an error the host's other files are left alone, and the next host goes on.
AfterError(f) == IF f = "servers" THEN <<"sections">> ELSE Tail(command.todo)

\* Disconnect leaves a host whose configuration file is missing.
AfterRead(f, c) ==
  IF command.op = "disconnect" /\ f = "servers" /\ c.form = "absent" THEN <<"sections">>
  ELSE Tail(command.todo)

\* ReadFile, mutate, render; a skill is written when the hooks are done.
ReadFile ==
  /\ Running /\ command.step = "next"
  /\ LET f == Head(command.todo)
         c == disk[f]
     IN  /\ CASE Refused(f, c) -> Proceed(AfterError(f), FALSE)
              [] Panics(c) -> Finished(FALSE)
              [] ~Refused(f, c) /\ ~Panics(c) /\ Unchanged(f, c) -> Proceed(AfterRead(f, c), TRUE)
              [] OTHER ->
                   /\ command' = [command EXCEPT !.read = c, !.out = Merged(f, c),
                        !.step = IF c.form \in {"absent", "empty"} THEN "truncate" ELSE "backup"]
                   /\ UNCHANGED settled
         /\ skill' = (skill \/ (f = "hooks" /\ command.op = "connect" /\ Unchanged(f, c)))
  /\ UNCHANGED <<disk, bak, commands, edits, faults, wanted, raced, cut, restarted>>

\* The file, if what was read of it lacks an entry.
Lacking(c) == {f \in {Head(command.todo)} : ~(wanted[f] \subseteq c.theirs)}

\* The original, as it was read, to .bak.
Backup ==
  /\ Running /\ command.step = "backup"
  /\ bak' = [bak EXCEPT ![Head(command.todo)] = command.read]
  /\ command' = [command EXCEPT !.step = "truncate"]
  /\ restarted' = restarted \cup Lacking(command.read)
  /\ UNCHANGED <<disk, skill, commands, edits, faults, wanted, raced, cut, settled>>

\* os.WriteFile opens with O_TRUNC and writes then.
Truncate ==
  /\ Running /\ command.step = "truncate"
  /\ disk' = [disk EXCEPT ![Head(command.todo)] = Empty]
  /\ command' = [command EXCEPT !.step = "write"]
  /\ UNCHANGED <<bak, skill, commands, edits, faults, wanted, raced, cut, restarted, settled>>

Write ==
  /\ Running /\ command.step = "write"
  /\ LET f == Head(command.todo)
     IN  /\ disk' = [disk EXCEPT ![f] = command.out]
         /\ Proceed(Tail(command.todo), TRUE)
         /\ skill' = (skill \/ (f = "hooks" /\ command.op = "connect"))
  /\ restarted' = restarted \cup Lacking(command.read)
  /\ UNCHANGED <<bak, commands, edits, faults, wanted, raced, cut>>

\* Nothing or part of what was to be written: of the file, or of its backup.
HalfWritten(f) ==
  \E part \in {Empty, Torn} :
    IF command.step = "write"
    THEN disk' = [disk EXCEPT ![f] = part] /\ cut' = cut \cup {f} /\ UNCHANGED <<bak, restarted>>
    ELSE /\ bak' = [bak EXCEPT ![f] = part]
         /\ restarted' = restarted \cup Lacking(command.read)
         /\ UNCHANGED <<disk, cut>>

\* The disk is full or the file cannot be written: part of it may be.  The
\* backup is tried first and its failure leaves the file alone.
WriteFails ==
  /\ Running /\ command.step \in {"backup", "write"} /\ faults > 0
  /\ faults' = faults - 1
  /\ LET f == Head(command.todo)
     IN  HalfWritten(f) /\ Proceed(AfterError(f), FALSE)
  /\ UNCHANGED <<skill, commands, edits, wanted, raced>>

\* The command is killed, between two steps or within a write.
Killed ==
  /\ Running /\ faults > 0
  /\ faults' = faults - 1
  /\ \/ command.step \in {"backup", "write"} /\ HalfWritten(Head(command.todo))
     \/ command.step # "write" /\ UNCHANGED <<disk, bak, cut, restarted>>
  /\ Finished(FALSE)
  /\ UNCHANGED <<skill, commands, edits, wanted, raced>>

-----------------------------------------------------------------------------
(* The user and the hosts *)

\* What an edit does besides the file: the next connect may find work, and a
\* command that holds the file overwrites it.
Edit(f, c, want) ==
  /\ edits > 0 /\ edits' = edits - 1
  /\ disk' = [disk EXCEPT ![f] = c]
  /\ wanted' = [wanted EXCEPT ![f] = want]
  /\ raced' = IF Running /\ Head(command.todo) = f /\ command.step # "next"
              THEN raced \cup {f} ELSE raced
  /\ restarted' = IF ~(wanted[f] \subseteq disk[f].theirs) THEN restarted \cup {f} ELSE restarted
  /\ settled' = Nobody
  /\ command' = [command EXCEPT !.ok = FALSE]
  /\ UNCHANGED <<bak, skill, commands, faults, cut>>

\* An entry of the user's own.  A host that finds no readable file starts anew.
Add(f, e) ==
  \E raw \in BOOLEAN :
    Edit(f, [disk[f] EXCEPT !.form = IF @ = "broken" THEN @ ELSE "object",
                            !.theirs = @ \cup {e}, !.raw = raw],
         wanted[f] \cup {e})

Drop(f, e) ==
  /\ e \in disk[f].theirs
  /\ Edit(f, [disk[f] EXCEPT !.theirs = @ \ {e}], wanted[f] \ {e})

\* A setting within what dkm wrote: in its hook group, its section, its entry.
AddWithin(f, e) ==
  /\ disk[f].mine # <<>>
  /\ Edit(f, [disk[f] EXCEPT !.mine[1].extra = @ \cup {e}], wanted[f])

\* A comma is lost, and found.
Spoil(f) ==
  /\ disk[f].form \in {"object", "broken"}
  /\ Edit(f, [disk[f] EXCEPT !.form = IF @ = "object" THEN "broken" ELSE "object", !.raw = TRUE],
          wanted[f])

\* The file is deleted, or left holding `null`: nothing of it is wanted.
Discard(f) ==
  \/ Edit(f, Absent, {})
  \/ f # "sections" /\ Edit(f, [Absent EXCEPT !.form = "null"], {})

-----------------------------------------------------------------------------
ConnectInit ==
  /\ wanted \in [File -> SUBSET Entry]
  /\ disk = [f \in File |-> IF wanted[f] = {} THEN Absent
                            ELSE [Absent EXCEPT !.form = "object", !.theirs = wanted[f], !.raw = TRUE]]
  /\ bak = [f \in File |-> Absent]
  /\ skill = FALSE /\ command = Idle
  /\ commands = MaxCommands /\ edits = MaxEdits /\ faults = MaxFaults
  /\ raced = {} /\ cut = {} /\ restarted = {} /\ settled = Nobody

UserStep ==
  \E f \in File :
    \/ \E e \in Entry : Add(f, e) \/ Drop(f, e) \/ AddWithin(f, e)
    \/ Spoil(f) \/ Discard(f)

ConnectNext ==
  \/ \E b \in Binary : Begin("connect", b)
  \/ Begin("disconnect", Nobody)
  \/ ReadFile \/ Backup \/ Truncate \/ Write \/ WriteFails \/ Killed
  \/ UserStep

ConnectSpec == ConnectInit /\ [][ConnectNext]_connectVars

-----------------------------------------------------------------------------
(* Properties *)

(***************************************************************************)
(* Merge, never overwrite: what the user put in a file is in the file or in *)
(* its .bak, through crashes, full disks and files dkm cannot read.  It can *)
(* only be lost by an edit between a command's read and its write, or when  *)
(* a write was cut short and the host, the user or another connect then     *)
(* writes the file, or its .bak, anew before it is restored: an empty file, *)
(* or half a config.toml, which is text and never parsed, is as good as any *)
(* to dkm.                                                                  *)
(***************************************************************************)
UserEntriesKept ==
  \A f \in File \ raced :
    f \notin cut \cap restarted => wanted[f] \subseteq disk[f].theirs \cup bak[f].theirs

(***************************************************************************)
(* What a command reported is what the hosts will run.  An upgrade does not *)
(* leave two hooks racing each other: an event has one hook from the        *)
(* recognised places, the new one; and after a disconnect it has none, but  *)
(* for a host whose configuration file was missing, which dkm takes for not *)
(* connected and whose hooks it leaves.                                     *)
(***************************************************************************)
Recognised == {i \in DOMAIN disk["hooks"].mine : EntryMentionsDKM(disk["hooks"].mine[i])}
ReportHolds ==
  /\ Cardinality(Recognised) <= 1
  /\ settled \in Binary /\ ~Running =>
       /\ \A f \in {"servers", "sections"} : IsConnected(f) /\ disk[f].mine[1].binary = settled
       /\ disk["hooks"].mine # <<>> /\ Last(disk["hooks"].mine).binary = settled
  /\ settled = Gone =>
       /\ \A f \in {"servers", "sections"} : ~IsConnected(f)
       /\ Recognised = {} \/ disk["servers"].form = "absent"

=============================================================================
