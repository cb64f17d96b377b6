---------------------------- MODULE OfflineQueue ----------------------------
(***************************************************************************)
(* Saves made while the server cannot be reached (internal/client): Save    *)
(* falls back to appending to ~/.dkm/queue.ndjson, and Push sends the file  *)
(* and takes the accepted entries out of it.  Every `dkm` command is a      *)
(* process of its own; the mirror's mutex holds only within one, so the     *)
(* file operations of two commands interleave.  The server is its promise   *)
(* to create a memory at most once per ID and per live content              *)
(* (MemoryStore).  An entry that is queued is named by the save it is of.   *)
(***************************************************************************)
EXTENDS Naturals, Sequences, SequencesExt, Sublist

CONSTANTS
  Save,      \* save commands, each run once
  Pusher,    \* terminals in which dkm push or dkm sync is run again and again
  Content,   \* the content each save writes, by save
  Rejected,  \* saves the server answers with 4xx whenever they reach it
  QueueMax,  \* sync.queue_max
  MaxTrouble \* how many crashes, 5xx and lost connections befall the pushes

ASSUME ContentAssumption == DOMAIN Content = Save
ASSUME RejectedAssumption == Rejected \subseteq Save
ASSUME LimitAssumption == QueueMax \in Nat /\ MaxTrouble \in Nat

\* The IDs a save may be stored under.  No caller of Save names one, so the
\* server draws one for a direct POST, and Enqueue draws another.
Id == Save \X {"drawn", "queued"}

VARIABLES
  queue,   \* the lines of the queue file
  writers, \* the saves that have the current queue file open
  save,    \* where each save is: "queued" or "over" at its end, in the second
           \* case without a line in the file
  push,    \* what each Push holds
  row,     \* the server's rows; a changed one was edited or forgotten since
  trouble, \* failures of pushes still to come
  taken,   \* history: the saves whose POST the server has stored or found stored
  lost     \* history: the lines that went with a replaced queue file

queueVars == <<queue, writers, save, push, row, trouble, taken, lost>>
client == <<queue, writers, save, push, lost>>

PushIdle == [pc |-> "idle", todo |-> <<>>, done |-> {}, remaining |-> <<>>]
Lines(file) == ToSet(file)

-----------------------------------------------------------------------------
(* The server's side of POST /v1/memories *)

\* The rows the dedup index holds against the content of s.
SameContent(s) == {i \in Id : row[i] = "live" /\ Content[i[1]] = Content[s]}

\* BUG (a mutant of CreateMemory): ON CONFLICT (id) DO UPDATE.
CreateMemoryUpsert(s, kind) ==
  /\ row' = IF SameContent(s) # {} THEN row ELSE [row EXCEPT ![<<s, kind>>] = "live"]
  /\ taken' = taken \cup {s}

\* BUG (a mutant of CreateMemory): only the primary key conflicts.
CreateMemoryById(s, kind) ==
  /\ row' = IF row[<<s, kind>>] # "absent" THEN row ELSE [row EXCEPT ![<<s, kind>>] = "live"]
  /\ taken' = taken \cup {s}

\* 201 with a new row, or 200 with the row of that ID or content.
CreateMemory(s, kind) ==
  /\ row' = IF row[<<s, kind>>] # "absent" \/ SameContent(s) # {}
            THEN row ELSE [row EXCEPT ![<<s, kind>>] = "live"]
  /\ taken' = taken \cup {s}

\* The owner edits or forgets the memory, from this machine or another: either
\* way the row keeps its ID and leaves the dedup index under that content.
ChangeRow(i) ==
  /\ row[i] = "live"
  /\ row' = [row EXCEPT ![i] = "changed"]
  /\ UNCHANGED <<client, trouble, taken>>

\* No answer that says 2xx: the server did its part before the connection broke,
\* or before the handler failed, or it did not.
NotAccepted(s, kind) ==
  \/ UNCHANGED <<row, taken>>
  \/ s \notin Rejected /\ CreateMemory(s, kind)

-----------------------------------------------------------------------------
(* Save, and Enqueue when the server is offline *)

PushGoto(s, pc) == save' = [save EXCEPT ![s] = pc]

SaveOnline(s) ==
  /\ save[s] = "new"
  /\ s \notin Rejected
  /\ CreateMemory(s, "drawn")
  /\ PushGoto(s, "over")
  /\ UNCHANGED <<queue, writers, push, trouble, lost>>

\* A 4xx, 5xx, a 429 to the last or an answer cut short is an error for the
\* user; nothing is queued.
SaveRefused(s) ==
  /\ save[s] = "new"
  /\ NotAccepted(s, "drawn")
  /\ PushGoto(s, "over")
  /\ UNCHANGED <<queue, writers, push, trouble, lost>>

SaveOffline(s) ==
  /\ save[s] = "new"
  /\ NotAccepted(s, "drawn")
  /\ PushGoto(s, "read")
  /\ UNCHANGED <<queue, writers, push, trouble, lost>>

EnqueueRead(s) ==
  /\ save[s] = "read"
  /\ PushGoto(s, IF Len(queue) >= QueueMax THEN "over" ELSE "open")
  /\ UNCHANGED <<queue, writers, push, row, trouble, taken, lost>>

\* O_APPEND | O_CREATE: the handle stays with this file if it is replaced.
EnqueueOpen(s) ==
  /\ save[s] = "open"
  /\ writers' = writers \cup {s}
  /\ PushGoto(s, "append")
  /\ UNCHANGED <<queue, push, row, trouble, taken, lost>>

\* The line is written and synced, and the user is told it is queued.
EnqueueAppend(s) ==
  /\ save[s] = "append"
  /\ PushGoto(s, "queued")
  /\ writers' = writers \ {s}
  /\ IF s \in writers
     THEN queue' = Append(queue, s) /\ UNCHANGED lost
     ELSE lost' = lost \cup {s} /\ UNCHANGED queue
  /\ UNCHANGED <<push, row, trouble, taken>>

SaveCrash(s) ==
  /\ save[s] \in {"read", "open", "append"}
  /\ PushGoto(s, "over")
  /\ writers' = writers \ {s}
  /\ UNCHANGED <<queue, push, row, trouble, taken, lost>>

-----------------------------------------------------------------------------
(* Push, and Dequeue at its end *)

Fail == trouble > 0 /\ trouble' = trouble - 1

PushRead(p) ==
  /\ push[p] = PushIdle
  /\ queue # <<>>
  /\ push' = [push EXCEPT ![p].pc = "post", ![p].todo = queue]
  /\ UNCHANGED <<queue, writers, save, row, trouble, taken, lost>>

PushAccepted(p) ==
  /\ push[p].pc = "post" /\ push[p].todo # <<>>
  /\ LET s == Head(push[p].todo)
     IN  /\ s \notin Rejected
         /\ CreateMemory(s, "queued")
         /\ push' = [push EXCEPT ![p].todo = Tail(@), ![p].done = @ \cup {s}]
  /\ UNCHANGED <<queue, writers, save, trouble, lost>>

\* BUG (a mutant of PushRefused): a refused entry is taken out as well.
PushRefusedDone(p) ==
  /\ push[p].pc = "post" /\ push[p].todo # <<>>
  /\ LET s == Head(push[p].todo)
     IN  /\ \/ s \in Rejected /\ UNCHANGED trouble
            \/ s \notin Rejected /\ Fail
         /\ NotAccepted(s, "queued")
         /\ push' = [push EXCEPT ![p].todo = Tail(@), ![p].done = @ \cup {s}]
  /\ UNCHANGED <<queue, writers, save, lost>>

\* BUG (a mutant of PushRefused): the first refusal ends the pass.
PushRefusedStops(p) ==
  /\ push[p].pc = "post" /\ push[p].todo # <<>>
  /\ LET s == Head(push[p].todo)
     IN  /\ \/ s \in Rejected /\ UNCHANGED trouble
            \/ s \notin Rejected /\ Fail
         /\ NotAccepted(s, "queued")
  /\ push' = [push EXCEPT ![p] = PushIdle]
  /\ UNCHANGED <<queue, writers, save, lost>>

\* "failed" is counted, the entry stays queued, and the pass goes on.
PushRefused(p) ==
  /\ push[p].pc = "post" /\ push[p].todo # <<>>
  /\ LET s == Head(push[p].todo)
     IN  /\ \/ s \in Rejected /\ UNCHANGED trouble
            \/ s \notin Rejected /\ Fail
         /\ NotAccepted(s, "queued")
  /\ push' = [push EXCEPT ![p].todo = Tail(@)]
  /\ UNCHANGED <<queue, writers, save, lost>>

\* Push returns without Dequeue, whatever was accepted before.
PushOffline(p) ==
  /\ push[p].pc = "post" /\ push[p].todo # <<>>
  /\ Fail
  /\ NotAccepted(Head(push[p].todo), "queued")
  /\ push' = [push EXCEPT ![p] = PushIdle]
  /\ UNCHANGED <<queue, writers, save, lost>>

DequeueRead(p) ==
  /\ push[p].pc = "post" /\ push[p].todo = <<>>
  /\ push' = [push EXCEPT ![p] =
                IF push[p].done = {} THEN PushIdle
                ELSE [@ EXCEPT !.pc = "replace",
                               !.remaining = Without(queue, push[p].done)]]
  /\ UNCHANGED <<queue, writers, save, row, trouble, taken, lost>>

\* The rename of writeAtomic, or os.Remove when nothing remains.
DequeueReplace(p) ==
  /\ push[p].pc = "replace"
  /\ queue' = push[p].remaining
  /\ writers' = {}
  /\ lost' = lost \cup (Lines(queue) \ (Lines(push[p].remaining) \cup push[p].done))
  /\ push' = [push EXCEPT ![p] = PushIdle]
  /\ UNCHANGED <<save, row, trouble, taken>>

PushCrash(p) ==
  /\ push[p] # PushIdle
  /\ Fail
  /\ push' = [push EXCEPT ![p] = PushIdle]
  /\ UNCHANGED <<queue, writers, save, row, taken, lost>>

-----------------------------------------------------------------------------
QueueInit ==
  /\ queue = <<>> /\ writers = {}
  /\ save = [s \in Save |-> "new"]
  /\ push = [p \in Pusher |-> PushIdle]
  /\ row = [i \in Id |-> "absent"]
  /\ trouble = MaxTrouble
  /\ taken = {} /\ lost = {}

SaveStep(s) ==
  \/ SaveOnline(s) \/ SaveRefused(s) \/ SaveOffline(s)
  \/ EnqueueRead(s) \/ EnqueueOpen(s) \/ EnqueueAppend(s)

\* What a Push does next, the failures left aside.
PushStep(p) ==
  \/ PushRead(p) \/ PushAccepted(p) \/ PushRefused(p)
  \/ DequeueRead(p) \/ DequeueReplace(p)

QueueNext ==
  \/ \E s \in Save : SaveStep(s) \/ SaveCrash(s)
  \/ \E p \in Pusher : PushStep(p) \/ PushOffline(p) \/ PushCrash(p)
  \/ \E i \in Id : ChangeRow(i)

QueueSpec == QueueInit /\ [][QueueNext]_queueVars

\* Somebody runs dkm push again while there is something to send, and a
\* command that is running gets on.  Saves, edits and failures need not happen.
QueueFairSpec == QueueSpec /\ \A p \in Pusher : WF_queueVars(PushStep(p))

-----------------------------------------------------------------------------
(* What the queue promises *)

Queued(s) == save[s] = "queued"
Both(s) == row[<<s, "drawn">>] # "absent" /\ row[<<s, "queued">>] # "absent"

\* What the user was told is queued is in the file or was taken by the server,
\* through interrupted, refused and repeated pushes, unless its line went with
\* a file that a push of another process replaced at that moment.
LostOnlyByRace ==
  \A s \in Save : Queued(s) => s \in Lines(queue) \cup taken \cup lost

\* A save whose answer was lost is queued under a second ID.  The flush makes
\* a second row of it only when the first was edited or forgotten meanwhile.
SecondRowOnlyAfterEdit ==
  \A s \in Save : Both(s) => row[<<s, "drawn">>] # "live" \/ row[<<s, "queued">>] # "live"

\* A save that could not be sent is stored once: not lost, and not doubled.
SavedOnce == LostOnlyByRace /\ SecondRowOnlyAfterEdit

\* Sending an entry again, after an interrupted pass or from two terminals at
\* once, never undoes what its owner did to the row since.
FlushKeepsEdits ==
  [][\A i \in Id : row[i] = "changed" => row'[i] = "changed"]_queueVars

\* A queued save reaches the server although entries before it are refused on
\* every pass and passes are interrupted.
RefusedNeverBlocks ==
  \A s \in Save \ Rejected : Queued(s) ~> s \in taken \cup lost
=============================================================================
