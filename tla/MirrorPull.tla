---------------------------- MODULE MirrorPull ----------------------------
(***************************************************************************)
(* The pull half of a sync: GET /v1/sync answers the rows after a cursor   *)
(* (updated_at, id) (internal/store/memories.go, Changes), and Pull merges *)
(* each page into the mirror file and then moves the cursor file           *)
(* (internal/client/client.go, mirror.go).  One user's machine; a row is   *)
(* known by the write that last made it what it is.                        *)
(***************************************************************************)
EXTENDS Naturals, FiniteSets

CONSTANTS
  MemoryId,       \* a set of numbers, since the cursor compares IDs
  Write,          \* statements that stamp updated_at; each is run once
  Puller,         \* terminals in which dkm pull or dkm sync is run again and again
  PageSize,          \* the page size both sides count with
  Serial,         \* no statement is open while another or a pull reads the clock
  MaxPullTrouble, \* how many pulls crash or lose the server
  Absent

ASSUME IdAssumption == MemoryId \subseteq Nat \ {0} /\ IsFiniteSet(MemoryId)
ASSUME ParameterAssumption == PageSize \in Nat \ {0} /\ Serial \in BOOLEAN /\ MaxPullTrouble \in Nat
ASSUME AbsentAssumption == Absent \notin Write

\* What a statement makes of its row: a row the user sees, one taken out of
\* their sight (a teammate's update to private), or a tombstone in sight.
Kind == {"shown", "hidden", "deleted"}
NoWrite == [by |-> Absent, stamp |-> 0, kind |-> "hidden"]
Row == {NoWrite} \cup [by : Write, stamp : Nat, kind : Kind]

VARIABLES
  rows,    \* the committed rows
  open,    \* the statements that have read now() and not committed
  written, \* the statements that have begun
  clock,
  mirror,  \* memories.ndjson, by row
  cursor,  \* the cursor file
  pull,    \* what each Pull holds
  pullTrouble

pullVars == <<rows, open, written, clock, mirror, cursor, pull, pullTrouble>>

Start == <<0, 0>>
After(c, d) == c[1] > d[1] \/ (c[1] = d[1] /\ c[2] > d[2])
Position(m) == <<rows[m].stamp, m>>
InSight(m) == rows[m].by # Absent /\ rows[m].kind # "hidden"

\* What the mirror should hold of a row in sight.
Image(r) == IF r.kind = "deleted" THEN Absent ELSE r.by

Pulling(pc, from) == [pc |-> pc, from |-> from, page |-> {}, next |-> Start, merged |-> <<>>]
PullIdle == Pulling("idle", Start)

-----------------------------------------------------------------------------
(* The server *)

\* now() is the start of the statement.  A tombstone is written only over a
\* row that is shown; any row can be shown, edited or hidden otherwise.
Begin(w, m, kind) ==
  /\ w \notin written /\ (Serial => open = {})
  /\ written' = written \cup {w}
  /\ kind # "shown" => InSight(m)
  /\ clock' \in {clock, clock + 1}
  /\ open' = open \cup {[id |-> m, row |-> [by |-> w, stamp |-> clock', kind |-> kind]]}
  /\ UNCHANGED <<rows, mirror, cursor, pull, pullTrouble>>

\* A deleted row is not written again: every statement filters on deleted_at.
Commit(s) ==
  /\ s \in open
  /\ open' = open \ {s}
  /\ rows' = IF rows[s.id].kind = "deleted" THEN rows ELSE [rows EXCEPT ![s.id] = s.row]
  /\ UNCHANGED <<written, clock, mirror, cursor, pull, pullTrouble>>

\* BUG (a mutant of Later): the cursor is a timestamp alone.
LaterStamp(c) == {m \in MemoryId : InSight(m) /\ rows[m].stamp > c[1]}

Later(c) == {m \in MemoryId : InSight(m) /\ After(Position(m), c)}

\* ORDER BY updated_at, id LIMIT
Page(c) ==
  {m \in Later(c) : Cardinality({n \in Later(c) : After(Position(m), Position(n))}) < PageSize}

-----------------------------------------------------------------------------
(* Pull *)

PullGoto(p, state) == pull' = [pull EXCEPT ![p] = state]

PullStart(p) ==
  /\ pull[p].pc = "idle"
  /\ PullGoto(p, Pulling("ask", cursor))
  /\ UNCHANGED <<rows, open, written, clock, mirror, cursor, pullTrouble>>

\* The page is read by one statement.  What begins later has a later stamp.
PullAsk(p) ==
  /\ pull[p].pc = "ask" /\ (Serial => open = {})
  /\ clock' = IF \E m \in MemoryId : rows[m].stamp = clock THEN clock + 1 ELSE clock
  /\ LET page == Page(pull[p].from)
         last == CHOOSE m \in page : \A n \in page : ~After(Position(n), Position(m))
     IN  IF page = {} THEN PullGoto(p, PullIdle)
         ELSE pull' = [pull EXCEPT ![p].pc = "read", ![p].next = Position(last),
                         ![p].page = {[id |-> m, row |-> rows[m]] : m \in page}]
  /\ UNCHANGED <<rows, open, written, mirror, cursor, pullTrouble>>

\* BUG (a mutant of Merge): a tombstone for a row the mirror has is skipped.
MergeKeeping(page) ==
  [m \in MemoryId |->
     IF \E ch \in page : ch.id = m /\ ch.row.kind = "shown"
     THEN (CHOOSE ch \in page : ch.id = m).row.by ELSE mirror[m]]

\* Apply's merge of a page into the file as it was read.
Merge(page) ==
  [m \in MemoryId |->
     IF \E ch \in page : ch.id = m
     THEN Image((CHOOSE ch \in page : ch.id = m).row) ELSE mirror[m]]

ApplyRead(p) ==
  /\ pull[p].pc = "read"
  /\ pull' = [pull EXCEPT ![p].pc = "write", ![p].merged = Merge(pull[p].page)]
  /\ UNCHANGED <<rows, open, written, clock, mirror, cursor, pullTrouble>>

\* writeAtomic
ApplyWrite(p) ==
  /\ pull[p].pc = "write"
  /\ mirror' = pull[p].merged
  /\ pull' = [pull EXCEPT ![p].pc = "move", ![p].merged = <<>>]
  /\ UNCHANGED <<rows, open, written, clock, cursor, pullTrouble>>

\* has_more, which handleSync tells from the size of the page.
HasMore(page) == Cardinality(page) = PageSize

SetCursor(p) ==
  /\ pull[p].pc = "move"
  /\ cursor' = pull[p].next
  /\ PullGoto(p, IF HasMore(pull[p].page)
             THEN Pulling("ask", pull[p].next) ELSE PullIdle)
  /\ UNCHANGED <<rows, open, written, clock, mirror, pullTrouble>>

\* A crash, or an error of the request or of a file.
PullFails(p) ==
  /\ pull[p].pc # "idle"
  /\ pullTrouble > 0 /\ pullTrouble' = pullTrouble - 1
  /\ PullGoto(p, PullIdle)
  /\ UNCHANGED <<rows, open, written, clock, mirror, cursor>>

-----------------------------------------------------------------------------
PullInit ==
  /\ rows = [m \in MemoryId |-> NoWrite] /\ open = {} /\ written = {} /\ clock = 1
  /\ mirror = [m \in MemoryId |-> Absent] /\ cursor = Start
  /\ pull = [p \in Puller |-> PullIdle]
  /\ pullTrouble = MaxPullTrouble

PullStep(p) ==
  PullStart(p) \/ PullAsk(p) \/ ApplyRead(p) \/ ApplyWrite(p) \/ SetCursor(p)

PullNext ==
  \/ \E w \in Write, m \in MemoryId, kind \in Kind : Begin(w, m, kind)
  \/ \E s \in open : Commit(s)
  \/ \E p \in Puller : PullStep(p) \/ PullFails(p)

PullSpec == PullInit /\ [][PullNext]_pullVars

\* An open statement commits, and somebody pulls again and again.
PullFairSpec ==
  PullSpec /\ WF_pullVars(\E s \in open : Commit(s)) /\ \A p \in Puller : WF_pullVars(PullStep(p))

-----------------------------------------------------------------------------
(* What a mirror promises *)

\* No row before the cursor is skipped or out of date in the mirror: ties on
\* the timestamp, pages, edits that move a row while it is being paged over,
\* tombstones and crashes between the merge and the cursor included.
CursorCovers ==
  \A m \in MemoryId :
    InSight(m) /\ ~After(Position(m), cursor) => mirror[m] = Image(rows[m])

\* The mirror takes up every row in sight in the end, after interrupted pulls
\* too, unless the row is written again.
Converges ==
  \A m \in MemoryId, w \in Write :
    rows[m].by = w /\ rows[m].kind = "shown" ~> mirror[m] = w \/ rows[m].by # w

\* "The mirror ends the pass consistent with the server rather than one round
\* behind" (client.go:583).  A statement that read now() before the page was
\* read and committed after it is behind the cursor for ever.
NothingSkipped ==
  (\A p \in Puller : pull[p].pc = "idle") => CursorCovers
===========================================================================
