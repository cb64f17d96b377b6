---------------------------- MODULE MemoryStore ----------------------------
(***************************************************************************)
(* The memories table of the server (internal/store/memories.go) under     *)
(* concurrent API calls.  A statement runs alone; a handler that sends     *)
(* several statements is several actions, and what it read stays in the    *)
(* handler while other handlers run.  One team and one project are         *)
(* modelled: every statement filters on them by equality.  Strength, hits  *)
(* and timestamps are left out, and with them Reinforce and Decay.         *)
(***************************************************************************)
EXTENDS Naturals

CONSTANTS
  User,     \* members of the team
  MemoryId, \* ULIDs
  Title,    \* wordings of a title
  Body,     \* wordings of a body
  Normal,   \* what normalise() makes of a wording
  Call,     \* API calls; each is handled once, so |Call| bounds a run
  Caller,   \* whose API key each call carries
  NoRow, NoMemory, NoVector, Keep

ASSUME CallerAssumption == Caller \in [Call -> User]
ASSUME NormalAssumption == \A w \in Title \cup Body : w \in DOMAIN Normal
ASSUME DistinctKeep == Keep \notin Title /\ Keep \notin Body

Visibility == {"private", "team"}
Text == Title \X Body

\* Case and white space do not count for a duplicate.
ContentHash(title, body) == <<Normal[title], Normal[body]>>
Hash == {ContentHash(t, b) : t \in Title, b \in Body}

Row == [user : User, title : Title, body : Body, hash : Hash,
        visibility : Visibility, superseded_by : MemoryId \cup {NoMemory},
        deleted : BOOLEAN, embedding : Text \cup {NoVector}]

ASSUME DistinctNoRow == NoRow \notin Row
ASSUME DistinctNoMemory == NoMemory \notin MemoryId
ASSUME DistinctNoVector == NoVector \notin Text

\* What a handler holds between two of its statements.
NewCall == [pc |-> "new"]
ByIdCall   == [pc : {"byid"}, id : MemoryId, hash : Hash]
ByHashCall == [pc : {"byhash"}, id : MemoryId, hash : Hash]
WriteCall  == [pc : {"write"}, id : MemoryId, title : Title, body : Body,
               visibility : Visibility, bodyChanged : BOOLEAN,
               reembed : BOOLEAN]
EmbedCall  == [pc : {"embed"}, id : MemoryId, title : Title, body : Body]
LinkCall   == [pc : {"link"}, old : MemoryId, new : MemoryId]
DoneCall   == [pc : {"done"}, outcome : {"created", "existing", "ok",
                                         "notfound", "forbidden", "conflict"},
               id : MemoryId \cup {NoMemory}]
CallState == {NewCall} \cup ByIdCall \cup ByHashCall \cup WriteCall
               \cup EmbedCall \cup LinkCall \cup DoneCall

VARIABLES
  table,   \* the memories table by primary key
  call,    \* the state of each API call
  backfill \* the texts the running embedding backfill read, by row

vars == <<table, call, backfill>>

Stored(m) == table[m] # NoRow
Live(m) == Stored(m) /\ ~table[m].deleted
Owns(u, m) == table[m].user = u
Visible(u, m) == Owns(u, m) \/ table[m].visibility = "team"
Editable(u, m) == Live(m) /\ Owns(u, m)

\* The rows the partial unique index holds against (user, hash).
Duplicates(u, hash) == {m \in MemoryId : Live(m) /\ Owns(u, m) /\ table[m].hash = hash}

Answer(c, outcome, m) ==
  call' = [call EXCEPT ![c] = [pc |-> "done", outcome |-> outcome, id |-> m]]
Continue(c, state) == call' = [call EXCEPT ![c] = state]

\* UPDATE ... SET embedding WHERE id = m, which may match no row.
SetEmbedding(m, vector) ==
  table' = [table EXCEPT ![m] =
              IF Stored(m) THEN [@ EXCEPT !.embedding = vector] ELSE @]

-----------------------------------------------------------------------------
(* handleCreateMemory and CreateMemory *)

\* BUG (a mutant of CreateInsert): ON CONFLICT (id) DO UPDATE.
CreateInsertUpsert(c, m, t, b, v, vector) ==
  /\ call[c].pc = "new"
  /\ Duplicates(Caller[c], ContentHash(t, b)) = {}
  /\ table' = [table EXCEPT ![m] =
       [user |-> Caller[c], title |-> t, body |-> b, hash |-> ContentHash(t, b),
        visibility |-> v, superseded_by |-> NoMemory, deleted |-> FALSE,
        embedding |-> vector]]
  /\ Answer(c, "created", m)
  /\ UNCHANGED backfill

\* A client names the row's ID or the server draws a fresh one; the embedder
\* answers within its two seconds or the row starts without a vector.
\* Source: one INSERT ... ON CONFLICT DO NOTHING, which both the primary key
\* and the partial unique index can turn into no row.
CreateInsert(c, m, t, b, v, vector) ==
  /\ call[c].pc = "new"
  /\ IF Stored(m) \/ Duplicates(Caller[c], ContentHash(t, b)) # {}
     THEN /\ Continue(c, [pc |-> "byid", id |-> m,
                          hash |-> ContentHash(t, b)])
          /\ UNCHANGED table
     ELSE /\ table' = [table EXCEPT ![m] =
                [user |-> Caller[c], title |-> t, body |-> b, hash |-> ContentHash(t, b),
                 visibility |-> v, superseded_by |-> NoMemory, deleted |-> FALSE,
                 embedding |-> vector]]
          /\ Answer(c, "created", m)
  /\ UNCHANGED backfill

\* getMemoryUnscoped: the row of that ID, deleted or not.
CreateFindById(c) ==
  /\ call[c].pc = "byid"
  /\ IF Stored(call[c].id)
     THEN Answer(c, "existing", call[c].id)
     ELSE Continue(c, [call[c] EXCEPT !.pc = "byhash"])
  /\ UNCHANGED <<table, backfill>>

\* findByContentHash: the caller's undeleted row of that content, if the row
\* the insert ran into has not gone since.
CreateFindByHash(c) ==
  /\ call[c].pc = "byhash"
  /\ \/ \E m \in Duplicates(Caller[c], call[c].hash) : Answer(c, "existing", m)
     \/ /\ Duplicates(Caller[c], call[c].hash) = {}
        /\ Answer(c, "notfound", NoMemory)
  /\ UNCHANGED <<table, backfill>>

-----------------------------------------------------------------------------
(* handleUpdateMemory, UpdateMemory and the re-embedding that follows *)

\* BUG (a mutant of Merged): a field the patch leaves out is written as it came.
MergedBlank(patched, current) == patched

Merged(patched, current) == IF patched = Keep THEN current ELSE patched

\* GetMemory and the owner test.  A row that is gone or out of sight is 404,
\* a teammate's shared row 403.
UpdateRefused(c, m) ==
  /\ call[c].pc = "new"
  /\ ~Editable(Caller[c], m)
  /\ Answer(c, IF Live(m) /\ Visible(Caller[c], m) THEN "forbidden" ELSE "notfound", NoMemory)
  /\ UNCHANGED <<table, backfill>>

\* The patch is merged into the row as it was read.
UpdateRead(c, m, t, b, v) ==
  /\ call[c].pc = "new"
  /\ Editable(Caller[c], m)
  /\ Continue(c, [pc |-> "write", id |-> m,
                  title |-> Merged(t, table[m].title),
                  body |-> Merged(b, table[m].body),
                  visibility |-> Merged(v, table[m].visibility),
                  bodyChanged |-> Merged(b, table[m].body) # table[m].body,
                  reembed |-> t # Keep \/ b # Keep])
  /\ UNCHANGED <<table, backfill>>

\* Afterwards the handler embeds the text this call wrote, if the patch named any.
AfterUpdate(c) ==
  IF call[c].reembed
  THEN Continue(c, [pc |-> "embed", id |-> call[c].id,
                    title |-> call[c].title, body |-> call[c].body])
  ELSE Answer(c, "ok", call[c].id)

\* BUG (a mutant of Edited): only a changed body is written, but the hash is of
\* the text that was read.
EditedChangedBody(row, w) ==
  [row EXCEPT !.title = w.title,
              !.body = IF w.bodyChanged THEN w.body ELSE row.body,
              !.hash = ContentHash(w.title, w.body),
              !.visibility = w.visibility,
              !.embedding = IF w.bodyChanged THEN NoVector ELSE row.embedding]

\* What the UPDATE makes of a row: every merged field, whatever it holds by now.
Edited(row, w) ==
  [row EXCEPT !.title = w.title, !.body = w.body,
              !.hash = ContentHash(w.title, w.body),
              !.visibility = w.visibility,
              !.embedding = IF w.bodyChanged THEN NoVector ELSE row.embedding]

\* BUG (a mutant of UpdateWrite): the statement trusts the read for deleted_at.
UpdateWriteUndeleting(c) ==
  /\ call[c].pc = "write"
  /\ table' = [table EXCEPT ![call[c].id] = Edited(@, call[c])]
  /\ AfterUpdate(c)
  /\ UNCHANGED backfill

\* BUG (a mutant of UpdateWrite): no row matched is not told from one that did.
UpdateWriteUnchecked(c) ==
  LET w == call[c]
      hash == ContentHash(w.title, w.body)
  IN /\ w.pc = "write"
     /\ \/ /\ Editable(Caller[c], w.id)
           /\ Duplicates(Caller[c], hash) \ {w.id} # {}
           /\ Answer(c, "conflict", NoMemory)
           /\ UNCHANGED table
        \/ /\ Editable(Caller[c], w.id) => Duplicates(Caller[c], hash) \ {w.id} = {}
           /\ table' = [table EXCEPT ![w.id] = IF Editable(Caller[c], w.id)
                                               THEN Edited(@, w) ELSE @]
           /\ AfterUpdate(c)
     /\ UNCHANGED backfill

UpdateWrite(c) ==
  LET w == call[c]
      hash == ContentHash(w.title, w.body)
  IN /\ w.pc = "write"
     /\ \/ /\ ~Editable(Caller[c], w.id)
           /\ Answer(c, "notfound", NoMemory)
           /\ UNCHANGED table
        \/ /\ Editable(Caller[c], w.id)
           /\ Duplicates(Caller[c], hash) \ {w.id} # {}
           /\ Answer(c, "conflict", NoMemory)
           /\ UNCHANGED table
        \/ /\ Editable(Caller[c], w.id)
           /\ Duplicates(Caller[c], hash) \ {w.id} = {}
           /\ table' = [table EXCEPT ![w.id] = Edited(@, w)]
           /\ AfterUpdate(c)
     /\ UNCHANGED backfill

\* SetEmbedding with the vector of the text this call wrote, unless the
\* embedder did not answer in time.
UpdateEmbed(c) ==
  /\ call[c].pc = "embed"
  /\ \/ UNCHANGED table
     \/ SetEmbedding(call[c].id, <<call[c].title, call[c].body>>)
  /\ Answer(c, "ok", call[c].id)
  /\ UNCHANGED backfill

-----------------------------------------------------------------------------
(* DeleteMemory, Share and Supersede *)

\* BUG (a mutant of DeleteMemory): the row goes for good, and the foreign key
\* sets superseded_by of the rows that named it to NULL.
DeleteMemoryHard(c, m) ==
  /\ call[c].pc = "new"
  /\ Editable(Caller[c], m)
  /\ table' = [n \in MemoryId |->
       IF n = m \/ ~Stored(n) THEN NoRow
       ELSE IF table[n].superseded_by = m
       THEN [table[n] EXCEPT !.superseded_by = NoMemory] ELSE table[n]]
  /\ Answer(c, "ok", m)
  /\ UNCHANGED backfill

DeleteMemory(c, m) ==
  /\ call[c].pc = "new"
  /\ IF Editable(Caller[c], m)
     THEN /\ table' = [table EXCEPT ![m].deleted = TRUE]
          /\ Answer(c, "ok", m)
     ELSE Answer(c, "notfound", NoMemory) /\ UNCHANGED table
  /\ UNCHANGED backfill

Share(c, m) ==
  /\ call[c].pc = "new"
  /\ IF Editable(Caller[c], m)
     THEN /\ table' = [table EXCEPT ![m].visibility = "team"]
          /\ Answer(c, "ok", m)
     ELSE Answer(c, "notfound", NoMemory) /\ UNCHANGED table
  /\ UNCHANGED backfill

\* The first statement: the replacement is there for the caller to see.
SupersedeCheck(c, old, new) ==
  /\ call[c].pc = "new"
  /\ old # new
  /\ IF Live(new) /\ Visible(Caller[c], new)
     THEN Continue(c, [pc |-> "link", old |-> old, new |-> new])
     ELSE Answer(c, "notfound", NoMemory)
  /\ UNCHANGED <<table, backfill>>

\* BUG (a mutant of SupersedeWrite): any row of the team can be superseded.
SupersedeWriteTeam(c) ==
  /\ call[c].pc = "link"
  /\ Live(call[c].old)
  /\ table' = [table EXCEPT ![call[c].old].superseded_by = call[c].new]
  /\ Answer(c, "ok", call[c].old)
  /\ UNCHANGED backfill

\* The second: the old row, if it is the caller's, points at the replacement.
SupersedeWrite(c) ==
  /\ call[c].pc = "link"
  /\ LET l == call[c]
     IN  IF Editable(Caller[c], l.old)
         THEN /\ table' = [table EXCEPT ![l.old].superseded_by = l.new]
              /\ Answer(c, "ok", l.old)
         ELSE Answer(c, "notfound", NoMemory) /\ UNCHANGED table
  /\ UNCHANGED backfill

-----------------------------------------------------------------------------
(* The worker's embedding backfill, one pass at a time *)

BackfillRead ==
  /\ \A m \in MemoryId : backfill[m] = NoVector
  /\ backfill' = [m \in MemoryId |->
                    IF Live(m) /\ table[m].embedding = NoVector
                    THEN <<table[m].title, table[m].body>> ELSE NoVector]
  /\ UNCHANGED <<table, call>>

\* SetEmbedding is by ID alone.
BackfillSet(m) ==
  /\ backfill[m] # NoVector
  /\ SetEmbedding(m, backfill[m])
  /\ backfill' = [backfill EXCEPT ![m] = NoVector]
  /\ UNCHANGED call

\* The embedder is down, or a SetEmbedding fails: the pass returns.
BackfillStop ==
  /\ \E m \in MemoryId : backfill[m] # NoVector
  /\ backfill' = [m \in MemoryId |-> NoVector]
  /\ UNCHANGED <<table, call>>

-----------------------------------------------------------------------------
Init ==
  /\ table = [m \in MemoryId |-> NoRow]
  /\ call = [c \in Call |-> NewCall]
  /\ backfill = [m \in MemoryId |-> NoVector]

Create(c) ==
  \E m \in MemoryId, t \in Title, b \in Body, v \in Visibility :
     \E vector \in {NoVector, <<t, b>>} : CreateInsert(c, m, t, b, v, vector)

Update(c) ==
  \E m \in MemoryId, t \in Title \cup {Keep}, b \in Body \cup {Keep},
     v \in Visibility \cup {Keep} :
       /\ ~(t = Keep /\ b = Keep /\ v = Keep)  \* "nothing to update"
       /\ UpdateRead(c, m, t, b, v)

Next ==
  \/ \E c \in Call :
       \/ Create(c) \/ CreateFindById(c) \/ CreateFindByHash(c)
       \/ Update(c) \/ UpdateWrite(c) \/ UpdateEmbed(c)
       \/ \E m \in MemoryId :
            UpdateRefused(c, m) \/ DeleteMemory(c, m) \/ Share(c, m)
       \/ \E m, n \in MemoryId : SupersedeCheck(c, m, n)
       \/ SupersedeWrite(c)
  \/ BackfillRead
  \/ \E m \in MemoryId : BackfillSet(m)
  \/ BackfillStop

Spec == Init /\ [][Next]_vars

-----------------------------------------------------------------------------
(* What the table promises *)

TypeOK ==
  /\ table \in [MemoryId -> Row \cup {NoRow}]
  /\ call \in [Call -> CallState]
  /\ backfill \in [MemoryId -> Text \cup {NoVector}]

\* The deduplication the store rests on: one user never has two undeleted
\* memories of the same content, whichever creates and edits overlap.
UniqueLive ==
  \A m, n \in MemoryId :
    /\ Live(m) /\ Live(n)
    /\ table[m].user = table[n].user
    /\ table[m].hash = table[n].hash
    => m = n

\* The dedup key is the hash of the text beside it, although an edit computes
\* the key from a row it read in an earlier statement.
HashMatchesText ==
  \A m \in MemoryId :
    Stored(m) => table[m].hash = ContentHash(table[m].title, table[m].body)

\* Two calls are never both told they created a row of one ID: a queued write
\* that is flushed twice, or twice at once, creates its memory once.
CreatedOnce ==
  \A c, d \in Call :
    /\ call[c].pc = "done" /\ call[d].pc = "done"
    /\ call[c].outcome = "created" /\ call[d].outcome = "created"
    /\ call[c].id = call[d].id
    => c = d

\* A supersede chain is not broken by what happens later to the replacement,
\* a deletion between the two statements of Supersede included: a superseded
\* row goes on naming another row, and that row is there to be read by its ID.
ChainKeptStep ==
  \A m \in MemoryId : Stored(m) /\ table[m].superseded_by # NoMemory =>
    /\ Stored(m)'
    /\ table'[m].superseded_by \notin {NoMemory, m}
    /\ table'[table'[m].superseded_by] # NoRow
ChainKept == [][ChainKeptStep]_vars

\* A forgotten memory stays forgotten and as it was: no edit, share or
\* supersede that began before the deletion lands after it, and no re-flushed
\* create under its ID brings it back.  (Its vector may still be set.)
DeletedFrozenStep ==
  \A m \in MemoryId : Stored(m) /\ table[m].deleted =>
    /\ Stored(m)'
    /\ \A f \in {"user", "title", "body", "hash", "visibility", "superseded_by", "deleted"} :
         table'[m][f] = table[m][f]
DeletedFrozen == [][DeletedFrozenStep]_vars

\* Only a call of its owner changes what a memory says, who sees it, or
\* whether it still counts.
OwnerWritesStep ==
  \A m \in MemoryId : Stored(m) =>
    \/ \A f \in {"title", "body", "visibility", "superseded_by", "deleted"} :
         table'[m][f] = table[m][f]
    \/ \E c \in Call : call'[c] # call[c] /\ Caller[c] = table[m].user
OwnerWrites == [][OwnerWritesStep]_vars

\* The table as the book its callers see, and the calls that changed it.
Entry(row) ==
  [owner |-> row.user, title |-> row.title, body |-> row.body,
   visibility |-> row.visibility, replacedBy |-> row.superseded_by,
   forgotten |-> row.deleted]
Entries == [m \in {n \in MemoryId : Stored(n)} |-> Entry(table[m])]
TookEffect ==
  {c \in Call : \/ call[c].pc = "embed"
               \/ (call[c].pc = "done" /\ call[c].outcome \in {"created", "ok"})}
Book == INSTANCE MemoryBook WITH book <- Entries, acted <- TookEffect

\* Whatever statements its handler sends, and whatever runs between them, a
\* call changes the memories in one step or not at all, only ever by what the
\* book allows its caller at that moment, and it is told "created" or "ok"
\* exactly when it did.
ImplementsBook == Book!BookSpec

\* What makes them inductive: a call told it created a row, a row that names a
\* replacement and a Supersede between its statements all point at stored rows.
CreatedStored ==
  \A c \in Call : call[c].pc = "done" /\ call[c].outcome = "created" =>
    call[c].id \in MemoryId /\ Stored(call[c].id)
ReplacementStored ==
  \A m \in MemoryId : Stored(m) /\ table[m].superseded_by # NoMemory =>
    table[m].superseded_by # m /\ Stored(table[m].superseded_by)
LinkTargetStored ==
  \A c \in Call : call[c].pc = "link" => call[c].old # call[c].new /\ Stored(call[c].new)
IndInv ==
  /\ TypeOK /\ UniqueLive /\ HashMatchesText /\ CreatedOnce
  /\ CreatedStored /\ ReplacementStored /\ LinkTargetStored
=============================================================================
