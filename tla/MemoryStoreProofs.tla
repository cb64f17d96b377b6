------------------------- MODULE MemoryStoreProofs -------------------------
(* Machine-checked proofs about MemoryStore, for every set of users, rows,  *)
(* texts and calls.                                                         *)
EXTENDS MemoryStore, TLAPS

\* One step of the table or of the calls, action by action.
LEMMA NextCases ==
  Next =>
         \/ \E c \in Call, m \in MemoryId, t \in Title, b \in Body, v \in Visibility :
              \E vector \in {NoVector, <<t, b>>} : CreateInsert(c, m, t, b, v, vector)
         \/ \E c \in Call : CreateFindById(c)
         \/ \E c \in Call : CreateFindByHash(c)
         \/ \E c \in Call, m \in MemoryId : UpdateRefused(c, m)
         \/ \E c \in Call, m \in MemoryId, t \in Title \cup {Keep},
               b \in Body \cup {Keep}, v \in Visibility \cup {Keep} :
              UpdateRead(c, m, t, b, v)
         \/ \E c \in Call : UpdateWrite(c)
         \/ \E c \in Call : UpdateEmbed(c)
         \/ \E c \in Call, m \in MemoryId : DeleteMemory(c, m)
         \/ \E c \in Call, m \in MemoryId : Share(c, m)
         \/ \E c \in Call, m, n \in MemoryId : SupersedeCheck(c, m, n)
         \/ \E c \in Call : SupersedeWrite(c)
         \/ BackfillRead
         \/ \E m \in MemoryId : BackfillSet(m)
         \/ BackfillStop
  BY DEF Next, Create, Update

LEMMA InitTypeOK == Init => TypeOK
  BY DEF Init, TypeOK, CallState, NewCall

\* Types: a handler's state always has the fields of the statement it is at,
\* and a stored row those of the schema.
LEMMA NextTypeOK == TypeOK /\ [Next]_vars => TypeOK'
<1> SUFFICES ASSUME TypeOK, [Next]_vars PROVE TypeOK'
  OBVIOUS
<1> USE DEF TypeOK
<1>1. CASE UNCHANGED vars
  BY <1>1 DEF vars
<1>2. ASSUME NEW c \in Call, NEW m \in MemoryId, NEW t \in Title, NEW b \in Body,
             NEW v \in Visibility, NEW vector \in {NoVector, <<t, b>>},
             CreateInsert(c, m, t, b, v, vector)
      PROVE  TypeOK'
  <2>1. ContentHash(t, b) \in Hash /\ vector \in Text \cup {NoVector}
    BY <1>2 DEF Hash, Text
  <2>2. CASE Stored(m) \/ Duplicates(Caller[c], ContentHash(t, b)) # {}
    <3>1. [pc |-> "byid", id |-> m, hash |-> ContentHash(t, b)] \in CallState
      BY <2>1 DEF CallState, ByIdCall
    <3>2. QED
      BY <1>2, <2>2, <3>1 DEF CreateInsert, Continue
  <2>3. CASE ~(Stored(m) \/ Duplicates(Caller[c], ContentHash(t, b)) # {})
    <3>1. [user |-> Caller[c], title |-> t, body |-> b, hash |-> ContentHash(t, b),
           visibility |-> v, superseded_by |-> NoMemory, deleted |-> FALSE,
           embedding |-> vector] \in Row
      BY <2>1, CallerAssumption DEF Row
    <3>2. [pc |-> "done", outcome |-> "created", id |-> m] \in CallState
      BY DEF CallState, DoneCall
    <3>3. QED
      BY <1>2, <2>3, <3>1, <3>2 DEF CreateInsert, Answer
  <2>4. QED
    BY <2>2, <2>3
<1>3. ASSUME NEW c \in Call, CreateFindById(c) PROVE TypeOK'
  <2>1. call[c] \in ByIdCall
    BY <1>3 DEF CreateFindById, CallState, NewCall, ByIdCall, ByHashCall,
                WriteCall, EmbedCall, LinkCall, DoneCall
  <2>2. [call[c] EXCEPT !.pc = "byhash"] \in CallState
    BY <2>1 DEF CallState, ByIdCall, ByHashCall
  <2>3. [pc |-> "done", outcome |-> "existing", id |-> call[c].id] \in CallState
    BY <2>1 DEF CallState, ByIdCall, DoneCall
  <2>4. QED
    BY <1>3, <2>2, <2>3 DEF CreateFindById, Answer, Continue
<1>4. ASSUME NEW c \in Call, CreateFindByHash(c) PROVE TypeOK'
  <2>1. \A m \in MemoryId :
          [pc |-> "done", outcome |-> "existing", id |-> m] \in CallState
    BY DEF CallState, DoneCall
  <2>2. [pc |-> "done", outcome |-> "notfound", id |-> NoMemory] \in CallState
    BY DEF CallState, DoneCall
  <2>3. QED
    BY <1>4, <2>1, <2>2 DEF CreateFindByHash, Answer, Duplicates
<1>5. ASSUME NEW c \in Call, NEW m \in MemoryId, UpdateRefused(c, m) PROVE TypeOK'
  <2>1. \A o \in {"forbidden", "notfound"} :
          [pc |-> "done", outcome |-> o, id |-> NoMemory] \in CallState
    BY DEF CallState, DoneCall
  <2>2. QED
    BY <1>5, <2>1 DEF UpdateRefused, Answer
<1>6. ASSUME NEW c \in Call, NEW m \in MemoryId, NEW t \in Title \cup {Keep},
             NEW b \in Body \cup {Keep}, NEW v \in Visibility \cup {Keep},
             UpdateRead(c, m, t, b, v)
      PROVE  TypeOK'
  <2>1. table[m] \in Row
    BY <1>6 DEF UpdateRead, Editable, Live, Stored
  <2>2. /\ Merged(t, table[m].title) \in Title
        /\ Merged(b, table[m].body) \in Body
        /\ Merged(v, table[m].visibility) \in Visibility
    BY <2>1 DEF Merged, Row
  <2> DEFINE state == [pc |-> "write", id |-> m,
                       title |-> Merged(t, table[m].title),
                       body |-> Merged(b, table[m].body),
                       visibility |-> Merged(v, table[m].visibility),
                       bodyChanged |-> Merged(b, table[m].body) # table[m].body,
                       reembed |-> t # Keep \/ b # Keep]
  <2>3. /\ (Merged(b, table[m].body) # table[m].body) \in BOOLEAN
        /\ (t # Keep \/ b # Keep) \in BOOLEAN
    OBVIOUS
  <2>4. state \in WriteCall
    BY <2>2, <2>3 DEF WriteCall
  <2>5. call' = [call EXCEPT ![c] = state]
    BY <1>6 DEF UpdateRead, Continue
  <2>6. QED
    BY <1>6, <2>4, <2>5 DEF UpdateRead, CallState
<1>7. ASSUME NEW c \in Call, UpdateWrite(c) PROVE TypeOK'
  <2>1. call[c] \in WriteCall
    BY <1>7 DEF UpdateWrite, CallState, NewCall, ByIdCall, ByHashCall,
                WriteCall, EmbedCall, LinkCall, DoneCall
  <2> DEFINE w == call[c]
             row == Edited(table[w.id], w)
  <2>2. /\ w.title \in Title /\ w.body \in Body /\ w.id \in MemoryId
        /\ w.visibility \in Visibility /\ ContentHash(w.title, w.body) \in Hash
    BY <2>1 DEF WriteCall, Hash
  <2>3. call' \in [Call -> CallState]
    <3>1. \A o \in {"notfound", "conflict", "ok"}, m \in MemoryId \cup {NoMemory} :
            [pc |-> "done", outcome |-> o, id |-> m] \in CallState
      BY DEF CallState, DoneCall
    <3>2. [pc |-> "embed", id |-> w.id, title |-> w.title, body |-> w.body] \in CallState
      BY <2>2 DEF CallState, EmbedCall
    <3>3. QED
      BY <1>7, <2>2, <3>1, <3>2 DEF UpdateWrite, AfterUpdate, Answer, Continue
  <2>4. CASE table' = table
    BY <1>7, <2>3, <2>4 DEF UpdateWrite
  <2>5. CASE Editable(Caller[c], w.id) /\ table' = [table EXCEPT ![w.id] = row]
    <3>1. table[w.id] \in Row
      BY <2>2, <2>5 DEF Editable, Live, Stored
    <3>2. row \in Row
      BY <2>2, <3>1 DEF Row, Edited
    <3>3. QED
      BY <1>7, <2>2, <2>3, <2>5, <3>2 DEF UpdateWrite
  <2>6. QED
    BY <1>7, <2>4, <2>5 DEF UpdateWrite
<1>8. ASSUME NEW c \in Call, UpdateEmbed(c) PROVE TypeOK'
  <2>1. call[c] \in EmbedCall
    BY <1>8 DEF UpdateEmbed, CallState, NewCall, ByIdCall, ByHashCall,
                WriteCall, EmbedCall, LinkCall, DoneCall
  <2>2. call[c].id \in MemoryId /\ <<call[c].title, call[c].body>> \in Text
    BY <2>1 DEF EmbedCall, Text
  <2>3. [pc |-> "done", outcome |-> "ok", id |-> call[c].id] \in CallState
    BY <2>2 DEF CallState, DoneCall
  <2>4. table' = table \/ SetEmbedding(call[c].id, <<call[c].title, call[c].body>>)
    BY <1>8 DEF UpdateEmbed
  <2>5. table' \in [MemoryId -> Row \cup {NoRow}]
    BY <2>2, <2>4 DEF SetEmbedding, Stored, Row
  <2>6. QED
    BY <1>8, <2>3, <2>5 DEF UpdateEmbed, Answer
<1>9. ASSUME NEW c \in Call, NEW m \in MemoryId, DeleteMemory(c, m) PROVE TypeOK'
  <2>1. \A o \in {"notfound", "ok"}, n \in MemoryId \cup {NoMemory} :
          [pc |-> "done", outcome |-> o, id |-> n] \in CallState
    BY DEF CallState, DoneCall
  <2>2. table' \in [MemoryId -> Row \cup {NoRow}]
    <3>1. CASE Editable(Caller[c], m)
      <4>1. table[m] \in Row
        BY <3>1 DEF Editable, Live, Stored
      <4>2. [table[m] EXCEPT !.deleted = TRUE] \in Row
        BY <4>1 DEF Row
      <4>3. QED
        BY <1>9, <3>1, <4>2 DEF DeleteMemory
    <3>2. QED
      BY <1>9, <3>1 DEF DeleteMemory
  <2>3. QED
    BY <1>9, <2>1, <2>2 DEF DeleteMemory, Answer
<1>10. ASSUME NEW c \in Call, NEW m \in MemoryId, Share(c, m) PROVE TypeOK'
  <2>1. \A o \in {"notfound", "ok"}, n \in MemoryId \cup {NoMemory} :
          [pc |-> "done", outcome |-> o, id |-> n] \in CallState
    BY DEF CallState, DoneCall
  <2>2. table' \in [MemoryId -> Row \cup {NoRow}]
    BY <1>10 DEF Share, Editable, Live, Stored, Row, Visibility
  <2>3. QED
    BY <1>10, <2>1, <2>2 DEF Share, Answer
<1>11. ASSUME NEW c \in Call, NEW m \in MemoryId, NEW n \in MemoryId,
              SupersedeCheck(c, m, n)
       PROVE  TypeOK'
  <2>1. [pc |-> "link", old |-> m, new |-> n] \in CallState
    BY DEF CallState, LinkCall
  <2>2. [pc |-> "done", outcome |-> "notfound", id |-> NoMemory] \in CallState
    BY DEF CallState, DoneCall
  <2>3. QED
    BY <1>11, <2>1, <2>2 DEF SupersedeCheck, Answer, Continue
<1>12. ASSUME NEW c \in Call, SupersedeWrite(c) PROVE TypeOK'
  <2>1. call[c] \in LinkCall
    BY <1>12 DEF SupersedeWrite, CallState, NewCall, ByIdCall, ByHashCall,
                 WriteCall, EmbedCall, LinkCall, DoneCall
  <2>2. call[c].old \in MemoryId /\ call[c].new \in MemoryId
    BY <2>1 DEF LinkCall
  <2>3. \A o \in {"notfound", "ok"}, n \in MemoryId \cup {NoMemory} :
          [pc |-> "done", outcome |-> o, id |-> n] \in CallState
    BY DEF CallState, DoneCall
  <2>4. table' \in [MemoryId -> Row \cup {NoRow}]
    BY <1>12, <2>2 DEF SupersedeWrite, Editable, Live, Stored, Row
  <2>5. QED
    BY <1>12, <2>2, <2>3, <2>4 DEF SupersedeWrite, Answer
<1>13. CASE BackfillRead
  <2>1. \A m \in MemoryId : Live(m) => <<table[m].title, table[m].body>> \in Text
    BY DEF Live, Stored, Row, Text
  <2>2. QED
    BY <1>13, <2>1 DEF BackfillRead
<1>14. ASSUME NEW m \in MemoryId, BackfillSet(m) PROVE TypeOK'
  <2>1. backfill[m] \in Text
    BY <1>14 DEF BackfillSet
  <2>2. table' \in [MemoryId -> Row \cup {NoRow}]
    BY <1>14, <2>1 DEF BackfillSet, SetEmbedding, Stored, Row
  <2>3. QED
    BY <1>14, <2>2 DEF BackfillSet
<1>15. CASE BackfillStop
  BY <1>15 DEF BackfillStop
<1> HIDE DEF TypeOK
<1>16. CASE Next
  BY <1>16, <1>2, <1>3, <1>4, <1>5, <1>6, <1>7, <1>8, <1>9, <1>10, <1>11, <1>12,
     <1>13, <1>14, <1>15, NextCases, Zenon
<1>17. QED
  BY <1>1, <1>16

\* Every reachable state is well typed.
THEOREM TypeCorrect == Spec => []TypeOK
  BY InitTypeOK, NextTypeOK, PTL DEF Spec

-----------------------------------------------------------------------------
(* What one step can do to the table: the six statements that write it. *)

Inserts(c, m, r) ==
  /\ ~Stored(m)
  /\ Duplicates(Caller[c], r.hash) = {}
  /\ r.user = Caller[c]
  /\ r.hash = ContentHash(r.title, r.body)
  /\ r.superseded_by = NoMemory
  /\ table' = [table EXCEPT ![m] = r]
Edits(c, w) ==
  /\ Editable(Caller[c], w.id)
  /\ Duplicates(Caller[c], ContentHash(w.title, w.body)) \ {w.id} = {}
  /\ table' = [table EXCEPT ![w.id] = Edited(@, w)]
Deletes(c, m) == Editable(Caller[c], m) /\ table' = [table EXCEPT ![m].deleted = TRUE]
Shares(c, m) == Editable(Caller[c], m) /\ table' = [table EXCEPT ![m].visibility = "team"]
Links(c, m, n) ==
  /\ Editable(Caller[c], m)
  /\ call[c].pc = "link" /\ call[c].old = m /\ call[c].new = n
  /\ table' = [table EXCEPT ![m].superseded_by = n]

TableStep ==
  \/ UNCHANGED table
  \/ \E c \in Call :
       /\ call'[c] # call[c]
       /\ \/ \E m \in MemoryId : \E r \in Row : Inserts(c, m, r)
          \/ \E w \in WriteCall : Edits(c, w)
          \/ \E m \in MemoryId : Deletes(c, m) \/ Shares(c, m)
          \/ \E m, n \in MemoryId : Links(c, m, n)
  \/ \E m \in MemoryId, vector \in Text : SetEmbedding(m, vector)

\* Every step is one of them, or leaves the table alone.
LEMMA TableCases == TypeOK /\ [Next]_vars => TableStep
<1> SUFFICES ASSUME TypeOK, [Next]_vars PROVE TableStep
  OBVIOUS
<1>0. \A c \in Call : call[c].pc = "write" => call[c] \in WriteCall
  BY DEF TypeOK, CallState, NewCall, ByIdCall, ByHashCall, WriteCall, EmbedCall,
         LinkCall, DoneCall
<1>a. \A c \in Call : call[c].pc = "embed" => call[c] \in EmbedCall
  BY DEF TypeOK, CallState, NewCall, ByIdCall, ByHashCall, WriteCall, EmbedCall,
         LinkCall, DoneCall
<1>b. \A c \in Call : call[c].pc = "link" => call[c] \in LinkCall
  BY DEF TypeOK, CallState, NewCall, ByIdCall, ByHashCall, WriteCall, EmbedCall,
         LinkCall, DoneCall
<1>c. call \in [Call -> CallState]
  BY DEF TypeOK
<1>1. CASE UNCHANGED vars
  BY <1>1 DEF vars, TableStep
<1>2. ASSUME NEW c \in Call, NEW m \in MemoryId, NEW t \in Title, NEW b \in Body,
             NEW v \in Visibility, NEW vector \in {NoVector, <<t, b>>},
             CreateInsert(c, m, t, b, v, vector)
      PROVE  TableStep
  <2> DEFINE r == [user |-> Caller[c], title |-> t, body |-> b,
                   hash |-> ContentHash(t, b), visibility |-> v,
                   superseded_by |-> NoMemory, deleted |-> FALSE, embedding |-> vector]
  <2>1. CASE Stored(m) \/ Duplicates(Caller[c], ContentHash(t, b)) # {}
    BY <1>2, <2>1 DEF CreateInsert, TableStep
  <2>2. CASE ~(Stored(m) \/ Duplicates(Caller[c], ContentHash(t, b)) # {})
    <3>1. r \in Row
      BY CallerAssumption DEF Row, Hash, Text
    <3>2. Inserts(c, m, r)
      BY <1>2, <2>2 DEF CreateInsert, Inserts
    <3>3. call'[c] # call[c]
      BY <1>2, <2>2, <1>c DEF CreateInsert, Answer
    <3>4. QED
      BY <3>1, <3>2, <3>3 DEF TableStep
  <2>3. QED
    BY <2>1, <2>2
<1>3. ASSUME NEW c \in Call, UpdateWrite(c) PROVE TableStep
  <2>1. CASE UNCHANGED table
    BY <2>1 DEF TableStep
  <2>2. CASE table' # table
    <3>1. Edits(c, call[c])
      BY <1>3, <2>2 DEF UpdateWrite, Edits
    <3>2. call'[c] # call[c]
      BY <1>3, <1>c, <2>2 DEF UpdateWrite, AfterUpdate, Answer, Continue
    <3>3. call[c] \in WriteCall
      BY <1>3, <1>0 DEF UpdateWrite
    <3>4. QED
      BY <3>1, <3>2, <3>3 DEF TableStep
  <2>3. QED
    BY <2>1, <2>2
<1>4. ASSUME NEW c \in Call, UpdateEmbed(c) PROVE TableStep
  <2>1. call[c].id \in MemoryId /\ <<call[c].title, call[c].body>> \in Text
    BY <1>4, <1>a DEF UpdateEmbed, EmbedCall, Text
  <2>2. QED
    BY <1>4, <2>1 DEF UpdateEmbed, TableStep
<1>5. ASSUME NEW c \in Call, NEW m \in MemoryId, DeleteMemory(c, m) PROVE TableStep
  <2>1. call'[c] # call[c]
    BY <1>5, <1>c DEF DeleteMemory, Answer
  <2>2. UNCHANGED table \/ Deletes(c, m)
    BY <1>5 DEF DeleteMemory, Deletes
  <2>3. QED
    BY <2>1, <2>2 DEF TableStep
<1>6. ASSUME NEW c \in Call, NEW m \in MemoryId, Share(c, m) PROVE TableStep
  <2>1. call'[c] # call[c]
    BY <1>6, <1>c DEF Share, Answer
  <2>2. UNCHANGED table \/ Shares(c, m)
    BY <1>6 DEF Share, Shares
  <2>3. QED
    BY <2>1, <2>2 DEF TableStep
<1>7. ASSUME NEW c \in Call, SupersedeWrite(c) PROVE TableStep
  <2>1. call'[c] # call[c]
    BY <1>7, <1>c DEF SupersedeWrite, Answer
  <2>2. call[c].old \in MemoryId /\ call[c].new \in MemoryId
    BY <1>7, <1>b DEF SupersedeWrite, LinkCall
  <2>3. UNCHANGED table \/ Links(c, call[c].old, call[c].new)
    BY <1>7 DEF SupersedeWrite, Links
  <2>4. QED
    BY <2>1, <2>2, <2>3 DEF TableStep
<1>8. ASSUME NEW m \in MemoryId, BackfillSet(m) PROVE TableStep
  <2>1. backfill[m] \in Text
    BY <1>8 DEF BackfillSet, TypeOK
  <2>2. QED
    BY <1>8, <2>1 DEF BackfillSet, TableStep
<1>9. ASSUME Next, UNCHANGED table PROVE TableStep
  BY <1>9 DEF TableStep
<1>10. (\E c \in Call : CreateFindById(c) \/ CreateFindByHash(c)) => UNCHANGED table
  BY DEF CreateFindById, CreateFindByHash
<1>11. (\E c \in Call, m \in MemoryId : UpdateRefused(c, m)) => UNCHANGED table
  BY DEF UpdateRefused
<1>12. (\E c \in Call, m \in MemoryId, t \in Title \cup {Keep}, b \in Body \cup {Keep},
            v \in Visibility \cup {Keep} : UpdateRead(c, m, t, b, v)) => UNCHANGED table
  BY DEF UpdateRead
<1>13. (\E c \in Call, m, n \in MemoryId : SupersedeCheck(c, m, n)) => UNCHANGED table
  BY DEF SupersedeCheck
<1>14. BackfillRead \/ BackfillStop => UNCHANGED table
  BY DEF BackfillRead, BackfillStop
<1>15. CASE Next
  BY <1>15, <1>2, <1>3, <1>4, <1>5, <1>6, <1>7, <1>8, <1>9, <1>10, <1>11, <1>12,
     <1>13, <1>14, NextCases, Zenon
<1>16. QED
  BY <1>1, <1>15

-----------------------------------------------------------------------------
(* What each of the six statements does to a stored row. *)

\* No statement removes a row or moves it to another user, and one that
\* touches anything but the vector of a stored row found it undeleted and ran
\* in a call of its owner.
LEMMA RowStep ==
  ASSUME TypeOK, TableStep, NEW m \in MemoryId, Stored(m)
  PROVE  /\ Stored(m)'
         /\ table'[m].user = table[m].user
         /\ \/ \A f \in {"title", "body", "hash", "visibility", "superseded_by", "deleted"} :
                 table'[m][f] = table[m][f]
            \/ /\ ~table[m].deleted
               /\ \E c \in Call : call'[c] # call[c] /\ Caller[c] = table[m].user
<1>0. table[m] \in Row
  BY DEF TypeOK, Stored
<1>t. table \in [MemoryId -> Row \cup {NoRow}]
  BY DEF TypeOK
<1>d. /\ table[m].title \in Title /\ table[m].body \in Body
      /\ table[m].user \in User
  BY <1>0 DEF Row
<1>1. CASE UNCHANGED table
  BY <1>1 DEF Stored
<1>2. ASSUME NEW c \in Call, NEW n \in MemoryId, NEW r \in Row, Inserts(c, n, r)
      PROVE  UNCHANGED table[m]
  BY <1>2, <1>t DEF Inserts
<1>3. ASSUME NEW c \in Call, NEW w \in WriteCall, Edits(c, w), w.id = m
      PROVE  /\ table'[m] \in Row /\ table'[m].user = table[m].user
             /\ ~table[m].deleted /\ Caller[c] = table[m].user
  <2>1. table'[m] = Edited(table[m], w)
    BY <1>3, <1>t DEF Edits
  <2>2. /\ w.title \in Title /\ w.body \in Body /\ w.visibility \in Visibility
        /\ ContentHash(w.title, w.body) \in Hash
    BY DEF WriteCall, Hash
  <2>3. Edited(table[m], w) \in Row /\ Edited(table[m], w).user = table[m].user
    BY <1>0, <2>2 DEF Edited, Row
  <2>4. QED
    BY <1>3, <2>1, <2>3 DEF Edits, Editable, Live, Owns
<1>4. ASSUME NEW c \in Call, NEW n \in MemoryId, Deletes(c, n) \/ Shares(c, n), n = m
      PROVE  /\ table'[m] \in Row /\ table'[m].user = table[m].user
             /\ ~table[m].deleted /\ Caller[c] = table[m].user
  <2>1. \/ table'[m] = [table[m] EXCEPT !.deleted = TRUE]
        \/ table'[m] = [table[m] EXCEPT !.visibility = "team"]
    BY <1>4, <1>t DEF Deletes, Shares
  <2>2. table'[m] \in Row /\ table'[m].user = table[m].user
    BY <2>1, <1>0 DEF Row, Visibility
  <2>3. QED
    BY <1>4, <2>2 DEF Deletes, Shares, Editable, Live, Owns
<1>5. ASSUME NEW c \in Call, NEW n \in MemoryId, NEW k \in MemoryId, Links(c, n, k), n = m
      PROVE  /\ table'[m] \in Row /\ table'[m].user = table[m].user
             /\ ~table[m].deleted /\ Caller[c] = table[m].user
  <2>1. table'[m] = [table[m] EXCEPT !.superseded_by = k]
    BY <1>5, <1>t DEF Links
  <2>2. table'[m] \in Row /\ table'[m].user = table[m].user
    BY <2>1, <1>0 DEF Row
  <2>3. QED
    BY <1>5, <2>2 DEF Links, Editable, Live, Owns
<1>7. ASSUME NEW n \in MemoryId, NEW vector \in Text, SetEmbedding(n, vector)
      PROVE  /\ table'[m] \in Row /\ table'[m].user = table[m].user
             /\ \A f \in {"title", "body", "hash", "visibility", "superseded_by", "deleted"} :
                  table'[m][f] = table[m][f]
  <2>1. table'[m] = table[m] \/ table'[m] = [table[m] EXCEPT !.embedding = vector]
    BY <1>7, <1>t DEF SetEmbedding
  <2>2. [table[m] EXCEPT !.embedding = vector] \in Row
    BY <1>0 DEF Row
  <2>3. QED
    BY <2>1, <2>2, <1>0 DEF Row
<1>8. \A r \in Row : r # NoRow
  BY DistinctNoRow
<1> USE DEF Stored
<1>10. CASE \E c \in Call : call'[c] # call[c] /\ \E n \in MemoryId : \E r \in Row : Inserts(c, n, r)
  BY <1>2, <1>10
<1>11. CASE \E c \in Call : call'[c] # call[c] /\ \E w \in WriteCall : Edits(c, w)
  <2>1. PICK c \in Call, w \in WriteCall : call'[c] # call[c] /\ Edits(c, w)
    BY <1>11
  <2>2. CASE w.id = m
    BY <1>3, <1>8, <2>1, <2>2
  <2>3. CASE w.id # m
    BY <1>t, <2>1, <2>3 DEF Edits, WriteCall
  <2>4. QED
    BY <2>2, <2>3
<1>12. CASE \E c \in Call : call'[c] # call[c] /\ \E n \in MemoryId : Deletes(c, n) \/ Shares(c, n)
  <2>1. PICK c \in Call, n \in MemoryId : call'[c] # call[c] /\ (Deletes(c, n) \/ Shares(c, n))
    BY <1>12
  <2>2. CASE n = m
    BY <1>4, <1>8, <2>1, <2>2
  <2>3. CASE n # m
    BY <1>t, <2>1, <2>3 DEF Deletes, Shares
  <2>4. QED
    BY <2>2, <2>3
<1>13. CASE \E c \in Call : call'[c] # call[c] /\ \E n, k \in MemoryId : Links(c, n, k)
  <2>1. PICK c \in Call, n \in MemoryId, k \in MemoryId : call'[c] # call[c] /\ Links(c, n, k)
    BY <1>13
  <2>2. CASE n = m
    BY <1>5, <1>8, <2>1, <2>2
  <2>3. CASE n # m
    BY <1>t, <2>1, <2>3 DEF Links
  <2>4. QED
    BY <2>2, <2>3
<1>14. CASE \E n \in MemoryId, vector \in Text : SetEmbedding(n, vector)
  BY <1>7, <1>8, <1>14
<1>15. QED
  BY <1>1, <1>10, <1>11, <1>12, <1>13, <1>14 DEF TableStep

\* A deleted memory is frozen but for its vector, whatever is in flight.
THEOREM DeletedStayFrozen == Spec => DeletedFrozen
<1>1. TypeOK /\ [Next]_vars => DeletedFrozenStep
  BY TableCases, RowStep DEF DeletedFrozenStep
<1>2. QED
  BY <1>1, TypeCorrect, PTL DEF Spec, DeletedFrozen

\* Only calls of its owner change a memory.
THEOREM OwnersWrite == Spec => OwnerWrites
<1>1. TypeOK /\ [Next]_vars => OwnerWritesStep
  BY TableCases, RowStep DEF OwnerWritesStep
<1>2. QED
  BY <1>1, TypeCorrect, PTL DEF Spec, OwnerWrites

-----------------------------------------------------------------------------
(* The invariants. *)

\* One user never has two undeleted memories of one content.
LEMMA UniqueLiveStep == TypeOK /\ UniqueLive /\ TableStep => UniqueLive'
<1> SUFFICES ASSUME TypeOK, UniqueLive, TableStep,
                    NEW m \in MemoryId, NEW n \in MemoryId,
                    Live(m)', Live(n)',
                    table'[m].user = table'[n].user,
                    table'[m].hash = table'[n].hash,
                    m # n
             PROVE  FALSE
  BY DEF UniqueLive
<1>t. table \in [MemoryId -> Row \cup {NoRow}]
  BY DEF TypeOK
\* A row that was live before with the same key is not among the duplicates.
<1>u. \A x, y \in MemoryId : Live(x) /\ Live(y) /\ table[x].user = table[y].user
         /\ table[x].hash = table[y].hash => x = y
  BY DEF UniqueLive
<1>1. ASSUME NEW x \in MemoryId, NEW y \in MemoryId, x # y,
             Live(x)', Live(y)', table'[x].user = table'[y].user,
             table'[x].hash = table'[y].hash, UNCHANGED table[y],
             NEW c \in Call, NEW r \in Row, Inserts(c, x, r)
      PROVE  FALSE
  <2>1. table'[x] = r
    BY <1>1, <1>t DEF Inserts
  <2>2. y \in Duplicates(Caller[c], r.hash)
    BY <1>1, <2>1 DEF Duplicates, Live, Stored, Owns, Inserts
  <2>3. QED
    BY <1>1, <2>2 DEF Inserts
<1>2. ASSUME NEW x \in MemoryId, NEW y \in MemoryId, x # y,
             Live(x)', Live(y)', table'[x].user = table'[y].user,
             table'[x].hash = table'[y].hash, UNCHANGED table[y],
             NEW c \in Call, NEW w \in WriteCall, Edits(c, w), w.id = x
      PROVE  FALSE
  <2>1. table'[x] = Edited(table[x], w)
    BY <1>2, <1>t DEF Edits
  <2>2. table[x] \in Row /\ table[x].user = Caller[c]
    BY <1>2, <1>t DEF Edits, Editable, Live, Stored, Owns
  <2>3. /\ table'[x].user = Caller[c]
        /\ table'[x].hash = ContentHash(w.title, w.body)
    BY <2>1, <2>2 DEF Edited, Row
  <2>4. y \in Duplicates(Caller[c], ContentHash(w.title, w.body)) \ {w.id}
    BY <1>2, <2>3 DEF Duplicates, Live, Stored, Owns
  <2>5. QED
    BY <1>2, <2>4 DEF Edits
\* The other statements keep the key of every row and make none live.
<1>3. ASSUME NEW x \in MemoryId, Live(x)',
             \/ UNCHANGED table
             \/ \E c \in Call, k \in MemoryId : Deletes(c, k) \/ Shares(c, k)
             \/ \E c \in Call, k, l \in MemoryId : Links(c, k, l)
             \/ \E k \in MemoryId, vector \in Text : SetEmbedding(k, vector)
      PROVE  Live(x) /\ table'[x].user = table[x].user /\ table'[x].hash = table[x].hash
  <2>1. \/ table'[x] = table[x]
        \/ /\ Stored(x)
           /\ \/ table'[x] = [table[x] EXCEPT !.deleted = TRUE]
              \/ table'[x] = [table[x] EXCEPT !.visibility = "team"]
              \/ \E l \in MemoryId : table'[x] = [table[x] EXCEPT !.superseded_by = l]
              \/ \E vector \in Text : table'[x] = [table[x] EXCEPT !.embedding = vector]
    BY <1>3, <1>t DEF Deletes, Shares, Links, SetEmbedding, Editable, Live
  <2>2. Stored(x) => table[x] \in Row
    BY <1>t DEF Stored
  <2>3. QED
    BY <1>3, <2>1, <2>2 DEF Live, Stored, Row
<1>4. ASSUME NEW c \in Call, NEW x \in MemoryId, NEW r \in Row, Inserts(c, x, r)
      PROVE  FALSE
  <2>1. \A y \in MemoryId : y # x => UNCHANGED table[y]
    BY <1>4, <1>t DEF Inserts
  <2>2. CASE m = x
    BY <1>1, <1>4, <2>1, <2>2
  <2>3. CASE n = x
    BY <1>1, <1>4, <2>1, <2>3
  <2>4. CASE m # x /\ n # x
    BY <1>u, <2>1, <2>4 DEF Live, Stored
  <2>5. QED
    BY <2>2, <2>3, <2>4
<1>5. ASSUME NEW c \in Call, NEW w \in WriteCall, Edits(c, w)
      PROVE  FALSE
  <2>1. \A y \in MemoryId : y # w.id => UNCHANGED table[y]
    BY <1>5, <1>t DEF Edits, WriteCall
  <2>2. CASE m = w.id
    BY <1>2, <1>5, <2>1, <2>2
  <2>3. CASE n = w.id
    BY <1>2, <1>5, <2>1, <2>3
  <2>4. CASE m # w.id /\ n # w.id
    BY <1>u, <2>1, <2>4 DEF Live, Stored
  <2>5. QED
    BY <2>2, <2>3, <2>4
<1>6. CASE \/ UNCHANGED table
           \/ \E c \in Call, k \in MemoryId : Deletes(c, k) \/ Shares(c, k)
           \/ \E c \in Call, k, l \in MemoryId : Links(c, k, l)
           \/ \E k \in MemoryId, vector \in Text : SetEmbedding(k, vector)
  BY <1>3, <1>6, <1>u
<1>7. QED
  BY <1>4, <1>5, <1>6 DEF TableStep

THEOREM UniqueLiveAlways == Spec => []UniqueLive
<1>1. Init => UniqueLive
  BY DEF Init, UniqueLive, Live, Stored
<1>2. TypeOK /\ UniqueLive /\ [Next]_vars => UniqueLive'
  BY TableCases, UniqueLiveStep
<1>3. QED
  BY <1>1, <1>2, TypeCorrect, PTL DEF Spec

\* The dedup key of a row is the hash of the text it holds.
LEMMA HashMatchesTextStep == TypeOK /\ HashMatchesText /\ TableStep => HashMatchesText'
<1> SUFFICES ASSUME TypeOK, HashMatchesText, TableStep, NEW m \in MemoryId, Stored(m)'
             PROVE  table'[m].hash = ContentHash(table'[m].title, table'[m].body)
  BY DEF HashMatchesText
<1>t. table \in [MemoryId -> Row \cup {NoRow}]
  BY DEF TypeOK
<1>1. Stored(m) => table[m] \in Row
                   /\ table[m].hash = ContentHash(table[m].title, table[m].body)
  BY <1>t DEF Stored, HashMatchesText
<1>2. CASE table'[m] = table[m]
  BY <1>1, <1>2 DEF Stored
<1>3. ASSUME NEW c \in Call, NEW k \in MemoryId, NEW r \in Row, Inserts(c, k, r),
             table'[m] # table[m]
      PROVE  table'[m].hash = ContentHash(table'[m].title, table'[m].body)
  BY <1>3, <1>t DEF Inserts
<1>4. ASSUME NEW c \in Call, NEW w \in WriteCall, Edits(c, w), table'[m] # table[m]
      PROVE  table'[m].hash = ContentHash(table'[m].title, table'[m].body)
  <2>1. w.id = m /\ table'[m] = Edited(table[m], w) /\ Stored(m)
    BY <1>4, <1>t DEF Edits, WriteCall, Editable, Live
  <2>2. /\ table'[m].title = w.title /\ table'[m].body = w.body
        /\ table'[m].hash = ContentHash(w.title, w.body)
    BY <2>1, <1>1 DEF Edited, Row
  <2>3. QED
    BY <2>2
<1>5. ASSUME table'[m] # table[m],
             \/ \E c \in Call, k \in MemoryId : Deletes(c, k) \/ Shares(c, k)
             \/ \E c \in Call, k, l \in MemoryId : Links(c, k, l)
             \/ \E k \in MemoryId, vector \in Text : SetEmbedding(k, vector)
      PROVE  table'[m].hash = ContentHash(table'[m].title, table'[m].body)
  <2>1. /\ Stored(m)
        /\ \/ table'[m] = [table[m] EXCEPT !.deleted = TRUE]
           \/ table'[m] = [table[m] EXCEPT !.visibility = "team"]
           \/ \E l \in MemoryId : table'[m] = [table[m] EXCEPT !.superseded_by = l]
           \/ \E vector \in Text : table'[m] = [table[m] EXCEPT !.embedding = vector]
    BY <1>5, <1>t DEF Deletes, Shares, Links, SetEmbedding, Editable, Live
  <2>2. /\ table'[m].title = table[m].title /\ table'[m].body = table[m].body
        /\ table'[m].hash = table[m].hash
    BY <2>1, <1>1 DEF Row
  <2>3. QED
    BY <2>1, <2>2, <1>1
<1>6. QED
  BY <1>2, <1>3, <1>4, <1>5 DEF TableStep

THEOREM HashMatchesTextAlways == Spec => []HashMatchesText
<1>1. Init => HashMatchesText
  BY DEF Init, HashMatchesText, Stored
<1>2. TypeOK /\ HashMatchesText /\ [Next]_vars => HashMatchesText'
  BY TableCases, HashMatchesTextStep
<1>3. QED
  BY <1>1, <1>2, TypeCorrect, PTL DEF Spec

-----------------------------------------------------------------------------
\* What one step can do to one call: where an answer "created" and the pending
\* second statement of a Supersede come from.
LEMMA CallStep ==
  ASSUME TypeOK, [Next]_vars, NEW c \in Call
  PROVE  \/ call'[c] = call[c]
         \/ /\ \A d \in Call : d # c => call'[d] = call[d]
            /\ \/ /\ call'[c].pc # "link"
                  /\ ~(call'[c].pc = "done" /\ call'[c].outcome = "created")
               \/ \E m \in MemoryId :
                    /\ call'[c] = [pc |-> "done", outcome |-> "created", id |-> m]
                    /\ ~Stored(m) /\ Stored(m)'
               \/ \E m, n \in MemoryId :
                    /\ call'[c] = [pc |-> "link", old |-> m, new |-> n]
                    /\ m # n /\ Stored(n)
<1> DEFINE Changed(d) == \A e \in Call : e # d => call'[e] = call[e]
           Plain(d) == /\ call'[d].pc # "link"
                       /\ ~(call'[d].pc = "done" /\ call'[d].outcome = "created")
           Goal(d) ==
             /\ Changed(d)
             /\ \/ Plain(d)
                \/ \E m \in MemoryId :
                     /\ call'[d] = [pc |-> "done", outcome |-> "created", id |-> m]
                     /\ ~Stored(m) /\ Stored(m)'
                \/ \E m, n \in MemoryId :
                     /\ call'[d] = [pc |-> "link", old |-> m, new |-> n]
                     /\ m # n /\ Stored(n)
<1>t. call \in [Call -> CallState] /\ table \in [MemoryId -> Row \cup {NoRow}]
  BY DEF TypeOK
<1>1. ASSUME NEW d \in Call, NEW m \in MemoryId, NEW t \in Title, NEW b \in Body,
             NEW v \in Visibility, NEW vector \in {NoVector, <<t, b>>},
             CreateInsert(d, m, t, b, v, vector)
      PROVE  Goal(d)
  <2> DEFINE r == [user |-> Caller[d], title |-> t, body |-> b,
                   hash |-> ContentHash(t, b), visibility |-> v,
                   superseded_by |-> NoMemory, deleted |-> FALSE, embedding |-> vector]
  <2>1. r \in Row
    BY CallerAssumption DEF Row, Hash, Text
  <2>2. r # NoRow
    BY <2>1, DistinctNoRow
  <2>3. CASE Stored(m) \/ Duplicates(Caller[d], ContentHash(t, b)) # {}
    BY <1>1, <1>t, <2>3 DEF CreateInsert, Continue
  <2>4. CASE ~(Stored(m) \/ Duplicates(Caller[d], ContentHash(t, b)) # {})
    <3>1. table' = [table EXCEPT ![m] = r]
      BY <1>1, <2>4 DEF CreateInsert
    <3>2. Stored(m)'
      BY <3>1, <2>2, <1>t DEF Stored
    <3>3. QED
      BY <1>1, <1>t, <2>4, <3>2 DEF CreateInsert, Answer
  <2>5. QED
    BY <2>3, <2>4
<1>2. ASSUME NEW d \in Call, CreateFindById(d) PROVE Goal(d)
  <2>1. call[d] \in ByIdCall
    BY <1>2, <1>t DEF CreateFindById, CallState, NewCall, ByIdCall, ByHashCall,
                      WriteCall, EmbedCall, LinkCall, DoneCall
  <2>3. \/ call' = [call EXCEPT ![d] = [pc |-> "done", outcome |-> "existing",
                                        id |-> call[d].id]]
        \/ call' = [call EXCEPT ![d] = [call[d] EXCEPT !.pc = "byhash"]]
    BY <1>2 DEF CreateFindById, Answer, Continue
  <2>4. Changed(d)
    BY <2>3, <1>t
  <2>5. \/ call'[d] = [pc |-> "done", outcome |-> "existing", id |-> call[d].id]
        \/ call'[d] = [call[d] EXCEPT !.pc = "byhash"]
    BY <2>3, <1>t
  <2>6. \/ call'[d].pc = "done" /\ call'[d].outcome = "existing"
        \/ call'[d].pc = "byhash"
    BY <2>1, <2>5 DEF ByIdCall
  <2>7. QED
    BY <2>4, <2>6
<1>3. ASSUME NEW d \in Call, CreateFindByHash(d) PROVE Goal(d)
  BY <1>3, <1>t DEF CreateFindByHash, Answer
<1>4. ASSUME NEW d \in Call, NEW m \in MemoryId, UpdateRefused(d, m) PROVE Goal(d)
  BY <1>4, <1>t DEF UpdateRefused, Answer
<1>5. ASSUME NEW d \in Call, NEW m \in MemoryId, NEW t \in Title \cup {Keep},
             NEW b \in Body \cup {Keep}, NEW v \in Visibility \cup {Keep},
             UpdateRead(d, m, t, b, v)
      PROVE  Goal(d)
  BY <1>5, <1>t DEF UpdateRead, Continue
<1>6. ASSUME NEW d \in Call, UpdateWrite(d) PROVE Goal(d)
  BY <1>6, <1>t DEF UpdateWrite, AfterUpdate, Answer, Continue
<1>7. ASSUME NEW d \in Call, UpdateEmbed(d) PROVE Goal(d)
  BY <1>7, <1>t DEF UpdateEmbed, Answer
<1>8. ASSUME NEW d \in Call, NEW m \in MemoryId, DeleteMemory(d, m) \/ Share(d, m)
      PROVE  Goal(d)
  BY <1>8, <1>t DEF DeleteMemory, Share, Answer
<1>9. ASSUME NEW d \in Call, NEW m \in MemoryId, NEW n \in MemoryId,
             SupersedeCheck(d, m, n)
      PROVE  Goal(d)
  BY <1>9, <1>t DEF SupersedeCheck, Answer, Continue, Live
<1>10. ASSUME NEW d \in Call, SupersedeWrite(d) PROVE Goal(d)
  BY <1>10, <1>t DEF SupersedeWrite, Answer
<1>11. (BackfillRead \/ (\E m \in MemoryId : BackfillSet(m)) \/ BackfillStop) => call' = call
  BY DEF BackfillRead, BackfillSet, BackfillStop
<1> HIDE DEF Goal
<1>12. Next => call' = call \/ \E d \in Call : Goal(d)
  BY <1>1, <1>2, <1>3, <1>4, <1>5, <1>6, <1>7, <1>8, <1>9, <1>10, <1>11, NextCases, Zenon
<1>13. call' = call \/ \E d \in Call : Goal(d)
  BY <1>12 DEF vars
<1>14. ASSUME NEW d \in Call, Goal(d), d # c PROVE call'[c] = call[c]
  BY <1>14 DEF Goal
<1>15. CASE Goal(c)
  BY <1>15 DEF Goal
<1>16. QED
  BY <1>13, <1>14, <1>15

\* A row that is stored stays stored.
LEMMA StoredStays ==
  TypeOK /\ [Next]_vars => \A m \in MemoryId : Stored(m) => Stored(m)'
  BY TableCases, RowStep

\* Of all the calls that carry one ID, one is told it created the row.
THEOREM CreatedOnceAlways == Spec => []CreatedOnce
<1> DEFINE Inv == CreatedOnce /\ CreatedStored
<1>1. Init => Inv
  BY DEF Init, CreatedOnce, CreatedStored, NewCall
<1>2. ASSUME TypeOK, Inv, [Next]_vars PROVE Inv'
  <2> DEFINE Created(c) == call[c].pc = "done" /\ call[c].outcome = "created"
  <2>1. ASSUME NEW c \in Call, Created(c)'
        PROVE  \/ Created(c) /\ call'[c] = call[c]
               \/ /\ \A d \in Call : d # c => call'[d] = call[d]
                  /\ call'[c].id \in MemoryId
                  /\ ~Stored(call'[c].id) /\ table'[call'[c].id] # NoRow
    <3>1. CASE call'[c] = call[c]
      BY <2>1, <3>1
    <3>2. CASE call'[c] # call[c]
      <4>1. /\ \A d \in Call : d # c => call'[d] = call[d]
            /\ \E m \in MemoryId :
                 /\ call'[c] = [pc |-> "done", outcome |-> "created", id |-> m]
                 /\ ~Stored(m) /\ Stored(m)'
        <5> HIDE DEF Inv
        <5>1. call'[c].pc = "done" /\ call'[c].outcome = "created"
          BY <2>1
        <5>2. \A m, n : [pc |-> "link", old |-> m, new |-> n].pc = "link"
          OBVIOUS
        <5>3. QED
          BY <1>2, <3>2, <5>1, <5>2, CallStep
      <4>2. QED
        BY <4>1 DEF Stored
    <3>3. QED
      BY <3>1, <3>2
  <2>2. CreatedStored'
    <3>1. SUFFICES ASSUME NEW c \in Call, Created(c)'
                    PROVE  call'[c].id \in MemoryId /\ table'[call'[c].id] # NoRow
      BY DEF CreatedStored, Stored
    <3>2. CASE Created(c) /\ call'[c] = call[c]
      <4>1. Stored(call[c].id) /\ call[c].id \in MemoryId
        BY <1>2, <3>2 DEF CreatedStored
      <4>2. QED
        BY <1>2, <4>1, <3>2, StoredStays DEF Stored
    <3>3. QED
      BY <2>1, <3>1, <3>2
  <2>3. ASSUME NEW c \in Call, NEW d \in Call, Created(c)', Created(d)',
               call'[c].id = call'[d].id, c # d
        PROVE  FALSE
    BY <1>2, <2>1, <2>3 DEF CreatedOnce, CreatedStored
  <2>4. CreatedOnce'
    BY <2>3 DEF CreatedOnce
  <2>5. QED
    BY <2>2, <2>4
<1>3. QED
  BY <1>1, <1>2, TypeCorrect, PTL DEF Spec

\* Only the second statement of a Supersede sets what replaces a row.
LEMMA ReplacementStep ==
  ASSUME TypeOK, TableStep, NEW m \in MemoryId, Stored(m)'
  PROVE  \/ ~Stored(m) /\ table'[m].superseded_by = NoMemory
         \/ Stored(m) /\ table'[m].superseded_by = table[m].superseded_by
         \/ /\ Stored(m)
            /\ \E c \in Call : /\ call[c].pc = "link" /\ call[c].old = m
                               /\ table'[m].superseded_by = call[c].new
<1>t. table \in [MemoryId -> Row \cup {NoRow}]
  BY DEF TypeOK
<1>r. Stored(m) => table[m] \in Row
  BY <1>t DEF Stored
<1>1. CASE table'[m] = table[m]
  BY <1>1 DEF Stored
<1>2. ASSUME NEW c \in Call, NEW k \in MemoryId, NEW r \in Row, Inserts(c, k, r),
             table'[m] # table[m]
      PROVE  ~Stored(m) /\ table'[m].superseded_by = NoMemory
  BY <1>2, <1>t DEF Inserts
<1>3. ASSUME NEW c \in Call, NEW k \in MemoryId, NEW l \in MemoryId, Links(c, k, l),
             table'[m] # table[m]
      PROVE  /\ Stored(m) /\ call[c].pc = "link" /\ call[c].old = m
             /\ table'[m].superseded_by = call[c].new
  <2>1. Stored(m) /\ k = m /\ table'[m] = [table[m] EXCEPT !.superseded_by = l]
    BY <1>3, <1>t DEF Links, Editable, Live
  <2>2. table'[m].superseded_by = l
    BY <2>1, <1>r DEF Row
  <2>3. QED
    BY <1>3, <2>1, <2>2 DEF Links
<1>4. ASSUME table'[m] # table[m],
             \/ \E c \in Call, w \in WriteCall : Edits(c, w)
             \/ \E c \in Call, k \in MemoryId : Deletes(c, k) \/ Shares(c, k)
             \/ \E k \in MemoryId, vector \in Text : SetEmbedding(k, vector)
      PROVE  Stored(m) /\ table'[m].superseded_by = table[m].superseded_by
  <2>1. /\ Stored(m)
        /\ \/ \E w \in WriteCall : table'[m] = Edited(table[m], w)
           \/ table'[m] = [table[m] EXCEPT !.deleted = TRUE]
           \/ table'[m] = [table[m] EXCEPT !.visibility = "team"]
           \/ \E vector \in Text : table'[m] = [table[m] EXCEPT !.embedding = vector]
    BY <1>4, <1>t DEF Edits, Deletes, Shares, SetEmbedding, Editable, Live, WriteCall
  <2>2. QED
    BY <2>1, <1>r DEF Row, Edited
<1>5. QED
  BY <1>1, <1>2, <1>3, <1>4 DEF TableStep

\* Between the two statements of a Supersede its replacement stays stored.
LEMMA LinkStep == TypeOK /\ LinkTargetStored /\ [Next]_vars => LinkTargetStored'
<1> SUFFICES ASSUME TypeOK, LinkTargetStored, [Next]_vars,
                    NEW c \in Call, call'[c].pc = "link"
             PROVE  call'[c].old # call'[c].new /\ table'[call'[c].new] # NoRow
  BY DEF LinkTargetStored, Stored
<1>1. CASE call'[c] = call[c]
  <2>1. call[c] \in LinkCall
    BY <1>1 DEF TypeOK, CallState, NewCall, ByIdCall, ByHashCall,
                WriteCall, EmbedCall, LinkCall, DoneCall
  <2>2. call[c].new \in MemoryId /\ Stored(call[c].new) /\ call[c].old # call[c].new
    BY <1>1, <2>1 DEF LinkTargetStored, LinkCall
  <2>3. QED
    BY <1>1, <2>2, StoredStays DEF Stored
<1>2. CASE call'[c] # call[c]
  <2>1. \E m, n \in MemoryId : /\ call'[c] = [pc |-> "link", old |-> m, new |-> n]
                               /\ m # n /\ Stored(n)
    <3>1. \A m : [pc |-> "done", outcome |-> "created", id |-> m].pc = "done"
      OBVIOUS
    <3>2. QED
      BY <1>2, <3>1, CallStep
  <2>2. QED
    BY <2>1, StoredStays DEF Stored
<1>3. QED
  BY <1>1, <1>2

\* While a supersede is between its check and its write, the row it is about to
\* name is stored, and is another one than the row it replaces.
THEOREM LinksStored == Spec => []LinkTargetStored
<1>1. Init => LinkTargetStored
  BY DEF Init, LinkTargetStored, NewCall
<1>2. QED
  BY <1>1, LinkStep, TypeCorrect, PTL DEF Spec

\* A superseded row keeps naming a stored row other than itself.
THEOREM ChainsKept == Spec => ChainKept
<1> DEFINE Inv == ReplacementStored /\ LinkTargetStored
<1>1. Init => Inv
  BY DEF Init, ReplacementStored, LinkTargetStored, Stored, NewCall
<1>2. ASSUME TypeOK, Inv, [Next]_vars PROVE Inv'
  <2>2. LinkTargetStored'
    BY <1>2, LinkStep
  <2>3. ASSUME NEW m \in MemoryId, Stored(m)', table'[m].superseded_by # NoMemory
        PROVE  /\ table'[m].superseded_by # m
               /\ table'[table'[m].superseded_by] # NoRow
    <3>0. TableStep
      BY <1>2, TableCases
    <3>1. CASE Stored(m) /\ table'[m].superseded_by = table[m].superseded_by
      <4>1. table[m].superseded_by \in MemoryId
        BY <1>2, <2>3, <3>1 DEF TypeOK, Stored, Row
      <4>2. Stored(table[m].superseded_by) /\ table[m].superseded_by # m
        BY <1>2, <2>3, <3>1 DEF ReplacementStored
      <4>3. QED
        BY <1>2, <3>1, <4>1, <4>2, StoredStays DEF Stored
    <3>2. ASSUME NEW c \in Call, call[c].pc = "link", call[c].old = m,
                 table'[m].superseded_by = call[c].new
          PROVE  /\ table'[m].superseded_by # m
                 /\ table'[table'[m].superseded_by] # NoRow
      <4>1. call[c] \in LinkCall
        BY <1>2, <3>2 DEF TypeOK, CallState, NewCall, ByIdCall, ByHashCall,
                          WriteCall, EmbedCall, LinkCall, DoneCall
      <4>2. call[c].new \in MemoryId /\ Stored(call[c].new) /\ call[c].old # call[c].new
        BY <1>2, <3>2, <4>1 DEF LinkTargetStored, LinkCall
      <4>3. QED
        BY <1>2, <3>2, <4>2, StoredStays DEF Stored
    <3>3. QED
      BY <1>2, <2>3, <3>0, <3>1, <3>2, ReplacementStep
  <2>4. ReplacementStored'
    BY <2>3 DEF ReplacementStored, Stored
  <2>5. QED
    BY <2>2, <2>4
<1>3. ASSUME TypeOK, Inv, [Next]_vars PROVE ChainKeptStep
  <2>1. Inv'
    BY <1>2, <1>3
  <2>2. SUFFICES ASSUME NEW m \in MemoryId, Stored(m), table[m].superseded_by # NoMemory
                 PROVE  /\ Stored(m)'
                        /\ table'[m].superseded_by \notin {NoMemory, m}
                        /\ table'[table'[m].superseded_by] # NoRow
    BY DEF ChainKeptStep
  <2>3. Stored(m)'
    BY <1>3, <2>2, StoredStays
  <2>4. table'[m].superseded_by # NoMemory
    <3>1. TableStep
      BY <1>3, TableCases
    <3>2. ASSUME NEW c \in Call, call[c].pc = "link" PROVE call[c].new # NoMemory
      BY <1>3, <3>2, DistinctNoMemory
         DEF TypeOK, CallState, NewCall, ByIdCall, ByHashCall, WriteCall, EmbedCall,
             LinkCall, DoneCall
    <3>3. QED
      BY <1>3, <2>2, <2>3, <3>1, <3>2, ReplacementStep
  <2>5. QED
    BY <2>1, <2>3, <2>4 DEF ReplacementStored, Stored
<1>4. QED
  BY <1>1, <1>2, <1>3, TypeCorrect, PTL DEF Spec, ChainKept

-----------------------------------------------------------------------------
(* The table implements the book. *)

\* The calls that took effect, as a property of what a call holds.
Effective(s) == s.pc = "embed" \/ (s.pc = "done" /\ s.outcome \in {"created", "ok"})

\* A call that turns effective joins TookEffect; otherwise the set stays.
LEMMA EffectStep ==
  ASSUME TypeOK, NEW c \in Call, NEW s, call' = [call EXCEPT ![c] = s]
  PROVE  /\ Effective(s) /\ ~Effective(call[c]) =>
              c \in Call \ TookEffect /\ TookEffect' = TookEffect \cup {c}
         /\ (Effective(s) <=> Effective(call[c])) => TookEffect' = TookEffect
<1>1. call \in [Call -> CallState]
  BY DEF TypeOK
<1>2. call'[c] = s /\ \A d \in Call : d # c => call'[d] = call[d]
  BY <1>1
<1>3. TookEffect = {d \in Call : Effective(call[d])}
  BY DEF TookEffect, Effective
<1>4. TookEffect' = {d \in Call : Effective(call'[d])}
  BY DEF TookEffect, Effective
<1>5. \A d \in Call : d # c => (Effective(call'[d]) <=> Effective(call[d]))
  BY <1>2
<1>6. Effective(call'[c]) <=> Effective(s)
  BY <1>2
<1>7. ASSUME Effective(s), ~Effective(call[c])
      PROVE  c \in Call \ TookEffect /\ TookEffect' = TookEffect \cup {c}
  BY <1>3, <1>4, <1>5, <1>6, <1>7, Zenon
<1>8. ASSUME Effective(s) <=> Effective(call[c]) PROVE TookEffect' = TookEffect
  BY <1>3, <1>4, <1>5, <1>6, <1>8, Zenon
<1>9. QED
  BY <1>7, <1>8

\* The book's owner test is the one of the statements.
LEMMA RememberedIff ==
  ASSUME NEW c \in Call, NEW m \in MemoryId
  PROVE  Book!Remembered(c, m) <=> Editable(Caller[c], m)
  BY DEF Book!Remembered, Entries, Entry, Editable, Live, Owns

\* No duplicate under the unique index is no entry that says the same.
LEMMA SaysNewIf ==
  ASSUME HashMatchesText, NEW c \in Call, NEW m \in MemoryId, NEW t, NEW b,
         Duplicates(Caller[c], ContentHash(t, b)) \ {m} = {}
  PROVE  Book!SaysNew(c, m, t, b)
<1> SUFFICES ASSUME NEW n \in MemoryId, Stored(n), n # m, Book!Remembered(c, n)
             PROVE  ContentHash(Entries[n].title, Entries[n].body) # ContentHash(t, b)
  BY DEF Book!SaysNew, ContentHash, Entries
<1>1. Editable(Caller[c], n)
  BY RememberedIff
<1>2. Entries[n].title = table[n].title /\ Entries[n].body = table[n].body
  BY DEF Entries, Entry
<1>3. table[n].hash = ContentHash(table[n].title, table[n].body)
  BY DEF HashMatchesText
<1>4. n \notin Duplicates(Caller[c], ContentHash(t, b))
  OBVIOUS
<1>5. QED
  BY <1>1, <1>2, <1>3, <1>4 DEF Duplicates, Editable

\* One row written is one entry written.
LEMMA EntriesStep ==
  ASSUME TypeOK, NEW m \in MemoryId, NEW r \in Row, table' = [table EXCEPT ![m] = r]
  PROVE  /\ ~Stored(m) => Entries' = [n \in DOMAIN Entries \cup {m} |->
                                        IF n = m THEN Entry(r) ELSE Entries[n]]
         /\ Stored(m) => Entries' = [Entries EXCEPT ![m] = Entry(r)]
<1>t. table \in [MemoryId -> Row \cup {NoRow}]
  BY DEF TypeOK
<1>1. r # NoRow
  BY DistinctNoRow
<1>2. {n \in MemoryId : Stored(n)'} = {n \in MemoryId : Stored(n)} \cup {m}
  BY <1>t, <1>1 DEF Stored
<1>3. Entries' = [n \in {k \in MemoryId : Stored(k)} \cup {m} |-> Entry(table'[n])]
  BY <1>2 DEF Entries, Entry
<1>4. DOMAIN Entries = {n \in MemoryId : Stored(n)}
  BY DEF Entries
<1>5. table'[m] = r /\ \A n \in MemoryId : n # m => table'[n] = table[n]
  BY <1>t
<1>6. \A n \in DOMAIN Entries : Entries[n] = Entry(table[n])
  BY DEF Entries
<1>7. CASE ~Stored(m)
  BY <1>3, <1>4, <1>5, <1>6, <1>7
<1>8. CASE Stored(m)
  <2>1. {k \in MemoryId : Stored(k)} \cup {m} = DOMAIN Entries
    BY <1>4, <1>8
  <2>2. Entries' = [n \in DOMAIN Entries |-> Entry(table'[n])]
    BY <1>3, <2>1
  <2>3. [Entries EXCEPT ![m] = Entry(r)]
          = [n \in DOMAIN Entries |-> IF n = m THEN Entry(r) ELSE Entries[n]]
    BY Zenon
  <2>4. \A n \in DOMAIN Entries :
          Entry(table'[n]) = IF n = m THEN Entry(r) ELSE Entries[n]
    BY <1>4, <1>5, <1>6
  <2>5. [n \in DOMAIN Entries |-> Entry(table'[n])]
          = [n \in DOMAIN Entries |-> IF n = m THEN Entry(r) ELSE Entries[n]]
    BY <2>4
  <2>6. QED
    BY <1>8, <2>2, <2>3, <2>5
<1>9. QED
  BY <1>7, <1>8

\* An entry marked as forgotten, field by field.
LEMMA EntryForgotten ==
  ASSUME NEW r
  PROVE  [Entry(r) EXCEPT !.forgotten = TRUE]
           = [owner |-> r.user, title |-> r.title, body |-> r.body,
              visibility |-> r.visibility, replacedBy |-> r.superseded_by,
              forgotten |-> TRUE]
<1> DEFINE yes == TRUE
<1> HIDE DEF yes
<1>1. [Entry(r) EXCEPT !.forgotten = yes]
        = [owner |-> r.user, title |-> r.title, body |-> r.body,
           visibility |-> r.visibility, replacedBy |-> r.superseded_by,
           forgotten |-> yes]
  BY DEF Entry
<1>2. QED
  BY <1>1, Zenon DEF yes

\* A vector set on a row does not show.
LEMMA EmbeddingHidden ==
  ASSUME TypeOK, NEW m \in MemoryId, NEW vector \in Text, SetEmbedding(m, vector)
  PROVE  Entries' = Entries
<1>t. table \in [MemoryId -> Row \cup {NoRow}]
  BY DEF TypeOK
<1>1. CASE ~Stored(m)
  BY <1>1, <1>t DEF SetEmbedding, Entries, Stored
<1>2. CASE Stored(m)
  <2> DEFINE r == [table[m] EXCEPT !.embedding = vector]
  <2>1. table[m] \in Row
    BY <1>t, <1>2 DEF Stored
  <2>2. r \in Row /\ Entry(r) = Entry(table[m])
    BY <2>1 DEF Row, Entry
  <2>3. table' = [table EXCEPT ![m] = r]
    BY <1>2 DEF SetEmbedding
  <2> HIDE DEF r
  <2>4. Entries' = [Entries EXCEPT ![m] = Entry(table[m])]
    BY <1>2, <2>2, <2>3, EntriesStep
  <2>5. QED
    BY <1>2, <2>4 DEF Entries
<1>3. QED
  BY <1>1, <1>2

\* Every statement that changes what callers see is one step of the book, by
\* the call that sends it; every other step leaves the book as it was.
LEMMA BookStep ==
  ASSUME TypeOK, HashMatchesText, LinkTargetStored, [Next]_vars
  PROVE  [Book!BookNext]_(Book!bookVars)
<1> DEFINE Still == Entries' = Entries /\ TookEffect' = TookEffect
           Acted(c) == /\ c \in Call \ TookEffect /\ TookEffect' = TookEffect \cup {c}
                       /\ Book!Acts(c)
<1>t. table \in [MemoryId -> Row \cup {NoRow}] /\ call \in [Call -> CallState]
  BY DEF TypeOK
<1>s. UNCHANGED table => Entries' = Entries
  BY DEF Entries, Stored
<1>k. UNCHANGED call => TookEffect' = TookEffect
  BY DEF TookEffect
<1>v. {"private", "team"} = Visibility
  BY DEF Visibility
<1>a. ASSUME NEW c \in Call, NEW s, call' = [call EXCEPT ![c] = s],
             ~Effective(call[c]), ~Effective(s), UNCHANGED table
      PROVE  Still
  BY <1>a, <1>s, EffectStep
\* What a call holds at each statement, and which of these are effective.
<1>b. ASSUME NEW c \in Call, call[c].pc \in {"new", "byid", "byhash", "write", "link"}
      PROVE  ~Effective(call[c])
  BY <1>b DEF Effective
<1>c. \A m : \A o \in {"existing", "notfound", "forbidden", "conflict"} :
        ~Effective([pc |-> "done", outcome |-> o, id |-> m])
  BY DEF Effective
<1>e. \A m : \A o \in {"created", "ok"} : Effective([pc |-> "done", outcome |-> o, id |-> m])
  BY DEF Effective
<1>1. UNCHANGED vars => Still
  BY <1>s, <1>k DEF vars
<1>2. ASSUME NEW c \in Call, NEW m \in MemoryId, NEW t \in Title, NEW b \in Body,
             NEW v \in Visibility, NEW vector \in {NoVector, <<t, b>>},
             CreateInsert(c, m, t, b, v, vector)
      PROVE  Still \/ Acted(c)
  <2> DEFINE r == [user |-> Caller[c], title |-> t, body |-> b,
                   hash |-> ContentHash(t, b), visibility |-> v,
                   superseded_by |-> NoMemory, deleted |-> FALSE, embedding |-> vector]
             again == [pc |-> "byid", id |-> m, hash |-> ContentHash(t, b)]
  <2>0. ~Effective(call[c])
    BY <1>2, <1>b DEF CreateInsert
  <2>1. CASE Stored(m) \/ Duplicates(Caller[c], ContentHash(t, b)) # {}
    <3>1. call' = [call EXCEPT ![c] = again] /\ UNCHANGED table
      BY <1>2, <2>1 DEF CreateInsert, Continue
    <3>2. ~Effective(again)
      BY DEF Effective
    <3> HIDE DEF again
    <3>3. QED
      BY <1>a, <2>0, <3>1, <3>2
  <2>2. CASE ~(Stored(m) \/ Duplicates(Caller[c], ContentHash(t, b)) # {})
    <3>1. r \in Row
      BY CallerAssumption DEF Row, Hash, Text
    <3>2. Entry(r) = [owner |-> Caller[c], title |-> t, body |-> b, visibility |-> v,
                      replacedBy |-> NoMemory, forgotten |-> FALSE]
      BY DEF Entry
    <3>3. table' = [table EXCEPT ![m] = r]
      BY <1>2, <2>2 DEF CreateInsert
    <3>4. call' = [call EXCEPT ![c] = [pc |-> "done", outcome |-> "created", id |-> m]]
      BY <1>2, <2>2 DEF CreateInsert, Answer
    <3> HIDE DEF r
    <3>5. Entries' = [n \in DOMAIN Entries \cup {m} |->
                        IF n = m THEN Entry(r) ELSE Entries[n]]
      BY <2>2, <3>1, <3>3, EntriesStep
    <3>6. m \notin DOMAIN Entries
      BY <2>2 DEF Entries
    <3>7. Book!SaysNew(c, m, t, b)
      BY <2>2, SaysNewIf
    <3>8. Book!Write(c, m, t, b, v)
      BY <3>2, <3>5, <3>6, <3>7 DEF Book!Write
    <3>9. Book!Acts(c)
      BY <3>8, <1>v DEF Book!Acts
    <3>10. QED
      BY <2>0, <3>4, <3>9, <1>e, EffectStep
  <2>3. QED
    BY <2>1, <2>2
<1>3. ASSUME NEW c \in Call, CreateFindById(c) PROVE Still
  <2>1. call[c] \in ByIdCall
    BY <1>3, <1>t DEF CreateFindById, CallState, NewCall, ByIdCall, ByHashCall,
                      WriteCall, EmbedCall, LinkCall, DoneCall
  <2>2. ~Effective([call[c] EXCEPT !.pc = "byhash"])
    BY <2>1 DEF Effective, ByIdCall
  <2>3. ~Effective(call[c]) /\ UNCHANGED table
    BY <1>3, <1>b DEF CreateFindById
  <2>4. QED
    BY <1>3, <1>a, <1>c, <2>2, <2>3 DEF CreateFindById, Answer, Continue
<1>4. ASSUME NEW c \in Call, CreateFindByHash(c) PROVE Still
  BY <1>4, <1>a, <1>b, <1>c DEF CreateFindByHash, Answer
<1>5. ASSUME NEW c \in Call, NEW m \in MemoryId, UpdateRefused(c, m) PROVE Still
  BY <1>5, <1>a, <1>b, <1>c DEF UpdateRefused, Answer
<1>6. ASSUME NEW c \in Call, NEW m \in MemoryId, NEW t \in Title \cup {Keep},
             NEW b \in Body \cup {Keep}, NEW v \in Visibility \cup {Keep},
             UpdateRead(c, m, t, b, v)
      PROVE  Still
  <2> DEFINE state == [pc |-> "write", id |-> m,
                       title |-> Merged(t, table[m].title),
                       body |-> Merged(b, table[m].body),
                       visibility |-> Merged(v, table[m].visibility),
                       bodyChanged |-> Merged(b, table[m].body) # table[m].body,
                       reembed |-> t # Keep \/ b # Keep]
  <2>1. call' = [call EXCEPT ![c] = state] /\ UNCHANGED table
    BY <1>6 DEF UpdateRead, Continue
  <2>2. ~Effective(state)
    BY DEF Effective
  <2>3. ~Effective(call[c])
    BY <1>6, <1>b DEF UpdateRead
  <2> HIDE DEF state
  <2>4. QED
    BY <1>a, <2>1, <2>2, <2>3
<1>7. ASSUME NEW c \in Call, UpdateWrite(c) PROVE Still \/ Acted(c)
  <2> DEFINE w == call[c]
             row == Edited(table[w.id], w)
             embed == [pc |-> "embed", id |-> w.id, title |-> w.title, body |-> w.body]
  <2>0. ~Effective(call[c])
    BY <1>7, <1>b DEF UpdateWrite
  <2>1. w \in WriteCall
    BY <1>7, <1>t DEF UpdateWrite, CallState, NewCall, ByIdCall, ByHashCall,
                      WriteCall, EmbedCall, LinkCall, DoneCall
  <2>2. /\ w.title \in Title /\ w.body \in Body /\ w.id \in MemoryId
        /\ w.visibility \in Visibility /\ ContentHash(w.title, w.body) \in Hash
    BY <2>1 DEF WriteCall, Hash
  <2>3. CASE /\ UNCHANGED table
             /\ \E o \in {"notfound", "conflict"} : Answer(c, o, NoMemory)
    BY <1>a, <1>c, <2>0, <2>3 DEF Answer
  <2>4. CASE /\ Editable(Caller[c], w.id)
             /\ Duplicates(Caller[c], ContentHash(w.title, w.body)) \ {w.id} = {}
             /\ table' = [table EXCEPT ![w.id] = row]
             /\ AfterUpdate(c)
    <3>1. table[w.id] \in Row
      BY <1>t, <2>2, <2>4 DEF Editable, Live, Stored
    <3>2. /\ row \in Row
          /\ Entry(row) = [owner |-> Entry(table[w.id]).owner, title |-> w.title,
                           body |-> w.body, visibility |-> w.visibility,
                           replacedBy |-> Entry(table[w.id]).replacedBy,
                           forgotten |-> Entry(table[w.id]).forgotten]
      <4>1. row \in Row
        BY <2>2, <3>1 DEF Row, Edited
      <4>2. /\ row.user = table[w.id].user /\ row.title = w.title /\ row.body = w.body
            /\ row.visibility = w.visibility
            /\ row.superseded_by = table[w.id].superseded_by
            /\ row.deleted = table[w.id].deleted
        BY <3>1 DEF Row, Edited
      <4>3. QED
        BY <4>1, <4>2 DEF Entry
    <3>3. \/ call' = [call EXCEPT ![c] = embed]
          \/ call' = [call EXCEPT ![c] = [pc |-> "done", outcome |-> "ok", id |-> w.id]]
      BY <2>4 DEF AfterUpdate, Continue, Answer
    <3>4. Effective(embed)
      BY DEF Effective
    <3> HIDE DEF row, embed
    <3>5. c \in Call \ TookEffect /\ TookEffect' = TookEffect \cup {c}
      BY <2>0, <3>3, <3>4, <1>e, EffectStep
    <3>6. w.id \in DOMAIN Entries /\ Entries[w.id] = Entry(table[w.id])
      BY <2>2, <2>4 DEF Editable, Live, Entries
    <3>7. Entries' = [Entries EXCEPT ![w.id] = Entry(row)]
      BY <2>2, <2>4, <3>2, EntriesStep DEF Editable, Live
    <3>8. Book!Remembered(c, w.id) /\ Book!SaysNew(c, w.id, w.title, w.body)
      BY <2>2, <2>4, RememberedIff, SaysNewIf
    <3>9. Book!Amend(c, w.id, w.title, w.body, w.visibility)
      BY <3>2, <3>6, <3>7, <3>8 DEF Book!Amend
    <3>10. Book!Acts(c)
      BY <2>2, <3>9, <1>v DEF Book!Acts
    <3>11. QED
      BY <3>5, <3>10
  <2>5. QED
    BY <1>7, <2>3, <2>4 DEF UpdateWrite
<1>8. ASSUME NEW c \in Call, UpdateEmbed(c) PROVE Still
  <2>1. call[c] \in EmbedCall
    BY <1>8, <1>t DEF UpdateEmbed, CallState, NewCall, ByIdCall, ByHashCall,
                      WriteCall, EmbedCall, LinkCall, DoneCall
  <2>2. call[c].id \in MemoryId /\ <<call[c].title, call[c].body>> \in Text
    BY <2>1 DEF EmbedCall, Text
  <2>3. Entries' = Entries
    BY <1>8, <1>s, <2>2, EmbeddingHidden DEF UpdateEmbed
  <2>4. Effective(call[c])
    BY <1>8 DEF UpdateEmbed, Effective
  <2>5. call' = [call EXCEPT ![c] = [pc |-> "done", outcome |-> "ok", id |-> call[c].id]]
    BY <1>8 DEF UpdateEmbed, Answer
  <2>6. QED
    BY <2>3, <2>4, <2>5, <1>e, EffectStep
<1>9. ASSUME NEW c \in Call, NEW m \in MemoryId, NEW row, row \in Row, Editable(Caller[c], m),
             table' = [table EXCEPT ![m] = row],
             call[c].pc \in {"new", "link"}, Answer(c, "ok", m)
      PROVE  /\ c \in Call \ TookEffect /\ TookEffect' = TookEffect \cup {c}
             /\ Book!Remembered(c, m)
             /\ m \in DOMAIN Entries /\ Entries[m] = Entry(table[m])
             /\ Entries' = [Entries EXCEPT ![m] = Entry(row)]
  <2>1. ~Effective(call[c])
    BY <1>9, <1>b
  <2>2. c \in Call \ TookEffect /\ TookEffect' = TookEffect \cup {c}
    BY <1>9, <2>1, <1>e, EffectStep DEF Answer
  <2>3. Stored(m)
    BY <1>9 DEF Editable, Live
  <2>4. Entries' = [Entries EXCEPT ![m] = Entry(row)]
    BY <1>9, <2>3, EntriesStep
  <2>5. m \in DOMAIN Entries /\ Entries[m] = Entry(table[m])
    BY <2>3 DEF Entries
  <2>6. QED
    BY <1>9, <2>2, <2>4, <2>5, RememberedIff
<1>10. ASSUME NEW c \in Call, NEW m \in MemoryId, DeleteMemory(c, m)
       PROVE  Still \/ Acted(c)
  <2>1. CASE ~Editable(Caller[c], m)
    BY <1>10, <1>a, <1>b, <1>c, <2>1 DEF DeleteMemory, Answer
  <2>2. CASE Editable(Caller[c], m)
    <3> DEFINE row == [table[m] EXCEPT !.deleted = TRUE]
    <3>1. table[m] \in Row
      BY <1>t, <2>2 DEF Editable, Live, Stored
    <3>2. row \in Row /\ Entry(row) = [Entry(table[m]) EXCEPT !.forgotten = TRUE]
      <4>1. row \in Row
        BY <3>1 DEF Row
      <4>2. /\ row.user = table[m].user /\ row.title = table[m].title
            /\ row.body = table[m].body /\ row.visibility = table[m].visibility
            /\ row.superseded_by = table[m].superseded_by /\ row.deleted = TRUE
        BY <3>1 DEF Row
      <4>3. [Entry(table[m]) EXCEPT !.forgotten = TRUE]
              = [owner |-> table[m].user, title |-> table[m].title, body |-> table[m].body,
                 visibility |-> table[m].visibility,
                 replacedBy |-> table[m].superseded_by, forgotten |-> TRUE]
        BY EntryForgotten
      <4>4. QED
        BY <4>1, <4>2, <4>3 DEF Entry
    <3>3. table' = [table EXCEPT ![m] = row] /\ call[c].pc = "new" /\ Answer(c, "ok", m)
      BY <1>10, <2>2 DEF DeleteMemory
    <3> HIDE DEF row
    <3>4. /\ c \in Call \ TookEffect /\ TookEffect' = TookEffect \cup {c}
          /\ Book!Remembered(c, m)
          /\ m \in DOMAIN Entries /\ Entries[m] = Entry(table[m])
          /\ Entries' = [Entries EXCEPT ![m] = Entry(row)]
      BY <1>9, <2>2, <3>2, <3>3
    <3>5. Book!Forget(c, m)
      BY <3>2, <3>4 DEF Book!Forget
    <3>6. QED
      BY <3>4, <3>5 DEF Book!Acts
  <2>3. QED
    BY <2>1, <2>2
<1>11. ASSUME NEW c \in Call, NEW m \in MemoryId, Share(c, m)
       PROVE  Still \/ Acted(c)
  <2>1. CASE ~Editable(Caller[c], m)
    BY <1>11, <1>a, <1>b, <1>c, <2>1 DEF Share, Answer
  <2>2. CASE Editable(Caller[c], m)
    <3> DEFINE row == [table[m] EXCEPT !.visibility = "team"]
    <3>1. table[m] \in Row
      BY <1>t, <2>2 DEF Editable, Live, Stored
    <3>2. row \in Row /\ Entry(row) = [Entry(table[m]) EXCEPT !.visibility = "team"]
      BY <3>1 DEF Row, Entry, Visibility
    <3>3. table' = [table EXCEPT ![m] = row] /\ call[c].pc = "new" /\ Answer(c, "ok", m)
      BY <1>11, <2>2 DEF Share
    <3> HIDE DEF row
    <3>4. /\ c \in Call \ TookEffect /\ TookEffect' = TookEffect \cup {c}
          /\ Book!Remembered(c, m)
          /\ m \in DOMAIN Entries /\ Entries[m] = Entry(table[m])
          /\ Entries' = [Entries EXCEPT ![m] = Entry(row)]
      BY <1>9, <2>2, <3>2, <3>3
    <3>5. Book!Show(c, m)
      BY <3>2, <3>4 DEF Book!Show
    <3>6. QED
      BY <3>4, <3>5 DEF Book!Acts
  <2>3. QED
    BY <2>1, <2>2
<1>12. ASSUME NEW c \in Call, NEW m \in MemoryId, NEW n \in MemoryId, SupersedeCheck(c, m, n)
       PROVE  Still
  <2>1. ~Effective([pc |-> "link", old |-> m, new |-> n])
    BY DEF Effective
  <2>2. ~Effective(call[c]) /\ UNCHANGED table
    BY <1>12, <1>b DEF SupersedeCheck
  <2>3. QED
    BY <1>12, <1>a, <1>c, <2>1, <2>2 DEF SupersedeCheck, Answer, Continue
<1>13. ASSUME NEW c \in Call, SupersedeWrite(c) PROVE Still \/ Acted(c)
  <2> DEFINE m == call[c].old
             n == call[c].new
  <2>0. call[c] \in LinkCall
    BY <1>13, <1>t DEF SupersedeWrite, CallState, NewCall, ByIdCall, ByHashCall,
                       WriteCall, EmbedCall, LinkCall, DoneCall
  <2>a. m \in MemoryId /\ n \in MemoryId /\ m # n /\ Stored(n) /\ call[c].pc = "link"
    BY <1>13, <2>0 DEF LinkCall, LinkTargetStored, SupersedeWrite
  <2>1. CASE ~Editable(Caller[c], m)
    BY <1>13, <1>a, <1>b, <1>c, <2>1 DEF SupersedeWrite, Answer
  <2>2. CASE Editable(Caller[c], m)
    <3> DEFINE row == [table[m] EXCEPT !.superseded_by = n]
    <3>1. table[m] \in Row
      BY <1>t, <2>a, <2>2 DEF Editable, Live, Stored
    <3>2. row \in Row /\ Entry(row) = [Entry(table[m]) EXCEPT !.replacedBy = n]
      BY <2>a, <3>1 DEF Row, Entry
    <3>3. table' = [table EXCEPT ![m] = row] /\ Answer(c, "ok", m)
      BY <1>13, <2>2 DEF SupersedeWrite
    <3> HIDE DEF row, m, n
    <3>4. /\ c \in Call \ TookEffect /\ TookEffect' = TookEffect \cup {c}
          /\ Book!Remembered(c, m)
          /\ m \in DOMAIN Entries /\ Entries[m] = Entry(table[m])
          /\ Entries' = [Entries EXCEPT ![m] = Entry(row)]
      BY <1>9, <2>a, <2>2, <3>2, <3>3
    <3>5. n \in DOMAIN Entries \ {m}
      BY <2>a DEF Entries
    <3>6. Book!Replace(c, m, n)
      BY <3>2, <3>4, <3>5 DEF Book!Replace
    <3>7. QED
      BY <2>a, <3>4, <3>6 DEF Book!Acts
  <2>3. QED
    BY <2>1, <2>2
<1>14. (BackfillRead \/ BackfillStop) => Still
  BY <1>s, <1>k DEF BackfillRead, BackfillStop
<1>15. ASSUME NEW m \in MemoryId, BackfillSet(m) PROVE Still
  <2>1. backfill[m] \in Text
    BY <1>15 DEF BackfillSet, TypeOK
  <2>2. QED
    BY <1>15, <1>k, <2>1, EmbeddingHidden DEF BackfillSet
<1> HIDE DEF Still, Acted
<1>16. Next => Still \/ \E c \in Call : Acted(c)
  BY <1>2, <1>3, <1>4, <1>5, <1>6, <1>7, <1>8, <1>10, <1>11, <1>12, <1>13,
     <1>14, <1>15, NextCases, Zenon
<1>17. Still \/ \E c \in Call : Acted(c)
  BY <1>1, <1>16
<1>18. QED
  BY <1>17 DEF Still, Acted, Book!BookNext, Book!bookVars

\* Seen through Entries and TookEffect, every behaviour of the table is one of
\* the book.
THEOREM BookImplemented == Spec => ImplementsBook
<1>1. Init => Book!BookInit
  <2> SUFFICES ASSUME Init PROVE Book!BookInit
    OBVIOUS
  <2>1. \A m \in MemoryId : ~Stored(m)
    BY DEF Init, Stored
  <2>2. {n \in MemoryId : Stored(n)} = {}
    BY <2>1
  <2>3. Entries = [m \in {} |-> NoMemory]
    BY <2>2 DEF Entries
  <2>4. TookEffect = {}
    BY DEF Init, TookEffect, NewCall
  <2>5. QED
    BY <2>3, <2>4 DEF Book!BookInit
<1>2. TypeOK /\ HashMatchesText /\ LinkTargetStored /\ [Next]_vars
        => [Book!BookNext]_(Book!bookVars)
  BY BookStep
<1>3. Spec => []LinkTargetStored
  BY LinksStored
<1>4. QED
  BY <1>1, <1>2, <1>3, TypeCorrect, HashMatchesTextAlways, PTL
     DEF Spec, ImplementsBook, Book!BookSpec
=============================================================================
