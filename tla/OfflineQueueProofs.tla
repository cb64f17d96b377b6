------------------------- MODULE OfflineQueueProofs -------------------------
(* Machine-checked proofs about OfflineQueue, for any saves, terminals and  *)
(* contents, any limit of the queue and any number of failures.             *)
EXTENDS OfflineQueue, FiniteSetTheorems, TLAPS

-----------------------------------------------------------------------------
(* The queue file *)

LEMMA AppendedLines ==
  ASSUME NEW S, NEW file \in Seq(S), NEW s \in S
  PROVE  /\ Append(file, s) \in Seq(S)
         /\ Lines(Append(file, s)) = Lines(file) \cup {s}
<1> DEFINE longer == Append(file, s)
           n == Len(file)
<1>1. /\ longer \in Seq(S) /\ n \in Nat /\ DOMAIN file = 1 .. n
      /\ DOMAIN longer = 1 .. n + 1
      /\ \A i \in 1 .. n : longer[i] = file[i]
      /\ longer[n + 1] = s
  OBVIOUS
<1> HIDE DEF longer, n
<1>2. ASSUME NEW x PROVE x \in Lines(longer) <=> x \in Lines(file) \cup {s}
  <2>1. ASSUME NEW i \in 1 .. n + 1, x = longer[i] PROVE x \in Lines(file) \cup {s}
    <3>1. CASE i = n + 1
      BY <1>1, <2>1, <3>1
    <3>2. CASE i # n + 1
      <4>1. i \in 1 .. n
        BY <1>1, <3>2
      <4>2. QED
        BY <1>1, <2>1, <4>1 DEF Lines, ToSet
    <3>3. QED
      BY <3>1, <3>2
  <2>2. ASSUME NEW i \in 1 .. n, x = file[i] PROVE x \in Lines(longer)
    <3>1. i \in 1 .. n + 1
      BY <1>1
    <3>2. QED
      BY <1>1, <2>2, <3>1 DEF Lines, ToSet
  <2>3. s \in Lines(longer)
    <3>1. n + 1 \in 1 .. n + 1
      BY <1>1
    <3>2. QED
      BY <1>1, <3>1 DEF Lines, ToSet
  <2>4. QED
    BY <1>1, <2>1, <2>2, <2>3 DEF Lines, ToSet
<1>3. QED
  BY <1>1, <1>2 DEF longer

\* Taking entries out of a file leaves a file of the others.
LEMMA WithoutLines ==
  ASSUME NEW S, NEW file \in Seq(S), NEW done
  PROVE  /\ Without(file, done) \in Seq(S)
         /\ Lines(Without(file, done)) = Lines(file) \ done
<1> DEFINE kept == {i \in DOMAIN file : file[i] \notin done}
           UpTo(i) == {j \in kept : j <= i}
           Place(i) == Cardinality(UpTo(i))
           n == Cardinality(kept)
           Pick(k) == CHOOSE i \in kept : Place(i) = k
<1>1. DOMAIN file = 1 .. Len(file) /\ Len(file) \in Nat /\ \A i \in DOMAIN file : file[i] \in S
  OBVIOUS
<1>2. kept \subseteq 1 .. Len(file) /\ IsFiniteSet(kept) /\ n \in Nat
  <2>1. IsFiniteSet(1 .. Len(file))
    BY <1>1, FS_Interval
  <2>2. kept \subseteq 1 .. Len(file)
    BY <1>1
  <2>3. QED
    BY <2>1, <2>2, FS_Subset, FS_CardinalityType
<1>3. ASSUME NEW i \in kept PROVE IsFiniteSet(UpTo(i)) /\ Place(i) \in 1 .. n
  <2>1. UpTo(i) \subseteq kept /\ i \in UpTo(i)
    BY <1>2
  <2>2. IsFiniteSet(UpTo(i)) /\ Place(i) <= n /\ Place(i) \in Nat
    BY <1>2, <2>1, FS_Subset, FS_CardinalityType
  <2>3. Place(i) # 0
    BY <2>1, <2>2, FS_EmptySet
  <2>4. QED
    BY <1>2, <2>2, <2>3
<1>4. ASSUME NEW i \in kept, NEW j \in kept, i < j PROVE Place(i) # Place(j)
  <2>1. UpTo(i) \subseteq UpTo(j) /\ j \in UpTo(j) /\ j \notin UpTo(i)
    BY <1>2, <1>4
  <2>2. QED
    BY <1>3, <2>1, FS_Subset
<1> HIDE DEF UpTo, Place, kept, n
<1>5. ASSUME NEW k \in 1 .. n PROVE \E i \in kept : Place(i) = k
  <2> DEFINE f == [i \in kept |-> Place(i)]
  <2>1. f \in Injection(kept, 1 .. n)
    <3>1. f \in [kept -> 1 .. n]
      BY <1>3
    <3>2. \A i, j \in kept : f[i] = f[j] => i = j
      <4>1. \A i, j \in kept : i < j \/ j < i \/ i = j
        BY <1>2
      <4>2. QED
        BY <1>4, <4>1
    <3>3. QED
      BY <3>1, <3>2 DEF Injection, IsInjective
  <2>2. IsFiniteSet(1 .. n) /\ Cardinality(1 .. n) = n
    BY <1>2, FS_Interval
  <2>3. f \in Surjection(kept, 1 .. n)
    BY <1>2, <2>1, <2>2, FS_Injection DEF n
  <2>4. QED
    BY <2>3 DEF Surjection
<1>6. \A k \in 1 .. n : Pick(k) \in kept /\ Place(Pick(k)) = k
  BY <1>5
<1>7. Without(file, done) = [k \in 1 .. n |-> file[Pick(k)]]
  BY DEF Without, kept, n, Place, UpTo
<1>8. \A i \in kept : i \in DOMAIN file /\ file[i] \in S /\ file[i] \notin done
  BY <1>1 DEF kept
<1> HIDE DEF Pick
<1>9. Without(file, done) \in Seq(S)
  <2>1. Without(file, done) \in [1 .. n -> S]
    BY <1>6, <1>7, <1>8
  <2>2. QED
    BY <1>2, <2>1
<1>10. ASSUME NEW x \in Lines(file) \ done PROVE x \in Lines(Without(file, done))
  <2>1. PICK i \in kept : file[i] = x
    BY DEF Lines, ToSet, kept
  <2>2. Place(i) \in 1 .. n /\ Pick(Place(i)) = i
    <3>1. Place(i) \in 1 .. n
      BY <1>3
    <3>2. Place(Pick(Place(i))) = Place(i) /\ Pick(Place(i)) \in kept
      BY <1>6, <3>1
    <3>3. i < Pick(Place(i)) \/ Pick(Place(i)) < i \/ i = Pick(Place(i))
      <4>1. \A j \in kept : j \in Nat
        BY <1>1, <1>2
      <4>2. QED
        BY <3>2, <4>1
    <3>4. QED
      BY <1>4, <3>1, <3>2, <3>3
  <2>3. QED
    BY <1>7, <2>1, <2>2 DEF Lines, ToSet
<1>11. Lines(Without(file, done)) \subseteq Lines(file) \ done
  BY <1>6, <1>7, <1>8 DEF Lines, ToSet
<1>12. QED
  BY <1>9, <1>10, <1>11

-----------------------------------------------------------------------------
(* Types *)

SaveState == {"new", "read", "open", "append", "queued", "over"}
RowState == {"absent", "live", "changed"}
PushState ==
  [pc : {"idle", "post", "replace"}, todo : Seq(Save), done : SUBSET Save, remaining : Seq(Save)]

QueueTypeOK ==
  /\ queue \in Seq(Save) /\ writers \subseteq Save
  /\ save \in [Save -> SaveState]
  /\ push \in [Pusher -> PushState]
  /\ row \in [Id -> RowState]
  /\ trouble \in Nat
  /\ taken \subseteq Save /\ lost \subseteq Save

\* What a step does to the server: nothing, a create request of some command, or
\* an edit.
ServerStep ==
  \/ UNCHANGED <<row, taken>>
  \/ \E s \in Save, kind \in {"drawn", "queued"} : CreateMemory(s, kind)
  \/ \E i \in Id : row[i] = "live" /\ row' = [row EXCEPT ![i] = "changed"] /\ UNCHANGED taken

LEMMA NextInTodo ==
  ASSUME QueueTypeOK, NEW p \in Pusher, push[p].todo # <<>>
  PROVE  /\ Head(push[p].todo) \in Save
         /\ Tail(push[p].todo) \in Seq(Save)
<1>1. push[p].todo \in Seq(Save)
  BY DEF QueueTypeOK, PushState
<1>2. QED
  BY <1>1

LEMMA ServerCases == QueueTypeOK /\ [QueueNext]_queueVars => ServerStep
<1> SUFFICES ASSUME QueueTypeOK, [QueueNext]_queueVars PROVE ServerStep
  OBVIOUS
<1> USE DEF ServerStep
<1>1. CASE UNCHANGED queueVars
  BY <1>1 DEF queueVars
<1>2. ASSUME NEW s \in Save, SaveStep(s) \/ SaveCrash(s) PROVE ServerStep
  BY <1>2 DEF SaveStep, SaveCrash, SaveOnline, SaveRefused, SaveOffline, NotAccepted,
              EnqueueRead, EnqueueOpen, EnqueueAppend
<1>3. ASSUME NEW p \in Pusher, PushStep(p) \/ PushOffline(p) \/ PushCrash(p) PROVE ServerStep
  BY <1>3, NextInTodo DEF PushStep, PushRead, PushAccepted, PushRefused, NotAccepted,
                          DequeueRead, DequeueReplace, PushOffline, PushCrash
<1>4. ASSUME NEW i \in Id, ChangeRow(i) PROVE ServerStep
  BY <1>4 DEF ChangeRow
<1>5. QED
  BY <1>1, <1>2, <1>3, <1>4 DEF QueueNext

LEMMA QueueInitTypeOK == QueueInit => QueueTypeOK
  BY LimitAssumption
  DEF QueueInit, QueueTypeOK, SaveState, RowState, PushState, PushIdle

\* What a command holds, and the files it leaves, stay of their types.
LEMMA QueueNextTypeOK == QueueTypeOK /\ [QueueNext]_queueVars => QueueTypeOK'
<1> SUFFICES ASSUME QueueTypeOK, [QueueNext]_queueVars PROVE QueueTypeOK'
  OBVIOUS
<1>a. row' \in [Id -> RowState] /\ taken' \subseteq Save
  <2>1. ServerStep
    BY ServerCases
  <2>2. QED
    BY <2>1 DEF ServerStep, CreateMemory, QueueTypeOK, RowState
<1> USE <1>a DEF QueueTypeOK
<1>b. PushIdle \in PushState
  BY DEF PushIdle, PushState
<1>1. CASE UNCHANGED queueVars
  BY <1>1 DEF queueVars
<1>2. ASSUME NEW s \in Save, SaveOnline(s) \/ SaveRefused(s) \/ SaveOffline(s)
      PROVE  QueueTypeOK'
  BY <1>2 DEF SaveOnline, SaveRefused, SaveOffline, PushGoto, SaveState
<1>3. ASSUME NEW s \in Save, EnqueueRead(s) \/ EnqueueOpen(s) \/ SaveCrash(s)
      PROVE  QueueTypeOK'
  BY <1>3 DEF EnqueueRead, EnqueueOpen, SaveCrash, PushGoto, SaveState
<1>4. ASSUME NEW s \in Save, EnqueueAppend(s) PROVE QueueTypeOK'
  BY <1>4, AppendedLines DEF EnqueueAppend, PushGoto, SaveState
<1>5. ASSUME NEW p \in Pusher, PushRead(p) PROVE QueueTypeOK'
  <2>1. push' = [push EXCEPT ![p] = [push[p] EXCEPT !.pc = "post", !.todo = queue]]
    BY <1>5 DEF PushRead, PushState
  <2>2. [push[p] EXCEPT !.pc = "post", !.todo = queue] \in PushState
    BY DEF PushState
  <2>3. QED
    BY <1>5, <2>1, <2>2 DEF PushRead
<1>6. ASSUME NEW p \in Pusher, PushAccepted(p) PROVE QueueTypeOK'
  <2> DEFINE s == Head(push[p].todo)
  <2>1. s \in Save /\ Tail(push[p].todo) \in Seq(Save)
    BY <1>6, NextInTodo DEF PushAccepted
  <2>2. push' = [push EXCEPT ![p] = [push[p] EXCEPT !.todo = Tail(push[p].todo),
                                                     !.done = push[p].done \cup {s}]]
    BY <1>6 DEF PushAccepted, PushState
  <2>3. [push[p] EXCEPT !.todo = Tail(push[p].todo), !.done = push[p].done \cup {s}] \in PushState
    BY <2>1 DEF PushState
  <2>4. QED
    BY <1>6, <2>2, <2>3 DEF PushAccepted
<1>7. ASSUME NEW p \in Pusher, PushRefused(p) PROVE QueueTypeOK'
  <2>1. Tail(push[p].todo) \in Seq(Save)
    BY <1>7, NextInTodo DEF PushRefused
  <2>2. [push[p] EXCEPT !.todo = Tail(@)] \in PushState
    BY <2>1 DEF PushState
  <2>3. QED
    BY <1>7, <2>2 DEF PushRefused, Fail
<1>8. ASSUME NEW p \in Pusher, PushOffline(p) \/ PushCrash(p) PROVE QueueTypeOK'
  BY <1>8, <1>b DEF PushOffline, PushCrash, Fail
<1>9. ASSUME NEW p \in Pusher, DequeueRead(p) PROVE QueueTypeOK'
  <2>1. Without(queue, push[p].done) \in Seq(Save)
    BY WithoutLines
  <2>2. [push[p] EXCEPT !.pc = "replace", !.remaining = Without(queue, push[p].done)]
          \in PushState
    BY <2>1 DEF PushState
  <2>3. QED
    BY <1>9, <1>b, <2>2 DEF DequeueRead
<1>10. ASSUME NEW p \in Pusher, DequeueReplace(p) PROVE QueueTypeOK'
  <2>1. push[p].remaining \in Seq(Save) /\ push[p].done \subseteq Save
    BY DEF PushState
  <2>2. Lines(queue) \subseteq Save
    BY DEF Lines, ToSet
  <2>3. QED
    BY <1>10, <1>b, <2>1, <2>2 DEF DequeueReplace
<1>11. ASSUME NEW i \in Id, ChangeRow(i) PROVE QueueTypeOK'
  BY <1>11 DEF ChangeRow, client
<1>12. QED
  BY <1>1, <1>2, <1>3, <1>4, <1>5, <1>6, <1>7, <1>8, <1>9, <1>10, <1>11
     DEF QueueNext, SaveStep, PushStep

\* Every state of the machine and the server has its type.
THEOREM QueueTypeCorrect == QueueSpec => []QueueTypeOK
  BY QueueInitTypeOK, QueueNextTypeOK, PTL DEF QueueSpec

-----------------------------------------------------------------------------
(* What a replaced file may leave out *)

\* A push counts as done only what the server has taken, so the lines it takes
\* out of the file are not the last of their saves.
DoneIsTaken == \A p \in Pusher : push[p].done \subseteq taken

LEMMA DoneStaysTaken ==
  QueueTypeOK /\ DoneIsTaken /\ [QueueNext]_queueVars => DoneIsTaken'
<1> SUFFICES ASSUME QueueTypeOK, DoneIsTaken, [QueueNext]_queueVars PROVE DoneIsTaken'
  OBVIOUS
<1> USE DEF DoneIsTaken, QueueTypeOK
<1>1. taken \subseteq taken'
  BY ServerCases DEF ServerStep, CreateMemory
<1>2. CASE UNCHANGED push
  BY <1>1, <1>2
<1>3. ASSUME NEW p \in Pusher, push' = [push EXCEPT ![p] = PushIdle] PROVE DoneIsTaken'
  BY <1>1, <1>3 DEF PushIdle
<1>4. ASSUME NEW p \in Pusher, PushRead(p) PROVE DoneIsTaken'
  <2>1. \A q \in Pusher : push'[q].done \subseteq push[q].done
    BY <1>4 DEF PushRead, PushState
  <2>2. QED
    BY <1>1, <2>1
<1>5. ASSUME NEW p \in Pusher, PushAccepted(p) PROVE DoneIsTaken'
  <2> DEFINE s == Head(push[p].todo)
  <2>1. s \in taken'
    BY <1>5 DEF PushAccepted, CreateMemory
  <2>2. \A q \in Pusher : push'[q].done \subseteq push[q].done \cup {s}
    BY <1>5 DEF PushAccepted, PushState
  <2>3. QED
    BY <1>1, <2>1, <2>2
<1>6. ASSUME NEW p \in Pusher, PushRefused(p) \/ DequeueRead(p) PROVE DoneIsTaken'
  <2>1. ASSUME PushRefused(p), NEW q \in Pusher PROVE push'[q].done \subseteq push[q].done
    BY <2>1 DEF PushRefused, PushState
  <2>2. ASSUME DequeueRead(p), NEW q \in Pusher PROVE push'[q].done \subseteq push[q].done
    <3>1. push' = [push EXCEPT ![p] = push'[p]]
      BY <2>2 DEF DequeueRead
    <3>2. push'[p].done \subseteq push[p].done
      BY <2>2 DEF DequeueRead, PushState, PushIdle
    <3>3. QED
      BY <3>1, <3>2
  <2>3. QED
    BY <1>1, <1>6, <2>1, <2>2
<1>7. QED
  BY <1>2, <1>3, <1>4, <1>5, <1>6
     DEF QueueNext, queueVars, SaveStep, SaveCrash, SaveOnline, SaveRefused, SaveOffline,
         EnqueueRead, EnqueueOpen, EnqueueAppend, PushStep, PushOffline, PushCrash,
         DequeueReplace, ChangeRow, client

\* No queued line disappears but to the server or with a file replaced under it.
LEMMA NoLineDisappears ==
  QueueTypeOK /\ DoneIsTaken /\ LostOnlyByRace /\ [QueueNext]_queueVars => LostOnlyByRace'
<1> SUFFICES ASSUME QueueTypeOK, DoneIsTaken, LostOnlyByRace, [QueueNext]_queueVars,
                    NEW s \in Save, Queued(s)'
             PROVE  s \in Lines(queue)' \cup taken' \cup lost'
  BY DEF LostOnlyByRace
<1> USE DEF QueueTypeOK, Queued
<1>1. taken \subseteq taken'
  BY ServerCases DEF ServerStep, CreateMemory
<1>2. Queued(s) => s \in Lines(queue) \cup taken \cup lost
  BY DEF LostOnlyByRace
<1>3. CASE UNCHANGED <<queue, lost>> /\ Queued(s)
  BY <1>1, <1>2, <1>3
<1>4. ASSUME NEW t \in Save, EnqueueAppend(t) PROVE s \in Lines(queue)' \cup taken' \cup lost'
  <2>1. Lines(Append(queue, t)) = Lines(queue) \cup {t}
    BY AppendedLines
  <2>2. s = t \/ Queued(s)
    BY <1>4 DEF EnqueueAppend, PushGoto
  <2>3. QED
    BY <1>1, <1>2, <1>4, <2>1, <2>2 DEF EnqueueAppend
<1>5. ASSUME NEW p \in Pusher, DequeueReplace(p)
      PROVE  s \in Lines(queue)' \cup taken' \cup lost'
  BY <1>1, <1>2, <1>5 DEF DequeueReplace, DoneIsTaken
<1>6. ASSUME NEW t \in Save, SaveStep(t) \/ SaveCrash(t), ~EnqueueAppend(t)
      PROVE  UNCHANGED <<queue, lost>> /\ Queued(s)
  BY <1>6 DEF SaveStep, SaveCrash, SaveOnline, SaveRefused, SaveOffline, EnqueueRead,
              EnqueueOpen, PushGoto
<1>7. ASSUME NEW p \in Pusher, PushStep(p) \/ PushOffline(p) \/ PushCrash(p), ~DequeueReplace(p)
      PROVE  UNCHANGED <<queue, lost>> /\ Queued(s)
  BY <1>7 DEF PushStep, PushRead, PushAccepted, PushRefused, DequeueRead, PushOffline, PushCrash
<1>8. QED
  BY <1>3, <1>4, <1>5, <1>6, <1>7 DEF QueueNext, queueVars, ChangeRow, client

-----------------------------------------------------------------------------
(* What the server keeps *)

\* The dedup index: one live row to a content.
OneLiveRow ==
  \A i, j \in Id : row[i] = "live" /\ row[j] = "live" /\ Content[i[1]] = Content[j[1]] => i = j

LEMMA LiveRowStaysAlone ==
  QueueTypeOK /\ OneLiveRow /\ [QueueNext]_queueVars => OneLiveRow'
<1> SUFFICES ASSUME QueueTypeOK, OneLiveRow, ServerStep PROVE OneLiveRow'
  BY ServerCases
<1> USE DEF OneLiveRow, QueueTypeOK
<1>1. CASE UNCHANGED row
  BY <1>1
<1>2. ASSUME NEW i \in Id, row' = [row EXCEPT ![i] = "changed"] PROVE OneLiveRow'
  BY <1>2
<1>3. ASSUME NEW s \in Save, NEW kind \in {"drawn", "queued"}, CreateMemory(s, kind)
      PROVE  OneLiveRow'
  <2>1. CASE row[<<s, kind>>] # "absent" \/ SameContent(s) # {}
    BY <1>1, <1>3, <2>1 DEF CreateMemory
  <2>2. CASE row[<<s, kind>>] = "absent" /\ SameContent(s) = {}
    <3> DEFINE new == <<s, kind>>
    <3>1. new \in Id /\ new[1] = s
      BY DEF Id
    <3>2. row' = [row EXCEPT ![new] = "live"]
      BY <1>3, <2>2 DEF CreateMemory
    <3>3. \A j \in Id : ~(row[j] = "live" /\ Content[j[1]] = Content[s])
      BY <2>2 DEF SameContent
    <3> HIDE DEF new
    <3>4. QED
      BY <3>1, <3>2, <3>3
  <2>3. QED
    BY <2>1, <2>2
<1>4. QED
  BY <1>1, <1>2, <1>3 DEF ServerStep

\* The two rows of one save have its content, so they are never live together.
LEMMA OneRowOfASave == OneLiveRow => SecondRowOnlyAfterEdit
<1> SUFFICES ASSUME OneLiveRow, NEW s \in Save,
                    row[<<s, "drawn">>] = "live", row[<<s, "queued">>] = "live"
             PROVE  FALSE
  BY DEF SecondRowOnlyAfterEdit
<1>1. /\ <<s, "drawn">> \in Id /\ <<s, "queued">> \in Id
      /\ <<s, "drawn">>[1] = s /\ <<s, "queued">>[1] = s
      /\ <<s, "drawn">> # <<s, "queued">>
  BY DEF Id
<1>2. QED
  BY <1>1 DEF OneLiveRow

QueueInv == QueueTypeOK /\ DoneIsTaken /\ LostOnlyByRace /\ OneLiveRow

LEMMA QueueInductive ==
  /\ QueueInit => QueueInv
  /\ QueueInv /\ [QueueNext]_queueVars => QueueInv'
<1>1. QueueInit => DoneIsTaken /\ LostOnlyByRace /\ OneLiveRow
  BY DEF QueueInit, DoneIsTaken, LostOnlyByRace, OneLiveRow, PushIdle, Queued
<1>2. QED
  BY <1>1, QueueInitTypeOK, QueueNextTypeOK, DoneStaysTaken, NoLineDisappears, LiveRowStaysAlone
     DEF QueueInv

\* A save that could not be sent is neither lost, short of a file replaced under
\* the handle of Enqueue, nor stored twice while its row is as it was saved.
THEOREM SavedOnceCorrect == QueueSpec => []SavedOnce
<1>1. QueueInv => SavedOnce
  BY OneRowOfASave DEF QueueInv, SavedOnce
<1>2. QED
  BY <1>1, QueueInductive, PTL DEF QueueSpec

\* No pass of Push, repeated or interrupted as it may be, brings back a row that
\* its owner edited or forgot.
THEOREM FlushKeepsEditsCorrect == QueueSpec => FlushKeepsEdits
<1>1. QueueTypeOK /\ [QueueNext]_queueVars
        => [\A i \in Id : row[i] = "changed" => row'[i] = "changed"]_queueVars
  <2> SUFFICES ASSUME QueueTypeOK, ServerStep, NEW i \in Id, row[i] = "changed"
               PROVE  row'[i] = "changed"
    BY ServerCases
  <2>1. ASSUME NEW s \in Save, NEW kind \in {"drawn", "queued"}, CreateMemory(s, kind)
        PROVE  row'[i] = "changed"
    BY <2>1 DEF CreateMemory, QueueTypeOK
  <2>2. QED
    BY <2>1 DEF ServerStep, QueueTypeOK
<1>2. QED
  BY <1>1, QueueTypeCorrect, PTL DEF QueueSpec, FlushKeepsEdits

=============================================================================
