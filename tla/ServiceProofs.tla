---------------------------- MODULE ServiceProofs -----------------------------
(***************************************************************************)
(* Machine-checked proofs about what the server does on a request or on its*)
(* own: it rebuilds the knowledge graph, keeps a key to its budget, and asks*)
(* a provider again.  The parts share no state; each has its inductive     *)
(* invariant and its theorems.                                             *)
(***************************************************************************)
EXTENDS Graph, RateLimit, Prompt, FiniteSetTheorems, TLAPS

-----------------------------------------------------------------------------
(***************************************************************************)
(* Graph: any files, memories, observations, workers, requests and failures*)
(***************************************************************************)

-----------------------------------------------------------------------------
(* Types, and who holds the lock *)

Pc == {"idle", "lock", "purge"} \cup Statement
GraphTypeOK ==
  /\ memory \in [Memory -> {"new", "live", "deleted"}]
  /\ observation \in [Observation -> {"new", "stored", "purged"}]
  /\ graph = [nodes |-> graph.nodes, edges |-> graph.edges]
  /\ work = [nodes |-> work.nodes, edges |-> work.edges]
  /\ proc \in [Rebuilder -> [pc : Pc, found : SUBSET Observation, failed : BOOLEAN]]
  /\ changed \in BOOLEAN /\ touched \in BOOLEAN /\ trouble \in Nat

\* One open rebuild, and only a worker's pass purges.
Locked ==
  /\ \A q, r \in Rebuilder : Holds(q) /\ Holds(r) => q = r
  /\ \A r \in Rebuilder : At(r, "purge") => r \in Worker

-----------------------------------------------------------------------------
(* What an open rebuild has written, if no source has changed under it *)

AllNodes == FileNodes \cup MemoryNodes
TouchEdges == Touches(AllNodes)
NameEdges == CoOccurs(AllNodes)
SessionEdges == SameSession(AllNodes)
EditEdges == CoEdited(AllNodes)

Written(pc) ==
  [nodes |-> IF pc = "files" THEN {} ELSE IF pc = "memories" THEN FileNodes ELSE AllNodes,
   edges |-> IF pc \in {"files", "memories", "touches"} THEN {}
             ELSE IF pc = "co_occurs" THEN TouchEdges
             ELSE IF pc = "same_session" THEN TouchEdges \cup NameEdges
             ELSE IF pc = "co_edited" THEN TouchEdges \cup NameEdges \cup SessionEdges
             ELSE TouchEdges \cup NameEdges \cup SessionEdges \cup EditEdges]

WorkDerived ==
  \A r \in Rebuilder :
    Holds(r) /\ ~At(r, "clear") /\ ~touched => work = Written(proc[r].pc)

IsNode(kind, x) == \E label, weight : x = Node(kind, label, weight)
IsEdge(rel, x) == \E src, dst, weight : x = Edge(rel, src, dst, weight)

-----------------------------------------------------------------------------
(* The observations of a pass, and the edges they call for *)

\* Observations come in the order of their IDs, and what a pass found is the older
\* part of what is stored.
InOrderOfId ==
  \A o, p \in Observation : o < p /\ observation[o] = "new" => observation[p] = "new"
FoundOlder ==
  \A r \in Rebuilder :
    /\ proc[r].found \subseteq observations
    /\ \A o \in observations, p \in proc[r].found : o < p => o \in proc[r].found

\* Every edge that obs call for, between files that are drawn, is there.
Covers(g, obs) ==
  \A p \in File \X File :
    p[1] < p[2] /\ Drawn(g, p) /\ Together(obs, p) # {} => p \in CoEditedIn(g)

\* The edges are rows of the table, and those of edits join files in order.
EdgesOfPairs(g) ==
  \A e \in g.edges :
    \E rel : /\ IsEdge(rel, e)
             /\ rel = "co_edited" => <<e.src, e.dst>> \in File \X File /\ e.src < e.dst

Evidence ==
  /\ EdgesOfPairs(graph) /\ EdgesOfPairs(work)
  /\ \A q \in Rebuilder, r \in Worker :
       At(q, "commit") /\ (r = q \/ At(r, "purge")) => Covers(work, proc[r].found)
  /\ \A r \in Worker : At(r, "purge") /\ ~proc[r].failed => Covers(graph, proc[r].found)

GraphInv ==
  /\ GraphTypeOK /\ Locked /\ WorkDerived /\ FreshIsDerived
  /\ InOrderOfId /\ FoundOlder /\ Evidence

-----------------------------------------------------------------------------
(* Rows of different kinds do not conflict *)

LEMMA NodesDiffer ==
  ASSUME NEW j, NEW k, NEW x, NEW y, IsNode(j, x), IsNode(k, y), j # k
  PROVE  ~SameRow(x, y)
<1>1. PICK l, w : x = Node(j, l, w)
  BY DEF IsNode
<1>2. PICK m, v : y = Node(k, m, v)
  BY DEF IsNode
<1>3. [x EXCEPT !.weight = 0].kind = j /\ [y EXCEPT !.weight = 0].kind = k
  BY <1>1, <1>2 DEF Node
<1>4. QED
  BY <1>3 DEF SameRow

LEMMA EdgesDiffer ==
  ASSUME NEW j, NEW k, NEW x, NEW y, IsEdge(j, x), IsEdge(k, y), j # k
  PROVE  ~SameRow(x, y)
<1>1. PICK a, b, w : x = Edge(j, a, b, w)
  BY DEF IsEdge
<1>2. PICK c, d, v : y = Edge(k, c, d, v)
  BY DEF IsEdge
<1>3. [x EXCEPT !.weight = 0].rel = j /\ [y EXCEPT !.weight = 0].rel = k
  BY <1>1, <1>2 DEF Edge
<1>4. QED
  BY <1>3 DEF SameRow

LEMMA InsertOther ==
  ASSUME NEW table, NEW rows, \A x \in rows, y \in table : ~SameRow(x, y)
  PROVE  Insert(table, rows) = table \cup rows
  BY DEF Insert

\* The rows each statement inserts.
LEMMA RowKinds ==
  /\ \A x \in FileNodes : IsNode("file", x)
  /\ \A x \in MemoryNodes : IsNode("memory", x)
  /\ \A nodes : \A x \in Touches(nodes) : IsEdge("touches", x)
  /\ \A nodes : \A x \in CoOccurs(nodes) : IsEdge("co_occurs", x)
  /\ \A nodes : \A x \in SameSession(nodes) : IsEdge("same_session", x)
  /\ \A nodes : \A x \in CoEdited(nodes) : IsEdge("co_edited", x)
<1>1. \A x \in FileNodes : IsNode("file", x)
  BY DEF FileNodes, IsNode
<1>2. \A x \in MemoryNodes : IsNode("memory", x)
  BY DEF MemoryNodes, IsNode
<1>3. \A nodes : \A x \in Touches(nodes) : IsEdge("touches", x)
  BY DEF Touches, IsEdge
<1>4. \A nodes : \A x \in CoOccurs(nodes) : IsEdge("co_occurs", x)
  BY DEF CoOccurs, IsEdge
<1>5. \A nodes : \A x \in SameSession(nodes) : IsEdge("same_session", x)
  BY DEF SameSession, IsEdge
<1>6. \A nodes : \A x \in CoEdited(nodes) : IsEdge("co_edited", x)
  BY DEF CoEdited, IsEdge
<1>7. QED
  BY <1>1, <1>2, <1>3, <1>4, <1>5, <1>6

\* What is derived depends on the sources alone.
LEMMA SameSources ==
  ASSUME UNCHANGED sources
  PROVE  /\ FileNodes' = FileNodes /\ AllNodes' = AllNodes /\ TouchEdges' = TouchEdges
         /\ NameEdges' = NameEdges /\ SessionEdges' = SessionEdges /\ EditEdges' = EditEdges
<1>1. memories' = memories /\ observations' = observations
  BY DEF sources, memories, observations
<1>2. FileNodes' = FileNodes
  BY <1>1 DEF FileNodes, Mentions
<1>3. MemoryNodes' = MemoryNodes
  BY <1>1 DEF MemoryNodes
<1>4. AllNodes' = AllNodes
  BY <1>2, <1>3 DEF AllNodes
<1>5. TouchEdges' = TouchEdges
  BY <1>1, <1>4 DEF TouchEdges, Touches
<1>6. NameEdges' = NameEdges
  BY <1>1, <1>4 DEF NameEdges, CoOccurs, Pairs, HasNode
<1>7. SessionEdges' = SessionEdges
  BY <1>1, <1>4 DEF SessionEdges, SameSession
<1>8. EditEdges' = EditEdges
  BY <1>1, <1>4 DEF EditEdges, CoEdited, Pairs, HasNode
<1>9. QED
  BY <1>2, <1>4, <1>5, <1>6, <1>7, <1>8

-----------------------------------------------------------------------------
(* Observations that belong together *)

\* Leaving out observations that come before or after all of some leaves those
\* together that were.
LEMMA TogetherIn ==
  ASSUME NEW obs \in SUBSET Observation, NEW part \in SUBSET obs, NEW p,
         \A a, b \in part, o \in obs : a <= o /\ o <= b => o \in part
  PROVE  Together(part, p) \subseteq Together(obs, p)
<1> SUFFICES ASSUME NEW tu \in Together(part, p) PROVE tu \in Together(obs, p)
  OBVIOUS
<1> DEFINE t == tu[1]
           u == tu[2]
           Between(set) == {x \in Touch(set) : Earlier(t, x) /\ Earlier(x, u)}
<1>1. /\ tu \in Touch(part) \X Touch(part) /\ {t[2], u[2]} = {p[1], p[2]}
      /\ Earlier(t, u) /\ Cardinality(Between(part)) < Window
  BY DEF Together, Near
<1>2. Touch(part) \subseteq Touch(obs)
  BY DEF Touch
<1>3. Between(obs) = Between(part)
  <2>1. ASSUME NEW x \in Touch(obs), Earlier(t, x), Earlier(x, u) PROVE x \in Touch(part)
    <3>1. t[1] \in part /\ u[1] \in part /\ x[1] \in obs
      BY <1>1 DEF Touch
    <3>2. t[1] \in Nat /\ u[1] \in Nat /\ x[1] \in Nat
      BY <3>1, SourceAssumption
    <3>3. t[1] <= x[1] /\ x[1] <= u[1]
      BY <2>1, <3>2 DEF Earlier
    <3>4. x[1] \in part
      BY <3>1, <3>3
    <3>5. QED
      BY <3>4 DEF Touch
  <2>2. QED
    BY <1>2, <2>1
<1>4. tu \in Touch(obs) \X Touch(obs)
  BY <1>1, <1>2
<1>5. Near(obs, t, u)
  BY <1>1, <1>3 DEF Near
<1>6. QED
  BY <1>1, <1>4, <1>5 DEF Together

-----------------------------------------------------------------------------
(* The steps of a rebuilder *)

LEMMA Went ==
  ASSUME GraphTypeOK, NEW r \in Rebuilder, NEW pc \in Pc, Goto(r, pc)
  PROVE  /\ proc' \in [Rebuilder -> [pc : Pc, found : SUBSET Observation, failed : BOOLEAN]]
         /\ proc'[r].pc = pc /\ proc'[r].found = proc[r].found /\ proc'[r].failed = proc[r].failed
         /\ \A q \in Rebuilder \ {r} : proc'[q] = proc[q]
<1>1. proc' = [proc EXCEPT ![r] = [proc[r] EXCEPT !.pc = pc]]
  BY DEF Goto, GraphTypeOK
<1>2. [proc[r] EXCEPT !.pc = pc] \in [pc : Pc, found : SUBSET Observation, failed : BOOLEAN]
  BY DEF GraphTypeOK
<1>3. QED
  BY <1>1, <1>2 DEF GraphTypeOK

LEMMA AfterIt ==
  ASSUME GraphTypeOK, NEW r \in Rebuilder, NEW fails \in BOOLEAN, AfterRebuild(r, fails)
  PROVE  /\ proc' \in [Rebuilder -> [pc : Pc, found : SUBSET Observation, failed : BOOLEAN]]
         /\ \/ /\ r \in Worker /\ proc'[r].pc = "purge"
               /\ proc'[r].found = proc[r].found /\ proc'[r].failed = fails
            \/ r \notin Worker /\ proc'[r] = Idle
         /\ \A q \in Rebuilder \ {r} : proc'[q] = proc[q]
<1>1. CASE r \in Worker
  <2>1. proc' = [proc EXCEPT ![r] = [proc[r] EXCEPT !.pc = "purge", !.failed = fails]]
    BY <1>1 DEF AfterRebuild, GraphTypeOK
  <2>2. [proc[r] EXCEPT !.pc = "purge", !.failed = fails]
          \in [pc : Pc, found : SUBSET Observation, failed : BOOLEAN]
    BY DEF GraphTypeOK, Pc
  <2>3. QED
    BY <1>1, <2>1, <2>2 DEF GraphTypeOK
<1>2. CASE r \notin Worker
  <2>1. Idle \in [pc : Pc, found : SUBSET Observation, failed : BOOLEAN]
    BY DEF Idle, Pc
  <2>2. QED
    BY <1>2, <2>1 DEF AfterRebuild, GraphTypeOK
<1>3. QED
  BY <1>1, <1>2

LEMMA PurgeStep ==
  ASSUME GraphTypeOK, NEW r \in Rebuilder, Purge(r)
  PROVE  \E gone \in Oldest(proc[r].found \cap observations) :
           /\ gone \subseteq proc[r].found
           /\ observation' = Purged(gone)
           /\ proc' \in [Rebuilder -> [pc : Pc, found : SUBSET Observation, failed : BOOLEAN]]
           /\ proc'[r] = Idle
           /\ \A q \in Rebuilder \ {r} :
                /\ proc'[q].pc = proc[q].pc /\ proc'[q].failed = proc[q].failed
                /\ proc'[q].found = proc[q].found \ gone
           /\ \A o \in gone, p \in observations : p < o => p \in gone
           /\ observations' = observations \ gone
           /\ NoteChange \/ (observation' = observation /\ UNCHANGED <<changed, touched>>)
<1> USE DEF GraphTypeOK
<1>1. PICK gone \in Oldest(proc[r].found \cap observations) :
        /\ observation' = Purged(gone)
        /\ proc' = [q \in Rebuilder |->
             IF q = r THEN Idle ELSE [proc[q] EXCEPT !.found = @ \ gone]]
        /\ IF gone = {} THEN UNCHANGED <<changed, touched>> ELSE NoteChange
  BY DEF Purge
<1>2. gone \subseteq proc[r].found /\ gone \subseteq observations
      /\ \A o \in gone, p \in observations : p < o => p \in gone
  BY DEF Oldest
<1>3. Idle \in [pc : Pc, found : SUBSET Observation, failed : BOOLEAN]
  BY DEF Idle, Pc
<1>4. \A q \in Rebuilder : [proc[q] EXCEPT !.found = proc[q].found \ gone]
        \in [pc : Pc, found : SUBSET Observation, failed : BOOLEAN]
  OBVIOUS
<1>5. proc' \in [Rebuilder -> [pc : Pc, found : SUBSET Observation, failed : BOOLEAN]]
  BY <1>1, <1>3, <1>4
<1>6. \A q \in Rebuilder \ {r} :
        /\ proc'[q].pc = proc[q].pc /\ proc'[q].failed = proc[q].failed
        /\ proc'[q].found = proc[q].found \ gone
  BY <1>1
<1>7. observations' = observations \ gone
  BY <1>1, <1>2 DEF observations, Purged
<1>8. gone = {} => observation' = observation
  BY <1>1 DEF Purged
<1>9. QED
  BY <1>1, <1>2, <1>5, <1>6, <1>7, <1>8

LEMMA GraphNextTypeOK ==
  ASSUME GraphTypeOK, [GraphNext]_graphVars
  PROVE  GraphTypeOK'
<1> USE DEF GraphTypeOK
<1>1. ASSUME NEW r \in Rebuilder, Lock(r) \/ Clear(r) PROVE GraphTypeOK'
  BY <1>1, Went DEF Lock, Clear, Empty, sources, Pc, Statement
<1>2. ASSUME NEW r \in Rebuilder, NEW pc, NEW next \in Pc, NEW rows, InsertNodes(r, pc, next, rows)
      PROVE  GraphTypeOK'
  BY <1>2, Went DEF InsertNodes, sources
<1>3. ASSUME NEW r \in Rebuilder, NEW pc, NEW next \in Pc, NEW rows, InsertEdges(r, pc, next, rows)
      PROVE  GraphTypeOK'
  BY <1>3, Went DEF InsertEdges, sources
<1>4. ASSUME NEW r \in Rebuilder, Derive(r) PROVE GraphTypeOK'
  BY <1>2, <1>3, <1>4 DEF Derive, Pc, Statement
<1>5. ASSUME NEW r \in Rebuilder, Commit(r) \/ RebuildFails(r) PROVE GraphTypeOK'
  <2>1. proc' \in [Rebuilder -> [pc : Pc, found : SUBSET Observation, failed : BOOLEAN]]
    BY <1>5, AfterIt DEF Commit, RebuildFails
  <2>2. work' = Empty /\ (graph' = work \/ graph' = graph)
    BY <1>5 DEF Commit, RebuildFails
  <2>3. work' = [nodes |-> work'.nodes, edges |-> work'.edges]
    BY <2>2 DEF Empty
  <2>4. graph' = [nodes |-> graph'.nodes, edges |-> graph'.edges]
    BY <2>2
  <2>5. trouble' \in Nat /\ changed' \in BOOLEAN /\ touched' \in BOOLEAN
    <3>1. CASE Commit(r)
      BY <3>1 DEF Commit
    <3>2. CASE RebuildFails(r)
      <4>1. trouble > 0 /\ trouble' = trouble - 1 /\ changed' = changed /\ touched' = FALSE
        BY <3>2 DEF RebuildFails
      <4>2. trouble \in Nat /\ changed \in BOOLEAN
        OBVIOUS
      <4>3. trouble' \in Nat
        BY <4>1, <4>2
      <4>4. QED
        BY <4>1, <4>2, <4>3
    <3>3. QED
      BY <1>5, <3>1, <3>2
  <2>6. QED
    BY <1>5, <2>1, <2>3, <2>4, <2>5 DEF Commit, RebuildFails, sources
<1>6. ASSUME NEW r \in Rebuilder, StartPass(r) \/ EndPass(r) PROVE GraphTypeOK'
  <2>1. /\ Idle \in [pc : Pc, found : SUBSET Observation, failed : BOOLEAN]
        /\ Begin(r) \in [pc : Pc, found : SUBSET Observation, failed : BOOLEAN]
    BY DEF Idle, Begin, Pc, observations
  <2>2. QED
    BY <1>6, <2>1 DEF StartPass, EndPass, sources
<1>7. ASSUME NEW r \in Rebuilder, Purge(r) PROVE GraphTypeOK'
  <2>1. PICK gone : /\ observation' = Purged(gone)
                    /\ proc' \in [Rebuilder -> [pc : Pc, found : SUBSET Observation,
                                                failed : BOOLEAN]]
    BY <1>7, PurgeStep
  <2>2. observation' \in [Observation -> {"new", "stored", "purged"}]
    BY <2>1 DEF Purged
  <2>3. QED
    BY <1>7, <2>1, <2>2 DEF Purge, NoteChange
<1>8. ASSUME NEW o \in Observation, AddObservation(o) PROVE GraphTypeOK'
  BY <1>8 DEF AddObservation, NoteChange
<1>9. ASSUME NEW m \in Memory, CreateMemory(m) \/ DeleteMemory(m) PROVE GraphTypeOK'
  BY <1>9 DEF CreateMemory, DeleteMemory, NoteChange
<1>10. CASE UNCHANGED graphVars
  BY <1>10 DEF graphVars
<1>11. QED
  BY <1>1, <1>4, <1>5, <1>6, <1>7, <1>8, <1>9, <1>10 DEF GraphNext, RebuildGraph

LEMMA NextLocked ==
  ASSUME GraphTypeOK, Locked, [GraphNext]_graphVars
  PROVE  Locked'
<1> USE DEF GraphTypeOK
<1>1. ASSUME NEW r \in Rebuilder, \A q \in Rebuilder \ {r} : proc'[q].pc = proc[q].pc,
             Holds(r)' => Holds(r) \/ \A q \in Rebuilder : ~Holds(q),
             At(r, "purge")' => r \in Worker
      PROVE  Locked'
  BY <1>1 DEF Locked, Holds, At
<1>2. ASSUME NEW r \in Rebuilder, Lock(r) PROVE Locked'
  <2>1. proc'[r].pc = "clear" /\ \A q \in Rebuilder \ {r} : proc'[q] = proc[q]
    BY <1>2, Went DEF Lock, Pc, Statement
  <2>2. QED
    BY <1>1, <1>2, <2>1 DEF Lock, At
<1>3. ASSUME NEW r \in Rebuilder, NEW pc \in Pc, Goto(r, pc), Holds(r), pc # "purge" PROVE Locked'
  BY <1>1, <1>3, Went DEF At
<1>4. ASSUME NEW r \in Rebuilder, Clear(r) \/ Derive(r) PROVE Locked'
  <2>1. Holds(r)
    BY <1>4 DEF Clear, Derive, InsertNodes, InsertEdges, At, Holds, Statement
  <2>2. QED
    BY <1>3, <1>4, <2>1 DEF Clear, Derive, InsertNodes, InsertEdges, Pc, Statement
<1>5. ASSUME NEW r \in Rebuilder, Commit(r) \/ RebuildFails(r) PROVE Locked'
  <2>1. Holds(r)
    BY <1>5 DEF Commit, RebuildFails, At, Holds, Statement
  <2>2. \E fails \in BOOLEAN : AfterRebuild(r, fails)
    BY <1>5 DEF Commit, RebuildFails
  <2>3. QED
    BY <1>1, <2>1, <2>2, AfterIt DEF At, Idle
<1>6. ASSUME NEW r \in Rebuilder, StartPass(r) \/ EndPass(r) PROVE Locked'
  BY <1>1, <1>6 DEF StartPass, EndPass, Idle, Begin, Holds, Statement, At
<1>7. ASSUME NEW r \in Rebuilder, Purge(r) PROVE Locked'
  <2>1. proc'[r] = Idle /\ \A q \in Rebuilder \ {r} : proc'[q].pc = proc[q].pc
    BY <1>7, PurgeStep
  <2>2. QED
    BY <1>1, <2>1 DEF Idle, Holds, Statement, At
<1>8. CASE UNCHANGED proc
  BY <1>8 DEF Locked, Holds, At
<1>9. QED
  BY <1>2, <1>4, <1>5, <1>6, <1>7, <1>8
     DEF GraphNext, RebuildGraph, graphVars, AddObservation, CreateMemory, DeleteMemory

-----------------------------------------------------------------------------
(* The graph of the sources *)

LEMMA FreshForm == FreshIsDerived <=> (~changed => graph = Written("commit"))
<1>1. Written("commit") = [nodes |-> AllNodes,
                           edges |-> TouchEdges \cup NameEdges \cup SessionEdges \cup EditEdges]
  BY DEF Written
<1>2. QED
  BY <1>1 DEF FreshIsDerived, AllNodes, TouchEdges, NameEdges, SessionEdges, EditEdges

LEMMA SameWritten ==
  ASSUME UNCHANGED sources, NEW pc \in Statement
  PROVE  Written(pc)' = Written(pc)
  BY SameSources DEF Written, Statement

\* A change of the sources is noted, by the open rebuild too.
LEMMA SourceSteps ==
  ASSUME GraphTypeOK, [GraphNext]_graphVars
  PROVE  UNCHANGED sources \/ NoteChange
<1>1. ASSUME NEW r \in Rebuilder, Purge(r) PROVE UNCHANGED sources \/ NoteChange
  <2>1. NoteChange \/ observation' = observation
    BY <1>1, PurgeStep
  <2>2. QED
    BY <1>1, <2>1 DEF Purge, sources
<1>2. QED
  BY <1>1 DEF GraphNext, graphVars, RebuildGraph, StartPass, Lock, Clear, Derive, InsertNodes,
     InsertEdges, Commit, RebuildFails, EndPass, AddObservation, CreateMemory, DeleteMemory, sources

\* A step that leaves the open rebuild, and notes a change if it makes one.
LEMMA Aside ==
  ASSUME GraphTypeOK, [GraphNext]_graphVars, UNCHANGED <<graph, work>>, WorkDerived, FreshIsDerived,
         \A r \in Rebuilder : Holds(r)' => proc'[r].pc = proc[r].pc,
         NoteChange \/ UNCHANGED <<sources, changed, touched>>
  PROVE  WorkDerived' /\ FreshIsDerived'
<1>1. \A r \in Rebuilder : Holds(r)' => Holds(r) /\ proc'[r].pc = proc[r].pc
  BY DEF Holds
<1>2. CASE NoteChange
  BY <1>1, <1>2 DEF NoteChange, WorkDerived, FreshIsDerived
<1>3. CASE UNCHANGED <<sources, changed, touched>>
  <2>1. \A pc \in Statement : Written(pc)' = Written(pc)
    BY <1>3, SameWritten
  <2>2. WorkDerived'
    BY <1>1, <1>3, <2>1 DEF WorkDerived, Holds, At
  <2>3. "commit" \in Statement /\ (FreshIsDerived => (~changed => graph = Written("commit")))
    BY FreshForm DEF Statement
  <2>4. ~changed' => graph' = Written("commit")'
    BY <1>3, <2>1, <2>3
  <2>5. QED
    BY <2>2, <2>4 DEF FreshIsDerived, Written, AllNodes, TouchEdges, NameEdges, SessionEdges, EditEdges
<1>4. QED
  BY <1>2, <1>3

\* Each statement adds what the one after it expects to find.
LEMMA DeriveStep ==
  ASSUME GraphTypeOK, NEW r \in Rebuilder, Derive(r), work = Written(proc[r].pc)
  PROVE  work' = Written(proc'[r].pc)
<1>0. AllNodes = FileNodes \cup MemoryNodes
  BY DEF AllNodes
<1>a. {"memories", "touches", "co_occurs", "same_session", "co_edited", "commit"} \subseteq Pc
  BY DEF Pc, Statement
<1>1. ASSUME NEW pc, NEW next \in Pc, NEW rows, NEW table,
             InsertNodes(r, pc, next, rows), work = [nodes |-> table, edges |-> {}],
             \A x \in rows, y \in table : ~SameRow(x, y)
      PROVE  proc'[r].pc = next /\ proc[r].pc = pc
             /\ work' = [nodes |-> table \cup rows, edges |-> {}]
  <2> \A x \in rows, y \in table : ~SameRow(x, y)
    BY <1>1
  <2>1. Insert(table, rows) = table \cup rows
    BY DEF Insert
  <2>2. work' = [nodes |-> Insert(table, rows), edges |-> {}]
    BY <1>1 DEF InsertNodes
  <2>3. work' = [nodes |-> table \cup rows, edges |-> {}]
    BY <2>1, <2>2
  <2>4. Goto(r, next) /\ proc[r].pc = pc
    BY <1>1 DEF InsertNodes, At
  <2>5. QED
    BY <1>1, <2>3, <2>4, Went
<1>2. ASSUME NEW pc, NEW next \in Pc, NEW rows, NEW nodes, NEW table,
             InsertEdges(r, pc, next, rows), work = [nodes |-> nodes, edges |-> table],
             \A x \in rows, y \in table : ~SameRow(x, y)
      PROVE  proc'[r].pc = next /\ proc[r].pc = pc
             /\ work' = [nodes |-> nodes, edges |-> table \cup rows]
  <2> \A x \in rows, y \in table : ~SameRow(x, y)
    BY <1>2
  <2>1. Insert(table, rows) = table \cup rows
    BY DEF Insert
  <2>2. work' = [nodes |-> nodes, edges |-> Insert(table, rows)]
    BY <1>2 DEF InsertEdges
  <2>3. work' = [nodes |-> nodes, edges |-> table \cup rows]
    BY <2>1, <2>2
  <2>4. Goto(r, next) /\ proc[r].pc = pc
    BY <1>2 DEF InsertEdges, At
  <2>5. QED
    BY <1>2, <2>3, <2>4, Went
<1>3. CASE InsertNodes(r, "files", "memories", FileNodes)
  <2>1. work = [nodes |-> {}, edges |-> {}]
    BY <1>3 DEF InsertNodes, At, Written
  <2>2. Insert({}, FileNodes) = FileNodes
    BY DEF Insert
  <2>3. work' = [nodes |-> FileNodes, edges |-> {}]
    BY <1>3, <2>1, <2>2 DEF InsertNodes
  <2>4. proc'[r].pc = "memories"
    BY <1>3, <1>a, Went DEF InsertNodes
  <2>5. QED
    BY <2>3, <2>4 DEF Written
<1>4. CASE InsertNodes(r, "memories", "touches", MemoryNodes)
  <2>1. work = [nodes |-> FileNodes, edges |-> {}]
    BY <1>4 DEF InsertNodes, At, Written
  <2>2. \A x \in MemoryNodes, y \in FileNodes : ~SameRow(x, y)
    BY RowKinds, NodesDiffer
  <2>3. proc'[r].pc = "touches" /\ work' = [nodes |-> AllNodes, edges |-> {}]
    BY <1>0, <1>1, <1>4, <1>a, <2>1, <2>2
  <2>4. QED
    BY <2>3 DEF Written
<1>5. CASE InsertEdges(r, "touches", "co_occurs", Touches(work.nodes))
  <2>1. work = [nodes |-> AllNodes, edges |-> {}]
    BY <1>5 DEF InsertEdges, At, Written
  <2>2. InsertEdges(r, "touches", "co_occurs", TouchEdges)
    BY <1>5, <2>1 DEF TouchEdges
  <2>3. Insert({}, TouchEdges) = TouchEdges
    BY DEF Insert
  <2>4. proc'[r].pc = "co_occurs" /\ work' = [nodes |-> AllNodes, edges |-> TouchEdges]
    BY <2>1, <2>2, <2>3, <1>a, Went DEF InsertEdges
  <2>5. QED
    BY <2>4 DEF Written
<1>6. CASE InsertEdges(r, "co_occurs", "same_session", CoOccurs(work.nodes))
  <2>1. work = [nodes |-> AllNodes, edges |-> TouchEdges]
    BY <1>6 DEF InsertEdges, At, Written
  <2>2. InsertEdges(r, "co_occurs", "same_session", NameEdges)
    BY <1>6, <2>1 DEF NameEdges
  <2>3. \A x \in NameEdges, y \in TouchEdges : ~SameRow(x, y)
    BY RowKinds, EdgesDiffer DEF NameEdges, TouchEdges
  <2>4. /\ proc'[r].pc = "same_session"
        /\ work' = [nodes |-> AllNodes, edges |-> TouchEdges \cup NameEdges]
    BY <1>2, <1>a, <2>1, <2>2, <2>3
  <2>5. QED
    BY <2>4 DEF Written
<1>7. CASE InsertEdges(r, "same_session", "co_edited", SameSession(work.nodes))
  <2>1. work = [nodes |-> AllNodes, edges |-> TouchEdges \cup NameEdges]
    BY <1>7 DEF InsertEdges, At, Written
  <2>2. InsertEdges(r, "same_session", "co_edited", SessionEdges)
    BY <1>7, <2>1 DEF SessionEdges
  <2>3. \A x \in SessionEdges, y \in TouchEdges \cup NameEdges : ~SameRow(x, y)
    BY RowKinds, EdgesDiffer DEF SessionEdges, NameEdges, TouchEdges
  <2>4. /\ proc'[r].pc = "co_edited"
        /\ work' = [nodes |-> AllNodes, edges |-> TouchEdges \cup NameEdges \cup SessionEdges]
    <3> DEFINE table == TouchEdges \cup NameEdges
    <3>1. /\ work = [nodes |-> AllNodes, edges |-> table]
          /\ \A x \in SessionEdges, y \in table : ~SameRow(x, y)
      BY <2>1, <2>3
    <3> HIDE DEF table
    <3>2. proc'[r].pc = "co_edited" /\ work' = [nodes |-> AllNodes, edges |-> table \cup SessionEdges]
      BY <1>2, <1>a, <2>2, <3>1
    <3>3. QED
      BY <3>2 DEF table
  <2>5. QED
    BY <2>4 DEF Written
<1>8. CASE InsertEdges(r, "co_edited", "commit", CoEdited(work.nodes))
  <2>1. work = [nodes |-> AllNodes, edges |-> TouchEdges \cup NameEdges \cup SessionEdges]
    BY <1>8 DEF InsertEdges, At, Written
  <2>2. InsertEdges(r, "co_edited", "commit", EditEdges)
    BY <1>8, <2>1 DEF EditEdges
  <2>3. \A x \in EditEdges, y \in TouchEdges \cup NameEdges \cup SessionEdges : ~SameRow(x, y)
    BY RowKinds, EdgesDiffer DEF EditEdges, SessionEdges, NameEdges, TouchEdges
  <2>4. /\ proc'[r].pc = "commit"
        /\ work' = [nodes |-> AllNodes, edges |-> TouchEdges \cup NameEdges \cup SessionEdges \cup EditEdges]
    <3> DEFINE table == TouchEdges \cup NameEdges \cup SessionEdges
    <3>1. /\ work = [nodes |-> AllNodes, edges |-> table]
          /\ \A x \in EditEdges, y \in table : ~SameRow(x, y)
      BY <2>1, <2>3
    <3> HIDE DEF table
    <3>2. proc'[r].pc = "commit" /\ work' = [nodes |-> AllNodes, edges |-> table \cup EditEdges]
      BY <1>2, <1>a, <2>2, <3>1
    <3>3. QED
      BY <3>2 DEF table
  <2>5. QED
    BY <2>4 DEF Written
<1>9. QED
  BY <1>3, <1>4, <1>5, <1>6, <1>7, <1>8 DEF Derive

LEMMA SameFresh ==
  ASSUME UNCHANGED <<sources, graph, changed>>, FreshIsDerived
  PROVE  FreshIsDerived'
<1>1. "commit" \in Statement
  BY DEF Statement
<1>2. Written("commit")' = Written("commit")
  BY <1>1, SameWritten
<1>3. ~changed' => graph' = Written("commit")'
  BY <1>2, FreshForm
<1>4. QED
  BY <1>3 DEF FreshIsDerived, Written, AllNodes, TouchEdges, NameEdges, SessionEdges, EditEdges

\* A step of the one who holds the lock.
LEMMA OfHolder ==
  ASSUME GraphTypeOK, Locked, NEW r \in Rebuilder, Holds(r),
         \A q \in Rebuilder \ {r} : proc'[q] = proc[q]
  PROVE  \A q \in Rebuilder : Holds(q)' => q = r
  BY DEF Locked, Holds

LEMMA NextFresh ==
  ASSUME GraphTypeOK, Locked, WorkDerived, FreshIsDerived, [GraphNext]_graphVars
  PROVE  WorkDerived' /\ FreshIsDerived'
<1>1. ASSUME NEW r \in Rebuilder, Lock(r) PROVE WorkDerived' /\ FreshIsDerived'
  <2>1. proc'[r].pc = "clear" /\ \A q \in Rebuilder \ {r} : proc'[q] = proc[q]
    BY <1>1, Went DEF Lock, Pc, Statement
  <2>2. \A q \in Rebuilder : Holds(q)' => At(q, "clear")'
    BY <1>1, <2>1 DEF Lock, Holds, At
  <2>3. QED
    BY <1>1, <2>2, SameFresh DEF Lock, WorkDerived
<1>2. ASSUME NEW r \in Rebuilder, Clear(r) PROVE WorkDerived' /\ FreshIsDerived'
  <2>1. proc'[r].pc = "files" /\ \A q \in Rebuilder \ {r} : proc'[q] = proc[q]
    BY <1>2, Went DEF Clear, Pc, Statement
  <2>2. \A q \in Rebuilder : Holds(q)' => q = r
    BY <1>2, <2>1, OfHolder DEF Clear, Holds, At, Statement
  <2>3. work' = Written("files")'
    BY <1>2 DEF Clear, Empty, Written
  <2>4. WorkDerived'
    BY <2>1, <2>2, <2>3 DEF WorkDerived
  <2>5. QED
    BY <1>2, <2>4, SameFresh DEF Clear
<1>3. ASSUME NEW r \in Rebuilder, Derive(r) PROVE WorkDerived' /\ FreshIsDerived'
  <2>1. /\ Holds(r) /\ ~At(r, "clear") /\ UNCHANGED <<sources, graph, changed, touched>>
        /\ \E pc \in Statement : Goto(r, pc)
    BY <1>3 DEF Derive, InsertNodes, InsertEdges, Holds, At, Statement
  <2>2. proc'[r].pc \in Statement /\ \A q \in Rebuilder \ {r} : proc'[q] = proc[q]
    BY <2>1, Went DEF Pc
  <2>3. \A q \in Rebuilder : Holds(q)' => q = r
    BY <2>1, <2>2, OfHolder
  <2>4. ~touched' => work' = Written(proc'[r].pc)
    BY <1>3, <2>1, DeriveStep DEF WorkDerived
  <2>5. \A pc \in Statement : Written(pc)' = Written(pc)
    BY <2>1, SameWritten
  <2>6. WorkDerived'
    BY <2>2, <2>3, <2>4, <2>5 DEF WorkDerived
  <2>7. QED
    BY <2>1, <2>6, SameFresh
<1>4. ASSUME NEW r \in Rebuilder, Commit(r) \/ RebuildFails(r) PROVE WorkDerived' /\ FreshIsDerived'
  <2>1. Holds(r) /\ \E fails \in BOOLEAN : AfterRebuild(r, fails)
    BY <1>4 DEF Commit, RebuildFails, Holds, At, Statement
  <2>2. ~Holds(r)' /\ \A q \in Rebuilder \ {r} : proc'[q] = proc[q]
    BY <2>1, AfterIt DEF Holds, Statement, Idle
  <2>3. \A q \in Rebuilder : ~Holds(q)'
    BY <2>1, <2>2, OfHolder
  <2>4. FreshIsDerived'
    <3>1. CASE Commit(r)
      <4>1. At(r, "commit") /\ graph' = work /\ changed' = touched /\ UNCHANGED sources
        BY <3>1 DEF Commit
      <4>2. ~touched => work = Written("commit")
        BY <2>1, <4>1 DEF WorkDerived, At
      <4>3. Written("commit")' = Written("commit")
        BY <4>1, SameWritten DEF Statement
      <4>4. ~changed' => graph' = Written("commit")'
        BY <4>1, <4>2, <4>3
      <4>5. QED
        BY <4>4 DEF FreshIsDerived, Written, AllNodes, TouchEdges, NameEdges, SessionEdges, EditEdges
    <3>2. CASE RebuildFails(r)
      BY <3>2, SameFresh DEF RebuildFails
    <3>3. QED
      BY <1>4, <3>1, <3>2
  <2>5. QED
    BY <2>3, <2>4 DEF WorkDerived
<1>5. ASSUME NEW r \in Rebuilder, StartPass(r) \/ EndPass(r) PROVE WorkDerived' /\ FreshIsDerived'
  <2>1. UNCHANGED <<sources, graph, work, changed, touched>>
    BY <1>5 DEF StartPass, EndPass
  <2>2. \A q \in Rebuilder : Holds(q)' => proc'[q].pc = proc[q].pc
    BY <1>5 DEF StartPass, EndPass, Idle, Begin, Holds, Statement, GraphTypeOK
  <2>3. QED
    BY <2>1, <2>2, Aside
<1>6. ASSUME NEW r \in Rebuilder, Purge(r) PROVE WorkDerived' /\ FreshIsDerived'
  <2>1. /\ proc'[r] = Idle /\ \A q \in Rebuilder \ {r} : proc'[q].pc = proc[q].pc
        /\ NoteChange \/ (observation' = observation /\ UNCHANGED <<changed, touched>>)
    BY <1>6, PurgeStep
  <2>2. UNCHANGED <<memory, graph, work>>
    BY <1>6 DEF Purge
  <2>3. \A q \in Rebuilder : Holds(q)' => proc'[q].pc = proc[q].pc
    BY <2>1 DEF Idle, Holds, Statement
  <2>4. NoteChange \/ UNCHANGED <<sources, changed, touched>>
    BY <2>1, <2>2 DEF sources
  <2>5. QED
    BY <2>2, <2>3, <2>4, Aside
<1>7. ASSUME NEW o \in Observation, AddObservation(o) PROVE WorkDerived' /\ FreshIsDerived'
  BY <1>7, Aside DEF AddObservation
<1>8. ASSUME NEW m \in Memory, CreateMemory(m) \/ DeleteMemory(m) PROVE WorkDerived' /\ FreshIsDerived'
  BY <1>8, Aside DEF CreateMemory, DeleteMemory
<1>9. CASE UNCHANGED graphVars
  BY <1>9, Aside DEF graphVars, sources
<1>10. QED
  BY <1>1, <1>2, <1>3, <1>4, <1>5, <1>6, <1>7, <1>8, <1>9 DEF GraphNext, RebuildGraph

-----------------------------------------------------------------------------
(* Observations in order *)

LEMMA RebuildFound ==
  ASSUME GraphTypeOK, NEW r \in Rebuilder, RebuildGraph(r)
  PROVE  UNCHANGED sources /\ \A q \in Rebuilder : proc'[q].found \in {proc[q].found, {}}
<1>1. CASE Lock(r) \/ Clear(r) \/ Derive(r)
  <2>1. UNCHANGED sources /\ \E pc \in Pc : Goto(r, pc)
    BY <1>1 DEF Lock, Clear, Derive, InsertNodes, InsertEdges, Pc, Statement
  <2>2. QED
    BY <2>1, Went
<1>2. CASE Commit(r) \/ RebuildFails(r)
  <2>1. UNCHANGED sources /\ \E fails \in BOOLEAN : AfterRebuild(r, fails)
    BY <1>2 DEF Commit, RebuildFails
  <2>2. QED
    BY <2>1, AfterIt DEF Idle
<1>3. QED
  BY <1>1, <1>2 DEF RebuildGraph

LEMMA NextOlder ==
  ASSUME GraphTypeOK, InOrderOfId, FoundOlder, [GraphNext]_graphVars
  PROVE  InOrderOfId' /\ FoundOlder'
<1>1. ASSUME observation' = observation,
             \A r \in Rebuilder : proc'[r].found \in {proc[r].found, {}, observations}
      PROVE  InOrderOfId' /\ FoundOlder'
  <2>1. observations' = observations
    BY <1>1 DEF observations
  <2>2. InOrderOfId'
    BY <1>1 DEF InOrderOfId
  <2>3. FoundOlder'
    BY <1>1, <2>1 DEF FoundOlder
  <2>4. QED
    BY <2>2, <2>3
<1>2. ASSUME NEW r \in Rebuilder, RebuildGraph(r) PROVE InOrderOfId' /\ FoundOlder'
  BY <1>1, <1>2, RebuildFound DEF sources
<1>3. ASSUME NEW r \in Rebuilder, StartPass(r) \/ EndPass(r) PROVE InOrderOfId' /\ FoundOlder'
  BY <1>1, <1>3 DEF StartPass, EndPass, Begin, Idle, sources, GraphTypeOK
<1>4. ASSUME NEW r \in Rebuilder, Purge(r) PROVE InOrderOfId' /\ FoundOlder'
  <2>1. PICK gone \in Oldest(proc[r].found \cap observations) :
          /\ observation' = Purged(gone) /\ observations' = observations \ gone
          /\ proc'[r] = Idle
          /\ \A q \in Rebuilder \ {r} : proc'[q].found = proc[q].found \ gone
    BY <1>4, PurgeStep
  <2>2. InOrderOfId'
    <3>1. \A o \in Observation : observation'[o] = "new" <=> observation[o] = "new"
      BY <2>1 DEF Purged, Oldest, observations
    <3>2. QED
      BY <3>1 DEF InOrderOfId
  <2>3. FoundOlder'
    BY <2>1 DEF FoundOlder, Idle
  <2>4. QED
    BY <2>2, <2>3
<1>5. ASSUME NEW x \in Observation, AddObservation(x) PROVE InOrderOfId' /\ FoundOlder'
  <2>1. /\ observation[x] = "new" /\ proc' = proc /\ observations' = observations \cup {x}
        /\ \A o \in Observation : observation'[o] = IF o = x THEN "stored" ELSE observation[o]
        /\ \A o \in Observation : o < x => observation[o] # "new"
    BY <1>5 DEF AddObservation, observations, GraphTypeOK
  <2>2. InOrderOfId'
    BY <2>1 DEF InOrderOfId
  <2>3. ASSUME NEW r \in Rebuilder, NEW p \in proc[r].found PROVE ~(x < p)
    <3>1. p \in Observation /\ observation[p] = "stored"
      BY <2>3 DEF FoundOlder, observations
    <3>2. QED
      BY <2>1, <3>1 DEF InOrderOfId
  <2>4. FoundOlder'
    BY <2>1, <2>3 DEF FoundOlder
  <2>5. QED
    BY <2>2, <2>4
<1>6. ASSUME NEW m \in Memory, CreateMemory(m) \/ DeleteMemory(m) PROVE InOrderOfId' /\ FoundOlder'
  BY <1>1, <1>6 DEF CreateMemory, DeleteMemory
<1>7. CASE UNCHANGED graphVars
  BY <1>1, <1>7 DEF graphVars
<1>8. QED
  BY <1>2, <1>3, <1>4, <1>5, <1>6, <1>7 DEF GraphNext

-----------------------------------------------------------------------------
(* The evidence of the edges *)

LEMMA RowsOfPairs ==
  ASSUME NEW nodes, NEW e \in Touches(nodes) \cup CoOccurs(nodes)
                              \cup SameSession(nodes) \cup CoEdited(nodes)
  PROVE  \E rel : /\ IsEdge(rel, e)
                  /\ rel = "co_edited" => <<e.src, e.dst>> \in File \X File /\ e.src < e.dst
<1>1. CASE e \in CoEdited(nodes)
  <2>1. PICK p \in Pairs(nodes) : \E w : e = Edge("co_edited", p[1], p[2], w)
    BY <1>1 DEF CoEdited
  <2>2. IsEdge("co_edited", e) /\ e.src = p[1] /\ e.dst = p[2]
    <3>1. PICK w : e = Edge("co_edited", p[1], p[2], w)
      BY <2>1
    <3>2. QED
      BY <3>1 DEF IsEdge, Edge
  <2>3. <<p[1], p[2]>> \in File \X File /\ p[1] < p[2]
    BY DEF Pairs
  <2>4. QED
    BY <2>2, <2>3
<1>2. CASE e \notin CoEdited(nodes)
  <2>1. \E rel \in {"touches", "co_occurs", "same_session"} : IsEdge(rel, e)
    BY <1>2, RowKinds
  <2>2. QED
    BY <2>1
<1>3. QED
  BY <1>1, <1>2

LEMMA EdgesStep ==
  ASSUME EdgesOfPairs(graph), EdgesOfPairs(work), GraphTypeOK, [GraphNext]_graphVars
  PROVE  EdgesOfPairs(graph') /\ EdgesOfPairs(work')
<1>1. EdgesOfPairs(Empty)
  BY DEF EdgesOfPairs, Empty
<1>2. ASSUME NEW r \in Rebuilder, Derive(r) PROVE EdgesOfPairs(work')
  <2>1. CASE work'.edges = work.edges
    BY <2>1 DEF EdgesOfPairs
  <2>2. CASE \E rows \in {Touches(work.nodes), CoOccurs(work.nodes),
                         SameSession(work.nodes), CoEdited(work.nodes)} :
               work'.edges = Insert(work.edges, rows)
    <3>1. \A e \in work'.edges : e \in work.edges \/
            e \in Touches(work.nodes) \cup CoOccurs(work.nodes)
                   \cup SameSession(work.nodes) \cup CoEdited(work.nodes)
      BY <2>2 DEF Insert
    <3>2. QED
      BY <3>1, RowsOfPairs DEF EdgesOfPairs
  <2>3. QED
    <3>1. ASSUME NEW rows, work' = [work EXCEPT !.nodes = Insert(@, rows)]
          PROVE  work'.edges = work.edges
      BY <3>1 DEF GraphTypeOK
    <3>2. ASSUME NEW rows, work' = [work EXCEPT !.edges = Insert(@, rows)]
          PROVE  work'.edges = Insert(work.edges, rows)
      BY <3>2 DEF GraphTypeOK
    <3>3. QED
      BY <1>2, <2>1, <2>2, <3>1, <3>2 DEF Derive, InsertNodes, InsertEdges
<1>3. QED
  BY <1>1, <1>2 DEF GraphNext, graphVars, RebuildGraph, StartPass, Lock, Clear, Derive,
     InsertNodes, InsertEdges, Commit, RebuildFails, EndPass, Purge, AddObservation,
     CreateMemory, DeleteMemory

\* What is left of a pass's observations asks for no more.
LEMMA CoversLess ==
  ASSUME NEW g, NEW obs \in SUBSET Observation, NEW part \in SUBSET obs, Covers(g, obs),
         \A a, b \in part, o \in obs : a <= o /\ o <= b => o \in part
  PROVE  Covers(g, part)
<1>1. \A p : Together(part, p) \subseteq Together(obs, p)
  BY TogetherIn
<1>2. QED
  BY <1>1 DEF Covers

\* The last statement draws every edge that the stored observations call for.
LEMMA CoversNew ==
  ASSUME GraphTypeOK, EdgesOfPairs(work), NEW obs \in SUBSET observations,
         \A o \in observations, p \in obs : o < p => o \in obs,
         work' = [work EXCEPT !.edges = Insert(@, CoEdited(work.nodes))]
  PROVE  Covers(work', obs)
<1>0. \A y \in work.edges : \E rel : IsEdge(rel, y)
  BY DEF EdgesOfPairs
<1>1. work'.nodes = work.nodes /\ work'.edges = Insert(work.edges, CoEdited(work.nodes))
  BY DEF GraphTypeOK
<1>2. observations \subseteq Observation
  BY DEF observations
<1>3. \A a, b \in obs, o \in observations : a <= o /\ o <= b => o \in obs
  BY <1>2, SourceAssumption
<1>4. \A p : Together(obs, p) \subseteq Together(observations, p)
  BY <1>2, <1>3, TogetherIn
<1>5. ASSUME NEW p \in File \X File, p[1] < p[2], Drawn(work', p), Together(obs, p) # {}
      PROVE  p \in CoEditedIn(work')
  <2> DEFINE e == Edge("co_edited", p[1], p[2], Cardinality(Together(observations, p)))
  <2>1. p \in Pairs(work.nodes) /\ Together(observations, p) # {}
    BY <1>1, <1>4, <1>5 DEF Pairs, Drawn
  <2>2. e \in CoEdited(work.nodes)
    BY <2>1 DEF CoEdited
  <2>3. e.rel = "co_edited" /\ e.src = p[1] /\ e.dst = p[2] /\ p = <<p[1], p[2]>>
    BY DEF Edge
  <2>4. CASE e \in work'.edges
    BY <2>3, <2>4 DEF CoEditedIn
  <2>5. CASE e \notin work'.edges
    <3>1. PICK y \in work.edges : SameRow(e, y)
      BY <1>1, <2>2, <2>5 DEF Insert
    <3>2. PICK rel, src, dst, w : y = Edge(rel, src, dst, w)
      BY <1>0 DEF IsEdge
    <3>3. [e EXCEPT !.weight = 0].rel = "co_edited" /\ [y EXCEPT !.weight = 0].rel = y.rel
      BY <3>2 DEF Edge
    <3>4. [e EXCEPT !.weight = 0].src = p[1] /\ [y EXCEPT !.weight = 0].src = y.src
      BY <3>2 DEF Edge
    <3>5. [e EXCEPT !.weight = 0].dst = p[2] /\ [y EXCEPT !.weight = 0].dst = y.dst
      BY <3>2 DEF Edge
    <3>6. y.rel = "co_edited" /\ y.src = p[1] /\ y.dst = p[2]
      BY <3>1, <3>3, <3>4, <3>5 DEF SameRow
    <3>7. y \in work'.edges
      BY <1>1 DEF Insert
    <3>8. QED
      BY <2>3, <3>6, <3>7 DEF CoEditedIn
  <2>6. QED
    BY <2>4, <2>5
<1>6. QED
  BY <1>5 DEF Covers

LEMMA NextEvidence ==
  ASSUME GraphTypeOK, Locked, FoundOlder, Evidence, [GraphNext]_graphVars
  PROVE  Evidence'
<1>0. EdgesOfPairs(graph') /\ EdgesOfPairs(work')
  BY EdgesStep DEF Evidence
<1>1. ASSUME UNCHANGED <<graph, work>>,
             \A q \in Rebuilder : At(q, "commit")' => At(q, "commit"),
             \A q \in Rebuilder : At(q, "commit")' \/ At(q, "purge")' =>
               proc'[q].pc = proc[q].pc /\ proc'[q].found = proc[q].found
               /\ proc'[q].failed = proc[q].failed
      PROVE  Evidence'
  BY <1>0, <1>1 DEF Evidence, At, Rebuilder
<1>2. ASSUME NEW r \in Rebuilder, Lock(r) \/ Clear(r) PROVE Evidence'
  <2>1. \A q \in Rebuilder : ~At(q, "commit")'
    <3>1. \E pc \in Pc \ {"commit"} : Goto(r, pc)
      BY <1>2 DEF Lock, Clear, Pc, Statement
    <3>2. ~At(r, "commit")' /\ \A q \in Rebuilder \ {r} : proc'[q] = proc[q]
      BY <3>1, Went DEF At
    <3>3. CASE Lock(r)
      BY <3>2, <3>3 DEF Lock, Holds, At, Statement
    <3>4. CASE Clear(r)
      BY <3>2, <3>4, OfHolder DEF Clear, Holds, At, Statement
    <3>5. QED
      BY <1>2, <3>3, <3>4
  <2>2. graph' = graph /\ \A q \in Rebuilder : At(q, "purge")' => proc'[q] = proc[q]
    <3>1. \E pc \in Pc \ {"purge"} : Goto(r, pc)
      BY <1>2 DEF Lock, Clear, Pc, Statement
    <3>2. QED
      BY <1>2, <3>1, Went DEF Lock, Clear, At
  <2>3. QED
    BY <1>0, <2>1, <2>2 DEF Evidence, At, Rebuilder
<1>3. ASSUME NEW r \in Rebuilder, Derive(r) PROVE Evidence'
  <2>1. PICK pc \in Statement : /\ Goto(r, pc) /\ Holds(r) /\ graph' = graph
                                /\ pc = "commit" => InsertEdges(r, "co_edited", "commit",
                                                                CoEdited(work.nodes))
    BY <1>3 DEF Derive, InsertNodes, InsertEdges, Holds, At, Statement
  <2>2. /\ proc'[r].pc = pc /\ \A q \in Rebuilder : proc'[q].found = proc[q].found
        /\ \A q \in Rebuilder \ {r} : proc'[q] = proc[q]
    BY <2>1, Went DEF Pc
  <2>3. \A q \in Rebuilder : Holds(q)' => q = r
    BY <2>1, <2>2, OfHolder
  <2>4. ASSUME NEW q \in Rebuilder, At(q, "commit")', NEW o \in Worker
        PROVE  Covers(work', proc'[o].found)
    <3>1. q = r /\ pc = "commit"
      BY <2>2, <2>3, <2>4 DEF At, Holds, Statement
    <3>2. work' = [work EXCEPT !.edges = Insert(@, CoEdited(work.nodes))]
      BY <2>1, <3>1 DEF InsertEdges
    <3>3. /\ proc[o].found \subseteq observations
          /\ \A a \in observations, b \in proc[o].found : a < b => a \in proc[o].found
      BY DEF FoundOlder, Rebuilder
    <3>4. Covers(work', proc[o].found)
      BY <3>2, <3>3, CoversNew DEF Evidence
    <3>5. QED
      BY <2>2, <3>4 DEF Rebuilder
  <2>5. \A q \in Rebuilder : At(q, "purge")' => proc'[q] = proc[q]
    BY <2>2 DEF At, Statement
  <2>6. QED
    BY <1>0, <2>1, <2>4, <2>5 DEF Evidence, At, Rebuilder
<1>4. ASSUME NEW r \in Rebuilder, Commit(r) \/ RebuildFails(r) PROVE Evidence'
  <2>1. PICK fails \in BOOLEAN :
          /\ AfterRebuild(r, fails) /\ Holds(r)
          /\ IF fails THEN graph' = graph ELSE At(r, "commit") /\ graph' = work
    BY <1>4 DEF Commit, RebuildFails, Holds, At, Statement
  <2>2. /\ \/ r \in Worker /\ proc'[r].found = proc[r].found /\ proc'[r].failed = fails
           \/ proc'[r].pc = "idle"
        /\ ~Holds(r)'
        /\ \A q \in Rebuilder \ {r} : proc'[q] = proc[q]
    BY <2>1, AfterIt DEF Holds, Statement, Idle
  <2>3. \A q \in Rebuilder : ~At(q, "commit")'
    BY <2>1, <2>2, OfHolder DEF Holds, At, Statement
  <2>4. ASSUME NEW o \in Worker, At(o, "purge")', ~proc'[o].failed PROVE Covers(graph', proc'[o].found)
    <3>1. CASE fails
      BY <2>1, <2>2, <2>4, <3>1 DEF Evidence, At, Rebuilder
    <3>2. CASE ~fails
      <4>1. proc'[o].found = proc[o].found /\ (o = r \/ At(o, "purge"))
        BY <2>2, <2>4 DEF At, Rebuilder
      <4>2. Covers(work, proc[o].found)
        BY <2>1, <3>2, <4>1 DEF Evidence
      <4>3. QED
        BY <2>1, <3>2, <4>1, <4>2
    <3>3. QED
      BY <3>1, <3>2
  <2>5. QED
    BY <1>0, <2>3, <2>4 DEF Evidence
<1>5. ASSUME NEW r \in Rebuilder, StartPass(r) \/ EndPass(r) PROVE Evidence'
  BY <1>1, <1>5 DEF StartPass, EndPass, Idle, Begin, At, GraphTypeOK
<1>6. ASSUME NEW r \in Rebuilder, Purge(r) PROVE Evidence'
  <2>1. PICK gone \in SUBSET proc[r].found :
          /\ proc'[r] = Idle
          /\ \A q \in Rebuilder \ {r} :
               /\ proc'[q].pc = proc[q].pc /\ proc'[q].failed = proc[q].failed
               /\ proc'[q].found = proc[q].found \ gone
          /\ \A o \in gone, p \in observations : p < o => p \in gone
    BY <1>6, PurgeStep
  <2>2. UNCHANGED <<graph, work>>
    BY <1>6 DEF Purge
  <2>3. ASSUME NEW g, NEW q \in Rebuilder \ {r}, Covers(g, proc[q].found)
        PROVE  Covers(g, proc'[q].found)
    <3>1. /\ proc[q].found \in SUBSET Observation /\ proc[q].found \subseteq observations
          /\ proc'[q].found = proc[q].found \ gone
      BY <2>1 DEF FoundOlder, GraphTypeOK
    <3>2. \A a, b \in proc'[q].found, o \in proc[q].found :
            a <= o /\ o <= b => o \in proc'[q].found
      <4>1. ASSUME NEW a \in proc'[q].found, NEW o \in proc[q].found, a <= o PROVE o \notin gone
        <5>1. a \in observations /\ a \notin gone /\ a \in Nat /\ o \in Nat
          BY <3>1, SourceAssumption
        <5>2. o = a \/ a < o
          BY <4>1, <5>1
        <5>3. QED
          BY <2>1, <5>1, <5>2
      <4>2. QED
        BY <3>1, <4>1
    <3>3. QED
      BY <2>3, <3>1, <3>2, CoversLess
  <2>4. \A q \in Rebuilder : At(q, "commit")' \/ At(q, "purge")' => q # r /\ proc'[q].pc = proc[q].pc
    BY <2>1 DEF At, Idle
  <2>5. QED
    BY <1>0, <2>1, <2>2, <2>3, <2>4 DEF Evidence, At, Rebuilder
<1>7. CASE UNCHANGED <<graph, work, proc>>
  BY <1>1, <1>7 DEF At
<1>8. QED
  BY <1>2, <1>3, <1>4, <1>5, <1>6, <1>7
     DEF GraphNext, RebuildGraph, graphVars, AddObservation, CreateMemory, DeleteMemory

-----------------------------------------------------------------------------
(* The theorems *)

LEMMA GraphInitInv == GraphInit => GraphInv
<1> SUFFICES ASSUME GraphInit PROVE GraphInv
  OBVIOUS
<1>1. /\ proc = [r \in Rebuilder |-> Idle] /\ graph = Empty /\ work = Empty
      /\ memories = {} /\ observations = {}
  BY DEF GraphInit, memories, observations
<1>2. GraphTypeOK
  <2>1. Idle \in [pc : Pc, found : SUBSET Observation, failed : BOOLEAN]
    BY DEF Idle, Pc
  <2>2. proc \in [Rebuilder -> [pc : Pc, found : SUBSET Observation, failed : BOOLEAN]]
    BY <1>1, <2>1
  <2>3. graph = [nodes |-> graph.nodes, edges |-> graph.edges]
        /\ work = [nodes |-> work.nodes, edges |-> work.edges]
    BY <1>1 DEF Empty
  <2>4. trouble \in Nat
    BY BoundAssumption DEF GraphInit
  <2>5. QED
    BY <2>2, <2>3, <2>4 DEF GraphTypeOK, GraphInit
<1>3. \A r \in Rebuilder : ~Holds(r) /\ proc[r].pc = "idle" /\ proc[r].found = {}
  BY <1>1 DEF Idle, Holds, Statement
<1>4. Locked /\ WorkDerived
  BY <1>3 DEF Locked, WorkDerived, At
<1>5. InOrderOfId /\ FoundOlder
  BY <1>3 DEF InOrderOfId, FoundOlder, GraphInit
<1>6. Evidence
  BY <1>1, <1>3 DEF Evidence, EdgesOfPairs, Empty, At, Rebuilder
<1>7. FreshIsDerived
  <2>1. FileNodes = {}
    <3>1. \A f \in File : {m \in memories : f \in Names[m]} = {} /\ {o \in observations : f \in Touched[o]} = {}
      BY <1>1
    <3>2. Cardinality({}) = 0
      BY FS_EmptySet
    <3>3. \A f \in File : Mentions(f) = 0
      BY <3>1, <3>2 DEF Mentions
    <3>4. {f \in File : Mentions(f) > 0} = {}
      BY <3>3
    <3>5. QED
      BY <3>4 DEF FileNodes
  <2>2. MemoryNodes = {}
    BY <1>1 DEF MemoryNodes
  <2>3. AllNodes = {}
    BY <2>1, <2>2 DEF AllNodes
  <2>4. TouchEdges = {} /\ NameEdges = {} /\ SessionEdges = {}
    BY <1>1 DEF TouchEdges, NameEdges, SessionEdges, Touches, CoOccurs, SameSession
  <2>5. EditEdges = {}
    <3>1. Pairs(AllNodes) = {}
      BY <2>3 DEF Pairs, HasNode
    <3>2. QED
      BY <3>1 DEF EditEdges, CoEdited
  <2>6. Written("commit") = Empty
    BY <2>3, <2>4, <2>5 DEF Written, Empty
  <2>7. QED
    BY <1>1, <2>6, FreshForm
<1>8. QED
  BY <1>2, <1>4, <1>5, <1>6, <1>7 DEF GraphInv

LEMMA GraphInductive ==
  ASSUME GraphInv, [GraphNext]_graphVars
  PROVE  GraphInv'
<1>1. GraphTypeOK' /\ Locked'
  BY GraphNextTypeOK, NextLocked DEF GraphInv
<1>2. WorkDerived' /\ FreshIsDerived'
  BY NextFresh DEF GraphInv
<1>3. InOrderOfId' /\ FoundOlder'
  BY NextOlder DEF GraphInv
<1>4. Evidence'
  BY NextEvidence DEF GraphInv
<1>5. QED
  BY <1>1, <1>2, <1>3, <1>4 DEF GraphInv

LEMMA GraphInvHolds == GraphSpec => []GraphInv
<1>1. GraphInv /\ [GraphNext]_graphVars => GraphInv'
  BY GraphInductive
<1>2. QED
  BY GraphInitInv, <1>1, PTL DEF GraphSpec

\* The tables, the rebuilders and the sources keep their types, whatever fails and
\* whoever rebuilds at once (internal/store/graph.go, RebuildGraph).
THEOREM GraphTypeCorrect == GraphSpec => []GraphTypeOK
<1>1. GraphInv => GraphTypeOK
  BY DEF GraphInv
<1>2. QED
  BY GraphInvHolds, <1>1, PTL

\* Unless a source has changed since it began, the last rebuild to commit left the
\* graph of the sources (RebuildGraph: the lock, the clearing and the six inserts).
THEOREM FreshCorrect == GraphSpec => []FreshIsDerived
<1>1. GraphInv => FreshIsDerived
  BY DEF GraphInv
<1>2. QED
  BY GraphInvHolds, <1>1, PTL

LEMMA DroppedLater == GraphInv => DroppedOnlyLaterStep
<1> SUFFICES ASSUME GraphInv, NEW r \in Worker, At(r, "commit"), graph' = work,
                    NEW p \in CoEditedIn(graph) \ CoEditedIn(work), Drawn(work, p)
             PROVE  Together(proc[r].found, p) = {}
  BY DEF DroppedOnlyLaterStep
<1>1. PICK e \in graph.edges : e.rel = "co_edited" /\ p = <<e.src, e.dst>>
  BY DEF CoEditedIn
<1>2. PICK rel : IsEdge(rel, e) /\ (rel = "co_edited" => <<e.src, e.dst>> \in File \X File /\ e.src < e.dst)
  BY DEF GraphInv, Evidence, EdgesOfPairs
<1>3. e.rel = rel
  BY <1>2 DEF IsEdge, Edge
<1>4. p \in File \X File /\ p[1] < p[2]
  BY <1>1, <1>2, <1>3
<1>5. Covers(work, proc[r].found)
  BY DEF GraphInv, Evidence, Rebuilder
<1>6. QED
  BY <1>4, <1>5 DEF Covers

LEMMA PurgedDerived ==
  ASSUME GraphInv, [GraphNext]_graphVars
  PROVE  PurgedWasDerivedStep
<1> DEFINE gone == observations \ {o \in Observation : observation'[o] = "stored"}
<1> USE DEF GraphInv
<1>1. SUFFICES ASSUME \A r \in Worker : ~proc[r].failed,
                      NEW p \in File \X File, p[1] < p[2], Drawn(graph, p), Together(gone, p) # {}
               PROVE  p \in CoEditedIn(graph)
  BY DEF PurgedWasDerivedStep
<1>2. gone # {}
  <2>1. Together({}, p) = {}
    BY DEF Together, Touch
  <2>2. QED
    BY <1>1, <2>1
<1>3. PICK r \in Rebuilder : Purge(r)
  <2>1. ASSUME \A o \in observations : observation'[o] = "stored" PROVE FALSE
    BY <1>2, <2>1 DEF observations
  <2>2. CASE observation' = observation
    BY <2>1, <2>2 DEF observations
  <2>3. ASSUME NEW o \in Observation, AddObservation(o) PROVE FALSE
    BY <2>1, <2>3 DEF AddObservation, observations, GraphTypeOK
  <2>4. QED
    BY <2>2, <2>3, RebuildFound DEF GraphNext, graphVars, sources, StartPass, EndPass,
       CreateMemory, DeleteMemory
<1>4. PICK old \in SUBSET proc[r].found :
        /\ observation' = Purged(old)
        /\ \A o \in old, q \in observations : q < o => q \in old
        /\ observations' = observations \ old
  BY <1>3, PurgeStep
<1>5. gone = old
  <2>1. proc[r].found \subseteq observations
    BY DEF FoundOlder
  <2>2. observations' = {o \in Observation : observation'[o] = "stored"}
    BY DEF observations
  <2>3. QED
    BY <1>4, <2>1, <2>2
<1>6. r \in Worker /\ Covers(graph, proc[r].found)
  BY <1>1, <1>3 DEF Purge, Locked, Evidence
<1>7. /\ proc[r].found \in SUBSET Observation
      /\ \A a, b \in old, o \in proc[r].found : a <= o /\ o <= b => o \in old
  <2>1. proc[r].found \in SUBSET Observation /\ proc[r].found \subseteq observations
    BY DEF GraphTypeOK, FoundOlder
  <2>2. \A b \in old, o \in proc[r].found : o <= b => o \in old
    <3>1. ASSUME NEW b \in old, NEW o \in proc[r].found, o <= b PROVE o \in old
      <4>1. b \in Nat /\ o \in Nat /\ o \in observations
        BY <2>1, SourceAssumption
      <4>2. o = b \/ o < b
        BY <3>1, <4>1
      <4>3. QED
        BY <1>4, <4>1, <4>2
    <3>2. QED
      BY <3>1
  <2>3. QED
    BY <2>1, <2>2
<1>8. Covers(graph, old)
  BY <1>6, <1>7, CoversLess
<1>9. QED
  BY <1>1, <1>5, <1>8 DEF Covers

\* A worker's pass drops no edge whose evidence it deletes, and deletes none that is
\* not in the graph (internal/consolidate/worker.go, maintenance: rebuild, then purge).
THEOREM PassOrderCorrect == GraphSpec => PassOrder
<1>1. GraphInv /\ [GraphNext]_graphVars => [DroppedOnlyLaterStep /\ PurgedWasDerivedStep]_graphVars
  BY DroppedLater, PurgedDerived
<1>2. QED
  BY GraphInvHolds, <1>1, PTL DEF GraphSpec, PassOrder

-----------------------------------------------------------------------------
(***************************************************************************)
(* RateLimit: any callers, keys, budgets, minutes and eviction by idle time*)
(***************************************************************************)

-----------------------------------------------------------------------------
(* Types *)

AnyBucket == [tokens : [Direction -> Nat], last : Nat]
Calling == [pc : {"idle", "sending", "waiting"}, direction : Direction, attempt : Nat, until : Nat]
Passage == [key : {KeyOf[c] : c \in Caller}, direction : Direction, at : Nat]

LimitTypeOK ==
  /\ now \in Nat
  /\ \A k \in Known : buckets[k] \in AnyBucket /\ buckets[k].last <= now
  /\ calling \in [Caller -> Calling]
  /\ admitted \in Seq(Passage) /\ promised \subseteq Caller

-----------------------------------------------------------------------------
(* The invariant *)

Least(x, y) == IF x <= y THEN x ELSE y
Ceiling(d) == Budget[d] * Token

\* What key k has of direction d if it is asked for now.
Have(k, d) ==
  IF k \in Known THEN Least(Ceiling(d), buckets[k].tokens[d] + (now - buckets[k].last) * Budget[d])
  ELSE Ceiling(d)

\* The passages of one kind from the i-th to the j-th.
Through(i, j) ==
  {k \in i .. j : admitted[k].key = admitted[i].key /\ admitted[k].direction = admitted[i].direction}

\* What was let through since a passage, with what is left, is within its budget.
Account(i) ==
  LET a == admitted[i]
  IN  /\ a.at <= now
      /\ Cardinality(Through(i, Len(admitted))) * Token + Have(a.key, a.direction)
           <= Budget[a.direction] * (Token + now - a.at)

Accounts == \A i \in 1 .. Len(admitted) : Account(i)

\* The time a caller has still to wait.
Left(c) == IF calling[c].pc = "waiting" /\ calling[c].until > now THEN calling[c].until - now ELSE 0

\* At the end of its wait there is a token.
Kept(c) ==
  LET d == calling[c].direction
  IN  /\ calling[c].pc \in {"waiting", "sending"} /\ Budget[d] > 0
      /\ Have(KeyOf[c], d) + Left(c) * Budget[d] >= Token

LimitInv == LimitTypeOK /\ Accounts /\ BudgetHeld /\ \A c \in promised : Kept(c)

-----------------------------------------------------------------------------
(* Arithmetic *)

LEMMA MinOfTwo == ASSUME NEW x \in Int, NEW y \in Int PROVE Min({x, y}) = Least(x, y)
  BY DEF Min, Least

LEMMA MaxOfTwo == ASSUME NEW x \in Int, NEW y \in Int PROVE Max({x, y}) = IF x >= y THEN x ELSE y
  BY DEF Max

LEMMA OneMore == ASSUME NEW n \in Int, NEW b \in Int PROVE (n + 1) * b = n * b + b
  OBVIOUS

LEMMA MoreTimes ==
  ASSUME NEW m \in Nat, NEW n \in Nat, m <= n, NEW b \in Nat
  PROVE  m * b <= n * b
  OBVIOUS

LEMMA Sizes ==
  /\ Minute \in Nat \ {0} /\ Token \in Nat \ {0} /\ Token = Minute
  /\ \A d \in Direction : Budget[d] \in Nat /\ Ceiling(d) \in Nat
  /\ \A d \in Direction : Budget[d] > 0 => Token <= Ceiling(d)
  /\ Minute <= StaleMinutes * Minute /\ StaleMinutes * Minute \in Nat
<1>1. Minute \in Nat \ {0} /\ Token \in Nat \ {0} /\ Token = Minute
  BY LimitAssumption DEF Minute, Token
<1>2. \A d \in Direction : Budget[d] \in Nat
  BY LimitAssumption
<1> HIDE DEF Minute, Token
<1>3. ASSUME NEW b \in Nat PROVE b * Token \in Nat /\ (b > 0 => Token <= b * Token)
  BY <1>1, <1>3
<1>4. StaleMinutes \in Nat \ {0}
  BY LimitAssumption
<1>5. Minute <= StaleMinutes * Minute /\ StaleMinutes * Minute \in Nat
  BY <1>1, <1>3, <1>4
<1>6. QED
  BY <1>1, <1>2, <1>3, <1>5 DEF Ceiling

-----------------------------------------------------------------------------
(* What a request does to the buckets *)

LEMMA HaveType ==
  ASSUME LimitTypeOK
  PROVE  \A k : \A d \in Direction : Have(k, d) \in Nat /\ Have(k, d) <= Ceiling(d)
<1>1. ASSUME NEW k \in Known, NEW d \in Direction
      PROVE  buckets[k].tokens[d] \in Nat /\ now - buckets[k].last \in Nat
  BY DEF LimitTypeOK, AnyBucket
<1>2. ASSUME NEW k \in Known, NEW d \in Direction
      PROVE  (now - buckets[k].last) * Budget[d] \in Nat
  BY <1>1, Sizes
<1>3. QED
  BY <1>1, <1>2, Sizes DEF Have, Least, Known

\* The buckets a request works on: its own, and of the others all but idle ones.
LEMMA PresentBuckets ==
  ASSUME NEW key
  PROVE  /\ key \in DOMAIN Present(key)
         /\ Present(key)[key] = IF key \in Known THEN buckets[key] ELSE FullBucket
         /\ \A k \in DOMAIN Present(key) \ {key} : k \in Known /\ Present(key)[k] = buckets[k]
         /\ \A k \in Known \ {key} : k \in DOMAIN Present(key) \/ Evictable(k)
<1>1. CASE key \in Known
  BY <1>1 DEF Present, Known
<1>2. CASE key \notin Known
  <2> DEFINE kept == IF Cardinality(Known) + 1 > MaxBuckets THEN {k \in Known : ~Evictable(k)} ELSE Known
  <2>1. Present(key) = [k \in kept \cup {key} |-> IF k = key THEN FullBucket ELSE buckets[k]]
    BY <1>2 DEF Present
  <2>2. kept \subseteq Known /\ \A k \in Known : k \in kept \/ Evictable(k)
    OBVIOUS
  <2> HIDE DEF kept
  <2>3. QED
    BY <1>2, <2>1, <2>2
<1>3. QED
  BY <1>1, <1>2

\* The refilled bucket of a key holds what the key has.
LEMMA CheckedHas ==
  ASSUME LimitTypeOK, NEW c \in Caller
  PROVE  /\ Checked(c) = [tokens |-> [d \in Direction |-> Have(KeyOf[c], d)], last |-> now]
         /\ \A d \in Direction : Checked(c).tokens[d] = Have(KeyOf[c], d)
<1> DEFINE k == KeyOf[c]
           b == Present(k)[k]
<1>1. \A d \in Direction : Min({Ceiling(d), b.tokens[d] + (now - b.last) * Budget[d]}) = Have(k, d)
  <2>1. SUFFICES ASSUME NEW d \in Direction
                 PROVE  Min({Ceiling(d), b.tokens[d] + (now - b.last) * Budget[d]}) = Have(k, d)
    OBVIOUS
  <2>2. CASE k \in Known
    <3>1. b = buckets[k] /\ b.tokens[d] \in Nat /\ now - b.last \in Nat
      BY <2>2, PresentBuckets DEF LimitTypeOK, AnyBucket
    <3>2. b.tokens[d] + (now - b.last) * Budget[d] \in Int
      BY <3>1, Sizes
    <3>3. QED
      BY <2>2, <3>1, <3>2, Sizes, MinOfTwo DEF Have, Known
  <2>3. CASE k \notin Known
    <3>1. b = FullBucket
      BY <2>3, PresentBuckets
    <3>2. b.tokens[d] = Ceiling(d) /\ (now - b.last) * Budget[d] = 0
      BY <3>1, Sizes DEF FullBucket, Ceiling, LimitTypeOK
    <3>3. b.tokens[d] + (now - b.last) * Budget[d] = Ceiling(d)
      BY <3>2, Sizes
    <3>4. QED
      BY <2>3, <3>3, Sizes, MinOfTwo DEF Have, Least, Known
  <2>4. QED
    BY <2>2, <2>3
<1>2. Checked(c) = [tokens |-> [d \in Direction |->
                      Min({Ceiling(d), b.tokens[d] + (now - b.last) * Budget[d]})], last |-> now]
  BY DEF Checked, Refilled, Ceiling
<1>3. [d \in Direction |-> Min({Ceiling(d), b.tokens[d] + (now - b.last) * Budget[d]})]
        = [d \in Direction |-> Have(k, d)]
  BY <1>1
<1>4. Checked(c) = [tokens |-> [d \in Direction |-> Have(k, d)], last |-> now]
  BY <1>2, <1>3
<1>5. QED
  BY <1>4

\* A bucket that may be evicted is full again.
LEMMA EvictedIsFull ==
  ASSUME LimitTypeOK, NEW k \in Known, Evictable(k), NEW d \in Direction
  PROVE  Have(k, d) = Ceiling(d)
<1> DEFINE idle == now - buckets[k].last
<1>1. idle \in Nat /\ Minute <= idle /\ buckets[k].tokens[d] \in Nat
  BY Sizes DEF Evictable, LimitTypeOK, AnyBucket
<1> HIDE DEF idle
<1>2. Minute * Budget[d] <= idle * Budget[d] /\ idle * Budget[d] \in Nat
  BY <1>1, Sizes, MoreTimes
<1>3. Ceiling(d) = Minute * Budget[d]
  BY Sizes DEF Ceiling
<1>4. Ceiling(d) <= buckets[k].tokens[d] + idle * Budget[d]
  BY <1>1, <1>2, <1>3, Sizes
<1>5. QED
  BY <1>1, <1>2, <1>4, Sizes DEF Have, Least, idle, Known

\* A request sets what its own key has, and no other key notices, whether or not
\* its bucket was evicted.
LEMMA BucketSet ==
  ASSUME LimitTypeOK, NEW c \in Caller, NEW t \in [Direction -> Nat],
         \A d \in Direction : t[d] <= Ceiling(d),
         SetBucket(c, [tokens |-> t, last |-> now]), now' = now
  PROVE  /\ \A k \in DOMAIN buckets' : buckets'[k] \in AnyBucket /\ buckets'[k].last <= now
         /\ \A k : \A d \in Direction : Have(k, d)' = IF k = KeyOf[c] THEN t[d] ELSE Have(k, d)
<1> DEFINE key == KeyOf[c]
           b == [tokens |-> t, last |-> now]
<1>1. DOMAIN buckets' = DOMAIN Present(key) /\ key \in DOMAIN Present(key)
  BY PresentBuckets DEF SetBucket
<1>2. \A k \in DOMAIN buckets' : buckets'[k] = IF k = key THEN b ELSE Present(key)[k]
  BY DEF SetBucket
<1>3. \A k \in DOMAIN Present(key) : k # key => k \in Known /\ Present(key)[k] = buckets[k]
  BY PresentBuckets
<1>4. \A k \in Known : k # key /\ k \notin DOMAIN Present(key) => Evictable(k)
  BY PresentBuckets
<1>5. b \in AnyBucket /\ b.last <= now
  BY DEF AnyBucket, LimitTypeOK
<1>6. \A k \in DOMAIN buckets' : buckets'[k] \in AnyBucket /\ buckets'[k].last <= now
  BY <1>1, <1>2, <1>3, <1>5 DEF LimitTypeOK
<1>7. ASSUME NEW k, NEW d \in Direction
      PROVE  Have(k, d)' = IF k = key THEN t[d] ELSE Have(k, d)
  <2>1. CASE k = key
    <3>1. (now - now) * Budget[d] = 0
      BY Sizes DEF LimitTypeOK
    <3>2. Have(k, d)' = Least(Ceiling(d), t[d] + (now - now) * Budget[d])
      BY <1>1, <1>2, <2>1 DEF Have, Known, Ceiling
    <3>3. t[d] + (now - now) * Budget[d] = t[d]
      BY <3>1
    <3>4. QED
      BY <2>1, <3>2, <3>3, Sizes DEF Least
  <2>2. CASE k # key /\ k \in DOMAIN Present(key)
    BY <1>1, <1>2, <1>3, <2>2 DEF Have, Known, Ceiling
  <2>3. CASE k # key /\ k \notin DOMAIN Present(key)
    <3>1. Have(k, d)' = Ceiling(d)
      BY <1>1, <2>3 DEF Have, Known, Ceiling
    <3>2. Have(k, d) = Ceiling(d)
      BY <1>4, <2>3, EvictedIsFull DEF Have, Known
    <3>3. QED
      BY <2>3, <3>1, <3>2
  <2>4. QED
    BY <2>1, <2>2, <2>3
<1>8. QED
  BY <1>6, <1>7

LEMMA SameHave ==
  ASSUME UNCHANGED <<now, buckets>>
  PROVE  \A k : \A d \in Direction : Have(k, d)' = Have(k, d)
  BY DEF Have, Known, Ceiling

\* A tick gives every key what its budget refills, up to the full bucket.
LEMMA TickRefills ==
  ASSUME LimitTypeOK, Tick
  PROVE  \A k : \A d \in Direction : Have(k, d)' = Least(Ceiling(d), Have(k, d) + Budget[d])
<1>1. SUFFICES ASSUME NEW k, NEW d \in Direction
               PROVE  Have(k, d)' = Least(Ceiling(d), Have(k, d) + Budget[d])
  OBVIOUS
<1>2. now' = now + 1 /\ buckets' = buckets /\ now \in Nat
  BY DEF Tick, LimitTypeOK
<1>3. CASE k \in Known
  <2> DEFINE idle == now - buckets[k].last
             t == buckets[k].tokens[d]
  <2>1. idle \in Nat /\ t \in Nat /\ now' - buckets[k].last = idle + 1
    <3>1. buckets[k] \in AnyBucket /\ buckets[k].last <= now
      BY <1>3 DEF LimitTypeOK
    <3>2. t \in Nat /\ buckets[k].last \in Nat
      BY <3>1 DEF AnyBucket
    <3> HIDE DEF t
    <3>3. QED
      BY <1>2, <3>1, <3>2
  <2>2. (idle + 1) * Budget[d] = idle * Budget[d] + Budget[d]
    BY <2>1, Sizes, OneMore
  <2>3. Have(k, d) = Least(Ceiling(d), t + idle * Budget[d])
    BY <1>3 DEF Have, Known
  <2>4. Have(k, d)' = Least(Ceiling(d), t + (now' - buckets[k].last) * Budget[d])
    BY <1>2, <1>3 DEF Have, Known, Ceiling
  <2>5. idle * Budget[d] \in Nat
    BY <2>1, Sizes
  <2> HIDE DEF idle, t
  <2>6. Have(k, d)' = Least(Ceiling(d), t + idle * Budget[d] + Budget[d])
    BY <2>1, <2>2, <2>4, <2>5, Sizes
  <2>7. QED
    BY <2>1, <2>3, <2>5, <2>6, Sizes DEF Least
<1>4. CASE k \notin Known
  BY <1>2, <1>4, Sizes DEF Have, Known, Ceiling, Least
<1>5. QED
  BY <1>3, <1>4

-----------------------------------------------------------------------------
(* What was let through *)

LEMMA PassageType ==
  ASSUME LimitTypeOK
  PROVE  \A i \in 1 .. Len(admitted) :
           admitted[i] \in Passage /\ admitted[i].at \in Nat /\ admitted[i].direction \in Direction
<1>1. ASSUME NEW i \in 1 .. Len(admitted) PROVE admitted[i] \in Passage
  BY DEF LimitTypeOK
<1>2. ASSUME NEW p \in Passage PROVE p.at \in Nat /\ p.direction \in Direction
  BY DEF Passage
<1>3. QED
  BY <1>1, <1>2

\* Where nothing is let through, a passage's account holds on, as long as a key
\* gains no more than the time that goes by refills.
LEMMA AccountsHold ==
  ASSUME LimitInv, admitted' = admitted, now' \in {now, now + 1},
         \A k : \A d \in Direction : Have(k, d)' \in Nat /\ Have(k, d)' <= Have(k, d) + (now' - now) * Budget[d]
  PROVE  Accounts' /\ BudgetHeld'
<1>1. BudgetHeld'
  BY DEF LimitInv, BudgetHeld
<1>2. ASSUME NEW i \in 1 .. Len(admitted)
      PROVE  Account(i)'
  <2> PICK a : a = admitted[i]
    OBVIOUS
  <2> PICK n : n = Len(admitted)
    OBVIOUS
  <2> DEFINE size == Cardinality(Through(i, n))
             B == Budget[a.direction]
             has == Have(a.key, a.direction)
             next == Have(a.key, a.direction)'
  <2>1. a \in Passage /\ a.at \in Nat /\ a.direction \in Direction /\ now \in Nat
    BY PassageType DEF LimitInv, LimitTypeOK
  <2>2. a.at <= now /\ size * Token + has <= B * (Token + now - a.at)
    BY DEF LimitInv, Accounts, Account
  <2>3. Through(i, n)' = Through(i, n)
    BY DEF Through
  <2>4. Through(i, n) \subseteq i .. n /\ IsFiniteSet(i .. n)
    BY FS_Interval DEF Through, LimitInv, LimitTypeOK
  <2>5. size \in Nat
    BY <2>4, FS_Subset, FS_CardinalityType
  <2>6. next \in Nat /\ has \in Nat /\ next <= has + (now' - now) * B
    BY <2>1, HaveType DEF LimitInv
  <2>7. B \in Nat /\ Token \in Nat /\ size * Token \in Nat
    BY <2>1, <2>5, Sizes
  <2>8. B * (Token + now' - a.at) = B * (Token + now - a.at) + (now' - now) * B
    <3>1. CASE now' = now
      BY <2>1, <2>7, <3>1
    <3>2. CASE now' = now + 1
      <4> HIDE DEF B
      <4>1. Token + now - a.at \in Int /\ Token + now' - a.at = (Token + now - a.at) + 1 /\ now' - now = 1
        <5>1. Token \in Nat
          BY Sizes
        <5>2. ASSUME NEW x \in Nat, NEW y \in Nat, NEW z \in Nat
              PROVE  x + y - z \in Int /\ x + (y + 1) - z = (x + y - z) + 1 /\ (y + 1) - y = 1
          OBVIOUS
        <5>3. QED
          BY <2>1, <3>2, <5>1, <5>2
      <4>2. B * ((Token + now - a.at) + 1) = B * (Token + now - a.at) + B
        BY <2>7, <4>1
      <4>3. QED
        BY <2>7, <4>1, <4>2
    <3>3. QED
      BY <3>1, <3>2
  <2>9. B * (Token + now - a.at) \in Int /\ (now' - now) * B \in Int
    <3> HIDE DEF B
    <3>1. Token + now - a.at \in Int /\ now' - now \in Int
      BY <2>1, <2>7
    <3>2. QED
      BY <2>7, <3>1
  <2>10. size * Token + next <= B * (Token + now' - a.at) /\ a.at <= now'
    <3> HIDE DEF B, size, has, next
    <3>1. a.at <= now'
      BY <2>1, <2>2
    <3>2. QED
      BY <2>2, <2>6, <2>7, <2>8, <2>9, <3>1
  <2>11. QED
    BY <2>3, <2>10 DEF Account, Have
<1>3. QED
  BY <1>1, <1>2 DEF Accounts

\* Where a request is let through, its token is taken from what its key had.
LEMMA AccountsGrow ==
  ASSUME LimitInv, NEW key \in {KeyOf[c] : c \in Caller}, NEW dir \in Direction,
         now' = now, Have(key, dir) >= Token,
         admitted' = Append(admitted, [key |-> key, direction |-> dir, at |-> now]),
         \A k : \A d \in Direction : Have(k, d)' = IF k = key /\ d = dir THEN Have(k, d) - Token ELSE Have(k, d)
  PROVE  Accounts' /\ BudgetHeld'
<1> PICK n : n = Len(admitted)
  OBVIOUS
<1> PICK a : a = [key |-> key, direction |-> dir, at |-> now]
  OBVIOUS
<1>1. n \in Nat /\ now \in Nat /\ a \in Passage /\ a.key = key /\ a.direction = dir /\ a.at = now
  BY DEF LimitInv, LimitTypeOK, Passage
<1>2. Len(admitted') = n + 1 /\ admitted'[n + 1] = a /\ \A i \in 1 .. n : admitted'[i] = admitted[i]
  BY <1>1 DEF LimitInv, LimitTypeOK
<1>3. \A i \in 1 .. n : admitted[i] \in Passage /\ admitted[i].at \in Nat /\ admitted[i].direction \in Direction
  BY PassageType DEF LimitInv
<1>4. \A i \in 1 .. n, j \in 1 .. n : Through(i, j)' = Through(i, j)
  BY <1>1, <1>2 DEF Through
<1>5. \A k : \A d \in Direction : Have(k, d) \in Nat /\ Have(k, d) <= Ceiling(d) /\ Have(k, d)' \in Nat
  BY HaveType, Sizes DEF LimitInv
<1>6. ASSUME NEW i \in 1 .. n
      PROVE  Account(i)'
  <2> PICK e : e = admitted[i]
    OBVIOUS
  <2> DEFINE old == Through(i, n)
             B == Budget[e.direction]
             has == Have(e.key, e.direction)
             next == Have(e.key, e.direction)'
             same == e.key = key /\ e.direction = dir
  <2>1. e.at <= now /\ Cardinality(old) * Token + has <= B * (Token + now - e.at)
    BY DEF LimitInv, Accounts, Account
  <2>2. IsFiniteSet(i .. n) /\ old \subseteq i .. n /\ n + 1 \notin old
    <3>1. i \in Int /\ n + 1 \notin i .. n
      BY <1>1
    <3>2. old \subseteq i .. n
      BY DEF Through
    <3>3. IsFiniteSet(i .. n)
      BY <1>1, <3>1, FS_Interval
    <3>4. QED
      BY <3>1, <3>2, <3>3
  <2>3. IsFiniteSet(old) /\ Cardinality(old) \in Nat
    BY <2>2, FS_Subset, FS_CardinalityType
  <2>4. Account(i)' = (e.at <= now /\ Cardinality(Through(i, n + 1)') * Token + next <= B * (Token + now - e.at))
    BY <1>2 DEF Account, Have
  <2>5. Through(i, n + 1)' = {k \in i .. n + 1 : admitted'[k].key = e.key /\ admitted'[k].direction = e.direction}
    BY <1>2 DEF Through
  <2>6. i .. n + 1 = (i .. n) \cup {n + 1} /\ i .. n \subseteq 1 .. n
    BY <1>1
  <2>7. CASE same
    <3>1. Through(i, n + 1)' = old \cup {n + 1}
      BY <1>2, <2>5, <2>6, <2>7 DEF Through
    <3>2. Cardinality(Through(i, n + 1)') = Cardinality(old) + 1
      BY <2>2, <2>3, <3>1, FS_AddElement
    <3>3. next = has - Token /\ has \in Nat
      BY <1>1, <1>3, <1>5, <2>7
    <3>4. (Cardinality(old) + 1) * Token = Cardinality(old) * Token + Token /\ Cardinality(old) * Token \in Nat
      BY <2>3, Sizes, OneMore
    <3>5. B * (Token + now - e.at) \in Int
      BY <1>1, <1>3, Sizes
    <3>6. (Cardinality(old) + 1) * Token + next <= B * (Token + now - e.at)
      BY <2>1, <3>3, <3>4, <3>5, Sizes
    <3>7. QED
      BY <2>1, <2>4, <3>2, <3>6
  <2>8. CASE ~same
    <3>1. Through(i, n + 1)' = old
      BY <1>2, <2>5, <2>6, <2>8 DEF Through
    <3>2. next = has
      BY <1>3, <2>8
    <3>3. QED
      BY <2>1, <2>4, <3>1, <3>2
  <2>9. QED
    BY <2>7, <2>8
<1>7. Account(n + 1)'
  <2>1. Through(n + 1, n + 1)' = {n + 1}
    BY <1>1, <1>2 DEF Through
  <2>2. Cardinality(Through(n + 1, n + 1)') = 1
    BY <2>1, FS_Singleton
  <2>3. Have(key, dir)' = Have(key, dir) - Token /\ Have(key, dir) \in Nat
        /\ Have(key, dir) <= Ceiling(dir)
    BY <1>1, <1>5
  <2>4. Token + now - now = Token /\ Ceiling(dir) \in Nat /\ Token \in Nat
    BY <1>1, Sizes
  <2>5. 1 * Token + Have(key, dir)' <= Budget[dir] * (Token + now - now) /\ now <= now
    <3>1. Budget[dir] * (Token + now - now) = Ceiling(dir)
      BY <2>4 DEF Ceiling
    <3>2. ASSUME NEW x \in Nat, NEW y \in Nat, NEW z \in Nat, y <= z
          PROVE  1 * x + (y - x) <= z
      BY <3>2
    <3>3. 1 * Token + Have(key, dir)' <= Ceiling(dir)
      BY <2>3, <2>4, <3>2
    <3>4. QED
      BY <1>1, <3>1, <3>3
  <2>6. QED
    BY <1>2, <2>2, <2>5 DEF Account, Have
<1>8. Accounts'
  BY <1>1, <1>2, <1>6, <1>7 DEF Accounts
<1>9. ASSUME NEW i \in 1 .. Len(admitted'), NEW j \in 1 .. Len(admitted'), i <= j,
             admitted'[j].key = admitted'[i].key, admitted'[j].direction = admitted'[i].direction
      PROVE  Cardinality(Through(i, j)') * Token
               <= Budget[admitted'[i].direction] * (Token + admitted'[j].at - admitted'[i].at)
  <2>1. CASE j \in 1 .. n
    <3>1. i \in 1 .. n /\ Through(i, j)' = Through(i, j)
      BY <1>1, <1>4, <1>9, <2>1
    <3>2. Cardinality(Through(i, j)) * Token <= Budget[admitted[i].direction] * (Token + admitted[j].at - admitted[i].at)
      BY <1>2, <1>9, <2>1, <3>1 DEF LimitInv, BudgetHeld, Through
    <3>3. QED
      BY <1>2, <2>1, <3>1, <3>2
  <2>2. CASE j = n + 1
    <3> PICK e : e = admitted'[i]
      OBVIOUS
    <3> DEFINE has == Have(e.key, e.direction)'
               size == Cardinality(Through(i, n + 1)')
    <3>1. size * Token + has <= Budget[e.direction] * (Token + now - e.at)
      BY <1>2, <1>8 DEF Accounts, Account, Have
    <3>2. e \in Passage /\ e.at \in Nat /\ e.direction \in Direction
      BY <1>1, <1>2, <1>3 DEF Passage
    <3>3. has \in Nat
      BY <1>5, <3>2
    <3>4. Through(i, n + 1)' \subseteq i .. n + 1 /\ IsFiniteSet(i .. n + 1)
      <4>1. i \in Int /\ n + 1 \in Int
        BY <1>1, <1>2
      <4>2. IsFiniteSet(i .. n + 1)
        BY <4>1, FS_Interval
      <4>3. Through(i, n + 1)' \subseteq i .. n + 1
        BY DEF Through
      <4>4. QED
        BY <4>2, <4>3
    <3>5. size \in Nat
      BY <3>4, FS_Subset, FS_CardinalityType
    <3>6. size * Token \in Nat /\ Budget[e.direction] * (Token + now - e.at) \in Int
      <4>1. Token + now - e.at \in Int /\ Token \in Nat /\ Budget[e.direction] \in Nat
        BY <1>1, <3>2, Sizes
      <4> HIDE DEF size
      <4>2. QED
        BY <3>5, <4>1
    <3>7. size * Token <= Budget[e.direction] * (Token + now - e.at)
      BY <3>1, <3>3, <3>6
    <3>8. QED
      BY <1>2, <2>2, <3>7
  <2>3. QED
    BY <1>1, <1>2, <2>1, <2>2
<1>10. BudgetHeld'
  BY <1>9 DEF BudgetHeld, Through
<1>11. QED
  BY <1>8, <1>10

-----------------------------------------------------------------------------
(* What a refused caller was told *)

\* The wait of an answer is at least the time its token takes.
LEMMA WaitIsEnough ==
  ASSUME NEW d \in Direction, Budget[d] > 0, NEW b, b.tokens[d] \in Nat, b.tokens[d] < Token
  PROVE  Waits(b, d) \in Nat /\ b.tokens[d] + Waits(b, d) * Budget[d] >= Token
<1> DEFINE step == Budget[d] * TicksPerSecond
           need == Token - b.tokens[d]
           told == RetryAfter(b, d)
           secs == Max({1, Min({MinuteSeconds, told})})
<1>1. /\ MinuteSeconds \in Nat \ {0} /\ TicksPerSecond \in Nat \ {0} /\ Budget[d] \in Nat \ {0}
      /\ Token \in Nat \ {0} /\ Token = MinuteSeconds * TicksPerSecond
  BY Sizes, LimitAssumption DEF Minute, Token
<1>2. need \in Nat \ {0} /\ need <= Token
  BY <1>1
<1>3. step \in Nat \ {0}
  <2>1. ASSUME NEW x \in Nat \ {0}, NEW y \in Nat \ {0} PROVE x * y \in Nat \ {0}
    BY <2>1
  <2>2. QED
    BY <1>1, <2>1
<1>4. told \in Nat \ {0} /\ told * step >= need
  <2> HIDE DEF step, need
  <2>1. told = need \div step + 1
    BY DEF RetryAfter, step, need
  <2>2. ASSUME NEW x \in Nat, NEW y \in Nat \ {0}
        PROVE  x \div y \in Nat /\ x < (x \div y + 1) * y
    <3>1. x \div y \in Nat /\ x < y * ((x \div y) + 1)
      BY <2>2
    <3>2. ASSUME NEW z \in Nat PROVE y * (z + 1) = (z + 1) * y
      BY <2>2, <3>2
    <3>3. QED
      BY <3>1, <3>2
  <2>3. need \div step \in Nat /\ need < (need \div step + 1) * step
    BY <1>2, <1>3, <2>2
  <2>4. (need \div step + 1) * step \in Nat
    BY <1>3, <2>3
  <2>5. QED
    BY <1>2, <2>1, <2>3, <2>4
<1>5. MinuteSeconds * step >= need /\ MinuteSeconds * step \in Nat
  <2>1. MinuteSeconds * step = Budget[d] * Token
    <3>1. ASSUME NEW x \in Nat, NEW y \in Nat, NEW z \in Nat PROVE x * (y * z) = y * (x * z)
      BY <3>1
    <3>2. QED
      BY <1>1, <3>1
  <2>2. Budget[d] * Token >= Token /\ Budget[d] * Token \in Nat
    BY <1>1, Sizes DEF Ceiling
  <2>3. QED
    BY <1>1, <1>2, <2>1, <2>2
<1> HIDE DEF step, need, told
<1>6. secs \in {MinuteSeconds, told}
  <2>1. Min({MinuteSeconds, told}) = Least(MinuteSeconds, told)
    BY <1>1, <1>4, MinOfTwo
  <2>2. Least(MinuteSeconds, told) \in {MinuteSeconds, told} /\ Least(MinuteSeconds, told) >= 1
        /\ Least(MinuteSeconds, told) \in Int
    BY <1>1, <1>4 DEF Least
  <2>3. Max({1, Least(MinuteSeconds, told)}) = Least(MinuteSeconds, told)
    BY <2>2, MaxOfTwo
  <2>4. QED
    BY <2>1, <2>2, <2>3
<1>7. secs \in Nat /\ secs * step >= need
  BY <1>1, <1>4, <1>5, <1>6
<1> HIDE DEF secs
<1>8. Waits(b, d) = secs * TicksPerSecond
  BY DEF Waits, secs, told
<1>9. (secs * TicksPerSecond) * Budget[d] = secs * step /\ secs * TicksPerSecond \in Nat
  <2>1. ASSUME NEW x \in Nat, NEW y \in Nat, NEW z \in Nat PROVE (x * y) * z = x * (z * y) /\ x * y \in Nat
    BY <2>1
  <2>2. QED
    BY <1>1, <1>7, <2>1 DEF step
<1>10. secs * step \in Nat
  BY <1>3, <1>7
<1>11. QED
  BY <1>1, <1>7, <1>8, <1>9, <1>10 DEF need

\* A promise is not touched by what does not touch its caller or what its key has.
LEMMA PromiseHolds ==
  ASSUME LimitTypeOK, NEW c \in Caller, Kept(c), now' = now, calling'[c] = calling[c],
         \A k : \A d \in Direction : Have(k, d)' \in Nat,
         Have(KeyOf[c], calling[c].direction)' >= Have(KeyOf[c], calling[c].direction)
  PROVE  Kept(c)'
<1> PICK d : d = calling[c].direction
  OBVIOUS
<1>1. d \in Direction
  BY DEF LimitTypeOK, Calling
<1>2. calling'[c].direction = d
  BY DEF LimitTypeOK
<1>3. Left(c)' = Left(c) /\ Left(c) \in Nat
  BY DEF Left, LimitTypeOK, Calling
<1>4. Have(KeyOf[c], d)' >= Have(KeyOf[c], d) /\ Have(KeyOf[c], d)' \in Nat /\ Have(KeyOf[c], d) \in Nat
  <2>1. Have(KeyOf[c], d)' \in Nat /\ Have(KeyOf[c], d) \in Nat
    BY <1>1, HaveType
  <2>2. Have(KeyOf[c], d)' = Have(KeyOf[c], calling[c].direction)'
    BY <1>2 DEF Have
  <2>3. QED
    BY <2>1, <2>2
<1>5. Left(c) * Budget[d] \in Nat
  BY <1>1, <1>3, Sizes
<1>6. Have(KeyOf[c], d)' + Left(c) * Budget[d] >= Token
  BY <1>4, <1>5, Sizes DEF Kept
<1>7. QED
  BY <1>2, <1>3, <1>6 DEF Kept

LEMMA PromiseUntouched ==
  ASSUME LimitTypeOK, NEW c \in Caller, Kept(c), now' = now, calling'[c] = calling[c],
         \A k : \A d \in Direction : Have(k, d)' = Have(k, d)
  PROVE  Kept(c)'
<1> PICK d : d = calling[c].direction
  OBVIOUS
<1>1. d \in Direction
  BY DEF LimitTypeOK, Calling
<1>2. \A k : \A e \in Direction : Have(k, e)' \in Nat
  BY HaveType
<1>3. Have(KeyOf[c], calling[c].direction)' = Have(KeyOf[c], d)'
  BY DEF Have
<1>4. Have(KeyOf[c], d)' = Have(KeyOf[c], d) /\ Have(KeyOf[c], d) \in Nat
  BY <1>1, HaveType
<1>5. QED
  BY <1>2, <1>3, <1>4, PromiseHolds

-----------------------------------------------------------------------------
(* The steps *)

LEMMA Untouched ==
  ASSUME LimitInv, UNCHANGED <<now, buckets, admitted>>
  PROVE  Accounts' /\ BudgetHeld' /\ \A k : \A d \in Direction : Have(k, d)' = Have(k, d)
<1>1. \A k : \A d \in Direction : Have(k, d)' = Have(k, d)
  BY SameHave
<1>2. \A k : \A d \in Direction : Have(k, d)' \in Nat /\ Have(k, d)' <= Have(k, d) + (now' - now) * Budget[d]
  <2>1. \A d \in Direction : (now' - now) * Budget[d] = 0
    BY Sizes DEF LimitInv, LimitTypeOK
  <2>2. QED
    BY <1>1, <2>1, HaveType DEF LimitInv
<1>3. QED
  BY <1>1, <1>2, AccountsHold

LEMMA TickStep ==
  ASSUME LimitInv, Tick
  PROVE  LimitInv'
<1> USE DEF Tick
<1>1. LimitTypeOK /\ now \in Nat /\ now' = now + 1
  BY DEF LimitInv, LimitTypeOK
<1>2. LimitTypeOK'
  BY <1>1 DEF LimitTypeOK, Known, AnyBucket
<1>3. \A k : \A d \in Direction : Have(k, d)' = Least(Ceiling(d), Have(k, d) + Budget[d])
  BY <1>1, TickRefills
<1>4. \A k : \A d \in Direction : Have(k, d)' \in Nat /\ Have(k, d)' <= Have(k, d) + (now' - now) * Budget[d]
  <2>1. ASSUME NEW k, NEW d \in Direction
        PROVE  Have(k, d)' \in Nat /\ Have(k, d)' <= Have(k, d) + (now' - now) * Budget[d]
    <3>1. Have(k, d) \in Nat /\ Have(k, d)' = Least(Ceiling(d), Have(k, d) + Budget[d])
      BY <1>1, <1>3, HaveType
    <3>2. (now' - now) * Budget[d] = Budget[d]
      BY <1>1, Sizes
    <3>3. QED
      BY <3>1, <3>2, Sizes DEF Least
  <2>2. QED
    BY <2>1
<1>5. Accounts' /\ BudgetHeld'
  BY <1>1, <1>4, AccountsHold
<1>6. ASSUME NEW c \in promised PROVE Kept(c)'
  <2> PICK d : d = calling[c].direction
    OBVIOUS
  <2>1. c \in Caller /\ d \in Direction /\ calling'[c] = calling[c] /\ Kept(c) /\ calling[c].until \in Nat
    BY <1>1 DEF LimitInv, LimitTypeOK, Calling
  <2>2. /\ Have(KeyOf[c], d)' = Least(Ceiling(d), Have(KeyOf[c], d) + Budget[d])
        /\ Have(KeyOf[c], d) \in Nat
        /\ Have(KeyOf[c], d)' \in Nat
    BY <1>1, <1>3, <1>4, <2>1, HaveType
  <2>3. Left(c) \in Nat /\ Left(c)' = IF Left(c) = 0 THEN 0 ELSE Left(c) - 1
    BY <1>1, <2>1 DEF Left
  <2>4. Left(c)' \in Nat /\ Left(c) * Budget[d] <= Left(c)' * Budget[d] + Budget[d]
    <3>1. CASE Left(c) = 0
      BY <2>1, <2>3, <3>1, Sizes
    <3>2. CASE Left(c) # 0
      <4>1. Left(c)' \in Nat /\ Left(c) = Left(c)' + 1
        BY <2>3, <3>2
      <4>2. (Left(c)' + 1) * Budget[d] = Left(c)' * Budget[d] + Budget[d]
        BY <2>1, <4>1, Sizes, OneMore
      <4>3. Left(c)' * Budget[d] \in Nat
        BY <2>1, <4>1, Sizes
      <4>4. QED
        BY <2>1, <4>1, <4>2, <4>3, Sizes
    <3>3. QED
      BY <3>1, <3>2
  <2>5. Left(c) * Budget[d] \in Nat /\ Left(c)' * Budget[d] \in Nat
    BY <2>1, <2>3, <2>4, Sizes
  <2>6. Have(KeyOf[c], d) + Left(c) * Budget[d] >= Token /\ Token <= Ceiling(d)
    BY <2>1, Sizes DEF Kept
  <2>7. Have(KeyOf[c], d)' + Left(c)' * Budget[d] >= Token
    <3>1. CASE Left(c) = 0
      BY <2>1, <2>2, <2>3, <2>5, <2>6, <3>1, Sizes DEF Least
    <3>2. CASE Left(c) # 0
      BY <2>1, <2>2, <2>4, <2>5, <2>6, <3>2, Sizes DEF Least
    <3>3. QED
      BY <3>1, <3>2
  <2>8. QED
    BY <2>1, <2>7 DEF Kept
<1>7. QED
  BY <1>2, <1>5, <1>6 DEF LimitInv

\* A restarted server starts with full buckets.
LEMMA RestartStep ==
  ASSUME LimitInv, ServerRestart
  PROVE  LimitInv'
<1> USE DEF ServerRestart
<1>1. LimitTypeOK /\ DOMAIN <<>> = {}
  BY DEF LimitInv
<1>2. LimitTypeOK'
  BY <1>1 DEF LimitTypeOK, Known
<1>3. Accounts' /\ BudgetHeld'
  BY DEF Accounts, BudgetHeld
<1>4. ASSUME NEW k, NEW d \in Direction PROVE Have(k, d)' = Ceiling(d)
  BY <1>1 DEF Have, Known, Ceiling
<1>5. ASSUME NEW k, NEW d \in Direction PROVE Have(k, d)' \in Nat /\ Have(k, d)' >= Have(k, d)
  BY <1>1, <1>4, HaveType, Sizes
<1>6. ASSUME NEW c \in promised PROVE Kept(c)'
  <2> PICK d : d = calling[c].direction
    OBVIOUS
  <2>1. c \in Caller /\ d \in Direction /\ Kept(c)
    BY <1>1 DEF LimitInv, LimitTypeOK, Calling
  <2>2. Have(KeyOf[c], calling[c].direction)' = Have(KeyOf[c], d)'
    BY DEF Have
  <2>3. Have(KeyOf[c], d)' >= Have(KeyOf[c], d)
    BY <1>5, <2>1
  <2>4. QED
    BY <1>1, <1>5, <2>1, <2>2, <2>3, PromiseHolds
<1>7. QED
  BY <1>2, <1>3, <1>6 DEF LimitInv

LEMMA AskStep ==
  ASSUME LimitInv, NEW c \in Caller, Ask(c)
  PROVE  LimitInv'
<1> USE DEF Ask
<1>1. LimitTypeOK
  BY DEF LimitInv
<1>2. LimitTypeOK'
  BY <1>1 DEF LimitTypeOK, Known, Calling
<1>3. Accounts' /\ BudgetHeld' /\ \A k : \A d \in Direction : Have(k, d)' = Have(k, d)
  BY Untouched
<1>4. ASSUME NEW p \in promised PROVE Kept(p)'
  <2>1. Kept(p) /\ p \in Caller
    BY DEF LimitInv, LimitTypeOK
  <2>2. p # c
    BY <2>1 DEF Kept, NoRequest
  <2>3. calling'[p] = calling[p] /\ now' = now
    BY <1>1, <2>1, <2>2 DEF LimitTypeOK
  <2>4. QED
    BY <1>1, <1>3, <2>1, <2>3, PromiseUntouched
<1>5. QED
  BY <1>2, <1>3, <1>4 DEF LimitInv

LEMMA UnlimitedStep ==
  ASSUME LimitInv, NEW c \in Caller, AllowUnlimited(c)
  PROVE  LimitInv'
<1> USE DEF AllowUnlimited, Turn, Ended
<1>1. LimitTypeOK
  BY DEF LimitInv
<1>2. LimitTypeOK'
  BY <1>1 DEF LimitTypeOK, Known, Calling, NoRequest, Direction
<1>3. Accounts' /\ BudgetHeld' /\ \A k : \A d \in Direction : Have(k, d)' = Have(k, d)
  BY Untouched
<1>4. ASSUME NEW p \in promised PROVE Kept(p)'
  <2>1. Kept(p) /\ p \in Caller
    BY DEF LimitInv, LimitTypeOK
  <2>2. p # c
    BY <2>1 DEF Kept
  <2>3. calling'[p] = calling[p] /\ now' = now
    BY <1>1, <2>1, <2>2 DEF LimitTypeOK
  <2>4. QED
    BY <1>1, <1>3, <2>1, <2>3, PromiseUntouched
<1>5. QED
  BY <1>2, <1>3, <1>4 DEF LimitInv

LEMMA RetryStep ==
  ASSUME LimitInv, NEW c \in Caller, Retry(c)
  PROVE  LimitInv'
<1> USE DEF Retry
<1>1. LimitTypeOK
  BY DEF LimitInv
<1>2. LimitTypeOK'
  BY <1>1 DEF LimitTypeOK, Known, Calling
<1>3. Accounts' /\ BudgetHeld' /\ \A k : \A d \in Direction : Have(k, d)' = Have(k, d)
  BY Untouched
<1>4. ASSUME NEW p \in promised PROVE Kept(p)'
  <2>1. Kept(p) /\ p \in Caller
    BY DEF LimitInv, LimitTypeOK
  <2>2. CASE p # c
    <3>1. calling'[p] = calling[p] /\ now' = now
      BY <1>1, <2>1, <2>2 DEF LimitTypeOK
    <3>2. QED
      BY <1>1, <1>3, <2>1, <3>1, PromiseUntouched
  <2>3. CASE p = c
    <3> PICK d : d = calling[c].direction
      OBVIOUS
    <3>1. d \in Direction /\ calling'[c].direction = d /\ calling'[c].pc = "sending"
      BY <1>1 DEF LimitTypeOK, Calling
    <3>2. Left(c) = 0 /\ Left(c)' = 0
      BY <1>1, <3>1 DEF Left, LimitTypeOK, Calling
    <3>3. Have(KeyOf[c], d)' = Have(KeyOf[c], d)
      BY <1>3, <3>1
    <3>4. QED
      BY <2>1, <2>3, <3>1, <3>2, <3>3 DEF Kept
  <2>4. QED
    BY <2>2, <2>3
<1>5. QED
  BY <1>2, <1>3, <1>4 DEF LimitInv

LEMMA AbandonStep ==
  ASSUME LimitInv, NEW c \in Caller, Abandon(c)
  PROVE  LimitInv'
<1> USE DEF Abandon, Ended
<1>1. LimitTypeOK
  BY DEF LimitInv
<1>2. LimitTypeOK'
  BY <1>1 DEF LimitTypeOK, Known, Calling, NoRequest, Direction
<1>3. Accounts' /\ BudgetHeld' /\ \A k : \A d \in Direction : Have(k, d)' = Have(k, d)
  BY Untouched
<1>4. ASSUME NEW p \in promised' PROVE Kept(p)'
  <2>1. Kept(p) /\ p \in Caller /\ p # c
    BY DEF LimitInv, LimitTypeOK
  <2>2. calling'[p] = calling[p] /\ now' = now
    BY <1>1, <2>1 DEF LimitTypeOK
  <2>3. QED
    BY <1>1, <1>3, <2>1, <2>2, PromiseUntouched
<1>5. QED
  BY <1>2, <1>3, <1>4 DEF LimitInv

LEMMA AllowStep ==
  ASSUME LimitInv, NEW c \in Caller, Allow(c)
  PROVE  LimitInv'
<1> PICK d : d = calling[c].direction
  OBVIOUS
<1> PICK t : t = [e \in Direction |-> IF e = d THEN Have(KeyOf[c], e) - Token ELSE Have(KeyOf[c], e)]
  OBVIOUS
<1>1. LimitTypeOK /\ d \in Direction /\ now' = now
  BY DEF LimitInv, LimitTypeOK, Calling, Allow
<1>2. Budget[d] > 0 /\ Have(KeyOf[c], d) >= Token
  BY <1>1, CheckedHas DEF Allow, HasToken
<1>3. t \in [Direction -> Nat] /\ \A e \in Direction : t[e] <= Ceiling(e)
  BY <1>1, <1>2, HaveType, Sizes
<1>4. [Checked(c) EXCEPT !.tokens[d] = @ - Token] = [tokens |-> t, last |-> now]
  <2>1. Checked(c) = [tokens |-> [e \in Direction |-> Have(KeyOf[c], e)], last |-> now]
    BY <1>1, CheckedHas
  <2>2. [Checked(c) EXCEPT !.tokens[d] = @ - Token]
          = [tokens |-> [[e \in Direction |-> Have(KeyOf[c], e)] EXCEPT ![d] = @ - Token], last |-> now]
    BY <2>1
  <2>3. [[e \in Direction |-> Have(KeyOf[c], e)] EXCEPT ![d] = @ - Token] = t
    BY <1>1
  <2>4. QED
    BY <2>2, <2>3
<1>5. SetBucket(c, [tokens |-> t, last |-> now])
  BY <1>4 DEF Allow
<1>6. /\ \A k \in DOMAIN buckets' : buckets'[k] \in AnyBucket /\ buckets'[k].last <= now
      /\ \A k : \A e \in Direction : Have(k, e)' = IF k = KeyOf[c] THEN t[e] ELSE Have(k, e)
  BY <1>1, <1>3, <1>5, BucketSet
<1>7. \A k : \A e \in Direction : Have(k, e)' = IF k = KeyOf[c] /\ e = d THEN Have(k, e) - Token ELSE Have(k, e)
  BY <1>6
<1>8. admitted' = Append(admitted, [key |-> KeyOf[c], direction |-> d, at |-> now])
  BY DEF Allow
<1>9. Accounts' /\ BudgetHeld'
  BY <1>1, <1>2, <1>7, <1>8, AccountsGrow
<1>10. LimitTypeOK'
  <2>1. [key |-> KeyOf[c], direction |-> d, at |-> now] \in Passage
    BY <1>1 DEF Passage, LimitTypeOK
  <2>2. admitted' \in Seq(Passage)
    BY <1>1, <1>8, <2>1 DEF LimitTypeOK
  <2>3. NoRequest \in Calling
    BY DEF NoRequest, Calling, Direction
  <2>4. calling' \in [Caller -> Calling] /\ promised' \subseteq Caller
    BY <1>1, <2>3 DEF Allow, Ended, LimitTypeOK
  <2>5. QED
    BY <1>1, <1>6, <2>2, <2>4 DEF LimitTypeOK, Known
<1>11. ASSUME NEW p \in promised' PROVE Kept(p)'
  <2>1. Kept(p) /\ p \in Caller /\ p # c /\ p \notin Rivals(c)
    BY DEF LimitInv, LimitTypeOK, Allow
  <2>2. calling'[p] = calling[p]
    BY <1>1, <2>1 DEF LimitTypeOK, Allow, Ended
  <2> PICK e : e = calling[p].direction
    OBVIOUS
  <2>3. e \in Direction /\ ~(KeyOf[p] = KeyOf[c] /\ e = d)
    BY <1>1, <2>1 DEF Rivals, LimitTypeOK, Calling
  <2>4. Have(KeyOf[p], e)' = Have(KeyOf[p], e) /\ Have(KeyOf[p], e) \in Nat
    BY <1>1, <1>7, <2>3, HaveType
  <2>5. Have(KeyOf[p], calling[p].direction)' = Have(KeyOf[p], e)'
    BY <2>2 DEF Have
  <2>6. \A k : \A f \in Direction : Have(k, f)' \in Nat
    BY <1>1, <1>3, <1>6, HaveType
  <2>7. QED
    BY <1>1, <2>1, <2>2, <2>4, <2>5, <2>6, PromiseHolds
<1>12. QED
  BY <1>9, <1>10, <1>11 DEF LimitInv

\* A refusal refills the bucket for both directions, and its answer is a promise.
LEMMA RefuseStep ==
  ASSUME LimitInv, NEW c \in Caller, Refuse(c)
  PROVE  LimitInv'
<1> PICK d : d = calling[c].direction
  OBVIOUS
<1> DEFINE wait == Waits(Checked(c), d)
<1>1. LimitTypeOK /\ d \in Direction /\ now' = now /\ now \in Nat /\ Budget[d] > 0 /\ admitted' = admitted
  BY DEF LimitInv, LimitTypeOK, Calling, Refuse
<1>2. /\ Checked(c) = [tokens |-> [e \in Direction |-> Have(KeyOf[c], e)], last |-> now]
      /\ [e \in Direction |-> Have(KeyOf[c], e)] \in [Direction -> Nat]
      /\ \A e \in Direction : [f \in Direction |-> Have(KeyOf[c], f)][e] <= Ceiling(e)
  BY <1>1, CheckedHas, HaveType
<1>3. /\ \A k \in DOMAIN buckets' : buckets'[k] \in AnyBucket /\ buckets'[k].last <= now
      /\ \A k : \A e \in Direction : Have(k, e)' = Have(k, e)
  <2>1. SetBucket(c, [tokens |-> [e \in Direction |-> Have(KeyOf[c], e)], last |-> now])
    BY <1>2 DEF Refuse
  <2>2. QED
    BY <1>1, <1>2, <2>1, BucketSet
<1>4. Accounts' /\ BudgetHeld'
  <2>1. \A k : \A e \in Direction : Have(k, e)' \in Nat /\ Have(k, e)' <= Have(k, e) + (now' - now) * Budget[e]
    <3>1. \A e \in Direction : (now' - now) * Budget[e] = 0
      BY <1>1, Sizes
    <3>2. QED
      BY <1>1, <1>3, <3>1, HaveType
  <2>2. QED
    BY <1>1, <2>1, AccountsHold
<1>5. wait \in Nat /\ Have(KeyOf[c], d) + wait * Budget[d] >= Token
  <2>1. Checked(c).tokens[d] = Have(KeyOf[c], d) /\ Have(KeyOf[c], d) \in Nat
    BY <1>1, CheckedHas, HaveType
  <2>2. Have(KeyOf[c], d) < Token
    BY <2>1, Sizes DEF Refuse, HasToken
  <2>3. QED
    BY <1>1, <2>1, <2>2, WaitIsEnough
<1> HIDE DEF wait
<1>6. \/ /\ calling' = [calling EXCEPT ![c].pc = "waiting", ![c].until = now + wait]
         /\ promised' = promised \cup {c}
      \/ calling' = [calling EXCEPT ![c] = NoRequest] /\ promised' = promised \ {c}
  BY DEF Refuse, Ended, wait
<1>7. LimitTypeOK'
  <2>1. calling' \in [Caller -> Calling]
    <3>1. NoRequest \in Calling
      BY DEF NoRequest, Calling, Direction
    <3>2. now + wait \in Nat /\ calling \in [Caller -> Calling]
      BY <1>1, <1>5 DEF LimitTypeOK
    <3>3. QED
      BY <1>6, <3>1, <3>2 DEF Calling
  <2>2. promised' \subseteq Caller
    BY <1>1, <1>6 DEF LimitTypeOK
  <2>3. QED
    BY <1>1, <1>3, <2>1, <2>2 DEF LimitTypeOK, Known
<1>8. ASSUME NEW p \in promised' PROVE Kept(p)'
  <2>1. CASE p # c
    <3>1. Kept(p) /\ p \in Caller
      BY <1>6, <2>1 DEF LimitInv, LimitTypeOK
    <3>2. calling'[p] = calling[p]
      BY <1>1, <1>6, <2>1, <3>1 DEF LimitTypeOK
    <3>3. QED
      BY <1>1, <1>3, <3>1, <3>2, PromiseUntouched
  <2>2. CASE p = c
    <3>1. calling' = [calling EXCEPT ![c].pc = "waiting", ![c].until = now + wait]
      BY <1>6, <2>2
    <3>2. /\ calling'[c].pc = "waiting" /\ calling'[c].until = now + wait
          /\ calling'[c].direction = d
      BY <1>1, <3>1 DEF LimitTypeOK, Calling
    <3>3. Left(c)' = wait
      BY <1>1, <1>5, <3>2 DEF Left
    <3>4. Have(KeyOf[c], d)' = Have(KeyOf[c], d)
      BY <1>1, <1>3
    <3>5. QED
      BY <1>1, <1>5, <2>2, <3>2, <3>3, <3>4 DEF Kept
  <2>3. QED
    BY <2>1, <2>2
<1>9. QED
  BY <1>4, <1>7, <1>8 DEF LimitInv

LEMMA LimitInvInductive ==
  ASSUME LimitInv, [LimitNext]_limitVars
  PROVE  LimitInv'
<1>1. CASE UNCHANGED limitVars
  <2> USE <1>1 DEF limitVars
  <2>1. LimitTypeOK /\ LimitTypeOK'
    BY DEF LimitInv, LimitTypeOK, Known
  <2>2. Accounts' /\ BudgetHeld' /\ \A k : \A d \in Direction : Have(k, d)' = Have(k, d)
    BY Untouched
  <2>3. ASSUME NEW p \in promised PROVE Kept(p)'
    <3>1. Kept(p) /\ p \in Caller
      BY DEF LimitInv, LimitTypeOK
    <3>2. QED
      BY <2>1, <2>2, <3>1, PromiseUntouched
  <2>4. QED
    BY <2>1, <2>2, <2>3 DEF LimitInv
<1>2. CASE Tick
  BY <1>2, TickStep
<1>3. CASE ServerRestart
  BY <1>3, RestartStep
<1>4. ASSUME NEW c \in Caller, Ask(c) \/ AllowUnlimited(c) \/ Allow(c) \/ Refuse(c) \/ Retry(c) \/ Abandon(c)
      PROVE  LimitInv'
  BY <1>4, AskStep, UnlimitedStep, AllowStep, RefuseStep, RetryStep, AbandonStep
<1>5. QED
  BY <1>1, <1>2, <1>3, <1>4 DEF LimitNext

LEMMA LimitInvInitially ==
  ASSUME LimitInit
  PROVE  LimitInv
<1> USE DEF LimitInit
<1>1. NoRequest \in Calling
  BY DEF NoRequest, Calling, Direction
<1>2. LimitTypeOK
  BY <1>1 DEF LimitTypeOK, Known
<1>3. Accounts /\ BudgetHeld
  BY DEF Accounts, BudgetHeld
<1>4. QED
  BY <1>2, <1>3 DEF LimitInv

-----------------------------------------------------------------------------
(* The theorems *)

LEMMA LimitInvAlways == LimitSpec => []LimitInv
  BY LimitInvInitially, LimitInvInductive, PTL DEF LimitSpec

\* The limiter's state is of its type: what a bucket holds is a natural number
\* and it was never used after now (api/middleware.go, tokenBucket).
THEOREM LimitTypeCorrect == LimitSpec => []LimitTypeOK
<1>1. LimitInv => LimitTypeOK
  BY DEF LimitInv
<1>2. QED
  BY <1>1, LimitInvAlways, PTL

\* Over any stretch of time no key gets through more than its budget and what the
\* budget refills in it, for any budgets, any number of processes of a key, and
\* with buckets evicted at any number of them (api/middleware.go, allow and
\* evictLocked).
THEOREM BudgetAlwaysHeld == LimitSpec => []BudgetHeld
<1>1. LimitInv => BudgetHeld
  BY DEF LimitInv
<1>2. QED
  BY <1>1, LimitInvAlways, PTL

\* A client that waited as it was told and whose rivals got nothing is not
\* refused again, whatever its budget and however long a minute is
\* (api/middleware.go, allow; client/client.go, retryAfter).
THEOREM WaitsAreHonoured == LimitSpec => HonouredRetrySucceeds
<1>1. ASSUME LimitInv, NEW c \in promised, calling[c].pc = "sending"
      PROVE  ~Refuse(c)
  <2> PICK d : d = calling[c].direction
    OBVIOUS
  <2>1. LimitTypeOK /\ c \in Caller /\ d \in Direction /\ Kept(c)
    BY <1>1 DEF LimitInv, LimitTypeOK, Calling
  <2>2. Left(c) = 0 /\ Left(c) * Budget[d] = 0
    BY <1>1, <2>1, Sizes DEF Left
  <2>3. Have(KeyOf[c], d) \in Nat /\ Checked(c).tokens[d] = Have(KeyOf[c], d)
    BY <2>1, CheckedHas, HaveType
  <2>4. HasToken(c)
    BY <2>1, <2>2, <2>3, Sizes DEF HasToken, Kept
  <2>5. QED
    BY <2>4 DEF Refuse
<1>2. LimitInv /\ [LimitNext]_limitVars
        => [\A c \in promised : ~(calling[c].pc = "sending" /\ Refuse(c))]_limitVars
  BY <1>1
<1>3. QED
  BY <1>2, LimitInvAlways, PTL DEF LimitSpec, HonouredRetrySucceeds

-----------------------------------------------------------------------------
(***************************************************************************)
(* Prompt: any provider, number of attempts and Retry-After                *)
(***************************************************************************)

(* One completion and its attempts *)

\* What an attempt may fail with, and the wait that the i-th failure calls for.
Trouble == Failures(provider)
Rest(i, e) == Max({Backoff(i), e.after})
Rests == {Rest(i, e) : i \in Nat, e \in Trouble} \cup {0}

CompletionTypeOK ==
  /\ call \in [pc : {"none", "sending", "waiting", "answered", "failed"}, attempt : Nat,
               error : Trouble \cup {NoError, [kind |-> "cancelled", after |-> 0]},
               wait : Rests, text : Texts(provider) \cup {<<>>}]
  /\ trail \in [errors : Seq(Trouble), waits : Seq(Rests)]

\* Where a completion stands: a wait of its own was made for every failure but
\* the last, which is being waited for, was waited for, or was the end of it.
Rested == \A i \in 1 .. Len(trail.waits) :
            i <= Len(trail.errors) /\ trail.waits[i] = Rest(i, trail.errors[i])
MayClear(n) == \A i \in 1 .. n : ~Final(trail.errors[i])
Underway ==
  /\ Rested
  /\ call.pc = "sending" =>
       /\ call.attempt = Len(trail.errors) + 1 /\ call.attempt <= MaxAttempts
       /\ Len(trail.waits) = Len(trail.errors) /\ MayClear(Len(trail.errors))
  /\ call.pc = "waiting" =>
       /\ call.attempt = Len(trail.errors) + 1 /\ call.attempt <= MaxAttempts
       /\ Len(trail.waits) + 1 = Len(trail.errors) /\ MayClear(Len(trail.errors))
       /\ call.wait = Rest(Len(trail.errors), trail.errors[Len(trail.errors)])
  /\ call.pc = "answered" => MayClear(Len(trail.errors))
  /\ call.pc = "failed" => MayClear(Len(trail.errors) - 1)
  /\ call.pc = "failed" /\ call.error.kind # "cancelled" =>
       /\ Len(trail.errors) = MaxAttempts \/ Final(trail.errors[Len(trail.errors)])
       /\ Len(trail.waits) + 1 = Len(trail.errors)
  /\ call.pc = "none" => trail.errors = <<>> /\ trail.waits = <<>>

CompletionInv == CompletionTypeOK /\ Underway

LEMMA NoneIsRest == 0 \in Rests
BY DEF Rests

LEMMA BeginsWell ==
  ASSUME call' = BeginCall, trail' = Fresh, UNCHANGED provider
  PROVE  CompletionInv'
<1>1. CompletionTypeOK'
  <2>1. (0 \in Rests)'
    BY DEF Rests
  <2>2. call' = [pc |-> "sending", attempt |-> 1, error |-> NoError, wait |-> 0, text |-> <<>>]
    BY DEF BeginCall, NoCall
  <2>3. (trail \in [errors : Seq(Trouble), waits : Seq(Rests)])'
    BY DEF Fresh
  <2> QED BY <2>1, <2>2, <2>3 DEF CompletionTypeOK
<1>2. Underway'
  BY PromptAssumption DEF Underway, Rested, MayClear, BeginCall, NoCall, NoError, Fresh
<1> QED BY <1>1, <1>2 DEF CompletionInv

LEMMA AttemptFailsStep ==
  ASSUME CompletionInv, AttemptFails
  PROVE  CompletionInv'
<1>1. PICK e \in Trouble :
        /\ call.pc = "sending" /\ provider' = provider
        /\ trail' = [trail EXCEPT !.errors = Append(@, e)]
        /\ call' = IF Final(e) \/ call.attempt = MaxAttempts
                   THEN [call EXCEPT !.pc = "failed", !.error = e]
                   ELSE [call EXCEPT !.pc = "waiting", !.error = e, !.attempt = @ + 1,
                                     !.wait = WaitBefore(call.attempt + 1, e)]
  BY DEF AttemptFails, Trouble
<1>2. /\ trail'.waits = trail.waits /\ trail'.errors = Append(trail.errors, e)
      /\ trail.errors \in Seq(Trouble) /\ trail.waits \in Seq(Rests)
      /\ call.attempt \in Nat /\ trail' = [errors |-> trail'.errors, waits |-> trail'.waits]
  BY <1>1 DEF CompletionInv, CompletionTypeOK
<1> DEFINE n == Len(trail.errors)
<1>3. /\ n \in Nat /\ Len(trail'.errors) = n + 1 /\ trail'.errors[n + 1] = e
      /\ \A i \in 1 .. n : trail'.errors[i] = trail.errors[i]
      /\ trail'.errors \in Seq(Trouble)
  BY <1>2
<1>4. /\ call.attempt = n + 1 /\ n + 1 <= MaxAttempts /\ Len(trail.waits) = n
      /\ \A i \in 1 .. n : ~Final(trail.errors[i])
      /\ \A i \in 1 .. n : trail.waits[i] = Rest(i, trail.errors[i])
  BY <1>1, <1>2 DEF CompletionInv, Underway, MayClear, Rested
<1>5. /\ Trouble' = Trouble /\ Rests' = Rests /\ Texts(provider)' = Texts(provider)
  BY <1>1 DEF Trouble, Rests
<1>6. WaitBefore(call.attempt + 1, e) = Rest(n + 1, e) /\ Rest(n + 1, e) \in Rests
  <2>1. (call.attempt + 1) - 1 = n + 1 /\ n + 1 \in Nat
    BY <1>2, <1>3, <1>4
  <2>2. WaitBefore(call.attempt + 1, e) = Rest(n + 1, e)
    BY <2>1 DEF WaitBefore, Rest
  <2>3. Rest(n + 1, e) \in Rests
    BY <2>1 DEF Rests
  <2> QED BY <2>2, <2>3
<1>7. Rested'
  <2>1. Len(trail'.waits) = n
    BY <1>2, <1>4
  <2>2. ASSUME NEW i \in 1 .. n PROVE trail'.waits[i] = Rest(i, trail'.errors[i])
    BY <1>2, <1>3, <1>4, <2>2
  <2>3. \A i \in 1 .. n : i <= Len(trail'.errors)
    BY <1>3
  <2> QED BY <2>1, <2>2, <2>3 DEF Rested
<1>8. CASE Final(e) \/ call.attempt = MaxAttempts
  <2>1. call' = [call EXCEPT !.pc = "failed", !.error = e]
    BY <1>1, <1>8
  <2>2. CompletionTypeOK'
    <3>1. /\ call'.attempt = call.attempt /\ call'.wait = call.wait /\ call'.text = call.text
          /\ call' = [pc |-> "failed", attempt |-> call'.attempt, error |-> e,
                      wait |-> call'.wait, text |-> call'.text]
      BY <2>1 DEF CompletionInv, CompletionTypeOK
    <3>2. /\ trail' \in [errors : Seq(Trouble), waits : Seq(Rests)] /\ e \in Trouble
          /\ call'.attempt \in Nat /\ call'.wait \in Rests /\ call'.text \in Texts(provider) \cup {<<>>}
      BY <1>1, <1>2, <1>3, <3>1 DEF CompletionInv, CompletionTypeOK
    <3> QED BY <3>1, <3>2, <1>5 DEF CompletionTypeOK
  <2>3. call'.pc = "failed" /\ call'.error = e
    BY <2>1 DEF CompletionInv, CompletionTypeOK
  <2>4. Underway'
    BY <2>3, <1>2, <1>3, <1>4, <1>7, <1>8 DEF Underway, MayClear
  <2> QED BY <2>2, <2>4 DEF CompletionInv
<1>9. CASE ~(Final(e) \/ call.attempt = MaxAttempts)
  <2>1. call' = [call EXCEPT !.pc = "waiting", !.error = e, !.attempt = call.attempt + 1,
                            !.wait = Rest(n + 1, e)]
    BY <1>1, <1>6, <1>9
  <2>2. CompletionTypeOK'
    <3>1. /\ call'.text = call.text
          /\ call' = [pc |-> "waiting", attempt |-> call.attempt + 1, error |-> e,
                      wait |-> Rest(n + 1, e), text |-> call'.text]
      BY <2>1 DEF CompletionInv, CompletionTypeOK
    <3>2. e \in Trouble /\ trail'.errors \in Seq(Trouble) /\ trail'.waits \in Seq(Rests)
      BY <1>1, <1>2, <1>3
    <3>3. call.attempt + 1 \in Nat
      BY <1>2
    <3>4. call' \in [pc : {"none", "sending", "waiting", "answered", "failed"}, attempt : Nat,
                     error : Trouble \cup {NoError, [kind |-> "cancelled", after |-> 0]},
                     wait : Rests, text : Texts(provider) \cup {<<>>}]
      BY <3>1, <3>2, <3>3, <1>6 DEF CompletionInv, CompletionTypeOK
    <3> QED BY <3>2, <3>4, <1>2, <1>5 DEF CompletionTypeOK
  <2>3. call'.pc = "waiting" /\ call'.attempt = n + 2 /\ call'.wait = Rest(n + 1, e)
    BY <2>1, <1>3, <1>4 DEF CompletionInv, CompletionTypeOK
  <2>4. n + 2 <= MaxAttempts /\ MaxAttempts \in Nat
    BY <1>3, <1>4, <1>9, PromptAssumption
  <2>5. Underway'
    BY <2>3, <2>4, <1>2, <1>3, <1>4, <1>7, <1>9 DEF Underway, MayClear, Rest
  <2> QED BY <2>2, <2>5 DEF CompletionInv
<1> QED BY <1>8, <1>9

LEMMA WaitOverStep ==
  ASSUME CompletionInv, WaitOver
  PROVE  CompletionInv'
<1>1. /\ call.pc = "waiting" /\ provider' = provider
      /\ trail' = [trail EXCEPT !.waits = Append(@, call.wait)]
      /\ call' = [call EXCEPT !.pc = "sending", !.wait = 0]
  BY DEF WaitOver
<1> DEFINE n == Len(trail.errors)
<1>2. /\ trail'.errors = trail.errors /\ trail'.waits = Append(trail.waits, call.wait)
      /\ trail.errors \in Seq(Trouble) /\ trail.waits \in Seq(Rests) /\ call.wait \in Rests
      /\ trail' = [errors |-> trail'.errors, waits |-> trail'.waits] /\ 0 \in Rests
  BY <1>1, NoneIsRest DEF CompletionInv, CompletionTypeOK
<1>3. /\ n \in Nat /\ Len(trail.waits) \in Nat /\ Len(trail.waits) + 1 = n
      /\ call.attempt = n + 1 /\ n + 1 <= MaxAttempts /\ MayClear(n)
      /\ call.wait = Rest(n, trail.errors[n]) /\ Rested
  BY <1>1, <1>2 DEF CompletionInv, Underway
<1>4. /\ trail'.waits \in Seq(Rests) /\ Len(trail'.waits) = n /\ trail'.waits[n] = call.wait
      /\ \A i \in 1 .. n - 1 : trail'.waits[i] = trail.waits[i]
  BY <1>2, <1>3
<1>5. /\ Trouble' = Trouble /\ Rests' = Rests /\ Texts(provider)' = Texts(provider)
  BY <1>1 DEF Trouble, Rests
<1>6. CompletionTypeOK'
  BY <1>1, <1>2, <1>4, <1>5 DEF CompletionInv, CompletionTypeOK
<1>7. call'.pc = "sending" /\ call'.attempt = call.attempt
  BY <1>1 DEF CompletionInv, CompletionTypeOK
<1>8. Rested'
  <2>1. ASSUME NEW i \in 1 .. n
        PROVE  i <= Len(trail'.errors) /\ trail'.waits[i] = Rest(i, trail'.errors[i])
    <3>1. CASE i = n
      BY <3>1, <1>2, <1>3, <1>4
    <3>2. CASE i # n
      BY <3>2, <1>2, <1>3, <1>4 DEF Rested
    <3> QED BY <3>1, <3>2
  <2> QED BY <2>1, <1>4 DEF Rested
<1>9. Underway'
  BY <1>2, <1>3, <1>4, <1>7, <1>8 DEF Underway, MayClear
<1> QED BY <1>6, <1>9 DEF CompletionInv

LEMMA AttemptEndsStep ==
  ASSUME CompletionInv, AttemptAnswers \/ Cancelled
  PROVE  CompletionInv'
<1>1. UNCHANGED <<provider, trail>> /\ call.pc \in {"sending", "waiting"}
  BY DEF AttemptAnswers, Cancelled
<1>2. /\ Trouble' = Trouble /\ Rests' = Rests /\ Texts(provider)' = Texts(provider) /\ 0 \in Rests
  BY <1>1 DEF Trouble, Rests
<1>3. /\ call'.pc = "answered" \/ (call'.pc = "failed" /\ call'.error.kind = "cancelled")
      /\ CompletionTypeOK'
  <2>1. CASE AttemptAnswers
    <3>1. PICK reply \in Texts(provider) : call' = [call EXCEPT !.pc = "answered", !.text = reply]
      BY <2>1 DEF AttemptAnswers
    <3>2. /\ call'.attempt = call.attempt /\ call'.wait = call.wait /\ call'.error = call.error
          /\ call' = [pc |-> "answered", attempt |-> call'.attempt, error |-> call'.error,
                      wait |-> call'.wait, text |-> reply]
      BY <3>1 DEF CompletionInv, CompletionTypeOK
    <3>3. reply \in Texts(provider) /\ trail' = trail
      BY <1>1, <3>1
    <3>4. /\ call'.attempt \in Nat /\ call'.wait \in Rests
          /\ call'.error \in Trouble \cup {NoError, [kind |-> "cancelled", after |-> 0]}
          /\ trail' \in [errors : Seq(Trouble), waits : Seq(Rests)]
      BY <3>2, <3>3 DEF CompletionInv, CompletionTypeOK
    <3> QED BY <3>2, <3>3, <3>4, <1>2 DEF CompletionTypeOK
  <2>2. CASE Cancelled
    <3>1. call' = [call EXCEPT !.pc = "failed", !.error = [kind |-> "cancelled", after |-> 0], !.wait = 0]
      BY <2>2 DEF Cancelled
    <3> QED BY <3>1, <1>1, <1>2 DEF CompletionInv, CompletionTypeOK
  <2> QED BY <2>1, <2>2
<1>4. Len(trail.errors) \in Nat /\ Rested /\ MayClear(Len(trail.errors))
  BY <1>1 DEF CompletionInv, CompletionTypeOK, Underway
<1>5. Underway'
  BY <1>1, <1>3, <1>4 DEF Underway, Rested, MayClear
<1> QED BY <1>3, <1>5 DEF CompletionInv

LEMMA CompletionHolds == PromptSpec => []CompletionInv
<1>1. PromptInit => CompletionInv
  <2> SUFFICES ASSUME PromptInit PROVE CompletionInv
    OBVIOUS
  <2>0. trail = Fresh /\ call = NoCall
    BY DEF PromptInit
  <2>1. CompletionTypeOK
    <3>1. trail \in [errors : Seq(Trouble), waits : Seq(Rests)]
      BY <2>0 DEF Fresh
    <3> QED BY <2>0, <3>1, NoneIsRest DEF CompletionTypeOK, NoCall
  <2>2. Underway
    BY <2>0 DEF Underway, Rested, NoCall, Fresh
  <2> QED BY <2>1, <2>2 DEF CompletionInv
<1>2. CompletionInv /\ [PromptNext]_promptVars => CompletionInv'
  <2> SUFFICES ASSUME CompletionInv, [PromptNext]_promptVars PROVE CompletionInv'
    OBVIOUS
  <2>1. CASE HandlePrompt \/ Narrow
    BY <2>1, BeginsWell DEF HandlePrompt, Narrow
  <2>2. CASE AttemptFails
    BY <2>2, AttemptFailsStep
  <2>3. CASE WaitOver
    BY <2>3, WaitOverStep
  <2>4. CASE AttemptAnswers \/ Cancelled
    BY <2>4, AttemptEndsStep
  <2>5. CASE UNCHANGED <<call, trail, provider>>
    <3>1. Trouble' = Trouble /\ Rests' = Rests
      BY <2>5 DEF Trouble, Rests
    <3>2. CompletionTypeOK'
      BY <2>5, <3>1 DEF CompletionInv, CompletionTypeOK
    <3>3. Underway'
      BY <2>5 DEF CompletionInv, Underway, Rested, MayClear
    <3> QED BY <3>2, <3>3 DEF CompletionInv
  <2>6. \/ HandlePrompt \/ Narrow \/ AttemptFails \/ WaitOver \/ AttemptAnswers \/ Cancelled
        \/ UNCHANGED <<call, trail, provider>>
    BY DEF PromptNext, promptVars, HandleDisabled, HandlePreview, HandleContext, ClientLeft, Unavailable, Respond
  <2> QED BY <2>1, <2>2, <2>3, <2>4, <2>5, <2>6
<1> QED BY <1>1, <1>2, PTL DEF PromptSpec

\* A completion is tried as often as it may be and no more, after the wait that
\* each failure calls for, and never after an answer that cannot change
\* (consolidate/llm.go, completeWithRetry): whatever the provider does, however
\* many attempts there may be and whatever its Retry-After says.
THEOREM RetriesAreRight == PromptSpec => []RetriesRight
<1>1. CompletionInv => RetriesRight
  <2> SUFFICES ASSUME CompletionInv PROVE RetriesRight
    OBVIOUS
  <2> DEFINE n == Len(trail.errors)
  <2>1. n \in Nat /\ Len(trail.waits) \in Nat /\ MaxAttempts \in Nat
    BY PromptAssumption DEF CompletionInv, CompletionTypeOK
  <2>2. \A i \in 1 .. n - 1 : ~Final(trail.errors[i])
    BY <2>1 DEF CompletionInv, CompletionTypeOK, Underway, MayClear
  <2>3. \A i \in 1 .. Len(trail.waits) :
          i <= n /\ trail.waits[i] = Max({Backoff(i), trail.errors[i].after})
    BY DEF CompletionInv, Underway, Rested, Rest
  <2>4. call.pc = "failed" /\ call.error.kind # "cancelled" =>
          (n = MaxAttempts \/ Final(trail.errors[n])) /\ Len(trail.waits) = n - 1
    BY <2>1 DEF CompletionInv, Underway
  <2>5. \A i : Final(trail.errors[i]) <=> trail.errors[i].kind \in {"refused", "token budget"}
    BY DEF Final
  <2> QED BY <2>2, <2>3, <2>4, <2>5 DEF RetriesRight
<1> QED BY <1>1, CompletionHolds, PTL
=============================================================================
