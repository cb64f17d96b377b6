------------------------------- MODULE Graph -------------------------------
(***************************************************************************)
(* The knowledge graph of one project (internal/store/graph.go), derived    *)
(* from its memories and observations by a transaction of several           *)
(* statements, and the maintenance pass that rebuilds it before it deletes  *)
(* expired observations (internal/consolidate/worker.go, maintenance).  A   *)
(* statement sees what is committed when it starts, and the sources change  *)
(* between statements.  Files, memories and observations are numbered in    *)
(* the order of their labels and IDs.                                       *)
(***************************************************************************)
EXTENDS Naturals, FiniteSets

CONSTANTS
  File, Memory, Observation,
  Session,
  Names,   \* the files each memory names
  From,    \* the session each memory came from, or None
  Touched, \* the files each observation touched
  During,  \* the session of each observation
  Window,  \* coEditWindow
  NodeCap, \* graphNodeCap
  Worker,  \* the maintenance loops, one in each server
  Button,  \* the requests to rebuild
  MaxTrouble,
  None

Rebuilder == Worker \cup Button

ASSUME SourceAssumption ==
  /\ File \subseteq Nat /\ Memory \subseteq Nat /\ Observation \subseteq Nat
  /\ Names \in [Memory -> SUBSET File] /\ From \in [Memory -> Session \cup {None}]
  /\ Touched \in [Observation -> SUBSET File] /\ During \in [Observation -> Session]
ASSUME BoundAssumption == Window \in Nat \ {0} /\ NodeCap \in Nat /\ MaxTrouble \in Nat

VARIABLES
  memory,      \* each memory: "new", "live" or "deleted"
  observation, \* each observation: "new", "stored" or "purged"
  graph,       \* graph_nodes and graph_edges as committed
  work,        \* the tables as the open rebuild sees them
  proc,        \* each rebuilder: its next statement; history: the observations
               \* its pass found, and whether its rebuild failed
  changed,     \* history: a source changed since the last rebuild to commit began
  touched,     \* history: a source changed since the open rebuild began
  trouble

graphVars == <<memory, observation, graph, work, proc, changed, touched, trouble>>
sources == <<memory, observation>>

memories == {m \in Memory : memory[m] = "live"}
observations == {o \in Observation : observation[o] = "stored"}

-----------------------------------------------------------------------------
(* What the statements derive *)

Node(kind, label, weight) == [kind |-> kind, label |-> label, weight |-> weight]
Edge(rel, src, dst, weight) == [rel |-> rel, src |-> src, dst |-> dst, weight |-> weight]
HasNode(nodes, kind, label) == \E n \in nodes : n.kind = kind /\ n.label = label

\* ON CONFLICT DO NOTHING, on the unique keys of the two tables.
SameRow(x, y) == [x EXCEPT !.weight = 0] = [y EXCEPT !.weight = 0]
Insert(table, rows) == table \cup {x \in rows : \A y \in table : ~SameRow(x, y)}

Mentions(f) ==
  Cardinality({m \in memories : f \in Names[m]}) +
  Cardinality({o \in observations : f \in Touched[o]})

\* The NodeCap files of most mentions, ties by label.
FileNodes ==
  LET Mentioned == {f \in File : Mentions(f) > 0}
      Before(g, f) == Mentions(g) > Mentions(f) \/ (Mentions(g) = Mentions(f) /\ g < f)
  IN  {Node("file", f, Mentions(f)) :
         f \in {f \in Mentioned : Cardinality({g \in Mentioned : Before(g, f)}) < NodeCap}}

\* The weight of a memory is its strength, left out.
MemoryNodes ==
  {Node("memory", m, 1) : m \in {m \in memories : Names[m] # {} \/ From[m] # None}}

Touches(nodes) ==
  {Edge("touches", p[1], p[2], 1) : p \in
     {p \in memories \X File :
        p[2] \in Names[p[1]] /\ HasNode(nodes, "memory", p[1]) /\ HasNode(nodes, "file", p[2])}}

Pairs(nodes) ==
  {p \in File \X File :
     p[1] < p[2] /\ HasNode(nodes, "file", p[1]) /\ HasNode(nodes, "file", p[2])}

CoOccurs(nodes) ==
  LET Naming(p) == {m \in memories : {p[1], p[2]} \subseteq Names[m]}
  IN  {Edge("co_occurs", p[1], p[2], Cardinality(Naming(p))) :
         p \in {p \in Pairs(nodes) : Naming(p) # {}}}

SameSession(nodes) ==
  {Edge("same_session", p[1], p[2], 1) : p \in
     {p \in memories \X memories :
        /\ p[1] < p[2] /\ From[p[1]] = From[p[2]] /\ From[p[1]] # None
        /\ HasNode(nodes, "memory", p[1]) /\ HasNode(nodes, "memory", p[2])}}

\* The touches of a session in the order of observation ID and label, and how far
\* apart two of them are.
Touch(obs) == {v \in obs \X File : v[2] \in Touched[v[1]]}
Earlier(v, u) ==
  During[v[1]] = During[u[1]] /\ (v[1] < u[1] \/ (v[1] = u[1] /\ v[2] < u[2]))
Near(obs, v, u) ==
  /\ Earlier(v, u)
  /\ Cardinality({x \in Touch(obs) : Earlier(v, x) /\ Earlier(x, u)}) < Window
Together(obs, p) ==
  {tu \in Touch(obs) \X Touch(obs) :
     {tu[1][2], tu[2][2]} = {p[1], p[2]} /\ Near(obs, tu[1], tu[2])}

CoEdited(nodes) ==
  {Edge("co_edited", p[1], p[2], Cardinality(Together(observations, p))) :
     p \in {p \in Pairs(nodes) : Together(observations, p) # {}}}

-----------------------------------------------------------------------------
(* RebuildGraph *)

Empty == [nodes |-> {}, edges |-> {}]
At(r, pc) == proc[r].pc = pc
Goto(r, pc) == proc' = [proc EXCEPT ![r].pc = pc]
Statement == {"clear", "files", "memories", "touches", "co_occurs", "same_session",
              "co_edited", "commit"}
Holds(r) == proc[r].pc \in Statement

\* What comes after the rebuild: a pass of the worker purges, a request is answered.
Idle == [pc |-> "idle", found |-> {}, failed |-> FALSE]
AfterRebuild(r, fails) ==
  IF r \in Worker THEN proc' = [proc EXCEPT ![r].pc = "purge", ![r].failed = fails]
  ELSE proc' = [proc EXCEPT ![r] = Idle]

\* pg_advisory_xact_lock: one rebuild of a project at a time.
Lock(r) ==
  /\ At(r, "lock") /\ \A q \in Rebuilder : ~Holds(q)
  /\ Goto(r, "clear")
  /\ work' = graph /\ touched' = FALSE
  /\ UNCHANGED <<sources, graph, changed, trouble>>

\* BUG (a mutant of Clear): what is there is left.
ClearNothing(r) ==
  /\ At(r, "clear") /\ Goto(r, "files")
  /\ UNCHANGED <<sources, graph, work, changed, touched, trouble>>

\* Deleting the nodes deletes their edges.
Clear(r) ==
  /\ At(r, "clear") /\ Goto(r, "files")
  /\ work' = Empty
  /\ UNCHANGED <<sources, graph, changed, touched, trouble>>

InsertNodes(r, pc, next, rows) ==
  /\ At(r, pc) /\ Goto(r, next)
  /\ work' = [work EXCEPT !.nodes = Insert(@, rows)]
  /\ UNCHANGED <<sources, graph, changed, touched, trouble>>

InsertEdges(r, pc, next, rows) ==
  /\ At(r, pc) /\ Goto(r, next)
  /\ work' = [work EXCEPT !.edges = Insert(@, rows)]
  /\ UNCHANGED <<sources, graph, changed, touched, trouble>>

Derive(r) ==
  \/ InsertNodes(r, "files", "memories", FileNodes)
  \/ InsertNodes(r, "memories", "touches", MemoryNodes)
  \/ InsertEdges(r, "touches", "co_occurs", Touches(work.nodes))
  \/ InsertEdges(r, "co_occurs", "same_session", CoOccurs(work.nodes))
  \/ InsertEdges(r, "same_session", "co_edited", SameSession(work.nodes))
  \/ InsertEdges(r, "co_edited", "commit", CoEdited(work.nodes))

Commit(r) ==
  /\ At(r, "commit") /\ AfterRebuild(r, FALSE)
  /\ graph' = work /\ changed' = touched
  /\ work' = Empty /\ touched' = FALSE
  /\ UNCHANGED <<sources, trouble>>

\* Rolled back.  A worker logs it, and its pass goes on to the purge.
RebuildFails(r) ==
  /\ Holds(r) /\ trouble > 0 /\ trouble' = trouble - 1
  /\ AfterRebuild(r, TRUE)
  /\ work' = Empty /\ touched' = FALSE
  /\ UNCHANGED <<sources, graph, changed>>

-----------------------------------------------------------------------------
(* maintenance, and the rebuild request *)

NoteChange == changed' = TRUE /\ touched' = \E q \in Rebuilder : Holds(q)
Begin(r) == [pc |-> "lock", found |-> IF r \in Worker THEN observations ELSE {}, failed |-> FALSE]
Purged(gone) == [o \in Observation |-> IF o \in gone THEN "purged" ELSE observation[o]]

\* Those older than some moment.
Oldest(obs) == {gone \in SUBSET obs : \A o \in gone, p \in observations : p < o => p \in gone}

\* BUG (a mutant of StartPass): the expired observations go first.
StartPassPurging(r) ==
  /\ At(r, "idle")
  /\ proc' = [proc EXCEPT ![r] = Begin(r)]
  /\ \E gone \in Oldest(observations) :
       /\ r \in Worker \/ gone = {}
       /\ observation' = Purged(gone)
  /\ NoteChange
  /\ UNCHANGED <<memory, graph, work, trouble>>

\* The project is listed while anything of it is stored, a session at least.
StartPass(r) ==
  /\ At(r, "idle")
  /\ proc' = [proc EXCEPT ![r] = Begin(r)]
  /\ UNCHANGED <<sources, graph, work, changed, touched, trouble>>

\* PurgeObservations: the retention window is longer than a pass, so that nothing
\* that came during the pass is older.
Purge(r) ==
  /\ At(r, "purge")
  /\ \E gone \in Oldest(proc[r].found \cap observations) :
       /\ observation' = Purged(gone)
       /\ proc' = [q \in Rebuilder |->
            IF q = r THEN Idle
            ELSE [proc[q] EXCEPT !.found = @ \ gone]]
       /\ IF gone = {} THEN UNCHANGED <<changed, touched>> ELSE NoteChange
  /\ UNCHANGED <<memory, graph, work, trouble>>

\* The request is given up, or the server stops, or a statement outside the
\* rebuild fails.
EndPass(r) ==
  /\ proc[r].pc \in {"lock", "purge"}
  /\ proc' = [proc EXCEPT ![r] = Idle]
  /\ UNCHANGED <<sources, graph, work, changed, touched, trouble>>

\* IDs ascend: a new observation sorts after all others.
AddObservation(o) ==
  /\ observation[o] = "new" /\ \A p \in Observation : p < o => observation[p] # "new"
  /\ observation' = [observation EXCEPT ![o] = "stored"]
  /\ NoteChange
  /\ UNCHANGED <<memory, graph, work, proc, trouble>>

CreateMemory(m) ==
  /\ memory[m] = "new"
  /\ memory' = [memory EXCEPT ![m] = "live"]
  /\ NoteChange
  /\ UNCHANGED <<observation, graph, work, proc, trouble>>

DeleteMemory(m) ==
  /\ memory[m] = "live"
  /\ memory' = [memory EXCEPT ![m] = "deleted"]
  /\ NoteChange
  /\ UNCHANGED <<observation, graph, work, proc, trouble>>

GraphInit ==
  /\ memory = [m \in Memory |-> "new"]
  /\ observation = [o \in Observation |-> "new"]
  /\ graph = Empty /\ work = Empty
  /\ proc = [r \in Rebuilder |-> Idle]
  /\ changed = FALSE /\ touched = FALSE
  /\ trouble = MaxTrouble

RebuildGraph(r) == Lock(r) \/ Clear(r) \/ Derive(r) \/ Commit(r) \/ RebuildFails(r)

GraphNext ==
  \/ \E r \in Rebuilder : StartPass(r) \/ RebuildGraph(r) \/ Purge(r) \/ EndPass(r)
  \/ \E o \in Observation : AddObservation(o)
  \/ \E m \in Memory : CreateMemory(m) \/ DeleteMemory(m)

GraphSpec == GraphInit /\ [][GraphNext]_graphVars

-----------------------------------------------------------------------------
(* What the graph promises *)

\* "Rebuild is idempotent and safe to run any time" (docs/API.md:136): unless a
\* source has changed since it began, the last rebuild to commit left the graph of
\* the sources, whatever was there and whoever else was rebuilding.
FreshIsDerived ==
  ~changed =>
    LET nodes == FileNodes \cup MemoryNodes
    IN  graph = [nodes |-> nodes,
                 edges |-> Touches(nodes) \cup CoOccurs(nodes)
                             \cup SameSession(nodes) \cup CoEdited(nodes)]

CoEditedIn(g) == {<<e.src, e.dst>> : e \in {e \in g.edges : e.rel = "co_edited"}}
Drawn(g, p) == HasNode(g.nodes, "file", p[1]) /\ HasNode(g.nodes, "file", p[2])

\* No pass drops an edge whose evidence it deletes itself, as the order of the two
\* once did (worker.go:937-940): an edge a worker's rebuild drops, between files it
\* kept, had lost its observations before the pass began or to another one.
DroppedOnlyLaterStep ==
  \A r \in Worker : At(r, "commit") /\ graph' = work =>
    \A p \in CoEditedIn(graph) \ CoEditedIn(work) :
      Drawn(work, p) => Together(proc[r].found, p) = {}

\* "Now that the structure has been derived from them, the raw rows can go"
\* (worker.go:956): no two observations that belong together are deleted before
\* their edge is in the graph, unless by a pass whose rebuild failed.
PurgedWasDerivedStep ==
  LET gone == observations \ {o \in Observation : observation'[o] = "stored"}
  IN  (\A r \in Worker : ~proc[r].failed) =>
        \A p \in File \X File :
          p[1] < p[2] /\ Drawn(graph, p) /\ Together(gone, p) # {} => p \in CoEditedIn(graph)

\* The order of rebuild and purge in a pass: neither drops what the other needs.
PassOrder == [][DroppedOnlyLaterStep /\ PurgedWasDerivedStep]_graphVars
=============================================================================
