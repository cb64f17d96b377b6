------------------------------ MODULE Accounts ------------------------------
(***************************************************************************)
(* Servers that start on one database, and the keys they accept.  A dkm     *)
(* process brings the schema up to its release (internal/store/migrate.go), *)
(* mints the first admin key on a database without keys, and serves         *)
(* (internal/cli/server.go); `dkm migrate` does the first part only.  A     *)
(* request is authenticated against the database and a cache of the         *)
(* process (internal/store/auth.go), and an admin's may create teams and    *)
(* users and issue and revoke keys (internal/api/handlers_admin.go).        *)
(*                                                                         *)
(* A key stands for its ID and its prefix, both unique in the table.  A     *)
(* plaintext is a prefix with a secret that is genuine or not.              *)
(***************************************************************************)
EXTENDS Naturals, FiniteSets

CONSTANTS
  Process,
  Serves,         \* the processes that are servers; the others migrate only
  MigrateOnStart, \* the servers with database.migrate_on_start
  Ships,          \* how many migrations the release of each process ships
  Dimensions,     \* what embedding.dimensions may be in the configuration of each
  MaxKeys,        \* how many keys are issued
  User, Team, Request,
  Asked,          \* what each caller may ask, one request after the other
  Talks,          \* the servers each caller is configured with
  Mistaken,       \* the callers whose plaintext may be mistyped
  Admin, Default, \* the user and the team of Bootstrap
  MaxCached,      \* verifyCacheMax
  MaxTrouble,     \* how many processes stop and statements fail
  None

Key == 1 .. MaxKeys
Op == [kind : {"get"}] \cup [kind : {"team"}, team : Team]
      \cup [kind : {"user"}, user : User, team : Team, admin : BOOLEAN]
      \cup [kind : {"issue"}, user : User] \cup [kind : {"revoke"}, key : Key]

ASSUME ProcessAssumption ==
  Serves \subseteq Process /\ MigrateOnStart \subseteq Serves
ASSUME ReleaseAssumption == Ships \in [Process -> Nat \ {0}]
ASSUME BootstrapAssumption == Admin \in User /\ Default \in Team
ASSUME RequestAssumption ==
  /\ Asked \in [Request -> SUBSET Op] /\ Mistaken \subseteq Request
  /\ Talks \in [Request -> SUBSET Serves]
ASSUME LimitAssumption == MaxKeys \in Nat /\ MaxCached \in Nat \ {0} /\ MaxTrouble \in Nat
ASSUME NoneAssumption ==
  /\ None \notin User \cup Team \cup Process /\ None \notin Nat
  /\ \A p \in Process : None \notin Dimensions[p]
  /\ None \notin [team : Team, admin : BOOLEAN]
  /\ None \notin [user : User, revoked : BOOLEAN]

Version == UNION {1 .. Ships[p] : p \in Process}

VARIABLES
  schema,             \* schema_migrations: the checksum of each applied migration
  teams, users, keys, \* the three tables
  proc,               \* each process: its next step, the migrations it found applied, which
                      \* of its own comes next, and the key it minted
  cache,              \* the plaintexts each process has verified
  call,               \* the requests
  told,               \* the keys whose plaintext somebody was shown
  minted,             \* history: the keys Bootstrap issued
  beside,             \* history: whether two processes were in Bootstrap at a time
  trouble

vars == <<schema, teams, users, keys, proc, cache, call, told, minted, beside, trouble>>
tables == <<teams, users, keys>>
history == <<minted, beside>>

At(p, pc) == proc[p].pc = pc
Unread == [v \in Version |-> None]
Fresh(pc) == [pc |-> pc, view |-> Unread, next |-> 1, key |-> None, dim |-> None]
Goto(p, pc) == proc' = [proc EXCEPT ![p] = Fresh(pc)]
Fail == trouble > 0 /\ trouble' = trouble - 1

\* The text of the first migration holds embedding.dimensions.
Checksum(dim, v) == IF v = 1 THEN dim ELSE v
Text(p, v) == Checksum(proc[p].dim, v)

Applied == {v \in Version : schema[v] # None}

-----------------------------------------------------------------------------
(* Start: the schema *)

\* BUG (a mutant of Expected): the build accepts its own schema only.
ExpectedExactly(p) == \A v \in Version : v \in Applied <=> v <= Ships[p]

\* Without migrate_on_start the highest version is compared with the latest of
\* the build.
Expected(p) == \A v \in 1 .. Ships[p] : \E w \in Applied : v <= w

Start(p) ==
  /\ At(p, "down")
  /\ \/ /\ p \in Serves \ MigrateOnStart
        /\ Goto(p, IF Expected(p) THEN "count" ELSE "down")
     \/ /\ p \notin Serves \ MigrateOnStart
        /\ \E dim \in Dimensions[p] :
             proc' = [proc EXCEPT ![p] =
               [pc |-> "migrate", view |-> schema, next |-> 1, key |-> None, dim |-> dim]]
  /\ UNCHANGED <<schema, tables, cache, call, told, history, trouble>>

\* The next migration of the release; after the last one a server goes on to
\* Bootstrap and `dkm migrate` ends.
Advance(p) ==
  IF proc[p].next < Ships[p]
  THEN proc' = [proc EXCEPT ![p].next = @ + 1]
  ELSE Goto(p, IF p \in Serves THEN "count" ELSE "down")

\* BUG (a mutant of MigrateSkip): what was applied is taken to be this text.
MigrateSkipUnread(p) ==
  LET v == proc[p].next
  IN  /\ At(p, "migrate") /\ proc[p].view[v] # None
      /\ Advance(p)
      /\ UNCHANGED <<schema, tables, cache, call, told, history, trouble>>

\* Found applied: skipped, or refused if its text is another now.
MigrateSkip(p) ==
  LET v == proc[p].next
  IN  /\ At(p, "migrate") /\ proc[p].view[v] # None
      /\ IF proc[p].view[v] = Text(p, v) THEN Advance(p) ELSE Goto(p, "down")
      /\ UNCHANGED <<schema, tables, cache, call, told, history, trouble>>

\* BUG (a mutant of ApplyOne): a migration that failed is left for another start.
ApplyOneOrSkip(p) ==
  LET v == proc[p].next
  IN  /\ At(p, "migrate") /\ proc[p].view[v] = None
      /\ Advance(p)
      /\ \/ /\ schema[v] = None
            /\ schema' = [schema EXCEPT ![v] = Text(p, v)]
            /\ UNCHANGED trouble
         \/ schema[v] = None /\ Fail /\ UNCHANGED schema
      /\ UNCHANGED <<tables, cache, call, told, history>>

\* applyOne: the SQL and its row in one transaction.  A row another process has
\* inserted meanwhile is a conflict on the primary key.
ApplyOne(p) ==
  LET v == proc[p].next
      Commit == schema' = [schema EXCEPT ![v] = Text(p, v)]
  IN  /\ At(p, "migrate") /\ proc[p].view[v] = None
      /\ \/ /\ schema[v] = None /\ Commit
            /\ Advance(p)
            /\ UNCHANGED trouble
         \/ schema[v] # None /\ Goto(p, "down") /\ UNCHANGED <<schema, trouble>>
         \/ schema[v] = None /\ Fail /\ Goto(p, "down") /\ (Commit \/ UNCHANGED schema)
      /\ UNCHANGED <<tables, cache, call, told, history>>

-----------------------------------------------------------------------------
(* Start: Bootstrap.  An error of it is a warning, and the server serves. *)

Booting(p) == proc[p].pc \in {"team", "user", "key", "show"}
NoteBeside(p) == beside' = (beside \/ \E q \in Process \ {p} : Booting(q))

\* BUG (a mutant of CountKeys): revoked keys are not counted.
CountKeysInUse(p) ==
  /\ At(p, "count")
  /\ Goto(p, IF \E k \in Key : keys[k] # None /\ ~keys[k].revoked THEN "serving" ELSE "team")
  /\ NoteBeside(p)
  /\ UNCHANGED <<schema, tables, cache, call, told, minted, trouble>>

CountKeys(p) ==
  /\ At(p, "count")
  /\ Goto(p, IF \E k \in Key : keys[k] # None THEN "serving" ELSE "team")
  /\ NoteBeside(p)
  /\ UNCHANGED <<schema, tables, cache, call, told, minted, trouble>>

BootstrapTeam(p) ==
  /\ At(p, "team")
  /\ teams' = teams \cup {Default}
  /\ Goto(p, "user")
  /\ UNCHANGED <<schema, users, keys, cache, call, told, history, trouble>>

BootstrapUser(p) ==
  /\ At(p, "user")
  /\ users' = IF users[Admin] = None
              THEN [users EXCEPT ![Admin] = [team |-> Default, admin |-> TRUE]]
              ELSE users
  /\ Goto(p, "key")
  /\ UNCHANGED <<schema, teams, keys, cache, call, told, history, trouble>>

\* Keys are numbered as they are issued.
Unused(k) == keys[k] = None /\ \A j \in 1 .. k - 1 : keys[j] # None
Insert(k, u) == keys' = [keys EXCEPT ![k] = [user |-> u, revoked |-> FALSE]]

\* IssueKey draws a prefix and inserts; a prefix that is taken is an error.
BootstrapKey(p) ==
  /\ At(p, "key")
  /\ \E k \in Key :
       \/ /\ Unused(k) /\ Insert(k, Admin)
          /\ minted' = minted \cup {k}
          /\ proc' = [proc EXCEPT ![p].pc = "show", ![p].key = k]
       \/ /\ keys[k] # None /\ Goto(p, "serving") /\ UNCHANGED <<keys, minted>>
  /\ UNCHANGED <<schema, teams, users, cache, call, told, beside, trouble>>

ShowKey(p) ==
  /\ At(p, "show")
  /\ told' = told \cup {proc[p].key}
  /\ Goto(p, "serving")
  /\ UNCHANGED <<schema, tables, cache, call, history, trouble>>

BootstrapFails(p) ==
  /\ proc[p].pc \in {"count", "team", "user", "key", "show"} /\ Fail
  /\ Goto(p, "serving")
  /\ UNCHANGED <<schema, tables, cache, call, told, history>>

-----------------------------------------------------------------------------
(* Requests *)

\* "refused" is 401, "forbidden" 403, and "answered" any other answer.
Over(pc) == [pc |-> pc, server |-> None, key |-> None, genuine |-> FALSE,
             op |-> [kind |-> "get"], late |-> FALSE]
NoCall == Over("new")
Caller(r) == users[keys[call[r].key].user]

Waiting == {"read", "verify", "handle"}
Goon(r, pc) == call' = [call EXCEPT ![r].pc = pc]
Answer(r, with) == call' = [call EXCEPT ![r] = Over(with)]

\* A plaintext somebody was shown, or a mistyped one.  `late` notes that its key
\* was revoked by then.
Present(r, p, k, genuine, op) ==
  /\ call[r].pc \notin Waiting /\ At(p, "serving")
  /\ IF genuine THEN k \in told ELSE r \in Mistaken
  /\ call' = [call EXCEPT ![r] =
       [pc |-> "read", server |-> p, key |-> k, genuine |-> genuine, op |-> op,
        late |-> keys[k] # None /\ keys[k].revoked]]
  /\ UNCHANGED <<schema, tables, proc, cache, told, history, trouble>>

\* BUG (a mutant of AuthRead): a cached plaintext passes before the table is read.
AuthReadCached(r) ==
  LET c == call[r]
  IN  /\ c.pc = "read"
      /\ IF keys[c.key] = None
            \/ (keys[c.key].revoked /\ <<c.key, c.genuine>> \notin cache[c.server])
         THEN Answer(r, "refused") ELSE Goon(r, "verify")
      /\ UNCHANGED <<schema, tables, proc, cache, told, history, trouble>>

\* Authenticate reads the key with its user, and whether it is revoked.
AuthRead(r) ==
  LET k == call[r].key
  IN  /\ call[r].pc = "read"
      /\ IF keys[k] = None \/ keys[k].revoked THEN Answer(r, "refused") ELSE Goon(r, "verify")
      /\ UNCHANGED <<schema, tables, proc, cache, told, history, trouble>>

\* verifyCache.add evicts at the limit whatever it comes upon.
Cached(known, token) ==
  {kept \cup {token} : kept \in {c \in SUBSET known :
     IF Cardinality(known) < MaxCached THEN c = known ELSE Cardinality(c) < MaxCached}}

\* requireAuth asks the limiter, which may refuse, and requireAdmin for the flag;
\* what needs no admin is answered.
Admit(r) ==
  \/ Answer(r, "answered")
  \/ call[r].op.kind # "get" /\ ~Caller(r).admin /\ Answer(r, "forbidden")
  \/ call[r].op.kind # "get" /\ Caller(r).admin /\ Goon(r, "handle")

\* A key that is not in the cache is verified against its hash.
AuthVerify(r) ==
  LET c == call[r]
      token == <<c.key, c.genuine>>
  IN  /\ c.pc = "verify"
      /\ \/ token \in cache[c.server] /\ Admit(r) /\ UNCHANGED cache
         \/ /\ token \notin cache[c.server] /\ c.genuine /\ Admit(r)
            /\ \E after \in Cached(cache[c.server], token) :
                 cache' = [cache EXCEPT ![c.server] = after]
         \/ /\ token \notin cache[c.server] /\ ~c.genuine
            /\ Answer(r, "refused") /\ UNCHANGED cache
      /\ UNCHANGED <<schema, tables, proc, told, history, trouble>>

Handles(r, kind) == call[r].pc = "handle" /\ call[r].op.kind = kind

CreateTeam(r) ==
  LET t == call[r].op.team
  IN  /\ Handles(r, "team")
      /\ teams' = teams \cup {t}
      /\ Answer(r, "answered")
      /\ UNCHANGED <<schema, users, keys, proc, cache, told, history, trouble>>

\* BUG (a mutant of InTeam): the team is not looked at.
InAnyTeam(r, t) == Caller(r).team \in Team

\* An admin acts in the team of the key.
InTeam(r, t) == t = Caller(r).team

CreateUser(r) ==
  LET op == call[r].op
  IN  /\ Handles(r, "user")
      /\ \/ ~InTeam(r, op.team) /\ Answer(r, "forbidden") /\ UNCHANGED users
         \/ /\ InTeam(r, op.team) /\ op.team \in teams /\ users[op.user] = None
            /\ users' = [users EXCEPT ![op.user] = [team |-> op.team, admin |-> op.admin]]
            /\ Answer(r, "answered")
         \/ /\ InTeam(r, op.team) /\ (op.team \notin teams \/ users[op.user] # None)
            /\ Answer(r, "answered") /\ UNCHANGED users
      /\ UNCHANGED <<schema, teams, keys, proc, cache, told, history, trouble>>

\* GetUser and then the insert; no user is ever changed between them.  An insert
\* may be answered with an error, having been done.
IssueKey(r) ==
  LET u == call[r].op.user
      found == users[u] # None /\ InTeam(r, users[u].team)
  IN  /\ Handles(r, "issue")
      /\ IF found THEN Answer(r, "answered")
         ELSE Answer(r, IF users[u] = None THEN "answered" ELSE "forbidden")
      /\ \/ ~found /\ UNCHANGED <<keys, told, trouble>>
         \/ found /\ \E k \in Key :
              \/ /\ Unused(k) /\ Insert(k, u)
                 /\ \/ told' = told \cup {k} /\ UNCHANGED trouble
                    \/ Fail /\ UNCHANGED told
              \/ keys[k] # None /\ UNCHANGED <<keys, told, trouble>>
      /\ UNCHANGED <<schema, teams, users, proc, cache, history>>

\* One UPDATE of a key of the team that is not revoked.
RevokeKey(r) ==
  LET k == call[r].op.key
      found == keys[k] # None /\ ~keys[k].revoked /\ InTeam(r, users[keys[k].user].team)
  IN  /\ Handles(r, "revoke")
      /\ keys' = IF found THEN [keys EXCEPT ![k].revoked = TRUE] ELSE keys
      /\ Answer(r, "answered")
      /\ UNCHANGED <<schema, teams, users, proc, cache, told, history, trouble>>

-----------------------------------------------------------------------------
\* A process is stopped or dies; what it cached and handled goes with it.
Stop(p) ==
  /\ ~At(p, "down") /\ Fail
  /\ Goto(p, "down")
  /\ cache' = [cache EXCEPT ![p] = {}]
  /\ call' = [r \in Request |->
       IF call[r].server = p /\ call[r].pc \in Waiting
       THEN NoCall ELSE call[r]]
  /\ UNCHANGED <<schema, tables, told, history>>

Init ==
  /\ schema = [v \in Version |-> None]
  /\ teams = {} /\ users = [u \in User |-> None] /\ keys = [k \in Key |-> None]
  /\ proc = [p \in Process |-> Fresh("down")]
  /\ cache = [p \in Process |-> {}]
  /\ call = [r \in Request |-> NoCall]
  /\ told = {} /\ minted = {} /\ beside = FALSE
  /\ trouble = MaxTrouble

Migrate(p) == Start(p) \/ MigrateSkip(p) \/ ApplyOne(p)
Bootstrap(p) ==
  CountKeys(p) \/ BootstrapTeam(p) \/ BootstrapUser(p) \/ BootstrapKey(p) \/ ShowKey(p)
Authenticate(r) == AuthRead(r) \/ AuthVerify(r)
Handler(r) == CreateTeam(r) \/ CreateUser(r) \/ IssueKey(r) \/ RevokeKey(r)

Next ==
  \/ \E p \in Process : Migrate(p) \/ Bootstrap(p) \/ BootstrapFails(p) \/ Stop(p)
  \/ \E r \in Request :
       \/ \E p \in Talks[r], k \in Key, genuine \in BOOLEAN, op \in Asked[r] :
            Present(r, p, k, genuine, op)
       \/ Authenticate(r) \/ Handler(r)

Spec == Init /\ [][Next]_vars

\* A server that is down is started again, as its unit and its container are
\* configured (deploy/), and a start gets on.
FairSpec == Spec /\ \A p \in Serves : WF_vars(Migrate(p) \/ Bootstrap(p))

-----------------------------------------------------------------------------
(* What start and keys promise *)

Accepted == {"forbidden", "handle", "answered"}

\* A migration was applied with a text that no configuration of p ships.
Foreign(p) ==
  \E v \in 1 .. Ships[p] :
    schema[v] # None /\ \A d \in Dimensions[p] : schema[v] # Checksum(d, v)

\* The applied migrations are the first ones, with none left out, and a server
\* that answers requests has those its release ships; one that migrates on start
\* has them with the text it ships.  (A server that does not compares only the
\* highest version.)
ServingHasSchema ==
  /\ \A v \in Applied : 1 .. v \subseteq Applied
  /\ \A p \in Serves :
       At(p, "serving") =>
         /\ 1 .. Ships[p] \subseteq Applied
         /\ p \in MigrateOnStart => ~Foreign(p)

\* "A restarted container must not mint a second admin key": there is one, through
\* restarts, failures and revocation, unless two servers started on the empty
\* database side by side.
OneAdminKey == Cardinality(minted) > 1 => beside

\* What a start leaves behind, whoever else is starting: a server's schema and one
\* admin key.
StartSound == ServingHasSchema /\ OneAdminKey

\* A request passes with the plaintext of a key that was not yet revoked when the
\* request came, on every server and whatever that has cached.
LiveKeyRequiredStep ==
  \A r \in Request : call[r].pc = "verify" /\ call'[r].pc \in Accepted =>
    call[r].genuine /\ ~call[r].late
LiveKeyRequired == [][LiveKeyRequiredStep]_vars

\* A user or a key appears or changes only by an admin of its team, or in the
\* first start.
TeamBoundaryStep ==
  LET ByAdminOf(t) == \E r \in Request : call[r].pc = "handle" /\ call'[r].pc # "handle"
                        /\ Caller(r).admin /\ Caller(r).team = t
  IN  /\ \A u \in User : users'[u] # users[u] =>
           \/ \E p \in Process : At(p, "user") /\ u = Admin
           \/ ByAdminOf(users'[u].team)
      /\ \A k \in Key : keys'[k] # keys[k] =>
           \/ \E p \in Process : At(p, "key") /\ keys'[k].user = Admin
           \/ ByAdminOf(users[keys'[k].user].team)
TeamBoundary == [][TeamBoundaryStep]_vars

\* A server ends up serving, through lost races for a migration, failures, stops
\* and releases, unless it is to migrate and the schema is not of its text, or it
\* is not to and nobody brought the schema up to its release.
ComesUp ==
  \A p \in Serves :
    <>[](At(p, "serving") \/ IF p \in MigrateOnStart THEN Foreign(p)
                           ELSE ~(1 .. Ships[p] \subseteq Applied))

=============================================================================
