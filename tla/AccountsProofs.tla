--------------------------- MODULE AccountsProofs ---------------------------
(* Machine-checked proofs about Accounts, for any processes, releases,       *)
(* configurations, callers and requests, and any number of failures.         *)
EXTENDS Accounts, FiniteSetTheorems, TLAPS

-----------------------------------------------------------------------------
(* Types *)

AnyText == {None} \cup Version \cup UNION {Dimensions[p] : p \in Process}
UserRow == [team : Team, admin : BOOLEAN]
KeyRow == [user : User, revoked : BOOLEAN]
ProcState ==
  [pc : {"down", "migrate", "count", "team", "user", "key", "show", "serving"},
   view : [Version -> AnyText], next : Nat, key : Key \cup {None}, dim : AnyText]
CallState ==
  [pc : {"new", "read", "verify", "handle", "refused", "forbidden", "answered"},
   server : Process \cup {None}, key : Key \cup {None}, genuine : BOOLEAN, op : Op,
   late : BOOLEAN]

TypeOK ==
  /\ schema \in [Version -> AnyText]
  /\ teams \subseteq Team
  /\ users \in [User -> UserRow \cup {None}]
  /\ keys \in [Key -> KeyRow \cup {None}]
  /\ proc \in [Process -> ProcState]
  /\ cache \in [Process -> SUBSET (Key \X BOOLEAN)]
  /\ call \in [Request -> CallState]
  /\ told \subseteq Key /\ minted \subseteq Key
  /\ beside \in BOOLEAN /\ trouble \in Nat

-----------------------------------------------------------------------------
(* The invariant of a start *)

Complete(p) ==
  /\ 1 .. Ships[p] \subseteq Applied
  /\ p \in MigrateOnStart =>
       \A v \in 1 .. Ships[p] : \E d \in Dimensions[p] : schema[v] = Checksum(d, v)

\* A process that migrates has read part of what is applied now, and all it has
\* dealt with is applied with its own text.
Migrating(p) ==
  /\ proc[p].dim \in Dimensions[p]
  /\ proc[p].next \in 1 .. Ships[p]
  /\ \A v \in Version : proc[p].view[v] # None => schema[v] = proc[p].view[v]
  /\ \A v \in 1 .. proc[p].next - 1 : schema[v] = Text(p, v)

SchemaInv ==
  /\ \A v \in Applied : 1 .. v \subseteq Applied
  /\ \A p \in Process : At(p, "migrate") => Migrating(p)
  /\ \A p \in Serves : proc[p].pc \notin {"down", "migrate"} => Complete(p)

\* The process that alone is in Bootstrap before its key is in.
Minting(p) == proc[p].pc \in {"team", "user", "key"}

AloneInv ==
  /\ \A p, q \in Process : Booting(p) /\ Booting(q) => p = q
  /\ \A p \in Process : Minting(p) => \A k \in Key : keys[k] = None
  /\ \A j, k \in minted : j = k

KeyInv ==
  /\ ~beside => AloneInv
  /\ \A k \in minted : keys[k] # None
  /\ \A p \in Process : At(p, "key") => users[Admin] # None
  /\ \A p \in Process : At(p, "show") => proc[p].key \in Key
  /\ \A k \in Key : keys[k] # None => users[keys[k].user] # None

-----------------------------------------------------------------------------
(* The invariant of the requests *)

\* What a request has gone past, by the step it is at.
CallInv(r) ==
  LET c == call[r]
  IN  /\ c.pc \in Waiting => c.key \in Key /\ c.server \in Process
      /\ c.pc = "read" /\ c.late => keys[c.key] # None /\ keys[c.key].revoked
      /\ c.pc \in {"verify", "handle"} => keys[c.key] # None
      /\ c.pc = "verify" => ~c.late
      /\ c.pc = "handle" => Caller(r).admin

AccountsInv ==
  /\ TypeOK /\ SchemaInv /\ KeyInv
  /\ \A p \in Process : \A token \in cache[p] : token[2]
  /\ \A r \in Request : CallInv(r)

-----------------------------------------------------------------------------
(* What never changes again *)

LEMMA Parameters ==
  /\ None \notin Version /\ None \notin Key
  /\ \A v \in Version : v \in Nat
  /\ \A p \in Process : 1 .. Ships[p] \subseteq Version /\ Ships[p] \in Nat \ {0}
  /\ \A p \in Process : Dimensions[p] \subseteq AnyText /\ None \notin Dimensions[p]
  /\ None \notin UserRow /\ None \notin KeyRow
  /\ Serves \subseteq Process /\ MigrateOnStart \subseteq Serves
  /\ \A r \in Request : Asked[r] \subseteq Op /\ Talks[r] \subseteq Serves
<1>1. \A p \in Process : Ships[p] \in Nat \ {0}
  BY ReleaseAssumption
<1>2. \A v \in Version : v \in Nat
  BY <1>1 DEF Version
<1>3. \A p \in Process : 1 .. Ships[p] \subseteq Version
  BY DEF Version
<1>4. \A p \in Process : Dimensions[p] \subseteq AnyText
  BY DEF AnyText
<1>5. None \notin Key
  BY NoneAssumption, LimitAssumption DEF Key
<1>6. \A r \in Request : Asked[r] \subseteq Op /\ Talks[r] \subseteq Serves
  BY RequestAssumption
<1>7. None \notin UserRow /\ None \notin KeyRow
  BY NoneAssumption DEF UserRow, KeyRow
<1>8. None \notin Version /\ \A p \in Process : None \notin Dimensions[p]
  BY <1>2, NoneAssumption
<1>9. QED
  BY <1>1, <1>2, <1>3, <1>4, <1>5, <1>6, <1>7, <1>8, ProcessAssumption

\* An applied migration keeps its text.
LEMMA SchemaKept ==
  ASSUME TypeOK, [Next]_vars, NEW v \in Version, schema[v] # None
  PROVE  schema'[v] = schema[v]
<1>1. ASSUME NEW p \in Process, ApplyOne(p) PROVE schema'[v] = schema[v]
  BY <1>1 DEF ApplyOne, TypeOK
<1>2. QED
  BY ZenonT(60), <1>1 DEF Next, vars, tables, history, Migrate, Start, MigrateSkip, Bootstrap, CountKeys,
     BootstrapTeam, BootstrapUser, BootstrapKey, ShowKey, BootstrapFails, Stop, Present,
     Authenticate, AuthRead, AuthVerify, Handler, CreateTeam, CreateUser, IssueKey, RevokeKey

\* A user keeps its team and its flag, and a key its user; a revoked key stays so.
LEMMA RowsKept ==
  ASSUME TypeOK, [Next]_vars
  PROVE  /\ \A u \in User : users[u] # None => users'[u] = users[u]
         /\ \A k \in Key : keys[k] # None =>
              /\ keys'[k] # None /\ keys'[k].user = keys[k].user
              /\ keys[k].revoked => keys'[k].revoked
<1> USE DEF TypeOK
<1>1. ASSUME NEW p \in Process, BootstrapUser(p)
      PROVE  UNCHANGED keys /\ \A u \in User : users[u] # None => users'[u] = users[u]
  BY <1>1 DEF BootstrapUser
<1>2. ASSUME NEW r \in Request, CreateUser(r)
      PROVE  UNCHANGED keys /\ \A u \in User : users[u] # None => users'[u] = users[u]
  BY <1>2 DEF CreateUser
<1>3. ASSUME NEW k \in Key, NEW u, Unused(k), Insert(k, u)
      PROVE  \A j \in Key : keys[j] # None => keys'[j] = keys[j]
  BY <1>3 DEF Unused, Insert
<1>4. ASSUME NEW p \in Process, BootstrapKey(p)
      PROVE  UNCHANGED users /\ \A j \in Key : keys[j] # None => keys'[j] = keys[j]
  BY <1>3, <1>4 DEF BootstrapKey
<1>5. ASSUME NEW r \in Request, IssueKey(r)
      PROVE  UNCHANGED users /\ \A j \in Key : keys[j] # None => keys'[j] = keys[j]
  BY SMTT(60), <1>3, <1>5 DEF IssueKey
<1>6. ASSUME NEW r \in Request, RevokeKey(r)
      PROVE  /\ UNCHANGED users
             /\ \A k \in Key : keys[k] # None =>
                  /\ keys'[k] # None /\ keys'[k].user = keys[k].user
                  /\ keys[k].revoked => keys'[k].revoked
  <2> DEFINE k == call[r].op.key
  <2>0. UNCHANGED users
    BY <1>6 DEF RevokeKey
  <2>1. CASE UNCHANGED keys
    BY <2>0, <2>1
  <2>2. CASE keys' = [keys EXCEPT ![k].revoked = TRUE] /\ keys[k] # None
    <3>1. ASSUME NEW j \in Key, keys[j] # None, j # k PROVE keys'[j] = keys[j]
      BY <2>2, <3>1
    <3>2. ASSUME k \in Key PROVE keys'[k] = [keys[k] EXCEPT !.revoked = TRUE] /\ keys[k] \in KeyRow
      BY <2>2, <3>2
    <3>3. ASSUME k \in Key
          PROVE  keys'[k] # None /\ keys'[k].user = keys[k].user /\ keys'[k].revoked
      <4>1. [keys[k] EXCEPT !.revoked = TRUE] \in KeyRow
        BY <3>2, <3>3 DEF KeyRow
      <4>2. QED
        BY <3>2, <3>3, <4>1, Parameters DEF KeyRow
    <3>4. QED
      BY <1>6, <3>1, <3>3 DEF RevokeKey
  <2>3. QED
    BY ZenonT(60), <1>6, <2>1, <2>2 DEF RevokeKey
<1>7. QED
  BY ZenonT(60), <1>1, <1>2, <1>4, <1>5, <1>6
     DEF Next, vars, tables, history, Migrate, Start, MigrateSkip, ApplyOne, Bootstrap, CountKeys,
     BootstrapTeam, ShowKey, BootstrapFails, Stop, Present,
     Authenticate, AuthRead, AuthVerify, Handler, CreateTeam

-----------------------------------------------------------------------------
(* The type invariant *)

LEMMA FreshType ==
  ASSUME NEW pc \in {"down", "migrate", "count", "team", "user", "key", "show", "serving"}
  PROVE  Fresh(pc) \in ProcState
<1>1. Unread \in [Version -> AnyText]
  BY DEF Unread, AnyText
<1>2. QED
  BY <1>1 DEF Fresh, ProcState, AnyText

LEMMA OverType ==
  ASSUME NEW pc \in {"new", "refused", "forbidden", "answered"}
  PROVE  Over(pc) \in CallState
<1>1. [kind |-> "get"] \in Op
  BY DEF Op
<1>2. QED
  BY <1>1 DEF Over, CallState

\* An op of a kind has the fields of that kind.
LEMMA OpFields ==
  ASSUME NEW op \in Op
  PROVE  /\ op.kind = "team" => op.team \in Team
         /\ op.kind = "user" => op.user \in User /\ op.team \in Team /\ op.admin \in BOOLEAN
         /\ op.kind = "issue" => op.user \in User
         /\ op.kind = "revoke" => op.key \in Key
  BY DEF Op

LEMMA InitTypeOK == Init => TypeOK
<1> SUFFICES ASSUME Init PROVE TypeOK
  OBVIOUS
<1>1. Fresh("down") \in ProcState /\ NoCall \in CallState
  BY FreshType, OverType DEF NoCall
<1>2. QED
  BY <1>1, LimitAssumption DEF Init, TypeOK, AnyText

\* The steps of a process keep the types of what they touch.
LEMMA ProcessTypeOK ==
  ASSUME TypeOK, SchemaInv, KeyInv, NEW p \in Process,
         Migrate(p) \/ Bootstrap(p) \/ BootstrapFails(p) \/ Stop(p)
  PROVE  TypeOK'
<1> USE DEF TypeOK
<1>1. ASSUME NEW pc \in {"down", "migrate", "count", "team", "user", "key", "show", "serving"},
             Goto(p, pc)
      PROVE  proc' \in [Process -> ProcState]
  BY <1>1, FreshType DEF Goto
<1>2. ASSUME Advance(p) PROVE proc' \in [Process -> ProcState]
  <2>1. CASE proc[p].next < Ships[p]
    <3>1. [proc[p] EXCEPT !.next = proc[p].next + 1] \in ProcState
      <4>1. proc[p] \in ProcState /\ proc[p].next + 1 \in Nat
        BY DEF ProcState
      <4> DEFINE n == proc[p].next + 1
      <4> HIDE DEF n
      <4>2. [proc[p] EXCEPT !.next = n] \in ProcState
        BY <4>1 DEF ProcState, n
      <4>3. QED
        BY <4>2 DEF n
    <3>2. proc' = [proc EXCEPT ![p] = [proc[p] EXCEPT !.next = proc[p].next + 1]]
      BY <1>2, <2>1 DEF Advance
    <3>3. QED
      BY <3>1, <3>2
  <2>2. QED
    BY <1>1, <1>2, <2>1 DEF Advance
<1>3. CASE Start(p)
  <2>1. CASE Goto(p, "count") \/ Goto(p, "down")
    BY <1>1, <1>3, <2>1 DEF Start, tables, history
  <2>2. ASSUME NEW dim \in Dimensions[p],
               proc' = [proc EXCEPT ![p] =
                 [pc |-> "migrate", view |-> schema, next |-> 1, key |-> None, dim |-> dim]]
        PROVE  TypeOK'
    <3>1. [pc |-> "migrate", view |-> schema, next |-> 1, key |-> None, dim |-> dim] \in ProcState
      BY Parameters DEF ProcState
    <3>2. QED
      BY <1>3, <2>2, <3>1 DEF Start, tables, history
  <2>3. QED
    BY <1>3, <2>1, <2>2 DEF Start
<1>4. CASE MigrateSkip(p)
  BY <1>1, <1>2, <1>4 DEF MigrateSkip, tables, history
<1>5. CASE ApplyOne(p)
  <2>1. Text(p, proc[p].next) \in AnyText
    <3>1. proc[p].next \in Version
      BY <1>5, Parameters DEF ApplyOne, SchemaInv, Migrating
    <3>2. proc[p].dim \in AnyText
      BY DEF ProcState
    <3>3. QED
      BY <3>1, <3>2 DEF Text, Checksum, AnyText
  <2>2. proc' \in [Process -> ProcState]
    BY <1>1, <1>2, <1>5 DEF ApplyOne
  <2>3. schema' \in [Version -> AnyText]
    BY <1>5, <2>1 DEF ApplyOne
  <2>4. QED
    BY <1>5, <2>2, <2>3 DEF ApplyOne, tables, history, Fail
<1>6. CASE CountKeys(p)
  BY <1>1, <1>6 DEF CountKeys, NoteBeside, tables
<1>7. CASE BootstrapTeam(p)
  BY <1>1, <1>7, BootstrapAssumption DEF BootstrapTeam, history
<1>8. CASE BootstrapUser(p)
  BY <1>1, <1>8, BootstrapAssumption DEF BootstrapUser, UserRow, history
<1>9. CASE BootstrapKey(p)
  <2>1. ASSUME NEW k \in Key, proc' = [proc EXCEPT ![p].pc = "show", ![p].key = k]
        PROVE  proc' \in [Process -> ProcState]
    <3>1. [proc[p] EXCEPT !.pc = "show", !.key = k] \in ProcState
      BY DEF ProcState
    <3>2. proc' = [proc EXCEPT ![p] = [proc[p] EXCEPT !.pc = "show", !.key = k]]
      BY <2>1 DEF ProcState
    <3>3. QED
      BY <3>1, <3>2
  <2>2. ASSUME NEW k \in Key, Insert(k, Admin) PROVE keys' \in [Key -> KeyRow \cup {None}]
    BY <2>2, BootstrapAssumption DEF Insert, KeyRow
  <2>3. QED
    BY <1>1, <1>9, <2>1, <2>2 DEF BootstrapKey
<1>10. CASE ShowKey(p)
  BY <1>1, <1>10 DEF ShowKey, KeyInv, tables, history
<1>11. CASE BootstrapFails(p)
  BY <1>1, <1>11 DEF BootstrapFails, tables, history, Fail
<1>12. CASE Stop(p)
  <2>1. call' \in [Request -> CallState]
    BY <1>12, OverType DEF Stop, NoCall
  <2>2. QED
    BY <1>1, <1>12, <2>1 DEF Stop, tables, history, Fail
<1>13. QED
  BY <1>3, <1>4, <1>5, <1>6, <1>7, <1>8, <1>9, <1>10, <1>11, <1>12 DEF Migrate, Bootstrap

\* The steps of a request keep the types of what they touch.
LEMMA RequestTypeOK ==
  ASSUME TypeOK, NEW r \in Request, CallInv(r),
         \/ \E p \in Talks[r], k \in Key, genuine \in BOOLEAN, op \in Asked[r] :
              Present(r, p, k, genuine, op)
         \/ Authenticate(r) \/ Handler(r)
  PROVE  TypeOK'
<1> USE DEF TypeOK
<1>1. ASSUME NEW pc \in {"new", "refused", "forbidden", "answered"}, Answer(r, pc)
      PROVE  call' \in [Request -> CallState]
  BY <1>1, OverType DEF Answer
<1>2. ASSUME NEW pc \in {"verify", "handle"}, Goon(r, pc)
      PROVE  call' \in [Request -> CallState]
  <2>1. [call[r] EXCEPT !.pc = pc] \in CallState
    BY DEF CallState
  <2>2. call' = [call EXCEPT ![r] = [call[r] EXCEPT !.pc = pc]]
    BY <1>2 DEF Goon
  <2>3. QED
    BY <2>1, <2>2
<1>3. ASSUME NEW p \in Talks[r], NEW k \in Key, NEW genuine \in BOOLEAN, NEW op \in Asked[r],
             Present(r, p, k, genuine, op)
      PROVE  TypeOK'
  <2>1. (keys[k] # None /\ keys[k].revoked) \in BOOLEAN /\ p \in Process /\ op \in Op
    BY Parameters
  <2>2. [pc |-> "read", server |-> p, key |-> k, genuine |-> genuine, op |-> op,
         late |-> keys[k] # None /\ keys[k].revoked] \in CallState
    BY <2>1 DEF CallState
  <2>3. QED
    BY <1>3, <2>2 DEF Present, tables, history
<1>4. CASE AuthRead(r)
  BY <1>1, <1>2, <1>4 DEF AuthRead, tables, history
<1>5. CASE AuthVerify(r)
  <2>1. ASSUME Admit(r) PROVE call' \in [Request -> CallState]
    BY <1>1, <1>2, <2>1 DEF Admit
  <2>2. <<call[r].key, call[r].genuine>> \in Key \X BOOLEAN
    BY <1>5 DEF AuthVerify, CallInv, CallState, Waiting
  <2>3. ASSUME NEW after \in Cached(cache[call[r].server], <<call[r].key, call[r].genuine>>),
               cache' = [cache EXCEPT ![call[r].server] = after]
        PROVE  cache' \in [Process -> SUBSET (Key \X BOOLEAN)]
    <3>1. cache[call[r].server] \subseteq Key \X BOOLEAN
      BY <1>5 DEF AuthVerify, CallInv, Waiting
    <3>2. after \subseteq Key \X BOOLEAN
      BY <2>2, <2>3, <3>1 DEF Cached
    <3>3. QED
      BY <2>3, <3>2
  <2>4. QED
    BY <1>1, <1>5, <2>1, <2>3 DEF AuthVerify, tables, history
<1>6. call[r].op \in Op
  BY DEF CallState
<1>7. CASE CreateTeam(r)
  BY <1>1, <1>6, <1>7, OpFields DEF CreateTeam, Handles, history
<1>8. CASE CreateUser(r)
  BY <1>1, <1>6, <1>8, OpFields DEF CreateUser, Handles, history, UserRow
<1>9. CASE IssueKey(r)
  <2>1. call[r].op.user \in User
    BY <1>6, <1>9, OpFields DEF IssueKey, Handles
  <2>2. ASSUME NEW k \in Key, Insert(k, call[r].op.user)
        PROVE  keys' \in [Key -> KeyRow \cup {None}]
    BY <2>1, <2>2 DEF Insert, KeyRow
  <2>3. call' \in [Request -> CallState]
    BY <1>1, <1>9 DEF IssueKey
  <2>4. keys' \in [Key -> KeyRow \cup {None}] /\ told' \subseteq Key /\ trouble' \in Nat
    BY SMTT(60), <1>9, <2>2 DEF IssueKey, Fail
  <2>5. QED
    BY <1>9, <2>3, <2>4 DEF IssueKey, history
<1>10. CASE RevokeKey(r)
  <2> DEFINE k == call[r].op.key
  <2>1. k \in Key
    BY <1>6, <1>10, OpFields DEF RevokeKey, Handles
  <2>2. CASE keys[k] # None /\ keys' = [keys EXCEPT ![k].revoked = TRUE]
    <3>1. [keys[k] EXCEPT !.revoked = TRUE] \in KeyRow
      BY <2>1, <2>2 DEF KeyRow
    <3>2. keys' = [keys EXCEPT ![k] = [keys[k] EXCEPT !.revoked = TRUE]]
      BY <2>2
    <3>3. keys' \in [Key -> KeyRow \cup {None}]
      BY <2>1, <3>1, <3>2
    <3>4. QED
      BY <1>1, <1>10, <3>3 DEF RevokeKey, history
  <2>3. CASE UNCHANGED keys
    BY <1>1, <1>10, <2>3 DEF RevokeKey, history
  <2>4. QED
    BY <1>10, <2>2, <2>3 DEF RevokeKey
<1>11. QED
  BY <1>3, <1>4, <1>5, <1>7, <1>8, <1>9, <1>10 DEF Authenticate, Handler

-----------------------------------------------------------------------------
(* A start and the schema *)

LEMMA StillMigrating ==
  ASSUME TypeOK, [Next]_vars, NEW p \in Process, Migrating(p), proc'[p] = proc[p]
  PROVE  Migrating(p)'
<1>1. \A v \in Version : schema[v] # None => schema'[v] = schema[v]
  BY SchemaKept
<1>2. \A v \in 1 .. proc[p].next - 1 : v \in Version /\ Text(p, v) # None
  <2>1. ASSUME NEW v \in 1 .. proc[p].next - 1 PROVE v \in 1 .. Ships[p]
    BY <2>1, Parameters DEF Migrating
  <2>2. QED
    BY <2>1, Parameters, NoneAssumption DEF Migrating, Text, Checksum
<1>3. QED
  BY <1>1, <1>2 DEF Migrating, Text, TypeOK

LEMMA StillComplete ==
  ASSUME TypeOK, [Next]_vars, NEW p \in Serves, Complete(p)
  PROVE  Complete(p)'
<1>1. \A v \in Applied : v \in Applied' /\ schema'[v] = schema[v]
  BY SchemaKept DEF Applied
<1>2. QED
  BY <1>1 DEF Complete

\* With its next migration applied as it ships it, a process goes on, or is done.
LEMMA Advanced ==
  ASSUME TypeOK, [Next]_vars, NEW p \in Process, Migrating(p), At(p, "migrate"), Advance(p),
         schema'[proc[p].next] = Text(p, proc[p].next),
         \A v \in Applied' : 1 .. v \subseteq Applied'
  PROVE  /\ At(p, "migrate")' => Migrating(p)'
         /\ p \in Serves /\ proc'[p].pc \notin {"down", "migrate"} => Complete(p)'
<1> DEFINE n == proc[p].next
           d == proc[p].dim
<1>1. n \in Nat /\ n \in 1 .. Ships[p] /\ Ships[p] \in Nat /\ n \in Version
  BY Parameters DEF Migrating
<1>2. \A v \in Version : schema[v] # None => schema'[v] = schema[v]
  BY SchemaKept
<1>3. ASSUME NEW v \in 1 .. n PROVE v \in Version /\ schema'[v] = Checksum(d, v)
  <2>1. v \in 1 .. Ships[p] /\ v \in Version
    BY <1>1, Parameters
  <2>2. CASE v = n
    BY <2>1, <2>2 DEF Text
  <2>3. CASE v # n
    <3>1. v \in 1 .. n - 1
      BY <1>1, <2>3
    <3>2. schema[v] = Text(p, v) /\ Text(p, v) # None
      BY <2>1, <3>1, Parameters, NoneAssumption DEF Migrating, Text, Checksum
    <3>3. QED
      BY <1>2, <2>1, <3>2 DEF Text
  <2>4. QED
    BY <2>2, <2>3
<1>4. CASE n < Ships[p]
  <2>1. proc'[p] = [proc[p] EXCEPT !.next = n + 1]
    BY <1>4 DEF Advance, TypeOK
  <2>2. /\ proc'[p].pc = "migrate" /\ proc'[p].dim = d /\ proc'[p].next = n + 1
        /\ proc'[p].view = proc[p].view
    BY <2>1 DEF TypeOK, ProcState, At
  <2>3. n + 1 \in 1 .. Ships[p] /\ (n + 1) - 1 = n
    BY <1>1, <1>4
  <2>4. \A v \in Version : proc[p].view[v] # None => schema'[v] = proc[p].view[v]
    BY <1>2 DEF Migrating
  <2>5. Migrating(p)'
    BY <1>3, <2>2, <2>3, <2>4 DEF Migrating, Text
  <2>6. QED
    BY <2>2, <2>5
<1>5. CASE ~(n < Ships[p])
  <2>1. n = Ships[p]
    BY <1>1, <1>5
  <2>2. proc'[p].pc \in {"count", "down"}
    BY <1>5 DEF Advance, Goto, Fresh, TypeOK
  <2>3. d \in Dimensions[p]
    BY DEF Migrating
  <2>4. ASSUME NEW v \in 1 .. Ships[p] PROVE v \in Applied' /\ schema'[v] = Checksum(d, v)
    <3>1. v \in Version /\ schema'[v] = Checksum(d, v)
      BY <1>3, <2>1
    <3>2. Checksum(d, v) # None
      BY <2>3, <3>1, Parameters, NoneAssumption DEF Checksum
    <3>3. QED
      BY <3>1, <3>2 DEF Applied
  <2>5. Complete(p)'
    BY <2>3, <2>4 DEF Complete
  <2>6. QED
    BY <2>2, <2>5 DEF At
<1>6. QED
  BY <1>4, <1>5

\* Every step of another kind leaves the schema, and takes a process that was up
\* to no step before Bootstrap but "down".
LEMMA OtherSteps ==
  ASSUME TypeOK, [Next]_vars
  PROVE  \/ UNCHANGED <<schema, proc>>
         \/ \E p \in Process : Migrate(p)
         \/ \E p \in Process :
              /\ UNCHANGED schema
              /\ \A q \in Process \ {p} : proc'[q] = proc[q]
              /\ \/ proc'[p].pc = "down"
                 \/ /\ proc[p].pc \notin {"down", "migrate"}
                    /\ proc'[p].pc \notin {"down", "migrate"}
<1> USE DEF TypeOK, tables, history
<1>1. ASSUME NEW p \in Process, NEW pc, Goto(p, pc)
      PROVE  proc'[p].pc = pc /\ \A q \in Process \ {p} : proc'[q] = proc[q]
  BY <1>1 DEF Goto, Fresh
<1>2. ASSUME NEW p \in Process, Bootstrap(p) \/ BootstrapFails(p) \/ Stop(p)
      PROVE  /\ UNCHANGED schema
             /\ \A q \in Process \ {p} : proc'[q] = proc[q]
             /\ \/ proc'[p].pc = "down"
                \/ /\ proc[p].pc \notin {"down", "migrate"}
                   /\ proc'[p].pc \notin {"down", "migrate"}
  <2>1. CASE CountKeys(p)
    BY <1>1, <2>1 DEF CountKeys, At
  <2>2. CASE BootstrapTeam(p) \/ BootstrapUser(p) \/ ShowKey(p)
    BY <1>1, <2>2 DEF BootstrapTeam, BootstrapUser, ShowKey, At
  <2>3. CASE BootstrapKey(p)
    <3>1. ASSUME NEW k \in Key, proc' = [proc EXCEPT ![p].pc = "show", ![p].key = k]
          PROVE  proc'[p].pc = "show" /\ \A q \in Process \ {p} : proc'[q] = proc[q]
      BY <3>1 DEF ProcState
    <3>2. QED
      BY <1>1, <2>3, <3>1 DEF BootstrapKey, At
  <2>4. CASE BootstrapFails(p) \/ Stop(p)
    BY <1>1, <2>4 DEF BootstrapFails, Stop
  <2>5. QED
    BY <1>2, <2>1, <2>2, <2>3, <2>4 DEF Bootstrap
<1>3. ASSUME NEW r \in Request,
             \/ \E p \in Talks[r], k \in Key, genuine \in BOOLEAN, op \in Asked[r] :
                  Present(r, p, k, genuine, op)
             \/ Authenticate(r) \/ Handler(r)
      PROVE  UNCHANGED <<schema, proc>>
  BY <1>3 DEF Present, Authenticate, AuthRead, AuthVerify, Handler, CreateTeam, CreateUser,
              IssueKey, RevokeKey
<1>4. QED
  BY <1>2, <1>3 DEF Next, vars

LEMMA NextSchemaInv ==
  ASSUME TypeOK, SchemaInv, [Next]_vars
  PROVE  SchemaInv'
<1>1. CASE UNCHANGED <<schema, proc>>
  <2>1. Applied' = Applied
    BY <1>1 DEF Applied
  <2>2. QED
    BY <1>1, <2>1 DEF SchemaInv, At, Migrating, Complete, Text
<1>2. ASSUME NEW p \in Process, \A q \in Process \ {p} : proc'[q] = proc[q],
             \A v \in Applied' : 1 .. v \subseteq Applied',
             At(p, "migrate")' => Migrating(p)',
             p \in Serves /\ proc'[p].pc \notin {"down", "migrate"} => Complete(p)'
      PROVE  SchemaInv'
  <2>1. ASSUME NEW q \in Process, At(q, "migrate")' PROVE Migrating(q)'
    BY <1>2, <2>1, StillMigrating DEF SchemaInv, At
  <2>2. ASSUME NEW q \in Serves, proc'[q].pc \notin {"down", "migrate"} PROVE Complete(q)'
    BY <1>2, <2>2, StillComplete, Parameters DEF SchemaInv
  <2>3. QED
    BY <1>2, <2>1, <2>2 DEF SchemaInv
<1>3. ASSUME UNCHANGED schema PROVE Applied' = Applied
  BY <1>3 DEF Applied
<1>4. ASSUME NEW p \in Process, NEW pc, Goto(p, pc)
      PROVE  proc'[p].pc = pc /\ \A q \in Process \ {p} : proc'[q] = proc[q]
  BY <1>4 DEF Goto, Fresh, TypeOK
<1>5. ASSUME NEW p \in Process, UNCHANGED schema, \A q \in Process \ {p} : proc'[q] = proc[q],
             \/ proc'[p].pc = "down"
             \/ /\ proc[p].pc \notin {"down", "migrate"}
                /\ proc'[p].pc \notin {"down", "migrate"}
      PROVE  SchemaInv'
  <2>1. p \in Serves /\ proc'[p].pc \notin {"down", "migrate"} => Complete(p)'
    BY <1>5, StillComplete DEF SchemaInv
  <2>2. \A v \in Applied' : 1 .. v \subseteq Applied'
    BY <1>3, <1>5 DEF SchemaInv
  <2>3. QED
    BY <1>2, <1>5, <2>1, <2>2 DEF At
<1>6. ASSUME NEW p \in Process, Start(p) PROVE SchemaInv'
  <2>1. \A v \in Applied' : 1 .. v \subseteq Applied'
    BY <1>3, <1>6 DEF Start, SchemaInv
  <2>2. CASE p \in Serves \ MigrateOnStart
    <3>1. Goto(p, IF Expected(p) THEN "count" ELSE "down")
      BY <1>6, <2>2 DEF Start
    <3>2. Expected(p) => Complete(p)
      <4>1. ASSUME Expected(p), NEW v \in 1 .. Ships[p] PROVE v \in Applied
        <5>1. PICK w \in Applied : v <= w
          BY <4>1 DEF Expected
        <5>2. w \in Nat /\ v \in Nat /\ 1 <= v
          BY Parameters DEF Applied
        <5>3. QED
          BY <5>1, <5>2 DEF SchemaInv
      <4>2. QED
        BY <2>2, <4>1 DEF Complete
    <3>3. Expected(p) => Complete(p)'
      BY <2>2, <3>2, StillComplete
    <3>4. proc'[p].pc = IF Expected(p) THEN "count" ELSE "down"
      BY <1>4, <3>1
    <3>5. \A q \in Process \ {p} : proc'[q] = proc[q]
      BY <1>4, <3>1
    <3>6. QED
      BY <1>2, <2>1, <3>3, <3>4, <3>5 DEF At
  <2>3. ASSUME NEW dim \in Dimensions[p],
               proc' = [proc EXCEPT ![p] =
                 [pc |-> "migrate", view |-> schema, next |-> 1, key |-> None, dim |-> dim]]
        PROVE  SchemaInv'
    <3>1. proc'[p] = [pc |-> "migrate", view |-> schema, next |-> 1, key |-> None, dim |-> dim]
      BY <2>3 DEF TypeOK
    <3>2. 1 \in 1 .. Ships[p]
      BY Parameters
    <3>3. Migrating(p)'
      BY <1>6, <2>3, <3>1, <3>2 DEF Migrating, Start
    <3>4. QED
      BY <1>2, <2>1, <2>3, <3>1, <3>3 DEF At, TypeOK
  <2>4. QED
    BY <1>6, <2>2, <2>3 DEF Start
<1>7. ASSUME NEW p \in Process, Advance(p)
      PROVE  \A q \in Process \ {p} : proc'[q] = proc[q]
  BY <1>4, <1>7 DEF Advance, TypeOK
<1>8. ASSUME NEW p \in Process, MigrateSkip(p) PROVE SchemaInv'
  <2> DEFINE n == proc[p].next
  <2>1. \A v \in Applied' : 1 .. v \subseteq Applied'
    BY <1>3, <1>8 DEF MigrateSkip, SchemaInv
  <2>2. Migrating(p) /\ At(p, "migrate")
    BY <1>8 DEF MigrateSkip, SchemaInv
  <2>3. CASE Goto(p, "down")
    BY <1>2, <1>4, <2>1, <2>3 DEF At
  <2>4. CASE Advance(p) /\ proc[p].view[n] = Text(p, n)
    <3>1. n \in Version
      BY <2>2, Parameters DEF Migrating
    <3>2. schema'[n] = Text(p, n)
      BY <1>8, <2>2, <2>4, <3>1 DEF MigrateSkip, Migrating
    <3>3. QED
      BY <1>2, <1>7, <2>1, <2>2, <2>4, <3>2, Advanced
  <2>5. QED
    BY <1>8, <2>3, <2>4 DEF MigrateSkip
<1>9. ASSUME NEW p \in Process, ApplyOne(p) PROVE SchemaInv'
  <2> DEFINE n == proc[p].next
  <2>1. Migrating(p) /\ At(p, "migrate")
    BY <1>9 DEF ApplyOne, SchemaInv
  <2>2. n \in Version /\ n \in Nat /\ Text(p, n) # None
    BY <2>1, Parameters, NoneAssumption DEF Migrating, Text, Checksum
  <2>3. \A v \in 1 .. n - 1 : v \in Applied
    <3>1. ASSUME NEW v \in 1 .. n - 1 PROVE v \in 1 .. Ships[p]
      BY <2>1, <3>1, Parameters DEF Migrating
    <3>2. QED
      BY <2>1, <3>1, Parameters, NoneAssumption DEF Migrating, Applied, Text, Checksum
  <2>4. ASSUME schema' = [schema EXCEPT ![n] = Text(p, n)]
        PROVE  \A v \in Applied' : 1 .. v \subseteq Applied'
    <3>1. Applied' = Applied \cup {n}
      BY <2>2, <2>4 DEF Applied, TypeOK
    <3>2. 1 .. n \subseteq Applied'
      <4>1. \A v \in 1 .. n : v = n \/ v \in 1 .. n - 1
        BY <2>2
      <4>2. QED
        BY <2>3, <3>1, <4>1
    <3>3. QED
      BY <3>1, <3>2 DEF SchemaInv
  <2>5. \A v \in Applied' : 1 .. v \subseteq Applied'
    BY <1>3, <1>9, <2>4 DEF ApplyOne, SchemaInv
  <2>6. CASE Goto(p, "down")
    BY <1>2, <1>4, <2>5, <2>6 DEF At
  <2>7. CASE Advance(p) /\ schema' = [schema EXCEPT ![n] = Text(p, n)]
    <3>1. schema'[n] = Text(p, n)
      BY <2>2, <2>7 DEF TypeOK
    <3>2. QED
      BY <1>2, <1>7, <2>1, <2>5, <2>7, <3>1, Advanced
  <2>8. QED
    BY <1>9, <2>6, <2>7 DEF ApplyOne
<1>10. QED
  BY <1>1, <1>5, <1>6, <1>8, <1>9, OtherSteps DEF Migrate

-----------------------------------------------------------------------------
(* Bootstrap and the keys *)

Asks(r) ==
  \/ \E p \in Talks[r], k \in Key, genuine \in BOOLEAN, op \in Asked[r] :
       Present(r, p, k, genuine, op)
  \/ Authenticate(r) \/ Handler(r)

\* A request writes keys only as an admin with a key of its own.
LEMMA RequestKeys ==
  ASSUME TypeOK, NEW r \in Request, CallInv(r), Asks(r)
  PROVE  /\ UNCHANGED <<proc, minted, beside>>
         /\ keys' = keys \/ \E k \in Key : keys[k] # None
         /\ \A k \in Key : keys'[k] # None =>
              keys[k] # None \/ (keys'[k].user \in User /\ users[keys'[k].user] # None)
<1> USE DEF tables, history
<1>1. CASE UNCHANGED <<keys, proc, minted, beside>>
  BY <1>1
<1>2. call[r].pc = "handle" => \E k \in Key : keys[k] # None
  BY DEF CallInv, Waiting
<1>3. CASE IssueKey(r)
  <2> DEFINE u == call[r].op.user
  <2>1. u \in User
    BY <1>3, OpFields DEF IssueKey, Handles, TypeOK, CallState
  <2>2. ASSUME NEW j \in Key, Insert(j, u), users[u] # None, NEW k \in Key, keys'[k] # None
        PROVE  keys[k] # None \/ (keys'[k].user \in User /\ users[keys'[k].user] # None)
    BY SMTT(60), <2>1, <2>2 DEF Insert, TypeOK
  <2>3. QED
    BY <1>2, <1>3, <2>2 DEF IssueKey, Handles
<1>4. CASE RevokeKey(r)
  BY <1>2, <1>4 DEF RevokeKey, Handles, TypeOK
<1>5. QED
  BY <1>1, <1>3, <1>4 DEF Asks, Present, Authenticate, AuthRead, AuthVerify, Handler, CreateTeam,
     CreateUser

\* A step before Bootstrap or out of it leaves the keys and whoever else is in it.
LEMMA QuietSteps ==
  ASSUME TypeOK, NEW p \in Process, Migrate(p) \/ BootstrapFails(p) \/ Stop(p)
  PROVE  /\ UNCHANGED <<users, keys, minted, beside>>
         /\ \A q \in Process \ {p} : proc'[q] = proc[q]
         /\ proc'[p].pc \in {"down", "migrate", "count", "serving"}
<1> USE DEF tables, history, TypeOK
<1>1. ASSUME NEW pc, Goto(p, pc)
      PROVE  proc'[p].pc = pc /\ \A q \in Process \ {p} : proc'[q] = proc[q]
  BY <1>1 DEF Goto, Fresh
<1>2. ASSUME Advance(p), At(p, "migrate")
      PROVE  /\ \A q \in Process \ {p} : proc'[q] = proc[q]
             /\ proc'[p].pc \in {"down", "migrate", "count"}
  <2>1. CASE proc[p].next < Ships[p]
    <3>1. proc'[p] = [proc[p] EXCEPT !.next = proc[p].next + 1]
      BY <1>2, <2>1 DEF Advance
    <3>2. QED
      BY <1>2, <2>1, <3>1 DEF Advance, At, ProcState
  <2>2. QED
    BY <1>1, <1>2, <2>1 DEF Advance
<1>3. CASE Start(p)
  BY <1>1, <1>3 DEF Start
<1>4. CASE MigrateSkip(p) \/ ApplyOne(p)
  BY <1>1, <1>2, <1>4 DEF MigrateSkip, ApplyOne
<1>5. CASE BootstrapFails(p) \/ Stop(p)
  BY <1>1, <1>5 DEF BootstrapFails, Stop
<1>6. QED
  BY <1>3, <1>4, <1>5 DEF Migrate

LEMMA BootstrapSteps ==
  ASSUME TypeOK, NEW p \in Process, Bootstrap(p)
  PROVE  /\ \A q \in Process \ {p} : proc'[q] = proc[q]
         /\ \/ CountKeys(p) /\ UNCHANGED <<users, keys, minted>>
               /\ proc'[p].pc \in {"serving", "team"}
            \/ BootstrapTeam(p) /\ UNCHANGED <<users, keys, minted, beside>>
               /\ proc[p].pc = "team" /\ proc'[p].pc = "user"
            \/ BootstrapUser(p) /\ UNCHANGED <<keys, minted, beside>>
               /\ proc[p].pc = "user" /\ proc'[p].pc = "key" /\ users'[Admin] # None
            \/ BootstrapKey(p) /\ UNCHANGED <<users, beside>> /\ proc[p].pc = "key"
               /\ \/ /\ proc'[p].pc = "serving" /\ UNCHANGED <<keys, minted>>
                  \/ /\ proc'[p].pc = "show"
                     /\ \E k \in Key : Unused(k) /\ Insert(k, Admin) /\ minted' = minted \cup {k}
                                         /\ proc'[p].key = k
            \/ ShowKey(p) /\ UNCHANGED <<users, keys, minted, beside>>
               /\ proc[p].pc = "show" /\ proc'[p].pc = "serving"
<1> USE DEF tables, history, TypeOK
<1>1. ASSUME NEW pc, Goto(p, pc)
      PROVE  proc'[p].pc = pc /\ \A q \in Process \ {p} : proc'[q] = proc[q]
  BY <1>1 DEF Goto, Fresh
<1>2. CASE CountKeys(p)
  BY <1>1, <1>2 DEF CountKeys
<1>3. CASE BootstrapTeam(p)
  BY <1>1, <1>3 DEF BootstrapTeam, At
<1>4. CASE BootstrapUser(p)
  <2>1. users'[Admin] # None
    <3>1. [team |-> Default, admin |-> TRUE] \in UserRow
      BY BootstrapAssumption DEF UserRow
    <3>2. [team |-> Default, admin |-> TRUE] # None
      BY <3>1, Parameters
    <3>3. QED
      BY <1>4, <3>2, BootstrapAssumption DEF BootstrapUser
  <2>2. QED
    BY <1>1, <1>4, <2>1 DEF BootstrapUser, At
<1>5. CASE BootstrapKey(p)
  <2>1. ASSUME NEW k \in Key, proc' = [proc EXCEPT ![p].pc = "show", ![p].key = k]
        PROVE  /\ proc'[p].pc = "show" /\ proc'[p].key = k
               /\ \A q \in Process \ {p} : proc'[q] = proc[q]
    BY <2>1 DEF ProcState
  <2>2. QED
    BY <1>1, <1>5, <2>1 DEF BootstrapKey, At
<1>6. CASE ShowKey(p)
  BY <1>1, <1>6 DEF ShowKey, At
<1>7. QED
  BY <1>2, <1>3, <1>4, <1>5, <1>6 DEF Bootstrap

\* Alone in Bootstrap, a process mints one key, and finds it ever after.
LEMMA NextAlone ==
  ASSUME TypeOK, KeyInv, \A r \in Request : CallInv(r), [Next]_vars, ~beside'
  PROVE  AloneInv'
<1>1. CASE UNCHANGED <<proc, keys, minted, beside>>
  BY <1>1 DEF KeyInv, AloneInv, Booting, Minting
<1>2. ASSUME NEW r \in Request, Asks(r) PROVE AloneInv'
  <2>1. UNCHANGED <<proc, minted>> /\ AloneInv
    BY <1>2, RequestKeys DEF KeyInv
  <2>2. ASSUME NEW p \in Process, Minting(p) PROVE keys' = keys
    BY <1>2, <2>1, <2>2, RequestKeys DEF AloneInv
  <2>3. QED
    BY <2>1, <2>2 DEF AloneInv, Booting, Minting
<1>3. ASSUME NEW p \in Process, UNCHANGED <<keys, minted, beside>>,
             \A q \in Process \ {p} : proc'[q] = proc[q],
             Booting(p)' => Booting(p), Minting(p)' => Minting(p)
      PROVE  AloneInv'
  <2>1. AloneInv
    BY <1>3 DEF KeyInv
  <2>2. \A q \in Process : (Booting(q)' => Booting(q)) /\ (Minting(q)' => Minting(q))
    BY <1>3 DEF Booting, Minting
  <2>3. QED
    BY <1>3, <2>1, <2>2 DEF AloneInv
<1>4. ASSUME NEW p \in Process, Migrate(p) \/ BootstrapFails(p) \/ Stop(p) PROVE AloneInv'
  BY <1>3, <1>4, QuietSteps DEF Booting, Minting
<1>5. ASSUME NEW p \in Process, CountKeys(p), Bootstrap(p) PROVE AloneInv'
  <2>1. /\ AloneInv /\ UNCHANGED <<keys, minted>>
        /\ \A q \in Process \ {p} : ~Booting(q)
    BY <1>5 DEF CountKeys, NoteBeside, KeyInv, TypeOK, tables
  <2>2. \A q \in Process \ {p} : proc'[q] = proc[q]
    BY <1>5, BootstrapSteps
  <2>3. Minting(p)' => \A k \in Key : keys[k] = None
    BY <1>5 DEF CountKeys, Goto, Fresh, Minting, TypeOK
  <2>4. \A q \in Process : Booting(q)' => q = p
    BY <2>1, <2>2 DEF Booting
  <2>5. \A q \in Process : Minting(q) => Booting(q)
    BY DEF Minting, Booting
  <2>6. \A q \in Process : Minting(q)' => q = p
    BY <2>4 DEF Minting, Booting
  <2>7. QED
    BY <2>1, <2>3, <2>4, <2>6 DEF AloneInv
<1>6. ASSUME NEW p \in Process, BootstrapKey(p), Bootstrap(p), NEW k \in Key, Insert(k, Admin),
             minted' = minted \cup {k}, proc'[p].pc = "show", proc[p].pc = "key", UNCHANGED beside
      PROVE  AloneInv'
  <2>1. AloneInv /\ \A j \in Key : keys[j] = None
    BY <1>6 DEF KeyInv, AloneInv, Minting
  <2>2. minted = {}
    BY <2>1 DEF KeyInv, TypeOK
  <2>3. \A q \in Process \ {p} : proc'[q] = proc[q]
    BY <1>6, BootstrapSteps
  <2>4. \A q \in Process \ {p} : ~Booting(q)'
    BY <1>6, <2>1, <2>3 DEF AloneInv, Booting
  <2>5. \A q \in Process : ~Minting(q)'
    BY <1>6, <2>4 DEF Minting, Booting
  <2>6. QED
    BY <1>6, <2>2, <2>4, <2>5 DEF AloneInv
<1>7. ASSUME NEW p \in Process, Bootstrap(p) PROVE AloneInv'
  BY <1>3, <1>5, <1>6, <1>7, BootstrapSteps DEF Booting, Minting
<1>8. QED
  BY <1>1, <1>2, <1>4, <1>7 DEF Next, vars, tables, history, Asks

LEMMA NextKeyInv ==
  ASSUME TypeOK, KeyInv, \A r \in Request : CallInv(r), [Next]_vars
  PROVE  KeyInv'
<1> USE DEF TypeOK
<1>1. \A u \in User : users[u] # None => users'[u] # None
  BY RowsKept
<1>2. \A k \in Key : keys[k] # None => keys'[k] # None /\ keys'[k].user = keys[k].user
  BY RowsKept
<1>3. \A k \in Key : keys[k] # None => keys[k].user \in User
  BY DEF KeyRow
<1>4. ASSUME UNCHANGED <<proc, minted>>,
             \A k \in Key : keys'[k] # None =>
               keys[k] # None \/ (keys'[k].user \in User /\ users[keys'[k].user] # None)
      PROVE  KeyInv'
  BY <1>1, <1>2, <1>3, <1>4, NextAlone, BootstrapAssumption DEF KeyInv, At
<1>5. ASSUME NEW p \in Process, UNCHANGED <<keys, minted>>,
             \A q \in Process \ {p} : proc'[q] = proc[q],
             proc'[p].pc = "key" => users'[Admin] # None, proc'[p].pc # "show"
      PROVE  KeyInv'
  BY <1>1, <1>3, <1>5, NextAlone, BootstrapAssumption DEF KeyInv, At
<1>6. ASSUME NEW p \in Process, Bootstrap(p), NEW k \in Key, Insert(k, Admin),
             minted' = minted \cup {k}, proc'[p].pc = "show", proc'[p].key = k,
             proc[p].pc = "key", UNCHANGED users
      PROVE  KeyInv'
  <2>1. keys'[k] = [user |-> Admin, revoked |-> FALSE] /\ users[Admin] # None
    BY <1>6 DEF Insert, KeyInv, At
  <2>2. \A j \in Key \ {k} : keys'[j] = keys[j]
    BY <1>6 DEF Insert
  <2>3. keys'[k] # None
    <3>1. [user |-> Admin, revoked |-> FALSE] \in KeyRow
      BY BootstrapAssumption DEF KeyRow
    <3>2. QED
      BY <2>1, <3>1, Parameters
  <2>4. \A q \in Process \ {p} : proc'[q] = proc[q]
    BY <1>6, BootstrapSteps
  <2>5. \A j \in Key : keys'[j] # None => users'[keys'[j].user] # None
    BY <1>6, <2>1, <2>2 DEF KeyInv
  <2>6. QED
    BY <1>1, <1>6, <2>2, <2>3, <2>4, <2>5, NextAlone, BootstrapAssumption DEF KeyInv, At
<1>7. ASSUME NEW p \in Process, Bootstrap(p) PROVE KeyInv'
  BY <1>5, <1>6, <1>7, BootstrapSteps
<1>8. ASSUME NEW p \in Process, Migrate(p) \/ BootstrapFails(p) \/ Stop(p) PROVE KeyInv'
  BY <1>5, <1>8, QuietSteps
<1>9. ASSUME NEW r \in Request, Asks(r) PROVE KeyInv'
  BY <1>4, <1>9, RequestKeys
<1>10. CASE UNCHANGED vars
  BY <1>4, <1>10 DEF vars, tables, history
<1>11. QED
  BY <1>7, <1>8, <1>9, <1>10 DEF Next, Asks

-----------------------------------------------------------------------------
(* The requests *)

CacheInv == \A p \in Process : \A token \in cache[p] : token[2]

\* What a step leaves of a request that it does not move.
LEMMA CallStays ==
  ASSUME TypeOK, KeyInv, [Next]_vars, NEW r \in Request, CallInv(r), call'[r] = call[r]
  PROVE  CallInv(r)'
<1> DEFINE k == call[r].key
<1>1. CASE call[r].pc \in Waiting /\ keys[k] # None
  <2>1. /\ k \in Key /\ keys'[k] # None /\ keys'[k].user = keys[k].user
        /\ keys[k].revoked => keys'[k].revoked
    BY <1>1, RowsKept DEF CallInv
  <2>2. users'[keys'[k].user] = users[keys[k].user]
    <3>1. keys[k].user \in User /\ users[keys[k].user] # None
      BY <1>1, <2>1 DEF KeyInv, TypeOK, KeyRow
    <3>2. QED
      BY <2>1, <3>1, RowsKept
  <2>3. QED
    BY <1>1, <2>1, <2>2 DEF CallInv, Caller
<1>2. CASE ~(call[r].pc \in Waiting /\ keys[k] # None)
  BY <1>2 DEF CallInv, Waiting
<1>3. QED
  BY <1>1, <1>2

LEMMA CallEnds ==
  ASSUME TypeOK, NEW r \in Request, NEW pc \in {"new", "refused", "forbidden", "answered"},
         call'[r] = Over(pc)
  PROVE  CallInv(r)'
  BY SMTT(60) DEF CallInv, Over, Waiting

\* A key that is cached was verified with its genuine plaintext.
LEMMA NextCacheInv ==
  ASSUME TypeOK, CacheInv, [Next]_vars
  PROVE  CacheInv'
<1> USE DEF TypeOK
<1>1. ASSUME NEW r \in Request, AuthVerify(r), cache' # cache PROVE CacheInv'
  <2> DEFINE c == call[r]
             token == <<c.key, c.genuine>>
  <2>1. PICK after \in Cached(cache[c.server], token) :
          cache' = [cache EXCEPT ![c.server] = after] /\ c.genuine
    BY <1>1 DEF AuthVerify
  <2>2. after \subseteq cache[c.server] \cup {token}
    BY <2>1 DEF Cached
  <2>3. token[2]
    BY <2>1
  <2>4. ASSUME NEW p \in Process, NEW t \in cache'[p] PROVE t[2]
    <3>1. CASE p = c.server
      BY <2>1, <2>2, <2>3, <2>4, <3>1 DEF CacheInv
    <3>2. CASE p # c.server
      BY <2>1, <2>4, <3>2 DEF CacheInv
    <3>3. QED
      BY <3>1, <3>2
  <2>5. QED
    BY <2>4 DEF CacheInv
<1>2. ASSUME NEW p \in Process, Stop(p) PROVE CacheInv'
  BY <1>2 DEF Stop, CacheInv
<1>3. CASE UNCHANGED cache
  BY <1>3 DEF CacheInv
<1>4. QED
  BY ZenonT(60), <1>1, <1>2, <1>3 DEF Next, vars, tables, history, Migrate, Start, MigrateSkip, ApplyOne,
     Bootstrap, CountKeys, BootstrapTeam, BootstrapUser, BootstrapKey, ShowKey, BootstrapFails,
     Present, Authenticate, AuthRead, Handler, CreateTeam, CreateUser, IssueKey, RevokeKey

LEMMA NextCallInv ==
  ASSUME TypeOK, KeyInv, CacheInv, \A r \in Request : CallInv(r), [Next]_vars,
         NEW r \in Request
  PROVE  CallInv(r)'
<1> USE DEF TypeOK
<1> DEFINE c == call[r]
<1>1. CASE call'[r] = call[r]
  BY <1>1, CallStays
<1>2. ASSUME NEW pc \in {"new", "refused", "forbidden", "answered"}, Answer(r, pc)
      PROVE  CallInv(r)'
  BY <1>2, CallEnds DEF Answer
<1>3. ASSUME NEW p \in Talks[r], NEW k \in Key, NEW genuine \in BOOLEAN, NEW op \in Asked[r],
             Present(r, p, k, genuine, op)
      PROVE  CallInv(r)'
  <2>1. call'[r] = [pc |-> "read", server |-> p, key |-> k, genuine |-> genuine, op |-> op,
                    late |-> keys[k] # None /\ keys[k].revoked]
        /\ UNCHANGED keys
    BY <1>3 DEF Present, tables
  <2>2. p \in Process
    BY Parameters
  <2>3. /\ call'[r].pc = "read" /\ call'[r].server = p /\ call'[r].key = k
        /\ call'[r].late = (keys[k] # None /\ keys[k].revoked)
    BY <2>1
  <2>4. call'[r].late => keys'[k] # None /\ keys'[k].revoked
    BY <2>1, <2>3
  <2>5. QED
    BY <2>2, <2>3, <2>4 DEF CallInv, Waiting
<1>4. ASSUME NEW pc \in {"verify", "handle"}, Goon(r, pc)
      PROVE  /\ call'[r].pc = pc /\ call'[r].key = c.key /\ call'[r].server = c.server
             /\ call'[r].late = c.late
  <2>1. call'[r] = [call[r] EXCEPT !.pc = pc]
    BY <1>4 DEF Goon
  <2>2. QED
    BY <2>1 DEF CallState
<1>5. CASE AuthRead(r)
  <2>1. CASE Goon(r, "verify") /\ keys[c.key] # None /\ ~keys[c.key].revoked
    <3>1. UNCHANGED <<keys, users>> /\ c.pc = "read"
      BY <1>5 DEF AuthRead, tables
    <3>2. QED
      BY <1>4, <2>1, <3>1 DEF CallInv, Waiting
  <2>2. QED
    BY <1>2, <1>5, <2>1 DEF AuthRead
<1>6. CASE AuthVerify(r)
  <2>1. CASE Goon(r, "handle") /\ Caller(r).admin
    <3>1. UNCHANGED <<keys, users>> /\ c.pc = "verify"
      BY <1>6 DEF AuthVerify, tables
    <3>2. QED
      BY <1>4, <2>1, <3>1 DEF CallInv, Waiting, Caller
  <2>2. QED
    BY <1>2, <1>6, <2>1 DEF AuthVerify, Admit
<1>7. CASE Handler(r)
  BY <1>2, <1>7 DEF Handler, CreateTeam, CreateUser, IssueKey, RevokeKey
<1>8. ASSUME NEW q \in Request \ {r}, Asks(q) PROVE call'[r] = call[r]
  BY <1>8 DEF Asks, Present, Authenticate, AuthRead, AuthVerify, Admit, Goon, Answer, Handler,
     CreateTeam, CreateUser, IssueKey, RevokeKey
<1>9. ASSUME NEW p \in Process, Stop(p) PROVE CallInv(r)'
  <2>1. call'[r] = call[r] \/ call'[r] = Over("new")
    BY <1>9 DEF Stop, NoCall
  <2>2. QED
    BY <1>1, <2>1, CallEnds
<1>10. ASSUME NEW p \in Process, Migrate(p) \/ Bootstrap(p) \/ BootstrapFails(p)
       PROVE  call'[r] = call[r]
  BY <1>10 DEF Migrate, Start, MigrateSkip, ApplyOne, Bootstrap, CountKeys, BootstrapTeam,
     BootstrapUser, BootstrapKey, ShowKey, BootstrapFails
<1>11. QED
  BY <1>1, <1>3, <1>5, <1>6, <1>7, <1>8, <1>9, <1>10 DEF Next, vars, Asks, Authenticate

-----------------------------------------------------------------------------
(* The results *)

LEMMA AccountsInductive ==
  /\ Init => AccountsInv
  /\ AccountsInv /\ [Next]_vars => AccountsInv'
<1>1. Init => AccountsInv
  <2> SUFFICES ASSUME Init PROVE AccountsInv
    OBVIOUS
  <2>1. Applied = {}
    BY DEF Init, Applied
  <2>2. \A p \in Process : proc[p].pc = "down"
    BY DEF Init, Fresh
  <2>3. SchemaInv
    BY <2>1, <2>2, Parameters DEF SchemaInv, At
  <2>4. KeyInv
    BY <2>2 DEF Init, KeyInv, AloneInv, At, Booting, Minting
  <2>5. \A r \in Request : CallInv(r)
    BY DEF Init, CallInv, NoCall, Over, Waiting
  <2>6. QED
    BY <2>3, <2>4, <2>5, InitTypeOK DEF AccountsInv, Init
<1>2. AccountsInv /\ [Next]_vars => TypeOK'
  <2> SUFFICES ASSUME AccountsInv, [Next]_vars PROVE TypeOK'
    OBVIOUS
  <2>1. CASE UNCHANGED vars
    BY <2>1 DEF vars, tables, history, TypeOK, AccountsInv
  <2>2. QED
    BY <2>1, ProcessTypeOK, RequestTypeOK DEF AccountsInv, Next
<1>3. QED
  BY <1>1, <1>2, NextSchemaInv, NextKeyInv, NextCacheInv, NextCallInv DEF AccountsInv, CacheInv

\* Every state of the servers, the tables and the requests has its type.
THEOREM TypeCorrect == Spec => []TypeOK
<1>1. AccountsInv => TypeOK
  BY DEF AccountsInv
<1>2. QED
  BY <1>1, AccountsInductive, PTL DEF Spec

\* Whatever starts, stops and fails side by side, a server that answers has the
\* schema of its release with no migration left out, and a second admin key is
\* minted only when two processes were in Bootstrap at a time.
THEOREM StartSoundCorrect == Spec => []StartSound
<1>1. AccountsInv => ServingHasSchema
  <2> SUFFICES ASSUME AccountsInv PROVE ServingHasSchema
    OBVIOUS
  <2>1. ASSUME NEW p \in Serves, At(p, "serving")
        PROVE  1 .. Ships[p] \subseteq Applied /\ (p \in MigrateOnStart => ~Foreign(p))
    BY <2>1 DEF AccountsInv, SchemaInv, Complete, Foreign, At
  <2>2. QED
    BY <2>1 DEF ServingHasSchema, AccountsInv, SchemaInv
<1>2. AccountsInv => OneAdminKey
  <2> SUFFICES ASSUME AccountsInv, ~beside PROVE ~(Cardinality(minted) > 1)
    BY DEF OneAdminKey, AccountsInv, TypeOK
  <2>1. \A j, k \in minted : j = k
    BY DEF AccountsInv, KeyInv, AloneInv
  <2>2. CASE minted = {}
    BY <2>2, FS_EmptySet
  <2>3. CASE minted # {}
    <3>1. PICK k : minted = {k}
      BY <2>1, <2>3
    <3>2. Cardinality({k}) = 1
      BY FS_Singleton
    <3>3. QED
      BY <3>1, <3>2
  <2>4. QED
    BY <2>2, <2>3
<1>3. QED
  BY <1>1, <1>2, AccountsInductive, PTL DEF Spec, StartSound

\* A request passes authentication only with the plaintext of a key that was not
\* revoked when it came, whatever the server has cached.
THEOREM LiveKeyRequiredCorrect == Spec => LiveKeyRequired
<1>1. AccountsInv /\ [Next]_vars => [LiveKeyRequiredStep]_vars
  <2> SUFFICES ASSUME AccountsInv, [Next]_vars, NEW r \in Request,
                      call[r].pc = "verify", call'[r].pc \in Accepted
               PROVE  call[r].genuine /\ ~call[r].late
    BY DEF LiveKeyRequiredStep
  <2> USE DEF AccountsInv, TypeOK
  <2> DEFINE token == <<call[r].key, call[r].genuine>>
  <2>1. call'[r] # call[r]
    BY DEF Accepted
  <2>2. CASE AuthVerify(r)
    <3>1. ~call[r].late
      BY DEF CallInv
    <3>2. ASSUME token \in cache[call[r].server] PROVE call[r].genuine
      <4>1. token[2]
        BY <3>2 DEF CallInv, Waiting
      <4>2. QED
        BY <4>1
    <3>3. ASSUME Answer(r, "refused") PROVE FALSE
      BY <3>3 DEF Answer, Over, Accepted
    <3>4. QED
      BY <2>2, <3>1, <3>2, <3>3 DEF AuthVerify
  <2>3. ASSUME NEW q \in Request, Asks(q), q # r PROVE call'[r] = call[r]
    BY <2>3 DEF Asks, Present, Authenticate, AuthRead, AuthVerify, Admit, Goon, Answer, Handler,
       CreateTeam, CreateUser, IssueKey, RevokeKey
  <2>4. ASSUME Asks(r), ~AuthVerify(r) PROVE FALSE
    BY <2>4 DEF Asks, Present, Waiting, Authenticate, AuthRead, Handler, Handles, CreateTeam,
       CreateUser, IssueKey, RevokeKey
  <2>5. ASSUME NEW p \in Process, Stop(p) PROVE FALSE
    <3>1. call'[r] = Over("new")
      BY <2>1, <2>5 DEF Stop, NoCall
    <3>2. QED
      BY <3>1 DEF Over, Accepted
  <2>6. ASSUME NEW p \in Process, Migrate(p) \/ Bootstrap(p) \/ BootstrapFails(p)
        PROVE  call'[r] = call[r]
    BY <2>6 DEF Migrate, Start, MigrateSkip, ApplyOne, Bootstrap, CountKeys, BootstrapTeam,
       BootstrapUser, BootstrapKey, ShowKey, BootstrapFails
  <2>7. QED
    BY <2>1, <2>2, <2>3, <2>4, <2>5, <2>6 DEF Next, vars, Asks
<1>2. QED
  BY <1>1, AccountsInductive, PTL DEF Spec, LiveKeyRequired

\* The first start aside, only an admin of a team writes the team's users and keys.
THEOREM TeamBoundaryCorrect == Spec => TeamBoundary
<1>1. AccountsInv /\ [Next]_vars => [TeamBoundaryStep]_vars
  <2> SUFFICES ASSUME AccountsInv, [Next]_vars PROVE TeamBoundaryStep
    OBVIOUS
  <2> USE DEF AccountsInv, TypeOK
  <2> DEFINE ByAdminOf(t) == \E r \in Request : call[r].pc = "handle" /\ call'[r].pc # "handle"
                               /\ Caller(r).admin /\ Caller(r).team = t
  <2>1. CASE UNCHANGED <<users, keys>>
    BY <2>1 DEF TeamBoundaryStep
  <2>2. ASSUME NEW p \in Process, BootstrapUser(p) PROVE TeamBoundaryStep
    <3>1. \A u \in User \ {Admin} : users'[u] = users[u]
      BY <2>2 DEF BootstrapUser
    <3>2. UNCHANGED keys /\ At(p, "user")
      BY <2>2 DEF BootstrapUser
    <3>3. QED
      BY <3>1, <3>2 DEF TeamBoundaryStep
  <2>3. ASSUME NEW p \in Process, BootstrapKey(p) PROVE TeamBoundaryStep
    <3>1. ASSUME NEW k \in Key, Insert(k, Admin), NEW j \in Key, keys'[j] # keys[j]
          PROVE  keys'[j].user = Admin
      BY <3>1 DEF Insert
    <3>2. UNCHANGED users /\ At(p, "key")
      BY <2>3 DEF BootstrapKey
    <3>3. \A j \in Key : keys'[j] # keys[j] => keys'[j].user = Admin
      BY <2>3, <3>1 DEF BootstrapKey
    <3>4. QED
      BY <3>2, <3>3 DEF TeamBoundaryStep
  <2>4. ASSUME NEW r \in Request, Handler(r)
        PROVE  call[r].pc = "handle" /\ call'[r].pc # "handle" /\ Caller(r).admin
    <3>1. call[r].pc = "handle"
      BY <2>4 DEF Handler, Handles, CreateTeam, CreateUser, IssueKey, RevokeKey
    <3>2. \E pc \in {"answered", "forbidden"} : Answer(r, pc)
      BY <2>4 DEF Handler, CreateTeam, CreateUser, IssueKey, RevokeKey
    <3>3. QED
      BY <3>1, <3>2 DEF Answer, Over, CallInv
  <2>5. ASSUME NEW r \in Request, CreateUser(r) PROVE TeamBoundaryStep
    <3> DEFINE op == call[r].op
    <3>1. CASE users' = [users EXCEPT ![op.user] = [team |-> op.team, admin |-> op.admin]]
               /\ InTeam(r, op.team)
      <4>1. \A u \in User : users'[u] # users[u] => users'[u].team = op.team
        BY <3>1
      <4>2. ByAdminOf(op.team)
        BY <2>4, <2>5, <3>1 DEF InTeam, Handler
      <4>3. UNCHANGED keys
        BY <2>5 DEF CreateUser
      <4>4. QED
        BY <4>1, <4>2, <4>3 DEF TeamBoundaryStep
    <3>2. QED
      BY <2>1, <2>5, <3>1 DEF CreateUser
  <2>6. ASSUME NEW r \in Request, IssueKey(r) PROVE TeamBoundaryStep
    <3> DEFINE u == call[r].op.user
    <3>1. UNCHANGED users
      BY <2>6 DEF IssueKey
    <3>2. ASSUME NEW k \in Key, Insert(k, u), InTeam(r, users[u].team) PROVE TeamBoundaryStep
      <4>1. \A j \in Key : keys'[j] # keys[j] => keys'[j].user = u
        BY <3>2 DEF Insert
      <4>2. ByAdminOf(users[u].team)
        BY <2>4, <2>6, <3>2 DEF InTeam, Handler
      <4>3. QED
        BY <3>1, <4>1, <4>2 DEF TeamBoundaryStep
    <3>3. QED
      BY <2>1, <2>6, <3>1, <3>2 DEF IssueKey
  <2>7. ASSUME NEW r \in Request, RevokeKey(r) PROVE TeamBoundaryStep
    <3> DEFINE k == call[r].op.key
    <3>1. UNCHANGED users
      BY <2>7 DEF RevokeKey
    <3>2. CASE keys' = [keys EXCEPT ![k].revoked = TRUE] /\ keys[k] # None
               /\ InTeam(r, users[keys[k].user].team)
      <4>1. \A j \in Key : keys'[j] # keys[j] => j = k /\ keys'[j].user = keys[k].user
        BY <3>2, RowsKept
      <4>2. ByAdminOf(users[keys[k].user].team)
        BY <2>4, <2>7, <3>2 DEF InTeam, Handler
      <4>3. QED
        BY <3>1, <4>1, <4>2 DEF TeamBoundaryStep
    <3>3. QED
      BY <2>1, <2>7, <3>1, <3>2 DEF RevokeKey
  <2>8. QED
    BY <2>1, <2>2, <2>3, <2>5, <2>6, <2>7
       DEF Next, vars, tables, history, Migrate, Start, MigrateSkip, ApplyOne, Bootstrap, CountKeys,
           BootstrapTeam, ShowKey, BootstrapFails, Stop, Present, Authenticate, AuthRead, AuthVerify,
           Handler, CreateTeam
<1>2. QED
  BY <1>1, AccountsInductive, PTL DEF Spec, TeamBoundary

=============================================================================
