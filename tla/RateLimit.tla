------------------------------ MODULE RateLimit ------------------------------
(***************************************************************************)
(* Backpressure: the server's token buckets, one per API key with a budget *)
(* for writes and one for reads (api/middleware.go, limiter), and the      *)
(* clients that wait as long as a 429 tells them and try again             *)
(* (client/client.go, doAttempt).                                          *)
(*                                                                         *)
(* Time is counted in ticks, TicksPerSecond of them in a second.  Tokens   *)
(* are counted in parts: a token is as many parts as a minute has ticks,   *)
(* so that a budget of n a minute refills n parts a tick.                  *)
(***************************************************************************)
EXTENDS Integers, Sequences, FiniteSets, FiniteSetsExt

CONSTANTS
  Caller,         \* client processes: the hooks, the command line, an import
  KeyOf,          \* the API key each of them uses
  Budget,         \* per minute, by direction: [write, read]; 0 is unlimited
  MinuteSeconds,  \* seconds of a minute (60), the client's ceiling as well
  TicksPerSecond, \* ticks of a second
  StaleMinutes,   \* idle minutes after which a bucket may be evicted (10)
  MaxBuckets,     \* buckets kept before an eviction (10000)
  MaxRetries,     \* retries of one request (30)
  MaxCalls,       \* bound: requests
  MaxTime,        \* bound: ticks
  MaxRestarts     \* bound: restarts of the server

Direction == {"write", "read"}
Minute == MinuteSeconds * TicksPerSecond
Token == Minute

ASSUME LimitAssumption ==
  /\ {MinuteSeconds, TicksPerSecond, StaleMinutes} \subseteq Nat \ {0}
  /\ \A d \in Direction : Budget[d] \in Nat

VARIABLES
  now,      \* the clock
  buckets,  \* key -> [tokens |-> direction -> parts, last], for the keys seen
  calling,  \* caller -> [pc, direction, attempt, until]
  calls,    \* requests made
  admitted, \* what the running server let through: <<[key, direction, at]>>
  promised, \* callers whose wait ran no one else's budget down
  restarts

limitVars == <<now, buckets, calling, calls, admitted, promised, restarts>>

-----------------------------------------------------------------------------
(* The limiter *)

Known == DOMAIN buckets
FullBucket == [tokens |-> [d \in Direction |-> Budget[d] * Token], last |-> now]

\* BUG (a mutant of Evictable): a bucket goes once it was idle for a while, full or not.
EvictableSoon(k) == now > buckets[k].last

Evictable(k) == now - buckets[k].last > StaleMinutes * Minute

\* The buckets allow works on: the key's, made if it is new, and then, when
\* there are too many, without the stale ones.
Present(key) ==
  IF key \in Known THEN buckets
  ELSE LET kept == IF Cardinality(Known) + 1 > MaxBuckets THEN {k \in Known : ~Evictable(k)} ELSE Known
       IN [k \in kept \cup {key} |-> IF k = key THEN FullBucket ELSE buckets[k]]

\* BUG (a mutant of Refilled): only the budget that is asked for is refilled,
\* while the clock of the bucket moves on for both.
RefilledOne(b, direction) ==
  [tokens |-> [d \in Direction |->
     IF d = direction THEN Min({Budget[d] * Token, b.tokens[d] + (now - b.last) * Budget[d]}) ELSE b.tokens[d]],
   last |-> now]

Refilled(b, direction) ==
  [tokens |-> [d \in Direction |-> Min({Budget[d] * Token, b.tokens[d] + (now - b.last) * Budget[d]})],
   last |-> now]

\* BUG (a mutant of RetryAfter): the wait is rounded down.
RetryAfterDown(b, d) == (Token - b.tokens[d]) \div (Budget[d] * TicksPerSecond)

\* In seconds, int(...) + 1.
RetryAfter(b, d) == (Token - b.tokens[d]) \div (Budget[d] * TicksPerSecond) + 1

-----------------------------------------------------------------------------
(* A client's request *)

NoRequest == [pc |-> "idle", direction |-> "read", attempt |-> 0, until |-> 0]

Turn(c) == calling[c].pc = "sending"
Ended(c) == calling' = [calling EXCEPT ![c] = NoRequest]

Ask(c) ==
  /\ calling[c] = NoRequest /\ calls < MaxCalls /\ calls' = calls + 1
  /\ \E d \in Direction : calling' = [calling EXCEPT ![c].pc = "sending", ![c].direction = d]
  /\ UNCHANGED <<now, buckets, admitted, promised, restarts>>

\* A budget of 0 is unlimited and touches no bucket.
AllowUnlimited(c) ==
  /\ Turn(c) /\ Budget[calling[c].direction] = 0
  /\ Ended(c)
  /\ UNCHANGED <<now, buckets, calls, admitted, promised, restarts>>

Checked(c) == Refilled(Present(KeyOf[c])[KeyOf[c]], calling[c].direction)
HasToken(c) == Checked(c).tokens[calling[c].direction] >= Token
SetBucket(c, b) == buckets' = [k \in DOMAIN Present(KeyOf[c]) |-> IF k = KeyOf[c] THEN b ELSE Present(KeyOf[c])[k]]

Rivals(c) == {r \in Caller \ {c} : KeyOf[r] = KeyOf[c] /\ calling[r].direction = calling[c].direction}

Allow(c) ==
  LET d == calling[c].direction
  IN /\ Turn(c) /\ Budget[d] > 0 /\ HasToken(c)
     /\ SetBucket(c, [Checked(c) EXCEPT !.tokens[d] = @ - Token])
     /\ Ended(c)
     /\ admitted' = Append(admitted, [key |-> KeyOf[c], direction |-> d, at |-> now])
     /\ promised' = promised \ (Rivals(c) \cup {c})
     /\ UNCHANGED <<now, calls, restarts>>

\* The client's wait, between a second and a minute.
Waits(b, d) == Max({1, Min({MinuteSeconds, RetryAfter(b, d)})}) * TicksPerSecond

\* 429: the client sleeps for as long as the answer says, while it has retries left.
Refuse(c) ==
  LET d == calling[c].direction
      again == calling[c].attempt < MaxRetries
  IN /\ Turn(c) /\ Budget[d] > 0 /\ ~HasToken(c)
     /\ SetBucket(c, Checked(c))
     /\ IF again THEN calling' = [calling EXCEPT ![c].pc = "waiting", ![c].until = now + Waits(Checked(c), d)]
        ELSE Ended(c)
     /\ promised' = IF again THEN promised \cup {c} ELSE promised \ {c}
     /\ UNCHANGED <<now, calls, admitted, restarts>>

Retry(c) ==
  /\ calling[c].pc = "waiting" /\ now >= calling[c].until
  /\ calling' = [calling EXCEPT ![c].pc = "sending", ![c].attempt = @ + 1, ![c].until = 0]
  /\ UNCHANGED <<now, buckets, calls, admitted, promised, restarts>>

\* The context of a waiting call ends, or the server cannot be reached.
Abandon(c) ==
  /\ calling[c].pc \in {"waiting", "sending"}
  /\ Ended(c)
  /\ promised' = promised \ {c}
  /\ UNCHANGED <<now, buckets, calls, admitted, restarts>>

Tick ==
  /\ now < MaxTime /\ now' = now + 1
  /\ UNCHANGED <<buckets, calling, calls, admitted, promised, restarts>>

\* The buckets are in memory only.
ServerRestart ==
  /\ restarts < MaxRestarts /\ restarts' = restarts + 1
  /\ buckets' = <<>> /\ admitted' = <<>>
  /\ UNCHANGED <<now, calling, calls, promised>>

LimitInit ==
  /\ now = 0 /\ buckets = <<>> /\ admitted = <<>> /\ promised = {} /\ restarts = 0
  /\ calling = [c \in Caller |-> NoRequest] /\ calls = 0

LimitNext ==
  \/ Tick \/ ServerRestart
  \/ \E c \in Caller : Ask(c) \/ AllowUnlimited(c) \/ Allow(c) \/ Refuse(c) \/ Retry(c) \/ Abandon(c)

LimitSpec == LimitInit /\ [][LimitNext]_limitVars

-----------------------------------------------------------------------------
(* Properties *)

\* Over any stretch of time a key gets through no more than its budget and
\* what the budget refills in that stretch, whichever requests were mixed,
\* refused or made by several processes, and although idle buckets are thrown
\* away (api/middleware.go, allow and evictLocked).
BudgetHeld ==
  \A i, j \in 1..Len(admitted) :
    LET first == admitted[i] last == admitted[j]
        between == {k \in i..j : admitted[k].key = first.key /\ admitted[k].direction = first.direction}
    IN i <= j /\ last.key = first.key /\ last.direction = first.direction =>
         Cardinality(between) * Token <= Budget[first.direction] * (Token + last.at - first.at)

\* A client that waited as it was told is let through on its next try, unless
\* another process with the same key was let through in the meantime: the
\* wait is long enough although it is whole seconds and no more than a minute
\* (api/middleware.go, allow; client/client.go, retryAfter).
HonouredRetrySucceeds ==
  [][\A c \in promised : ~(calling[c].pc = "sending" /\ Refuse(c))]_limitVars
=============================================================================
