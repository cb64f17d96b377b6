-------------------------------- MODULE Ulid --------------------------------
(***************************************************************************)
(* The IDs that one process draws (ulid/ulid.go).  New reads the clock and  *)
(* then takes the lock, under which IDs of one millisecond count up and     *)
(* those of another are drawn at random.  Requests draw IDs side by side,   *)
(* and the clock of the machine may be put back.  The text of an ID sorts   *)
(* as its bits do: encode takes them five at a time, the most significant   *)
(* first, to an alphabet that ascends.                                      *)
(***************************************************************************)
EXTENDS Naturals, SequencesExt

CONSTANTS
  New,        \* calls of New, each made once
  RandLength, \* bytes of randomness (10)
  RandTop,    \* the largest value of one (255)
  MaxClock,   \* bound: milliseconds
  MaxPutBack  \* bound: how often the clock is put back

ASSUME RandAssumption == RandLength \in Nat \ {0} /\ RandTop \in Nat \ {0}
ASSUME ClockBounds == MaxClock \in Nat /\ MaxPutBack \in Nat

VARIABLES
  clock,  \* the milliseconds of the machine
  last,   \* lastMS and lastRand
  new,    \* each call: its step, the time it read and its ID
  drawn,  \* history: the calls in the order they had the lock
  before, \* history: the calls that had returned when a call began
  putBack

ulidVars == <<clock, last, new, drawn, before, putBack>>

Random == [1 .. RandLength -> 0 .. RandTop]
NotCalled == [pc |-> "new", ms |-> 0, id |-> [ms |-> 0, rand |-> [i \in 1 .. RandLength |-> 0]]]

Room(r) == {i \in 1 .. RandLength : r[i] # RandTop}

\* One more, the last byte first; only when there is room.
Increment(r) ==
  LET i == CHOOSE k \in Room(r) : \A l \in Room(r) : l <= k
  IN  [k \in 1 .. RandLength |-> CASE k < i -> r[k] [] k = i -> r[k] + 1 [] OTHER -> 0]

\* BUG (a mutant of Drawn): a counter that is full starts again from zero.
DrawnWrapping(ms) ==
  IF ms # last.ms THEN [ms : {ms}, rand : Random]
  ELSE IF Room(last.rand) # {} THEN {[ms |-> ms, rand |-> Increment(last.rand)]}
  ELSE {[ms |-> ms, rand |-> [i \in 1 .. RandLength |-> 0]]}

\* BUG (a mutant of Drawn): every ID is drawn at random.
DrawnAnew(ms) == [ms : {ms}, rand : Random]

\* What a call that read ms may draw.  A full counter steps the time forward.
Drawn(ms) ==
  IF ms # last.ms THEN [ms : {ms}, rand : Random]
  ELSE IF Room(last.rand) # {} THEN {[ms |-> ms, rand |-> Increment(last.rand)]}
  ELSE [ms : {ms + 1}, rand : Random]

ReadClock(c) ==
  /\ new[c].pc = "new"
  /\ new' = [new EXCEPT ![c].pc = "lock", ![c].ms = clock]
  /\ before' = [before EXCEPT ![c] = {d \in New : new[d].pc = "done"}]
  /\ UNCHANGED <<clock, last, drawn, putBack>>

NewAt(c) ==
  /\ new[c].pc = "lock"
  /\ last' \in Drawn(new[c].ms)
  /\ new' = [new EXCEPT ![c].pc = "done", ![c].id = last']
  /\ drawn' = Append(drawn, c)
  /\ UNCHANGED <<clock, before, putBack>>

ClockTick ==
  /\ clock < MaxClock /\ clock' = clock + 1
  /\ UNCHANGED <<last, new, drawn, before, putBack>>

ClockPutBack ==
  /\ clock > 1 /\ putBack < MaxPutBack
  /\ clock' = clock - 1 /\ putBack' = putBack + 1
  /\ UNCHANGED <<last, new, drawn, before>>

UlidInit ==
  /\ clock = 1 /\ putBack = 0
  /\ last = NotCalled.id
  /\ new = [c \in New |-> NotCalled]
  /\ drawn = <<>> /\ before = [c \in New |-> {}]

UlidNext ==
  \/ \E c \in New : ReadClock(c) \/ NewAt(c)
  \/ ClockTick \/ ClockPutBack

UlidSpec == UlidInit /\ [][UlidNext]_ulidVars

-----------------------------------------------------------------------------
(* Properties *)

Below(x, y) ==
  \/ x.ms < y.ms
  \/ /\ x.ms = y.ms
     /\ \E i \in 1 .. RandLength :
          x.rand[i] < y.rand[i] /\ \A k \in 1 .. i - 1 : x.rand[k] = y.rand[k]

Turns(a, b) == {c \in ToSet(drawn) : \E i, j, k \in 1 .. Len(drawn) :
                  i <= j /\ j < k /\ <<drawn[i], drawn[j], drawn[k]>> = <<a, c, b>>}

(***************************************************************************)
(* "Lexicographic sort order matches creation order" (ulid.go:8): an ID     *)
(* sorts after all that had been returned when its call began.  The ways    *)
(* out: the clock was put back; between two IDs of one millisecond a call   *)
(* that had read another one, before it waited for the lock, had its turn,  *)
(* so that the second is drawn anew; or the counter was full, and the next  *)
(* call that reads the same millisecond sorts before the one that found it  *)
(* so.                                                                      *)
(***************************************************************************)
IdsAscend ==
  \A b \in ToSet(drawn) : \A a \in before[b] :
    \/ Below(new[a].id, new[b].id)
    \/ new[b].ms < new[a].ms /\ putBack > 0
    \/ \E c \in Turns(a, b) : new[c].ms # new[b].ms /\ new[a].ms = new[b].ms
    \/ \E c \in Turns(a, b) : new[c].id.ms > new[c].ms
=============================================================================
