-------------------------------- MODULE Cron --------------------------------
(***************************************************************************)
(* The five-field schedules of the consolidation worker: how an expression *)
(* is parsed, and how Next walks from the current time to the next firing, *)
(* a month, a day, an hour or a minute at a time (cron/cron.go), in the    *)
(* local time zone of the server (consolidate/worker.go, everyCron).       *)
(*                                                                         *)
(* An instant is a number of minutes.  The calendar is a small one, its    *)
(* sizes constants; a zone has one change of its offset, as a clock put    *)
(* forward or back has.  time.Date is Go's: it looks the offset up as if   *)
(* the local time were UTC, and once more if that offset is not in force   *)
(* at the instant it found.                                                *)
(***************************************************************************)
EXTENDS Integers, Sequences, FiniteSets, FiniteSetsExt

CONSTANTS
  HourMinutes, \* minutes of an hour (60)
  DayHours,    \* hours of a day (24)
  MonthDays,   \* days of each month of the year, a sequence
  WeekDays,    \* days of a week (7)
  Horizon,     \* years Next looks ahead (5)
  Expressions, \* the expressions of the configuration
  Zones,       \* the zones the server may run in: [before, after, change]
  Starts,      \* instants at which the worker starts
  Delays,      \* how long a job may take
  MaxFirings   \* bound: firings of the job

ASSUME CalendarAssumption ==
  /\ {HourMinutes, DayHours, WeekDays, Horizon} \subseteq Nat \ {0}
  /\ Len(MonthDays) > 0 /\ \A m \in 1..Len(MonthDays) : MonthDays[m] \in Nat \ {0}

VARIABLES
  schedule, \* the parsed schedule, its expression with it
  zone,     \* the zone of the server
  from,     \* the time Next was called with
  t,        \* Next's loop variable, then the time it returned
  job,      \* "stepping" in Next, "waiting" on the timer, "stopped", "refused"
  firings

cronVars == <<schedule, zone, from, t, job, firings>>

-----------------------------------------------------------------------------
(* Parsing.  A part of a field is a base, "star", "value" or "range", and  *)
(* a step: 0 for none written, negative for one that is no positive number *)

Star == [base |-> "star", lo |-> 0, hi |-> 0, step |-> 0]
Value(v) == [base |-> "value", lo |-> v, hi |-> v, step |-> 0]

FieldSpec ==
  << [min |-> 0, max |-> HourMinutes - 1], [min |-> 0, max |-> DayHours - 1],
     [min |-> 1, max |-> Max({MonthDays[m] : m \in 1..Len(MonthDays)})],
     [min |-> 1, max |-> Len(MonthDays)], [min |-> 0, max |-> WeekDays - 1] >>

Dow == 5

\* Sunday may be written as the last day of the week or as 0.
ParseValue(f, v) == IF f = Dow /\ v = WeekDays THEN 0 ELSE v

InRange(f, v) == FieldSpec[f].min <= v /\ v <= FieldSpec[f].max

Bounds(f, part) ==
  IF part.base = "star" THEN <<FieldSpec[f].min, FieldSpec[f].max>>
  ELSE <<ParseValue(f, part.lo), ParseValue(f, IF part.base = "range" THEN part.hi ELSE part.lo)>>

PartAccepted(f, part) ==
  LET b == Bounds(f, part)
  IN part.step >= 0 /\ InRange(f, b[1]) /\ InRange(f, b[2]) /\ b[1] <= b[2]

\* The loop that sets the bits: from the low end, a step at a time.
\* BUG (a mutant of PartBits): the step counts from zero, not from the low end.
PartBitsOfMultiples(f, part) ==
  LET b == Bounds(f, part) s == Max({1, part.step})
  IN {v \in b[1]..b[2] : v % s = 0}

PartBits(f, part) ==
  LET b == Bounds(f, part) s == Max({1, part.step})
  IN {v \in b[1]..b[2] : (v - b[1]) % s = 0}

FieldAccepted(f, field) == Len(field) > 0 /\ \A i \in 1..Len(field) : PartAccepted(f, field[i])

ParseField(f, field) == UNION {PartBits(f, field[i]) : i \in 1..Len(field)}

Fields(fields) == [every |-> 0, fields |-> fields]
Every(d) == [every |-> d, fields |-> <<>>]

Shorthand(name) ==
  LET zero == <<Value(0)>> one == <<Value(1)>> any == <<Star>>
  IN CASE name = "@hourly"                   -> Fields(<<zero, any, any, any, any>>)
       [] name \in {"@daily", "@midnight"}   -> Fields(<<zero, zero, any, any, any>>)
       [] name = "@weekly"                   -> Fields(<<zero, zero, any, any, zero>>)
       [] name = "@monthly"                  -> Fields(<<zero, zero, one, any, any>>)
       [] name \in {"@yearly", "@annually"}  -> Fields(<<zero, zero, one, one, any>>)

Parses(e) ==
  IF e.every # 0 THEN e.every > 0
  ELSE Len(e.fields) = 5 /\ \A f \in 1..5 : FieldAccepted(f, e.fields[f])

\* A field is restricted when it is anything but a bare star.
Parse(e) ==
  [expr |-> e,
   bits |-> IF e.every = 0 /\ Parses(e) THEN [f \in 1..5 |-> ParseField(f, e.fields[f])] ELSE <<>>,
   domRestricted |-> e.every = 0 /\ e.fields[3] # <<Star>>,
   dowRestricted |-> e.every = 0 /\ e.fields[Dow] # <<Star>>]

-----------------------------------------------------------------------------
(* Go's calendar: a wall time is the minutes since its own epoch *)

DayMinutes == HourMinutes * DayHours
MonthStart == [m \in 1..(Len(MonthDays) + 1) |-> MapThenSumSet(LAMBDA k : MonthDays[k], 1..(m - 1))]
YearMinutes == MonthStart[Len(MonthDays) + 1] * DayMinutes

Offset(i) == IF i < zone.change THEN zone.before ELSE zone.after
Wall(i) == i + Offset(i)

\* time.Date: the instant at which the clock of the zone shows w.
Date(w) ==
  LET o == Offset(w) IN IF Offset(w - o) = o THEN w - o ELSE w - Offset(w - o)

DayOf(w) == w \div DayMinutes
YearDay(w) == DayOf(w) % MonthStart[Len(MonthDays) + 1]
Month(w) == CHOOSE m \in 1..Len(MonthDays) : MonthStart[m] <= YearDay(w) /\ YearDay(w) < MonthStart[m + 1]
MonthDay(w) == YearDay(w) - MonthStart[Month(w)] + 1
FieldOf(f, w) ==
  CASE f = 1 -> w % HourMinutes
    [] f = 2 -> (w \div HourMinutes) % DayHours
    [] f = 3 -> MonthDay(w)
    [] f = 4 -> Month(w)
    [] f = 5 -> DayOf(w) % WeekDays

FirstOfMonth(w) == (DayOf(w) - MonthDay(w) + 1) * DayMinutes
Midnight(w) == DayOf(w) * DayMinutes
FullHour(w) == w - (w % HourMinutes)

-----------------------------------------------------------------------------
(* Next *)

Has(f) == FieldOf(f, Wall(t)) \in schedule.bits[f]

\* BUG (a mutant of DayMatches): both fields have to match, restricted or not.
DayMatchesBoth == Has(3) /\ Has(Dow)

DayMatches ==
  IF schedule.domRestricted /\ schedule.dowRestricted THEN Has(3) \/ Has(Dow)
  ELSE Has(3) /\ Has(Dow)

Limit == Date(Wall(from + 1) + Horizon * YearMinutes)

Walking == job = "stepping" /\ schedule.expr.every = 0 /\ t < Limit
Step(next) == t' = next /\ UNCHANGED <<schedule, zone, from, job, firings>>

NextMonth ==
  /\ Walking /\ ~Has(4)
  /\ LET first == Wall(Date(FirstOfMonth(Wall(t))))
     IN Step(Date(first + MonthDays[Month(first)] * DayMinutes))

\* BUG (a mutant of NextDay): the time of day is kept.
NextDayKeepingTime ==
  /\ Walking /\ Has(4) /\ ~DayMatches
  /\ Step(Date(Wall(t) + DayMinutes))

NextDay ==
  /\ Walking /\ Has(4) /\ ~DayMatches
  /\ Step(Date(Wall(Date(Midnight(Wall(t)))) + DayMinutes))

\* BUG (a mutant of NextHour): the hour is added on the clock of the zone.
NextHourOnTheClock ==
  /\ Walking /\ Has(4) /\ DayMatches /\ ~Has(2)
  /\ Step(Date(FullHour(Wall(t)) + HourMinutes))

NextHour ==
  /\ Walking /\ Has(4) /\ DayMatches /\ ~Has(2)
  /\ Step(Date(FullHour(Wall(t))) + HourMinutes)

NextMinute == Walking /\ Has(4) /\ DayMatches /\ Has(2) /\ ~Has(1) /\ Step(t + 1)

Return ==
  /\ Walking /\ Has(4) /\ DayMatches /\ Has(2) /\ Has(1)
  /\ job' = "waiting"
  /\ UNCHANGED <<schedule, zone, from, t, firings>>

\* No match: the worker logs that the schedule will never fire and the job ends.
GiveUp ==
  /\ job = "stepping" /\ schedule.expr.every = 0 /\ t >= Limit
  /\ job' = "stopped"
  /\ UNCHANGED <<schedule, zone, from, t, firings>>

ReturnInterval ==
  /\ job = "stepping" /\ schedule.expr.every > 0
  /\ t' = from + schedule.expr.every /\ job' = "waiting"
  /\ UNCHANGED <<schedule, zone, from, firings>>

Walk == NextMonth \/ NextDay \/ NextHour \/ NextMinute \/ Return \/ GiveUp \/ ReturnInterval

-----------------------------------------------------------------------------
(* The worker's loop: wait for the time, run the job, ask for the next one *)

\* BUG (a mutant of FirstMinute): the walk begins at the current minute.
FirstMinuteNow(time) == time

\* Truncated to the minute, and one minute on.
FirstMinute(time) == time + 1

CronInit ==
  /\ \E e \in Expressions :
       schedule = Parse(e) /\ job = IF Parses(e) THEN "stepping" ELSE "refused"
  /\ zone \in Zones
  /\ from \in Starts /\ t = FirstMinute(from)
  /\ firings = 0

\* The timer fires and the job runs; the loop then asks for the next time.
Fire ==
  /\ job = "waiting" /\ firings < MaxFirings
  /\ \E d \in Delays : from' = t + d /\ t' = FirstMinute(t + d)
  /\ job' = "stepping" /\ firings' = firings + 1
  /\ UNCHANGED <<schedule, zone>>

CronNext == Walk \/ Fire

\* The loops of the worker's goroutine go on; the number of firings is only bounded here.
CronFairness == WF_cronVars(CronNext)

-----------------------------------------------------------------------------
(* Properties *)

\* What a field says, read off its text.
Says(f, part, v) ==
  LET b == Bounds(f, part)
  IN b[1] <= v /\ v <= b[2] /\ \E k \in 0..v : v = b[1] + k * Max({1, part.step})

Listed(f, v) == \E i \in 1..Len(schedule.expr.fields[f]) : Says(f, schedule.expr.fields[f][i], v)

Fires(i) ==
  LET at(f) == Listed(f, FieldOf(f, Wall(i)))
      free(f) == schedule.expr.fields[f] = <<Star>>
  IN /\ \A f \in {1, 2, 4} : at(f)
     /\ IF free(3) \/ free(Dow) THEN at(3) /\ at(Dow) ELSE at(3) \/ at(Dow)

\* The clock of the zone, put back, shows the local time of i once more.
ShownAgain(i, after) == i < zone.change /\ \E j \in zone.change..(i + zone.before - zone.after) :
  j >= after /\ Wall(j) = Wall(i)

\* Next returns a minute strictly after its argument whose local time the
\* expression lists, and passes over none that does, unless the zone's clock
\* is put back and shows that local time again; it returns no time only when
\* there is none within the horizon.  No skipped month, day or hour hides a
\* match (cron/cron.go, Next).
NextIsFirst ==
  schedule.expr.every = 0 =>
    /\ job = "waiting" =>
         /\ Fires(t) /\ t > from
         /\ \A i \in (from + 1)..(t - 1) : Fires(i) => ShownAgain(i, t)
    /\ job = "stopped" => \A i \in (from + 1)..(Limit - 1) : ~Fires(i)

\* Next always comes to an end: every walk returns a time, or none, so a job
\* with an impossible date stops instead of spinning (cron/cron.go, Next).
NextReturns == job = "stepping" ~> job # "stepping"
=============================================================================
