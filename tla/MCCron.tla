------------------------------- MODULE MCCron -------------------------------
(* The schedules on a year of two months, days of four hours of two minutes. *)
EXTENDS Cron

Months == <<3, 2>>

At(m, h) == Fields(<<<<Value(m)>>, <<Value(h)>>, <<Star>>, <<Star>>, <<Star>>>>)
Exprs ==
  { At(1, 2), At(0, 0), Shorthand("@hourly"), Shorthand("@weekly"), Shorthand("@yearly"), Every(5), Every(-1),
    Fields(<<<<Value(0)>>, <<Value(0)>>, <<Value(3)>>, <<Value(2)>>, <<Star>>>>),
    Fields(<<<<Star>>, <<[Star EXCEPT !.step = 2]>>, <<Value(2)>>, <<Star>>, <<Value(2)>>>>),
    Fields(<<<<Value(1)>>, <<Value(1), Value(3)>>, <<[base |-> "range", lo |-> 2, hi |-> 3, step |-> 1]>>, <<Star>>, <<Star>>>>),
    Fields(<<<<Star>>, <<Star>>, <<Star>>, <<Value(2)>>, <<[base |-> "range", lo |-> 1, hi |-> 2, step |-> 0]>>>>),
    Fields(<<<<Value(0)>>, <<[base |-> "range", lo |-> 1, hi |-> 3, step |-> 2]>>, <<Star>>, <<Value(1)>>, <<Star>>>>) }

Sound ==
  { [before |-> 0, after |-> 0, change |-> 0],
    [before |-> 4, after |-> 6, change |-> 12], [before |-> 6, after |-> 4, change |-> 12],
    [before |-> -4, after |-> -2, change |-> 22] }
West == { [before |-> -2, after |-> -4, change |-> 22] }
Begins == 8..50
Wait == {0, 3}

CSpec == CronInit /\ [][CronNext]_cronVars /\ CronFairness
=============================================================================
