----------------------------- MODULE MCProgress -----------------------------
(***************************************************************************)
(* Three machines that must get on: the mirror (two rows and pages of one   *)
(* row, so that a full page is not the last one), the event hub (two events *)
(* and two streams with room for one event each) and the job timer.  They   *)
(* share no state, so a behaviour runs one of them.                         *)
(***************************************************************************)
EXTENDS MirrorPull, EventHub, MCCron

VARIABLE part

NoTimer == CronInit /\ schedule.expr = Every(-1) /\ from = 8 /\ zone.change = 0

ProgressInit ==
  /\ part \in {"mirror", "hub", "timer"}
  /\ PullInit /\ HubInit
  /\ IF part = "timer" THEN CronInit ELSE NoTimer

ProgressNext ==
  /\ UNCHANGED part
  /\ \/ part = "mirror" /\ PullNext /\ UNCHANGED <<hubVars, cronVars>>
     \/ part = "hub" /\ HubNext /\ UNCHANGED <<pullVars, cronVars>>
     \/ part = "timer" /\ CronNext /\ UNCHANGED <<pullVars, hubVars>>

\* The fairness of each machine's own specification, while it runs.
ProgressFairness ==
  /\ WF_pullVars(part = "mirror" /\ \E s \in open : Commit(s))
  /\ \A p \in Puller : WF_pullVars(part = "mirror" /\ PullStep(p))
  /\ \A r \in Request : WF_hubVars(part = "hub" /\ Handle(r))
  /\ WF_cronVars(part = "timer" /\ CronNext)

ProgressSpec ==
  ProgressInit /\ [][ProgressNext]_<<part, pullVars, hubVars, cronVars>> /\ ProgressFairness
=============================================================================
