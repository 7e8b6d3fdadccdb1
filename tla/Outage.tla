-------------------------------- MODULE Outage --------------------------------
(***************************************************************************)
(* One probed target, the monitors subscribed to it, and the open incidents *)
(* that follow its state: ProbeService.SubmitResults                         *)
(* (src/back/internal/rpc/probeservice.go), the incident lifecycle           *)
(* (incident/incident.go), and the API, sweeper and Telegram calls that      *)
(* change monitors and incidents at the same time.                           *)
(*                                                                          *)
(* A SubmitResults call is split at its database statements; a transaction  *)
(* at what it reads and at its commit.  An open incident is counted per      *)
(* monitor, since nothing keeps one monitor from having several.             *)
(***************************************************************************)
EXTENDS Availability, FiniteSets

CONSTANTS
  Monitors,    \* subscriptions that exist or may come to the target
  Handlers,    \* SubmitResults calls that can be in flight for the target
  NoMonitor,   \* a handler with no insert under way
  MaxJoins,    \* bound on the create and unpause requests of a behaviour
  MaxChanges,  \* bound on the other commands: pauses, deletes, resolves
  MaxFaults    \* bound on failed statements and cut-off calls

ASSUME OutageAssumption ==
  NoMonitor \notin Monitors /\ MaxJoins \in Nat /\ MaxChanges \in Nat /\ MaxFaults \in Nat

VARIABLES
  facts,     \* the target's target_facts row
  monitors,  \* the monitor rows
  open,      \* how many incidents each monitor has with resolved_at NULL
  handler,   \* each SubmitResults call: where it is and what it has read
  txn,       \* each monitor's create or unpause transaction
  deleting,  \* monitors whose delete has closed their incidents, not yet more
  swept,     \* ClosePlanPaused: monitors listed and not yet closed
  target,    \* the site itself: flaky, or failing or healthy for good
  failures,  \* ghost: failing results since the target was surely ok
  joins, changes, faults

vars == <<facts, monitors, open, handler, txn, deleting, swept, target,
          failures, joins, changes, faults>>
callVars == <<handler, txn, deleting, swept>>
bounds == <<joins, changes, faults>>

MonitorState == {"absent", "active", "owner_paused", "plan_paused", "deleted"}
Exists(m) == monitors[m] \in {"active", "owner_paused", "plan_paused"}

Idle == [pc |-> "idle", outcome |-> "ok", seen |-> NoFacts, todo |-> {}, cur |-> NoMonitor]
Handler == [pc : {"idle", "write", "list_open", "open", "insert", "list_close", "close"},
            outcome : Outcome, seen : Facts, todo : SUBSET Monitors,
            cur : Monitors \cup {NoMonitor}]

TypeOK ==
  /\ facts \in Facts
  /\ monitors \in [Monitors -> MonitorState]
  /\ open \in [Monitors -> Nat]
  /\ handler \in [Handlers -> Handler]
  /\ txn \in [Monitors -> {"none", "check", "open", "plain"}]
  /\ deleting \in SUBSET Monitors
  /\ swept \in SUBSET Monitors
  /\ target \in {"flaky", "failing", "healthy"}
  /\ failures \in 0..Threshold
  /\ joins \in Nat /\ changes \in Nat /\ faults \in Nat

Init ==
  /\ facts = NoFacts
  /\ monitors \in [Monitors -> {"absent", "active"}]
  /\ open = [m \in Monitors |-> 0]
  /\ handler = [h \in Handlers |-> Idle]
  /\ txn = [m \in Monitors |-> "none"]
  /\ deleting = {} /\ swept = {}
  /\ target = "flaky"
  /\ failures = 0
  /\ joins = 0 /\ changes = 0 /\ faults = 0

Change == changes < MaxChanges /\ changes' = changes + 1 /\ UNCHANGED <<joins, faults>>
Join == joins < MaxJoins /\ joins' = joins + 1 /\ UNCHANGED <<changes, faults>>
Fault == faults < MaxFaults /\ faults' = faults + 1 /\ UNCHANGED <<joins, changes>>
NoFault == UNCHANGED bounds

\* Past its threshold a counter decides nothing more: both stop there.
Saturate(s) ==
  [s EXCEPT !.fails = IF @ > Threshold THEN Threshold ELSE @,
            !.unmeasured = IF @ > UnmeasuredThreshold THEN UnmeasuredThreshold ELSE @]

-----------------------------------------------------------------------------
(* The incident lifecycle.                                                   *)

\* Lifecycle.Close: the UPDATE resolves every open incident of the monitor.
\* Its preceding read only decides about the timeline line.
CloseAll(m) == open' = [open EXCEPT ![m] = 0]

\* OpenIncident: an INSERT; no constraint allows only one per monitor.
OpenOne(m) == open' = [open EXCEPT ![m] = @ + 1]

-----------------------------------------------------------------------------
(* SubmitResults, for one result of the target.                              *)

Outcomes == CASE target = "flaky" -> Outcome
              [] target = "failing" -> {"fail"}
              [] target = "healthy" -> {"ok"}

\* A result arrives: GetTargetFacts.
Receive(h, outcome) ==
  /\ handler[h].pc = "idle"
  /\ outcome \in Outcomes
  /\ handler' = [handler EXCEPT ![h] = [Idle EXCEPT !.pc = "write", !.outcome = outcome, !.seen = facts]]
  /\ failures' = IF outcome = "fail" /\ failures < Threshold THEN failures + 1 ELSE failures
  /\ UNCHANGED <<facts, monitors, open, txn, deleting, swept, target, bounds>>

After(h) == Saturate(Process(handler[h].seen, handler[h].outcome))

\* MUTANT of NextPc: incidents open on the edge into down only.
NextPc_Edge(h) ==
  IF Opens(handler[h].seen, handler[h].outcome) THEN "list_open"
  ELSE IF Closes(handler[h].seen, handler[h].outcome) THEN "list_close"
  ELSE "idle"

\* What the fan-out does is decided from the state in hand.
NextPc(h) ==
  IF handler[h].outcome = "unmeasured" THEN "idle"
  ELSE IF After(h).status = "down" THEN "list_open"
  ELSE IF Closes(handler[h].seen, handler[h].outcome) THEN "list_close"
  ELSE "idle"

\* Nothing that began before this call can still write.
Alone(h) == /\ \A g \in Handlers \ {h} : handler[g].pc = "idle"
            /\ \A m \in Monitors : txn[m] = "none"

\* Detector.Process and UpsertTargetFacts, whose error is ignored.
WriteFacts(h) ==
  /\ handler[h].pc = "write"
  /\ \/ facts' = After(h) /\ NoFault
     \/ UNCHANGED facts /\ Fault
  /\ handler' = [handler EXCEPT ![h] = IF NextPc(h) = "idle" THEN Idle ELSE [Idle EXCEPT !.pc = NextPc(h)]]
  /\ failures' = IF handler[h].outcome = "ok" /\ facts' = After(h) /\ Alone(h) THEN 0 ELSE failures
  /\ UNCHANGED <<monitors, open, txn, deleting, swept, target>>

\* The fan-out goes over a set of monitors read once.
FanOut(h, pc, set) ==
  handler' = [handler EXCEPT ![h] = IF set = {} THEN Idle ELSE [Idle EXCEPT !.pc = pc, !.todo = set]]

\* ActiveSubscriberMonitors; an error skips the fan-out.
ListOpen(h) ==
  /\ handler[h].pc = "list_open"
  /\ \/ FanOut(h, "open", {m \in Monitors : monitors[m] = "active"}) /\ NoFault
     \/ FanOut(h, "open", {}) /\ Fault
  /\ UNCHANGED <<facts, monitors, open, txn, deleting, swept, target, failures>>

Inserts(h, m) ==
  handler' = [handler EXCEPT ![h] = [Idle EXCEPT !.pc = "insert", !.cur = m, !.todo = handler[h].todo \ {m}]]

\* Lifecycle.open: GetOpenIncident, whose failure reads as "none open", and
\* GetMonitorForIncident, whose failure passes the monitor over.
OpenCheck(h) ==
  /\ handler[h].pc = "open"
  /\ \E m \in handler[h].todo :
       \/ /\ Exists(m) /\ Inserts(h, m)
          /\ IF open[m] = 0 THEN NoFault ELSE Fault
       \/ /\ FanOut(h, "open", handler[h].todo \ {m})
          /\ IF open[m] > 0 \/ ~Exists(m) THEN NoFault ELSE Fault
  /\ UNCHANGED <<facts, monitors, open, txn, deleting, swept, target, failures>>

\* Lifecycle.open: OpenIncident.  A failed insert is logged and passed over, as
\* is one for a monitor deleted since.
OpenInsert(h) ==
  LET m == handler[h].cur IN
  /\ handler[h].pc = "insert"
  /\ \/ Exists(m) /\ OpenOne(m) /\ NoFault
     \/ ~Exists(m) /\ UNCHANGED open /\ NoFault
     \/ UNCHANGED open /\ Fault
  /\ FanOut(h, "open", handler[h].todo)
  /\ UNCHANGED <<facts, monitors, txn, deleting, swept, target, failures>>

\* MUTANT of ListClose: the recovery goes to the unpaused monitors only.
ListClose_ActiveOnly(h) ==
  /\ handler[h].pc = "list_close"
  /\ \/ FanOut(h, "close", {m \in Monitors : monitors[m] = "active"}) /\ NoFault
     \/ FanOut(h, "close", {}) /\ Fault
  /\ UNCHANGED <<facts, monitors, open, txn, deleting, swept, target, failures>>

\* AllSubscriberMonitors, paused or not.
ListClose(h) ==
  /\ handler[h].pc = "list_close"
  /\ \/ FanOut(h, "close", {m \in Monitors : Exists(m)}) /\ NoFault
     \/ FanOut(h, "close", {}) /\ Fault
  /\ UNCHANGED <<facts, monitors, open, txn, deleting, swept, target, failures>>

\* Lifecycle.Close(recovered) of one subscription; its error is ignored.
CloseNext(h) ==
  /\ handler[h].pc = "close"
  /\ \E m \in handler[h].todo :
       /\ FanOut(h, "close", handler[h].todo \ {m})
       /\ \/ Exists(m) /\ CloseAll(m) /\ NoFault
          \/ ~Exists(m) /\ UNCHANGED open /\ NoFault
          \/ UNCHANGED open /\ Fault
  /\ UNCHANGED <<facts, monitors, txn, deleting, swept, target, failures>>

\* The submit budget of the node runs out or the process dies: the context is
\* cancelled and nothing after this point happens.  No node submits again.
CutOff(h) ==
  /\ handler[h].pc # "idle"
  /\ handler' = [handler EXCEPT ![h] = Idle]
  /\ Fault
  /\ UNCHANGED <<facts, monitors, open, txn, deleting, swept, target, failures>>

SubmitStep(h) ==
  \/ WriteFacts(h) \/ ListOpen(h) \/ OpenCheck(h) \/ OpenInsert(h)
  \/ ListClose(h) \/ CloseNext(h)

-----------------------------------------------------------------------------
(* The API, the sweeper and Telegram.                                        *)

\* monitors.create and the unpausing monitors.patch, over whoever's pause: inside the transaction,
\* GetTargetFacts decides whether the subscriber joins an outage.
JoinBegin(m) ==
  /\ monitors[m] \in {"absent", "owner_paused", "plan_paused"} /\ txn[m] = "none"
  /\ Join
  /\ txn' = [txn EXCEPT ![m] = IF facts.status = "down" THEN "check" ELSE "plain"]
  /\ UNCHANGED <<facts, monitors, open, handler, deleting, swept, target, failures>>

\* OpenOnTx: GetOpenIncident, which sees what is committed.
JoinCheck(m) ==
  /\ txn[m] = "check"
  /\ txn' = [txn EXCEPT ![m] = IF open[m] = 0 THEN "open" ELSE "plain"]
  /\ UNCHANGED <<facts, monitors, open, handler, deleting, swept, target, failures, bounds>>

\* The commit shows the subscription, and the incident if one was inserted.
JoinCommit(m) ==
  /\ txn[m] \in {"open", "plain"}
  /\ monitors' = [monitors EXCEPT ![m] = "active"]
  /\ IF txn[m] = "open" THEN OpenOne(m) ELSE UNCHANGED open
  /\ txn' = [txn EXCEPT ![m] = "none"]
  /\ UNCHANGED <<facts, handler, deleting, swept, target, failures, bounds>>

\* A statement of the transaction fails, the lookup of the incident included: Postgres
\* aborts it, what follows fails too, and nothing of the join is kept.
JoinFails(m) ==
  /\ txn[m] # "none"
  /\ Fault
  /\ txn' = [txn EXCEPT ![m] = "none"]
  /\ UNCHANGED <<facts, monitors, open, handler, deleting, swept, target, failures>>

\* monitors.patch with paused: true, also over the sweeper's own pause.
Pause(m) ==
  /\ monitors[m] \in {"active", "plan_paused"} /\ txn[m] = "none"
  /\ Change
  /\ monitors' = [monitors EXCEPT ![m] = "owner_paused"]
  /\ UNCHANGED <<facts, open, callVars, target, failures>>

\* monitors.delete: first the open incident is closed; a failure ends it here, but
\* not one of the read before the UPDATE, after which Close returns quietly.
DeleteClose(m) ==
  /\ Exists(m) /\ m \notin deleting
  /\ changes < MaxChanges /\ changes' = changes + 1 /\ UNCHANGED joins
  /\ \/ CloseAll(m) /\ UNCHANGED faults
     \/ UNCHANGED open /\ faults < MaxFaults /\ faults' = faults + 1
  /\ deleting' = deleting \cup {m}
  /\ UNCHANGED <<facts, monitors, handler, txn, swept, target, failures>>

\* Then the row goes (its lock waits for a transaction on it), or the request
\* is cut off in between.  incident.monitor_id becomes NULL.
DeleteRow(m) ==
  /\ m \in deleting /\ txn[m] = "none"
  /\ deleting' = deleting \ {m}
  /\ \/ monitors' = [monitors EXCEPT ![m] = "deleted"] /\ NoFault
     \/ UNCHANGED monitors /\ Fault
  /\ UNCHANGED <<facts, open, handler, txn, swept, target, failures>>

\* handleResolve: a person closes the monitor's incident.
HumanResolve(m) ==
  /\ Exists(m) /\ open[m] > 0
  /\ Change
  /\ CloseAll(m)
  /\ UNCHANGED <<facts, monitors, callVars, target, failures>>

\* MonitorBudgetSweep: pauses what is over the budget, resumes its own pauses.
BudgetSweep(m) ==
  /\ txn[m] = "none"
  /\ Change
  /\ \/ monitors[m] = "active" /\ monitors' = [monitors EXCEPT ![m] = "plan_paused"]
     \/ monitors[m] = "plan_paused" /\ monitors' = [monitors EXCEPT ![m] = "active"]
  /\ UNCHANGED <<facts, open, callVars, target, failures>>

\* MUTANT of SweepList: the predicate reads the owner's pause marker.
SweepList_OwnerMarker ==
  /\ swept = {}
  /\ swept' = {m \in Monitors : monitors[m] = "owner_paused" /\ open[m] > 0}
  /\ swept' # {}
  /\ UNCHANGED <<facts, monitors, open, handler, txn, deleting, target, failures, bounds>>

\* ClosePlanPaused: the list, by predicate, on every run of the job.
SweepList ==
  /\ swept = {}
  /\ swept' = {m \in Monitors : monitors[m] = "plan_paused" /\ open[m] > 0}
  /\ swept' # {}
  /\ UNCHANGED <<facts, monitors, open, handler, txn, deleting, target, failures, bounds>>

\* Then one Close after the other.
SweepClose ==
  /\ \E m \in swept :
       /\ swept' = swept \ {m}
       /\ \/ Exists(m) /\ CloseAll(m) /\ NoFault
          \/ ~Exists(m) /\ UNCHANGED open /\ NoFault
          \/ UNCHANGED open /\ Fault
  /\ UNCHANGED <<facts, monitors, handler, txn, deleting, target, failures>>

\* The site stops being flaky, one way or the other.
Settle ==
  /\ target = "flaky"
  /\ target' \in {"failing", "healthy"}
  /\ UNCHANGED <<facts, monitors, open, callVars, failures, bounds>>

Next ==
  \/ \E h \in Handlers, outcome \in Outcome : Receive(h, outcome)
  \/ \E h \in Handlers : SubmitStep(h) \/ CutOff(h)
  \/ \E m \in Monitors : \/ JoinBegin(m) \/ JoinCheck(m) \/ JoinCommit(m) \/ JoinFails(m)
                         \/ Pause(m) \/ DeleteClose(m) \/ DeleteRow(m)
                         \/ HumanResolve(m) \/ BudgetSweep(m)
  \/ SweepList \/ SweepClose \/ Settle

Spec == Init /\ [][Next]_vars

\* A target with an unpaused subscriber keeps being leased and measured
\* (LeaseDueTargets); a call that has begun goes on; the job runs every minute.
Measured == /\ \E m \in Monitors : monitors[m] = "active"
            /\ \E h \in Handlers, outcome \in Outcome : Receive(h, outcome)
FairSpec ==
  /\ Spec
  /\ WF_vars(Measured) /\ \A h \in Handlers : WF_vars(SubmitStep(h))
  /\ \A m \in Monitors : WF_vars(JoinCheck(m) \/ JoinCommit(m)) /\ WF_vars(DeleteRow(m))
  /\ WF_vars(SweepList) /\ WF_vars(SweepClose)

-----------------------------------------------------------------------------
(* Properties.                                                               *)

\* No incident opens on fewer than Threshold failing results since the target
\* was last surely up (an ok written with no other call in flight): the blip the
\* threshold is there to ride out pages nobody, in any interleaving of calls,
\* joins and failed statements (availability.go DefaultThreshold).
AlarmIsEarned ==
  [][\A m \in Monitors : open'[m] > open[m] => failures >= Threshold]_vars

\* A target that is down for good has an open incident on every active monitor,
\* for good, whatever was resolved by hand, cut off, failed or swept before: the
\* fan-out works by set and not by edge (SubmitResults).
OutageIsNoticed ==
  (<>[](target = "failing")) =>
    <>[](\A m \in Monitors : monitors[m] = "active" => open[m] > 0)

\* A target that is up for good leaves no active monitor with an open incident
\* (SubmitResults, "recovery closes every subscription, paused or not").
Recovered == <>[](\A m \in Monitors : monitors[m] = "active" => open[m] = 0)
RecoveryIsNoticed == (<>[](target = "healthy")) => Recovered

\* What the recovery's fan-out needs and nothing enforces: no statement fails, no
\* call is cut off, one call at a time, and nobody joins while one is under way.
Busy == {h \in Handlers : handler[h].pc # "idle"}
Undisturbed ==
  /\ faults = 0
  /\ Cardinality(Busy) <= 1
  /\ (\E m \in Monitors : txn[m] # "none") => Busy = {}

\* Then the recovery reaches every monitor, whoever was paused, swept, resumed or
\* resolved by hand meanwhile: the close goes to all subscribers, paused or not,
\* so that a monitor resumed later does not wake up with a dead incident.
RecoveryIsNoticedUndisturbed ==
  ([]Undisturbed /\ <>[](target = "healthy")) => Recovered

\* An incident of a monitor the plan paused does not stay open, although a
\* SubmitResults that listed the monitor before may still insert one after the
\* sweep, and a close may fail (ClosePlanPaused, "retried on the next run").
PlanPauseCloses ==
  \A m \in Monitors :
    (monitors[m] = "plan_paused" /\ open[m] > 0)
      ~> (monitors[m] # "plan_paused" \/ open[m] = 0)

\* What the comments say, and the code does not do.

\* "an already-open incident is returned, not duplicated" (incident.go).
OneOpenIncident == \A m \in Monitors : open[m] <= 1

\* "Close an open incident while the monitor id still resolves ... after the
\* DELETE nothing can find the row" (monitors.go): none is left behind.
NoOrphanedIncident == \A m \in Monitors : monitors[m] = "deleted" => open[m] = 0
===============================================================================
