------------------------------ MODULE ProbeLease ------------------------------
(***************************************************************************)
(* How the probe fleet shares the targets: ProbeService.Lease and the        *)
(* rescheduling half of SubmitResults (src/back/internal/rpc/                *)
(* probeservice.go, storage/pg/queries/schedule.sql), and the lease, execute *)
(* and submit cycle of a node with its two budgets (src/back/cmd/ucprobe/    *)
(* main.go).  Time passes in ticks; every deadline is what is left of it.    *)
(***************************************************************************)
EXTENDS Integers, FiniteSets, FiniteSetsExt

CONSTANTS
  Nodes, Targets, NoNode,
  Paying,        \* targets with a paying subscriber
  Capacity,      \* targets a node asks for
  LeaseTerm,     \* 5 minutes
  BatchBudget,   \* a node's context for the lease call and the checks
  SubmitBudget,  \* its context for SubmitResults
  Intervals,     \* effective intervals a target may have
  BackoffShift,  \* doublings of the refusal backoff
  BackoffCap,    \* its cap, 24 hours
  RetryAfters,   \* Retry-After values a refusal may carry, 0 for none
  Answers,       \* kinds of result the sites give
  MaxLate,       \* how late an idle fleet may leave a target; lateness counts to here
  MaxChanges,    \* bound on subscriptions and unsubscriptions
  MaxFaults      \* bound on crashes, failed statements and dropped checks

\* What a configuration must satisfy (Monitoring assumes it).
ProbeLeaseAssumption ==
  /\ NoNode \notin Nodes
  /\ Paying \subseteq Targets
  /\ {Capacity, BatchBudget, SubmitBudget} \subseteq Nat \ {0}
  /\ LeaseTerm \in Nat /\ LeaseTerm > BatchBudget + SubmitBudget
  /\ Intervals \subseteq Nat \ {0} /\ RetryAfters \subseteq Nat
  /\ Answers \subseteq {"measured", "refused"}
  /\ {BackoffShift, BackoffCap, MaxLate, MaxChanges, MaxFaults} \subseteq Nat

VARIABLES
  wanted,    \* targets with an unpaused subscriber or a live host page
  due,       \* next_due_at, as time left; negative when late
  by,        \* leased_by
  lease,     \* lease_until, as time left
  refusals,  \* consecutive_refusals
  backoff,   \* backoff_until, as time left
  node,      \* each node: where it is in its cycle, its batch, its budget
  unmarked,  \* ghost: targets handed out by a Lease that did not mark the row
  pulled,    \* ghost: targets pulled due and not handed out since
  changes, faults

vars == <<wanted, due, by, lease, refusals, backoff, node, unmarked, pulled, changes, faults>>

Idle == [pc |-> "idle", batch |-> {}, budget |-> 0]
Node == [pc : {"idle", "leasing", "executing", "submitting"}, batch : SUBSET Targets,
         budget : 0..Max({BatchBudget, SubmitBudget})]

\* backoffFor: the doubling of the effective interval, capped, with a served
\* Retry-After as the floor.
BackoffFor(interval, n, retryAfter) ==
  Max({Min({interval * 2 ^ Min({n, BackoffShift}), BackoffCap}), retryAfter})

TypeOK ==
  /\ wanted \in SUBSET Targets
  /\ due \in [Targets -> (-MaxLate)..Max(Intervals)]
  /\ by \in [Targets -> Nodes \cup {NoNode}]
  /\ lease \in [Targets -> 0..LeaseTerm]
  /\ refusals \in [Targets -> 0..BackoffShift]
  /\ backoff \in [Targets -> 0..Max(RetryAfters \cup {BackoffCap})]
  /\ node \in [Nodes -> Node]
  /\ unmarked \in SUBSET Targets /\ pulled \in SUBSET Targets
  /\ changes \in 0..MaxChanges /\ faults \in 0..MaxFaults

Init ==
  /\ wanted \in SUBSET Targets
  /\ due = [t \in Targets |-> 0]
  /\ by = [t \in Targets |-> NoNode]
  /\ lease = [t \in Targets |-> 0]
  /\ refusals = [t \in Targets |-> 0]
  /\ backoff = [t \in Targets |-> 0]
  /\ node = [n \in Nodes |-> Idle]
  /\ unmarked = {} /\ pulled = {}
  /\ changes = 0 /\ faults = 0

Fault == faults < MaxFaults /\ faults' = faults + 1
NoFault == UNCHANGED faults

-----------------------------------------------------------------------------
(* ProbeService.Lease.                                                       *)

\* MUTANT of Free: an expired lease is not evicted.
Free_NoEviction(t) == by[t] = NoNode

\* MUTANT of Free: the admission predicate does not look at the lease.
Free_Ignored(t) == TRUE

\* The admission predicate of the query and of the update.
Free(t) == by[t] = NoNode \/ lease[t] = 0

Eligible == {t \in wanted : due[t] <= 0 /\ Free(t) /\ backoff[t] = 0}

\* ORDER BY paying DESC, next_due_at.
Before(t, u) ==
  \/ t \in Paying /\ u \notin Paying
  \/ (t \in Paying <=> u \in Paying) /\ due[t] < due[u]

Batches ==
  {S \in SUBSET Eligible :
     /\ Cardinality(S) = Min({Capacity, Cardinality(Eligible)})
     /\ \A t \in S, u \in Eligible \ S : ~Before(u, t)}

\* LeaseDueTargets; an empty answer sends the node away.
LeaseDueTargets(n) ==
  /\ node[n].pc = "idle"
  /\ Eligible # {}
  /\ \E S \in Batches :
       node' = [node EXCEPT ![n] = [pc |-> "leasing", batch |-> S, budget |-> BatchBudget]]
  /\ UNCHANGED <<wanted, due, by, lease, refusals, backoff, unmarked, pulled, changes, faults>>

\* SetLease marks the rows that are still free; its error is ignored.  Either
\* way the node is answered with the whole batch that was selected.
SetLease(n) ==
  LET batch == node[n].batch
      marks == {t \in batch : Free(t)}
      Mark(set) == /\ by' = [t \in Targets |-> IF t \in set THEN n ELSE by[t]]
                   /\ lease' = [t \in Targets |-> IF t \in set THEN LeaseTerm ELSE lease[t]]
                   /\ unmarked' = unmarked \cup (batch \ set)
  IN
  /\ node[n].pc = "leasing"
  /\ \/ Mark(marks) /\ NoFault
     \/ Mark({}) /\ Fault
  /\ node' = [node EXCEPT ![n].pc = "executing"]
  /\ pulled' = pulled \ batch
  /\ UNCHANGED <<wanted, due, refusals, backoff, changes>>

-----------------------------------------------------------------------------
(* The node.                                                                 *)

\* executeChecks: every check that started has a result when the pool is done;
\* what the budget guard did not start any more has none.
Execute(n) ==
  /\ node[n].pc = "executing"
  /\ \E results \in SUBSET node[n].batch :
       /\ IF results = node[n].batch THEN NoFault ELSE Fault
       /\ node' = [node EXCEPT ![n] =
            IF results = {} THEN Idle
            ELSE [pc |-> "submitting", batch |-> results, budget |-> SubmitBudget]]
  /\ UNCHANGED <<wanted, due, by, lease, refusals, backoff, unmarked, pulled, changes>>

\* The process dies and restarts, the network fails, or a budget runs out: the
\* batch is forgotten and submitted by nobody.
GiveUp(n) ==
  /\ node[n].pc # "idle"
  /\ Fault
  /\ node' = [node EXCEPT ![n] = Idle]
  /\ UNCHANGED <<wanted, due, by, lease, refusals, backoff, unmarked, pulled, changes>>

-----------------------------------------------------------------------------
(* SubmitResults, one result of the batch after the other.                   *)

Without(n, t) ==
  node' = [node EXCEPT ![n] = IF node[n].batch = {t} THEN Idle
                              ELSE [node[n] EXCEPT !.batch = @ \ {t}]]

\* ClearLeaseAndScheduleTarget, whoever holds the lease; its error is ignored.
Reschedule(t, interval) ==
  \/ /\ by' = [by EXCEPT ![t] = NoNode]
     /\ lease' = [lease EXCEPT ![t] = 0]
     /\ due' = [due EXCEPT ![t] = interval]
     /\ NoFault
  \/ /\ Fault
     /\ UNCHANGED <<by, lease, due>>

Submit(n, t) ==
  /\ node[n].pc = "submitting"
  /\ t \in node[n].batch
  /\ Without(n, t)
  /\ \E answer \in Answers, interval \in Intervals, retryAfter \in RetryAfters :
       /\ Reschedule(t, interval)
       /\ IF answer = "measured"
            THEN /\ refusals' = [refusals EXCEPT ![t] = 0]
                 /\ backoff' = [backoff EXCEPT ![t] = 0]
            ELSE /\ refusals' = [refusals EXCEPT ![t] = Min({@ + 1, BackoffShift})]
                 /\ backoff' = [backoff EXCEPT ![t] =
                                  BackoffFor(interval, refusals[t] + 1, retryAfter)]
  /\ UNCHANGED <<wanted, unmarked, pulled, changes>>

\* GetTargetFacts failed: the result is dropped and the row left as it is.
Drop(n, t) ==
  /\ node[n].pc = "submitting"
  /\ t \in node[n].batch
  /\ Fault
  /\ Without(n, t)
  /\ UNCHANGED <<wanted, due, by, lease, refusals, backoff, unmarked, pulled, changes>>

\* A node that declares itself blind between two cycles gives back its rows.
ReportBlind(n) ==
  /\ node[n].pc = "idle"
  /\ \E t \in Targets : by[t] = n
  /\ by' = [t \in Targets |-> IF by[t] = n THEN NoNode ELSE by[t]]
  /\ lease' = [t \in Targets |-> IF by[t] = n THEN 0 ELSE lease[t]]
  /\ UNCHANGED <<wanted, due, refusals, backoff, node, unmarked, pulled, changes, faults>>

-----------------------------------------------------------------------------
(* Subscriptions, and time.                                                  *)

\* A monitor is created on the target or unpaused: PullTargetDue.
Subscribe(t) ==
  /\ changes < MaxChanges /\ changes' = changes + 1
  /\ wanted' = wanted \cup {t}
  /\ due' = [due EXCEPT ![t] = Min({@, 0})]
  /\ pulled' = pulled \cup {t}
  /\ UNCHANGED <<by, lease, refusals, backoff, node, unmarked, faults>>

Unsubscribe(t) ==
  /\ t \in wanted
  /\ changes < MaxChanges /\ changes' = changes + 1
  /\ wanted' = wanted \ {t}
  /\ UNCHANGED <<due, by, lease, refusals, backoff, node, unmarked, pulled, faults>>

Passed(left) == Max({left - 1, 0})

\* No node outlives its budget: the context ends the call that is running.  An
\* idle node asks again within its pace (2, 5 or 30 seconds).
Tick ==
  /\ \A n \in Nodes : node[n].pc # "idle" => node[n].budget > 0
  /\ (\E n \in Nodes : node[n].pc = "idle") => \A t \in Eligible : due[t] > -MaxLate
  /\ due' = [t \in Targets |-> Max({due[t] - 1, -MaxLate})]
  /\ lease' = [t \in Targets |-> Passed(lease[t])]
  /\ backoff' = [t \in Targets |-> Passed(backoff[t])]
  /\ node' = [n \in Nodes |-> IF node[n].pc = "idle" THEN Idle
                              ELSE [node[n] EXCEPT !.budget = @ - 1]]
  /\ UNCHANGED <<wanted, by, refusals, unmarked, pulled, changes, faults>>

NodeStep(n) ==
  LeaseDueTargets(n) \/ SetLease(n) \/ Execute(n) \/ \E t \in Targets : Submit(n, t)

Next ==
  \/ \E n \in Nodes : \/ NodeStep(n) \/ GiveUp(n) \/ ReportBlind(n)
                      \/ \E t \in Targets : Drop(n, t)
  \/ \E t \in Targets : Subscribe(t) \/ Unsubscribe(t)
  \/ Tick

Spec == Init /\ [][Next]_vars

\* Time passes, and a node's loop never stops.
Fairness == WF_vars(Tick) /\ \A n \in Nodes : WF_vars(NodeStep(n))

FairSpec == Spec /\ Fairness

-----------------------------------------------------------------------------
(* Properties.                                                               *)

Holders(t) == {n \in Nodes : node[n].pc \in {"executing", "submitting"} /\ t \in node[n].batch}

\* A lease is taken over only from a node that is gone: two nodes have one
\* target in hand only after a Lease handed it out without marking its row.
\* The term covers the batch and submit budgets, so no expiry, crash, dropped
\* result or blind report alone makes two nodes measure at once (schedule.sql,
\* SetLease; ucprobe main.go, batchBudget and submitBudget).
OneHolderUnlessUnmarked == \A t \in Targets \ unmarked : Cardinality(Holders(t)) <= 1

\* Every wanted target that is due is measured and rescheduled in the end,
\* whichever node crashed with it, whatever was dropped or refused ("a node that
\* lost its batch does not freeze the target for everyone", probeservice.go).
KeepsBeingMeasured ==
  \A t \in Targets : (t \in wanted /\ due[t] <= 0) ~> (t \notin wanted \/ due[t] > 0)

\* What the comments say, and the code does not do.

\* "Lease them atomically" (Lease) and "Atomically lease the batch to one probe
\* node" (SetLease): a target is with one node at a time.
OneHolder == \A t \in Targets : Cardinality(Holders(t)) <= 1

\* "a new subscriber's first check runs at the next lease, not one interval
\* later" (PullTargetDue): until it is handed out, a pulled target stays due.
PulledStaysDue == \A t \in pulled : due[t] <= 0
===============================================================================
