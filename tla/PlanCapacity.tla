----------------------------- MODULE PlanCapacity -----------------------------
(***************************************************************************)
(* The plan-capacity runs (PlanCapacity, src/back/internal/worker/worker.go   *)
(* with storage/pgstore/sweep.go) over one workspace: what is frozen, what    *)
(* is paused by the plan, which incidents that closes, and which outages a    *)
(* thaw announces (incident.go ClosePlanPaused, NotifyThawed).                *)
(*                                                                          *)
(* The minute job holds its lock; a project deletion runs the same code       *)
(* beside it without one.  A run is split at its statements, and an UPDATE    *)
(* at the snapshot it ranks and at its write, where PostgreSQL looks at each  *)
(* row again.  A project has one destination; a closed incident is followed   *)
(* no further.                                                               *)
(***************************************************************************)
EXTENDS Naturals, FiniteSets

CONSTANTS
  Projects,    \* numbers: the ids, in order
  Monitors,    \* numbers: the HTTP checks, oldest first
  Home,        \* the project of each check
  Flaky,       \* the checks whose target may go down
  Plans,       \* what a plan carries: [projects, checks]
  Job,         \* the run under the lock
  Deletion,    \* the run of a project deletion
  None,
  MaxChanges,  \* bound on plan changes, edits and deletions
  MaxFaults    \* bound on failed statements and cut-off runs

ASSUME PlanCapacityAssumption ==
  /\ Projects \subseteq Nat /\ Monitors \subseteq Nat
  /\ IsFiniteSet(Projects) /\ IsFiniteSet(Monitors)
  /\ Flaky \subseteq Monitors
  /\ Home \in [Monitors -> Projects]
  /\ Plans \subseteq [projects : Nat \ {0}, checks : Nat]
  /\ Job # Deletion /\ None \notin Monitors
  /\ MaxChanges \in Nat /\ MaxFaults \in Nat

Runs == {Job, Deletion}

VARIABLES
  plan,      \* the workspace's row of plan_entitlement
  projects,  \* project.frozen_at, "gone" once released
  monitors,  \* monitor.paused and paused_by
  incident,  \* the open incident of each check: its delivery_queue row, or none yet
  noted,     \* incident.notified_at of the open incident
  opener,    \* a call of Lifecycle.Open for each check: where it is
  run,       \* the two runs: where each is and what it has read
  patch,     \* a PATCH of one check, with its transaction
  hidden,    \* ghost: incidents a transaction opened unseen by the thaw
  changes, faults

rows == <<projects, monitors, incident, noted>>
vars == <<plan, rows, opener, run, patch, hidden, changes, faults>>

\* An open incident with no row is "silent".
Incident == {"none", "silent", "queued", "sent", "dead"}
IdleRun == [pc |-> "idle", stop |-> {}, start |-> {}, thawed |-> {}, todo |-> {},
            cur |-> None, cut |-> {}, paged |-> {}]
Run == [pc : {"idle", "rank", "freeze", "budget", "cut", "list", "close", "thawed", "page", "queue"},
        stop : SUBSET (Projects \cup Monitors), start : SUBSET (Projects \cup Monitors),
        thawed : SUBSET Projects, todo : SUBSET Monitors, cur : Monitors \cup {None},
        cut : SUBSET Monitors, paged : SUBSET Monitors]
NoPatch == [pc |-> "idle", m |-> None, to |-> "active", resumes |-> FALSE, opens |-> "none"]

TypeOK ==
  /\ plan \in Plans
  /\ projects \in [Projects -> {"live", "frozen", "gone"}]
  /\ monitors \in [Monitors -> {"active", "owner", "plan", "gone"}]
  /\ incident \in [Monitors -> Incident]
  /\ noted \in [Monitors -> BOOLEAN]
  /\ opener \in [Monitors -> {"idle", "insert", "guard", "queue"}]
  /\ run \in [Runs -> Run]
  /\ patch \in [pc : {"idle", "write", "commit"}, m : Monitors \cup {None},
                to : {"active", "owner"}, resumes : BOOLEAN, opens : Incident]
  /\ hidden \in SUBSET Monitors
  /\ changes \in 0..MaxChanges /\ faults \in 0..MaxFaults

Init ==
  /\ plan \in Plans
  /\ projects = [p \in Projects |-> "live"]
  /\ monitors = [m \in Monitors |-> "active"]
  /\ incident = [m \in Monitors |-> "none"] /\ noted = [m \in Monitors |-> FALSE]
  /\ opener = [m \in Monitors |-> "idle"]
  /\ run = [r \in Runs |-> IdleRun]
  /\ patch = NoPatch
  /\ hidden = {} /\ changes = 0 /\ faults = 0

Change == changes < MaxChanges /\ changes' = changes + 1
Fault == faults < MaxFaults /\ faults' = faults + 1
NoFault == UNCHANGED faults

Kept == {p \in Projects : projects[p] # "gone"}
Live == {p \in Projects : projects[p] = "live"}
Open == {m \in Monitors : incident[m] # "none"}
Running(p) == {m \in Monitors : Home[m] = p /\ monitors[m] = "active"}

At(r, pc) == run[r].pc = pc
Step(r, record) == run' = [run EXCEPT ![r] = record]
Go(r, pc) == Step(r, [run[r] EXCEPT !.pc = pc])

\* The run announces outages: those of todo, and the one in hand.
Paging(r) == run[r].pc \in {"page", "queue"}

-----------------------------------------------------------------------------
(* The freeze.                                                               *)

\* The ticker of the job; a deletion starts its own run below.
Ticks ==
  /\ At(Job, "idle") /\ Go(Job, "rank")
  /\ UNCHANGED <<plan, rows, opener, patch, hidden, changes, faults>>

\* MUTANT of Before: activity alone decides, a live project is no incumbent.
Before_NoIncumbent(p, q, newest) ==
  \/ newest[p] > newest[q]
  \/ newest[p] = newest[q] /\ p < q

\* The order of the ranking: live first, then more running checks, then the
\* newest row, then the oldest id.
Before(p, q, newest) ==
  LET key(x) == <<IF x \in Live THEN 1 ELSE 0, Cardinality(Running(x)), newest[x]>>
  IN  \/ \E i \in 1..3 : key(p)[i] > key(q)[i] /\ \A j \in 1..(i - 1) : key(p)[j] = key(q)[j]
      \/ key(p) = key(q) /\ p < q

Place(p, newest) == 1 + Cardinality({q \in Kept \ {p} : Before(q, p, newest)})

\* FreezeSweep on its snapshot; logs come in all the time, in any order.
Ranks(r, newest) ==
  /\ At(r, "rank")
  /\ Step(r, [run[r] EXCEPT !.pc = "freeze",
       !.stop = {p \in Live : Place(p, newest) > plan.projects},
       !.start = {p \in Kept \ Live : Place(p, newest) <= plan.projects}])
  /\ UNCHANGED <<plan, rows, opener, patch, hidden, changes, faults>>

\* The write of FreezeSweep, on the rows that are still what it ranked; it
\* answers the projects it thawed.  The run goes on after an error.
Freezes(r) ==
  /\ At(r, "freeze")
  /\ LET thaw == run[r].start \cap (Kept \ Live)
     IN  \/ /\ projects' = [p \in Projects |->
                 CASE p \in thaw -> "live"
                   [] p \in run[r].stop \cap Live -> "frozen"
                   [] OTHER -> projects[p]]
            /\ Step(r, [run[r] EXCEPT !.pc = "budget", !.stop = {}, !.start = {}, !.thawed = thaw])
            /\ NoFault
         \/ /\ Step(r, [run[r] EXCEPT !.pc = "budget", !.stop = {}, !.start = {}])
            /\ UNCHANGED projects /\ Fault
  /\ UNCHANGED <<plan, monitors, incident, noted, opener, patch, hidden, changes>>

-----------------------------------------------------------------------------
(* The budget.                                                               *)

\* The checks that hold a slot, and the place of each.
Holding == {m \in Monitors : monitors[m] # "gone" /\ Home[m] \in Live}
Slot(m) == 1 + Cardinality({k \in Holding : k < m})

\* MonitorBudgetSweep on its snapshot.
Budgets(r) ==
  /\ At(r, "budget")
  /\ Step(r, [run[r] EXCEPT !.pc = "cut",
       !.stop = {m \in Holding : Slot(m) > plan.checks /\ monitors[m] = "active"},
       !.start = {m \in Holding : Slot(m) <= plan.checks /\ monitors[m] = "plan"}])
  /\ UNCHANGED <<plan, rows, opener, patch, hidden, changes, faults>>

\* MUTANT of Still: a row is written without looking at it again.
Still_Unchecked(set, state) == set

\* The rows of the snapshot that the write still finds in that state.
Still(set, state) == {m \in set : monitors[m] = state}

\* Its write, which waits for a PATCH that holds one of the rows.  Only the
\* sweeper's own pause is lifted.
Cuts(r) ==
  /\ At(r, "cut")
  /\ ~(patch.pc = "commit" /\ patch.m \in run[r].stop \cup run[r].start)
  /\ LET stop == Still(run[r].stop, "active")
         start == Still(run[r].start, "plan")
     IN  \/ /\ monitors' = [m \in Monitors |-> IF m \in stop THEN "plan"
                                               ELSE IF m \in start THEN "active" ELSE monitors[m]]
            /\ run' = [[q \in Runs |-> [run[q] EXCEPT !.cut = @ \ start]] EXCEPT
                         ![r] = [@ EXCEPT !.pc = "list", !.stop = {}, !.start = {},
                                          !.cut = {m \in stop : opener[m] # "insert"}]]
            /\ NoFault
         \/ /\ Step(r, [run[r] EXCEPT !.pc = "list", !.stop = {}, !.start = {}])
            /\ UNCHANGED monitors /\ Fault
  /\ UNCHANGED <<plan, projects, incident, noted, opener, patch, hidden, changes>>

-----------------------------------------------------------------------------
(* What a plan's pause closes, and what a thaw announces.                     *)

\* The incident of m is over, and every call about it with it.
Over(m, runs) ==
  /\ incident' = [incident EXCEPT ![m] = "none"]
  /\ noted' = [noted EXCEPT ![m] = FALSE]
  /\ hidden' = hidden \ {m}
  /\ opener' = [opener EXCEPT ![m] = IF @ \in {"guard", "queue"} THEN "idle" ELSE @]
  /\ run' = [r \in Runs |->
       IF run[r].cur = m THEN [runs[r] EXCEPT !.pc = "page", !.cur = None]
       ELSE IF Paging(r) THEN [runs[r] EXCEPT !.todo = @ \ {m}] ELSE runs[r]]

\* MUTANT of PlanPausedOpen: only what was announced needs a close.
PlanPausedOpen_Noted == {m \in Open : monitors[m] = "plan" /\ noted[m]}

\* ListPlanPausedWithOpenIncident.
PlanPausedOpen == {m \in Open : monitors[m] = "plan"}

\* ClosePlanPaused; a list that fails closes nothing, a close that fails stops
\* no other.
Lists(r) ==
  /\ At(r, "list")
  /\ \/ Step(r, [run[r] EXCEPT !.pc = "close", !.todo = PlanPausedOpen]) /\ NoFault
     \/ Go(r, "thawed") /\ Fault
  /\ UNCHANGED <<plan, rows, opener, patch, hidden, changes>>

Closes(r, m) ==
  /\ At(r, "close") /\ m \in run[r].todo
  /\ \/ Over(m, [run EXCEPT ![r].todo = @ \ {m}]) /\ NoFault
     \/ /\ Step(r, [run[r] EXCEPT !.todo = @ \ {m}]) /\ Fault
        /\ UNCHANGED <<incident, noted, hidden, opener>>
  /\ UNCHANGED <<plan, projects, monitors, patch, changes>>

Closed(r) ==
  /\ At(r, "close") /\ run[r].todo = {}
  /\ Go(r, "thawed")
  /\ UNCHANGED <<plan, rows, opener, patch, hidden, changes, faults>>

\* NotifyThawed of one project: ListUndeliveredOpenIncidents.
ListsThawed(r, p) ==
  /\ At(r, "thawed") /\ p \in run[r].thawed
  /\ \/ /\ Step(r, [run[r] EXCEPT !.pc = "page", !.thawed = @ \ {p},
                      !.todo = {m \in Open : Home[m] = p /\ ~noted[m]}])
        /\ NoFault
     \/ Step(r, [run[r] EXCEPT !.thawed = @ \ {p}]) /\ Fault
  /\ UNCHANGED <<plan, rows, opener, patch, hidden, changes>>

\* MUTANT of Skips: the mark is written whether a row was queued or not.
Skips_Marks(m) == Home[m] \notin Live /\ noted' = [noted EXCEPT ![m] = TRUE] /\ NoFault

\* notifyChannels asks whether the project is frozen; a frozen one marks nothing.
Skips(m) == Home[m] \notin Live /\ UNCHANGED noted /\ NoFault

\* It goes on for a live project, and when the read fails.
Passes(m) == UNCHANGED noted /\ ((Home[m] \in Live /\ NoFault) \/ Fault)

\* The rest of notifyChannels: the row, unless its idem_key is there, and the
\* mark.  The mark alone can be lost: what it would list again has its row.
Queue(m) ==
  \/ /\ incident' = [incident EXCEPT ![m] = IF @ = "silent" THEN "queued" ELSE @]
     /\ noted' = [noted EXCEPT ![m] = TRUE]
     /\ NoFault
  \/ UNCHANGED <<incident, noted>> /\ Fault

PageGuards(r, m) ==
  /\ At(r, "page") /\ m \in run[r].todo
  /\ \/ Passes(m) /\ Step(r, [run[r] EXCEPT !.pc = "queue", !.cur = m, !.todo = @ \ {m}])
     \/ Skips(m) /\ Step(r, [run[r] EXCEPT !.todo = @ \ {m}])
  /\ UNCHANGED <<plan, projects, monitors, incident, opener, patch, hidden, changes>>

Pages(r) ==
  /\ At(r, "queue")
  /\ Queue(run[r].cur)
  /\ Step(r, [run[r] EXCEPT !.pc = "page", !.cur = None, !.paged = @ \cup {run[r].cur}])
  /\ UNCHANGED <<plan, projects, monitors, opener, patch, hidden, changes>>

Paged(r) ==
  /\ At(r, "page") /\ run[r].todo = {}
  /\ Go(r, "thawed")
  /\ UNCHANGED <<plan, rows, opener, patch, hidden, changes, faults>>

Ends(r) ==
  /\ At(r, "thawed") /\ run[r].thawed = {}
  /\ Step(r, IdleRun)
  /\ UNCHANGED <<plan, rows, opener, patch, hidden, changes, faults>>

\* The process dies: what the run thawed is known to no one else.
Dies(r) ==
  /\ ~At(r, "idle") /\ Fault
  /\ Step(r, IdleRun)
  /\ UNCHANGED <<plan, rows, opener, patch, hidden, changes>>

-----------------------------------------------------------------------------
(* Lifecycle.Open of a check whose target is down, and the way back.          *)

\* The fan-out has listed m as active; a frozen project is still measured.
Fails(m) ==
  /\ m \in Flaky /\ opener[m] = "idle" /\ monitors[m] = "active"
  /\ opener' = [opener EXCEPT ![m] = "insert"]
  /\ UNCHANGED <<plan, rows, run, patch, hidden, changes, faults>>

Inserts(m) ==
  /\ opener[m] = "insert"
  /\ IF m \in Open \/ monitors[m] = "gone"
       THEN opener' = [opener EXCEPT ![m] = "idle"] /\ UNCHANGED incident
       ELSE opener' = [opener EXCEPT ![m] = "guard"] /\ incident' = [incident EXCEPT ![m] = "silent"]
  /\ UNCHANGED <<plan, projects, monitors, noted, run, patch, hidden, changes, faults>>

Guards(m) ==
  /\ opener[m] = "guard"
  /\ \/ Passes(m) /\ opener' = [opener EXCEPT ![m] = "queue"]
     \/ Skips(m) /\ opener' = [opener EXCEPT ![m] = "idle"]
  /\ UNCHANGED <<plan, projects, monitors, incident, run, patch, hidden, changes>>

Notifies(m) ==
  /\ opener[m] = "queue"
  /\ Queue(m)
  /\ opener' = [opener EXCEPT ![m] = "idle"]
  /\ UNCHANGED <<plan, projects, monitors, run, patch, hidden, changes>>

\* The delivery worker: a frozen project's row is dead, not held.
Delivers(m) ==
  /\ incident[m] = "queued"
  /\ incident' = [incident EXCEPT ![m] = IF Home[m] \in Live THEN "sent" ELSE "dead"]
  /\ UNCHANGED <<plan, projects, monitors, noted, opener, run, patch, hidden, changes, faults>>

Recovers(m) ==
  /\ m \in Open
  /\ Over(m, run)
  /\ UNCHANGED <<plan, projects, monitors, patch, changes, faults>>

-----------------------------------------------------------------------------
(* The owner.                                                                *)

Buys(p) ==
  /\ p \in Plans \ {plan} /\ plan' = p /\ Change
  /\ UNCHANGED <<rows, opener, run, patch, hidden, faults>>

\* The walls of a PATCH: not in a frozen project, no resume of a plan's pause.
PatchReads(m, to) ==
  /\ patch.pc = "idle" /\ Change
  /\ monitors[m] # "gone" /\ Home[m] \in Live
  /\ to = "active" => monitors[m] # "plan"
  /\ to = "owner" => monitors[m] # "owner"
  /\ patch' = [NoPatch EXCEPT !.pc = "write", !.m = m, !.to = to,
                               !.resumes = to = "active" /\ monitors[m] = "owner"]
  /\ UNCHANGED <<plan, rows, opener, run, hidden, faults>>

\* PatchMonitor takes the row; a check that resumes onto a target that is down
\* gets its incident, and its page unless the project is frozen by now, on the
\* same transaction.
PatchWrites ==
  /\ patch.pc = "write"
  /\ IF monitors[patch.m] = "gone" THEN patch' = NoPatch
     ELSE \E opens \in {"none", IF Home[patch.m] \in Live THEN "queued" ELSE "silent"} :
            /\ opens # "none" => patch.m \in Flaky /\ patch.resumes /\ patch.m \notin Open
            /\ patch' = [patch EXCEPT !.pc = "commit", !.opens = opens]
  /\ UNCHANGED <<plan, rows, opener, run, hidden, changes, faults>>

\* What the owner says overrides the plan's mark.
PatchCommits ==
  /\ patch.pc = "commit"
  /\ LET m == patch.m
         opens == patch.opens # "none" /\ m \notin Open
     IN  /\ monitors' = [monitors EXCEPT ![m] = patch.to]
         /\ incident' = [incident EXCEPT ![m] = IF opens THEN patch.opens ELSE @]
         /\ noted' = [noted EXCEPT ![m] = @ \/ (opens /\ patch.opens = "queued")]
         /\ hidden' = IF opens /\ patch.opens = "silent" /\ Home[m] \in Live
                        THEN hidden \cup {m} ELSE hidden
         /\ run' = [r \in Runs |-> [run[r] EXCEPT !.cut = @ \ {m}]]
  /\ patch' = NoPatch
  /\ UNCHANGED <<plan, projects, opener, changes, faults>>

\* DELETE of the current project, while it is not the last: it leaves with its
\* checks and incidents, and a run of the sweeps follows the commit.
Deletes(p) ==
  /\ At(Deletion, "idle") /\ Change
  /\ p \in Live /\ Cardinality(Kept) > 1
  /\ ~(patch.pc = "commit" /\ Home[patch.m] = p)
  /\ LET with == {m \in Monitors : Home[m] = p}
         off(f, none) == [m \in Monitors |-> IF m \in with THEN none ELSE f[m]]
     IN  /\ projects' = [projects EXCEPT ![p] = "gone"]
         /\ monitors' = off(monitors, "gone")
         /\ incident' = off(incident, "none") /\ noted' = off(noted, FALSE)
         /\ opener' = off(opener, "idle") /\ hidden' = hidden \ with
         /\ run' = [run EXCEPT ![Deletion] = [@ EXCEPT !.pc = "rank"],
                      ![Job] = [run[Job] EXCEPT !.todo = @ \ with, !.thawed = @ \ {p},
                                                !.pc = IF run[Job].cur \in with THEN "page" ELSE @,
                                                !.cur = IF @ \in with THEN None ELSE @]]
  /\ UNCHANGED <<plan, patch, faults>>

RunStep(r) ==
  \/ \E newest \in [Kept -> 0..1] : Ranks(r, newest)
  \/ Freezes(r) \/ Budgets(r) \/ Cuts(r) \/ Lists(r) \/ Closed(r) \/ Paged(r) \/ Pages(r) \/ Ends(r)
  \/ \E m \in Monitors : Closes(r, m) \/ PageGuards(r, m)
  \/ \E p \in Projects : ListsThawed(r, p)

OpenStep(m) == Inserts(m) \/ Guards(m) \/ Notifies(m)

Next ==
  \/ Ticks
  \/ \E r \in Runs : RunStep(r) \/ Dies(r)
  \/ \E m \in Monitors : Fails(m) \/ OpenStep(m) \/ Delivers(m) \/ Recovers(m)
  \/ \E p \in Plans : Buys(p)
  \/ \E m \in Monitors, to \in {"active", "owner"} : PatchReads(m, to)
  \/ PatchWrites \/ PatchCommits
  \/ \E p \in Projects : Deletes(p)

\* The job runs every minute, and a call that has begun goes on.
Fairness ==
  /\ WF_vars(Ticks) /\ WF_vars(PatchWrites \/ PatchCommits)
  /\ \A r \in Runs : WF_vars(RunStep(r))
  /\ \A m \in Monitors : WF_vars(OpenStep(m))

Spec == Init /\ [][Next]_vars /\ Fairness

-----------------------------------------------------------------------------
(* Properties.                                                               *)

LiveIsFull ==
  Cardinality(Live) = IF plan.projects < Cardinality(Kept) THEN plan.projects ELSE Cardinality(Kept)
BudgetIsKept ==
  \A m \in Holding : monitors[m] # (IF Slot(m) > plan.checks THEN "active" ELSE "plan")
Settled == LiveIsFull /\ BudgetIsKept /\ PlanPausedOpen = {}

\* Once the owner stops, the runs settle for good: as many projects live as the
\* plan carries, the oldest checks running, nothing open on a check the plan
\* pauses, and the pick of the live projects is not made again however the logs
\* come in (sweep.go, "so the pick is made once").
CapacitySettles == <>[]Settled /\ <>[][projects' = projects]_projects

\* An outage that is open in a live project has been announced, by the call
\* that opened it or by the run that thawed the project, whichever of the two
\* saw the other, while no statement fails and no process dies (incident.go
\* NotifyThawed).  Left out: an incident a transaction commits after the thaw.
UnderWay(m) ==
  \/ opener[m] # "idle"
  \/ \E r \in Runs : Home[m] \in run[r].thawed \/ run[r].cur = m \/ (Paging(r) /\ m \in run[r].todo)
Announced(m) == m \in Open /\ Home[m] \in Live /\ ~UnderWay(m) => incident[m] # "silent"
OpenOutageIsPaged == faults = 0 => \A m \in Monitors \ hidden : Announced(m)

\* No run both pauses a check and announces its outage (worker.go, "after the
\* budget so a check about to be paused is never paged"), unless a fan-out that
\* had listed the check as running opens the outage in between.
CutIsNotPaged == faults = 0 => \A r \in Runs : run[r].cut \cap run[r].paged = {}

\* No sweep takes an owner's pause away or makes it the plan's, whatever it
\* read before the owner paused (sweep.go, "an owner's own pause is never
\* touched").
OwnerPauseIsKept ==
  [][\A m \in Monitors : monitors[m] = "owner" /\ monitors'[m] # "owner" =>
       PatchCommits \/ Deletes(Home[m])]_vars

(* Refuted: formulas the code does not satisfy.                              *)

\* write_api.go: the sweeps of a deletion run "so the owner never lands on zero
\* live projects"; beside the job's they can rank two ways and freeze both.
SomethingIsLive == faults = 0 => Live # {}

\* monitors.go: a plan's pause "lifts with the plan, never with a PATCH"; one
\* that read the row before the sweep lifts it, until the next run.
PatchLiftsNoPlanPause == [][PatchCommits => ~(monitors[patch.m] = "plan" /\ patch.to = "active")]_vars

\* incident.go: "an outage spanning the thaw is never paged" is what
\* NotifyThawed is for; a page that was queued before the freeze died with it,
\* and the outage is not announced again.
SpanningIsPaged == faults = 0 => \A m \in Open : Home[m] \in Live /\ ~UnderWay(m) => incident[m] # "dead"

\* The same, with no failure at all, for a resume that commits after the thaw.
ResumedIsPaged == faults = 0 => \A m \in Monitors : Announced(m)

\* The thaw is committed before its outages are announced: a run that is cut
\* off in between, or a list that fails, leaves them unannounced.
ThawIsAnnounced == \A m \in Monitors \ hidden : Announced(m)
=============================================================================
