------------------------------ MODULE Monitoring ------------------------------
(***************************************************************************)
(* The monitors of a project: the websites of Outage, beside them one         *)
(* heartbeat (Heartbeat), which has a private target and a threshold of one    *)
(* miss, and the leases by which the probe fleet shares the targets           *)
(* (ProbeLease).  Results reach the incidents through the lifecycle of each    *)
(* monitor; who measures when is the leases' alone.                           *)
(***************************************************************************)
EXTENDS Outage

CONSTANTS
  Pings, Workers, Patches, NoSession, LostSession, Cadences, GraceCap,
  Nodes, Targets, NoNode, Paying, Capacity, LeaseTerm, BatchBudget, SubmitBudget, Intervals,
  BackoffShift, BackoffCap, RetryAfters, Answers, MaxLate

VARIABLES
  beat, left, interval, paused, beatOpen, ping, sweep, lock, patch, met, suffered, beatFaults,
  wanted, due, by, lease, refusals, backoff, node, unmarked, pulled, leaseChanges, leaseFaults

heartbeat == <<beat, left, interval, paused, beatOpen, ping, sweep, lock, patch, met, suffered, beatFaults>>
leases == <<wanted, due, by, lease, refusals, backoff, node, unmarked, pulled, leaseChanges, leaseFaults>>

H == INSTANCE Heartbeat WITH Threshold <- 1, facts <- beat, open <- beatOpen, faults <- beatFaults
L == INSTANCE ProbeLease WITH changes <- leaseChanges, faults <- leaseFaults

ASSUME BeatAssumption == H!HeartbeatAssumption
ASSUME LeaseAssumption == L!ProbeLeaseAssumption

\* A heartbeat never has two open incidents, unless a lock session was lost under a
\* running sweep or the look before the insert failed (worker.go, runLocked).
OneOpen == H!OneOpen

\* At rest an incident is open exactly while the verdict is down, unless something
\* failed or a ping and a sweep held states at once (heartbeat.go, apply).
IncidentFollowsFacts == H!IncidentFollowsFacts

\* A job that never pings again is eventually and lastingly down, if its owner leaves it
\* running (heartbeat.go, Tick; worker.go).
SilenceShows == H!SilenceShows

\* A lease is taken over only from a node that is gone, unless a Lease handed the target
\* out without marking its row (schedule.sql, SetLease; ucprobe main.go, the budgets).
OneHolderUnlessUnmarked == L!OneHolderUnlessUnmarked

\* Every wanted target that is due is measured and rescheduled in the end ("a node that
\* lost its batch does not freeze the target for everyone", probeservice.go).
KeepsBeingMeasured == L!KeepsBeingMeasured
=============================================================================
