------------------------------ MODULE Heartbeat ------------------------------
(***************************************************************************)
(* One heartbeat monitor: the pings of the customer's own job (Service.Ping, *)
(* src/back/internal/heartbeat/heartbeat.go), the minute sweep that records   *)
(* a window closed without one (Service.Tick, run by one of several workers   *)
(* under an advisory lock: worker.go), the incident both move through the     *)
(* lifecycle (incident.go), and the owner's PATCH (api/monitors.go).          *)
(*                                                                          *)
(* Each call is split at its database statements.  Time is the ticks left    *)
(* until next_due_at.  A statement may fail, a process may die, and the       *)
(* session that holds the advisory lock may be lost while the sweep runs on.  *)
(***************************************************************************)
EXTENDS Availability

CONSTANTS
  Pings,      \* ping requests that can be in flight together
  Workers,    \* ucworker instances
  Patches,    \* PATCH requests that can be in flight together
  NoSession,  \* the advisory lock is free
  LostSession,\* the lock is held by a session whose process is gone
  Cadences,   \* intervals, in ticks
  GraceCap,   \* the longest grace: an hour
  MaxFaults   \* bound on failures of a behaviour

\* What a configuration must satisfy (Monitoring assumes it).
HeartbeatAssumption ==
  /\ Threshold = 1          \* heartbeat.New: one miss is a miss
  /\ NoSession \notin Workers /\ LostSession \notin Workers /\ NoSession # LostSession
  /\ Cadences \in SUBSET (Nat \ {0}) /\ GraceCap \in Nat /\ MaxFaults \in Nat

VARIABLES
  facts,     \* the target_facts row of the private target
  left,      \* ticks until next_due_at
  interval,  \* monitor.interval_sec
  paused,    \* monitor.paused
  open,      \* incidents of the monitor with resolved_at NULL
  ping,      \* each ping request: where it is and what it has read
  sweep,     \* each worker's Tick: where it is and what it has listed
  lock,      \* who holds the advisory lock of the job
  patch,     \* each PATCH: the state it read and what it asks for
  met,       \* ghost: a ping and a sweep both held a state they had read
  suffered,  \* ghost: the kinds of failure so far
  faults

job == <<ping, sweep, lock>>
row == <<facts, left, interval, paused, open>>
vars == <<row, job, patch, met, suffered, faults>>

NoPing == [pc |-> "idle", interval |-> 0, seen |-> NoFacts]
NoSweep == [pc |-> "idle", interval |-> 0, seen |-> NoFacts]
NoPatch == [pc |-> "idle", paused |-> FALSE, interval |-> 0, wasPaused |-> FALSE, old |-> 0]

Grace(i) == IF i < GraceCap THEN i ELSE GraceCap
Window(i) == i + Grace(i)

\* "unguarded" lets an insert past the look before it; "lost" only loses a step.
Kinds == {"lost", "unguarded"}

TypeOK ==
  /\ facts \in Facts /\ facts.status \in {"nodata", "ok", "down"}
  /\ left \in Nat /\ \E i \in Cadences : left <= Window(i)
  /\ interval \in Cadences
  /\ paused \in BOOLEAN /\ met \in BOOLEAN
  /\ open \in Nat
  /\ ping \in [Pings -> [pc : {"idle", "read", "write", "look", "close", "due"},
                         interval : Cadences \cup {0}, seen : Facts]]
  /\ sweep \in [Workers -> [pc : {"idle", "write", "look", "insert", "due", "unlock"},
                            interval : Cadences \cup {0}, seen : Facts]]
  /\ lock \in Workers \cup {NoSession, LostSession}
  /\ patch \in [Patches -> [pc : {"idle", "commit"}, paused : BOOLEAN, interval : Cadences \cup {0},
                            wasPaused : BOOLEAN, old : Cadences \cup {0}]]
  /\ suffered \in SUBSET Kinds
  /\ faults \in 0..MaxFaults

\* The create handler: the monitor, its private target and the first window.
Init ==
  /\ facts = [NoFacts EXCEPT !.status = "nodata"]
  /\ interval \in Cadences
  /\ left = Window(interval)
  /\ paused = FALSE
  /\ open = 0
  /\ ping = [p \in Pings |-> NoPing]
  /\ sweep = [w \in Workers |-> NoSweep]
  /\ lock = NoSession
  /\ patch = [q \in Patches |-> NoPatch]
  /\ met = FALSE /\ suffered = {} /\ faults = 0

\* A second miss in a row decides nothing a first one does not.
Saturate(s) == [s EXCEPT !.fails = IF @ > Threshold THEN Threshold ELSE @]

PingHolds == \E p \in Pings : ping[p].pc \in {"write", "look", "close"}
SweepHolds == \E w \in Workers : sweep[w].pc \in {"write", "look", "insert"}
Meet == met' = (met \/ (PingHolds' /\ SweepHolds'))
Well == UNCHANGED <<suffered, faults>>

Fails(kind) ==
  /\ faults < MaxFaults
  /\ faults' = faults + 1
  /\ suffered' = suffered \cup {kind}

-----------------------------------------------------------------------------
(* Ping.                                                                     *)

PingAt(p, pc) == ping' = [ping EXCEPT ![p].pc = pc]

\* GetMonitorByPingToken: a paused monitor answers OK and records nothing.
Receive(p) ==
  /\ ping[p].pc = "idle" /\ ~paused
  /\ ping' = [ping EXCEPT ![p] = [NoPing EXCEPT !.pc = "read", !.interval = interval]]
  /\ UNCHANGED <<row, sweep, lock, patch>> /\ Meet /\ Well

\* MUTANT of Beheld: the state the ping starts from is not loaded.
Beheld_Blank == [NoFacts EXCEPT !.status = "nodata"]

Beheld == facts

\* GetTargetFacts.
PingReads(p) ==
  /\ ping[p].pc = "read"
  /\ ping' = [ping EXCEPT ![p].pc = "write", ![p].seen = Beheld]
  /\ UNCHANGED <<row, sweep, lock, patch>> /\ Meet /\ Well

\* apply: the detector on the state in hand, and UpsertTargetFacts.
PingWrites(p) ==
  /\ ping[p].pc = "write"
  /\ facts' = Process(ping[p].seen, "ok")
  /\ ping' = [ping EXCEPT ![p].seen = NoFacts,
                           ![p].pc = IF Closes(ping[p].seen, "ok") THEN "look" ELSE "due"]
  /\ UNCHANGED <<left, interval, paused, open, sweep, lock, patch>> /\ Meet /\ Well

\* Lifecycle.Close: no open incident, nothing to close.
PingLooks(p) ==
  /\ ping[p].pc = "look"
  /\ PingAt(p, IF open = 0 THEN "due" ELSE "close")
  /\ UNCHANGED <<row, sweep, lock, patch>> /\ Meet /\ Well

PingCloses(p) ==
  /\ ping[p].pc = "close"
  /\ open' = 0
  /\ PingAt(p, "due")
  /\ UNCHANGED <<facts, left, interval, paused, sweep, lock, patch>> /\ Meet /\ Well

\* SetHeartbeatDue, interval and grace as the ping read them.
PingDue(p) ==
  /\ ping[p].pc = "due"
  /\ left' = Window(ping[p].interval)
  /\ ping' = [ping EXCEPT ![p] = NoPing]
  /\ UNCHANGED <<facts, interval, paused, open, sweep, lock, patch>> /\ Meet /\ Well

\* A failed facts read, upsert or SetDue answers 500 and leaves; what fails in
\* Close is dropped, and so is a close that could not see its incident.
PingFails(p) ==
  /\ ping[p].pc # "idle"
  /\ Fails("lost")
  /\ ping' = IF ping[p].pc \in {"look", "close"} THEN [ping EXCEPT ![p].pc = "due"]
                                                ELSE [ping EXCEPT ![p] = NoPing]
  /\ UNCHANGED <<row, sweep, lock, patch>> /\ Meet

PingCut(p) ==
  /\ ping[p].pc # "idle"
  /\ Fails("lost")
  /\ ping' = [ping EXCEPT ![p] = NoPing]
  /\ UNCHANGED <<row, sweep, lock, patch>> /\ Meet

-----------------------------------------------------------------------------
(* Tick, under the job's advisory lock.                                      *)

SweepAt(w, pc) == sweep' = [sweep EXCEPT ![w].pc = pc]

\* ListMissedHeartbeats.
Missed == ~paused /\ left = 0

\* MUTANT of MayRun: a worker runs the sweep whether it got the lock or not.
MayRun_Anyway == TRUE

MayRun == lock = NoSession

\* runLocked and the list; a run that lists nothing changes nothing.
Tick(w) ==
  /\ sweep[w].pc = "idle" /\ MayRun /\ Missed
  /\ lock' = w
  /\ sweep' = [sweep EXCEPT ![w] = [pc |-> "write", interval |-> interval, seen |-> facts]]
  /\ UNCHANGED <<row, ping, patch>> /\ Meet /\ Well

\* apply, on the status that was listed; the row carries no unmeasured count.
SweepWrites(w) ==
  /\ sweep[w].pc = "write"
  /\ facts' = Saturate(Process([sweep[w].seen EXCEPT !.unmeasured = 0], "fail"))
  /\ sweep' = [sweep EXCEPT ![w].seen = NoFacts,
                             ![w].pc = IF Opens(sweep[w].seen, "fail") THEN "look" ELSE "due"]
  /\ UNCHANGED <<left, interval, paused, open, ping, lock, patch>> /\ Meet /\ Well

\* Lifecycle.open: an incident already open is returned, not duplicated.
SweepLooks(w) ==
  /\ sweep[w].pc = "look"
  /\ SweepAt(w, IF open > 0 THEN "due" ELSE "insert")
  /\ UNCHANGED <<row, ping, lock, patch>> /\ Meet /\ Well

SweepOpens(w) ==
  /\ sweep[w].pc = "insert"
  /\ open' = open + 1
  /\ SweepAt(w, "due")
  /\ UNCHANGED <<facts, left, interval, paused, ping, lock, patch>> /\ Meet /\ Well

\* SetHeartbeatDue: one miss per expected beat, the interval as it was listed.
SweepDue(w) ==
  /\ sweep[w].pc = "due"
  /\ left' = sweep[w].interval
  /\ SweepAt(w, "unlock")
  /\ UNCHANGED <<facts, interval, paused, open, ping, lock, patch>> /\ Meet /\ Well

\* MUTANT of Unlocked: the unlock rides another pooled connection.
Unlocked_Elsewhere(w) == lock

\* pg_advisory_unlock: it releases nothing another session holds.
Unlocked(w) == IF lock = w THEN NoSession ELSE lock

Unlock(w) ==
  /\ sweep[w].pc = "unlock"
  /\ lock' = Unlocked(w)
  /\ sweep' = [sweep EXCEPT ![w] = NoSweep]
  /\ UNCHANGED <<row, ping, patch>> /\ Meet /\ Well

\* A failed upsert leaves the row for the next tick; a failed read of the open
\* incident counts as none open; a failed insert or SetDue is dropped.
SweepFails(w) ==
  /\ sweep[w].pc \in {"write", "look", "insert", "due"}
  /\ Fails(IF sweep[w].pc = "look" THEN "unguarded" ELSE "lost")
  /\ SweepAt(w, CASE sweep[w].pc = "look"   -> "insert"
                  [] sweep[w].pc = "insert" -> "due"
                  [] OTHER                  -> "unlock")
  /\ UNCHANGED <<row, ping, lock, patch>> /\ Meet

\* The process dies: its session holds the lock until the server notices.
WorkerDies(w) ==
  /\ sweep[w].pc # "idle"
  /\ Fails("lost")
  /\ sweep' = [sweep EXCEPT ![w] = NoSweep]
  /\ lock' = IF lock = w THEN LostSession ELSE lock
  /\ UNCHANGED <<row, ping, patch>> /\ Meet

ServerNotices ==
  /\ lock = LostSession
  /\ lock' = NoSession
  /\ UNCHANGED <<row, ping, sweep, patch, met>> /\ Well

\* The session that holds the lock ends, and the sweep goes on without it.
SessionLost(w) ==
  /\ lock = w
  /\ Fails("unguarded")
  /\ lock' = NoSession
  /\ UNCHANGED <<row, ping, sweep, patch, met>>

-----------------------------------------------------------------------------
(* The owner's PATCH.                                                        *)

\* The state BEFORE, read outside the transaction.
Asks(q, p, i) ==
  /\ patch[q].pc = "idle"
  /\ p # paused \/ i # interval
  /\ patch' = [patch EXCEPT ![q] = [pc |-> "commit", paused |-> p, interval |-> i,
                                    wasPaused |-> paused, old |-> interval]]
  /\ UNCHANGED <<row, job, met>> /\ Well

\* The transaction: the row, and a fresh window on a resume or a new cadence.
\* A field the request leaves alone has the value that was read, and is kept.
Commits(q) ==
  LET r == patch[q]
      fresh == (r.wasPaused /\ ~r.paused) \/ r.interval # r.old
  IN /\ r.pc = "commit"
     /\ paused' = IF r.paused = r.wasPaused THEN paused ELSE r.paused
     /\ interval' = IF r.interval = r.old THEN interval ELSE r.interval
     /\ left' = IF fresh THEN Window(r.interval) ELSE left
     /\ patch' = [patch EXCEPT ![q] = NoPatch]
     /\ UNCHANGED <<facts, open, job, met>> /\ Well

-----------------------------------------------------------------------------

TimePasses ==
  /\ left > 0
  /\ left' = left - 1
  /\ UNCHANGED <<facts, interval, paused, open, job, patch, met>> /\ Well

PingStep(p) ==
  PingReads(p) \/ PingWrites(p) \/ PingLooks(p) \/ PingCloses(p) \/ PingDue(p)
SweepStep(w) ==
  SweepWrites(w) \/ SweepLooks(w) \/ SweepOpens(w) \/ SweepDue(w) \/ Unlock(w)

Next ==
  \/ \E p \in Pings : Receive(p) \/ PingStep(p) \/ PingFails(p) \/ PingCut(p)
  \/ \E w \in Workers :
       Tick(w) \/ SweepStep(w) \/ SweepFails(w) \/ WorkerDies(w) \/ SessionLost(w)
  \/ ServerNotices
  \/ \E q \in Patches :
       \/ Commits(q)
       \/ Asks(q, ~paused, interval)
       \/ \E i \in Cadences : Asks(q, paused, i)
  \/ TimePasses

\* Requests run to their end, the clock moves, some worker's ticker fires every
\* minute, and a server notices a dead client.
Fairness ==
  /\ \A p \in Pings : WF_vars(PingStep(p))
  /\ \A w \in Workers : WF_vars(SweepStep(w))
  /\ \A q \in Patches : WF_vars(Commits(q))
  /\ WF_vars(\E w \in Workers : Tick(w))
  /\ WF_vars(ServerNotices)
  /\ WF_vars(TimePasses)

Spec == Init /\ [][Next]_vars /\ Fairness

-----------------------------------------------------------------------------
(* Properties.                                                               *)

Quiet == /\ \A p \in Pings : ping[p].pc = "idle"
         /\ \A w \in Workers : sweep[w].pc = "idle"

\* A heartbeat never has two open incidents, whatever pings, sweeps of several
\* workers, crashes and failed writes do: the look before the insert is safe
\* because only the holder of the job's lock opens (worker.go runLocked).  A
\* lock session lost under a running sweep, and a look that failed (open()
\* takes it for "none open"), are the two ways around it.
OneOpen == "unguarded" \notin suffered => open <= 1

\* Once the calls in flight have ended, an incident is open exactly while the
\* stored verdict is down, over any history of pings, misses, pauses, resumes
\* and cadence changes in which nothing failed and no ping held a state it had
\* read while a sweep held one (apply acts on the edge only: heartbeat.go).
IncidentFollowsFacts ==
  Quiet /\ ~met /\ suffered = {} => (open = 1 <=> facts.status = "down") /\ open <= 1

\* From some moment on no ping comes, and the owner leaves the monitor running.
LeftRunningUnpinged == /\ ~paused
                       /\ \A p \in Pings : ping[p].pc = "idle"
                       /\ \A q \in Patches : patch[q].pc = "idle"

\* A job that never pings again is eventually and lastingly down, however the
\* sweep is interrupted, if its owner leaves it running: the stale ping in
\* flight, the failed sweep and the dead holder of the lock all pass.
SilenceShows ==
  <>[]LeftRunningUnpinged => <>[](facts.status = "down")

(* Refuted: formulas the code does not satisfy.                              *)

\* heartbeat.go: "a window that closes without one is a failed check"; the
\* incident of a down heartbeat is missing for good: a ping that read "down"
\* closes what the next sweep opened, and no edge is left to open it again.
SilenceIsReported ==
  <>[]LeftRunningUnpinged => <>[](open > 0)

\* A ping that read "ok" while the sweep opened has no closing edge: the job
\* pings, the verdict is ok, and the incident stays open.
PingedIsClosed == Quiet /\ suffered = {} => (facts.status = "ok" => open = 0)

\* monitors.go: "A resume or a new cadence opens a fresh window instead" of a
\* miss at once; of two PATCHes, the one that read the state before the pause
\* and asks for nothing but running leaves the old window.
ResumeIsFresh == [][(paused /\ ~paused') => left' = Window(interval')]_vars
=============================================================================
