---------------------------- MODULE DeliveryQueue ----------------------------
(***************************************************************************)
(* The alert delivery pipeline of src/back/internal/deliver: rows of the    *)
(* delivery_queue table, the workers that lease, compose, send and settle   *)
(* them, the mute window of a channel, and the incident a follow-up is      *)
(* composed from.                                                           *)
(*                                                                          *)
(* A worker's processItem is split at its database calls and at the send,   *)
(* because another worker, the Telegram bot, the API, the freeze sweep or a *)
(* crash can come in between.  Time is relative: a row's next_try_at and a  *)
(* channel's muted_until are kept as the ticks left until they come.        *)
(***************************************************************************)
EXTENDS Naturals, FiniteSets

CONSTANTS
  Rows,          \* rows of delivery_queue; a row stands for its idem_key
  Channels,      \* alert_channel rows of one project
  EmailChannels, \* those of kind email, which never fail over
  Classes,       \* the classes of delivery enqueued, of Class
  Workers,       \* delivery loops: every ucworker and every ucapi --with-worker
  NoRow,         \* a worker holding no current row
  MaxAttempts,   \* maxAttempts
  BatchLimit,    \* LIMIT of LeasePendingDeliveries
  MaxBackoff,    \* the longest backoff, in ticks
  BreakerTicks,  \* breakerTimeout, in ticks
  FollowUpTicks, \* delay of the resolve follow-up, in ticks
  MuteTicks,     \* the mute windows a user asks for, in ticks
  MaxMutes,      \* bound on the /mute commands of a behaviour
  MaxFaults      \* bound on crashes and lost writes of a behaviour

Class == {"alert", "followup", "test"}

ASSUME DeliveryAssumption ==
  /\ EmailChannels \subseteq Channels /\ Classes \subseteq Class
  /\ NoRow \notin Rows
  /\ MaxAttempts \in Nat \ {0} /\ MaxBackoff \in Nat \ {0}
  /\ BreakerTicks \in Nat \ {0} /\ FollowUpTicks \in Nat \ {0}
  /\ BatchLimit \in Nat \ {0}
  /\ MuteTicks \subseteq Nat \ {0}
  /\ MaxMutes \in Nat /\ MaxFaults \in Nat

VARIABLES
  queue,     \* delivery_queue
  muted,     \* muted_until of each channel, see MuteLeft
  frozen,    \* the project's frozen_at is set
  incident,  \* the incident behind each follow-up: open, or how it closed
  batch,     \* the rows of a worker's Tick it has not reached yet
  attempts0, \* item.Attempts, as LeasePendingDeliveries returned it
  task,      \* the item a worker is processing and what it has read for it
  breaker,   \* each worker's breakers: 0 healthy, else 1 + age of the streak
  sends,     \* ghost: sends made for each row
  accepted,  \* ghost: sends the channel took for each row
  confirmed, \* ghost: rows whose taking was answered, so that a worker knows of it
  parked,    \* ghost: rows whose next_try_at a mute put there
  said,      \* ghost: the answer a delivered follow-up gave
  mutes, faults

queueVars == <<queue, parked>>
workerVars == <<batch, attempts0, task, breaker>>
ghostVars == <<sends, accepted, confirmed, said>>
vars == <<queue, muted, frozen, incident, batch, attempts0, task, breaker,
          sends, accepted, confirmed, parked, said, mutes, faults>>

Reason == {"none", "channel_not_found", "project_frozen", "no_failover",
           "no_incident", "closed_unmeasured", "fatal", "max_retries"}
Row == [state : {"absent", "pending", "sent", "dead"}, leased : BOOLEAN,
        class : Class, channel : Channels, attempts : Nat, due : Nat,
        reason : Reason]
IncidentState == {"open", "recovered", "by_human", "monitor_deleted", "plan_paused"}
Text == {"alert", "recovered", "still_down"}
Answer == {"ok", "fatal", "retriable"}
Task == [pc : {"idle", "decide", "compose", "send", "settle"}, row : Rows \cup {NoRow},
         frozen : BOOLEAN, muted : Nat, route : {"own", "email"},
         text : Text, answer : Answer]

NoTask == [pc |-> "idle", row |-> NoRow, frozen |-> FALSE, muted |-> 0,
           route |-> "own", text |-> "alert", answer |-> "ok"]

TypeOK ==
  /\ queue \in [Rows -> Row]
  /\ muted \in [Channels -> Nat]
  /\ frozen \in BOOLEAN
  /\ incident \in [Rows -> IncidentState]
  /\ batch \in [Workers -> SUBSET Rows]
  /\ attempts0 \in [Workers -> [Rows -> Nat]]
  /\ task \in [Workers -> Task]
  /\ breaker \in [Workers -> [Channels -> Nat]]
  /\ sends \in [Rows -> Nat]
  /\ accepted \in [Rows -> Nat]
  /\ confirmed \in SUBSET Rows
  /\ parked \in SUBSET Rows
  /\ said \in [Rows -> {"nothing"} \cup Text]
  /\ mutes \in Nat
  /\ faults \in Nat

Init ==
  /\ queue \in [Rows -> {[state |-> "absent", leased |-> FALSE, class |-> class,
                          channel |-> c, attempts |-> 0, due |-> 0, reason |-> "none"]
                         : class \in Classes, c \in Channels}]
  /\ muted = [c \in Channels |-> 0]
  /\ frozen = FALSE
  /\ incident = [r \in Rows |-> "open"]
  /\ batch = [w \in Workers |-> {}]
  /\ attempts0 = [w \in Workers |-> [r \in Rows |-> 0]]
  /\ task = [w \in Workers |-> NoTask]
  /\ breaker = [w \in Workers |-> [c \in Channels |-> 0]]
  /\ sends = [r \in Rows |-> 0]
  /\ accepted = [r \in Rows |-> 0]
  /\ confirmed = {}
  /\ parked = {}
  /\ said = [r \in Rows |-> "nothing"]
  /\ mutes = 0 /\ faults = 0

-----------------------------------------------------------------------------
(* Reading the state.                                                        *)

\* muted_until: 0 is NULL, n + 1 is n ticks away (1: a window that has passed
\* and that nothing has cleared).
Muted(m) == m > 1
MuteLeft(m) == m - 1

\* MUTANT of Leasable: a lease nobody holds any more is taken over.
Leasable_Reclaims == {r \in Rows : /\ queue[r].state = "pending" /\ queue[r].due = 0
                                   /\ \A w \in Workers : r \notin batch[w] /\ task[w].row # r}

\* MUTANT of Leasable: the lease is not looked at.
Leasable_IgnoresLease == {r \in Rows : queue[r].state = "pending" /\ queue[r].due = 0}

Leasable == {r \in Rows : /\ queue[r].state = "pending"
                          /\ ~queue[r].leased
                          /\ queue[r].due = 0}

BreakerOpen(w, c) == breaker[w][c] > BreakerTicks

FailsOver(w, r) ==
  /\ BreakerOpen(w, queue[r].channel)
  /\ queue[r].channel \notin EmailChannels

\* Every settling UPDATE counts an attempt and clears the lease.
Attempted(r) == [queue[r] EXCEPT !.attempts = @ + 1]
Settled(r, state, reason) ==
  [Attempted(r) EXCEPT !.state = state, !.reason = reason, !.leased = FALSE]
Sent(r) == Settled(r, "sent", "none")
Dead(r, reason) == Settled(r, "dead", reason)
\* MUTANT of Rescheduled: the lease is not cleared.
Rescheduled_KeepsLease(r, due) == [Attempted(r) EXCEPT !.due = due]
Rescheduled(r, due) == [Attempted(r) EXCEPT !.leased = FALSE, !.due = due]

\* The worker writes the row and drops the item; the write's error is ignored,
\* so a write that fails leaves the row leased by nobody who will come back.
WriteRow(w, r, row) ==
  /\ \/ queue' = [queue EXCEPT ![r] = row] /\ UNCHANGED faults
     \/ faults < MaxFaults /\ faults' = faults + 1 /\ UNCHANGED queue
  /\ task' = [task EXCEPT ![w] = NoTask]
  /\ attempts0' = [attempts0 EXCEPT ![w][r] = 0]

-----------------------------------------------------------------------------
(* The callers that enqueue, and the rest of the world.                      *)

\* EnqueueDelivery, EnqueueDeliveryAt and testChannel.  A key already there is
\* left alone (ON CONFLICT DO NOTHING).
Enqueue(r) ==
  /\ queue[r].state = "absent"
  /\ queue' = [queue EXCEPT ![r].state = "pending",
                            ![r].due = IF queue[r].class = "followup" THEN FollowUpTicks ELSE 0]
  /\ UNCHANGED <<muted, frozen, incident, workerVars, ghostVars, parked, mutes, faults>>

\* The incident a follow-up is about is closed: by a recovery, by hand, by the
\* delete of its monitor or by the plan.
CloseIncident(r, reason) ==
  /\ queue[r].class = "followup" /\ queue[r].state # "absent"
  /\ incident[r] = "open"
  /\ incident' = [incident EXCEPT ![r] = reason]
  /\ UNCHANGED <<queueVars, muted, frozen, workerVars, ghostVars, mutes, faults>>

\* The freeze sweep freezes the project, a plan change thaws it.
ToggleFrozen ==
  /\ frozen' = ~frozen
  /\ UNCHANGED <<queueVars, muted, incident, workerVars, ghostVars, mutes, faults>>

\* /mute in the chat sets the window, over whatever window was there.
Mute(c, ticks) ==
  /\ mutes < MaxMutes
  /\ mutes' = mutes + 1
  /\ muted' = [muted EXCEPT ![c] = ticks + 1]
  /\ UNCHANGED <<queueVars, frozen, incident, workerVars, ghostVars, faults>>

\* What one unmute statement releases: keyed on the window, not on the row.
Released(c) == {r \in Rows : /\ queue[r].channel = c
                             /\ queue[r].state = "pending"
                             /\ ~queue[r].leased
                             /\ queue[r].class # "followup"
                             /\ queue[r].due >= MuteLeft(muted[c])}

\* handleUnmute, and patchChannel's copy of it: one statement.
Unmute(c) ==
  /\ muted[c] > 0
  /\ muted' = [muted EXCEPT ![c] = 0]
  /\ queue' = [r \in Rows |-> IF r \in Released(c) THEN [queue[r] EXCEPT !.due = 0] ELSE queue[r]]
  /\ parked' = parked \ Released(c)
  /\ UNCHANGED <<frozen, incident, workerVars, ghostVars, mutes, faults>>

\* One tick of time: waits shorten, failure streaks get older.
Tick ==
  /\ queue' = [r \in Rows |-> [queue[r] EXCEPT !.due = IF @ > 0 THEN @ - 1 ELSE 0]]
  /\ muted' = [c \in Channels |-> IF muted[c] > 1 THEN muted[c] - 1 ELSE muted[c]]
  /\ task' = [w \in Workers |-> [task[w] EXCEPT !.muted = IF @ > 1 THEN @ - 1 ELSE @]]
  /\ breaker' = [w \in Workers |-> [c \in Channels |->
                   IF breaker[w][c] \in 1..BreakerTicks THEN breaker[w][c] + 1 ELSE breaker[w][c]]]
  /\ UNCHANGED <<frozen, incident, batch, attempts0, ghostVars, parked, mutes, faults>>

-----------------------------------------------------------------------------
(* The worker.                                                               *)

\* Tick: one atomic UPDATE leases a batch (FOR UPDATE SKIP LOCKED).
Lease(w) ==
  /\ task[w].pc = "idle" /\ batch[w] = {}
  /\ \E S \in SUBSET Leasable :
       /\ S # {} /\ Cardinality(S) <= BatchLimit
       /\ Cardinality(S) < BatchLimit => S = Leasable
       /\ queue' = [r \in Rows |-> IF r \in S THEN [queue[r] EXCEPT !.leased = TRUE] ELSE queue[r]]
       /\ batch' = [batch EXCEPT ![w] = S]
       /\ parked' = parked \ S
       /\ attempts0' = [attempts0 EXCEPT ![w] = [r \in Rows |-> IF r \in S THEN queue[r].attempts ELSE 0]]
  /\ UNCHANGED <<muted, frozen, incident, task, breaker, ghostVars, mutes, faults>>

\* GetChannelForDelivery: the channel and its project's freeze, as read now.
ReadChannel(w) ==
  /\ task[w].pc = "idle"
  /\ \E r \in batch[w] :
       /\ batch' = [batch EXCEPT ![w] = @ \ {r}]
       /\ task' = [task EXCEPT ![w] = [NoTask EXCEPT !.pc = "decide", !.row = r,
                                         !.frozen = frozen, !.muted = muted[queue[r].channel]]]
  /\ UNCHANGED <<queueVars, muted, frozen, incident, attempts0, breaker, ghostVars, mutes, faults>>

\* The same read failing, for any reason: the item is dead.
ReadChannelFails(w) ==
  /\ task[w].pc = "idle"
  /\ \E r \in batch[w] :
       /\ batch' = [batch EXCEPT ![w] = @ \ {r}]
       /\ WriteRow(w, r, Dead(r, "channel_not_found"))
  /\ UNCHANGED <<parked, muted, frozen, incident, breaker, ghostVars, mutes>>

\* A frozen project delivers nothing but the owner's own test.
DropFrozen(w) ==
  LET r == task[w].row IN
  /\ task[w].pc = "decide"
  /\ task[w].frozen /\ queue[r].class # "test"
  /\ WriteRow(w, r, Dead(r, "project_frozen"))
  /\ UNCHANGED <<parked, muted, frozen, incident, batch, breaker, ghostVars, mutes>>

NotFrozen(w) == task[w].pc = "decide" /\ (task[w].frozen => queue[task[w].row].class = "test")

\* The breaker is open and the project has no email channel to fail over to
\* (or the lookup fails): the item reaches nobody.  All four kinds have a
\* sender (worker.go Start), so a missing sender is not modelled.
DropUnroutable(w) ==
  LET r == task[w].row IN
  /\ NotFrozen(w)
  /\ FailsOver(w, r)
  /\ WriteRow(w, r, Dead(r, "no_failover"))
  /\ UNCHANGED <<parked, muted, frozen, incident, batch, breaker, ghostVars, mutes>>

\* A muted channel defers the item to the end of the window it read.
Defer(w) ==
  LET r == task[w].row IN
  /\ NotFrozen(w)
  /\ Muted(task[w].muted)
  /\ WriteRow(w, r, Rescheduled(r, MuteLeft(task[w].muted)))
  /\ parked' = IF queue' = queue THEN parked ELSE parked \cup {r}
  /\ UNCHANGED <<muted, frozen, incident, batch, breaker, ghostVars, mutes>>

\* Nothing stands in the way: on to the composition or to the send, by the
\* channel itself or by the project's email channel.
Route(w) ==
  LET r == task[w].row IN
  /\ NotFrozen(w)
  /\ ~Muted(task[w].muted)
  /\ task' = [task EXCEPT ![w].pc = IF queue[r].class = "followup" THEN "compose" ELSE "send",
                          ![w].route = IF FailsOver(w, r) THEN "email" ELSE "own"]
  /\ UNCHANGED <<queueVars, muted, frozen, incident, batch, attempts0, breaker, ghostVars, mutes, faults>>

\* MUTANT of Compose: the plan's close is reported as a recovery.
Compose_AnyClose(w) ==
  LET r == task[w].row IN
  /\ task[w].pc = "compose"
  /\ task' = [task EXCEPT ![w].pc = "send",
                          ![w].text = IF incident[r] = "open" THEN "still_down" ELSE "recovered"]
  /\ UNCHANGED <<queueVars, muted, frozen, incident, batch, attempts0, breaker, ghostVars, mutes, faults>>

\* The follow-up is composed from the incident's state now.
Compose(w) ==
  LET r == task[w].row IN
  /\ task[w].pc = "compose"
  /\ incident[r] # "plan_paused"
  /\ task' = [task EXCEPT ![w].pc = "send",
                          ![w].text = IF incident[r] = "open" THEN "still_down" ELSE "recovered"]
  /\ UNCHANGED <<queueVars, muted, frozen, incident, batch, attempts0, breaker, ghostVars, mutes, faults>>

\* Nothing to report: the plan paused the check, or the incident is gone.
DropFollowUp(w) ==
  LET r == task[w].row IN
  /\ task[w].pc = "compose"
  /\ \E reason \in {"closed_unmeasured", "no_incident"} :
       /\ reason = "closed_unmeasured" <=> incident[r] = "plan_paused"
       /\ WriteRow(w, r, Dead(r, reason))
  /\ UNCHANGED <<parked, muted, frozen, incident, batch, breaker, ghostVars, mutes>>

\* Whether the channel has taken the message and what the worker hears of it are
\* two things: an error, a time-out or a 5xx leaves it open.
Taken == [ok |-> {TRUE}, fatal |-> {FALSE}, retriable |-> BOOLEAN]

\* sender.Send: the message is out, the queue does not know it yet.
Send(w, answer) ==
  LET r == task[w].row IN
  /\ task[w].pc = "send"
  /\ task' = [task EXCEPT ![w].pc = "settle", ![w].answer = answer]
  /\ sends' = [sends EXCEPT ![r] = @ + 1]
  /\ confirmed' = IF answer = "ok" THEN confirmed \cup {r} ELSE confirmed
  /\ \E took \in Taken[answer] :
       /\ accepted' = [accepted EXCEPT ![r] = IF took THEN @ + 1 ELSE @]
       /\ said' = [said EXCEPT ![r] = IF took /\ queue[r].class = "followup" THEN task[w].text ELSE @]
  /\ UNCHANGED <<queueVars, muted, frozen, incident, batch, attempts0, breaker, mutes, faults>>

RecordSuccess(w, c) == breaker' = [breaker EXCEPT ![w][c] = 0]
RecordFailure(w, c) == breaker' = [breaker EXCEPT ![w][c] = IF @ = 0 THEN 1 ELSE @]

SettleOK(w) ==
  LET r == task[w].row IN
  /\ task[w].pc = "settle" /\ task[w].answer = "ok"
  /\ WriteRow(w, r, Sent(r))
  /\ RecordSuccess(w, queue[r].channel)
  /\ UNCHANGED <<parked, muted, frozen, incident, batch, ghostVars, mutes>>

SettleFatal(w) ==
  LET r == task[w].row IN
  /\ task[w].pc = "settle" /\ task[w].answer = "fatal"
  /\ WriteRow(w, r, Dead(r, "fatal"))
  /\ RecordFailure(w, queue[r].channel)
  /\ UNCHANGED <<parked, muted, frozen, incident, batch, ghostVars, mutes>>

\* MUTANT of Exhausted: one retry too many.
Exhausted_OffByOne(w, r) == attempts0[w][r] + 1 > MaxAttempts

\* attempt == item.Attempts + 1, from the leased copy of the row.
Exhausted(w, r) == attempts0[w][r] + 1 >= MaxAttempts

SettleRetriable(w) ==
  LET r == task[w].row IN
  /\ task[w].pc = "settle" /\ task[w].answer = "retriable"
  /\ IF Exhausted(w, r)
       THEN WriteRow(w, r, Dead(r, "max_retries"))
       ELSE \E backoff \in 1..MaxBackoff : WriteRow(w, r, Rescheduled(r, backoff))
  /\ RecordFailure(w, queue[r].channel)
  /\ UNCHANGED <<parked, muted, frozen, incident, batch, ghostVars, mutes>>

\* The process dies, or its context is cancelled and every later statement
\* fails: its memory is gone, its leases stay.
Crash(w) ==
  /\ faults < MaxFaults
  /\ batch[w] # {} \/ task[w] # NoTask \/ \E c \in Channels : breaker[w][c] # 0
  /\ faults' = faults + 1
  /\ batch' = [batch EXCEPT ![w] = {}]
  /\ task' = [task EXCEPT ![w] = NoTask]
  /\ attempts0' = [attempts0 EXCEPT ![w] = [r \in Rows |-> 0]]
  /\ breaker' = [breaker EXCEPT ![w] = [c \in Channels |-> 0]]
  /\ UNCHANGED <<queueVars, muted, frozen, incident, ghostVars, mutes>>

WorkerStep(w) ==
  \/ Lease(w) \/ ReadChannel(w) \/ ReadChannelFails(w)
  \/ DropFrozen(w) \/ DropUnroutable(w) \/ Defer(w) \/ Route(w)
  \/ Compose(w) \/ DropFollowUp(w)
  \/ \E answer \in Answer : Send(w, answer)
  \/ SettleOK(w) \/ SettleFatal(w) \/ SettleRetriable(w)

Environment ==
  \/ \E r \in Rows : Enqueue(r)
  \/ \E r \in Rows, reason \in IncidentState \ {"open"} : CloseIncident(r, reason)
  \/ ToggleFrozen
  \/ \E c \in Channels, ticks \in MuteTicks : Mute(c, ticks)
  \/ \E c \in Channels : Unmute(c)
  \/ \E w \in Workers : Crash(w)

Next == (\E w \in Workers : WorkerStep(w)) \/ Environment \/ Tick

Spec == Init /\ [][Next]_vars

\* The Run loop of every worker keeps ticking and time keeps passing.
FairSpec == Spec /\ (\A w \in Workers : WF_vars(WorkerStep(w))) /\ WF_vars(Tick)

-----------------------------------------------------------------------------
(* Properties.                                                               *)

\* Every row a worker has in hand.
Held(w) == batch[w] \cup (IF task[w].row = NoRow THEN {} ELSE {task[w].row})

\* The lease is exclusive although every worker leases under the same name and
\* nothing checks lease_until: no row is in the hands of two workers, and a row
\* in somebody's hands is pending and leased (LeasePendingDeliveries, "no other
\* worker picks up the same item").
LeaseExclusive ==
  /\ \A w, v \in Workers : w # v => Held(w) \cap Held(v) = {}
  /\ \A w \in Workers : \A r \in Held(w) : queue[r].state = "pending" /\ queue[r].leased
  /\ \A w \in Workers : task[w].row \notin batch[w]

\* What the channel has taken and answered for is never sent again and never given
\* up, whatever crashes, writes are lost or commands come in between (processItem,
\* Send to MarkDelivered).
HeardIsFinal ==
  [][\A r \in confirmed : sends'[r] = sends[r] /\ queue'[r].state # "dead"]_vars

\* No delivery is tried more than maxAttempts times: every send is paid for by an
\* attempt of the row, the one in flight apart (nextTryAt, Reschedule).
SendsBounded == \A r \in Rows : sends[r] <= MaxAttempts

\* A follow-up that said the monitor is back up spoke of an incident that is over
\* and that the plan did not close (processItem, the followup branch), whichever
\* retry of it, after a lost answer, the recipient has read last.
FollowUpHonest ==
  \A r \in Rows : said[r] = "recovered" => incident[r] \notin {"open", "plan_paused"}

\* "What ended it was the owner removing the check, so the timeline may not imply a
\* recovery" (incident.go:363): nobody is told that a deleted monitor is back up.
DeletedIsNoRecovery ==
  \A r \in Rows : said[r] = "recovered" => incident[r] # "monitor_deleted"

\* Every pending row is delivered or given up in the end, over mutes, freezes, lost
\* answers and failing channels, unless a worker dies or a write is lost (Run,
\* processItem).
EveryRowSettles ==
  \A r \in Rows : queue[r].state = "pending" ~> queue[r].state \in {"sent", "dead"} \/ faults > 0

\* The ledger behind the queue: a row is delivered from the moment a worker hears
\* that the channel took it, before the queue knows; what a settled row is, the
\* queue alone says.
LedgerStatus == [r \in Rows |->
  CASE queue[r].state = "pending" -> IF r \in confirmed THEN "delivered" ELSE "owed"
    [] queue[r].state = "sent" -> "delivered"
    [] queue[r].state = "dead" -> "abandoned"
    [] OTHER -> "absent"]

Ledger == INSTANCE AlertLedger WITH Alerts <- Rows, status <- LedgerStatus, copies <- accepted

\* The pipeline implements the ledger: a second copy goes out only while no answer
\* for a copy has come in; nothing delivered is sent again or given up, nothing
\* given up is sent later, and nothing counts as delivered that did not arrive.
ImplementsLedger == Ledger!Spec

\* What the comments say, and the code does not do.

\* "attempts count only actual sends" (worker.go): a row given up for too many
\* retries was really sent maxAttempts times.
ExhaustedAfterRealSends ==
  \A r \in Rows : queue[r].reason = "max_retries" => sends[r] = MaxAttempts

\* "handleUnmute lifts the mute early AND un-parks what the window deferred"
\* (bot.go): no alert waits for the end of a window that has been lifted.
NothingParkedUnmuted ==
  \A r \in parked : /\ queue[r].class # "followup"
                    /\ queue[r].due > 0
                     => muted[queue[r].channel] > 0

\* The same promise at the unmute itself, with no worker holding anything: the
\* statement releases every alert its channel's windows had parked.
UnmuteReleases ==
  [][\A c \in Channels :
       (muted[c] > 0 /\ muted'[c] = 0) =>
         \A r \in parked' : queue[r].channel = c /\ queue[r].class # "followup" => queue'[r].due = 0]_vars

\* "RecordSuccess closes the breaker: the channel is healthy again" (deliver.go):
\* a breaker closes only on a success of the channel itself.
BreakerClosesOnOwnSuccess ==
  [][\A w \in Workers, c \in Channels :
       (breaker[w][c] > 0 /\ breaker'[w][c] = 0 /\ faults' = faults) => task[w].route = "own"]_vars

\* "close_reason separates a measured recovery from a close nothing measured"
\* (delivery.sql): only a measured recovery is reported as one.
RecoveredMeansMeasured ==
  \A r \in Rows : said[r] = "recovered" => incident[r] = "recovered"

\* "delivered" (deliver.go, outcomeOK), read as: a recipient gets an alert once.
\* A retry after an answer that was lost is a second copy.
OneCopy == \A r \in Rows : accepted[r] <= 1

\* "max retries exceeded": a row given up has reached nobody.
GivenUpIsUnseen == \A r \in Rows : queue[r].state = "dead" => accepted[r] = 0
=============================================================================
