------------------------- MODULE DeliveryQueueProofs -------------------------
(***************************************************************************)
(* Theorems of DeliveryQueue for any rows, channels, workers and bounds.     *)
(* The inductive invariant IInv says who may touch a row: it is leased while *)
(* some worker has it in hand, one worker at most does, and a row whose      *)
(* message was taken and answered for is either settled as sent or out of    *)
(* every hand but the one about to settle it.                                *)
(***************************************************************************)
EXTENDS DeliveryQueue, TLAPS

\* A worker has a current row exactly when it is past its channel read.
TaskHasRow == \A w \in Workers : task[w].pc = "idle" <=> task[w].row = NoRow

\* Only pending rows are leased.
LeasedIsPending == \A r \in Rows : queue[r].leased => queue[r].state = "pending"

\* A row the channel took, and answered for, is sent, or leased and, if still in a
\* hand, in one that is about to mark it sent.
ConfirmedIsKept ==
  \A r \in Rows : r \in confirmed =>
    \/ queue[r].state = "sent"
    \/ /\ queue[r].leased
       /\ \A w \in Workers : /\ r \notin batch[w]
                             /\ task[w].row = r => task[w].pc = "settle" /\ task[w].answer = "ok"

\* What a worker is about to mark sent is known to have been taken.
OkIsConfirmed ==
  \A w \in Workers : task[w].pc = "settle" /\ task[w].answer = "ok" => task[w].row \in confirmed

Ownership == TaskHasRow /\ LeaseExclusive /\ LeasedIsPending /\ ConfirmedIsKept /\ OkIsConfirmed

IInv == TypeOK /\ Ownership

-----------------------------------------------------------------------------

\* What a row is written back as.
LEMMA AttemptedType ==
  ASSUME TypeOK, NEW r \in Rows
  PROVE  /\ Attempted(r) \in Row
         /\ Attempted(r).state = queue[r].state
<1>1. queue[r] \in Row BY DEF TypeOK
<1> QED BY <1>1 DEF Attempted, Row

LEMMA SettledType ==
  ASSUME TypeOK, NEW r \in Rows, NEW state \in {"sent", "dead"}, NEW reason \in Reason
  PROVE  /\ Settled(r, state, reason) \in Row
         /\ Settled(r, state, reason).state = state
         /\ ~Settled(r, state, reason).leased
<1> DEFINE a == Attempted(r)
<1>1. a \in Row BY AttemptedType
<1> HIDE DEF a
<1>2. /\ [a EXCEPT !.state = state, !.reason = reason, !.leased = FALSE] \in Row
      /\ [a EXCEPT !.state = state, !.reason = reason, !.leased = FALSE].state = state
      /\ ~[a EXCEPT !.state = state, !.reason = reason, !.leased = FALSE].leased
  BY <1>1 DEF Row
<1> QED BY <1>2 DEF Settled, a

LEMMA RescheduledType ==
  ASSUME TypeOK, NEW r \in Rows, NEW due \in Nat
  PROVE  /\ Rescheduled(r, due) \in Row
         /\ Rescheduled(r, due).state = queue[r].state
         /\ ~Rescheduled(r, due).leased
<1> DEFINE a == Attempted(r)
<1>1. a \in Row /\ a.state = queue[r].state BY AttemptedType
<1> HIDE DEF a
<1>2. /\ [a EXCEPT !.leased = FALSE, !.due = due] \in Row
      /\ [a EXCEPT !.leased = FALSE, !.due = due].state = a.state
      /\ ~[a EXCEPT !.leased = FALSE, !.due = due].leased
  BY <1>1 DEF Row
<1> QED BY <1>1, <1>2 DEF Rescheduled, a

\* A failure opens or leaves a breaker: what it counts stays a number.
LEMMA FailureType ==
  ASSUME TypeOK, NEW w \in Workers, NEW c, RecordFailure(w, c)
  PROVE  breaker' \in [Workers -> [Channels -> Nat]]
<1>1. breaker \in [Workers -> [Channels -> Nat]] BY DEF TypeOK
<1> DEFINE row == [breaker[w] EXCEPT ![c] = IF breaker[w][c] = 0 THEN 1 ELSE breaker[w][c]]
<1>2. row \in [Channels -> Nat] BY <1>1
<1>3. breaker' = [breaker EXCEPT ![w] = row] BY DEF RecordFailure
<1> HIDE DEF row
<1> QED BY <1>1, <1>2, <1>3

\* Leasing a set of rows marks them and changes nothing else of any row.
LEMMA LeasedRow ==
  ASSUME NEW q \in Row
  PROVE  /\ [q EXCEPT !.leased = TRUE].attempts = q.attempts
         /\ [q EXCEPT !.leased = TRUE].state = q.state
         /\ [q EXCEPT !.leased = TRUE].leased = TRUE
  BY DEF Row

LEMMA LeasedRows ==
  ASSUME TypeOK, NEW S \in SUBSET Leasable,
         queue' = [r \in Rows |-> IF r \in S THEN [queue[r] EXCEPT !.leased = TRUE] ELSE queue[r]],
         NEW r \in Rows
  PROVE  /\ queue'[r].attempts = queue[r].attempts
         /\ queue'[r].state = queue[r].state
         /\ queue'[r].leased <=> (queue[r].leased \/ r \in S)
<1>1. queue[r] \in Row BY DEF TypeOK
<1>2. CASE r \in S
  <2>1. queue'[r] = [queue[r] EXCEPT !.leased = TRUE] BY <1>2
  <2> QED BY <1>1, <1>2, <2>1, LeasedRow
<1>3. CASE r \notin S
  <2>1. queue'[r] = queue[r] BY <1>3
  <2> QED BY <1>3, <2>1
<1> QED BY <1>2, <1>3

\* WriteRow keeps the types of what it writes.
LEMMA WriteRowType ==
  ASSUME TypeOK, NEW w \in Workers, NEW r \in Rows, NEW row \in Row, WriteRow(w, r, row)
  PROVE  /\ queue' \in [Rows -> Row]
         /\ task' \in [Workers -> Task]
         /\ attempts0' \in [Workers -> [Rows -> Nat]]
         /\ faults' \in Nat
<1>1. NoTask \in Task BY DEF NoTask, Task, Answer, Text
<1>2. queue' \in [Rows -> Row] BY DEF WriteRow, TypeOK
<1>3. task' \in [Workers -> Task] BY <1>1 DEF WriteRow, TypeOK
<1>4. attempts0' \in [Workers -> [Rows -> Nat]] BY DEF WriteRow, TypeOK
<1>5. faults' \in Nat BY DEF WriteRow, TypeOK
<1> QED BY <1>2, <1>3, <1>4, <1>5

\* The row a worker is past its read with is a row.
LEMMA TaskRowType ==
  ASSUME TypeOK, TaskHasRow, NEW w \in Workers, task[w].pc # "idle"
  PROVE  task[w].row \in Rows
  BY DEF TypeOK, TaskHasRow, Task

\* Whatever the answer, a message was taken or it was not.
LEMMA TakenType ==
  ASSUME NEW answer \in Answer
  PROVE  Taken[answer] \subseteq BOOLEAN /\ (answer = "ok" => Taken[answer] = {TRUE})
<1>1. Taken["ok"] = {TRUE} /\ Taken["fatal"] = {FALSE} /\ Taken["retriable"] = BOOLEAN
  BY DEF Taken
<1>2. CASE answer = "ok"
  BY <1>1, <1>2
<1>3. CASE answer = "fatal"
  BY <1>1, <1>3
<1>4. CASE answer = "retriable"
  BY <1>1, <1>4
<1> QED BY <1>2, <1>3, <1>4 DEF Answer

-----------------------------------------------------------------------------
(* Type correctness.                                                         *)

LEMMA InitType == Init => TypeOK
<1> SUFFICES ASSUME Init PROVE TypeOK
  OBVIOUS
<1>1. \A class \in Classes, c \in Channels :
        [state |-> "absent", leased |-> FALSE, class |-> class, channel |-> c,
         attempts |-> 0, due |-> 0, reason |-> "none"] \in Row
  BY DeliveryAssumption DEF Row, Reason
<1>2. queue \in [Rows -> Row] BY <1>1 DEF Init
<1>3. NoTask \in Task BY DEF NoTask, Task, Answer, Text
<1> QED BY <1>2, <1>3 DEF Init, TypeOK, IncidentState

LEMMA NextType == TypeOK /\ TaskHasRow /\ [Next]_vars => TypeOK'
<1> SUFFICES ASSUME TypeOK, TaskHasRow, [Next]_vars PROVE TypeOK'
  OBVIOUS
<1>1. CASE UNCHANGED vars
  BY <1>1 DEF vars, TypeOK
<1>2. ASSUME NEW w \in Workers, WorkerStep(w) PROVE TypeOK'
  <2>0. NoTask \in Task BY DEF NoTask, Task, Answer, Text
  <2>1. CASE Lease(w)
    <3>1. PICK S \in SUBSET Leasable :
            /\ queue' = [r \in Rows |-> IF r \in S THEN [queue[r] EXCEPT !.leased = TRUE] ELSE queue[r]]
            /\ batch' = [batch EXCEPT ![w] = S]
            /\ parked' = parked \ S
            /\ attempts0' = [attempts0 EXCEPT ![w] = [r \in Rows |-> IF r \in S THEN queue[r].attempts ELSE 0]]
      BY <2>1 DEF Lease
    <3>2. \A q \in Row : [q EXCEPT !.leased = TRUE] \in Row /\ q.attempts \in Nat BY DEF Row
    <3>3. S \subseteq Rows BY DEF Leasable
    <3> QED BY <2>1, <3>1, <3>2, <3>3 DEF Lease, TypeOK, ghostVars
  <2>2. CASE ReadChannel(w)
    <3>1. PICK r \in batch[w] :
            /\ batch' = [batch EXCEPT ![w] = @ \ {r}]
            /\ task' = [task EXCEPT ![w] = [NoTask EXCEPT !.pc = "decide", !.row = r,
                                         !.frozen = frozen, !.muted = muted[queue[r].channel]]]
      BY <2>2 DEF ReadChannel
    <3>2. r \in Rows /\ muted[queue[r].channel] \in Nat BY DEF TypeOK, Row
    <3>3. \A m \in Nat : [NoTask EXCEPT !.pc = "decide", !.row = r, !.frozen = frozen, !.muted = m] \in Task
      BY <2>0, <3>2 DEF NoTask, Task, TypeOK
    <3> QED BY <2>2, <3>1, <3>2, <3>3 DEF ReadChannel, TypeOK, ghostVars, queueVars
  <2>3. CASE ReadChannelFails(w)
    <3>1. PICK r \in batch[w] : /\ batch' = [batch EXCEPT ![w] = @ \ {r}]
                                /\ WriteRow(w, r, Dead(r, "channel_not_found"))
      BY <2>3 DEF ReadChannelFails
    <3>2. r \in Rows BY DEF TypeOK
    <3>3. Dead(r, "channel_not_found") \in Row BY <3>2, SettledType DEF Dead, Reason
    <3> QED BY <2>3, <3>1, <3>2, <3>3, WriteRowType DEF ReadChannelFails, TypeOK, ghostVars
  <2>4. CASE DropFrozen(w)
    <3>1. task[w].row \in Rows BY <2>4, TaskRowType DEF DropFrozen
    <3>2. Dead(task[w].row, "project_frozen") \in Row BY <3>1, SettledType DEF Dead, Reason
    <3> QED BY <2>4, <3>1, <3>2, WriteRowType DEF DropFrozen, TypeOK, ghostVars
  <2>5. CASE DropUnroutable(w)
    <3>1. task[w].row \in Rows BY <2>5, TaskRowType DEF DropUnroutable, NotFrozen
    <3>2. Dead(task[w].row, "no_failover") \in Row BY <3>1, SettledType DEF Dead, Reason
    <3> QED BY <2>5, <3>1, <3>2, WriteRowType DEF DropUnroutable, TypeOK, ghostVars
  <2>6. CASE Defer(w)
    <3>1. task[w].row \in Rows BY <2>6, TaskRowType DEF Defer, NotFrozen
    <3>2. MuteLeft(task[w].muted) \in Nat BY <2>6 DEF Defer, Muted, MuteLeft, TypeOK, Task
    <3>3. Rescheduled(task[w].row, MuteLeft(task[w].muted)) \in Row BY <3>1, <3>2, RescheduledType
    <3>4. parked' \in SUBSET Rows BY <2>6, <3>1 DEF Defer, TypeOK
    <3> QED BY <2>6, <3>1, <3>3, <3>4, WriteRowType DEF Defer, TypeOK, ghostVars
  <2>7. CASE Route(w)
    <3>1. \A t \in Task, pc \in {"compose", "send"}, route \in {"own", "email"} :
            [t EXCEPT !.pc = pc, !.route = route] \in Task
      BY DEF Task
    <3>2. task' \in [Workers -> Task] BY <2>7, <3>1, Zenon DEF Route, TypeOK
    <3> QED BY <2>7, <3>2 DEF Route, TypeOK, ghostVars, queueVars
  <2>8. CASE Compose(w)
    <3>1. \A t \in Task, text \in {"recovered", "still_down"} :
            [t EXCEPT !.pc = "send", !.text = text] \in Task
      BY DEF Task, Text
    <3>2. task' \in [Workers -> Task] BY <2>8, <3>1 DEF Compose, TypeOK
    <3> QED BY <2>8, <3>2 DEF Compose, TypeOK, ghostVars, queueVars
  <2>9. CASE DropFollowUp(w)
    <3>1. task[w].row \in Rows BY <2>9, TaskRowType DEF DropFollowUp
    <3>2. PICK reason \in {"closed_unmeasured", "no_incident"} :
            WriteRow(w, task[w].row, Dead(task[w].row, reason))
      BY <2>9 DEF DropFollowUp
    <3>3. Dead(task[w].row, reason) \in Row BY <3>1, SettledType DEF Dead, Reason
    <3> QED BY <2>9, <3>1, <3>2, <3>3, WriteRowType DEF DropFollowUp, TypeOK, ghostVars
  <2>10. ASSUME NEW answer \in Answer, Send(w, answer) PROVE TypeOK'
    <3>1. task[w].row \in Rows BY <2>10, TaskRowType DEF Send
    <3>2. \A t \in Task : [t EXCEPT !.pc = "settle", !.answer = answer] \in Task
      BY DEF Task
    <3>3. task' \in [Workers -> Task] BY <2>10, <3>2 DEF Send, TypeOK
    <3>4. PICK took \in BOOLEAN :
            /\ accepted' = [accepted EXCEPT ![task[w].row] = IF took THEN @ + 1 ELSE @]
            /\ said' = [said EXCEPT ![task[w].row] =
                         IF took /\ queue[task[w].row].class = "followup" THEN task[w].text ELSE @]
      BY <2>10, TakenType DEF Send
    <3>5. sends' \in [Rows -> Nat] /\ confirmed' \in SUBSET Rows BY <2>10, <3>1 DEF Send, TypeOK
    <3>6. accepted' \in [Rows -> Nat] BY <3>1, <3>4 DEF TypeOK
    <3>7. said' \in [Rows -> {"nothing"} \cup Text]
      <4>1. CASE took /\ queue[task[w].row].class = "followup"
        BY <3>1, <3>4, <4>1 DEF TypeOK, Task
      <4>2. CASE ~(took /\ queue[task[w].row].class = "followup")
        BY <3>1, <3>4, <4>2 DEF TypeOK
      <4> QED BY <4>1, <4>2
    <3> QED BY <2>10, <3>3, <3>5, <3>6, <3>7 DEF Send, TypeOK, queueVars
  <2>11. CASE SettleOK(w)
    <3>1. task[w].row \in Rows BY <2>11, TaskRowType DEF SettleOK
    <3>2. Sent(task[w].row) \in Row BY <3>1, SettledType DEF Sent, Reason
    <3>3. breaker' \in [Workers -> [Channels -> Nat]]
      BY <2>11, <3>1 DEF SettleOK, RecordSuccess, TypeOK
    <3> QED BY <2>11, <3>1, <3>2, <3>3, WriteRowType DEF SettleOK, TypeOK, ghostVars
  <2>12. CASE SettleFatal(w)
    <3>1. task[w].row \in Rows BY <2>12, TaskRowType DEF SettleFatal
    <3>2. Dead(task[w].row, "fatal") \in Row BY <3>1, SettledType DEF Dead, Reason
    <3>3. breaker' \in [Workers -> [Channels -> Nat]]
      BY <2>12, FailureType DEF SettleFatal
    <3> QED BY <2>12, <3>1, <3>2, <3>3, WriteRowType DEF SettleFatal, TypeOK, ghostVars
  <2>13. CASE SettleRetriable(w)
    <3>1. task[w].row \in Rows BY <2>13, TaskRowType DEF SettleRetriable
    <3>2. PICK row \in Row : WriteRow(w, task[w].row, row)
      <4>1. CASE Exhausted(w, task[w].row)
        <5>1. Dead(task[w].row, "max_retries") \in Row BY <3>1, SettledType DEF Dead, Reason
        <5> QED BY <2>13, <4>1, <5>1 DEF SettleRetriable
      <4>2. CASE ~Exhausted(w, task[w].row)
        <5>1. PICK backoff \in 1..MaxBackoff : WriteRow(w, task[w].row, Rescheduled(task[w].row, backoff))
          BY <2>13, <4>2 DEF SettleRetriable
        <5>2. backoff \in Nat BY DeliveryAssumption
        <5>3. Rescheduled(task[w].row, backoff) \in Row BY <3>1, <5>2, RescheduledType
        <5> QED BY <5>1, <5>3
      <4> QED BY <4>1, <4>2
    <3>3. breaker' \in [Workers -> [Channels -> Nat]]
      BY <2>13, FailureType DEF SettleRetriable
    <3> QED BY <2>13, <3>1, <3>2, <3>3, WriteRowType DEF SettleRetriable, TypeOK, ghostVars
  <2> QED BY <1>2, <2>1, <2>2, <2>3, <2>4, <2>5, <2>6, <2>7, <2>8, <2>9, <2>10, <2>11, <2>12,
             <2>13 DEF WorkerStep
<1>3. CASE Environment
  <2>1. ASSUME NEW r \in Rows, Enqueue(r) PROVE TypeOK'
    <3>1. \A q \in Row, due \in Nat : [q EXCEPT !.state = "pending", !.due = due] \in Row
      BY DEF Row
    <3>2. FollowUpTicks \in Nat BY DeliveryAssumption
    <3>3. queue' \in [Rows -> Row] BY <2>1, <3>1, <3>2 DEF Enqueue, TypeOK
    <3> QED BY <2>1, <3>3 DEF Enqueue, TypeOK, ghostVars, workerVars
  <2>2. ASSUME NEW r \in Rows, NEW reason \in IncidentState \ {"open"}, CloseIncident(r, reason)
        PROVE TypeOK'
    BY <2>2 DEF CloseIncident, TypeOK, queueVars, workerVars, ghostVars
  <2>3. CASE ToggleFrozen
    BY <2>3 DEF ToggleFrozen, TypeOK, queueVars, workerVars, ghostVars
  <2>4. ASSUME NEW c \in Channels, NEW ticks \in MuteTicks, Mute(c, ticks) PROVE TypeOK'
    <3>1. ticks + 1 \in Nat BY DeliveryAssumption
    <3> QED BY <2>4, <3>1 DEF Mute, TypeOK, queueVars, workerVars, ghostVars
  <2>5. ASSUME NEW c \in Channels, Unmute(c) PROVE TypeOK'
    <3>1. \A q \in Row : [q EXCEPT !.due = 0] \in Row BY DEF Row
    <3>2. queue' \in [Rows -> Row] BY <2>5, <3>1 DEF Unmute, TypeOK
    <3> QED BY <2>5, <3>2 DEF Unmute, TypeOK, workerVars, ghostVars
  <2>6. ASSUME NEW w \in Workers, Crash(w) PROVE TypeOK'
    <3>1. NoTask \in Task BY DEF NoTask, Task, Answer, Text
    <3> QED BY <2>6, <3>1 DEF Crash, TypeOK, queueVars, ghostVars
  <2> QED BY <1>3, <2>1, <2>2, <2>3, <2>4, <2>5, <2>6 DEF Environment
<1>4. CASE Tick
  <2>1. \A q \in Row : [q EXCEPT !.due = IF @ > 0 THEN @ - 1 ELSE 0] \in Row BY DEF Row
  <2>2. queue' \in [Rows -> Row] BY <1>4, <2>1 DEF Tick, TypeOK
  <2>3. \A t \in Task : [t EXCEPT !.muted = IF @ > 1 THEN @ - 1 ELSE @] \in Task BY DEF Task
  <2>4. task' \in [Workers -> Task] BY <1>4, <2>3 DEF Tick, TypeOK
  <2>5. muted' \in [Channels -> Nat] BY <1>4 DEF Tick, TypeOK
  <2>6. breaker' \in [Workers -> [Channels -> Nat]] BY <1>4 DEF Tick, TypeOK
  <2> QED BY <1>4, <2>2, <2>4, <2>5, <2>6 DEF Tick, TypeOK, ghostVars
<1> QED BY <1>1, <1>2, <1>3, <1>4 DEF Next

-----------------------------------------------------------------------------
(* Who may touch a row.                                                      *)

\* A step that moves no row between hands, leases or releases nothing and sends
\* nothing keeps the ownership, whatever it does to times, mutes and incidents.
LEMMA OwnershipFrame ==
  ASSUME TypeOK, Ownership,
         UNCHANGED <<batch, confirmed>>,
         \A w \in Workers : /\ task'[w].row = task[w].row
                            /\ (task'[w].pc = "idle") <=> (task[w].pc = "idle")
                            /\ (task'[w].pc = "settle" /\ task'[w].answer = "ok")
                                 <=> (task[w].pc = "settle" /\ task[w].answer = "ok"),
         \A r \in Rows : /\ queue'[r].leased = queue[r].leased
                         /\ \/ queue'[r].state = queue[r].state
                            \/ queue[r].state = "absent"
  PROVE  Ownership'
<1>1. TaskHasRow' BY DEF Ownership, TaskHasRow
<1>2. \A w \in Workers : Held(w)' = Held(w) BY DEF Held
<1>3. \A r \in Rows : queue[r].leased => queue'[r].state = "pending"
  BY DEF Ownership, LeasedIsPending
<1>4. \A w \in Workers : \A r \in Held(w) : r \in Rows /\ queue[r].leased
  BY DEF Ownership, LeaseExclusive, Held, TypeOK, Task
<1>5. LeaseExclusive' BY <1>2, <1>3, <1>4 DEF Ownership, LeaseExclusive
<1>6. LeasedIsPending' BY <1>3 DEF LeasedIsPending
<1>7. OkIsConfirmed' BY DEF Ownership, OkIsConfirmed
<1>8. ConfirmedIsKept' BY DEF Ownership, ConfirmedIsKept, TaskHasRow
<1> QED BY <1>1, <1>5, <1>6, <1>7, <1>8 DEF Ownership

\* Leasing takes rows nobody has in hand: a row in a hand is leased already.
LEMMA LeaseOwnership ==
  ASSUME IInv, NEW w \in Workers, Lease(w)
  PROVE  Ownership'
<1> USE DEF IInv, Ownership
<1>1. PICK S \in SUBSET Leasable :
        /\ queue' = [r \in Rows |-> IF r \in S THEN [queue[r] EXCEPT !.leased = TRUE] ELSE queue[r]]
        /\ batch' = [batch EXCEPT ![w] = S]
  BY DEF Lease
<1>2. UNCHANGED <<task, confirmed>> /\ task[w].row = NoRow BY DEF Lease, ghostVars, TaskHasRow
<1>3. \A r \in Rows : /\ queue'[r].state = queue[r].state
                      /\ queue'[r].leased <=> (queue[r].leased \/ r \in S)
  BY <1>1, LeasedRows
<1>4. \A r \in S : r \in Rows /\ queue[r].state = "pending" /\ ~queue[r].leased
  BY DEF Leasable
<1>5. \A v \in Workers : Held(v)' = IF v = w THEN S ELSE Held(v)
  BY <1>1, <1>2 DEF Held, TypeOK
<1>6. \A v \in Workers : \A r \in Held(v) : r \in Rows /\ queue[r].leased
  BY DEF LeaseExclusive, Held, TypeOK, Task
<1>7. LeaseExclusive'
  <2>1. ASSUME NEW u \in Workers, NEW v \in Workers, u # v PROVE Held(u)' \cap Held(v)' = {}
    BY <2>1, <1>4, <1>5, <1>6 DEF LeaseExclusive
  <2>2. ASSUME NEW v \in Workers, NEW r \in Held(v)'
        PROVE  queue'[r].state = "pending" /\ queue'[r].leased
    BY <2>2, <1>3, <1>4, <1>5, <1>6 DEF LeaseExclusive
  <2>3. ASSUME NEW v \in Workers PROVE task'[v].row \notin batch'[v]
    BY <1>1, <1>2, <1>4, DeliveryAssumption DEF LeaseExclusive, TypeOK
  <2> QED BY <2>1, <2>2, <2>3 DEF LeaseExclusive
<1>8. TaskHasRow' BY <1>2 DEF TaskHasRow
<1>9. LeasedIsPending' BY <1>3, <1>4 DEF LeasedIsPending
<1>10. OkIsConfirmed' BY <1>2 DEF OkIsConfirmed
<1>11. \A r \in S : r \notin confirmed BY <1>4 DEF ConfirmedIsKept
<1>12. ConfirmedIsKept' BY <1>1, <1>2, <1>3, <1>11 DEF ConfirmedIsKept, TypeOK
<1> QED BY <1>7, <1>8, <1>9, <1>10, <1>12

\* A worker that takes the next row of its batch keeps it in hand.
LEMMA ReadOwnership ==
  ASSUME IInv, NEW w \in Workers, ReadChannel(w)
  PROVE  Ownership'
<1> USE DEF IInv, Ownership
<1>1. PICK r \in batch[w] :
        /\ batch' = [batch EXCEPT ![w] = @ \ {r}]
        /\ task' = [task EXCEPT ![w] = [NoTask EXCEPT !.pc = "decide", !.row = r,
                                     !.frozen = frozen, !.muted = muted[queue[r].channel]]]
  BY DEF ReadChannel
<1>2. UNCHANGED <<queue, confirmed>> /\ task[w].row = NoRow
  BY DEF ReadChannel, ghostVars, queueVars, TaskHasRow
<1>3. r \in Rows /\ r # NoRow BY DeliveryAssumption DEF TypeOK
<1>4. \A v \in Workers : v # w => task'[v] = task[v] /\ batch'[v] = batch[v]
  BY <1>1 DEF TypeOK
<1>5. task'[w].row = r /\ task'[w].pc = "decide" /\ batch'[w] = batch[w] \ {r}
  BY <1>1 DEF TypeOK, NoTask
<1>6. \A v \in Workers : Held(v)' = Held(v)
  BY <1>2, <1>3, <1>4, <1>5 DEF Held
<1>7. LeaseExclusive' BY <1>2, <1>4, <1>5, <1>6 DEF LeaseExclusive
<1>8. TaskHasRow' BY <1>3, <1>4, <1>5 DEF TaskHasRow
<1>9. LeasedIsPending' BY <1>2 DEF LeasedIsPending
<1>12. OkIsConfirmed' BY <1>2, <1>4, <1>5 DEF OkIsConfirmed
<1>10. r \notin confirmed BY <1>1, <1>3 DEF ConfirmedIsKept, LeaseExclusive, Held
<1>11. ConfirmedIsKept' BY <1>2, <1>4, <1>5, <1>10 DEF ConfirmedIsKept
<1> QED BY <1>7, <1>8, <1>9, <1>11, <1>12

\* A worker that writes a row back lets go of it; a row whose message was
\* taken and answered for may only be written back as sent.
LEMMA WriteOwnership ==
  ASSUME IInv, NEW w \in Workers, NEW r \in Rows, NEW row \in Row,
         ~row.leased,
         r \in confirmed => row.state = "sent",
         \/ r = task[w].row /\ batch' = batch
         \/ /\ r \in batch[w] /\ task[w].pc = "idle"
            /\ batch' = [batch EXCEPT ![w] = @ \ {r}],
         WriteRow(w, r, row), UNCHANGED confirmed
  PROVE  Ownership'
<1> USE DEF IInv, Ownership
<1>1. /\ queue' = queue \/ queue' = [queue EXCEPT ![r] = row]
      /\ task' = [task EXCEPT ![w] = NoTask]
  BY DEF WriteRow
<1>2. r \in Held(w) /\ r # NoRow BY DeliveryAssumption DEF Held
<1>3. \A v \in Workers : v # w => task'[v] = task[v] /\ batch'[v] = batch[v]
  BY <1>1 DEF TypeOK
<1>4. task'[w].row = NoRow /\ task'[w].pc = "idle" /\ batch'[w] = batch[w] \ {r}
  BY <1>1 DEF TypeOK, NoTask, LeaseExclusive
<1>5. \A v \in Workers : Held(v)' = IF v = w THEN Held(v) \ {r} ELSE Held(v)
  <2>1. Held(w)' = Held(w) \ {r} BY <1>3, <1>4 DEF Held, TaskHasRow, LeaseExclusive
  <2>2. ASSUME NEW v \in Workers, v # w PROVE Held(v)' = Held(v) BY <1>3, <2>2 DEF Held
  <2> QED BY <2>1, <2>2
<1>6. \A v \in Workers : \A s \in Held(v)' : s # r /\ s \in Held(v)
  BY <1>2, <1>5 DEF LeaseExclusive
<1>7. \A s \in Rows : s # r => queue'[s] = queue[s] BY <1>1 DEF TypeOK
<1>8. \A v \in Workers : \A s \in Held(v) : s \in Rows BY DEF Held, TypeOK, Task
<1>9. LeaseExclusive'
  <2>1. \A u, v \in Workers : u # v => Held(u)' \cap Held(v)' = {}
    BY <1>6 DEF LeaseExclusive
  <2>2. \A v \in Workers : \A s \in Held(v)' : queue'[s].state = "pending" /\ queue'[s].leased
    BY <1>6, <1>7, <1>8 DEF LeaseExclusive
  <2>3. \A v \in Workers : task'[v].row \notin batch'[v]
    <3>1. NoRow \notin batch[w] BY DeliveryAssumption DEF TypeOK
    <3> QED BY <3>1, <1>3, <1>4 DEF LeaseExclusive
  <2> QED BY <2>1, <2>2, <2>3 DEF LeaseExclusive
<1>10. TaskHasRow' BY <1>3, <1>4 DEF TaskHasRow
<1>11. queue[r].leased /\ queue[r].state = "pending" BY <1>2 DEF LeaseExclusive
<1>12. queue'[r] = queue[r] \/ queue'[r] = row BY <1>1 DEF TypeOK
<1>13. LeasedIsPending' BY <1>7, <1>12 DEF LeasedIsPending
<1>14. OkIsConfirmed' BY <1>3, <1>4 DEF OkIsConfirmed
<1>15. \A v \in Workers : r \notin batch'[v] /\ task'[v].row # r
  BY <1>2, <1>6 DEF Held
<1>16. \A s \in Rows : s \in confirmed =>
         \/ queue'[s].state = "sent"
         \/ /\ queue'[s].leased
            /\ \A v \in Workers : /\ s \notin batch'[v]
                                  /\ task'[v].row = s => task'[v].pc = "settle" /\ task'[v].answer = "ok"
  <2>1. CASE r \notin confirmed
    BY <2>1, <1>3, <1>4, <1>7, DeliveryAssumption DEF ConfirmedIsKept
  <2>2. CASE r \in confirmed
    BY <2>2, <1>3, <1>4, <1>7, <1>11, <1>12, <1>15, DeliveryAssumption DEF ConfirmedIsKept
  <2> QED BY <2>1, <2>2
<1>17. ConfirmedIsKept' BY <1>16 DEF ConfirmedIsKept
<1> QED BY <1>9, <1>10, <1>13, <1>14, <1>17

\* A send needs the row in hand and not yet answered for; nobody else has it.
LEMMA SendOwnership ==
  ASSUME IInv, NEW w \in Workers, NEW answer \in Answer, Send(w, answer)
  PROVE  /\ Ownership'
         /\ task[w].row \in Rows
         /\ task[w].row \notin confirmed /\ queue[task[w].row].state = "pending"
<1> USE DEF IInv, Ownership
<1> DEFINE r == task[w].row
<1>1. r \in Rows BY TaskRowType DEF Send
<1>2. /\ task' = [task EXCEPT ![w].pc = "settle", ![w].answer = answer]
      /\ task[w].pc = "send"
      /\ UNCHANGED <<queue, batch>>
      /\ confirmed' = IF answer = "ok" THEN confirmed \cup {r} ELSE confirmed
  BY DEF Send, queueVars
<1>3. r \in Held(w) BY <1>1, DeliveryAssumption DEF Held
<1>4. queue[r].state = "pending" /\ queue[r].leased BY <1>3 DEF LeaseExclusive
<1>5. r \notin confirmed BY <1>1, <1>2, <1>4 DEF ConfirmedIsKept
<1>6. \A v \in Workers : task'[v].row = task[v].row /\ (v # w => task'[v] = task[v])
  BY <1>2 DEF TypeOK, Task
<1>7. task'[w].pc = "settle" /\ task'[w].answer = answer BY <1>2 DEF TypeOK, Task
<1>8. \A v \in Workers : Held(v)' = Held(v) BY <1>2, <1>6 DEF Held
<1>9. LeaseExclusive'
  <2>1. LeaseExclusive OBVIOUS
  <2>2. queue' = queue /\ \A v \in Workers : batch'[v] = batch[v] /\ task'[v].row = task[v].row
    BY <1>2, <1>6
  <2> HIDE DEF Ownership, IInv
  <2> QED BY <2>1, <2>2, <1>8 DEF LeaseExclusive
<1>10. TaskHasRow'
  <2>1. TaskHasRow OBVIOUS
  <2>2. (task'[w].pc = "idle") <=> (task[w].pc = "idle") BY <1>2, <1>7
  <2> HIDE DEF Ownership, IInv
  <2> QED BY <2>1, <2>2, <1>6 DEF TaskHasRow
<1>11. LeasedIsPending' BY <1>2 DEF LeasedIsPending
<1>12. OkIsConfirmed'
  <2>1. OkIsConfirmed OBVIOUS
  <2>2. confirmed \subseteq confirmed' /\ (answer = "ok" => r \in confirmed') BY <1>2
  <2> HIDE DEF Ownership, IInv
  <2> QED BY <2>1, <2>2, <1>6, <1>7 DEF OkIsConfirmed
<1>15. \A v \in Workers : r \notin batch[v] /\ (v # w => task[v].row # r)
  BY <1>1, <1>3, DeliveryAssumption DEF LeaseExclusive, Held
<1>16. ConfirmedIsKept'
  <2> SUFFICES ASSUME NEW s \in Rows, s \in confirmed'
               PROVE  \/ queue'[s].state = "sent"
                      \/ /\ queue'[s].leased
                         /\ \A v \in Workers :
                              /\ s \notin batch'[v]
                              /\ task'[v].row = s => task'[v].pc = "settle" /\ task'[v].answer = "ok"
    BY DEF ConfirmedIsKept
  <2>1. CASE s = r
    <3>1. answer = "ok" BY <1>2, <1>5, <2>1
    <3>2. queue'[s].leased BY <2>1, <1>2, <1>4
    <3>3. \A v \in Workers : s \notin batch'[v] BY <2>1, <1>2, <1>15
    <3>4. task'[w].pc = "settle" /\ task'[w].answer = "ok" BY <1>7, <3>1
    <3>5. \A v \in Workers : task'[v].row = s => v = w BY <2>1, <1>6, <1>15
    <3> QED BY <3>2, <3>3, <3>4, <3>5
  <2>2. CASE s # r
    <3>1. s \in confirmed BY <2>2, <1>2
    <3>2. \A v \in Workers : task'[v].row = s => task'[v] = task[v] BY <2>2, <1>6
    <3>3. queue' = queue /\ batch' = batch BY <1>2
    <3> QED BY <3>1, <3>2, <3>3 DEF ConfirmedIsKept
  <2> QED BY <2>1, <2>2
<1> QED BY <1>1, <1>4, <1>5, <1>9, <1>10, <1>11, <1>12, <1>16

\* A crash empties the worker's hands and leaves its leases.
LEMMA CrashOwnership ==
  ASSUME IInv, NEW w \in Workers, Crash(w)
  PROVE  Ownership'
<1> USE DEF IInv, Ownership
<1>1. /\ batch' = [batch EXCEPT ![w] = {}]
      /\ task' = [task EXCEPT ![w] = NoTask]
      /\ UNCHANGED <<queue, confirmed>>
  BY DEF Crash, queueVars, ghostVars
<1>2. \A v \in Workers : v # w => task'[v] = task[v] /\ batch'[v] = batch[v]
  BY <1>1 DEF TypeOK
<1>3. task'[w].row = NoRow /\ task'[w].pc = "idle" /\ batch'[w] = {}
  BY <1>1 DEF TypeOK, NoTask
<1>4. \A v \in Workers : Held(v)' = IF v = w THEN {} ELSE Held(v)
  BY <1>2, <1>3 DEF Held
<1>5. LeaseExclusive' BY <1>1, <1>2, <1>3, <1>4 DEF LeaseExclusive
<1>6. TaskHasRow' BY <1>2, <1>3 DEF TaskHasRow
<1>7. LeasedIsPending' BY <1>1 DEF LeasedIsPending
<1>9. OkIsConfirmed' BY <1>1, <1>2, <1>3 DEF OkIsConfirmed
<1>8. ConfirmedIsKept' BY <1>1, <1>2, <1>3, DeliveryAssumption DEF ConfirmedIsKept
<1> QED BY <1>5, <1>6, <1>7, <1>8, <1>9

LEMMA InitIInv == Init => IInv
<1> SUFFICES ASSUME Init PROVE IInv
  OBVIOUS
<1>1. TypeOK BY InitType
<1>2. \A w \in Workers : task[w].row = NoRow /\ task[w].pc = "idle" /\ batch[w] = {}
  BY DEF Init, NoTask
<1>3. \A r \in Rows : r \notin confirmed /\ ~queue[r].leased
  BY DEF Init
<1>4. \A w \in Workers : Held(w) = {} BY <1>2 DEF Held
<1> QED BY <1>1, <1>2, <1>3, <1>4
    DEF IInv, Ownership, TaskHasRow, LeaseExclusive, LeasedIsPending, ConfirmedIsKept, OkIsConfirmed

LEMMA NextIInv == IInv /\ [Next]_vars => IInv'
<1> SUFFICES ASSUME IInv, [Next]_vars PROVE IInv'
  OBVIOUS
<1>0. TypeOK /\ Ownership /\ TaskHasRow BY DEF IInv, Ownership
<1>1. TypeOK' BY <1>0, NextType
<1>2. SUFFICES Ownership'
  BY <1>1 DEF IInv
<1>3. CASE UNCHANGED vars
  BY <1>0, <1>3, OwnershipFrame DEF vars
<1>4. ASSUME NEW w \in Workers, WorkerStep(w) PROVE Ownership'
  <2>1. CASE Lease(w)
    BY <2>1, LeaseOwnership
  <2>2. CASE ReadChannel(w)
    BY <2>2, ReadOwnership
  <2>3. CASE ReadChannelFails(w)
    <3>1. PICK r \in batch[w] : /\ batch' = [batch EXCEPT ![w] = @ \ {r}]
                                /\ WriteRow(w, r, Dead(r, "channel_not_found"))
      BY <2>3 DEF ReadChannelFails
    <3>2. r \in Rows BY <1>0 DEF TypeOK
    <3>3. Dead(r, "channel_not_found") \in Row /\ ~Dead(r, "channel_not_found").leased
      BY <1>0, <3>2, SettledType DEF Dead, Reason
    <3>4. r \notin confirmed
      BY <1>0, <3>2 DEF Ownership, ConfirmedIsKept, LeaseExclusive, Held
    <3>5. task[w].pc = "idle" /\ UNCHANGED confirmed BY <2>3 DEF ReadChannelFails, ghostVars
    <3> QED BY <3>1, <3>2, <3>3, <3>4, <3>5, WriteOwnership
  \* The remaining writes concern the row in hand.
  <2>4. ASSUME task[w].pc # "idle", NEW row \in Row, ~row.leased,
               task[w].pc = "settle" /\ task[w].answer = "ok" => row.state = "sent",
               WriteRow(w, task[w].row, row), UNCHANGED <<batch, confirmed>>
        PROVE  Ownership'
    <3>1. task[w].row \in Rows BY <1>0, <2>4, TaskRowType
    <3>2. task[w].row \in Held(w) BY <3>1, DeliveryAssumption DEF Held
    <3>3. queue[task[w].row].state = "pending" BY <1>0, <3>2 DEF Ownership, LeaseExclusive
    <3>4. task[w].row \in confirmed => row.state = "sent"
      BY <1>0, <2>4, <3>1, <3>3 DEF Ownership, ConfirmedIsKept
    <3> QED BY <2>4, <3>1, <3>4, WriteOwnership
  <2>5. CASE DropFrozen(w)
    <3>1. task[w].row \in Rows BY <1>0, <2>5, TaskRowType DEF DropFrozen
    <3> QED BY <1>0, <2>4, <2>5, <3>1, SettledType DEF DropFrozen, Dead, Reason, ghostVars
  <2>6. CASE DropUnroutable(w)
    <3>1. task[w].row \in Rows BY <1>0, <2>6, TaskRowType DEF DropUnroutable, NotFrozen
    <3> QED BY <1>0, <2>4, <2>6, <3>1, SettledType DEF DropUnroutable, NotFrozen, Dead, Reason, ghostVars
  <2>7. CASE Defer(w)
    <3>1. task[w].row \in Rows BY <1>0, <2>7, TaskRowType DEF Defer, NotFrozen
    <3>2. MuteLeft(task[w].muted) \in Nat BY <1>0, <2>7 DEF Defer, Muted, MuteLeft, TypeOK, Task
    <3> QED BY <1>0, <2>4, <2>7, <3>1, <3>2, RescheduledType DEF Defer, NotFrozen, ghostVars
  <2>8. CASE Route(w)
    <3>1. task' = [task EXCEPT ![w].pc = IF queue[task[w].row].class = "followup" THEN "compose" ELSE "send",
                               ![w].route = IF FailsOver(w, task[w].row) THEN "email" ELSE "own"]
      BY <2>8 DEF Route
    <3>2. \A v \in Workers : /\ task'[v].row = task[v].row
                             /\ (task'[v].pc = "idle") <=> (task[v].pc = "idle")
                             /\ (task'[v].pc = "settle") <=> (task[v].pc = "settle")
                             /\ task'[v].answer = task[v].answer
      BY <1>0, <2>8, <3>1 DEF Route, NotFrozen, TypeOK, Task
    <3> QED BY <1>0, <2>8, <3>2, OwnershipFrame, Zenon DEF Route, queueVars, ghostVars
  <2>9. CASE Compose(w)
    <3>1. \A v \in Workers : /\ task'[v].row = task[v].row
                             /\ (task'[v].pc = "idle") <=> (task[v].pc = "idle")
                             /\ (task'[v].pc = "settle") <=> (task[v].pc = "settle")
                             /\ task'[v].answer = task[v].answer
      BY <1>0, <2>9 DEF Compose, TypeOK, Task
    <3> QED BY <1>0, <2>9, <3>1, OwnershipFrame DEF Compose, queueVars, ghostVars
  <2>10. CASE DropFollowUp(w)
    <3>1. task[w].row \in Rows BY <1>0, <2>10, TaskRowType DEF DropFollowUp
    <3>2. PICK reason \in {"closed_unmeasured", "no_incident"} :
            WriteRow(w, task[w].row, Dead(task[w].row, reason))
      BY <2>10 DEF DropFollowUp
    <3>3. Dead(task[w].row, reason) \in Row /\ ~Dead(task[w].row, reason).leased
      BY <1>0, <3>1, SettledType DEF Dead, Reason
    <3> QED BY <2>4, <2>10, <3>2, <3>3 DEF DropFollowUp, ghostVars
  <2>11. ASSUME NEW answer \in Answer, Send(w, answer) PROVE Ownership'
    BY <2>11, SendOwnership
  <2>12. CASE SettleOK(w)
    <3>1. task[w].row \in Rows BY <1>0, <2>12, TaskRowType DEF SettleOK
    <3> QED BY <1>0, <2>4, <2>12, <3>1, SettledType DEF SettleOK, Sent, Reason, ghostVars
  <2>13. CASE SettleFatal(w)
    <3>1. task[w].row \in Rows BY <1>0, <2>13, TaskRowType DEF SettleFatal
    <3> QED BY <1>0, <2>4, <2>13, <3>1, SettledType DEF SettleFatal, Dead, Reason, ghostVars
  <2>14. CASE SettleRetriable(w)
    <3>1. task[w].row \in Rows BY <1>0, <2>14, TaskRowType DEF SettleRetriable
    <3>2. PICK row \in Row : WriteRow(w, task[w].row, row) /\ ~row.leased
      <4>1. CASE Exhausted(w, task[w].row)
        BY <1>0, <2>14, <3>1, <4>1, SettledType DEF SettleRetriable, Dead, Reason
      <4>2. CASE ~Exhausted(w, task[w].row)
        <5>1. PICK backoff \in 1..MaxBackoff : WriteRow(w, task[w].row, Rescheduled(task[w].row, backoff))
          BY <2>14, <4>2 DEF SettleRetriable
        <5>2. backoff \in Nat BY DeliveryAssumption
        <5> QED BY <1>0, <3>1, <5>1, <5>2, RescheduledType
      <4> QED BY <4>1, <4>2
    <3> QED BY <2>4, <2>14, <3>2 DEF SettleRetriable, ghostVars
  <2> QED BY <1>4, <2>1, <2>2, <2>3, <2>5, <2>6, <2>7, <2>8, <2>9, <2>10, <2>11, <2>12, <2>13,
             <2>14 DEF WorkerStep
<1>5. CASE Environment
  <2>1. ASSUME NEW r \in Rows, Enqueue(r) PROVE Ownership'
    <3>1. \A s \in Rows : /\ queue'[s].leased = queue[s].leased
                          /\ queue'[s].state = queue[s].state \/ queue[s].state = "absent"
      BY <1>0, <2>1 DEF Enqueue, TypeOK, Row
    <3> QED BY <1>0, <2>1, <3>1, OwnershipFrame DEF Enqueue, workerVars, ghostVars
  <2>2. ASSUME NEW r \in Rows, NEW reason \in IncidentState \ {"open"}, CloseIncident(r, reason)
        PROVE Ownership'
    BY <1>0, <2>2, OwnershipFrame DEF CloseIncident, queueVars, workerVars, ghostVars
  <2>3. CASE ToggleFrozen
    BY <1>0, <2>3, OwnershipFrame DEF ToggleFrozen, queueVars, workerVars, ghostVars
  <2>4. ASSUME NEW c \in Channels, NEW ticks \in MuteTicks, Mute(c, ticks) PROVE Ownership'
    BY <1>0, <2>4, OwnershipFrame DEF Mute, queueVars, workerVars, ghostVars
  <2>5. ASSUME NEW c \in Channels, Unmute(c) PROVE Ownership'
    <3>1. \A r \in Rows : queue'[r].leased = queue[r].leased /\ queue'[r].state = queue[r].state
      BY <1>0, <2>5 DEF Unmute, TypeOK, Row
    <3> QED BY <1>0, <2>5, <3>1, OwnershipFrame DEF Unmute, workerVars, ghostVars
  <2>6. ASSUME NEW w \in Workers, Crash(w) PROVE Ownership'
    BY <2>6, CrashOwnership
  <2> QED BY <1>5, <2>1, <2>2, <2>3, <2>4, <2>5, <2>6 DEF Environment
<1>6. CASE Tick
  <2>1. \A r \in Rows : queue'[r].leased = queue[r].leased /\ queue'[r].state = queue[r].state
    BY <1>0, <1>6 DEF Tick, TypeOK, Row
  <2>2. \A v \in Workers : /\ task'[v].row = task[v].row
                           /\ task'[v].pc = task[v].pc
                           /\ task'[v].answer = task[v].answer
    BY <1>0, <1>6 DEF Tick, TypeOK, Task
  <2> QED BY <1>0, <1>6, <2>1, <2>2, OwnershipFrame DEF Tick, ghostVars
<1> QED BY <1>3, <1>4, <1>5, <1>6 DEF Next

\* Every reachable state is well typed and well owned.
THEOREM Invariance == Spec => []IInv
<1>1. Init => IInv BY InitIInv
<1>2. IInv /\ [Next]_vars => IInv' BY NextIInv
<1> QED BY <1>1, <1>2, PTL DEF Spec

\* Every reachable state of the pipeline is well typed.
THEOREM TypeCorrect == Spec => []TypeOK
<1>1. IInv => TypeOK BY DEF IInv
<1> QED BY <1>1, Invariance, PTL

\* Whatever crashes, commands and lost writes come in between, no row is in the
\* hands of two workers: DeliveryQueue's LeaseExclusive for every instance.
THEOREM ExclusiveLeases == Spec => []LeaseExclusive
<1>1. IInv => LeaseExclusive BY DEF IInv, Ownership
<1> QED BY <1>1, Invariance, PTL

\* A send is of a row nobody has answered for, and nothing else sends.
LEMMA NextHeard ==
  ASSUME IInv, [Next]_vars
  PROVE  \A r \in confirmed : r \in confirmed' /\ sends'[r] = sends[r]
<1>1. ASSUME NEW w \in Workers, NEW answer \in Answer, Send(w, answer)
      PROVE  \A r \in confirmed : r \in confirmed' /\ sends'[r] = sends[r]
  <2>1. task[w].row \in Rows /\ task[w].row \notin confirmed BY <1>1, SendOwnership
  <2>2. /\ sends' = [sends EXCEPT ![task[w].row] = @ + 1]
        /\ confirmed \subseteq confirmed'
    BY <1>1 DEF Send
  <2>3. confirmed \subseteq Rows /\ sends \in [Rows -> Nat] BY DEF IInv, TypeOK
  <2> QED BY <2>1, <2>2, <2>3
<1>2. CASE UNCHANGED ghostVars
  BY <1>2 DEF ghostVars
<1>3. ASSUME NEW w \in Workers, WorkerStep(w)
      PROVE  UNCHANGED ghostVars \/ \E answer \in Answer : Send(w, answer)
  <2>1. Lease(w) \/ ReadChannel(w) \/ ReadChannelFails(w) \/ Route(w) \/ Compose(w) => UNCHANGED ghostVars
    BY Zenon DEF Lease, ReadChannel, ReadChannelFails, Route, Compose
  <2>2. DropFrozen(w) \/ DropUnroutable(w) \/ Defer(w) \/ DropFollowUp(w) => UNCHANGED ghostVars
    BY Zenon DEF DropFrozen, DropUnroutable, Defer, DropFollowUp
  <2>3. SettleOK(w) \/ SettleFatal(w) \/ SettleRetriable(w) => UNCHANGED ghostVars
    BY Zenon DEF SettleOK, SettleFatal, SettleRetriable
  <2> QED BY <1>3, <2>1, <2>2, <2>3 DEF WorkerStep
<1>4. Environment \/ Tick => UNCHANGED ghostVars
  BY Zenon DEF Environment, Enqueue, CloseIncident, ToggleFrozen, Mute, Unmute, Crash, Tick
<1>5. UNCHANGED vars => UNCHANGED ghostVars
  BY DEF vars, ghostVars
<1> QED BY <1>1, <1>2, <1>3, <1>4, <1>5 DEF Next

\* What the channel has taken and answered for is never sent again and never given
\* up, over crashes, lost writes, retries and mutes: DeliveryQueue's HeardIsFinal
\* for every instance.
THEOREM AtMostOnce == Spec => HeardIsFinal
<1>1. IInv /\ [Next]_vars => [\A r \in confirmed : sends'[r] = sends[r] /\ queue'[r].state # "dead"]_vars
  <2> SUFFICES ASSUME IInv, [Next]_vars, NEW r \in confirmed
               PROVE  sends'[r] = sends[r] /\ queue'[r].state # "dead"
    OBVIOUS
  <2>1. r \in Rows BY DEF IInv, TypeOK
  <2>2. r \in confirmed' /\ sends'[r] = sends[r] BY NextHeard
  <2>3. LeasedIsPending' /\ ConfirmedIsKept' BY NextIInv DEF IInv, Ownership
  <2>4. queue'[r].state # "dead" BY <2>1, <2>2, <2>3 DEF LeasedIsPending, ConfirmedIsKept
  <2> QED BY <2>2, <2>4
<1> QED BY <1>1, Invariance, PTL DEF Spec, HeardIsFinal

-----------------------------------------------------------------------------
(* The queue implements the ledger.                                          *)

LEMMA LedgerFrame ==
  ASSUME \A r \in Rows : queue'[r].state = queue[r].state,
         UNCHANGED <<accepted, confirmed>>
  PROVE  UNCHANGED <<LedgerStatus, accepted>>
  BY DEF LedgerStatus

\* Writing a row back gives it up, or leaves its entry as it was.
LEMMA LedgerWrite ==
  ASSUME IInv, NEW w \in Workers, NEW r \in Rows, NEW row \in Row,
         queue[r].state = "pending",
         row.state # "absent",
         r \in confirmed <=> row.state = "sent",
         WriteRow(w, r, row), UNCHANGED <<accepted, confirmed>>
  PROVE  Ledger!GiveUp(r) \/ UNCHANGED <<LedgerStatus, accepted>>
<1>0. TypeOK BY DEF IInv
<1>1. CASE queue' = queue
  BY <1>1, LedgerFrame
<1>2. CASE queue' = [queue EXCEPT ![r] = row]
  <2>1. queue'[r] = row /\ \A s \in Rows : s # r => queue'[s] = queue[s]
    BY <1>0, <1>2 DEF TypeOK
  <2>2. CASE row.state = "dead"
    <3>1. LedgerStatus[r] = "owed" BY <2>2 DEF LedgerStatus
    <3>2. LedgerStatus' = [LedgerStatus EXCEPT ![r] = "abandoned"]
      BY <2>1, <2>2 DEF LedgerStatus
    <3> QED BY <3>1, <3>2 DEF Ledger!GiveUp, Ledger!Becomes
  <2>3. CASE row.state # "dead"
    <3>1. row.state \in {"pending", "sent"} BY <2>3 DEF Row
    <3>2. \A s \in Rows : LedgerStatus'[s] = LedgerStatus[s]
      BY <2>1, <3>1 DEF LedgerStatus
    <3> QED BY <3>2 DEF LedgerStatus
  <2> QED BY <2>2, <2>3
<1> QED BY <1>1, <1>2 DEF WriteRow

LEMMA LedgerInit == Init => Ledger!Init
  BY DEF Init, Ledger!Init, LedgerStatus

\* A send is a copy of what is owed, and delivers it when it is answered for.
LEMMA LedgerSend ==
  ASSUME IInv, NEW w \in Workers, NEW answer \in Answer, Send(w, answer)
  PROVE  Ledger!Next \/ UNCHANGED <<LedgerStatus, accepted>>
<1>0. TypeOK BY DEF IInv
<1>1. PICK r \in Rows : r = task[w].row /\ r \notin confirmed /\ queue[r].state = "pending"
  BY SendOwnership
<1>2. queue' = queue /\ confirmed' = IF answer = "ok" THEN confirmed \cup {r} ELSE confirmed
  BY <1>1 DEF Send, queueVars
<1>3. PICK took \in Taken[answer] : accepted' = [accepted EXCEPT ![r] = IF took THEN @ + 1 ELSE @]
  BY <1>1 DEF Send
<1>4. LedgerStatus[r] = "owed" BY <1>1 DEF LedgerStatus
<1>5. CASE answer = "ok"
  <2>1. Ledger!Arrives(r) BY <1>3, <1>5, TakenType DEF Ledger!Arrives
  <2>2. LedgerStatus'[r] = "delivered" BY <1>1, <1>2, <1>5 DEF LedgerStatus
  <2>3. \A s \in Rows : s # r => LedgerStatus'[s] = LedgerStatus[s] BY <1>2, <1>5 DEF LedgerStatus
  <2>4. LedgerStatus = [s \in Rows |-> LedgerStatus[s]] /\ LedgerStatus' = [s \in Rows |-> LedgerStatus'[s]]
    BY DEF LedgerStatus
  <2> HIDE DEF LedgerStatus
  <2>5. LedgerStatus' = [LedgerStatus EXCEPT ![r] = "delivered"] BY <2>2, <2>3, <2>4
  <2> QED BY <1>4, <2>1, <2>5 DEF Ledger!Deliver, Ledger!Becomes, Ledger!Next
<1>6. CASE answer # "ok"
  <2>1. LedgerStatus' = LedgerStatus BY <1>2, <1>6 DEF LedgerStatus
  <2>2. CASE took
    <3>1. Ledger!Arrives(r) BY <1>3, <2>2 DEF Ledger!Arrives
    <3> QED BY <1>4, <2>1, <3>1 DEF Ledger!DeliverUnheard, Ledger!Next
  <2>3. CASE ~took
    <3>1. accepted' = accepted BY <1>0, <1>3, <2>3 DEF TypeOK
    <3> QED BY <2>1, <3>1
  <2> QED BY <2>2, <2>3
<1> QED BY <1>5, <1>6

LEMMA LedgerNext == IInv /\ [Next]_vars => [Ledger!Next]_<<LedgerStatus, accepted>>
<1> SUFFICES ASSUME IInv, [Next]_vars PROVE Ledger!Next \/ UNCHANGED <<LedgerStatus, accepted>>
  OBVIOUS
<1>0. TypeOK /\ Ownership /\ TaskHasRow BY DEF IInv, Ownership
<1>1. CASE UNCHANGED vars
  BY <1>1, LedgerFrame DEF vars
<1>2. ASSUME NEW w \in Workers, WorkerStep(w) PROVE Ledger!Next \/ UNCHANGED <<LedgerStatus, accepted>>
  <2>1. CASE Lease(w)
    <3>1. \A r \in Rows : queue'[r].state = queue[r].state BY <1>0, <2>1 DEF Lease, TypeOK, Row
    <3> QED BY <2>1, <3>1, LedgerFrame DEF Lease, ghostVars
  <2>2. CASE ReadChannel(w) \/ Route(w) \/ Compose(w)
    <3>1. UNCHANGED <<queue, accepted, confirmed>>
      BY <2>2 DEF ReadChannel, Route, Compose, queueVars, ghostVars
    <3>2. \A r \in Rows : queue'[r].state = queue[r].state BY <3>1
    <3> QED BY <3>1, <3>2, LedgerFrame
  <2>3. CASE ReadChannelFails(w)
    <3>1. PICK r \in batch[w] : WriteRow(w, r, Dead(r, "channel_not_found"))
      BY <2>3 DEF ReadChannelFails
    <3>2. r \in Rows BY <1>0 DEF TypeOK
    <3>3. Dead(r, "channel_not_found") \in Row /\ Dead(r, "channel_not_found").state = "dead"
      BY <1>0, <3>2, SettledType DEF Dead, Reason
    <3>4. queue[r].state = "pending" /\ r \notin confirmed
      BY <1>0, <3>2 DEF Ownership, ConfirmedIsKept, LeaseExclusive, Held
    <3>5. UNCHANGED <<accepted, confirmed>> BY <2>3 DEF ReadChannelFails, ghostVars
    <3> QED BY <3>1, <3>2, <3>3, <3>4, <3>5, LedgerWrite DEF Ledger!Next
  \* The remaining writes concern the row in hand.
  <2>4. ASSUME task[w].pc # "idle", NEW row \in Row, row.state # "absent",
               (task[w].pc = "settle" /\ task[w].answer = "ok") <=> row.state = "sent",
               WriteRow(w, task[w].row, row), UNCHANGED <<accepted, confirmed>>
        PROVE  Ledger!Next \/ UNCHANGED <<LedgerStatus, accepted>>
    <3>1. task[w].row \in Rows BY <1>0, <2>4, TaskRowType
    <3>2. task[w].row \in Held(w) BY <3>1, DeliveryAssumption DEF Held
    <3>3. queue[task[w].row].state = "pending" BY <1>0, <3>2 DEF Ownership, LeaseExclusive
    <3>4. task[w].row \in confirmed => row.state = "sent"
      BY <1>0, <2>4, <3>1, <3>3 DEF Ownership, ConfirmedIsKept
    <3>5. row.state = "sent" => task[w].row \in confirmed
      BY <1>0, <2>4 DEF Ownership, OkIsConfirmed
    <3> QED BY <2>4, <3>1, <3>3, <3>4, <3>5, LedgerWrite DEF Ledger!Next
  <2>5. CASE DropFrozen(w) \/ DropUnroutable(w) \/ DropFollowUp(w) \/ SettleFatal(w)
    <3>1. /\ task[w].pc # "idle" /\ ~(task[w].pc = "settle" /\ task[w].answer = "ok")
          /\ UNCHANGED <<accepted, confirmed>>
      BY <2>5 DEF DropFrozen, DropUnroutable, NotFrozen, DropFollowUp, SettleFatal, ghostVars
    <3>2. task[w].row \in Rows BY <1>0, <3>1, TaskRowType
    <3>3. PICK reason \in Reason : WriteRow(w, task[w].row, Dead(task[w].row, reason))
      BY <2>5 DEF DropFrozen, DropUnroutable, DropFollowUp, SettleFatal, Reason
    <3>4. Dead(task[w].row, reason) \in Row /\ Dead(task[w].row, reason).state = "dead"
      BY <1>0, <3>2, SettledType DEF Dead
    <3> QED BY <2>4, <3>1, <3>3, <3>4
  <2>6. CASE Defer(w)
    <3>1. task[w].row \in Rows BY <1>0, <2>6, TaskRowType DEF Defer, NotFrozen
    <3>2. MuteLeft(task[w].muted) \in Nat BY <1>0, <2>6 DEF Defer, Muted, MuteLeft, TypeOK, Task
    <3>3. queue[task[w].row].state = "pending"
      BY <1>0, <3>1, DeliveryAssumption DEF Ownership, LeaseExclusive, Held
    <3> QED BY <1>0, <2>4, <2>6, <3>1, <3>2, <3>3, RescheduledType DEF Defer, NotFrozen, ghostVars
  <2>7. ASSUME NEW answer \in Answer, Send(w, answer) PROVE Ledger!Next \/ UNCHANGED <<LedgerStatus, accepted>>
    BY <2>7, LedgerSend
  <2>8. CASE SettleOK(w)
    <3>1. task[w].row \in Rows BY <1>0, <2>8, TaskRowType DEF SettleOK
    <3> QED BY <1>0, <2>4, <2>8, <3>1, SettledType DEF SettleOK, Sent, Reason, ghostVars
  <2>9. CASE SettleRetriable(w)
    <3>1. task[w].row \in Rows BY <1>0, <2>9, TaskRowType DEF SettleRetriable
    <3>2. queue[task[w].row].state = "pending"
      BY <1>0, <3>1, DeliveryAssumption DEF Ownership, LeaseExclusive, Held
    <3>3. PICK row \in Row : WriteRow(w, task[w].row, row) /\ row.state \in {"pending", "dead"}
      <4>1. CASE Exhausted(w, task[w].row)
        BY <1>0, <2>9, <3>1, <4>1, SettledType DEF SettleRetriable, Dead, Reason
      <4>2. CASE ~Exhausted(w, task[w].row)
        <5>1. PICK backoff \in 1..MaxBackoff : WriteRow(w, task[w].row, Rescheduled(task[w].row, backoff))
          BY <2>9, <4>2 DEF SettleRetriable
        <5>2. backoff \in Nat BY DeliveryAssumption
        <5> QED BY <1>0, <3>1, <3>2, <5>1, <5>2, RescheduledType
      <4> QED BY <4>1, <4>2
    <3>4. task[w].pc = "settle" /\ task[w].answer = "retriable" /\ UNCHANGED <<accepted, confirmed>>
      BY <2>9 DEF SettleRetriable, ghostVars
    <3> QED BY <2>4, <3>3, <3>4
  <2> QED BY <1>2, <2>1, <2>2, <2>3, <2>5, <2>6, <2>7, <2>8, <2>9 DEF WorkerStep
<1>3. CASE Environment
  <2>1. ASSUME NEW r \in Rows, Enqueue(r) PROVE Ledger!Next
    <3>1. /\ queue[r].state = "absent" /\ queue'[r].state = "pending" /\ UNCHANGED <<accepted, confirmed>>
          /\ \A s \in Rows : s # r => queue'[s] = queue[s]
      BY <1>0, <2>1 DEF Enqueue, ghostVars, TypeOK, Row
    <3>2. r \notin confirmed
      BY <1>0, <3>1 DEF Ownership, ConfirmedIsKept, LeasedIsPending
    <3>3. LedgerStatus[r] = "absent" BY <3>1 DEF LedgerStatus
    <3>4. LedgerStatus' = [LedgerStatus EXCEPT ![r] = "owed"]
      BY <3>1, <3>2 DEF LedgerStatus
    <3> QED BY <3>1, <3>3, <3>4 DEF Ledger!Raise, Ledger!Becomes, Ledger!Next
  <2>2. ASSUME NEW c \in Channels, Unmute(c) PROVE UNCHANGED <<LedgerStatus, accepted>>
    <3>1. \A r \in Rows : queue'[r].state = queue[r].state BY <1>0, <2>2 DEF Unmute, TypeOK, Row
    <3> QED BY <2>2, <3>1, LedgerFrame DEF Unmute, ghostVars
  <2>3. ASSUME UNCHANGED <<queue, accepted, confirmed>> PROVE UNCHANGED <<LedgerStatus, accepted>>
    BY <2>3, LedgerFrame
  <2> QED BY <1>3, <2>1, <2>2, <2>3
          DEF Environment, CloseIncident, ToggleFrozen, Mute, Crash, queueVars, ghostVars
<1>4. CASE Tick
  <2>1. \A r \in Rows : queue'[r].state = queue[r].state BY <1>0, <1>4 DEF Tick, TypeOK, Row
  <2> QED BY <1>4, <2>1, LedgerFrame DEF Tick, ghostVars
<1> QED BY <1>1, <1>2, <1>3, <1>4 DEF Next

\* The delivery pipeline implements the ledger: copies of an alert go out only
\* while it is owed, and it is owed until it is known to be delivered or is given
\* up, once and for good.
THEOREM Refinement == Spec => ImplementsLedger
<1>1. Init => Ledger!Init BY LedgerInit
<1>2. IInv /\ [Next]_vars => [Ledger!Next]_<<LedgerStatus, accepted>> BY LedgerNext
<1> QED BY <1>1, <1>2, Invariance, PTL DEF Spec, ImplementsLedger, Ledger!Spec
-----------------------------------------------------------------------------
(***************************************************************************)
(* No delivery is tried more than maxAttempts times.  The retry counter is   *)
(* read with the lease and written by the database, so the argument has to   *)
(* say that a worker's copy agrees with the row for as long as it has the    *)
(* row in hand, and that every send made so far has been paid for by an      *)
(* attempt of the row, but for one in flight.                                *)
(***************************************************************************)

\* The sends of a row are paid for and leave one more.
Unspent(r) == sends[r] <= queue[r].attempts /\ sends[r] < MaxAttempts

\* A worker's copy of the counter is the row's; past its send one is in flight.
InHand(w, r) ==
  /\ attempts0[w][r] = queue[r].attempts
  /\ IF task[w].row = r /\ task[w].pc = "settle"
       THEN sends[r] <= queue[r].attempts + 1
       ELSE Unspent(r)

\* Rows a worker may yet lease.
Claimable(r) == queue[r].state \in {"absent", "pending"} /\ ~queue[r].leased

Budget ==
  /\ SendsBounded
  /\ \A r \in Rows : Claimable(r) => Unspent(r)
  /\ \A w \in Workers : \A r \in Held(w) : InHand(w, r)

LEMMA HeldRows ==
  ASSUME TypeOK, NEW w \in Workers
  PROVE  Held(w) \subseteq Rows
  BY DEF Held, TypeOK, Task

LEMMA HeldIsLeased ==
  ASSUME IInv, NEW w \in Workers, NEW r \in Held(w)
  PROVE  r \in Rows /\ ~Claimable(r) /\ \A v \in Workers : v # w => r \notin Held(v)
<1>1. r \in Rows BY HeldRows DEF IInv
<1> QED BY <1>1 DEF IInv, Ownership, LeaseExclusive, Claimable

\* Rescheduling pays for one attempt (Reschedule: attempts + 1).
LEMMA RescheduledCounts ==
  ASSUME TypeOK, NEW r \in Rows, NEW due \in Nat
  PROVE  Rescheduled(r, due).attempts = queue[r].attempts + 1
<1> DEFINE a == Attempted(r)
<1>1. queue[r] \in Row BY DEF TypeOK
<1>2. a \in Row /\ a.attempts = queue[r].attempts + 1 BY <1>1 DEF Attempted, Row
<1> HIDE DEF a
<1>3. [a EXCEPT !.leased = FALSE, !.due = due].attempts = a.attempts BY <1>2 DEF Row
<1> QED BY <1>2, <1>3 DEF Rescheduled, a

\* The row of a worker past its channel read is in its hands.
LEMMA TaskRowHeld ==
  ASSUME IInv, NEW w \in Workers, task[w].pc # "idle"
  PROVE  task[w].row \in Rows /\ task[w].row \in Held(w)
<1>1. task[w].row \in Rows BY TaskRowType DEF IInv, Ownership
<1> QED BY <1>1, DeliveryAssumption DEF Held

\* A step that sends nothing, counts nothing and puts no row into a hand.
LEMMA BudgetFrame ==
  ASSUME IInv, Budget, UNCHANGED sends,
         \A w \in Workers : Held(w)' \subseteq Held(w),
         \A w \in Workers : \A r \in Held(w)' :
           /\ attempts0'[w][r] = attempts0[w][r]
           /\ (task'[w].row = r /\ task'[w].pc = "settle") <=> (task[w].row = r /\ task[w].pc = "settle"),
         \A r \in Rows : queue'[r].attempts = queue[r].attempts,
         \A r \in Rows : Claimable(r)' => Claimable(r)
  PROVE  Budget'
<1>1. \A w \in Workers : Held(w) \subseteq Rows BY HeldRows DEF IInv
<1>2. \A r \in Rows : Unspent(r)' <=> Unspent(r) BY DEF Unspent
<1>3. SendsBounded' BY DEF Budget, SendsBounded
<1>4. \A r \in Rows : Claimable(r)' => Unspent(r)' BY <1>2 DEF Budget
<1>5. ASSUME NEW w \in Workers, NEW r \in Held(w)' PROVE InHand(w, r)'
  <2>1. r \in Held(w) /\ r \in Rows BY <1>1
  <2>2. InHand(w, r) BY <2>1 DEF Budget
  <2>3. /\ attempts0'[w][r] = attempts0[w][r]
        /\ (task'[w].row = r /\ task'[w].pc = "settle") <=> (task[w].row = r /\ task[w].pc = "settle")
        /\ queue'[r].attempts = queue[r].attempts
        /\ Unspent(r)' <=> Unspent(r)
    BY <1>2, <1>5, <2>1
  <2> QED BY <2>2, <2>3 DEF InHand
<1> QED BY <1>3, <1>4, <1>5 DEF Budget

\* Leasing copies the counter of rows that may still be tried.
LEMMA LeaseBudget ==
  ASSUME IInv, Budget, NEW w \in Workers, Lease(w)
  PROVE  Budget'
<1>0. TypeOK BY DEF IInv
<1>1. PICK S \in SUBSET Leasable :
        /\ queue' = [r \in Rows |-> IF r \in S THEN [queue[r] EXCEPT !.leased = TRUE] ELSE queue[r]]
        /\ batch' = [batch EXCEPT ![w] = S]
        /\ attempts0' = [attempts0 EXCEPT ![w] = [r \in Rows |-> IF r \in S THEN queue[r].attempts ELSE 0]]
  BY DEF Lease
<1>2. UNCHANGED <<task, sends>> /\ task[w].row = NoRow
  BY DEF Lease, ghostVars, IInv, Ownership, TaskHasRow
<1>3. \A r \in Rows : /\ queue'[r].attempts = queue[r].attempts
                      /\ queue'[r].state = queue[r].state
                      /\ queue'[r].leased <=> (queue[r].leased \/ r \in S)
  BY <1>0, <1>1, LeasedRows
<1>4. \A r \in S : r \in Rows /\ Claimable(r) BY DEF Leasable, Claimable
<1>5. \A r \in Rows : Unspent(r)' <=> Unspent(r) BY <1>2, <1>3 DEF Unspent
<1>6. \A r \in Rows : Claimable(r)' => Claimable(r) BY <1>3 DEF Claimable
<1>7. \A v \in Workers : Held(v)' = IF v = w THEN S ELSE Held(v)
  BY <1>0, <1>1, <1>2 DEF Held, TypeOK
<1>8. ASSUME NEW v \in Workers, NEW r \in Held(v)' PROVE InHand(v, r)'
  <2>1. CASE v = w
    <3>1. r \in S BY <1>7, <1>8, <2>1
    <3>2. r \in Rows /\ Unspent(r) BY <1>4, <3>1 DEF Budget
    <3>3. attempts0'[w][r] = queue[r].attempts BY <1>0, <1>1, <3>1, <3>2 DEF TypeOK
    <3>4. task'[w].row # r BY <1>2, <3>2, DeliveryAssumption
    <3> QED BY <1>3, <1>5, <2>1, <3>2, <3>3, <3>4 DEF InHand
  <2>2. CASE v # w
    <3>1. r \in Held(v) BY <1>7, <1>8, <2>2
    <3>2. r \in Rows BY <1>0, <3>1, HeldRows
    <3>3. InHand(v, r) BY <3>1 DEF Budget
    <3>4. attempts0'[v] = attempts0[v] BY <1>0, <1>1, <2>2 DEF TypeOK
    <3> QED BY <1>2, <1>3, <1>5, <3>2, <3>3, <3>4 DEF InHand
  <2> QED BY <2>1, <2>2
<1>9. SendsBounded' BY <1>2 DEF Budget, SendsBounded
<1> QED BY <1>5, <1>6, <1>8, <1>9 DEF Budget

\* Writing a row back: it is settled for good, or its sends are paid for.
LEMMA WriteBudget ==
  ASSUME IInv, Budget, NEW w \in Workers, NEW r \in Held(w), NEW row \in Row,
         \/ row.state \in {"sent", "dead"}
         \/ sends[r] <= row.attempts /\ sends[r] < MaxAttempts,
         \/ r = task[w].row /\ batch' = batch
         \/ /\ r \in batch[w] /\ task[w].pc = "idle"
            /\ batch' = [batch EXCEPT ![w] = @ \ {r}],
         WriteRow(w, r, row), UNCHANGED sends
  PROVE  Budget'
<1>0. TypeOK /\ TaskHasRow /\ LeaseExclusive BY DEF IInv, Ownership
<1>1. r \in Rows /\ ~Claimable(r) /\ (\A v \in Workers : v # w => r \notin Held(v)) /\ r # NoRow
  BY HeldIsLeased, DeliveryAssumption
<1>2. /\ queue' = queue \/ queue' = [queue EXCEPT ![r] = row]
      /\ task' = [task EXCEPT ![w] = NoTask]
      /\ attempts0' = [attempts0 EXCEPT ![w][r] = 0]
  BY DEF WriteRow
<1>3. \A v \in Workers : v # w => task'[v] = task[v] /\ batch'[v] = batch[v]
  BY <1>0, <1>2 DEF TypeOK
<1>4. task'[w].row = NoRow /\ task'[w].pc = "idle" /\ batch'[w] = batch[w] \ {r}
  BY <1>0, <1>2 DEF TypeOK, NoTask, LeaseExclusive
<1>5. \A v \in Workers : \A s \in Held(v)' :
        s \in Rows /\ s # r /\ s \in Held(v)
  <2>1. \A s \in Held(w)' : s # r /\ s \in Held(w) BY <1>4 DEF Held
  <2>2. ASSUME NEW v \in Workers, v # w PROVE Held(v)' = Held(v) BY <1>3, <2>2 DEF Held
  <2>3. \A v \in Workers : Held(v) \subseteq Rows BY <1>0, HeldRows
  <2> QED BY <1>1, <2>1, <2>2, <2>3
<1>6. \A s \in Rows : s # r => queue'[s] = queue[s] BY <1>0, <1>2 DEF TypeOK
<1>7. \A v \in Workers, s \in Rows : s # r => attempts0'[v][s] = attempts0[v][s]
  BY <1>0, <1>2 DEF TypeOK
<1>8. \A s \in Rows : s # r => (Claimable(s)' <=> Claimable(s)) /\ (Unspent(s)' <=> Unspent(s))
  BY <1>6 DEF Claimable, Unspent
<1>9. Claimable(r)' => Unspent(r)'
  <2>1. CASE queue' = queue BY <1>1, <2>1 DEF Claimable
  <2>2. CASE queue' = [queue EXCEPT ![r] = row]
    <3>1. queue'[r] = row BY <1>0, <1>1, <2>2 DEF TypeOK
    <3> QED BY <3>1 DEF Claimable, Unspent
  <2> QED BY <1>2, <2>1, <2>2
<1>10. \A s \in Rows : Claimable(s)' => Unspent(s)' BY <1>8, <1>9 DEF Budget
<1>11. ASSUME NEW v \in Workers, NEW s \in Held(v)' PROVE InHand(v, s)'
  <2>1. s \in Rows /\ s # r /\ s \in Held(v) BY <1>5, <1>11
  <2>2. InHand(v, s) BY <2>1 DEF Budget
  <2>3. /\ attempts0'[v][s] = attempts0[v][s] /\ queue'[s] = queue[s]
        /\ Unspent(s)' <=> Unspent(s)
    BY <1>6, <1>7, <1>8, <2>1
  <2>4. CASE v # w
    <3>1. task'[v] = task[v] BY <1>3, <2>4
    <3> QED BY <2>2, <2>3, <3>1 DEF InHand
  <2>5. CASE v = w
    <3>1. task'[v].pc = "idle" BY <1>4, <2>5
    <3>2. ~(task[v].row = s /\ task[v].pc = "settle")
      BY <1>0, <2>1, <2>5 DEF TaskHasRow
    <3> QED BY <2>2, <2>3, <3>1, <3>2 DEF InHand
  <2> QED BY <2>4, <2>5
<1>12. SendsBounded' BY DEF Budget, SendsBounded
<1> QED BY <1>10, <1>11, <1>12 DEF Budget

\* A send is one more of a row that had one left.
LEMMA SendBudget ==
  ASSUME IInv, Budget, NEW w \in Workers, NEW answer \in Answer, Send(w, answer)
  PROVE  Budget'
<1>0. TypeOK BY DEF IInv
<1>1. PICK r \in Rows : r = task[w].row /\ r \in Held(w)
  BY TaskRowHeld DEF Send
<1>2. /\ task[w].pc = "send" /\ UNCHANGED <<queue, batch, attempts0>>
      /\ task' = [task EXCEPT ![w].pc = "settle", ![w].answer = answer]
      /\ sends' = [sends EXCEPT ![r] = @ + 1]
  BY <1>1 DEF Send, queueVars
<1>3. ~Claimable(r) /\ \A v \in Workers : v # w => r \notin Held(v)
  BY <1>1, HeldIsLeased
<1>4. InHand(w, r) BY <1>1 DEF Budget
<1>5. Unspent(r) /\ attempts0[w][r] = queue[r].attempts BY <1>2, <1>4 DEF InHand
<1>6. /\ sends'[r] = sends[r] + 1 /\ sends[r] \in Nat /\ queue[r].attempts \in Nat
      /\ \A s \in Rows : s # r => sends'[s] = sends[s]
  BY <1>0, <1>2 DEF TypeOK, Row
<1>7. \A v \in Workers : task'[v].row = task[v].row /\ (v # w => task'[v] = task[v])
  BY <1>0, <1>2 DEF TypeOK, Task
<1>8. task'[w].pc = "settle" BY <1>0, <1>2 DEF TypeOK, Task
<1>9. \A v \in Workers : Held(v)' = Held(v) BY <1>2, <1>7 DEF Held
<1>10. \A s \in Rows : s # r => (Unspent(s)' <=> Unspent(s)) BY <1>2, <1>6 DEF Unspent
<1>11. \A s \in Rows : Claimable(s)' <=> Claimable(s) BY <1>2 DEF Claimable
<1>12. SendsBounded'
  <2>1. sends'[r] <= MaxAttempts BY <1>5, <1>6, DeliveryAssumption DEF Unspent
  <2> QED BY <1>6, <2>1 DEF Budget, SendsBounded
<1>13. \A s \in Rows : Claimable(s)' => Unspent(s)' BY <1>3, <1>10, <1>11 DEF Budget
<1>14. ASSUME NEW v \in Workers, NEW s \in Held(v)' PROVE InHand(v, s)'
  <2>1. s \in Rows /\ s \in Held(v) BY <1>0, <1>9, <1>14, HeldRows
  <2>2. InHand(v, s) BY <2>1 DEF Budget
  <2>3. CASE s = r
    <3>1. v = w BY <1>3, <2>1, <2>3
    <3>2. sends'[r] <= queue[r].attempts + 1 BY <1>5, <1>6 DEF Unspent
    <3> QED BY <1>1, <1>2, <1>5, <1>7, <1>8, <2>3, <3>1, <3>2 DEF InHand
  <2>4. CASE s # r
    <3>1. (task'[v].row = s /\ task'[v].pc = "settle") <=> (task[v].row = s /\ task[v].pc = "settle")
      BY <1>1, <1>7, <2>4
    <3>2. sends'[s] = sends[s] /\ (Unspent(s)' <=> Unspent(s)) BY <1>6, <1>10, <2>1, <2>4
    <3> QED BY <1>2, <2>2, <3>1, <3>2 DEF InHand
  <2> QED BY <2>3, <2>4
<1> QED BY <1>12, <1>13, <1>14 DEF Budget

-----------------------------------------------------------------------------

LEMMA InitBudget == Init => Budget
<1> SUFFICES ASSUME Init PROVE Budget
  OBVIOUS
<1>1. \A r \in Rows : sends[r] = 0 /\ queue[r].attempts = 0 BY DEF Init
<1>2. \A w \in Workers : Held(w) = {} BY DEF Init, Held, NoTask
<1> QED BY <1>1, <1>2, DeliveryAssumption DEF Budget, SendsBounded, Unspent

LEMMA NextBudget == IInv /\ Budget /\ [Next]_vars => Budget'
<1> SUFFICES ASSUME IInv, Budget, [Next]_vars PROVE Budget'
  OBVIOUS
<1>0. TypeOK BY DEF IInv
<1>1. CASE UNCHANGED vars
  <2>1. UNCHANGED <<queue, batch, task, attempts0, sends>> BY <1>1 DEF vars
  <2>2. \A w \in Workers : Held(w)' = Held(w) BY <2>1 DEF Held
  <2>3. \A r \in Rows : Claimable(r)' <=> Claimable(r) BY <2>1 DEF Claimable
  <2> QED BY <2>1, <2>2, <2>3, BudgetFrame
<1>2. ASSUME NEW w \in Workers, WorkerStep(w) PROVE Budget'
  \* A row that is given up or marked sent.
  <2>1. ASSUME task[w].pc # "idle", NEW row \in Row, row.state \in {"sent", "dead"},
               WriteRow(w, task[w].row, row), UNCHANGED <<batch, sends>>
        PROVE  Budget'
    BY <2>1, TaskRowHeld, WriteBudget
  <2>2. CASE Lease(w)
    BY <2>2, LeaseBudget
  <2>3. CASE ReadChannel(w)
    <3>1. PICK r \in batch[w] :
            /\ batch' = [batch EXCEPT ![w] = @ \ {r}]
            /\ task' = [task EXCEPT ![w] = [NoTask EXCEPT !.pc = "decide", !.row = r,
                                         !.frozen = frozen, !.muted = muted[queue[r].channel]]]
      BY <2>3 DEF ReadChannel
    <3>2. /\ UNCHANGED <<queue, attempts0, sends>> /\ task[w].row = NoRow /\ task[w].pc = "idle"
      BY <2>3 DEF ReadChannel, queueVars, ghostVars, IInv, Ownership, TaskHasRow
    <3>3. r \in Rows /\ r # NoRow BY <1>0, DeliveryAssumption DEF TypeOK
    <3>4. \A v \in Workers : v # w => task'[v] = task[v] /\ batch'[v] = batch[v]
      BY <1>0, <3>1 DEF TypeOK
    <3>5. task'[w].row = r /\ task'[w].pc = "decide" /\ batch'[w] = batch[w] \ {r}
      BY <1>0, <3>1 DEF TypeOK, NoTask
    <3>6. \A v \in Workers : Held(v)' = Held(v)
      BY <3>2, <3>3, <3>4, <3>5 DEF Held
    <3>7. \A s \in Rows : Claimable(s)' <=> Claimable(s) BY <3>2 DEF Claimable
    <3>8. \A v \in Workers : \A s \in Held(v)' :
            (task'[v].row = s /\ task'[v].pc = "settle") <=> (task[v].row = s /\ task[v].pc = "settle")
      BY <3>2, <3>4, <3>5
    <3> QED BY <3>2, <3>6, <3>7, <3>8, BudgetFrame
  <2>4. CASE ReadChannelFails(w)
    <3>1. PICK r \in batch[w] : /\ batch' = [batch EXCEPT ![w] = @ \ {r}]
                                /\ WriteRow(w, r, Dead(r, "channel_not_found"))
      BY <2>4 DEF ReadChannelFails
    <3>2. r \in Rows /\ r \in Held(w) BY <1>0 DEF TypeOK, Held
    <3>3. Dead(r, "channel_not_found") \in Row /\ Dead(r, "channel_not_found").state = "dead"
      BY <1>0, <3>2, SettledType DEF Dead, Reason
    <3>4. task[w].pc = "idle" /\ UNCHANGED sends BY <2>4 DEF ReadChannelFails, ghostVars
    <3> QED BY <3>1, <3>2, <3>3, <3>4, WriteBudget
  <2>5. CASE DropFrozen(w) \/ DropUnroutable(w) \/ DropFollowUp(w) \/ SettleFatal(w)
    <3>1. task[w].pc # "idle" /\ UNCHANGED <<batch, sends>>
      BY <2>5 DEF DropFrozen, DropUnroutable, NotFrozen, DropFollowUp, SettleFatal, ghostVars
    <3>2. task[w].row \in Rows BY <3>1, TaskRowHeld
    <3>3. PICK reason \in Reason : WriteRow(w, task[w].row, Dead(task[w].row, reason))
      BY <2>5 DEF DropFrozen, DropUnroutable, DropFollowUp, SettleFatal, Reason
    <3>4. Dead(task[w].row, reason) \in Row /\ Dead(task[w].row, reason).state = "dead"
      BY <1>0, <3>2, SettledType DEF Dead
    <3> QED BY <2>1, <3>1, <3>3, <3>4
  <2>6. CASE Defer(w)
    <3>1. task[w].pc = "decide" /\ UNCHANGED <<batch, sends>> BY <2>6 DEF Defer, NotFrozen, ghostVars
    <3>2. PICK r \in Rows : r = task[w].row /\ r \in Held(w) BY <3>1, TaskRowHeld
    <3>3. PICK due \in Nat : WriteRow(w, r, Rescheduled(r, due))
      BY <1>0, <2>6, <3>2 DEF Defer, Muted, MuteLeft, TypeOK, Task
    <3>4. Unspent(r) BY <3>1, <3>2 DEF Budget, InHand
    <3>5. Rescheduled(r, due) \in Row /\ Rescheduled(r, due).attempts = queue[r].attempts + 1
      BY <1>0, RescheduledType, RescheduledCounts
    <3>6. sends[r] <= queue[r].attempts + 1 /\ sends[r] < MaxAttempts
      BY <1>0, <3>4 DEF Unspent, TypeOK, Row
    <3> QED BY <3>1, <3>2, <3>3, <3>5, <3>6, WriteBudget
  <2>7. CASE Route(w) \/ Compose(w)
    <3>1. /\ UNCHANGED <<queue, batch, attempts0, sends>>
          /\ task[w].pc \in {"decide", "compose"}
          /\ \E pc \in {"compose", "send"}, route \in {"own", "email"} :
               \/ task' = [task EXCEPT ![w].pc = pc, ![w].route = route]
               \/ \E text \in Text : task' = [task EXCEPT ![w].pc = pc, ![w].text = text]
      BY <2>7 DEF Route, Compose, NotFrozen, queueVars, ghostVars, Text
    <3>2. \A v \in Workers : /\ task'[v].row = task[v].row
                             /\ (task'[v].pc = "settle") <=> (task[v].pc = "settle")
      <4>1. PICK t : /\ task' = [task EXCEPT ![w] = t]
                     /\ t.row = task[w].row /\ t.pc # "settle"
        BY <1>0, <3>1 DEF TypeOK, Task
      <4>2. \A v \in Workers : task'[v] = IF v = w THEN t ELSE task[v]
        BY <1>0, <4>1 DEF TypeOK
      <4> QED BY <3>1, <4>1, <4>2
    <3>3. \A v \in Workers : Held(v)' = Held(v) BY <3>1, <3>2 DEF Held
    <3>4. \A s \in Rows : Claimable(s)' <=> Claimable(s) BY <3>1 DEF Claimable
    <3> QED BY <3>1, <3>2, <3>3, <3>4, BudgetFrame
  <2>8. ASSUME NEW answer \in Answer, Send(w, answer) PROVE Budget'
    BY <2>8, SendBudget
  <2>9. CASE SettleOK(w)
    <3>1. task[w].pc # "idle" /\ UNCHANGED <<batch, sends>> BY <2>9 DEF SettleOK, ghostVars
    <3>2. task[w].row \in Rows BY <3>1, TaskRowHeld
    <3> QED BY <1>0, <2>1, <2>9, <3>1, <3>2, SettledType DEF SettleOK, Sent, Reason
  <2>10. CASE SettleRetriable(w)
    <3>1. task[w].pc = "settle" /\ UNCHANGED <<batch, sends>> BY <2>10 DEF SettleRetriable, ghostVars
    <3>2. PICK r \in Rows : r = task[w].row /\ r \in Held(w) BY <3>1, TaskRowHeld
    <3>3. CASE Exhausted(w, r)
      BY <1>0, <2>1, <2>10, <3>1, <3>2, <3>3, SettledType DEF SettleRetriable, Dead, Reason
    <3>4. CASE ~Exhausted(w, r)
      <4>1. PICK due \in 1..MaxBackoff : WriteRow(w, r, Rescheduled(r, due))
        BY <2>10, <3>2, <3>4 DEF SettleRetriable
      <4>2. due \in Nat BY DeliveryAssumption
      <4>3. attempts0[w][r] = queue[r].attempts /\ sends[r] <= queue[r].attempts + 1
        BY <3>1, <3>2 DEF Budget, InHand
      <4>4. queue[r].attempts \in Nat /\ sends[r] \in Nat BY <1>0 DEF TypeOK, Row
      <4>5. sends[r] < MaxAttempts
        BY <3>4, <4>3, <4>4, DeliveryAssumption DEF Exhausted
      <4>6. Rescheduled(r, due) \in Row /\ Rescheduled(r, due).attempts = queue[r].attempts + 1
        BY <1>0, <4>2, RescheduledType, RescheduledCounts
      <4> QED BY <3>1, <3>2, <4>1, <4>3, <4>5, <4>6, WriteBudget
    <3> QED BY <3>3, <3>4
  <2> QED BY <1>2, <2>2, <2>3, <2>4, <2>5, <2>6, <2>7, <2>8, <2>9, <2>10 DEF WorkerStep
\* The rest of the world moves no row between hands and counts nothing.
<1>3. ASSUME UNCHANGED <<batch, attempts0, task, sends>>,
             \A r \in Rows : queue'[r].attempts = queue[r].attempts,
             \A r \in Rows : Claimable(r)' => Claimable(r)
      PROVE  Budget'
  <2>1. \A w \in Workers : Held(w)' = Held(w) BY <1>3 DEF Held
  <2> QED BY <1>3, <2>1, BudgetFrame
<1>4. CASE Environment
  <2>1. ASSUME NEW r \in Rows, Enqueue(r) PROVE Budget'
    <3>1. \A s \in Rows : queue'[s].attempts = queue[s].attempts /\ (Claimable(s)' => Claimable(s))
      BY <1>0, <2>1 DEF Enqueue, Claimable, TypeOK, Row
    <3> QED BY <1>3, <2>1, <3>1 DEF Enqueue, workerVars, ghostVars
  <2>2. ASSUME NEW c \in Channels, Unmute(c) PROVE Budget'
    <3>1. \A s \in Rows : queue'[s].attempts = queue[s].attempts /\ (Claimable(s)' => Claimable(s))
      BY <1>0, <2>2 DEF Unmute, Claimable, TypeOK, Row
    <3> QED BY <1>3, <2>2, <3>1 DEF Unmute, workerVars, ghostVars
  <2>3. ASSUME UNCHANGED <<queue, batch, attempts0, task, sends>> PROVE Budget'
    BY <1>3, <2>3 DEF Claimable
  <2>4. ASSUME NEW w \in Workers, Crash(w) PROVE Budget'
    <3>1. /\ batch' = [batch EXCEPT ![w] = {}] /\ task' = [task EXCEPT ![w] = NoTask]
          /\ attempts0' = [attempts0 EXCEPT ![w] = [r \in Rows |-> 0]]
          /\ UNCHANGED <<queue, sends>>
      BY <2>4 DEF Crash, queueVars, ghostVars
    <3>2. \A v \in Workers : v # w => /\ task'[v] = task[v] /\ batch'[v] = batch[v]
                                      /\ attempts0'[v] = attempts0[v]
      BY <1>0, <3>1 DEF TypeOK
    <3>3. task'[w].row = NoRow /\ batch'[w] = {} BY <1>0, <3>1 DEF TypeOK, NoTask
    <3>4. \A v \in Workers : Held(v)' = IF v = w THEN {} ELSE Held(v) BY <3>2, <3>3 DEF Held
    <3>5. \A s \in Rows : Claimable(s)' <=> Claimable(s) BY <3>1 DEF Claimable
    <3> QED BY <3>1, <3>2, <3>4, <3>5, BudgetFrame
  <2> QED BY <1>4, <2>1, <2>2, <2>3, <2>4
          DEF Environment, CloseIncident, ToggleFrozen, Mute, queueVars, workerVars, ghostVars
<1>5. CASE Tick
  <2>1. \A s \in Rows : queue'[s].attempts = queue[s].attempts /\ (Claimable(s)' => Claimable(s))
    <3>1. ASSUME NEW s \in Rows
          PROVE  queue'[s].attempts = queue[s].attempts /\ queue'[s].state = queue[s].state
                 /\ queue'[s].leased = queue[s].leased
      <4>1. PICK q \in Row : q = queue[s] BY <1>0 DEF TypeOK
      <4>2. queue'[s] = [q EXCEPT !.due = IF q.due > 0 THEN q.due - 1 ELSE 0] BY <1>5, <4>1 DEF Tick
      <4> QED BY <4>1, <4>2 DEF Row
    <3> QED BY <3>1 DEF Claimable
  <2>2. UNCHANGED <<batch, attempts0, sends>> BY <1>5 DEF Tick, ghostVars
  <2>3. \A v \in Workers : task'[v].row = task[v].row /\ task'[v].pc = task[v].pc
    BY <1>0, <1>5 DEF Tick, TypeOK, Task
  <2>4. \A v \in Workers : Held(v)' = Held(v) BY <2>2, <2>3 DEF Held
  <2> QED BY <2>1, <2>2, <2>3, <2>4, BudgetFrame
<1> QED BY <1>1, <1>2, <1>4, <1>5 DEF Next

\* No delivery is tried more than maxAttempts times, whatever mutes defer it,
\* workers crash or writes are lost: DeliveryQueue's SendsBounded for every
\* instance.
THEOREM BoundedSends == Spec => []SendsBounded
<1>1. Init => Budget BY InitBudget
<1>2. IInv /\ Budget /\ [Next]_vars => Budget' BY NextBudget
<1>3. Budget => SendsBounded BY DEF Budget
<1> QED BY <1>1, <1>2, <1>3, Invariance, PTL DEF Spec
-----------------------------------------------------------------------------
(* What a follow-up says.                                                    *)

\* A follow-up that will say the monitor is back up, or has said it, is about an
\* incident that is over and that no plan change closed.
IsOver(r) == incident[r] \notin {"open", "plan_paused"}

Honest ==
  /\ FollowUpHonest
  /\ \A w \in Workers : task[w].text = "recovered" => task[w].row \in Rows /\ IsOver(task[w].row)

LEMMA InitHonest == Init => Honest
BY DEF Init, Honest, FollowUpHonest, NoTask

\* A step that tells nobody anything, and whose workers keep their text or drop it.
LEMMA HonestFrame ==
  ASSUME Honest, UNCHANGED said,
         \A r \in Rows : IsOver(r) => IsOver(r)',
         \A w \in Workers : task'[w].text = "recovered" => task[w].text = "recovered" /\ task'[w].row = task[w].row
  PROVE  Honest'
<1>1. FollowUpHonest' BY DEF Honest, FollowUpHonest, IsOver
<1> QED BY <1>1 DEF Honest

\* A worker that drops its item, or takes up another, has composed nothing.
LEMMA NoTaskSaysNothing ==
  ASSUME TypeOK, NEW w \in Workers, NEW t, t.text = "alert", task' = [task EXCEPT ![w] = t]
  PROVE  \A v \in Workers : task'[v].text = "recovered" => task[v].text = "recovered" /\ task'[v].row = task[v].row
<1>1. \A v \in Workers : task'[v] = IF v = w THEN t ELSE task[v] BY DEF TypeOK
<1> QED BY <1>1

LEMMA NextHonest == IInv /\ Honest /\ [Next]_vars => Honest'
<1> SUFFICES ASSUME IInv, Honest, [Next]_vars PROVE Honest'
  OBVIOUS
<1>0. TypeOK BY DEF IInv
<1>5. NoTask.text = "alert" BY DEF NoTask
<1>1. CASE UNCHANGED vars
  BY <1>1, HonestFrame DEF vars, IsOver
<1>2. ASSUME NEW w \in Workers, WorkerStep(w) PROVE Honest'
  <2>0. \A r \in Rows : IsOver(r)' <=> IsOver(r)
    <3>1. Lease(w) \/ ReadChannel(w) \/ ReadChannelFails(w) \/ Route(w) => UNCHANGED incident
      BY Zenon DEF Lease, ReadChannel, ReadChannelFails, Route
    <3>2. DropFrozen(w) \/ DropUnroutable(w) \/ DropFollowUp(w) \/ Defer(w) => UNCHANGED incident
      BY DEF DropFrozen, DropUnroutable, DropFollowUp, Defer
    <3>3. Compose(w) \/ (\E answer \in Answer : Send(w, answer)) => UNCHANGED incident
      BY DEF Compose, Send
    <3>4. SettleOK(w) \/ SettleFatal(w) \/ SettleRetriable(w) => UNCHANGED incident
      BY DEF SettleOK, SettleFatal, SettleRetriable
    <3>5. UNCHANGED incident
      BY <1>2, <3>1, <3>2, <3>3, <3>4 DEF WorkerStep
    <3> QED BY <3>5 DEF IsOver
  <2>1. CASE Lease(w)
    BY <2>0, <2>1, HonestFrame DEF Lease, ghostVars
  <2>2. CASE ReadChannel(w)
    <3>1. PICK r \in batch[w] : task' = [task EXCEPT ![w] = [NoTask EXCEPT !.pc = "decide", !.row = r,
                                         !.frozen = frozen, !.muted = muted[queue[r].channel]]]
      BY <2>2 DEF ReadChannel
    <3> DEFINE t == [NoTask EXCEPT !.pc = "decide", !.row = r, !.frozen = frozen, !.muted = muted[queue[r].channel]]
    <3>3. t.text = "alert" BY DEF NoTask
    <3> HIDE DEF t
    <3>4. task' = [task EXCEPT ![w] = t] BY <3>1 DEF t
    <3>2. \A v \in Workers : task'[v].text = "recovered" => task[v].text = "recovered" /\ task'[v].row = task[v].row
      BY <1>0, <3>3, <3>4, NoTaskSaysNothing
    <3> QED BY <2>0, <2>2, <3>2, HonestFrame DEF ReadChannel, ghostVars
  <2>3. ASSUME UNCHANGED said, task' = [task EXCEPT ![w] = NoTask] PROVE Honest'
    <3>1. \A v \in Workers : task'[v].text = "recovered" => task[v].text = "recovered" /\ task'[v].row = task[v].row
      BY <1>0, <2>3, <1>5, NoTaskSaysNothing
    <3> QED BY <2>0, <2>3, <3>1, HonestFrame
  <2>4. CASE \/ ReadChannelFails(w) \/ DropFrozen(w) \/ DropUnroutable(w) \/ Defer(w) \/ DropFollowUp(w)
             \/ SettleOK(w) \/ SettleFatal(w) \/ SettleRetriable(w)
    BY <2>3, <2>4, Zenon DEF ReadChannelFails, DropFrozen, DropUnroutable, Defer, DropFollowUp, SettleOK, SettleFatal,
                      SettleRetriable, WriteRow, ghostVars
  <2>5. CASE Route(w)
    <3>1. \A v \in Workers : task'[v].text = task[v].text /\ task'[v].row = task[v].row
      BY <1>0, <2>5 DEF Route, TypeOK, Task
    <3> QED BY <2>0, <2>5, <3>1, HonestFrame, Zenon DEF Route, ghostVars
  <2>6. CASE Compose(w)
    <3>1. /\ task'[w].text = IF incident[task[w].row] = "open" THEN "still_down" ELSE "recovered"
          /\ task'[w].row = task[w].row
          /\ \A v \in Workers \ {w} : task'[v] = task[v]
      BY <1>0, <2>6 DEF Compose, TypeOK, Task
    <3>2. task[w].row \in Rows BY <2>6, TaskRowHeld DEF Compose
    <3>3. incident[task[w].row] # "open" => IsOver(task[w].row)
      BY <1>0, <2>6, <3>2 DEF Compose, IsOver, TypeOK, IncidentState
    <3>4. FollowUpHonest' BY <2>6 DEF Compose, Honest, FollowUpHonest, ghostVars
    <3> QED BY <2>0, <3>1, <3>2, <3>3, <3>4 DEF Honest
  <2>7. ASSUME NEW answer \in Answer, Send(w, answer) PROVE Honest'
    <3>1. \A v \in Workers : task'[v].text = task[v].text /\ task'[v].row = task[v].row
      BY <1>0, <2>7 DEF Send, TypeOK, Task
    <3>2. \A r \in Rows : said'[r] = "recovered" => said[r] = "recovered" \/ (r = task[w].row /\ task[w].text = "recovered")
      BY <1>0, <2>7 DEF Send, TypeOK
    <3>3. FollowUpHonest' BY <2>0, <3>2 DEF Honest, FollowUpHonest, IsOver
    <3> QED BY <2>0, <3>1, <3>3 DEF Honest
  <2> QED BY <1>2, <2>1, <2>2, <2>4, <2>5, <2>6, <2>7 DEF WorkerStep
<1>3. CASE Environment
  <2>1. ASSUME NEW r \in Rows, NEW reason \in IncidentState \ {"open"}, CloseIncident(r, reason) PROVE Honest'
    <3>1. \A k \in Rows : IsOver(k) => IsOver(k)'
      BY <1>0, <2>1 DEF CloseIncident, IsOver, TypeOK
    <3> QED BY <2>1, <3>1, HonestFrame DEF CloseIncident, workerVars, ghostVars
  <2>2. ASSUME NEW w \in Workers, Crash(w) PROVE Honest'
    <3>1. \A v \in Workers : task'[v].text = "recovered" => task[v].text = "recovered" /\ task'[v].row = task[v].row
      BY <1>0, <2>2, <1>5, NoTaskSaysNothing DEF Crash
    <3> QED BY <2>2, <3>1, HonestFrame DEF Crash, IsOver, ghostVars
  <2>3. ASSUME UNCHANGED <<incident, task, said>> PROVE Honest'
    BY <2>3, HonestFrame DEF IsOver
  <2> QED BY <1>3, <2>1, <2>2, <2>3 DEF Environment, Enqueue, ToggleFrozen, Mute, Unmute, workerVars, ghostVars
<1>4. CASE Tick
  <2>1. \A v \in Workers : task'[v].text = task[v].text /\ task'[v].row = task[v].row
    BY <1>0, <1>4 DEF Tick, TypeOK, Task
  <2> QED BY <1>4, <2>1, HonestFrame DEF Tick, IsOver, ghostVars
<1> QED BY <1>1, <1>2, <1>3, <1>4 DEF Next

\* A follow-up that said the monitor is back up spoke of an incident that is over
\* and that no plan change closed, however the close races the composition and the
\* send: DeliveryQueue's FollowUpHonest for every instance.
THEOREM HonestFollowUps == Spec => []FollowUpHonest
<1>1. Honest => FollowUpHonest BY DEF Honest
<1> QED BY <1>1, InitHonest, NextHonest, Invariance, PTL DEF Spec
=============================================================================
