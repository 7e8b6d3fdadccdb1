-------------------------------- MODULE Batcher --------------------------------
(***************************************************************************)
(* The in-memory batcher between ingest and Postgres, for one key            *)
(* (src/back/internal/ingest/batcher/batcher.go): request goroutines that    *)
(* Add, the one loop that Ticks, the shutdown that Closes, and the sink they *)
(* flush to (chLogSink, api/wire.go), whose pool the same shutdown closes    *)
(* (cmd/ucapi/main.go, platform/shutdown).  A method is split where it       *)
(* leaves the mutex.  Ingest puts the handler that calls Add before it, and    *)
(* has the specification.                                                     *)
(***************************************************************************)
EXTENDS Naturals, FiniteSets

CONSTANTS
  Rows,       \* rows, each added by a goroutine of its own
  BatchSize,  \* rows that make a batch reach BatchBytes
  MayStop,    \* whether the process may be told to stop
  MaxFaults   \* bound on failed inserts

ASSUME BatcherAssumption ==
  /\ IsFiniteSet(Rows)
  /\ BatchSize \in Nat \ {0} /\ MayStop \in BOOLEAN /\ MaxFaults \in Nat

VARIABLES
  batch,     \* every batch made, by number: its rows, its age and its flush floor
  made,      \* how many there are
  pending,   \* the batch in the map, 0 if there is none
  adder,     \* each row's goroutine
  ticker,    \* the loop of driveBatcher
  closer,    \* the shutdown task
  stopping,  \* the context of the process is cancelled
  pool,      \* the Postgres pool is open
  stored,    \* how often each row was inserted
  lost,      \* rows of a flush that failed
  collided,  \* ghost: a size flush replaced a batch that was not its own
  faults

vars == <<batch, made, pending, adder, ticker, closer, stopping, pool, stored,
          lost, collided, faults>>

NewBatch(pace) == [rows |-> {}, aged |-> FALSE, pace |-> pace]
Batch == [rows : SUBSET Rows, aged : BOOLEAN, pace : {"never", "recent", "past"}]
Goroutine(pcs, last) == [pc : pcs, seen : 0..last, rows : SUBSET Rows]
Idle == [pc |-> "idle", seen |-> 0, rows |-> {}]

TypeOK ==
  /\ made \in Nat
  /\ batch \in [1..made -> Batch]
  /\ pending \in 0..made
  /\ adder \in [Rows -> Goroutine({"new", "flush", "sink", "done"}, made)]
  /\ ticker \in Goroutine({"idle", "scanned", "sink"}, made)
  /\ closer \in Goroutine({"idle", "sink", "done"}, 0)
  /\ stopping \in BOOLEAN /\ pool \in BOOLEAN /\ collided \in BOOLEAN
  /\ stored \in [Rows -> Nat]
  /\ lost \in SUBSET Rows
  /\ faults \in 0..MaxFaults

Init ==
  /\ batch = [b \in {} |-> NewBatch("never")] /\ made = 0 /\ pending = 0
  /\ adder = [r \in Rows |-> [Idle EXCEPT !.pc = "new"]]
  /\ ticker = Idle /\ closer = Idle
  /\ stopping = FALSE /\ pool = TRUE
  /\ stored = [r \in Rows |-> 0]
  /\ lost = {}
  /\ collided = FALSE
  /\ faults = 0

\* Sink.Flush of rows on a context that is live or not.  A failed insert is
\* never tried again.
Flush(rows, live) ==
  \/ /\ pool /\ live
     /\ stored' = [r \in Rows |-> IF r \in rows THEN stored[r] + 1 ELSE stored[r]]
     /\ UNCHANGED <<lost, faults>>
  \/ /\ IF pool /\ live THEN faults < MaxFaults /\ faults' = faults + 1 ELSE UNCHANGED faults
     /\ lost' = lost \cup rows
     /\ UNCHANGED stored

Put(b, content) == [x \in DOMAIN batch \cup {b} |-> IF x = b THEN content ELSE batch[x]]

\* A fresh batch takes the place in the map, flushed just now.
Replace ==
  /\ made' = made + 1
  /\ pending' = made + 1
  /\ batch' = Put(made + 1, NewBatch("recent"))

-----------------------------------------------------------------------------
(* Add.                                                                      *)

\* Under the mutex: the row joins the pending batch, a new one if there is
\* none.  The batch that reached BatchBytes is remembered for flush.
Add(r) ==
  LET b == IF pending = 0 THEN made + 1 ELSE pending
      new == [(IF pending = 0 THEN NewBatch("never") ELSE batch[b]) EXCEPT !.rows = @ \cup {r}]
      full == Cardinality(new.rows) >= BatchSize
  IN
  /\ adder[r].pc = "new"
  /\ pending' = b
  /\ made' = IF pending = 0 THEN made + 1 ELSE made
  /\ batch' = Put(b, new)
  /\ adder' = [adder EXCEPT ![r] = [pc |-> IF full THEN "flush" ELSE "done",
                                    seen |-> IF full THEN b ELSE 0, rows |-> {}]]
  /\ UNCHANGED <<ticker, closer, stopping, pool, stored, lost, collided, faults>>

\* flush: whatever is in the map by now is replaced, and the rows of the
\* remembered batch are taken.
FlushTake(r) ==
  /\ adder[r].pc = "flush"
  /\ Replace
  /\ adder' = [adder EXCEPT ![r] = [pc |-> "sink", seen |-> 0, rows |-> batch[@.seen].rows]]
  /\ collided' = (collided \/ pending # adder[r].seen)
  /\ UNCHANGED <<ticker, closer, stopping, pool, stored, lost, faults>>

FlushSink(r) ==
  /\ adder[r].pc = "sink"
  /\ Flush(adder[r].rows, TRUE)
  /\ adder' = [adder EXCEPT ![r] = [Idle EXCEPT !.pc = "done"]]
  /\ UNCHANGED <<batch, made, pending, ticker, closer, stopping, pool, collided>>

-----------------------------------------------------------------------------
(* Tick.                                                                     *)

\* MUTANT of TickScan: the age is compared the wrong way round.
TickScan_Young ==
  /\ ticker.pc = "idle" /\ ~stopping
  /\ pending # 0 /\ batch[pending].rows # {}
  /\ ~batch[pending].aged /\ batch[pending].pace # "recent"
  /\ ticker' = [Idle EXCEPT !.pc = "scanned", !.seen = pending]
  /\ UNCHANGED <<batch, made, pending, adder, closer, stopping, pool, stored, lost, collided, faults>>

\* The snapshot: the key is eligible.
TickScan ==
  /\ ticker.pc = "idle" /\ ~stopping
  /\ pending # 0 /\ batch[pending].rows # {}
  /\ batch[pending].aged /\ batch[pending].pace # "recent"
  /\ ticker' = [Idle EXCEPT !.pc = "scanned", !.seen = pending]
  /\ UNCHANGED <<batch, made, pending, adder, closer, stopping, pool, stored, lost, collided, faults>>

\* The re-check, with the time of the snapshot: a batch put in the map since
\* was flushed later than that, unless it was never flushed.
StillEligible ==
  /\ pending # 0 /\ batch[pending].rows # {}
  /\ pending = ticker.seen \/ batch[pending].pace = "never"

\* MUTANT of TickSwap: the rows are taken, the batch stays in the map.
TickSwap_NoReplace ==
  /\ ticker.pc = "scanned"
  /\ ticker' = IF StillEligible THEN [Idle EXCEPT !.pc = "sink", !.rows = batch[pending].rows] ELSE Idle
  /\ UNCHANGED <<batch, made, pending, adder, closer, stopping, pool, stored, lost, collided, faults>>

\* Swap-and-flush: the batch is taken out and replaced.
TickSwap ==
  /\ ticker.pc = "scanned"
  /\ IF StillEligible
       THEN Replace /\ ticker' = [Idle EXCEPT !.pc = "sink", !.rows = batch[pending].rows]
       ELSE ticker' = Idle /\ UNCHANGED <<batch, made, pending>>
  /\ UNCHANGED <<adder, closer, stopping, pool, stored, lost, collided, faults>>

TickSink ==
  /\ ticker.pc = "sink"
  /\ Flush(ticker.rows, ~stopping)
  /\ ticker' = Idle
  /\ UNCHANGED <<batch, made, pending, adder, closer, stopping, pool, collided>>

\* Time: the pending rows reach BatchAge, or the key leaves MinInterval.
Age ==
  /\ pending # 0 /\ batch[pending].rows # {} /\ ~batch[pending].aged
  /\ batch' = [batch EXCEPT ![pending].aged = TRUE]
  /\ UNCHANGED <<made, pending, adder, ticker, closer, stopping, pool, stored, lost, collided, faults>>
Elapse ==
  /\ pending # 0 /\ batch[pending].pace = "recent"
  /\ batch' = [batch EXCEPT ![pending].pace = "past"]
  /\ UNCHANGED <<made, pending, adder, ticker, closer, stopping, pool, stored, lost, collided, faults>>

-----------------------------------------------------------------------------
(* Shutdown: the tasks run concurrently.                                     *)

Stop ==
  /\ MayStop /\ ~stopping
  /\ stopping' = TRUE
  /\ UNCHANGED <<batch, made, pending, adder, ticker, closer, pool, stored, lost, collided, faults>>

\* Close takes the map.
CloseTake ==
  /\ stopping /\ closer.pc = "idle"
  /\ closer' = [Idle EXCEPT !.pc = "sink", !.rows = IF pending = 0 THEN {} ELSE batch[pending].rows]
  /\ pending' = 0
  /\ UNCHANGED <<batch, made, adder, ticker, stopping, pool, stored, lost, collided, faults>>

CloseSink ==
  /\ closer.pc = "sink"
  /\ Flush(closer.rows, TRUE)
  /\ closer' = [Idle EXCEPT !.pc = "done"]
  /\ UNCHANGED <<batch, made, pending, adder, ticker, stopping, pool, collided>>

\* The task "pg-pool", once the analytics recorder has drained.
ClosePool ==
  /\ stopping /\ pool
  /\ pool' = FALSE
  /\ UNCHANGED <<batch, made, pending, adder, ticker, closer, stopping, stored, lost, collided, faults>>

\* What goes on behind Add.
Flushing ==
  \/ \E r \in Rows : FlushTake(r) \/ FlushSink(r)
  \/ TickScan \/ TickSwap \/ TickSink \/ Age \/ Elapse
  \/ Stop \/ CloseTake \/ CloseSink \/ ClosePool

\* driveBatcher ticks every 50 ms, time passes, a goroutine goes on.
Fairness ==
  /\ WF_vars(TickScan) /\ WF_vars(TickSwap) /\ WF_vars(TickSink)
  /\ WF_vars(Age) /\ WF_vars(Elapse)
  /\ \A r \in Rows : WF_vars(FlushTake(r) \/ FlushSink(r))

-----------------------------------------------------------------------------
(* Properties.                                                               *)

Added == {r \in Rows : adder[r].pc # "new"}

\* The flushes a row is in the hands of, and how often it is anywhere: waiting
\* in the map, in a flush, inserted, or lost with a failed insert.
Carried(r) ==
  Cardinality({a \in Rows : adder[a].pc = "sink" /\ r \in adder[a].rows})
    + Cardinality({k \in {"ticker", "closer"} : r \in (IF k = "ticker" THEN ticker ELSE closer).rows})
Waiting(r) == pending # 0 /\ r \in batch[pending].rows
Copies(r) ==
  Carried(r) + stored[r] + Cardinality({k \in {"map"} : Waiting(r)})
    + Cardinality({k \in {"lost"} : r \in lost})

\* Every row that was added is at exactly one place, so it is neither dropped
\* nor written twice, whatever Add, Tick, Close, a closing pool and failed
\* inserts do at the same time; except once a size flush has replaced a batch
\* that another flush had put into the map meanwhile (batcher.go, flush).
AccountedUnlessCollided ==
  ~collided => \A r \in Added : Copies(r) = 1

\* While the process is not told to stop, every added row is inserted in the end,
\* unless its insert failed or a size flush collided: no row waits behind the flush
\* floor, or behind batches that other goroutines flush, for ever (Tick, flush).
EveryRowFlushed ==
  ([]~stopping) => \A r \in Rows : (r \in Added) ~> (stored[r] > 0 \/ r \in lost \/ collided)

\* What the comments say, and the code does not do.

\* "a row added between the snapshot and the flush is never lost or
\* double-flushed" (Tick).
NeverLost == \A r \in Added : Copies(r) > 0
NeverDoubleFlushed == \A r \in Rows : stored[r] <= 1

\* "Close flushes every pending batch regardless of thresholds": every row it
\* took is inserted, unless that very insert failed by itself.
CloseFlushes ==
  [][closer.pc = "sink" /\ closer'.pc = "done" /\ faults' = faults =>
       \A r \in closer.rows : stored'[r] = stored[r] + 1]_vars
=================================================================================
