----------------------------- MODULE IngestProofs -----------------------------
(***************************************************************************)
(* What the ingest door and the batcher behind it promise of every row, for  *)
(* any number of requests, projects, bodies, failed claims and inserts,      *)
(* crashes and shutdowns: AddedOnce rests on what a claim records, and        *)
(* AccountedUnlessCollided on a count of the places a row is at.               *)
(***************************************************************************)
EXTENDS Ingest, FiniteSetTheorems, TLAPS

-----------------------------------------------------------------------------
(* Types.                                                                    *)

Steps == {"new", "replayed", "dropped", "add", "added", "cut"}
Asked(r) == [pc : Steps \ {"new"}, of : Sends[r], capped : BOOLEAN]
DoorOK ==
  /\ DOMAIN request = Rows
  /\ \A r \in Rows : request[r] = [pc |-> "new"] \/ request[r] \in Asked(r)

AdderPc == {"new", "flush", "sink", "done"}
TickerPc == {"idle", "scanned", "sink"}

\* What a goroutine remembers stays well typed while batches are made, and when it
\* moves on.
LEMMA GoroutineMono ==
  ASSUME NEW pcs, NEW n \in Nat, NEW m \in Nat, n <= m
  PROVE  Goroutine(pcs, n) \subseteq Goroutine(pcs, m)
<1>1. 0..n \subseteq 0..m
  OBVIOUS
<1> QED BY <1>1 DEF Goroutine

LEMMA GoroutineAt ==
  ASSUME NEW pcs, NEW pc \in pcs, NEW n \in Nat, NEW b \in 0..n
  PROVE  [Idle EXCEPT !.pc = pc, !.seen = b] \in Goroutine(pcs, n)
BY DEF Goroutine, Idle

LEMMA GoroutineHolds ==
  ASSUME NEW pcs, NEW pc \in pcs, NEW n \in Nat, NEW rows \in SUBSET Rows
  PROVE  [Idle EXCEPT !.pc = pc, !.rows = rows] \in Goroutine(pcs, n)
<1>1. 0 \in 0..n
  OBVIOUS
<1> QED BY <1>1 DEF Goroutine, Idle

LEMMA GoroutineNew ==
  ASSUME NEW pcs, NEW pc \in pcs, NEW n \in Nat
  PROVE  [Idle EXCEPT !.pc = pc] \in Goroutine(pcs, n)
BY DEF Goroutine, Idle

\* Put keeps the numbered batches a function: it writes one of them or the next.
LEMMA PutType ==
  ASSUME TypeOK, NEW b \in Nat, NEW content \in Batch, NEW n \in {made, made + 1}, b <= n, b > 0,
         n = made + 1 => b = n
  PROVE  Put(b, content) \in [1..n -> Batch]
<1>1. DOMAIN batch = 1..made /\ made \in Nat
  BY DEF TypeOK
<1>2. DOMAIN batch \cup {b} = 1..n
  BY <1>1
<1>3. \A x \in 1..n : x # b => x \in 1..made
  BY <1>1
<1> QED BY <1>2, <1>3 DEF Put, TypeOK

\* The start is well typed.
LEMMA InitType == Init => TypeOK
<1> SUFFICES ASSUME Init PROVE TypeOK
  OBVIOUS
<1>1. batch \in [1..made -> Batch]
  <2>1. made = 0 /\ batch = [b \in {} |-> NewBatch("never")]
    BY DEF Init
  <2>2. 1..made = {}
    BY <2>1
  <2>3. [b \in {} |-> NewBatch("never")] \in [{} -> Batch]
    OBVIOUS
  <2> QED BY <2>1, <2>2, <2>3
<1>2. made = 0 /\ made \in Nat /\ pending \in 0..made /\ 0 \in 0..MaxFaults
  BY BatcherAssumption DEF Init
<1>3. [Idle EXCEPT !.pc = "new"] \in Goroutine(AdderPc, made)
  BY <1>2, GoroutineNew DEF AdderPc
<1>4. Idle \in Goroutine(TickerPc, made) /\ Idle \in Goroutine({"idle", "sink", "done"}, 0)
  BY <1>2 DEF Idle, Goroutine, TickerPc
<1> QED BY <1>1, <1>2, <1>3, <1>4 DEF Init, TypeOK, AdderPc, TickerPc

\* A flush hands every row to the table or to the lost ones.
LEMMA FlushType ==
  ASSUME TypeOK, NEW rows \in SUBSET Rows, NEW live \in BOOLEAN, Flush(rows, live)
  PROVE  stored' \in [Rows -> Nat] /\ lost' \in SUBSET Rows /\ faults' \in 0..MaxFaults
<1>1. faults' \in 0..MaxFaults
  BY BatcherAssumption DEF TypeOK, Flush
<1>2. stored' \in [Rows -> Nat]
  BY DEF TypeOK, Flush
<1>3. lost' \in SUBSET Rows
  BY DEF TypeOK, Flush
<1> QED BY <1>1, <1>2, <1>3

\* Numbers only go up, and the goroutines' memories with them.
LEMMA Later ==
  ASSUME TypeOK, made' \in Nat, made <= made'
  PROVE  /\ adder \in [Rows -> Goroutine(AdderPc, made')]
         /\ ticker \in Goroutine(TickerPc, made')
<1>1. \A pcs : Goroutine(pcs, made) \subseteq Goroutine(pcs, made')
  BY GoroutineMono DEF TypeOK
<1>2. adder \in [Rows -> Goroutine(AdderPc, made)] /\ ticker \in Goroutine(TickerPc, made)
  BY DEF TypeOK, AdderPc, TickerPc
<1> QED BY <1>1, <1>2

\* A batch to be flushed is one that was made.
Remembers == \A r \in Rows : adder[r].pc = "flush" => adder[r].seen # 0

\* A row joins a well-typed batch.
LEMMA AddType ==
  ASSUME TypeOK, NEW r \in Rows, Add(r)
  PROVE  TypeOK' /\ (Remembers => Remembers')
<1> DEFINE b == IF pending = 0 THEN made + 1 ELSE pending
           old == IF pending = 0 THEN NewBatch("never") ELSE batch[b]
           new == [old EXCEPT !.rows = @ \cup {r}]
           full == Cardinality(new.rows) >= BatchSize
           a == [pc |-> IF full THEN "flush" ELSE "done", seen |-> IF full THEN b ELSE 0, rows |-> {}]
<1>1. made' \in {made, made + 1} /\ b \in Nat /\ 0 < b /\ b <= made' /\ (made' = made + 1 => b = made')
  BY DEF TypeOK, Add
<1>2. made' \in Nat /\ made <= made'
  BY <1>1 DEF TypeOK
<1>3. batch' = Put(b, new) /\ adder' = [adder EXCEPT ![r] = a] /\ pending' = b
  BY DEF Add
<1>4. new \in Batch
  <2>1. NewBatch("never") \in Batch
    BY DEF NewBatch, Batch
  <2>2. pending # 0 => b \in 1..made
    BY DEF TypeOK
  <2>3. old \in Batch
    BY <2>1, <2>2 DEF TypeOK
  <2> HIDE DEF old
  <2> QED BY <2>3 DEF Batch
<1>5. a \in Goroutine(AdderPc, made')
  <2>1. (IF full THEN "flush" ELSE "done") \in AdderPc
    BY DEF AdderPc
  <2>2. (IF full THEN b ELSE 0) \in 0..made'
    <3> HIDE DEF full, b
    <3> QED BY <1>1, <1>2
  <2> HIDE DEF full, b
  <2> QED BY <1>2, <2>1, <2>2 DEF Goroutine
<1>9. a.pc = "flush" => a.seen # 0
  <2> HIDE DEF full, b
  <2> QED BY <1>1
<1> HIDE DEF b, new, a
<1>6. batch' \in [1..made' -> Batch]
  BY <1>1, <1>3, <1>4, PutType
<1>7. adder' \in [Rows -> Goroutine(AdderPc, made')] /\ ticker \in Goroutine(TickerPc, made')
  BY <1>2, <1>3, <1>5, Later
<1>8. pending' \in 0..made' /\ UNCHANGED <<ticker, closer, stopping, pool, stored, lost, collided, faults>>
  BY <1>1, <1>2, <1>3 DEF Add
<1>10. Remembers => Remembers'
  BY <1>3, <1>9 DEF Remembers, TypeOK
<1> QED BY <1>2, <1>6, <1>7, <1>8, <1>10 DEF TypeOK, AdderPc, TickerPc

\* A fresh batch in the map is well typed.
LEMMA ReplaceType ==
  ASSUME TypeOK, Replace
  PROVE  /\ made' \in Nat /\ made <= made' /\ pending' \in 0..made'
         /\ batch' \in [1..made' -> Batch]
<1>1. made \in Nat /\ NewBatch("recent") \in Batch
  BY DEF TypeOK, NewBatch, Batch
<1>2. Put(made + 1, NewBatch("recent")) \in [1..(made + 1) -> Batch]
  <2>1. made + 1 \in Nat /\ made + 1 > 0 /\ made + 1 <= made + 1
    BY <1>1
  <2> QED BY <1>1, <2>1, PutType
<1> QED BY <1>1, <1>2 DEF Replace

\* Every step behind the door keeps the types.
LEMMA FlushingType ==
  ASSUME TypeOK, Remembers, Flushing
  PROVE  TypeOK' /\ Remembers'
<1> USE DEF AdderPc, TickerPc
<1> DEFINE Rest(n) == /\ adder' \in [Rows -> Goroutine(AdderPc, n)]
                      /\ ticker' \in Goroutine(TickerPc, n)
<1>1. ASSUME NEW r \in Rows, FlushTake(r) PROVE TypeOK' /\ Remembers'
  <2>1. /\ made' \in Nat /\ made <= made' /\ pending' \in 0..made'
        /\ batch' \in [1..made' -> Batch]
    BY <1>1, ReplaceType DEF FlushTake
  <2>2. adder[r].seen \in 1..made
    BY <1>1 DEF FlushTake, Remembers, TypeOK, Goroutine
  <2>3. batch[adder[r].seen].rows \in SUBSET Rows
    BY <2>2 DEF TypeOK, Batch
  <2> DEFINE a == [pc |-> "sink", seen |-> 0, rows |-> batch[adder[r].seen].rows]
  <2>4. adder' = [adder EXCEPT ![r] = a]
    BY <1>1 DEF FlushTake
  <2>5. a \in Goroutine(AdderPc, made')
    BY <2>1, <2>3 DEF Goroutine
  <2>6. a.pc = "sink"
    OBVIOUS
  <2> HIDE DEF a
  <2>7. Rest(made')
    BY <1>1, <2>1, <2>4, <2>5, Later DEF FlushTake
  <2>8. Remembers'
    BY <2>4, <2>6 DEF Remembers, TypeOK
  <2>9. UNCHANGED <<closer, stopping, pool, stored, lost, faults>> /\ collided' \in BOOLEAN
    BY <1>1 DEF FlushTake, TypeOK
  <2> QED BY <2>1, <2>7, <2>8, <2>9 DEF TypeOK
<1>2. ASSUME NEW r \in Rows, FlushSink(r) PROVE TypeOK' /\ Remembers'
  <2>1. stored' \in [Rows -> Nat] /\ lost' \in SUBSET Rows /\ faults' \in 0..MaxFaults
    <3>1. adder[r].rows \in SUBSET Rows
      BY DEF TypeOK, Goroutine
    <3> QED BY <1>2, <3>1, FlushType DEF FlushSink
  <2> DEFINE a == [Idle EXCEPT !.pc = "done"]
  <2>2. a \in Goroutine(AdderPc, made) /\ a.pc = "done"
    BY GoroutineNew DEF TypeOK, Idle
  <2>3. adder' = [adder EXCEPT ![r] = a]
    BY <1>2 DEF FlushSink
  <2> HIDE DEF a
  <2>4. adder' \in [Rows -> Goroutine(AdderPc, made)]
    BY <2>2, <2>3 DEF TypeOK
  <2>5. /\ UNCHANGED <<batch, made, pending, ticker, closer, stopping, pool, collided>>
    BY <1>2 DEF FlushSink
  <2>6. TypeOK'
    BY <2>1, <2>4, <2>5 DEF TypeOK
  <2>7. Remembers'
    BY <2>2, <2>3, <2>5 DEF TypeOK, Remembers
  <2> QED BY <2>6, <2>7
<1>3. CASE TickScan
  <2>1. ticker' \in Goroutine(TickerPc, made)
    BY <1>3, GoroutineAt DEF TickScan, TypeOK
  <2> QED BY <1>3, <2>1 DEF TickScan, TypeOK, Remembers
<1>4. CASE TickSwap
  <2>1. CASE StillEligible
    <3>1. /\ made' \in Nat /\ made <= made' /\ pending' \in 0..made'
          /\ batch' \in [1..made' -> Batch]
      BY <1>4, <2>1, ReplaceType DEF TickSwap
    <3>2. batch[pending].rows \in SUBSET Rows
      BY <2>1 DEF StillEligible, TypeOK, Batch
    <3>3. ticker' = [Idle EXCEPT !.pc = "sink", !.rows = batch[pending].rows]
      BY <1>4, <2>1 DEF TickSwap
    <3>5. ticker' \in Goroutine(TickerPc, made')
      BY <3>1, <3>2, <3>3, GoroutineHolds
    <3>4. Rest(made')
      BY <1>4, <3>1, <3>5, Later DEF TickSwap
    <3> QED BY <1>4, <3>1, <3>4 DEF TickSwap, TypeOK, Remembers
  <2>2. CASE ~StillEligible
    <3>1. ticker' \in Goroutine(TickerPc, made)
      BY <1>4, <2>2 DEF TickSwap, TypeOK, Idle, Goroutine
    <3> QED BY <1>4, <2>2, <3>1 DEF TickSwap, TypeOK, Remembers
  <2> QED BY <2>1, <2>2
<1>5. CASE TickSink
  <2>1. stored' \in [Rows -> Nat] /\ lost' \in SUBSET Rows /\ faults' \in 0..MaxFaults
    <3>1. ticker.rows \in SUBSET Rows
      BY DEF TypeOK, Goroutine
    <3>2. PICK live \in BOOLEAN : Flush(ticker.rows, live)
      BY <1>5 DEF TickSink
    <3> QED BY <3>1, <3>2, FlushType
  <2>2. ticker' \in Goroutine(TickerPc, made)
    BY <1>5 DEF TickSink, TypeOK, Idle, Goroutine
  <2> QED BY <1>5, <2>1, <2>2 DEF TickSink, TypeOK, Remembers
<1>6. CASE Age \/ Elapse
  <2>1. pending \in 1..made
    BY <1>6 DEF Age, Elapse, TypeOK
  <2>2. \A c \in Batch : [c EXCEPT !.aged = TRUE] \in Batch /\ [c EXCEPT !.pace = "past"] \in Batch
    BY DEF Batch
  <2>3. CASE Age
    <3>1. batch' = [batch EXCEPT ![pending] = [@ EXCEPT !.aged = TRUE]]
      BY <2>3 DEF Age
    <3>2. batch' \in [1..made -> Batch]
      BY <2>1, <2>2, <3>1 DEF TypeOK
    <3> QED BY <2>3, <3>2 DEF Age, TypeOK, Remembers
  <2>4. CASE Elapse
    <3>1. batch' = [batch EXCEPT ![pending] = [@ EXCEPT !.pace = "past"]]
      BY <2>4 DEF Elapse
    <3>2. batch' \in [1..made -> Batch]
      BY <2>1, <2>2, <3>1 DEF TypeOK
    <3> QED BY <2>4, <3>2 DEF Elapse, TypeOK, Remembers
  <2> QED BY <1>6, <2>3, <2>4
<1>7. CASE Stop \/ ClosePool
  BY <1>7 DEF Stop, ClosePool, TypeOK, Remembers
<1>8. CASE CloseTake
  <2>1. (IF pending = 0 THEN {} ELSE batch[pending].rows) \in SUBSET Rows
    <3>1. pending # 0 => batch[pending] \in Batch
      BY DEF TypeOK
    <3> QED BY <3>1 DEF Batch
  <2>2. closer' \in Goroutine({"idle", "sink", "done"}, 0)
    BY <1>8, <2>1, GoroutineHolds DEF CloseTake
  <2> QED BY <1>8, <2>2 DEF CloseTake, TypeOK, Remembers
<1>9. CASE CloseSink
  <2>1. stored' \in [Rows -> Nat] /\ lost' \in SUBSET Rows /\ faults' \in 0..MaxFaults
    <3>1. closer.rows \in SUBSET Rows
      BY DEF TypeOK, Goroutine
    <3> QED BY <1>9, <3>1, FlushType DEF CloseSink
  <2>2. closer' \in Goroutine({"idle", "sink", "done"}, 0)
    BY <1>9, GoroutineNew DEF CloseSink
  <2> QED BY <1>9, <2>1, <2>2 DEF CloseSink, TypeOK, Remembers
<1> QED BY <1>1, <1>2, <1>3, <1>4, <1>5, <1>6, <1>7, <1>8, <1>9 DEF Flushing
\* So does a process that dies.
LEMMA CrashType ==
  ASSUME TypeOK, Remembers, Crash
  PROVE  TypeOK' /\ Remembers'
<1>1. [Idle EXCEPT !.pc = "done"] \in Goroutine(AdderPc, made)
  BY GoroutineNew DEF AdderPc, TypeOK
<1>2. Idle \in Goroutine(TickerPc, made) /\ Idle \in Goroutine({"idle", "sink", "done"}, 0)
  BY DEF Idle, Goroutine, TickerPc, TypeOK
<1>3. adder' \in [Rows -> Goroutine(AdderPc, made)]
  BY <1>1 DEF Crash, TypeOK, AdderPc
<1>4. faults' \in 0..MaxFaults /\ pending' \in 0..made
  BY BatcherAssumption DEF Crash, TypeOK
<1>5. Remembers'
  BY <1>3 DEF Crash, Remembers, Idle
<1>6. lost' \in SUBSET Rows /\ UNCHANGED <<batch, made, stored, collided>>
  BY DEF Crash, TypeOK
<1>7. ticker' = Idle /\ closer' = Idle /\ stopping' = FALSE /\ pool' = TRUE
  BY DEF Crash
<1> QED BY <1>2, <1>3, <1>4, <1>5, <1>6, <1>7 DEF TypeOK, AdderPc, TickerPc

\* Every reachable state of the door and of the batcher is well typed.
TypeInv == TypeOK /\ Remembers /\ DoorOK

\* Building a request writes its record once.
LEMMA BuildType ==
  ASSUME DoorOK, NEW r \in Rows, NEW m \in Sends[r], NEW pc \in {"replayed", "dropped", "add"},
         Build(r, m, pc)
  PROVE  /\ DoorOK'
         /\ request' = [request EXCEPT ![r] = [pc |-> pc, of |-> m, capped |-> ~Admits(m.project)]]
<1>1. [pc |-> pc, of |-> m, capped |-> ~Admits(m.project)] \in Asked(r)
  BY DEF Asked, Steps
<1>2. request' = [request EXCEPT ![r] = [pc |-> pc, of |-> m, capped |-> ~Admits(m.project)]]
  BY DEF Build
<1> QED BY <1>1, <1>2 DEF DoorOK

\* Moving a request on keeps what it carries.
LEMMA MovedOn ==
  ASSUME DoorOK, NEW r \in Rows, request[r].pc # "new", NEW pc \in Steps \ {"new"}
  PROVE  /\ [request[r] EXCEPT !.pc = pc] \in Asked(r)
         /\ [request[r] EXCEPT !.pc = pc].pc = pc
         /\ [request[r] EXCEPT !.pc = pc].of = request[r].of
<1>1. request[r] \in Asked(r)
  BY DEF DoorOK
<1> QED BY <1>1 DEF Asked

LEMMA NextType == TypeInv /\ [INext]_ivars => TypeInv'
<1> SUFFICES ASSUME TypeInv, [INext]_ivars PROVE TypeInv'
  OBVIOUS
<1> USE DEF TypeInv
<1>1. ASSUME NEW r \in Rows, NEW m \in Sends[r], NEW fill, Claim(r, m, fill) PROVE TypeInv'
  <2>1. TypeOK' /\ Remembers'
    BY <1>1 DEF Claim, vars, TypeOK, Remembers
  <2>2. PICK pc \in {"replayed", "dropped", "add"} : Build(r, m, pc)
    BY <1>1 DEF Claim, Accepted
  <2> QED BY <2>1, <2>2, BuildType
<1>2. ASSUME NEW r \in Rows, NEW m \in Sends[r], NEW fill, ClaimFails(r, m, fill) PROVE TypeInv'
  <2>1. faults' \in 0..MaxFaults
    BY <1>2, BatcherAssumption DEF ClaimFails, TypeOK
  <2>2. TypeOK' /\ Remembers'
    BY <1>2, <2>1 DEF ClaimFails, batcher, TypeOK, Remembers
  <2>3. PICK pc \in {"replayed", "dropped", "add"} : Build(r, m, pc)
    BY <1>2 DEF ClaimFails, Accepted
  <2> QED BY <2>2, <2>3, BuildType
<1>3. ASSUME NEW r \in Rows, AddRow(r) PROVE TypeInv'
  <2>1. TypeOK' /\ Remembers'
    BY <1>3, AddType DEF AddRow
  <2>2. [request[r] EXCEPT !.pc = "added"] \in Asked(r)
    BY <1>3, MovedOn DEF AddRow, Steps
  <2>3. request' = [request EXCEPT ![r] = [request[r] EXCEPT !.pc = "added"]]
    BY <1>3 DEF AddRow
  <2> QED BY <2>1, <2>2, <2>3 DEF DoorOK
<1>4. CASE Crash
  <2>1. \A r \in Rows : request[r].pc # "new" => [request[r] EXCEPT !.pc = "cut"] \in Asked(r)
    BY MovedOn DEF Steps
  <2>2. DoorOK'
    BY <1>4, <2>1 DEF Crash, DoorOK
  <2> QED BY <1>4, <2>2, CrashType
<1>5. CASE Within
  BY <1>5, FlushingType DEF Within, door, DoorOK
<1>6. CASE UNCHANGED ivars
  BY <1>6 DEF ivars, vars, door, TypeOK, Remembers, DoorOK
<1> QED BY <1>1, <1>2, <1>3, <1>4, <1>5, <1>6 DEF INext

\* Every reachable state of the door and the batcher is well typed: a batch has one
\* number for good, and every goroutine remembers one that was made.
THEOREM TypeCorrect == ISpec => []TypeInv
<1>1. IInit => TypeInv
  <2> SUFFICES ASSUME IInit PROVE TypeInv
    OBVIOUS
  <2>1. DoorOK
    BY DEF IInit, DoorOK
  <2>2. Remembers
    BY DEF IInit, Init, Remembers, Idle
  <2> QED BY <2>1, <2>2, InitType DEF IInit, TypeInv
<1> QED BY <1>1, NextType, PTL DEF ISpec

-----------------------------------------------------------------------------
(* A body enters once.                                                       *)

\* Requests whose rows are, or were to be, added.
Entered == {r \in Rows : request[r].pc \in {"add", "added", "cut"}}

\* Whatever entered had its body claimed, or its claim failed; two of the same body
\* did not both find it unclaimed.
ClaimsHold ==
  /\ Added \subseteq {r \in Rows : request[r].pc \in {"added", "cut"}}
  /\ \A r \in Entered : request[r].of.body \in claims \cup unsure
  /\ \A r, s \in Entered : r # s /\ request[r].of.body = request[s].of.body =>
       request[r].of.body \in unsure

\* A claim lets one request of a body in; a claim that failed is remembered.
LEMMA ClaimHolds ==
  ASSUME TypeInv, ClaimsHold, NEW r \in Rows, NEW m \in Sends[r], NEW pc \in {"replayed", "dropped", "add"},
         Build(r, m, pc), adder' = adder, claims \subseteq claims', unsure \subseteq unsure',
         pc = "add" => m.body \in unsure' \/ (m.body \notin claims /\ m.body \in claims')
  PROVE  ClaimsHold'
<1>1. request' = [request EXCEPT ![r] = [pc |-> pc, of |-> m, capped |-> ~Admits(m.project)]]
  BY BuildType DEF TypeInv
<1>2. DOMAIN request = Rows /\ request[r].pc = "new"
  BY DEF TypeInv, DoorOK, Build
<1>3. request'[r].pc = pc /\ request'[r].of = m /\ \A s \in Rows \ {r} : request'[s] = request[s]
  BY <1>1, <1>2
<1>4. r \notin Entered /\ r \notin Added
  BY <1>2 DEF Entered, ClaimsHold
<1>5. Entered' = IF pc = "add" THEN Entered \cup {r} ELSE Entered
  BY <1>3, <1>4 DEF Entered
<1>6. Added' = Added
  BY DEF Added
<1>7. (Added \subseteq {s \in Rows : request[s].pc \in {"added", "cut"}})'
  BY <1>3, <1>4, <1>6 DEF ClaimsHold
<1>8. \A s \in Entered : s # r /\ s \in Rows /\ request'[s].of = request[s].of
  BY <1>3, <1>4 DEF Entered
<1>9. \A s \in Entered' : request'[s].of.body \in claims' \cup unsure'
  BY <1>3, <1>5, <1>8 DEF ClaimsHold
<1>10. \A s, t \in Entered' : s # t /\ request'[s].of.body = request'[t].of.body =>
         request'[s].of.body \in unsure'
  BY <1>3, <1>5, <1>8 DEF ClaimsHold
<1> QED BY <1>7, <1>9, <1>10 DEF ClaimsHold

\* A step that moves requests on without letting another body in.
LEMMA MovesHold ==
  ASSUME ClaimsHold, claims' = claims, unsure' = unsure, Entered' = Entered,
         \A r \in Entered : request'[r].of = request[r].of,
         Added' \subseteq {r \in Rows : request'[r].pc \in {"added", "cut"}}
  PROVE  ClaimsHold'
BY DEF ClaimsHold

LEMMA NextClaims == TypeInv /\ ClaimsHold /\ [INext]_ivars => ClaimsHold'
<1> SUFFICES ASSUME TypeInv, ClaimsHold, [INext]_ivars PROVE ClaimsHold'
  OBVIOUS
<1>1. ASSUME NEW r \in Rows, NEW m \in Sends[r], NEW fill, Claim(r, m, fill) PROVE ClaimsHold'
  <2> DEFINE pc == IF Claimed(m.body) THEN "replayed" ELSE Accepted(m, fill)
  <2>1. pc \in {"replayed", "dropped", "add"} /\ (pc = "add" => m.body \notin claims)
    BY DEF Accepted, Claimed
  <2>2. Build(r, m, pc) /\ claims' = claims \cup {m.body} /\ unsure' = unsure /\ adder' = adder
    BY <1>1 DEF Claim, vars
  <2> HIDE DEF pc
  <2> QED BY <2>1, <2>2, ClaimHolds
<1>2. ASSUME NEW r \in Rows, NEW m \in Sends[r], NEW fill, ClaimFails(r, m, fill) PROVE ClaimsHold'
  <2>1. Accepted(m, fill) \in {"replayed", "dropped", "add"}
    BY DEF Accepted
  <2>2. /\ Build(r, m, Accepted(m, fill)) /\ claims \subseteq claims'
        /\ unsure' = unsure \cup {m.body} /\ adder' = adder
    BY <1>2 DEF ClaimFails, batcher
  <2> QED BY <2>1, <2>2, ClaimHolds
<1>3. ASSUME NEW r \in Rows, AddRow(r) PROVE ClaimsHold'
  <2>1. request[r].pc = "add" /\ request' = [request EXCEPT ![r] = [request[r] EXCEPT !.pc = "added"]]
    BY <1>3 DEF AddRow
  <2>2. [request[r] EXCEPT !.pc = "added"].pc = "added" /\ [request[r] EXCEPT !.pc = "added"].of = request[r].of
    BY <2>1, MovedOn DEF TypeInv, Steps
  <2>3. /\ request'[r].pc = "added" /\ request'[r].of = request[r].of
        /\ \A s \in Rows \ {r} : request'[s] = request[s]
    BY <2>1, <2>2 DEF TypeInv, DoorOK
  <2>4. Entered' = Entered /\ \A s \in Entered : request'[s].of = request[s].of
    BY <2>1, <2>3 DEF Entered
  <2>5. Added' \subseteq Added \cup {r}
    BY <1>3 DEF AddRow, Add, Added, TypeInv, TypeOK
  <2>6. Added' \subseteq {s \in Rows : request'[s].pc \in {"added", "cut"}}
    BY <2>3, <2>5 DEF ClaimsHold
  <2> QED BY <1>3, <2>4, <2>6, MovesHold DEF AddRow
<1>4. CASE Crash
  <2>1. \A r \in Rows : request[r].pc # "new" =>
          [request[r] EXCEPT !.pc = "cut"].pc = "cut" /\ [request[r] EXCEPT !.pc = "cut"].of = request[r].of
    BY MovedOn DEF TypeInv, Steps
  <2>2. \A r \in Rows : \/ request'[r] = request[r]
                        \/ request[r].pc \in {"add", "added"} /\ request'[r] = [request[r] EXCEPT !.pc = "cut"]
    BY <1>4 DEF Crash
  <2>3. Entered' = Entered /\ \A s \in Entered : request'[s].of = request[s].of
    <3>1. ASSUME NEW r \in Rows
          PROVE  /\ r \in Entered' <=> r \in Entered
                 /\ r \in Entered => request'[r].of = request[r].of
      <4>1. CASE request'[r] = request[r]
        BY <4>1 DEF Entered
      <4>2. CASE request[r].pc \in {"add", "added"} /\ request'[r] = [request[r] EXCEPT !.pc = "cut"]
        <5>1. request[r].pc # "new"
          BY <4>2
        <5>2. request'[r].pc = "cut" /\ request'[r].of = request[r].of
          BY <2>1, <4>2, <5>1
        <5> QED BY <4>2, <5>2 DEF Entered
      <4> QED BY <2>2, <4>1, <4>2
    <3>2. Entered' \subseteq Rows /\ Entered \subseteq Rows
      BY DEF Entered
    <3> QED BY <3>1, <3>2
  <2>4. Added' \subseteq Added
    BY <1>4 DEF Crash, Added
  <2>5. ASSUME NEW s \in Added' PROVE s \in Rows /\ request'[s].pc \in {"added", "cut"}
    <3>1. s \in Rows /\ request[s].pc \in {"added", "cut"} BY <2>4, <2>5 DEF ClaimsHold
    <3>2. CASE request'[s] = request[s]
      BY <3>1, <3>2
    <3>3. CASE request'[s] = [request[s] EXCEPT !.pc = "cut"]
      BY <2>1, <3>1, <3>3
    <3> QED BY <2>2, <3>1, <3>2, <3>3
  <2> QED BY <1>4, <2>3, <2>5, MovesHold DEF Crash
<1>5. CASE Within
  <2>1. Added' \subseteq Added
    BY <1>5 DEF Within, Flushing, FlushTake, FlushSink, TickScan, TickSwap, TickSink, Age, Elapse,
                Stop, CloseTake, CloseSink, ClosePool, Added, TypeInv, TypeOK
  <2> QED BY <1>5, <2>1, MovesHold DEF Within, door, Entered, ClaimsHold
<1>6. CASE UNCHANGED ivars
  BY <1>6 DEF ivars, vars, door, ClaimsHold, Entered, Added
<1> QED BY <1>1, <1>2, <1>3, <1>4, <1>5, <1>6 DEF INext

\* A project's body enters the batcher once, for any number of requests of it, crashes
\* and fills of the spool, unless a claim of that body failed (Handle).
THEOREM EntersOnce == ISpec => []AddedOnce
<1>1. IInit => ClaimsHold
  BY DEF IInit, Init, ClaimsHold, Entered, Added, Idle
<1>2. ClaimsHold => AddedOnce
  BY DEF ClaimsHold, AddedOnce, Entered, Added, SameSent
<1> QED BY <1>1, <1>2, NextClaims, TypeCorrect, PTL DEF ISpec
-----------------------------------------------------------------------------
(* Every row is at one place.                                                *)

One(p) == IF p THEN 1 ELSE 0
Sinks(r) == {a \in Rows : adder[a].pc = "sink" /\ r \in adder[a].rows}

\* How often a row is anywhere, one term per place.
Places(r) ==
  Cardinality(Sinks(r)) + (One(r \in ticker.rows) + One(r \in closer.rows))
    + stored[r] + One(Waiting(r)) + One(r \in lost)

\* A goroutine holds rows only while it is at its insert, and until a flush collides
\* a row is at one place from the moment it is added, and nowhere before.
Accounted ==
  /\ ticker.pc # "sink" => ticker.rows = {}
  /\ closer.pc # "sink" => closer.rows = {}
  /\ ~collided => \A r \in Rows : Places(r) = One(adder[r].pc # "new")

\* Carried counts the flushes.
LEMMA CarriedIs ==
  \A r \in Rows : Carried(r) = Cardinality(Sinks(r)) + (One(r \in ticker.rows) + One(r \in closer.rows))
<1> TAKE r \in Rows
<1> DEFINE T == {k \in {"ticker", "closer"} : r \in (IF k = "ticker" THEN ticker ELSE closer).rows}
<1>1. Cardinality(T) = One(r \in ticker.rows) + One(r \in closer.rows)
  <2>1. T = (IF r \in ticker.rows THEN {"ticker"} ELSE {}) \cup (IF r \in closer.rows THEN {"closer"} ELSE {})
    OBVIOUS
  <2>2. Cardinality({"ticker"}) = 1 /\ IsFiniteSet({"ticker"}) /\ Cardinality({"closer"}) = 1
    BY FS_Singleton
  <2>3. Cardinality({"ticker"} \cup {"closer"}) = 2
    <3>1. "closer" \notin {"ticker"}
      OBVIOUS
    <3> QED BY <2>2, <3>1, FS_AddElement
  <2> HIDE DEF T
  <2>4. CASE r \in ticker.rows /\ r \in closer.rows
    BY <2>1, <2>3, <2>4 DEF One
  <2>5. CASE r \in ticker.rows /\ r \notin closer.rows
    <3>1. T = {"ticker"}
      BY <2>1, <2>5
    <3> QED BY <2>2, <2>5, <3>1 DEF One
  <2>6. CASE r \notin ticker.rows /\ r \in closer.rows
    <3>1. T = {"closer"}
      BY <2>1, <2>6
    <3> QED BY <2>2, <2>6, <3>1 DEF One
  <2>7. CASE r \notin ticker.rows /\ r \notin closer.rows
    <3>1. T = {}
      BY <2>1, <2>7
    <3> QED BY <2>7, <3>1, FS_EmptySet DEF One
  <2> QED BY <2>4, <2>5, <2>6, <2>7
<1>2. Carried(r) = Cardinality(Sinks(r)) + Cardinality(T)
  BY DEF Carried, Sinks
<1> HIDE DEF T
<1> QED BY <1>1, <1>2

\* Copies counts the same places.
LEMMA CopiesArePlaces == \A r \in Rows : Copies(r) = Places(r)
<1> TAKE r \in Rows
<1> DEFINE W == {k \in {"map"} : Waiting(r)}
           L == {k \in {"lost"} : r \in lost}
<1>1. Cardinality(W) = One(Waiting(r))
  <2>1. CASE Waiting(r)
    <3>1. W = {"map"}
      BY <2>1
    <3> QED BY <2>1, <3>1, FS_Singleton DEF One
  <2>2. CASE ~Waiting(r)
    <3>1. W = {}
      BY <2>2
    <3> QED BY <2>2, <3>1, FS_EmptySet DEF One
  <2> QED BY <2>1, <2>2
<1>2. Cardinality(L) = One(r \in lost)
  <2>1. CASE r \in lost
    <3>1. L = {"lost"}
      BY <2>1
    <3> QED BY <2>1, <3>1, FS_Singleton DEF One
  <2>2. CASE r \notin lost
    <3>1. L = {}
      BY <2>2
    <3> QED BY <2>2, <3>1, FS_EmptySet DEF One
  <2> QED BY <2>1, <2>2
<1>3. Copies(r) = Carried(r) + stored[r] + Cardinality(W) + Cardinality(L)
  BY DEF Copies
<1> HIDE DEF W, L
<1> QED BY <1>1, <1>2, <1>3, CarriedIs DEF Places

LEMMA OneValue == \A p \in BOOLEAN : One(p) \in {0, 1} /\ (One(p) = 1 <=> p)
BY DEF One

LEMMA PlaceTypes ==
  ASSUME TypeOK, NEW r \in Rows
  PROVE  IsFiniteSet(Sinks(r)) /\ Cardinality(Sinks(r)) \in Nat /\ stored[r] \in Nat
<1>1. Sinks(r) \in SUBSET Rows /\ IsFiniteSet(Rows)
  BY BatcherAssumption DEF Sinks
<1>2. IsFiniteSet(Sinks(r))
  BY <1>1, FS_Subset
<1> QED BY <1>2, FS_CardinalityType DEF TypeOK

\* A flush moves each of its rows to one place, and no other row.
LEMMA FlushPlaces ==
  ASSUME TypeOK, NEW rows, NEW live, Flush(rows, live), NEW r \in Rows
  PROVE  /\ r \notin rows => stored'[r] + One(r \in lost') = stored[r] + One(r \in lost)
         /\ r \in rows /\ r \notin lost =>
              stored'[r] + One(r \in lost') = stored[r] + One(r \in lost) + 1
<1>1. CASE UNCHANGED lost /\ stored' = [x \in Rows |-> IF x \in rows THEN stored[x] + 1 ELSE stored[x]]
  <2>1. stored'[r] = (IF r \in rows THEN stored[r] + 1 ELSE stored[r]) /\ lost' = lost
    BY <1>1
  <2>2. stored[r] \in Nat
    BY DEF TypeOK
  <2> QED BY <2>1, <2>2 DEF One
<1>2. CASE UNCHANGED stored /\ lost' = lost \cup rows
  <2>1. stored'[r] = stored[r] /\ stored[r] \in Nat /\ (r \in lost' <=> r \in lost \/ r \in rows)
    BY <1>2 DEF TypeOK
  <2> QED BY <2>1 DEF One
<1> QED BY <1>1, <1>2 DEF Flush

\* An insert at its end: the goroutine of row a lets go of the rows it flushed.
LEMMA SinkPlaces ==
  ASSUME TypeInv, Accounted, NEW a \in Rows, FlushSink(a)
  PROVE  Accounted'
<1>1. UNCHANGED <<batch, pending, ticker, closer, collided>> /\ Flush(adder[a].rows, TRUE) /\ adder[a].pc = "sink"
  BY DEF FlushSink
<1>2. adder' = [adder EXCEPT ![a] = [Idle EXCEPT !.pc = "done"]] /\ [Idle EXCEPT !.pc = "done"].pc = "done"
  BY DEF FlushSink, Idle
<1>3. \A b \in Rows \ {a} : adder'[b] = adder[b]
  BY <1>2 DEF TypeInv, TypeOK
<1>4. adder'[a].pc = "done"
  BY <1>2 DEF TypeInv, TypeOK
<1> SUFFICES ASSUME ~collided, NEW r \in Rows
             PROVE  Places(r)' = One(adder'[r].pc # "new")
  BY <1>1 DEF Accounted
<1>5. Places(r) = One(adder[r].pc # "new")
  BY DEF Accounted
<1>6. (adder'[r].pc # "new") <=> (adder[r].pc # "new")
  BY <1>1, <1>3, <1>4
<1>7. Sinks(r)' = Sinks(r) \ {a} /\ (a \in Sinks(r) <=> r \in adder[a].rows)
  BY <1>1, <1>3, <1>4 DEF Sinks
<1>8. Cardinality(Sinks(r)') = IF r \in adder[a].rows THEN Cardinality(Sinks(r)) - 1 ELSE Cardinality(Sinks(r))
  BY <1>7, PlaceTypes, FS_RemoveElement DEF TypeInv
<1>9. Cardinality(Sinks(r)) \in Nat /\ stored[r] \in Nat
  BY PlaceTypes DEF TypeInv
<1>10. Waiting(r)' = Waiting(r)
  BY <1>1 DEF Waiting
<1>11. r \in adder[a].rows => r \notin lost
  <2> SUFFICES ASSUME r \in adder[a].rows, r \in lost PROVE FALSE
    OBVIOUS
  <2>1. Cardinality(Sinks(r)) >= 1
    BY <1>7, <1>9, PlaceTypes, FS_EmptySet DEF TypeInv
  <2> QED BY <1>5, <1>9, <2>1 DEF Places, One
<1>12. /\ r \notin adder[a].rows => stored'[r] + One(r \in lost') = stored[r] + One(r \in lost)
       /\ r \in adder[a].rows => stored'[r] + One(r \in lost') = stored[r] + One(r \in lost) + 1
  BY <1>1, <1>11, FlushPlaces DEF TypeInv
<1>13. stored'[r] \in Nat
  BY <1>1, <1>9 DEF Flush
<1>14. Places(r)' = (Cardinality(Sinks(r)') + (One(r \in ticker.rows) + One(r \in closer.rows)))
                     + stored'[r] + One(Waiting(r)) + One(r \in lost')
  BY <1>1, <1>10 DEF Places
<1>15. Places(r)' = Places(r)
  <2>1. CASE r \in adder[a].rows
    BY <2>1, <1>8, <1>9, <1>12, <1>13, <1>14 DEF Places, One
  <2>2. CASE r \notin adder[a].rows
    BY <2>2, <1>8, <1>9, <1>12, <1>13, <1>14 DEF Places, One
  <2> QED BY <2>1, <2>2
<1> QED BY <1>5, <1>6, <1>15

LEMMA TickSinkPlaces ==
  ASSUME TypeInv, Accounted, TickSink
  PROVE  Accounted'
<1>1. /\ UNCHANGED <<batch, pending, adder, closer, collided>> /\ ticker'.rows = {}
      /\ \E live : Flush(ticker.rows, live)
  BY DEF TickSink, Idle
<1> SUFFICES ASSUME ~collided, NEW r \in Rows
             PROVE  Places(r)' = One(adder[r].pc # "new")
  BY <1>1 DEF Accounted
<1>2. Places(r) = One(adder[r].pc # "new")
  BY DEF Accounted
<1>3. Cardinality(Sinks(r)) \in Nat /\ stored[r] \in Nat
  BY PlaceTypes DEF TypeInv
<1>4. r \in ticker.rows => r \notin lost
  BY <1>2, <1>3 DEF Places, One
<1>5. /\ r \notin ticker.rows => stored'[r] + One(r \in lost') = stored[r] + One(r \in lost)
      /\ r \in ticker.rows => stored'[r] + One(r \in lost') = stored[r] + One(r \in lost) + 1
  BY <1>1, <1>4, FlushPlaces DEF TypeInv
<1>6. stored'[r] \in Nat
  BY <1>1, <1>3 DEF Flush
<1>7. Sinks(r)' = Sinks(r) /\ Waiting(r)' = Waiting(r)
  BY <1>1 DEF Sinks, Waiting
<1>8. Places(r)' = (Cardinality(Sinks(r)) + (0 + One(r \in closer.rows)))
                     + stored'[r] + One(Waiting(r)) + One(r \in lost')
  BY <1>1, <1>7 DEF Places, One
<1>9. CASE r \in ticker.rows
  BY <1>9, <1>2, <1>3, <1>5, <1>6, <1>8 DEF Places, One
<1>10. CASE r \notin ticker.rows
  BY <1>10, <1>2, <1>3, <1>5, <1>6, <1>8 DEF Places, One
<1> QED BY <1>9, <1>10

LEMMA CloseSinkPlaces ==
  ASSUME TypeInv, Accounted, CloseSink
  PROVE  Accounted'
<1>1. /\ UNCHANGED <<batch, pending, adder, ticker, collided>> /\ closer'.rows = {}
      /\ \E live : Flush(closer.rows, live)
  BY DEF CloseSink, Idle
<1> SUFFICES ASSUME ~collided, NEW r \in Rows
             PROVE  Places(r)' = One(adder[r].pc # "new")
  BY <1>1 DEF Accounted
<1>2. Places(r) = One(adder[r].pc # "new")
  BY DEF Accounted
<1>3. Cardinality(Sinks(r)) \in Nat /\ stored[r] \in Nat
  BY PlaceTypes DEF TypeInv
<1>4. r \in closer.rows => r \notin lost
  BY <1>2, <1>3 DEF Places, One
<1>5. /\ r \notin closer.rows => stored'[r] + One(r \in lost') = stored[r] + One(r \in lost)
      /\ r \in closer.rows => stored'[r] + One(r \in lost') = stored[r] + One(r \in lost) + 1
  BY <1>1, <1>4, FlushPlaces DEF TypeInv
<1>6. stored'[r] \in Nat
  BY <1>1, <1>3 DEF Flush
<1>7. Sinks(r)' = Sinks(r) /\ Waiting(r)' = Waiting(r)
  BY <1>1 DEF Sinks, Waiting
<1>8. Places(r)' = (Cardinality(Sinks(r)) + (One(r \in ticker.rows) + 0))
                     + stored'[r] + One(Waiting(r)) + One(r \in lost')
  BY <1>1, <1>7 DEF Places, One
<1>9. CASE r \in closer.rows
  BY <1>9, <1>2, <1>3, <1>5, <1>6, <1>8 DEF Places, One
<1>10. CASE r \notin closer.rows
  BY <1>10, <1>2, <1>3, <1>5, <1>6, <1>8 DEF Places, One
<1> QED BY <1>9, <1>10

\* A step that moves no row.
LEMMA SamePlaces ==
  ASSUME Accounted, UNCHANGED <<stored, lost, closer, collided>>,
         \A r \in Rows : /\ Sinks(r)' = Sinks(r) /\ Waiting(r)' = Waiting(r)
                         /\ (adder'[r].pc # "new") <=> (adder[r].pc # "new"),
         ticker'.rows = ticker.rows, ticker'.pc # "sink" => ticker'.rows = {}
  PROVE  Accounted'
<1> SUFFICES ASSUME ~collided, NEW r \in Rows
             PROVE  Places(r)' = One(adder'[r].pc # "new")
  BY DEF Accounted
<1>1. Places(r)' = Places(r)
  BY DEF Places
<1> QED BY <1>1 DEF Accounted

\* A row comes to wait in the map, and nothing else moves.
LEMMA AddPlaces ==
  ASSUME TypeInv, Accounted, NEW a \in Rows, Add(a)
  PROVE  Accounted'
<1> DEFINE b == IF pending = 0 THEN made + 1 ELSE pending
           old == IF pending = 0 THEN NewBatch("never") ELSE batch[b]
           new == [old EXCEPT !.rows = @ \cup {a}]
<1>1. /\ UNCHANGED <<ticker, closer, stored, lost, collided>> /\ adder[a].pc = "new"
      /\ pending' = b /\ batch' = Put(b, new)
  BY DEF Add
<1>2. b # 0
  BY DEF TypeInv, TypeOK
<1>3. new.rows = old.rows \cup {a}
  <2>1. pending # 0 => batch[pending] \in Batch
    BY DEF TypeInv, TypeOK
  <2>2. NewBatch("never") \in Batch
    BY DEF NewBatch, Batch
  <2>3. old \in Batch
    BY <2>1, <2>2
  <2> HIDE DEF old
  <2> QED BY <2>3 DEF Batch
<1>4. \A r \in Rows : r \in old.rows <=> Waiting(r)
  BY DEF Waiting, NewBatch
<1>5. batch'[pending'] = new
  BY <1>1 DEF Put
<1> HIDE DEF b, old, new
<1>6. \A r \in Rows : Waiting(r)' <=> Waiting(r) \/ r = a
  BY <1>1, <1>2, <1>3, <1>4, <1>5 DEF Waiting
<1>7. adder'[a].pc \in {"flush", "done"} /\ \A r \in Rows \ {a} : adder'[r] = adder[r]
  BY DEF Add, TypeInv, TypeOK
<1> SUFFICES ASSUME ~collided, NEW r \in Rows
             PROVE  Places(r)' = One(adder'[r].pc # "new")
  BY <1>1 DEF Accounted
<1>8. Places(r) = One(adder[r].pc # "new")
  BY DEF Accounted
<1>9. Cardinality(Sinks(r)) \in Nat /\ stored[r] \in Nat
  BY PlaceTypes DEF TypeInv
<1>10. Sinks(r)' = Sinks(r)
  BY <1>1, <1>7 DEF Sinks
<1>11. Places(r)' = (Cardinality(Sinks(r)) + (One(r \in ticker.rows) + One(r \in closer.rows)))
                     + stored[r] + One(Waiting(r)') + One(r \in lost)
  BY <1>1, <1>10 DEF Places, One
<1>12. CASE r = a
  <2>1. ~Waiting(r)
    BY <1>1, <1>8, <1>9, <1>12 DEF Places, One
  <2> QED BY <1>1, <1>6, <1>7, <1>8, <1>9, <1>11, <1>12, <2>1 DEF Places, One
<1>13. CASE r # a
  BY <1>6, <1>7, <1>8, <1>11, <1>13 DEF Places, One
<1> QED BY <1>12, <1>13

\* A fresh batch in the map: nothing waits.
LEMMA ReplaceEmpties ==
  ASSUME Replace
  PROVE  \A r : ~Waiting(r)'
BY DEF Replace, Put, Waiting, NewBatch

\* A size flush that does not collide takes what waits in the map.
LEMMA TakePlaces ==
  ASSUME TypeInv, Accounted, NEW a \in Rows, FlushTake(a)
  PROVE  Accounted'
<1>1. /\ UNCHANGED <<ticker, closer, stored, lost>> /\ adder[a].pc = "flush" /\ Replace
      /\ collided' = (collided \/ pending # adder[a].seen)
  BY DEF FlushTake
<1> DEFINE rows == batch[adder[a].seen].rows
<1>2. adder' = [adder EXCEPT ![a] = [pc |-> "sink", seen |-> 0, rows |-> rows]]
  BY DEF FlushTake
<1> HIDE DEF rows
<1>3. /\ adder'[a].pc = "sink" /\ adder'[a].rows = rows
      /\ \A r \in Rows \ {a} : adder'[r] = adder[r]
  BY <1>2 DEF TypeInv, TypeOK
<1> SUFFICES ASSUME ~collided', NEW r \in Rows
             PROVE  Places(r)' = One(adder'[r].pc # "new")
  BY <1>1 DEF Accounted
<1>4. Places(r) = One(adder[r].pc # "new") /\ ((adder'[r].pc # "new") <=> (adder[r].pc # "new"))
  BY <1>1, <1>3 DEF Accounted
<1>5. r \in rows <=> Waiting(r)
  BY <1>1 DEF rows, Waiting, TypeInv, Remembers
<1>6. ~Waiting(r)'
  BY <1>1, ReplaceEmpties
<1>7. Sinks(r)' = (IF Waiting(r) THEN Sinks(r) \cup {a} ELSE Sinks(r)) /\ a \notin Sinks(r)
  BY <1>1, <1>3, <1>5 DEF Sinks
<1>8. Cardinality(Sinks(r)') = Cardinality(Sinks(r)) + One(Waiting(r))
  <2>1. IsFiniteSet(Sinks(r)) /\ Cardinality(Sinks(r)) \in Nat
    BY PlaceTypes DEF TypeInv
  <2>2. CASE Waiting(r)
    BY <1>7, <2>1, <2>2, FS_AddElement DEF One
  <2>3. CASE ~Waiting(r)
    BY <1>7, <2>1, <2>3 DEF One
  <2> QED BY <2>2, <2>3
<1>9. Cardinality(Sinks(r)) \in Nat /\ stored[r] \in Nat
  BY PlaceTypes DEF TypeInv
<1>10. Places(r)' = (Cardinality(Sinks(r)') + (One(r \in ticker.rows) + One(r \in closer.rows)))
                      + stored[r] + 0 + One(r \in lost)
  BY <1>1, <1>6 DEF Places, One
<1>11. Places(r)' = Places(r)
  <2>1. CASE Waiting(r)
    BY <2>1, <1>8, <1>9, <1>10 DEF Places, One
  <2>2. CASE ~Waiting(r)
    BY <2>2, <1>8, <1>9, <1>10 DEF Places, One
  <2> QED BY <2>1, <2>2
<1> QED BY <1>4, <1>11

\* A tick takes what waits in the map.
LEMMA SwapPlaces ==
  ASSUME TypeInv, Accounted, TickSwap
  PROVE  Accounted'
<1>1. ticker.rows = {} /\ UNCHANGED <<adder, closer, stored, lost, collided>>
  BY DEF TickSwap, Accounted
<1>2. CASE ~StillEligible
  <2>1. ticker' = Idle /\ UNCHANGED <<batch, pending>>
    BY <1>2 DEF TickSwap
  <2>2. \A r \in Rows : Sinks(r)' = Sinks(r) /\ Waiting(r)' = Waiting(r)
    BY <1>1, <2>1 DEF Sinks, Waiting
  <2> QED BY <1>1, <2>1, <2>2, SamePlaces DEF Idle
<1>3. CASE StillEligible
  <2> DEFINE rows == batch[pending].rows
  <2>1. Replace /\ ticker' = [Idle EXCEPT !.pc = "sink", !.rows = rows]
    BY <1>3 DEF TickSwap
  <2>2. [Idle EXCEPT !.pc = "sink", !.rows = rows].pc = "sink" /\ [Idle EXCEPT !.pc = "sink", !.rows = rows].rows = rows
    BY DEF Idle
  <2> SUFFICES ASSUME ~collided, NEW r \in Rows
               PROVE  Places(r)' = One(adder[r].pc # "new")
    BY <1>1, <2>1, <2>2 DEF Accounted
  <2>3. Places(r) = One(adder[r].pc # "new")
    BY DEF Accounted
  <2>4. (r \in ticker'.rows <=> Waiting(r)) /\ ~Waiting(r)' /\ Sinks(r)' = Sinks(r)
    BY <1>1, <1>3, <2>1, <2>2, ReplaceEmpties DEF StillEligible, Waiting, Sinks
  <2>5. Cardinality(Sinks(r)) \in Nat /\ stored[r] \in Nat
    BY PlaceTypes DEF TypeInv
  <2>6. Places(r)' = (Cardinality(Sinks(r)) + (One(Waiting(r)) + One(r \in closer.rows)))
                       + stored[r] + 0 + One(r \in lost)
    BY <1>1, <2>4 DEF Places, One
  <2> QED BY <1>1, <2>3, <2>5, <2>6 DEF Places, One
<1> QED BY <1>2, <1>3

\* Close takes the map.
LEMMA CloseTakePlaces ==
  ASSUME TypeInv, Accounted, CloseTake
  PROVE  Accounted'
<1> DEFINE rows == IF pending = 0 THEN {} ELSE batch[pending].rows
<1>1. /\ closer.rows = {} /\ UNCHANGED <<adder, ticker, stored, lost, collided>>
      /\ closer' = [Idle EXCEPT !.pc = "sink", !.rows = rows] /\ pending' = 0
  BY DEF CloseTake, Accounted
<1>2. \A r : r \in rows <=> Waiting(r)
  BY DEF Waiting
<1> HIDE DEF rows
<1>3. closer'.pc = "sink" /\ closer'.rows = rows
  BY <1>1 DEF Idle
<1> SUFFICES ASSUME ~collided, NEW r \in Rows
             PROVE  Places(r)' = One(adder[r].pc # "new")
  BY <1>1, <1>3 DEF Accounted
<1>4. Places(r) = One(adder[r].pc # "new")
  BY DEF Accounted
<1>5. ~Waiting(r)' /\ Sinks(r)' = Sinks(r)
  BY <1>1 DEF Waiting, Sinks
<1>6. Cardinality(Sinks(r)) \in Nat /\ stored[r] \in Nat
  BY PlaceTypes DEF TypeInv
<1>7. Places(r)' = (Cardinality(Sinks(r)) + (One(r \in ticker.rows) + One(Waiting(r))))
                     + stored[r] + 0 + One(r \in lost)
  BY <1>1, <1>2, <1>3, <1>5 DEF Places, One
<1> QED BY <1>1, <1>4, <1>6, <1>7 DEF Places, One

\* A crash loses what waits and what is on its way into an insert.
LEMMA CrashPlaces ==
  ASSUME TypeInv, Accounted, Crash
  PROVE  Accounted'
<1>1. /\ UNCHANGED <<stored, collided>> /\ ticker' = Idle /\ closer' = Idle /\ pending' = 0
      /\ lost' = lost \cup {r \in Rows : Waiting(r) \/ Carried(r) > 0}
      /\ adder' = [r \in Rows |-> IF adder[r].pc = "new" THEN adder[r] ELSE [Idle EXCEPT !.pc = "done"]]
  BY DEF Crash
<1>2. \A r \in Rows : adder'[r].pc # "sink" /\ ((adder'[r].pc # "new") <=> (adder[r].pc # "new"))
  BY <1>1 DEF Idle
<1> SUFFICES ASSUME ~collided, NEW r \in Rows
             PROVE  Places(r)' = One(adder'[r].pc # "new")
  BY <1>1 DEF Accounted, Idle
<1>3. Places(r) = One(adder[r].pc # "new")
  BY DEF Accounted
<1>4. Cardinality(Sinks(r)) \in Nat /\ stored[r] \in Nat
  BY PlaceTypes DEF TypeInv
<1>5. Sinks(r)' = {} /\ ~Waiting(r)' /\ r \notin ticker'.rows /\ r \notin closer'.rows
  BY <1>1, <1>2 DEF Sinks, Waiting, Idle
<1>6. Cardinality(Sinks(r)') = 0
  BY <1>5, FS_EmptySet
<1>7. Carried(r) = Cardinality(Sinks(r)) + (One(r \in ticker.rows) + One(r \in closer.rows))
  BY CarriedIs
<1>8. r \in lost' <=> r \in lost \/ Waiting(r) \/ Carried(r) > 0
  BY <1>1
<1>9. Places(r)' = (0 + (0 + 0)) + stored[r] + 0 + One(r \in lost')
  BY <1>1, <1>5, <1>6 DEF Places, One
<1>10. Places(r)' = Places(r)
  <2>1. Places(r) \in {0, 1}
    BY <1>3 DEF One
  <2>2. Carried(r) \in Nat
    BY <1>4, <1>7 DEF One
  <2>3. Places(r) = Carried(r) + stored[r] + One(Waiting(r)) + One(r \in lost)
    BY <1>7 DEF Places
  <2>4. CASE Waiting(r)
    BY <2>4, <1>4, <1>8, <1>9, <2>1, <2>2, <2>3 DEF One
  <2>5. CASE ~Waiting(r) /\ r \in lost
    BY <2>5, <1>4, <1>8, <1>9, <2>1, <2>2, <2>3 DEF One
  <2>6. CASE ~Waiting(r) /\ r \notin lost
    BY <2>6, <1>4, <1>8, <1>9, <2>1, <2>2, <2>3 DEF One
  <2> QED BY <2>4, <2>5, <2>6
<1> QED BY <1>2, <1>3, <1>10

LEMMA NextAccounted == TypeInv /\ Accounted /\ [INext]_ivars => Accounted'
<1> SUFFICES ASSUME TypeInv, Accounted, [INext]_ivars PROVE Accounted'
  OBVIOUS
<1>1. CASE \/ UNCHANGED <<batch, pending, adder, ticker, closer, stored, lost, collided>>
           \/ Stop \/ ClosePool
  <2>1. UNCHANGED <<batch, pending, adder, ticker, closer, stored, lost, collided>>
    BY <1>1 DEF Stop, ClosePool
  <2> QED BY <2>1, SamePlaces DEF Sinks, Waiting, Accounted
<1>2. ASSUME NEW r \in Rows, AddRow(r) PROVE Accounted'
  BY <1>2, AddPlaces DEF AddRow
<1>3. CASE Crash
  BY <1>3, CrashPlaces
<1>4. ASSUME NEW r \in Rows, FlushTake(r) \/ FlushSink(r) PROVE Accounted'
  BY <1>4, TakePlaces, SinkPlaces
<1>5. CASE TickScan
  <2>1. UNCHANGED <<batch, pending, adder, closer, stored, lost, collided>> /\ ticker'.rows = {}
    BY <1>5 DEF TickScan, Idle
  <2>2. ticker.rows = {}
    BY <1>5 DEF TickScan, Accounted
  <2> QED BY <2>1, <2>2, SamePlaces DEF Sinks, Waiting
<1>6. CASE TickSwap \/ TickSink \/ CloseTake \/ CloseSink
  BY <1>6, SwapPlaces, TickSinkPlaces, CloseTakePlaces, CloseSinkPlaces
<1>7. CASE Age \/ Elapse
  <2>1. UNCHANGED <<pending, adder, ticker, closer, stored, lost, collided>>
    BY <1>7 DEF Age, Elapse
  <2>2. pending \in 1..made
    BY <1>7 DEF Age, Elapse, TypeInv, TypeOK
  <2>3. batch'[pending].rows = batch[pending].rows
    BY <1>7, <2>2 DEF Age, Elapse, TypeInv, TypeOK, Batch
  <2> QED BY <2>1, <2>3, SamePlaces DEF Sinks, Waiting, Accounted
<1> QED BY <1>1, <1>2, <1>3, <1>4, <1>5, <1>6, <1>7
        DEF INext, Claim, ClaimFails, batcher, Within, Flushing, ivars, vars

\* Every row that was added is at exactly one place, for any number of rows, goroutines,
\* ticks, failed inserts, shutdowns and crashes, until a size flush has collided.
THEOREM OnePlace == ISpec => []AccountedUnlessCollided
<1>1. IInit => Accounted
  <2> SUFFICES ASSUME IInit PROVE Accounted
    OBVIOUS
  <2>1. /\ ticker = Idle /\ closer = Idle /\ pending = 0 /\ lost = {}
        /\ \A r \in Rows : adder[r].pc = "new" /\ stored[r] = 0
    BY DEF IInit, Init, Idle
  <2>2. \A r \in Rows : Sinks(r) = {}
    BY <2>1 DEF Sinks
  <2>3. ASSUME NEW r \in Rows PROVE Places(r) = 0
    <3>1. Cardinality(Sinks(r)) = 0
      BY <2>2, FS_EmptySet
    <3> QED BY <2>1, <3>1 DEF Places, One, Idle, Waiting
  <2> QED BY <2>1, <2>3 DEF Accounted, One, Idle
<1>2. Accounted => AccountedUnlessCollided
  BY CopiesArePlaces DEF Accounted, AccountedUnlessCollided, Added, One
<1> QED BY <1>1, <1>2, NextAccounted, TypeCorrect, PTL DEF ISpec
=============================================================================
