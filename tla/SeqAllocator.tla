----------------------------- MODULE SeqAllocator -----------------------------
(***************************************************************************)
(* The sequence numbers of one project: the Allocator each ucapi instance    *)
(* keeps for it (src/back/internal/ring/seq/seq.go) and the counter row they *)
(* lease blocks from (LeaseSeqBlock, storage/pg/queries/ring.sql).  A slow   *)
(* Next is split where it leaves the mutex: exhausted, leased, installed.    *)
(***************************************************************************)
EXTENDS Integers, Sequences

CONSTANTS
  Instances,  \* allocators: one per running ucapi
  Callers,    \* goroutines that may be in Next at one time
  BlockSize,  \* values leased at once
  MaxNext     \* bound on the counter row

SeqAssumption == BlockSize \in Nat \ {0} /\ MaxNext \in Nat \ {0}

VARIABLES
  dbNext,  \* project_seq.next
  alloc,   \* each allocator's current block: next (inclusive), end (exclusive)
  caller,  \* each goroutine: where it is in Next, at whose allocator, its lease
  handed   \* every value returned, in the order of the returns

vars == <<dbNext, alloc, caller, handed>>

Empty == [next |-> 0, end |-> 0]
Block == [next : Nat, end : Nat]
Idle(i) == [pc |-> "idle", at |-> i, start |-> 0]
Caller == [pc : {"idle", "exhausted", "leased"}, at : Instances, start : Nat]

TypeOK ==
  /\ dbNext \in Nat
  /\ alloc \in [Instances -> Block]
  /\ caller \in [Callers -> Caller]
  /\ handed \in Seq(Nat)

Init ==
  /\ dbNext = 1
  /\ alloc = [i \in Instances |-> Empty]
  /\ caller \in [Callers -> {Idle(i) : i \in Instances}]
  /\ handed = <<>>

Left(i) == alloc[i].next < alloc[i].end

\* v := a.next; a.next++; return v, of a block with something left.
Serve(i) ==
  /\ handed' = Append(handed, alloc[i].next)
  /\ alloc' = [alloc EXCEPT ![i] = [next |-> @.next + 1, end |-> @.end]]

\* The fast path, under the mutex.
Fast(c) ==
  LET i == caller[c].at IN
  /\ caller[c].pc = "idle"
  /\ Left(i)
  /\ Serve(i)
  /\ UNCHANGED <<dbNext, caller>>

\* The block is used up: the mutex is released.
Exhausted(c) ==
  /\ caller[c].pc = "idle"
  /\ ~Left(caller[c].at)
  /\ caller' = [caller EXCEPT ![c] = [pc |-> "exhausted", at |-> @.at, start |-> 0]]
  /\ UNCHANGED <<dbNext, alloc, handed>>

\* MUTANT of LeaseSeqBlock: RETURNING taken for the row before the update.
LeaseSeqBlock_OldRow(c) ==
  /\ caller[c].pc = "exhausted"
  /\ dbNext <= MaxNext
  /\ dbNext' = dbNext + BlockSize
  /\ caller' = [caller EXCEPT ![c] = [pc |-> "leased", at |-> @.at, start |-> dbNext - BlockSize]]
  /\ UNCHANGED <<alloc, handed>>

\* One UPDATE ... RETURNING next - block_size.
LeaseSeqBlock(c) ==
  /\ caller[c].pc = "exhausted"
  /\ dbNext <= MaxNext
  /\ dbNext' = dbNext + BlockSize
  /\ caller' = [caller EXCEPT ![c] = [pc |-> "leased", at |-> @.at, start |-> dbNext]]
  /\ UNCHANGED <<alloc, handed>>

\* The lease fails: Next returns the error and the row keeps seq 0.
LeaseFails(c) ==
  /\ caller[c].pc = "exhausted"
  /\ caller' = [caller EXCEPT ![c] = Idle(@.at)]
  /\ UNCHANGED <<dbNext, alloc, handed>>

\* Somebody installed a block meanwhile: served from it, the own block is lost.
ServeFromOther(c) ==
  LET i == caller[c].at IN
  /\ caller[c].pc = "leased"
  /\ Left(i)
  /\ Serve(i)
  /\ caller' = [caller EXCEPT ![c] = Idle(i)]
  /\ UNCHANGED dbNext

\* MUTANT of Install: the end of the block is taken as inclusive.
Install_Inclusive(c) ==
  LET i == caller[c].at
      start == caller[c].start
  IN
  /\ caller[c].pc = "leased"
  /\ ~Left(i)
  /\ handed' = Append(handed, start)
  /\ alloc' = [alloc EXCEPT ![i] = [next |-> start + 1, end |-> start + BlockSize + 1]]
  /\ caller' = [caller EXCEPT ![c] = Idle(i)]
  /\ UNCHANGED dbNext

\* The own block becomes the current one and its first value is returned.
Install(c) ==
  LET i == caller[c].at
      start == caller[c].start
  IN
  /\ caller[c].pc = "leased"
  /\ ~Left(i)
  /\ handed' = Append(handed, start)
  /\ alloc' = [alloc EXCEPT ![i] = [next |-> start + 1, end |-> start + BlockSize]]
  /\ caller' = [caller EXCEPT ![c] = Idle(i)]
  /\ UNCHANGED dbNext

\* The instance restarts: the tail of its block and its callers are gone.
Restart(i) ==
  /\ alloc' = [alloc EXCEPT ![i] = Empty]
  /\ caller' = [c \in Callers |-> IF caller[c].at = i THEN Idle(i) ELSE caller[c]]
  /\ UNCHANGED <<dbNext, handed>>

CallerStep(c) ==
  \/ Fast(c) \/ Exhausted(c) \/ LeaseSeqBlock(c) \/ LeaseFails(c)
  \/ ServeFromOther(c) \/ Install(c)

Next == (\E c \in Callers : CallerStep(c)) \/ (\E i \in Instances : Restart(i))

Spec == Init /\ [][Next]_vars

-----------------------------------------------------------------------------
(* Properties.                                                               *)

\* No value is returned twice, whatever instances, restarts, failed leases and
\* goroutines that leased at the same time do (TestTwoInstancesNoOverlap in
\* seq_test.go tries two instances and no concurrency inside them).
Unique == \A j, k \in 1..Len(handed) : j # k => handed[j] # handed[k]

\* Who may still hand out a value: the rest of a block, a leased block.
InRest(v, i) == alloc[i].next <= v /\ v < alloc[i].end
InLease(v, c) == /\ caller[c].pc = "leased"
                 /\ caller[c].start <= v /\ v < caller[c].start + BlockSize
Returned(v) == \E k \in 1..Len(handed) : handed[k] = v

\* All values below the counter row, and only those, may be owned or returned.
BelowCounter ==
  /\ \A i \in Instances : alloc[i].end <= dbNext
  /\ \A c \in Callers : caller[c].pc = "leased" => caller[c].start + BlockSize <= dbNext
  /\ \A k \in 1..Len(handed) : handed[k] < dbNext

\* "The caller owns [start_seq, start_seq + block_size)" (LeaseSeqBlock): a value
\* has one owner at most, and none once it was returned.
OneOwner ==
  /\ BelowCounter
  /\ \A v \in 0..dbNext :
       /\ \A i, j \in Instances : InRest(v, i) /\ InRest(v, j) => i = j
       /\ \A c, d \in Callers : InLease(v, c) /\ InLease(v, d) => c = d
       /\ \A i \in Instances, c \in Callers : ~(InRest(v, i) /\ InLease(v, c))
       /\ Returned(v) => /\ \A i \in Instances : ~InRest(v, i)
                         /\ \A c \in Callers : ~InLease(v, c)

\* "allocates monotonic per-project sequence numbers" (seq.go): a later value
\* is larger.  Checked with one instance; it fails there already.
Monotonic == \A j, k \in 1..Len(handed) : j < k => handed[j] < handed[k]
===============================================================================
