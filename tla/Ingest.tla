------------------------------- MODULE Ingest -------------------------------
(***************************************************************************)
(* POST /i in front of the batcher: Ingester.Handle                           *)
(* (src/back/internal/ingest/ingest.go) sheds by the spool's fill, caps the   *)
(* host (ingest/cardinality), claims the body in ingest_batch                 *)
(* (storage/pg/idempotency.go, queries/ingest.sql) and only then adds its      *)
(* rows.  A request here carries one row; Batcher's goroutine of that row is   *)
(* the request past its claim.  The process may die at any point and a new     *)
(* one takes its place; a client may send the same body any number of times.   *)
(***************************************************************************)
EXTENDS Batcher

CONSTANTS
  Sends,    \* what each request may carry: a project and a body of one line
  Level,    \* the level of each body's line
  Ceiling   \* distinct hosts a Limiter lets through

ASSUME IngestAssumption ==
  /\ \A r \in Rows : \A m \in Sends[r] : Level[m.body] \in {"debug", "info", "warn", "error"}
  /\ Ceiling \in Nat \ {0}

VARIABLES
  request,  \* each request: where it is, who sent what, and what became of it
  claims,   \* ingest_batch: the bodies claimed in the last 24 hours
  seen,     \* the Limiter's hosts; each project sends its own
  unsure    \* ghost: bodies of which a claim failed

batcher == <<batch, made, pending, adder, ticker, closer, stopping, pool, stored, lost, collided>>
door == <<request, claims, seen, unsure>>
ivars == <<vars, door>>

IInit ==
  /\ Init
  /\ request = [r \in Rows |-> [pc |-> "new"]]
  /\ claims = {} /\ seen = {} /\ unsure = {}

\* computeOverload: the levels that are shed at a fill of the spool.
Shed(fill) ==
  {l \in {"debug"} : fill >= 60} \cup {l \in {"info"} : fill >= 75} \cup {l \in {"warn"} : fill >= 90}

\* Limiter.Add of the sender's host: it is known, or there is room for it.
Admits(host) == host \in seen \/ Cardinality(seen) < Ceiling

\* Handle up to the claim, for a request that is not refused with a 503 at a
\* full spool: its host takes a slot in the Limiter, whether or not the row is
\* shed after that.
Build(r, m, pc) ==
  /\ request[r].pc = "new"
  /\ request' = [request EXCEPT ![r] = [pc |-> pc, of |-> m, capped |-> ~Admits(m.project)]]
  /\ seen' = IF Admits(m.project) THEN seen \cup {m.project} ELSE seen

\* What Handle does with a body nobody had claimed.
Accepted(m, fill) == IF Level[m.body] \in Shed(fill) THEN "dropped" ELSE "add"

\* MUTANT of Claimed: a replay is a body that has been answered.
Claimed_Answered(b) == \E s \in Rows : request[s].pc = "added" /\ request[s].of.body = b

Claimed(b) == b \in claims

\* ClaimIngestBatch: one INSERT .. ON CONFLICT, keyed on the body alone.
Claim(r, m, fill) ==
  /\ Build(r, m, IF Claimed(m.body) THEN "replayed" ELSE Accepted(m, fill))
  /\ claims' = claims \cup {m.body}
  /\ UNCHANGED <<vars, unsure>>

\* The claim fails, written or not; the rows are accepted all the same.
ClaimFails(r, m, fill) ==
  /\ faults < MaxFaults
  /\ faults' = faults + 1
  /\ Build(r, m, Accepted(m, fill))
  /\ claims' \in {claims, claims \cup {m.body}}
  /\ unsure' = unsure \cup {m.body}
  /\ UNCHANGED batcher

\* Sink.Add, into the batcher.
AddRow(r) ==
  /\ request[r].pc = "add"
  /\ Add(r)
  /\ request' = [request EXCEPT ![r].pc = "added"]
  /\ UNCHANGED <<claims, seen, unsure>>

\* The process dies and is started anew: rows that wait or are on their way
\* into an insert are lost, requests go unanswered.
Crash ==
  /\ faults < MaxFaults
  /\ faults' = faults + 1
  /\ lost' = lost \cup {r \in Rows : Waiting(r) \/ Carried(r) > 0}
  /\ pending' = 0 /\ ticker' = Idle /\ closer' = Idle
  /\ stopping' = FALSE /\ pool' = TRUE
  /\ adder' = [r \in Rows |-> IF adder[r].pc = "new" THEN adder[r] ELSE [Idle EXCEPT !.pc = "done"]]
  /\ request' = [r \in Rows |->
       IF request[r].pc = "add" \/ (request[r].pc = "added" /\ adder[r].pc # "done")
         THEN [request[r] EXCEPT !.pc = "cut"] ELSE request[r]]
  /\ seen' = {}
  /\ UNCHANGED <<batch, made, stored, collided, claims, unsure>>

\* What goes on behind the door.
Within == Flushing /\ UNCHANGED door

INext ==
  \/ \E r \in Rows :
       \/ \E m \in Sends[r], fill \in {0, 60, 75, 90} : Claim(r, m, fill) \/ ClaimFails(r, m, fill)
       \/ AddRow(r)
  \/ Crash
  \/ Within

ISpec == IInit /\ [][INext]_ivars /\ Fairness

-----------------------------------------------------------------------------
(* Properties.                                                               *)

SameSent(r, s) == "of" \in DOMAIN request[r] /\ "of" \in DOMAIN request[s] /\ request[r].of = request[s].of

\* A project's body enters the batcher once, however often it is sent, at
\* whatever moment the process dies and whatever the spool says at each
\* attempt; except when a claim itself failed, which Handle ignores ("a replay
\* returns the first accept's count and never double-writes", ingest.sql).
AddedOnce ==
  \A r, s \in Added : r # s /\ SameSent(r, s) => request[r].of.body \in unsure

(* Refuted: formulas the code does not satisfy.                              *)

\* ingest.go: "an already-accepted body returns the stored count": the body
\* was accepted, or is being so.  A process that dies between the claim and
\* the Add leaves a claim of rows nobody has.
ReplayIsOfAccepted ==
  \A r \in Rows : request[r].pc = "replayed" =>
    \E s \in Rows : /\ request[s].pc \in {"add", "added", "dropped"} \/ s \in Added
                    /\ request[s].of.body = request[r].of.body

\* ... and by this project: another project's equal body is a replay too.
ReplayIsOwn ==
  \A r \in Rows : request[r].pc = "replayed" => \E s \in Rows \ {r} : SameSent(r, s)

\* cardinality.go: "Limiter tracks per-field cardinality for one tenant": a
\* host is capped only when its own project has filled the ceiling.  WireIngest
\* shares one Limiter among all projects.
OwnCeiling == \A r \in Rows : request[r].pc # "new" => ~request[r].capped
=============================================================================
