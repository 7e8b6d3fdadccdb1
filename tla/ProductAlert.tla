---------------------------- MODULE ProductAlert ----------------------------
(***************************************************************************)
(* Product alert rules: the evaluator that keeps each rule's episode on its  *)
(* row and tells the channels when it starts and ends (Tick and evaluate,    *)
(* src/back/internal/productalert/productalert.go), and the doors that       *)
(* create, edit, pause and delete rules (api/product_alerts.go).             *)
(*                                                                          *)
(* Tick works off one list of rules; meanwhile PATCHes, which read the rule,  *)
(* merge and write it back whole, and a second evaluator when the session of  *)
(* the job's lock is lost, move the same rows.  The deliveries and the row    *)
(* change in one transaction, whose guarded UPDATE is one step here.          *)
(***************************************************************************)
EXTENDS Naturals, FiniteSets

CONSTANTS
  Evaluators,  \* Tick calls that can run at once
  Patches,     \* PATCH requests that can be in flight
  Creates,     \* POST requests that can be in flight
  Measures,    \* what a rule can be set to: all of it that episodeChanged compares but the pause
  MaxRules,    \* bound on the rules ever created
  MaxTicks,    \* bound on the runs of the evaluator
  MaxEdits,    \* bound on PATCHes and changes of plan
  Limits       \* the rule counts of the plans

ProductAlertAssumption ==
  /\ MaxRules \in Nat /\ MaxTicks \in Nat /\ MaxEdits \in Nat
  /\ Limits \in SUBSET Nat

Rules == 1..MaxRules              \* in the order of created_at
State == {"learning", "ok", "firing"}
Never == 0                        \* last_fired_at IS NULL

\* What the evaluator reads of a row.
Row == [measure : Measures, paused : BOOLEAN, state : State, fired : 0..MaxTicks]

VARIABLES
  rules,    \* the rows of the workspace, by id
  born,     \* how many rules were ever created
  limit,    \* the plan's count
  frozen,   \* the project is frozen
  clock,    \* runs of the evaluator so far: the time each takes as now
  tick,     \* each evaluator: the time of its run and the rules left, as listed
  patch,    \* each PATCH: the rule it read and the rule it will write
  create,   \* each POST: the limit it read
  edits,
  said,     \* ghost: the channels' last word on each rule, since its last reset
  sent,     \* ghost: flips with every message sent for a rule
  under,    \* ghost: what a rule measured when it last fired, unless paused since
  crossed   \* ghost: rules on which a PATCH wrote over another's write

vars == <<rules, born, limit, frozen, clock, tick, patch, create, edits, said, sent, under, crossed>>
ghosts == <<said, sent, under, crossed>>
plan == <<limit, frozen>>

NoTick == [now |-> 0, todo |-> <<>>]
None == [pc |-> "idle"]
NoCreate == [pc |-> "idle", limit |-> 0]

Existing == DOMAIN rules
Without(f, r) == [x \in DOMAIN f \ {r} |-> f[x]]
With(f, r, v) == [x \in DOMAIN f \cup {r} |-> IF x = r THEN v ELSE f[x]]

TypeOK ==
  /\ born \in 0..MaxRules
  /\ Existing \subseteq 1..born
  /\ \A r \in Existing : rules[r] \in Row /\ rules[r].fired <= clock
  /\ \A r \in Existing : rules[r].state = "firing" => rules[r].fired # Never
  /\ limit \in Limits /\ frozen \in BOOLEAN
  /\ clock \in 0..MaxTicks /\ edits \in 0..MaxEdits
  /\ \A e \in Evaluators :
       /\ tick[e].now \in 0..clock
       /\ \A r \in DOMAIN tick[e].todo : tick[e].todo[r] \in Row /\ ~tick[e].todo[r].paused
  /\ \A p \in Patches : patch[p].pc \in {"idle", "write"}
  /\ \A c \in Creates : create[c] \in [pc : {"idle", "insert"}, limit : Limits \cup {0}]
  /\ said \in [Rules -> {"nothing", "fired", "recovered"}]
  /\ crossed \in SUBSET Rules

Init ==
  /\ rules = <<>>
  /\ born = 0
  /\ limit \in Limits
  /\ frozen = FALSE
  /\ clock = 0
  /\ tick = [e \in Evaluators |-> NoTick]
  /\ patch = [p \in Patches |-> None]
  /\ create = [c \in Creates |-> NoCreate]
  /\ edits = 0
  /\ said = [r \in Rules |-> "nothing"]
  /\ sent = [r \in Rules |-> FALSE]
  /\ under = <<>>
  /\ crossed = {}

-----------------------------------------------------------------------------
(* The evaluator.                                                            *)

Rank(r) == Cardinality({x \in Existing : x <= r})

\* liveRules.
Live(r) == ~rules[r].paused /\ ~frozen /\ Rank(r) <= limit

\* A run: one list of the live rules, one time for all of them.
Tick(e) ==
  /\ tick[e] = NoTick
  /\ clock < MaxTicks
  /\ \E r \in Existing : Live(r)
  /\ clock' = clock + 1
  /\ tick' = [tick EXCEPT ![e] = [now |-> clock + 1, todo |-> [r \in {x \in Existing : Live(x)} |-> rules[r]]]]
  /\ UNCHANGED <<rules, born, plan, patch, create, edits, ghosts>>

\* Step: the state the row keeps next is the condition as measured.
NextState(state, cond) == cond

\* MUTANT of Send: a firing rule repeats itself.
Send_Repeats(state, cond) ==
  IF cond = "firing" THEN "fired" ELSE IF state = "firing" THEN "recovered" ELSE "nothing"

\* Step: the message it sends.
Send(state, cond) ==
  CASE cond = "firing" /\ state # "firing" -> "fired"
    [] cond # "firing" /\ state = "firing" -> "recovered"
    [] OTHER                               -> "nothing"

\* MUTANT of Unmoved: the row moves whatever the rule measures by now.
Unmoved_AnyMeasure(r, read) ==
  r \in Existing /\ ~rules[r].paused /\ rules[r].state = read.state /\ rules[r].fired = read.fired

\* The guard of the UPDATE: the row is what this run read, and not paused.
Unmoved(r, read) == r \in Existing /\ rules[r] = read

After(e, r) == LET left == Without(tick[e].todo, r)
               IN IF left = <<>> THEN NoTick ELSE [tick[e] EXCEPT !.todo = left]

\* evaluate: the windows are measured, and the deliveries and the episode land
\* together; a row that moved meanwhile rolls the deliveries back.
Evaluate(e, r, cond) ==
  LET read == tick[e].todo[r]
      send == Send(read.state, cond)
  IN /\ tick' = [tick EXCEPT ![e] = After(e, r)]
     /\ IF Unmoved(r, read)
          THEN /\ rules' = [rules EXCEPT ![r].state = NextState(read.state, cond),
                                         ![r].fired = IF send = "fired" THEN tick[e].now ELSE read.fired]
               /\ said' = [said EXCEPT ![r] = IF send = "nothing" THEN @ ELSE send]
               /\ sent' = [sent EXCEPT ![r] = IF send = "nothing" THEN @ ELSE ~@]
               /\ under' = IF send = "fired" THEN With(under, r, read.measure) ELSE under
          ELSE UNCHANGED <<rules, said, sent, under>>
     /\ UNCHANGED <<born, plan, clock, patch, create, edits, crossed>>

\* A read, an enqueue or the UPDATE fails: the other rules still run.
Skip(e, r) ==
  /\ tick' = [tick EXCEPT ![e] = After(e, r)]
  /\ UNCHANGED <<rules, born, plan, clock, patch, create, edits, ghosts>>

\* The worker dies; the next run lists again.
Dies(e) ==
  /\ tick[e] # NoTick
  /\ tick' = [tick EXCEPT ![e] = NoTick]
  /\ UNCHANGED <<rules, born, plan, clock, patch, create, edits, ghosts>>

-----------------------------------------------------------------------------
(* The doors.                                                                *)

\* productAlertLimit is read before the transaction.
CreateReads(c) ==
  /\ create[c].pc = "idle" /\ born < MaxRules
  /\ create' = [create EXCEPT ![c] = [pc |-> "insert", limit |-> limit]]
  /\ UNCHANGED <<rules, born, plan, clock, tick, patch, edits, ghosts>>

\* The tenant row is the lock: count and insert are one step.
CreateCommits(c, m, paused) ==
  /\ create[c].pc = "insert"
  /\ IF Cardinality(Existing) < create[c].limit /\ born < MaxRules
       THEN /\ born' = born + 1
            /\ rules' = With(rules, born + 1, [measure |-> m, paused |-> paused, state |-> "learning", fired |-> Never])
       ELSE UNCHANGED <<born, rules>>
  /\ create' = [create EXCEPT ![c] = NoCreate]
  /\ UNCHANGED <<plan, clock, tick, patch, edits, ghosts>>

\* The PATCH reads the stored rule and merges what the request names into it.
PatchReads(p, r, m, paused) ==
  /\ patch[p].pc = "idle" /\ edits < MaxEdits
  /\ edits' = edits + 1
  /\ patch' = [patch EXCEPT ![p] =
       [pc |-> "write", rule |-> r, stored |-> rules[r], measure |-> m, paused |-> paused, over |-> FALSE]]
  /\ UNCHANGED <<rules, born, plan, clock, tick, create, ghosts>>

\* MUTANT of EpisodeChanged: a pause keeps the episode.
EpisodeChanged_NotByPause(q) == q.measure # q.stored.measure

\* episodeChanged, of the rule as it was read.
EpisodeChanged(q) == q.measure # q.stored.measure \/ q.paused # q.stored.paused

\* The UPDATE writes every field back, and resets the episode if it changed.
PatchWrites(p) ==
  LET q == patch[p]
      r == q.rule
      reset == EpisodeChanged(q)
  IN /\ q.pc = "write"
     /\ IF r \in Existing
          THEN /\ rules' = [rules EXCEPT ![r] =
                    [measure |-> q.measure, paused |-> q.paused,
                     state |-> IF reset THEN "learning" ELSE @.state,
                     fired |-> IF reset THEN Never ELSE @.fired]]
               /\ said' = [said EXCEPT ![r] = IF reset THEN "nothing" ELSE @]
               /\ under' = IF q.paused THEN Without(under, r) ELSE under
               /\ crossed' = IF q.over THEN crossed \cup {r} ELSE crossed
               /\ patch' = [x \in Patches |->
                    IF x = p THEN None
                    ELSE IF patch[x].pc = "write" /\ patch[x].rule = r THEN [patch[x] EXCEPT !.over = TRUE]
                    ELSE patch[x]]
          ELSE patch' = [patch EXCEPT ![p] = None] /\ UNCHANGED <<rules, said, under, crossed>>
     /\ UNCHANGED <<born, plan, clock, tick, create, edits, sent>>

Delete(r) ==
  /\ rules' = Without(rules, r)
  /\ UNCHANGED <<born, plan, clock, tick, patch, create, edits, ghosts>>

\* The workspace changes plan, and the freeze sweep its project.
PlanChanges(n, f) ==
  /\ <<n, f>> # <<limit, frozen>>
  /\ edits < MaxEdits /\ edits' = edits + 1
  /\ limit' = n /\ frozen' = f
  /\ UNCHANGED <<rules, born, clock, tick, patch, create, ghosts>>

-----------------------------------------------------------------------------

Next ==
  \/ \E e \in Evaluators :
       \/ Tick(e)
       \/ Dies(e)
       \/ \E r \in DOMAIN tick[e].todo : Skip(e, r) \/ \E cond \in State : Evaluate(e, r, cond)
  \/ \E c \in Creates :
       CreateReads(c) \/ \E m \in Measures, paused \in BOOLEAN : CreateCommits(c, m, paused)
  \/ \E p \in Patches :
       \/ PatchWrites(p)
       \/ \E r \in Existing, m \in Measures, paused \in BOOLEAN : PatchReads(p, r, m, paused)
  \/ \E r \in Existing : Delete(r)
  \/ \E n \in Limits, f \in BOOLEAN : PlanChanges(n, f)

Spec == Init /\ [][Next]_vars

-----------------------------------------------------------------------------
(* Properties.                                                               *)

\* A channel hears once when an episode starts and once when it ends
\* (productalert.go, package comment): every message differs from the last
\* word on its rule, and only a "fired" is ever taken back, whatever two
\* evaluators on old lists, edits, pauses and deletes do in between.
OnceEach ==
  [][\A r \in Rules : sent'[r] # sent[r] =>
       said'[r] # said[r] /\ (said'[r] = "recovered" => said[r] = "fired")]_vars

Describes(r) == r \in DOMAIN under /\ under[r] = rules[r].measure

\* A row is firing exactly while the channels' last word is "fired", and it
\* fired for what the rule measures now and was not paused since, as long as
\* no PATCH wrote over another: an edit or a pause that lands during a run wins.
EpisodeIsOfTheRule ==
  \A r \in Existing :
    /\ rules[r].state = "firing" <=> said[r] = "fired"
    /\ rules[r].state = "firing" /\ r \notin crossed => Describes(r)

(* Refuted: formulas the code does not satisfy.                              *)

\* product_alerts.go: "a nil field is one the request leaves alone"; the field
\* is written back as it was read, over another PATCH's change of it.
NilFieldStays ==
  [][\A p \in Patches, r \in Existing :
       patch[p].pc = "write" /\ patch[p].rule = r /\ patch'[p].pc = "idle" /\ r \in DOMAIN rules' =>
         /\ patch[p].measure = patch[p].stored.measure => rules'[r].measure = rules[r].measure
         /\ patch[p].paused = patch[p].stored.paused => rules'[r].paused = rules[r].paused]_vars

\* product_alerts.go: the episode measured under another definition does not
\* describe the rule; a rename that read the rule before an edit brings the
\* old definition back without a reset.
FiringIsOfTheRule == \A r \in Existing : rules[r].state = "firing" => Describes(r)
=============================================================================
