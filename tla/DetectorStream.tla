---------------------------- MODULE DetectorStream ----------------------------
(***************************************************************************)
(* One target's detector fed a stream of check results in order: the facts  *)
(* row, the results seen so far, and the incident edges the detector asked  *)
(* for.  The stream is what the detector promises to summarise, so the      *)
(* facts are compared with a definition over the whole stream.              *)
(***************************************************************************)
EXTENDS Availability, Sequences, FiniteSets

CONSTANT MaxResults     \* bound on the length of the stream

VARIABLES
  facts,     \* the target_facts row
  results,   \* every outcome processed, oldest first
  edges      \* the Open and Close transitions returned, oldest first

vars == <<facts, results, edges>>

TypeOK ==
  /\ facts \in Facts
  /\ results \in Seq(Outcome)
  /\ edges \in Seq({"open", "close"})

Init ==
  /\ facts = NoFacts
  /\ results = <<>>
  /\ edges = <<>>

\* Detector.Process and the caller's reaction to the Transition it returns.
Submit(outcome) ==
  /\ Len(results) < MaxResults
  /\ facts' = Process(facts, outcome)
  /\ results' = Append(results, outcome)
  /\ edges' = CASE Opens(facts, outcome)  -> Append(edges, "open")
                [] Closes(facts, outcome) -> Append(edges, "close")
                [] OTHER                  -> edges

Next == \E outcome \in Outcome : Submit(outcome)

Spec == Init /\ [][Next]_vars

-----------------------------------------------------------------------------
(* The reference: what the status means, read off the whole stream.          *)

LastIndex(S) == IF \E i \in S : \A j \in S : j <= i
                  THEN CHOOSE i \in S : \A j \in S : j <= i ELSE 0
At(r, kinds) == {i \in 1..Len(r) : r[i] \in kinds}

\* Failures since the last success, readings nobody could take left out.
FailsSince(r) == {i \in At(r, {"fail"}) : i > LastIndex(At(r, {"ok"}))}
FailStreak(r) == Cardinality(FailsSince(r))

\* Readings nobody could take since the last measured result.
BlindStreak(r) == Len(r) - LastIndex(At(r, {"ok", "fail"}))

MeasuredStatus(r) ==
  LET last == LastIndex(At(r, {"ok", "fail"}))
  IN  IF last = 0 THEN "blank" ELSE IF r[last] = "ok" THEN "ok" ELSE "check"

ReferenceStatus(r) ==
  IF FailStreak(r) >= Threshold THEN "down"
  ELSE IF BlindStreak(r) >= UnmeasuredThreshold THEN "could_not_measure"
  ELSE MeasuredStatus(r)

\* The stored row is the summary of the whole stream: down exactly when the
\* failures since the last success reached the threshold (an unreadable answer
\* in between neither counts nor interrupts), could_not_measure exactly when
\* the trailing unreadable streak is long enough and the target is not down
\* (availability.go processOK, processFail, processUnmeasured).
StatusIsReference ==
  /\ facts.status = ReferenceStatus(results)
  /\ facts.fails = FailStreak(results)
  /\ facts.unmeasured = BlindStreak(results)

\* Open and Close alternate, Open first, and an Open is outstanding exactly
\* while the status says down: no outage is opened twice or closed twice
\* (Transition, availability.go).
EdgesAlternate ==
  /\ \A i \in 1..Len(edges) : edges[i] = IF i % 2 = 1 THEN "open" ELSE "close"
  /\ (Len(edges) % 2 = 1) <=> (facts.status = "down")

\* "down" is earned by failures alone: the status says down if and only if the
\* consecutive-failure counter is at the threshold, whatever unreadable answers
\* came in between.
DownIffThreshold == (facts.status = "down") <=> (facts.fails >= Threshold)

\* "Status values match target_facts.status and the front's HealthStatus"
\* (availability.go): once a result was processed the row holds one of them.
\* It does not when the first results are unreadable: the blank zero value of
\* the missing row is stored.
StatusInVocabulary == results # <<>> => facts.status # "blank"
=============================================================================
