---------------------------- MODULE Availability ----------------------------
(***************************************************************************)
(* The consecutive-failure detector of                                     *)
(* src/back/internal/detect/availability/availability.go: what one check    *)
(* result does to the state kept in target_facts, and which incident edge   *)
(* it asks the caller to act on.  Pure operators; ProbeService (websites)   *)
(* and the heartbeat tracker are its two callers.                           *)
(***************************************************************************)
EXTENDS Naturals

CONSTANTS
  Threshold,            \* failures that open (DefaultThreshold, or 1 for heartbeats)
  UnmeasuredThreshold   \* unreadable answers after which the status admits it

ASSUME ThresholdAssumption ==
  /\ Threshold \in Nat \ {0}
  /\ UnmeasuredThreshold \in Nat \ {0}

Outcome == {"ok", "fail", "unmeasured"}

\* "blank" is the zero value SubmitResults hands the detector while no
\* target_facts row exists; the other five are availability.go's constants.
Status == {"blank", "nodata", "ok", "check", "down", "could_not_measure"}

Facts == [status : Status, fails : Nat, unmeasured : Nat]
NoFacts == [status |-> "blank", fails |-> 0, unmeasured |-> 0]

\* An auth wall or a rate limit answered, or a bot filter's challenge.
Unmeasured(class, code) ==
  \/ class = "challenge"
  \/ class = "status" /\ code \in {401, 403, 429}

\* SubmitResults' choice of the verdict the detector is given.
OutcomeOf(ok, class, code) ==
  IF ok THEN "ok" ELSE IF Unmeasured(class, code) THEN "unmeasured" ELSE "fail"

-----------------------------------------------------------------------------

\* MUTANT of ProcessOK: a success does not reset the failure counter.
ProcessOK_KeepsFails(s) == [status |-> "ok", fails |-> s.fails, unmeasured |-> 0]

ProcessOK(s) == [status |-> "ok", fails |-> 0, unmeasured |-> 0]

\* MUTANT of ProcessFail: the blind counter is not reset by a measured failure.
ProcessFail_KeepsBlindStreak(s) ==
  [status     |-> IF s.status = "down" \/ s.fails + 1 >= Threshold THEN "down" ELSE "check",
   fails      |-> s.fails + 1,
   unmeasured |-> s.unmeasured]

ProcessFail(s) ==
  [status     |-> IF s.status = "down" \/ s.fails + 1 >= Threshold THEN "down" ELSE "check",
   fails      |-> s.fails + 1,
   unmeasured |-> 0]

\* MUTANT of ProcessUnmeasured: an unreadable streak overwrites an outage.
ProcessUnmeasured_HidesOutage(s) ==
  [s EXCEPT !.unmeasured = @ + 1,
            !.status = IF s.unmeasured + 1 >= UnmeasuredThreshold THEN "could_not_measure" ELSE @]

ProcessUnmeasured(s) ==
  [s EXCEPT !.unmeasured = @ + 1,
            !.status = IF s.unmeasured + 1 >= UnmeasuredThreshold /\ @ # "down"
                         THEN "could_not_measure" ELSE @]

Process(s, outcome) ==
  CASE outcome = "ok"         -> ProcessOK(s)
    [] outcome = "fail"       -> ProcessFail(s)
    [] outcome = "unmeasured" -> ProcessUnmeasured(s)

\* Transition.Open: the threshold was crossed by this result.
Opens(s, outcome) ==
  outcome = "fail" /\ s.status # "down" /\ s.fails + 1 >= Threshold

\* Transition.Close: this result ended an outage.
Closes(s, outcome) == outcome = "ok" /\ s.status = "down"
=============================================================================
