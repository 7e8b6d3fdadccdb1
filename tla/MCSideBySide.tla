----------------------------- MODULE MCSideBySide -----------------------------
(***************************************************************************)
(* Small instances of SideBySide: a behaviour is of one of the four, and the   *)
(* other three stay as they began.                                           *)
(*                                                                          *)
(* Availability: the thresholds of the code, streams of up to eight results.  *)
(* Error rate: a cooldown of five minutes for the code's thirty, two after a  *)
(* deploy.  Numbers: three goroutines on one or two instances, blocks of two   *)
(* values, three blocks in all.  Alerts: two rules of one workspace, two       *)
(* evaluators, two PATCHes and one POST.                                     *)
(***************************************************************************)
EXTENDS SideBySide, TLC

CONSTANT Parts  \* the components a run is about

VARIABLE part   \* which of them a behaviour is of

MCInit ==
  /\ part \in Parts
  /\ Init /\ R!Init
  /\ P!Init /\ (part # "alerts" => limit = CHOOSE n \in Limits : TRUE)
  /\ N!Init /\ (part # "numbers" => caller = [c \in Callers |-> N!Idle(CHOOSE i \in Instances : TRUE)])

OfRate(A) == part = "rate" /\ A /\ UNCHANGED <<part, vars, alerts, numbers>>

MCNext ==
  \/ part = "availability" /\ Next /\ UNCHANGED <<part, rate, alerts, numbers>>
  \/ OfRate(R!Next)
  \/ part = "alerts" /\ P!Next /\ UNCHANGED <<part, vars, rate, numbers>>
  \/ part = "numbers" /\ N!Next /\ UNCHANGED <<part, vars, rate, alerts>>

MCVars == <<part, vars, rate, alerts, numbers>>

\* The fairness of the error-rate scan, for the behaviours that are of it.
MCSpec ==
  /\ MCInit /\ [][MCNext]_MCVars
  /\ WF_MCVars(OfRate(R!ScanStep)) /\ WF_MCVars(OfRate(R!Measures)) /\ WF_MCVars(OfRate(R!Minute))

Symmetry == Permutations(Evaluators) \cup Permutations(Patches) \cup Permutations(AlertMeasures)
=============================================================================
