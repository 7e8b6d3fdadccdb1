------------------------------ MODULE SideBySide ------------------------------
(***************************************************************************)
(* Four components that share no row with one another: the availability       *)
(* detector (DetectorStream), the error-rate scan (ErrorRate), the product     *)
(* alerts (ProductAlert) and the numbers of log lines (SeqAllocator).         *)
(***************************************************************************)
EXTENDS DetectorStream

CONSTANTS
  Cooldown, PostDeploy, MaxFaults,
  Evaluators, Patches, Creates, AlertMeasures, MaxRules, MaxTicks, MaxEdits, Limits,
  Instances, Callers, BlockSize, MaxNext

VARIABLES
  stream, open, lastFire, deployed, due, scan, opened, unstamped, faults,
  rules, born, limit, frozen, clock, tick, patch, create, edits, said, sent, under, crossed,
  dbNext, alloc, caller, handed

rate == <<stream, open, lastFire, deployed, due, scan, opened, unstamped, faults>>
alerts == <<rules, born, limit, frozen, clock, tick, patch, create, edits, said, sent, under, crossed>>
numbers == <<dbNext, alloc, caller, handed>>

R == INSTANCE ErrorRate
P == INSTANCE ProductAlert WITH Measures <- AlertMeasures
N == INSTANCE SeqAllocator

ASSUME RateAssumption == R!ErrorRateAssumption
ASSUME AlertsAssumption == P!ProductAlertAssumption
ASSUME NumbersAssumption == N!SeqAssumption

\* Two incidents of one project's error rate are more than a cooldown apart, unless the
\* stamp after an insert was lost (detect.go, "The cooldown starts only when an incident
\* actually opened").
Spaced == R!Spaced

\* A stream that stays hot has an open incident again and again (detect.go, "a suppressed
\* fire never reaches here, so it extends no cooldown").
SpikeOpens == R!SpikeOpens

\* A row is firing exactly while the channels' last word is "fired", and it fired for
\* what the rule measures now (productalert.go's evaluate, the PATCH's episodeChanged).
EpisodeIsOfTheRule == P!EpisodeIsOfTheRule

\* A channel hears once when an episode starts and once when it ends (productalert.go).
OnceEach == P!OnceEach

\* No sequence number is returned twice (ring/seq/seq.go, Next).
Unique == N!Unique
=============================================================================
