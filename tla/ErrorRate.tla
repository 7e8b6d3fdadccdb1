------------------------------ MODULE ErrorRate ------------------------------
(***************************************************************************)
(* The error-rate detector of one project: the minute scan                   *)
(* (Scanner.scanProject, src/back/internal/detect/detect.go) with its         *)
(* suppression rules (detect/suppression), the incident it opens and closes   *)
(* by fingerprint (incident.go OpenDetect, CloseByFingerprint), and the       *)
(* deploys and the people that act on the same rows while it runs.            *)
(*                                                                          *)
(* The scan is split at its statements.  One scan runs at a time (the job's   *)
(* lock, see Heartbeat) and is short against a minute: time passes between    *)
(* scans.  Ages are minutes, and stop at Long.                                *)
(***************************************************************************)
EXTENDS Naturals

CONSTANTS
  Cooldown,    \* minutes a fingerprint stays quiet after a fire
  PostDeploy,  \* minutes of silence after a deploy
  MaxFaults    \* bound on failed statements and cut-off scans

ErrorRateAssumption ==
  Cooldown \in Nat /\ PostDeploy \in Nat /\ MaxFaults \in Nat

Long == Cooldown + PostDeploy + 1   \* never, or so long ago that no rule cares

VARIABLES
  stream,    \* the scored window: "hot" and "normal" hold ten lines or more, "thin" fewer
  open,      \* incidents of the fingerprint with resolved_at NULL
  lastFire,  \* age of error_alert_state.last_alerted
  deployed,  \* age of the last deploy mark
  due,       \* the job's ticker has fired since the last scan began
  scan,      \* the scan: where it is and what it has read
  opened,    \* ghost: age of the last incident
  unstamped, \* ghost: an incident was opened and its cooldown was lost
  faults     \* failed statements and cut-off scans so far

rows == <<open, lastFire>>
vars == <<stream, rows, deployed, due, scan, opened, unstamped, faults>>

Idle == [pc |-> "idle", stream |-> "normal", hasOpen |-> FALSE, lastFire |-> 0]

Init ==
  /\ stream = "thin"
  /\ open = 0
  /\ lastFire = Long /\ deployed = Long
  /\ due = TRUE /\ scan = Idle
  /\ opened = Long /\ unstamped = FALSE
  /\ faults = 0

World == UNCHANGED <<stream, deployed, faults>>
Ghosts == UNCHANGED <<opened, unstamped>>
Go(pc) == scan' = (IF pc = "idle" THEN Idle ELSE [scan EXCEPT !.pc = pc]) /\ UNCHANGED due

-----------------------------------------------------------------------------
(* The scan.                                                                 *)

\* ErrorWindow: the five minutes that are scored.
Measures ==
  /\ scan.pc = "idle" /\ due
  /\ due' = FALSE
  /\ scan' = [Idle EXCEPT !.pc = "lookup", !.stream = stream]
  /\ UNCHANGED rows /\ World /\ Ghosts

\* The floor of ten lines, and ErrorRate against the week's baseline.
Fires == scan.stream = "hot"

\* GetOpenIncidentByFingerprint; then decide, for a window that does not fire.
LooksUp ==
  /\ scan.pc = "lookup"
  /\ IF Fires THEN scan' = [scan EXCEPT !.pc = "state", !.hasOpen = open > 0] /\ UNCHANGED due
     ELSE Go(IF open > 0 THEN "find" ELSE "idle")
  /\ UNCHANGED rows /\ World /\ Ghosts

\* GetErrorAlertState: when this fingerprint last fired.
ReadsState ==
  /\ scan.pc = "state"
  /\ scan' = [scan EXCEPT !.pc = "deploy", !.lastFire = lastFire]
  /\ UNCHANGED <<rows, due>> /\ World /\ Ghosts

\* MUTANT of Suppressed: the cooldown is left out.
Suppressed_NoCooldown == deployed <= PostDeploy \/ scan.hasOpen

\* suppression.Evaluate; no one is ever in maintenance.
Suppressed ==
  \/ deployed <= PostDeploy
  \/ scan.hasOpen
  \/ scan.lastFire <= Cooldown

\* MUTANT of OnSuppressed: a fire that was suppressed starts the cooldown again.
OnSuppressed_Extends == lastFire' = 0

\* A suppressed fire extends no cooldown.
OnSuppressed == UNCHANGED lastFire

\* LastDeployAt, and decide.
Decides ==
  /\ scan.pc = "deploy"
  /\ IF Suppressed THEN Go("idle") /\ OnSuppressed ELSE Go("open") /\ UNCHANGED lastFire
  /\ UNCHANGED open /\ World /\ Ghosts

\* OpenDetect: the fingerprint is looked up once more.
OpenLooks ==
  /\ scan.pc = "open"
  /\ Go(IF open > 0 THEN "idle" ELSE "insert")
  /\ UNCHANGED rows /\ World /\ Ghosts

OpenInserts ==
  /\ scan.pc = "insert"
  /\ open' = open + 1
  /\ opened' = 0
  /\ Go("stamp")
  /\ UNCHANGED <<lastFire, unstamped>> /\ World

\* The cooldown starts only when an incident actually opened.
Stamps ==
  /\ scan.pc = "stamp"
  /\ lastFire' = 0
  /\ Go("idle")
  /\ UNCHANGED open /\ World /\ Ghosts

\* CloseByFingerprint.
CloseFinds ==
  /\ scan.pc = "find"
  /\ Go(IF open > 0 THEN "close" ELSE "idle")
  /\ UNCHANGED rows /\ World /\ Ghosts

Closes ==
  /\ scan.pc = "close"
  /\ open' = 0
  /\ Go("idle")
  /\ UNCHANGED lastFire /\ World /\ Ghosts

\* A statement fails and the project is left to the next scan, or the worker
\* dies; past the insert the cooldown is lost.
ScanFails ==
  /\ scan.pc # "idle" /\ faults < MaxFaults
  /\ faults' = faults + 1
  /\ scan' = Idle
  /\ unstamped' = (unstamped \/ scan.pc = "stamp")
  /\ UNCHANGED <<stream, rows, deployed, due, opened>>

-----------------------------------------------------------------------------
(* The world around it.                                                      *)

Older(age) == IF age < Long THEN age + 1 ELSE age

Minute ==
  /\ scan.pc = "idle"
  /\ due' = TRUE
  /\ lastFire' = Older(lastFire) /\ deployed' = Older(deployed) /\ opened' = Older(opened)
  /\ UNCHANGED <<stream, open, scan, unstamped, faults>>

StreamChanges(s) ==
  /\ s # stream /\ stream' = s
  /\ UNCHANGED <<rows, deployed, due, scan, opened, unstamped, faults>>

Deploys ==
  /\ deployed' = 0
  /\ UNCHANGED <<stream, rows, due, scan, opened, unstamped, faults>>

\* A person resolves the incident, in the dashboard or in Telegram.
Resolves ==
  /\ open > 0 /\ open' = 0
  /\ UNCHANGED <<stream, lastFire, deployed, due, scan, opened, unstamped, faults>>

ScanStep == LooksUp \/ ReadsState \/ Decides \/ OpenLooks \/ OpenInserts \/ Stamps \/ CloseFinds \/ Closes

Next ==
  \/ Measures
  \/ ScanStep
  \/ ScanFails
  \/ Minute
  \/ \E s \in {"hot", "normal", "thin"} : StreamChanges(s)
  \/ Deploys
  \/ Resolves

\* The clock moves, the ticker starts a scan every minute, and each scan ends.
Fairness == WF_vars(ScanStep) /\ WF_vars(Measures) /\ WF_vars(Minute)

Spec == Init /\ [][Next]_vars /\ Fairness

-----------------------------------------------------------------------------
(* Properties.                                                               *)

\* Two incidents of one project's error rate are more than a cooldown apart,
\* whoever closed the first: a stream that flaps, a person who resolves while
\* the stream is hot, or a scan on reads that went stale never pages twice
\* within it, unless the stamp after an insert was lost (detect.go, "The
\* cooldown starts only when an incident actually opened").
Spaced == [][open' > open /\ ~unstamped => opened > Cooldown]_vars

\* A stream that stays hot has an open incident again and again, although
\* deploys, the cooldown and people silence it for a while: what is suppressed
\* is put off, not dropped ("a suppressed fire never reaches here, so it
\* extends no cooldown").
SpikeOpens == <>[](stream = "hot" /\ deployed > PostDeploy) => []<>(open > 0)

(* Refuted: formulas the code does not satisfy.                              *)

\* suppression.go: "post-deploy" silence; a deploy marked after the scan has
\* read the last one does not silence it.
DeployIsQuiet == [][open' > open => deployed > PostDeploy]_vars

\* incident text "Error rate back to normal": a window too thin to score
\* closes the incident too.
RecoveryIsMeasured == [][open' < open /\ scan.pc = "close" => scan.stream = "normal"]_vars
=============================================================================
