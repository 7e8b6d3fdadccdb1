---------------------------- MODULE MCProbeLease ----------------------------
(* Two nodes, two targets, terms of a few ticks that keep the order of the     *)
(* real ones (70 s + 20 s < 5 minutes); no monitor moves.                     *)
EXTENDS Monitoring

others == <<vars, heartbeat>>
Leases(A) == A /\ UNCHANGED others

\* The steps and the fairness of ProbeLease.
MCSpec ==
  /\ Init /\ H!Init /\ L!Init /\ [][Leases(L!Next)]_<<others, leases>>
  /\ L!Fairness
=============================================================================
