----------------------------- MODULE MCHeartbeat -----------------------------
(* One heartbeat, a ping and a PATCH in flight, two workers; no website, no node. *)
EXTENDS Monitoring

Beats(A) == A /\ UNCHANGED <<vars, leases>>

\* The steps and the fairness of Heartbeat.
MCSpec ==
  /\ Init /\ H!Init /\ L!Init /\ [][Beats(H!Next)]_<<vars, heartbeat, leases>>
  /\ H!Fairness
=============================================================================
