------------------------------- MODULE MCOutage -------------------------------
(* TLC instance of Outage: one monitor, alarmed after two bad answers or one   *)
(* unmeasured one, and two SubmitResults calls in flight.  Its properties are  *)
(* liveness and action properties, so no symmetry set is declared.             *)
EXTENDS Outage
===============================================================================
