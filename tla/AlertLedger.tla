----------------------------- MODULE AlertLedger -----------------------------
(***************************************************************************)
(* What the delivery pipeline promises about one alert and one recipient:   *)
(* an alert that was raised is owed until it is known to be delivered or is  *)
(* given up; both are final, and copies go out only while it is owed.  A     *)
(* copy nobody hears of leaves it owed.  DeliveryQueue is shown to implement *)
(* this.                                                                    *)
(***************************************************************************)
EXTENDS Naturals

CONSTANT Alerts

VARIABLES
  status,  \* of each alert
  copies   \* how many of it the recipient has got

Init ==
  /\ status = [a \in Alerts |-> "absent"]
  /\ copies = [a \in Alerts |-> 0]

Becomes(a, from, to) == status[a] = from /\ status' = [status EXCEPT ![a] = to]
Arrives(a) == copies' = [copies EXCEPT ![a] = @ + 1]

Raise(a) == Becomes(a, "absent", "owed") /\ UNCHANGED copies
Deliver(a) == Becomes(a, "owed", "delivered") /\ Arrives(a)
DeliverUnheard(a) == status[a] = "owed" /\ Arrives(a) /\ UNCHANGED status
GiveUp(a) == Becomes(a, "owed", "abandoned") /\ UNCHANGED copies

Next == \E a \in Alerts : Raise(a) \/ Deliver(a) \/ DeliverUnheard(a) \/ GiveUp(a)

Spec == Init /\ [][Next]_<<status, copies>>
=============================================================================
