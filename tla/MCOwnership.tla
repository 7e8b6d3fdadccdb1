----------------------------- MODULE MCOwnership -----------------------------
(***************************************************************************)
(* Small instances of what a person can own (Holdings). A run is of one of     *)
(* the three parts, and the other two stay as they began.                     *)
(*                                                                          *)
(* Ownership: two people, whose plans allow two projects and one, who start     *)
(* with the ids 1 to 3; no behaviour takes more than MaxIds. Addresses:         *)
(* two hosts of two domains, two visits from one address. Own hosts: two pages *)
(* and two domains, the three days of grace as two.                       *)
(***************************************************************************)
EXTENDS Holdings

CONSTANTS
  a, b, c1, c2, n1, d1, i1, m1, w1, l1, v1,
  MaxIds  \* bound on the tenants and projects of Ownership, numbered as one

MCPeople == {a, b}
MCWho == [c \in Claims \cup Creates \cup Deletes \cup Issues |-> IF c = c2 THEN b ELSE a]
MCPlan == [x \in MCPeople |-> IF x = a THEN 2 ELSE 1]

\* Each host is of a registrable domain of its own; every visit comes from one address.
MCRegistrable == [h \in Hosts |-> h]
MCAddress == [v \in Visits |-> 1]

VARIABLE part  \* which of the three the run is of

MCInit ==
  /\ part \in {"ownership", "address", "host"}
  /\ Init /\ S!Init /\ D!Init
  /\ part # "address" => named = <<>>
  /\ part # "host" => carried = {}

MCVars == <<part, vars, addresses, ownHosts>>

MCNext ==
  /\ UNCHANGED part
  /\ \/ part = "ownership" /\ Next /\ next' <= MaxIds /\ UNCHANGED <<addresses, ownHosts>>
     \/ part = "address" /\ S!Next /\ UNCHANGED <<vars, ownHosts>>
     \/ part = "host" /\ D!Next /\ UNCHANGED <<vars, addresses>>

MCSpec == MCInit /\ [][MCNext]_MCVars

MCTypeOK == TypeOK /\ S!TypeOK /\ D!TypeOK
=============================================================================
