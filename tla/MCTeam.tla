------------------------------- MODULE MCTeam -------------------------------
(* TLC instance of Team.  Every member's address starts as a destination; a    *)
(* run starts without links, or with all of them minted in one project and    *)
(* none of them redeemed yet.                                                 *)
EXTENDS Team, TLC

Usual ==
  /\ channels = {Address(pr[1], pr[2].of) : pr \in {s \in served : s[2].kind = "mail"}}
  /\ \/ links = <<>>
     \/ /\ Len(links) = MaxLinks
        /\ \A r \in There : r.kind = "mail"
        /\ \A i, j \in LinkIds : links[i].project = links[j].project

MCInit == Init /\ Usual
MCSpec == MCInit /\ [][Next]_vars

Symmetry == Permutations(Projects) \cup Permutations(Calls)
=============================================================================
