------------------------------- MODULE MCBoards -------------------------------
(* TLC instance of Boards: three requests at once, two sessions' and a key's,    *)
(* on a project of none to two boards; one card, three names.                    *)
EXTENDS Boards, TLC

Symmetry == Permutations(Sessions) \cup Permutations(Names \ {Main})
===============================================================================
