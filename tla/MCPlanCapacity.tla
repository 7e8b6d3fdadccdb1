---------------------------- MODULE MCPlanCapacity ----------------------------
(* Two projects with a check each, and plans that carry one project and one    *)
(* check, or more.                                                            *)
EXTENDS PlanCapacity

MCHome == <<1, 2>>
MCPlans == {[projects |-> 1, checks |-> 1], [projects |-> 2, checks |-> 1], [projects |-> 2, checks |-> 2]}
=============================================================================
