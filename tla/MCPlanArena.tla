----------------------------- MODULE MCPlanArena -----------------------------
EXTENDS PlanArena

(* Hits, replacement, a plan that comes back, and a refused request        *)
(* before, between and after plans.                                        *)
RequestPrograms == {
    <<"k1", "k1", "k2", "k1">>,
    <<"k1", "bad", "k1", "k1">>,
    <<"bad", "bad", "k2", "k2">>}
===============================================================================
