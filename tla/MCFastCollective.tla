--------------------------- MODULE MCFastCollective ---------------------------
EXTENDS FastCollective

(* Every kind; reductions and gathers following each other on the same     *)
(* inboxes, and one kind after itself on the same grid counter.            *)
TwoRankPrograms ==
    {<<"all_reduce">>, <<"reduce_scatter", "all_gather">>,
     <<"all_gather", "reduce_scatter">>, <<"all_gather", "all_gather">>}

ThreeRankPrograms == {<<"reduce_scatter", "all_gather">>}

===============================================================================
