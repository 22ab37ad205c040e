-------------------------- MODULE MCWindowCollective --------------------------
EXTENDS WindowCollective

Op(kind, count, ctas) == [kind |-> kind, count |-> count, ctas |-> ctas]

(* One to three windows per rank, the kinds following each other on the    *)
(* same counter and inboxes, reduce tasks on one CTA or on all; one count  *)
(* that reduce-scatter refuses.                                            *)
TwoRankPrograms ==
    {<<Op("all_reduce", 3, 1), Op("all_reduce", 2, 1)>>,
     <<Op("all_reduce", 4, 1), Op("reduce_scatter", 3, 2)>>,
     <<Op("reduce_scatter", 1, 1), Op("all_gather", 3, 1)>>,
     <<Op("all_gather", 3, 1), Op("all_reduce", 5, 1)>>}

(* One collective of three ranks, with two windows in the slices of one or *)
(* two of them; the reduce tasks of an all-reduce run on all CTAs, or      *)
(* alternate between two groups of one CTA.                                *)
ThreeRankPrograms ==
    {<<Op("all_reduce", 4, 2)>>, <<Op("all_reduce", 4, 1)>>,
     <<Op("reduce_scatter", 5, 2)>>, <<Op("all_gather", 4, 2)>>}

OneElement == {<<Op("all_reduce", 1, 1)>>}
===============================================================================
