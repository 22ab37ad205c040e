---------------------------- MODULE MCEvaluation ----------------------------
EXTENDS Evaluation

(* One kernel that can be built in, and one that CUTLASS does not have;    *)
(* the faster one of the table is missing, and sorts before it.            *)
Kernel(loop, sched, tile) == [mainloop |-> loop, scheduler |-> sched, tile |-> tile]
OneBuiltin == {Kernel(Ws, Normal, 1), Kernel(Ws, StreamK, 1)}
TwoRows == [s \in Shapes |-> <<Kernel(Cooperative, Normal, 2), Kernel(Ws, Normal, 1)>>]

FirstSkipped(s) == {1}

Plain == [shapes |-> Shapes, slacks |-> Slacks, rerun |-> FALSE, skipProfile |-> FALSE]

(* As is; trusting profiles; running again one configuration of those.     *)
ThreeWays ==
    {Plain, [Plain EXCEPT !.skipProfile = TRUE], [Plain EXCEPT !.rerun = TRUE, !.slacks = {Min(@)}]}
===============================================================================
