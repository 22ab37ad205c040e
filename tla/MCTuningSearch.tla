--------------------------- MODULE MCTuningSearch ---------------------------
EXTENDS TuningSearch

(* Computed in order; with two tiles swapped in a window, across windows,  *)
(* or one of the first with the last; and backwards.                       *)
SomeOrders(n) ==
    LET Swap(a, b) == [t \in 0..(n - 1) |-> CASE t = a -> b [] t = b -> a [] OTHER -> t] IN
    {Swap(0, 0), Swap(0, 1), Swap(1, 2), Swap(0, n - 1), Swap(1, n - 1)} \cup {[t \in 0..(n - 1) |-> n - 1 - t]}

(* Prediction in groups of up to two waves; exhaustive search.             *)
BothSearches ==
    {[predictive |-> TRUE, sms |-> 1, slack |-> 1, nominal |-> 2, minGroup |-> 1],
     [predictive |-> FALSE, sms |-> 2, slack |-> 1, nominal |-> 1, minGroup |-> 1]}

TwoCandidates == <<5, 4>>

(* Communication has a start-up cost.                                      *)
StartAndSize(tiles) == 1 + tiles
===============================================================================
