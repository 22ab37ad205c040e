---------------------------- MODULE TuningLayout ----------------------------
(***************************************************************************)
(* The arithmetic of the overlap search.  A GEMM computes tiles in waves   *)
(* of `sms' tiles; its output is laid out in segments, and the reduction   *)
(* of a segment starts as soon as its tiles are there.  The search watches *)
(* in which window of the execution order each tile is computed, lays the  *)
(* tiles that never change their window out first, window by window, and   *)
(* then looks for the division into segments that hides most of the        *)
(* communication.  A tile order maps each tile to its place in the order   *)
(* of execution; a layout maps it to its place in the packed output.       *)
(***************************************************************************)
EXTENDS Integers, FiniteSets, Sequences, SequencesExt

DivUp(x, y) == (x + y - 1) \div y

Sorted(S) == [i \in 1..Cardinality(S) |->
                CHOOSE x \in S : Cardinality({y \in S : y < x}) = i - 1]

(* Running sums, and the sum. *)
Ends(seq) ==
    LET end[i \in 1..Len(seq)] == seq[i] + IF i = 1 THEN 0 ELSE end[i - 1] IN end

Total(seq) == IF Len(seq) = 0 THEN 0 ELSE Ends(seq)[Len(seq)]

-------------------------------------------------------------------------------
(* The hint *)

(* Per window the tiles that every sample of every round has in it.        *)
StablePerWindow(rounds, tiles, wSize) ==
    [k \in 0..(DivUp(tiles, wSize) - 1) |->
        {t \in 0..(tiles - 1) : \A order \in rounds : order[t] \div wSize = k}]

FullWindows(stable, tiles, wSize) == {k \in DOMAIN stable : (k + 1) * wSize <= tiles}

(* Faulty: of the last full window, not of the worst.                      *)
FaultyEffectiveGroup(stable, tiles, wSize, sms, nominal) ==
    LET full == FullWindows(stable, tiles, wSize) IN
    IF full = {} THEN Min({nominal, DivUp(tiles, sms)})
    ELSE Min({nominal, Cardinality(stable[Max(full)]) \div sms})

(* How many waves of each full window are stable.                          *)
EffectiveGroup(stable, tiles, wSize, sms, nominal) ==
    LET full == FullWindows(stable, tiles, wSize) IN
    IF full = {} THEN Min({nominal, DivUp(tiles, sms)})
    ELSE Min({nominal} \cup {Cardinality(stable[k]) \div sms : k \in full})

(* The stable tiles, window by window.                                     *)
Hint(stable) ==
    FlattenSeq([i \in 1..Cardinality(DOMAIN stable) |-> Sorted(stable[i - 1])])

(* Faulty: the unstable tiles are numbered from the start again.           *)
FaultyReorderIndices(tiles, hint) ==
    [t \in 0..(tiles - 1) |->
        IF Contains(hint, t) THEN (CHOOSE i \in DOMAIN hint : hint[i] = t) - 1
        ELSE Cardinality({u \in 0..(t - 1) : ~Contains(hint, u)})]

(* The layout that is measured: the hint's tiles, then the others.         *)
ReorderIndices(tiles, hint) ==
    [t \in 0..(tiles - 1) |->
        IF Contains(hint, t) THEN (CHOOSE i \in DOMAIN hint : hint[i] = t) - 1
        ELSE Len(hint) + Cardinality({u \in 0..(t - 1) : ~Contains(hint, u)})]

(* The order that is saved, and the layout saved with it.                  *)
FullTileOrder(tiles, hint) ==
    LET fresh == Sorted({i \in DOMAIN hint : \A j \in 1..(i - 1) : hint[j] # hint[i]}) IN
    [i \in DOMAIN fresh |-> hint[fresh[i]]] \o Sorted((0..(tiles - 1)) \ ToSet(hint))

ReorderMap(order) ==
    [t \in 0..(Len(order) - 1) |-> (CHOOSE i \in DOMAIN order : order[i] = t) - 1]

-------------------------------------------------------------------------------
(* The segments *)

(* All sequences of positive numbers that add up to n, by their cuts.      *)
Compositions(n) ==
    {LET ends == Sorted(cuts \cup {n})
     IN [i \in DOMAIN ends |-> ends[i] - (IF i = 1 THEN 0 ELSE ends[i - 1])] :
        cuts \in SUBSET (1..(n - 1))}

(* Faulty: the last segment is not cut off at the number of tiles.         *)
FaultySegments(units, tiles, sms, group) == [i \in DOMAIN units |-> units[i] * sms * group]

(* A unit is `group' waves of `sms' tiles; the last segment takes what is  *)
(* left.                                                                   *)
Segments(units, tiles, sms, group) ==
    [i \in DOMAIN units |->
        IF i < Len(units) THEN units[i] * sms * group
        ELSE Min({units[i] * sms * group, tiles - Total(Front(units)) * sms * group})]

(* Reference: two machines in sequence, each serving the segments in       *)
(* order.  Some segment is the last whose communication had not to wait.   *)
Makespan(seg, comp(_), comm(_)) ==
    Max({Total([j \in 1..i |-> comp(seg[j])])
         + Total([j \in 1..(Len(seg) - i + 1) |-> comm(seg[i + j - 1])]) : i \in DOMAIN seg})

-------------------------------------------------------------------------------
(* generate_row_remap_array: where a row goes when the rows of each        *)
(* segment are sorted, stably, by the rank a reduce-scatter gives them to. *)
RowRemap(seg, bm, world) ==
    [row \in 0..(bm * Total(seg) - 1) |->
        LET i == CHOOSE i \in DOMAIN seg : bm * (Ends(seg)[i] - seg[i]) <= row /\ row < bm * Ends(seg)[i]
            from == bm * (Ends(seg)[i] - seg[i])
            Before(q) == \/ q % world < row % world
                         \/ q % world = row % world /\ q < row
        IN from + Cardinality({q \in from..(from + bm * seg[i] - 1) : Before(q)})]
===============================================================================
