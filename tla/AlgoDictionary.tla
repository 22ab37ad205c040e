--------------------------- MODULE AlgoDictionary ---------------------------
(***************************************************************************)
(* What tool/generate_instances_sm90.py, tool/gen_config_sm90.py and the   *)
(* loading part of tool/search.py have to agree on: a GEMM kernel is named *)
(* by a number, its place in the sorted list of the kernels that were      *)
(* generated.  Generating for another list of candidates renumbers them,   *)
(* while a profile on disk keeps the numbers it was written with.          *)
(***************************************************************************)
EXTENDS Integers, FiniteSets, Sequences, SequencesExt

CONSTANTS
    Builtin,     \* the combinations that are always generated
    TopMissing   \* how many rows of a missing file are added to them

ASSUME DictionaryAssumption == Builtin # {} /\ TopMissing \in Nat

(* Main loops and schedulers, in the order of their names.  A kernel's     *)
(* other attributes take part in keys as `tile' does.                      *)
Cooperative == 0
Pingpong == 1
Ws == 2
Normal == 0
StreamK == 1
Kernels == [mainloop : {Cooperative, Pingpong, Ws}, scheduler : {Normal, StreamK}, tile : Nat]

(* CUTLASS has no Stream-K for the other main loops.                       *)
IsSupported(k) == k.scheduler = StreamK => k.mainloop = Cooperative

Before(k, l) ==
    \/ k.mainloop < l.mainloop
    \/ k.mainloop = l.mainloop /\ k.scheduler < l.scheduler
    \/ k.mainloop = l.mainloop /\ k.scheduler = l.scheduler /\ k.tile < l.tile

(* The first rows of a missing file that can be generated.                 *)
LoadRows(rows) ==
    LET supported == SelectSeq(rows, IsSupported)
    IN {supported[i] : i \in 1..Min({TopMissing, Len(supported)})}

Dedupe(combos) == SetToSortSeq({k \in combos : IsSupported(k)}, Before)

(* The dictionary: from algorithm numbers to kernels.                      *)
AlgoDict(candidates) == [algo \in 0..(Len(candidates) - 1) |-> candidates[algo + 1]]

Generate(missing) == AlgoDict(Dedupe(Builtin \cup LoadRows(missing)))

(* gen_config: the rows of the profiler's table whose kernel is in the     *)
(* dictionary, with the number it has there and the kernel that is timed.  *)
Matched(rows, dict) ==
    {[algo |-> a, tile |-> dict[a].tile, timed |-> dict[a]] :
        a \in {a \in DOMAIN dict : Contains(rows, dict[a])}}

Missing(rows, dict) ==
    SelectSeq(rows, LAMBDA k : \A a \in DOMAIN dict : dict[a] # k)

(* What gen_config may write: any of the matched kernels may fail to be    *)
(* built, run or checked, and is left out.  The files are written even if  *)
(* nothing is left.                                                        *)
Profiles(rows, dict) ==
    {[config |-> measured, missing |-> Missing(rows, dict)] :
        measured \in SUBSET Matched(rows, dict)}

(* Faulty: the tile of the profile is trusted.                             *)
FaultyNormalize(config, dict) == {e \in config : e.algo \in DOMAIN dict}

(* search: unknown numbers are skipped, and the tile is that of the kernel *)
(* that has the number now, whatever the profile says.                     *)
Normalize(config, dict) ==
    {[e EXCEPT !.tile = dict[e.algo].tile] : e \in {e \in config : e.algo \in DOMAIN dict}}
===============================================================================
