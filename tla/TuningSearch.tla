---------------------------- MODULE TuningSearch ----------------------------
(***************************************************************************)
(* tool/search.py: the parent tries the candidate GEMM algorithms until    *)
(* one has a stable execution order, looks for the best division of its    *)
(* output into segments, by prediction or by measuring them all, and saves *)
(* it.  Whatever is measured is measured in a session: one process per     *)
(* GPU, spawned for it, with a broker key of its own.  The processes run   *)
(* collectives, so that none gets on without the others; they meet in a    *)
(* barrier before the first and twice after the last of them, in a         *)
(* `finally'.  The parent sees a failure only when a process has exited.   *)
(***************************************************************************)
EXTENDS TuningLayout

CONSTANTS
    N,           \* ranks, one process each
    Collectives, \* overlapped GEMMs per session (120 or 220 in the code)
    Tiles,       \* Tiles[c]: the number of tiles of the c-th candidate
    Setups,      \* records: predictive?, SMs (compute_sms, slack), group sizes
    Orders(_),   \* the orders in which so many tiles may be computed
    Durations,   \* what a measurement may yield
    WaveTime,    \* duration of one wave
    CommTime(_)  \* the bandwidth curve: time to communicate so many tiles

ASSUME SearchAssumption ==
    /\ N \in Nat \ {0, 1}
    /\ Collectives \in Nat \ {0}
    /\ Tiles \in Seq(Nat \ {0}) /\ Tiles # <<>>
    /\ Setups \subseteq [predictive : BOOLEAN, sms : Nat \ {0}, slack : Nat,
                          nominal : Nat \ {0}, minGroup : Nat \ {0}]
    /\ WaveTime \in Nat
    /\ \A c \in DOMAIN Tiles :
          /\ Orders(Tiles[c]) \subseteq [0..(Tiles[c] - 1) -> Nat]
          /\ \A tiles \in 1..Tiles[c] : CommTime(tiles) \in Nat

Ranks == 0..(N - 1)

VARIABLES
    setup,      \* how this search was called
    phase,      \* where the parent is
    cand,       \* the candidate it tries or has selected
    stable,     \* stable_per_window, as rank 0 found it
    hint,       \* the hint made of it
    divisions,  \* the divisions into segments that are considered
    unmeasured, \* those of them that are still to be measured
    target,     \* the segments the session measures
    measured,   \* the segments measured so far, with the durations
    saved,      \* the solution file
    process,    \* where the processes of the session are
    calls,      \* calls[w]: collectives that w has launched
    waits,      \* waits[w]: how often w has called barrier.wait
    failing     \* who raises in this session, after how many collectives

parentVars == <<setup, phase, cand, stable, hint, divisions, unmeasured, target, measured, saved>>
workerVars == <<process, calls, waits>>
searchVars == <<parentVars, workerVars, failing>>

Nothing == <<>>
InInit == -1
Failing == [who : SUBSET Ranks, at : InInit..Collectives]

(* The failures after which everybody hangs: some rank, not all, leaves    *)
(* the sequence of collectives in the middle.                              *)
Lone == failing.who \notin {{}, Ranks} /\ failing.at \in 0..(Collectives - 1)

SearchInit ==
    /\ setup \in Setups
    /\ phase = "choose"
    /\ cand = 1
    /\ stable = Nothing
    /\ hint = Nothing
    /\ divisions = {}
    /\ unmeasured = {}
    /\ target = Nothing
    /\ measured = Nothing
    /\ saved = Nothing
    /\ process = [w \in Ranks |-> "none"]
    /\ calls = [w \in Ranks |-> 0]
    /\ waits = [w \in Ranks |-> 0]
    /\ failing = [who |-> {}, at |-> 0]

-------------------------------------------------------------------------------
(* What the parent derives from the candidate and its hint *)

WSize == setup.nominal * setup.sms
Group(s) == EffectiveGroup(s, Tiles[cand], WSize, setup.sms, setup.nominal)

(* The waves are divided in units of the effective group, by exhaustive    *)
(* search wave by wave; prediction leaves out what starts late and cuts    *)
(* often.                                                                  *)
Divisions(s) ==
    LET group == IF setup.predictive THEN Group(s) ELSE 1
        n == DivUp(DivUp(Tiles[cand], setup.sms), group)
    IN {Segments(u, Tiles[cand], setup.sms, group) :
           u \in {u \in Compositions(n) : ~(setup.predictive /\ Len(u) > 5 /\ u[1] > 2)}}

Comp(seg) == WaveTime * DivUp(seg, setup.sms)
(* The GEMM without overlap has all SMs, those left to communication too.  *)
Gemm == WaveTime * DivUp(Tiles[cand], setup.sms + setup.slack)

(* Faulty: communication is not held up by the communication before it.    *)
FaultyPredict(seg) ==
    IF Len(seg) = 1 THEN Gemm + CommTime(seg[1])
    ELSE Total([i \in DOMAIN seg |-> Comp(seg[i])]) + CommTime(Last(seg))

(* predict_lat: what one segment takes without overlap, else the time at   *)
(* which the last communication ends.                                      *)
Predict(seg) ==
    IF Len(seg) = 1 THEN Gemm + CommTime(seg[1])
    ELSE LET computed == Ends([i \in DOMAIN seg |-> Comp(seg[i])])
             done[i \in 1..Len(seg)] ==
                 Max({computed[i], IF i = 1 THEN 0 ELSE done[i - 1]}) + CommTime(seg[i])
         IN done[Len(seg)]

Layout == ReorderIndices(Tiles[cand], hint)

(* fast_search predicts all divisions and measures the first of the best;  *)
(* exhaustive_search measures them all.                                    *)
ToMeasure(D) ==
    IF ~setup.predictive THEN D
    ELSE LET least == Min({Predict(d) : d \in D})
         IN {CHOOSE d \in D : Predict(d) = least}

-------------------------------------------------------------------------------
(* The parent *)

Spawn ==
    /\ process' = [w \in Ranks |-> "spawned"]
    /\ calls' = [w \in Ranks |-> 0]
    /\ waits' = [w \in Ranks |-> 0]
    /\ failing' \in Failing

ComputeHint ==
    /\ phase = "choose"
    /\ phase' = "hint"
    /\ Spawn
    /\ UNCHANGED <<setup, cand, stable, hint, divisions, unmeasured, target, measured, saved>>

Acceptable(s) == Group(s) >= setup.minGroup

NextCandidate ==
    /\ phase' = IF cand = Len(Tiles) THEN "failed" ELSE "choose"
    /\ cand' = IF cand = Len(Tiles) THEN cand ELSE cand + 1

Exited == \A w \in Ranks : process[w] = "exit0"

Observations ==
    {StablePerWindow({round[1], round[2]}, Tiles[cand], WSize) : round \in [1..2 -> Orders(Tiles[cand])]}

(* All exited: the verdict of rank 0 is taken.                             *)
HintDone ==
    /\ phase = "hint" /\ Exited
    /\ \E s \in Observations :
          IF Acceptable(s)
          THEN /\ phase' = "search"
               /\ stable' = s
               /\ hint' = Hint(s)
               /\ divisions' = Divisions(s)
               /\ unmeasured' = ToMeasure(divisions')
               /\ UNCHANGED cand
          ELSE NextCandidate /\ UNCHANGED <<stable, hint, divisions, unmeasured>>
    /\ process' = [w \in Ranks |-> "none"]
    /\ UNCHANGED <<setup, target, measured, saved, calls, waits, failing>>

Measure ==
    /\ phase = "search"
    /\ unmeasured # {}
    /\ target' = CHOOSE d \in unmeasured : TRUE
    /\ unmeasured' = unmeasured \ {target'}
    /\ phase' = "measure"
    /\ Spawn
    /\ UNCHANGED <<setup, cand, stable, hint, divisions, measured, saved>>

Best(ms) == {m \in ToSet(ms) : \A k \in ToSet(ms) : m.dur <= k.dur}

(* The slowest rank counts.  After the last division the best is saved.    *)
MeasureDone ==
    /\ phase = "measure" /\ Exited
    /\ \E dur \in [Ranks -> Durations] :
          measured' = Append(measured, [seg |-> target, dur |-> Max({dur[w] : w \in Ranks})])
    /\ IF unmeasured = {}
       THEN /\ phase' = "saved"
            /\ saved' \in {[cand |-> cand, seg |-> m.seg, dur |-> m.dur,
                            order |-> FullTileOrder(Tiles[cand], hint),
                            map |-> ReorderMap(FullTileOrder(Tiles[cand], hint))] :
                             m \in Best(measured')}
       ELSE phase' = "search" /\ UNCHANGED saved
    /\ process' = [w \in Ranks |-> "none"]
    /\ UNCHANGED <<setup, cand, stable, hint, divisions, unmeasured, target, calls, waits, failing>>

(* Faulty: the others are waited for before they are terminated.           *)
FaultySessionFailed ==
    /\ \A w \in Ranks : process[w] \in {"exit0", "exit1"}
    /\ \E w \in Ranks : process[w] = "exit1"
    /\ IF phase = "hint" THEN NextCandidate
       ELSE phase' = "failed" /\ UNCHANGED cand
    /\ process' = [w \in Ranks |-> "none"]
    /\ UNCHANGED <<setup, stable, hint, divisions, unmeasured, target, measured, saved, calls, waits, failing>>

(* mp.spawn sees that a process has failed, terminates the others and      *)
(* raises: the next candidate is tried, but a search under way is over.    *)
SessionFailed ==
    /\ \E w \in Ranks : process[w] = "exit1"
    /\ IF phase = "hint" THEN NextCandidate
       ELSE phase' = "failed" /\ UNCHANGED cand
    /\ process' = [w \in Ranks |-> "none"]
    /\ UNCHANGED <<setup, stable, hint, divisions, unmeasured, target, measured, saved, calls, waits, failing>>

-------------------------------------------------------------------------------
(* A process of the session *)

Raises(w) == w \in failing.who /\ calls[w] = failing.at
Goto(w, from, to) == process[w] = from /\ process' = [process EXCEPT ![w] = to]
Wait(w) == waits' = [waits EXCEPT ![w] = @ + 1]
Met(w) == \A v \in Ranks : waits[v] >= waits[w]

(* Before the try: an exception ends the process.                          *)
Start(w) ==
    /\ Goto(w, "spawned", IF w \in failing.who /\ failing.at = InInit THEN "exit1" ELSE "init")
    /\ UNCHANGED <<parentVars, calls, waits, failing>>

(* The backend's constructor is a rendezvous of its own.                   *)
InitBackend(w) ==
    /\ \A v \in Ranks : process[v] \notin {"spawned", "exit1"}
    /\ Goto(w, "init", "ready")
    /\ Wait(w)
    /\ UNCHANGED <<parentVars, calls, failing>>

Enter(w) ==
    /\ Met(w)
    /\ Goto(w, "ready", "try")
    /\ UNCHANGED <<parentVars, calls, waits, failing>>

Launch(w) ==
    /\ ~Raises(w) /\ calls[w] < Collectives
    /\ Goto(w, "try", "gpu")
    /\ calls' = [calls EXCEPT ![w] = @ + 1]
    /\ UNCHANGED <<parentVars, waits, failing>>

Synchronize(w) ==
    /\ \A v \in Ranks : calls[v] >= calls[w]
    /\ Goto(w, "gpu", "try")
    /\ UNCHANGED <<parentVars, calls, waits, failing>>

(* Done or raised: into the finally and its first barrier.                 *)
Finally(w) ==
    /\ Raises(w) \/ calls[w] = Collectives
    /\ Goto(w, "try", "finished")
    /\ Wait(w)
    /\ UNCHANGED <<parentVars, calls, failing>>

Release(w) ==
    /\ Met(w)
    /\ Goto(w, "finished", "released")
    /\ Wait(w)
    /\ UNCHANGED <<parentVars, calls, failing>>

Leave(w) ==
    /\ Met(w)
    /\ Goto(w, "released", IF w \in failing.who THEN "exit1" ELSE "exit0")
    /\ UNCHANGED <<parentVars, calls, waits, failing>>

-------------------------------------------------------------------------------
Parent == ComputeHint \/ HintDone \/ Measure \/ MeasureDone \/ SessionFailed

Worker(w) ==
    \/ Start(w) \/ InitBackend(w) \/ Enter(w) \/ Launch(w)
    \/ Synchronize(w) \/ Finally(w) \/ Release(w) \/ Leave(w)

SearchNext == Parent \/ \E w \in Ranks : Worker(w)

SearchSpec == SearchInit /\ [][SearchNext]_searchVars
SearchFairSpec == SearchSpec /\ WF_searchVars(Parent) /\ \A w \in Ranks : WF_searchVars(Worker(w))

-------------------------------------------------------------------------------
Selected == phase \in {"search", "saved"}

(* Every division that is tried covers all tiles, with no empty segment,   *)
(* although its units are rounded up twice, to waves and to groups; and in *)
(* the packed output no row is lost, and the rows of a segment that a      *)
(* reduce-scatter gives to one rank are contiguous, ranks in order: tiles  *)
(* have two rows here, and there are two ranks.                            *)
SegmentsCover ==
    Selected => \A d \in divisions :
        LET remap == RowRemap(d, 2, 2) IN
        /\ Total(d) = Tiles[cand]
        /\ \A i \in DOMAIN d : d[i] > 0
        /\ Cardinality({remap[row] : row \in DOMAIN remap}) = 2 * Tiles[cand]
        /\ \A i \in DOMAIN d :
              LET from == 2 * (Ends(d)[i] - d[i]) IN
              \A row \in from..(from + 2 * d[i] - 1) :
                  remap[row] \in (from + (row % 2) * d[i])..(from + ((row % 2) + 1) * d[i] - 1)

(* The point of the effective group: as long as there are full windows,    *)
(* the first k groups of the layout hold only tiles that were computed in  *)
(* the first k windows in every sample, so a segment that ends there is    *)
(* not held up by a tile that is sometimes late.                           *)
PrefixIsStable ==
    Selected => \A k \in 1..Cardinality(FullWindows(stable, Tiles[cand], WSize)) :
        \A t \in 0..(Tiles[cand] - 1) :
            Layout[t] < k * Group(stable) * setup.sms => t \in UNION {stable[j] : j \in 0..(k - 1)}

(* Prediction computes when the last communication ends if segments are    *)
(* computed one after the other, communicated one after the other, and     *)
(* none is communicated before it is computed.                             *)
PredictedIsMakespan ==
    Selected => \A d \in divisions :
        Len(d) > 1 => Predict(d) = Makespan(d, Comp, CommTime)

(* What is saved was measured with the layout that is saved, which is that *)
(* of an accepted candidate, and no division that was predicted, or        *)
(* measured, is better.                                                    *)
SavedIsBest ==
    saved # Nothing =>
        /\ saved.cand = cand /\ saved.map = Layout
        /\ Acceptable(stable)
        /\ \A t \in DOMAIN saved.map : saved.order[saved.map[t] + 1] = t
        /\ [seg |-> saved.seg, dur |-> saved.dur] \in ToSet(measured)
        /\ IF setup.predictive THEN \A d \in divisions : Predict(saved.seg) <= Predict(d)
           ELSE \A d \in divisions : \E m \in ToSet(measured) : m.seg = d /\ saved.dur <= m.dur

Ended == phase \in {"saved", "failed"}

(* The search ends, whatever fails, in all cases but one: if a rank raises *)
(* alone between two collectives it waits in the barrier of its finally    *)
(* for ranks that wait for it on the GPU, the parent is not told, and the  *)
(* search never ends.                                                      *)
SearchEnds ==
    /\ <>(Ended \/ Lone)
    /\ []~Lone \/ []~Ended
===============================================================================
