------------------------------ MODULE ToolProofs ------------------------------
(***************************************************************************)
(* The tool's offline scripts.                                             *)
(*                                                                         *)
(* The evaluation driver, for any shapes, configurations, profiles, trials *)
(* and invocations, and any number of kills: what it tests is what it      *)
(* searched, what it reports is what the files say, and what is ok on disk *)
(* stays ok.                                                               *)
(*                                                                         *)
(* The overlap search, for any ranks, tiles, execution orders, curve,      *)
(* durations and failures: what it tries covers the output, what it lays   *)
(* out first is stable, what it predicts is the time two machines in       *)
(* sequence take, and what it saves is the best of what it tried.  Most of *)
(* this is about the operators of TuningLayout: each is computed step by   *)
(* step, and a function that satisfies the steps exists and is the only    *)
(* one.                                                                    *)
(***************************************************************************)
EXTENDS Evaluation, TuningSearch, FiniteSetTheorems, SequenceTheorems, TLAPS

(* The evaluation driver *)

PCs == {"off", "done", "shape", "profile", "unprofiled", "scenario", "search", "test"}
Results == {"ok", "failed"}
Status == Results \cup {"absent", "running"}

(* An entry of a profile is a record of these three fields. *)
Entry(e) == e = [algo |-> e.algo, tile |-> e.tile, timed |-> e.timed]

EvalTyped ==
    /\ pc \in PCs
    /\ args \in Invocations
    /\ shapes \subseteq args.shapes
    /\ left \subseteq args.slacks
    /\ trial \in Nat
    /\ file \in [ScenarioIds -> Status]
    /\ scenarios \in [ScenarioIds -> Status]
    /\ DOMAIN config = Shapes /\ DOMAIN solution = Shapes
    /\ \A s \in Shapes : \A e \in config[s] : Entry(e)

(* Where the driver is tells what it still has to do. *)
AtWork ==
    /\ pc \in {"profile", "unprofiled", "scenario", "search", "test"} => shapes # {}
    /\ pc = "profile" => left = args.slacks
    /\ pc \in {"search", "test"} => left # {}

(* The scenario being run is marked in its file, and is not one that is    *)
(* kept; of all the others memory knows what the files say.                *)
Running(i) == pc \in {"search", "test"} /\ i = sid
MemoryIsFiles ==
    ~Off => \A i \in ScenarioIds :
                /\ ~Running(i) => scenarios[i] = IF Configured(i, args) THEN file[i] ELSE "absent"
                /\ Running(i) => file[i] = "running" /\ ~Keeps(i)

(* The scenarios that are behind the driver have a result. *)
Behind(i) ==
    \/ i[1] \in args.shapes \ shapes
    \/ /\ pc \in {"unprofiled", "scenario", "search", "test"}
       /\ i[1] = shape /\ i[2] \notin left
BehindHaveResults ==
    ~Off => \A i \in args.shapes \X args.slacks : Behind(i) => scenarios[i] \in Results

(* A profile written by this invocation names kernels as the dictionary    *)
(* does: nobody generates kernels while the driver runs.                   *)
ProfileIsFresh ==
    pc \in {"scenario", "search", "test"} /\ ~args.skipProfile =>
        \A e \in config[shape] : e.algo \in DOMAIN dict => e.timed = dict[e.algo]

EvalInv ==
    /\ EvalTyped /\ AtWork /\ MemoryIsFiles /\ BehindHaveResults
    /\ ProfileIsFresh /\ TestedAsSearched
-------------------------------------------------------------------------------
(* The least element of a set of naturals is one of its elements. *)
LEMMA MinIsElement ==
  ASSUME NEW S \in SUBSET Nat, S # {}
  PROVE  Min(S) \in S
  <1>. DEFINE Below == {1 .. n : n \in S}
  <1>1. Below \subseteq FiniteSubsetsOf(Nat) /\ Below # {}
    <2>1. ASSUME NEW n \in S PROVE 1 .. n \in SUBSET Nat /\ IsFiniteSet(1 .. n)
      BY FS_Interval
    <2>. QED
      BY <2>1 DEF FiniteSubsetsOf
  <1>2. PICK x \in Below : \A y \in Below : ~(<<y, x>> \in StrictSubsetOrdering(Nat))
    BY <1>1, FS_StrictSubsetOrderingWellFounded, WFMin
  <1>3. PICK n \in S : x = 1 .. n
    OBVIOUS
  <1>4. ASSUME NEW m \in S, m < n PROVE FALSE
    <2>1. 1 .. m \subseteq 1 .. n /\ n \in 1 .. n /\ n \notin 1 .. m
      BY <1>4
    <2>2. <<1 .. m, x>> \in StrictSubsetOrdering(Nat)
      BY <1>3, <2>1 DEF StrictSubsetOrdering
    <2>. QED
      BY <1>2, <2>2
  <1>5. \A m \in S : n <= m
    BY <1>4
  <1>. QED
    BY <1>5 DEF Min

(* Where the driver is. *)
LEMMA Here ==
  ASSUME EvalTyped
  PROVE  /\ shapes # {} => shape \in shapes /\ shape \in args.shapes /\ shape \in Shapes
         /\ left # {} => slack \in left /\ slack \in args.slacks /\ slack \in Slacks
         /\ shapes # {} /\ left # {} => sid \in ScenarioIds /\ sid \in args.shapes \X args.slacks
         /\ args.shapes \X args.slacks \subseteq ScenarioIds
         /\ sid[1] = shape /\ sid[2] = slack
         /\ args.rerun \in BOOLEAN /\ args.skipProfile \in BOOLEAN
  <1>1. /\ args.shapes \subseteq Shapes /\ args.slacks \subseteq Slacks
        /\ args.rerun \in BOOLEAN /\ args.skipProfile \in BOOLEAN
    BY EvaluationAssumption DEF EvalTyped
  <1>2. shapes \in SUBSET Nat /\ left \in SUBSET Nat
    BY <1>1, EvaluationAssumption DEF EvalTyped
  <1>3. shapes # {} => shape \in shapes
    BY <1>2, MinIsElement DEF shape
  <1>4. left # {} => slack \in left
    BY <1>2, MinIsElement DEF slack
  <1>. QED
    BY <1>1, <1>3, <1>4 DEF EvalTyped, sid, ScenarioIds

(* The current scenario stays the same while the sets do. *)
LEMMA SameShape == UNCHANGED shapes => UNCHANGED shape
  BY DEF shape
LEMMA SameScenario == UNCHANGED <<shapes, left>> => UNCHANGED <<shape, slack, sid>>
  BY DEF shape, slack, sid

(* An ended process knows nothing, and the invariant asks nothing of it. *)
LEMMA ExitInv ==
  ASSUME EvalInv, NEW to \in {"off", "done"}, Exit(to), UNCHANGED <<args, file>>,
         config' = config, DOMAIN solution' = Shapes
  PROVE  EvalInv'
  <1>1. pc' = to /\ shapes' = {} /\ left' = {}
    BY DEF Exit
  <1>2. EvalTyped'
    BY <1>1 DEF EvalInv, EvalTyped, Exit, PCs, Status
  <1>3. AtWork' /\ MemoryIsFiles' /\ BehindHaveResults' /\ ProfileIsFresh' /\ TestedAsSearched'
    BY <1>1 DEF AtWork, MemoryIsFiles, BehindHaveResults, ProfileIsFresh, TestedAsSearched, Off
  <1>. QED
    BY <1>2, <1>3 DEF EvalInv

LEMMA EvalInitInv == Init => EvalInv
  <1>. SUFFICES ASSUME Init PROVE EvalInv
    OBVIOUS
  <1>1. pc = "off" /\ shapes = {} /\ left = {} /\ args \in Invocations
    BY DEF Init
  <1>2. EvalTyped
    BY <1>1 DEF Init, EvalTyped, PCs, Status
  <1>3. AtWork /\ MemoryIsFiles /\ BehindHaveResults /\ ProfileIsFresh /\ TestedAsSearched
    BY <1>1 DEF AtWork, MemoryIsFiles, BehindHaveResults, ProfileIsFresh, TestedAsSearched, Off
  <1>. QED
    BY <1>2, <1>3 DEF EvalInv

(* An invocation starts from what the files say. *)
LEMMA InvokeInv ==
  ASSUME EvalInv, NEW a \in Invocations, Invoke(a)
  PROVE  EvalInv'
  <1>1. pc' = "shape" /\ shapes' = a.shapes /\ left' = {} /\ args' = a /\ UNCHANGED <<config, solution, file>>
    BY DEF Invoke, childFiles
  <1>2. EvalTyped'
    BY <1>1 DEF EvalInv, EvalTyped, Invoke, PCs, Status
  <1>3. AtWork' /\ ProfileIsFresh' /\ TestedAsSearched'
    BY <1>1 DEF AtWork, ProfileIsFresh, TestedAsSearched
  <1>4. MemoryIsFiles'
    BY <1>1 DEF MemoryIsFiles, Invoke, Running, Configured
  <1>5. BehindHaveResults'
    BY <1>1 DEF BehindHaveResults, Behind
  <1>. QED
    BY <1>2, <1>3, <1>4, <1>5 DEF EvalInv

(* Between invocations only. *)
LEMMA RegenerateInv ==
  ASSUME EvalInv, Regenerate
  PROVE  EvalInv'
  <1>1. /\ pc \in {"off", "done"} /\ pc' = pc /\ shapes' = shapes /\ left' = left
        /\ UNCHANGED <<config, solution, file, args, trial, scenarios>>
    BY DEF Regenerate, Off, childFiles, memory
  <1>2. EvalTyped'
    BY <1>1 DEF EvalInv, EvalTyped
  <1>3. AtWork' /\ MemoryIsFiles' /\ BehindHaveResults' /\ ProfileIsFresh' /\ TestedAsSearched'
    BY <1>1 DEF AtWork, MemoryIsFiles, BehindHaveResults, ProfileIsFresh, TestedAsSearched, Off
  <1>. QED
    BY <1>2, <1>3 DEF EvalInv

LEMMA KillInv ==
  ASSUME EvalInv, Kill
  PROVE  EvalInv'
  <1>1. Exit("off") /\ UNCHANGED <<args, file>> /\ config' = config /\ DOMAIN solution' = Shapes
    BY DEF Kill, EvalInv, EvalTyped
  <1>. QED
    BY <1>1, ExitInv
-------------------------------------------------------------------------------
(* All scenarios of the shape are kept: they have a result, which is ok. *)
LEMMA SkipShapeInv ==
  ASSUME EvalInv, SkipShape
  PROVE  EvalInv'
  <1>1. /\ pc = "shape" /\ pc' = pc /\ shapes # {} /\ shapes' = shapes \ {shape} /\ left' = left
        /\ UNCHANGED <<config, solution, file, args, trial, scenarios>>
        /\ \A c \in args.slacks : Keeps(<<shape, c>>)
    BY DEF SkipShape, Drop, shape, childFiles
  <1>2. EvalTyped'
    BY <1>1 DEF EvalInv, EvalTyped
  <1>3. AtWork' /\ ProfileIsFresh' /\ TestedAsSearched'
    BY <1>1 DEF AtWork, ProfileIsFresh, TestedAsSearched
  <1>4. MemoryIsFiles'
    BY <1>1 DEF EvalInv, MemoryIsFiles, Running, Off, Keeps
  <1>5. BehindHaveResults'
    <2>. SUFFICES ASSUME NEW i \in args.shapes \X args.slacks, Behind(i)' PROVE scenarios[i] \in Results
      BY <1>1 DEF BehindHaveResults
    <2>1. CASE i[1] = shape
      <3>1. i = <<shape, i[2]>> /\ i[2] \in args.slacks
        BY <2>1
      <3>. QED
        BY <1>1, <3>1 DEF Keeps, Results
    <2>2. CASE i[1] # shape
      BY <1>1, <2>2 DEF EvalInv, BehindHaveResults, Behind, Off
    <2>. QED
      BY <2>1, <2>2
  <1>. QED
    BY <1>2, <1>3, <1>4, <1>5 DEF EvalInv

LEMMA BeginShapeInv ==
  ASSUME EvalInv, BeginShape
  PROVE  EvalInv'
  <1>1. /\ pc = "shape" /\ pc' = "profile" /\ shapes # {} /\ shapes' = shapes
        /\ left' = args.slacks
        /\ UNCHANGED <<config, solution, file, args, trial, scenarios>>
    BY DEF BeginShape, childFiles
  <1>2. EvalTyped'
    BY <1>1 DEF EvalInv, EvalTyped, PCs
  <1>3. AtWork' /\ ProfileIsFresh' /\ TestedAsSearched'
    BY <1>1 DEF AtWork, ProfileIsFresh, TestedAsSearched
  <1>4. MemoryIsFiles'
    BY <1>1 DEF EvalInv, MemoryIsFiles, Running, Off, Keeps
  <1>5. BehindHaveResults'
    BY <1>1 DEF EvalInv, BehindHaveResults, Behind, Off
  <1>. QED
    BY <1>2, <1>3, <1>4, <1>5 DEF EvalInv

(* The profile of the shape is taken as it is. *)
LEMMA SkipProfileInv ==
  ASSUME EvalInv, SkipProfile
  PROVE  EvalInv'
  <1>1. /\ pc = "profile" /\ pc' = "scenario" /\ shapes' = shapes /\ left' = left
        /\ args.skipProfile /\ shapes # {} /\ left = args.slacks
        /\ UNCHANGED <<config, solution, file, args, trial, scenarios>>
    BY DEF SkipProfile, childFiles, memory, EvalInv, AtWork
  <1>2. EvalTyped'
    BY <1>1 DEF EvalInv, EvalTyped, PCs
  <1>3. AtWork' /\ ProfileIsFresh' /\ TestedAsSearched'
    BY <1>1 DEF AtWork, ProfileIsFresh, TestedAsSearched
  <1>4. MemoryIsFiles'
    BY <1>1 DEF EvalInv, MemoryIsFiles, Running, Off, Keeps
  <1>5. BehindHaveResults'
    BY <1>1 DEF EvalInv, BehindHaveResults, Behind, Off
  <1>. QED
    BY <1>2, <1>3, <1>4, <1>5 DEF EvalInv

(* What gen_config writes is a set of entries that name the kernels timed. *)
LEMMA ProfileEntries ==
  ASSUME NEW rows, NEW d, NEW written \in Profiles(rows, d), NEW e \in written.config
  PROVE  Entry(e) /\ e.timed = d[e.algo]
  <1>1. e \in Matched(rows, d)
    BY DEF Profiles
  <1>2. PICK a \in DOMAIN d : e = [algo |-> a, tile |-> d[a].tile, timed |-> d[a]]
    BY <1>1 DEF Matched
  <1>. QED
    BY <1>2 DEF Entry

LEMMA ProfileInv ==
  ASSUME EvalInv, Profile
  PROVE  EvalInv'
  <1>1. /\ pc = "profile" /\ pc' \in {"unprofiled", "scenario"}
        /\ shapes' = shapes /\ left' = left /\ shapes # {} /\ left = args.slacks
        /\ UNCHANGED <<dict, solution, file, args, trial, scenarios>>
    BY DEF Profile, childFiles, memory, EvalInv, AtWork
  <1>2. shape' = shape
    BY <1>1, SameShape
  <1>3. \/ config' = config /\ pc' = "unprofiled"
        \/ \E written \in Profiles(Csv[shape], dict) :
               config' = [config EXCEPT ![shape] = written.config]
    BY DEF Profile, childFiles
  <1>4. /\ DOMAIN config' = Shapes
        /\ \A s \in Shapes : \A e \in config'[s] : Entry(e)
    BY <1>3, ProfileEntries DEF EvalInv, EvalTyped
  <1>5. EvalTyped'
    BY <1>1, <1>4 DEF EvalInv, EvalTyped, PCs
  <1>6. AtWork' /\ TestedAsSearched'
    BY <1>1 DEF AtWork, TestedAsSearched
  <1>7. ProfileIsFresh'
    <2>. SUFFICES ASSUME pc' = "scenario", NEW e \in config'[shape] PROVE e.timed = dict[e.algo]
      BY <1>1, <1>2 DEF ProfileIsFresh
    <2>1. PICK written \in Profiles(Csv[shape], dict) :
               config' = [config EXCEPT ![shape] = written.config]
      BY <1>3
    <2>2. e \in written.config
      BY <1>1, <2>1, Here DEF EvalInv, EvalTyped
    <2>. QED
      BY <2>2, ProfileEntries
  <1>8. MemoryIsFiles'
    BY <1>1 DEF EvalInv, MemoryIsFiles, Running, Off, Keeps
  <1>9. BehindHaveResults'
    BY <1>1 DEF EvalInv, BehindHaveResults, Behind, Off
  <1>. QED
    BY <1>5, <1>6, <1>7, <1>8, <1>9 DEF EvalInv

LEMMA EndShapeInv ==
  ASSUME EvalInv, EndShape
  PROVE  EvalInv'
  <1>1. /\ pc \in {"unprofiled", "scenario"} /\ pc' = "shape" /\ shapes # {}
        /\ shapes' = shapes \ {shape} /\ left = {} /\ left' = left
        /\ UNCHANGED <<config, solution, file, args, trial, scenarios>>
    BY DEF EndShape, Drop, shape, childFiles, EvalInv, AtWork
  <1>2. EvalTyped'
    BY <1>1 DEF EvalInv, EvalTyped, PCs
  <1>3. AtWork' /\ ProfileIsFresh' /\ TestedAsSearched'
    BY <1>1 DEF AtWork, ProfileIsFresh, TestedAsSearched
  <1>4. MemoryIsFiles'
    BY <1>1 DEF EvalInv, MemoryIsFiles, Running, Off, Keeps
  <1>5. BehindHaveResults'
    BY <1>1 DEF EvalInv, BehindHaveResults, Behind, Off
  <1>. QED
    BY <1>2, <1>3, <1>4, <1>5 DEF EvalInv

LEMMA SkipScenarioInv ==
  ASSUME EvalInv, SkipScenario
  PROVE  EvalInv'
  <1>1. /\ pc = "scenario" /\ pc' = pc /\ shapes # {} /\ shapes' = shapes
        /\ left # {} /\ left' = left \ {slack} /\ Keeps(sid)
        /\ UNCHANGED <<dict, config, solution, file, args, trial, scenarios>>
    BY DEF SkipScenario, Drop, slack, childFiles, EvalInv, AtWork
  <1>2. EvalTyped'
    BY <1>1 DEF EvalInv, EvalTyped
  <1>3. shape' = shape
    BY <1>1, SameShape
  <1>4. AtWork' /\ ProfileIsFresh' /\ TestedAsSearched'
    BY <1>1, <1>3 DEF EvalInv, AtWork, ProfileIsFresh, TestedAsSearched
  <1>5. MemoryIsFiles'
    BY <1>1 DEF EvalInv, MemoryIsFiles, Running, Off, Keeps
  <1>6. BehindHaveResults'
    <2>. SUFFICES ASSUME NEW i \in args.shapes \X args.slacks, Behind(i)' PROVE scenarios[i] \in Results
      BY <1>1 DEF BehindHaveResults
    <2>1. CASE i = sid
      BY <1>1, <2>1 DEF Keeps, Results
    <2>2. CASE i # sid
      <3>1. i[1] = shape => i[2] # slack
        BY <2>2 DEF sid
      <3>. QED
        BY <1>1, <1>3, <3>1 DEF EvalInv, BehindHaveResults, Behind, Off
    <2>. QED
      BY <2>1, <2>2
  <1>. QED
    BY <1>2, <1>4, <1>5, <1>6 DEF EvalInv
-------------------------------------------------------------------------------
(* A scenario that is not kept gets a result, in its file and in memory,   *)
(* and is behind the driver.                                               *)
LEMMA ResultInv ==
  ASSUME EvalInv, NEW to \in {"unprofiled", "scenario"}, NEW result \in Results,
         pc \in {"unprofiled", "search", "test"}, shapes # {}, left # {},
         pc' = to, pc = "unprofiled" => to = "unprofiled",
         SaveScenario(sid, result), Remember(sid, result), left' = Drop(left),
         UNCHANGED <<dict, childFiles, args, shapes>>, trial' \in Nat
  PROVE  EvalInv'
  <1>1. /\ shapes' = shapes /\ left' = left \ {slack} /\ args' = args
        /\ UNCHANGED <<dict, config, solution>>
        /\ file' = [file EXCEPT ![sid] = result]
        /\ scenarios' = [scenarios EXCEPT ![sid] = result]
    BY DEF Drop, slack, SaveScenario, Remember, childFiles
  <1>2. EvalTyped'
    BY <1>1 DEF EvalInv, EvalTyped, PCs, Status
  <1>3. shape' = shape
    BY <1>1, SameShape
  <1>4. AtWork' /\ TestedAsSearched'
    BY <1>1 DEF AtWork, TestedAsSearched
  <1>5. ProfileIsFresh'
    BY <1>1, <1>3 DEF EvalInv, ProfileIsFresh
  <1>6. Configured(sid, args) /\ sid \in ScenarioIds
    BY Here DEF EvalInv, Configured
  <1>7. MemoryIsFiles'
    <2>. SUFFICES ASSUME NEW i \in ScenarioIds
                  PROVE  scenarios'[i] = IF Configured(i, args) THEN file'[i] ELSE "absent"
      BY <1>1 DEF MemoryIsFiles, Running, Configured
    <2>1. CASE i = sid
      BY <1>1, <1>6, <2>1 DEF EvalInv, EvalTyped
    <2>2. CASE i # sid
      BY <1>1, <2>2 DEF EvalInv, EvalTyped, MemoryIsFiles, Running, Off
    <2>. QED
      BY <2>1, <2>2
  <1>8. BehindHaveResults'
    <2>. SUFFICES ASSUME NEW i \in args.shapes \X args.slacks, Behind(i)' PROVE scenarios'[i] \in Results
      BY <1>1 DEF BehindHaveResults
    <2>1. CASE i = sid
      BY <1>1, <1>6, <2>1 DEF EvalInv, EvalTyped
    <2>2. CASE i # sid
      <3>1. i[1] = shape => i[2] # slack
        BY <2>2 DEF sid
      <3>2. Behind(i)
        BY <1>1, <1>3, <3>1 DEF Behind
      <3>3. scenarios[i] \in Results
        BY <3>2 DEF EvalInv, BehindHaveResults, Off
      <3>4. i \in ScenarioIds
        BY Here DEF EvalInv
      <3>. QED
        BY <1>1, <2>2, <3>3, <3>4 DEF EvalInv, EvalTyped
    <2>. QED
      BY <2>1, <2>2
  <1>. QED
    BY <1>2, <1>4, <1>5, <1>7, <1>8 DEF EvalInv

LEMMA EndScenarioInv ==
  ASSUME EvalInv, pc \in {"search", "test"}, NEW result \in Results, EndScenario(result)
  PROVE  EvalInv'
  <1>1. shapes # {} /\ left # {}
    BY DEF EvalInv, AtWork
  <1>. QED
    BY <1>1, ResultInv DEF EndScenario

(* A kept scenario stays as it is. *)
LEMMA FailScenarioInv ==
  ASSUME EvalInv, FailScenario
  PROVE  EvalInv'
  <1>1. /\ pc = "unprofiled" /\ pc' = pc /\ shapes # {} /\ shapes' = shapes
        /\ left # {} /\ left' = left \ {slack}
        /\ UNCHANGED <<dict, config, solution, args, trial>>
    BY DEF FailScenario, Drop, slack, childFiles, EvalInv, AtWork
  <1>2. CASE ~Keeps(sid)
    BY <1>1, <1>2, ResultInv DEF FailScenario, EvalInv, EvalTyped, Results
  <1>3. CASE Keeps(sid)
    <2>1. UNCHANGED <<file, scenarios>>
      BY <1>3 DEF FailScenario
    <2>2. EvalTyped'
      BY <1>1, <2>1 DEF EvalInv, EvalTyped
    <2>3. shape' = shape
      BY <1>1, SameShape
    <2>4. AtWork' /\ ProfileIsFresh' /\ TestedAsSearched'
      BY <1>1 DEF AtWork, ProfileIsFresh, TestedAsSearched
    <2>5. MemoryIsFiles'
      BY <1>1, <2>1 DEF EvalInv, MemoryIsFiles, Running, Off, Keeps
    <2>6. BehindHaveResults'
      <3>. SUFFICES ASSUME NEW i \in args.shapes \X args.slacks, Behind(i)' PROVE scenarios[i] \in Results
        BY <1>1, <2>1 DEF BehindHaveResults
      <3>1. CASE i = sid
        BY <1>3, <3>1 DEF Keeps, Results
      <3>2. CASE i # sid
        <4>1. i[1] = shape => i[2] # slack
          BY <3>2 DEF sid
        <4>. QED
          BY <1>1, <2>3, <4>1 DEF EvalInv, BehindHaveResults, Behind, Off
      <3>. QED
        BY <3>1, <3>2
    <2>. QED
      BY <2>2, <2>4, <2>5, <2>6 DEF EvalInv
  <1>. QED
    BY <1>2, <1>3

(* The scenario is marked in its file; what memory says of it is not       *)
(* asked until it has its result.                                          *)
LEMMA BeginScenarioInv ==
  ASSUME EvalInv, BeginScenario
  PROVE  EvalInv'
  <1>1. /\ pc = "scenario" /\ pc' = "search" /\ shapes # {} /\ left # {} /\ ~Keeps(sid)
        /\ file' = [file EXCEPT ![sid] = "running"] /\ trial' = 1
        /\ UNCHANGED <<shapes, left, dict, config, solution, args, scenarios>>
    BY DEF BeginScenario, SaveScenario, childFiles, EvalInv, AtWork
  <1>2. EvalTyped'
    BY <1>1 DEF EvalInv, EvalTyped, PCs, Status
  <1>3. shape' = shape /\ sid' = sid
    BY <1>1, SameShape, SameScenario
  <1>4. AtWork' /\ ProfileIsFresh' /\ TestedAsSearched'
    BY <1>1, <1>3 DEF EvalInv, AtWork, ProfileIsFresh, TestedAsSearched
  <1>5. MemoryIsFiles'
    <2>. SUFFICES ASSUME NEW i \in ScenarioIds
                  PROVE  /\ i # sid => scenarios[i] = IF Configured(i, args) THEN file'[i] ELSE "absent"
                         /\ i = sid => file'[i] = "running" /\ ~Keeps(i)'
      BY <1>1, <1>3 DEF MemoryIsFiles, Running, Configured
    <2>1. CASE i = sid
      BY <1>1, <2>1 DEF EvalInv, EvalTyped, Keeps
    <2>2. CASE i # sid
      BY <1>1, <2>2 DEF EvalInv, EvalTyped, MemoryIsFiles, Running, Off
    <2>. QED
      BY <2>1, <2>2
  <1>6. BehindHaveResults'
    BY <1>1, <1>3 DEF EvalInv, BehindHaveResults, Behind, Off
  <1>. QED
    BY <1>2, <1>4, <1>5, <1>6 DEF EvalInv

LEMMA SkipTrialInv ==
  ASSUME EvalInv, SkipTrial
  PROVE  EvalInv'
  <1>1. /\ pc = "search" /\ pc' = pc /\ trial' = trial + 1
        /\ UNCHANGED <<shapes, left, dict, config, solution, args, scenarios, file>>
    BY DEF SkipTrial, childFiles
  <1>2. EvalTyped'
    BY <1>1 DEF EvalInv, EvalTyped
  <1>3. shape' = shape /\ sid' = sid
    BY <1>1, SameShape, SameScenario
  <1>4. AtWork' /\ ProfileIsFresh' /\ TestedAsSearched'
    BY <1>1, <1>3 DEF EvalInv, AtWork, ProfileIsFresh, TestedAsSearched
  <1>5. MemoryIsFiles'
    BY <1>1, <1>3 DEF EvalInv, MemoryIsFiles, Running, Off, Keeps
  <1>6. BehindHaveResults'
    BY <1>1, <1>3 DEF EvalInv, BehindHaveResults, Behind, Off
  <1>. QED
    BY <1>2, <1>4, <1>5, <1>6 DEF EvalInv
-------------------------------------------------------------------------------
(* A candidate has the tile that its kernel has today, and the kernel that *)
(* was timed if the profile is fresh.                                      *)
LEMMA Candidates ==
  ASSUME EvalInv, pc = "search", NEW e \in LoadShapeConfig
  PROVE  /\ e.tile = dict[e.algo].tile
         /\ ~args.skipProfile => e.timed = dict[e.algo]
  <1>1. PICK p \in config[shape] :
            p.algo \in DOMAIN dict /\ e = [p EXCEPT !.tile = dict[p.algo].tile]
    BY DEF LoadShapeConfig, Normalize
  <1>2. shape \in Shapes
    BY Here DEF EvalInv, AtWork
  <1>3. p = [algo |-> p.algo, tile |-> p.tile, timed |-> p.timed]
    BY <1>1, <1>2 DEF EvalInv, EvalTyped, Entry
  <1>4. e.algo = p.algo /\ e.tile = dict[p.algo].tile /\ e.timed = p.timed
    BY <1>1, <1>3
  <1>5. ~args.skipProfile => p.timed = dict[p.algo]
    BY <1>1 DEF EvalInv, ProfileIsFresh
  <1>. QED
    BY <1>4, <1>5

(* A trial is good only if it wrote both solutions, each a candidate.      *)
LEMMA GoodOutcome ==
  ASSUME EvalInv, pc = "search", NEW outcome \in Outcomes, TrialOk(outcome), NEW b \in Backends
  PROVE  LET sol == outcome.solution[b] IN
         /\ sol.slack = slack
         /\ sol.tile = dict[sol.algo].tile
         /\ ~args.skipProfile => sol.timed = dict[sol.algo]
  <1>. DEFINE found == {[slack |-> slack, algo |-> e.algo, tile |-> e.tile, timed |-> e.timed] :
                           e \in LoadShapeConfig}
  <1>1. outcome.written = Backends
    BY DEF TrialOk
  <1>2. "nccl" \in Backends /\ "ooverlap" \in Backends /\ Backends # {} /\ Backends # {"nccl"}
    BY DEF Backends
  <1>3. PICK n \in found, o \in found :
            outcome = [written |-> Backends,
                       solution |-> [c \in Backends |-> IF c = "nccl" THEN n ELSE o]]
    BY <1>1, <1>2 DEF Outcomes
  <1>4. outcome.solution[b] \in found
    BY <1>3
  <1>5. PICK e \in LoadShapeConfig :
            outcome.solution[b] = [slack |-> slack, algo |-> e.algo, tile |-> e.tile, timed |-> e.timed]
    BY <1>4
  <1>. QED
    BY <1>5, Candidates

LEMMA SearchTrialInv ==
  ASSUME EvalInv, SearchTrial
  PROVE  EvalInv'
  <1>1. /\ pc = "search" /\ shapes # {} /\ left # {}
        /\ UNCHANGED <<dict, config, args, file>>
    BY DEF SearchTrial, EvalInv, AtWork
  <1>2. PICK outcome \in Outcomes :
          /\ solution' = [solution EXCEPT ![shape] = outcome.solution]
          /\ IF LoadRaises(torn') THEN Exit("off")
             ELSE /\ IF TrialOk(outcome) THEN pc' = "test" /\ trial' = 1
                     ELSE trial' = trial + 1 /\ UNCHANGED pc
                  /\ UNCHANGED <<shapes, left, scenarios>>
    BY DEF SearchTrial
  <1>3. DOMAIN solution' = Shapes
    BY <1>2 DEF EvalInv, EvalTyped
  <1>4. CASE Exit("off")
    BY <1>1, <1>3, <1>4, ExitInv
  <1>5. CASE ~Exit("off")
    <2>1. /\ UNCHANGED <<shapes, left, scenarios>>
          /\ pc' \in {"search", "test"} /\ trial' \in Nat
          /\ pc' = "test" => TrialOk(outcome)
      BY <1>1, <1>2, <1>5 DEF EvalInv, EvalTyped
    <2>2. EvalTyped'
      BY <1>1, <1>3, <2>1 DEF EvalInv, EvalTyped, PCs
    <2>3. shape' = shape /\ sid' = sid /\ slack' = slack
      BY <2>1, SameShape, SameScenario
    <2>4. AtWork' /\ ProfileIsFresh'
      BY <1>1, <2>1, <2>3 DEF EvalInv, AtWork, ProfileIsFresh
    <2>5. TestedAsSearched'
      <3>. SUFFICES ASSUME TrialOk(outcome), NEW b \in Backends
                    PROVE  LET sol == solution'[shape][b] IN
                           /\ sol.slack = slack
                           /\ sol.tile = dict[sol.algo].tile
                           /\ ~args.skipProfile => sol.timed = dict[sol.algo]
        BY <1>1, <2>1, <2>3 DEF TestedAsSearched
      <3>1. solution'[shape] = outcome.solution
        BY <1>1, <1>2, Here DEF EvalInv, EvalTyped
      <3>. QED
        BY <1>1, <3>1, GoodOutcome
    <2>6. MemoryIsFiles'
      BY <1>1, <2>1, <2>3 DEF EvalInv, MemoryIsFiles, Running, Off, Keeps
    <2>7. BehindHaveResults'
      BY <1>1, <2>1, <2>3 DEF EvalInv, BehindHaveResults, Behind, Off
    <2>. QED
      BY <2>2, <2>4, <2>5, <2>6, <2>7 DEF EvalInv
  <1>. QED
    BY <1>4, <1>5

LEMMA EvalStutter == EvalInv /\ UNCHANGED vars => EvalInv'
  <1>. SUFFICES ASSUME EvalInv, UNCHANGED vars PROVE EvalInv'
    OBVIOUS
  <1>1. UNCHANGED <<dict, config, solution, file, args, pc, shapes, left, trial, scenarios>>
    BY DEF vars, childFiles, memory
  <1>2. UNCHANGED <<shape, slack, sid>>
    BY <1>1, SameScenario
  <1>3. EvalTyped' /\ AtWork' /\ ProfileIsFresh'
    BY <1>1, <1>2 DEF EvalInv, EvalTyped, AtWork, ProfileIsFresh
  <1>4. MemoryIsFiles' /\ BehindHaveResults'
    BY <1>1, <1>2 DEF EvalInv, MemoryIsFiles, Running, Off, Keeps, BehindHaveResults, Behind
  <1>5. TestedAsSearched'
    BY <1>1, <1>2 DEF EvalInv, TestedAsSearched
  <1>. QED
    BY <1>3, <1>4, <1>5 DEF EvalInv

LEMMA EvalNextInv ==
  ASSUME EvalInv, Next
  PROVE  EvalInv'
  <1>1. CASE Finish
    BY <1>1, ExitInv DEF Finish, childFiles, EvalInv, EvalTyped
  <1>2. CASE RaiseTornProfile
    BY <1>2, ExitInv DEF RaiseTornProfile, childFiles, EvalInv, EvalTyped
  <1>3. CASE SearchFailed
    BY <1>3, EndScenarioInv DEF SearchFailed, Results
  <1>4. CASE Test
    BY <1>4, EndScenarioInv DEF Test, Results
  <1>. QED
    BY <1>1, <1>2, <1>3, <1>4, SkipShapeInv, BeginShapeInv, SkipProfileInv, ProfileInv,
       FailScenarioInv, EndShapeInv, SkipScenarioInv, BeginScenarioInv, SkipTrialInv,
       SearchTrialInv, RegenerateInv, KillInv, InvokeInv DEF Next, Step

(* What the files, the memory and the place of the driver have to do with  *)
(* each other, after any number of kills and invocations.                  *)
THEOREM EvalInvariant == Spec => []EvalInv
  <1>1. EvalInv /\ [Next]_vars => EvalInv'
    BY EvalNextInv, EvalStutter
  <1>. QED
    BY EvalInitInv, <1>1, PTL DEF Spec

(* test.py is run on the solutions that this search wrote for this number  *)
(* of SMs, of kernels that the dictionary has today.                       *)
THEOREM TestsWhatItSearched == Spec => []TestedAsSearched
  BY EvalInvariant, PTL DEF EvalInv

(* What is summarised at the end is what the files say, and complete.      *)
THEOREM SummaryIsFiles == Spec => []ResultIsFiles
  <1>1. EvalInv => ResultIsFiles
    <2>. SUFFICES ASSUME EvalInv, pc = "shape", shapes = {}
                  PROVE  /\ \A i \in ScenarioIds :
                                scenarios[i] = IF i[2] \in args.slacks THEN file[i] ELSE "absent"
                         /\ \A i \in args.shapes \X args.slacks : scenarios[i] \in {"ok", "failed"}
      BY DEF ResultIsFiles
    <2>1. \A i \in ScenarioIds : scenarios[i] = IF i[2] \in args.slacks THEN file[i] ELSE "absent"
      BY DEF EvalInv, MemoryIsFiles, Running, Configured, Off
    <2>2. \A i \in args.shapes \X args.slacks : scenarios[i] \in Results
      BY DEF EvalInv, BehindHaveResults, Behind, Off
    <2>. QED
      BY <2>1, <2>2 DEF Results
  <1>. QED
    BY EvalInvariant, <1>1, PTL

(* Only a rerun replaces the file of a scenario that is ok: any other that *)
(* is written is one that memory does not know as ok, and memory knows     *)
(* what the file says.                                                     *)
LEMMA WritesSpareOk ==
  ASSUME EvalInv, Next, NEW i \in ScenarioIds, file[i] = "ok", file'[i] # "ok"
  PROVE  args.rerun
  <1>1. CASE FailScenario \/ BeginScenario
    <2>1. pc \in {"unprofiled", "scenario"} /\ ~Keeps(sid) /\ i = sid
      BY <1>1 DEF FailScenario, BeginScenario, SaveScenario, EvalInv, EvalTyped
    <2>2. left # {} /\ shapes # {}
      BY <1>1 DEF FailScenario, BeginScenario, EvalInv, AtWork
    <2>3. Configured(sid, args)
      BY <2>2, Here DEF EvalInv, Configured
    <2>4. scenarios[i] = file[i]
      BY <2>1, <2>3 DEF EvalInv, MemoryIsFiles, Running, Off
    <2>. QED
      BY <2>1, <2>4 DEF Keeps
  <1>2. CASE pc \in {"search", "test"} /\ \E result \in Results : EndScenario(result)
    <2>1. i = sid
      BY <1>2 DEF EndScenario, SaveScenario, EvalInv, EvalTyped
    <2>. QED
      BY <1>2, <2>1 DEF EvalInv, MemoryIsFiles, Running, Off
  <1>3. CASE UNCHANGED file
    BY <1>3
  <1>4. SearchFailed \/ Test => pc \in {"search", "test"} /\ \E result \in Results : EndScenario(result)
    BY DEF SearchFailed, Test, Results
  <1>5. \/ SkipShape \/ BeginShape \/ Finish \/ RaiseTornProfile \/ SkipProfile \/ Profile
        \/ EndShape \/ SkipScenario \/ SkipTrial \/ SearchTrial \/ Regenerate \/ Kill
        \/ (\E a \in Invocations : Invoke(a))
        => UNCHANGED file
    BY DEF SkipShape, BeginShape, Finish, RaiseTornProfile, SkipProfile, Profile, EndShape,
           SkipScenario, SkipTrial, SearchTrial, Regenerate, Kill, Invoke
  <1>. QED
    BY <1>1, <1>2, <1>3, <1>4, <1>5 DEF Next, Step

(* No kill, no resumed invocation and no failing profile takes a result    *)
(* away that was ok.                                                       *)
THEOREM OkIsKept == Spec => OkKept
  <1>1. EvalInv /\ Next => \A i \in ScenarioIds : file[i] = "ok" /\ file'[i] # "ok" => args.rerun
    BY WritesSpareOk
  <1>. QED
    BY EvalInvariant, <1>1, PTL DEF Spec, OkKept

-------------------------------------------------------------------------------
(* Least and greatest numbers, and functions defined step by step *)

(* Any numbers, even infinitely many, have a least one. *)
LEMMA LeastOf ==
  ASSUME NEW S \in SUBSET Nat, S # {}
  PROVE  \E n \in S : \A m \in S : n <= m
  <1>. DEFINE Below == {1 .. n : n \in S}
  <1>1. Below \subseteq FiniteSubsetsOf(Nat) /\ Below # {}
    <2>1. ASSUME NEW n \in S PROVE 1 .. n \in SUBSET Nat /\ IsFiniteSet(1 .. n)
      BY FS_Interval
    <2>. QED
      BY <2>1 DEF FiniteSubsetsOf
  <1>2. PICK x \in Below : \A y \in Below : ~(<<y, x>> \in StrictSubsetOrdering(Nat))
    BY <1>1, FS_StrictSubsetOrderingWellFounded, WFMin
  <1>3. PICK n \in S : x = 1 .. n
    OBVIOUS
  <1>4. ASSUME NEW m \in S, m < n PROVE FALSE
    <2>1. 1 .. m \subseteq 1 .. n /\ n \in 1 .. n /\ n \notin 1 .. m
      BY <1>4
    <2>2. <<1 .. m, x>> \in StrictSubsetOrdering(Nat)
      BY <1>3, <2>1 DEF StrictSubsetOrdering
    <2>. QED
      BY <1>2, <2>2
  <1>. QED
    BY <1>4

(* Min finds it. *)
LEMMA LeastIs ==
  ASSUME NEW S \in SUBSET Nat, S # {}
  PROVE  Min(S) \in S /\ \A m \in S : Min(S) <= m
  <1>1. \E n \in S : \A m \in S : n <= m
    BY LeastOf
  <1>. QED
    BY <1>1 DEF Min

(* The lesser of two numbers. *)
LEMMA LeastOfTwo ==
  ASSUME NEW a \in Nat, NEW b \in Nat
  PROVE  Min({a, b}) = IF a <= b THEN a ELSE b
  <1>1. Min({a, b}) \in {a, b} /\ \A m \in {a, b} : Min({a, b}) <= m
    BY LeastIs
  <1>. QED
    BY <1>1

(* What no number of a set exceeds is its greatest. *)
LEMMA GreatestIs ==
  ASSUME NEW S \in SUBSET Int, NEW g \in S, \A m \in S : m <= g
  PROVE  Max(S) = g
  <1>1. \E x \in S : \A m \in S : x >= m
    OBVIOUS
  <1>2. Max(S) \in S /\ \A m \in S : Max(S) >= m
    BY <1>1 DEF Max
  <1>3. Max(S) \in Int /\ Max(S) <= g /\ Max(S) >= g /\ g \in Int
    BY <1>2
  <1>. QED
    BY <1>3

(* The greater of two numbers. *)
LEMMA GreatestOfTwo ==
  ASSUME NEW a \in Int, NEW b \in Int
  PROVE  Max({a, b}) = IF a >= b THEN a ELSE b
  <1>1. CASE a >= b
    BY <1>1, GreatestIs
  <1>2. CASE ~(a >= b)
    BY <1>2, GreatestIs
  <1>. QED
    BY <1>1, <1>2

(* What is defined step by step exists. *)
Stepwise(h, n, base, step) == \A i \in 1..n : h[i] = step[i][IF i = 1 THEN base ELSE h[i - 1]]

LEMMA Recursion ==
  ASSUME NEW n \in Nat, NEW X, NEW base \in X, NEW step \in [1..n -> [X -> X]]
  PROVE  \E h \in [1..n -> X] : Stepwise(h, n, base, step)
  <1>. USE DEF Stepwise
  <1>. DEFINE Reached(m) ==
                \E h \in [1..m -> X] :
                   \A i \in 1..m : h[i] = step[i][IF i = 1 THEN base ELSE h[i - 1]]
              Missed == {m \in 0..n : ~Reached(m)}
  <1>1. SUFFICES ASSUME Missed # {} PROVE FALSE
    <2>1. n \in 0..n
      OBVIOUS
    <2>. QED
      BY <2>1
  <1>2. PICK m \in Missed : \A k \in Missed : m <= k
    <2>1. Missed \in SUBSET Nat
      OBVIOUS
    <2>. HIDE DEF Missed
    <2>. QED
      BY <1>1, <2>1, LeastOf
  <1>3. m # 0
    <2>1. \E h \in [1..0 -> X] : TRUE
      <3>1. [i \in 1..0 |-> base] \in [1..0 -> X]
        OBVIOUS
      <3>. QED
        BY <3>1
    <2>2. Reached(0)
      <3>1. 1..0 = {}
        OBVIOUS
      <3>. QED
        BY <2>1, <3>1
    <2>. HIDE DEF Reached
    <2>. QED
      BY <2>2
  <1>4. m - 1 \in 0..n /\ m - 1 \notin Missed /\ m \in 1..n
    <2>1. m \in 0..n
      OBVIOUS
    <2>. HIDE DEF Missed
    <2>. QED
      BY <2>1, <1>2, <1>3
  <1>5. Reached(m - 1)
    BY <1>4
  <1>6. PICK h \in [1..(m - 1) -> X] :
           \A i \in 1..(m - 1) : h[i] = step[i][IF i = 1 THEN base ELSE h[i - 1]]
    BY <1>5
  <1>. DEFINE y == IF m = 1 THEN base ELSE h[m - 1]
              g == [i \in 1..m |-> IF i < m THEN h[i] ELSE step[m][y]]
  <1>7. y \in X
    BY <1>4
  <1>8. step[m][y] \in X
    BY <1>4, <1>7
  <1>9. g \in [1..m -> X]
    BY <1>4, <1>8
  <1>10. ASSUME NEW i \in 1..m
         PROVE  g[i] = step[i][IF i = 1 THEN base ELSE g[i - 1]]
    <2>1. CASE i < m
      <3>1. i \in 1..(m - 1) /\ g[i] = h[i]
        BY <2>1, <1>4
      <3>2. i # 1 => i - 1 \in 1..m /\ i - 1 < m /\ g[i - 1] = h[i - 1]
        BY <2>1, <1>4
      <3>. QED
        BY <3>1, <3>2, <1>6
    <2>2. CASE i = m
      <3>1. g[i] = step[m][y]
        BY <2>2, <1>4
      <3>2. i # 1 => i - 1 \in 1..m /\ i - 1 < m /\ g[i - 1] = h[i - 1]
        BY <2>2, <1>4
      <3>. QED
        BY <3>1, <3>2, <2>2
    <2>. QED
      BY <2>1, <2>2, <1>4
  <1>11. Reached(m)
    BY <1>9, <1>10
  <1>. HIDE DEF Reached
  <1>. QED
    BY <1>11

-------------------------------------------------------------------------------
(* Running sums *)

Upto(seq, i) == IF i = 0 THEN 0 ELSE Ends(seq)[i]

(* The running sums satisfy the steps they are defined by. *)
LEMMA EndsAre ==
  ASSUME NEW seq \in Seq(Int)
  PROVE  /\ Ends(seq) \in [1..Len(seq) -> Int]
         /\ \A i \in 1..Len(seq) :
               Ends(seq)[i] = seq[i] + (IF i = 1 THEN 0 ELSE Ends(seq)[i - 1])
  <1>. DEFINE n == Len(seq)
              step == [i \in 1..n |-> [x \in Int |-> seq[i] + x]]
              Solves(end) == end = [i \in 1..n |-> seq[i] + IF i = 1 THEN 0 ELSE end[i - 1]]
  <1>1. n \in Nat /\ \A i \in 1..n : seq[i] \in Int
    BY ElementOfSeq
  <1>2. step \in [1..n -> [Int -> Int]]
    BY <1>1
  <1>3. PICK h \in [1..n -> Int] :
           \A i \in 1..n : h[i] = step[i][IF i = 1 THEN 0 ELSE h[i - 1]]
    <2>. DEFINE X == Int
                zero == 0
    <2>1. n \in Nat /\ zero \in X /\ step \in [1..n -> [X -> X]]
      BY <1>1, <1>2
    <2>. HIDE DEF step, n, X, zero
    <2>2. \E h \in [1..n -> X] : Stepwise(h, n, zero, step)
      BY <2>1, Recursion
    <2>. QED
      BY <2>2 DEF X, zero, Stepwise
  <1>4. ASSUME NEW i \in 1..n PROVE h[i] = seq[i] + (IF i = 1 THEN 0 ELSE h[i - 1])
    <2>1. (IF i = 1 THEN 0 ELSE h[i - 1]) \in Int
      <3>1. i # 1 => i - 1 \in 1..n
        BY <1>1
      <3>. QED
        BY <3>1
    <2>. QED
      BY <1>3, <2>1
  <1>5. Solves(h)
    BY <1>3, <1>4
  <1>6. Solves(Ends(seq))
    BY <1>5 DEF Ends
  <1>7. ASSUME NEW e, Solves(e) PROVE /\ DOMAIN e = 1..n
                                      /\ \A i \in 1..n : e[i] = seq[i] + (IF i = 1 THEN 0 ELSE e[i - 1])
    BY <1>7
  <1>. DEFINE E == Ends(seq)
  <1>. HIDE DEF E
  <1>8. /\ E = [i \in 1..n |-> E[i]]
        /\ \A i \in 1..n : E[i] = seq[i] + (IF i = 1 THEN 0 ELSE E[i - 1])
    <2>1. Solves(E)
      BY <1>6 DEF E
    <2>. QED
      BY <2>1
  <1>. DEFINE Odd == {i \in 1..n : E[i] \notin Int}
  <1>9. Odd = {}
    <2>1. SUFFICES ASSUME Odd # {} PROVE FALSE
      OBVIOUS
    <2>2. PICK i \in Odd : \A k \in Odd : i <= k
      <3>1. Odd \in SUBSET Nat
        BY <1>1
      <3>. HIDE DEF Odd
      <3>. QED
        BY <2>1, <3>1, LeastOf
    <2>3. i # 1 => E[i - 1] \in Int
      <3>1. i # 1 => i - 1 \in 1..n
        BY <1>1
      <3>. QED
        BY <3>1, <2>2
    <2>4. i \in 1..n /\ E[i] \notin Int /\ seq[i] \in Int
      BY <1>1
    <2>5. E[i] = seq[i] + (IF i = 1 THEN 0 ELSE E[i - 1])
      BY <1>8, <2>4
    <2>6. (IF i = 1 THEN 0 ELSE E[i - 1]) \in Int
      BY <2>3
    <2>. HIDE DEF n, Odd
    <2>. QED
      BY <2>4, <2>5, <2>6
  <1>. QED
    BY <1>8, <1>9 DEF E

-------------------------------------------------------------------------------
(* Running sums and sorting *)

(* Induction from a to n, with a set for the predicate. *)
LEMMA Climb ==
  ASSUME NEW a \in Nat, NEW n \in Nat, NEW S, a \in S,
         \A i \in a..(n - 1) : i \in S => i + 1 \in S
  PROVE  \A i \in a..n : i \in S
  <1>. DEFINE Missed == {i \in a..n : i \notin S}
  <1>1. SUFFICES ASSUME Missed # {} PROVE FALSE
    OBVIOUS
  <1>2. PICK m \in Missed : \A k \in Missed : m <= k
    <2>1. Missed \in SUBSET Nat
      OBVIOUS
    <2>. HIDE DEF Missed
    <2>. QED
      BY <1>1, <2>1, LeastOf
  <1>3. m \in a..n /\ m \notin S /\ m # a
    OBVIOUS
  <1>4. m - 1 \in a..n /\ m - 1 \notin Missed /\ m - 1 \in a..(n - 1) /\ (m - 1) + 1 = m
    <2>. HIDE DEF Missed
    <2>. QED
      BY <1>2, <1>3
  <1>. QED
    BY <1>3, <1>4

(* The running sum, from zero on. *)
LEMMA UptoIs ==
  ASSUME NEW seq \in Seq(Int)
  PROVE  /\ Upto(seq, 0) = 0
         /\ \A i \in 0..Len(seq) : Upto(seq, i) \in Int
         /\ \A i \in 1..Len(seq) : /\ Upto(seq, i) = Upto(seq, i - 1) + seq[i]
                                   /\ Ends(seq)[i] = Upto(seq, i)
                                   /\ seq[i] \in Int
         /\ Total(seq) = Upto(seq, Len(seq))
  <1>1. Len(seq) \in Nat /\ \A i \in 1..Len(seq) : seq[i] \in Int
    BY ElementOfSeq
  <1>2. /\ \A i \in 1..Len(seq) : Ends(seq)[i] \in Int
        /\ \A i \in 1..Len(seq) :
               Ends(seq)[i] = seq[i] + (IF i = 1 THEN 0 ELSE Ends(seq)[i - 1])
    BY EndsAre
  <1>3. ASSUME NEW i \in 1..Len(seq)
        PROVE  Upto(seq, i) = Upto(seq, i - 1) + seq[i] /\ Ends(seq)[i] = Upto(seq, i)
    <2>1. i # 1 => i - 1 \in 1..Len(seq) /\ Ends(seq)[i - 1] \in Int
      BY <1>1, <1>2
    <2>. QED
      BY <1>1, <1>2, <2>1 DEF Upto
  <1>4. Total(seq) = Upto(seq, Len(seq))
    BY DEF Total, Upto
  <1>. QED
    BY <1>1, <1>2, <1>3, <1>4 DEF Upto

(* Whatever grows by the elements of a sequence is its running sum. *)
LEMMA UptoUnique ==
  ASSUME NEW seq \in Seq(Int), NEW m \in 0..Len(seq), NEW f, f[0] = 0,
         \A i \in 1..m : f[i] = f[i - 1] + seq[i]
  PROVE  \A i \in 0..m : f[i] = Upto(seq, i)
  <1>. DEFINE Same == {i \in 0..m : f[i] = Upto(seq, i)}
  <1>1. Len(seq) \in Nat /\ m \in Nat
    OBVIOUS
  <1>2. 0 \in Same
    BY UptoIs, <1>1
  <1>3. ASSUME NEW i \in 0..(m - 1), i \in Same PROVE i + 1 \in Same
    <2>1. i + 1 \in 1..m /\ i + 1 \in 1..Len(seq) /\ (i + 1) - 1 = i /\ i + 1 \in 0..m
      BY <1>1
    <2>2. f[i + 1] = f[i] + seq[i + 1]
      BY <2>1
    <2>3. Upto(seq, i + 1) = Upto(seq, i) + seq[i + 1]
      BY <2>1, UptoIs
    <2>. QED
      BY <1>3, <2>1, <2>2, <2>3
  <1>4. \A i \in 0..m : i \in Same
    <2>. HIDE DEF Same
    <2>. QED
      BY <1>1, <1>2, <1>3, Climb
  <1>. QED
    BY <1>4

(* It does not fall. *)
LEMMA UptoGrows ==
  ASSUME NEW seq \in Seq(Nat), NEW i \in 0..Len(seq), NEW j \in i..Len(seq)
  PROVE  Upto(seq, i) <= Upto(seq, j) /\ Upto(seq, i) \in Nat
  <1>1. seq \in Seq(Int) /\ Len(seq) \in Nat /\ \A k \in 1..Len(seq) : seq[k] \in Nat
    BY ElementOfSeq, SeqMonotonic, Nat \subseteq Int
  <1>. DEFINE Above(a) == {k \in a..Len(seq) : Upto(seq, a) <= Upto(seq, k)}
  <1>2. ASSUME NEW a \in 0..Len(seq) PROVE \A k \in a..Len(seq) : k \in Above(a)
    <2>0. a \in Nat
      OBVIOUS
    <2>1. a \in Above(a)
      BY <1>1, UptoIs
    <2>2. ASSUME NEW k \in a..(Len(seq) - 1), k \in Above(a) PROVE k + 1 \in Above(a)
      <3>1. k + 1 \in 1..Len(seq) /\ (k + 1) - 1 = k /\ k + 1 \in a..Len(seq) /\ k \in 0..Len(seq)
        BY <1>1
      <3>2. Upto(seq, k + 1) = Upto(seq, k) + seq[k + 1] /\ seq[k + 1] \in Nat
        BY <1>1, <3>1, UptoIs
      <3>3. Upto(seq, k) \in Int /\ Upto(seq, a) \in Int
        BY <1>1, <3>1, UptoIs
      <3>4. Upto(seq, a) <= Upto(seq, k)
        BY <2>2
      <3>. QED
        BY <3>1, <3>2, <3>3, <3>4
    <2>. HIDE DEF Above
    <2>. QED
      BY <1>1, <2>0, <2>1, <2>2, Climb
  <1>3. Upto(seq, 0) <= Upto(seq, i)
    <2>1. 0 \in 0..Len(seq) /\ i \in 0..Len(seq)
      BY <1>1
    <2>. QED
      BY <1>2, <2>1
  <1>4. Upto(seq, i) <= Upto(seq, j)
    BY <1>2
  <1>. QED
    BY <1>1, <1>3, <1>4, UptoIs

-------------------------------------------------------------------------------
(* Sorting *)

Rank(S, x) == Cardinality({y \in S : y < x})

(* A greater element of a set has more of them below it. *)
LEMMA RankGrows ==
  ASSUME NEW S \in SUBSET Nat, IsFiniteSet(S), NEW x \in S
  PROVE  /\ Rank(S, x) \in 0..(Cardinality(S) - 1)
         /\ \A z \in S : x < z => Rank(S, x) < Rank(S, z)
  <1>. DEFINE Less(w) == {y \in S : y < w}
  <1>1. ASSUME NEW w PROVE IsFiniteSet(Less(w)) /\ Cardinality(Less(w)) \in Nat
    <2>1. Less(w) \in SUBSET S
      OBVIOUS
    <2>. QED
      BY <2>1, FS_Subset, FS_CardinalityType
  <1>2. IsFiniteSet(Less(x) \cup {x}) /\ Cardinality(Less(x) \cup {x}) = Cardinality(Less(x)) + 1
    <2>1. x \notin Less(x)
      OBVIOUS
    <2>. HIDE DEF Less
    <2>. QED
      BY <2>1, <1>1, FS_AddElement
  <1>3. ASSUME NEW T, IsFiniteSet(T), Less(x) \cup {x} \subseteq T
        PROVE  Cardinality(Less(x)) + 1 <= Cardinality(T)
    <2>1. Less(x) \cup {x} \in SUBSET T
      BY <1>3
    <2>. HIDE DEF Less
    <2>. QED
      BY <2>1, <1>2, <1>3, FS_Subset
  <1>4. Cardinality(S) \in Nat /\ Cardinality(Less(x)) + 1 <= Cardinality(S)
    BY <1>3, FS_CardinalityType
  <1>5. ASSUME NEW z \in S, x < z PROVE Cardinality(Less(x)) + 1 <= Cardinality(Less(z))
    <2>1. Less(x) \cup {x} \subseteq Less(z)
      <3>1. ASSUME NEW y \in S, y < x PROVE y < z
        <4>1. y \in Nat /\ x \in Nat /\ z \in Nat
          OBVIOUS
        <4>. QED
          BY <4>1, <1>5, <3>1
      <3>. QED
        BY <1>5, <3>1
    <2>. HIDE DEF Less
    <2>. QED
      BY <1>1, <1>3, <2>1
  <1>6. \A w : Rank(S, w) = Cardinality(Less(w))
    BY DEF Rank
  <1>. HIDE DEF Less
  <1>. QED
    BY <1>1, <1>4, <1>5, <1>6

(* Sorting lists all elements, each at its rank. *)
LEMMA SortedIs ==
  ASSUME NEW S \in SUBSET Nat, IsFiniteSet(S)
  PROVE  /\ Cardinality(S) \in Nat
         /\ Sorted(S) \in Seq(S) /\ Len(Sorted(S)) = Cardinality(S)
         /\ DOMAIN Sorted(S) = 1..Cardinality(S)
         /\ \A i \in 1..Cardinality(S) : Sorted(S)[i] \in S /\ Rank(S, Sorted(S)[i]) = i - 1
         /\ \A x \in S : /\ Rank(S, x) + 1 \in 1..Cardinality(S)
                         /\ Sorted(S)[Rank(S, x) + 1] = x
         /\ \A i \in 1..Cardinality(S) : \A j \in 1..Cardinality(S) :
               i < j => Sorted(S)[i] < Sorted(S)[j]
  <1>. DEFINE n == Cardinality(S)
              rank == [x \in S |-> Rank(S, x)]
  <1>1. n \in Nat
    BY FS_CardinalityType
  <1>2. ASSUME NEW x \in S
        PROVE  Rank(S, x) \in 0..(n - 1) /\ \A z \in S : x < z => Rank(S, x) < Rank(S, z)
    BY RankGrows
  <1>3. ASSUME NEW x \in S, NEW z \in S, Rank(S, x) = Rank(S, z) PROVE x = z
    <2>1. x \in Nat /\ z \in Nat /\ Rank(S, x) \in Nat /\ Rank(S, z) \in Nat
      BY <1>1, <1>2
    <2>. QED
      BY <1>2, <1>3, <2>1
  <1>4. rank \in Injection(S, 0..(n - 1))
    BY <1>2, <1>3 DEF Injection, IsInjective
  <1>5. IsFiniteSet(0..(n - 1)) /\ Cardinality(0..(n - 1)) = n
    <2>1. 0 \in Int /\ n - 1 \in Int
      BY <1>1
    <2>2. Cardinality(0..(n - 1)) = IF 0 > n - 1 THEN 0 ELSE (n - 1) - 0 + 1
      BY <2>1, FS_Interval
    <2>. HIDE DEF n
    <2>. QED
      BY <2>1, <2>2, <1>1, FS_Interval
  <1>6. rank \in Surjection(S, 0..(n - 1))
    <2>. HIDE DEF rank
    <2>. QED
      BY <1>4, <1>5, FS_Injection
  <1>7. ASSUME NEW i \in 1..n PROVE \E x \in S : Rank(S, x) = i - 1
    <2>1. i - 1 \in 0..(n - 1)
      BY <1>1
    <2>. QED
      BY <2>1, <1>6 DEF Surjection
  <1>8. Sorted(S) = [i \in 1..n |-> CHOOSE x \in S : Rank(S, x) = i - 1]
    BY DEF Sorted, Rank
  <1>9. ASSUME NEW i \in 1..n PROVE Sorted(S)[i] \in S /\ Rank(S, Sorted(S)[i]) = i - 1
    BY <1>7, <1>8
  <1>10. ASSUME NEW x \in S PROVE Rank(S, x) + 1 \in 1..n /\ Sorted(S)[Rank(S, x) + 1] = x
    <2>1. Rank(S, x) + 1 \in 1..n /\ (Rank(S, x) + 1) - 1 = Rank(S, x)
      BY <1>1, <1>2
    <2>. QED
      BY <2>1, <1>3, <1>9
  <1>11. ASSUME NEW i \in 1..n, NEW j \in 1..n, i < j PROVE Sorted(S)[i] < Sorted(S)[j]
    <2>1. PICK x \in S : x = Sorted(S)[i] /\ Rank(S, x) = i - 1
      BY <1>9
    <2>2. PICK z \in S : z = Sorted(S)[j] /\ Rank(S, z) = j - 1
      BY <1>9
    <2>3. x # z
      BY <1>11, <2>1, <2>2
    <2>4. ~(z < x)
      BY <1>2, <1>11, <2>1, <2>2
    <2>. QED
      BY <2>1, <2>2, <2>3, <2>4
  <1>12. Sorted(S) \in [1..n -> S]
    BY <1>8, <1>9
  <1>13. Sorted(S) \in Seq(S) /\ Len(Sorted(S)) = n
    BY <1>1, <1>12
  <1>. HIDE DEF rank
  <1>. QED
    BY <1>1, <1>9, <1>10, <1>11, <1>12, <1>13

-------------------------------------------------------------------------------
(* Two machines in sequence *)

(* Prefixes and slices of running sums. *)
LEMMA TotalOfPrefix ==
  ASSUME NEW seq \in Seq(Int), NEW i \in 0..Len(seq)
  PROVE  Total([j \in 1..i |-> seq[j]]) = Upto(seq, i)
  <1>. DEFINE t == [j \in 1..i |-> seq[j]]
              f == [j \in 0..i |-> Upto(seq, j)]
  <1>1. Len(seq) \in Nat /\ i \in Nat /\ \A j \in 1..i : seq[j] \in Int /\ j \in 1..Len(seq)
    BY ElementOfSeq
  <1>2. t \in Seq(Int) /\ Len(t) = i /\ \A j \in 1..i : t[j] = seq[j]
    BY <1>1
  <1>3. f[0] = 0
    BY <1>1, UptoIs
  <1>4. ASSUME NEW j \in 1..i PROVE f[j] = f[j - 1] + t[j]
    <2>1. j \in 1..Len(seq) /\ j - 1 \in 0..i /\ j \in 0..i
      BY <1>1
    <2>2. f[j] = Upto(seq, j) /\ f[j - 1] = Upto(seq, j - 1) /\ t[j] = seq[j]
      BY <2>1
    <2>. QED
      BY <2>1, <2>2, UptoIs
  <1>5. i \in 0..Len(t)
    BY <1>1, <1>2
  <1>6. f[i] = Upto(t, i)
    <2>1. \A j \in 0..i : f[j] = Upto(t, j)
      <3>. HIDE DEF f, t
      <3>. QED
        BY <1>2, <1>3, <1>4, <1>5, UptoUnique
    <2>. QED
      BY <2>1, <1>1
  <1>7. f[i] = Upto(seq, i)
    BY <1>1
  <1>8. Total(t) = Upto(t, i)
    <2>. HIDE DEF t
    <2>. QED
      BY <1>2, UptoIs
  <1>. QED
    BY <1>6, <1>7, <1>8

(* The sum of a suffix. *)
LEMMA TotalOfSlice ==
  ASSUME NEW seq \in Seq(Int), NEW i \in 1..Len(seq)
  PROVE  Total([j \in 1..(Len(seq) - i + 1) |-> seq[i + j - 1]]) = Upto(seq, Len(seq)) - Upto(seq, i - 1)
  <1>. DEFINE m == Len(seq) - i + 1
              t == [j \in 1..m |-> seq[i + j - 1]]
              f == [j \in 0..m |-> Upto(seq, i + j - 1) - Upto(seq, i - 1)]
  <1>1. Len(seq) \in Nat /\ m \in Nat /\ i \in Nat /\ i - 1 \in 0..Len(seq) /\ i - 1 \in Nat
    OBVIOUS
  <1>2. ASSUME NEW j \in 1..m PROVE i + j - 1 \in 1..Len(seq) /\ seq[i + j - 1] \in Int
    <2>1. i + j - 1 \in 1..Len(seq)
      BY <1>1
    <2>. QED
      BY <2>1, ElementOfSeq
  <1>3. t \in Seq(Int) /\ Len(t) = m /\ \A j \in 1..m : t[j] = seq[i + j - 1]
    BY <1>1, <1>2
  <1>4. \A j \in 0..m : i + j - 1 \in 0..Len(seq) /\ Upto(seq, i + j - 1) \in Int
    <2>1. ASSUME NEW j \in 0..m PROVE i + j - 1 \in 0..Len(seq)
      BY <1>1
    <2>. QED
      BY <2>1, UptoIs
  <1>5. f[0] = 0
    <2>1. 0 \in 0..m /\ i + 0 - 1 = i - 1
      BY <1>1
    <2>2. Upto(seq, i - 1) \in Int
      BY <1>1, UptoIs
    <2>3. f[0] = Upto(seq, i - 1) - Upto(seq, i - 1)
      BY <2>1
    <2>. HIDE DEF f
    <2>. QED
      BY <2>2, <2>3
  <1>6. ASSUME NEW j \in 1..m PROVE f[j] = f[j - 1] + t[j]
    <2>1. j \in 0..m /\ j - 1 \in 0..m /\ i + (j - 1) - 1 = (i + j - 1) - 1
      BY <1>1
    <2>2. f[j] = Upto(seq, i + j - 1) - Upto(seq, i - 1)
      BY <2>1
    <2>3. f[j - 1] = Upto(seq, (i + j - 1) - 1) - Upto(seq, i - 1)
      BY <2>1
    <2>4. Upto(seq, i + j - 1) = Upto(seq, (i + j - 1) - 1) + seq[i + j - 1]
      BY <1>2, UptoIs
    <2>5. Upto(seq, (i + j - 1) - 1) \in Int /\ Upto(seq, i - 1) \in Int /\ seq[i + j - 1] \in Int
      BY <1>1, <1>2, <1>4, <2>1, UptoIs
    <2>6. t[j] = seq[i + j - 1]
      BY <1>3
    <2>. HIDE DEF f, t, m
    <2>. QED
      BY <2>2, <2>3, <2>4, <2>5, <2>6
  <1>7. f[m] = Upto(t, m)
    <2>1. m \in 0..Len(t) /\ m \in 0..m
      BY <1>1, <1>3
    <2>2. \A j \in 0..m : f[j] = Upto(t, j)
      <3>. HIDE DEF f, t, m
      <3>. QED
        BY <1>3, <1>5, <1>6, <2>1, UptoUnique
    <2>. HIDE DEF f, t
    <2>. QED
      BY <2>1, <2>2
  <1>8. f[m] = Upto(seq, Len(seq)) - Upto(seq, i - 1)
    <2>1. m \in 0..m /\ i + m - 1 = Len(seq)
      BY <1>1
    <2>. QED
      BY <2>1
  <1>9. Total(t) = Upto(t, m)
    <2>. HIDE DEF t, m
    <2>. QED
      BY <1>3, UptoIs
  <1>. HIDE DEF f
  <1>. QED
    BY <1>7, <1>8, <1>9

-------------------------------------------------------------------------------
(* Two machines in sequence.  c and k are what the segments take on the    *)
(* first and on the second, done the times at which the second is done.    *)
Pipeline(c, k, done) ==
    \A i \in 1..Len(c) : done[i] = Max({Ends(c)[i], IF i = 1 THEN 0 ELSE done[i - 1]}) + k[i]

(* What the segments take if the second machine never idles from the i-th  *)
(* on up to the m-th.                                                      *)
Path(c, k, i, m) == Upto(c, i) + Upto(k, m) - Upto(k, i - 1)

(* The second machine is done when the longest path is. *)
LEMMA LongestPath ==
  ASSUME NEW c \in Seq(Nat), NEW k \in Seq(Nat), Len(k) = Len(c),
         NEW done, Pipeline(c, k, done)
  PROVE  \A m \in 1..Len(c) :
            /\ done[m] \in Int
            /\ \A i \in 1..m : Path(c, k, i, m) <= done[m]
            /\ \E i \in 1..m : Path(c, k, i, m) = done[m]
  <1>. DEFINE Longest(m) == /\ done[m] \in Int
                            /\ \A i \in 1..m : Path(c, k, i, m) <= done[m]
                            /\ \E i \in 1..m : Path(c, k, i, m) = done[m]
              Right == {m \in 1..Len(c) : Longest(m)}
  <1>1. /\ c \in Seq(Int) /\ k \in Seq(Int) /\ Len(c) \in Nat
        /\ \A i \in 1..Len(c) : c[i] \in Nat /\ k[i] \in Nat
    BY ElementOfSeq, SeqMonotonic, Nat \subseteq Int
  <1>2. \A i \in 0..Len(c) : Upto(c, i) \in Nat /\ Upto(k, i) \in Nat
    <2>1. ASSUME NEW i \in 0..Len(c) PROVE i \in i..Len(c)
      BY <1>1
    <2>. QED
      BY <2>1, UptoGrows
  <1>3. ASSUME NEW m \in 1..Len(c)
        PROVE  /\ Upto(c, m) = Upto(c, m - 1) + c[m] /\ Upto(k, m) = Upto(k, m - 1) + k[m]
               /\ Ends(c)[m] = Upto(c, m)
               /\ m - 1 \in 0..Len(c) /\ m \in 0..Len(c)
    BY <1>1, UptoIs
  <1>4. ASSUME 1 \in 1..Len(c) PROVE 1 \in Right
    <2>1. Upto(c, 1) \in Nat /\ Ends(c)[1] = Upto(c, 1) /\ k[1] \in Nat
      BY <1>1, <1>2, <1>3, <1>4
    <2>2. done[1] = Max({Upto(c, 1), 0}) + k[1]
      BY <2>1, <1>4 DEF Pipeline
    <2>3. Max({Upto(c, 1), 0}) = Upto(c, 1)
      BY <2>1, GreatestOfTwo
    <2>4. Upto(k, 1) = 0 + k[1] /\ Upto(k, 0) = 0
      BY <1>1, <1>4, UptoIs
    <2>5. Path(c, k, 1, 1) = done[1] /\ done[1] \in Int
      BY <2>1, <2>2, <2>3, <2>4 DEF Path
    <2>6. \A i \in 1..1 : i = 1
      OBVIOUS
    <2>. QED
      BY <2>5, <2>6, <1>4
  <1>5. ASSUME NEW m \in 1..(Len(c) - 1), m \in Right PROVE m + 1 \in Right
    <2>0. /\ done[m] \in Int
          /\ \A i \in 1..m : Path(c, k, i, m) <= done[m]
          /\ \E i \in 1..m : Path(c, k, i, m) = done[m]
      BY <1>5
    <2>1. m + 1 \in 1..Len(c) /\ (m + 1) - 1 = m /\ m \in 1..Len(c) /\ m + 1 # 1 /\ m \in Nat
      BY <1>1
    <2>10. SUFFICES Longest(m + 1)
      BY <2>1
    <2>. HIDE DEF Right, Longest
    <2>2. /\ done[m] \in Int
          /\ Upto(c, m + 1) \in Nat /\ Upto(k, m) \in Nat /\ Upto(k, m + 1) \in Nat
          /\ Upto(k, m + 1) = Upto(k, m) + k[m + 1] /\ k[m + 1] \in Nat
      BY <1>1, <1>2, <1>3, <2>0, <2>1
    <2>20. PICK u \in Nat, d \in Int, x \in Nat : u = Upto(c, m + 1) /\ d = done[m] /\ x = k[m + 1]
      BY <2>2
    <2>21. PICK e : e = done[m + 1]
      OBVIOUS
    <2>3. e = Max({u, d}) + x
      BY <1>3, <2>1, <2>20, <2>21 DEF Pipeline
    <2>4. /\ done[m + 1] \in Int
          /\ Upto(c, m + 1) + k[m + 1] <= done[m + 1] /\ done[m] + k[m + 1] <= done[m + 1]
          /\ done[m + 1] \in {Upto(c, m + 1) + k[m + 1], done[m] + k[m + 1]}
      <3>1. e \in Int /\ u + x <= e /\ d + x <= e /\ e \in {u + x, d + x}
        <4>1. d \in Int /\ u \in Int
          OBVIOUS
        <4>2. Max({u, d}) = IF u >= d THEN u ELSE d
          BY <4>1, GreatestOfTwo
        <4>. QED
          BY <2>3, <4>1, <4>2
      <3>. QED
        BY <3>1, <2>20, <2>21
    <2>5. ASSUME NEW i \in 1..m
          PROVE  Path(c, k, i, m + 1) = Path(c, k, i, m) + k[m + 1] /\ Path(c, k, i, m) \in Int
      <3>1. i \in 0..Len(c) /\ i - 1 \in 0..Len(c)
        BY <1>1, <2>1
      <3>2. Upto(c, i) \in Nat /\ Upto(k, i - 1) \in Nat
        BY <1>2, <3>1
      <3>3. PICK a \in Nat, b \in Nat : a = Upto(c, i) /\ b = Upto(k, i - 1)
        BY <3>2
      <3>4. PICK y \in Nat : y = Upto(k, m)
        BY <2>2
      <3>5. Upto(k, m + 1) = y + x
        BY <2>2, <2>20, <3>4
      <3>6. a + (y + x) - b = (a + y - b) + x /\ a + y - b \in Int
        OBVIOUS
      <3>. QED
        BY <3>3, <3>4, <3>5, <3>6, <2>20 DEF Path
    <2>6. Path(c, k, m + 1, m + 1) = Upto(c, m + 1) + k[m + 1]
      BY <2>1, <2>2 DEF Path
    <2>7. ASSUME NEW i \in 1..(m + 1) PROVE Path(c, k, i, m + 1) <= done[m + 1]
      <3>1. CASE i = m + 1
        BY <3>1, <2>4, <2>6
      <3>2. CASE i \in 1..m
        <4>1. Path(c, k, i, m) <= done[m]
          BY <2>0, <3>2
        <4>2. Path(c, k, i, m + 1) = Path(c, k, i, m) + k[m + 1] /\ Path(c, k, i, m) \in Int
          BY <2>5, <3>2
        <4>3. PICK p \in Int : p = Path(c, k, i, m)
          BY <4>2
        <4>4. p <= d /\ Path(c, k, i, m + 1) = p + x
          BY <4>1, <4>2, <4>3, <2>20
        <4>5. d + x <= done[m + 1] /\ done[m + 1] \in Int
          BY <2>4, <2>20
        <4>6. PICK z \in Int : z = done[m + 1]
          BY <4>5
        <4>7. d + x <= z
          BY <4>5, <4>6
        <4>8. p + x <= z
          BY <4>4, <4>7
        <4>. QED
          BY <4>4, <4>6, <4>8
      <3>. QED
        BY <3>1, <3>2, <2>1
    <2>8. \E i \in 1..(m + 1) : Path(c, k, i, m + 1) = done[m + 1]
      <3>1. CASE done[m + 1] = Upto(c, m + 1) + k[m + 1]
        <4>1. Path(c, k, m + 1, m + 1) = done[m + 1]
          BY <3>1, <2>6
        <4>2. m + 1 \in 1..(m + 1)
          BY <2>1
        <4>. QED
          BY <4>1, <4>2
      <3>2. CASE done[m + 1] = done[m] + k[m + 1]
        <4>1. PICK i \in 1..m : Path(c, k, i, m) = done[m]
          BY <2>0
        <4>2. Path(c, k, i, m + 1) = Path(c, k, i, m) + k[m + 1]
          BY <2>5
        <4>3. i \in 1..(m + 1)
          BY <2>1
        <4>. QED
          BY <4>1, <4>2, <4>3, <3>2
      <3>. QED
        BY <3>1, <3>2, <2>4
    <2>9. done[m + 1] \in Int
      BY <2>4
    <2>. QED
      BY <2>1, <2>7, <2>8, <2>9 DEF Longest
  <1>6. \A m \in 1..Len(c) : m \in Right
    <2>1. CASE Len(c) = 0
      BY <2>1
    <2>2. CASE Len(c) # 0
      <3>1. 1 \in Right
        BY <2>2, <1>1, <1>4
      <3>. HIDE DEF Right
      <3>. QED
        BY <3>1, <1>1, <1>5, Climb
    <2>. QED
      BY <2>1, <2>2
  <1>. QED
    BY <1>6

-------------------------------------------------------------------------------
(* What is predicted *)

(* For the provers, one product at a time. *)
LEMMA ProductNat ==
  ASSUME NEW a \in Nat, NEW b \in Nat
  PROVE  a * b \in Nat
  OBVIOUS

(* Division rounded up. *)
LEMMA DivUpIs ==
  ASSUME NEW x \in Nat, NEW y \in Nat \ {0}
  PROVE  /\ DivUp(x, y) \in Nat
         /\ x <= DivUp(x, y) * y
         /\ DivUp(x, y) * y < x + y
         /\ x # 0 => DivUp(x, y) # 0
  <1>. DEFINE w == x + y - 1
              q == w \div y
              r == w % y
  <1>1. w \in Nat /\ y > 0 /\ y \in Int
    OBVIOUS
  <1>2. q \in Int /\ r \in 0..(y - 1) /\ w = y * q + r
    <2>. HIDE DEF w
    <2>. QED
      BY <1>1
  <1>3. q >= 0
    <2>. HIDE DEF w
    <2>. QED
      BY <1>1
  <1>4. q * y = w - r /\ q * y \in Int
    <2>1. y * q = q * y
      BY <1>2
    <2>. HIDE DEF q, r, w
    <2>. QED
      BY <1>1, <1>2, <2>1
  <1>5. DivUp(x, y) = q
    BY DEF DivUp
  <1>6. q = 0 => q * y = 0
    BY <1>1
  <1>. HIDE DEF q, r
  <1>. QED
    BY <1>1, <1>2, <1>3, <1>4, <1>5, <1>6

(* What the search assumes of the way it was called, of the tiles of a     *)
(* segment and of the curve.                                               *)
SetupOk == setup \in [predictive : BOOLEAN, sms : Nat \ {0}, slack : Nat,
                      nominal : Nat \ {0}, minGroup : Nat \ {0}]
Timed(d) == d \in Seq(Nat \ {0}) /\ \A i \in 1..Len(d) : CommTime(d[i]) \in Nat

(* What the segments take is a number. *)
LEMMA TimesAre ==
  ASSUME SetupOk, NEW d, Timed(d)
  PROVE  /\ Len(d) \in Nat /\ DOMAIN d = 1..Len(d)
         /\ \A i \in 1..Len(d) : d[i] \in Nat /\ Comp(d[i]) \in Nat /\ CommTime(d[i]) \in Nat
  <1>1. Len(d) \in Nat /\ DOMAIN d = 1..Len(d) /\ \A i \in 1..Len(d) : d[i] \in Nat \ {0}
    BY ElementOfSeq, LenProperties DEF Timed
  <1>2. ASSUME NEW i \in 1..Len(d) PROVE Comp(d[i]) \in Nat
    <2>1. DivUp(d[i], setup.sms) \in Nat
      BY <1>1, DivUpIs DEF SetupOk
    <2>. QED
      BY <2>1, SearchAssumption, ProductNat DEF Comp
  <1>. QED
    BY <1>1, <1>2 DEF Timed

(* predict_lat takes the second machine's time step by step. *)
LEMMA PredictIs ==
  ASSUME SetupOk, NEW d, Timed(d), Len(d) > 1,
         NEW c, c = [i \in DOMAIN d |-> Comp(d[i])],
         NEW k, k = [i \in DOMAIN d |-> CommTime(d[i])]
  PROVE  \E done : Pipeline(c, k, done) /\ Predict(d) = done[Len(d)]
  <1>. DEFINE n == Len(d)
              row(i) == [x \in Int |-> Max({Ends(c)[i], x}) + k[i]]
              step == [i \in 1..n |-> row(i)]
              Solves(f) == f = [i \in 1..n |->
                                  Max({Ends(c)[i], IF i = 1 THEN 0 ELSE f[i - 1]}) + CommTime(d[i])]
  <1>1. /\ n \in Nat /\ DOMAIN d = 1..n
        /\ \A i \in 1..n : Comp(d[i]) \in Nat /\ CommTime(d[i]) \in Nat
    BY TimesAre
  <1>2. c \in Seq(Int) /\ Len(c) = n /\ \A i \in 1..n : k[i] \in Int /\ k[i] = CommTime(d[i])
    BY <1>1
  <1>3. \A i \in 1..n : Ends(c)[i] \in Int
    BY <1>2, EndsAre
  <1>4. ASSUME NEW i \in 1..n, NEW x \in Int
        PROVE  Max({Ends(c)[i], x}) + k[i] \in Int
    <2>1. PICK u \in Int : u = Ends(c)[i]
      BY <1>3
    <2>2. PICK v \in Int : v = k[i]
      BY <1>2
    <2>3. Max({u, x}) = IF u >= x THEN u ELSE x
      BY GreatestOfTwo
    <2>4. Max({u, x}) + v \in Int
      BY <2>3
    <2>. QED
      BY <2>1, <2>2, <2>4
  <1>5. \E f \in [1..n -> Int] : Stepwise(f, n, 0, step)
    <2>. DEFINE X == Int
                zero == 0
    <2>0. ASSUME NEW i \in 1..n PROVE row(i) \in [Int -> Int]
      BY <1>4
    <2>1. n \in Nat /\ zero \in X /\ step \in [1..n -> [X -> X]]
      <3>. HIDE DEF row
      <3>. QED
        BY <1>1, <2>0
    <2>. HIDE DEF step, n, X, zero
    <2>2. \E h \in [1..n -> X] : Stepwise(h, n, zero, step)
      BY <2>1, Recursion
    <2>. QED
      BY <2>2 DEF X, zero
  <1>6. PICK f \in [1..n -> Int] : Stepwise(f, n, 0, step)
    BY <1>5
  <1>7. ASSUME NEW i \in 1..n
        PROVE  f[i] = Max({Ends(c)[i], IF i = 1 THEN 0 ELSE f[i - 1]}) + CommTime(d[i])
    <2>1. PICK x \in Int : x = IF i = 1 THEN 0 ELSE f[i - 1]
      <3>1. i # 1 => i - 1 \in 1..n
        BY <1>1
      <3>. QED
        BY <3>1
    <2>2. f[i] = step[i][x]
      BY <1>6, <2>1 DEF Stepwise
    <2>3. step[i][x] = Max({Ends(c)[i], x}) + k[i]
      OBVIOUS
    <2>. QED
      BY <2>1, <2>2, <2>3, <1>2
  <1>8. Solves(f)
    BY <1>7
  <1>. DEFINE done == CHOOSE g : Solves(g)
  <1>9. Solves(done)
    BY <1>8
  <1>10. Predict(d) = done[Len(d)]
    <2>1. Len(d) # 1
      BY <1>1
    <2>. QED
      BY <2>1 DEF Predict
  <1>11. Pipeline(c, k, done)
    <2>1. \A i \in 1..n : done[i] = Max({Ends(c)[i], IF i = 1 THEN 0 ELSE done[i - 1]}) + CommTime(d[i])
      <3>. HIDE DEF done
      <3>. QED
        BY <1>9
    <2>2. ASSUME NEW i \in 1..Len(c)
          PROVE  done[i] = Max({Ends(c)[i], IF i = 1 THEN 0 ELSE done[i - 1]}) + k[i]
      <3>1. i \in 1..n /\ k[i] = CommTime(d[i])
        BY <1>2
      <3>. HIDE DEF done, n
      <3>. QED
        BY <2>1, <3>1
    <2>. HIDE DEF done
    <2>. QED
      BY <2>2 DEF Pipeline
  <1>. HIDE DEF done
  <1>. QED
    BY <1>10, <1>11

(* What a division into several segments is predicted to take is what the  *)
(* longest path through the two machines takes.                            *)
LEMMA PredictIsMakespan ==
  ASSUME SetupOk, NEW d, Timed(d), Len(d) > 1
  PROVE  Predict(d) = Makespan(d, Comp, CommTime) /\ Predict(d) \in Nat
  <1>. DEFINE n == Len(d)
              c == [i \in DOMAIN d |-> Comp(d[i])]
              k == [i \in DOMAIN d |-> CommTime(d[i])]
  <1>1. /\ n \in Nat /\ DOMAIN d = 1..n
        /\ \A i \in 1..n : Comp(d[i]) \in Nat /\ CommTime(d[i]) \in Nat
    BY TimesAre
  <1>2. PICK done : Pipeline(c, k, done) /\ Predict(d) = done[n]
    BY PredictIs
  <1>3. /\ c \in Seq(Nat) /\ k \in Seq(Nat) /\ Len(c) = n /\ Len(k) = n
        /\ \A i \in 1..n : c[i] = Comp(d[i]) /\ k[i] = CommTime(d[i])
    BY <1>1
  <1>. HIDE DEF c, k
  <1>4. c \in Seq(Int) /\ k \in Seq(Int) /\ n \in 1..n
    BY <1>1, <1>3, SeqMonotonic, Nat \subseteq Int
  <1>5. /\ done[n] \in Int
        /\ \A i \in 1..n : Path(c, k, i, n) <= done[n]
        /\ \E i \in 1..n : Path(c, k, i, n) = done[n]
    <2>. HIDE DEF n
    <2>. QED
      BY <1>2, <1>3, <1>4, LongestPath
  <1>6. \A i \in 0..n : Upto(c, i) \in Nat /\ Upto(k, i) \in Nat
    <2>1. ASSUME NEW i \in 0..n PROVE i \in i..n
      BY <1>1
    <2>. QED
      BY <2>1, <1>3, UptoGrows
  <1>7. ASSUME NEW i \in 1..n
        PROVE  /\ Path(c, k, i, n) = Total([j \in 1..i |-> Comp(d[j])])
                                     + Total([j \in 1..(n - i + 1) |-> CommTime(d[i + j - 1])])
               /\ Path(c, k, i, n) \in Int
    <2>1. i \in 0..n /\ i - 1 \in 0..n /\ n \in 0..n
      BY <1>1
    <2>2. [j \in 1..i |-> Comp(d[j])] = [j \in 1..i |-> c[j]]
      <3>1. \A j \in 1..i : j \in 1..n
        BY <1>1
      <3>. QED
        BY <3>1, <1>3
    <2>3. [j \in 1..(n - i + 1) |-> CommTime(d[i + j - 1])] = [j \in 1..(n - i + 1) |-> k[i + j - 1]]
      <3>1. \A j \in 1..(n - i + 1) : i + j - 1 \in 1..n
        BY <1>1
      <3>. QED
        BY <3>1, <1>3
    <2>4. Total([j \in 1..i |-> c[j]]) = Upto(c, i)
      BY <1>3, <1>4, <2>1, TotalOfPrefix
    <2>5. Total([j \in 1..(n - i + 1) |-> k[i + j - 1]]) = Upto(k, n) - Upto(k, i - 1)
      BY <1>3, <1>4, TotalOfSlice
    <2>6. Upto(c, i) \in Nat /\ Upto(k, n) \in Nat /\ Upto(k, i - 1) \in Nat
      BY <1>6, <2>1
    <2>7. PICK u \in Nat, v \in Nat, w \in Nat : u = Upto(c, i) /\ v = Upto(k, n) /\ w = Upto(k, i - 1)
      BY <2>6
    <2>8. Path(c, k, i, n) = u + v - w
      BY <2>7 DEF Path
    <2>9. u + v - w = u + (v - w)
      OBVIOUS
    <2>10. Total([j \in 1..i |-> Comp(d[j])]) = u
      BY <2>2, <2>4, <2>7
    <2>11. Total([j \in 1..(n - i + 1) |-> CommTime(d[i + j - 1])]) = v - w
      BY <2>3, <2>5, <2>7
    <2>. HIDE DEF n
    <2>. QED
      BY <2>8, <2>9, <2>10, <2>11
  <1>. DEFINE Paths == {Total([j \in 1..i |-> Comp(d[j])])
                        + Total([j \in 1..(n - i + 1) |-> CommTime(d[i + j - 1])]) : i \in 1..n}
  <1>8. Paths = {Path(c, k, i, n) : i \in 1..n}
    BY <1>7
  <1>. HIDE DEF Paths
  <1>9. Max(Paths) = done[n]
    <2>1. Paths \in SUBSET Int /\ done[n] \in Paths /\ \A m \in Paths : m <= done[n]
      BY <1>5, <1>7, <1>8
    <2>. QED
      BY <2>1, GreatestIs
  <1>10. Predict(d) = Makespan(d, Comp, CommTime)
    BY <1>1, <1>2, <1>9 DEF Makespan, Paths
  <1>11. done[n] >= 0
    <2>1. 1 \in 1..n /\ 1 \in 0..n /\ n \in 0..n /\ 0 \in 0..n
      BY <1>1
    <2>2. PICK p \in Nat, q \in Nat : p = Upto(c, 1) /\ q = Upto(k, n)
      BY <1>6, <2>1
    <2>3. Upto(k, 0) = 0
      BY DEF Upto
    <2>4. Path(c, k, 1, n) = p + q
      BY <2>2, <2>3 DEF Path
    <2>5. PICK z \in Int : z = done[n]
      BY <1>5
    <2>6. p + q <= z
      BY <1>5, <2>1, <2>4, <2>5
    <2>. QED
      BY <2>5, <2>6
  <1>. QED
    BY <1>2, <1>5, <1>10, <1>11

-------------------------------------------------------------------------------
(* The divisions into segments *)

(* The units of a division add up to n, and none of them is empty. *)
LEMMA CompositionIs ==
  ASSUME NEW n \in Nat \ {0}, NEW u \in Compositions(n)
  PROVE  u \in Seq(Nat \ {0}) /\ Len(u) \in Nat \ {0} /\ Upto(u, Len(u)) = n
  <1>1. PICK cuts \in SUBSET (1..(n - 1)) :
           u = [i \in DOMAIN Sorted(cuts \cup {n}) |->
                  Sorted(cuts \cup {n})[i] - (IF i = 1 THEN 0 ELSE Sorted(cuts \cup {n})[i - 1])]
    BY DEF Compositions
  <1>. DEFINE S == cuts \cup {n}
              ends == Sorted(S)
              m == Cardinality(S)
  <1>2. S \in SUBSET (1..n) /\ S \in SUBSET Nat /\ n \in S
    OBVIOUS
  <1>3. IsFiniteSet(S)
    <2>1. IsFiniteSet(1..n)
      BY FS_Interval
    <2>. HIDE DEF S
    <2>. QED
      BY <1>2, <2>1, FS_Subset
  <1>4. m \in Nat \ {0}
    <2>. HIDE DEF S
    <2>. QED
      BY <1>2, <1>3, FS_CardinalityType, FS_EmptySet
  <1>5. /\ DOMAIN ends = 1..m
        /\ \A i \in 1..m : ends[i] \in 1..n
        /\ \A i \in 1..m : \A j \in 1..m : i < j => ends[i] < ends[j]
        /\ \E j \in 1..m : ends[j] = n
    <2>. HIDE DEF S
    <2>. QED
      BY <1>2, <1>3, SortedIs
  <1>. HIDE DEF S, ends, m
  <1>6. u = [i \in 1..m |-> ends[i] - (IF i = 1 THEN 0 ELSE ends[i - 1])]
    BY <1>1, <1>5 DEF ends, S
  <1>7. ends[m] = n
    <2>1. PICK j \in 1..m : ends[j] = n
      BY <1>5
    <2>2. m \in 1..m /\ ends[m] \in 1..n /\ (j < m => n < ends[m])
      BY <1>4, <1>5, <2>1
    <2>. QED
      BY <2>1, <2>2
  <1>8. ASSUME NEW i \in 1..m PROVE u[i] \in Nat \ {0} /\ u[i] = ends[i] - (IF i = 1 THEN 0 ELSE ends[i - 1])
    <2>1. u[i] = ends[i] - (IF i = 1 THEN 0 ELSE ends[i - 1])
      BY <1>6
    <2>2. ends[i] \in 1..n
      BY <1>5
    <2>3. i # 1 => i - 1 \in 1..m /\ ends[i - 1] \in 1..n /\ ends[i - 1] < ends[i]
      <3>1. i # 1 => i - 1 \in 1..m /\ i - 1 < i
        BY <1>4
      <3>. QED
        BY <3>1, <1>5
    <2>. QED
      BY <2>1, <2>2, <2>3
  <1>9. u \in Seq(Nat \ {0}) /\ Len(u) = m
    <2>1. u \in [1..m -> Nat \ {0}]
      BY <1>6, <1>8
    <2>. QED
      BY <2>1, <1>4
  <1>. DEFINE f == [i \in 0..m |-> IF i = 0 THEN 0 ELSE ends[i]]
  <1>10. ASSUME NEW i \in 1..m PROVE f[i] = f[i - 1] + u[i]
    <2>1. i \in 0..m /\ i - 1 \in 0..m /\ i # 0 /\ (i - 1 = 0 <=> i = 1)
      BY <1>4
    <2>2. f[i] = ends[i] /\ f[i - 1] = IF i = 1 THEN 0 ELSE ends[i - 1]
      BY <2>1
    <2>3. ends[i] \in Int /\ f[i - 1] \in Int
      <3>1. i # 1 => i - 1 \in 1..m
        BY <1>4
      <3>. QED
        BY <3>1, <2>2, <1>5
    <2>4. u[i] = ends[i] - f[i - 1]
      BY <1>8, <2>2
    <2>. HIDE DEF f
    <2>. QED
      BY <2>2, <2>3, <2>4
  <1>11. \A i \in 0..m : f[i] = Upto(u, i)
    <2>1. f[0] = 0 /\ m \in 0..Len(u)
      BY <1>4, <1>9
    <2>2. u \in Seq(Int)
      BY <1>9, SeqMonotonic, Nat \ {0} \subseteq Int
    <2>. HIDE DEF f
    <2>. QED
      BY <2>1, <2>2, <1>10, UptoUnique
  <1>12. f[m] = n /\ m \in 0..m
    BY <1>4, <1>7
  <1>. HIDE DEF f
  <1>. QED
    BY <1>4, <1>9, <1>11, <1>12

(* n groups of `group' waves of `sms' tiles hold all tiles, and one group   *)
(* less would not.                                                         *)
LEMMA GroupsHold ==
  ASSUME NEW T \in Nat \ {0}, NEW sms \in Nat \ {0}, NEW group \in Nat \ {0},
         NEW n, n = DivUp(DivUp(T, sms), group),
         NEW g, g = sms * group
  PROVE  /\ n \in Nat \ {0} /\ g \in Nat \ {0}
         /\ T <= n * g /\ n * g < T + g
  <1>1. PICK W \in Nat \ {0} : W = DivUp(T, sms) /\ T <= W * sms /\ W * sms < T + sms
    BY DivUpIs
  <1>2. n \in Nat \ {0} /\ W <= n * group /\ n * group < W + group
    BY <1>1, DivUpIs
  <1>3. PICK x \in Nat : x = n * group
    BY <1>2, ProductNat
  <1>4. n * g = x * sms
    BY <1>2, <1>3
  <1>5. g \in Nat \ {0}
    BY ProductNat
  <1>6. W * sms <= x * sms
    <2>1. PICK a \in Nat : x = W + a
      <3>1. x - W \in Nat /\ x = W + (x - W)
        BY <1>2, <1>3
      <3>. QED
        BY <3>1
    <2>2. x * sms = W * sms + a * sms /\ a * sms \in Nat /\ W * sms \in Nat
      BY <2>1, ProductNat
    <2>. QED
      BY <2>2
  <1>7. x * sms <= W * sms + g - sms
    <2>1. PICK a \in Nat : W + group - 1 = x + a
      <3>1. W + group - 1 - x \in Nat /\ W + group - 1 = x + (W + group - 1 - x)
        BY <1>2, <1>3
      <3>. QED
        BY <3>1
    <2>2. (W + group - 1) * sms = x * sms + a * sms /\ a * sms \in Nat /\ x * sms \in Nat
      BY <2>1, ProductNat
    <2>3. (W + group - 1) * sms = W * sms + group * sms - sms
      OBVIOUS
    <2>4. group * sms = g
      OBVIOUS
    <2>5. W * sms \in Nat
      BY ProductNat
    <2>. QED
      BY <2>2, <2>3, <2>4, <2>5, <1>5
  <1>8. W * sms \in Nat /\ x * sms \in Nat
    BY ProductNat
  <1>. QED
    BY <1>1, <1>2, <1>4, <1>5, <1>6, <1>7, <1>8

(* The last segment takes what the units before it leave. *)
LEMMA SegmentsAre ==
  ASSUME NEW T \in Nat \ {0}, NEW sms \in Nat \ {0}, NEW group \in Nat \ {0},
         NEW u \in Seq(Nat \ {0}), Len(u) # 0,
         Upto(u, Len(u)) = DivUp(DivUp(T, sms), group),
         NEW d, d = Segments(u, T, sms, group)
  PROVE  d \in Seq(Nat \ {0}) /\ Len(d) = Len(u) /\ Upto(d, Len(d)) = T
  <1>1. PICK m \in Nat \ {0} : m = Len(u)
    BY LenProperties
  <1>2. PICK n, g : n = DivUp(DivUp(T, sms), group) /\ g = sms * group
    OBVIOUS
  <1>3. n \in Nat \ {0} /\ g \in Nat \ {0} /\ T <= n * g /\ n * g < T + g
    BY <1>2, GroupsHold
  <1>4. /\ u \in Seq(Int) /\ u \in Seq(Nat) /\ DOMAIN u = 1..m
        /\ \A i \in 1..m : u[i] \in Nat \ {0}
    BY <1>1, ElementOfSeq, LenProperties, SeqMonotonic, Nat \ {0} \subseteq Int, Nat \ {0} \subseteq Nat
  <1>5. \A i \in 0..m : Upto(u, i) \in Nat
    <2>1. ASSUME NEW i \in 0..m PROVE i \in i..m
      BY <1>1
    <2>. QED
      BY <2>1, <1>1, <1>4, UptoGrows
  <1>6. ASSUME NEW i \in 1..m PROVE Upto(u, i) = Upto(u, i - 1) + u[i]
    BY <1>1, <1>4, UptoIs
  <1>7. PICK P \in Nat, x \in Nat \ {0} : P = Upto(u, m - 1) /\ x = u[m] /\ n = P + x
    <2>1. m \in 1..m /\ m - 1 \in 0..m
      BY <1>1
    <2>. QED
      BY <2>1, <1>1, <1>2, <1>4, <1>5, <1>6
  <1>8. Total(Front(u)) = P
    <2>1. m - 1 \in 0..Len(u)
      BY <1>1
    <2>2. Total([j \in 1..(m - 1) |-> u[j]]) = Upto(u, m - 1)
      BY <2>1, <1>4, TotalOfPrefix
    <2>3. Front(u) = [j \in 1..(m - 1) |-> u[j]]
      <3>1. \A j \in 1..(m - 1) : u[j] \in Int
        BY <1>1, <1>4
      <3>2. SubSeq(u, 1, m - 1) = [j \in 1..(m - 1) |-> u[j]]
        BY <1>1, <3>1
      <3>. QED
        BY <3>2, <1>1 DEF Front
    <2>. QED
      BY <2>2, <2>3, <1>7
  <1>9. PICK Pg \in Nat, xg \in Nat \ {0} : Pg = P * g /\ xg = x * g /\ n * g = Pg + xg
    <2>1. PICK h \in Nat \ {0} : h = g
      BY <1>3
    <2>2. (P + x) * h = P * h + x * h
      OBVIOUS
    <2>3. P * h \in Nat /\ x * h \in Nat /\ x * h # 0
      BY ProductNat
    <2>. QED
      BY <2>1, <2>2, <2>3, <1>7
  <1>10. g <= xg
    <2>1. PICK y \in Nat : x = y + 1
      <3>1. x - 1 \in Nat /\ x = (x - 1) + 1
        OBVIOUS
      <3>. QED
        BY <3>1
    <2>2. xg = y * g + g /\ y * g \in Nat
      BY <1>3, <1>9, <2>1, ProductNat
    <2>. QED
      BY <2>2, <1>3
  <1>11. Pg < T /\ T - Pg <= xg
    BY <1>3, <1>9, <1>10
  <1>12. Min({xg, T - Pg}) = T - Pg
    <2>1. PICK r \in Nat : r = T - Pg
      BY <1>11
    <2>2. Min({xg, r}) = IF xg <= r THEN xg ELSE r
      BY LeastOfTwo
    <2>. QED
      BY <2>1, <2>2, <1>11
  <1>13. ASSUME NEW i \in 1..m PROVE u[i] * sms * group = u[i] * g
    <2>1. PICK y \in Nat : y = u[i]
      BY <1>4
    <2>2. y * sms * group = y * (sms * group)
      OBVIOUS
    <2>. QED
      BY <2>1, <2>2, <1>2
  <1>14. d = [i \in 1..m |-> IF i < m THEN u[i] * g ELSE T - Pg]
    <2>1. P * sms * group = Pg
      <3>1. P * sms * group = P * (sms * group)
        OBVIOUS
      <3>. QED
        BY <3>1, <1>2, <1>9
    <2>2. u[m] * g = xg
      BY <1>7, <1>9
    <2>3. d = [i \in 1..m |-> IF i < m THEN u[i] * sms * group
                              ELSE Min({u[i] * sms * group, T - P * sms * group})]
      BY <1>1, <1>4, <1>8 DEF Segments
    <2>4. ASSUME NEW i \in 1..m
          PROVE  (IF i < m THEN u[i] * sms * group ELSE Min({u[i] * sms * group, T - P * sms * group}))
                 = (IF i < m THEN u[i] * g ELSE T - Pg)
      <3>1. CASE i < m
        BY <3>1, <1>13
      <3>2. CASE ~(i < m)
        <4>1. i = m
          BY <3>2, <1>1
        <4>2. u[i] * sms * group = xg
          BY <4>1, <1>13, <2>2
        <4>. QED
          BY <3>2, <4>2, <2>1, <1>12
      <3>. QED
        BY <3>1, <3>2
    <2>. QED
      BY <2>3, <2>4
  <1>15. ASSUME NEW i \in 1..m PROVE d[i] \in Nat \ {0}
    <2>1. d[i] = IF i < m THEN u[i] * g ELSE T - Pg
      BY <1>14
    <2>2. PICK y \in Nat \ {0} : y = u[i]
      BY <1>4
    <2>3. y * g \in Nat /\ y * g # 0
      BY <1>3, ProductNat
    <2>. QED
      BY <2>1, <2>2, <2>3, <1>11
  <1>16. d \in Seq(Nat \ {0}) /\ Len(d) = m
    <2>1. d \in [1..m -> Nat \ {0}]
      BY <1>14, <1>15
    <2>. QED
      BY <2>1, <1>1
  <1>. DEFINE f == [i \in 0..m |-> IF i < m THEN Upto(u, i) * g ELSE T]
  <1>17. ASSUME NEW i \in 1..m PROVE f[i] = f[i - 1] + d[i]
    <2>1. i \in 0..m /\ i - 1 \in 0..m /\ i - 1 < m
      BY <1>1
    <2>2. PICK a \in Nat, y \in Nat : a = Upto(u, i - 1) /\ y = u[i] /\ Upto(u, i) = a + y
      BY <2>1, <1>4, <1>5, <1>6
    <2>3. f[i - 1] = a * g
      BY <2>1, <2>2
    <2>4. CASE i < m
      <3>1. f[i] = (a + y) * g /\ d[i] = y * g
        BY <2>1, <2>2, <2>4, <1>14
      <3>2. (a + y) * g = a * g + y * g
        BY <1>3
      <3>. HIDE DEF f
      <3>. QED
        BY <2>3, <3>1, <3>2
    <2>5. CASE ~(i < m)
      <3>1. i = m
        BY <2>5, <1>1
      <3>2. f[i] = T /\ d[i] = T - Pg
        BY <2>1, <2>5, <1>14
      <3>3. a * g = Pg
        BY <3>1, <2>2, <1>7, <1>9
      <3>4. T = Pg + (T - Pg)
        OBVIOUS
      <3>. HIDE DEF f
      <3>. QED
        BY <2>3, <3>2, <3>3, <3>4
    <2>. QED
      BY <2>4, <2>5
  <1>18. f[0] = 0 /\ f[m] = T
    <2>1. 0 \in 0..m /\ 0 < m /\ m \in 0..m /\ ~(m < m)
      BY <1>1
    <2>2. Upto(u, 0) = 0 /\ 0 * g = 0
      BY <1>3 DEF Upto
    <2>. QED
      BY <2>1, <2>2
  <1>19. \A i \in 0..m : f[i] = Upto(d, i)
    <2>1. d \in Seq(Int) /\ m \in 0..Len(d)
      BY <1>1, <1>16, SeqMonotonic, Nat \ {0} \subseteq Int
    <2>. HIDE DEF f
    <2>. QED
      BY <2>1, <1>17, <1>18, UptoUnique
  <1>20. m \in 0..m
    BY <1>1
  <1>. HIDE DEF f
  <1>. QED
    BY <1>1, <1>16, <1>18, <1>19, <1>20

-------------------------------------------------------------------------------
(* Rows of segments *)

(* The rows that a segment of s tiles, from row 2 a on, has before its row  *)
(* 2 j + b, when the even rows come first.                                 *)
RowsBefore(a, s, row) ==
    {q \in (2 * a)..(2 * a + 2 * s - 1) :
        q % 2 < row % 2 \/ (q % 2 = row % 2 /\ q < row)}

(* Even and odd numbers. *)
LEMMA Halves ==
  ASSUME NEW q \in Int
  PROVE  \E k \in Int, e \in {0, 1} : q = 2 * k + e /\ q % 2 = e
  <1>1. q \div 2 \in Int /\ q % 2 \in {0, 1} /\ q = 2 * (q \div 2) + (q % 2)
    OBVIOUS
  <1>. QED
    BY <1>1

(* Before an even row there are the even rows above it. *)
LEMMA RowsBeforeEven ==
  ASSUME NEW a \in Nat, NEW s \in Nat, NEW j \in 0..(s - 1)
  PROVE  Cardinality(RowsBefore(a, s, 2 * a + 2 * j)) = j
  <1>. DEFINE Z == RowsBefore(a, s, 2 * a + 2 * j)
              f == [k \in 1..j |-> 2 * a + 2 * (k - 1)]
  <1>1. j \in Nat /\ j < s
    OBVIOUS
  <1>2. ASSUME NEW q
        PROVE  q \in Z <=> q \in (2 * a)..(2 * a + 2 * s - 1) /\ q % 2 = 0 /\ q < 2 * a + 2 * j
    <2>1. (2 * a + 2 * j) % 2 = 0
      BY <1>1
    <2>2. q \in (2 * a)..(2 * a + 2 * s - 1) => q % 2 \in {0, 1}
      OBVIOUS
    <2>. QED
      BY <2>1, <2>2 DEF RowsBefore
  <1>. HIDE DEF Z
  <1>3. ASSUME NEW k \in 1..j PROVE f[k] \in Z
    <2>1. 2 * a + 2 * (k - 1) \in (2 * a)..(2 * a + 2 * s - 1) /\ (2 * a + 2 * (k - 1)) % 2 = 0
          /\ 2 * a + 2 * (k - 1) < 2 * a + 2 * j
      BY <1>1
    <2>. QED
      BY <2>1, <1>2
  <1>4. f \in Surjection(1..j, Z)
    <2>1. ASSUME NEW q \in Z PROVE \E k \in 1..j : f[k] = q
      <3>1. q \in (2 * a)..(2 * a + 2 * s - 1) /\ q % 2 = 0 /\ q < 2 * a + 2 * j
        BY <1>2
      <3>2. PICK k \in Int : q = 2 * k
        <4>1. q \in Int
          BY <3>1
        <4>. QED
          BY <4>1, <3>1, Halves
      <3>3. k - a + 1 \in 1..j /\ 2 * a + 2 * ((k - a + 1) - 1) = q
        BY <1>1, <3>1, <3>2
      <3>4. f[k - a + 1] = q
        BY <3>3
      <3>. QED
        BY <3>3, <3>4
    <2>. QED
      BY <1>3, <2>1 DEF Surjection
  <1>5. f \in Injection(1..j, Z)
    BY <1>3 DEF Injection, IsInjective
  <1>6. ExistsBijection(1..j, Z)
    BY <1>4, <1>5 DEF ExistsBijection, Bijection
  <1>. QED
    BY <1>1, <1>6, FS_CountingElements DEF Z

(* Before an odd row there are all even rows and the odd ones above it. *)
LEMMA RowsBeforeOdd ==
  ASSUME NEW a \in Nat, NEW s \in Nat, NEW j \in 0..(s - 1)
  PROVE  Cardinality(RowsBefore(a, s, 2 * a + 2 * j + 1)) = s + j
  <1>. DEFINE Z == RowsBefore(a, s, 2 * a + 2 * j + 1)
              f == [k \in 1..(s + j) |-> IF k <= s THEN 2 * a + 2 * (k - 1)
                                        ELSE 2 * a + 2 * (k - s - 1) + 1]
  <1>1. j \in Nat /\ j < s /\ s + j \in Nat
    OBVIOUS
  <1>2. ASSUME NEW q
        PROVE  q \in Z <=> q \in (2 * a)..(2 * a + 2 * s - 1) /\ (q % 2 = 0 \/ q < 2 * a + 2 * j + 1)
    <2>1. (2 * a + 2 * j + 1) % 2 = 1
      BY <1>1
    <2>2. q \in (2 * a)..(2 * a + 2 * s - 1) => q % 2 \in {0, 1}
      OBVIOUS
    <2>. QED
      BY <2>1, <2>2 DEF RowsBefore
  <1>. HIDE DEF Z
  <1>3. ASSUME NEW k \in 1..(s + j) PROVE f[k] \in Z
    <2>1. CASE k <= s
      <3>1. 2 * a + 2 * (k - 1) \in (2 * a)..(2 * a + 2 * s - 1) /\ (2 * a + 2 * (k - 1)) % 2 = 0
        BY <1>1, <2>1
      <3>. QED
        BY <3>1, <2>1, <1>2
    <2>2. CASE ~(k <= s)
      <3>1. /\ 2 * a + 2 * (k - s - 1) + 1 \in (2 * a)..(2 * a + 2 * s - 1)
            /\ 2 * a + 2 * (k - s - 1) + 1 < 2 * a + 2 * j + 1
        BY <1>1, <2>2
      <3>. QED
        BY <3>1, <2>2, <1>2
    <2>. QED
      BY <2>1, <2>2
  <1>4. f \in Surjection(1..(s + j), Z)
    <2>1. ASSUME NEW q \in Z PROVE \E k \in 1..(s + j) : f[k] = q
      <3>1. q \in (2 * a)..(2 * a + 2 * s - 1) /\ (q % 2 = 0 \/ q < 2 * a + 2 * j + 1)
        BY <1>2
      <3>2. PICK k \in Int, e \in {0, 1} : q = 2 * k + e /\ q % 2 = e
        <4>1. q \in Int
          BY <3>1
        <4>. QED
          BY <4>1, Halves
      <3>3. CASE e = 0
        <4>1. k - a + 1 \in 1..(s + j) /\ k - a + 1 <= s /\ 2 * a + 2 * ((k - a + 1) - 1) = q
          BY <1>1, <3>1, <3>2, <3>3
        <4>2. f[k - a + 1] = q
          BY <4>1
        <4>. QED
          BY <4>1, <4>2
      <3>4. CASE e = 1
        <4>1. /\ k - a + s + 1 \in 1..(s + j) /\ ~(k - a + s + 1 <= s)
              /\ 2 * a + 2 * ((k - a + s + 1) - s - 1) + 1 = q
          BY <1>1, <3>1, <3>2, <3>4
        <4>2. f[k - a + s + 1] = q
          BY <4>1
        <4>. QED
          BY <4>1, <4>2
      <3>. QED
        BY <3>3, <3>4
    <2>. QED
      BY <1>3, <2>1 DEF Surjection
  <1>5. f \in Injection(1..(s + j), Z)
    <2>1. ASSUME NEW k \in 1..(s + j), NEW l \in 1..(s + j), f[k] = f[l] PROVE k = l
      <3>1. f[k] = IF k <= s THEN 2 * a + 2 * (k - 1) ELSE 2 * a + 2 * (k - s - 1) + 1
        OBVIOUS
      <3>2. f[l] = IF l <= s THEN 2 * a + 2 * (l - 1) ELSE 2 * a + 2 * (l - s - 1) + 1
        OBVIOUS
      <3>. HIDE DEF f
      <3>3. CASE k <= s /\ l <= s
        <4>1. 2 * a + 2 * (k - 1) = 2 * a + 2 * (l - 1)
          BY <2>1, <3>1, <3>2, <3>3
        <4>. QED
          BY <4>1
      <3>4. CASE k <= s /\ ~(l <= s)
        <4>1. 2 * a + 2 * (k - 1) = 2 * a + 2 * (l - s - 1) + 1
          BY <2>1, <3>1, <3>2, <3>4
        <4>. QED
          BY <4>1
      <3>5. CASE ~(k <= s) /\ l <= s
        <4>1. 2 * a + 2 * (k - s - 1) + 1 = 2 * a + 2 * (l - 1)
          BY <2>1, <3>1, <3>2, <3>5
        <4>. QED
          BY <4>1
      <3>6. CASE ~(k <= s) /\ ~(l <= s)
        <4>1. 2 * a + 2 * (k - s - 1) + 1 = 2 * a + 2 * (l - s - 1) + 1
          BY <2>1, <3>1, <3>2, <3>6
        <4>. QED
          BY <4>1
      <3>. QED
        BY <3>3, <3>4, <3>5, <3>6
    <2>. QED
      BY <1>3, <2>1 DEF Injection, IsInjective
  <1>6. ExistsBijection(1..(s + j), Z)
    BY <1>4, <1>5 DEF ExistsBijection, Bijection
  <1>. QED
    BY <1>1, <1>6, FS_CountingElements DEF Z

-------------------------------------------------------------------------------
(* Where the rows of a segment begin. *)
LEMMA RowsOf ==
  ASSUME NEW d \in Seq(Nat \ {0})
  PROVE  /\ Len(d) \in Nat /\ DOMAIN d = 1..Len(d) /\ Upto(d, 0) = 0
         /\ \A i \in 0..Len(d) : Upto(d, i) \in Nat
         /\ \A i \in 1..Len(d) : /\ d[i] \in Nat \ {0}
                                 /\ Upto(d, i) = Upto(d, i - 1) + d[i]
                                 /\ Ends(d)[i] - d[i] = Upto(d, i - 1)
                                 /\ Ends(d)[i] = Upto(d, i)
                                 /\ Upto(d, i - 1) \in Nat /\ Upto(d, i) \in Nat
         /\ \A i \in 0..Len(d) : \A j \in i..Len(d) : Upto(d, i) <= Upto(d, j)
         /\ Total(d) = Upto(d, Len(d)) /\ Upto(d, Len(d)) \in Nat
  <1>1. /\ Len(d) \in Nat /\ DOMAIN d = 1..Len(d)
        /\ \A i \in 1..Len(d) : d[i] \in Nat \ {0}
        /\ d \in Seq(Nat) /\ d \in Seq(Int)
    BY ElementOfSeq, LenProperties, SeqMonotonic, Nat \ {0} \subseteq Int, Nat \ {0} \subseteq Nat
  <1>2. \A i \in 0..Len(d) : \A j \in i..Len(d) : Upto(d, i) <= Upto(d, j) /\ Upto(d, i) \in Nat
    BY <1>1, UptoGrows
  <1>3. ASSUME NEW i \in 0..Len(d) PROVE Upto(d, i) \in Nat
    <2>1. i \in i..Len(d)
      BY <1>1
    <2>. QED
      BY <2>1, <1>2
  <1>4. ASSUME NEW i \in 1..Len(d)
        PROVE  /\ Upto(d, i) = Upto(d, i - 1) + d[i]
               /\ Ends(d)[i] - d[i] = Upto(d, i - 1)
               /\ Ends(d)[i] = Upto(d, i)
               /\ Upto(d, i - 1) \in Nat /\ Upto(d, i) \in Nat
    <2>1. i - 1 \in 0..Len(d) /\ i \in 0..Len(d)
      BY <1>1
    <2>2. Upto(d, i) = Upto(d, i - 1) + d[i] /\ Ends(d)[i] = Upto(d, i)
      BY <1>1, UptoIs
    <2>3. PICK x \in Nat, y \in Nat : x = Upto(d, i - 1) /\ y = d[i]
      BY <1>1, <1>3, <2>1
    <2>4. (x + y) - y = x
      OBVIOUS
    <2>. QED
      BY <2>1, <2>2, <2>3, <2>4, <1>3
  <1>5. Total(d) = Upto(d, Len(d)) /\ Upto(d, 0) = 0
    BY <1>1, UptoIs
  <1>6. Len(d) \in 0..Len(d)
    BY <1>1
  <1>. QED
    BY <1>1, <1>2, <1>3, <1>4, <1>5, <1>6

Block(d, i) == (2 * Upto(d, i - 1))..(2 * Upto(d, i) - 1)

(* Every row is in the block of one segment. *)
LEMMA BlockExists ==
  ASSUME NEW d \in Seq(Nat \ {0}), NEW row \in 0..(2 * Upto(d, Len(d)) - 1)
  PROVE  \E i \in 1..Len(d) : row \in Block(d, i)
  <1>. DEFINE Ahead == {i \in 0..Len(d) : row < 2 * Upto(d, i)}
  <1>1. /\ Len(d) \in Nat /\ Upto(d, 0) = 0 /\ \A i \in 0..Len(d) : Upto(d, i) \in Nat
        /\ Upto(d, Len(d)) \in Nat
    BY RowsOf
  <1>2. Len(d) \in Ahead
    <2>1. PICK x \in Nat : x = Upto(d, Len(d))
      BY <1>1
    <2>2. row < 2 * x
      BY <2>1
    <2>. QED
      BY <1>1, <2>1, <2>2
  <1>3. PICK i \in Ahead : \A k \in Ahead : i <= k
    <2>1. Ahead \in SUBSET Nat /\ Ahead # {}
      BY <1>2
    <2>. HIDE DEF Ahead
    <2>. QED
      BY <2>1, LeastOf
  <1>4. i \in 0..Len(d) /\ row < 2 * Upto(d, i)
    OBVIOUS
  <1>5. i # 0
    BY <1>1, <1>4
  <1>6. i - 1 \in 0..Len(d) /\ i - 1 \notin Ahead /\ i \in 1..Len(d)
    <2>. HIDE DEF Ahead
    <2>. QED
      BY <1>1, <1>3, <1>4, <1>5
  <1>7. PICK x \in Nat, y \in Nat : x = Upto(d, i - 1) /\ y = Upto(d, i)
    BY <1>1, <1>4, <1>6
  <1>8. ~(row < 2 * x) /\ row < 2 * y
    BY <1>4, <1>6, <1>7
  <1>9. row \in (2 * x)..(2 * y - 1)
    BY <1>8
  <1>. QED
    BY <1>6, <1>7, <1>9 DEF Block

(* It is in no other. *)
LEMMA BlockUnique ==
  ASSUME NEW d \in Seq(Nat \ {0}), NEW i \in 1..Len(d), NEW k \in 1..Len(d),
         NEW row \in Int, row \in Block(d, i), row \in Block(d, k)
  PROVE  i = k
  <1>1. SUFFICES ASSUME NEW a \in 1..Len(d), NEW b \in 1..Len(d), a < b,
                        row \in Block(d, a), row \in Block(d, b)
                 PROVE  FALSE
    <2>1. i \in Int /\ k \in Int
      OBVIOUS
    <2>. QED
      BY <1>1, <2>1
  <1>2. a \in 0..Len(d) /\ b - 1 \in a..Len(d) /\ b - 1 \in 0..Len(d)
    BY RowsOf, <1>1
  <1>3. PICK x \in Nat, y \in Nat : x = Upto(d, a) /\ y = Upto(d, b - 1) /\ x <= y
    BY <1>2, RowsOf
  <1>4. row <= 2 * x - 1
    <2>1. Upto(d, a - 1) \in Nat
      BY RowsOf
    <2>. QED
      BY <1>1, <1>3, <2>1 DEF Block
  <1>5. 2 * y <= row
    <2>1. Upto(d, b) \in Nat
      BY RowsOf
    <2>. QED
      BY <1>1, <1>3, <2>1 DEF Block
  <1>. QED
    BY <1>3, <1>4, <1>5

-------------------------------------------------------------------------------
(* The remap of the rows *)

(* A row of a block: its tile in the segment and which of the two it is. *)
LEMMA RowInBlock ==
  ASSUME NEW d \in Seq(Nat \ {0}), NEW i \in 1..Len(d), NEW row \in Block(d, i)
  PROVE  \E j \in 0..(d[i] - 1), b \in {0, 1} :
            row = 2 * Upto(d, i - 1) + 2 * j + b /\ row % 2 = b
  <1>1. PICK a \in Nat, s \in Nat : a = Upto(d, i - 1) /\ s = d[i] /\ Upto(d, i) = a + s
    BY RowsOf
  <1>2. row \in (2 * a)..(2 * (a + s) - 1)
    BY <1>1 DEF Block
  <1>3. PICK k \in Int, b \in {0, 1} : row = 2 * k + b /\ row % 2 = b
    BY <1>2, Halves
  <1>4. k - a \in 0..(s - 1) /\ row = 2 * a + 2 * (k - a) + b
    BY <1>2, <1>3
  <1>. QED
    BY <1>1, <1>3, <1>4

(* A row and its image are rows of the block. *)
LEMMA BlockRow ==
  ASSUME NEW d \in Seq(Nat \ {0}), NEW i \in 1..Len(d), NEW j \in 0..(d[i] - 1), NEW b \in {0, 1}
  PROVE  /\ 2 * Upto(d, i - 1) + 2 * j + b \in Block(d, i)
         /\ 2 * Upto(d, i - 1) + 2 * j + b \in 0..(2 * Upto(d, Len(d)) - 1)
         /\ 2 * Upto(d, i - 1) + b * d[i] + j \in Block(d, i)
         /\ 2 * Upto(d, i - 1) + b * d[i] + j \in 0..(2 * Upto(d, Len(d)) - 1)
  <1>1. i \in 0..Len(d) /\ Len(d) \in i..Len(d)
    BY RowsOf
  <1>2. PICK a \in Nat, s \in Nat : a = Upto(d, i - 1) /\ s = d[i] /\ Upto(d, i) = a + s
    BY RowsOf
  <1>7. PICK z \in Nat : z = Upto(d, Len(d)) /\ a + s <= z
    <2>1. Upto(d, i) <= Upto(d, Len(d)) /\ Upto(d, Len(d)) \in Nat
      BY <1>1, RowsOf
    <2>. QED
      BY <2>1, <1>2
  <1>3. j \in Nat /\ j < s /\ b \in Int /\ 0 <= b /\ b <= 1
    BY <1>2
  <1>4. 2 * a + 2 * j + b \in (2 * a)..(2 * (a + s) - 1) /\ 2 * a + 2 * j + b \in 0..(2 * z - 1)
    BY <1>3, <1>7
  <1>5. PICK y \in {0, s} : y = b * s
    BY <1>2
  <1>6. 2 * a + b * s + j \in (2 * a)..(2 * (a + s) - 1) /\ 2 * a + b * s + j \in 0..(2 * z - 1)
    <2>1. 2 * a + y + j \in (2 * a)..(2 * (a + s) - 1) /\ 2 * a + y + j \in 0..(2 * z - 1)
      BY <1>3, <1>7
    <2>. QED
      BY <2>1, <1>5
  <1>. QED
    BY <1>2, <1>4, <1>6, <1>7 DEF Block

(* Where a row goes. *)
LEMMA RemapIs ==
  ASSUME NEW d \in Seq(Nat \ {0}), NEW i \in 1..Len(d), NEW j \in 0..(d[i] - 1), NEW b \in {0, 1},
         NEW row, row = 2 * Upto(d, i - 1) + 2 * j + b
  PROVE  RowRemap(d, 2, 2)[row] = 2 * Upto(d, i - 1) + b * d[i] + j
  <1>. DEFINE Own(k) == 2 * (Ends(d)[k] - d[k]) <= row /\ row < 2 * Ends(d)[k]
  <1>1. PICK a \in Nat, s \in Nat : a = Upto(d, i - 1) /\ s = d[i] /\ Upto(d, i) = a + s
    BY RowsOf
  <1>2. /\ row \in Block(d, i) /\ row \in 0..(2 * Total(d) - 1)
        /\ DOMAIN d = 1..Len(d) /\ row \in Int /\ j \in Int
    <2>. HIDE DEF Own
    <2>1. row \in Block(d, i) /\ row \in 0..(2 * Upto(d, Len(d)) - 1)
      BY BlockRow
    <2>2. DOMAIN d = 1..Len(d) /\ Total(d) = Upto(d, Len(d)) /\ Upto(d, Len(d)) \in Nat
      BY RowsOf
    <2>. QED
      BY <2>1, <2>2
  <1>3. ASSUME NEW k \in 1..Len(d) PROVE Own(k) <=> row \in Block(d, k)
    <2>1. PICK x \in Nat, y \in Nat :
             /\ x = Upto(d, k - 1) /\ y = Upto(d, k)
             /\ Ends(d)[k] - d[k] = Upto(d, k - 1) /\ Ends(d)[k] = Upto(d, k)
      BY RowsOf
    <2>2. Own(k) <=> 2 * x <= row /\ row < 2 * y
      BY <2>1
    <2>3. row \in Block(d, k) <=> row \in (2 * x)..(2 * y - 1)
      BY <2>1 DEF Block
    <2>. HIDE DEF Own
    <2>. QED
      BY <2>2, <2>3, <1>2
  <1>4. \A k \in DOMAIN d : Own(k) <=> k = i
    <2>1. ASSUME NEW k \in 1..Len(d) PROVE Own(k) <=> k = i
      <3>. HIDE DEF Own
      <3>. QED
        BY <1>2, <1>3, BlockUnique
    <2>. HIDE DEF Own
    <2>. QED
      BY <2>1, <1>2
  <1>5. (CHOOSE k \in DOMAIN d : Own(k)) = i
    <2>1. i \in DOMAIN d
      BY <1>2
    <2>. HIDE DEF Own
    <2>. QED
      BY <2>1, <1>4
  <1>. DEFINE Value(k) ==
         2 * (Ends(d)[k] - d[k])
         + Cardinality({q \in (2 * (Ends(d)[k] - d[k]))..(2 * (Ends(d)[k] - d[k]) + 2 * d[k] - 1) :
                          q % 2 < row % 2 \/ (q % 2 = row % 2 /\ q < row)})
  <1>6. RowRemap(d, 2, 2)[row] = Value(CHOOSE k \in DOMAIN d : Own(k))
    BY <1>2 DEF RowRemap
  <1>7. Value(i) = 2 * a + Cardinality(RowsBefore(a, s, row))
    <2>1. Ends(d)[i] - d[i] = a
      BY <1>1, RowsOf
    <2>. QED
      BY <2>1, <1>1 DEF RowsBefore
  <1>8. Cardinality(RowsBefore(a, s, row)) = b * s + j
    <2>1. j \in 0..(s - 1)
      BY <1>1
    <2>2. CASE b = 0
      <3>1. row = 2 * a + 2 * j
        BY <1>1, <1>2, <2>2
      <3>2. b * s + j = j
        BY <2>2, <1>2
      <3>. QED
        BY <3>1, <3>2, <2>1, RowsBeforeEven
    <2>3. CASE b = 1
      <3>1. row = 2 * a + 2 * j + 1
        BY <1>1, <2>3
      <3>2. b * s + j = s + j
        BY <2>3
      <3>. QED
        BY <3>1, <3>2, <2>1, RowsBeforeOdd
    <2>. QED
      BY <2>2, <2>3
  <1>9. RowRemap(d, 2, 2)[row] = 2 * a + (b * s + j)
    <2>. HIDE DEF Value, Own
    <2>. QED
      BY <1>5, <1>6, <1>7, <1>8
  <1>10. 2 * a + (b * s + j) = 2 * a + b * s + j
    <2>1. b * s \in Int
      OBVIOUS
    <2>. QED
      BY <2>1, <1>2
  <1>. HIDE DEF Value, Own
  <1>. QED
    BY <1>1, <1>9, <1>10

(* The remap permutes the rows and puts the rows of each rank together. *)
LEMMA RemapPermutes ==
  ASSUME NEW d \in Seq(Nat \ {0}), NEW remap, remap = RowRemap(d, 2, 2)
  PROVE  Cardinality({remap[row] : row \in DOMAIN remap}) = 2 * Total(d)
  <1>. DEFINE rows == 0..(2 * Upto(d, Len(d)) - 1)
  <1>1. DOMAIN remap = rows
    BY RowsOf DEF RowRemap
  <1>2. ASSUME NEW row \in rows PROVE remap[row] \in rows
    <2>1. PICK i \in 1..Len(d) : row \in Block(d, i)
      BY BlockExists
    <2>2. PICK j \in 0..(d[i] - 1), b \in {0, 1} : row = 2 * Upto(d, i - 1) + 2 * j + b
      BY <2>1, RowInBlock
    <2>3. remap[row] = 2 * Upto(d, i - 1) + b * d[i] + j
      BY <2>2, RemapIs
    <2>. QED
      BY <2>3, BlockRow
  <1>3. ASSUME NEW p \in rows PROVE \E row \in rows : remap[row] = p
    <2>1. PICK i \in 1..Len(d) : p \in Block(d, i)
      BY BlockExists
    <2>2. PICK a \in Nat, s \in Nat : a = Upto(d, i - 1) /\ s = d[i] /\ Upto(d, i) = a + s
      BY RowsOf
    <2>3. p \in (2 * a)..(2 * (a + s) - 1)
      BY <2>1, <2>2 DEF Block
    <2>4. PICK j \in 0..(s - 1), b \in {0, 1} : p = 2 * a + b * s + j
      <3>1. CASE p < 2 * a + s
        <4>1. p - 2 * a \in 0..(s - 1) /\ p = 2 * a + 0 * s + (p - 2 * a)
          BY <2>3, <3>1
        <4>. QED
          BY <4>1
      <3>2. CASE ~(p < 2 * a + s)
        <4>1. p - 2 * a - s \in 0..(s - 1) /\ p = 2 * a + 1 * s + (p - 2 * a - s)
          BY <2>3, <3>2
        <4>. QED
          BY <4>1
      <3>. QED
        BY <3>1, <3>2
    <2>5. j \in 0..(d[i] - 1) /\ p = 2 * Upto(d, i - 1) + b * d[i] + j
      BY <2>2, <2>4
    <2>6. PICK row : row = 2 * Upto(d, i - 1) + 2 * j + b
      OBVIOUS
    <2>7. row \in rows
      BY <2>5, <2>6, BlockRow
    <2>8. remap[row] = 2 * Upto(d, i - 1) + b * d[i] + j
      BY <2>5, <2>6, RemapIs
    <2>. QED
      BY <2>5, <2>7, <2>8
  <1>4. {remap[row] : row \in DOMAIN remap} = rows
    <2>. HIDE DEF rows
    <2>. QED
      BY <1>1, <1>2, <1>3
  <1>5. Cardinality(rows) = 2 * Total(d)
    <2>1. PICK z \in Nat : z = Upto(d, Len(d)) /\ Total(d) = z
      BY RowsOf
    <2>2. Cardinality(0..(2 * z - 1)) = IF 0 > 2 * z - 1 THEN 0 ELSE (2 * z - 1) - 0 + 1
      BY FS_Interval
    <2>3. Cardinality(0..(2 * z - 1)) = 2 * z
      BY <2>2
    <2>. QED
      BY <2>1, <2>3
  <1>. QED
    BY <1>4, <1>5

(* Within the block, the even rows come before the odd ones. *)
LEMMA RemapContiguous ==
  ASSUME NEW d \in Seq(Nat \ {0}), NEW i \in 1..Len(d), NEW row \in Block(d, i)
  PROVE  RowRemap(d, 2, 2)[row] \in
            (2 * Upto(d, i - 1) + (row % 2) * d[i])..(2 * Upto(d, i - 1) + ((row % 2) + 1) * d[i] - 1)
  <1>1. PICK j \in 0..(d[i] - 1), b \in {0, 1} : row = 2 * Upto(d, i - 1) + 2 * j + b /\ row % 2 = b
    BY RowInBlock
  <1>2. PICK p : p = RowRemap(d, 2, 2)[row]
    OBVIOUS
  <1>3. p = 2 * Upto(d, i - 1) + b * d[i] + j
    BY <1>1, <1>2, RemapIs
  <1>4. PICK a \in Nat, s \in Nat : a = Upto(d, i - 1) /\ s = d[i]
    BY RowsOf
  <1>5. j \in 0..(s - 1) /\ p = 2 * a + b * s + j
    BY <1>1, <1>3, <1>4
  <1>6. PICK x \in Nat : x = b * s /\ (b + 1) * s = x + s
    <2>1. (b = 0 \/ b = 1) /\ (b = 0 => b * s = 0 /\ (b + 1) * s = s) /\ (b = 1 => b * s = s /\ (b + 1) * s = s + s)
      OBVIOUS
    <2>. QED
      BY <2>1
  <1>7. p \in (2 * a + x)..(2 * a + (x + s) - 1)
    BY <1>5, <1>6
  <1>8. p \in (2 * a + b * s)..(2 * a + (b + 1) * s - 1)
    BY <1>6, <1>7
  <1>. QED
    BY <1>1, <1>2, <1>4, <1>8

-------------------------------------------------------------------------------
(* The hint *)

(* The windows of an observation: disjoint sets of tiles. *)
Windows(s, K, T) ==
    /\ K \in Nat \ {0} /\ T \in Nat \ {0} /\ DOMAIN s = 0..(K - 1)
    /\ \A k \in 0..(K - 1) : s[k] \in SUBSET (0..(T - 1))
    /\ \A k \in 0..(K - 1) : \A l \in 0..(K - 1) : k # l => s[k] \cap s[l] = {}

(* What two rounds observe are such windows. *)
LEMMA ObservationIs ==
  ASSUME NEW T \in Nat \ {0}, NEW w \in Nat \ {0}, NEW rounds, rounds # {}
  PROVE  Windows(StablePerWindow(rounds, T, w), DivUp(T, w), T)
  <1>. DEFINE s == StablePerWindow(rounds, T, w)
              K == DivUp(T, w)
  <1>1. K \in Nat \ {0}
    BY DivUpIs
  <1>2. s = [k \in 0..(K - 1) |-> {t \in 0..(T - 1) : \A order \in rounds : order[t] \div w = k}]
    BY DEF StablePerWindow
  <1>3. PICK order : order \in rounds
    OBVIOUS
  <1>. HIDE DEF s, K
  <1>4. ASSUME NEW k \in 0..(K - 1)
        PROVE  s[k] \in SUBSET (0..(T - 1)) /\ \A t \in s[k] : order[t] \div w = k
    <2>1. s[k] = {t \in 0..(T - 1) : \A o \in rounds : o[t] \div w = k}
      BY <1>2
    <2>. QED
      BY <2>1, <1>3
  <1>5. DOMAIN s = 0..(K - 1)
    BY <1>2
  <1>. QED
    BY <1>1, <1>4, <1>5 DEF Windows, s, K

(* The hint grows window by window. *)
Grown(h, s, K, T) ==
    /\ h \in [1..K -> Seq(0..(T - 1))]
    /\ h[1] = Sorted(s[0])
    /\ \A i \in 1..(K - 1) : h[i + 1] = h[i] \o Sorted(s[i])

(* A window is listed without repetition. *)
LEMMA WindowSorted ==
  ASSUME NEW s, NEW K, NEW T, Windows(s, K, T), NEW k \in 0..(K - 1)
  PROVE  /\ Sorted(s[k]) \in Seq(0..(T - 1))
         /\ Len(Sorted(s[k])) = Cardinality(s[k]) /\ Cardinality(s[k]) \in Nat
         /\ \A x : x \in s[k] <=> \E i \in 1..Cardinality(s[k]) : Sorted(s[k])[i] = x
         /\ \A i \in 1..Cardinality(s[k]) : \A j \in 1..Cardinality(s[k]) :
               i # j => Sorted(s[k])[i] # Sorted(s[k])[j]
  <1>1. PICK S \in SUBSET (0..(T - 1)) : S = s[k]
    BY DEF Windows
  <1>2. S \in SUBSET Nat
    OBVIOUS
  <1>3. IsFiniteSet(S)
    <2>1. IsFiniteSet(0..(T - 1))
      BY FS_Interval DEF Windows
    <2>. QED
      BY <2>1, FS_Subset
  <1>4. /\ Cardinality(S) \in Nat
        /\ Sorted(S) \in Seq(S) /\ Len(Sorted(S)) = Cardinality(S)
        /\ \A i \in 1..Cardinality(S) : Sorted(S)[i] \in S
        /\ \A x \in S : \E i \in 1..Cardinality(S) : Sorted(S)[i] = x
        /\ \A i \in 1..Cardinality(S) : \A j \in 1..Cardinality(S) :
              i < j => Sorted(S)[i] < Sorted(S)[j]
    BY <1>2, <1>3, SortedIs
  <1>5. Sorted(S) \in Seq(0..(T - 1))
    BY <1>4, SeqMonotonic
  <1>6. ASSUME NEW i \in 1..Cardinality(S), NEW j \in 1..Cardinality(S), i # j
        PROVE  Sorted(S)[i] # Sorted(S)[j]
    <2>1. PICK x \in Nat, y \in Nat : x = Sorted(S)[i] /\ y = Sorted(S)[j]
      BY <1>2, <1>4
    <2>2. i < j \/ j < i
      BY <1>6
    <2>3. x < y \/ y < x
      BY <2>1, <2>2, <1>4
    <2>. QED
      BY <2>1, <2>3
  <1>. QED
    BY <1>1, <1>4, <1>5, <1>6

(* The flattened windows are what grows window by window. *)
LEMMA HintGrows ==
  ASSUME NEW s, NEW K, NEW T, Windows(s, K, T)
  PROVE  \E h : Grown(h, s, K, T) /\ Hint(s) = h[K]
  <1>. DEFINE q == [i \in 1..K |-> Sorted(s[i - 1])]
              X == Seq(0..(T - 1))
              row(i) == [x \in X |-> IF i = 1 THEN q[i] ELSE x \o q[i]]
              step == [i \in 1..K |-> row(i)]
              Solves(f) == f = [i \in 1..K |-> IF i = 1 THEN q[i] ELSE f[i - 1] \o q[i]]
              base == << >>
  <1>1. K \in Nat \ {0} /\ K \in Nat
    BY DEF Windows
  <1>2. ASSUME NEW i \in 1..K PROVE q[i] \in X /\ q[i] = Sorted(s[i - 1])
    <2>1. i - 1 \in 0..(K - 1)
      BY <1>1
    <2>. QED
      BY <2>1, WindowSorted
  <1>3. base \in X
    BY EmptySeq
  <1>4. step \in [1..K -> [X -> X]]
    <2>1. ASSUME NEW i \in 1..K PROVE row(i) \in [X -> X]
      <3>1. ASSUME NEW x \in X PROVE (IF i = 1 THEN q[i] ELSE x \o q[i]) \in X
        <4>. HIDE DEF q
        <4>. QED
          BY <1>2, ConcatProperties
      <3>. HIDE DEF X, q
      <3>. QED
        BY <3>1
    <2>. HIDE DEF row, X
    <2>. QED
      BY <2>1
  <1>5. \E f \in [1..K -> X] : Stepwise(f, K, base, step)
    <2>. HIDE DEF step, X, base
    <2>. QED
      BY <1>1, <1>3, <1>4, Recursion
  <1>6. PICK f \in [1..K -> X] : Stepwise(f, K, base, step)
    BY <1>5
  <1>7. ASSUME NEW i \in 1..K PROVE f[i] = IF i = 1 THEN q[i] ELSE f[i - 1] \o q[i]
    <2>1. PICK x \in X : x = IF i = 1 THEN base ELSE f[i - 1]
      <3>1. i # 1 => i - 1 \in 1..K
        BY <1>1
      <3>. HIDE DEF X, base
      <3>. QED
        BY <3>1, <1>3
    <2>2. f[i] = step[i][x]
      BY <1>6, <2>1 DEF Stepwise
    <2>3. step[i][x] = IF i = 1 THEN q[i] ELSE x \o q[i]
      <3>. HIDE DEF X, q
      <3>. QED
        OBVIOUS
    <2>. HIDE DEF q, step
    <2>. QED
      BY <2>1, <2>2, <2>3
  <1>8. Solves(f)
    <2>. HIDE DEF q, X
    <2>. QED
      BY <1>7
  <1>. DEFINE h == CHOOSE g : Solves(g)
  <1>9. Solves(h)
    <2>. HIDE DEF Solves
    <2>. QED
      BY <1>8
  <1>10. \A i \in 1..K : h[i] = f[i]
    <2>. DEFINE Same == {i \in 1..K : h[i] = f[i]}
    <2>. HIDE DEF h, q, X
    <2>0. \A i \in 1..K : h[i] = IF i = 1 THEN q[i] ELSE h[i - 1] \o q[i]
      BY <1>9
    <2>1. 1 \in Same
      <3>1. 1 \in 1..K
        BY <1>1
      <3>. QED
        BY <3>1, <2>0, <1>7
    <2>2. ASSUME NEW i \in 1..(K - 1), i \in Same PROVE i + 1 \in Same
      <3>1. i + 1 \in 1..K /\ (i + 1) - 1 = i /\ i + 1 # 1
        BY <1>1
      <3>2. h[i + 1] = h[i] \o q[i + 1]
        BY <3>1, <2>0
      <3>3. f[i + 1] = f[i] \o q[i + 1]
        BY <3>1, <1>7
      <3>. QED
        BY <3>1, <3>2, <3>3, <2>2
    <2>3. \A i \in 1..K : i \in Same
      <3>. HIDE DEF Same
      <3>. QED
        BY <1>1, <2>1, <2>2, Climb
    <2>. QED
      BY <2>3
  <1>11. Hint(s) = h[K]
    <2>1. Cardinality(DOMAIN s) = K
      <3>1. Cardinality(0..(K - 1)) = IF 0 > K - 1 THEN 0 ELSE (K - 1) - 0 + 1
        BY <1>1, FS_Interval
      <3>2. Cardinality(0..(K - 1)) = K
        BY <3>1, <1>1
      <3>. QED
        BY <3>2 DEF Windows
    <2>2. Hint(s) = FlattenSeq(q)
      BY <2>1 DEF Hint
    <2>3. Len(q) = K
      BY <1>1
    <2>4. FlattenSeq(q) = h[K]
      <3>. HIDE DEF q
      <3>. QED
        BY <2>3, <1>1 DEF FlattenSeq
    <2>. QED
      BY <2>2, <2>4
  <1>12. Grown(h, s, K, T)
    <2>. HIDE DEF h, q
    <2>1. DOMAIN h = 1..K
      BY <1>9
    <2>2. h \in [1..K -> X]
      <3>1. h = [i \in 1..K |-> h[i]]
        BY <1>9, <2>1
      <3>2. \A i \in 1..K : h[i] \in X
        BY <1>10
      <3>. HIDE DEF X
      <3>. QED
        BY <3>1, <3>2
    <2>3. h[1] = Sorted(s[0])
      <3>1. 1 \in 1..K /\ 1 - 1 = 0
        BY <1>1
      <3>. QED
        BY <3>1, <1>2, <1>7, <1>10
    <2>4. ASSUME NEW i \in 1..(K - 1) PROVE h[i + 1] = h[i] \o Sorted(s[i])
      <3>1. i + 1 \in 1..K /\ i \in 1..K /\ (i + 1) - 1 = i /\ i + 1 # 1
        BY <1>1
      <3>2. h[i + 1] = f[i + 1] /\ h[i] = f[i]
        BY <3>1, <1>10
      <3>3. f[i + 1] = f[i] \o q[i + 1]
        BY <3>1, <1>7
      <3>4. q[i + 1] = Sorted(s[i])
        BY <3>1, <1>2
      <3>. QED
        BY <3>2, <3>3, <3>4
    <2>. QED
      BY <2>2, <2>3, <2>4 DEF Grown
  <1>. HIDE DEF h
  <1>. QED
    BY <1>11, <1>12

-------------------------------------------------------------------------------
(* What the hint holds *)

(* One more window is appended. *)
LEMMA GrownStep ==
  ASSUME NEW h, NEW s, NEW K, NEW T, Windows(s, K, T), Grown(h, s, K, T), NEW i \in 1..(K - 1)
  PROVE  /\ i \in 1..K /\ i + 1 \in 1..K /\ i \in 0..(K - 1) /\ i \in Nat
         /\ h[i] \in Seq(0..(T - 1)) /\ h[i + 1] \in Seq(0..(T - 1))
         /\ Len(h[i]) \in Nat /\ Cardinality(s[i]) \in Nat
         /\ Len(h[i + 1]) = Len(h[i]) + Cardinality(s[i])
         /\ \A p \in 1..Len(h[i]) : h[i + 1][p] = h[i][p]
         /\ \A r \in 1..Cardinality(s[i]) : h[i + 1][Len(h[i]) + r] = Sorted(s[i])[r]
  <1>1. i \in 1..K /\ i + 1 \in 1..K /\ i \in 0..(K - 1) /\ i \in Nat
    BY DEF Windows
  <1>2. PICK a \in Seq(0..(T - 1)) : a = h[i]
    BY <1>1 DEF Grown
  <1>3. PICK b \in Seq(0..(T - 1)) : b = Sorted(s[i]) /\ Len(b) = Cardinality(s[i])
    BY <1>1, WindowSorted
  <1>4. h[i + 1] = a \o b
    BY <1>2, <1>3 DEF Grown
  <1>5. PICK c : c = a \o b
    OBVIOUS
  <1>6. /\ c \in Seq(0..(T - 1)) /\ Len(c) = Len(a) + Len(b)
        /\ \A p \in 1..(Len(a) + Len(b)) : c[p] = IF p <= Len(a) THEN a[p] ELSE b[p - Len(a)]
    BY <1>5, ConcatProperties
  <1>7. Len(a) \in Nat /\ Len(b) \in Nat
    BY LenProperties
  <1>8. ASSUME NEW p \in 1..Len(a) PROVE c[p] = a[p]
    <2>1. p \in 1..(Len(a) + Len(b)) /\ p <= Len(a)
      BY <1>7
    <2>. QED
      BY <2>1, <1>6
  <1>9. ASSUME NEW r \in 1..Len(b) PROVE c[Len(a) + r] = b[r]
    <2>1. Len(a) + r \in 1..(Len(a) + Len(b)) /\ ~(Len(a) + r <= Len(a)) /\ (Len(a) + r) - Len(a) = r
      BY <1>7
    <2>. QED
      BY <2>1, <1>6
  <1>. QED
    BY <1>1, <1>2, <1>3, <1>4, <1>5, <1>6, <1>7, <1>8, <1>9

(* What the first window gives. *)
LEMMA GrownFirst ==
  ASSUME NEW h, NEW s, NEW K, NEW T, Windows(s, K, T), Grown(h, s, K, T)
  PROVE  /\ 1 \in 1..K /\ 0 \in 0..(K - 1) /\ K \in 1..K /\ K \in Nat
         /\ h[1] = Sorted(s[0]) /\ Len(h[1]) = Cardinality(s[0]) /\ Cardinality(s[0]) \in Nat
         /\ h[1] \in Seq(0..(T - 1))
  <1>1. 1 \in 1..K /\ 0 \in 0..(K - 1) /\ K \in 1..K /\ K \in Nat
    BY DEF Windows
  <1>. QED
    BY <1>1, WindowSorted DEF Grown

(* The hint made of the first k windows holds exactly their tiles, each     *)
(* once.                                                                   *)
Holds(h, s, k) == \A x : Contains(h[k], x) <=> \E j \in 0..(k - 1) : x \in s[j]
Once(g) == \A p \in 1..Len(g) : \A r \in 1..Len(g) : p # r => g[p] # g[r]

LEMMA GrownHolds ==
  ASSUME NEW h, NEW s, NEW K, NEW T, Windows(s, K, T), Grown(h, s, K, T)
  PROVE  \A k \in 1..K : Holds(h, s, k)
  <1>. DEFINE Right == {k \in 1..K : Holds(h, s, k)}
  <1>1. 1 \in Right
    <2>1. ASSUME NEW x PROVE Contains(h[1], x) <=> x \in s[0]
      BY GrownFirst, WindowSorted DEF Contains
    <2>2. \A j \in 0..(1 - 1) : j = 0
      OBVIOUS
    <2>3. 0 \in 0..(1 - 1)
      OBVIOUS
    <2>. QED
      BY <2>1, <2>2, <2>3, GrownFirst DEF Holds
  <1>2. ASSUME NEW k \in 1..(K - 1), k \in Right PROVE k + 1 \in Right
    <2>1. Holds(h, s, k)
      BY <1>2
    <2>2. ASSUME NEW x PROVE Contains(h[k + 1], x) <=> Contains(h[k], x) \/ x \in s[k]
      <3>1. PICK a \in Nat, c \in Nat : a = Len(h[k]) /\ c = Cardinality(s[k]) /\ Len(h[k + 1]) = a + c
        BY GrownStep
      <3>2. ASSUME Contains(h[k + 1], x) PROVE Contains(h[k], x) \/ x \in s[k]
        <4>1. PICK p \in 1..(a + c) : h[k + 1][p] = x
          BY <3>1, <3>2 DEF Contains
        <4>2. CASE p <= a
          <5>1. p \in 1..a
            BY <4>2
          <5>2. h[k][p] = x
            BY <3>1, <4>1, <5>1, GrownStep
          <5>. QED
            BY <3>1, <5>1, <5>2 DEF Contains
        <4>3. CASE ~(p <= a)
          <5>1. p - a \in 1..c /\ a + (p - a) = p
            BY <4>3
          <5>2. Sorted(s[k])[p - a] = x
            BY <3>1, <4>1, <5>1, GrownStep
          <5>3. k \in 0..(K - 1)
            BY GrownStep
          <5>. QED
            BY <3>1, <5>1, <5>2, <5>3, WindowSorted
        <4>. QED
          BY <4>2, <4>3
      <3>3. ASSUME Contains(h[k], x) PROVE Contains(h[k + 1], x)
        <4>1. PICK p \in 1..a : h[k][p] = x
          BY <3>1, <3>3 DEF Contains
        <4>2. h[k + 1][p] = x /\ p \in 1..(a + c)
          BY <3>1, <4>1, GrownStep
        <4>. QED
          BY <3>1, <4>2 DEF Contains
      <3>4. ASSUME x \in s[k] PROVE Contains(h[k + 1], x)
        <4>1. k \in 0..(K - 1)
          BY GrownStep
        <4>2. PICK r \in 1..c : Sorted(s[k])[r] = x
          BY <3>1, <3>4, <4>1, WindowSorted
        <4>3. h[k + 1][a + r] = Sorted(s[k])[r]
          BY <3>1, GrownStep
        <4>4. a + r \in 1..(a + c)
          OBVIOUS
        <4>. QED
          BY <3>1, <4>2, <4>3, <4>4 DEF Contains
      <3>. QED
        BY <3>2, <3>3, <3>4
    <2>3. ASSUME NEW x
          PROVE  (\E j \in 0..((k + 1) - 1) : x \in s[j]) <=> ((\E j \in 0..(k - 1) : x \in s[j]) \/ x \in s[k])
      <3>1. k \in 0..((k + 1) - 1) /\ \A j \in 0..(k - 1) : j \in 0..((k + 1) - 1)
        BY GrownStep
      <3>2. \A j \in 0..((k + 1) - 1) : j = k \/ j \in 0..(k - 1)
        BY GrownStep
      <3>. QED
        BY <3>1, <3>2
    <2>4. Holds(h, s, k + 1)
      BY <2>1, <2>2, <2>3 DEF Holds
    <2>. QED
      BY <2>4, GrownStep
  <1>3. \A k \in 1..K : k \in Right
    <2>1. 1 \in Nat /\ K \in Nat
      BY GrownFirst
    <2>. HIDE DEF Right
    <2>. QED
      BY <1>1, <1>2, <2>1, Climb
  <1>. QED
    BY <1>3

(* No tile is in it twice. *)
LEMMA GrownOnce ==
  ASSUME NEW h, NEW s, NEW K, NEW T, Windows(s, K, T), Grown(h, s, K, T)
  PROVE  \A k \in 1..K : Once(h[k])
  <1>. DEFINE Right == {k \in 1..K : Once(h[k])}
  <1>1. 1 \in Right
    BY GrownFirst, WindowSorted DEF Once
  <1>2. ASSUME NEW k \in 1..(K - 1), k \in Right PROVE k + 1 \in Right
    <2>1. Once(h[k])
      BY <1>2
    <2>2. PICK a \in Nat, c \in Nat : a = Len(h[k]) /\ c = Cardinality(s[k]) /\ Len(h[k + 1]) = a + c
      BY GrownStep
    <2>3. k \in 0..(K - 1) /\ k \in 1..K /\ k + 1 \in 1..K
      BY GrownStep
    <2>7. \A r \in 1..Cardinality(s[k]) : h[k + 1][Len(h[k]) + r] = Sorted(s[k])[r]
      <3>. HIDE DEF Right
      <3>. QED
        BY GrownStep
    <2>4. ASSUME NEW p \in 1..(a + c), ~(p <= a)
          PROVE  p - a \in 1..c /\ h[k + 1][p] = Sorted(s[k])[p - a] /\ h[k + 1][p] \in s[k]
      <3>1. p - a \in 1..c /\ a + (p - a) = p
        BY <2>4
      <3>3. \A r \in 1..c : h[k + 1][a + r] = Sorted(s[k])[r]
        BY <2>2, <2>7
      <3>2. h[k + 1][p] = Sorted(s[k])[p - a]
        BY <3>1, <3>3
      <3>. QED
        BY <2>2, <2>3, <3>1, <3>2, WindowSorted
    <2>5. ASSUME NEW p \in 1..(a + c), p <= a
          PROVE  p \in 1..a /\ h[k + 1][p] = h[k][p] /\ h[k + 1][p] \notin s[k]
      <3>1. p \in 1..a
        BY <2>5
      <3>2. h[k + 1][p] = h[k][p]
        BY <2>2, <3>1, GrownStep
      <3>3. PICK j \in 0..(k - 1) : h[k][p] \in s[j]
        <4>1. Contains(h[k], h[k][p])
          BY <2>2, <3>1 DEF Contains
        <4>. QED
          BY <2>3, <4>1, GrownHolds DEF Holds
      <3>4. j \in 0..(K - 1) /\ j # k
        <4>1. k \in Int /\ K \in Int /\ k <= K - 1 /\ j \in Int /\ 0 <= j /\ j <= k - 1
          BY <2>3, GrownFirst
        <4>. QED
          BY <4>1
      <3>5. h[k][p] \notin s[k]
        BY <2>3, <3>3, <3>4 DEF Windows
      <3>. QED
        BY <3>1, <3>2, <3>5
    <2>6. ASSUME NEW p \in 1..(a + c), NEW r \in 1..(a + c), p # r
          PROVE  h[k + 1][p] # h[k + 1][r]
      <3>1. CASE p <= a /\ r <= a
        BY <3>1, <2>5, <2>6, <2>1, <2>2 DEF Once
      <3>2. CASE p <= a /\ ~(r <= a)
        BY <3>2, <2>4, <2>5
      <3>3. CASE ~(p <= a) /\ r <= a
        BY <3>3, <2>4, <2>5
      <3>4. CASE ~(p <= a) /\ ~(r <= a)
        <4>1. p - a # r - a
          BY <2>6
        <4>2. h[k + 1][p] = Sorted(s[k])[p - a] /\ h[k + 1][r] = Sorted(s[k])[r - a]
              /\ p - a \in 1..c /\ r - a \in 1..c
          BY <3>4, <2>4
        <4>3. \A i \in 1..c : \A j \in 1..c : i # j => Sorted(s[k])[i] # Sorted(s[k])[j]
          BY <2>2, <2>3, WindowSorted
        <4>4. Sorted(s[k])[p - a] # Sorted(s[k])[r - a]
          BY <4>1, <4>2, <4>3
        <4>. QED
          BY <4>2, <4>4
      <3>. QED
        BY <3>1, <3>2, <3>3, <3>4
    <2>. QED
      BY <2>2, <2>3, <2>6 DEF Once
  <1>3. \A k \in 1..K : k \in Right
    <2>1. 1 \in Nat /\ K \in Nat
      BY GrownFirst
    <2>. HIDE DEF Right
    <2>. QED
      BY <1>1, <1>2, <2>1, Climb
  <1>. QED
    BY <1>3

(* The hint of the first k windows begins the whole hint. *)
LEMMA GrownPrefix ==
  ASSUME NEW h, NEW s, NEW K, NEW T, Windows(s, K, T), Grown(h, s, K, T), NEW k \in 1..K
  PROVE  Len(h[k]) <= Len(h[K]) /\ \A p \in 1..Len(h[k]) : h[K][p] = h[k][p]
  <1>. DEFINE Longer == {l \in k..K : Len(h[k]) <= Len(h[l]) /\ \A p \in 1..Len(h[k]) : h[l][p] = h[k][p]}
  <1>1. k \in Nat /\ K \in Nat /\ K \in k..K /\ \A l \in 1..K : Len(h[l]) \in Nat
    <2>1. \A l \in 1..K : h[l] \in Seq(0..(T - 1))
      BY DEF Grown
    <2>. QED
      BY <2>1, GrownFirst, LenProperties
  <1>2. k \in Longer
    BY <1>1
  <1>3. ASSUME NEW l \in k..(K - 1), l \in Longer PROVE l + 1 \in Longer
    <2>1. l \in 1..(K - 1) /\ l + 1 \in k..K /\ l \in 1..K
      BY <1>1
    <2>2. PICK a \in Nat, b \in Nat, c \in Nat :
             a = Len(h[k]) /\ b = Len(h[l]) /\ c = Cardinality(s[l]) /\ Len(h[l + 1]) = b + c
      BY <1>1, <2>1, GrownStep
    <2>3. a <= b /\ \A p \in 1..a : h[l][p] = h[k][p]
      BY <1>3, <2>2
    <2>4. ASSUME NEW p \in 1..a PROVE h[l + 1][p] = h[k][p]
      <3>1. p \in 1..b
        BY <2>3
      <3>2. h[l + 1][p] = h[l][p]
        BY <2>1, <2>2, <3>1, GrownStep
      <3>. QED
        BY <2>3, <3>2
    <2>5. a <= b + c
      BY <2>3
    <2>. QED
      BY <2>1, <2>2, <2>4, <2>5
  <1>4. \A l \in k..K : l \in Longer
    <2>. HIDE DEF Longer
    <2>. QED
      BY <1>1, <1>2, <1>3, Climb
  <1>. QED
    BY <1>1, <1>4

(* If each of the first k windows has m stable tiles, so many are in front. *)
LEMMA GrownLength ==
  ASSUME NEW h, NEW s, NEW K, NEW T, Windows(s, K, T), Grown(h, s, K, T),
         NEW m \in Nat, NEW k \in 1..K, \A j \in 0..(k - 1) : m <= Cardinality(s[j])
  PROVE  k * m <= Len(h[k])
  <1>. DEFINE Long == {l \in 1..k : l * m <= Len(h[l])}
  <1>1. k \in Nat /\ k \in 1..k /\ 1 \in 1..k /\ 1 \in Nat /\ K \in Nat
    BY GrownFirst
  <1>2. 1 \in Long
    <2>1. m <= Len(h[1]) /\ 1 * m = m
      <3>1. 0 \in 0..(k - 1)
        BY <1>1
      <3>. QED
        BY <3>1, GrownFirst
    <2>. QED
      BY <1>1, <2>1
  <1>3. ASSUME NEW l \in 1..(k - 1), l \in Long PROVE l + 1 \in Long
    <2>1. l \in 1..(K - 1) /\ l \in 0..(k - 1) /\ l + 1 \in 1..k
      BY <1>1
    <2>2. PICK b \in Nat, c \in Nat : b = Len(h[l]) /\ c = Cardinality(s[l]) /\ Len(h[l + 1]) = b + c
      BY <2>1, GrownStep
    <2>3. m <= c /\ l * m <= b
      BY <1>3, <2>1, <2>2
    <2>4. (l + 1) * m = l * m + m /\ l * m \in Nat
      <3>1. l \in Nat
        OBVIOUS
      <3>. QED
        BY <3>1, ProductNat
    <2>5. (l + 1) * m <= b + c
      BY <2>3, <2>4
    <2>. QED
      BY <2>1, <2>2, <2>5
  <1>4. \A l \in 1..k : l \in Long
    <2>. HIDE DEF Long
    <2>. QED
      BY <1>1, <1>2, <1>3, Climb
  <1>. QED
    BY <1>1, <1>4

-------------------------------------------------------------------------------
(* The order and the layout *)

(* Numbers in a row are in order. *)
LEMMA SortedRow ==
  ASSUME NEW L \in Nat
  PROVE  DOMAIN Sorted(1..L) = 1..L /\ \A i \in 1..L : Sorted(1..L)[i] = i
  <1>. DEFINE S == 1..L
  <1>1. S \in SUBSET Nat /\ IsFiniteSet(S) /\ Cardinality(S) = L
    <2>1. Cardinality(1..L) = (IF 1 > L THEN 0 ELSE L - 1 + 1) /\ IsFiniteSet(1..L)
      BY FS_Interval
    <2>. QED
      BY <2>1
  <1>2. ASSUME NEW i \in 1..L PROVE Rank(S, i) + 1 = i
    <2>1. {y \in S : y < i} = 1..(i - 1)
      OBVIOUS
    <2>2. Cardinality(1..(i - 1)) = (IF 1 > i - 1 THEN 0 ELSE (i - 1) - 1 + 1)
      BY FS_Interval
    <2>3. Cardinality(1..(i - 1)) = i - 1
      BY <2>2
    <2>4. Rank(S, i) = i - 1
      <3>. HIDE DEF S
      <3>. QED
        BY <2>1, <2>3 DEF Rank
    <2>5. i - 1 + 1 = i
      OBVIOUS
    <2>. HIDE DEF S
    <2>. QED
      BY <2>4, <2>5
  <1>3. DOMAIN Sorted(S) = 1..L /\ \A x \in S : Sorted(S)[Rank(S, x) + 1] = x
    <2>. HIDE DEF S
    <2>. QED
      BY <1>1, SortedIs
  <1>. QED
    BY <1>2, <1>3

Rest(T, g) == (0..(T - 1)) \ ToSet(g)

(* The tiles that are not in the hint. *)
LEMMA RestIs ==
  ASSUME NEW T \in Nat, NEW g \in Seq(0..(T - 1)), Once(g)
  PROVE  /\ Len(g) \in Nat /\ DOMAIN g = 1..Len(g) /\ \A i \in 1..Len(g) : g[i] \in 0..(T - 1)
         /\ \A x : x \in ToSet(g) <=> Contains(g, x)
         /\ Rest(T, g) \in SUBSET Nat /\ IsFiniteSet(Rest(T, g))
         /\ Cardinality(Rest(T, g)) = T - Len(g) /\ Cardinality(Rest(T, g)) \in Nat
  <1>. DEFINE L == Len(g)
  <1>1. L \in Nat /\ DOMAIN g = 1..L /\ \A i \in 1..L : g[i] \in 0..(T - 1)
    BY ElementOfSeq, LenProperties
  <1>2. ASSUME NEW x PROVE x \in ToSet(g) <=> Contains(g, x)
    BY <1>1 DEF ToSet, Contains
  <1>3. ToSet(g) \in SUBSET (0..(T - 1))
    BY <1>1 DEF ToSet
  <1>4. IsFiniteSet(0..(T - 1)) /\ Cardinality(0..(T - 1)) = T
    <2>1. Cardinality(0..(T - 1)) = (IF 0 > T - 1 THEN 0 ELSE (T - 1) - 0 + 1) /\ IsFiniteSet(0..(T - 1))
      BY FS_Interval
    <2>. QED
      BY <2>1
  <1>5. Cardinality(ToSet(g)) = L
    <2>1. g \in [1..L -> ToSet(g)]
      <3>1. \A i \in 1..L : g[i] \in ToSet(g)
        BY <1>1 DEF ToSet
      <3>2. g = [i \in 1..L |-> g[i]]
        BY LenProperties
      <3>. QED
        BY <3>1, <3>2
    <2>2. g \in Injection(1..L, ToSet(g))
      BY <2>1 DEF Injection, IsInjective, Once
    <2>3. g \in Surjection(1..L, ToSet(g))
      BY <1>1, <2>1 DEF Surjection, ToSet
    <2>4. ExistsBijection(1..L, ToSet(g))
      BY <2>2, <2>3 DEF ExistsBijection, Bijection
    <2>. HIDE DEF L
    <2>. QED
      BY <1>1, <2>4, FS_CountingElements
  <1>6. IsFiniteSet(Rest(T, g)) /\ Cardinality(Rest(T, g)) = T - L
    <2>1. PICK A : A = 0..(T - 1)
      OBVIOUS
    <2>2. A \cap ToSet(g) = ToSet(g)
      BY <1>3, <2>1
    <2>3. IsFiniteSet(A \ ToSet(g)) /\ Cardinality(A \ ToSet(g)) = Cardinality(A) - Cardinality(A \cap ToSet(g))
      BY <1>4, <2>1, FS_Difference
    <2>4. A \ ToSet(g) = Rest(T, g)
      BY <2>1 DEF Rest
    <2>. QED
      BY <1>4, <1>5, <2>1, <2>2, <2>3, <2>4
  <1>7. Rest(T, g) \in SUBSET Nat
    BY DEF Rest
  <1>. QED
    BY <1>1, <1>2, <1>6, <1>7, FS_CardinalityType

(* The order that is saved: the hint, then the others in order. *)
LEMMA FullOrderIs ==
  ASSUME NEW T \in Nat, NEW g \in Seq(0..(T - 1)), Once(g),
         NEW order, order = FullTileOrder(T, g)
  PROVE  /\ order \in Seq(0..(T - 1)) /\ Len(order) = T /\ DOMAIN order = 1..T
         /\ Len(g) <= T
         /\ \A i \in 1..Len(g) : order[i] = g[i]
         /\ \A i \in 1..Cardinality(Rest(T, g)) : order[Len(g) + i] = Sorted(Rest(T, g))[i]
  <1>. DEFINE L == Len(g)
              fresh == {i \in DOMAIN g : \A j \in 1..(i - 1) : g[j] # g[i]}
  <1>1. L \in Nat /\ DOMAIN g = 1..L /\ \A i \in 1..L : g[i] \in 0..(T - 1)
    BY RestIs
  <1>2. fresh = 1..L
    <2>1. ASSUME NEW i \in 1..L, NEW j \in 1..(i - 1) PROVE g[j] # g[i]
      <3>1. j \in 1..L /\ j # i
        BY <1>1
      <3>. QED
        BY <3>1 DEF Once
    <2>. QED
      BY <1>1, <2>1
  <1>3. DOMAIN Sorted(fresh) = 1..L /\ \A i \in 1..L : Sorted(fresh)[i] = i
    <2>. HIDE DEF L, fresh
    <2>. QED
      BY <1>1, <1>2, SortedRow
  <1>4. [i \in DOMAIN Sorted(fresh) |-> g[Sorted(fresh)[i]]] = g
    <2>1. [i \in DOMAIN Sorted(fresh) |-> g[Sorted(fresh)[i]]] = [i \in 1..L |-> g[i]]
      <3>. HIDE DEF L, fresh
      <3>. QED
        BY <1>3
    <2>2. g = [i \in 1..L |-> g[i]]
      BY LenProperties
    <2>. HIDE DEF L, fresh
    <2>. QED
      BY <2>1, <2>2
  <1>5. PICK b : b = Sorted(Rest(T, g))
    OBVIOUS
  <1>6. order = g \o b
    <2>1. order = [i \in DOMAIN Sorted(fresh) |-> g[Sorted(fresh)[i]]] \o Sorted((0..(T - 1)) \ ToSet(g))
      BY DEF FullTileOrder
    <2>. HIDE DEF fresh
    <2>. QED
      BY <1>4, <1>5, <2>1 DEF Rest
  <1>7. b \in Seq(0..(T - 1)) /\ Len(b) = Cardinality(Rest(T, g)) /\ Len(b) \in Nat /\ L + Len(b) = T
    <2>1. /\ Rest(T, g) \in SUBSET Nat /\ IsFiniteSet(Rest(T, g))
          /\ Cardinality(Rest(T, g)) = T - L /\ Cardinality(Rest(T, g)) \in Nat
      BY RestIs
    <2>2. b \in Seq(Rest(T, g)) /\ Len(b) = Cardinality(Rest(T, g))
      BY <1>5, <2>1, SortedIs
    <2>3. Rest(T, g) \subseteq 0..(T - 1)
      BY DEF Rest
    <2>. HIDE DEF L
    <2>. QED
      BY <1>1, <2>1, <2>2, <2>3, SeqMonotonic
  <1>8. /\ order \in Seq(0..(T - 1)) /\ Len(order) = L + Len(b)
        /\ \A i \in 1..(L + Len(b)) : order[i] = IF i <= L THEN g[i] ELSE b[i - L]
    BY <1>6, <1>7, ConcatProperties
  <1>9. ASSUME NEW i \in 1..L PROVE order[i] = g[i]
    <2>1. i \in 1..(L + Len(b)) /\ i <= L
      BY <1>1, <1>7
    <2>. QED
      BY <2>1, <1>8
  <1>10. ASSUME NEW i \in 1..Len(b) PROVE order[L + i] = b[i]
    <2>1. L + i \in 1..(L + Len(b)) /\ ~(L + i <= L) /\ (L + i) - L = i
      BY <1>1, <1>7
    <2>. QED
      BY <2>1, <1>8
  <1>11. DOMAIN order = 1..Len(order)
    BY <1>8, LenProperties
  <1>. QED
    BY <1>1, <1>5, <1>7, <1>8, <1>9, <1>10, <1>11

(* Where a tile is in it, and that it is there once. *)
Place(T, g, t) == IF Contains(g, t) THEN (CHOOSE i \in DOMAIN g : g[i] = t)
                  ELSE Len(g) + Rank(Rest(T, g), t) + 1

LEMMA PlaceIs ==
  ASSUME NEW T \in Nat, NEW g \in Seq(0..(T - 1)), Once(g),
         NEW order, order = FullTileOrder(T, g), NEW t \in 0..(T - 1)
  PROVE  /\ Place(T, g, t) \in 1..T
         /\ order[Place(T, g, t)] = t
         /\ \A i \in 1..T : order[i] = t => i = Place(T, g, t)
  <1>1. PICK L \in Nat, n \in Nat : L = Len(g) /\ n = Cardinality(Rest(T, g)) /\ n = T - L
    BY RestIs
  <1>2. /\ \A i \in 1..L : order[i] = g[i]
        /\ \A i \in 1..n : order[L + i] = Sorted(Rest(T, g))[i]
    <2>1. /\ \A i \in 1..Len(g) : order[i] = g[i]
          /\ \A i \in 1..Cardinality(Rest(T, g)) : order[Len(g) + i] = Sorted(Rest(T, g))[i]
      BY FullOrderIs
    <2>. QED
      BY <1>1, <2>1
  <1>3. /\ Rest(T, g) \in SUBSET Nat /\ IsFiniteSet(Rest(T, g))
        /\ \A x : x \in Rest(T, g) <=> x \in 0..(T - 1) /\ ~Contains(g, x)
        /\ DOMAIN g = 1..L
    BY <1>1, RestIs DEF Rest
  <1>4. /\ \A i \in 1..n : Sorted(Rest(T, g))[i] \in Rest(T, g) /\ Rank(Rest(T, g), Sorted(Rest(T, g))[i]) = i - 1
        /\ \A x \in Rest(T, g) : Rank(Rest(T, g), x) + 1 \in 1..n /\ Sorted(Rest(T, g))[Rank(Rest(T, g), x) + 1] = x
    BY <1>1, <1>3, SortedIs
  <1>5. ASSUME NEW i \in 1..T, ~(i <= L)
        PROVE  i - L \in 1..n /\ order[i] = Sorted(Rest(T, g))[i - L] /\ order[i] \in Rest(T, g)
    <2>1. i - L \in 1..n /\ L + (i - L) = i
      BY <1>1, <1>5
    <2>. QED
      BY <2>1, <1>2, <1>4
  <1>6. CASE Contains(g, t)
    <2>1. PICK j \in 1..L : g[j] = t
      BY <1>1, <1>6 DEF Contains
    <2>2. \A i \in DOMAIN g : g[i] = t <=> i = j
      BY <2>1, <1>1, <1>3 DEF Once
    <2>3. Place(T, g, t) = j
      <3>1. j \in DOMAIN g
        BY <1>3, <2>1
      <3>2. (CHOOSE i \in DOMAIN g : g[i] = t) = j
        BY <2>2, <3>1
      <3>. QED
        BY <3>2, <1>6 DEF Place
    <2>4. j \in 1..T /\ order[j] = t
      BY <1>1, <1>2, <2>1
    <2>5. ASSUME NEW i \in 1..T, order[i] = t PROVE i = j
      <3>1. i <= L
        <4>1. ~(i <= L) => t \in Rest(T, g)
          BY <1>5, <2>5
        <4>. QED
          BY <4>1, <1>3, <1>6
      <3>2. i \in 1..L
        BY <3>1
      <3>3. g[i] = t
        BY <3>2, <1>2, <2>5
      <3>. QED
        BY <3>2, <3>3, <2>2, <1>3
    <2>. QED
      BY <2>3, <2>4, <2>5
  <1>7. CASE ~Contains(g, t)
    <2>1. t \in Rest(T, g)
      BY <1>3, <1>7
    <2>2. PICK r \in 1..n : r = Rank(Rest(T, g), t) + 1 /\ Sorted(Rest(T, g))[r] = t
      BY <2>1, <1>4
    <2>3. Place(T, g, t) = L + r
      <3>1. Rank(Rest(T, g), t) \in Int
        BY <2>1, <1>3, RankGrows, FS_CardinalityType
      <3>2. Place(T, g, t) = L + Rank(Rest(T, g), t) + 1
        BY <1>1, <1>7 DEF Place
      <3>. QED
        BY <3>1, <3>2, <2>2
    <2>4. L + r \in 1..T
      BY <1>1
    <2>5. order[L + r] = t
      BY <1>2, <2>2
    <2>6. ASSUME NEW i \in 1..T, order[i] = t PROVE i = L + r
      <3>1. ~(i <= L)
        <4>1. ASSUME i <= L PROVE FALSE
          <5>1. i \in 1..L
            BY <4>1
          <5>2. g[i] = t
            BY <5>1, <1>2, <2>6
          <5>. QED
            BY <5>1, <5>2, <1>1, <1>7 DEF Contains
        <4>. QED
          BY <4>1
      <3>2. PICK k \in 1..n : k = i - L /\ Sorted(Rest(T, g))[k] = t
        BY <3>1, <1>5, <2>6
      <3>3. Rank(Rest(T, g), t) = k - 1
        BY <3>2, <1>4
      <3>4. r = (k - 1) + 1
        BY <3>3, <2>2
      <3>. QED
        BY <3>2, <3>4, <1>1
    <2>. QED
      BY <2>3, <2>4, <2>5, <2>6
  <1>. QED
    BY <1>6, <1>7

(* The layout that is saved is the one that is measured, and it is a        *)
(* permutation that the order that is saved inverts.                       *)
LEMMA LayoutIsOrder ==
  ASSUME NEW T \in Nat, NEW g \in Seq(0..(T - 1)), Once(g),
         NEW order, order = FullTileOrder(T, g), NEW map, map = ReorderMap(order)
  PROVE  /\ map = ReorderIndices(T, g)
         /\ DOMAIN map = 0..(T - 1)
         /\ \A t \in 0..(T - 1) : order[map[t] + 1] = t
  <1>1. DOMAIN order = 1..T /\ Len(order) = T
    BY FullOrderIs
  <1>2. map = [t \in 0..(T - 1) |-> (CHOOSE i \in 1..T : order[i] = t) - 1]
    BY <1>1 DEF ReorderMap
  <1>3. ASSUME NEW t \in 0..(T - 1)
        PROVE  /\ (CHOOSE i \in 1..T : order[i] = t) = Place(T, g, t)
               /\ Place(T, g, t) \in 1..T /\ order[Place(T, g, t)] = t
    <2>0. /\ Place(T, g, t) \in 1..T
          /\ order[Place(T, g, t)] = t
          /\ \A i \in 1..T : order[i] = t => i = Place(T, g, t)
      BY PlaceIs
    <2>1. PICK p \in 1..T : p = Place(T, g, t) /\ order[p] = t /\ \A i \in 1..T : order[i] = t => i = p
      BY <2>0
    <2>2. (CHOOSE i \in 1..T : order[i] = t) = p
      BY <2>1
    <2>. QED
      BY <2>1, <2>2
  <1>4. ASSUME NEW t \in 0..(T - 1)
        PROVE  Place(T, g, t) - 1 =
                 IF Contains(g, t) THEN (CHOOSE i \in DOMAIN g : g[i] = t) - 1
                 ELSE Len(g) + Cardinality({u \in 0..(t - 1) : ~Contains(g, u)})
    <2>1. CASE Contains(g, t)
      BY <2>1 DEF Place
    <2>2. CASE ~Contains(g, t)
      <3>1. {u \in 0..(t - 1) : ~Contains(g, u)} = {y \in Rest(T, g) : y < t}
        <4>1. \A x : x \in Rest(T, g) <=> x \in 0..(T - 1) /\ ~Contains(g, x)
          BY RestIs DEF Rest
        <4>2. \A u : (u \in 0..(T - 1) /\ u < t) <=> u \in 0..(t - 1)
          OBVIOUS
        <4>. QED
          BY <4>1, <4>2
      <3>2. Place(T, g, t) = Len(g) + Rank(Rest(T, g), t) + 1
        BY <2>2 DEF Place
      <3>3. t \in Rest(T, g) /\ Rest(T, g) \in SUBSET Nat /\ IsFiniteSet(Rest(T, g))
        BY <2>2, RestIs DEF Rest
      <3>4. PICK r \in Int, L \in Int : r = Rank(Rest(T, g), t) /\ L = Len(g)
        <4>1. Rank(Rest(T, g), t) \in 0..(Cardinality(Rest(T, g)) - 1)
          BY <3>3, RankGrows
        <4>2. Len(g) \in Nat
          BY RestIs
        <4>. QED
          BY <4>1, <4>2
      <3>5. (L + r + 1) - 1 = L + r
        OBVIOUS
      <3>6. Cardinality({u \in 0..(t - 1) : ~Contains(g, u)}) = r
        BY <3>1, <3>4 DEF Rank
      <3>. QED
        BY <2>2, <3>2, <3>4, <3>5, <3>6
    <2>. QED
      BY <2>1, <2>2
  <1>5. map = ReorderIndices(T, g)
    <2>1. map = [t \in 0..(T - 1) |-> Place(T, g, t) - 1]
      BY <1>2, <1>3
    <2>. QED
      BY <2>1, <1>4 DEF ReorderIndices
  <1>6. ASSUME NEW t \in 0..(T - 1) PROVE order[map[t] + 1] = t
    <2>1. PICK p \in 1..T : p = Place(T, g, t) /\ order[p] = t
      BY <1>3
    <2>2. map[t] = p - 1
      <3>1. map[t] = (CHOOSE i \in 1..T : order[i] = t) - 1
        BY <1>2
      <3>. QED
        BY <3>1, <1>3, <2>1
    <2>3. (p - 1) + 1 = p
      OBVIOUS
    <2>. QED
      BY <2>1, <2>2, <2>3
  <1>. QED
    BY <1>2, <1>5, <1>6

-------------------------------------------------------------------------------
(* Stable prefixes *)

(* Division rounded down. *)
LEMMA QuotientFits ==
  ASSUME NEW c \in Nat, NEW y \in Nat \ {0}
  PROVE  c \div y \in Nat /\ (c \div y) * y <= c
  <1>. DEFINE q == c \div y
              r == c % y
  <1>1. y > 0 /\ y \in Int /\ c \in Int
    OBVIOUS
  <1>2. q \in Int /\ r \in 0..(y - 1) /\ c = y * q + r
    BY <1>1
  <1>3. q >= 0
    BY <1>1
  <1>. HIDE DEF q, r
  <1>4. q * y = c - r
    <2>1. y * q = q * y
      BY <1>2
    <2>. QED
      BY <1>1, <1>2, <2>1
  <1>. USE DEF q
  <1>. QED
    BY <1>2, <1>3, <1>4

(* Every full window has the tiles of the effective group of waves.        *)
LEMMA EffectiveIs ==
  ASSUME NEW s, NEW K, NEW T, Windows(s, K, T),
         NEW w \in Nat \ {0}, NEW sms \in Nat \ {0}, NEW nominal \in Nat \ {0},
         NEW G, G = EffectiveGroup(s, T, w, sms, nominal)
  PROVE  /\ G \in Nat
         /\ \A k \in FullWindows(s, T, w) : G * sms <= Cardinality(s[k])
  <1>. DEFINE full == FullWindows(s, T, w)
              each == {nominal} \cup {Cardinality(s[k]) \div sms : k \in full}
  <1>1. full \subseteq 0..(K - 1)
    BY DEF FullWindows, Windows
  <1>2. \A k \in full : Cardinality(s[k]) \in Nat
    BY <1>1, WindowSorted
  <1>3. \A k \in full : Cardinality(s[k]) \div sms \in Nat
    BY <1>2, QuotientFits
  <1>4. CASE full = {}
    <2>1. DivUp(T, sms) \in Nat
      BY DivUpIs DEF Windows
    <2>2. Min({nominal, DivUp(T, sms)}) \in Nat
      BY <2>1, LeastIs
    <2>. QED
      BY <1>4, <2>2 DEF EffectiveGroup
  <1>5. CASE full # {}
    <2>1. G = Min(each)
      BY <1>5 DEF EffectiveGroup
    <2>2. each \in SUBSET Nat /\ each # {}
      BY <1>3
    <2>3. G \in Nat /\ \A m \in each : G <= m
      <3>1. PICK E \in SUBSET Nat : E = each /\ E # {}
        BY <2>2
      <3>2. Min(E) \in E /\ \A m \in E : Min(E) <= m
        BY <3>1, LeastIs
      <3>3. G = Min(E)
        BY <2>1, <3>1
      <3>. HIDE DEF each
      <3>. QED
        BY <3>1, <3>2, <3>3
    <2>4. ASSUME NEW k \in full PROVE G * sms <= Cardinality(s[k])
      <3>1. PICK c \in Nat : c = Cardinality(s[k])
        BY <1>2
      <3>2. PICK q \in Nat : q = c \div sms /\ q * sms <= c
        BY QuotientFits
      <3>3. G <= q
        BY <2>3, <3>1, <3>2
      <3>4. PICK a \in Nat : q = G + a
        <4>1. q - G \in Nat /\ q = G + (q - G)
          BY <2>3, <3>3
        <4>. QED
          BY <4>1
      <3>5. q * sms = G * sms + a * sms /\ G * sms \in Nat /\ a * sms \in Nat
        BY <2>3, <3>4, ProductNat
      <3>6. G * sms <= c
        BY <3>2, <3>5
      <3>. QED
        BY <3>1, <3>6
    <2>. QED
      BY <2>3, <2>4
  <1>. QED
    BY <1>4, <1>5

(* If there are k full windows, the first k are full. *)
LEMMA FirstAreFull ==
  ASSUME NEW s, NEW K, NEW T, Windows(s, K, T), NEW w \in Nat \ {0},
         NEW k \in 1..Cardinality(FullWindows(s, T, w))
  PROVE  k \in 1..K /\ \A j \in 0..(k - 1) : j \in FullWindows(s, T, w)
  <1>1. PICK full : full = FullWindows(s, T, w)
    OBVIOUS
  <1>2. /\ K \in Nat \ {0} /\ T \in Nat
        /\ \A l : l \in full <=> l \in 0..(K - 1) /\ (l + 1) * w <= T
    BY <1>1 DEF FullWindows, Windows
  <1>3. IsFiniteSet(full) /\ Cardinality(full) \in Nat
    <2>1. IsFiniteSet(0..(K - 1)) /\ full \in SUBSET (0..(K - 1))
      BY <1>2, FS_Interval
    <2>. QED
      BY <2>1, FS_Subset, FS_CardinalityType
  <1>4. k \in Nat \ {0} /\ k <= Cardinality(full)
    BY <1>1, <1>3
  <1>5. ASSUME NEW j \in Nat, full \subseteq 0..(j - 1) PROVE k <= j
    <2>1. Cardinality(0..(j - 1)) = (IF 0 > j - 1 THEN 0 ELSE (j - 1) - 0 + 1) /\ IsFiniteSet(0..(j - 1))
      BY FS_Interval
    <2>2. Cardinality(0..(j - 1)) = j
      BY <2>1
    <2>3. Cardinality(full) <= j
      <3>1. full \in SUBSET (0..(j - 1))
        BY <1>5
      <3>. QED
        BY <2>1, <2>2, <3>1, FS_Subset
    <2>. QED
      BY <2>3, <1>3, <1>4
  <1>6. k <= K
    <2>1. full \subseteq 0..(K - 1)
      BY <1>2
    <2>. QED
      BY <2>1, <1>2, <1>5
  <1>7. ASSUME NEW j \in 0..(k - 1), j \notin full PROVE FALSE
    <2>1. j \in Nat /\ j < k /\ j \in 0..(K - 1)
      BY <1>2, <1>4, <1>6
    <2>2. ~((j + 1) * w <= T)
      BY <1>2, <1>7, <2>1
    <2>3. ASSUME NEW l \in full PROVE l \in 0..(j - 1)
      <3>1. l \in Nat /\ (l + 1) * w <= T
        BY <1>2
      <3>2. ASSUME j <= l PROVE FALSE
        <4>1. PICK a \in Nat : l = j + a
          <5>1. l - j \in Nat /\ l = j + (l - j)
            BY <2>1, <3>1, <3>2
          <5>. QED
            BY <5>1
        <4>2. (l + 1) * w = (j + 1) * w + a * w /\ (j + 1) * w \in Nat /\ a * w \in Nat
          <5>1. (l + 1) * w = (j + 1) * w + a * w
            BY <2>1, <4>1
          <5>2. j + 1 \in Nat
            BY <2>1
          <5>. QED
            BY <5>1, <5>2, ProductNat
        <4>. QED
          BY <1>2, <2>2, <3>1, <4>2
      <3>. QED
        BY <2>1, <3>1, <3>2
    <2>4. k <= j
      BY <2>1, <2>3, <1>5
    <2>. QED
      BY <2>1, <2>4, <1>4
  <1>8. k \in 1..K
    BY <1>2, <1>4, <1>6
  <1>. QED
    BY <1>1, <1>7, <1>8

(* The hint of an observation. *)
LEMMA HintIs ==
  ASSUME NEW s, NEW K, NEW T, Windows(s, K, T)
  PROVE  Hint(s) \in Seq(0..(T - 1)) /\ Once(Hint(s))
  <1>1. PICK h : Grown(h, s, K, T) /\ Hint(s) = h[K]
    BY HintGrows
  <1>2. K \in 1..K
    BY <1>1, GrownFirst
  <1>3. h[K] \in Seq(0..(T - 1))
    BY <1>1, <1>2 DEF Grown
  <1>4. Once(h[K])
    BY <1>1, <1>2, GrownOnce
  <1>. QED
    BY <1>1, <1>3, <1>4

(* The first k groups of the layout are tiles of the first k windows. *)
LEMMA PrefixHolds ==
  ASSUME NEW s, NEW K, NEW T, Windows(s, K, T),
         NEW w \in Nat \ {0}, NEW sms \in Nat \ {0}, NEW nominal \in Nat \ {0},
         NEW G, G = EffectiveGroup(s, T, w, sms, nominal),
         NEW k \in 1..Cardinality(FullWindows(s, T, w)), NEW t \in 0..(T - 1),
         ReorderIndices(T, Hint(s))[t] < k * G * sms
  PROVE  \E j \in 0..(k - 1) : t \in s[j]
  <1>1. PICK h : Grown(h, s, K, T) /\ Hint(s) = h[K]
    BY HintGrows
  <1>2. k \in 1..K /\ k \in Nat /\ \A j \in 0..(k - 1) : j \in FullWindows(s, T, w)
    <2>1. k \in 1..K /\ \A j \in 0..(k - 1) : j \in FullWindows(s, T, w)
      BY FirstAreFull
    <2>2. K \in Nat
      BY DEF Windows
    <2>. QED
      BY <2>1, <2>2
  <1>3. G \in Nat /\ \A j \in FullWindows(s, T, w) : G * sms <= Cardinality(s[j])
    BY EffectiveIs
  <1>4. PICK m \in Nat : m = G * sms
    BY <1>3, ProductNat
  <1>5. k * m <= Len(h[k])
    <2>1. \A j \in 0..(k - 1) : m <= Cardinality(s[j])
      BY <1>2, <1>3, <1>4
    <2>. QED
      BY <1>1, <1>2, <2>1, GrownLength
  <1>6. k * G * sms = k * m
    BY <1>2, <1>3, <1>4
  <1>7. PICK a \in Nat, b \in Nat : a = Len(h[k]) /\ b = Len(h[K]) /\ a <= b
    <2>1. h[k] \in Seq(0..(T - 1)) /\ h[K] \in Seq(0..(T - 1))
      BY <1>1, <1>2, GrownFirst DEF Grown
    <2>2. Len(h[k]) <= Len(h[K])
      BY <1>1, <1>2, GrownPrefix
    <2>. QED
      BY <2>1, <2>2, LenProperties
  <1>8. PICK x \in Nat : x = k * m
    BY <1>2, ProductNat
  <1>9. ReorderIndices(T, h[K])[t] < x /\ x <= a
    BY <1>1, <1>5, <1>6, <1>7, <1>8
  <1>10. CASE Contains(h[K], t)
    <2>1. DOMAIN h[K] = 1..b
      <3>1. h[K] \in Seq(0..(T - 1))
        BY <1>1, GrownFirst DEF Grown
      <3>. QED
        BY <3>1, <1>7, LenProperties
    <2>2. PICK i \in 1..b : i = (CHOOSE p \in DOMAIN h[K] : h[K][p] = t) /\ h[K][i] = t
      <3>1. \E p \in 1..b : h[K][p] = t
        BY <1>7, <1>10 DEF Contains
      <3>. QED
        BY <3>1, <2>1
    <2>3. ReorderIndices(T, h[K])[t] = i - 1
      BY <1>10, <2>2 DEF ReorderIndices
    <2>4. i \in 1..a
      BY <1>9, <2>3
    <2>5. h[k][i] = t
      <3>1. \A p \in 1..a : h[K][p] = h[k][p]
        BY <1>1, <1>2, <1>7, GrownPrefix
      <3>. QED
        BY <2>2, <2>4, <3>1
    <2>6. Contains(h[k], t)
      BY <1>7, <2>4, <2>5 DEF Contains
    <2>. QED
      BY <1>1, <1>2, <2>6, GrownHolds DEF Holds
  <1>11. CASE ~Contains(h[K], t)
    <2>1. PICK c \in Nat : c = Cardinality({u \in 0..(t - 1) : ~Contains(h[K], u)})
      <3>1. {u \in 0..(t - 1) : ~Contains(h[K], u)} \in SUBSET (0..(t - 1)) /\ IsFiniteSet(0..(t - 1))
        BY FS_Interval
      <3>. QED
        BY <3>1, FS_Subset, FS_CardinalityType
    <2>2. ReorderIndices(T, h[K])[t] = b + c
      BY <1>7, <1>11, <2>1 DEF ReorderIndices
    <2>. QED
      BY <1>7, <1>9, <2>2
  <1>. QED
    BY <1>10, <1>11

-------------------------------------------------------------------------------
(* The search: an inductive invariant *)

Slowest == {Max({dur[w] : w \in Ranks}) : dur \in [Ranks -> Durations]}

Chosen == phase \in {"search", "measure", "saved"}

(* Between sessions there are no processes. *)
Idle == phase \in {"choose", "search", "saved", "failed"} => \A w \in Ranks : process[w] = "none"

Basics ==
    /\ setup \in Setups
    /\ cand \in 1..Len(Tiles)
    /\ phase \in {"choose", "hint", "search", "measure", "saved", "failed"}
    /\ phase \in {"choose", "hint"} => measured = Nothing

(* What is searched belongs to the accepted candidate. *)
Accepted ==
    /\ stable \in Observations
    /\ Acceptable(stable)
    /\ hint = Hint(stable)
    /\ divisions = Divisions(stable)

(* Each of the divisions M is to be measured, being measured, or measured. *)
Campaign(M) ==
    /\ measured \in Seq([seg : M, dur : Slowest])
    /\ unmeasured \subseteq M
    /\ phase = "measure" => target \in M
    /\ phase = "saved" => unmeasured = {}
    /\ \A d \in M : \/ d \in unmeasured
                    \/ phase = "measure" /\ d = target
                    \/ \E i \in 1..Len(measured) : measured[i].seg = d

Measuring == \E M \in {ToMeasure(divisions)} : Campaign(M)

(* The solution is the best of what was measured. *)
Solution(m) == [cand |-> cand, seg |-> m.seg, dur |-> m.dur,
                order |-> FullTileOrder(Tiles[cand], hint),
                map |-> ReorderMap(FullTileOrder(Tiles[cand], hint))]

SavedOk == saved # Nothing => phase = "saved" /\ \E m \in Best(measured) : saved = Solution(m)

SearchInv ==
    /\ Basics /\ Idle /\ SavedOk
    /\ Chosen => Accepted /\ Measuring

-------------------------------------------------------------------------------
(* What is not touched stays. *)
LEMMA SameToMeasure ==
  ASSUME setup' = setup, cand' = cand, divisions' = divisions
  PROVE  ToMeasure(divisions)' = ToMeasure(divisions)
  BY DEF ToMeasure, Predict, Comp, Gemm

LEMMA SameAccepted ==
  ASSUME Accepted, setup' = setup, cand' = cand, stable' = stable, hint' = hint, divisions' = divisions
  PROVE  Accepted'
  <1>1. Observations' = Observations
    BY DEF Observations, WSize
  <1>2. Acceptable(stable)' = Acceptable(stable)
    BY DEF Acceptable, Group, WSize
  <1>3. Divisions(stable)' = Divisions(stable)
    BY DEF Divisions, Group, WSize
  <1>. QED
    BY <1>1, <1>2, <1>3 DEF Accepted

LEMMA SameSaved ==
  ASSUME SavedOk, saved' = saved, measured' = measured, cand' = cand, hint' = hint, phase' = phase
  PROVE  SavedOk'
  BY DEF SavedOk, Solution, Best

(* Without a solution there is nothing to show for it. *)
LEMMA StillUnsaved ==
  ASSUME SavedOk, phase # "saved", saved' = saved
  PROVE  SavedOk'
  BY DEF SavedOk

(* At first. *)
LEMMA SearchInitInv == SearchInit => SearchInv
  <1>1. SUFFICES ASSUME SearchInit PROVE SearchInv
    OBVIOUS
  <1>2. 1 \in 1..Len(Tiles)
    BY SearchAssumption
  <1>3. Basics
    BY <1>1, <1>2 DEF SearchInit, Basics
  <1>4. Idle /\ SavedOk /\ ~Chosen
    BY <1>1 DEF SearchInit, Idle, SavedOk, Chosen
  <1>. QED
    BY <1>3, <1>4 DEF SearchInv

(* The parent spawns a session. *)
LEMMA ComputeHintInv ==
  ASSUME SearchInv, ComputeHint
  PROVE  SearchInv'
  <1>1. Basics' /\ Idle' /\ ~Chosen'
    BY DEF ComputeHint, SearchInv, Basics, Idle, Chosen
  <1>2. SavedOk'
    BY StillUnsaved DEF ComputeHint, SearchInv
  <1>. QED
    BY <1>1, <1>2 DEF SearchInv

(* Rejected or failed: the next candidate, or none. *)
LEMMA NextCandidateOk ==
  ASSUME Basics, SavedOk, phase \in {"hint", "measure"}, setup' = setup, measured' = measured, saved' = saved,
         process' = [w \in Ranks |-> "none"],
         \/ phase = "hint" /\ NextCandidate
         \/ phase' = "failed" /\ cand' = cand
  PROVE  SearchInv'
  <1>1. Len(Tiles) \in Nat /\ cand \in 1..Len(Tiles)
    BY SearchAssumption DEF Basics
  <1>2. cand' \in 1..Len(Tiles) /\ phase' \in {"choose", "failed"}
    BY <1>1 DEF NextCandidate
  <1>3. phase' = "choose" => measured = Nothing
    BY DEF NextCandidate, Basics
  <1>4. Basics' /\ Idle' /\ ~Chosen'
    BY <1>2, <1>3 DEF Basics, Idle, Chosen
  <1>5. SavedOk'
    BY StillUnsaved
  <1>. QED
    BY <1>4, <1>5 DEF SearchInv

(* A candidate is accepted or rejected. *)
LEMMA HintDoneInv ==
  ASSUME SearchInv, HintDone
  PROVE  SearchInv'
  <1>1. PICK s \in Observations :
          IF Acceptable(s)
          THEN /\ phase' = "search" /\ stable' = s /\ hint' = Hint(s) /\ divisions' = Divisions(s)
               /\ unmeasured' = ToMeasure(divisions') /\ cand' = cand
          ELSE NextCandidate /\ UNCHANGED <<stable, hint, divisions, unmeasured>>
    BY DEF HintDone
  <1>2. /\ phase = "hint" /\ process' = [w \in Ranks |-> "none"] /\ setup' = setup
        /\ measured' = measured /\ saved' = saved
    BY DEF HintDone
  <1>3. Basics /\ SavedOk
    BY DEF SearchInv
  <1>4. CASE ~Acceptable(s)
    BY <1>1, <1>2, <1>3, <1>4, NextCandidateOk
  <1>5. CASE Acceptable(s)
    <2>1. /\ phase' = "search" /\ stable' = s /\ hint' = Hint(s) /\ divisions' = Divisions(s)
          /\ unmeasured' = ToMeasure(divisions') /\ cand' = cand
      BY <1>1, <1>5
    <2>2. Basics' /\ Idle'
      BY <2>1, <1>2, <1>3 DEF Basics, Idle
    <2>3. SavedOk'
      BY <1>2, <1>3, StillUnsaved
    <2>4. Accepted'
      <3>1. Observations' = Observations
        BY <2>1, <1>2 DEF Observations, WSize
      <3>2. Acceptable(stable)' <=> Acceptable(s)
        BY <2>1, <1>2 DEF Acceptable, Group, WSize
      <3>3. Divisions(stable)' = Divisions(s)
        BY <2>1, <1>2 DEF Divisions, Group, WSize
      <3>. QED
        BY <2>1, <3>1, <3>2, <3>3, <1>1, <1>5 DEF Accepted
    <2>5. unmeasured' = ToMeasure(divisions)'
      BY <2>1, <1>2 DEF ToMeasure, Predict, Comp, Gemm
    <2>6. measured' = << >>
      BY <1>2, <1>3 DEF Basics, Nothing
    <2>7. ASSUME NEW M, M = ToMeasure(divisions)' PROVE Campaign(M)'
      BY <2>1, <2>5, <2>6, <2>7, EmptySeq DEF Campaign
    <2>8. Measuring'
      BY <2>7 DEF Measuring
    <2>. QED
      BY <2>2, <2>3, <2>4, <2>8 DEF SearchInv
  <1>. QED
    BY <1>4, <1>5

(* A division is taken to be measured. *)
LEMMA MeasureInv ==
  ASSUME SearchInv, Measure
  PROVE  SearchInv'
  <1>1. /\ phase = "search" /\ phase' = "measure" /\ target' \in unmeasured
        /\ unmeasured' = unmeasured \ {target'}
        /\ UNCHANGED <<setup, cand, stable, hint, divisions, measured, saved>>
    BY DEF Measure
  <1>2. Basics /\ SavedOk /\ Accepted /\ Measuring
    BY <1>1 DEF SearchInv, Chosen
  <1>3. Basics' /\ Idle' /\ Accepted' /\ SavedOk'
    BY <1>1, <1>2, SameAccepted, StillUnsaved DEF Basics, Idle
  <1>4. PICK M : M = ToMeasure(divisions) /\ Campaign(M)
    BY <1>2 DEF Measuring
  <1>5. Campaign(M)'
    BY <1>1, <1>4 DEF Campaign
  <1>6. Measuring'
    BY <1>1, <1>4, <1>5, SameToMeasure DEF Measuring
  <1>. QED
    BY <1>3, <1>6 DEF SearchInv

(* It has been measured; after the last one the best is saved. *)
LEMMA MeasureDoneInv ==
  ASSUME SearchInv, MeasureDone
  PROVE  SearchInv'
  <1>1. PICK t \in Slowest : measured' = Append(measured, [seg |-> target, dur |-> t])
    BY DEF MeasureDone, Slowest
  <1>2. /\ phase = "measure" /\ process' = [w \in Ranks |-> "none"]
        /\ UNCHANGED <<setup, cand, stable, hint, divisions, unmeasured, target>>
        /\ IF unmeasured = {} THEN phase' = "saved" ELSE phase' = "search" /\ saved' = saved
    BY DEF MeasureDone
  <1>3. Basics /\ SavedOk /\ Accepted /\ Measuring
    BY <1>2 DEF SearchInv, Chosen
  <1>4. Basics' /\ Idle' /\ Accepted'
    BY <1>2, <1>3, SameAccepted DEF Basics, Idle
  <1>5. SavedOk'
    <2>1. CASE unmeasured = {}
      <3>1. PICK m \in Best(measured') :
              saved' = [cand |-> cand, seg |-> m.seg, dur |-> m.dur,
                        order |-> FullTileOrder(Tiles[cand], hint),
                        map |-> ReorderMap(FullTileOrder(Tiles[cand], hint))]
        BY <2>1 DEF MeasureDone
      <3>2. Best(measured') = Best(measured)' /\ saved' = Solution(m)'
        BY <1>2, <3>1 DEF Best, Solution
      <3>. QED
        BY <3>1, <3>2, <2>1, <1>2 DEF SavedOk
    <2>2. CASE unmeasured # {}
      BY <2>2, <1>2, <1>3, StillUnsaved
    <2>. QED
      BY <2>1, <2>2
  <1>6. PICK M : M = ToMeasure(divisions) /\ Campaign(M)
    BY <1>3 DEF Measuring
  <1>7. /\ measured \in Seq([seg : M, dur : Slowest]) /\ target \in M /\ unmeasured \subseteq M
        /\ \A d \in M : d \in unmeasured \/ d = target \/ \E i \in 1..Len(measured) : measured[i].seg = d
    BY <1>2, <1>6 DEF Campaign
  <1>8. [seg |-> target, dur |-> t] \in [seg : M, dur : Slowest]
    BY <1>7
  <1>9. /\ measured' \in Seq([seg : M, dur : Slowest])
        /\ Len(measured) \in Nat /\ Len(measured') = Len(measured) + 1
        /\ \A i \in 1..Len(measured) : measured'[i] = measured[i]
        /\ measured'[Len(measured) + 1] = [seg |-> target, dur |-> t]
    BY <1>1, <1>7, <1>8, AppendProperties, LenProperties
  <1>10. ASSUME NEW d \in M, d \notin unmeasured
         PROVE  \E i \in 1..Len(measured') : measured'[i].seg = d
    <2>1. CASE d = target
      <3>1. Len(measured) + 1 \in 1..Len(measured')
        BY <1>9
      <3>2. measured'[Len(measured) + 1].seg = d
        BY <1>9, <2>1
      <3>. QED
        BY <3>1, <3>2
    <2>2. CASE d # target
      <3>1. PICK i \in 1..Len(measured) : measured[i].seg = d
        BY <2>2, <1>7, <1>10
      <3>2. i \in 1..Len(measured')
        BY <1>9
      <3>. QED
        BY <3>1, <3>2, <1>9
    <2>. QED
      BY <2>1, <2>2
  <1>11. Campaign(M)'
    <2>1. \A d \in M : d \in unmeasured' \/ \E i \in 1..Len(measured') : measured'[i].seg = d
      BY <1>2, <1>10
    <2>2. phase' # "measure" /\ unmeasured' \subseteq M /\ (phase' = "saved" => unmeasured' = {})
      BY <1>2, <1>7
    <2>. QED
      BY <2>1, <2>2, <1>9 DEF Campaign
  <1>12. Measuring'
    BY <1>2, <1>6, <1>11, SameToMeasure DEF Measuring
  <1>. QED
    BY <1>4, <1>5, <1>12 DEF SearchInv

(* A session has failed. *)
LEMMA SessionFailedInv ==
  ASSUME SearchInv, SessionFailed
  PROVE  SearchInv'
  <1>1. /\ \E w \in Ranks : process[w] = "exit1"
        /\ IF phase = "hint" THEN NextCandidate ELSE phase' = "failed" /\ cand' = cand
        /\ process' = [w \in Ranks |-> "none"]
        /\ setup' = setup /\ measured' = measured /\ saved' = saved
    BY DEF SessionFailed
  <1>2. Basics /\ SavedOk /\ phase \in {"hint", "measure"}
    BY <1>1 DEF SearchInv, Idle, Basics
  <1>. QED
    BY <1>1, <1>2, NextCandidateOk

(* The processes change nothing of the parent's. *)
LEMMA SameParent ==
  ASSUME SearchInv, parentVars' = parentVars, Idle'
  PROVE  SearchInv'
  <1>1. /\ setup' = setup /\ phase' = phase /\ cand' = cand /\ stable' = stable /\ hint' = hint
        /\ divisions' = divisions /\ unmeasured' = unmeasured /\ target' = target
        /\ measured' = measured /\ saved' = saved
    BY DEF parentVars
  <1>2. Basics' /\ SavedOk'
    BY <1>1, SameSaved DEF SearchInv, Basics
  <1>3. Chosen => Accepted' /\ Measuring'
    <2>1. SUFFICES ASSUME Chosen PROVE Accepted' /\ Measuring'
      OBVIOUS
    <2>2. PICK M : M = ToMeasure(divisions) /\ Campaign(M)
      BY <2>1 DEF SearchInv, Measuring
    <2>3. Campaign(M)' /\ M = ToMeasure(divisions)'
      BY <1>1, <2>2, SameToMeasure DEF Campaign
    <2>4. Accepted'
      BY <1>1, <2>1, SameAccepted DEF SearchInv
    <2>. QED
      BY <2>3, <2>4 DEF Measuring
  <1>4. Chosen' <=> Chosen
    BY <1>1 DEF Chosen
  <1>. QED
    BY <1>2, <1>3, <1>4 DEF SearchInv

(* A process does a step. *)
LEMMA WorkerInv ==
  ASSUME SearchInv, NEW w \in Ranks, Worker(w)
  PROVE  SearchInv'
  <1>1. parentVars' = parentVars /\ process[w] # "none"
    BY DEF Worker, Start, InitBackend, Enter, Launch, Synchronize, Finally, Release, Leave, Goto, parentVars
  <1>2. phase \in {"hint", "measure"} /\ phase' = phase
    BY <1>1 DEF SearchInv, Idle, Basics, parentVars
  <1>3. Idle'
    BY <1>2 DEF Idle
  <1>. QED
    BY <1>1, <1>3, SameParent

(* Every step preserves the invariant. *)
LEMMA SearchNextInv ==
  ASSUME SearchInv, [SearchNext]_searchVars
  PROVE  SearchInv'
  <1>1. CASE SearchNext
    <2>1. CASE Parent
      BY <2>1, ComputeHintInv, HintDoneInv, MeasureInv, MeasureDoneInv, SessionFailedInv DEF Parent
    <2>2. CASE \E w \in Ranks : Worker(w)
      BY <2>2, WorkerInv
    <2>. QED
      BY <1>1, <2>1, <2>2 DEF SearchNext
  <1>2. CASE UNCHANGED searchVars
    <2>1. parentVars' = parentVars /\ process' = process /\ phase' = phase
      BY <1>2 DEF searchVars, workerVars, parentVars
    <2>2. Idle'
      BY <2>1 DEF SearchInv, Idle
    <2>. QED
      BY <2>1, <2>2, SameParent
  <1>. QED
    BY <1>1, <1>2

(* What is searched and saved is that of the candidate that was accepted,  *)
(* and no division to be measured is forgotten, whatever the processes do: *)
(* what search.py's parent keeps between two sessions.                     *)
THEOREM SearchInvariant == SearchSpec => []SearchInv
  BY SearchInitInv, SearchNextInv, PTL DEF SearchSpec

-------------------------------------------------------------------------------
(* The search: what follows from it *)

(* What the accepted candidate is like. *)
LEMMA CandidateIs ==
  ASSUME SearchInv, Chosen, NEW T, T = Tiles[cand]
  PROVE  /\ SetupOk /\ T \in Nat \ {0} /\ cand \in DOMAIN Tiles
         /\ WSize \in Nat \ {0} /\ setup.sms \in Nat \ {0} /\ setup.nominal \in Nat \ {0}
         /\ Windows(stable, DivUp(T, WSize), T)
         /\ Group(stable) = EffectiveGroup(stable, T, WSize, setup.sms, setup.nominal)
         /\ Group(stable) \in Nat \ {0}
         /\ Acceptable(stable) /\ hint = Hint(stable) /\ divisions = Divisions(stable)
  <1>1. Basics /\ Accepted
    BY DEF SearchInv
  <1>2. SetupOk
    BY <1>1, SearchAssumption DEF Basics, SetupOk
  <1>3. cand \in DOMAIN Tiles /\ T \in Nat \ {0}
    BY <1>1, SearchAssumption DEF Basics
  <1>4. /\ setup.sms \in Nat \ {0} /\ setup.nominal \in Nat \ {0} /\ setup.minGroup \in Nat \ {0}
    BY <1>2 DEF SetupOk
  <1>5. WSize \in Nat \ {0}
    <2>1. PICK a \in Nat \ {0}, b \in Nat \ {0} : a = setup.nominal /\ b = setup.sms
      BY <1>4
    <2>2. a * b \in Nat /\ a * b # 0
      BY ProductNat
    <2>. QED
      BY <2>1, <2>2 DEF WSize
  <1>6. PICK round \in [1..2 -> Orders(Tiles[cand])] :
          stable = StablePerWindow({round[1], round[2]}, Tiles[cand], WSize)
    BY <1>1 DEF Accepted, Observations
  <1>7. Windows(stable, DivUp(T, WSize), T)
    BY <1>3, <1>5, <1>6, ObservationIs
  <1>8. Group(stable) = EffectiveGroup(stable, T, WSize, setup.sms, setup.nominal)
    BY DEF Group
  <1>9. Group(stable) \in Nat
    BY <1>4, <1>5, <1>7, <1>8, EffectiveIs
  <1>10. Group(stable) \in Nat \ {0}
    BY <1>1, <1>4, <1>9 DEF Accepted, Acceptable
  <1>. QED
    BY <1>1, <1>2, <1>3, <1>4, <1>5, <1>7, <1>8, <1>10 DEF Accepted

(* The divisions cover the tiles of the candidate. *)
LEMMA DivisionIs ==
  ASSUME SearchInv, Chosen, NEW T, T = Tiles[cand], NEW d \in divisions
  PROVE  /\ d \in Seq(Nat \ {0}) /\ Len(d) \in Nat \ {0} /\ Upto(d, Len(d)) = T
         /\ Timed(d)
  <1>1. \E group \in Nat \ {0}, n \in Nat \ {0} :
          /\ n = DivUp(DivUp(T, setup.sms), group)
          /\ \E u \in Compositions(n) : d = Segments(u, T, setup.sms, group)
    <2>1. PICK group \in Nat \ {0} : group = IF setup.predictive THEN Group(stable) ELSE 1
      BY CandidateIs
    <2>2. PICK n : n = DivUp(DivUp(T, setup.sms), group)
      OBVIOUS
    <2>3. n \in Nat \ {0}
      BY <2>2, CandidateIs, DivUpIs
    <2>4. divisions = {Segments(u, T, setup.sms, group) :
             u \in {u \in Compositions(n) : ~(setup.predictive /\ Len(u) > 5 /\ u[1] > 2)}}
      BY <2>1, <2>2, CandidateIs DEF Divisions
    <2>. QED
      BY <2>2, <2>3, <2>4
  <1>5. PICK group \in Nat \ {0}, n \in Nat \ {0} :
          /\ n = DivUp(DivUp(T, setup.sms), group)
          /\ \E u \in Compositions(n) : d = Segments(u, T, setup.sms, group)
    BY <1>1
  <1>6. PICK u \in Compositions(n) : d = Segments(u, T, setup.sms, group)
    BY <1>5
  <1>2. u \in Seq(Nat \ {0}) /\ Len(u) \in Nat \ {0} /\ Upto(u, Len(u)) = n
    BY CompositionIs
  <1>3. d \in Seq(Nat \ {0}) /\ Len(d) = Len(u) /\ Upto(d, Len(d)) = T
    BY <1>2, <1>5, <1>6, CandidateIs, SegmentsAre
  <1>4. ASSUME NEW i \in 1..Len(d) PROVE CommTime(d[i]) \in Nat
    <2>1. /\ Len(d) \in Nat /\ d[i] \in Nat \ {0} /\ Upto(d, i - 1) \in Nat
          /\ Upto(d, i) = Upto(d, i - 1) + d[i]
      BY <1>3, RowsOf
    <2>2. i \in 0..Len(d) /\ Len(d) \in i..Len(d)
      BY <2>1
    <2>3. Upto(d, i) <= Upto(d, Len(d))
      BY <1>3, <2>2, RowsOf
    <2>4. PICK a \in Nat, x \in Nat \ {0} : a = Upto(d, i - 1) /\ x = d[i] /\ Upto(d, i) = a + x
      BY <2>1
    <2>5. x \in 1..T
      BY <2>3, <2>4, <1>3, CandidateIs
    <2>. QED
      BY <2>4, <2>5, CandidateIs, SearchAssumption
  <1>. QED
    BY <1>2, <1>3, <1>4 DEF Timed

(* A prediction is a number, for a single segment too. *)
LEMMA PredictNat ==
  ASSUME SearchInv, Chosen, NEW d \in divisions
  PROVE  Predict(d) \in Nat
  <1>1. /\ d \in Seq(Nat \ {0}) /\ Len(d) \in Nat \ {0} /\ Timed(d) /\ SetupOk
    BY DivisionIs, CandidateIs
  <1>2. CASE Len(d) > 1
    BY <1>1, <1>2, PredictIsMakespan
  <1>3. CASE Len(d) = 1
    <2>1. PICK T \in Nat, s \in Nat \ {0} : T = Tiles[cand] /\ s = setup.sms + setup.slack
      <3>1. Tiles[cand] \in Nat
        BY CandidateIs
      <3>2. setup.sms + setup.slack \in Nat \ {0}
        BY <1>1 DEF SetupOk
      <3>. QED
        BY <3>1, <3>2
    <2>2. PICK a \in Nat, b \in Nat : a = WaveTime /\ b = DivUp(T, s)
      BY DivUpIs, SearchAssumption
    <2>3. Gemm = a * b /\ a * b \in Nat
      BY <2>1, <2>2, ProductNat DEF Gemm
    <2>4. PICK c \in Nat : c = CommTime(d[1])
      BY <1>1, <1>3 DEF Timed
    <2>5. Predict(d) = Gemm + CommTime(d[1])
      BY <1>3 DEF Predict
    <2>. QED
      BY <2>3, <2>4, <2>5
  <1>4. Len(d) = 1 \/ Len(d) > 1
    <2>1. PICK l \in Nat \ {0} : l = Len(d)
      BY <1>1
    <2>. QED
      BY <2>1
  <1>. QED
    BY <1>2, <1>3, <1>4

-------------------------------------------------------------------------------
(* What is shown of a selected candidate holds for an accepted one. *)
LEMMA SelectedChosen == Selected => Chosen
  BY DEF Selected, Chosen

(* The divisions cover the tiles. *)
LEMMA CoverHolds == SearchInv => SegmentsCover
  <1>1. SUFFICES ASSUME SearchInv, Chosen, NEW d \in divisions, NEW remap, remap = RowRemap(d, 2, 2)
        PROVE  /\ Total(d) = Tiles[cand]
               /\ \A i \in DOMAIN d : d[i] > 0
               /\ Cardinality({remap[row] : row \in DOMAIN remap}) = 2 * Tiles[cand]
               /\ \A i \in DOMAIN d :
                    LET from == 2 * (Ends(d)[i] - d[i]) IN
                    \A row \in from..(from + 2 * d[i] - 1) :
                        remap[row] \in (from + (row % 2) * d[i])..(from + ((row % 2) + 1) * d[i] - 1)
    BY SelectedChosen DEF SegmentsCover
  <1>2. d \in Seq(Nat \ {0}) /\ Upto(d, Len(d)) = Tiles[cand]
    BY <1>1, DivisionIs
  <1>3. Total(d) = Tiles[cand] /\ DOMAIN d = 1..Len(d)
    BY <1>2, RowsOf
  <1>4. Cardinality({remap[row] : row \in DOMAIN remap}) = 2 * Tiles[cand]
    BY <1>1, <1>2, <1>3, RemapPermutes
  <1>5. ASSUME NEW i \in DOMAIN d, NEW from, from = 2 * (Ends(d)[i] - d[i])
        PROVE  /\ d[i] > 0
               /\ \A row \in from..(from + 2 * d[i] - 1) :
                    remap[row] \in (from + (row % 2) * d[i])..(from + ((row % 2) + 1) * d[i] - 1)
    <2>1. /\ i \in 1..Len(d) /\ d[i] \in Nat \ {0} /\ Ends(d)[i] - d[i] = Upto(d, i - 1)
          /\ Upto(d, i - 1) \in Nat /\ Upto(d, i) = Upto(d, i - 1) + d[i]
      BY <1>2, <1>3, RowsOf
    <2>2. PICK a \in Nat, x \in Nat \ {0} : a = Upto(d, i - 1) /\ x = d[i] /\ Upto(d, i) = a + x
      BY <2>1
    <2>3. from = 2 * a
      BY <1>5, <2>1, <2>2
    <2>4. Block(d, i) = from..(from + 2 * x - 1)
      <3>1. 2 * (a + x) - 1 = 2 * a + 2 * x - 1
        OBVIOUS
      <3>. QED
        BY <3>1, <2>2, <2>3 DEF Block
    <2>5. ASSUME NEW row \in Block(d, i)
          PROVE  remap[row] \in (from + (row % 2) * d[i])..(from + ((row % 2) + 1) * d[i] - 1)
      <3>1. RowRemap(d, 2, 2)[row] \in
              (2 * Upto(d, i - 1) + (row % 2) * d[i])..(2 * Upto(d, i - 1) + ((row % 2) + 1) * d[i] - 1)
        BY <1>2, <2>1, RemapContiguous
      <3>. QED
        BY <3>1, <2>2, <2>3, <1>1
    <2>. QED
      BY <2>2, <2>4, <2>5
  <1>. QED
    BY <1>3, <1>4, <1>5

(* The first groups are tiles of the first windows. *)
LEMMA PrefixIsStableHolds == SearchInv => PrefixIsStable
  <1>1. SUFFICES ASSUME SearchInv, Chosen,
                        NEW k \in 1..Cardinality(FullWindows(stable, Tiles[cand], WSize)),
                        NEW t \in 0..(Tiles[cand] - 1),
                        Layout[t] < k * Group(stable) * setup.sms
        PROVE  t \in UNION {stable[j] : j \in 0..(k - 1)}
    BY SelectedChosen DEF PrefixIsStable
  <1>2. PICK T, G : T = Tiles[cand] /\ G = Group(stable)
    OBVIOUS
  <1>3. /\ Windows(stable, DivUp(T, WSize), T) /\ WSize \in Nat \ {0}
        /\ setup.sms \in Nat \ {0} /\ setup.nominal \in Nat \ {0}
        /\ G = EffectiveGroup(stable, T, WSize, setup.sms, setup.nominal)
        /\ hint = Hint(stable)
    BY <1>1, <1>2, CandidateIs
  <1>4. ReorderIndices(T, Hint(stable))[t] < k * G * setup.sms
    BY <1>1, <1>2, <1>3 DEF Layout
  <1>5. k \in 1..Cardinality(FullWindows(stable, T, WSize)) /\ t \in 0..(T - 1)
    BY <1>2
  <1>6. \E j \in 0..(k - 1) : t \in stable[j]
    BY <1>3, <1>4, <1>5, PrefixHolds
  <1>. QED
    BY <1>6

(* The prediction is the longest path. *)
LEMMA MakespanHolds == SearchInv => PredictedIsMakespan
  BY SelectedChosen, CandidateIs, DivisionIs, PredictIsMakespan DEF PredictedIsMakespan

(* Prediction measures a division that it finds none better than. *)
LEMMA PredictedBest ==
  ASSUME SearchInv, Chosen, setup.predictive, NEW seg \in ToMeasure(divisions), NEW d \in divisions
  PROVE  Predict(seg) <= Predict(d)
  <1>1. PICK S : S = {Predict(e) : e \in divisions}
    OBVIOUS
  <1>2. S \in SUBSET Nat /\ S # {} /\ Predict(d) \in S
    BY <1>1, PredictNat
  <1>3. Min(S) \in S /\ Min(S) <= Predict(d)
    BY <1>2, LeastIs
  <1>4. \E e \in divisions : Predict(e) = Min(S)
    BY <1>1, <1>3
  <1>5. seg = CHOOSE e \in divisions : Predict(e) = Min(S)
    BY <1>1 DEF ToMeasure
  <1>6. Predict(seg) = Min(S)
    BY <1>4, <1>5
  <1>. QED
    BY <1>3, <1>6

(* The solution is the best of the measurements. *)
LEMMA SavedHolds == SearchInv => SavedIsBest
  <1>1. SUFFICES ASSUME SearchInv, saved # Nothing PROVE SavedIsBest
    BY DEF SavedIsBest
  <1>2. phase = "saved" /\ Chosen
    BY <1>1 DEF SearchInv, SavedOk, Chosen
  <1>3. PICK m \in Best(measured) : saved = Solution(m)
    BY <1>1 DEF SearchInv, SavedOk
  <1>4. PICK M : M = ToMeasure(divisions) /\ Campaign(M)
    BY <1>1, <1>2 DEF SearchInv, Measuring
  <1>5. /\ measured \in Seq([seg : M, dur : Slowest])
        /\ \A d \in M : \E i \in 1..Len(measured) : measured[i].seg = d
    BY <1>2, <1>4 DEF Campaign
  <1>6. m \in ToSet(measured) /\ \A k \in ToSet(measured) : m.dur <= k.dur
    BY <1>3 DEF Best
  <1>7. DOMAIN measured = 1..Len(measured) /\ \A i \in 1..Len(measured) : measured[i] \in ToSet(measured)
    BY <1>5, LenProperties DEF ToSet
  <1>8. m \in [seg : M, dur : Slowest]
    <2>1. PICK i \in 1..Len(measured) : m = measured[i]
      BY <1>6, <1>7 DEF ToSet
    <2>. QED
      BY <2>1, <1>5, ElementOfSeq
  <1>9. [seg |-> saved.seg, dur |-> saved.dur] = m /\ saved.seg \in M
    <2>1. saved.seg = m.seg /\ saved.dur = m.dur
      BY <1>3 DEF Solution
    <2>2. m = [seg |-> m.seg, dur |-> m.dur]
      BY <1>8
    <2>. QED
      BY <2>1, <2>2, <1>8
  <1>10. PICK T : T = Tiles[cand]
    OBVIOUS
  <1>11. /\ T \in Nat /\ Windows(stable, DivUp(T, WSize), T) /\ hint = Hint(stable) /\ Acceptable(stable)
    BY <1>1, <1>2, <1>10, CandidateIs
  <1>12. hint \in Seq(0..(T - 1)) /\ Once(hint)
    BY <1>11, HintIs
  <1>13. /\ saved.cand = cand /\ saved.order = FullTileOrder(T, hint)
         /\ saved.map = ReorderMap(FullTileOrder(T, hint))
    BY <1>3, <1>10 DEF Solution
  <1>14. /\ saved.map = Layout
         /\ \A t \in DOMAIN saved.map : saved.order[saved.map[t] + 1] = t
    BY <1>10, <1>11, <1>12, <1>13, LayoutIsOrder DEF Layout
  <1>15. setup.predictive => \A d \in divisions : Predict(saved.seg) <= Predict(d)
    BY <1>1, <1>2, <1>4, <1>9, PredictedBest
  <1>16. ~setup.predictive =>
            \A d \in divisions : \E k \in ToSet(measured) : k.seg = d /\ saved.dur <= k.dur
    <2>1. SUFFICES ASSUME ~setup.predictive, NEW d \in divisions
          PROVE  \E k \in ToSet(measured) : k.seg = d /\ saved.dur <= k.dur
      OBVIOUS
    <2>2. d \in M
      BY <2>1, <1>4 DEF ToMeasure
    <2>3. PICK i \in 1..Len(measured) : measured[i].seg = d
      BY <2>2, <1>5
    <2>4. saved.dur = m.dur
      BY <1>3 DEF Solution
    <2>. QED
      BY <2>3, <2>4, <1>6, <1>7
  <1>. QED
    BY <1>6, <1>9, <1>11, <1>13, <1>14, <1>15, <1>16 DEF SavedIsBest

(* Every division that the search considers covers all tiles of the        *)
(* candidate, with no empty segment, and the remap of the rows permutes    *)
(* them and gives each rank a contiguous part of each segment: the         *)
(* enumeration of divisions and generate_row_remap_array of search.py.     *)
THEOREM SegmentsCoverTiles == SearchSpec => []SegmentsCover
  BY SearchInvariant, CoverHolds, PTL

(* The first k groups of the layout hold only tiles that were computed in  *)
(* the first k windows of every sample: what the effective group size of   *)
(* search.py is for.                                                       *)
THEOREM PrefixOfGroupsIsStable == SearchSpec => []PrefixIsStable
  BY SearchInvariant, PrefixIsStableHolds, PTL

(* predict_lat's loop computes the longest path through computation and    *)
(* communication of the segments.                                          *)
THEOREM PredictionIsMakespan == SearchSpec => []PredictedIsMakespan
  BY SearchInvariant, MakespanHolds, PTL

(* The solution file of search.py holds the best of the measurements, with *)
(* the layout that was measured, of the candidate that was accepted, after *)
(* any number of candidates rejected or failed.                            *)
THEOREM SavedSolutionIsBest == SearchSpec => []SavedIsBest
  BY SearchInvariant, SavedHolds, PTL
===============================================================================
