----------------------------- MODULE Evaluation -----------------------------
(***************************************************************************)
(* tool/evaluate_sm90.py: shape by shape, profile the kernels; then, for   *)
(* every number of SMs that communication may have, search both backends   *)
(* for a solution, retrying with coarser groups, and test it.  All state   *)
(* that survives is in files: one per scenario, replaced atomically, which *)
(* a later invocation resumes from; and what the child programs write in   *)
(* place, which a kill tears: the profile of a shape, and its solutions,   *)
(* one per backend whatever the scenario.                                  *)
(*                                                                         *)
(* Between invocations kernels may be generated anew, and the script       *)
(* itself is meant to be edited.  A kill takes the children along.         *)
(***************************************************************************)
EXTENDS AlgoDictionary

CONSTANTS
    Shapes,       \* numbers, in the order of SHAPES
    Csv,          \* Csv[s]: the profiler's kernels for a shape, fastest first
    Slacks,       \* SMs left to communication
    Trials,       \* MIN_GROUP_TRIALS
    Skipped(_),   \* the trials skipped for a shape (max_mn)
    Invocations,  \* how the script may be invoked
    MaxKills      \* bound on kills

ASSUME EvaluationAssumption ==
    /\ Shapes \subseteq Nat /\ Slacks \subseteq Nat
    /\ Trials \in Nat
    /\ Invocations \subseteq [shapes : SUBSET Shapes, slacks : SUBSET Slacks,
                              rerun : BOOLEAN, skipProfile : BOOLEAN]
    /\ MaxKills \in Nat

Backends == {"nccl", "ooverlap"}
ScenarioIds == Shapes \X Slacks

VARIABLES
    dict,       \* AlgoDictSm90.json, and the kernels compiled from it
    config,     \* config[s]: the profile of a shape
    missing,    \* missing[s]: the rows that had no kernel
    solution,   \* solution[s][b]
    torn,       \* which of these files are torn: <<s, "profile">>, <<s, b>>
    file,       \* file[sid]: scenarios/<sid>.json
    kills,      \* so far
    args,       \* the current or last invocation
    pc,         \* where it is
    shapes,     \* selected shapes still to be done
    left,       \* configurations of the current shape still to be done
    trial,      \* the trial of the current search
    scenarios   \* scenarios_by_id

childFiles == <<config, missing, solution, torn>>
memory == <<shapes, left, trial, scenarios>>
vars == <<dict, childFiles, file, kills, args, pc, memory>>

None == <<>>

(* Nothing on disk but the kernels that are built in.                      *)
Init ==
    /\ dict = Generate(<<>>)
    /\ config = [s \in Shapes |-> {}]
    /\ missing = [s \in Shapes |-> <<>>]
    /\ solution = [s \in Shapes |-> [b \in Backends |-> None]]
    /\ torn = {}
    /\ file = [sid \in ScenarioIds |-> "absent"]
    /\ kills = 0
    /\ args \in Invocations
    /\ pc = "off"
    /\ shapes = {}
    /\ left = {}
    /\ trial = 1
    /\ scenarios = file

shape == Min(shapes)
slack == Min(left)
sid == <<shape, slack>>
ProfileTorn == <<shape, "profile">> \in torn

-------------------------------------------------------------------------------
(* Between invocations *)

Off == pc \in {"off", "done"}

(* The process ends, and with it what it had in memory.                    *)
Exit(to) ==
    /\ pc' = to
    /\ shapes' = {}
    /\ left' = {}
    /\ trial' = 1
    /\ scenarios' = [i \in ScenarioIds |-> "absent"]

(* generate_instances --from-missing-json for a shape, and a build.        *)
Regenerate ==
    /\ Off
    /\ \E s \in Shapes : dict' = Generate(missing[s])
    /\ UNCHANGED <<childFiles, file, kills, args, pc, memory>>

Configured(i, a) == i[2] \in a.slacks

(* main: the scenarios on disk are loaded, but for those whose             *)
(* configuration is not among the active ones.                             *)
Invoke(a) ==
    /\ Off
    /\ args' = a
    /\ pc' = "shape"
    /\ shapes' = a.shapes
    /\ left' = {}
    /\ trial' = 1
    /\ scenarios' = [i \in ScenarioIds |-> IF Configured(i, a) THEN file[i] ELSE "absent"]
    /\ UNCHANGED <<dict, childFiles, file, kills>>

-------------------------------------------------------------------------------
(* existing_scenario_is_ok, unless a rerun is asked for.                    *)
Keeps(i) == ~args.rerun /\ scenarios[i] = "ok"

SaveScenario(i, scenario) == file' = [file EXCEPT ![i] = scenario]
Remember(i, scenario) == scenarios' = [scenarios EXCEPT ![i] = scenario]
Drop(set) == set \ {Min(set)}

SkipShape ==
    /\ pc = "shape" /\ shapes # {}
    /\ \A c \in args.slacks : Keeps(<<shape, c>>)
    /\ shapes' = Drop(shapes)
    /\ UNCHANGED <<dict, childFiles, file, kills, args, pc, left, trial, scenarios>>

BeginShape ==
    /\ pc = "shape" /\ shapes # {}
    /\ \E c \in args.slacks : ~Keeps(<<shape, c>>)
    /\ pc' = "profile"
    /\ left' = args.slacks
    /\ UNCHANGED <<dict, childFiles, file, kills, args, shapes, trial, scenarios>>

Finish ==
    /\ pc = "shape" /\ shapes = {}
    /\ Exit("done")
    /\ UNCHANGED <<dict, childFiles, file, kills, args>>

(* Faulty: an existing profile is looked at whether or not it may be used. *)
FaultyReadsProfile == TRUE

ReadsProfile == args.skipProfile

HasAlgos(profile) == profile # {}

(* An uncaught JSONDecodeError: load_json_if_exists of a torn file.        *)
RaiseTornProfile ==
    /\ pc = "profile"
    /\ ReadsProfile /\ ProfileTorn
    /\ Exit("off")
    /\ UNCHANGED <<dict, childFiles, file, kills, args>>

SkipProfile ==
    /\ pc = "profile"
    /\ args.skipProfile /\ ~ProfileTorn /\ HasAlgos(config[shape])
    /\ pc' = "scenario"
    /\ UNCHANGED <<dict, childFiles, file, kills, args, memory>>

(* gen_config may fail as a whole before it writes.  It exits with an      *)
(* error if no kernel matched.                                             *)
Profile ==
    /\ pc = "profile"
    /\ ~(ReadsProfile /\ ProfileTorn)
    /\ ~(args.skipProfile /\ HasAlgos(config[shape]))
    /\ \/ /\ pc' = "unprofiled"
          /\ UNCHANGED childFiles
       \/ \E written \in Profiles(Csv[shape], dict) :
            /\ config' = [config EXCEPT ![shape] = written.config]
            /\ missing' = [missing EXCEPT ![shape] = written.missing]
            /\ pc' = IF HasAlgos(written.config) THEN "scenario" ELSE "unprofiled"
            /\ torn' = torn \ {<<shape, "profile">>}
            /\ UNCHANGED solution
    /\ UNCHANGED <<dict, file, kills, args, memory>>

(* Without a profile the scenarios of the shape fail, but for those that   *)
(* were ok.                                                                *)
FailScenario ==
    /\ pc = "unprofiled" /\ left # {}
    /\ IF Keeps(sid) THEN UNCHANGED <<file, scenarios>>
       ELSE /\ SaveScenario(sid, "failed")
            /\ Remember(sid, "failed")
    /\ left' = Drop(left)
    /\ UNCHANGED <<dict, childFiles, kills, args, pc, shapes, trial>>

EndShape ==
    /\ pc \in {"unprofiled", "scenario"} /\ left = {}
    /\ pc' = "shape"
    /\ shapes' = Drop(shapes)
    /\ UNCHANGED <<dict, childFiles, file, kills, args, left, trial, scenarios>>

SkipScenario ==
    /\ pc = "scenario" /\ left # {}
    /\ Keeps(sid)
    /\ left' = Drop(left)
    /\ UNCHANGED <<dict, childFiles, file, kills, args, pc, shapes, trial, scenarios>>

(* Faulty: also what was ok is run again.                                  *)
FaultyBeginScenario ==
    /\ pc = "scenario" /\ left # {}
    /\ pc' = "search"
    /\ trial' = 1
    /\ SaveScenario(sid, "running")
    /\ UNCHANGED <<dict, childFiles, kills, args, shapes, left, scenarios>>

BeginScenario ==
    /\ pc = "scenario" /\ left # {}
    /\ ~Keeps(sid)
    /\ pc' = "search"
    /\ trial' = 1
    /\ SaveScenario(sid, "running")
    /\ UNCHANGED <<dict, childFiles, kills, args, shapes, left, scenarios>>

SkipTrial ==
    /\ pc = "search" /\ trial \in Skipped(shape)
    /\ trial' = trial + 1
    /\ UNCHANGED <<dict, childFiles, file, kills, pc, args, shapes, left, scenarios>>

(* The candidates of search.py, which fails if it cannot parse them.       *)
LoadShapeConfig == IF ProfileTorn THEN {} ELSE Normalize(config[shape], dict)

(* search.py: a solution for nccl, then one for ooverlap, of any candidate *)
(* of the profile; it stops at the first backend that it finds none for.   *)
Outcomes ==
    LET found == {[slack |-> slack, algo |-> e.algo, tile |-> e.tile, timed |-> e.timed] :
                     e \in LoadShapeConfig}
        old == solution[shape]
    IN {[written |-> {}, solution |-> old]}
       \cup {[written |-> {"nccl"}, solution |-> [old EXCEPT !["nccl"] = n]] : n \in found}
       \cup {[written |-> Backends, solution |-> [b \in Backends |-> IF b = "nccl" THEN n ELSE o]] :
                n, o \in found}

(* Faulty: the solutions that are there are taken.                         *)
FaultyTrialOk(outcome) == \A b \in Backends : outcome.solution[b] # None

TrialOk(outcome) ==
    /\ outcome.written = Backends
    /\ \A b \in Backends : outcome.solution[b] # None /\ outcome.solution[b].slack = slack

(* load_solution_summary, for either backend.                              *)
LoadRaises(unreadable) == \E b \in Backends : <<shape, b>> \in unreadable

(* Whatever became of the search, both solutions are read: a torn one      *)
(* raises.                                                                 *)
SearchTrial ==
    /\ pc = "search" /\ trial \in (1..Trials) \ Skipped(shape)
    /\ \E outcome \in Outcomes :
          /\ solution' = [solution EXCEPT ![shape] = outcome.solution]
          /\ torn' = torn \ {<<shape, b>> : b \in outcome.written}
          /\ IF LoadRaises(torn') THEN Exit("off")
             ELSE /\ IF TrialOk(outcome) THEN pc' = "test" /\ trial' = 1
                     ELSE trial' = trial + 1 /\ UNCHANGED pc
                  /\ UNCHANGED <<shapes, left, scenarios>>
    /\ UNCHANGED <<dict, config, missing, file, kills, args>>

EndScenario(scenario) ==
    /\ SaveScenario(sid, scenario)
    /\ Remember(sid, scenario)
    /\ pc' = "scenario"
    /\ left' = Drop(left)
    /\ trial' = 1
    /\ UNCHANGED <<dict, childFiles, kills, args, shapes>>

SearchFailed ==
    /\ pc = "search" /\ trial > Trials
    /\ EndScenario("failed")

(* test.py reads the solutions of the shape itself.                        *)
Test ==
    /\ pc = "test"
    /\ \/ EndScenario("failed")
       \/ EndScenario("ok")

(* The evaluation is killed with its child, which may be writing.          *)
Kill ==
    /\ ~Off
    /\ kills < MaxKills
    /\ kills' = kills + 1
    /\ Exit("off")
    /\ \/ UNCHANGED torn
       \/ pc = "profile" /\ torn' = torn \cup {<<shape, "profile">>}
       \/ pc = "search" /\ \E b \in Backends : torn' = torn \cup {<<shape, b>>}
    /\ UNCHANGED <<dict, config, missing, solution, file, args>>

-------------------------------------------------------------------------------
Step ==
    \/ SkipShape \/ BeginShape \/ Finish
    \/ RaiseTornProfile \/ SkipProfile \/ Profile \/ FailScenario \/ EndShape
    \/ SkipScenario \/ BeginScenario \/ SkipTrial \/ SearchTrial \/ SearchFailed \/ Test

Next == Step \/ Regenerate \/ Kill \/ \E a \in Invocations : Invoke(a)

Spec == Init /\ [][Next]_vars

(* Children end (TuningSearch says when); and somebody insists on an       *)
(* evaluation that does not trust old profiles.                            *)
FairSpec ==
    /\ Spec
    /\ WF_vars(Step)
    /\ SF_vars(\E a \in Invocations : ~a.skipProfile /\ Invoke(a))

-------------------------------------------------------------------------------
(* What is tested was searched for this scenario, though a shape has one   *)
(* solution per backend in which every scenario, every invocation and      *)
(* every failed trial leaves its mark: it is for this slack, its tile is   *)
(* that of the kernel that its number names today, and if this invocation  *)
(* has profiled the shape, that kernel is the one that was timed.          *)
TestedAsSearched ==
    pc = "test" => \A b \in Backends :
        LET sol == solution[shape][b] IN
        /\ sol.slack = slack
        /\ sol.tile = dict[sol.algo].tile
        /\ ~args.skipProfile => sol.timed = dict[sol.algo]

(* A scenario that is ok stays so, through kills, resumed invocations and  *)
(* failing profiles, unless a rerun is asked for.                          *)
OkKept ==
    [][\A i \in ScenarioIds : file[i] = "ok" /\ file'[i] # "ok" => args.rerun]_vars

(* What is in memory when all shapes are done, and is summarised, is what  *)
(* the files say of the active configurations, and none of the selected    *)
(* scenarios is absent or left running.                                    *)
ResultIsFiles ==
    pc = "shape" /\ shapes = {} =>
        /\ \A i \in ScenarioIds : scenarios[i] = IF i[2] \in args.slacks THEN file[i] ELSE "absent"
        /\ \A i \in args.shapes \X args.slacks : scenarios[i] \in {"ok", "failed"}

(* However it was killed, an evaluation is completed again, unless a       *)
(* solution stays torn: a search that fails before it overwrites it makes  *)
(* every further invocation raise there.                                   *)
TornSolution == \E s \in Shapes, b \in Backends : <<s, b>> \in torn
Heals == []<>(pc = "done") \/ <>[]TornSolution
===============================================================================
