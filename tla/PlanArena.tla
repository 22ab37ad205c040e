------------------------------ MODULE PlanArena ------------------------------
(***************************************************************************)
(* How the processes of an IPC group share transfer plans.  A plan depends *)
(* on the request only, never on the rank, and is large; rank 0 builds it  *)
(* in a POSIX shared-memory arena that every process maps, and all ranks   *)
(* lower it from there.  There is one arena per type of collective, each   *)
(* with a single slot; this module is one of them.  Whether the slot holds *)
(* the wanted plan is decided by each process alone, from its own copy of  *)
(* the key.  On a miss the ranks meet in the broker's barrier before rank  *)
(* 0 writes, and again before anybody reads.                               *)
(***************************************************************************)
EXTENDS VaultBarrier, Sequences

CONSTANTS
    Requests,      \* request keys, those the planner has a plan for and...
    Unsupported,   \* ...those it has none for
    Programs,      \* the sequences of requests, the same on all ranks
    LeftBehind     \* whether an earlier group with this key has crashed

ASSUME LeftBehindAssumption == LeftBehind \in BOOLEAN

Keys == Requests \cup Unsupported
ASSUME ProgramsAssumption == Programs \subseteq Seq(Keys)

Objects == {"old", "new"}

VARIABLES
    program,     \* the requests the ranks make
    at,          \* at[r]: the request rank r is in
    pc,          \* where it is
    name,        \* the object the shm name stands for, "none" without one
    mapped,      \* mapped[r]: the object behind r's arena pointer
    arena,       \* the contents of the objects
    valid,       \* valid[r]: *cache_valid
    cached,      \* cached[r]: *cached_key
    outcome      \* history: outcome[r]: what each of r's requests returned

arenaVars == <<program, at, pc, name, mapped, arena, valid, cached, outcome>>
vars == <<barrierVars, arenaVars>>

(* sized, ready (magic and version), what the metadata and payload say.    *)
Zeroed == [sized |-> TRUE, ready |-> FALSE, status |-> "success",
           described |-> FALSE, plan |-> "none"]
Left == [sized |-> TRUE, ready |-> TRUE, status |-> "success",
         described |-> TRUE, plan |-> "old plan"]

Init ==
    /\ BarrierInit
    /\ program \in Programs
    /\ at = [r \in Ranks |-> 1]
    /\ pc = [r \in Ranks |-> IF r = 0 THEN "unlink" ELSE "open"]
    /\ name = IF LeftBehind THEN "old" ELSE "none"
    /\ mapped = [r \in Ranks |-> "none"]
    /\ arena = [o \in Objects |-> IF o = "old" THEN Left ELSE [Zeroed EXCEPT !.sized = FALSE]]
    /\ valid = [r \in Ranks |-> FALSE]
    /\ cached = [r \in Ranks |-> "none"]
    /\ outcome = [r \in Ranks |-> <<>>]

Goto(r, from, to) ==
    /\ pc[r] = from
    /\ pc' = [pc EXCEPT ![r] = to]

-------------------------------------------------------------------------------
(* The constructor of IpcSharedPlanMapping. *)

Unlink ==
    /\ Goto(0, "unlink", "create")
    /\ name' = "none"
    /\ UNCHANGED <<barrierVars, program, at, mapped, arena, valid, cached, outcome>>

(* shm_open(O_CREAT | O_EXCL): the object is empty. *)
Create ==
    /\ Goto(0, "create", "truncate")
    /\ name = "none"
    /\ name' = "new"
    /\ mapped' = [mapped EXCEPT ![0] = "new"]
    /\ UNCHANGED <<barrierVars, program, at, arena, valid, cached, outcome>>

Truncate ==
    /\ Goto(0, "truncate", "initialise")
    /\ arena' = [arena EXCEPT !["new"] = Zeroed]
    /\ UNCHANGED <<barrierVars, program, at, name, mapped, valid, cached, outcome>>

(* memset, world_size, version, and the magic last. *)
Initialise ==
    /\ Goto(0, "initialise", "idle")
    /\ arena' = [arena EXCEPT !["new"].ready = TRUE]
    /\ UNCHANGED <<barrierVars, program, at, name, mapped, valid, cached, outcome>>

(* A rank other than 0 polls until the name exists... *)
Open(r) ==
    /\ Goto(r, "open", "wait")
    /\ name # "none"
    /\ mapped' = [mapped EXCEPT ![r] = name]
    /\ UNCHANGED <<barrierVars, program, at, name, arena, valid, cached, outcome>>

(* ... and until the object is large enough and carries the magic.         *)
WaitReady(r) ==
    /\ Goto(r, "wait", "idle")
    /\ arena[mapped[r]].sized /\ arena[mapped[r]].ready
    /\ UNCHANGED <<barrierVars, program, at, name, mapped, arena, valid, cached, outcome>>

-------------------------------------------------------------------------------
(* get_or_build_shared_ipc_plan_direct. *)

Request(r) == program[at[r]]
Asks(r) == pc[r] = "idle" /\ at[r] <= Len(program)

(* ipc_shared_plan_arena_matches. *)
Matches(r) == LET a == arena[mapped[r]] IN a.described /\ a.status = "success"

IsHit(r) == valid[r] /\ cached[r] = Request(r) /\ Matches(r)

Hit(r) ==
    /\ Asks(r) /\ IsHit(r)
    /\ pc' = [pc EXCEPT ![r] = "lower"]
    /\ UNCHANGED <<barrierVars, program, at, name, mapped, arena, valid, cached, outcome>>

(* Faulty variant: a miss goes on without the pre-write barrier. *)
EnterFirstNoSync(r) ==
    /\ Asks(r) /\ ~IsHit(r)
    /\ pc' = [pc EXCEPT ![r] = IF r = 0 THEN "clear" ELSE "publish"]
    /\ UNCHANGED <<barrierVars, program, at, name, mapped, arena, valid, cached, outcome>>

(* A miss: the pre-write barrier. *)
EnterFirst(r) ==
    /\ Asks(r) /\ ~IsHit(r)
    /\ SyncEnter(r)
    /\ pc' = [pc EXCEPT ![r] = "sync1"]
    /\ UNCHANGED <<program, at, name, mapped, arena, valid, cached, outcome>>

LeaveFirst(r) ==
    /\ Goto(r, "sync1", IF r = 0 THEN "clear" ELSE "publish")
    /\ SyncLeave(r)
    /\ UNCHANGED <<program, at, name, mapped, arena, valid, cached, outcome>>

(* transfer_plan_clear, and the planner starts writing the payload. *)
Clear ==
    /\ Goto(0, "clear", "build")
    /\ arena' = [arena EXCEPT ![mapped[0]].plan = "partial"]
    /\ UNCHANGED <<barrierVars, program, at, name, mapped, valid, cached, outcome>>

(* The planner is done; status and metadata are written. *)
Build ==
    /\ Goto(0, "build", "publish")
    /\ LET ok == Request(0) \notin Unsupported IN
         arena' = [arena EXCEPT ![mapped[0]] =
                     [@ EXCEPT !.plan = IF ok THEN Request(0) ELSE "none",
                               !.status = IF ok THEN "success" ELSE "unsupported",
                               !.described = TRUE]]
    /\ UNCHANGED <<barrierVars, program, at, name, mapped, valid, cached, outcome>>

(* Faulty variant: nobody waits for rank 0 to publish. *)
EnterSecondNoSync(r) ==
    /\ Goto(r, "publish", "adopt")
    /\ UNCHANGED <<barrierVars, program, at, name, mapped, arena, valid, cached, outcome>>

(* The publish barrier. *)
EnterSecond(r) ==
    /\ Goto(r, "publish", "sync2")
    /\ SyncEnter(r)
    /\ UNCHANGED <<program, at, name, mapped, arena, valid, cached, outcome>>

LeaveSecond(r) ==
    /\ Goto(r, "sync2", "adopt")
    /\ SyncLeave(r)
    /\ UNCHANGED <<program, at, name, mapped, arena, valid, cached, outcome>>

Return(r, result) ==
    /\ outcome' = [outcome EXCEPT ![r] = Append(@, result)]
    /\ at' = [at EXCEPT ![r] = @ + 1]
    /\ pc' = [pc EXCEPT ![r] = "idle"]

(* Faulty variant: only the rank that built the plan remembers its key. *)
AdoptRank0(r) ==
    /\ pc[r] = "adopt" /\ Matches(r)
    /\ cached' = [cached EXCEPT ![r] = IF r = 0 THEN Request(r) ELSE @]
    /\ valid' = [valid EXCEPT ![r] = r = 0]
    /\ pc' = [pc EXCEPT ![r] = "lower"]
    /\ UNCHANGED <<barrierVars, program, at, name, mapped, arena, outcome>>

Adopt(r) ==
    /\ pc[r] = "adopt" /\ Matches(r)
    /\ cached' = [cached EXCEPT ![r] = Request(r)]
    /\ valid' = [valid EXCEPT ![r] = TRUE]
    /\ pc' = [pc EXCEPT ![r] = "lower"]
    /\ UNCHANGED <<barrierVars, program, at, name, mapped, arena, outcome>>

(* The arena's status, or an arena that describes another plan. *)
Reject(r) ==
    /\ pc[r] = "adopt" /\ ~Matches(r)
    /\ valid' = [valid EXCEPT ![r] = FALSE]
    /\ Return(r, IF arena[mapped[r]].status # "success" THEN arena[mapped[r]].status
                 ELSE "internal")
    /\ UNCHANGED <<barrierVars, program, name, mapped, arena, cached>>

(* The caller has lowered the plan into its launch. *)
Lowered(r) ==
    /\ pc[r] = "lower"
    /\ Return(r, "plan")
    /\ UNCHANGED <<barrierVars, program, name, mapped, arena, valid, cached>>

Step(r) ==
    \/ Open(r) \/ WaitReady(r)
    \/ Hit(r) \/ EnterFirst(r) \/ LeaveFirst(r) \/ EnterSecond(r) \/ LeaveSecond(r)
    \/ Adopt(r) \/ Reject(r) \/ Lowered(r)

Rank0 == Unlink \/ Create \/ Truncate \/ Initialise \/ Clear \/ Build

Next == Rank0 \/ \E r \in Ranks : Step(r)

Spec == Init /\ [][Next]_vars

(* Every process keeps running. *)
FairSpec == Spec /\ WF_vars(Rank0) /\ \A r \in Ranks : WF_vars(Step(r))

-------------------------------------------------------------------------------
PCs == {"unlink", "create", "truncate", "initialise", "open", "wait", "idle", "sync1",
        "clear", "build", "publish", "sync2", "adopt", "lower"}

TypeOK ==
    /\ BarrierTypeOK
    /\ at \in [Ranks -> 1 .. Len(program) + 1]
    /\ pc \in [Ranks -> PCs]
    /\ name \in Objects \cup {"none"}
    /\ mapped \in [Ranks -> Objects \cup {"none"}]
    /\ valid \in [Ranks -> BOOLEAN]
    /\ cached \in [Ranks -> Keys \cup {"none"}]
    /\ \A r \in Ranks : Len(outcome[r]) = at[r] - 1

(* While a rank lowers a plan, its arena holds the complete plan of the    *)
(* request it made: rank 0 neither is still writing it nor has begun to    *)
(* overwrite it for a later request.                                       *)
PlanIntact ==
    \A r \in Ranks : pc[r] = "lower" => arena[mapped[r]].plan = Request(r)

(* A request has the same outcome on every rank: no rank enqueues a        *)
(* collective that another rank has refused.                               *)
SameOutcome ==
    \A r, s \in Ranks : \A i \in 1 .. Len(outcome[r]) :
        i <= Len(outcome[s]) => outcome[r][i] = outcome[s][i]

(* Every request is answered: no rank hits while another waits in the      *)
(* barrier of a miss.                                                      *)
AllAnswered == <>(\A r \in Ranks : pc[r] = "idle" /\ at[r] > Len(program))
===============================================================================
