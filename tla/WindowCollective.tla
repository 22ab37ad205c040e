--------------------------- MODULE WindowCollective ---------------------------
(***************************************************************************)
(* The general path of the collectives: a pointer-free transfer plan, its  *)
(* lowering to one list of window tasks per CTA, and the window task       *)
(* executor kernel that runs the lists between two rendezvous.             *)
(*                                                                         *)
(* The buffer is cut into one slice per rank and a slice into windows.     *)
(* Only rank r works on slice r: it reduces the peers' copies of the slice *)
(* into its own, and copies its own to the peers.  The windows of a task   *)
(* are divided among CTAs; reduce tasks may be confined to groups of CTAs, *)
(* and then a copy task may need windows that another CTA has reduced: a   *)
(* grid barrier separates them, unless the lowering finds it superfluous.  *)
(*                                                                         *)
(* All islands are one (direct peer access); the plans of several islands  *)
(* are refused by the lowering.  Counters and ready values are unbounded   *)
(* here, see FastCollective for their width.                               *)
(***************************************************************************)
EXTENDS Integers, Sequences, FiniteSetsExt

CONSTANTS
    N,             \* world size
    Programs,      \* sequences of [kind, count, ctas]: the collectives, their elements
                   \* and the tuned launch_config.max_ctas_per_reduce_task
    WindowElems,   \* elements per window
    MaxCtas,       \* launch_config.max_ctas, capped by the capacity of a plan
    MaxFanout,     \* destinations of one copy task, 1 if copies cannot be coalesced
    BatchPublish,  \* the ready protocol: CTA 0 stores for all, or atomic max per stripe
    MaxWindows     \* bound on the windows of a slice

ASSUME SizeAssumption == N \in Nat /\ N >= 2 /\ BatchPublish \in BOOLEAN
ASSUME CapacityAssumption ==
    {WindowElems, MaxCtas, MaxFanout, MaxWindows} \subseteq Nat \ {0}

Stride == 1024                       \* kReadySignalPhaseStride
Kinds == {"all_reduce", "reduce_scatter", "all_gather"}
Ranks == 0 .. N - 1
CTAs == 0 .. MaxCtas - 1
Cells == Ranks \X (0 .. MaxWindows - 1)
NotLoaded == [s \in Ranks |-> -1]
NoInput == [s \in Ranks |-> 0]
Own(r) == [s \in Ranks |-> IF s = r THEN 1 ELSE 0]
Everyone == [s \in Ranks |-> 1]

VARIABLES
    program,       \* the collectives, the same on all ranks
    epoch,         \* epoch[r]: node->collective_epoch
    last_value,    \* last_value[r]: the host's record of the grid counter
    entry,         \* entry[r]: cta_barrier_entry_target of r's last launch
    counter,       \* counter[r]: the grid counter of r's scratch slot
    inbox,         \* inbox[r][s]: r's ready slot that s writes
    pc,            \* pc[r][c]: where CTA c of r's kernel is
    at,            \* at[r][c]: the index of its task
    left,          \* left[r][c]: the peers it still has to publish to
    todo,          \* todo[r][c]: <<window, destination>> its task still has to write
    held,          \* held[r][c][w]: window w of its task in shared memory
    buf            \* buf[r][x]: how often each rank's input is in cell x of r's buffer

vars == <<program, epoch, last_value, entry, counter, inbox, pc, at, left, todo, held, buf>>

-------------------------------------------------------------------------------
(* The transfer plan.                                                      *)

Kind(r) == program[epoch[r]].kind
Count(r) == program[epoch[r]].count
MaxGroup(r) == program[epoch[r]].ctas

(* compute_rank_slice_bytes_fast, and the windows of the slice. *)
SliceElems(count, r) == count \div N + (IF r < count % N THEN 1 ELSE 0)
Windows(count, r) == (SliceElems(count, r) + WindowElems - 1) \div WindowElems

ASSUME ProgramsAssumption ==
    /\ Programs \subseteq Seq([kind : Kinds, count : Nat, ctas : Nat \ {0}])
    /\ \A p \in Programs : \A i \in 1 .. Len(p) : \A r \in Ranks :
           Windows(p[i].count, r) <= MaxWindows

(* Reduce-scatter and all-gather refuse to plan an empty slice... *)
Rejected(kind, count) ==
    kind # "all_reduce" /\ \E r \in Ranks : SliceElems(count, r) = 0

Peers(r) == Ranks \ {r}
PeerAt(r, i) == IF i < r THEN i ELSE i + 1

Reduces(r) ==
    [i \in 1 .. N - 1 |-> [op |-> "reduce", src |-> PeerAt(r, i - 1), dsts |-> {r}]]

(* Adjacent copies are coalesced into fan-outs. *)
Copies(r) ==
    [i \in 1 .. (N - 2 + MaxFanout) \div MaxFanout |->
        [op |-> "copy", src |-> r,
         dsts |-> {PeerAt(r, j) : j \in (i - 1) * MaxFanout .. Min({i * MaxFanout, N - 1}) - 1}]]

(* A barrier before the first copy of the range the reduces have written. *)
Barrier(r) == <<[op |-> "barrier", src |-> r, dsts |-> {}]>>

AllReduceTasks(r) == Reduces(r) \o Barrier(r) \o Copies(r)
ReduceScatterTasks(r) == Reduces(r)
AllGatherTasks(r) == Copies(r)

(* ... all-reduce leaves the rank of an empty slice without tasks.         *)
Tasks(r) ==
    CASE Rejected(Kind(r), Count(r)) \/ Windows(Count(r), r) = 0 -> <<>>
      [] Kind(r) = "all_reduce"     -> AllReduceTasks(r)
      [] Kind(r) = "reduce_scatter" -> ReduceScatterTasks(r)
      [] Kind(r) = "all_gather"     -> AllGatherTasks(r)

(* The lowering to CTAs.                                                   *)

CtaCount(kind, count, r) ==
    IF Rejected(kind, count) THEN 0 ELSE Min({Windows(count, r), MaxCtas})
Launched(r) == IF epoch[r] = 0 THEN 0 ELSE CtaCount(Kind(r), Count(r), r)
Grid(r) == 0 .. Launched(r) - 1

(* Faulty variant: the CTAs that take one window more do not shift the rest. *)
ShareNoShift(c, n, w) ==
    LET base == w \div n
        begin == c * base
    IN  begin .. begin + base + (IF c < w % n THEN 1 ELSE 0) - 1

(* cta_window_range: the windows, of w, that the c-th of n CTAs works on.  *)
Share(c, n, w) ==
    LET base == w \div n
        rem == w % n
        begin == c * base + Min({c, rem})
    IN  begin .. begin + base + (IF c < rem THEN 1 ELSE 0) - 1

(* reduce_cta_group_for_task: the CTAs of r's i-th reduce task. *)
ReduceGroup(r, i) ==
    LET n == Launched(r)
        size == Min({MaxGroup(r), n})
        groups == (n + size - 1) \div size
        first == (i % groups) * size
    IN  [first |-> first, count |-> Min({size, n - first})]

(* barrier_follows_full_cta_reduce: the reduce task before it ran on every *)
(* CTA, hence each CTA copies exactly the windows it has reduced.          *)
BarrierElided(r) == ReduceGroup(r, N - 2) = [first |-> 0, count |-> Launched(r)]

(* The windows of task i for CTA c of rank r. *)
TaskWindows(r, c, i) ==
    LET task == Tasks(r)[i]
        n == Launched(r)
        w == Windows(Count(r), r)
        group == ReduceGroup(r, i - 1)
    IN  CASE task.op = "barrier" -> {}
          [] task.op = "copy"    -> Share(c, n, w)
          [] task.op = "reduce"  ->
                IF c \in group.first .. group.first + group.count - 1
                THEN Share(c - group.first, group.count, w)
                ELSE {}

Work(r, c, i) ==
    IF i > Len(Tasks(r)) THEN {} ELSE TaskWindows(r, c, i) \X Tasks(r)[i].dsts

BarriersAlways(r) == IF Kind(r) = "all_reduce" THEN 1 ELSE 0

(* The barriers in the lowered plan. *)
Barriers(r) ==
    IF Kind(r) = "all_reduce" /\ ~BarrierElided(r) THEN 1 ELSE 0

-------------------------------------------------------------------------------
Init ==
    /\ program \in Programs
    /\ epoch = [r \in Ranks |-> 0]
    /\ last_value = [r \in Ranks |-> 0]
    /\ entry = [r \in Ranks |-> 0]
    /\ counter = [r \in Ranks |-> 0]
    /\ inbox = [r \in Ranks |-> [s \in Ranks |-> 0]]
    /\ pc = [r \in Ranks |-> [c \in CTAs |-> "done"]]
    /\ at = [r \in Ranks |-> [c \in CTAs |-> 0]]
    /\ left = [r \in Ranks |-> [c \in CTAs |-> {}]]
    /\ todo = [r \in Ranks |-> [c \in CTAs |-> {}]]
    /\ held = [r \in Ranks |-> [c \in CTAs |-> [w \in 0 .. MaxWindows - 1 |-> NotLoaded]]]
    /\ buf = [r \in Ranks |-> [x \in Cells |-> NoInput]]

KernelDone(r) == \A c \in CTAs : pc[r][c] = "done"

(* The rendezvous' stripe of a CTA, and the peers the CTA publishes to.    *)
Stripe(r, c, n) == {PeerAt(r, i) : i \in {j \in 0 .. N - 2 : j % n = c}}
Publishes(r, c, n) ==
    IF BatchPublish THEN (IF c = 0 THEN Peers(r) ELSE {}) ELSE Stripe(r, c, n)

(* The host enqueues the next collective; on the stream it starts after    *)
(* the previous one, when the rank's new input is written.  A rank whose   *)
(* plan holds no work for it launches nothing and reports success.         *)
Launch(r) ==
    /\ KernelDone(r)
    /\ epoch[r] < Len(program)
    /\ epoch' = [epoch EXCEPT ![r] = @ + 1]
    /\ UNCHANGED <<program, counter, inbox, at, todo, held>>
    /\ LET n == Launched(r)'
       IN  /\ entry' = [entry EXCEPT ![r] = last_value[r] + n]
           /\ last_value' = IF n = 0 THEN last_value
                            ELSE [last_value EXCEPT ![r] = @ + (2 + Barriers(r)') * n]
           /\ pc' = [pc EXCEPT ![r] = [c \in CTAs |-> IF c < n THEN "entry" ELSE "done"]]
           /\ left' = [left EXCEPT ![r] =
                           [c \in CTAs |-> IF c < n THEN Publishes(r, c, n) ELSE {}]]
    /\ buf' = [buf EXCEPT ![r] = [x \in Cells |-> Own(r)]]

EntryValue(r) == epoch[r] * Stride
FinalValue(r) == epoch[r] * Stride + Stride - 1

(* One ready value stored into a peer's inbox, in the order of the peers.  *)
Publish(r, c, where, value) ==
    /\ pc[r][c] = where
    /\ left[r][c] # {}
    /\ LET s == Min(left[r][c])
       IN  /\ inbox' = [inbox EXCEPT ![s][r] = IF BatchPublish THEN value ELSE Max({@, value})]
           /\ left' = [left EXCEPT ![r][c] = @ \ {s}]
    /\ UNCHANGED <<program, epoch, last_value, entry, counter, pc, at, todo, held, buf>>

(* wait_until_ready_signal_at_least, for every peer of the CTA's stripe.   *)
Ready(r, c, value) ==
    /\ left[r][c] = {}
    /\ \A s \in Stripe(r, c, Launched(r)) : inbox[r][s] >= value

(* fetch_add(1) on the grid counter. *)
Arrive(r, c, from, to) ==
    /\ pc[r][c] = from
    /\ pc' = [pc EXCEPT ![r][c] = to]
    /\ counter' = [counter EXCEPT ![r] = @ + 1]
    /\ UNCHANGED <<program, epoch, last_value, entry, inbox, at, left, todo, held, buf>>

EntryArrival(r, c) == Ready(r, c, EntryValue(r)) /\ Arrive(r, c, "entry", "entered")

(* The CTA turns to its i-th task. *)
Turn(r, c, i) ==
    /\ pc' = [pc EXCEPT ![r][c] = "run"]
    /\ at' = [at EXCEPT ![r][c] = i]
    /\ todo' = [todo EXCEPT ![r][c] = Work(r, c, i)]
    /\ held' = [held EXCEPT ![r][c] = [w \in 0 .. MaxWindows - 1 |-> NotLoaded]]
    /\ UNCHANGED <<program, epoch, last_value, entry, counter, inbox, left, buf>>

Enter(r, c) ==
    /\ pc[r][c] = "entered"
    /\ counter[r] >= entry[r]
    /\ Turn(r, c, 1)

(* A bulk load of a window lands in shared memory... *)
Load(r, c) ==
    /\ pc[r][c] = "run"
    /\ \E w \in {p[1] : p \in todo[r][c]} :
         /\ held[r][c][w] = NotLoaded
         /\ held' = [held EXCEPT ![r][c][w] = buf[Tasks(r)[at[r][c]].src][<<r, w>>]]
    /\ UNCHANGED <<program, epoch, last_value, entry, counter, inbox, pc, at, left, todo, buf>>

(* ... and its bulk reduction, or store, completes at a destination.       *)
Store(r, c) ==
    /\ pc[r][c] = "run"
    /\ \E p \in todo[r][c] :
         LET value == held[r][c][p[1]]
         IN  /\ value # NotLoaded
             /\ buf' = [buf EXCEPT ![p[2]][<<r, p[1]>>] =
                            IF Tasks(r)[at[r][c]].op = "copy" THEN value
                            ELSE [s \in Ranks |-> @[s] + value[s]]]
             /\ todo' = [todo EXCEPT ![r][c] = @ \ {p}]
    /\ UNCHANGED <<program, epoch, last_value, entry, counter, inbox, pc, at, left, held>>

AtBarrier(r, c) ==
    /\ pc[r][c] = "run"
    /\ at[r][c] <= Len(Tasks(r))
    /\ Tasks(r)[at[r][c]].op = "barrier"
    /\ ~BarrierElided(r)

(* The task's bulk operations are complete, or it is a no-op: the next.    *)
NextTask(r, c) ==
    /\ pc[r][c] = "run"
    /\ todo[r][c] = {}
    /\ at[r][c] <= Len(Tasks(r))
    /\ ~AtBarrier(r, c)
    /\ Turn(r, c, at[r][c] + 1)

BarrierArrival(r, c) == AtBarrier(r, c) /\ Arrive(r, c, "run", "barrier")

PassBarrier(r, c) ==
    /\ pc[r][c] = "barrier"
    /\ counter[r] >= entry[r] + Launched(r)
    /\ Turn(r, c, at[r][c] + 1)

(* All tasks done: the last grid barrier, then the last rendezvous.        *)
FinalArrival(r, c) == at[r][c] > Len(Tasks(r)) /\ Arrive(r, c, "run", "final")

(* Faulty variant: the barrier inside the plan is forgotten in the target. *)
FinalTargetNoBarrier(r) == entry[r] + Launched(r)

FinalTarget(r) == entry[r] + (1 + Barriers(r)) * Launched(r)

PassFinal(r, c) ==
    /\ pc[r][c] = "final"
    /\ counter[r] >= FinalTarget(r)
    /\ pc' = [pc EXCEPT ![r][c] = "exit"]
    /\ left' = [left EXCEPT ![r][c] = Publishes(r, c, Launched(r))]
    /\ UNCHANGED <<program, epoch, last_value, entry, counter, inbox, at, todo, held, buf>>

Exit(r, c) ==
    /\ pc[r][c] = "exit"
    /\ Ready(r, c, FinalValue(r))
    /\ pc' = [pc EXCEPT ![r][c] = "done"]
    /\ at' = [at EXCEPT ![r][c] = 0]
    /\ held' = [held EXCEPT ![r][c] = [w \in 0 .. MaxWindows - 1 |-> NotLoaded]]
    /\ UNCHANGED <<program, epoch, last_value, entry, counter, inbox, left, todo, buf>>

CtaStep(r, c) ==
    \/ Publish(r, c, "entry", EntryValue(r)) \/ EntryArrival(r, c) \/ Enter(r, c)
    \/ Load(r, c) \/ Store(r, c) \/ NextTask(r, c)
    \/ BarrierArrival(r, c) \/ PassBarrier(r, c)
    \/ FinalArrival(r, c) \/ PassFinal(r, c)
    \/ Publish(r, c, "exit", FinalValue(r)) \/ Exit(r, c)

Next == \E r \in Ranks : Launch(r) \/ \E c \in Grid(r) : CtaStep(r, c)

Spec == Init /\ [][Next]_vars

(* All CTAs of a grid are resident, and the hardware schedules each.       *)
FairSpec ==
    /\ Spec
    /\ \A r \in Ranks : WF_vars(Launch(r))
    /\ \A r \in Ranks, c \in CTAs : WF_vars(c \in Grid(r) /\ CtaStep(r, c))

-------------------------------------------------------------------------------
TypeOK ==
    /\ program \in Programs
    /\ epoch \in [Ranks -> 0 .. Len(program)]
    /\ {last_value, entry, counter} \subseteq [Ranks -> Nat]
    /\ \A r \in Ranks : counter[r] <= last_value[r]
    /\ inbox \in [Ranks -> [Ranks -> Nat]]
    /\ pc \in [Ranks -> [CTAs -> {"entry", "entered", "run", "barrier", "final", "exit", "done"}]]
    /\ at \in [Ranks -> [CTAs -> 0 .. 2 * N]]
    /\ left \in [Ranks -> [CTAs -> SUBSET Ranks]]
    /\ todo \in [Ranks -> [CTAs -> SUBSET ((0 .. MaxWindows - 1) \X Ranks)]]
    /\ \A r, s \in Ranks : \A c \in CTAs : \A w \in 0 .. MaxWindows - 1 :
           held[r][c][w][s] \in -1 .. N
    /\ \A r, s \in Ranks : \A x \in Cells : buf[r][x][s] \in Nat

(* A collective that was not refused leaves its result on every rank whose *)
(* kernel is complete: every input once in every cell (all-reduce), in the *)
(* rank's own slice (reduce-scatter), every rank's slice (all-gather).     *)
CompletionMeansReceived ==
    \A r \in Ranks : (epoch[r] > 0 /\ KernelDone(r) /\ ~Rejected(Kind(r), Count(r))) =>
        \A x \in Cells : x[2] < Windows(Count(r), x[1]) =>
            CASE Kind(r) = "all_reduce"     -> buf[r][x] = Everyone
              [] Kind(r) = "reduce_scatter" -> x[1] = r => buf[r][x] = Everyone
              [] Kind(r) = "all_gather"     -> buf[r][x] = Own(x[1])

(* Once a rank's kernel is complete no peer reads or writes its buffer for *)
(* that collective any more: the rank may overwrite it.                    *)
BufferReleased ==
    \A r \in Ranks : (epoch[r] > 0 /\ KernelDone(r) /\ ~Rejected(Kind(r), Count(r))) =>
        \A s \in Peers(r) :
            epoch[s] <= epoch[r] =>
                /\ epoch[s] = epoch[r]
                /\ \A c \in Grid(s) : pc[s][c] \in {"final", "exit", "done"}

(* Every enqueued collective completes on every rank. *)
AllComplete == <>(\A r \in Ranks : epoch[r] = Len(program) /\ KernelDone(r))
===============================================================================
