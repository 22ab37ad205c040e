---------------------------- MODULE FastCollective ----------------------------
(***************************************************************************)
(* The fast kernels of all-reduce, reduce-scatter and all-gather, and the  *)
(* rendezvous they are built on.  One kernel per rank and collective epoch *)
(* runs a grid of CTAs; each CTA loads one chunk of the rank's own buffer  *)
(* into shared memory and later reduces (or stores) it into the buffers of *)
(* peers.  Two mechanisms order them:                                      *)
(*                                                                         *)
(*  - the grid counter, a monotone unsigned counter per rank and kernel    *)
(*    family: a CTA adds one and waits for base + k * gridDim;             *)
(*  - the ready inboxes: every rank owns one slot per peer, only that peer *)
(*    writes it, with the value collective_epoch * stride + phase, and a   *)
(*    CTA waits until the slots of its stripe of peers reach that value.   *)
(*                                                                         *)
(* A buffer has K chunks per rank of the world.  What a chunk holds is     *)
(* abstracted to how often the input of each rank is in it.  A launch      *)
(* includes the stream work before it, which writes the rank's new input   *)
(* into its whole buffer.                                                  *)
(***************************************************************************)
EXTENDS Integers, Sequences

CONSTANTS
    N,            \* world size
    K,            \* chunks per shard of the buffer
    Programs,     \* the sequences of collectives the ranks may enqueue
    Stride,       \* kReadySignalPhaseStride
    IntHalf,      \* ready values are ints in -IntHalf .. IntHalf - 1
    CounterMod    \* grid counters are unsigned, modulo CounterMod

ASSUME SizeAssumption == N \in Nat /\ N >= 2 /\ K \in Nat \ {0}
ASSUME WidthAssumption ==
    {Stride, IntHalf, CounterMod} \subseteq Nat \ {0} /\ Stride > 2

Ranks == 0 .. N - 1
Cells == Ranks \X (0 .. K - 1)
Kinds == {"all_reduce", "reduce_scatter", "all_gather"}

ASSUME ProgramsAssumption == Programs \subseteq Seq(Kinds)

VARIABLES
    program,      \* the collective of each epoch, the same on all ranks
    epoch,        \* epoch[r]: node->collective_epoch, that of r's last launch
    base,         \* base[r]: counter_base of r's last launch
    last_value,   \* last_value[r][kind]: the host's record of the counter
    counter,      \* counter[r][kind]: the grid counter in device memory
    inbox,        \* inbox[r][s]: r's ready slot that s writes
    pc,           \* pc[r][c]: where CTA c of r's kernel is
    shared,       \* shared[r][c]: the CTA's chunk in shared memory, NotLoaded before
    left,         \* left[r][c]: the peers the CTA still has to publish or send to
    buf           \* buf[r][x]: what chunk x of r's buffer holds

vars == <<program, epoch, base, last_value, counter, inbox, pc, shared, left, buf>>

-------------------------------------------------------------------------------
(* Values of chunks, and the arithmetic of the signals. *)

NotLoaded == [s \in Ranks |-> -1]
Own(r) == [s \in Ranks |-> IF s = r THEN 1 ELSE 0]
Everyone == [s \in Ranks |-> 1]
Plus(a, b) == [s \in Ranks |-> a[s] + b[s]]

(* An int product that overflows wraps around in two's complement. *)
Wrap(x) == ((x + IntHalf) % (2 * IntHalf)) - IntHalf
ReadyValue(e, phase) == Wrap(e * Stride + phase)

Kind(r) == program[epoch[r]]

Peers(r) == Ranks \ {r}
PeerIndex(r, s) == IF s < r THEN s ELSE s - 1
PeerAt(r, i) == IF i < r THEN i ELSE i + 1

(* The launch geometry.  All-reduce: one CTA per chunk of the buffer.      *)
AllReduceGrid == N * K
AllReduceCell(c) == <<c \div K, c % K>>

(* Reduce-scatter: cta_count CTAs per peer, for the chunks of its shard.   *)
ReduceScatterGrid == (N - 1) * K
ReduceScatterPeer(r, c) == PeerAt(r, c \div K)
(* Faulty variant: every CTA of a peer takes the chunk of the peer's index. *)
ReduceScatterCellFixed(r, c) == <<ReduceScatterPeer(r, c), c \div K>>

ReduceScatterCell(r, c) == <<ReduceScatterPeer(r, c), c % K>>

(* All-gather: one CTA per chunk of the rank's own shard.                  *)
AllGatherGrid == K
AllGatherCell(r, c) == <<r, c>>

(* gridDim, the chunk of the buffer that CTA c works on...                 *)
GridDim(kind) ==
    CASE kind = "all_reduce"     -> AllReduceGrid
      [] kind = "reduce_scatter" -> ReduceScatterGrid
      [] kind = "all_gather"     -> AllGatherGrid

Cell(r, c) ==
    CASE Kind(r) = "all_reduce"     -> AllReduceCell(c)
      [] Kind(r) = "reduce_scatter" -> ReduceScatterCell(r, c)
      [] Kind(r) = "all_gather"     -> AllGatherCell(r, c)

(* ... and the peers whose buffers it writes to. *)
Targets(r, c) ==
    IF Kind(r) = "reduce_scatter" THEN {ReduceScatterPeer(r, c)} ELSE Peers(r)

CTAs == 0 .. N * K - 1
Grid(r) == IF epoch[r] = 0 THEN {} ELSE 0 .. GridDim(Kind(r)) - 1

Init ==
    /\ program \in Programs
    /\ epoch = [r \in Ranks |-> 0]
    /\ base = [r \in Ranks |-> 0]
    /\ last_value = [r \in Ranks |-> [k \in Kinds |-> 0]]
    /\ counter = [r \in Ranks |-> [k \in Kinds |-> 0]]
    /\ inbox = [r \in Ranks |-> [s \in Ranks |-> 0]]
    /\ pc = [r \in Ranks |-> [c \in CTAs |-> "done"]]
    /\ shared = [r \in Ranks |-> [c \in CTAs |-> NotLoaded]]
    /\ left = [r \in Ranks |-> [c \in CTAs |-> {}]]
    /\ buf = [r \in Ranks |-> [x \in Cells |-> Own(r)]]

KernelDone(r) == \A c \in CTAs : pc[r][c] = "done"

(* The host enqueues the next collective.  On the stream it starts when    *)
(* the previous kernel is complete and the rank's new input is written.    *)
Launch(r) ==
    /\ KernelDone(r)
    /\ epoch[r] < Len(program)
    /\ LET kind == program[epoch[r] + 1]
           n == GridDim(kind)
       IN  /\ base' = [base EXCEPT ![r] = last_value[r][kind]]
           /\ last_value' = [last_value EXCEPT ![r][kind] = (@ + 3 * n) % CounterMod]
           /\ pc' = [pc EXCEPT ![r] = [c \in CTAs |-> IF c < n THEN "start" ELSE "done"]]
    /\ epoch' = [epoch EXCEPT ![r] = @ + 1]
    /\ shared' = [shared EXCEPT ![r] = [c \in CTAs |-> NotLoaded]]
    /\ buf' = [buf EXCEPT ![r] = [x \in Cells |-> Own(r)]]
    /\ UNCHANGED <<program, counter, inbox, left>>

Goto(r, c, from, to) ==
    /\ pc[r][c] = from
    /\ pc' = [pc EXCEPT ![r][c] = to]

Loaded(r, c) == shared[r][c] # NotLoaded

(* tma::load_async lands in shared memory at some point of the kernel. *)
LoadLands(r, c) ==
    /\ pc[r][c] # "done"
    /\ ~Loaded(r, c)
    /\ shared' = [shared EXCEPT ![r][c] = buf[r][Cell(r, c)]]
    /\ UNCHANGED <<program, epoch, base, last_value, counter, inbox, pc, left, buf>>

(* sync::wait(load_barrier, 0) before the first counter barrier: only      *)
(* all-gather postpones it until its stores.                               *)
WaitsForLoadFirst(r) == Kind(r) # "all_gather"

(* fetch_add(1) on the grid counter. *)
Arrive(r, c, from, to) ==
    /\ Goto(r, c, from, to)
    /\ counter' = [counter EXCEPT ![r][Kind(r)] = (@ + 1) % CounterMod]
    /\ UNCHANGED <<program, epoch, base, last_value, inbox, shared, left, buf>>

(* Faulty variant: the target is one arrival short. *)
TargetShort(r, k) == (base[r] + k * GridDim(Kind(r)) - 1) % CounterMod

(* The k-th barrier of a kernel waits for counter_base + k * gridDim. *)
Target(r, k) == (base[r] + k * GridDim(Kind(r))) % CounterMod
BarrierOpen(r, k) == counter[r][Kind(r)] >= Target(r, k)

(* Through a counter barrier into the rendezvous.  CTA 0 publishes to      *)
(* every peer, then all CTAs wait for the peers of their stripe.           *)
PassToRendezvous(r, c, k, from, to) ==
    /\ Goto(r, c, from, to)
    /\ BarrierOpen(r, k)
    /\ left' = [left EXCEPT ![r][c] = IF c = 0 THEN Peers(r) ELSE {}]
    /\ UNCHANGED <<program, epoch, base, last_value, counter, inbox, shared, buf>>

(* Faulty variant: the phase is left out of the published value. *)
PublishNoPhase(r, c, phase, at) ==
    /\ pc[r][c] = at
    /\ \E s \in left[r][c] :
         /\ inbox' = [inbox EXCEPT ![s][r] = ReadyValue(epoch[r], 0)]
         /\ left' = [left EXCEPT ![r][c] = @ \ {s}]
    /\ UNCHANGED <<program, epoch, base, last_value, counter, pc, shared, buf>>

(* store_ready_signal_volatile into the next peer's inbox. *)
Publish(r, c, phase, at) ==
    /\ pc[r][c] = at
    /\ \E s \in left[r][c] :
         /\ \A q \in left[r][c] : s <= q
         /\ inbox' = [inbox EXCEPT ![s][r] = ReadyValue(epoch[r], phase)]
         /\ left' = [left EXCEPT ![r][c] = @ \ {s}]
    /\ UNCHANGED <<program, epoch, base, last_value, counter, pc, shared, buf>>

Stripe(r, c) == {s \in Peers(r) : PeerIndex(r, s) % GridDim(Kind(r)) = c}

(* wait_until_ready_signal_at_least over the CTA's stripe of peers.  *)
Ready(r, c, phase) ==
    /\ left[r][c] = {}
    /\ \A s \in Stripe(r, c) : inbox[r][s] >= ReadyValue(epoch[r], phase)

FirstArrival(r, c) ==
    /\ WaitsForLoadFirst(r) => Loaded(r, c)
    /\ Arrive(r, c, "start", "barrier1")

(* The peers of the stripe have loaded; on to the second barrier. *)
PeersLoaded(r, c) ==
    /\ Ready(r, c, 1)
    /\ Arrive(r, c, "loaded", "barrier2")

(* All CTAs have seen their peers: the fan-out may start. *)
PassToFanout(r, c) ==
    /\ Goto(r, c, "barrier2", "fanout")
    /\ BarrierOpen(r, 2)
    /\ left' = [left EXCEPT ![r][c] = Targets(r, c)]
    /\ UNCHANGED <<program, epoch, base, last_value, counter, inbox, shared, buf>>

(* One bulk reduction, or store, of the shared chunk into a peer's buffer. *)
(* The operations are asynchronous: they complete in any order.            *)
Fanout(r, c) ==
    /\ pc[r][c] = "fanout"
    /\ Loaded(r, c)
    /\ \E s \in left[r][c] :
         /\ buf' = [buf EXCEPT ![s][Cell(r, c)] =
                        IF Kind(r) = "all_gather" THEN shared[r][c]
                        ELSE Plus(@, shared[r][c])]
         /\ left' = [left EXCEPT ![r][c] = @ \ {s}]
    /\ UNCHANGED <<program, epoch, base, last_value, counter, inbox, pc, shared>>

(* commit_group and async_wait<0>, then the third barrier. *)
FanoutArrival(r, c) ==
    /\ left[r][c] = {}
    /\ Arrive(r, c, "fanout", "barrier3")

(* Faulty variant: the kernel ends without the second rendezvous. *)
ExitEarly(r, c) ==
    /\ Goto(r, c, "sent", "done")
    /\ left[r][c] = {}
    /\ UNCHANGED <<program, epoch, base, last_value, counter, inbox, shared, left, buf>>

(* The peers of the stripe have finished their fan-out: the CTA exits. *)
Exit(r, c) ==
    /\ Goto(r, c, "sent", "done")
    /\ Ready(r, c, 2)
    /\ UNCHANGED <<program, epoch, base, last_value, counter, inbox, shared, left, buf>>

Step(r, c) ==
    \/ LoadLands(r, c) \/ FirstArrival(r, c)
    \/ PassToRendezvous(r, c, 1, "barrier1", "loaded")
    \/ Publish(r, c, 1, "loaded") \/ PeersLoaded(r, c)
    \/ PassToFanout(r, c) \/ Fanout(r, c) \/ FanoutArrival(r, c)
    \/ PassToRendezvous(r, c, 3, "barrier3", "sent")
    \/ Publish(r, c, 2, "sent") \/ Exit(r, c)

Next == \E r \in Ranks : Launch(r) \/ \E c \in Grid(r) : Step(r, c)

Spec == Init /\ [][Next]_vars

(* All CTAs of a grid are resident (num_ctas <= TMA_TWO_GPU_PEER_MAX_CTAS) *)
(* and the hardware schedules each of them.                                *)
FairSpec ==
    /\ Spec
    /\ \A r \in Ranks : WF_vars(Launch(r))
    /\ \A r \in Ranks, c \in CTAs : WF_vars(c \in Grid(r) /\ Step(r, c))

-------------------------------------------------------------------------------
PCs == {"start", "barrier1", "loaded", "barrier2", "fanout", "barrier3", "sent", "done"}

TypeOK ==
    /\ program \in Programs
    /\ epoch \in [Ranks -> 0 .. Len(program)]
    /\ base \in [Ranks -> 0 .. CounterMod - 1]
    /\ last_value \in [Ranks -> [Kinds -> 0 .. CounterMod - 1]]
    /\ counter \in [Ranks -> [Kinds -> 0 .. CounterMod - 1]]
    /\ inbox \in [Ranks -> [Ranks -> -IntHalf .. IntHalf - 1]]
    /\ pc \in [Ranks -> [CTAs -> PCs]]
    /\ left \in [Ranks -> [CTAs -> SUBSET Ranks]]
    /\ \A r \in Ranks : \A c \in CTAs : \A s \in Ranks : shared[r][c][s] \in -1 .. N
    /\ \A r \in Ranks : \A x \in Cells : \A s \in Ranks : buf[r][x][s] \in 0 .. N

(* What a completed collective leaves in the rank's buffer: the sum over   *)
(* all ranks, each input once (all-reduce); that in the rank's own shard   *)
(* (reduce-scatter); every rank's shard (all-gather).                      *)
Result(r, x) ==
    CASE Kind(r) = "all_reduce"     -> buf[r][x] = Everyone
      [] Kind(r) = "reduce_scatter" -> x[1] = r => buf[r][x] = Everyone
      [] Kind(r) = "all_gather"     -> buf[r][x] = Own(x[1])

(* Kernel completion means that the rank has received everything, exactly  *)
(* once and from this epoch, however fast or slow the other ranks are.     *)
CompletionMeansReceived ==
    \A r \in Ranks :
        epoch[r] > 0 /\ KernelDone(r) => \A x \in Cells : Result(r, x)

(* Once a rank's kernel is complete its buffer belongs to the rank again:  *)
(* no peer still has to write into it for that epoch or an earlier one.    *)
BufferReleased ==
    \A r \in Ranks : KernelDone(r) =>
        \A s \in Peers(r) : \A c \in Grid(s) :
            epoch[s] <= epoch[r] =>
                /\ epoch[s] = epoch[r]
                /\ pc[s][c] \in {"barrier3", "sent", "done"}

(* No CTA reduces or stores before all CTAs of its grid have completed the *)
(* rendezvous with their peers.                                            *)
FanoutAfterRendezvous ==
    \A r \in Ranks : \A c \in Grid(r) :
        pc[r][c] = "fanout" =>
            \A d \in Grid(r) : pc[r][d] \notin {"start", "barrier1", "loaded"}

(* Every enqueued collective completes on every rank. *)
AllComplete == <>(\A r \in Ranks : epoch[r] = Len(program) /\ KernelDone(r))
===============================================================================
