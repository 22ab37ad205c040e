--------------------------- MODULE OoverlapAdapter ---------------------------
(***************************************************************************)
(* The patched vLLM: the tensor-parallel workers of a Qwen model whose     *)
(* all-reduces are forced onto ooverlap.  Each rank constructs an adapter  *)
(* by a chain of collective steps, any of which may fail at one rank       *)
(* alone, and then runs forward passes.  A result of an all-reduce is not  *)
(* copied: it is the slot of a round-robin pool in which it was computed,  *)
(* and the residual stream of a forward pass lives in the slot of its      *)
(* first all-reduce, that of the embedding, until the pass ends.  Nothing  *)
(* relates the size of the pool to the number of layers.                   *)
(*                                                                         *)
(* An all-reduce is here what FastCollective and WindowCollective show of  *)
(* it: the ranks meet in a slot and leave with its sum.  A rank's steps    *)
(* are those of its stream; its host only runs ahead of them.              *)
(***************************************************************************)
EXTENDS Integers

CONSTANTS
    N,          \* ranks
    Slots,      \* VLLM_OOVERLAP_RR_SLOTS
    AgSlots,    \* VLLM_OOVERLAP_AG_SLOTS
    Layers,     \* decoder layers, two all-reduces each
    Forwards    \* forward passes until the workers stop

ASSUME AdapterAssumption ==
    /\ N \in Nat \ {0}
    /\ Slots \in Nat \ {0}
    /\ AgSlots \in Nat \ {0}
    /\ Layers \in Nat
    /\ Forwards \in Nat

Ranks == 0..(N - 1)
Calls == 2 * Layers + 1
LastCall == Calls - 1

(* Steps of the constructor: 0 loads the extension, then the collective    *)
(* ones: device list, broker key, Communicator, one exchange per slot of   *)
(* each pool.  Beyond the last, the adapter is enabled.                    *)
Enabled == 4 + Slots + AgSlots

VARIABLES
    failAt,     \* failAt[r]: the step that fails at r alone, Enabled + 1: none
    oversize,   \* the forward pass whose tensors exceed a slot, 0: none
    stage,      \* stage[r]: the constructor step rank r has entered
    pc,         \* where rank r is
    fwd, call,  \* the forward pass it is in, and the all-reduce in that
    arNext,     \* round_robin_index_
    agNext,     \* all_gather_round_robin_index_
    view,       \* view[r]: the slot that r's current result aliases
    launched,   \* launched[r]: the slot of r's last launched all-reduce
    residual,   \* residual[r]: the slot that the residual stream aliases
    slot        \* slot[r][i]: what slot i of r's all-reduce pool holds

setupVars == <<failAt, oversize, stage>>
position == <<fwd, call>>
vars == <<setupVars, pc, position, arNext, agNext, view, launched, residual, slot>>

Content == [holds : {"nothing", "partial", "sum", "normed", "residual", "garbage"},
            fwd : Nat, call : Nat]
Holding(what, f, c) == [holds |-> what, fwd |-> f, call |-> c]

SlotIds == 0..(Slots - 1)
AgSlotIds == 0..(AgSlots - 1)

Init ==
    /\ failAt \in [Ranks -> 0..(Enabled + 1)]
    /\ oversize \in 0..Forwards
    /\ stage = [r \in Ranks |-> 0]
    /\ pc = [r \in Ranks |-> "setup"]
    /\ fwd = [r \in Ranks |-> 1]
    /\ call = [r \in Ranks |-> 0]
    /\ arNext = [r \in Ranks |-> 0]
    /\ agNext = [r \in Ranks |-> 0]
    /\ view = [r \in Ranks |-> 0]
    /\ launched = [r \in Ranks |-> 0]
    /\ residual = [r \in Ranks |-> 0]
    /\ slot = [r \in Ranks |-> [i \in SlotIds |-> Holding("nothing", 0, 0)]]

Goto(r, from, to) ==
    /\ pc[r] = from
    /\ pc' = [pc EXCEPT ![r] = to]

-------------------------------------------------------------------------------
(* OoverlapAllReduce.__init__ *)

(* Faulty: no exchange inside the creation of a pool waits for the peers.  *)
FaultyStepOver(r) == stage[r] \notin 1..3 \/ \A p \in Ranks : stage[p] >= stage[r]

(* A collective step ends when every rank has entered it.                  *)
StepOver(r) == stage[r] = 0 \/ \A p \in Ranks : stage[p] >= stage[r]

NextStep(r) ==
    /\ StepOver(r)
    /\ failAt[r] \notin {0, stage[r] + 1}
    /\ stage' = [stage EXCEPT ![r] = @ + 1]
    /\ IF stage[r] + 1 = Enabled THEN Goto(r, "setup", "fill")
       ELSE pc[r] = "setup" /\ UNCHANGED pc
    /\ UNCHANGED <<failAt, oversize, position, arNext, agNext, view, launched, residual, slot>>

(* The early returns, and the handler that destroys the communicator:      *)
(* this rank's adapter stays disabled, and nobody is told.                 *)
LeaveSetup(r) ==
    /\ \/ stage[r] = 0 /\ failAt[r] = 0
       \/ StepOver(r) /\ failAt[r] = stage[r] + 1
    /\ Goto(r, "setup", "disabled")
    /\ UNCHANGED <<setupVars, position, arNext, agNext, view, launched, residual, slot>>

(* The first all-reduce at a rank without an adapter: no fall-back.        *)
RaiseUnavailable(r) ==
    /\ Goto(r, "disabled", "raised")
    /\ UNCHANGED <<setupVars, position, arNext, agNext, view, launched, residual, slot>>

-------------------------------------------------------------------------------
(* A forward pass *)

(* Faulty: only the driver checks its input.                               *)
FaultyAccepts(r) == r = 0 => fwd[r] # oversize

(* should_ooverlap_ar rejects a tensor that exceeds the slots' capacity.   *)
(* The ranks of a pass all have the same shapes.                           *)
Accepts(r) == fwd[r] # oversize

RaiseRejected(r) ==
    /\ ~Accepts(r)
    /\ Goto(r, "fill", "raised")
    /\ UNCHANGED <<setupVars, position, arNext, agNext, view, launched, residual, slot>>

(* acquire_all_reduce_slot, then the copy (embedding) or the GEMM          *)
(* (row-parallel projections) into the slot.                               *)
Fill(r) ==
    /\ Accepts(r)
    /\ Goto(r, "fill", "launch")
    /\ view' = [view EXCEPT ![r] = arNext[r]]
    /\ slot' = [slot EXCEPT ![r][arNext[r]] = Holding("partial", fwd[r], call[r])]
    /\ UNCHANGED <<setupVars, position, arNext, agNext, launched, residual>>

(* Faulty: both the acquisition and the launch advance the index.          *)
FaultyFollowing(i, size) == (i + 2) % size

Following(i, size) == (i + 1) % size

(* Faulty: the index has advanced when the launch reads it.                *)
FaultyLaunch(r) ==
    /\ Goto(r, "launch", "wait")
    /\ launched' = [launched EXCEPT ![r] = Following(arNext[r], Slots)]
    /\ arNext' = [arNext EXCEPT ![r] = Following(@, Slots)]
    /\ UNCHANGED <<setupVars, position, agNext, view, residual, slot>>

(* all_reduce_preloaded_slot: the slot is that of the index, which then    *)
(* advances.                                                               *)
Launch(r) ==
    /\ Goto(r, "launch", "wait")
    /\ launched' = [launched EXCEPT ![r] = arNext[r]]
    /\ arNext' = [arNext EXCEPT ![r] = Following(@, Slots)]
    /\ UNCHANGED <<setupVars, position, agNext, view, residual, slot>>

(* What the ranks leave in slot i: the sum of the contributions to one     *)
(* call, or of whatever the ranks' slots held.                             *)
SumOf(i) ==
    IF \A p, q \in Ranks : slot[p][i].holds = "partial" /\ slot[p][i] = slot[q][i]
    THEN [r \in Ranks |-> Holding("sum", slot[r][i].fwd, slot[r][i].call)]
    ELSE [r \in Ranks |-> Holding("garbage", 0, 0)]

(* The all-reduce: its kernels only meet peers launched on the same slot.  *)
Meet(i) ==
    /\ \A r \in Ranks : pc[r] = "wait" /\ launched[r] = i
    /\ pc' = [r \in Ranks |-> "norm"]
    /\ slot' = [r \in Ranks |-> [slot[r] EXCEPT ![i] = SumOf(i)[r]]]
    /\ UNCHANGED <<setupVars, position, arNext, agNext, view, launched, residual>>

(* What the norm before left in the residual stream: the embedding's sum,  *)
(* then what it had added up so far.                                       *)
Expected(r) == Holding(IF call[r] = 1 THEN "sum" ELSE "residual", fwd[r], call[r] - 1)

(* The norm's results are what their names say only if both operands are;  *)
(* two operands in one slot can not both be.                               *)
NormOf(r, what) ==
    IF slot[r][view[r]] = Holding("sum", fwd[r], call[r]) /\ slot[r][residual[r]] = Expected(r)
    THEN Holding(what, fwd[r], call[r])
    ELSE Holding("garbage", 0, 0)

(* After the embedding the residual stream is its result; after any other  *)
(* all-reduce the fused norm adds the result to the residual and replaces  *)
(* both in place.                                                          *)
Norm(r) ==
    /\ Goto(r, "norm", IF call[r] = LastCall THEN "gather" ELSE "fill")
    /\ IF call[r] = 0
       THEN /\ residual' = [residual EXCEPT ![r] = view[r]]
            /\ UNCHANGED slot
       ELSE /\ slot' = [slot EXCEPT ![r][view[r]] = NormOf(r, "normed"),
                                    ![r][residual[r]] = NormOf(r, "residual")]
            /\ UNCHANGED residual
    /\ call' = [call EXCEPT ![r] = IF @ = LastCall THEN 0 ELSE @ + 1]
    /\ UNCHANGED <<setupVars, fwd, arNext, agNext, view, launched>>

(* The logits are all-gathered through the second pool, and copied out of  *)
(* it because the gathered dimension is not the first.                     *)
Gather(r) ==
    /\ Goto(r, "gather", "gathering")
    /\ agNext' = [agNext EXCEPT ![r] = Following(@, AgSlots)]
    /\ UNCHANGED <<setupVars, position, arNext, view, launched, residual, slot>>

MeetGather ==
    /\ \A r \in Ranks : pc[r] = "gathering" /\ agNext[r] = agNext[0]
    /\ pc' = [r \in Ranks |-> IF fwd[r] >= Forwards THEN "done" ELSE "fill"]
    /\ fwd' = [r \in Ranks |-> IF fwd[r] >= Forwards THEN fwd[r] ELSE fwd[r] + 1]
    /\ UNCHANGED <<setupVars, call, arNext, agNext, view, launched, residual, slot>>

-------------------------------------------------------------------------------
RankNext(r) ==
    \/ NextStep(r) \/ LeaveSetup(r) \/ RaiseUnavailable(r)
    \/ RaiseRejected(r) \/ Fill(r) \/ Launch(r) \/ Norm(r) \/ Gather(r)

Next ==
    \/ \E r \in Ranks : RankNext(r)
    \/ \E i \in SlotIds : Meet(i)
    \/ MeetGather

Spec == Init /\ [][Next]_vars

(* The workers and their streams make progress.                            *)
FairSpec ==
    /\ Spec
    /\ \A r \in Ranks : WF_vars(RankNext(r))
    /\ WF_vars((\E i \in SlotIds : Meet(i)) \/ MeetGather)

-------------------------------------------------------------------------------
TypeOK ==
    /\ failAt \in [Ranks -> 0..(Enabled + 1)]
    /\ oversize \in 0..Forwards
    /\ stage \in [Ranks -> 0..Enabled]
    /\ pc \in [Ranks -> {"setup", "disabled", "raised", "fill", "launch", "wait",
                         "norm", "gather", "gathering", "done"}]
    /\ fwd \in [Ranks -> Nat]
    /\ call \in [Ranks -> 0..LastCall]
    /\ arNext \in [Ranks -> SlotIds]
    /\ agNext \in [Ranks -> AgSlotIds]
    /\ view \in [Ranks -> SlotIds]
    /\ launched \in [Ranks -> SlotIds]
    /\ residual \in [Ranks -> SlotIds]
    /\ slot \in [Ranks -> [SlotIds -> Content]]

(* When the norm reads them, the result it was handed is the whole sum of  *)
(* this all-reduce, at every rank: the direct-slot path reduces the slot   *)
(* that the GEMM filled, and the ranks' indices agree.                     *)
ResultIsSum ==
    \A r \in Ranks : pc[r] = "norm" => slot[r][view[r]] = Holding("sum", fwd[r], call[r])

(* And the residual stream it adds the result to is what the previous norm *)
(* left, as the direct return of slots demands of its caller, though it    *)
(* aliases a slot of the pool from which every all-reduce since the        *)
(* embedding has taken one.                                                *)
ResidualIntact ==
    \A r \in Ranks : pc[r] = "norm" /\ call[r] > 0 => slot[r][residual[r]] = Expected(r)

(* A slot is overwritten when the index wraps, after Slots later calls,    *)
(* and not before: up to there every norm finds the residual stream        *)
(* intact, and from there on none does, up to the end of the pass.         *)
ResidualUntilWrap ==
    \A r \in Ranks : pc[r] = "norm" /\ call[r] > 0 =>
        (slot[r][residual[r]] = Expected(r) <=> call[r] < Slots)

(* A rank only ever fills a slot that its peers have imported: the adapter *)
(* is enabled at one rank only after all ranks went through every exchange *)
(* of both pools.                                                          *)
SlotsImported ==
    \A r \in Ranks : pc[r] \notin {"setup", "disabled", "raised"} =>
        \A p \in Ranks : stage[p] >= Enabled - 1

(* Unless a constructor failed, all ranks finish their passes, or all      *)
(* raise: none waits in an all-reduce for a rank that has refused it.      *)
NoneFailed == \A r \in Ranks : failAt[r] > Enabled
AllServed ==
    NoneFailed ~> \/ \A r \in Ranks : pc[r] = "done"
                  \/ \A r \in Ranks : pc[r] = "raised"
===============================================================================
