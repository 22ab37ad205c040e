----------------------------- MODULE VaultBarrier -----------------------------
(***************************************************************************)
(* broker_detail::sync, the barrier of the broker.  Every rank of the      *)
(* local world maps one Vault in POSIX shared memory.  The counter and the *)
(* generation below are touched only between pthread_mutex_lock and the    *)
(* matching unlock or cond_wait, so one critical section is one step.      *)
(*                                                                         *)
(* A call has two steps: SyncEnter (lock, read the generation, count the   *)
(* arrival; the last arrival resets the count, advances the generation and *)
(* broadcasts) and SyncLeave (the while loop finds another generation than *)
(* the one read on entry, unlocks and returns).  The last arrival leaves   *)
(* through the same test: its own generation is out of date by then.       *)
(***************************************************************************)
EXTENDS Integers, FiniteSets

CONSTANTS
    N,          \* local_world_size
    MaxGen,     \* the largest value of the int barrier_generation
    MaxSyncs    \* bound on the number of sync calls of a rank

ASSUME NAssumption == N \in Nat \ {0}
ASSUME MaxGenAssumption == MaxGen \in Nat \ {0}
ASSUME MaxSyncsAssumption == MaxSyncs \in Nat

Ranks == 0 .. N - 1

VARIABLES
    barrier_count,        \* Vault::barrier_count
    barrier_generation,   \* Vault::barrier_generation
    generation,           \* generation[r]: the local variable of r's last call
    inSync,               \* inSync[r]: r is inside sync
    entered               \* history: how many sync calls r has made

barrierVars == <<barrier_count, barrier_generation, generation, inSync, entered>>

(* vault->barrier_generation += 1 on an int of finite width.  The code only *)
(* compares generations for equality, so the values are named 0 .. MaxGen.  *)
NextGen(g) == IF g = MaxGen THEN 0 ELSE g + 1

BarrierInit ==
    /\ barrier_count = 0
    /\ barrier_generation = 0
    /\ generation = [r \in Ranks |-> 0]
    /\ inSync = [r \in Ranks |-> FALSE]
    /\ entered = [r \in Ranks |-> 0]

(* Faulty variant: the last arrival forgets to reset the count. *)
SyncEnterNoReset(r) ==
    /\ ~inSync[r]
    /\ entered[r] < MaxSyncs
    /\ generation' = [generation EXCEPT ![r] = barrier_generation]
    /\ barrier_count' = barrier_count + 1
    /\ barrier_generation' = IF barrier_count + 1 = N THEN NextGen(barrier_generation)
                             ELSE barrier_generation
    /\ inSync' = [inSync EXCEPT ![r] = TRUE]
    /\ entered' = [entered EXCEPT ![r] = @ + 1]

SyncEnter(r) ==
    /\ ~inSync[r]
    /\ entered[r] < MaxSyncs
    /\ generation' = [generation EXCEPT ![r] = barrier_generation]
    /\ IF barrier_count + 1 = N
         THEN /\ barrier_count' = 0
              /\ barrier_generation' = NextGen(barrier_generation)
         ELSE /\ barrier_count' = barrier_count + 1
              /\ UNCHANGED barrier_generation
    /\ inSync' = [inSync EXCEPT ![r] = TRUE]
    /\ entered' = [entered EXCEPT ![r] = @ + 1]

(* Faulty variant: "if" instead of "while" around pthread_cond_wait. *)
SyncLeaveSpurious(r) ==
    /\ inSync[r]
    /\ inSync' = [inSync EXCEPT ![r] = FALSE]
    /\ UNCHANGED <<barrier_count, barrier_generation, generation, entered>>

SyncLeave(r) ==
    /\ inSync[r]
    /\ generation[r] # barrier_generation
    /\ inSync' = [inSync EXCEPT ![r] = FALSE]
    /\ UNCHANGED <<barrier_count, barrier_generation, generation, entered>>

BarrierNext == \E r \in Ranks : SyncEnter(r) \/ SyncLeave(r)

BarrierSpec == BarrierInit /\ [][BarrierNext]_barrierVars

-------------------------------------------------------------------------------
(* How many calls of r have returned. *)
left == [r \in Ranks |-> IF inSync[r] THEN entered[r] - 1 ELSE entered[r]]

BarrierTypeOK ==
    /\ barrier_count \in 0 .. N - 1
    /\ barrier_generation \in 0 .. MaxGen
    /\ generation \in [Ranks -> 0 .. MaxGen]
    /\ inSync \in [Ranks -> BOOLEAN]
    /\ entered \in [Ranks -> Nat]

(* The ranks that have arrived in the round the generation stands for. *)
Waiting == {r \in Ranks : inSync[r] /\ generation[r] = barrier_generation}

(* The inductive core of the barrier: the counter is the number of ranks   *)
(* waiting in the current round, and all ranks have made the same number   *)
(* of calls but for the waiting ones, which are exactly one call ahead.    *)
CountIsWaiting == barrier_count = Cardinality(Waiting)
InStep ==
    \A r, s \in Ranks :
        entered[r] - entered[s] =
            (IF r \in Waiting THEN 1 ELSE 0) - (IF s \in Waiting THEN 1 ELSE 0)

BarrierInv == BarrierTypeOK /\ CountIsWaiting /\ InStep
===============================================================================
