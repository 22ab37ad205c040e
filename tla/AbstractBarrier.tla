--------------------------- MODULE AbstractBarrier ---------------------------
(***************************************************************************)
(* What a rank may assume of Broker::sync: the k-th call of a rank returns *)
(* only after every rank has made its own k-th call.  Nothing is said of   *)
(* counters, generations or condition variables; VaultBarrier implements   *)
(* this specification.                                                     *)
(***************************************************************************)
EXTENDS Naturals

CONSTANT Ranks        \* the processes of one local world

VARIABLES
    calls,            \* calls[r]: how many sync calls r has made
    returns           \* returns[r]: how many of them have returned

avars == <<calls, returns>>

AInit ==
    /\ calls = [r \in Ranks |-> 0]
    /\ returns = [r \in Ranks |-> 0]

(* A rank that is outside of sync calls it. *)
ACall(r) ==
    /\ returns[r] = calls[r]
    /\ calls' = [calls EXCEPT ![r] = @ + 1]
    /\ UNCHANGED returns

(* A call returns once every rank has made as many calls. *)
AReturn(r) ==
    /\ returns[r] < calls[r]
    /\ \A s \in Ranks : calls[s] >= calls[r]
    /\ returns' = [returns EXCEPT ![r] = @ + 1]
    /\ UNCHANGED calls

ANext == \E r \in Ranks : ACall(r) \/ AReturn(r)

ASpec == AInit /\ [][ANext]_avars
==============================================================================
