----------------------------- MODULE DataExchange -----------------------------
(***************************************************************************)
(* Broker::exchange_data: an all-gather of one small record per rank       *)
(* through the Vault's data array, built from three sync calls.            *)
(*                                                                         *)
(*   sync; copy src into my slot; sync; copy every slot into dst; sync     *)
(*                                                                         *)
(* Slots are reused by every call.  The k-th call of rank r publishes the  *)
(* payload of that call, so the payload is represented by k itself: a slot *)
(* or an element of dst holds the number of the call whose src it holds,   *)
(* 0 being the memset of init_vault_rank0.  The copy of dst goes slot by   *)
(* slot, so the copies of several ranks interleave.                        *)
(*                                                                         *)
(* BrokerCalls composes these steps with those of FdExchange.              *)
(***************************************************************************)
EXTENDS VaultBarrier

CONSTANT MaxCalls     \* bound on the exchange_data calls of a rank

ASSUME MaxCallsAssumption == MaxCalls \in Nat /\ MaxSyncs >= 3 * MaxCalls

VARIABLES
    dataPc,           \* dataPc[r]: where r is in exchange_data
    dataCall,         \* dataCall[r]: the number of r's current or last call
    data,             \* Vault::data, one slot per rank
    dst,              \* dst[r][s]: what r's last call copied from slot s
    next              \* next[r]: the loop variable of the copy loop

exchangeVars == <<dataPc, dataCall, data, dst, next>>

DataPCs == {"idle", "sync1", "write", "wrote", "sync2", "read", "sync3"}

DataInit ==
    /\ BarrierInit
    /\ dataPc = [r \in Ranks |-> "idle"]
    /\ dataCall = [r \in Ranks |-> 0]
    /\ data = [r \in Ranks |-> 0]
    /\ dst = [r \in Ranks |-> [s \in Ranks |-> 0]]
    /\ next = [r \in Ranks |-> 0]

DataGoto(r, from, to) ==
    /\ dataPc[r] = from
    /\ dataPc' = [dataPc EXCEPT ![r] = to]

(* exchange_data is called and enters its first sync. *)
BeginData(r) ==
    /\ dataCall[r] < MaxCalls
    /\ DataGoto(r, "idle", "sync1")
    /\ SyncEnter(r)
    /\ dataCall' = [dataCall EXCEPT ![r] = @ + 1]
    /\ UNCHANGED <<data, dst, next>>

LeaveFirstData(r) ==
    /\ DataGoto(r, "sync1", "write")
    /\ SyncLeave(r)
    /\ UNCHANGED <<dataCall, data, dst, next>>

(* memcpy(shm_->data + local_rank_ * VAULT_SIZE_PER_RANK, src, size) *)
WriteSlot(r) ==
    /\ DataGoto(r, "write", "wrote")
    /\ data' = [data EXCEPT ![r] = dataCall[r]]
    /\ UNCHANGED <<barrierVars, dataCall, dst, next>>

(* Faulty variant: no barrier between the write and the copy. *)
EnterSecondNoSync(r) ==
    /\ DataGoto(r, "wrote", "read")
    /\ next' = [next EXCEPT ![r] = 0]
    /\ UNCHANGED <<barrierVars, dataCall, data, dst>>

EnterSecondData(r) ==
    /\ DataGoto(r, "wrote", "sync2")
    /\ SyncEnter(r)
    /\ UNCHANGED <<dataCall, data, dst, next>>

LeaveSecondData(r) ==
    /\ DataGoto(r, "sync2", "read")
    /\ SyncLeave(r)
    /\ next' = [next EXCEPT ![r] = 0]
    /\ UNCHANGED <<dataCall, data, dst>>

(* Faulty variant: the loop variable is never advanced. *)
ReadSlotNoAdvance(r) ==
    /\ dataPc[r] = "read"
    /\ next[r] < N
    /\ dst' = [dst EXCEPT ![r][next[r]] = data[next[r]]]
    /\ UNCHANGED <<barrierVars, dataPc, dataCall, data, next>>

(* One turn of the loop that copies the slots out. *)
ReadSlot(r) ==
    /\ dataPc[r] = "read"
    /\ next[r] < N
    /\ dst' = [dst EXCEPT ![r][next[r]] = data[next[r]]]
    /\ next' = [next EXCEPT ![r] = @ + 1]
    /\ UNCHANGED <<barrierVars, dataPc, dataCall, data>>

EnterThird(r) ==
    /\ next[r] = N
    /\ DataGoto(r, "read", "sync3")
    /\ SyncEnter(r)
    /\ UNCHANGED <<dataCall, data, dst, next>>

LeaveThird(r) ==
    /\ DataGoto(r, "sync3", "idle")
    /\ SyncLeave(r)
    /\ UNCHANGED <<dataCall, data, dst, next>>

DataStep(r) ==
    \/ BeginData(r) \/ LeaveFirstData(r)
    \/ WriteSlot(r) \/ EnterSecondData(r) \/ LeaveSecondData(r)
    \/ ReadSlot(r)  \/ EnterThird(r)      \/ LeaveThird(r)

-------------------------------------------------------------------------------
DataTypeOK ==
    /\ BarrierTypeOK
    /\ dataPc \in [Ranks -> DataPCs]
    /\ dataCall \in [Ranks -> Nat]
    /\ data \in [Ranks -> Nat]
    /\ dst \in [Ranks -> [Ranks -> Nat]]
    /\ next \in [Ranks -> 0 .. N]

(* What exchange_data promises its callers: when call k returns on a rank, *)
(* dst holds what every rank passed to its own call k.  Neither an old     *)
(* payload nor the payload of a faster rank's next call may show up, and   *)
(* dst stays that way while the faster ranks go on.                        *)
ExchangeCorrect ==
    \A r \in Ranks :
        dataPc[r] = "idle" => \A s \in Ranks : dst[r][s] = dataCall[r]

(* The slots are plain memory: no rank may write its slot while another    *)
(* one may still be copying the slots out (a torn record otherwise).       *)
NoTornSlot ==
    \A r, s \in Ranks : dataPc[r] = "read" => dataPc[s] # "write"

(* Every call of sync is the barrier of AbstractBarrier: a rank returns    *)
(* from its k-th sync only after all ranks have made their k-th call.      *)
Abstract == INSTANCE AbstractBarrier WITH calls <- entered, returns <- left
ImplementsBarrier == Abstract!ASpec

(* Under fair scheduling a rank that has called exchange_data returns.  The *)
(* caller's contract is that all ranks make the same calls.                 *)
ExchangeReturns ==
    \A r \in Ranks : dataPc[r] = "sync1" ~> dataPc[r] = "idle"
===============================================================================
