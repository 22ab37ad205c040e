----------------------------- MODULE BrokerCalls -----------------------------
(***************************************************************************)
(* A broker that exchanges data and passes descriptors: exchange_data,     *)
(* exchange_fds and broadcast_fd follow each other on the same Vault, in   *)
(* the order of a program that all ranks run.  The import of IPC buffers   *)
(* exchanges keys, misses and records, three data exchanges in a row; a    *)
(* buffer of virtual memory is shared by a record, which is data, and a    *)
(* descriptor.                                                             *)
(*                                                                         *)
(* The calls have nothing that tells them apart: they share the barrier's  *)
(* counter and generation, a data exchange makes three syncs of it and a   *)
(* descriptor call two, and a rank may be in its next call, of the other   *)
(* kind, while a slow one has still to leave this one.                     *)
(***************************************************************************)
EXTENDS DataExchange, FdExchange

CONSTANT Programs    \* the sequences of calls of either kind

IsData(c) == c.op = "data"
DataCalls(p) == SelectSeq(p, IsData)
FdCalls(p) == SelectSeq(p, LAMBDA c : ~IsData(c))

ASSUME ProgramsAssumption ==
    \A p \in Programs :
        /\ p \in Seq([op : {"data"}] \cup Calls)
        /\ FdCalls(p) \in Scripts
        /\ Len(DataCalls(p)) <= MaxCalls
        /\ MaxSyncs >= 3 * Len(DataCalls(p)) + 2 * Len(FdCalls(p))

VARIABLE program     \* the calls every rank makes, in order

brokerVars == <<barrierVars, exchangeVars, fdVars, program>>

BrokerInit ==
    /\ program \in Programs
    /\ DataInit
    /\ Init
    /\ script = FdCalls(program)

(* How many calls rank r has begun, and whether none of them is under way. *)
Begun(r) == dataCall[r] + call[r]
BetweenCalls(r) == dataPc[r] = "idle" /\ pc[r] = "idle"

NextIsData(r) == Begun(r) < Len(program) /\ IsData(program[Begun(r) + 1])
NextIsFd(r) == Begun(r) < Len(program) /\ ~IsData(program[Begun(r) + 1])

ExchangeData(r) ==
    /\ DataStep(r)
    /\ pc[r] = "idle"
    /\ BetweenCalls(r) => NextIsData(r)
    /\ UNCHANGED <<fdVars, program>>

PassFds(r) ==
    /\ Step(r)
    /\ dataPc[r] = "idle"
    /\ BetweenCalls(r) => NextIsFd(r)
    /\ UNCHANGED <<exchangeVars, program>>

BrokerStep(r) == ExchangeData(r) \/ PassFds(r)

BrokerNext == \E r \in Ranks : BrokerStep(r)

BrokerSpec == BrokerInit /\ [][BrokerNext]_brokerVars
BrokerFairSpec == BrokerSpec /\ \A r \in Ranks : WF_brokerVars(BrokerStep(r))

-------------------------------------------------------------------------------
(* Past the first sync of its call. *)
Inside(r) == dataPc[r] \notin {"idle", "sync1"} \/ pc[r] \notin {"idle", "sync1", "refused"}

(* A sync of one call is never taken for one of another: ranks that are    *)
(* past the first sync of their calls are in the same call, of the same    *)
(* kind, whichever calls follow each other and however far apart the ranks *)
(* run.                                                                    *)
SameCall ==
    \A r, s \in Ranks :
        Inside(r) /\ Inside(s) => dataCall[r] = dataCall[s] /\ call[r] = call[s]
===============================================================================
