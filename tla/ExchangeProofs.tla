---------------------------- MODULE ExchangeProofs ----------------------------
(***************************************************************************)
(* The calls of the broker, for every world size, every width of the       *)
(* barrier's generation and every program of calls: exchange_data,         *)
(* exchange_fds and broadcast_fd, in any order, over sockets of any length *)
(* of queue.                                                               *)
(*                                                                         *)
(* The barrier keeps the ranks within one sync of each other, so two of    *)
(* them are at the same sync of the program or at consecutive ones; no     *)
(* rank needs to be compared with the number of syncs it has made.         *)
(*                                                                         *)
(* Between two ranks a descriptor makes one way: it is still to be sent by *)
(* the one rank that passes it on, or is queued at its destination, or has *)
(* arrived there, and never two of these.  What a rank waits for is then a *)
(* matter of counting: as many different sources as it lacks.              *)
(*                                                                         *)
(* In exchange_data a rank that copies the slots is at its second sync, so *)
(* all others are in the same call and past their writes.                  *)
(***************************************************************************)
EXTENDS BrokerCalls, FiniteSetTheorems, TLAPS

PCs == {"idle", "sync1", "send", "recv", "after", "sync2", "threw", "refused"}

(* How many syncs of its current call rank r has entered, 0 after the last. *)
Stage(r) ==
    IF dataPc[r] \in {"sync1", "write", "wrote"} \/ pc[r] \in {"sync1", "send", "recv", "after", "threw"}
      THEN 1
      ELSE IF dataPc[r] \in {"sync2", "read"} THEN 2 ELSE 0

(* The sync after stage k of the (d + c)-th call of the program, d of them *)
(* data exchanges, is at stage l of a call with the numbers e and b.       *)
Following(d, c, k, e, b, l) ==
    \/ k = 0 /\ l = 1 /\ IF IsData(program[d + c + 1]) THEN e = d + 1 /\ b = c ELSE e = d /\ b = c + 1
    \/ k = 1 /\ l = (IF IsData(program[d + c]) THEN 2 ELSE 0) /\ e = d /\ b = c
    \/ k = 2 /\ l = 0 /\ e = d /\ b = c

SameSync(r, s) == dataCall[r] = dataCall[s] /\ call[r] = call[s] /\ Stage(r) = Stage(s)
NextSync(r, s) == Following(dataCall[r], call[r], Stage(r), dataCall[s], call[s], Stage(s))

(* Ranks that have entered as many syncs are at the same one, and a rank   *)
(* that has entered one more is at the next one.                           *)
Together ==
    \A r, s \in Ranks :
        /\ entered[s] = entered[r] => SameSync(r, s)
        /\ entered[s] = entered[r] + 1 => NextSync(r, s)

(* A rank is in one call, of the kind the program says.                    *)
Located(r) ==
    /\ dataPc[r] = "idle" \/ pc[r] = "idle"
    /\ inSync[r] <=> dataPc[r] \in {"sync1", "sync2", "sync3"} \/ pc[r] \in {"sync1", "sync2"}
    /\ dataPc[r] # "idle" => IsData(program[Begun(r)])
    /\ pc[r] \notin {"idle", "refused"} => ~IsData(program[Begun(r)])

PaceTypes ==
    /\ dataPc \in [Ranks -> DataPCs] /\ pc \in [Ranks -> PCs]
    /\ dataCall \in [Ranks -> Nat] /\ call \in [Ranks -> Nat]

PaceInv == PaceTypes /\ BarrierInv /\ Together /\ \A r \in Ranks : Located(r)

(* The sources that rank d is to hear of in call c, and the rank that      *)
(* sends d the descriptor of s.                                            *)
Due(c, d) == IF c.op = "exchange" THEN Ranks \ {d} ELSE {c.src} \ {d}
Carrier(c, d, s) == IF c.op = "exchange" /\ d # 0 THEN 0 ELSE s

Items(seq) == {seq[i] : i \in 1 .. Len(seq)}
Distinct(seq) == \A i, j \in 1 .. Len(seq) : seq[i] = seq[j] => i = j

(* Of each rank: what it has to send, what is queued for it, what it has.  *)
Pending(r) == IF pc[r] = "sync1" THEN Items(Sends(r)) ELSE Items(todo[r])
Queued(r) == {sock[r][i][1] : i \in 1 .. Len(sock[r])}
Have(r) == {s \in Ranks : dst_fds[r][s] # NoFd}

(* Rank 0 of an exchange relays what it has gathered.                      *)
Relays(r) == Exchanging(r) /\ r = 0

Counted(r) == pc[r] \notin {"idle", "refused"} => call[r] > 0

(* What a rank has is due to it and is what its source passed to this      *)
(* call; it is all that is due once the rank has received.                 *)
Holds(r) ==
    /\ \A s \in Ranks : dst_fds[r][s] \in {NoFd, <<s, call[r]>>}
    /\ call[r] > 0 => Have(r) \subseteq Due(Cur(r), r)
    /\ call[r] = 0 \/ pc[r] = "sync1" => Have(r) = {}
    /\ pc[r] \in {"send", "recv"} => got[r] = Cardinality(Have(r))
    /\ (call[r] > 0 /\ pc[r] \in {"after", "sync2", "idle", "refused"}) \/ (pc[r] = "send" /\ Relays(r)) =>
           Have(r) = Due(Cur(r), r)

(* Its own descriptor is open until it has been sent.                      *)
OwnOpen(r) ==
    /\ pc[r] \in {"sync1", "send", "threw"} \/ (pc[r] = "recv" /\ Relays(r))
    /\ Exchanging(r) \/ (IsSource(r) /\ Cur(r).valid)
Keeps(r) ==
    open[r] = {<<s, call[r]>> : s \in Have(r)} \cup IF OwnOpen(r) THEN {<<r, call[r]>>} ELSE {}

(* The datagrams at a rank: each names a source that is due and that the   *)
(* rank has not heard of, no two the same.                                 *)
Sockets(d) ==
    /\ \A i \in 1 .. Len(sock[d]) :
           /\ sock[d][i][2] = <<sock[d][i][1], call[d]>>
           /\ sock[d][i][1] \in Due(Cur(d), d) \ Have(d)
    /\ \A i, j \in 1 .. Len(sock[d]) : sock[d][i][1] = sock[d][j][1] => i = j
    /\ call[d] = 0 => sock[d] = <<>>

(* What is still to be sent is neither queued nor received.                *)
Unsent(r) ==
    /\ Distinct(todo[r])
    /\ pc[r] \in {"send", "threw"} \/ (pc[r] = "recv" /\ Relays(r)) \/ todo[r] = <<>>
    /\ \A item \in Pending(r) :
           LET d == item[1]
               s == item[2]
           IN  /\ d \in Ranks /\ s \in Due(Cur(r), d) /\ r = Carrier(Cur(r), d, s)
               /\ s \notin Queued(d)
               /\ call[d] = call[r] => s \notin Have(d)

(* A rank that is a call behind has nothing coming to those ahead of it.   *)
Fence == \A r, d \in Ranks : call[r] < call[d] => sock[d] = <<>>

RankInv(r) == Counted(r) /\ Holds(r) /\ Keeps(r) /\ Sockets(r) /\ Unsent(r)

FdInv ==
    /\ TypeOK /\ PaceInv /\ Fence
    /\ \A r \in Ranks : RankInv(r)

(* exchange_data: a rank's slot holds the current call once written, and   *)
(* dst the current call as far as copied.                                  *)
Copied(r) ==
    /\ dataPc[r] \notin {"sync1", "write"} => data[r] = dataCall[r]
    /\ dataPc[r] = "read" => \A s \in Ranks : s < next[r] => dst[r][s] = dataCall[r]
    /\ dataPc[r] \in {"sync3", "idle"} => \A s \in Ranks : dst[r][s] = dataCall[r]

ExchangeInv == DataTypeOK /\ PaceInv /\ \A r \in Ranks : Copied(r)
-------------------------------------------------------------------------------
(* The generation barrier alone, whose critical sections are embedded in   *)
(* the steps of this module.                                               *)

(* There are N ranks, a finite set. *)
LEMMA RanksFinite == IsFiniteSet(Ranks) /\ Cardinality(Ranks) = N
  BY NAssumption, FS_Interval DEF Ranks

(* A sync's generation never equals its successor, even where it wraps. *)
LEMMA NextGenFact ==
  ASSUME NEW g \in 0 .. MaxGen
  PROVE  NextGen(g) \in 0 .. MaxGen /\ NextGen(g) # g
  BY MaxGenAssumption DEF NextGen

(* The counter starts at zero with nobody waiting. *)
LEMMA BarrierInitInv == BarrierInit => BarrierInv
  <1> SUFFICES ASSUME BarrierInit PROVE BarrierInv
    OBVIOUS
  <1>1. Waiting = {}
    BY DEF BarrierInit, Waiting
  <1>2. BarrierTypeOK
    BY NAssumption, MaxGenAssumption DEF BarrierInit, BarrierTypeOK
  <1>3. CountIsWaiting
    BY <1>1, FS_EmptySet DEF BarrierInit, CountIsWaiting
  <1>4. InStep
    BY <1>1 DEF BarrierInit, InStep
  <1> QED
    BY <1>2, <1>3, <1>4 DEF BarrierInv

(* An arrival keeps the counter equal to the number of waiting ranks; the  *)
(* last one finds all the others waiting and releases them together.       *)
LEMMA SyncEnterInv ==
  ASSUME BarrierInv, NEW r \in Ranks, SyncEnter(r)
  PROVE  BarrierInv'
  <1> USE DEF BarrierInv
  <1>1. r \notin Waiting /\ Waiting \subseteq Ranks \ {r}
    BY DEF SyncEnter, Waiting
  <1>2. IsFiniteSet(Waiting) /\ Cardinality(Waiting) \in Nat
    BY RanksFinite, FS_Subset, FS_CardinalityType DEF Waiting
  <1>3. CASE barrier_count + 1 = N
    <2>1. Cardinality(Ranks \ {r}) = N - 1 /\ IsFiniteSet(Ranks \ {r})
      BY RanksFinite, FS_RemoveElement
    <2>2. Waiting = Ranks \ {r}
      BY <1>1, <1>3, <2>1, NAssumption, FS_Subset
         DEF CountIsWaiting, BarrierTypeOK
    <2>3. \A s \in Ranks : generation'[s] = barrier_generation
      BY <2>2 DEF SyncEnter, Waiting, BarrierTypeOK
    <2>4. BarrierTypeOK'
      BY <1>3, NAssumption, NextGenFact DEF SyncEnter, BarrierTypeOK
    <2>5. barrier_generation' # barrier_generation
      BY <1>3, NextGenFact DEF SyncEnter, BarrierTypeOK
    <2>6. Waiting' = {}
      BY <2>3, <2>5 DEF Waiting
    <2>7. CountIsWaiting'
      BY <1>3, <2>6, FS_EmptySet DEF SyncEnter, CountIsWaiting
    <2>8. InStep'
      <3> SUFFICES ASSUME NEW p \in Ranks, NEW q \in Ranks
                   PROVE  entered'[p] - entered'[q] = 0
        BY <2>6 DEF InStep
      <3>1. entered[p] - entered[r] = IF p = r THEN 0 ELSE 1
        BY <2>2 DEF InStep, BarrierTypeOK
      <3>2. entered[q] - entered[r] = IF q = r THEN 0 ELSE 1
        BY <2>2 DEF InStep, BarrierTypeOK
      <3> QED
        BY <3>1, <3>2 DEF SyncEnter, BarrierTypeOK
    <2> QED
      BY <2>4, <2>7, <2>8
  <1>4. CASE barrier_count + 1 # N
    <2>1. BarrierTypeOK'
      BY <1>4, NAssumption DEF SyncEnter, BarrierTypeOK
    <2>2. Waiting' = Waiting \cup {r}
      BY <1>4 DEF SyncEnter, Waiting, BarrierTypeOK
    <2>3. CountIsWaiting'
      BY <1>1, <1>2, <1>4, <2>2, FS_AddElement DEF SyncEnter, CountIsWaiting
    <2>4. InStep'
      BY <1>1, <2>2 DEF SyncEnter, InStep, BarrierTypeOK
    <2> QED
      BY <2>1, <2>3, <2>4
  <1> QED
    BY <1>3, <1>4

(* Leaving does not change who is waiting in the current round. *)
LEMMA SyncLeaveInv ==
  ASSUME BarrierInv, NEW r \in Ranks, SyncLeave(r)
  PROVE  BarrierInv'
  <1> USE DEF BarrierInv
  <1>1. Waiting' = Waiting
    BY DEF SyncLeave, Waiting, BarrierTypeOK
  <1>2. BarrierTypeOK'
    BY DEF SyncLeave, BarrierTypeOK
  <1> QED
    BY <1>1, <1>2 DEF SyncLeave, CountIsWaiting, InStep

(* A step that touches nothing of the barrier. *)
LEMMA BarrierStutter ==
  ASSUME BarrierInv, UNCHANGED barrierVars
  PROVE  BarrierInv'
  BY DEF barrierVars, BarrierInv, BarrierTypeOK, CountIsWaiting, InStep, Waiting

-------------------------------------------------------------------------------
(* The calls of a program over the barrier.                                *)

(* Two ranks are at the same sync of the program or at consecutive ones,   *)
(* the one ahead waiting.                                                  *)
LEMMA NeighbourSyncs ==
  ASSUME PaceInv, NEW r \in Ranks, NEW s \in Ranks
  PROVE  \/ SameSync(r, s)
         \/ NextSync(r, s) /\ inSync[s]
         \/ NextSync(s, r) /\ inSync[r]
  BY DEF PaceInv, Together, BarrierInv, InStep, Waiting, BarrierTypeOK

(* A step leaves everything of the other ranks alone.                      *)
LEMMA StepsAreLocal ==
  ASSUME PaceInv, NEW r \in Ranks, BrokerStep(r), NEW s \in Ranks, s # r
  PROVE  /\ dataPc'[s] = dataPc[s] /\ dataCall'[s] = dataCall[s]
         /\ pc'[s] = pc[s] /\ call'[s] = call[s]
         /\ entered'[s] = entered[s] /\ inSync'[s] = inSync[s]
<1>1. /\ PaceTypes /\ BarrierTypeOK
  BY DEF PaceInv, BarrierInv
<1>2. SyncEnter(r) \/ SyncLeave(r) \/ UNCHANGED barrierVars
  BY DEF BrokerStep, ExchangeData, PassFds, DataStep, BeginData, LeaveFirstData, WriteSlot,
         EnterSecondData, LeaveSecondData, ReadSlot, EnterThird, LeaveThird,
         Step, Refuse, Begin, LeaveFirst, Send, Sent, Recv, Received, EnterSecond, LeaveSecond
<1>3. entered'[s] = entered[s] /\ inSync'[s] = inSync[s]
  BY <1>1, <1>2 DEF BarrierTypeOK, SyncEnter, SyncLeave, barrierVars
<1>4. CASE ExchangeData(r)
  BY <1>1, <1>3, <1>4
     DEF PaceTypes, ExchangeData, DataStep, DataGoto, BeginData, LeaveFirstData, WriteSlot,
         EnterSecondData, LeaveSecondData, ReadSlot, EnterThird, LeaveThird, fdVars
<1>5. CASE PassFds(r)
  <2>1. UNCHANGED <<dataPc, dataCall>>
    BY <1>5 DEF PassFds, exchangeVars
  <2>2. pc'[s] = pc[s]
    BY <1>1, <1>5
       DEF PaceTypes, PassFds, Step, Goto, Refuse, Begin, LeaveFirst, Send, Sent, Recv, Received,
           EnterSecond, LeaveSecond
  <2>3. call'[s] = call[s]
    BY <1>1, <1>5
       DEF PaceTypes, PassFds, Step, Refuse, Begin, LeaveFirst, Send, Sent, Recv, Received,
           EnterSecond, LeaveSecond
  <2>. QED  BY <1>3, <2>1, <2>2, <2>3
<1>. QED  BY <1>4, <1>5 DEF BrokerStep

(* What a step of rank r does to its own place: it stays at its sync, or   *)
(* enters the next one.                                                    *)
Moves(r) ==
    /\ program' = program
    /\ PaceTypes'
    /\ Located(r)'
    /\ \/ /\ entered' = entered
          /\ dataCall'[r] = dataCall[r] /\ call'[r] = call[r] /\ Stage(r)' = Stage(r)
       \/ /\ SyncEnter(r)
          /\ Following(dataCall[r], call[r], Stage(r), dataCall'[r], call'[r], Stage(r)')

LEMMA DataMoves ==
  ASSUME PaceInv, NEW r \in Ranks, ExchangeData(r)
  PROVE  Moves(r)
<1>1. PaceTypes /\ BarrierTypeOK /\ Located(r) /\ pc[r] = "idle"
  BY DEF PaceInv, BarrierInv, ExchangeData
<1>2. /\ program' = program /\ pc' = pc /\ call' = call
  BY DEF ExchangeData, fdVars
<1>3. PaceTypes'
  <2>1. dataPc' \in [Ranks -> DataPCs] /\ dataCall' \in [Ranks -> Nat]
    BY <1>1 DEF PaceTypes, DataPCs, ExchangeData, DataStep, DataGoto, BeginData, LeaveFirstData,
                WriteSlot, EnterSecondData, LeaveSecondData, ReadSlot, EnterThird, LeaveThird
  <2>. QED  BY <1>1, <1>2, <2>1 DEF PaceTypes
<1>. USE <1>1, <1>2, <1>3 DEF PaceTypes, BarrierTypeOK, Moves, Located, Stage, Following, SameSync, Begun
<1>4. CASE BeginData(r)
  <2>1. /\ dataPc[r] = "idle" /\ dataPc'[r] = "sync1" /\ dataCall'[r] = dataCall[r] + 1
        /\ inSync'[r] /\ SyncEnter(r)
    BY <1>4 DEF BeginData, DataGoto, SyncEnter
  <2>2. IsData(program[dataCall[r] + call[r] + 1])
    BY <2>1 DEF ExchangeData, BetweenCalls, NextIsData
  <2>3. dataCall[r] + 1 + call[r] = dataCall[r] + call[r] + 1
    OBVIOUS
  <2>. QED  BY <2>1, <2>2, <2>3
<1>5. CASE LeaveFirstData(r)
  BY <1>5 DEF LeaveFirstData, DataGoto, SyncLeave
<1>6. CASE WriteSlot(r)
  BY <1>6 DEF WriteSlot, DataGoto, barrierVars
<1>7. CASE EnterSecondData(r)
  BY <1>7 DEF EnterSecondData, DataGoto, SyncEnter
<1>8. CASE LeaveSecondData(r)
  BY <1>8 DEF LeaveSecondData, DataGoto, SyncLeave
<1>9. CASE ReadSlot(r)
  BY <1>9 DEF ReadSlot, barrierVars
<1>10. CASE EnterThird(r)
  BY <1>10 DEF EnterThird, DataGoto, SyncEnter
<1>11. CASE LeaveThird(r)
  BY <1>11 DEF LeaveThird, DataGoto, SyncLeave
<1>. QED  BY <1>4, <1>5, <1>6, <1>7, <1>8, <1>9, <1>10, <1>11 DEF ExchangeData, DataStep

LEMMA FdMoves ==
  ASSUME PaceInv, NEW r \in Ranks, PassFds(r)
  PROVE  Moves(r)
<1>1. PaceTypes /\ BarrierTypeOK /\ Located(r) /\ dataPc[r] = "idle"
  BY DEF PaceInv, BarrierInv, PassFds
<1>2. /\ program' = program /\ dataPc' = dataPc /\ dataCall' = dataCall
  BY DEF PassFds, exchangeVars
<1>3. PaceTypes'
  <2>1. pc' \in [Ranks -> PCs]
    BY <1>1 DEF PaceTypes, PCs, PassFds, Step, Goto, Refuse, Begin, LeaveFirst, Send, Sent, Recv,
                Received, EnterSecond, LeaveSecond
  <2>2. call' \in [Ranks -> Nat]
    <3>1. call \in [Ranks -> Nat]
      BY <1>1 DEF PaceTypes
    <3>2. call' = call \/ call' = [call EXCEPT ![r] = @ + 1]
      BY DEF PassFds, Step, Refuse, Begin, LeaveFirst, Send, Sent, Recv,
             Received, EnterSecond, LeaveSecond
    <3>. QED  BY <3>1, <3>2
  <2>. QED  BY <1>1, <1>2, <2>1, <2>2 DEF PaceTypes
<1>. USE <1>1, <1>2, <1>3 DEF PaceTypes, BarrierTypeOK, Moves, Located, Stage, Following, SameSync, Begun
<1>4. CASE Refuse(r)
  BY <1>4 DEF Refuse, Goto, barrierVars
<1>5. CASE Begin(r)
  <2>1. /\ pc[r] = "idle" /\ pc'[r] = "sync1" /\ call'[r] = call[r] + 1
        /\ inSync'[r] /\ SyncEnter(r)
    BY <1>5 DEF Begin, Goto, SyncEnter
  <2>2. ~IsData(program[dataCall[r] + call[r] + 1])
    BY <2>1 DEF PassFds, BetweenCalls, NextIsFd
  <2>3. dataCall[r] + (call[r] + 1) = dataCall[r] + call[r] + 1
    OBVIOUS
  <2>. QED  BY <2>1, <2>2, <2>3
<1>6. CASE LeaveFirst(r)
  <2>1. /\ pc[r] = "sync1" /\ pc'[r] \in {"send", "recv", "threw"} /\ SyncLeave(r) /\ call' = call
    BY <1>6 DEF LeaveFirst
  <2>. QED  BY <2>1 DEF SyncLeave
<1>7. CASE Send(r)
  <2>1. UNCHANGED <<barrierVars, pc, call>>
    BY <1>7 DEF Send
  <2>. QED  BY <2>1 DEF barrierVars
<1>8. CASE Sent(r)
  <2>1. pc[r] = "send" /\ pc'[r] \in {"after", "recv"} /\ UNCHANGED <<barrierVars, call>>
    BY <1>8 DEF Sent
  <2>. QED  BY <2>1 DEF barrierVars
<1>9. CASE Recv(r)
  <2>1. pc[r] = "recv" /\ pc'[r] \in {"recv", "threw"} /\ UNCHANGED <<barrierVars, call>>
    BY <1>9 DEF Recv
  <2>. QED  BY <2>1 DEF barrierVars
<1>10. CASE Received(r)
  <2>1. pc[r] = "recv" /\ pc'[r] \in {"send", "after"} /\ UNCHANGED <<barrierVars, call>>
    BY <1>10 DEF Received, Goto
  <2>. QED  BY <2>1 DEF barrierVars
<1>11. CASE EnterSecond(r)
  BY <1>11 DEF EnterSecond, Goto, SyncEnter
<1>12. CASE LeaveSecond(r)
  BY <1>12 DEF LeaveSecond, Goto, SyncLeave
<1>. QED  BY <1>4, <1>5, <1>6, <1>7, <1>8, <1>9, <1>10, <1>11, <1>12 DEF PassFds, Step

(* A rank that enters a sync is outside of it, so nobody is behind it: it  *)
(* joins those that are one ahead.                                         *)
LEMMA PaceKept ==
  ASSUME PaceInv, NEW r \in Ranks, BrokerStep(r)
  PROVE  PaceInv'
<1>1. Moves(r)
  BY DataMoves, FdMoves DEF BrokerStep
<1>2. BarrierInv'
  BY SyncEnterInv, SyncLeaveInv, BarrierStutter
     DEF PaceInv, BrokerStep, ExchangeData, PassFds, DataStep, BeginData, LeaveFirstData, WriteSlot,
         EnterSecondData, LeaveSecondData, ReadSlot, EnterThird, LeaveThird,
         Step, Refuse, Begin, LeaveFirst, Send, Sent, Recv, Received, EnterSecond, LeaveSecond
<1>3. ASSUME NEW s \in Ranks, s # r
      PROVE  /\ entered'[s] = entered[s] /\ dataCall'[s] = dataCall[s] /\ call'[s] = call[s]
             /\ Stage(s)' = Stage(s) /\ Located(s)'
  <2>1. /\ dataPc'[s] = dataPc[s] /\ dataCall'[s] = dataCall[s]
        /\ pc'[s] = pc[s] /\ call'[s] = call[s]
        /\ entered'[s] = entered[s] /\ inSync'[s] = inSync[s]
    BY <1>3, StepsAreLocal
  <2>. QED  BY <1>1, <2>1 DEF PaceInv, Moves, Located, Stage, Begun
<1>4. Together'
  <2>. SUFFICES ASSUME NEW p \in Ranks, NEW q \in Ranks
                PROVE  /\ entered'[q] = entered'[p] => SameSync(p, q)'
                       /\ entered'[q] = entered'[p] + 1 => NextSync(p, q)'
    BY DEF Together
  <2>1. CASE entered' = entered
    <3>1. /\ dataCall'[r] = dataCall[r] /\ call'[r] = call[r] /\ Stage(r)' = Stage(r)
          /\ program' = program
      BY <1>1, <2>1 DEF Moves, SyncEnter, PaceInv, BarrierInv, BarrierTypeOK
    <3>. QED  BY <1>3, <2>1, <3>1 DEF PaceInv, Together, SameSync, NextSync, Following
  <2>2. CASE SyncEnter(r) /\ Following(dataCall[r], call[r], Stage(r), dataCall'[r], call'[r], Stage(r)')
    <3>1. ~inSync[r] /\ entered'[r] = entered[r] + 1 /\ \A s \in Ranks : entered[s] \in Nat
      BY <2>2 DEF SyncEnter, PaceInv, BarrierInv, BarrierTypeOK
    <3>2. \A s \in Ranks : entered[s] = entered[r] \/ entered[s] = entered[r] + 1
      BY <3>1 DEF PaceInv, BarrierInv, InStep, Waiting, BarrierTypeOK
    <3>3. program' = program
      BY <1>1 DEF Moves
    <3>4. CASE p = r /\ q = r
      BY <3>1, <3>4 DEF SameSync
    <3>5. CASE p = r /\ q # r
      <4>1. entered'[q] = entered[q] /\ entered'[q] # entered'[p] + 1
        BY <1>3, <3>1, <3>2, <3>5
      <4>2. ASSUME entered[q] = entered[r] + 1 PROVE SameSync(p, q)'
        <5>1. NextSync(r, q)
          BY <4>2 DEF PaceInv, Together
        <5>. QED  BY <1>3, <2>2, <3>5, <5>1 DEF NextSync, SameSync, Following
      <4>. QED  BY <3>1, <3>5, <4>1, <4>2
    <3>6. CASE p # r /\ q = r
      <4>1. entered'[p] = entered[p]
        BY <1>3, <3>6
      <4>2. ASSUME entered[p] = entered[r] + 1 PROVE SameSync(p, q)'
        <5>1. NextSync(r, p)
          BY <4>2 DEF PaceInv, Together
        <5>. QED  BY <1>3, <2>2, <3>6, <5>1 DEF NextSync, SameSync, Following
      <4>3. ASSUME entered[p] = entered[r] PROVE NextSync(p, q)'
        <5>1. SameSync(r, p)
          BY <4>3 DEF PaceInv, Together
        <5>. QED  BY <1>3, <2>2, <3>3, <3>6, <5>1 DEF NextSync, SameSync, Following
      <4>. QED  BY <3>1, <3>2, <3>6, <4>1, <4>2, <4>3
    <3>7. CASE p # r /\ q # r
      BY <1>3, <3>3, <3>7 DEF PaceInv, Together, SameSync, NextSync, Following
    <3>. QED  BY <3>4, <3>5, <3>6, <3>7
  <2>. QED  BY <1>1, <2>1, <2>2 DEF Moves
<1>5. \A s \in Ranks : Located(s)'
  BY <1>1, <1>3 DEF Moves
<1>. QED  BY <1>1, <1>2, <1>4, <1>5 DEF PaceInv, Moves

LEMMA PaceInit == BrokerInit => PaceInv
<1>. SUFFICES ASSUME BrokerInit PROVE PaceInv
  OBVIOUS
<1>1. BarrierInv
  BY BarrierInitInv DEF BrokerInit, Init
<1>2. PaceTypes
  BY DEF BrokerInit, DataInit, Init, PaceTypes, DataPCs, PCs
<1>3. \A r \in Ranks : /\ dataPc[r] = "idle" /\ pc[r] = "idle" /\ dataCall[r] = 0 /\ call[r] = 0
                       /\ ~inSync[r] /\ entered[r] = 0
  BY DEF BrokerInit, DataInit, Init, BarrierInit
<1>4. Together
  BY <1>3 DEF Together, SameSync, Stage
<1>5. \A r \in Ranks : Located(r)
  BY <1>3 DEF Located
<1>. QED  BY <1>1, <1>2, <1>4, <1>5 DEF PaceInv

LEMMA PaceNext ==
  ASSUME PaceInv, [BrokerNext]_brokerVars
  PROVE  PaceInv'
<1>1. CASE UNCHANGED brokerVars
  <2>1. BarrierInv'
    BY <1>1, BarrierStutter DEF brokerVars, PaceInv
  <2>. QED
    BY <1>1, <2>1 DEF brokerVars, barrierVars, exchangeVars, fdVars, PaceInv, PaceTypes, Together,
                      SameSync, NextSync, Following, Stage, Located, Begun
<1>. QED  BY <1>1, PaceKept DEF BrokerNext

(* What all calls rest on: ranks that have entered as many syncs are at    *)
(* the same sync of the program, and one that has entered one more is at   *)
(* the next one.                                                           *)
THEOREM RanksKeepPace == BrokerSpec => []PaceInv
<1>1. BrokerInit => PaceInv
  BY PaceInit
<1>2. PaceInv /\ [BrokerNext]_brokerVars => PaceInv'
  BY PaceNext
<1>. QED  BY <1>1, <1>2, PTL DEF BrokerSpec

(* Ranks that are past the first sync of their calls are in the same call. *)
THEOREM CallsDoNotMix == BrokerSpec => []SameCall
<1>1. PaceInv => SameCall
  <2>. SUFFICES ASSUME PaceInv, NEW r \in Ranks, NEW s \in Ranks, Inside(r), Inside(s)
                PROVE  dataCall[r] = dataCall[s] /\ call[r] = call[s]
    BY DEF SameCall
  <2>1. Located(r) /\ Located(s) /\ PaceTypes
    BY DEF PaceInv
  <2>2. ASSUME NEW p \in Ranks, NEW q \in Ranks, Located(q), Inside(q), NextSync(p, q), inSync[q]
        PROVE  dataCall[p] = dataCall[q] /\ call[p] = call[q]
    <3>1. Stage(q) # 1
      BY <2>1, <2>2 DEF Inside, Located, Stage, PaceTypes, PCs, DataPCs
    <3>. QED  BY <2>2, <3>1 DEF NextSync, Following
  <2>. QED  BY <2>1, <2>2, NeighbourSyncs DEF SameSync
<1>. QED  BY <1>1, RanksKeepPace, PTL

(* Every sync of the calls is a step of the abstract barrier: no call of   *)
(* sync returns before every rank has made its own.                        *)
THEOREM SyncImplementsBarrier == BrokerSpec => ImplementsBarrier
<1>1. BrokerInit => Abstract!AInit
  BY DEF BrokerInit, Init, BarrierInit, Abstract!AInit, left
<1>2. ASSUME PaceInv, [BrokerNext]_brokerVars
      PROVE  [Abstract!ANext]_<<entered, left>>
  <2>1. BarrierTypeOK /\ BarrierInv
    BY <1>2 DEF PaceInv, BarrierInv
  <2>2. ASSUME NEW r \in Ranks, SyncEnter(r) PROVE Abstract!ACall(r)
    BY <2>1, <2>2 DEF BarrierTypeOK, SyncEnter, Abstract!ACall, left
  <2>3. ASSUME NEW r \in Ranks, SyncLeave(r) PROVE Abstract!AReturn(r)
    <3>1. \A s \in Ranks : entered[s] >= entered[r]
      BY <2>1, <2>3 DEF BarrierInv, InStep, Waiting, BarrierTypeOK, SyncLeave
    <3>2. left[r] = entered[r] - 1 /\ entered[r] \in Nat
      BY <2>1, <2>3 DEF BarrierTypeOK, SyncLeave, left
    <3>3. ASSUME NEW s \in Ranks
          PROVE  left'[s] = IF s = r THEN left[r] + 1 ELSE left[s]
      BY <2>1, <2>3, <3>2 DEF BarrierTypeOK, SyncLeave, left
    <3>4. left' = [left EXCEPT ![r] = left[r] + 1]
      BY <3>3 DEF left
    <3>. QED  BY <2>3, <3>1, <3>2, <3>4 DEF SyncLeave, Abstract!AReturn
  <2>4. CASE UNCHANGED barrierVars
    BY <2>4 DEF barrierVars, left
  <2>5. UNCHANGED barrierVars \/ \E r \in Ranks : SyncEnter(r) \/ SyncLeave(r)
    BY <1>2 DEF BrokerNext, brokerVars, BrokerStep, ExchangeData, PassFds,
                DataStep, BeginData, LeaveFirstData, WriteSlot, EnterSecondData, LeaveSecondData,
                ReadSlot, EnterThird, LeaveThird,
                Step, Refuse, Begin, LeaveFirst, Send, Sent, Recv, Received, EnterSecond, LeaveSecond
  <2>. QED  BY <2>2, <2>3, <2>4, <2>5 DEF Abstract!ANext
<1>. QED
  BY <1>1, <1>2, RanksKeepPace, PTL DEF BrokerSpec, ImplementsBarrier, Abstract!ASpec, Abstract!avars
-------------------------------------------------------------------------------
(* The relay loop's counters: the sends are numbered by both of them.      *)
LEMMA LoopCounters ==
  ASSUME NEW m \in Nat, m # 0, NEW k \in 0 .. m * m - 1
  PROVE  k \div m \in 0 .. m - 1 /\ k % m \in 0 .. m - 1
  <1>1. k \in Nat /\ k < m * m
    OBVIOUS
  <1>2. k \div m \in Int /\ k \div m >= 0 /\ k % m \in 0 .. m - 1
    BY <1>1
  <1>3. k \div m < m
    BY <1>1
  <1>. QED
    BY <1>2, <1>3

LEMMA LoopNumbers ==
  ASSUME NEW m \in Nat, m # 0, NEW k \in Nat, NEW l \in Nat,
         k \div m = l \div m, k % m = l % m
  PROVE  k = l
  OBVIOUS

(* Each send of the loop has a destination and another rank's descriptor,  *)
(* and no two are the same.                                                *)
LEMMA RelayFacts ==
  /\ \A k \in 0 .. (N - 1) * (N - 1) - 1 :
         /\ Relay[k] \in Ranks \X Ranks
         /\ Relay[k][1] \in Ranks \ {0} /\ Relay[k][2] \in Ranks \ {Relay[k][1]}
  /\ \A k, l \in 0 .. (N - 1) * (N - 1) - 1 : Relay[k] = Relay[l] => k = l
  <1>. DEFINE m == N - 1
              D == 0 .. m * m - 1
  <1>1. m \in Nat /\ Ranks = 0 .. m
    BY NAssumption DEF Ranks
  <1>2. ASSUME NEW k \in D PROVE m # 0
    BY <1>1, <1>2
  <1>3. ASSUME NEW k \in D
        PROVE  k \in Nat /\ k \div m \in 0 .. m - 1 /\ k % m \in 0 .. m - 1
    <2>. HIDE DEF m
    <2>1. k \in Nat
      BY <1>1
    <2>. QED
      BY <1>1, <1>2, <2>1, LoopCounters
  <1>4. ASSUME NEW k \in D
        PROVE  /\ Relay[k] = <<Relay[k][1], Relay[k][2]>>
               /\ Relay[k][1] = 1 + k \div m
               /\ Relay[k][2] = IF k % m < 1 + k \div m THEN k % m ELSE (k % m) + 1
    BY DEF Relay
  <1>. HIDE DEF D
  <1>5. ASSUME NEW k \in D
        PROVE  /\ Relay[k] \in Ranks \X Ranks
               /\ Relay[k][1] \in Ranks \ {0} /\ Relay[k][2] \in Ranks \ {Relay[k][1]}
    <2>. DEFINE q == k \div m
                i == k % m
    <2>1. q \in 0 .. m - 1 /\ i \in 0 .. m - 1
      BY <1>3
    <2>2. Relay[k][1] = 1 + q /\ Relay[k][2] = IF i < 1 + q THEN i ELSE i + 1
      BY <1>4
    <2>. HIDE DEF q, i
    <2>3. Relay[k][1] \in Ranks \ {0} /\ Relay[k][2] \in Ranks \ {Relay[k][1]}
      BY <1>1, <2>1, <2>2
    <2>4. Relay[k] = <<Relay[k][1], Relay[k][2]>>
      BY <1>4
    <2>. QED
      BY <2>3, <2>4
  <1>6. ASSUME NEW k \in D, NEW l \in D, Relay[k] = Relay[l] PROVE k = l
    <2>. DEFINE q == k \div m
                i == k % m
                p == l \div m
                j == l % m
    <2>1. /\ q \in 0 .. m - 1 /\ i \in 0 .. m - 1
          /\ p \in 0 .. m - 1 /\ j \in 0 .. m - 1
      BY <1>3
    <2>2. /\ Relay[k][1] = 1 + q /\ Relay[k][2] = IF i < 1 + q THEN i ELSE i + 1
          /\ Relay[l][1] = 1 + p /\ Relay[l][2] = IF j < 1 + p THEN j ELSE j + 1
      BY <1>4
    <2>. HIDE DEF q, i, p, j
    <2>3. q = p
      BY <1>1, <1>6, <2>1, <2>2
    <2>4. i = j
      BY <1>1, <1>6, <2>1, <2>2, <2>3
    <2>. QED
      BY <1>1, <1>2, <1>3, <2>3, <2>4, LoopNumbers DEF q, i, p, j
  <1>. QED
    BY <1>4, <1>5, <1>6 DEF D

(* The call that a rank is in. *)
LEMMA CurIsCall ==
  ASSUME TypeOK, NEW r \in Ranks, call[r] > 0
  PROVE  Cur(r) \in Calls /\ call[r] \in 1 .. Len(script)
  BY ScriptsAssumption DEF TypeOK, Cur

(* What a rank sends in a call: to others, what is due to them from it.    *)
SendsIn(c, r) ==
    IF c.op = "exchange"
      THEN IF r = 0 THEN [k \in 1 .. (N - 1) * (N - 1) |-> Relay[k - 1]] ELSE <<<<0, r>>>>
      ELSE IF c.op = "broadcast" /\ c.src = r
             THEN [k \in 1 .. N - 1 |-> <<IF k - 1 < r THEN k - 1 ELSE k, r>>]
             ELSE <<>>

(* No two of them are the same, and each is due from this rank.            *)
LEMMA SendsFacts ==
  ASSUME NEW r \in Ranks, NEW c \in Calls
  PROVE  /\ SendsIn(c, r) \in Seq(Ranks \X Ranks) /\ Distinct(SendsIn(c, r))
         /\ \A item \in Items(SendsIn(c, r)) :
                /\ item[1] \in Ranks /\ item[2] \in Due(c, item[1])
                /\ r = Carrier(c, item[1], item[2])
  <1>1. N \in Nat /\ N # 0 /\ Ranks = 0 .. N - 1 /\ 0 \in Ranks
    BY NAssumption DEF Ranks
  <1>2. CASE c.op = "exchange" /\ r = 0
    <2>. DEFINE M == (N - 1) * (N - 1)
    <2>1. M \in Nat
      BY <1>1
    <2>2. SendsIn(c, r) = [k \in 1 .. M |-> Relay[k - 1]]
      BY <1>2 DEF SendsIn
    <2>. HIDE DEF M
    <2>3. \A k \in 1 .. M : k - 1 \in 0 .. M - 1
      BY <2>1
    <2>4. /\ \A k \in 0 .. M - 1 :
                 /\ Relay[k] \in Ranks \X Ranks
                 /\ Relay[k][1] \in Ranks \ {0} /\ Relay[k][2] \in Ranks \ {Relay[k][1]}
          /\ \A k, l \in 0 .. M - 1 : Relay[k] = Relay[l] => k = l
      BY RelayFacts DEF M
    <2>. DEFINE at(k) == Relay[k - 1]
    <2>a. \A k \in 1 .. M : at(k) \in Ranks \X Ranks
      BY <2>3, <2>4
    <2>b. SendsIn(c, r) = [k \in 1 .. M |-> at(k)]
      BY <2>2
    <2>5. SendsIn(c, r) \in Seq(Ranks \X Ranks) /\ Len(SendsIn(c, r)) = M
      <3>. HIDE DEF at
      <3>. QED
        BY <2>1, <2>a, <2>b
    <2>6. Distinct(SendsIn(c, r))
      BY <2>1, <2>2, <2>3, <2>4, <2>5 DEF Distinct
    <2>7. ASSUME NEW item \in Items(SendsIn(c, r))
          PROVE  /\ item[1] \in Ranks /\ item[2] \in Due(c, item[1])
                 /\ r = Carrier(c, item[1], item[2])
      <3>1. PICK k \in 1 .. M : item = Relay[k - 1]
        BY <2>2, <2>5 DEF Items
      <3>. QED
        BY <1>2, <2>3, <2>4, <3>1 DEF Due, Carrier
    <2>. QED
      BY <2>5, <2>6, <2>7
  <1>3. CASE c.op = "exchange" /\ r # 0
    <2>1. SendsIn(c, r) = <<<<0, r>>>>
      BY <1>3 DEF SendsIn
    <2>. QED
      BY <1>1, <1>3, <2>1 DEF Distinct, Items, Due, Carrier
  <1>4. CASE c.op # "exchange" /\ c.op = "broadcast" /\ c.src = r
    <2>. DEFINE to(k) == IF k - 1 < r THEN k - 1 ELSE k
    <2>1. SendsIn(c, r) = [k \in 1 .. N - 1 |-> <<to(k), r>>]
      BY <1>4 DEF SendsIn
    <2>2. \A k \in 1 .. N - 1 : to(k) \in Ranks \ {r}
      BY <1>1
    <2>3. \A k, l \in 1 .. N - 1 : to(k) = to(l) => k = l
      BY <1>1
    <2>. HIDE DEF to
    <2>4. SendsIn(c, r) \in Seq(Ranks \X Ranks) /\ Len(SendsIn(c, r)) = N - 1
      BY <1>1, <2>1, <2>2
    <2>a. \A k \in 1 .. N - 1 : SendsIn(c, r)[k] = <<to(k), r>>
      BY <2>1
    <2>5. Distinct(SendsIn(c, r))
      BY <2>3, <2>4, <2>a DEF Distinct
    <2>6. \A item \in Items(SendsIn(c, r)) : item[1] \in Ranks \ {r} /\ item[2] = r
      BY <2>2, <2>4, <2>a DEF Items
    <2>. QED
      BY <1>4, <2>4, <2>5, <2>6 DEF Due, Carrier
  <1>5. CASE c.op # "exchange" /\ ~(c.op = "broadcast" /\ c.src = r)
    <2>1. SendsIn(c, r) = <<>>
      BY <1>5 DEF SendsIn
    <2>. QED
      BY <2>1 DEF Distinct, Items
  <1>. QED
    BY <1>2, <1>3, <1>4, <1>5

LEMMA SendsAreIn ==
  ASSUME NEW r \in Ranks
  PROVE  Sends(r) = SendsIn(Cur(r), r) /\ (Sends(r) = SendsIn(Cur(r), r))'
  BY DEF Sends, SendsIn, Exchanging, IsSource

(* A rank waits for as many datagrams as there are sources due to it.      *)
LEMMA ExpectedIsDue ==
  ASSUME NEW r \in Ranks, Cur(r) \in Calls
  PROVE  /\ IsFiniteSet(Due(Cur(r), r)) /\ Cardinality(Due(Cur(r), r)) = Expected(r)
         /\ Due(Cur(r), r) \subseteq Ranks \ {r}
  <1>1. CASE Exchanging(r)
    BY <1>1, RanksFinite, FS_RemoveElement DEF Due, Expected, Exchanging
  <1>2. CASE ~Exchanging(r) /\ IsSource(r)
    <2>1. Due(Cur(r), r) = {}
      BY <1>2 DEF Due, IsSource, Exchanging
    <2>. QED
      BY <1>2, <2>1, FS_EmptySet DEF Expected
  <1>3. CASE ~Exchanging(r) /\ ~IsSource(r)
    <2>1. Cur(r).op = "broadcast" /\ Cur(r).src \in Ranks \ {r}
      BY <1>3 DEF Calls, IsSource, Exchanging
    <2>2. Due(Cur(r), r) = {Cur(r).src}
      BY <2>1 DEF Due
    <2>. QED
      BY <1>3, <2>1, <2>2, FS_Singleton DEF Expected
  <1>. QED
    BY <1>1, <1>2, <1>3
-------------------------------------------------------------------------------
LEMMA RankTypes ==
  ASSUME TypeOK, NEW r \in Ranks
  PROVE  /\ pc[r] \in PCs /\ call[r] \in Nat /\ call[r] <= Len(script) /\ Len(script) \in Nat
         /\ sock[r] \in Seq(Ranks \X Fds) /\ todo[r] \in Seq(Ranks \X Ranks)
         /\ Len(sock[r]) \in Nat /\ Len(todo[r]) \in Nat
         /\ dst_fds[r] \in [Ranks -> Fds \cup {NoFd}] /\ got[r] \in 0 .. N
         /\ open[r] \in SUBSET Fds
  <1>1. Len(script) \in Nat
    BY ScriptsAssumption DEF TypeOK
  <1>2. sock[r] \in Seq(Ranks \X Fds) /\ todo[r] \in Seq(Ranks \X Ranks)
    BY DEF TypeOK
  <1>. QED
    BY <1>1, <1>2 DEF TypeOK, PCs

(* A rank between the two syncs of a call: every rank is in this call. *)
LEMMA AllInCall ==
  ASSUME FdInv, NEW r \in Ranks, pc[r] \in {"send", "recv", "after", "threw"}, NEW s \in Ranks
  PROVE  call[s] = call[r] /\ pc[s] \notin {"idle", "refused"}
  <1>1. PaceInv /\ PaceTypes /\ Located(r) /\ Located(s)
    BY DEF FdInv, PaceInv
  <1>2. Stage(r) = 1 /\ ~inSync[r] /\ ~IsData(program[Begun(r)]) /\ dataPc[r] = "idle"
    BY <1>1 DEF Stage, Located
  <1>3. CASE SameSync(r, s)
    <2>1. dataPc[s] = "idle"
      BY <1>1, <1>2, <1>3 DEF SameSync, Begun, Located
    <2>. QED
      BY <1>2, <1>3, <2>1 DEF SameSync, Stage
  <1>4. CASE NextSync(r, s) /\ inSync[s]
    <2>1. dataCall[s] = dataCall[r] /\ call[s] = call[r]
      BY <1>2, <1>4 DEF NextSync, Following
    <2>2. dataPc[s] = "idle"
      BY <1>1, <1>2, <2>1 DEF Begun, Located
    <2>. QED
      BY <1>1, <1>4, <2>1, <2>2 DEF Located
  <1>. QED
    BY <1>1, <1>2, <1>3, <1>4, NeighbourSyncs

(* A rank that is not in a descriptor call: nobody is between the syncs of *)
(* one.                                                                    *)
LEMMA NobodyInCall ==
  ASSUME FdInv, NEW r \in Ranks, pc[r] = "idle", NEW s \in Ranks
  PROVE  \/ pc[s] \in {"sync2", "idle", "refused"} /\ call[s] = call[r]
         \/ pc[s] = "sync1" /\ call[s] = call[r] + 1
  <1>1. PaceInv /\ PaceTypes /\ Located(r) /\ Located(s)
    BY DEF FdInv, PaceInv
  <1>2. /\ call[r] \in Nat /\ call[s] \in Nat /\ dataCall[r] \in Nat /\ dataCall[s] \in Nat
        /\ pc[s] \in PCs /\ dataPc[r] \in DataPCs /\ dataPc[s] \in DataPCs
    BY <1>1 DEF PaceTypes
  <1>3. Stage(r) # 0 => IsData(program[Begun(r)])
    BY <1>1 DEF Stage, Located
  <1>4. Stage(s) = 1 \/ pc[s] \in {"sync2", "idle", "refused"}
    BY <1>2 DEF Stage, PCs
  <1>5. CASE SameSync(r, s)
    BY <1>1, <1>3, <1>4, <1>5 DEF SameSync, Begun, Located
  <1>6. CASE NextSync(r, s) /\ inSync[s]
    <2>1. CASE Stage(s) # 1
      BY <1>4, <1>6, <2>1 DEF NextSync, Following
    <2>2. CASE Stage(s) = 1 /\ IsData(program[Begun(r) + 1])
      <3>1. dataCall[s] = dataCall[r] + 1 /\ call[s] = call[r]
        BY <1>6, <2>2 DEF NextSync, Following, Begun
      <3>2. Begun(s) = Begun(r) + 1
        BY <1>2, <3>1 DEF Begun
      <3>. QED
        BY <1>1, <2>2, <3>1, <3>2 DEF Located
    <2>3. CASE Stage(s) = 1 /\ ~IsData(program[Begun(r) + 1])
      <3>1. dataCall[s] = dataCall[r] /\ call[s] = call[r] + 1
        BY <1>6, <2>3 DEF NextSync, Following, Begun
      <3>2. Begun(s) = Begun(r) + 1
        BY <1>2, <3>1 DEF Begun
      <3>3. dataPc[s] = "idle"
        BY <1>1, <2>3, <3>2 DEF Located
      <3>4. pc[s] = "sync1"
        BY <1>1, <1>6, <2>3, <3>3 DEF Located, Stage
      <3>. QED
        BY <3>1, <3>4
    <2>. QED
      BY <2>1, <2>2, <2>3
  <1>7. CASE NextSync(s, r) /\ inSync[r]
    <2>1. dataPc[r] \in {"sync1", "sync2", "sync3"} /\ IsData(program[Begun(r)])
      BY <1>1, <1>7 DEF Located
    <2>2. CASE Stage(r) = 1
      <3>1. Stage(s) = 0
        BY <1>7, <2>2 DEF NextSync, Following
      <3>2. call[s] = call[r]
        <4>1. CASE ~IsData(program[dataCall[s] + call[s] + 1])
          <5>1. dataCall[r] = dataCall[s] /\ call[r] = call[s] + 1
            BY <1>7, <2>2, <3>1, <4>1 DEF NextSync, Following
          <5>2. Begun(r) = dataCall[s] + call[s] + 1
            BY <1>2, <5>1 DEF Begun
          <5>. QED
            BY <2>1, <4>1, <5>2
        <4>. QED
          BY <1>7, <2>2, <3>1, <4>1 DEF NextSync, Following
      <3>. QED
        BY <1>4, <3>1, <3>2
    <2>3. CASE Stage(r) # 1
      <3>1. dataCall[s] = dataCall[r] /\ call[s] = call[r]
        BY <1>7, <2>3 DEF NextSync, Following
      <3>2. pc[s] \in {"idle", "refused"}
        BY <1>1, <2>1, <3>1 DEF Begun, Located
      <3>. QED
        BY <3>1, <3>2
    <2>. QED
      BY <2>2, <2>3
  <1>. QED
    BY <1>1, <1>5, <1>6, <1>7, NeighbourSyncs

(* Who has received everything has nothing queued. *)
LEMMA NothingQueued ==
  ASSUME FdInv, NEW d \in Ranks, call[d] = 0 \/ Have(d) = Due(Cur(d), d)
  PROVE  sock[d] = <<>>
  <1>1. Sockets(d) /\ Len(sock[d]) \in Nat /\ sock[d] \in Seq(Ranks \X Fds)
    BY RankTypes DEF FdInv, RankInv
  <1>2. CASE call[d] = 0
    BY <1>1, <1>2 DEF Sockets
  <1>3. CASE Have(d) = Due(Cur(d), d)
    <2>1. 1 \notin 1 .. Len(sock[d])
      BY <1>1, <1>3 DEF Sockets
    <2>. QED
      BY <1>1, <2>1
  <1>. QED
    BY <1>2, <1>3

LEMMA Drained ==
  ASSUME FdInv, NEW d \in Ranks, pc[d] \in {"after", "sync2", "idle", "refused"}
  PROVE  sock[d] = <<>>
  <1>1. call[d] > 0 => Have(d) = Due(Cur(d), d)
    BY DEF FdInv, RankInv, Holds
  <1>. QED
    BY <1>1, NothingQueued, RankTypes DEF FdInv

(* So nothing at all is queued while a rank is between two calls. *)
LEMMA NoDatagrams ==
  ASSUME FdInv, NEW r \in Ranks, pc[r] = "idle", NEW d \in Ranks
  PROVE  sock[d] = <<>>
  <1>1. CASE pc[d] \in {"sync2", "idle", "refused"}
    BY <1>1, Drained
  <1>2. CASE call[d] = call[r] + 1
    BY <1>2, RankTypes DEF FdInv, Fence
  <1>. QED
    BY <1>1, <1>2, NobodyInCall

(* A rank whose own variables a step leaves alone. *)
Untouched(s) ==
    /\ script' = script
    /\ pc'[s] = pc[s] /\ call'[s] = call[s] /\ got'[s] = got[s] /\ todo'[s] = todo[s]
    /\ dst_fds'[s] = dst_fds[s] /\ open'[s] = open[s]

LEMMA OtherRank ==
  ASSUME FdInv, NEW s \in Ranks, Untouched(s)
  PROVE  /\ Counted(s)' /\ Holds(s)' /\ Keeps(s)' /\ Pending(s)' = Pending(s)
         /\ Have(s)' = Have(s) /\ Cur(s)' = Cur(s)
         /\ sock'[s] = sock[s] => Sockets(s)'
  <1>1. Cur(s)' = Cur(s) /\ Have(s)' = Have(s)
    BY DEF Untouched, Cur, Have
  <1>2. Exchanging(s)' = Exchanging(s) /\ IsSource(s)' = IsSource(s) /\ Relays(s)' = Relays(s)
    BY <1>1 DEF Exchanging, IsSource, Relays
  <1>3. Pending(s)' = Pending(s)
    BY <1>2 DEF Untouched, Pending, Sends
  <1>4. Counted(s)'
    BY DEF FdInv, RankInv, Counted, Untouched
  <1>5. Holds(s)'
    BY <1>1, <1>2 DEF FdInv, RankInv, Holds, Untouched
  <1>6. Keeps(s)'
    BY <1>1, <1>2 DEF FdInv, RankInv, Keeps, OwnOpen, Untouched
  <1>7. sock'[s] = sock[s] => Sockets(s)'
    BY <1>1 DEF FdInv, RankInv, Sockets, Untouched
  <1>. QED
    BY <1>1, <1>3, <1>4, <1>5, <1>6, <1>7

(* What is unsent stays so unless it is queued or a rank that is now in    *)
(* the same call has it.                                                   *)
LEMMA StillUnsent ==
  ASSUME FdInv, NEW q \in Ranks, Untouched(q),
         \A item \in Pending(q) :
             /\ item[2] \notin Queued(item[1]) => item[2] \notin Queued(item[1])'
             /\ call'[item[1]] = call[q] =>
                    \/ item[2] \notin Have(item[1])'
                    \/ call[item[1]] = call[q] /\ item[2] \in Have(item[1])
  PROVE  Unsent(q)'
  <1>1. Pending(q)' = Pending(q) /\ Cur(q)' = Cur(q) /\ Relays(q)' = Relays(q)
    BY OtherRank DEF Relays, Exchanging
  <1>2. Distinct(todo[q])'
    BY DEF FdInv, RankInv, Unsent, Distinct, Untouched
  <1>. QED
    BY <1>1, <1>2 DEF FdInv, RankInv, Unsent, Untouched
-------------------------------------------------------------------------------
LEMMA StepPace ==
  ASSUME FdInv, NEW r \in Ranks, PassFds(r)
  PROVE  PaceInv' /\ BarrierTypeOK'
  BY PaceKept DEF FdInv, BrokerStep, PaceInv, BarrierInv

(* A step of rank r in the script's own time. *)
OthersUntouched(r) == \A s \in Ranks \ {r} : Untouched(s)

LEMMA BeginInv ==
  ASSUME FdInv, NEW r \in Ranks, PassFds(r), Begin(r)
  PROVE  FdInv'
  <1>. DEFINE k == call[r] + 1
              c == script[k]
              own == c.op = "exchange" \/ (c.src = r /\ c.valid)
  <1>1. /\ pc[r] = "idle" /\ pc' = [pc EXCEPT ![r] = "sync1"]
        /\ call' = [call EXCEPT ![r] = k] /\ SyncEnter(r) /\ call[r] < Len(script)
        /\ dst_fds' = [dst_fds EXCEPT ![r] = [s \in Ranks |-> NoFd]]
        /\ open' = [open EXCEPT ![r] = IF own THEN {<<r, k>>} ELSE {}]
        /\ UNCHANGED <<script, sock, got, todo>>
    BY DEF Begin, Goto, FdInv, TypeOK
  <1>2. TypeOK /\ BarrierTypeOK /\ BarrierTypeOK' /\ PaceInv'
    BY StepPace DEF FdInv, TypeOK
  <1>3. k \in Nat /\ k \in 1 .. Len(script) /\ k > 0 /\ call[r] \in Nat /\ k = call[r] + 1
    BY <1>1, RankTypes DEF FdInv
  <1>. HIDE DEF k
  <1>4. c \in Calls
    BY <1>2, <1>3, ScriptsAssumption DEF TypeOK
  <1>5. TypeOK'
    <2>1. <<r, k>> \in Fds
      BY <1>3 DEF Fds
    <2>2. (IF own THEN {<<r, k>>} ELSE {}) \in SUBSET Fds
      BY <2>1
    <2>. HIDE DEF own, c
    <2>3. open' \in [Ranks -> SUBSET Fds] /\ Fds' = Fds
      BY <1>1, <1>2, <2>2 DEF TypeOK, Fds
    <2>. QED
      BY <1>1, <1>2, <1>3, <2>3 DEF TypeOK
  <1>6. /\ pc'[r] = "sync1" /\ call'[r] = k /\ Cur(r)' = c
        /\ \A s \in Ranks : dst_fds'[r][s] = NoFd
        /\ open'[r] = (IF own THEN {<<r, k>>} ELSE {})
        /\ entered'[r] = entered[r] + 1 /\ inSync'[r]
    <2>. HIDE DEF c, own
    <2>. QED
      BY <1>1, <1>2 DEF TypeOK, BarrierTypeOK, SyncEnter, Cur, c
  <1>7. OthersUntouched(r)
    <2>. HIDE DEF c, own
    <2>. QED
      BY <1>1, <1>2 DEF OthersUntouched, Untouched, TypeOK, BarrierTypeOK, SyncEnter
  <1>8. Have(r)' = {}
    BY <1>6 DEF Have
  <1>9. \A d \in Ranks : sock[d] = <<>> /\ sock'[d] = <<>>
    BY <1>1, NoDatagrams
  <1>10. todo[r] = <<>> /\ todo'[r] = <<>>
    BY <1>1 DEF FdInv, RankInv, Unsent
  <1>11. Counted(r)'
    BY <1>1, <1>3, <1>6 DEF FdInv, RankInv, Counted
  <1>12. Holds(r)'
    BY <1>3, <1>6, <1>8 DEF Holds
  <1>13. Keeps(r)'
    <2>1. OwnOpen(r)' <=> own
      <3>1. Exchanging(r)' <=> c.op = "exchange"
        BY <1>6 DEF Exchanging
      <3>2. IsSource(r)' <=> c.op = "broadcast" /\ c.src = r
        BY <1>6 DEF IsSource
      <3>3. c.op = "exchange" \/ c.op = "broadcast"
        BY <1>4 DEF Calls
      <3>. QED
        BY <1>6, <3>1, <3>2, <3>3 DEF OwnOpen
    <2>. HIDE DEF own
    <2>. QED
      BY <1>6, <1>8, <2>1 DEF Keeps
  <1>14. ASSUME NEW d \in Ranks PROVE Sockets(d)' /\ Queued(d)' = {}
    BY <1>9 DEF Sockets, Queued
  <1>15. Unsent(r)'
    <2>1. Pending(r)' = Items(SendsIn(c, r))
      BY <1>6, SendsAreIn DEF Pending
    <2>2. ASSUME NEW d \in Ranks, call'[d] = k PROVE Have(d)' = {}
      <3>1. CASE d = r
        BY <1>8, <3>1
      <3>2. CASE d # r
        <4>1. Have(d)' = Have(d) /\ call'[d] = call[d]
          BY <1>7, <3>2, OtherRank DEF OthersUntouched, Untouched
        <4>2. pc[d] = "sync1"
          BY <1>1, <1>3, <2>2, <4>1, NobodyInCall
        <4>. QED
          BY <4>1, <4>2 DEF FdInv, RankInv, Holds
      <3>. QED
        BY <3>1, <3>2
    <2>3. Distinct(todo[r])'
      BY <1>10 DEF Distinct
    <2>. QED
      BY <1>4, <1>6, <1>10, <1>14, <2>1, <2>2, <2>3, SendsFacts DEF Unsent
  <1>16. ASSUME NEW q \in Ranks, q # r PROVE RankInv(q)'
    <2>1. Untouched(q)
      BY <1>7, <1>16 DEF OthersUntouched
    <2>2. ASSUME NEW item \in Pending(q)
          PROVE  /\ item[1] \in Ranks /\ item[2] \notin Queued(item[1])'
                 /\ call'[item[1]] = call[q] =>
                    \/ item[2] \notin Have(item[1])'
                    \/ call[item[1]] = call[q] /\ item[2] \in Have(item[1])
      <3>1. item[1] \in Ranks
        BY DEF FdInv, RankInv, Unsent
      <3>2. CASE item[1] = r
        BY <1>8, <1>14, <3>1, <3>2
      <3>3. CASE item[1] # r
        BY <1>7, <1>14, <3>1, <3>3, OtherRank DEF OthersUntouched, Untouched
      <3>. QED
        BY <3>2, <3>3
    <2>3. Unsent(q)'
      BY <2>1, <2>2, StillUnsent
    <2>. QED
      BY <1>14, <2>1, <2>3, OtherRank DEF RankInv
  <1>17. Fence'
    BY <1>9 DEF Fence
  <1>. QED
    BY <1>2, <1>5, <1>11, <1>12, <1>13, <1>14, <1>15, <1>16, <1>17 DEF FdInv, RankInv

(* A step that neither sends nor receives nor begins a call.               *)
LEMMA OwnSuffices ==
  ASSUME FdInv, NEW r \in Ranks, PassFds(r), TypeOK', OthersUntouched(r),
         script' = script, sock' = sock, call' = call, dst_fds'[r] = dst_fds[r],
         Counted(r)', Holds(r)', Keeps(r)', Pending(r)' = Pending(r), Distinct(todo[r])',
         (pc[r] \in {"send", "threw"} \/ (pc[r] = "recv" /\ Relays(r)) \/ todo[r] = <<>>)'
  PROVE  FdInv'
  <1>1. \A d \in Ranks : Queued(d)' = Queued(d) /\ Have(d)' = Have(d) /\ Cur(d)' = Cur(d)
    <2>1. \A d \in Ranks : Queued(d)' = Queued(d) /\ Cur(d)' = Cur(d)
      BY DEF Queued, Cur
    <2>2. \A d \in Ranks : dst_fds'[d] = dst_fds[d]
      BY DEF OthersUntouched, Untouched
    <2>. QED
      BY <2>1, <2>2 DEF Have
  <1>2. \A d \in Ranks : Sockets(d)'
    BY <1>1 DEF FdInv, RankInv, Sockets
  <1>3. \A q \in Ranks : Unsent(q)'
    <2>1. Unsent(r)'
      BY <1>1 DEF FdInv, RankInv, Unsent
    <2>2. ASSUME NEW q \in Ranks, q # r PROVE Unsent(q)'
      <3>1. Untouched(q)
        BY <2>2 DEF OthersUntouched
      <3>2. \A item \in Pending(q) : item[1] \in Ranks
        BY DEF FdInv, RankInv, Unsent
      <3>. QED
        BY <1>1, <3>1, <3>2, StillUnsent
    <2>. QED
      BY <2>1, <2>2
  <1>4. ASSUME NEW q \in Ranks, q # r PROVE Counted(q)' /\ Holds(q)' /\ Keeps(q)'
    BY <1>4, OtherRank DEF OthersUntouched
  <1>5. PaceInv'
    BY StepPace
  <1>6. Fence'
    BY DEF FdInv, Fence
  <1>. QED
    BY <1>2, <1>3, <1>4, <1>5, <1>6 DEF FdInv, RankInv
(* A rank that throws at once is where it was between the calls.           *)
LEMMA RefuseInv ==
  ASSUME FdInv, NEW r \in Ranks, PassFds(r), Refuse(r)
  PROVE  FdInv'
  <1>1. /\ pc[r] = "idle" /\ pc'[r] = "refused"
        /\ UNCHANGED <<script, call, sock, dst_fds, got, todo, open, barrierVars>>
    BY DEF Refuse, Goto, FdInv, TypeOK
  <1>2. TypeOK /\ BarrierTypeOK /\ BarrierTypeOK'
    BY StepPace DEF FdInv, TypeOK
  <1>3. Counted(r) /\ Holds(r) /\ Keeps(r) /\ Unsent(r)
    BY DEF FdInv, RankInv
  <1>4. TypeOK'
    BY <1>2 DEF Refuse, Goto, TypeOK, Fds
  <1>5. OthersUntouched(r)
    BY <1>2 DEF OthersUntouched, Untouched, Refuse, Goto, TypeOK, barrierVars
  <1>6. Cur(r)' = Cur(r) /\ Have(r)' = Have(r)
    BY <1>1 DEF Cur, Have
  <1>7. Counted(r)'
    BY <1>1, <1>3 DEF Counted, barrierVars
  <1>8. Holds(r)'
    BY <1>1, <1>3, <1>6 DEF Holds
  <1>9. Keeps(r)'
    BY <1>1, <1>3, <1>6 DEF Keeps, OwnOpen
  <1>10. Pending(r)' = Pending(r)
    BY <1>1 DEF Pending
  <1>11. Distinct(todo[r])' /\ todo'[r] = <<>>
    BY <1>1, <1>3 DEF Unsent, Distinct
  <1>. QED
    BY <1>1, <1>2, <1>4, <1>5, <1>7, <1>8, <1>9, <1>10, <1>11, OwnSuffices

LEMMA LeaveFirstInv ==
  ASSUME FdInv, NEW r \in Ranks, PassFds(r), LeaveFirst(r)
  PROVE  FdInv'
  <1>1. /\ pc[r] = "sync1" /\ SyncLeave(r)
        /\ pc'[r] \in {"send", "recv", "threw"}
        /\ pc'[r] = "recv" => Relays(r)
        /\ pc'[r] = "send" => ~Relays(r)
        /\ todo'[r] = Sends(r) /\ got'[r] = 0
        /\ UNCHANGED <<script, call, sock, dst_fds, open>>
    BY DEF LeaveFirst, FdInv, TypeOK, Relays
  <1>2. TypeOK /\ BarrierTypeOK /\ BarrierTypeOK'
    BY StepPace DEF FdInv, TypeOK
  <1>3. Counted(r) /\ Holds(r) /\ Keeps(r) /\ Unsent(r) /\ call[r] > 0
    BY <1>1 DEF FdInv, RankInv, Counted
  <1>4. Cur(r) \in Calls
    BY <1>2, <1>3, CurIsCall
  <1>5. Sends(r) \in Seq(Ranks \X Ranks) /\ Distinct(Sends(r))
    BY <1>4, SendsFacts, SendsAreIn
  <1>6. TypeOK'
    <2>1. pc' \in [Ranks -> PCs]
      BY <1>2 DEF LeaveFirst, TypeOK, PCs
    <2>2. todo' \in [Ranks -> Seq(Ranks \X Ranks)]
      BY <1>2, <1>5 DEF LeaveFirst, TypeOK
    <2>3. got' \in [Ranks -> 0 .. N]
      BY <1>2, NAssumption DEF LeaveFirst, TypeOK
    <2>. QED
      BY <1>1, <1>2, <2>1, <2>2, <2>3 DEF TypeOK, PCs, Fds
  <1>7. OthersUntouched(r)
    BY <1>2 DEF OthersUntouched, Untouched, LeaveFirst, TypeOK, BarrierTypeOK, SyncLeave
  <1>8. Cur(r)' = Cur(r) /\ Have(r)' = Have(r) /\ Have(r) = {}
    BY <1>1, <1>3 DEF Cur, Have, Holds
  <1>9. Exchanging(r)' = Exchanging(r) /\ IsSource(r)' = IsSource(r) /\ Relays(r)' = Relays(r)
    BY <1>8 DEF Exchanging, IsSource, Relays
  <1>10. Counted(r)'
    BY <1>1, <1>2, <1>3 DEF Counted, SyncLeave, BarrierTypeOK
  <1>11. Holds(r)'
    BY <1>1, <1>3, <1>8, <1>9, FS_EmptySet DEF Holds
  <1>12. Keeps(r)'
    BY <1>1, <1>3, <1>8, <1>9 DEF Keeps, OwnOpen
  <1>13. Pending(r)' = Pending(r)
    BY <1>1 DEF Pending
  <1>. QED
    BY <1>1, <1>2, <1>5, <1>6, <1>7, <1>9, <1>10, <1>11, <1>12, <1>13, OwnSuffices

LEMMA SentInv ==
  ASSUME FdInv, NEW r \in Ranks, PassFds(r), Sent(r)
  PROVE  FdInv'
  <1>1. /\ pc[r] = "send" /\ todo[r] = <<>>
        /\ pc'[r] = (IF Relays(r) THEN "after" ELSE "recv")
        /\ open'[r] = open[r] \ {<<r, call[r]>>}
        /\ UNCHANGED <<script, call, sock, dst_fds, got, todo, barrierVars>>
    BY DEF Sent, FdInv, TypeOK, Relays
  <1>2. TypeOK /\ BarrierTypeOK /\ BarrierTypeOK'
    BY StepPace DEF FdInv, TypeOK
  <1>3. Counted(r) /\ Holds(r) /\ Keeps(r) /\ call[r] > 0
    BY <1>1 DEF FdInv, RankInv, Counted
  <1>4. TypeOK'
    BY <1>2 DEF Sent, TypeOK, Fds
  <1>5. OthersUntouched(r)
    BY <1>2 DEF OthersUntouched, Untouched, Sent, TypeOK, barrierVars
  <1>6. Cur(r)' = Cur(r) /\ Have(r)' = Have(r)
    BY <1>1 DEF Cur, Have
  <1>7. Exchanging(r)' = Exchanging(r) /\ IsSource(r)' = IsSource(r) /\ Relays(r)' = Relays(r)
    BY <1>6 DEF Exchanging, IsSource, Relays
  <1>8. Counted(r)'
    BY <1>1, <1>3 DEF Counted, barrierVars
  <1>9. Holds(r)'
    BY <1>1, <1>3, <1>6, <1>7 DEF Holds
  (* Nothing that was received is the rank's own. *)
  <1>10. Keeps(r)'
    <2>1. r \notin Have(r)
      BY <1>2, <1>3, CurIsCall, ExpectedIsDue DEF Holds
    <2>2. ~OwnOpen(r)'
      BY <1>1, <1>7 DEF OwnOpen
    <2>3. open[r] \ {<<r, call[r]>>} = {<<s, call[r]>> : s \in Have(r)}
      BY <1>3, <2>1 DEF Keeps
    <2>. QED
      BY <1>1, <1>6, <2>2, <2>3 DEF Keeps
  <1>11. Pending(r)' = Pending(r)
    BY <1>1 DEF Pending
  <1>12. Distinct(todo[r])'
    BY <1>1 DEF Distinct
  <1>. QED
    BY <1>1, <1>2, <1>4, <1>5, <1>8, <1>9, <1>10, <1>11, <1>12, OwnSuffices

(* As many as there are sources due, and all of them due: so all of them.  *)
LEMMA ReceivedInv ==
  ASSUME FdInv, NEW r \in Ranks, PassFds(r), Received(r)
  PROVE  FdInv'
  <1>1. /\ pc[r] = "recv" /\ got[r] = Expected(r)
        /\ pc'[r] = (IF Relays(r) THEN "send" ELSE "after")
        /\ UNCHANGED <<script, call, sock, dst_fds, got, todo, open, barrierVars>>
    BY DEF Received, Goto, FdInv, TypeOK, Relays
  <1>2. TypeOK /\ BarrierTypeOK /\ BarrierTypeOK'
    BY StepPace DEF FdInv, TypeOK
  <1>3. Counted(r) /\ Holds(r) /\ Keeps(r) /\ Unsent(r) /\ call[r] > 0
    BY <1>1 DEF FdInv, RankInv, Counted
  <1>4. TypeOK'
    BY <1>2 DEF Received, Goto, TypeOK, Fds
  <1>5. OthersUntouched(r)
    BY <1>2 DEF OthersUntouched, Untouched, Received, Goto, TypeOK, barrierVars
  <1>6. Cur(r)' = Cur(r) /\ Have(r)' = Have(r)
    BY <1>1 DEF Cur, Have
  <1>7. Exchanging(r)' = Exchanging(r) /\ IsSource(r)' = IsSource(r) /\ Relays(r)' = Relays(r)
    BY <1>6 DEF Exchanging, IsSource, Relays
  <1>8. Have(r) = Due(Cur(r), r)
    <2>1. Cur(r) \in Calls
      BY <1>2, <1>3, CurIsCall
    <2>2. Have(r) \subseteq Due(Cur(r), r) /\ Cardinality(Have(r)) = Expected(r)
      BY <1>1, <1>3 DEF Holds
    <2>. QED
      BY <2>1, <2>2, ExpectedIsDue, FS_Subset
  <1>9. Counted(r)'
    BY <1>1, <1>3 DEF Counted, barrierVars
  <1>10. Holds(r)'
    BY <1>1, <1>3, <1>6, <1>7, <1>8 DEF Holds
  <1>11. Keeps(r)'
    BY <1>1, <1>3, <1>6, <1>7 DEF Keeps, OwnOpen
  <1>12. Pending(r)' = Pending(r)
    BY <1>1 DEF Pending
  <1>13. /\ Distinct(todo[r])'
         /\ (pc[r] \in {"send", "threw"} \/ (pc[r] = "recv" /\ Relays(r)) \/ todo[r] = <<>>)'
    BY <1>1, <1>3, <1>7 DEF Unsent, Distinct
  <1>. QED
    BY <1>1, <1>2, <1>4, <1>5, <1>9, <1>10, <1>11, <1>12, <1>13, OwnSuffices

LEMMA SecondSyncInv ==
  ASSUME FdInv, NEW r \in Ranks, PassFds(r), EnterSecond(r) \/ LeaveSecond(r)
  PROVE  FdInv'
  <1>1. /\ \/ pc[r] = "after" /\ pc'[r] = "sync2" /\ SyncEnter(r)
           \/ pc[r] = "sync2" /\ pc'[r] = "idle" /\ SyncLeave(r)
        /\ UNCHANGED <<script, call, sock, dst_fds, got, todo, open>>
    BY DEF EnterSecond, LeaveSecond, Goto, FdInv, TypeOK
  <1>2. TypeOK /\ BarrierTypeOK /\ BarrierTypeOK'
    BY StepPace DEF FdInv, TypeOK
  <1>3. Counted(r) /\ Holds(r) /\ Keeps(r) /\ Unsent(r) /\ call[r] > 0
    BY <1>1 DEF FdInv, RankInv, Counted
  <1>4. TypeOK'
    BY <1>2 DEF EnterSecond, LeaveSecond, Goto, TypeOK, Fds
  <1>5. OthersUntouched(r)
    BY <1>2 DEF OthersUntouched, Untouched, EnterSecond, LeaveSecond, Goto, TypeOK,
                SyncEnter, SyncLeave, BarrierTypeOK
  <1>6. Cur(r)' = Cur(r) /\ Have(r)' = Have(r)
    BY <1>1 DEF Cur, Have
  <1>7. Counted(r)'
    <2>1. call[r] \in Nat
      BY RankTypes DEF FdInv
    <2>2. CASE pc'[r] = "sync2"
      <3>1. entered'[r] = entered[r] + 1 /\ inSync'[r]
        BY <1>1, <1>2, <2>2 DEF SyncEnter, SyncLeave, BarrierTypeOK
      <3>. QED
        BY <1>1, <1>3, <2>1, <2>2, <3>1 DEF Counted
    <2>3. CASE pc'[r] = "idle"
      <3>1. entered'[r] = entered[r] /\ ~inSync'[r]
        BY <1>1, <1>2, <2>3 DEF SyncEnter, SyncLeave, BarrierTypeOK
      <3>. QED
        BY <1>1, <1>3, <2>1, <2>3, <3>1 DEF Counted
    <2>. QED
      BY <1>1, <2>2, <2>3
  <1>8. Holds(r)'
    BY <1>1, <1>3, <1>6 DEF Holds
  <1>9. Keeps(r)'
    BY <1>1, <1>3, <1>6 DEF Keeps, OwnOpen
  <1>10. Pending(r)' = Pending(r)
    BY <1>1 DEF Pending
  <1>11. Distinct(todo[r])' /\ todo'[r] = <<>>
    BY <1>1, <1>3 DEF Unsent, Distinct
  <1>. QED
    BY <1>1, <1>2, <1>4, <1>5, <1>7, <1>8, <1>9, <1>10, <1>11, OwnSuffices
-------------------------------------------------------------------------------
LEMMA TailFacts ==
  ASSUME NEW S, NEW seq \in Seq(S), seq # <<>>
  PROVE  /\ Tail(seq) \in Seq(S) /\ Len(Tail(seq)) = Len(seq) - 1 /\ Len(seq) \in Nat \ {0}
         /\ \A i \in 1 .. Len(Tail(seq)) : Tail(seq)[i] = seq[i + 1] /\ i + 1 \in 1 .. Len(seq)
         /\ Head(seq) = seq[1] /\ 1 \in 1 .. Len(seq) /\ seq[1] \in S
  OBVIOUS

(* Taking the first item off a sequence without repetitions. *)
LEMMA TailItems ==
  ASSUME NEW S, NEW seq \in Seq(S), seq # <<>>, Distinct(seq)
  PROVE  /\ Items(Tail(seq)) \subseteq Items(seq) \ {Head(seq)}
         /\ Distinct(Tail(seq)) /\ Head(seq) \in Items(seq)
  <1>1. /\ Len(Tail(seq)) = Len(seq) - 1 /\ Len(seq) \in Nat \ {0}
        /\ \A i \in 1 .. Len(Tail(seq)) : Tail(seq)[i] = seq[i + 1] /\ i + 1 \in 1 .. Len(seq)
        /\ Head(seq) = seq[1] /\ 1 \in 1 .. Len(seq)
    BY TailFacts
  <1>2. ASSUME NEW x \in Items(Tail(seq)) PROVE x \in Items(seq) /\ x # Head(seq)
    <2>1. PICK i \in 1 .. Len(Tail(seq)) : x = Tail(seq)[i]
      BY DEF Items
    <2>2. x = seq[i + 1] /\ i + 1 \in 1 .. Len(seq) /\ i + 1 # 1
      BY <1>1, <2>1
    <2>. QED
      BY <1>1, <2>2 DEF Items, Distinct
  <1>3. Distinct(Tail(seq))
    <2>. SUFFICES ASSUME NEW i \in 1 .. Len(Tail(seq)), NEW j \in 1 .. Len(Tail(seq)),
                         Tail(seq)[i] = Tail(seq)[j]
                  PROVE  i = j
      BY DEF Distinct
    <2>1. i + 1 = j + 1
      BY <1>1 DEF Distinct
    <2>. QED
      BY <2>1
  <1>4. Head(seq) \in Items(seq)
    BY <1>1 DEF Items
  <1>. QED
    BY <1>2, <1>3, <1>4

(* What a rank still has to send: it goes to another rank, and it is this  *)
(* rank that sends it.                                                     *)
LEMMA PendingFacts ==
  ASSUME FdInv, NEW q \in Ranks, NEW item \in Pending(q)
  PROVE  /\ item[1] \in Ranks \ {q} /\ item[2] \in Due(Cur(q), item[1])
         /\ q = Carrier(Cur(q), item[1], item[2])
         /\ item[2] \notin Queued(item[1])
         /\ call[item[1]] = call[q] => item[2] \notin Have(item[1])
  <1>1. /\ item[1] \in Ranks /\ item[2] \in Due(Cur(q), item[1])
        /\ q = Carrier(Cur(q), item[1], item[2])
        /\ item[2] \notin Queued(item[1])
        /\ call[item[1]] = call[q] => item[2] \notin Have(item[1])
    BY DEF FdInv, RankInv, Unsent
  <1>2. item[1] # q
    BY <1>1 DEF Due, Carrier
  <1>. QED
    BY <1>1, <1>2

(* A datagram that is queued is not pending, and it is its source's own    *)
(* descriptor that goes with it.                                           *)
LEMMA SendInv ==
  ASSUME FdInv, NEW r \in Ranks, PassFds(r), Send(r)
  PROVE  FdInv'
  <1>1. /\ pc[r] = "send" /\ todo[r] # <<>>
        /\ todo' = [todo EXCEPT ![r] = Tail(todo[r])]
        /\ UNCHANGED <<script, pc, call, dst_fds, got, open, barrierVars>>
    BY DEF Send, FdInv, TypeOK
  <1>2. TypeOK /\ BarrierTypeOK /\ BarrierTypeOK' /\ PaceInv'
    BY StepPace DEF FdInv, TypeOK
  <1>3. Counted(r) /\ Holds(r) /\ Keeps(r) /\ Unsent(r) /\ call[r] > 0
    BY <1>1 DEF FdInv, RankInv, Counted
  <1>4. todo[r] \in Seq(Ranks \X Ranks) /\ Distinct(todo[r]) /\ Pending(r) = Items(todo[r])
    BY <1>1, <1>3, RankTypes DEF FdInv, Pending, Unsent
  <1>5. PICK d \in Ranks, s \in Ranks : Head(todo[r]) = <<d, s>>
    BY <1>1, <1>4, TailFacts
  <1>6. <<d, s>> \in Pending(r)
    BY <1>1, <1>4, <1>5, TailItems
  <1>7. /\ d # r /\ s \in Due(Cur(r), d) /\ r = Carrier(Cur(r), d, s) /\ s \notin Queued(d)
        /\ call[d] = call[r] => s \notin Have(d)
    BY <1>6, PendingFacts
  <1>8. \A q \in Ranks : call[q] = call[r] /\ Cur(q) = Cur(r)
    BY <1>1, AllInCall DEF Cur
  <1>9. Passed(r, s) = <<s, call[r]>>
    <2>1. CASE s = r
      BY <2>1 DEF Passed
    <2>2. CASE s # r
      <3>1. Relays(r) /\ d # 0
        BY <1>7, <2>2 DEF Carrier, Relays, Exchanging
      <3>2. s \in Due(Cur(r), r)
        BY <2>2, <3>1 DEF Due, Relays, Exchanging
      <3>3. s \in Have(r)
        BY <1>1, <1>3, <3>1, <3>2 DEF Holds
      <3>. QED
        BY <1>3, <2>2, <3>3 DEF Passed, Holds, Have
    <2>. QED
      BY <2>1, <2>2
  <1>. DEFINE gram == <<s, <<s, call[r]>>>>
  <1>10. /\ Len(sock[d]) < QueueLen
         /\ sock' = [sock EXCEPT ![d] = Append(sock[d], gram)]
    <2>1. Head(todo[r])[1] = d /\ Head(todo[r])[2] = s
      BY <1>5
    <2>2. /\ Len(sock[d]) < QueueLen
          /\ sock' = [sock EXCEPT ![d] = Append(@, <<s, Passed(r, s)>>)]
      BY <2>1, Zenon DEF Send
    <2>. QED
      BY <1>2, <1>9, <2>2 DEF TypeOK
  <1>11. gram \in Ranks \X Fds
    BY <1>2, <1>3, CurIsCall DEF Fds
  <1>12. sock[d] \in Seq(Ranks \X Fds) /\ Len(sock[d]) \in Nat /\ QueueLen \in Nat
    BY <1>2, RankTypes, QueueLenAssumption
  <1>13. /\ sock'[d] \in Seq(Ranks \X Fds) /\ Len(sock'[d]) = Len(sock[d]) + 1
         /\ \A i \in 1 .. Len(sock[d]) : sock'[d][i] = sock[d][i]
         /\ sock'[d][Len(sock[d]) + 1] = gram
         /\ \A q \in Ranks \ {d} : sock'[q] = sock[q]
    <2>. HIDE DEF gram
    <2>1. sock'[d] = Append(sock[d], gram) /\ \A q \in Ranks \ {d} : sock'[q] = sock[q]
      BY <1>2, <1>10 DEF TypeOK
    <2>. QED
      BY <1>11, <1>12, <2>1
  <1>14. TypeOK'
    <2>. HIDE DEF gram
    <2>1. sock' \in [Ranks -> Seq(Ranks \X Fds)]
      BY <1>2, <1>10, <1>11, <1>12, <1>13 DEF TypeOK
    <2>2. \A q \in Ranks : Len(sock'[q]) <= QueueLen
      BY <1>2, <1>10, <1>12, <1>13 DEF TypeOK
    <2>3. todo' \in [Ranks -> Seq(Ranks \X Ranks)]
      BY <1>1, <1>2, <1>4, TailFacts DEF TypeOK
    <2>. QED
      BY <1>1, <1>2, <2>1, <2>2, <2>3 DEF TypeOK, Fds
  <1>15. OthersUntouched(r)
    BY <1>1, <1>2 DEF OthersUntouched, Untouched, TypeOK, barrierVars
  <1>16. \A q \in Ranks : Cur(q)' = Cur(q) /\ Have(q)' = Have(q)
    BY <1>1 DEF Cur, Have
  <1>17. Exchanging(r)' = Exchanging(r) /\ IsSource(r)' = IsSource(r) /\ Relays(r)' = Relays(r)
    BY <1>16 DEF Exchanging, IsSource, Relays
  <1>18. Counted(r)' /\ Holds(r)' /\ Keeps(r)'
    <2>1. Counted(r)'
      BY <1>1, <1>3 DEF Counted, barrierVars
    <2>2. Holds(r)'
      BY <1>1, <1>3, <1>16, <1>17 DEF Holds
    <2>3. Keeps(r)'
      BY <1>1, <1>3, <1>16, <1>17 DEF Keeps, OwnOpen
    <2>. QED
      BY <2>1, <2>2, <2>3
  <1>19. \A q \in Ranks \ {d} : Queued(q)' = Queued(q)
    BY <1>13 DEF Queued
  <1>20. Queued(d)' \subseteq Queued(d) \cup {s}
    <2>1. \A i \in 1 .. Len(sock'[d]) : i \in 1 .. Len(sock[d]) \/ i = Len(sock[d]) + 1
      BY <1>12, <1>13
    <2>. QED
      BY <1>13, <2>1 DEF Queued
  <1>21. Sockets(d)'
    <2>1. \A i \in 1 .. Len(sock'[d]) : i \in 1 .. Len(sock[d]) \/ i = Len(sock[d]) + 1
      BY <1>12, <1>13
    <2>2. Sockets(d)
      BY DEF FdInv, RankInv
    <2>3. ASSUME NEW i \in 1 .. Len(sock'[d])
          PROVE  /\ sock'[d][i][2] = <<sock'[d][i][1], call[d]>>
                 /\ sock'[d][i][1] \in Due(Cur(d), d) \ Have(d)
      <3>1. CASE i \in 1 .. Len(sock[d])
        BY <1>13, <2>2, <3>1 DEF Sockets
      <3>2. CASE i = Len(sock[d]) + 1
        BY <1>7, <1>8, <1>13, <3>2
      <3>. QED
        BY <2>1, <3>1, <3>2
    <2>4. ASSUME NEW i \in 1 .. Len(sock'[d]), NEW j \in 1 .. Len(sock'[d]),
                 sock'[d][i][1] = sock'[d][j][1]
          PROVE  i = j
      <3>1. \A k \in 1 .. Len(sock[d]) : sock'[d][k][1] # s
        BY <1>7, <1>13 DEF Queued
      <3>2. sock'[d][Len(sock[d]) + 1][1] = s
        BY <1>13
      <3>3. CASE i \in 1 .. Len(sock[d]) /\ j \in 1 .. Len(sock[d])
        BY <1>13, <2>2, <2>4, <3>3 DEF Sockets
      <3>4. CASE ~(i \in 1 .. Len(sock[d]) /\ j \in 1 .. Len(sock[d]))
        BY <2>1, <2>4, <3>1, <3>2, <3>4
      <3>. QED
        BY <3>3, <3>4
    <2>5. call'[d] = call[d] /\ call[d] > 0
      BY <1>1, <1>3, <1>8
    <2>6. call'[d] # 0
      BY <1>2, <2>5, RankTypes
    <2>. QED
      BY <1>16, <2>3, <2>4, <2>5, <2>6 DEF Sockets
  <1>22. Unsent(r)'
    <2>1. Distinct(todo[r])' /\ Pending(r)' \subseteq Pending(r) \ {<<d, s>>}
      <3>1. todo'[r] = Tail(todo[r]) /\ pc'[r] = "send"
        BY <1>1, <1>2 DEF TypeOK
      <3>2. Pending(r)' = Items(Tail(todo[r])) /\ Distinct(todo[r])' = Distinct(Tail(todo[r]))
        BY <3>1 DEF Pending, Items, Distinct
      <3>. QED
        BY <1>1, <1>4, <1>5, <3>2, TailItems
    <2>2. ASSUME NEW item \in Pending(r)'
          PROVE  /\ item[1] \in Ranks /\ item[2] \in Due(Cur(r), item[1])
                 /\ r = Carrier(Cur(r), item[1], item[2])
                 /\ item[2] \notin Queued(item[1])'
                 /\ item[2] \notin Have(item[1])
      <3>1. item \in Ranks \X Ranks /\ item # <<d, s>>
        BY <1>4, <2>1, <2>2 DEF Items
      <3>2. ~(item[1] = d /\ item[2] = s)
        BY <3>1
      <3>. QED
        BY <1>8, <1>19, <1>20, <2>1, <2>2, <3>2, PendingFacts
    <2>. QED
      BY <1>1, <1>16, <2>1, <2>2 DEF Unsent
  <1>23. ASSUME NEW q \in Ranks, q # r PROVE Unsent(q)'
    <2>1. Untouched(q)
      BY <1>15, <1>23 DEF OthersUntouched
    <2>2. ASSUME NEW item \in Pending(q)
          PROVE  item[1] \in Ranks /\ item[2] \notin Queued(item[1])'
      <3>1. ~(item[1] = d /\ item[2] = s)
        BY <1>7, <1>8, <1>23, PendingFacts
      <3>. QED
        BY <1>19, <1>20, <3>1, PendingFacts
    <2>. QED
      BY <1>8, <1>16, <2>1, <2>2, PendingFacts, StillUnsent
  <1>24. ASSUME NEW q \in Ranks, q # r PROVE Counted(q)' /\ Holds(q)' /\ Keeps(q)'
    BY <1>15, <1>24, OtherRank DEF OthersUntouched
  <1>25. ASSUME NEW q \in Ranks, q # d PROVE Sockets(q)'
    <2>1. sock'[q] = sock[q] /\ call'[q] = call[q] /\ Cur(q)' = Cur(q) /\ Have(q)' = Have(q)
      BY <1>1, <1>13, <1>16, <1>25
    <2>. QED
      BY <2>1 DEF FdInv, RankInv, Sockets
  <1>26. Fence'
    <2>1. \A q \in Ranks : call'[q] = call[r] /\ call[r] \in Nat
      BY <1>1, <1>2, <1>8, RankTypes
    <2>. QED
      BY <2>1 DEF Fence
  <1>. QED
    BY <1>2, <1>14, <1>18, <1>21, <1>22, <1>23, <1>24, <1>25, <1>26 DEF FdInv, RankInv

(* A receiver takes what is due to it: the check of the payload never      *)
(* fails.                                                                  *)
LEMMA RecvInv ==
  ASSUME FdInv, NEW r \in Ranks, PassFds(r), Recv(r)
  PROVE  FdInv'
  <1>. DEFINE s == sock[r][1][1]
              fd == <<s, call[r]>>
  <1>1. pc[r] = "recv" /\ got[r] < Expected(r) /\ sock[r] # <<>>
    BY DEF Recv
  <1>2. TypeOK /\ BarrierTypeOK /\ BarrierTypeOK' /\ PaceInv'
    BY StepPace DEF FdInv, TypeOK
  <1>3. Counted(r) /\ Holds(r) /\ Keeps(r) /\ Unsent(r) /\ Sockets(r) /\ call[r] > 0 /\ call[r] \in Nat
    BY <1>1, RankTypes DEF FdInv, RankInv, Counted
  <1>4. Cur(r) \in Calls /\ call[r] \in 1 .. Len(script)
    BY <1>2, <1>3, CurIsCall
  <1>5. sock[r] \in Seq(Ranks \X Fds) /\ got[r] \in 0 .. N /\ dst_fds[r] \in [Ranks -> Fds \cup {NoFd}]
    BY <1>2, RankTypes
  <1>6. /\ Len(Tail(sock[r])) = Len(sock[r]) - 1 /\ Len(sock[r]) \in Nat \ {0}
        /\ \A i \in 1 .. Len(Tail(sock[r])) :
               Tail(sock[r])[i] = sock[r][i + 1] /\ i + 1 \in 1 .. Len(sock[r])
        /\ Head(sock[r]) = sock[r][1] /\ 1 \in 1 .. Len(sock[r]) /\ sock[r][1] \in Ranks \X Fds
        /\ Tail(sock[r]) \in Seq(Ranks \X Fds)
    BY <1>1, <1>5, TailFacts
  <1>7. s \in Ranks /\ s \in Due(Cur(r), r) \ Have(r) /\ sock[r][1][2] = fd
    BY <1>3, <1>6 DEF Sockets
  <1>8. SourceOk(r, s) /\ s # r
    <2>1. s # r
      BY <1>4, <1>7, ExpectedIsDue
    <2>2. CASE Exchanging(r)
      BY <2>1, <2>2 DEF SourceOk
    <2>3. CASE ~Exchanging(r)
      BY <1>7, <2>3 DEF SourceOk, Due, Exchanging
    <2>. QED
      BY <2>1, <2>2, <2>3
  <1>. HIDE DEF s, fd
  <1>9. /\ sock' = [sock EXCEPT ![r] = Tail(@)]
        /\ dst_fds' = [dst_fds EXCEPT ![r][s] = fd]
        /\ open' = [open EXCEPT ![r] = @ \cup {fd}]
        /\ got' = [got EXCEPT ![r] = @ + 1]
        /\ UNCHANGED <<script, pc, call, todo, barrierVars>>
    <2>1. Head(sock[r])[1] = s /\ Head(sock[r])[2] = fd
      BY <1>6, <1>7 DEF s
    <2>. QED
      BY <1>8, <2>1 DEF Recv
  <1>10. /\ \A q \in Ranks : call[q] = call[r] /\ Cur(q) = Cur(r)
         /\ \A q \in Ranks : call'[q] = call[q] /\ Cur(q)' = Cur(q)
    BY <1>1, <1>9, AllInCall DEF Cur
  <1>11. fd \in Fds /\ fd # NoFd
    BY <1>3, <1>4, <1>7 DEF Fds, NoFd, fd
  <1>12. /\ sock'[r] = Tail(sock[r]) /\ \A q \in Ranks \ {r} : sock'[q] = sock[q]
         /\ dst_fds'[r] = [dst_fds[r] EXCEPT ![s] = fd]
         /\ \A q \in Ranks \ {r} : dst_fds'[q] = dst_fds[q]
         /\ open'[r] = open[r] \cup {fd} /\ \A q \in Ranks \ {r} : open'[q] = open[q]
         /\ got'[r] = got[r] + 1 /\ \A q \in Ranks \ {r} : got'[q] = got[q]
    BY <1>2, <1>9 DEF TypeOK
  <1>13. dst_fds'[r][s] = fd /\ \A q \in Ranks \ {s} : dst_fds'[r][q] = dst_fds[r][q]
    BY <1>5, <1>7, <1>12
  <1>14. Have(r)' = Have(r) \cup {s} /\ \A q \in Ranks \ {r} : Have(q)' = Have(q)
    <2>1. Have(r)' = Have(r) \cup {s}
      BY <1>7, <1>11, <1>13 DEF Have
    <2>2. \A q \in Ranks \ {r} : Have(q)' = Have(q)
      BY <1>12 DEF Have
    <2>. QED
      BY <2>1, <2>2
  <1>15. /\ IsFiniteSet(Have(r)) /\ Cardinality(Have(r)) = got[r]
         /\ Expected(r) \in Nat /\ Expected(r) <= N
    <2>1. /\ IsFiniteSet(Due(Cur(r), r)) /\ Cardinality(Due(Cur(r), r)) = Expected(r)
          /\ Due(Cur(r), r) \subseteq Ranks
      BY <1>4, ExpectedIsDue
    <2>2. Have(r) \subseteq Due(Cur(r), r) /\ Cardinality(Have(r)) = got[r]
      BY <1>1, <1>3 DEF Holds
    <2>. QED
      BY <2>1, <2>2, FS_Subset, RanksFinite, FS_CardinalityType
  <1>16. Cardinality(Have(r)') = got'[r]
    <2>1. Cardinality(Have(r) \cup {s}) = Cardinality(Have(r)) + 1
      BY <1>7, <1>15, FS_AddElement
    <2>. QED
      BY <1>12, <1>14, <1>15, <2>1
  <1>17. TypeOK'
    <2>1. sock' \in [Ranks -> Seq(Ranks \X Fds)]
      BY <1>2, <1>6, <1>9 DEF TypeOK
    <2>2. \A q \in Ranks : Len(sock'[q]) <= QueueLen
      <3>1. Len(sock'[r]) <= QueueLen
        <4>1. Len(sock[r]) <= QueueLen
          BY <1>2 DEF TypeOK
        <4>. QED
          BY <1>6, <1>12, <4>1, QueueLenAssumption
      <3>. QED
        BY <1>2, <1>12, <3>1 DEF TypeOK
    <2>3. dst_fds' \in [Ranks -> [Ranks -> Fds \cup {NoFd}]]
      <3>1. dst_fds' = [dst_fds EXCEPT ![r] = [dst_fds[r] EXCEPT ![s] = fd]]
        BY <1>2, <1>9 DEF TypeOK
      <3>2. [dst_fds[r] EXCEPT ![s] = fd] \in [Ranks -> Fds \cup {NoFd}]
        BY <1>5, <1>7, <1>11
      <3>. QED
        BY <1>2, <3>1, <3>2 DEF TypeOK
    <2>4. got' \in [Ranks -> 0 .. N]
      <3>1. got[r] + 1 \in 0 .. N
        BY <1>1, <1>5, <1>15, NAssumption
      <3>. QED
        BY <1>2, <1>9, <3>1 DEF TypeOK
    <2>5. open' \in [Ranks -> SUBSET Fds]
      BY <1>2, <1>9, <1>11 DEF TypeOK
    <2>. QED
      BY <1>2, <1>9, <2>1, <2>2, <2>3, <2>4, <2>5 DEF TypeOK, Fds
  <1>18. OthersUntouched(r)
    BY <1>9, <1>12 DEF OthersUntouched, Untouched, barrierVars
  <1>19. Exchanging(r)' = Exchanging(r) /\ IsSource(r)' = IsSource(r) /\ Relays(r)' = Relays(r)
    BY <1>10 DEF Exchanging, IsSource, Relays
  <1>20. pc'[r] = "recv" /\ todo'[r] = todo[r] /\ call'[r] = call[r]
    BY <1>1, <1>9
  <1>21. Counted(r)'
    BY <1>3, <1>9 DEF Counted, barrierVars
  <1>22. Holds(r)'
    <2>1. \A q \in Ranks : dst_fds'[r][q] \in {NoFd, <<q, call[r]>>}
      BY <1>3, <1>13 DEF Holds, fd
    <2>2. Have(r)' \subseteq Due(Cur(r), r)
      BY <1>3, <1>7, <1>14 DEF Holds
    <2>. QED
      BY <1>3, <1>10, <1>16, <1>20, <2>1, <2>2 DEF Holds
  <1>23. Keeps(r)'
    <2>1. OwnOpen(r)' <=> OwnOpen(r)
      BY <1>1, <1>10, <1>19, <1>20 DEF OwnOpen
    <2>. QED
      BY <1>3, <1>12, <1>14, <1>20, <2>1 DEF Keeps, fd
  <1>24. Queued(r)' \subseteq Queued(r) \ {s} /\ \A q \in Ranks \ {r} : Queued(q)' = Queued(q)
    <2>1. ASSUME NEW i \in 1 .. Len(sock'[r])
          PROVE  sock'[r][i][1] \in Queued(r) \ {s}
      <3>1. sock'[r][i] = sock[r][i + 1] /\ i + 1 \in 1 .. Len(sock[r]) /\ i + 1 # 1
        BY <1>6, <1>12, <2>1
      <3>. QED
        BY <1>3, <1>6, <3>1 DEF Sockets, Queued, s
    <2>2. \A q \in Ranks \ {r} : Queued(q)' = Queued(q)
      BY <1>12 DEF Queued
    <2>. QED
      BY <2>1, <2>2 DEF Queued
  <1>25. s \in Queued(r)
    BY <1>6 DEF Queued, s
  <1>26. Sockets(r)'
    <2>1. \A i \in 1 .. Len(sock'[r]) : sock'[r][i] = sock[r][i + 1] /\ i + 1 \in 1 .. Len(sock[r])
      BY <1>6, <1>12
    <2>2. ASSUME NEW i \in 1 .. Len(sock'[r])
          PROVE  /\ sock'[r][i][2] = <<sock'[r][i][1], call[r]>>
                 /\ sock'[r][i][1] \in Due(Cur(r), r) \ Have(r)'
      <3>1. sock'[r][i][1] # s
        BY <1>24 DEF Queued
      <3>. QED
        BY <1>3, <1>14, <2>1, <3>1 DEF Sockets
    <2>3. ASSUME NEW i \in 1 .. Len(sock'[r]), NEW j \in 1 .. Len(sock'[r]),
                 sock'[r][i][1] = sock'[r][j][1]
          PROVE  i = j
      <3>1. \A a, b \in 1 .. Len(sock[r]) : sock[r][a][1] = sock[r][b][1] => a = b
        BY <1>3 DEF Sockets
      <3>2. /\ i + 1 \in 1 .. Len(sock[r]) /\ j + 1 \in 1 .. Len(sock[r])
            /\ sock[r][i + 1][1] = sock[r][j + 1][1]
        BY <2>1, <2>3
      <3>3. i + 1 = j + 1
        BY <3>1, <3>2
      <3>. QED
        BY <3>3
    <2>. QED
      BY <1>3, <1>10, <2>2, <2>3 DEF Sockets
  <1>27. ASSUME NEW q \in Ranks, NEW item \in Pending(q)
         PROVE  item[1] \in Ranks /\ item[2] \notin Queued(item[1])' /\ item[2] \notin Have(item[1])'
    <2>1. /\ item[1] \in Ranks /\ item[2] \notin Queued(item[1]) /\ item[2] \notin Have(item[1])
      BY <1>10, PendingFacts
    <2>2. CASE item[1] = r
      BY <1>14, <1>24, <1>25, <2>1, <2>2
    <2>3. CASE item[1] # r
      BY <1>14, <1>24, <2>1, <2>3
    <2>. QED
      BY <2>1, <2>2, <2>3
  <1>28. Unsent(r)'
    <2>1. Pending(r)' = Pending(r)
      BY <1>1, <1>20 DEF Pending
    <2>2. Distinct(todo[r])' /\ (Relays(r)' \/ todo'[r] = <<>>)
      BY <1>1, <1>3, <1>19, <1>20 DEF Unsent, Distinct
    <2>. QED
      BY <1>10, <1>20, <1>27, <2>1, <2>2, PendingFacts DEF Unsent
  <1>29. ASSUME NEW q \in Ranks, q # r PROVE RankInv(q)'
    <2>1. Untouched(q) /\ sock'[q] = sock[q]
      BY <1>12, <1>18, <1>29 DEF OthersUntouched
    <2>2. Unsent(q)'
      BY <1>27, <2>1, StillUnsent
    <2>. QED
      BY <2>1, <2>2, OtherRank DEF RankInv
  <1>30. Fence'
    BY <1>3, <1>10 DEF Fence
  <1>. QED
    BY <1>2, <1>17, <1>21, <1>22, <1>23, <1>26, <1>28, <1>29, <1>30 DEF FdInv, RankInv
-------------------------------------------------------------------------------
LEMMA FdInitInv == BrokerInit => FdInv
  <1>. SUFFICES ASSUME BrokerInit PROVE FdInv
    OBVIOUS
  <1>1. PaceInv /\ BarrierTypeOK
    BY PaceInit DEF PaceInv, BarrierInv
  <1>2. /\ script \in Scripts /\ Len(script) \in Nat
        /\ \A r \in Ranks : /\ pc[r] = "idle" /\ call[r] = 0 /\ sock[r] = <<>> /\ got[r] = 0
                            /\ todo[r] = <<>> /\ open[r] = {}
                            /\ \A s \in Ranks : dst_fds[r][s] = NoFd
    BY ScriptsAssumption DEF BrokerInit, Init
  <1>3. TypeOK
    BY <1>1, <1>2, NAssumption, QueueLenAssumption DEF BrokerInit, Init, TypeOK
  <1>4. ASSUME NEW r \in Ranks PROVE RankInv(r)
    <2>1. Have(r) = {} /\ Pending(r) = {}
      BY <1>2 DEF Have, Pending, Items
    <2>2. Counted(r)
      BY <1>2 DEF Counted
    <2>3. Holds(r)
      BY <1>2, <2>1 DEF Holds
    <2>4. Keeps(r)
      BY <1>2, <2>1 DEF Keeps, OwnOpen
    <2>5. Sockets(r)
      BY <1>2 DEF Sockets
    <2>6. Unsent(r)
      BY <1>2, <2>1 DEF Unsent, Distinct
    <2>. QED
      BY <2>2, <2>3, <2>4, <2>5, <2>6 DEF RankInv
  <1>5. Fence
    BY <1>2 DEF Fence
  <1>. QED
    BY <1>1, <1>3, <1>4, <1>5 DEF FdInv

(* An exchange of data leaves everything about descriptors alone.          *)
LEMMA FdStutter ==
  ASSUME FdInv, PaceInv', UNCHANGED fdVars
  PROVE  FdInv'
  <1>1. TypeOK'
    BY DEF FdInv, TypeOK, PaceInv, BarrierInv, Fds, fdVars
  <1>2. ASSUME NEW r \in Ranks PROVE RankInv(r)'
    <2>1. Untouched(r) /\ sock'[r] = sock[r]
      BY DEF Untouched, fdVars
    <2>2. Unsent(r)'
      <3>1. \A d : Queued(d)' = Queued(d) /\ Have(d)' = Have(d) /\ call'[d] = call[d]
        BY DEF Queued, Have, fdVars
      <3>. QED
        BY <2>1, <3>1, StillUnsent
    <2>. QED
      BY <2>1, <2>2, OtherRank DEF RankInv
  <1>3. Fence'
    BY DEF FdInv, Fence, fdVars
  <1>. QED
    BY <1>1, <1>2, <1>3 DEF FdInv

LEMMA FdNextInv ==
  ASSUME FdInv, [BrokerNext]_brokerVars
  PROVE  FdInv'
  <1>1. PaceInv'
    BY PaceNext DEF FdInv
  <1>2. ASSUME NEW r \in Ranks, PassFds(r) PROVE FdInv'
    BY <1>2, RefuseInv, BeginInv, LeaveFirstInv, SendInv, SentInv, RecvInv, ReceivedInv, SecondSyncInv
       DEF PassFds, Step
  <1>3. CASE UNCHANGED fdVars
    BY <1>1, <1>3, FdStutter
  <1>. QED
    BY <1>2, <1>3 DEF BrokerNext, BrokerStep, ExchangeData, brokerVars

(* A rank that got through call k holds what its sources passed to it, and *)
(* that is what it has open.                                               *)
LEMMA DoneFacts ==
  ASSUME FdInv, NEW r \in Ranks, NEW k \in 1 .. Len(script), Done(r, k)
  PROVE  /\ Have(r) = Due(script[k], r) /\ script[k] \in Calls
         /\ \A s \in Ranks : dst_fds[r][s] \in {NoFd, <<s, k>>}
         /\ \A s \in Ranks : <<s, k>> # NoFd
         /\ open[r] = {<<s, k>> : s \in Have(r)}
  <1>1. call[r] = k /\ k > 0 /\ pc[r] \in {"after", "sync2", "idle"} /\ Cur(r) = script[k]
    BY DEF Done, Cur
  <1>2. Holds(r) /\ Keeps(r)
    BY DEF FdInv, RankInv
  <1>3. Have(r) = Due(script[k], r) /\ \A s \in Ranks : dst_fds[r][s] \in {NoFd, <<s, k>>}
    BY <1>1, <1>2 DEF Holds
  <1>4. open[r] = {<<s, k>> : s \in Have(r)}
    BY <1>1, <1>2 DEF Keeps, OwnOpen
  <1>5. script[k] \in Calls
    BY <1>1, CurIsCall DEF FdInv
  <1>6. \A s \in Ranks : <<s, k>> # NoFd
    BY <1>1 DEF NoFd
  <1>. QED
    BY <1>3, <1>4, <1>5, <1>6

(* What the exchange rests on: the ranks of a call are all in it, a        *)
(* descriptor is unsent, queued or received, and a rank has as many open   *)
(* as it received, with its own while it has not sent it.                  *)
THEOREM FdInvariant == BrokerSpec => []FdInv
<1>1. BrokerInit => FdInv
  BY FdInitInv
<1>2. FdInv /\ [BrokerNext]_brokerVars => FdInv'
  BY FdNextInv
<1>. QED  BY <1>1, <1>2, PTL DEF BrokerSpec

(* Every rank that gets through a call holds, under each source rank, the  *)
(* descriptor that this rank passed to the same call, in whatever order    *)
(* the datagrams came in.                                                  *)
THEOREM DescriptorsAreRouted == BrokerSpec => []FdsRouted
  <1>1. FdInv => FdsRouted
    <2>. SUFFICES ASSUME FdInv, NEW r \in Ranks, NEW k \in 1 .. Len(script), Done(r, k),
                         NEW s \in Ranks
                  PROVE  dst_fds[r][s] =
                             IF s # r /\ (script[k].op = "exchange" \/ s = script[k].src)
                               THEN <<s, k>> ELSE NoFd
      BY DEF FdsRouted
    <2>1. s \in Have(r) <=> dst_fds[r][s] = <<s, k>>
      BY DoneFacts DEF Have
    <2>2. s \in Have(r) <=> s # r /\ (script[k].op = "exchange" \/ s = script[k].src)
      BY DoneFacts DEF Due
    <2>. QED
      BY <2>1, <2>2, DoneFacts DEF Have
  <1>. QED
    BY <1>1, FdInvariant, PTL

(* A rank that got through a call has open what it was handed and nothing  *)
(* else: its own descriptor is closed.                                     *)
THEOREM NoDescriptorLeaks == BrokerSpec => []NoFdLeak
  <1>1. FdInv => NoFdLeak
    <2>. SUFFICES ASSUME FdInv, NEW r \in Ranks, NEW k \in 1 .. Len(script), Done(r, k)
                  PROVE  open[r] = {dst_fds[r][s] : s \in Ranks} \ {NoFd}
      BY DEF NoFdLeak
    <2>1. \A s \in Ranks : s \in Have(r) => dst_fds[r][s] = <<s, k>> /\ dst_fds[r][s] # NoFd
      BY DoneFacts DEF Have
    <2>2. \A s \in Ranks : s \notin Have(r) => dst_fds[r][s] = NoFd
      BY DEF Have
    <2>3. Have(r) \subseteq Ranks
      BY DEF Have
    <2>. QED
      BY <2>1, <2>2, <2>3, DoneFacts
  <1>. QED
    BY <1>1, FdInvariant, PTL

(* No datagram of a call is left when a rank has returned from it, so a    *)
(* later receive can not take one for its own call's.                      *)
THEOREM SocketsAreDrained == BrokerSpec => []SocketsDrained
  <1>1. FdInv => SocketsDrained
    <2>. SUFFICES ASSUME FdInv, NEW r \in Ranks, NEW d \in Ranks, pc[r] = "idle",
                         NEW i \in 1 .. Len(sock[d])
                  PROVE  FALSE
      BY DEF SocketsDrained
    <2>1. sock[d] = <<>>
      BY NoDatagrams
    <2>. QED
      BY <2>1
  <1>. QED
    BY <1>1, FdInvariant, PTL
-------------------------------------------------------------------------------
(* exchange_data. *)

(* While a rank copies the slots out, every other rank is in the same call *)
(* and past its write.                                                     *)
LEMMA ReaderSeesCall ==
  ASSUME ExchangeInv, NEW r \in Ranks, dataPc[r] = "read", NEW s \in Ranks
  PROVE  data[s] = dataCall[r] /\ dataPc[s] # "write"
  <1>1. PaceInv /\ Located(r) /\ Located(s) /\ dataPc[s] \in DataPCs /\ Copied(s)
    BY DEF ExchangeInv, PaceInv, PaceTypes
  <1>2. Stage(r) = 2 /\ ~inSync[r]
    BY <1>1 DEF Stage, Located
  <1>3. SameSync(r, s) \/ NextSync(r, s)
    BY <1>1, <1>2, NeighbourSyncs
  <1>4. dataCall[s] = dataCall[r] /\ Stage(s) # 1
    BY <1>2, <1>3 DEF SameSync, NextSync, Following
  <1>5. dataPc[s] \notin {"sync1", "write"}
    BY <1>4 DEF Stage
  <1>. QED
    BY <1>1, <1>4, <1>5 DEF Copied

LEMMA ExchangeInitInv == BrokerInit => ExchangeInv
  <1>. SUFFICES ASSUME BrokerInit PROVE ExchangeInv
    OBVIOUS
  <1>1. PaceInv /\ BarrierTypeOK
    BY PaceInit DEF PaceInv, BarrierInv
  <1>2. DataTypeOK
    BY <1>1, NAssumption DEF BrokerInit, DataInit, DataTypeOK, DataPCs
  <1>3. \A r \in Ranks : Copied(r)
    BY DEF BrokerInit, DataInit, Copied
  <1>. QED
    BY <1>1, <1>2, <1>3 DEF ExchangeInv

(* Types are preserved by every step of a rank. *)
LEMMA DataStepType ==
  ASSUME ExchangeInv, PaceInv', NEW r \in Ranks, DataStep(r)
  PROVE  DataTypeOK'
  <1>1. BarrierTypeOK'
    BY DEF PaceInv, BarrierInv
  <1>2. DataTypeOK
    BY DEF ExchangeInv
  <1>3. N \in Nat
    BY NAssumption
  <1> USE <1>1, <1>2, <1>3 DEF DataTypeOK, DataPCs, DataGoto
  <1>4. CASE BeginData(r)
    BY <1>4 DEF BeginData
  <1>5. CASE LeaveFirstData(r)
    BY <1>5 DEF LeaveFirstData
  <1>6. CASE WriteSlot(r)
    BY <1>6 DEF WriteSlot
  <1>7. CASE EnterSecondData(r)
    BY <1>7 DEF EnterSecondData
  <1>8. CASE LeaveSecondData(r)
    BY <1>8 DEF LeaveSecondData
  <1>9. CASE ReadSlot(r)
    <2>1. next[r] \in Ranks
      BY <1>9 DEF ReadSlot, Ranks
    <2> QED
      BY <1>9, <2>1 DEF ReadSlot
  <1>10. CASE EnterThird(r)
    BY <1>10 DEF EnterThird
  <1>11. CASE LeaveThird(r)
    BY <1>11 DEF LeaveThird
  <1> QED
    BY <1>4, <1>5, <1>6, <1>7, <1>8, <1>9, <1>10, <1>11 DEF DataStep

(* A step of rank r leaves the part of the invariant of another rank alone. *)
LEMMA DataOthersInv ==
  ASSUME ExchangeInv, NEW r \in Ranks, DataStep(r), NEW s \in Ranks, s # r
  PROVE  Copied(s)'
  <1>1. Copied(s) /\ DataTypeOK
    BY DEF ExchangeInv
  <1>2. /\ dataPc'[s] = dataPc[s] /\ dataCall'[s] = dataCall[s] /\ data'[s] = data[s]
        /\ dst'[s] = dst[s] /\ next'[s] = next[s]
    BY <1>1 DEF DataTypeOK, DataStep, DataGoto, BeginData, LeaveFirstData, WriteSlot, EnterSecondData,
                LeaveSecondData, ReadSlot, EnterThird, LeaveThird
  <1>. QED
    BY <1>1, <1>2 DEF Copied

(* A step of rank r keeps its own part of the invariant. *)
LEMMA DataOwnInv ==
  ASSUME ExchangeInv, NEW r \in Ranks, DataStep(r)
  PROVE  Copied(r)'
  <1>1. Copied(r) /\ DataTypeOK
    BY DEF ExchangeInv
  <1>2. N \in Nat
    BY NAssumption
  <1> USE <1>1, <1>2 DEF DataTypeOK, Copied, DataGoto
  <1>3. CASE BeginData(r)
    BY <1>3 DEF BeginData
  <1>4. CASE LeaveFirstData(r)
    BY <1>4 DEF LeaveFirstData
  <1>5. CASE WriteSlot(r)
    BY <1>5 DEF WriteSlot
  <1>6. CASE EnterSecondData(r)
    BY <1>6 DEF EnterSecondData
  <1>7. CASE LeaveSecondData(r)
    BY <1>7 DEF LeaveSecondData, Ranks
  <1>8. CASE ReadSlot(r)
    <2>1. next[r] \in Ranks
      BY <1>8 DEF ReadSlot, Ranks
    <2>2. data[next[r]] = dataCall[r]
      BY <1>8, <2>1, ReaderSeesCall DEF ReadSlot
    <2>3. ASSUME NEW s \in Ranks, s < next'[r] PROVE dst'[r][s] = dataCall'[r]
      <3>a. next[r] \in Int /\ next'[r] = next[r] + 1 /\ s \in Int
        BY <1>8 DEF ReadSlot, Ranks
      <3>1. s < next[r] \/ s = next[r]
        <4>1. s < next[r] + 1
          BY <2>3, <3>a, Zenon
        <4> HIDE <1>1, <1>2 DEF DataTypeOK, Copied, DataGoto
        <4> QED
          BY <3>a, <4>1
      <3>2. dst'[r][s] = IF s = next[r] THEN data[next[r]] ELSE dst[r][s]
        BY <1>8, <2>1 DEF ReadSlot
      <3> QED
        BY <1>8, <2>2, <3>1, <3>2 DEF ReadSlot
    <2> QED
      BY <1>8, <2>3 DEF ReadSlot
  <1>9. CASE EnterThird(r)
    <2>1. ASSUME NEW s \in Ranks PROVE dst[r][s] = dataCall[r]
      <3>1. dataPc[r] = "read" /\ next[r] = N
        BY <1>9 DEF EnterThird
      <3>2. s < next[r]
        BY <1>2, <3>1 DEF Ranks
      <3>. QED
        BY <3>1, <3>2
    <2> QED
      BY <1>9, <2>1 DEF EnterThird
  <1>10. CASE LeaveThird(r)
    BY <1>10 DEF LeaveThird
  <1> QED
    BY <1>3, <1>4, <1>5, <1>6, <1>7, <1>8, <1>9, <1>10 DEF DataStep

LEMMA ExchangeNextInv ==
  ASSUME ExchangeInv, [BrokerNext]_brokerVars
  PROVE  ExchangeInv'
  <1>1. PaceInv'
    BY PaceNext DEF ExchangeInv
  <1>2. ASSUME NEW r \in Ranks, DataStep(r) PROVE ExchangeInv'
    BY <1>1, <1>2, DataStepType, DataOthersInv, DataOwnInv DEF ExchangeInv
  <1>3. CASE UNCHANGED exchangeVars
    BY <1>1, <1>3 DEF exchangeVars, ExchangeInv, DataTypeOK, PaceInv, BarrierInv, Copied
  <1>. QED
    BY <1>2, <1>3 DEF BrokerNext, BrokerStep, ExchangeData, PassFds, brokerVars

(* In every reachable state the inductive invariant of exchange_data holds. *)
THEOREM ExchangeInvariant == BrokerSpec => []ExchangeInv
  <1>1. BrokerInit => ExchangeInv
    BY ExchangeInitInv
  <1>2. ExchangeInv /\ [BrokerNext]_brokerVars => ExchangeInv'
    BY ExchangeNextInv
  <1> QED
    BY <1>1, <1>2, PTL DEF BrokerSpec

(* Type correctness of Vault, callers and copies. *)
THEOREM ExchangeTyped == BrokerSpec => []DataTypeOK
  <1>1. ExchangeInv => DataTypeOK
    BY DEF ExchangeInv
  <1> QED
    BY <1>1, ExchangeInvariant, PTL

(* exchange_data returns on every rank with exactly the payloads that the  *)
(* ranks passed to the same call, for any number of ranks and calls.       *)
THEOREM ExchangeIsCorrect == BrokerSpec => []ExchangeCorrect
  <1>1. ExchangeInv => ExchangeCorrect
    BY DEF ExchangeInv, Copied, ExchangeCorrect
  <1> QED
    BY <1>1, ExchangeInvariant, PTL

(* No slot is written while it may be copied out. *)
THEOREM NoTornSlots == BrokerSpec => []NoTornSlot
  <1>1. ExchangeInv => NoTornSlot
    BY ReaderSeesCall DEF NoTornSlot
  <1> QED
    BY <1>1, ExchangeInvariant, PTL
===============================================================================
