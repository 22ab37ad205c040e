------------------------ MODULE OoverlapAdapterProofs ------------------------
(***************************************************************************)
(* Safety of the vLLM adapter for every number of ranks, layers and        *)
(* forward passes.  The ranks agree on what they do next although they     *)
(* never talk about it: each counts for itself, and the only thing that    *)
(* keeps the counts equal is that every all-reduce is a meeting of all.    *)
(* That a result survives until it is used needs nothing else; the         *)
(* residual stream survives until the pool wraps, and is lost then.        *)
(***************************************************************************)
EXTENDS OoverlapAdapter, TLAPS

(* How far a rank's constructor has come: those that are beyond it went    *)
(* through every exchange, and nobody passes an exchange alone.            *)
SetupInv ==
    \A r \in Ranks :
        /\ pc[r] = "setup" => stage[r] < Enabled
        /\ pc[r] \notin {"setup", "disabled", "raised"} => stage[r] = Enabled
        /\ stage[r] = Enabled => \A p \in Ranks : stage[p] >= Enabled - 1

(* The all-reduce of its forward pass that a rank has not met yet.         *)
Pending(r) ==
    IF pc[r] = "norm" THEN call[r] + 1
    ELSE IF pc[r] \in {"gather", "gathering", "done"} THEN Calls ELSE call[r]

(* The slot that this all-reduce takes.                                    *)
NextSlot(r) == IF pc[r] = "wait" THEN launched[r] ELSE arNext[r]

Agreement ==
    \A p, q \in Ranks :
        /\ fwd[p] = fwd[q]
        /\ Pending(p) = Pending(q)
        /\ NextSlot(p) = NextSlot(q)

(* What a rank's index and slots are worth where it is.                    *)
SlotInv ==
    \A r \in Ranks :
        /\ pc[r] \in {"setup", "gather", "gathering", "done"} => call[r] = 0
        /\ pc[r] \in {"launch", "wait"} =>
              slot[r][view[r]] = Holding("partial", fwd[r], call[r])
        /\ pc[r] = "launch" => view[r] = arNext[r]
        /\ pc[r] = "wait" => view[r] = launched[r]
        /\ pc[r] \in {"wait", "norm"} => arNext[r] = Following(view[r], Slots)
        /\ pc[r] = "norm" => slot[r][view[r]] = Holding("sum", fwd[r], call[r])

(* The k-th slot after that of the residual stream.                        *)
Ahead(r, k) ==
    IF residual[r] + k < Slots THEN residual[r] + k ELSE residual[r] + k - Slots

(* The residual stream is overwritten by the fill of the all-reduce that   *)
(* comes round to its slot; from then on it holds what is put into the     *)
(* slot for an all-reduce, or what a norm makes of that.                   *)
Intact(r) == call[r] < Slots \/ (call[r] = Slots /\ pc[r] = "fill")
Lost(r) ==
    \/ slot[r][residual[r]].holds = "garbage"
    \/ slot[r][residual[r]].call = call[r]

(* Up to then the slot of each all-reduce is the next one ahead.           *)
ResidualOf(r) ==
    /\ IF Intact(r) THEN slot[r][residual[r]] = Expected(r) ELSE Lost(r)
    /\ call[r] <= Slots =>
          /\ pc[r] \in {"fill", "launch"} => arNext[r] = Ahead(r, call[r])
          /\ pc[r] \in {"wait", "norm"} => view[r] = Ahead(r, call[r])

ResidualInv ==
    \A r \in Ranks :
        pc[r] \in {"fill", "launch", "wait", "norm"} /\ call[r] > 0 => ResidualOf(r)

-------------------------------------------------------------------------------
(* The round-robin index, without a remainder. *)
LEMMA FollowingWraps ==
    ASSUME NEW size \in Nat \ {0}, NEW i \in 0..(size - 1)
    PROVE  /\ Following(i, size) = IF i + 1 = size THEN 0 ELSE i + 1
           /\ Following(i, size) \in 0..(size - 1)
<1>1. Following(i, size) = IF i + 1 = size THEN 0 ELSE i + 1
  BY DEF Following
<1>. QED  BY <1>1

LEMMA FollowingSubtracts ==
    ASSUME NEW size \in Nat \ {0}, NEW i \in 0..(size - 1)
    PROVE  Following(i, size) = IF i + 1 < size THEN i + 1 ELSE i + 1 - size
  BY FollowingWraps

(* The slots ahead of that of the residual stream are others than its own, *)
(* up to the one a whole round ahead, and the index goes through them.     *)
LEMMA AheadMoves ==
    ASSUME NEW r \in Ranks, residual[r] \in SlotIds, Slots \in Nat \ {0},
           NEW k \in Nat, 0 < k, k <= Slots
    PROVE  /\ Ahead(r, k) \in SlotIds
           /\ Ahead(r, k) = residual[r] <=> k = Slots
           /\ k < Slots => Following(Ahead(r, k), Slots) = Ahead(r, k + 1)
           /\ Following(residual[r], Slots) = Ahead(r, 1)
<1>. DEFINE res == residual[r]
<1>1. res \in 0..(Slots - 1)
  BY DEF SlotIds
<1>2. Ahead(r, k) = (IF res + k < Slots THEN res + k ELSE res + k - Slots)
  BY DEF Ahead
<1>3. Ahead(r, k) \in 0..(Slots - 1) /\ (Ahead(r, k) = res <=> k = Slots)
  BY <1>1, <1>2
<1>4. ASSUME k < Slots PROVE Following(Ahead(r, k), Slots) = Ahead(r, k + 1)
  <2>1. Following(Ahead(r, k), Slots) =
            (IF Ahead(r, k) + 1 = Slots THEN 0 ELSE Ahead(r, k) + 1)
    BY <1>3, FollowingWraps
  <2>2. Ahead(r, k + 1) =
            (IF res + (k + 1) < Slots THEN res + (k + 1) ELSE res + (k + 1) - Slots)
    BY DEF Ahead
  <2>. QED  BY <1>1, <1>2, <1>4, <2>1, <2>2
<1>5. Following(res, Slots) = Ahead(r, 1)
  <2>1. Following(res, Slots) = (IF res + 1 = Slots THEN 0 ELSE res + 1)
    BY <1>1, FollowingWraps
  <2>2. Ahead(r, 1) = (IF res + 1 < Slots THEN res + 1 ELSE res + 1 - Slots)
    BY DEF Ahead
  <2>. QED  BY <1>1, <2>1, <2>2
<1>. QED  BY <1>3, <1>4, <1>5 DEF SlotIds

LEMMA ConstantsTyped ==
    /\ Calls \in Nat /\ LastCall \in Nat /\ Calls = LastCall + 1
    /\ Enabled \in Nat /\ Enabled > 4
  BY AdapterAssumption DEF Calls, LastCall, Enabled

(* Below the end of an interval there is room for one more. *)
LEMMA Successor ==
    ASSUME NEW n \in Nat, NEW i \in 0..n, i # n
    PROVE  i < n /\ i + 1 \in 0..n
  OBVIOUS

(* What a slot may hold, typed. *)
LEMMA HoldingTyped ==
    ASSUME NEW f \in Nat, NEW c \in Nat,
           NEW what \in {"nothing", "partial", "sum", "normed", "residual", "garbage"}
    PROVE  Holding(what, f, c) \in Content
  BY DEF Holding, Content

LEMMA HoldingFields ==
    ASSUME NEW what, NEW f, NEW c
    PROVE  Holding(what, f, c).holds = what /\ Holding(what, f, c).fwd = f
           /\ Holding(what, f, c).call = c
  BY DEF Holding

LEMMA SumTyped ==
    ASSUME TypeOK, NEW i \in SlotIds, NEW r \in Ranks
    PROVE  SumOf(i)[r] \in Content
<1>1. slot[r][i] \in Content
  BY DEF TypeOK
<1>2. slot[r][i].fwd \in Nat /\ slot[r][i].call \in Nat
  BY <1>1 DEF Content
<1>3. Holding("sum", slot[r][i].fwd, slot[r][i].call) \in Content
  BY <1>2, HoldingTyped
<1>4. Holding("garbage", 0, 0) \in Content
  BY HoldingTyped
<1>. QED  BY <1>3, <1>4 DEF SumOf

-------------------------------------------------------------------------------
LEMMA InitTyped == Init => TypeOK /\ SetupInv
<1>. SUFFICES ASSUME Init PROVE TypeOK /\ SetupInv
  OBVIOUS
<1>1. Holding("nothing", 0, 0) \in Content
  BY HoldingTyped
<1>2. slot \in [Ranks -> [SlotIds -> Content]]
  BY <1>1 DEF Init
<1>3. 0 \in SlotIds /\ 0 \in AgSlotIds
  BY AdapterAssumption DEF SlotIds, AgSlotIds
<1>4. TypeOK
  BY <1>2, <1>3, ConstantsTyped DEF Init, TypeOK
<1>5. SetupInv
  BY ConstantsTyped DEF Init, SetupInv
<1>. QED  BY <1>4, <1>5

LEMMA TypeStep ==
    ASSUME TypeOK, SetupInv, [Next]_vars
    PROVE  TypeOK'
<1>. USE DEF TypeOK
<1>1. ASSUME NEW r \in Ranks, NextStep(r) PROVE TypeOK'
  <2>1. pc[r] = "setup"
    BY <1>1 DEF NextStep, Goto
  <2>2. stage[r] + 1 \in 0..Enabled
    BY <2>1, ConstantsTyped DEF SetupInv
  <2>. QED  BY <1>1, <2>2 DEF NextStep, Goto, position
<1>2. ASSUME NEW r \in Ranks, LeaveSetup(r) \/ RaiseUnavailable(r) \/ RaiseRejected(r)
      PROVE  TypeOK'
  BY <1>2 DEF LeaveSetup, RaiseUnavailable, RaiseRejected, Goto, setupVars, position
<1>3. ASSUME NEW r \in Ranks, Fill(r) PROVE TypeOK'
  <2>1. Holding("partial", fwd[r], call[r]) \in Content
    BY HoldingTyped, ConstantsTyped
  <2>. QED  BY <1>3, <2>1 DEF Fill, Goto, setupVars, position
<1>4. ASSUME NEW r \in Ranks, Launch(r) PROVE TypeOK'
  <2>1. Following(arNext[r], Slots) \in SlotIds
    BY FollowingWraps, AdapterAssumption DEF SlotIds
  <2>. QED  BY <1>4, <2>1 DEF Launch, Goto, setupVars, position
<1>5. ASSUME NEW i \in SlotIds, Meet(i) PROVE TypeOK'
  <2>1. \A r \in Ranks : SumOf(i)[r] \in Content
    BY SumTyped
  <2>2. slot' \in [Ranks -> [SlotIds -> Content]]
    BY <1>5, <2>1 DEF Meet
  <2>. QED  BY <1>5, <2>2 DEF Meet, setupVars, position
<1>6. ASSUME NEW r \in Ranks, Norm(r) PROVE TypeOK'
  <2>1. NormOf(r, "normed") \in Content /\ NormOf(r, "residual") \in Content
    <3>1. /\ Holding("normed", fwd[r], call[r]) \in Content
          /\ Holding("residual", fwd[r], call[r]) \in Content
          /\ Holding("garbage", 0, 0) \in Content
      BY HoldingTyped, ConstantsTyped
    <3>. QED  BY <3>1 DEF NormOf
  <2>2. slot' \in [Ranks -> [SlotIds -> Content]] /\ residual' \in [Ranks -> SlotIds]
    <3>1. CASE call[r] = 0
      BY <1>6, <3>1 DEF Norm
    <3>2. CASE call[r] # 0
      <4>1. slot' = [slot EXCEPT ![r] =
                        [slot[r] EXCEPT ![view[r]] = NormOf(r, "normed"),
                                        ![residual[r]] = NormOf(r, "residual")]]
        BY <1>6, <3>2 DEF Norm
      <4>. QED  BY <1>6, <2>1, <3>2, <4>1 DEF Norm
    <3>. QED  BY <3>1, <3>2
  <2>3. call' \in [Ranks -> 0..LastCall]
    <3>0. call[r] \in 0..LastCall
      OBVIOUS
    <3>1. call[r] # LastCall => call[r] + 1 \in 0..LastCall
      BY <3>0, Successor, ConstantsTyped
    <3>2. 0 \in 0..LastCall
      BY ConstantsTyped
    <3>. QED  BY <1>6, <3>1, <3>2 DEF Norm
  <2>. QED  BY <1>6, <2>2, <2>3 DEF Norm, Goto, setupVars
<1>7. ASSUME NEW r \in Ranks, Gather(r) PROVE TypeOK'
  <2>1. Following(agNext[r], AgSlots) \in AgSlotIds
    BY FollowingWraps, AdapterAssumption DEF AgSlotIds
  <2>. QED  BY <1>7, <2>1 DEF Gather, Goto, setupVars, position
<1>8. CASE MeetGather
  BY <1>8 DEF MeetGather, setupVars
<1>9. CASE UNCHANGED vars
  BY <1>9 DEF vars, setupVars, position
<1>. QED
  BY <1>1, <1>2, <1>3, <1>4, <1>5, <1>6, <1>7, <1>8, <1>9 DEF Next, RankNext

(* The only step that moves a constructor is NextStep, and it enters the   *)
(* last stage only when all ranks have entered the stage before it.        *)
LEMMA SetupStep ==
    ASSUME TypeOK, SetupInv, [Next]_vars
    PROVE  SetupInv'
<1>. USE DEF TypeOK
<1>1. ASSUME NEW r \in Ranks, NextStep(r) PROVE SetupInv'
  <2>. SUFFICES ASSUME NEW q \in Ranks
       PROVE  /\ pc'[q] = "setup" => stage'[q] < Enabled
              /\ pc'[q] \notin {"setup", "disabled", "raised"} => stage'[q] = Enabled
              /\ stage'[q] = Enabled => \A p \in Ranks : stage'[p] >= Enabled - 1
    BY DEF SetupInv
  <2>1. pc[r] = "setup" /\ stage[r] < Enabled
    BY <1>1 DEF NextStep, Goto, SetupInv
  <2>2. /\ stage' = [stage EXCEPT ![r] = stage[r] + 1]
        /\ pc' = IF stage[r] + 1 = Enabled THEN [pc EXCEPT ![r] = "fill"] ELSE pc
    BY <1>1 DEF NextStep, Goto
  <2>3. /\ pc'[q] = "setup" => stage'[q] < Enabled
        /\ pc'[q] \notin {"setup", "disabled", "raised"} => stage'[q] = Enabled
    <3>1. CASE q # r
      BY <2>2, <3>1 DEF SetupInv
    <3>2. CASE q = r /\ stage[r] + 1 = Enabled
      BY <2>2, <3>2
    <3>3. CASE q = r /\ stage[r] + 1 # Enabled
      <4>1. stage[r] \in 0..Enabled /\ stage[r] # Enabled
        BY <2>1
      <4>2. stage[r] + 1 \in 0..Enabled
        BY <4>1, Successor, ConstantsTyped
      <4>3. stage'[r] = stage[r] + 1 /\ pc'[r] = "setup"
        BY <2>1, <2>2, <3>3
      <4>4. stage[r] + 1 < Enabled
        BY <3>3, <4>2, Successor, ConstantsTyped
      <4>. QED  BY <3>3, <4>3, <4>4
    <3>. QED  BY <3>1, <3>2, <3>3
  <2>4. ASSUME stage'[q] = Enabled, NEW p \in Ranks PROVE stage'[p] >= Enabled - 1
    <3>1. stage[p] \in Int /\ stage'[p] \in Int /\ stage'[p] >= stage[p]
      BY <2>2
    <3>2. CASE q # r
      BY <2>2, <2>4, <3>1, <3>2, ConstantsTyped DEF SetupInv
    <3>3. CASE q = r
      <4>1. stage[r] = Enabled - 1
        BY <2>2, <2>4, <3>3, ConstantsTyped
      <4>2. stage[p] >= stage[r]
        BY <1>1, <4>1, ConstantsTyped DEF NextStep, StepOver
      <4>. QED  BY <3>1, <4>1, <4>2, ConstantsTyped
    <3>. QED  BY <3>2, <3>3
  <2>. QED  BY <2>3, <2>4
<1>2. ASSUME NEW r \in Ranks,
             \/ LeaveSetup(r) \/ RaiseUnavailable(r) \/ RaiseRejected(r)
             \/ Fill(r) \/ Launch(r) \/ Norm(r) \/ Gather(r)
      PROVE  SetupInv'
  BY <1>2 DEF LeaveSetup, RaiseUnavailable, RaiseRejected, Fill, Launch, Norm, Gather,
              Goto, setupVars, SetupInv
<1>3. ASSUME NEW i \in SlotIds, Meet(i) PROVE SetupInv'
  BY <1>3 DEF Meet, setupVars, SetupInv
<1>4. CASE MeetGather
  BY <1>4 DEF MeetGather, setupVars, SetupInv
<1>5. CASE UNCHANGED vars
  BY <1>5 DEF vars, setupVars, SetupInv
<1>. QED
  BY <1>1, <1>2, <1>3, <1>4, <1>5 DEF Next, RankNext

(* Every variable has its type: in particular the round-robin indices stay *)
(* within their pools and no constructor runs past its last step.          *)
THEOREM AdapterTyped == Spec => [](TypeOK /\ SetupInv)
<1>1. TypeOK /\ SetupInv /\ [Next]_vars => (TypeOK /\ SetupInv)'
  BY TypeStep, SetupStep
<1>. QED  BY InitTyped, <1>1, PTL DEF Spec

(* A slot is filled only when all peers have imported it, however the      *)
(* constructors fail.                                                      *)
THEOREM SlotsAreImported == Spec => []SlotsImported
<1>1. SetupInv => SlotsImported
  BY DEF SetupInv, SlotsImported
<1>. QED  BY AdapterTyped, <1>1, PTL

-------------------------------------------------------------------------------
(* No step of a rank alone changes what it will meet next.                 *)
LEMMA PendingKept ==
    ASSUME TypeOK, NEW r \in Ranks, RankNext(r), NEW q \in Ranks
    PROVE  fwd'[q] = fwd[q] /\ Pending(q)' = Pending(q) /\ NextSlot(q)' = NextSlot(q)
<1>. USE DEF TypeOK, Pending, NextSlot
<1>1. CASE NextStep(r)
  BY <1>1 DEF NextStep, Goto, position
<1>2. CASE LeaveSetup(r) \/ RaiseUnavailable(r) \/ RaiseRejected(r)
  BY <1>2 DEF LeaveSetup, RaiseUnavailable, RaiseRejected, Goto, position
<1>3. CASE Fill(r)
  BY <1>3 DEF Fill, Goto, position
<1>4. CASE Launch(r)
  BY <1>4 DEF Launch, Goto, position
<1>5. CASE Norm(r)
  BY <1>5, ConstantsTyped DEF Norm, Goto
<1>6. CASE Gather(r)
  BY <1>6 DEF Gather, Goto, position
<1>. QED  BY <1>1, <1>2, <1>3, <1>4, <1>5, <1>6 DEF RankNext

(* In a meeting all ranks are at the same all-reduce of the same pass, and *)
(* their slots hold their contributions to it.                             *)
LEMMA MeetingAgrees ==
    ASSUME TypeOK, Agreement, SlotInv, NEW i \in SlotIds, Meet(i), NEW r \in Ranks
    PROVE  /\ SumOf(i)[r] = Holding("sum", fwd[r], call[r])
           /\ view[r] = i /\ launched[r] = i
           /\ \A q \in Ranks : fwd[q] = fwd[r] /\ call[q] = call[r]
<1>1. \A q \in Ranks : pc[q] = "wait" /\ launched[q] = i
  BY DEF Meet
<1>2. \A q \in Ranks : view[q] = i /\ slot[q][i] = Holding("partial", fwd[q], call[q])
  BY <1>1 DEF SlotInv
<1>3. \A p, q \in Ranks : fwd[p] = fwd[q] /\ call[p] = call[q]
  BY <1>1 DEF Agreement, Pending
<1>4. \A p, q \in Ranks : slot[p][i] = slot[q][i]
  BY <1>2, <1>3
<1>5. \A q \in Ranks : /\ slot[q][i].holds = "partial"
                       /\ slot[q][i].fwd = fwd[q] /\ slot[q][i].call = call[q]
  BY <1>2, HoldingFields
<1>6. SumOf(i) = [q \in Ranks |-> Holding("sum", slot[q][i].fwd, slot[q][i].call)]
  BY <1>4, <1>5 DEF SumOf
<1>. QED  BY <1>1, <1>2, <1>3, <1>5, <1>6

LEMMA AgreementStep ==
    ASSUME TypeOK, Agreement, SlotInv, [Next]_vars
    PROVE  Agreement'
<1>1. ASSUME NEW r \in Ranks, RankNext(r) PROVE Agreement'
  BY <1>1, PendingKept DEF Agreement
<1>2. ASSUME NEW i \in SlotIds, Meet(i) PROVE Agreement'
  <2>. SUFFICES ASSUME NEW p \in Ranks, NEW q \in Ranks
       PROVE  fwd'[p] = fwd'[q] /\ Pending(p)' = Pending(q)' /\ NextSlot(p)' = NextSlot(q)'
    BY DEF Agreement
  <2>1. pc'[p] = "norm" /\ pc'[q] = "norm"
    BY <1>2 DEF Meet
  <2>2. UNCHANGED <<fwd, call, arNext>>
    BY <1>2 DEF Meet, position
  <2>3. fwd[p] = fwd[q] /\ call[p] = call[q]
    BY <1>2, MeetingAgrees
  <2>4. arNext[p] = Following(i, Slots) /\ arNext[q] = Following(i, Slots)
    BY <1>2, MeetingAgrees DEF Meet, SlotInv
  <2>. QED  BY <2>1, <2>2, <2>3, <2>4 DEF Pending, NextSlot
<1>3. CASE MeetGather
  <2>. SUFFICES ASSUME NEW p \in Ranks, NEW q \in Ranks
       PROVE  fwd'[p] = fwd'[q] /\ Pending(p)' = Pending(q)' /\ NextSlot(p)' = NextSlot(q)'
    BY DEF Agreement
  <2>1. /\ pc[p] = "gathering" /\ pc[q] = "gathering"
        /\ call'[p] = call[p] /\ call'[q] = call[q]
        /\ arNext' = arNext /\ launched' = launched
    BY <1>3 DEF MeetGather
  <2>2. call[p] = 0 /\ call[q] = 0
    BY <2>1 DEF SlotInv
  <2>3. fwd[p] = fwd[q] /\ arNext[p] = arNext[q]
    BY <2>1 DEF Agreement, NextSlot
  <2>4. fwd'[p] = fwd'[q] /\ pc'[p] = pc'[q] /\ pc'[p] \in {"done", "fill"}
    BY <1>3, <2>3 DEF MeetGather
  <2>. QED  BY <2>1, <2>2, <2>3, <2>4 DEF Pending, NextSlot
<1>4. CASE UNCHANGED vars
  BY <1>4 DEF vars, position, Agreement, Pending, NextSlot
<1>. QED  BY <1>1, <1>2, <1>3, <1>4 DEF Next

LEMMA SlotStep ==
    ASSUME TypeOK, Agreement, SlotInv, [Next]_vars
    PROVE  SlotInv'
<1>. USE DEF TypeOK
<1>1. ASSUME NEW r \in Ranks, NextStep(r) PROVE SlotInv'
  BY <1>1 DEF NextStep, Goto, position, SlotInv
<1>2. ASSUME NEW r \in Ranks, LeaveSetup(r) \/ RaiseUnavailable(r) \/ RaiseRejected(r)
      PROVE  SlotInv'
  BY <1>2 DEF LeaveSetup, RaiseUnavailable, RaiseRejected, Goto, position, SlotInv
<1>3. ASSUME NEW r \in Ranks, Fill(r) PROVE SlotInv'
  BY <1>3 DEF Fill, Goto, position, SlotInv
<1>4. ASSUME NEW r \in Ranks, Launch(r) PROVE SlotInv'
  BY <1>4 DEF Launch, Goto, position, SlotInv
<1>5. ASSUME NEW i \in SlotIds, Meet(i) PROVE SlotInv'
  <2>. SUFFICES ASSUME NEW r \in Ranks
       PROVE  /\ pc'[r] = "norm"
              /\ arNext'[r] = Following(view'[r], Slots)
              /\ slot'[r][view'[r]] = Holding("sum", fwd'[r], call'[r])
    BY <1>5 DEF Meet, SlotInv
  <2>1. pc'[r] = "norm" /\ pc[r] = "wait"
    BY <1>5 DEF Meet
  <2>2. /\ arNext' = arNext /\ view' = view /\ fwd' = fwd /\ call' = call
        /\ slot'[r] = [slot[r] EXCEPT ![i] = SumOf(i)[r]]
    BY <1>5 DEF Meet, position
  <2>3. SumOf(i)[r] = Holding("sum", fwd[r], call[r]) /\ view[r] = i
    BY <1>5, MeetingAgrees
  <2>4. arNext[r] = Following(view[r], Slots)
    BY <2>1 DEF SlotInv
  <2>5. slot'[r][i] = SumOf(i)[r]
    BY <2>2
  <2>. QED  BY <2>1, <2>2, <2>3, <2>4, <2>5
<1>6. ASSUME NEW r \in Ranks, Norm(r) PROVE SlotInv'
  <2>1. /\ pc[r] = "norm" /\ pc' = [pc EXCEPT ![r] = IF call[r] = LastCall THEN "gather" ELSE "fill"]
        /\ call' = [call EXCEPT ![r] = IF call[r] = LastCall THEN 0 ELSE call[r] + 1]
        /\ fwd' = fwd /\ arNext' = arNext /\ view' = view /\ launched' = launched
    BY <1>6 DEF Norm, Goto
  <2>2. \A q \in Ranks \ {r} : slot'[q] = slot[q]
    BY <1>6 DEF Norm
  <2>. QED  BY <2>1, <2>2 DEF SlotInv
<1>7. ASSUME NEW r \in Ranks, Gather(r) PROVE SlotInv'
  BY <1>7 DEF Gather, Goto, position, SlotInv
<1>8. CASE MeetGather
  BY <1>8 DEF MeetGather, SlotInv
<1>9. CASE UNCHANGED vars
  BY <1>9 DEF vars, position, SlotInv
<1>. QED
  BY <1>1, <1>2, <1>3, <1>4, <1>5, <1>6, <1>7, <1>8, <1>9 DEF Next, RankNext

(* The ranks, who count for themselves, never disagree on the all-reduce   *)
(* and the slot they meet in.                                              *)
THEOREM RanksAgree == Spec => [](TypeOK /\ Agreement /\ SlotInv)
<1>1. Init => Agreement /\ SlotInv
  BY DEF Init, Agreement, SlotInv, Pending, NextSlot
<1>2. TypeOK /\ Agreement /\ SlotInv /\ [Next]_vars => (Agreement /\ SlotInv)'
  BY AgreementStep, SlotStep
<1>. QED  BY AdapterTyped, <1>1, <1>2, PTL DEF Spec

(* Every norm reads the whole sum of its own all-reduce, for any pool.     *)
THEOREM ResultsAreSums == Spec => []ResultIsSum
<1>1. SlotInv => ResultIsSum
  BY DEF SlotInv, ResultIsSum
<1>. QED  BY RanksAgree, <1>1, PTL


-------------------------------------------------------------------------------
(* A rank whose own variables a step leaves alone.                         *)
Unmoved(r) ==
    /\ pc'[r] = pc[r] /\ fwd'[r] = fwd[r] /\ call'[r] = call[r] /\ arNext'[r] = arNext[r]
    /\ view'[r] = view[r] /\ residual'[r] = residual[r] /\ slot'[r] = slot[r]

Here(r) ==
    pc[r] \in {"fill", "launch", "wait", "norm"} /\ call[r] > 0 => ResidualOf(r)

LEMMA HereStays ==
    ASSUME NEW r \in Ranks, Here(r), Unmoved(r)
    PROVE  Here(r)'
  BY DEF Here, Unmoved, ResidualOf, Intact, Lost, Expected, Ahead

(* What is lost is not what a norm would need.                             *)
LEMMA LostIsNotExpected ==
    ASSUME TypeOK, NEW r \in Ranks, call[r] > 0, Lost(r)
    PROVE  slot[r][residual[r]] # Expected(r)
<1>1. call[r] \in Nat
  BY ConstantsTyped DEF TypeOK
<1>2. Expected(r).holds # "garbage" /\ Expected(r).call = call[r] - 1
  BY HoldingFields DEF Expected
<1>3. call[r] - 1 # call[r]
  BY <1>1
<1>. QED  BY <1>2, <1>3 DEF Lost

(* The fill writes into the slot ahead: that of the residual stream after  *)
(* exactly as many all-reduces as there are slots.                         *)
LEMMA FillHere ==
    ASSUME TypeOK, NEW r \in Ranks, Here(r), Fill(r)
    PROVE  Here(r)'
<1>. SUFFICES ASSUME call'[r] > 0 PROVE ResidualOf(r)'
  BY DEF Here
<1>1. /\ pc[r] = "fill" /\ pc'[r] = "launch" /\ view'[r] = arNext[r]
      /\ slot'[r] = [slot[r] EXCEPT ![arNext[r]] = Holding("partial", fwd[r], call[r])]
      /\ fwd' = fwd /\ call' = call /\ arNext' = arNext /\ residual' = residual
  BY DEF Fill, Goto, TypeOK, position
<1>2. ResidualOf(r)
  BY <1>1 DEF Here
<1>3. /\ call[r] \in Nat /\ call[r] > 0 /\ Slots \in Nat \ {0}
      /\ residual[r] \in SlotIds /\ arNext[r] \in SlotIds /\ slot[r] \in [SlotIds -> Content]
  BY <1>1, ConstantsTyped, AdapterAssumption DEF TypeOK
<1>4. call[r] <= Slots => arNext[r] = Ahead(r, call[r])
  BY <1>1, <1>2 DEF ResidualOf
<1>5. Expected(r)' = Expected(r) /\ Ahead(r, call[r])' = Ahead(r, call[r])
  BY <1>1 DEF Expected, Ahead
<1>6. CASE call[r] < Slots
  <2>1. arNext[r] # residual[r]
    BY <1>3, <1>4, <1>6, AheadMoves
  <2>2. slot'[r][residual[r]] = Expected(r)
    BY <1>1, <1>2, <1>6, <2>1 DEF ResidualOf, Intact
  <2>3. Intact(r)'
    BY <1>1, <1>6 DEF Intact
  <2>. QED  BY <1>1, <1>4, <1>5, <2>2, <2>3 DEF ResidualOf
<1>7. CASE call[r] = Slots
  <2>1. arNext[r] = residual[r]
    BY <1>3, <1>4, <1>7, AheadMoves
  <2>2. slot'[r][residual[r]] = Holding("partial", fwd[r], call[r])
    BY <1>1, <1>3, <2>1
  <2>3. Lost(r)' /\ ~Intact(r)'
    BY <1>1, <1>3, <1>7, <2>2, HoldingFields DEF Lost, Intact
  <2>. QED  BY <1>1, <1>4, <1>5, <2>3 DEF ResidualOf
<1>8. CASE call[r] > Slots
  <2>1. Lost(r) /\ ~Intact(r)'
    BY <1>1, <1>2, <1>3, <1>8 DEF ResidualOf, Intact
  <2>2. Lost(r)'
    <3>1. CASE arNext[r] = residual[r]
      <4>1. slot'[r][residual[r]] = Holding("partial", fwd[r], call[r])
        BY <1>1, <1>3, <3>1
      <4>. QED  BY <1>1, <4>1, HoldingFields DEF Lost
    <3>2. CASE arNext[r] # residual[r]
      <4>1. slot'[r][residual[r]] = slot[r][residual[r]]
        BY <1>1, <1>3, <3>2
      <4>. QED  BY <1>1, <2>1, <4>1 DEF Lost
    <3>. QED  BY <3>1, <3>2
  <2>3. ~(call'[r] <= Slots)
    BY <1>1, <1>3, <1>8
  <2>. QED  BY <2>1, <2>2, <2>3 DEF ResidualOf
<1>. QED  BY <1>3, <1>6, <1>7, <1>8

(* A meeting puts the sum into the slot of the view, and nowhere else.     *)
LEMMA MeetHere ==
    ASSUME TypeOK, Agreement, SlotInv, NEW i \in SlotIds, Meet(i), NEW r \in Ranks, Here(r)
    PROVE  Here(r)'
<1>. SUFFICES ASSUME call'[r] > 0 PROVE ResidualOf(r)'
  BY DEF Here
<1>1. /\ pc[r] = "wait" /\ pc'[r] = "norm"
      /\ slot'[r] = [slot[r] EXCEPT ![i] = SumOf(i)[r]]
      /\ fwd' = fwd /\ call' = call /\ view' = view /\ residual' = residual
  BY DEF Meet, position
<1>2. ResidualOf(r)
  BY <1>1 DEF Here
<1>3. SumOf(i)[r] = Holding("sum", fwd[r], call[r]) /\ view[r] = i
  BY MeetingAgrees
<1>4. /\ call[r] \in Nat /\ call[r] > 0 /\ Slots \in Nat \ {0}
      /\ residual[r] \in SlotIds /\ slot[r] \in [SlotIds -> Content]
  BY <1>1, ConstantsTyped, AdapterAssumption DEF TypeOK
<1>5. call[r] <= Slots => view[r] = Ahead(r, call[r])
  BY <1>1, <1>2 DEF ResidualOf
<1>6. Expected(r)' = Expected(r) /\ Ahead(r, call[r])' = Ahead(r, call[r])
  BY <1>1 DEF Expected, Ahead
<1>7. CASE call[r] < Slots
  <2>1. i # residual[r]
    BY <1>3, <1>4, <1>5, <1>7, AheadMoves
  <2>2. slot'[r][residual[r]] = Expected(r)
    BY <1>1, <1>2, <1>7, <2>1 DEF ResidualOf, Intact
  <2>3. Intact(r)'
    BY <1>1, <1>7 DEF Intact
  <2>. QED  BY <1>1, <1>5, <1>6, <2>2, <2>3 DEF ResidualOf
<1>8. CASE ~(call[r] < Slots)
  <2>1. Lost(r) /\ ~Intact(r)'
    BY <1>1, <1>2, <1>8 DEF ResidualOf, Intact
  <2>2. Lost(r)'
    <3>1. CASE i = residual[r]
      <4>1. slot'[r][residual[r]] = Holding("sum", fwd[r], call[r])
        BY <1>1, <1>3, <1>4, <3>1
      <4>. QED  BY <1>1, <4>1, HoldingFields DEF Lost
    <3>2. CASE i # residual[r]
      <4>1. slot'[r][residual[r]] = slot[r][residual[r]]
        BY <1>1, <1>4, <3>2
      <4>. QED  BY <1>1, <2>1, <4>1 DEF Lost
    <3>. QED  BY <3>1, <3>2
  <2>. QED  BY <1>1, <1>5, <1>6, <2>1, <2>2 DEF ResidualOf
<1>. QED  BY <1>7, <1>8

(* The first norm of a pass makes the embedding's slot that of the         *)
(* residual stream.                                                        *)
LEMMA FirstNormHere ==
    ASSUME TypeOK, SlotInv, NEW r \in Ranks, Norm(r), call[r] = 0
    PROVE  Here(r)'
<1>. SUFFICES ASSUME call'[r] > 0 PROVE ResidualOf(r)'
  BY DEF Here
<1>1. /\ pc[r] = "norm" /\ call'[r] = (IF call[r] = LastCall THEN 0 ELSE call[r] + 1)
      /\ pc'[r] = (IF call[r] = LastCall THEN "gather" ELSE "fill")
      /\ residual'[r] = view[r] /\ slot' = slot
      /\ fwd' = fwd /\ arNext' = arNext /\ view' = view
  BY DEF Norm, Goto, TypeOK
<1>2. call'[r] = 1 /\ pc'[r] = "fill"
  BY <1>1
<1>3. slot[r][view[r]] = Holding("sum", fwd[r], 0) /\ arNext[r] = Following(view[r], Slots)
  BY <1>1 DEF SlotInv
<1>4. slot'[r][residual'[r]] = Expected(r)'
  BY <1>1, <1>2, <1>3 DEF Expected
<1>5. Slots \in Nat \ {0} /\ view[r] \in 0..(Slots - 1)
  BY AdapterAssumption DEF TypeOK, SlotIds
<1>6. Intact(r)'
  BY <1>2, <1>5 DEF Intact
<1>7. arNext'[r] = Ahead(r, call[r])'
  <2>1. Following(view[r], Slots) =
            (IF view[r] + 1 < Slots THEN view[r] + 1 ELSE view[r] + 1 - Slots)
    BY <1>5, FollowingSubtracts
  <2>. QED  BY <1>1, <1>2, <1>3, <2>1 DEF Ahead
<1>. QED  BY <1>1, <1>2, <1>4, <1>6, <1>7 DEF ResidualOf

(* Any other adds to an intact residual, and leaves a lost one lost.       *)
LEMMA NextNormHere ==
    ASSUME TypeOK, SlotInv, NEW r \in Ranks, Here(r), Norm(r), call[r] # 0
    PROVE  Here(r)'
<1>. SUFFICES ASSUME call'[r] > 0 PROVE ResidualOf(r)'
  BY DEF Here
<1>1. /\ pc[r] = "norm" /\ call'[r] = (IF call[r] = LastCall THEN 0 ELSE call[r] + 1)
      /\ pc'[r] = (IF call[r] = LastCall THEN "gather" ELSE "fill")
      /\ slot'[r] = [slot[r] EXCEPT ![view[r]] = NormOf(r, "normed"),
                                    ![residual[r]] = NormOf(r, "residual")]
      /\ fwd' = fwd /\ arNext' = arNext /\ view' = view /\ residual' = residual
  BY DEF Norm, Goto, TypeOK
<1>2. call'[r] = call[r] + 1 /\ pc'[r] = "fill"
  BY <1>1
<1>3. /\ call[r] \in Nat /\ call[r] > 0 /\ Slots \in Nat \ {0}
      /\ residual[r] \in SlotIds /\ view[r] \in SlotIds /\ slot[r] \in [SlotIds -> Content]
  BY ConstantsTyped, AdapterAssumption DEF TypeOK
<1>4. ResidualOf(r)
  BY <1>1, <1>3 DEF Here
<1>5. slot'[r][residual[r]] = NormOf(r, "residual")
  BY <1>1, <1>3
<1>6. slot[r][view[r]] = Holding("sum", fwd[r], call[r]) /\ arNext[r] = Following(view[r], Slots)
  BY <1>1 DEF SlotInv
<1>7. CASE call[r] < Slots
  <2>1. slot[r][residual[r]] = Expected(r)
    BY <1>4, <1>7 DEF ResidualOf, Intact
  <2>2. NormOf(r, "residual") = Holding("residual", fwd[r], call[r])
    BY <1>6, <2>1 DEF NormOf
  <2>3. call[r] <= Slots
    BY <1>3, <1>7
  <2>4. slot'[r][residual'[r]] = Expected(r)'
    <3>1. call'[r] # 1 /\ call'[r] - 1 = call[r]
      <4>. PICK c \in Nat : c = call[r] /\ c > 0
        BY <1>3
      <4>1. call'[r] = c + 1
        BY <1>2
      <4>. QED  BY <4>1
    <3>2. fwd'[r] = fwd[r]
      BY <1>1
    <3>3. Expected(r)' = Holding("residual", fwd[r], call[r])
      BY <3>1, <3>2 DEF Expected
    <3>. QED  BY <1>1, <1>5, <2>2, <3>3
  <2>5. Intact(r)'
    BY <1>2, <1>3, <1>7 DEF Intact
  <2>6. view[r] = Ahead(r, call[r])
    BY <1>1, <1>4, <2>3 DEF ResidualOf
  <2>7. arNext[r] = Ahead(r, call[r] + 1)
    BY <1>3, <1>6, <1>7, <2>3, <2>6, AheadMoves
  <2>8. arNext'[r] = Ahead(r, call[r])'
    BY <1>1, <1>2, <2>7 DEF Ahead
  <2>. QED  BY <1>1, <1>2, <2>4, <2>5, <2>8 DEF ResidualOf
<1>8. CASE ~(call[r] < Slots)
  <2>1. Lost(r)
    BY <1>1, <1>4, <1>8 DEF ResidualOf, Intact
  <2>2. NormOf(r, "residual") = Holding("garbage", 0, 0)
    BY <1>3, <2>1, LostIsNotExpected DEF NormOf
  <2>3. Lost(r)'
    BY <1>1, <1>5, <2>2, HoldingFields DEF Lost
  <2>4. ~(call'[r] <= Slots) /\ ~Intact(r)'
    BY <1>2, <1>3, <1>8 DEF Intact
  <2>. QED  BY <2>3, <2>4 DEF ResidualOf
<1>. QED  BY <1>7, <1>8

(* A rank's own steps, and the meetings.                                   *)
LEMMA ResidualStep ==
    ASSUME TypeOK, Agreement, SlotInv, ResidualInv, [Next]_vars
    PROVE  ResidualInv'
<1>a. \A r \in Ranks : Here(r)
  BY DEF ResidualInv, Here
<1>b. (\A r \in Ranks : Here(r)') => ResidualInv'
  BY DEF ResidualInv, Here
<1>1. ASSUME NEW r \in Ranks, RankNext(r), NEW q \in Ranks, q # r PROVE Unmoved(q)
  BY <1>1 DEF TypeOK, RankNext, NextStep, LeaveSetup, RaiseUnavailable, RaiseRejected, Fill,
              Launch, Norm, Gather, Goto, position, Unmoved
<1>2. ASSUME NEW r \in Ranks, RankNext(r) PROVE Here(r)'
  <2>1. CASE NextStep(r)
    <3>1. CASE pc'[r] = "fill"
      <4>1. call'[r] = 0
        BY <2>1, <3>1 DEF NextStep, Goto, position, SlotInv
      <4>. QED  BY <4>1 DEF Here
    <3>2. CASE pc'[r] # "fill"
      <4>1. pc'[r] = "setup"
        BY <2>1, <3>2 DEF NextStep, Goto, TypeOK
      <4>. QED  BY <4>1 DEF Here
    <3>. QED  BY <3>1, <3>2
  <2>2. CASE LeaveSetup(r) \/ RaiseUnavailable(r) \/ RaiseRejected(r)
    <3>1. pc'[r] \in {"disabled", "raised"}
      BY <2>2 DEF LeaveSetup, RaiseUnavailable, RaiseRejected, Goto, TypeOK
    <3>. QED  BY <3>1 DEF Here
  <2>3. CASE Fill(r)
    BY <1>a, <2>3, FillHere
  <2>4. CASE Launch(r)
    <3>1. /\ pc[r] = "launch" /\ pc'[r] = "wait" /\ view[r] = arNext[r]
          /\ fwd' = fwd /\ call' = call /\ view' = view /\ residual' = residual /\ slot' = slot
      BY <2>4 DEF Launch, Goto, TypeOK, position, SlotInv
    <3>. QED  BY <1>a, <3>1 DEF Here, ResidualOf, Intact, Lost, Expected, Ahead
  <2>5. CASE Norm(r)
    BY <1>a, <2>5, FirstNormHere, NextNormHere
  <2>6. CASE Gather(r)
    <3>1. pc'[r] = "gathering"
      BY <2>6 DEF Gather, Goto, TypeOK
    <3>. QED  BY <3>1 DEF Here
  <2>. QED  BY <1>2, <2>1, <2>2, <2>3, <2>4, <2>5, <2>6 DEF RankNext
<1>3. ASSUME NEW r \in Ranks, RankNext(r) PROVE ResidualInv'
  <2>1. ASSUME NEW q \in Ranks PROVE Here(q)'
    BY <1>a, <1>1, <1>2, <1>3, HereStays
  <2>. QED  BY <1>b, <2>1
<1>4. ASSUME NEW i \in SlotIds, Meet(i) PROVE ResidualInv'
  BY <1>a, <1>b, <1>4, MeetHere
<1>5. CASE MeetGather
  <2>1. \A r \in Ranks : call'[r] = 0
    BY <1>5 DEF MeetGather, SlotInv
  <2>. QED  BY <2>1 DEF ResidualInv
<1>6. CASE UNCHANGED vars
  <2>1. \A r \in Ranks : Unmoved(r)
    BY <1>6 DEF vars, position, Unmoved
  <2>. QED  BY <1>a, <1>b, <2>1, HereStays
<1>. QED  BY <1>3, <1>4, <1>5, <1>6 DEF Next

(* For every pool and every number of layers: a norm finds the residual    *)
(* stream as the last one left it exactly as long as the pool has not      *)
(* wrapped since the embedding.                                            *)
THEOREM ResidualLastsUntilWrap == Spec => []ResidualUntilWrap
<1>1. Init => ResidualInv
  BY DEF Init, ResidualInv
<1>2. TypeOK /\ Agreement /\ SlotInv /\ ResidualInv /\ [Next]_vars => ResidualInv'
  BY ResidualStep
<1>3. TypeOK /\ ResidualInv => ResidualUntilWrap
  <2>. SUFFICES ASSUME TypeOK, ResidualInv, NEW r \in Ranks, pc[r] = "norm", call[r] > 0
       PROVE  slot[r][residual[r]] = Expected(r) <=> call[r] < Slots
    BY DEF ResidualUntilWrap
  <2>1. ResidualOf(r)
    BY DEF ResidualInv
  <2>2. Intact(r) <=> call[r] < Slots
    BY DEF Intact
  <2>. QED  BY <2>1, <2>2, LostIsNotExpected DEF ResidualOf
<1>. QED  BY RanksAgree, <1>1, <1>2, <1>3, PTL DEF Spec
===============================================================================
