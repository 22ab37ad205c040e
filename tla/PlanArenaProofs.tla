---------------------------- MODULE PlanArenaProofs ----------------------------
(***************************************************************************)
(* Plans that are shared over the arena, for any number of processes and   *)
(* any sequence of requests that all of them make.  A rank decides alone   *)
(* whether a request is a hit; that all decide alike is what keeps them in *)
(* step in the barriers of the misses, and the barriers keep rank 0 from   *)
(* touching a plan that somebody still reads.                              *)
(***************************************************************************)
EXTENDS PlanArena, FiniteSetTheorems, TLAPS

(* Whether the i-th request of a program has to build a plan: the first    *)
(* one, one that is refused, and one for another key than the request      *)
(* before it.  The code never computes this; it is what every rank's key   *)
(* cache amounts to.                                                       *)
Miss(p, i) == i = 1 \/ p[i] \in Unsupported \/ p[i] # p[i - 1]

(* The misses among the requests before the i-th. *)
Misses(p, i) == {j \in 1 .. i - 1 : Miss(p, j)}

Answer(p, i) == IF p[i] \in Unsupported THEN "unsupported" ELSE "plan"

SetupPCs == {"unlink", "create", "truncate", "initialise", "open", "wait"}

(* Two syncs for each miss, and where the rank is in its request. *)
SyncsOf(r) ==
    2 * Cardinality(Misses(program, at[r])) +
    (IF pc[r] \in {"sync1", "clear", "build", "publish"} THEN 1
     ELSE IF pc[r] \in {"sync2", "adopt"} \/ (pc[r] = "lower" /\ Miss(program, at[r])) THEN 2
     ELSE 0)

RankTyped(r) ==
    /\ at[r] \in 1 .. Len(program) + 1
    /\ pc[r] \in IF r = 0 THEN PCs \ {"open", "wait"}
                 ELSE PCs \ {"unlink", "create", "truncate", "initialise", "clear", "build"}
    /\ pc[r] \in SetupPCs => at[r] = 1
    /\ pc[r] \notin SetupPCs \cup {"idle"} => at[r] <= Len(program)
    /\ pc[r] \notin {"unlink", "create", "open"} => mapped[r] = "new"

(* The key cache of a rank holds the last plan, if the last request was    *)
(* not refused.                                                            *)
CacheInv(r) ==
    LET last == IF pc[r] = "lower" THEN at[r] ELSE at[r] - 1 IN
    /\ valid[r] <=> last >= 1 /\ program[last] \notin Unsupported
    /\ valid[r] => cached[r] = program[last]

RankInv(r) ==
    /\ RankTyped(r)
    /\ CacheInv(r)
    /\ entered[r] = SyncsOf(r)
    /\ inSync[r] <=> pc[r] \in {"sync1", "sync2"}
    /\ pc[r] \in {"sync1", "clear", "build", "publish", "sync2", "adopt"} => Miss(program, at[r])
    /\ pc[r] = "lower" => program[at[r]] \notin Unsupported
    /\ Len(outcome[r]) = at[r] - 1
    /\ \A i \in 1 .. at[r] - 1 : outcome[r][i] = Answer(program, i)

(* The request whose result the arena holds, unless rank 0 is replacing it. *)
Held == IF pc[0] \in {"publish", "sync2", "adopt", "lower"} THEN at[0] ELSE at[0] - 1

Describes(i) ==
    /\ arena["new"].described
    /\ arena["new"].status = IF program[i] \in Unsupported THEN "unsupported" ELSE "success"
    /\ program[i] \notin Unsupported => arena["new"].plan = program[i]

ArenaInv ==
    /\ name = IF pc[0] \in {"unlink", "create"} THEN "none" ELSE "new"
    /\ pc[0] \notin {"clear", "build"} /\ Held >= 1 => Describes(Held)

ArenaRecord == [sized : BOOLEAN, ready : BOOLEAN, described : BOOLEAN,
                status : {"success", "unsupported"},
                plan : Keys \cup {"none", "partial", "old plan"}]

PlanTyped ==
    /\ BarrierTypeOK
    /\ program \in Seq(Keys)
    /\ at \in [Ranks -> Nat]
    /\ pc \in [Ranks -> PCs]
    /\ mapped \in [Ranks -> Objects \cup {"none"}]
    /\ arena \in [Objects -> ArenaRecord]
    /\ valid \in [Ranks -> BOOLEAN]
    /\ cached \in [Ranks -> Keys \cup {"none"}]
    /\ outcome \in [Ranks -> Seq({"plan", "unsupported"})]

PlanInv == PlanTyped /\ BarrierInv /\ ArenaInv /\ \A r \in Ranks : RankInv(r)
-------------------------------------------------------------------------------
(* The generation barrier alone, whose critical sections are embedded in   *)
(* the steps of this module.                                               *)

(* There are N ranks, a finite set. *)
LEMMA RanksFinite == IsFiniteSet(Ranks) /\ Cardinality(Ranks) = N
  BY NAssumption, FS_Interval DEF Ranks

(* A sync's generation never equals its successor, even where it wraps. *)
LEMMA NextGenFact ==
  ASSUME NEW g \in 0 .. MaxGen
  PROVE  NextGen(g) \in 0 .. MaxGen /\ NextGen(g) # g
  BY MaxGenAssumption DEF NextGen

(* The counter starts at zero with nobody waiting. *)
LEMMA BarrierInitInv == BarrierInit => BarrierInv
  <1> SUFFICES ASSUME BarrierInit PROVE BarrierInv
    OBVIOUS
  <1>1. Waiting = {}
    BY DEF BarrierInit, Waiting
  <1>2. BarrierTypeOK
    BY NAssumption, MaxGenAssumption DEF BarrierInit, BarrierTypeOK
  <1>3. CountIsWaiting
    BY <1>1, FS_EmptySet DEF BarrierInit, CountIsWaiting
  <1>4. InStep
    BY <1>1 DEF BarrierInit, InStep
  <1> QED
    BY <1>2, <1>3, <1>4 DEF BarrierInv

(* An arrival keeps the counter equal to the number of waiting ranks; the  *)
(* last one finds all the others waiting and releases them together.       *)
LEMMA SyncEnterInv ==
  ASSUME BarrierInv, NEW r \in Ranks, SyncEnter(r)
  PROVE  BarrierInv'
  <1> USE DEF BarrierInv
  <1>1. r \notin Waiting /\ Waiting \subseteq Ranks \ {r}
    BY DEF SyncEnter, Waiting
  <1>2. IsFiniteSet(Waiting) /\ Cardinality(Waiting) \in Nat
    BY RanksFinite, FS_Subset, FS_CardinalityType DEF Waiting
  <1>3. CASE barrier_count + 1 = N
    <2>1. Cardinality(Ranks \ {r}) = N - 1 /\ IsFiniteSet(Ranks \ {r})
      BY RanksFinite, FS_RemoveElement
    <2>2. Waiting = Ranks \ {r}
      BY <1>1, <1>3, <2>1, NAssumption, FS_Subset
         DEF CountIsWaiting, BarrierTypeOK
    <2>3. \A s \in Ranks : generation'[s] = barrier_generation
      BY <2>2 DEF SyncEnter, Waiting, BarrierTypeOK
    <2>4. BarrierTypeOK'
      BY <1>3, NAssumption, NextGenFact DEF SyncEnter, BarrierTypeOK
    <2>5. barrier_generation' # barrier_generation
      BY <1>3, NextGenFact DEF SyncEnter, BarrierTypeOK
    <2>6. Waiting' = {}
      BY <2>3, <2>5 DEF Waiting
    <2>7. CountIsWaiting'
      BY <1>3, <2>6, FS_EmptySet DEF SyncEnter, CountIsWaiting
    <2>8. InStep'
      <3> SUFFICES ASSUME NEW p \in Ranks, NEW q \in Ranks
                   PROVE  entered'[p] - entered'[q] = 0
        BY <2>6 DEF InStep
      <3>1. entered[p] - entered[r] = IF p = r THEN 0 ELSE 1
        BY <2>2 DEF InStep, BarrierTypeOK
      <3>2. entered[q] - entered[r] = IF q = r THEN 0 ELSE 1
        BY <2>2 DEF InStep, BarrierTypeOK
      <3> QED
        BY <3>1, <3>2 DEF SyncEnter, BarrierTypeOK
    <2> QED
      BY <2>4, <2>7, <2>8
  <1>4. CASE barrier_count + 1 # N
    <2>1. BarrierTypeOK'
      BY <1>4, NAssumption DEF SyncEnter, BarrierTypeOK
    <2>2. Waiting' = Waiting \cup {r}
      BY <1>4 DEF SyncEnter, Waiting, BarrierTypeOK
    <2>3. CountIsWaiting'
      BY <1>1, <1>2, <1>4, <2>2, FS_AddElement DEF SyncEnter, CountIsWaiting
    <2>4. InStep'
      BY <1>1, <2>2 DEF SyncEnter, InStep, BarrierTypeOK
    <2> QED
      BY <2>1, <2>3, <2>4
  <1> QED
    BY <1>3, <1>4

(* Leaving does not change who is waiting in the current round. *)
LEMMA SyncLeaveInv ==
  ASSUME BarrierInv, NEW r \in Ranks, SyncLeave(r)
  PROVE  BarrierInv'
  <1> USE DEF BarrierInv
  <1>1. Waiting' = Waiting
    BY DEF SyncLeave, Waiting, BarrierTypeOK
  <1>2. BarrierTypeOK'
    BY DEF SyncLeave, BarrierTypeOK
  <1> QED
    BY <1>1, <1>2 DEF SyncLeave, CountIsWaiting, InStep

(* A step that touches nothing of the barrier. *)
LEMMA BarrierStutter ==
  ASSUME BarrierInv, UNCHANGED barrierVars
  PROVE  BarrierInv'
  BY DEF barrierVars, BarrierInv, BarrierTypeOK, CountIsWaiting, InStep, Waiting

(* Two ranks outside of sync have made the same number of calls, and no    *)
(* rank is behind a rank that is outside of sync.                          *)
LEMMA OutsideInStep ==
  ASSUME BarrierInv, NEW r \in Ranks, ~inSync[r], NEW s \in Ranks
  PROVE  /\ entered[s] = entered[r] \/ entered[s] = entered[r] + 1
         /\ ~inSync[s] => entered[s] = entered[r]
  BY DEF BarrierInv, InStep, Waiting, BarrierTypeOK
-------------------------------------------------------------------------------
(* A set of naturals that is not empty has a least element. *)
LEMMA LeastNatural ==
  ASSUME NEW S \in SUBSET Nat, S # {}
  PROVE  \E n \in S : \A m \in S : n <= m
  <1>. DEFINE Below == {1 .. n : n \in S}
  <1>1. Below \subseteq FiniteSubsetsOf(Nat) /\ Below # {}
    <2>1. ASSUME NEW n \in S PROVE 1 .. n \in SUBSET Nat /\ IsFiniteSet(1 .. n)
      BY FS_Interval
    <2>. QED
      BY <2>1 DEF FiniteSubsetsOf
  <1>2. PICK x \in Below : \A y \in Below : ~(<<y, x>> \in StrictSubsetOrdering(Nat))
    BY <1>1, FS_StrictSubsetOrderingWellFounded, WFMin
  <1>3. PICK n \in S : x = 1 .. n
    OBVIOUS
  <1>4. ASSUME NEW m \in S, m < n PROVE FALSE
    <2>1. 1 .. m \subseteq 1 .. n /\ n \in 1 .. n /\ n \notin 1 .. m
      BY <1>4
    <2>2. <<1 .. m, x>> \in StrictSubsetOrdering(Nat)
      BY <1>3, <2>1 DEF StrictSubsetOrdering
    <2>. QED
      BY <1>2, <2>2
  <1>. QED
    BY <1>4

(* Without a miss in between, two requests are the same request. *)
LEMMA SameRun ==
  ASSUME NEW p, NEW i \in Nat, NEW j \in Nat, 1 <= i, i <= j,
         \A k \in i + 1 .. j : ~Miss(p, k)
  PROVE  p[j] = p[i]
  <1>. DEFINE Other == {k \in i .. j : p[k] # p[i]}
  <1>1. SUFFICES ASSUME Other # {} PROVE FALSE
    OBVIOUS
  <1>2. PICK k \in Other : \A m \in Other : k <= m
    <2>1. Other \in SUBSET Nat
      OBVIOUS
    <2>. HIDE DEF Other
    <2>. QED
      BY <1>1, <2>1, LeastNatural
  <1>3. k \in i + 1 .. j /\ k - 1 \in i .. j /\ ~(k <= k - 1)
    BY <1>2
  <1>4. p[k - 1] = p[i]
    BY <1>2, <1>3
  <1>. QED
    <2>1. k # 1 /\ ~Miss(p, k)
      BY <1>3
    <2>2. p[k] = p[k - 1]
      BY <2>1 DEF Miss
    <2>. QED
      BY <1>2, <1>4, <2>2

(* How the number of misses grows from one request to the next. *)
LEMMA MissesGrow ==
  ASSUME NEW p, NEW i \in Nat, 1 <= i
  PROVE  /\ IsFiniteSet(Misses(p, i)) /\ Cardinality(Misses(p, i)) \in Nat
         /\ Cardinality(Misses(p, i + 1)) =
              Cardinality(Misses(p, i)) + (IF Miss(p, i) THEN 1 ELSE 0)
  <1>1. IsFiniteSet(Misses(p, i)) /\ Cardinality(Misses(p, i)) \in Nat
    <2>1. Misses(p, i) \in SUBSET (1 .. i - 1)
      BY DEF Misses
    <2>2. IsFiniteSet(1 .. i - 1)
      BY FS_Interval
    <2>. QED
      BY <2>1, <2>2, FS_Subset, FS_CardinalityType
  <1>2. i \notin Misses(p, i)
    BY DEF Misses
  <1>3. Misses(p, i + 1) = IF Miss(p, i) THEN Misses(p, i) \cup {i} ELSE Misses(p, i)
    <2>1. 1 .. (i + 1) - 1 = (1 .. i - 1) \cup {i}
      OBVIOUS
    <2>. QED
      BY <2>1, Zenon DEF Misses
  <1>. QED
    BY <1>1, <1>2, <1>3, FS_AddElement

(* Equally many misses before two requests: none from the one to the other. *)
LEMMA SameMisses ==
  ASSUME NEW p, NEW i \in Nat, NEW j \in Nat, 1 <= i, i <= j,
         Cardinality(Misses(p, i)) = Cardinality(Misses(p, j))
  PROVE  \A k \in i .. j - 1 : ~Miss(p, k)
  <1>1. Misses(p, i) \in SUBSET Misses(p, j) /\ IsFiniteSet(Misses(p, j))
    <2>1. 1 .. i - 1 \subseteq 1 .. j - 1 /\ 1 <= j
      OBVIOUS
    <2>2. IsFiniteSet(Misses(p, j))
      BY <2>1, MissesGrow
    <2>. QED
      BY <2>1, <2>2 DEF Misses
  <1>2. Misses(p, i) = Misses(p, j)
    BY <1>1, FS_Subset
  <1>3. ASSUME NEW k \in i .. j - 1, Miss(p, k) PROVE FALSE
    <2>1. k \in Misses(p, j) /\ k \notin Misses(p, i)
      BY <1>3 DEF Misses
    <2>. QED
      BY <1>2, <2>1
  <1>. QED
    BY <1>3

(* Behind the same number of misses, the last requests are the same. *)
LEMMA SameRequest ==
  ASSUME NEW p, NEW i \in Nat, NEW j \in Nat, 1 <= i, 1 <= j,
         Cardinality(Misses(p, i + 1)) = Cardinality(Misses(p, j + 1))
  PROVE  p[i] = p[j]
  <1>1. ASSUME NEW a \in Nat, NEW b \in Nat, 1 <= a, a <= b,
               Cardinality(Misses(p, a + 1)) = Cardinality(Misses(p, b + 1))
        PROVE  p[b] = p[a]
    <2>1. \A k \in a + 1 .. b : ~Miss(p, k)
      BY <1>1, SameMisses
    <2>. QED
      BY <1>1, <2>1, SameRun
  <1>. QED
    BY <1>1

(* The first request is a miss. *)
LEMMA NoMissYet == \A p : Cardinality(Misses(p, 1)) = 0
  <1>1. \A p : Misses(p, 1) = {}
    BY DEF Misses
  <1>. QED
    BY <1>1, FS_EmptySet

LEMMA SomeMiss ==
  ASSUME NEW p, NEW i \in Nat, 1 <= i
  PROVE  Cardinality(Misses(p, i + 1)) # 0
  <1>1. 1 \in Misses(p, i + 1)
    BY DEF Misses, Miss
  <1>2. IsFiniteSet(Misses(p, i + 1))
    BY MissesGrow
  <1>. QED
    BY <1>1, <1>2, FS_EmptySet

(* Rank 0 exists. *)
LEMMA RankZero == 0 \in Ranks
  BY NAssumption DEF Ranks
-------------------------------------------------------------------------------
(* The facts about one rank that most steps below use. *)
LEMMA OneRank ==
  ASSUME PlanInv, NEW r \in Ranks
  PROVE  /\ RankInv(r) /\ at[r] \in Nat /\ 1 <= at[r] /\ at[r] <= Len(program) + 1
         /\ pc[r] \in PCs /\ Len(program) \in Nat /\ valid[r] \in BOOLEAN
  <1>1. RankInv(r)
    BY DEF PlanInv
  <1>2. program \in Seq(Keys) /\ at \in [Ranks -> Nat] /\ pc \in [Ranks -> PCs]
        /\ valid \in [Ranks -> BOOLEAN]
    BY DEF PlanInv, PlanTyped
  <1>3. at[r] \in 1 .. Len(program) + 1
    BY <1>1 DEF RankInv, RankTyped
  <1>4. Len(program) \in Nat
    BY <1>2
  <1>. QED
    BY <1>1, <1>2, <1>3, <1>4

(* What a rank that is not meeting the others has behind it: 2 syncs for    *)
(* every miss up to its last answered request, the seen-th.                 *)
Seen(r) == IF pc[r] \in {"adopt", "lower"} THEN at[r] ELSE at[r] - 1

(* Whoever looks at the arena finds the result of its own last request: the *)
(* barrier leaves rank 0 no place where it would be replacing it.           *)
LEMMA ArenaSeen ==
  ASSUME PlanInv, NEW r \in Ranks, pc[r] \in {"idle", "adopt", "lower"}, Seen(r) >= 1
  PROVE  /\ pc[0] \notin SetupPCs \cup {"clear", "build"}
         /\ Held >= 1 /\ program[Held] = program[Seen(r)]
         /\ Describes(Seen(r))
  <1>1. /\ program \in Seq(Keys) /\ at \in [Ranks -> Nat] /\ pc \in [Ranks -> PCs]
        /\ BarrierInv
    BY DEF PlanInv, PlanTyped
  <1>2. RankInv(r) /\ RankInv(0) /\ 0 \in Ranks
    BY RankZero DEF PlanInv
  <1>3. at[r] \in Nat /\ at[0] \in Nat /\ 1 <= at[r] /\ 1 <= at[0] /\ Seen(r) \in Nat
    BY <1>1, <1>2 DEF RankInv, RankTyped, Seen
  <1>a. /\ Cardinality(Misses(program, at[r])) \in Nat /\ Cardinality(Misses(program, at[0])) \in Nat
        /\ Cardinality(Misses(program, at[r] + 1)) =
             Cardinality(Misses(program, at[r])) + (IF Miss(program, at[r]) THEN 1 ELSE 0)
        /\ Cardinality(Misses(program, at[0] + 1)) =
             Cardinality(Misses(program, at[0])) + (IF Miss(program, at[0]) THEN 1 ELSE 0)
    BY <1>3, MissesGrow
  <1>4. entered[r] = 2 * Cardinality(Misses(program, Seen(r) + 1)) /\ ~inSync[r]
    <2>1. CASE pc[r] = "idle"
      <3>1. Seen(r) + 1 = at[r]
        BY <1>3, <2>1 DEF Seen
      <3>. QED
        BY <1>2, <1>a, <2>1, <3>1 DEF RankInv, SyncsOf
    <2>2. CASE pc[r] \in {"adopt", "lower"}
      <3>1. Seen(r) + 1 = at[r] + 1
        BY <2>2 DEF Seen
      <3>. QED
        BY <1>2, <1>a, <2>2, <3>1 DEF RankInv, SyncsOf
    <2>. QED
      BY <2>1, <2>2
  <1>5. /\ entered[0] = entered[r] \/ entered[0] = entered[r] + 1
        /\ ~inSync[0] => entered[0] = entered[r]
    BY <1>1, <1>2, <1>4, OutsideInStep
  <1>6. Cardinality(Misses(program, Seen(r) + 1)) # 0 /\ Cardinality(Misses(program, Seen(r) + 1)) \in Nat
    BY <1>3, SomeMiss, MissesGrow
  <1>7. pc[0] \notin SetupPCs
    <2>1. SUFFICES ASSUME pc[0] \in SetupPCs PROVE FALSE
      OBVIOUS
    <2>2. at[0] = 1 /\ Cardinality(Misses(program, 1)) = 0
      BY <1>2, <2>1, NoMissYet DEF RankInv, RankTyped
    <2>3. entered[0] = 0
      BY <1>2, <2>1, <2>2 DEF RankInv, SyncsOf, SetupPCs
    <2>. QED
      BY <1>4, <1>5, <1>6, <2>3
  <1>8. /\ pc[0] \notin {"clear", "build", "publish"}
        /\ Cardinality(Misses(program, Held + 1)) = Cardinality(Misses(program, Seen(r) + 1))
    <2>1. CASE pc[0] \in {"sync1", "clear", "build", "publish"}
      <3>1. entered[0] = 2 * Cardinality(Misses(program, at[0])) + 1
        BY <1>2, <2>1 DEF RankInv, SyncsOf
      <3>2. pc[0] = "sync1"
        <4>1. entered[0] # entered[r]
          BY <1>4, <1>6, <1>a, <3>1
        <4>. QED
          BY <1>2, <1>5, <2>1, <4>1 DEF RankInv
      <3>3. Held + 1 = at[0]
        BY <1>3, <3>2 DEF Held
      <3>. QED
        BY <1>4, <1>5, <1>6, <1>a, <3>1, <3>2, <3>3
    <2>2. CASE pc[0] = "idle"
      <3>1. Held + 1 = at[0]
        BY <1>3, <2>2 DEF Held
      <3>2. entered[0] = 2 * Cardinality(Misses(program, at[0]))
        BY <1>2, <1>a, <2>2 DEF RankInv, SyncsOf
      <3>. QED
        BY <1>4, <1>5, <1>6, <1>a, <2>2, <3>1, <3>2
    <2>3. CASE pc[0] \in {"sync2", "adopt", "lower"}
      <3>1. Held + 1 = at[0] + 1
        BY <1>3, <2>3 DEF Held
      <3>2. entered[0] = 2 * Cardinality(Misses(program, at[0] + 1))
        BY <1>2, <1>a, <2>3 DEF RankInv, SyncsOf
      <3>3. Cardinality(Misses(program, at[0] + 1)) \in Nat
        BY <1>a
      <3>. QED
        BY <1>4, <1>5, <1>6, <2>3, <3>1, <3>2, <3>3
    <2>. QED
      BY <1>1, <1>2, <1>7, <2>1, <2>2, <2>3 DEF PCs, SetupPCs
  <1>9. Held \in Nat /\ Held >= 1
    <2>1. Held \in Nat
      BY <1>3 DEF Held
    <2>2. Held # 0
      <3>1. Cardinality(Misses(program, 0 + 1)) = 0
        BY NoMissYet
      <3>. QED
        BY <1>6, <1>8, <3>1
    <2>. QED
      BY <2>1, <2>2
  <1>10. program[Held] = program[Seen(r)]
    BY <1>1, <1>3, <1>8, <1>9, SameRequest
  <1>11. Describes(Held)
    BY <1>8, <1>9 DEF PlanInv, ArenaInv
  <1>. QED
    BY <1>7, <1>8, <1>9, <1>10, <1>11 DEF Describes

(* All ranks take the same requests for hits: those that are no miss. *)
LEMMA HitsAreShared ==
  ASSUME PlanInv, NEW r \in Ranks, Asks(r)
  PROVE  IsHit(r) <=> ~Miss(program, at[r])
  <1>1. RankInv(r) /\ at[r] \in Nat /\ 1 <= at[r] /\ pc[r] = "idle" /\ valid[r] \in BOOLEAN
    BY OneRank DEF Asks
  <1>2. mapped[r] = "new" /\ Seen(r) = at[r] - 1 /\ at[r] - 1 \in Nat
    <2>1. at[r] - 1 \in Nat
      BY <1>1
    <2>. QED
      BY <1>1, <2>1 DEF RankInv, RankTyped, Seen
  <1>3. /\ valid[r] <=> at[r] - 1 >= 1 /\ program[at[r] - 1] \notin Unsupported
        /\ valid[r] => cached[r] = program[at[r] - 1]
    BY <1>1 DEF RankInv, CacheInv
  <1>4. ASSUME IsHit(r) PROVE ~Miss(program, at[r])
    <2>1. valid[r] /\ cached[r] = program[at[r]]
      BY <1>4 DEF IsHit, Request
    <2>2. at[r] # 1
      BY <1>1, <1>3, <2>1
    <2>. QED
      BY <1>3, <2>1, <2>2 DEF Miss
  <1>5. ASSUME ~Miss(program, at[r]) PROVE IsHit(r)
    <2>1. /\ at[r] # 1 /\ program[at[r]] \notin Unsupported
          /\ program[at[r]] = program[at[r] - 1]
      BY <1>5 DEF Miss
    <2>2. at[r] - 1 >= 1
      BY <1>1, <2>1
    <2>3. Describes(at[r] - 1)
      BY <1>1, <1>2, <2>2, ArenaSeen
    <2>. QED
      BY <1>2, <1>3, <2>1, <2>2, <2>3 DEF IsHit, Request, Matches, Describes
  <1>. QED
    BY <1>4, <1>5

(* Behind the publish barrier all ranks find the answer to their request. *)
LEMMA AdoptSees ==
  ASSUME PlanInv, NEW r \in Ranks, pc[r] = "adopt"
  PROVE  /\ mapped[r] = "new" /\ Describes(at[r])
         /\ Matches(r) <=> program[at[r]] \notin Unsupported
  <1>1. RankInv(r) /\ at[r] \in Nat /\ 1 <= at[r]
    BY OneRank
  <1>2. Seen(r) = at[r] /\ mapped[r] = "new" /\ Seen(r) >= 1
    BY <1>1 DEF RankInv, RankTyped, Seen
  <1>3. Describes(at[r])
    BY <1>1, <1>2, ArenaSeen
  <1>. QED
    BY <1>2, <1>3 DEF Matches, Describes

(* The state in which the ranks are created satisfies the invariant. *)
LEMMA PlanInitInv == LeftBehind = FALSE /\ Init => PlanInv
  <1>. SUFFICES ASSUME LeftBehind = FALSE, Init PROVE PlanInv
    OBVIOUS
  <1>1. BarrierInv
    BY BarrierInitInv DEF Init
  <1>2. program \in Seq(Keys)
    BY ProgramsAssumption DEF Init
  <1>3. PlanTyped
    <2>1. arena \in [Objects -> ArenaRecord]
      BY DEF Init, Left, Zeroed, Objects, ArenaRecord
    <2>2. BarrierTypeOK
      BY <1>1 DEF BarrierInv
    <2>3. outcome \in [Ranks -> Seq({"plan", "unsupported"})]
      BY DEF Init
    <2>4. /\ at \in [Ranks -> Nat] /\ pc \in [Ranks -> PCs]
          /\ mapped \in [Ranks -> Objects \cup {"none"}]
          /\ valid \in [Ranks -> BOOLEAN]
          /\ cached \in [Ranks -> Keys \cup {"none"}]
      BY DEF Init, PCs
    <2>. QED
      BY <1>2, <2>1, <2>2, <2>3, <2>4 DEF PlanTyped
  <1>4. ASSUME NEW r \in Ranks PROVE RankInv(r)
    <2>0. /\ at[r] = 1 /\ pc[r] = (IF r = 0 THEN "unlink" ELSE "open") /\ valid[r] = FALSE
          /\ outcome[r] = <<>> /\ entered[r] = 0 /\ inSync[r] = FALSE
      BY <1>4 DEF Init, BarrierInit
    <2>1. entered[r] = SyncsOf(r)
      BY <2>0, NoMissYet DEF SyncsOf
    <2>2. RankTyped(r)
      <3>1. Len(program) \in Nat
        BY <1>2
      <3>. QED
        BY <2>0, <3>1 DEF RankTyped, PCs, SetupPCs
    <2>3. CacheInv(r)
      BY <2>0 DEF CacheInv
    <2>. QED
      BY <2>0, <2>1, <2>2, <2>3 DEF RankInv
  <1>5. ArenaInv
    BY RankZero DEF Init, ArenaInv, Held
  <1>. QED
    BY <1>1, <1>3, <1>4, <1>5 DEF PlanInv
-------------------------------------------------------------------------------
(* What rank r does; building the plan is part of what rank 0 does. *)
RankStep(r) == Step(r) \/ (r = 0 /\ Rank0)

LEMMA NextIsRankStep == Next => \E r \in Ranks : RankStep(r)
  BY RankZero DEF Next, RankStep

(* A step leaves everything alone that belongs to another rank. *)
LEMMA OthersUntouched ==
  ASSUME PlanInv, NEW r \in Ranks, RankStep(r)
  PROVE  /\ program' = program
         /\ \A s \in Ranks \ {r} :
              /\ at'[s] = at[s] /\ pc'[s] = pc[s] /\ mapped'[s] = mapped[s]
              /\ valid'[s] = valid[s] /\ cached'[s] = cached[s] /\ outcome'[s] = outcome[s]
              /\ entered'[s] = entered[s] /\ inSync'[s] = inSync[s]
  <1>1. /\ at \in [Ranks -> Nat] /\ pc \in [Ranks -> PCs]
        /\ mapped \in [Ranks -> Objects \cup {"none"}] /\ valid \in [Ranks -> BOOLEAN]
        /\ cached \in [Ranks -> Keys \cup {"none"}]
        /\ outcome \in [Ranks -> Seq({"plan", "unsupported"})]
        /\ entered \in [Ranks -> Nat] /\ inSync \in [Ranks -> BOOLEAN]
    BY DEF PlanInv, PlanTyped, BarrierTypeOK
  <1>. USE <1>1
  <1>2. CASE Step(r)
    BY <1>2 DEF Step, Open, WaitReady, Hit, EnterFirst, LeaveFirst, EnterSecond,
                LeaveSecond, Adopt, Reject, Lowered, Return, Goto, SyncEnter, SyncLeave,
                barrierVars
  <1>3. CASE r = 0 /\ Rank0
    BY <1>3 DEF Rank0, Unlink, Create, Truncate, Initialise, Clear, Build, Goto, barrierVars
  <1>. QED
    BY <1>2, <1>3 DEF RankStep

(* The barrier's part of a step. *)
LEMMA PlanBarrier ==
  ASSUME PlanInv, NEW r \in Ranks, RankStep(r)
  PROVE  BarrierInv'
  <1>1. BarrierInv
    BY DEF PlanInv
  <1>2. SyncEnter(r) \/ SyncLeave(r) \/ UNCHANGED barrierVars
    BY DEF RankStep, Step, Rank0, Open, WaitReady, Hit, EnterFirst, LeaveFirst, EnterSecond,
           LeaveSecond, Adopt, Reject, Lowered, Unlink, Create, Truncate, Initialise, Clear,
           Build
  <1>. QED
    BY <1>1, <1>2, SyncEnterInv, SyncLeaveInv, BarrierStutter

(* The result of a refused request says so; it is never an internal error. *)
LEMMA RejectAnswers ==
  ASSUME PlanInv, NEW r \in Ranks, Reject(r)
  PROVE  /\ program[at[r]] \in Unsupported
         /\ Return(r, "unsupported")
  <1>1. /\ mapped[r] = "new" /\ Describes(at[r])
        /\ Matches(r) <=> program[at[r]] \notin Unsupported
    BY AdoptSees DEF Reject
  <1>2. program[at[r]] \in Unsupported
    BY <1>1 DEF Reject
  <1>3. arena[mapped[r]].status = "unsupported"
    BY <1>1, <1>2 DEF Describes
  <1>. QED
    BY <1>2, <1>3 DEF Reject

(* Types are preserved. *)
LEMMA PlanTypedStep ==
  ASSUME PlanInv, NEW r \in Ranks, RankStep(r)
  PROVE  PlanTyped'
  <1>1. /\ program \in Seq(Keys)
        /\ at \in [Ranks -> Nat] /\ pc \in [Ranks -> PCs]
        /\ mapped \in [Ranks -> Objects \cup {"none"}] /\ valid \in [Ranks -> BOOLEAN]
        /\ cached \in [Ranks -> Keys \cup {"none"}]
        /\ outcome \in [Ranks -> Seq({"plan", "unsupported"})]
        /\ arena \in [Objects -> ArenaRecord]
    BY DEF PlanInv, PlanTyped
  <1>2. BarrierTypeOK' /\ program' = program
    BY PlanBarrier, OthersUntouched DEF BarrierInv
  <1>3. RankInv(r) /\ at[r] \in Nat /\ name \in {"none", "new"} /\ Len(program) \in Nat
    BY OneRank DEF PlanInv, ArenaInv
  <1>4. pc[r] \notin SetupPCs \cup {"idle"} \/ Asks(r) => Request(r) \in Keys
    BY <1>1, <1>3, OneRank DEF RankInv, RankTyped, Asks, Request
  <1>5. at' \in [Ranks -> Nat]
    BY <1>1, <1>3 DEF RankStep, Step, Rank0, Open, WaitReady, Hit, EnterFirst, LeaveFirst,
         EnterSecond, LeaveSecond, Adopt, Reject, Lowered, Unlink, Create, Truncate,
         Initialise, Clear, Build, Return
  <1>6. pc' \in [Ranks -> PCs]
    BY <1>1 DEF RankStep, Step, Rank0, Open, WaitReady, Hit, EnterFirst, LeaveFirst,
         EnterSecond, LeaveSecond, Adopt, Reject, Lowered, Unlink, Create, Truncate,
         Initialise, Clear, Build, Return, Goto, PCs
  <1>7. mapped' \in [Ranks -> Objects \cup {"none"}]
    BY <1>1, <1>3 DEF RankStep, Step, Rank0, Open, WaitReady, Hit, EnterFirst, LeaveFirst,
         EnterSecond, LeaveSecond, Adopt, Reject, Lowered, Unlink, Create, Truncate,
         Initialise, Clear, Build, Objects
  <1>8. valid' \in [Ranks -> BOOLEAN]
    BY <1>1 DEF RankStep, Step, Rank0, Open, WaitReady, Hit, EnterFirst, LeaveFirst,
         EnterSecond, LeaveSecond, Adopt, Reject, Lowered, Unlink, Create, Truncate,
         Initialise, Clear, Build
  <1>9. cached' \in [Ranks -> Keys \cup {"none"}]
    <2>1. CASE Adopt(r)
      BY <1>1, <1>4, <2>1 DEF Adopt, SetupPCs
    <2>2. CASE ~Adopt(r)
      BY <1>1, <2>2 DEF RankStep, Step, Rank0, Open, WaitReady, Hit, EnterFirst, LeaveFirst,
         EnterSecond, LeaveSecond, Reject, Lowered, Unlink, Create, Truncate,
         Initialise, Clear, Build
    <2>. QED
      BY <2>1, <2>2
  <1>10. outcome' \in [Ranks -> Seq({"plan", "unsupported"})]
    <2>1. ASSUME NEW x \in {"plan", "unsupported"}, Return(r, x)
          PROVE  outcome' \in [Ranks -> Seq({"plan", "unsupported"})]
      <3>1. Append(outcome[r], x) \in Seq({"plan", "unsupported"})
        BY <1>1
      <3>. QED
        BY <1>1, <2>1, <3>1 DEF Return
    <2>2. CASE Reject(r)
      BY <2>1, <2>2, RejectAnswers
    <2>3. CASE Lowered(r)
      BY <2>1, <2>3 DEF Lowered
    <2>4. CASE ~Reject(r) /\ ~Lowered(r)
      BY <1>1, <2>4 DEF RankStep, Step, Rank0, Open, WaitReady, Hit, EnterFirst, LeaveFirst,
         EnterSecond, LeaveSecond, Adopt, Unlink, Create, Truncate,
         Initialise, Clear, Build
    <2>. QED
      BY <2>2, <2>3, <2>4
  <1>11. arena' \in [Objects -> ArenaRecord]
    <2>1. CASE Truncate
      BY <1>1, <2>1 DEF Truncate, Zeroed, ArenaRecord, Objects
    <2>2. CASE Initialise
      BY <1>1, <2>2 DEF Initialise, ArenaRecord, Objects
    <2>3. CASE r = 0 /\ Clear
      BY <1>1, <2>3 DEF Clear, ArenaRecord
    <2>4. CASE r = 0 /\ Build
      <3>1. Request(0) \in Keys
        BY <1>4, <2>4 DEF Build, Goto, SetupPCs
      <3>. DEFINE ok == Request(0) \notin Unsupported
                  a == arena[mapped[0]]
                  built == [a EXCEPT !.plan = IF ok THEN Request(0) ELSE "none",
                                     !.status = IF ok THEN "success" ELSE "unsupported",
                                     !.described = TRUE]
      <3>2. CASE mapped[0] \in Objects
        <4>1. built \in ArenaRecord
          <5>1. a \in ArenaRecord
            BY <1>1, <3>2
          <5>2. /\ (IF ok THEN Request(0) ELSE "none") \in Keys \cup {"none", "partial", "old plan"}
                /\ (IF ok THEN "success" ELSE "unsupported") \in {"success", "unsupported"}
            BY <3>1
          <5>. HIDE DEF a, ok
          <5>. QED
            BY <5>1, <5>2 DEF ArenaRecord
        <4>2. arena' = [arena EXCEPT ![mapped[0]] = built]
          BY <2>4 DEF Build
        <4>. HIDE DEF built
        <4>. QED
          BY <1>1, <4>1, <4>2
      <3>3. CASE mapped[0] \notin Objects
        BY <1>1, <2>4, <3>3 DEF Build
      <3>. QED
        BY <3>2, <3>3
    <2>5. CASE UNCHANGED arena
      BY <1>1, <2>5
    <2>. QED
      BY <2>1, <2>2, <2>3, <2>4, <2>5
         DEF RankStep, Step, Rank0, Open, WaitReady, Hit, EnterFirst, LeaveFirst,
             EnterSecond, LeaveSecond, Adopt, Reject, Lowered, Unlink, Create
  <1>. QED
    BY <1>1, <1>2, <1>5, <1>6, <1>7, <1>8, <1>9, <1>10, <1>11 DEF PlanTyped

(* The invariant of the ranks that do not move. *)
LEMMA PlanOthersInv ==
  ASSUME PlanInv, NEW r \in Ranks, RankStep(r), NEW s \in Ranks, s # r
  PROVE  RankInv(s)'
  <1>1. RankInv(s)
    BY DEF PlanInv
  <1>2. /\ program' = program
        /\ at'[s] = at[s] /\ pc'[s] = pc[s] /\ mapped'[s] = mapped[s]
        /\ valid'[s] = valid[s] /\ cached'[s] = cached[s] /\ outcome'[s] = outcome[s]
        /\ entered'[s] = entered[s] /\ inSync'[s] = inSync[s]
    BY OthersUntouched
  <1>. QED
    BY <1>1, <1>2 DEF RankInv, RankTyped, CacheInv, SyncsOf

(* A step that stays within a request. *)
LEMMA WithinRequest ==
  ASSUME PlanInv, NEW r \in Ranks, RankStep(r),
         program' = program, at'[r] = at[r], outcome'[r] = outcome[r],
         RankTyped(r)', CacheInv(r)', entered'[r] = SyncsOf(r)',
         inSync'[r] <=> pc'[r] \in {"sync1", "sync2"},
         pc'[r] \in {"sync1", "clear", "build", "publish", "sync2", "adopt"}
           => Miss(program, at[r]),
         pc'[r] = "lower" => program[at[r]] \notin Unsupported
  PROVE  RankInv(r)'
  BY OneRank DEF RankInv

(* A step that ends a request with its answer. *)
LEMMA RequestEnds ==
  ASSUME PlanInv, NEW r \in Ranks, RankStep(r),
         pc[r] = "lower" \/ (pc[r] = "adopt" /\ program[at[r]] \in Unsupported),
         Return(r, Answer(program, at[r])), CacheInv(r)',
         entered'[r] = entered[r], inSync'[r] = inSync[r], mapped'[r] = mapped[r]
  PROVE  RankInv(r)'
  <1>1. /\ RankInv(r) /\ at[r] \in Nat /\ 1 <= at[r] /\ Len(program) \in Nat
        /\ at[r] <= Len(program)
    <2>1. at[r] <= Len(program)
      BY OneRank DEF RankInv, RankTyped, SetupPCs
    <2>. QED
      BY <2>1, OneRank
  <1>2. /\ at \in [Ranks -> Nat] /\ pc \in [Ranks -> PCs]
        /\ outcome \in [Ranks -> Seq({"plan", "unsupported"})] /\ program' = program
    BY OthersUntouched DEF PlanInv, PlanTyped
  <1>3. /\ at'[r] = at[r] + 1 /\ pc'[r] = "idle"
        /\ outcome'[r] = Append(outcome[r], Answer(program, at[r]))
    BY <1>2 DEF Return
  <1>4. RankTyped(r)'
    BY <1>1, <1>2, <1>3 DEF RankInv, RankTyped, SetupPCs, PCs
  <1>5. entered'[r] = SyncsOf(r)'
    <2>1. /\ Cardinality(Misses(program, at[r])) \in Nat
          /\ Cardinality(Misses(program, at[r] + 1)) =
               Cardinality(Misses(program, at[r])) + (IF Miss(program, at[r]) THEN 1 ELSE 0)
      BY <1>1, MissesGrow
    <2>2. pc[r] = "adopt" => Miss(program, at[r])
      BY <1>1 DEF RankInv
    <2>3. entered[r] = 2 * Cardinality(Misses(program, at[r])) +
                         (IF Miss(program, at[r]) THEN 2 ELSE 0)
      BY <1>1, <2>2 DEF RankInv, SyncsOf
    <2>4. entered[r] = 2 * Cardinality(Misses(program, at[r] + 1))
      BY <2>1, <2>3
    <2>5. entered'[r] = 2 * Cardinality(Misses(program', at'[r]))
      BY <1>2, <1>3, <2>4
    <2>. QED
      BY <1>3, <2>1, <2>4, <2>5, <1>2 DEF SyncsOf
  <1>6. Len(outcome'[r]) = at'[r] - 1
    BY <1>1, <1>2, <1>3 DEF RankInv
  <1>7. ASSUME NEW i \in 1 .. at'[r] - 1 PROVE outcome'[r][i] = Answer(program, i)
    <2>1. Len(outcome[r]) = at[r] - 1 /\ outcome[r] \in Seq({"plan", "unsupported"})
      BY <1>1, <1>2 DEF RankInv
    <2>2. CASE i = at[r]
      BY <1>1, <1>3, <2>1, <2>2
    <2>3. CASE i # at[r]
      <3>1. i \in 1 .. at[r] - 1
        BY <1>1, <1>3, <2>3
      <3>2. outcome'[r][i] = outcome[r][i]
        BY <1>3, <2>1, <3>1
      <3>. QED
        BY <1>1, <3>1, <3>2 DEF RankInv
    <2>. QED
      BY <2>2, <2>3
  <1>. QED
    BY <1>1, <1>2, <1>3, <1>4, <1>5, <1>6, <1>7 DEF RankInv

(* The moving rank's own invariant. *)
LEMMA PlanOwnInv ==
  ASSUME PlanInv, NEW r \in Ranks, RankStep(r)
  PROVE  RankInv(r)'
  <1>1. /\ RankInv(r) /\ at[r] \in Nat /\ 1 <= at[r] /\ pc[r] \in PCs
        /\ at[r] <= Len(program) + 1 /\ Len(program) \in Nat
    BY OneRank
  <1>2. /\ at \in [Ranks -> Nat] /\ pc \in [Ranks -> PCs]
        /\ mapped \in [Ranks -> Objects \cup {"none"}] /\ valid \in [Ranks -> BOOLEAN]
        /\ cached \in [Ranks -> Keys \cup {"none"}]
        /\ outcome \in [Ranks -> Seq({"plan", "unsupported"})]
        /\ entered \in [Ranks -> Nat] /\ inSync \in [Ranks -> BOOLEAN]
        /\ program' = program
    BY OthersUntouched DEF PlanInv, PlanTyped, BarrierTypeOK
  <1>3. Cardinality(Misses(program, at[r])) \in Nat
    BY <1>1, MissesGrow
  <1>4. name \in {"none", "new"} /\ (name = "none" <=> pc[0] \in {"unlink", "create"})
    BY DEF PlanInv, ArenaInv
  <1>. DEFINE Kept == /\ RankTyped(r)' /\ CacheInv(r)' /\ entered'[r] = SyncsOf(r)'
                      /\ inSync'[r] <=> pc'[r] \in {"sync1", "sync2"}
                      /\ pc'[r] \in {"sync1", "clear", "build", "publish", "sync2", "adopt"}
                           => Miss(program, at[r])
                      /\ pc'[r] = "lower" => program[at[r]] \notin Unsupported
                      /\ at'[r] = at[r] /\ outcome'[r] = outcome[r]
  <1>5. Kept => RankInv(r)'
    BY <1>2, WithinRequest
  <1>. USE <1>1, <1>2, <1>3
       DEF RankInv, RankTyped, CacheInv, SyncsOf, PCs, SetupPCs, Goto, barrierVars
  <1>6. CASE r = 0 /\ Rank0
    BY <1>5, <1>6 DEF Rank0, Unlink, Create, Truncate, Initialise, Clear, Build, Objects
  <1>7. CASE Open(r)
    <2>1. name = "new"
      BY <1>4, <1>7 DEF Open
    <2>. QED
      BY <1>5, <1>7, <2>1 DEF Open
  <1>8. CASE WaitReady(r)
    BY <1>5, <1>8 DEF WaitReady
  <1>9. CASE Hit(r)
    <2>1. ~Miss(program, at[r])
      BY <1>9, HitsAreShared DEF Hit
    <2>2. at[r] # 1 /\ program[at[r]] \notin Unsupported /\ program[at[r]] = program[at[r] - 1]
      BY <2>1 DEF Miss
    <2>. QED
      BY <1>5, <1>9, <2>1, <2>2 DEF Hit, Asks
  <1>10. CASE EnterFirst(r)
    <2>1. Miss(program, at[r])
      BY <1>10, HitsAreShared DEF EnterFirst
    <2>. QED
      BY <1>5, <1>10, <2>1 DEF EnterFirst, Asks, SyncEnter
  <1>11. CASE LeaveFirst(r)
    BY <1>5, <1>11 DEF LeaveFirst, SyncLeave
  <1>12. CASE EnterSecond(r)
    BY <1>5, <1>12 DEF EnterSecond, SyncEnter
  <1>13. CASE LeaveSecond(r)
    BY <1>5, <1>13 DEF LeaveSecond, SyncLeave
  <1>14. CASE Adopt(r)
    <2>1. program[at[r]] \notin Unsupported
      BY <1>14, AdoptSees DEF Adopt
    <2>. QED
      BY <1>5, <1>14, <2>1 DEF Adopt, Request
  <1>15. CASE Reject(r)
    <2>1. program[at[r]] \in Unsupported /\ Return(r, Answer(program, at[r]))
      BY <1>15, RejectAnswers DEF Answer
    <2>2. at'[r] = at[r] + 1 /\ pc'[r] = "idle"
      BY <2>1 DEF Return
    <2>3. CacheInv(r)'
      BY <1>15, <2>1, <2>2 DEF Reject
    <2>. QED
      BY <1>15, <2>1, <2>3, RequestEnds DEF Reject
  <1>16. CASE Lowered(r)
    <2>1. program[at[r]] \notin Unsupported /\ Return(r, Answer(program, at[r]))
      BY <1>16 DEF Lowered, Answer
    <2>2. at'[r] = at[r] + 1 /\ pc'[r] = "idle"
      BY <2>1 DEF Return
    <2>3. CacheInv(r)'
      BY <1>16, <2>1, <2>2 DEF Lowered
    <2>. QED
      BY <1>16, <2>1, <2>3, RequestEnds DEF Lowered
  <1>. QED
    BY <1>6, <1>7, <1>8, <1>9, <1>10, <1>11, <1>12, <1>13, <1>14, <1>15, <1>16
       DEF RankStep, Step

(* What the arena holds is kept, unless rank 0 changes it. *)
LEMMA ArenaStep ==
  ASSUME PlanInv, NEW r \in Ranks, RankStep(r)
  PROVE  ArenaInv'
  <1>1. /\ RankInv(0) /\ at[0] \in Nat /\ 1 <= at[0] /\ pc[0] \in PCs /\ 0 \in Ranks
        /\ ArenaInv
    BY RankZero, OneRank DEF PlanInv
  <1>2. /\ at \in [Ranks -> Nat] /\ pc \in [Ranks -> PCs]
        /\ arena \in [Objects -> ArenaRecord] /\ program' = program
    BY OthersUntouched DEF PlanInv, PlanTyped
  <1>3. CASE r # 0
    <2>1. at'[0] = at[0] /\ pc'[0] = pc[0]
      BY <1>1, <1>3, OthersUntouched
    <2>2. UNCHANGED <<arena, name>>
      BY <1>3 DEF RankStep, Step, Open, WaitReady, Hit, EnterFirst, LeaveFirst, EnterSecond,
                  LeaveSecond, Adopt, Reject, Lowered
    <2>. QED
      BY <1>1, <1>2, <2>1, <2>2 DEF ArenaInv, Held, Describes
  <1>4. CASE r = 0
    <2>. USE <1>1, <1>2, <1>4 DEF RankInv, RankTyped, ArenaInv, Held, Describes, PCs, SetupPCs, Goto
    <2>1. CASE Unlink \/ Create \/ Truncate \/ Initialise
      <3>1. at'[0] = 1 /\ pc'[0] \in {"create", "truncate", "initialise", "idle"}
        BY <2>1 DEF Unlink, Create, Truncate, Initialise
      <3>2. Held' = 0
        BY <3>1
      <3>. QED
        BY <2>1, <3>1, <3>2 DEF Unlink, Create, Truncate, Initialise
    <2>2. CASE Clear
      BY <2>2 DEF Clear
    <2>3. CASE Build
      <3>1. Held' = at[0] /\ name' = name /\ pc'[0] = "publish" /\ pc[0] = "build"
        BY <2>3 DEF Build
      <3>2. /\ arena'["new"].described
            /\ arena'["new"].status = IF program[at[0]] \in Unsupported
                                        THEN "unsupported" ELSE "success"
            /\ program[at[0]] \notin Unsupported => arena'["new"].plan = program[at[0]]
        <4>1. mapped[0] = "new"
          BY <3>1
        <4>. DEFINE a == arena["new"]
                    built == [a EXCEPT !.plan = IF Request(0) \notin Unsupported
                                                  THEN Request(0) ELSE "none",
                                       !.status = IF Request(0) \notin Unsupported
                                                    THEN "success" ELSE "unsupported",
                                       !.described = TRUE]
        <4>2. arena'["new"] = built
          BY <2>3, <4>1 DEF Build, Objects
        <4>3. a \in ArenaRecord
          BY DEF Objects
        <4>4. /\ built.described = TRUE
              /\ built.status = IF Request(0) \notin Unsupported THEN "success" ELSE "unsupported"
              /\ built.plan = IF Request(0) \notin Unsupported THEN Request(0) ELSE "none"
          <5>. HIDE DEF a
          <5>. QED
            BY <4>3 DEF ArenaRecord
        <4>. HIDE DEF built
        <4>. QED
          BY <4>2, <4>4 DEF Request
      <3>. QED
        BY <3>1, <3>2
    <2>4. CASE Hit(0)
      <3>1. ~Miss(program, at[0])
        BY <2>4, HitsAreShared DEF Hit
      <3>2. at[0] # 1 /\ program[at[0]] = program[at[0] - 1]
        BY <3>1 DEF Miss
      <3>3. Describes(at[0] - 1)
        BY <2>4, <3>2 DEF Hit, Asks
      <3>. QED
        BY <2>4, <3>2, <3>3 DEF Hit, Asks
    <2>5. CASE EnterFirst(0)
      BY <2>5 DEF EnterFirst, Asks
    <2>6. CASE LeaveFirst(0)
      BY <2>6 DEF LeaveFirst
    <2>7. CASE EnterSecond(0) \/ LeaveSecond(0) \/ Adopt(0)
      BY <2>7 DEF EnterSecond, LeaveSecond, Adopt
    <2>8. CASE Reject(0) \/ Lowered(0)
      <3>1. at'[0] = at[0] + 1 /\ pc'[0] = "idle" /\ pc[0] \in {"adopt", "lower"}
        BY <2>8 DEF Reject, Lowered, Return
      <3>2. UNCHANGED <<arena, name>>
        BY <2>8 DEF Reject, Lowered
      <3>3. Held' = at[0] /\ Held = at[0]
        BY <3>1
      <3>. QED
        BY <3>1, <3>2, <3>3
    <2>9. ~Open(0) /\ ~WaitReady(0)
      BY DEF Open, WaitReady
    <2>. QED
      BY <2>1, <2>2, <2>3, <2>4, <2>5, <2>6, <2>7, <2>8, <2>9 DEF RankStep, Step, Rank0
  <1>. QED
    BY <1>3, <1>4

(* The invariant is inductive. *)
LEMMA PlanNextInv ==
  ASSUME PlanInv, [Next]_vars
  PROVE  PlanInv'
  <1>1. CASE Next
    <2>1. PICK r \in Ranks : RankStep(r)
      BY <1>1, NextIsRankStep
    <2>2. ASSUME NEW s \in Ranks PROVE RankInv(s)'
      BY <2>1, PlanOwnInv, PlanOthersInv
    <2>. QED
      BY <2>1, <2>2, PlanTypedStep, PlanBarrier, ArenaStep DEF PlanInv
  <1>2. CASE UNCHANGED vars
    <2>1. BarrierInv'
      BY <1>2, BarrierStutter DEF vars, PlanInv
    <2>2. BarrierTypeOK'
      BY <2>1 DEF BarrierInv
    <2>3. PlanTyped'
      BY <1>2, <2>2 DEF vars, arenaVars, PlanInv, PlanTyped
    <2>4. ArenaInv'
      BY <1>2 DEF vars, arenaVars, PlanInv, ArenaInv, Held, Describes
    <2>5. ASSUME NEW s \in Ranks PROVE RankInv(s)'
      <3>1. RankInv(s)
        BY DEF PlanInv
      <3>. QED
        BY <1>2, <3>1 DEF vars, barrierVars, arenaVars, RankInv, RankTyped, CacheInv, SyncsOf
    <2>. QED
      BY <2>1, <2>3, <2>4, <2>5 DEF PlanInv
  <1>. QED
    BY <1>1, <1>2
-------------------------------------------------------------------------------
(* If no earlier group has left an arena behind, the invariant holds in    *)
(* every reachable state, for any programs of requests.                    *)
THEOREM PlanInvariant == ASSUME LeftBehind = FALSE PROVE Spec => []PlanInv
  <1>1. Init => PlanInv
    BY PlanInitInv
  <1>2. PlanInv /\ [Next]_vars => PlanInv'
    BY PlanNextInv
  <1>. QED
    BY <1>1, <1>2, PTL DEF Spec

(* A rank that lowers a plan from the arena of get_or_build_shared_ipc_plan *)
(* reads the complete plan of its own request: rank 0 is neither writing it *)
(* nor ahead with the next one.                                             *)
THEOREM PlansAreIntact == ASSUME LeftBehind = FALSE PROVE Spec => []PlanIntact
  <1>1. PlanInv => PlanIntact
    <2>. SUFFICES ASSUME PlanInv, NEW r \in Ranks, pc[r] = "lower"
                  PROVE  arena[mapped[r]].plan = Request(r)
      BY DEF PlanIntact
    <2>1. mapped[r] = "new" /\ program[at[r]] \notin Unsupported /\ Seen(r) = at[r] /\ Seen(r) >= 1
      BY OneRank DEF RankInv, RankTyped, Seen
    <2>2. Describes(at[r])
      BY <2>1, ArenaSeen
    <2>. QED
      BY <2>1, <2>2 DEF Describes, Request
  <1>. QED
    BY <1>1, PlanInvariant, PTL

(* All ranks get the same answer to a request: the plan, or the refusal of  *)
(* the planner; nobody enqueues a collective that another rank refused.     *)
THEOREM OutcomesAreShared == ASSUME LeftBehind = FALSE PROVE Spec => []SameOutcome
  <1>1. PlanInv => SameOutcome
    <2>. SUFFICES ASSUME PlanInv, NEW r \in Ranks, NEW s \in Ranks,
                         NEW i \in 1 .. Len(outcome[r]), i <= Len(outcome[s])
                  PROVE  outcome[r][i] = outcome[s][i]
      BY DEF SameOutcome
    <2>1. ASSUME NEW q \in Ranks, i <= Len(outcome[q])
          PROVE  outcome[q][i] = Answer(program, i)
      <3>1. Len(outcome[q]) = at[q] - 1 /\ at[q] \in Nat
        BY OneRank DEF RankInv
      <3>2. i \in 1 .. at[q] - 1
        BY <2>1, <3>1
      <3>. QED
        BY <3>2, OneRank DEF RankInv
    <2>2. i <= Len(outcome[r])
      <3>1. Len(outcome[r]) = at[r] - 1 /\ at[r] \in Nat
        BY OneRank DEF RankInv
      <3>. QED
        BY <3>1
    <2>. QED
      BY <2>1, <2>2
  <1>. QED
    BY <1>1, PlanInvariant, PTL
===============================================================================
