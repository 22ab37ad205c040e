------------------------ MODULE WindowCollectiveProofs ------------------------
(***************************************************************************)
(* The general path, for any number of ranks, windows, CTAs, fan-outs and  *)
(* collectives, both ready protocols, and any tuning of the reduce tasks.  *)
(*                                                                         *)
(* Three arguments meet.  The lowering: the windows of every task are      *)
(* divided among the CTAs without gap or overlap, and where the barrier    *)
(* between reduces and copies is left out, a CTA copies the windows it has *)
(* reduced.  Counting: a grid counter that has grown by k grids tells of k *)
(* arrivals of every CTA.  The ready values: no rank is in a later planned *)
(* collective than a peer that still works on an earlier one.  Then what   *)
(* is in a cell of a buffer follows from which tasks have been done.       *)
(***************************************************************************)
EXTENDS WindowCollective, FiniteSetTheorems, SequenceTheorems, TLAPS

(* An all-reduce has an element for every rank: the hypothesis of the      *)
(* theorems.  Without it a rank with an empty slice launches nothing, see  *)
(* the run window_empty_slice.                                             *)
NoEmptySlice ==
    \A p \in Programs : \A i \in 1 .. Len(p) :
        p[i].kind = "all_reduce" => p[i].count >= N

(* The e-th collective was not refused by the planner.                     *)
Planned(e) == ~Rejected(program[e].kind, program[e].count)
Active(r) == epoch[r] > 0 /\ Planned(epoch[r])

(* The number of windows in r's own slice.                                 *)
Slice(r) == Windows(Count(r), r)

(* The CTAs of r that have arrived at the grid counter for the first time, *)
(* at the barrier inside the plan, and at the last barrier.                *)
PCs == {"entry", "entered", "run", "barrier", "final", "exit", "done"}
Ended == {"final", "exit", "done"}
Entered(r) == {c \in Grid(r) : pc[r][c] # "entry"}
Halfway(r) ==
    {c \in Grid(r) : pc[r][c] = "barrier" \/ (pc[r][c] = "run" /\ at[r][c] > N)
                     \/ pc[r][c] \in Ended}
Finished(r) == {c \in Grid(r) : pc[r][c] \in Ended}
HasBarrier(r) == Barriers(r) = 1

(* Rank s has done all its work for epoch e.                               *)
SentBy(s, e) == epoch[s] > e \/ (epoch[s] = e /\ Finished(s) = Grid(s))

Typed ==
    /\ program \in Programs
    /\ epoch \in [Ranks -> 0 .. Len(program)]
    /\ last_value \in [Ranks -> Nat]
    /\ entry \in [Ranks -> Nat]
    /\ counter \in [Ranks -> Nat]
    /\ inbox \in [Ranks -> [Ranks -> Nat]]
    /\ pc \in [Ranks -> [CTAs -> PCs]]
    /\ at \in [Ranks -> [CTAs -> 0 .. 2 * N]]
    /\ left \in [Ranks -> [CTAs -> SUBSET Ranks]]
    /\ todo \in [Ranks -> [CTAs -> SUBSET ((0 .. MaxWindows - 1) \X Ranks)]]
    /\ held \in [Ranks -> [CTAs -> [0 .. MaxWindows - 1 -> [Ranks -> Int]]]]
    /\ buf \in [Ranks -> [Cells -> [Ranks -> Nat]]]

(* The host's record of the counter, and how far the counter is.           *)
Counting(r) ==
    IF epoch[r] = 0 THEN counter[r] = last_value[r]
    ELSE /\ last_value[r] =
                entry[r] + Launched(r) + (IF HasBarrier(r) THEN Launched(r) ELSE 0)
         /\ counter[r] + Launched(r) =
                entry[r] + Cardinality(Entered(r)) + Cardinality(Finished(r))
                + (IF HasBarrier(r) THEN Cardinality(Halfway(r)) ELSE 0)

(* A CTA that is through a barrier has all others at it.                   *)
Stages(r) ==
    /\ \A c \in CTAs \ Grid(r) : pc[r][c] = "done"
    /\ \A c \in Grid(r) :
           /\ pc[r][c] \in {"run", "barrier"} \cup Ended => Entered(r) = Grid(r)
           /\ HasBarrier(r) /\ (pc[r][c] \in Ended \/ (pc[r][c] = "run" /\ at[r][c] > N))
                  => Halfway(r) = Grid(r)
           /\ pc[r][c] \in {"exit", "done"} => Finished(r) = Grid(r)

(* What a ready value says of the peer that wrote it, what a CTA has seen  *)
(* of the peers of its stripe, and what a launch says of all peers.        *)
Rendezvous(r) ==
    /\ \A s \in Peers(r) : \A e \in Nat :
           /\ inbox[r][s] >= e * Stride => epoch[s] >= e
           /\ inbox[r][s] >= e * Stride + Stride - 1 => SentBy(s, e)
    /\ \A c \in Grid(r) : \A s \in Stripe(r, c, Launched(r)) :
           /\ pc[r][c] # "entry" => epoch[s] >= epoch[r]
           /\ pc[r][c] = "done" => SentBy(s, epoch[r])
    /\ \A s \in Peers(r) : \A e \in 1 .. epoch[r] - 1 : Planned(e) => SentBy(s, e)

(* What a task carries: the input of the peer it reduces, or the slice     *)
(* that is complete when it is copied.                                     *)
Carried(r, i) ==
    IF Tasks(r)[i].op = "reduce" THEN Own(Tasks(r)[i].src)
    ELSE IF Kind(r) = "all_reduce" THEN Everyone ELSE Own(r)

Working(r, c) == pc[r][c] = "run" /\ at[r][c] \in 1 .. Len(Tasks(r))

Loading(r, c) ==
    /\ pc[r][c] = "run" => /\ at[r][c] \in 1 .. Len(Tasks(r)) + 1
                           /\ todo[r][c] \subseteq Work(r, c, at[r][c])
    /\ pc[r][c] = "barrier" => HasBarrier(r) /\ at[r][c] = N
    /\ \A w \in 0 .. MaxWindows - 1 :
           held[r][c][w] = NotLoaded
           \/ (/\ Working(r, c) /\ Tasks(r)[at[r][c]].op # "barrier"
               /\ held[r][c][w] = Carried(r, at[r][c]))
Loads(r) == \A c \in CTAs : Loading(r, c)

(* CTA c of s has stored window w of its i-th task to d.                   *)
Past(s, c, i) ==
    pc[s][c] \in Ended \/ (pc[s][c] \in {"run", "barrier"} /\ at[s][c] > i)
Stored(s, c, i, w, d) ==
    /\ <<w, d>> \in Work(s, c, i)
    /\ Past(s, c, i) \/ (pc[s][c] = "run" /\ at[s][c] = i /\ <<w, d>> \notin todo[s][c])

(* The input of q is in window w of r's own slice; s has copied window w   *)
(* of its slice to r, in the epoch of r.                                   *)
Reduced(r, q, w) ==
    \E c \in Grid(r), i \in 1 .. N - 1 : PeerAt(r, i - 1) = q /\ Stored(r, c, i, w, r)
Copied(s, r, w) ==
    \E c \in Grid(s), i \in 1 .. Len(Tasks(s)) :
        Tasks(s)[i].op = "copy" /\ Stored(s, c, i, w, r)
Delivered(s, r, w) == epoch[s] > epoch[r] \/ (epoch[s] = epoch[r] /\ Copied(s, r, w))

OwnSlice(r, w) ==
    IF Kind(r) = "all_gather" THEN buf[r][<<r, w>>] = Own(r)
    ELSE \A q \in Ranks :
             buf[r][<<r, w>>][q] = IF q = r \/ Reduced(r, q, w) THEN 1 ELSE 0
PeerSlice(r, s, w) ==
    buf[r][<<s, w>>] =
        IF Kind(r) # "reduce_scatter" /\ Delivered(s, r, w)
        THEN IF Kind(r) = "all_reduce" THEN Everyone ELSE Own(s)
        ELSE Own(r)

Contents(r) ==
    Active(r) =>
        \A s \in Ranks : \A w \in 0 .. Windows(Count(r), s) - 1 :
            IF s = r THEN OwnSlice(r, w) ELSE PeerSlice(r, s, w)

WcInv ==
    /\ Typed
    /\ \A r \in Ranks : Counting(r) /\ Stages(r) /\ Rendezvous(r) /\ Loads(r) /\ Contents(r)
-------------------------------------------------------------------------------
(* Numbers.                                                                *)

LEMMA SizeFacts ==
  /\ N \in Nat /\ N >= 2 /\ Ranks = 0 .. N - 1 /\ CTAs = 0 .. MaxCtas - 1
  /\ WindowElems \in Nat \ {0} /\ MaxCtas \in Nat \ {0}
  /\ MaxFanout \in Nat \ {0} /\ MaxWindows \in Nat \ {0}
  BY SizeAssumption, CapacityAssumption DEF Ranks, CTAs

LEMMA MinOfTwo ==
  ASSUME NEW a \in Int, NEW b \in Int
  PROVE  Min({a, b}) = IF a <= b THEN a ELSE b
  <1>. DEFINE m == IF a <= b THEN a ELSE b
  <1>1. m \in {a, b} /\ \A y \in {a, b} : m <= y
    OBVIOUS
  <1>2. \A x \in {a, b} : (\A y \in {a, b} : x <= y) => x = m
    OBVIOUS
  <1>. QED
    BY <1>1, <1>2 DEF Min

LEMMA MaxOfTwo ==
  ASSUME NEW a \in Int, NEW b \in Int
  PROVE  Max({a, b}) = IF a <= b THEN b ELSE a
  <1>. DEFINE m == IF a <= b THEN b ELSE a
  <1>1. m \in {a, b} /\ \A y \in {a, b} : m >= y
    OBVIOUS
  <1>2. \A x \in {a, b} : (\A y \in {a, b} : x >= y) => x = m
    OBVIOUS
  <1>. QED
    BY <1>1, <1>2 DEF Max

LEMMA Division ==
  ASSUME NEW w \in Nat, NEW n \in Nat, n # 0
  PROVE  /\ w \div n \in Nat /\ w % n \in 0 .. n - 1
         /\ w = n * (w \div n) + (w % n)
  OBVIOUS

LEMMA Monotone ==
  ASSUME NEW a \in Nat, NEW b \in Nat, NEW m \in Nat, a <= b
  PROVE  a * m <= b * m /\ a * m \in Nat /\ b * m \in Nat /\ (a + 1) * m = a * m + m
  OBVIOUS

(* A set of naturals that is not empty has a least element. *)
LEMMA LeastNatural ==
  ASSUME NEW S \in SUBSET Nat, S # {}
  PROVE  \E n \in S : \A m \in S : n <= m
  <1>. DEFINE Below == {1 .. n : n \in S}
  <1>1. Below \subseteq FiniteSubsetsOf(Nat) /\ Below # {}
    <2>1. ASSUME NEW n \in S PROVE 1 .. n \in SUBSET Nat /\ IsFiniteSet(1 .. n)
      BY FS_Interval
    <2>. QED
      BY <2>1 DEF FiniteSubsetsOf
  <1>2. PICK x \in Below : \A y \in Below : ~(<<y, x>> \in StrictSubsetOrdering(Nat))
    BY <1>1, FS_StrictSubsetOrderingWellFounded, WFMin
  <1>3. PICK n \in S : x = 1 .. n
    OBVIOUS
  <1>4. ASSUME NEW m \in S, m < n PROVE FALSE
    <2>1. 1 .. m \subseteq 1 .. n /\ n \in 1 .. n /\ n \notin 1 .. m
      BY <1>4
    <2>2. <<1 .. m, x>> \in StrictSubsetOrdering(Nat)
      BY <1>3, <2>1 DEF StrictSubsetOrdering
    <2>. QED
      BY <1>2, <2>2
  <1>. QED
    BY <1>4

-------------------------------------------------------------------------------
(* The division of w windows among n CTAs: the c-th share begins where the *)
(* one before it ends, the first at zero, and the last ends at w.          *)

Begin(c, n, w) == c * (w \div n) + (IF c < w % n THEN c ELSE w % n)

LEMMA ShareBounds ==
  ASSUME NEW n \in Nat, n # 0, NEW w \in Nat
  PROVE  /\ \A c \in Nat : Begin(c, n, w) \in Nat
         /\ \A c \in Nat : Share(c, n, w) = Begin(c, n, w) .. Begin(c + 1, n, w) - 1
         /\ \A c, d \in Nat : c <= d => Begin(c, n, w) <= Begin(d, n, w)
         /\ Begin(0, n, w) = 0 /\ Begin(n, n, w) = w
  <1>. DEFINE base == w \div n
              rem == w % n
  <1>1. base \in Nat /\ rem \in 0 .. n - 1 /\ w = n * base + rem
    BY Division
  <1>2. \A c : Begin(c, n, w) = c * base + (IF c < rem THEN c ELSE rem)
    BY DEF Begin
  <1>3. ASSUME NEW c \in Nat
        PROVE  Share(c, n, w) = c * base + (IF c < rem THEN c ELSE rem)
                   .. c * base + (IF c < rem THEN c ELSE rem) + base
                      + (IF c < rem THEN 1 ELSE 0) - 1
    <2>1. Min({c, rem}) = IF c < rem THEN c ELSE rem
      BY <1>1, MinOfTwo
    <2>. QED
      BY <2>1 DEF Share
  <1>. HIDE DEF base, rem
  <1>4. ASSUME NEW c \in Nat
        PROVE  /\ Begin(c, n, w) \in Nat
               /\ Begin(c + 1, n, w)
                    = Begin(c, n, w) + base + (IF c < rem THEN 1 ELSE 0)
    <2>1. c * base \in Nat /\ (c + 1) * base = c * base + base /\ rem \in Nat
      BY <1>1, Monotone
    <2>. DEFINE p == c * base
                q == (c + 1) * base
    <2>2. p \in Nat /\ q = p + base /\ rem \in Nat /\ base \in Nat
          /\ Begin(c, n, w) = p + (IF c < rem THEN c ELSE rem)
          /\ Begin(c + 1, n, w) = q + (IF c + 1 < rem THEN c + 1 ELSE rem)
      BY <1>1, <1>2, <2>1
    <2>. HIDE DEF p, q
    <2>3. (IF c + 1 < rem THEN c + 1 ELSE rem)
             = (IF c < rem THEN c ELSE rem) + (IF c < rem THEN 1 ELSE 0)
      BY <2>2
    <2>. QED
      BY <2>2, <2>3
  <1>5. ASSUME NEW c \in Nat, NEW d \in Nat, c <= d
        PROVE  Begin(c, n, w) <= Begin(d, n, w)
    <2>1. c * base <= d * base /\ c * base \in Nat /\ d * base \in Nat
      BY <1>1, <1>5, Monotone
    <2>. DEFINE p == c * base
                q == d * base
    <2>2. p <= q /\ p \in Nat /\ q \in Nat
          /\ Begin(c, n, w) = p + (IF c < rem THEN c ELSE rem)
          /\ Begin(d, n, w) = q + (IF d < rem THEN d ELSE rem)
      BY <1>2, <2>1
    <2>. HIDE DEF p, q
    <2>3. rem \in Nat
      BY <1>1
    <2>. QED
      BY <1>5, <2>2, <2>3
  <1>6. Begin(0, n, w) = 0
    BY <1>1, <1>2
  <1>7. Begin(n, n, w) = w
    BY <1>1, <1>2
  <1>8. ASSUME NEW c \in Nat
        PROVE  Share(c, n, w) = Begin(c, n, w) .. Begin(c + 1, n, w) - 1
    <2>. DEFINE b == Begin(c, n, w)
                e == IF c < rem THEN 1 ELSE 0
    <2>1. b = c * base + (IF c < rem THEN c ELSE rem)
      BY <1>2
    <2>2. Share(c, n, w) = b .. b + base + e - 1
      BY <1>3, <2>1
    <2>3. Begin(c + 1, n, w) = b + base + e /\ b \in Nat /\ e \in Nat /\ base \in Nat
      BY <1>1, <1>4
    <2>. HIDE DEF b, e
    <2>4. Share(c, n, w) = b .. Begin(c + 1, n, w) - 1
      BY <2>2, <2>3
    <2>. QED
      BY <2>4 DEF b
  <1>. QED
    BY <1>4, <1>5, <1>6, <1>7, <1>8

(* cta_window_range divides the windows among the CTAs: each window is in  *)
(* the share of exactly one of them.                                       *)
THEOREM SharesPartition ==
  ASSUME NEW n \in Nat, n # 0, NEW w \in Nat
  PROVE  /\ \A c \in 0 .. n - 1 : Share(c, n, w) \subseteq 0 .. w - 1
         /\ \A x \in 0 .. w - 1 : \E c \in 0 .. n - 1 : x \in Share(c, n, w)
         /\ \A c, d \in 0 .. n - 1 : Share(c, n, w) \cap Share(d, n, w) # {} => c = d
  <1>. DEFINE B(c) == Begin(c, n, w)
  <1>1. /\ \A c \in Nat : B(c) \in Nat /\ Share(c, n, w) = B(c) .. B(c + 1) - 1
        /\ \A c, d \in Nat : c <= d => B(c) <= B(d)
        /\ B(0) = 0 /\ B(n) = w
    BY ShareBounds
  <1>. HIDE DEF B
  <1>2. ASSUME NEW c \in 0 .. n - 1 PROVE Share(c, n, w) \subseteq 0 .. w - 1
    <2>1. c \in Nat /\ c + 1 \in Nat /\ n \in Nat /\ c + 1 <= n
      OBVIOUS
    <2>2. B(c) \in Nat /\ B(c + 1) <= w /\ Share(c, n, w) = B(c) .. B(c + 1) - 1
      BY <1>1, <2>1
    <2>3. B(c + 1) \in Nat
      BY <1>1, <2>1
    <2>. QED
      BY <2>2, <2>3
  <1>3. ASSUME NEW x \in 0 .. w - 1 PROVE \E c \in 0 .. n - 1 : x \in Share(c, n, w)
    <2>. DEFINE S == {d \in Nat : x < B(d + 1)}
    <2>1. n - 1 \in S
      BY <1>1
    <2>2. PICK c \in S : \A d \in S : c <= d
      BY <2>1, LeastNatural
    <2>3. c \in 0 .. n - 1 /\ c \in Nat /\ x < B(c + 1)
      BY <2>1, <2>2
    <2>4. B(c) <= x
      <3>1. CASE c = 0
        BY <1>1, <3>1
      <3>2. CASE c # 0
        <4>1. c - 1 \in Nat /\ c - 1 \notin S /\ (c - 1) + 1 = c
          BY <2>2, <2>3, <3>2
        <4>2. ~(x < B(c))
          BY <4>1
        <4>. QED
          BY <1>1, <2>3, <4>2
      <3>. QED
        BY <3>1, <3>2
    <2>5. B(c + 1) \in Nat /\ B(c) \in Nat /\ Share(c, n, w) = B(c) .. B(c + 1) - 1
      <3>1. c + 1 \in Nat
        BY <2>3
      <3>. QED
        BY <1>1, <2>3, <3>1
    <2>. HIDE DEF S
    <2>6. x \in Share(c, n, w)
      BY <2>3, <2>4, <2>5
    <2>. QED
      BY <2>3, <2>6
  <1>4. ASSUME NEW c \in 0 .. n - 1, NEW d \in 0 .. n - 1, c < d
        PROVE  Share(c, n, w) \cap Share(d, n, w) = {}
    <2>1. c \in Nat /\ d \in Nat /\ c + 1 \in Nat /\ d + 1 \in Nat /\ c + 1 <= d
      BY <1>4
    <2>2. /\ B(c + 1) <= B(d) /\ B(c + 1) \in Nat /\ B(d) \in Nat /\ B(c) \in Nat
          /\ B(d + 1) \in Nat
          /\ Share(c, n, w) = B(c) .. B(c + 1) - 1 /\ Share(d, n, w) = B(d) .. B(d + 1) - 1
      BY <1>1, <2>1
    <2>. QED
      BY <2>2
  <1>5. ASSUME NEW c \in 0 .. n - 1, NEW d \in 0 .. n - 1,
               Share(c, n, w) \cap Share(d, n, w) # {}
        PROVE  c = d
    BY <1>4, <1>5
  <1>. QED
    BY <1>2, <1>3, <1>5
-------------------------------------------------------------------------------
(* The lowering.                                                           *)

PeerIndex(r, s) == IF s < r THEN s ELSE s - 1

LEMMA PeerFacts ==
  ASSUME NEW r \in Ranks
  PROVE  /\ \A i \in 0 .. N - 2 : PeerAt(r, i) \in Peers(r) /\ PeerIndex(r, PeerAt(r, i)) = i
         /\ \A s \in Peers(r) : PeerIndex(r, s) \in 0 .. N - 2 /\ PeerAt(r, PeerIndex(r, s)) = s
         /\ \A i, j \in 0 .. N - 2 : PeerAt(r, i) = PeerAt(r, j) => i = j
  BY SizeFacts DEF PeerAt, PeerIndex, Peers

(* The group of CTAs of a reduce task lies within the grid.                *)
LEMMA GroupFacts ==
  ASSUME NEW r, Launched(r) \in Nat, Launched(r) # 0, MaxGroup(r) \in Nat, MaxGroup(r) # 0,
         NEW i \in Nat
  PROVE  /\ ReduceGroup(r, i).first \in Nat /\ ReduceGroup(r, i).count \in Nat
         /\ ReduceGroup(r, i).count # 0
         /\ ReduceGroup(r, i).first + ReduceGroup(r, i).count <= Launched(r)
  <1>. DEFINE n == Launched(r)
              g == MaxGroup(r)
              size == IF g <= n THEN g ELSE n
              groups == (n + size - 1) \div size
              k == i % groups
              first == k * size
              count == IF size <= n - first THEN size ELSE n - first
  <1>1. size \in Nat /\ size # 0 /\ size <= n /\ n \in Nat /\ n # 0 /\ Min({g, n}) = size
    BY MinOfTwo
  <1>. HIDE DEF n, g, size
  <1>2. n + size - 1 \in Nat /\ n + size - 1 >= size
    BY <1>1
  <1>3. /\ groups \in Nat /\ (n + size - 1) % size \in 0 .. size - 1
        /\ n + size - 1 = size * groups + ((n + size - 1) % size)
    BY <1>1, <1>2, Division
  <1>4. groups # 0
    <2>. DEFINE m == (n + size - 1) % size
    <2>1. m \in 0 .. size - 1 /\ n + size - 1 = size * groups + m
      BY <1>3
    <2>. HIDE DEF m, groups
    <2>2. groups = 0 => size * groups = 0
      BY <1>1
    <2>. QED
      BY <1>1, <1>2, <2>1, <2>2
  <1>5. k \in Nat /\ k <= groups - 1
    <2>1. groups \in Nat /\ groups # 0
      BY <1>3, <1>4
    <2>. HIDE DEF groups
    <2>2. i % groups \in 0 .. groups - 1
      BY <2>1, Division
    <2>. QED
      BY <2>1, <2>2
  <1>6. first \in Nat /\ first <= n - 1
    <2>. DEFINE m == (n + size - 1) % size
                h == groups - 1
    <2>1. m \in 0 .. size - 1 /\ n + size - 1 = size * groups + m /\ h \in Nat
          /\ groups \in Nat
      BY <1>3, <1>4
    <2>2. k * size <= h * size /\ k * size \in Nat /\ h * size \in Nat
          /\ (h + 1) * size = h * size + size
      BY <1>1, <1>5, <2>1, Monotone
    <2>3. (h + 1) * size = size * groups
      BY <1>1, <2>1
    <2>. DEFINE a == k * size
                b == h * size
                c == size * groups
    <2>4. a <= b /\ a \in Nat /\ b \in Nat /\ c = b + size /\ n + size - 1 = c + m
          /\ m \in 0 .. size - 1
      BY <2>1, <2>2, <2>3
    <2>. HIDE DEF a, b, c, m
    <2>5. a \in Nat /\ a <= n - 1
      BY <1>1, <2>4
    <2>. QED
      BY <2>5 DEF a
  <1>7. ReduceGroup(r, i) = [first |-> first, count |-> Min({size, n - first})]
    BY <1>1 DEF ReduceGroup, n, g
  <1>. HIDE DEF first
  <1>8. Min({size, n - first}) = count
    BY <1>1, <1>6, MinOfTwo
  <1>9. count \in Nat /\ count # 0 /\ first + count <= n
    BY <1>1, <1>6
  <1>. HIDE DEF count
  <1>. QED
    BY <1>6, <1>7, <1>8, <1>9 DEF n

(* If the last reduce task runs on the full grid, all of them do.          *)
LEMMA ElidedFacts ==
  ASSUME NEW r, Launched(r) \in Nat, Launched(r) # 0, MaxGroup(r) \in Nat, MaxGroup(r) # 0,
         BarrierElided(r), NEW i \in Nat
  PROVE  ReduceGroup(r, i) = [first |-> 0, count |-> Launched(r)]
  <1>. DEFINE n == Launched(r)
              g == MaxGroup(r)
              size == Min({g, n})
              groups == (n + size - 1) \div size
              first(j) == (j % groups) * size
  <1>1. size = (IF g <= n THEN g ELSE n) /\ n \in Nat /\ n # 0
    BY MinOfTwo
  <1>2. \A j : ReduceGroup(r, j) = [first |-> first(j), count |-> Min({size, n - first(j)})]
    BY DEF ReduceGroup
  <1>3. first(N - 2) = 0 /\ Min({size, n - first(N - 2)}) = n
    <2>. DEFINE a == first(N - 2)
                b == Min({size, n - a})
    <2>1. ReduceGroup(r, N - 2) = [first |-> a, count |-> b]
      BY <1>2
    <2>2. ReduceGroup(r, N - 2) = [first |-> 0, count |-> n]
      BY DEF BarrierElided
    <2>. HIDE DEF a, b, n
    <2>3. a = 0 /\ b = n
      BY <2>1, <2>2
    <2>. QED
      BY <2>3 DEF a, b
  <1>. HIDE DEF n, g, size
  <1>4. size = n
    <2>1. size \in Nat /\ size <= n
      BY <1>1 DEF n, g
    <2>2. Min({size, n - 0}) = n /\ n - 0 = n
      BY <1>1, <1>3
    <2>3. Min({size, n}) = IF size <= n THEN size ELSE n
      BY <1>1, <2>1, MinOfTwo
    <2>. QED
      BY <2>1, <2>2, <2>3
  <1>5. groups = 1
    <2>. DEFINE q == (n + n - 1) \div n
                m == (n + n - 1) % n
    <2>1. q \in Nat /\ m \in 0 .. n - 1 /\ n + n - 1 = n * q + m
      <3>1. n + n - 1 \in Nat
        BY <1>1
      <3>. QED
        BY <1>1, <3>1, Division
    <2>. HIDE DEF q, m
    <2>2. ASSUME q = 0 PROVE FALSE
      <3>1. n * q = 0
        BY <1>1, <2>2
      <3>. QED
        BY <1>1, <2>1, <3>1
    <2>3. ASSUME q >= 2 PROVE FALSE
      <3>1. 2 * n <= q * n /\ q * n = n * q /\ n * q \in Nat
        BY <1>1, <2>1, <2>3, Monotone
      <3>. DEFINE p == n * q
      <3>2. 2 * n <= p /\ p \in Nat /\ n + n - 1 = p + m /\ m \in Nat
        BY <2>1, <3>1
      <3>. HIDE DEF p
      <3>. QED
        BY <1>1, <3>2
    <2>4. q = 1
      BY <2>1, <2>2, <2>3
    <2>. QED
      BY <1>4, <2>4 DEF q
  <1>6. first(i) = 0
    <2>1. i % groups = 0
      BY <1>5
    <2>. QED
      BY <1>1, <1>4, <2>1
  <1>7. Min({size, n - first(i)}) = n
    <2>1. n - first(i) = n
      BY <1>1, <1>6
    <2>2. Min({n, n}) = n
      BY <1>1, MinOfTwo
    <2>. QED
      BY <1>4, <2>1, <2>2
  <1>. QED
    BY <1>2, <1>6, <1>7 DEF n

(* A slice has a window if it has an element.                              *)
LEMMA SliceFacts ==
  ASSUME NEW count \in Nat, NEW r \in Ranks
  PROVE  /\ SliceElems(count, r) \in Nat /\ Windows(count, r) \in Nat
         /\ count >= N => SliceElems(count, r) # 0
         /\ SliceElems(count, r) # 0 => Windows(count, r) # 0
  <1>. DEFINE e == SliceElems(count, r)
              q == count \div N
              m == count % N
  <1>0. N \in Nat /\ N # 0
    BY SizeFacts
  <1>1. q \in Nat /\ m \in 0 .. N - 1 /\ count = N * q + m
    BY <1>0, Division
  <1>2. e = q + (IF r < m THEN 1 ELSE 0)
    BY DEF SliceElems
  <1>. HIDE DEF q, m
  <1>3. e \in Nat /\ e >= q
    BY <1>1, <1>2
  <1>4. ASSUME count >= N PROVE q # 0
    <2>1. q = 0 => N * q = 0
      BY SizeFacts
    <2>. QED
      BY <1>1, <1>4, <2>1, SizeFacts
  <1>. HIDE DEF e
  <1>5. /\ e + WindowElems - 1 \in Nat /\ WindowElems \in Nat /\ WindowElems # 0
        /\ e # 0 => e + WindowElems - 1 >= WindowElems
    BY <1>3, SizeFacts
  <1>. DEFINE t == e + WindowElems - 1
              w == t \div WindowElems
              v == t % WindowElems
  <1>6. w \in Nat /\ v \in 0 .. WindowElems - 1 /\ t = WindowElems * w + v
    BY <1>5, Division
  <1>7. ASSUME e # 0 PROVE w # 0
    <2>1. w = 0 => WindowElems * w = 0
      BY <1>5
    <2>2. t >= WindowElems /\ t \in Nat
      BY <1>5, <1>7
    <2>. HIDE DEF t, w, v
    <2>. QED
      BY <1>5, <1>6, <2>1, <2>2
  <1>8. Windows(count, r) = w
    BY DEF Windows, e
  <1>. QED
    BY <1>1, <1>3, <1>4, <1>6, <1>7, <1>8 DEF e

(* The collective a rank is in is one of the program's, and its grid fits. *)
InPlan == program \in Programs /\ epoch \in [Ranks -> 0 .. Len(program)]
RankInRange(r) ==
    /\ epoch[r] \in Nat /\ epoch[r] <= Len(program) /\ Len(program) \in Nat
    /\ epoch[r] > 0 =>
         /\ epoch[r] \in 1 .. Len(program)
         /\ Kind(r) \in Kinds /\ Count(r) \in Nat /\ MaxGroup(r) \in Nat /\ MaxGroup(r) # 0
         /\ \A s \in Ranks : Windows(Count(r), s) \in 0 .. MaxWindows
GridInRange(r) ==
    /\ epoch[r] = 0 \/ ~Planned(epoch[r]) => Launched(r) = 0 /\ Grid(r) = {}
    /\ epoch[r] > 0 /\ Planned(epoch[r]) =>
         /\ \A s \in Ranks : Windows(Count(r), s) # 0
         /\ Launched(r) # 0 /\ Launched(r) <= Slice(r)
         /\ 0 \in Grid(r)
    /\ Launched(r) \in Nat /\ Launched(r) <= MaxCtas
    /\ Grid(r) = 0 .. Launched(r) - 1 /\ Grid(r) \subseteq CTAs
    /\ IsFiniteSet(Grid(r)) /\ Cardinality(Grid(r)) = Launched(r)

LEMMA RankPlan ==
  ASSUME InPlan, NEW r \in Ranks
  PROVE  RankInRange(r)
  <1>1. /\ epoch[r] \in 0 .. Len(program) /\ program \in Programs
        /\ program \in Seq([kind : Kinds, count : Nat, ctas : Nat \ {0}])
    BY ProgramsAssumption DEF InPlan
  <1>2. Len(program) \in Nat
    BY <1>1
  <1>3. ASSUME epoch[r] > 0
        PROVE  /\ epoch[r] \in 1 .. Len(program)
               /\ Kind(r) \in Kinds /\ Count(r) \in Nat /\ MaxGroup(r) \in Nat /\ MaxGroup(r) # 0
               /\ \A s \in Ranks : Windows(Count(r), s) \in 0 .. MaxWindows
    <2>1. epoch[r] \in 1 .. Len(program)
      BY <1>1, <1>2, <1>3
    <2>2. program[epoch[r]] \in [kind : Kinds, count : Nat, ctas : Nat \ {0}]
      BY <1>1, <2>1, ElementOfSeq
    <2>3. Kind(r) \in Kinds /\ Count(r) \in Nat /\ MaxGroup(r) \in Nat /\ MaxGroup(r) # 0
      BY <2>2 DEF Kind, Count, MaxGroup
    <2>4. ASSUME NEW s \in Ranks PROVE Windows(Count(r), s) \in 0 .. MaxWindows
      <3>1. Windows(program[epoch[r]].count, s) <= MaxWindows
        BY <1>1, <2>1, ProgramsAssumption
      <3>2. Windows(Count(r), s) \in Nat
        BY <2>3, SliceFacts
      <3>. QED
        BY <3>1, <3>2, SizeFacts DEF Count
    <2>. QED
      BY <2>1, <2>3, <2>4
  <1>. QED
    BY <1>1, <1>2, <1>3 DEF RankInRange

LEMMA LaunchPlan ==
  ASSUME InPlan, NoEmptySlice, NEW r \in Ranks
  PROVE  GridInRange(r)
  <1>1. Grid(r) = 0 .. Launched(r) - 1
    BY DEF Grid
  <1>2. ASSUME epoch[r] = 0 \/ ~Planned(epoch[r]) PROVE Launched(r) = 0
    BY <1>2 DEF Launched, CtaCount, Planned, Kind, Count
  <1>3. ASSUME epoch[r] > 0, Planned(epoch[r])
        PROVE  /\ \A s \in Ranks : Windows(Count(r), s) # 0
               /\ Launched(r) \in Nat /\ Launched(r) # 0 /\ Launched(r) <= Slice(r)
               /\ Launched(r) <= MaxCtas
    <2>1. /\ epoch[r] \in 1 .. Len(program) /\ program \in Programs
          /\ Kind(r) \in Kinds /\ Count(r) \in Nat
          /\ Kind(r) = program[epoch[r]].kind /\ Count(r) = program[epoch[r]].count
      BY <1>3, RankPlan DEF RankInRange, InPlan, Kind, Count
    <2>2. ASSUME NEW s \in Ranks PROVE Windows(Count(r), s) # 0
      <3>1. CASE Kind(r) = "all_reduce"
        <4>1. Count(r) >= N
          BY <2>1, <3>1 DEF NoEmptySlice
        <4>. QED
          BY <2>1, <4>1, SliceFacts
      <3>2. CASE Kind(r) # "all_reduce"
        <4>1. SliceElems(Count(r), s) # 0
          BY <1>3, <2>1, <3>2 DEF Planned, Rejected
        <4>. QED
          BY <2>1, <4>1, SliceFacts
      <3>. QED
        BY <3>1, <3>2
    <2>3. Slice(r) \in Nat /\ Slice(r) # 0
      BY <2>1, <2>2, SliceFacts DEF Slice
    <2>4. Launched(r) = Min({Slice(r), MaxCtas})
      BY <1>3, <2>1 DEF Launched, CtaCount, Planned, Slice
    <2>5. Min({Slice(r), MaxCtas}) = IF Slice(r) <= MaxCtas THEN Slice(r) ELSE MaxCtas
      BY <2>3, SizeFacts, MinOfTwo
    <2>. QED
      BY <2>2, <2>3, <2>4, <2>5, SizeFacts
  <1>4. epoch[r] = 0 \/ epoch[r] > 0
    BY RankPlan DEF RankInRange
  <1>5. Launched(r) \in Nat /\ Launched(r) <= MaxCtas
    BY <1>2, <1>3, <1>4, SizeFacts
  <1>6. Grid(r) \subseteq CTAs /\ (Launched(r) = 0 => Grid(r) = {})
        /\ (Launched(r) # 0 => 0 \in Grid(r))
    BY <1>1, <1>5, SizeFacts
  <1>7. IsFiniteSet(Grid(r)) /\ Cardinality(Grid(r)) = Launched(r)
    BY <1>1, <1>5, FS_Interval
  <1>. QED
    BY <1>1, <1>2, <1>3, <1>5, <1>6, <1>7 DEF GridInRange

LEMMA RankFacts ==
  ASSUME Typed, NEW r \in Ranks
  PROVE  /\ epoch[r] \in Nat /\ epoch[r] <= Len(program) /\ Len(program) \in Nat
         /\ epoch[r] > 0 =>
              /\ epoch[r] \in 1 .. Len(program)
              /\ Kind(r) \in Kinds /\ Count(r) \in Nat /\ MaxGroup(r) \in Nat /\ MaxGroup(r) # 0
              /\ \A s \in Ranks : Windows(Count(r), s) \in 0 .. MaxWindows
  BY RankPlan DEF InPlan, RankInRange, Typed

LEMMA LaunchFacts ==
  ASSUME Typed, NoEmptySlice, NEW r \in Ranks
  PROVE  /\ epoch[r] = 0 \/ ~Planned(epoch[r]) => Launched(r) = 0 /\ Grid(r) = {}
         /\ epoch[r] > 0 /\ Planned(epoch[r]) =>
              /\ \A s \in Ranks : Windows(Count(r), s) # 0
              /\ Launched(r) # 0 /\ Launched(r) <= Slice(r)
              /\ 0 \in Grid(r)
         /\ Launched(r) \in Nat /\ Launched(r) <= MaxCtas
         /\ Grid(r) = 0 .. Launched(r) - 1 /\ Grid(r) \subseteq CTAs
         /\ IsFiniteSet(Grid(r)) /\ Cardinality(Grid(r)) = Launched(r)
  BY LaunchPlan DEF InPlan, GridInRange, Typed
-------------------------------------------------------------------------------
(* The plan of a rank: its reduces, a barrier if it has copies too, and    *)
(* its copies, which reach every peer.                                     *)

ReduceTasks(r) == IF Kind(r) = "all_gather" THEN {} ELSE 1 .. N - 1
CopyTasks(r) ==
    IF Kind(r) = "all_gather" THEN 1 .. Len(Tasks(r)) ELSE N + 1 .. Len(Tasks(r))

Shape(r) ==
    /\ Len(Tasks(r)) \in 1 .. 2 * N - 1
    /\ 1 .. Len(Tasks(r)) = ReduceTasks(r) \cup CopyTasks(r)
                            \cup (IF Kind(r) = "all_reduce" THEN {N} ELSE {})
    /\ \A i \in ReduceTasks(r) :
           Tasks(r)[i] = [op |-> "reduce", src |-> PeerAt(r, i - 1), dsts |-> {r}]
    /\ \A i \in CopyTasks(r) : /\ Tasks(r)[i].op = "copy" /\ Tasks(r)[i].src = r
                               /\ Tasks(r)[i].dsts \subseteq Peers(r)
    /\ Kind(r) = "all_reduce" =>
           Tasks(r)[N] = [op |-> "barrier", src |-> r, dsts |-> {}]
    /\ Kind(r) # "reduce_scatter" =>
           \A s \in Peers(r) : \E i \in CopyTasks(r) : s \in Tasks(r)[i].dsts

CopyCount == (N - 2 + MaxFanout) \div MaxFanout
Fanout(i) == (i - 1) * MaxFanout .. Min({i * MaxFanout, N - 1}) - 1

LEMMA FanoutFacts ==
  /\ CopyCount \in 1 .. N - 1
  /\ \A i \in 1 .. CopyCount : Fanout(i) \subseteq 0 .. N - 2
  /\ \A k \in 0 .. N - 2 : \E i \in 1 .. CopyCount : k \in Fanout(i)
  <1>. DEFINE f == MaxFanout
              q == CopyCount
              t == N - 2 + f
              m == t % f
  <1>1. f \in Nat /\ f # 0 /\ N \in Nat /\ N >= 2 /\ t \in Nat
    BY SizeFacts
  <1>2. q \in Nat /\ m \in 0 .. f - 1 /\ t = f * q + m
    BY <1>1, Division DEF CopyCount
  <1>3. t = N - 2 + f
    OBVIOUS
  <1>. HIDE DEF m, t, q
  <1>4. ASSUME NEW i \in Nat
        PROVE  Fanout(i) = (i - 1) * f .. (IF i * f <= N - 1 THEN i * f ELSE N - 1) - 1
    <2>1. i * f \in Nat /\ N - 1 \in Nat
      BY <1>1
    <2>2. Min({i * f, N - 1}) = IF i * f <= N - 1 THEN i * f ELSE N - 1
      BY <2>1, MinOfTwo
    <2>. QED
      BY <2>2 DEF Fanout
  <1>. HIDE DEF f
  <1>5. ASSUME NEW i \in Nat, i >= 1 PROVE (i - 1) * f \in Nat /\ i * f = (i - 1) * f + f
    <2>1. i - 1 \in Nat /\ (i - 1) + 1 = i
      BY <1>5
    <2>2. (i - 1) * f \in Nat /\ ((i - 1) + 1) * f = (i - 1) * f + f
      BY <1>1, <2>1, Monotone
    <2>. QED
      BY <2>1, <2>2
  <1>6. ASSUME NEW i \in 1 .. q PROVE Fanout(i) \subseteq 0 .. N - 2
    <2>. DEFINE a == (i - 1) * f
                b == i * f
    <2>1. i \in Nat /\ i >= 1
      BY <1>2
    <2>2. a \in Nat /\ b \in Nat /\ Fanout(i) = a .. (IF b <= N - 1 THEN b ELSE N - 1) - 1
      <3>1. a \in Nat /\ b = a + f
        BY <1>5, <2>1
      <3>2. Fanout(i) = a .. (IF b <= N - 1 THEN b ELSE N - 1) - 1
        BY <1>4, <2>1
      <3>. HIDE DEF a, b
      <3>. QED
        BY <1>1, <3>1, <3>2
    <2>. HIDE DEF a, b
    <2>. QED
      BY <1>1, <2>2
  <1>7. ASSUME NEW k \in 0 .. N - 2 PROVE \E i \in 1 .. q : k \in Fanout(i)
    <2>. DEFINE j == k \div f
                l == k % f
                i == j + 1
    <2>1. k \in Nat /\ k <= N - 2
      BY <1>1
    <2>2. j \in Nat /\ l \in 0 .. f - 1 /\ k = f * j + l
      BY <1>1, <2>1, Division
    <2>. HIDE DEF j, l
    <2>3. j < q
      <3>1. ASSUME q <= j PROVE FALSE
        <4>1. q * f <= j * f /\ q * f \in Nat /\ j * f \in Nat
          BY <1>1, <1>2, <2>2, <3>1, Monotone
        <4>2. q * f = f * q /\ j * f = f * j
          BY <1>1, <1>2, <2>2
        <4>. DEFINE a == q * f
                    b == j * f
        <4>3. a <= b /\ a \in Nat /\ b \in Nat /\ t = a + m /\ k = b + l
          BY <1>2, <2>2, <4>1, <4>2
        <4>. HIDE DEF a, b
        <4>. QED
          BY <1>1, <1>2, <1>3, <2>1, <2>2, <4>3
      <3>. QED
        BY <1>2, <2>2, <3>1
    <2>4. i \in 1 .. q /\ i \in Nat /\ i >= 1 /\ i - 1 = j
      BY <1>2, <2>2, <2>3
    <2>. HIDE DEF i
    <2>. DEFINE a == (i - 1) * f
                b == i * f
    <2>5. a \in Nat /\ b = a + f /\ Fanout(i) = a .. (IF b <= N - 1 THEN b ELSE N - 1) - 1
      BY <1>4, <1>5, <2>4
    <2>6. k = a + l
      <3>1. f * j = a
        BY <1>1, <2>2, <2>4
      <3>. QED
        BY <2>2, <3>1
    <2>. HIDE DEF a, b
    <2>7. k \in Fanout(i)
      BY <1>1, <2>1, <2>2, <2>5, <2>6
    <2>. QED
      BY <2>4, <2>7
  <1>8. q >= 1
    <2>1. 0 \in 0 .. N - 2
      BY <1>1
    <2>2. PICK i \in 1 .. q : 0 \in Fanout(i)
      BY <1>7, <2>1
    <2>. QED
      BY <1>2, <2>2
  <1>9. ASSUME q >= N PROVE FALSE
    <2>. DEFINE h == N - 1
    <2>1. h \in Nat /\ h >= 1 /\ N = h + 1
      BY <1>1
    <2>2. N * f <= q * f /\ N * f \in Nat /\ q * f \in Nat
      BY <1>1, <1>2, <1>9, Monotone
    <2>3. (h + 1) * f = h * f + f
      BY <1>1, <2>1, Monotone
    <2>4. 1 * h <= f * h
      <3>1. 1 <= f /\ 1 \in Nat
        BY <1>1
      <3>. QED
        BY <1>1, <2>1, <3>1, Monotone
    <2>. DEFINE a == q * f
                b == h * f
    <2>5. b + f <= a /\ h <= b /\ a \in Nat /\ b \in Nat /\ t = a + m
      <3>1. q * f = f * q /\ h * f = f * h /\ f * h \in Nat /\ 1 * h = h
        BY <1>1, <1>2, <2>1
      <3>2. N * f = h * f + f
        BY <2>1, <2>3
      <3>. QED
        BY <1>2, <2>2, <2>4, <3>1, <3>2
    <2>. HIDE DEF a, b
    <2>. QED
      BY <1>1, <1>2, <1>3, <2>1, <2>5
  <1>. QED
    BY <1>1, <1>2, <1>6, <1>7, <1>8, <1>9 DEF q

TaskSet == [op : {"reduce", "barrier", "copy"}, src : Ranks, dsts : SUBSET Ranks]

LEMMA ListFacts ==
  ASSUME NEW r \in Ranks
  PROVE  /\ Reduces(r) \in Seq(TaskSet) /\ Len(Reduces(r)) = N - 1
         /\ Barrier(r) \in Seq(TaskSet) /\ Len(Barrier(r)) = 1
         /\ Barrier(r)[1] = [op |-> "barrier", src |-> r, dsts |-> {}]
         /\ Copies(r) \in Seq(TaskSet) /\ Len(Copies(r)) = CopyCount
         /\ \A i \in 1 .. CopyCount :
                Copies(r)[i] = [op |-> "copy", src |-> r,
                                dsts |-> {PeerAt(r, j) : j \in Fanout(i)}]
  <1>1. ASSUME NEW i \in 1 .. N - 1
        PROVE  [op |-> "reduce", src |-> PeerAt(r, i - 1), dsts |-> {r}] \in TaskSet
    <2>1. i - 1 \in 0 .. N - 2
      BY SizeFacts
    <2>2. PeerAt(r, i - 1) \in Ranks
      BY <2>1, PeerFacts DEF Peers
    <2>. QED
      BY <2>2 DEF TaskSet
  <1>2. N - 1 \in Nat /\ CopyCount \in Nat
    BY SizeFacts, FanoutFacts
  <1>3. Reduces(r) \in Seq(TaskSet) /\ Len(Reduces(r)) = N - 1
    BY <1>1, <1>2 DEF Reduces
  <1>4. Barrier(r) \in Seq(TaskSet) /\ Len(Barrier(r)) = 1
        /\ Barrier(r)[1] = [op |-> "barrier", src |-> r, dsts |-> {}]
    BY DEF Barrier, TaskSet
  <1>5. Copies(r) = [i \in 1 .. CopyCount |->
                        [op |-> "copy", src |-> r, dsts |-> {PeerAt(r, j) : j \in Fanout(i)}]]
    BY DEF Copies, CopyCount, Fanout
  <1>6. ASSUME NEW i \in 1 .. CopyCount
        PROVE  [op |-> "copy", src |-> r, dsts |-> {PeerAt(r, j) : j \in Fanout(i)}] \in TaskSet
    <2>1. {PeerAt(r, j) : j \in Fanout(i)} \subseteq Ranks
      BY PeerFacts, FanoutFacts DEF Peers
    <2>. QED
      BY <2>1 DEF TaskSet
  <1>7. Copies(r) \in Seq(TaskSet) /\ Len(Copies(r)) = CopyCount
    BY <1>2, <1>5, <1>6
  <1>. QED
    BY <1>3, <1>4, <1>5, <1>7

LEMMA CopyFacts ==
  ASSUME NEW r \in Ranks
  PROVE  /\ \A i \in 1 .. CopyCount : /\ Copies(r)[i].op = "copy" /\ Copies(r)[i].src = r
                                      /\ Copies(r)[i].dsts \subseteq Peers(r)
         /\ \A s \in Peers(r) : \E i \in 1 .. CopyCount : s \in Copies(r)[i].dsts
  <1>1. ASSUME NEW i \in 1 .. CopyCount
        PROVE  /\ Copies(r)[i].op = "copy" /\ Copies(r)[i].src = r
               /\ Copies(r)[i].dsts = {PeerAt(r, j) : j \in Fanout(i)}
               /\ Copies(r)[i].dsts \subseteq Peers(r)
    <2>. DEFINE D == {PeerAt(r, j) : j \in Fanout(i)}
    <2>0. Copies(r)[i] = [op |-> "copy", src |-> r, dsts |-> D]
      BY ListFacts
    <2>. HIDE DEF D
    <2>1. Copies(r)[i].op = "copy" /\ Copies(r)[i].src = r /\ Copies(r)[i].dsts = D
      BY <2>0
    <2>2. {PeerAt(r, j) : j \in Fanout(i)} \subseteq Peers(r)
      BY PeerFacts, FanoutFacts
    <2>. QED
      BY <2>1, <2>2 DEF D
  <1>2. ASSUME NEW s \in Peers(r) PROVE \E i \in 1 .. CopyCount : s \in Copies(r)[i].dsts
    <2>1. PeerIndex(r, s) \in 0 .. N - 2 /\ PeerAt(r, PeerIndex(r, s)) = s
      BY PeerFacts
    <2>2. PICK i \in 1 .. CopyCount : PeerIndex(r, s) \in Fanout(i)
      BY <2>1, FanoutFacts
    <2>. QED
      BY <1>1, <2>1, <2>2
  <1>. QED
    BY <1>1, <1>2

LEMMA AllReduceList ==
  ASSUME NEW r \in Ranks
  PROVE  /\ Len(AllReduceTasks(r)) = N + CopyCount
         /\ \A i \in 1 .. N - 1 : AllReduceTasks(r)[i] = Reduces(r)[i]
         /\ AllReduceTasks(r)[N] = [op |-> "barrier", src |-> r, dsts |-> {}]
         /\ \A i \in 1 .. CopyCount : AllReduceTasks(r)[N + i] = Copies(r)[i]
  <1>. DEFINE a == Reduces(r)
              b == Barrier(r)
              c == Copies(r)
  <1>1. /\ a \in Seq(TaskSet) /\ Len(a) = N - 1 /\ b \in Seq(TaskSet) /\ Len(b) = 1
        /\ c \in Seq(TaskSet) /\ Len(c) = CopyCount /\ N \in Nat /\ N >= 2 /\ CopyCount \in Nat
        /\ b[1] = [op |-> "barrier", src |-> r, dsts |-> {}]
    BY ListFacts, SizeFacts, FanoutFacts
  <1>. HIDE DEF a, b, c
  <1>2. /\ a \o b \in Seq(TaskSet) /\ Len(a \o b) = N
        /\ \A i \in 1 .. N : (a \o b)[i] = IF i <= N - 1 THEN a[i] ELSE b[i - (N - 1)]
    <2>1. /\ a \o b \in Seq(TaskSet) /\ Len(a \o b) = Len(a) + Len(b)
          /\ \A i \in 1 .. Len(a) + Len(b) :
                 (a \o b)[i] = IF i <= Len(a) THEN a[i] ELSE b[i - Len(a)]
      BY <1>1, ConcatProperties
    <2>2. Len(a) + Len(b) = N
      BY <1>1
    <2>. QED
      BY <1>1, <2>1, <2>2
  <1>3. /\ Len((a \o b) \o c) = N + CopyCount
        /\ \A i \in 1 .. N + CopyCount :
               ((a \o b) \o c)[i] = IF i <= N THEN (a \o b)[i] ELSE c[i - N]
    BY <1>1, <1>2, ConcatProperties
  <1>4. AllReduceTasks(r) = (a \o b) \o c
    BY DEF AllReduceTasks, a, b, c
  <1>. DEFINE l == AllReduceTasks(r)
  <1>5. ASSUME NEW i \in 1 .. N - 1 PROVE l[i] = a[i]
    <2>1. i \in 1 .. N + CopyCount /\ i <= N /\ i \in 1 .. N /\ i <= N - 1
      BY <1>1
    <2>. QED
      BY <1>2, <1>3, <1>4, <2>1
  <1>6. l[N] = b[1]
    <2>1. N \in 1 .. N + CopyCount /\ N <= N /\ N \in 1 .. N /\ ~(N <= N - 1) /\ N - (N - 1) = 1
      BY <1>1
    <2>. QED
      BY <1>2, <1>3, <1>4, <2>1
  <1>7. ASSUME NEW i \in 1 .. CopyCount PROVE l[N + i] = c[i]
    <2>1. N + i \in 1 .. N + CopyCount /\ ~(N + i <= N) /\ (N + i) - N = i
      BY <1>1
    <2>. QED
      BY <1>3, <1>4, <2>1
  <1>. QED
    BY <1>1, <1>3, <1>4, <1>5, <1>6, <1>7 DEF a, c

LEMMA ShapeHolds ==
  ASSUME Typed, NoEmptySlice, NEW r \in Ranks, Active(r)
  PROVE  Shape(r)
  <1>1. /\ ~Rejected(Kind(r), Count(r)) /\ Windows(Count(r), r) # 0
        /\ Kind(r) \in {"all_reduce", "reduce_scatter", "all_gather"}
    BY LaunchFacts, RankFacts DEF Active, Planned, Kind, Count, Kinds
  <1>2. N \in Nat /\ N >= 2 /\ CopyCount \in 1 .. N - 1 /\ CopyCount \in Nat
    BY SizeFacts, FanoutFacts
  <1>3. ASSUME NEW i \in 1 .. N - 1
        PROVE  Reduces(r)[i] = [op |-> "reduce", src |-> PeerAt(r, i - 1), dsts |-> {r}]
    BY DEF Reduces
  <1>4. CASE Kind(r) = "all_reduce"
    <2>1. Tasks(r) = AllReduceTasks(r)
      BY <1>1, <1>4 DEF Tasks
    <2>2. /\ Len(Tasks(r)) = N + CopyCount
          /\ ReduceTasks(r) = 1 .. N - 1 /\ CopyTasks(r) = N + 1 .. N + CopyCount
      BY <1>4, <2>1, AllReduceList DEF ReduceTasks, CopyTasks
    <2>3. 1 .. Len(Tasks(r)) = ReduceTasks(r) \cup CopyTasks(r) \cup {N}
      BY <1>2, <2>2
    <2>4. ASSUME NEW i \in CopyTasks(r)
          PROVE  /\ i - N \in 1 .. CopyCount /\ Tasks(r)[i] = Copies(r)[i - N]
      <3>1. i - N \in 1 .. CopyCount /\ N + (i - N) = i
        BY <1>2, <2>2
      <3>. QED
        BY <2>1, <3>1, AllReduceList
    <2>5. ASSUME NEW s \in Peers(r) PROVE \E i \in CopyTasks(r) : s \in Tasks(r)[i].dsts
      <3>1. PICK k \in 1 .. CopyCount : s \in Copies(r)[k].dsts
        BY CopyFacts
      <3>2. Tasks(r)[N + k] = Copies(r)[k]
        BY <2>1, AllReduceList
      <3>3. N + k \in CopyTasks(r)
        BY <1>2, <2>2
      <3>. QED
        BY <3>1, <3>2, <3>3
    <2>6. \A i \in CopyTasks(r) : /\ Tasks(r)[i].op = "copy" /\ Tasks(r)[i].src = r
                                  /\ Tasks(r)[i].dsts \subseteq Peers(r)
      BY <2>4, CopyFacts
    <2>7. ASSUME NEW i \in ReduceTasks(r)
          PROVE  Tasks(r)[i] = [op |-> "reduce", src |-> PeerAt(r, i - 1), dsts |-> {r}]
      <3>1. i \in 1 .. N - 1
        BY <2>2
      <3>2. Tasks(r)[i] = Reduces(r)[i]
        BY <2>1, <3>1, AllReduceList
      <3>. QED
        BY <1>3, <3>1, <3>2
    <2>8. Tasks(r)[N] = [op |-> "barrier", src |-> r, dsts |-> {}]
      BY <2>1, AllReduceList
    <2>9. Len(Tasks(r)) \in 1 .. 2 * N - 1
      BY <1>2, <2>2
    <2>. QED
      BY <1>4, <2>3, <2>5, <2>6, <2>7, <2>8, <2>9 DEF Shape
  <1>5. CASE Kind(r) = "reduce_scatter"
    <2>1. Tasks(r) = Reduces(r)
      BY <1>1, <1>5 DEF Tasks, ReduceScatterTasks
    <2>2. /\ Len(Tasks(r)) = N - 1
          /\ ReduceTasks(r) = 1 .. N - 1 /\ CopyTasks(r) = {}
      <3>1. Len(Tasks(r)) = N - 1
        BY <2>1, ListFacts
      <3>2. N + 1 .. N - 1 = {}
        BY <1>2
      <3>. QED
        BY <1>5, <3>1, <3>2 DEF ReduceTasks, CopyTasks
    <2>3. Len(Tasks(r)) \in 1 .. 2 * N - 1
      BY <1>2, <2>2
    <2>. QED
      BY <1>3, <1>5, <2>1, <2>2, <2>3 DEF Shape
  <1>6. CASE Kind(r) = "all_gather"
    <2>1. Tasks(r) = Copies(r)
      BY <1>1, <1>6 DEF Tasks, AllGatherTasks
    <2>2. /\ Len(Tasks(r)) = CopyCount
          /\ ReduceTasks(r) = {} /\ CopyTasks(r) = 1 .. CopyCount
      BY <1>6, <2>1, ListFacts DEF ReduceTasks, CopyTasks
    <2>3. Len(Tasks(r)) \in 1 .. 2 * N - 1
      BY <1>2, <2>2
    <2>. QED
      BY <1>6, <2>1, <2>2, <2>3, CopyFacts DEF Shape
  <1>. QED
    BY <1>1, <1>4, <1>5, <1>6
-------------------------------------------------------------------------------
(* The work of the CTAs: every window of a task is some CTA's, a reduced   *)
(* window of one CTA only, and without a barrier a CTA copies only what it *)
(* has reduced itself.                                                     *)

Coverage(r) ==
    /\ \A c \in Grid(r) : \A i \in 1 .. Len(Tasks(r)) :
           Work(r, c, i) \subseteq (0 .. Slice(r) - 1) \X Tasks(r)[i].dsts
    /\ \A c \in Grid(r) : \A i \in Nat :
           i > Len(Tasks(r)) \/ (Kind(r) = "all_reduce" /\ i = N) => Work(r, c, i) = {}
    /\ \A i \in ReduceTasks(r) : \A w \in 0 .. Slice(r) - 1 :
           \E c \in Grid(r) : <<w, r>> \in Work(r, c, i)
    /\ \A i \in ReduceTasks(r) : \A c, d \in Grid(r) : \A w \in Nat :
           <<w, r>> \in Work(r, c, i) /\ <<w, r>> \in Work(r, d, i) => c = d
    /\ \A i \in CopyTasks(r) : \A w \in 0 .. Slice(r) - 1 :
           \E c \in Grid(r) : \A d \in Tasks(r)[i].dsts : <<w, d>> \in Work(r, c, i)
    /\ ~HasBarrier(r) =>
           \A i \in ReduceTasks(r) : \A j \in CopyTasks(r) : \A c \in Grid(r) :
               \A w \in Nat : \A d \in Ranks :
                   <<w, d>> \in Work(r, c, j) => <<w, r>> \in Work(r, c, i)

(* What the lowering works with. *)
LEMMA PlanFacts ==
  ASSUME Typed, NoEmptySlice, NEW r \in Ranks, Active(r)
  PROVE  /\ Launched(r) \in Nat /\ Launched(r) # 0 /\ Grid(r) = 0 .. Launched(r) - 1
         /\ MaxGroup(r) \in Nat /\ MaxGroup(r) # 0 /\ Kind(r) \in Kinds /\ Count(r) \in Nat
         /\ Slice(r) \in Nat /\ Slice(r) <= MaxWindows /\ Shape(r)
  BY LaunchFacts, RankFacts, ShapeHolds, SizeFacts DEF Active, Slice

LEMMA TaskIndex ==
  ASSUME Typed, NoEmptySlice, NEW r \in Ranks, Active(r)
  PROVE  /\ Len(Tasks(r)) \in Nat
         /\ \A i \in ReduceTasks(r) \cup CopyTasks(r) :
                i \in Nat /\ i # 0 /\ i <= Len(Tasks(r)) /\ i \in 1 .. Len(Tasks(r))
         /\ \A i \in ReduceTasks(r) : i < N /\ i \in 1 .. N - 1
         /\ \A i \in ReduceTasks(r), j \in CopyTasks(r) : i < N /\ N < j
  <1>1. Shape(r) /\ N \in Nat
    BY PlanFacts, SizeFacts
  <1>2. Len(Tasks(r)) \in 1 .. 2 * N - 1
        /\ ReduceTasks(r) \cup CopyTasks(r) \subseteq 1 .. Len(Tasks(r))
    BY <1>1 DEF Shape
  <1>3. \A i \in ReduceTasks(r) : i < N /\ i \in 1 .. N - 1
    BY <1>1 DEF ReduceTasks
  <1>4. \A i \in ReduceTasks(r), j \in CopyTasks(r) : i < N /\ N < j
    BY <1>1 DEF ReduceTasks, CopyTasks
  <1>5. Len(Tasks(r)) \in Nat
    BY <1>1, <1>2
  <1>. HIDE DEF ReduceTasks, CopyTasks
  <1>. QED
    BY <1>2, <1>3, <1>4, <1>5

LEMMA ScatterHasNoCopies ==
  ASSUME Typed, NoEmptySlice, NEW r \in Ranks, Active(r), Kind(r) = "reduce_scatter"
  PROVE  CopyTasks(r) = {}
  <1>1. ~Rejected(Kind(r), Count(r)) /\ Windows(Count(r), r) # 0
    BY LaunchFacts DEF Active, Planned, Kind, Count
  <1>2. Tasks(r) = Reduces(r)
    BY <1>1 DEF Tasks, ReduceScatterTasks
  <1>3. Len(Tasks(r)) = N - 1
    BY <1>2, ListFacts
  <1>4. N + 1 .. N - 1 = {}
    BY SizeFacts
  <1>. QED
    BY <1>3, <1>4 DEF CopyTasks

LEMMA WorkOfReduce ==
  ASSUME Typed, NoEmptySlice, NEW r \in Ranks, Active(r), NEW i \in ReduceTasks(r), NEW c \in Nat
  PROVE  LET g == ReduceGroup(r, i - 1)
         IN  Work(r, c, i) =
                 (IF c \in g.first .. g.first + g.count - 1
                  THEN Share(c - g.first, g.count, Slice(r)) ELSE {}) \X {r}
  <1>1. i \in Nat /\ i <= Len(Tasks(r)) /\ Len(Tasks(r)) \in Nat
    BY TaskIndex
  <1>2. Tasks(r)[i] = [op |-> "reduce", src |-> PeerAt(r, i - 1), dsts |-> {r}]
    BY PlanFacts DEF Shape
  <1>3. Tasks(r)[i].op = "reduce" /\ Tasks(r)[i].dsts = {r}
    BY <1>2
  <1>4. Work(r, c, i) = TaskWindows(r, c, i) \X {r}
    BY <1>1, <1>3 DEF Work
  <1>5. TaskWindows(r, c, i) =
            IF c \in ReduceGroup(r, i - 1).first
                     .. ReduceGroup(r, i - 1).first + ReduceGroup(r, i - 1).count - 1
            THEN Share(c - ReduceGroup(r, i - 1).first, ReduceGroup(r, i - 1).count, Slice(r))
            ELSE {}
    BY <1>3 DEF TaskWindows, Slice
  <1>. QED
    BY <1>4, <1>5

LEMMA WorkOfCopy ==
  ASSUME Typed, NoEmptySlice, NEW r \in Ranks, Active(r), NEW i \in CopyTasks(r), NEW c \in Nat
  PROVE  Work(r, c, i) = Share(c, Launched(r), Slice(r)) \X Tasks(r)[i].dsts
  <1>1. i \in Nat /\ i <= Len(Tasks(r)) /\ Len(Tasks(r)) \in Nat
    BY TaskIndex
  <1>2. Tasks(r)[i].op = "copy"
    BY PlanFacts DEF Shape
  <1>3. TaskWindows(r, c, i) = Share(c, Launched(r), Slice(r))
    BY <1>2 DEF TaskWindows, Slice
  <1>. QED
    BY <1>1, <1>3 DEF Work

LEMMA NoWork ==
  ASSUME Typed, NoEmptySlice, NEW r \in Ranks, Active(r), NEW c \in Nat, NEW i \in Nat,
         i > Len(Tasks(r)) \/ (Kind(r) = "all_reduce" /\ i = N)
  PROVE  Work(r, c, i) = {}
  <1>1. CASE i > Len(Tasks(r))
    BY <1>1 DEF Work
  <1>2. CASE Kind(r) = "all_reduce" /\ i = N
    <2>1. Tasks(r)[i] = [op |-> "barrier", src |-> r, dsts |-> {}]
      BY <1>2, PlanFacts DEF Shape
    <2>2. Tasks(r)[i].dsts = {}
      BY <2>1
    <2>. QED
      BY <2>2 DEF Work
  <1>. QED
    BY <1>1, <1>2

(* The group of a reduce task, as the shares of its CTAs. *)
LEMMA ReduceShares ==
  ASSUME Typed, NoEmptySlice, NEW r \in Ranks, Active(r), NEW i \in ReduceTasks(r)
  PROVE  /\ \A c \in Grid(r) : Work(r, c, i) \subseteq (0 .. Slice(r) - 1) \X {r}
         /\ \A w \in 0 .. Slice(r) - 1 : \E c \in Grid(r) : <<w, r>> \in Work(r, c, i)
         /\ \A c, d \in Grid(r) : \A w \in Nat :
                <<w, r>> \in Work(r, c, i) /\ <<w, r>> \in Work(r, d, i) => c = d
  <1>. DEFINE f == ReduceGroup(r, i - 1).first
              k == ReduceGroup(r, i - 1).count
              n == Launched(r)
              W == Slice(r)
              S(c) == IF c \in f .. f + k - 1 THEN Share(c - f, k, W) ELSE {}
  <1>1. n \in Nat /\ n # 0 /\ Grid(r) = 0 .. n - 1 /\ W \in Nat
        /\ MaxGroup(r) \in Nat /\ MaxGroup(r) # 0
    BY PlanFacts
  <1>2. i - 1 \in Nat
    BY TaskIndex
  <1>3. f \in Nat /\ k \in Nat /\ k # 0 /\ f + k <= n
    BY <1>1, <1>2, GroupFacts
  <1>4. \A c \in Nat : Work(r, c, i) = S(c) \X {r}
    BY WorkOfReduce
  <1>. HIDE DEF f, k, n, W
  <1>5. /\ \A c \in 0 .. k - 1 : Share(c, k, W) \subseteq 0 .. W - 1
        /\ \A x \in 0 .. W - 1 : \E c \in 0 .. k - 1 : x \in Share(c, k, W)
        /\ \A c, d \in 0 .. k - 1 : Share(c, k, W) \cap Share(d, k, W) # {} => c = d
    BY <1>1, <1>3, SharesPartition
  <1>6. ASSUME NEW c \in Grid(r) PROVE S(c) \subseteq 0 .. W - 1 /\ c \in Nat
    <2>1. c \in Nat
      BY <1>1
    <2>2. ASSUME c \in f .. f + k - 1 PROVE Share(c - f, k, W) \subseteq 0 .. W - 1
      <3>1. c - f \in 0 .. k - 1
        BY <1>3, <2>2
      <3>. QED
        BY <1>5, <3>1
    <2>. QED
      BY <2>1, <2>2
  <1>7. ASSUME NEW w \in 0 .. W - 1 PROVE \E c \in Grid(r) : w \in S(c)
    <2>1. PICK x \in 0 .. k - 1 : w \in Share(x, k, W)
      BY <1>5
    <2>2. f + x \in Grid(r) /\ f + x \in f .. f + k - 1 /\ (f + x) - f = x
      BY <1>1, <1>3
    <2>3. w \in S(f + x)
      BY <2>1, <2>2
    <2>. QED
      BY <2>2, <2>3
  <1>8. ASSUME NEW c \in Grid(r), NEW d \in Grid(r), NEW w, w \in S(c), w \in S(d) PROVE c = d
    <2>1. c \in f .. f + k - 1 /\ d \in f .. f + k - 1
          /\ w \in Share(c - f, k, W) /\ w \in Share(d - f, k, W)
      BY <1>8
    <2>2. c - f \in 0 .. k - 1 /\ d - f \in 0 .. k - 1
      BY <1>3, <2>1
    <2>3. c - f = d - f
      BY <1>5, <2>1, <2>2
    <2>. QED
      BY <1>3, <2>1, <2>3
  <1>. HIDE DEF S
  <1>9. ASSUME NEW c \in Grid(r) PROVE Work(r, c, i) \subseteq (0 .. W - 1) \X {r}
    BY <1>4, <1>6
  <1>10. ASSUME NEW w \in 0 .. W - 1 PROVE \E c \in Grid(r) : <<w, r>> \in Work(r, c, i)
    BY <1>4, <1>6, <1>7
  <1>11. ASSUME NEW c \in Grid(r), NEW d \in Grid(r), NEW w \in Nat,
                <<w, r>> \in Work(r, c, i), <<w, r>> \in Work(r, d, i)
         PROVE  c = d
    <2>1. w \in S(c) /\ w \in S(d)
      BY <1>4, <1>6, <1>11
    <2>. QED
      BY <1>8, <2>1
  <1>. QED
    BY <1>9, <1>10, <1>11 DEF W

LEMMA CopyShares ==
  ASSUME Typed, NoEmptySlice, NEW r \in Ranks, Active(r), NEW i \in CopyTasks(r)
  PROVE  /\ \A c \in Grid(r) : Work(r, c, i) \subseteq (0 .. Slice(r) - 1) \X Tasks(r)[i].dsts
         /\ \A w \in 0 .. Slice(r) - 1 :
                \E c \in Grid(r) : \A d \in Tasks(r)[i].dsts : <<w, d>> \in Work(r, c, i)
  <1>. DEFINE n == Launched(r)
              W == Slice(r)
              D == Tasks(r)[i].dsts
  <1>1. n \in Nat /\ n # 0 /\ Grid(r) = 0 .. n - 1 /\ W \in Nat
    BY PlanFacts
  <1>2. \A c \in Nat : Work(r, c, i) = Share(c, n, W) \X D
    BY WorkOfCopy
  <1>. HIDE DEF n, W, D
  <1>3. /\ \A c \in 0 .. n - 1 : Share(c, n, W) \subseteq 0 .. W - 1
        /\ \A x \in 0 .. W - 1 : \E c \in 0 .. n - 1 : x \in Share(c, n, W)
    BY <1>1, SharesPartition
  <1>4. \A c \in Grid(r) : c \in Nat
    BY <1>1
  <1>. QED
    BY <1>1, <1>2, <1>3, <1>4 DEF W, D

LEMMA CopiesOwnReduces ==
  ASSUME Typed, NoEmptySlice, NEW r \in Ranks, Active(r), ~HasBarrier(r),
         NEW i \in ReduceTasks(r), NEW j \in CopyTasks(r), NEW c \in Grid(r),
         NEW w \in Nat, NEW d \in Ranks, <<w, d>> \in Work(r, c, j)
  PROVE  <<w, r>> \in Work(r, c, i)
  <1>1. Launched(r) \in Nat /\ Launched(r) # 0 /\ Grid(r) = 0 .. Launched(r) - 1
        /\ MaxGroup(r) \in Nat /\ MaxGroup(r) # 0 /\ Kind(r) \in Kinds
    BY PlanFacts
  <1>2. i - 1 \in Nat /\ N < j /\ j <= Len(Tasks(r))
    BY TaskIndex
  <1>3. Kind(r) = "all_reduce"
    <2>1. Kind(r) # "all_gather"
      BY DEF ReduceTasks
    <2>2. Kind(r) # "reduce_scatter"
      BY ScatterHasNoCopies
    <2>. QED
      BY <1>1, <2>1, <2>2 DEF Kinds
  <1>4. BarrierElided(r)
    BY <1>3 DEF HasBarrier, Barriers
  <1>5. ReduceGroup(r, i - 1) = [first |-> 0, count |-> Launched(r)]
    BY <1>1, <1>2, <1>4, ElidedFacts
  <1>6. ReduceGroup(r, i - 1).first = 0 /\ ReduceGroup(r, i - 1).count = Launched(r)
    BY <1>5
  <1>7. c \in Nat /\ c \in 0 .. 0 + Launched(r) - 1 /\ c - 0 = c
    BY <1>1
  <1>8. Work(r, c, i) = Share(c, Launched(r), Slice(r)) \X {r}
    BY <1>6, <1>7, WorkOfReduce
  <1>9. Work(r, c, j) = Share(c, Launched(r), Slice(r)) \X Tasks(r)[j].dsts
    BY <1>7, WorkOfCopy
  <1>. QED
    BY <1>8, <1>9

LEMMA CoverageHolds ==
  ASSUME Typed, NoEmptySlice, NEW r \in Ranks, Active(r)
  PROVE  Coverage(r)
  <1>1. \A c \in Grid(r) : c \in Nat
    BY PlanFacts
  <1>2. ASSUME NEW c \in Grid(r), NEW i \in 1 .. Len(Tasks(r))
        PROVE  Work(r, c, i) \subseteq (0 .. Slice(r) - 1) \X Tasks(r)[i].dsts
    <2>1. Shape(r)
      BY PlanFacts
    <2>2. CASE i \in ReduceTasks(r)
      <3>1. Tasks(r)[i] = [op |-> "reduce", src |-> PeerAt(r, i - 1), dsts |-> {r}]
        BY <2>1, <2>2 DEF Shape
      <3>2. Tasks(r)[i].dsts = {r}
        BY <3>1
      <3>. QED
        BY <2>2, <3>2, ReduceShares
    <2>3. CASE i \in CopyTasks(r)
      BY <2>3, CopyShares
    <2>4. CASE Kind(r) = "all_reduce" /\ i = N
      <3>1. i \in Nat
        BY TaskIndex
      <3>2. Work(r, c, i) = {}
        BY <1>1, <2>4, <3>1, NoWork
      <3>. QED
        BY <3>2
    <2>. QED
      BY <2>1, <2>2, <2>3, <2>4 DEF Shape
  <1>3. ASSUME NEW c \in Grid(r), NEW i \in Nat,
               i > Len(Tasks(r)) \/ (Kind(r) = "all_reduce" /\ i = N)
        PROVE  Work(r, c, i) = {}
    BY <1>1, <1>3, NoWork
  <1>4. \A i \in ReduceTasks(r) : \A w \in 0 .. Slice(r) - 1 :
            \E c \in Grid(r) : <<w, r>> \in Work(r, c, i)
    BY ReduceShares
  <1>5. \A i \in ReduceTasks(r) : \A c, d \in Grid(r) : \A w \in Nat :
            <<w, r>> \in Work(r, c, i) /\ <<w, r>> \in Work(r, d, i) => c = d
    BY ReduceShares
  <1>6. \A i \in CopyTasks(r) : \A w \in 0 .. Slice(r) - 1 :
            \E c \in Grid(r) : \A d \in Tasks(r)[i].dsts : <<w, d>> \in Work(r, c, i)
    BY CopyShares
  <1>7. ~HasBarrier(r) =>
            \A i \in ReduceTasks(r) : \A j \in CopyTasks(r) : \A c \in Grid(r) :
                \A w \in Nat : \A d \in Ranks :
                    <<w, d>> \in Work(r, c, j) => <<w, r>> \in Work(r, c, i)
    BY CopiesOwnReduces
  <1>. QED
    BY <1>2, <1>3, <1>4, <1>5, <1>6, <1>7 DEF Coverage
-------------------------------------------------------------------------------
(* What the counter and the ready values tell.                             *)

LEMMA GridActive ==
  ASSUME Typed, NoEmptySlice, NEW r \in Ranks, Grid(r) # {}
  PROVE  Active(r)
  <1>1. epoch[r] = 0 \/ epoch[r] > 0
    BY RankFacts
  <1>. QED
    BY <1>1, LaunchFacts DEF Active

LEMMA ArrivalFacts ==
  ASSUME Typed, NoEmptySlice, NEW r \in Ranks
  PROVE  \A S \in {Entered(r), Halfway(r), Finished(r)} :
             /\ S \subseteq Grid(r) /\ Cardinality(S) \in Nat /\ Cardinality(S) <= Launched(r)
             /\ Cardinality(S) = Launched(r) => S = Grid(r)
             /\ S = {} => Cardinality(S) = 0
  <1>1. ASSUME NEW S \in {Entered(r), Halfway(r), Finished(r)} PROVE S \subseteq Grid(r)
    BY DEF Entered, Halfway, Finished
  <1>2. IsFiniteSet(Grid(r)) /\ Cardinality(Grid(r)) = Launched(r) /\ Launched(r) \in Nat
    BY LaunchFacts
  <1>3. ASSUME NEW S \in {Entered(r), Halfway(r), Finished(r)}
        PROVE  /\ Cardinality(S) \in Nat /\ Cardinality(S) <= Launched(r)
               /\ Cardinality(S) = Launched(r) => S = Grid(r)
               /\ S = {} => Cardinality(S) = 0
    <2>1. IsFiniteSet(S) /\ Cardinality(S) \in Nat /\ Cardinality(S) <= Launched(r)
          /\ (Cardinality(S) = Launched(r) => S = Grid(r))
      BY <1>1, <1>2, FS_Subset, FS_CardinalityType
    <2>. QED
      BY <2>1, FS_EmptySet
  <1>. QED
    BY <1>1, <1>3

LEMMA CountFacts ==
  ASSUME Typed, NoEmptySlice, NEW r \in Ranks, Active(r), Counting(r)
  PROVE  LET n == Launched(r)
             e == Cardinality(Entered(r))
             h == Cardinality(Halfway(r))
             f == Cardinality(Finished(r))
         IN  /\ n \in Nat /\ n # 0 /\ e \in 0 .. n /\ h \in 0 .. n /\ f \in 0 .. n
             /\ counter[r] \in Nat /\ entry[r] \in Nat /\ last_value[r] \in Nat
             /\ HasBarrier(r) => /\ counter[r] + n = entry[r] + e + f + h
                                 /\ last_value[r] = entry[r] + n + n
             /\ ~HasBarrier(r) => /\ counter[r] + n = entry[r] + e + f
                                  /\ last_value[r] = entry[r] + n
  <1>1. Launched(r) \in Nat /\ Launched(r) # 0
    BY PlanFacts
  <1>2. counter[r] \in Nat /\ entry[r] \in Nat /\ last_value[r] \in Nat
    BY DEF Typed
  <1>3. /\ Cardinality(Entered(r)) \in Nat /\ Cardinality(Entered(r)) <= Launched(r)
        /\ Cardinality(Halfway(r)) \in Nat /\ Cardinality(Halfway(r)) <= Launched(r)
        /\ Cardinality(Finished(r)) \in Nat /\ Cardinality(Finished(r)) <= Launched(r)
    BY ArrivalFacts
  <1>4. epoch[r] # 0
    BY RankFacts DEF Active
  <1>5. /\ HasBarrier(r) =>
               /\ counter[r] + Launched(r) = entry[r] + Cardinality(Entered(r))
                      + Cardinality(Finished(r)) + Cardinality(Halfway(r))
               /\ last_value[r] = entry[r] + Launched(r) + Launched(r)
        /\ ~HasBarrier(r) =>
               /\ counter[r] + Launched(r) = entry[r] + Cardinality(Entered(r))
                      + Cardinality(Finished(r))
               /\ last_value[r] = entry[r] + Launched(r)
    BY <1>1, <1>2, <1>3, <1>4 DEF Counting
  <1>. QED
    BY <1>1, <1>2, <1>3, <1>5

(* The grid barriers: a CTA passes only when all have arrived. *)
LEMMA EntryComplete ==
  ASSUME Typed, NoEmptySlice, NEW r \in Ranks, Active(r), Counting(r), Stages(r),
         counter[r] >= entry[r]
  PROVE  Entered(r) = Grid(r)
  <1>. DEFINE n == Launched(r)
              e == Cardinality(Entered(r))
              h == Cardinality(Halfway(r))
              f == Cardinality(Finished(r))
  <1>1. /\ n \in Nat /\ n # 0 /\ e \in 0 .. n /\ h \in 0 .. n /\ f \in 0 .. n
        /\ counter[r] \in Nat /\ entry[r] \in Nat
        /\ HasBarrier(r) => counter[r] + n = entry[r] + e + f + h
        /\ ~HasBarrier(r) => counter[r] + n = entry[r] + e + f
    BY CountFacts
  <1>2. ASSUME Entered(r) # Grid(r) PROVE Halfway(r) = {} /\ Finished(r) = {}
    BY <1>2 DEF Stages, Halfway, Finished, Ended
  <1>3. Halfway(r) = {} => h = 0
    BY FS_EmptySet
  <1>4. Finished(r) = {} => f = 0
    BY FS_EmptySet
  <1>5. e = n => Entered(r) = Grid(r)
    BY ArrivalFacts
  <1>. HIDE DEF n, e, h, f
  <1>. QED
    BY <1>1, <1>2, <1>3, <1>4, <1>5

LEMMA BarrierComplete ==
  ASSUME Typed, NoEmptySlice, NEW r \in Ranks, Active(r), Counting(r), Stages(r), HasBarrier(r),
         counter[r] >= entry[r] + Launched(r)
  PROVE  Halfway(r) = Grid(r)
  <1>. DEFINE n == Launched(r)
              e == Cardinality(Entered(r))
              h == Cardinality(Halfway(r))
              f == Cardinality(Finished(r))
  <1>1. /\ n \in Nat /\ n # 0 /\ e \in 0 .. n /\ h \in 0 .. n /\ f \in 0 .. n
        /\ counter[r] \in Nat /\ entry[r] \in Nat
        /\ counter[r] + n = entry[r] + e + f + h
    BY CountFacts
  <1>2. ASSUME Halfway(r) # Grid(r) PROVE Finished(r) = {}
    BY <1>2 DEF Stages, Finished, Ended
  <1>3. Finished(r) = {} => f = 0
    BY FS_EmptySet
  <1>4. h = n => Halfway(r) = Grid(r)
    BY ArrivalFacts
  <1>5. counter[r] >= entry[r] + n
    OBVIOUS
  <1>. HIDE DEF n, e, h, f
  <1>. QED
    BY <1>1, <1>2, <1>3, <1>4, <1>5

LEMMA FinalComplete ==
  ASSUME Typed, NoEmptySlice, NEW r \in Ranks, Active(r), Counting(r),
         counter[r] >= FinalTarget(r)
  PROVE  Finished(r) = Grid(r)
  <1>. DEFINE n == Launched(r)
              e == Cardinality(Entered(r))
              h == Cardinality(Halfway(r))
              f == Cardinality(Finished(r))
  <1>1. /\ n \in Nat /\ n # 0 /\ e \in 0 .. n /\ h \in 0 .. n /\ f \in 0 .. n
        /\ counter[r] \in Nat /\ entry[r] \in Nat
        /\ HasBarrier(r) => counter[r] + n = entry[r] + e + f + h
        /\ ~HasBarrier(r) => counter[r] + n = entry[r] + e + f
    BY CountFacts
  <1>2. Barriers(r) = IF HasBarrier(r) THEN 1 ELSE 0
    BY DEF HasBarrier, Barriers
  <1>3. counter[r] >= entry[r] + (IF HasBarrier(r) THEN n + n ELSE n)
    BY <1>1, <1>2 DEF FinalTarget
  <1>4. f = n => Finished(r) = Grid(r)
    BY ArrivalFacts
  <1>. HIDE DEF n, e, h, f
  <1>. QED
    BY <1>1, <1>3, <1>4

(* A complete kernel has left the counter where the host expects it. *)
LEMMA DoneCount ==
  ASSUME Typed, NoEmptySlice, NEW r \in Ranks, Counting(r), KernelDone(r)
  PROVE  counter[r] = last_value[r]
  <1>1. CASE epoch[r] = 0
    BY <1>1 DEF Counting
  <1>2. CASE epoch[r] # 0 /\ ~Active(r)
    <2>1. Launched(r) = 0 /\ Grid(r) = {}
      BY <1>2, RankFacts, LaunchFacts DEF Active
    <2>2. Entered(r) = {} /\ Halfway(r) = {} /\ Finished(r) = {}
      BY <2>1 DEF Entered, Halfway, Finished
    <2>3. Cardinality({}) = 0
      BY FS_EmptySet
    <2>4. counter[r] \in Nat /\ entry[r] \in Nat
      BY DEF Typed
    <2>. QED
      BY <1>2, <2>1, <2>2, <2>3, <2>4 DEF Counting
  <1>3. CASE Active(r)
    <2>1. Grid(r) \subseteq CTAs
      BY LaunchFacts
    <2>2. Entered(r) = Grid(r) /\ Halfway(r) = Grid(r) /\ Finished(r) = Grid(r)
      BY <2>1 DEF KernelDone, Entered, Halfway, Finished, Ended
    <2>3. Cardinality(Grid(r)) = Launched(r)
      BY LaunchFacts
    <2>. DEFINE n == Launched(r)
    <2>4. /\ n \in Nat /\ counter[r] \in Nat /\ entry[r] \in Nat /\ last_value[r] \in Nat
          /\ HasBarrier(r) => /\ counter[r] + n = entry[r] + n + n + n
                              /\ last_value[r] = entry[r] + n + n
          /\ ~HasBarrier(r) => /\ counter[r] + n = entry[r] + n + n
                               /\ last_value[r] = entry[r] + n
      BY <1>3, <2>2, <2>3, CountFacts
    <2>. HIDE DEF n
    <2>. QED
      BY <2>4
  <1>. QED
    BY <1>1, <1>2, <1>3

(* Every peer is in the stripe of a CTA. *)
LEMMA StripeFacts ==
  ASSUME Typed, NoEmptySlice, NEW r \in Ranks, Active(r)
  PROVE  /\ \A c \in Grid(r) : Stripe(r, c, Launched(r)) \subseteq Peers(r)
         /\ \A s \in Peers(r) : \E c \in Grid(r) : s \in Stripe(r, c, Launched(r))
  <1>. DEFINE n == Launched(r)
  <1>1. n \in Nat /\ n # 0 /\ Grid(r) = 0 .. n - 1
    BY PlanFacts
  <1>. HIDE DEF n
  <1>2. ASSUME NEW c \in Grid(r) PROVE Stripe(r, c, n) \subseteq Peers(r)
    BY PeerFacts DEF Stripe
  <1>3. ASSUME NEW s \in Peers(r) PROVE \E c \in Grid(r) : s \in Stripe(r, c, n)
    <2>. DEFINE j == PeerIndex(r, s)
    <2>1. j \in 0 .. N - 2 /\ PeerAt(r, j) = s
      BY PeerFacts
    <2>. HIDE DEF j
    <2>2. j \in Nat
      BY <2>1, SizeFacts
    <2>3. j % n \in Grid(r)
      BY <1>1, <2>2, Division
    <2>4. s \in Stripe(r, j % n, n)
      BY <2>1 DEF Stripe
    <2>. QED
      BY <2>3, <2>4
  <1>. QED
    BY <1>2, <1>3 DEF n

LEMMA PeersEntered ==
  ASSUME Typed, NoEmptySlice, NEW r \in Ranks, Active(r), Rendezvous(r), Entered(r) = Grid(r),
         NEW s \in Peers(r)
  PROVE  epoch[s] >= epoch[r]
  <1>1. PICK c \in Grid(r) : s \in Stripe(r, c, Launched(r))
    BY StripeFacts
  <1>2. pc[r][c] # "entry"
    BY DEF Entered
  <1>. QED
    BY <1>1, <1>2 DEF Rendezvous

LEMMA PeersDone ==
  ASSUME Typed, NoEmptySlice, NEW r \in Ranks, Active(r), Rendezvous(r), KernelDone(r),
         NEW s \in Peers(r)
  PROVE  SentBy(s, epoch[r])
  <1>1. PICK c \in Grid(r) : s \in Stripe(r, c, Launched(r))
    BY StripeFacts
  <1>2. c \in CTAs
    BY LaunchFacts
  <1>3. pc[r][c] = "done"
    BY <1>2 DEF KernelDone
  <1>. QED
    BY <1>1, <1>3 DEF Rendezvous

LEMMA SameEpoch ==
  ASSUME NEW r \in Ranks, NEW s \in Ranks, epoch[r] = epoch[s]
  PROVE  /\ Active(r) = Active(s) /\ Kind(r) = Kind(s) /\ Count(r) = Count(s)
         /\ \A q : Windows(Count(r), q) = Windows(Count(s), q)
  BY DEF Active, Kind, Count

(* While a CTA is between its two rendezvous all ranks are in its epoch.   *)
LEMMA Pace ==
  ASSUME Typed, NoEmptySlice, NEW r \in Ranks, Stages(r), NEW c \in Grid(r),
         pc[r][c] \in {"run", "barrier"},
         \A q \in Ranks : Rendezvous(q)
  PROVE  /\ Active(r)
         /\ \A s \in Ranks : epoch[s] = epoch[r]
  <1>1. Active(r)
    BY GridActive
  <1>2. Entered(r) = Grid(r)
    BY DEF Stages
  <1>3. ASSUME NEW s \in Ranks, s # r PROVE epoch[s] = epoch[r]
    <2>1. s \in Peers(r) /\ r \in Peers(s)
      BY <1>3 DEF Peers
    <2>2. epoch[s] >= epoch[r]
      BY <1>1, <1>2, <2>1, PeersEntered
    <2>3. epoch[s] \in Nat /\ epoch[r] \in Nat /\ epoch[r] > 0
      BY <1>1, RankFacts DEF Active
    <2>4. ASSUME epoch[s] > epoch[r] PROVE FALSE
      <3>1. epoch[r] \in 1 .. epoch[s] - 1
        BY <2>3, <2>4
      <3>2. SentBy(r, epoch[r])
        BY <1>1, <2>1, <3>1 DEF Rendezvous, Active
      <3>3. Finished(r) = Grid(r)
        BY <2>3, <3>2 DEF SentBy
      <3>4. c \in Finished(r)
        BY <3>3
      <3>. QED
        BY <3>4 DEF Finished, Ended
    <2>. QED
      BY <2>2, <2>3, <2>4
  <1>. QED
    BY <1>1, <1>3
-------------------------------------------------------------------------------
(* What the cells of a buffer hold.                                        *)

LEMMA CellType ==
  ASSUME Typed, NEW r \in Ranks, NEW x \in Cells
  PROVE  buf[r][x] \in [Ranks -> Nat]
  BY DEF Typed

LEMMA DoneReduced ==
  ASSUME Typed, NoEmptySlice, NEW r \in Ranks, Active(r), Kind(r) # "all_gather",
         Finished(r) = Grid(r), NEW q \in Peers(r), NEW w \in 0 .. Slice(r) - 1
  PROVE  Reduced(r, q, w)
  <1>. DEFINE i == PeerIndex(r, q) + 1
  <1>1. i \in 1 .. N - 1 /\ PeerAt(r, i - 1) = q
    <2>1. PeerIndex(r, q) \in 0 .. N - 2 /\ PeerAt(r, PeerIndex(r, q)) = q
      BY PeerFacts
    <2>2. i \in 1 .. N - 1 /\ i - 1 = PeerIndex(r, q)
      BY <2>1, SizeFacts
    <2>. QED
      BY <2>1, <2>2
  <1>. HIDE DEF i
  <1>2. i \in ReduceTasks(r)
    BY <1>1 DEF ReduceTasks
  <1>3. PICK c \in Grid(r) : <<w, r>> \in Work(r, c, i)
    BY <1>2, CoverageHolds DEF Coverage
  <1>4. Stored(r, c, i, w, r)
    BY <1>3 DEF Stored, Past, Finished
  <1>. QED
    BY <1>1, <1>4 DEF Reduced

LEMMA DoneCopied ==
  ASSUME Typed, NoEmptySlice, NEW r \in Ranks, Active(r), Kind(r) # "reduce_scatter",
         Finished(r) = Grid(r), NEW s \in Peers(r), NEW w \in 0 .. Slice(r) - 1
  PROVE  Copied(r, s, w)
  <1>1. PICK i \in CopyTasks(r) : s \in Tasks(r)[i].dsts
    BY PlanFacts DEF Shape
  <1>2. i \in 1 .. Len(Tasks(r)) /\ Tasks(r)[i].op = "copy"
    BY TaskIndex, PlanFacts DEF Shape
  <1>3. PICK c \in Grid(r) : <<w, s>> \in Work(r, c, i)
    BY <1>1, CoverageHolds DEF Coverage
  <1>4. Stored(r, c, i, w, s)
    BY <1>3 DEF Stored, Past, Finished
  <1>. QED
    BY <1>2, <1>4 DEF Copied

(* A window is copied when all inputs have been reduced into it. *)
LEMMA ReducedBeforeCopy ==
  ASSUME Typed, NoEmptySlice, NEW r \in Ranks, NEW c \in Grid(r), Stages(r), Loads(r),
         pc[r][c] = "run", at[r][c] \in CopyTasks(r), Kind(r) # "all_gather",
         NEW w \in 0 .. Slice(r) - 1, NEW d \in Ranks, <<w, d>> \in Work(r, c, at[r][c]),
         NEW q \in Peers(r)
  PROVE  Reduced(r, q, w)
  <1>0. Active(r) /\ N \in Nat /\ N >= 2
    BY GridActive, SizeFacts
  <1>. DEFINE i == PeerIndex(r, q) + 1
              j == at[r][c]
  <1>1. i \in 1 .. N - 1 /\ PeerAt(r, i - 1) = q
    <2>1. PeerIndex(r, q) \in 0 .. N - 2 /\ PeerAt(r, PeerIndex(r, q)) = q
      BY PeerFacts
    <2>2. i \in 1 .. N - 1 /\ i - 1 = PeerIndex(r, q)
      BY <2>1, SizeFacts
    <2>. QED
      BY <2>1, <2>2
  <1>. HIDE DEF i
  <1>2. i \in ReduceTasks(r) /\ j \in CopyTasks(r)
    BY <1>1 DEF ReduceTasks
  <1>3. i < N /\ N < j /\ j \in Nat /\ i \in Nat
    BY <1>0, <1>2, TaskIndex
  <1>4. CASE HasBarrier(r)
    <2>1. Halfway(r) = Grid(r)
      BY <1>3, <1>4 DEF Stages
    <2>2. PICK x \in Grid(r) : <<w, r>> \in Work(r, x, i)
      BY <1>0, <1>2, CoverageHolds DEF Coverage
    <2>3. x \in Halfway(r) /\ x \in CTAs
      BY <2>1, LaunchFacts
    <2>4. at[r][x] \in Nat /\ (pc[r][x] = "barrier" => at[r][x] = N)
      <3>1. at[r][x] \in 0 .. 2 * N
        BY <2>3 DEF Typed
      <3>. QED
        BY <1>0, <2>3, <3>1 DEF Loads, Loading
    <2>5. Past(r, x, i)
      <3>1. CASE pc[r][x] = "barrier"
        BY <1>3, <2>4, <3>1 DEF Past
      <3>2. CASE pc[r][x] = "run" /\ at[r][x] > N
        <4>1. at[r][x] > i
          BY <1>0, <1>3, <2>4, <3>2
        <4>. QED
          BY <3>2, <4>1 DEF Past
      <3>3. CASE pc[r][x] \in Ended
        BY <3>3 DEF Past
      <3>. QED
        BY <2>3, <3>1, <3>2, <3>3 DEF Halfway
    <2>6. Stored(r, x, i, w, r)
      BY <2>2, <2>5 DEF Stored
    <2>. QED
      BY <1>1, <2>6 DEF Reduced
  <1>5. CASE ~HasBarrier(r)
    <2>0. w \in Nat
      BY <1>0, PlanFacts
    <2>1. <<w, r>> \in Work(r, c, i)
      BY <1>0, <1>2, <1>5, <2>0, CoverageHolds DEF Coverage
    <2>2. j > i
      BY <1>0, <1>3
    <2>3. Stored(r, c, i, w, r)
      BY <2>1, <2>2 DEF Stored, Past
    <2>. QED
      BY <1>1, <2>3 DEF Reduced
  <1>. QED
    BY <1>4, <1>5

(* A window is reduced before it is copied anywhere. *)
LEMMA ReduceBeforeCopied ==
  ASSUME Typed, NoEmptySlice, NEW r \in Ranks, NEW c \in Grid(r), Stages(r), Loads(r),
         pc[r][c] = "run", at[r][c] \in ReduceTasks(r),
         NEW w \in 0 .. Slice(r) - 1, <<w, r>> \in Work(r, c, at[r][c]), NEW q \in Ranks
  PROVE  ~Copied(r, q, w)
  <1>0. Active(r) /\ N \in Nat /\ N >= 2 /\ w \in Nat
    BY GridActive, SizeFacts, PlanFacts
  <1>. DEFINE i == at[r][c]
  <1>1. SUFFICES ASSUME NEW x \in Grid(r), NEW j \in 1 .. Len(Tasks(r)),
                        Tasks(r)[j].op = "copy", Stored(r, x, j, w, q)
                 PROVE  FALSE
    BY DEF Copied
  <1>2. j \in CopyTasks(r)
    <2>1. Shape(r)
      BY <1>0, PlanFacts
    <2>2. j \notin ReduceTasks(r)
      <3>1. ASSUME j \in ReduceTasks(r) PROVE FALSE
        <4>1. Tasks(r)[j] = [op |-> "reduce", src |-> PeerAt(r, j - 1), dsts |-> {r}]
          BY <2>1, <3>1 DEF Shape
        <4>2. Tasks(r)[j].op = "reduce"
          BY <4>1
        <4>. QED
          BY <1>1, <4>2
      <3>. QED
        BY <3>1
    <2>3. ~(Kind(r) = "all_reduce" /\ j = N)
      <3>1. ASSUME Kind(r) = "all_reduce", j = N PROVE FALSE
        <4>1. Tasks(r)[j] = [op |-> "barrier", src |-> r, dsts |-> {}]
          BY <2>1, <3>1 DEF Shape
        <4>2. Tasks(r)[j].op = "barrier"
          BY <4>1
        <4>. QED
          BY <1>1, <4>2
      <3>. QED
        BY <3>1
    <2>. QED
      BY <2>1, <2>2, <2>3 DEF Shape
  <1>3. i < N /\ N < j /\ j \in Nat /\ i \in Nat
    BY <1>0, <1>2, TaskIndex
  <1>4. <<w, q>> \in Work(r, x, j)
    BY <1>1 DEF Stored
  <1>5. x \in CTAs /\ at[r][x] \in Nat
    <2>1. x \in CTAs
      BY LaunchFacts
    <2>2. at[r][x] \in 0 .. 2 * N
      BY <2>1 DEF Typed
    <2>. QED
      BY <1>0, <2>1, <2>2
  <1>6. pc[r][x] \in Ended \/ (pc[r][x] \in {"run", "barrier"} /\ at[r][x] >= j)
    BY <1>1, <1>3, <1>5 DEF Stored, Past
  <1>7. CASE HasBarrier(r)
    <2>1. pc[r][x] = "barrier" => at[r][x] = N
      BY <1>5 DEF Loads, Loading
    <2>2. pc[r][x] \in Ended \/ (pc[r][x] = "run" /\ at[r][x] > N)
      BY <1>0, <1>3, <1>5, <1>6, <2>1
    <2>3. Halfway(r) = Grid(r)
      BY <1>7, <2>2 DEF Stages
    <2>4. c \in Halfway(r)
      BY <2>3
    <2>. QED
      BY <1>0, <1>3, <2>4 DEF Halfway, Ended
  <1>8. CASE ~HasBarrier(r)
    <2>1. <<w, r>> \in Work(r, x, i)
      BY <1>0, <1>2, <1>4, <1>8, CoverageHolds DEF Coverage
    <2>2. x = c
      BY <1>0, <2>1, CoverageHolds DEF Coverage
    <2>. QED
      BY <1>0, <1>3, <1>6, <2>2 DEF Ended
  <1>. QED
    BY <1>7, <1>8

(* A task with work left is a reduce or a copy, of a window of the slice.  *)
LEMMA WorkFacts ==
  ASSUME Typed, NoEmptySlice, NEW r \in Ranks, NEW c \in Grid(r), NEW i \in Nat, i # 0,
         i <= Len(Tasks(r)) + 1, NEW p \in Work(r, c, i)
  PROVE  /\ i \in 1 .. Len(Tasks(r))
         /\ i \in ReduceTasks(r) \/ i \in CopyTasks(r)
         /\ p = <<p[1], p[2]>> /\ p[1] \in 0 .. Slice(r) - 1 /\ p[2] \in Tasks(r)[i].dsts
         /\ p[1] \in Nat /\ p[1] \in 0 .. MaxWindows - 1 /\ p[2] \in Ranks
         /\ i \in ReduceTasks(r) => p[2] = r
         /\ i \in CopyTasks(r) => p[2] \in Peers(r)
  <1>0. Active(r) /\ Slice(r) \in Nat /\ Slice(r) <= MaxWindows /\ Shape(r)
        /\ Len(Tasks(r)) \in Nat
    BY GridActive, PlanFacts, TaskIndex
  <1>1. ~(i > Len(Tasks(r))) /\ ~(Kind(r) = "all_reduce" /\ i = N)
    BY <1>0, CoverageHolds DEF Coverage
  <1>2. i \in 1 .. Len(Tasks(r))
    BY <1>0, <1>1
  <1>3. i \in ReduceTasks(r) \/ i \in CopyTasks(r)
    BY <1>0, <1>1, <1>2 DEF Shape
  <1>4. p \in (0 .. Slice(r) - 1) \X Tasks(r)[i].dsts
    BY <1>0, <1>2, CoverageHolds DEF Coverage
  <1>5. p = <<p[1], p[2]>> /\ p[1] \in 0 .. Slice(r) - 1 /\ p[2] \in Tasks(r)[i].dsts
    BY <1>4
  <1>6. p[1] \in Nat /\ p[1] \in 0 .. MaxWindows - 1
    BY <1>0, <1>5, SizeFacts
  <1>7. ASSUME i \in ReduceTasks(r) PROVE p[2] = r
    <2>1. Tasks(r)[i] = [op |-> "reduce", src |-> PeerAt(r, i - 1), dsts |-> {r}]
      BY <1>0, <1>7 DEF Shape
    <2>2. Tasks(r)[i].dsts = {r}
      BY <2>1
    <2>. QED
      BY <1>5, <2>2
  <1>8. ASSUME i \in CopyTasks(r) PROVE p[2] \in Peers(r)
    BY <1>0, <1>5, <1>8 DEF Shape
  <1>9. p[2] \in Ranks
    BY <1>3, <1>7, <1>8 DEF Peers
  <1>. QED
    BY <1>2, <1>3, <1>5, <1>6, <1>7, <1>8, <1>9

(* Every load finds the value that its task is to carry. *)
LEMMA LoadedValue ==
  ASSUME WcInv, NoEmptySlice, NEW r \in Ranks, NEW c \in Grid(r), pc[r][c] = "run",
         NEW p \in todo[r][c]
  PROVE  /\ at[r][c] \in 1 .. Len(Tasks(r)) /\ Tasks(r)[at[r][c]].op # "barrier"
         /\ buf[Tasks(r)[at[r][c]].src][<<r, p[1]>>] = Carried(r, at[r][c])
  <1>. DEFINE i == at[r][c]
              w == p[1]
  <1>0. Typed /\ Stages(r) /\ Loads(r) /\ c \in CTAs /\ Contents(r)
    BY LaunchFacts DEF WcInv
  <1>1. Active(r) /\ \A s \in Ranks : epoch[s] = epoch[r]
    BY <1>0, Pace DEF WcInv
  <1>2. i \in 1 .. Len(Tasks(r)) + 1 /\ p \in Work(r, c, i)
    BY <1>0 DEF Loads, Loading
  <1>3. i \in Nat /\ i # 0 /\ i <= Len(Tasks(r)) + 1
    BY <1>0, <1>1, <1>2, TaskIndex
  <1>4. /\ i \in 1 .. Len(Tasks(r))
        /\ i \in ReduceTasks(r) \/ i \in CopyTasks(r)
        /\ p = <<w, p[2]>> /\ w \in 0 .. Slice(r) - 1 /\ p[2] \in Ranks
        /\ w \in 0 .. MaxWindows - 1
        /\ i \in ReduceTasks(r) => p[2] = r
    BY <1>0, <1>2, <1>3, WorkFacts
  <1>5. Shape(r)
    BY <1>0, <1>1, PlanFacts
  <1>6. CASE i \in ReduceTasks(r)
    <2>1. Tasks(r)[i] = [op |-> "reduce", src |-> PeerAt(r, i - 1), dsts |-> {r}]
      BY <1>5, <1>6 DEF Shape
    <2>. DEFINE q == PeerAt(r, i - 1)
    <2>2. Tasks(r)[i].op = "reduce" /\ Tasks(r)[i].src = q
      BY <2>1
    <2>3. q \in Peers(r) /\ q \in Ranks /\ q # r
      <3>1. i - 1 \in 0 .. N - 2
        BY <1>6, SizeFacts DEF ReduceTasks
      <3>. QED
        BY <3>1, PeerFacts DEF Peers
    <2>. HIDE DEF q
    <2>4. ~Copied(r, q, w)
      BY <1>0, <1>2, <1>4, <1>6, <2>3, ReduceBeforeCopied
    <2>5. epoch[q] = epoch[r] /\ epoch[r] \in Nat
      BY <1>0, <1>1, <2>3, RankFacts
    <2>6. ~Delivered(r, q, w)
      BY <2>4, <2>5 DEF Delivered
    <2>7. Contents(q) /\ Active(q) /\ Windows(Count(q), r) = Slice(r)
      BY <1>1, <2>3, <2>5, SameEpoch DEF WcInv, Slice
    <2>8. PeerSlice(q, r, w)
      BY <1>4, <2>3, <2>7 DEF Contents
    <2>9. buf[q][<<r, w>>] = Own(q)
      BY <2>6, <2>8 DEF PeerSlice
    <2>. QED
      BY <1>4, <2>2, <2>9 DEF Carried
  <1>7. CASE i \in CopyTasks(r)
    <2>1. Tasks(r)[i].op = "copy" /\ Tasks(r)[i].src = r
      BY <1>5, <1>7 DEF Shape
    <2>2. OwnSlice(r, w)
      BY <1>0, <1>1, <1>4 DEF Contents, Slice
    <2>3. CASE Kind(r) = "all_gather"
      BY <1>4, <2>1, <2>2, <2>3 DEF OwnSlice, Carried
    <2>4. CASE Kind(r) # "all_gather"
      <3>1. \A q \in Peers(r) : Reduced(r, q, w)
        BY <1>0, <1>2, <1>4, <1>7, <2>4, ReducedBeforeCopy
      <3>2. \A q \in Ranks : buf[r][<<r, w>>][q] = 1
        BY <2>2, <2>4, <3>1 DEF OwnSlice, Peers
      <3>3. buf[r][<<r, w>>] \in [Ranks -> Nat]
        <4>1. <<r, w>> \in Cells
          BY <1>4 DEF Cells
        <4>. QED
          BY <1>0, <4>1, CellType
      <3>4. buf[r][<<r, w>>] = Everyone
        BY <3>2, <3>3 DEF Everyone
      <3>5. Kind(r) = "all_reduce"
        <4>1. Kind(r) \in Kinds
          BY <1>0, <1>1, PlanFacts
        <4>2. Kind(r) # "reduce_scatter"
          BY <1>0, <1>1, <1>7, ScatterHasNoCopies
        <4>. QED
          BY <2>4, <4>1, <4>2 DEF Kinds
      <3>. QED
        BY <1>4, <2>1, <3>4, <3>5 DEF Carried
    <2>. QED
      BY <2>3, <2>4
  <1>. QED
    BY <1>4, <1>6, <1>7
-------------------------------------------------------------------------------
(* The steps of a CTA, as its way through the kernel.                      *)

(* What the plan of a rank is made of changes only with its epoch.         *)
LEMMA PlanFrame ==
  ASSUME program' = program, NEW r, epoch'[r] = epoch[r]
  PROVE  /\ Kind(r)' = Kind(r) /\ Count(r)' = Count(r) /\ Tasks(r)' = Tasks(r)
         /\ Launched(r)' = Launched(r) /\ Grid(r)' = Grid(r) /\ Barriers(r)' = Barriers(r)
         /\ HasBarrier(r)' = HasBarrier(r) /\ Slice(r)' = Slice(r) /\ Active(r)' = Active(r)
         /\ \A c, i : Work(r, c, i)' = Work(r, c, i)
         /\ \A i : Carried(r, i)' = Carried(r, i)
  <1>1. Kind(r)' = Kind(r) /\ Count(r)' = Count(r) /\ MaxGroup(r)' = MaxGroup(r)
    BY DEF Kind, Count, MaxGroup
  <1>2. Tasks(r)' = Tasks(r) /\ Launched(r)' = Launched(r) /\ Slice(r)' = Slice(r)
    BY <1>1 DEF Tasks, Launched, Slice
  <1>3. Grid(r)' = Grid(r)
    BY <1>2 DEF Grid
  <1>4. \A i : ReduceGroup(r, i)' = ReduceGroup(r, i)
    BY <1>1, <1>2 DEF ReduceGroup
  <1>5. Barriers(r)' = Barriers(r)
    BY <1>1, <1>2, <1>4 DEF Barriers, BarrierElided
  <1>6. \A c, i : TaskWindows(r, c, i)' = TaskWindows(r, c, i)
    BY <1>1, <1>2, <1>4 DEF TaskWindows
  <1>7. \A c, i : Work(r, c, i)' = Work(r, c, i)
    BY <1>2, <1>6 DEF Work
  <1>8. \A i : Carried(r, i)' = Carried(r, i)
    BY <1>1, <1>2 DEF Carried
  <1>9. Active(r)' = Active(r) /\ HasBarrier(r)' = HasBarrier(r)
    BY <1>5 DEF Active, Planned, HasBarrier
  <1>. QED
    BY <1>1, <1>2, <1>3, <1>5, <1>7, <1>8, <1>9

Move(r, c, y, k) ==
    /\ pc' = [pc EXCEPT ![r][c] = y]
    /\ at' = [at EXCEPT ![r][c] = k]
    /\ UNCHANGED <<program, epoch, last_value, entry>>
Arriving(r) == counter' = [counter EXCEPT ![r] = @ + 1]
Staying == counter' = counter

Quiet == Staying /\ UNCHANGED <<program, epoch, last_value, entry, pc, at>>

(* The ways a CTA moves on. *)
ToEntered(r, c) == pc[r][c] = "entry" /\ Move(r, c, "entered", at[r][c]) /\ Arriving(r)
ToFirst(r, c) ==
    pc[r][c] = "entered" /\ Entered(r) = Grid(r) /\ Move(r, c, "run", 1) /\ Staying
ToNext(r, c) ==
    /\ pc[r][c] = "run" /\ ~(HasBarrier(r) /\ at[r][c] = N) /\ at[r][c] <= Len(Tasks(r))
    /\ Move(r, c, "run", at[r][c] + 1) /\ Staying
ToBarrier(r, c) ==
    /\ pc[r][c] = "run" /\ HasBarrier(r) /\ at[r][c] = N
    /\ Move(r, c, "barrier", at[r][c]) /\ Arriving(r)
ToCopies(r, c) ==
    /\ pc[r][c] = "barrier" /\ HasBarrier(r) /\ at[r][c] = N /\ Halfway(r) = Grid(r)
    /\ Move(r, c, "run", at[r][c] + 1) /\ Staying
ToFinal(r, c) ==
    /\ pc[r][c] = "run" /\ (HasBarrier(r) => at[r][c] > N)
    /\ Move(r, c, "final", at[r][c]) /\ Arriving(r)
ToExit(r, c) ==
    pc[r][c] = "final" /\ Finished(r) = Grid(r) /\ Move(r, c, "exit", at[r][c]) /\ Staying
ToDone(r, c) == pc[r][c] = "exit" /\ Move(r, c, "done", 0) /\ Staying

Moves(r, c) ==
    \/ ToEntered(r, c) \/ ToFirst(r, c) \/ ToNext(r, c) \/ ToBarrier(r, c)
    \/ ToCopies(r, c) \/ ToFinal(r, c) \/ ToExit(r, c) \/ ToDone(r, c)

LEMMA PlaceType ==
  ASSUME Typed, NEW r \in Ranks, NEW c \in CTAs
  PROVE  at[r][c] \in 0 .. 2 * N /\ at[r][c] \in Nat /\ pc[r][c] \in PCs
  <1>1. at \in [Ranks -> [CTAs -> 0 .. 2 * N]] /\ pc \in [Ranks -> [CTAs -> PCs]]
    BY DEF Typed
  <1>2. at[r][c] \in 0 .. 2 * N /\ pc[r][c] \in PCs
    BY <1>1
  <1>. QED
    BY <1>2, SizeFacts

LEMMA SamePlace ==
  ASSUME Typed, NEW r \in Ranks, NEW c \in CTAs, at' = at
  PROVE  at' = [at EXCEPT ![r][c] = at[r][c]]
  <1>1. at \in [Ranks -> [CTAs -> 0 .. 2 * N]]
    BY DEF Typed
  <1>. QED
    BY <1>1

(* At the barrier inside the plan. *)
LEMMA AtTheBarrier ==
  ASSUME Typed, NoEmptySlice, NEW r \in Ranks, Active(r), NEW i \in 1 .. Len(Tasks(r))
  PROVE  /\ Tasks(r)[i].op = "barrier" <=> Kind(r) = "all_reduce" /\ i = N
         /\ HasBarrier(r) <=> Kind(r) = "all_reduce" /\ ~BarrierElided(r)
         /\ HasBarrier(r) => Len(Tasks(r)) >= N
  <1>1. Shape(r) /\ N \in Nat
    BY PlanFacts, SizeFacts
  <1>2. ASSUME i \in ReduceTasks(r) PROVE Tasks(r)[i].op # "barrier" /\ i # N
    <2>1. Tasks(r)[i] = [op |-> "reduce", src |-> PeerAt(r, i - 1), dsts |-> {r}]
      BY <1>1, <1>2 DEF Shape
    <2>2. Tasks(r)[i].op = "reduce"
      BY <2>1
    <2>. QED
      BY <1>1, <1>2, <2>2 DEF ReduceTasks
  <1>3. ASSUME i \in CopyTasks(r)
        PROVE  Tasks(r)[i].op # "barrier" /\ ~(Kind(r) = "all_reduce" /\ i = N)
    BY <1>1, <1>3 DEF Shape, CopyTasks
  <1>4. ASSUME Kind(r) = "all_reduce" PROVE Tasks(r)[N].op = "barrier" /\ Len(Tasks(r)) >= N
    <2>1. Tasks(r)[N] = [op |-> "barrier", src |-> r, dsts |-> {}]
          /\ N \in 1 .. Len(Tasks(r))
      BY <1>1, <1>4 DEF Shape
    <2>2. Tasks(r)[N].op = "barrier"
      BY <2>1
    <2>. QED
      BY <1>1, <2>1, <2>2, TaskIndex
  <1>5. HasBarrier(r) <=> Kind(r) = "all_reduce" /\ ~BarrierElided(r)
    BY DEF HasBarrier, Barriers
  <1>6. i \in ReduceTasks(r) \/ i \in CopyTasks(r) \/ (Kind(r) = "all_reduce" /\ i = N)
    BY <1>1 DEF Shape
  <1>. QED
    BY <1>2, <1>3, <1>4, <1>5, <1>6

LEMMA CtaSteps ==
  ASSUME WcInv, NoEmptySlice, NEW r \in Ranks, NEW c \in Grid(r), CtaStep(r, c)
  PROVE  Quiet \/ Moves(r, c)
  <1>0. Typed /\ Counting(r) /\ Stages(r) /\ Loads(r) /\ c \in CTAs /\ Active(r)
    BY LaunchFacts, GridActive DEF WcInv
  <1>. DEFINE T == Len(Tasks(r))
              i == at[r][c]
  <1>1. T \in Nat /\ i \in Nat /\ N \in Nat /\ N >= 2
    BY <1>0, TaskIndex, PlaceType, SizeFacts
  <1>2. pc[r][c] = "run" => i \in 1 .. T + 1
    BY <1>0 DEF Loads, Loading
  <1>3. ASSUME NEW j \in 1 .. T
        PROVE  /\ Tasks(r)[j].op = "barrier" <=> Kind(r) = "all_reduce" /\ j = N
               /\ HasBarrier(r) <=> Kind(r) = "all_reduce" /\ ~BarrierElided(r)
    BY <1>0, AtTheBarrier
  <1>4. HasBarrier(r) => T >= N
    <2>1. 1 \in 1 .. T
      <3>1. T \in 1 .. 2 * N - 1
        BY <1>0, PlanFacts DEF Shape
      <3>. QED
        BY <1>1, <3>1
    <2>. QED
      BY <1>0, <2>1, AtTheBarrier
  <1>. HIDE DEF T
  <1>5. CASE Publish(r, c, "entry", EntryValue(r)) \/ Publish(r, c, "exit", FinalValue(r))
    BY <1>5 DEF Publish, Quiet, Staying
  <1>6. CASE Load(r, c) \/ Store(r, c)
    BY <1>6 DEF Load, Store, Quiet, Staying
  <1>7. CASE EntryArrival(r, c)
    <2>1. pc[r][c] = "entry" /\ pc' = [pc EXCEPT ![r][c] = "entered"] /\ at' = at
          /\ UNCHANGED <<program, epoch, last_value, entry>> /\ Arriving(r)
      BY <1>7 DEF EntryArrival, Arrive, Arriving
    <2>2. ToEntered(r, c)
      BY <1>0, <2>1, SamePlace DEF ToEntered, Move
    <2>. QED
      BY <2>2 DEF Moves
  <1>8. CASE Enter(r, c)
    <2>1. pc[r][c] = "entered" /\ Move(r, c, "run", 1) /\ Staying /\ counter[r] >= entry[r]
      BY <1>8 DEF Enter, Turn, Move, Staying
    <2>2. Entered(r) = Grid(r)
      BY <1>0, <2>1, EntryComplete
    <2>. QED
      BY <2>1, <2>2 DEF Moves, ToFirst
  <1>9. CASE NextTask(r, c)
    <2>1. pc[r][c] = "run" /\ Move(r, c, "run", i + 1) /\ Staying /\ i <= T /\ ~AtBarrier(r, c)
      BY <1>9 DEF NextTask, Turn, Move, Staying, T
    <2>2. i \in 1 .. T
      BY <1>1, <1>2, <2>1
    <2>3. ~(HasBarrier(r) /\ i = N)
      BY <1>3, <2>1, <2>2 DEF AtBarrier, T
    <2>. QED
      BY <2>1, <2>3 DEF Moves, ToNext, T
  <1>10. CASE BarrierArrival(r, c)
    <2>1. pc[r][c] = "run" /\ pc' = [pc EXCEPT ![r][c] = "barrier"] /\ at' = at
          /\ UNCHANGED <<program, epoch, last_value, entry>> /\ Arriving(r)
          /\ i <= T /\ Tasks(r)[i].op = "barrier" /\ ~BarrierElided(r)
      BY <1>10 DEF BarrierArrival, AtBarrier, Arrive, Arriving, T
    <2>2. HasBarrier(r) /\ i = N
      BY <1>1, <1>2, <1>3, <2>1
    <2>. QED
      BY <1>0, <2>1, <2>2, SamePlace DEF Moves, ToBarrier, Move
  <1>11. CASE PassBarrier(r, c)
    <2>1. pc[r][c] = "barrier" /\ Move(r, c, "run", i + 1) /\ Staying
          /\ counter[r] >= entry[r] + Launched(r)
      BY <1>11 DEF PassBarrier, Turn, Move, Staying
    <2>2. HasBarrier(r) /\ i = N
      BY <1>0, <2>1 DEF Loads, Loading
    <2>3. Halfway(r) = Grid(r)
      BY <1>0, <2>1, <2>2, BarrierComplete
    <2>. QED
      BY <2>1, <2>2, <2>3 DEF Moves, ToCopies
  <1>12. CASE FinalArrival(r, c)
    <2>1. pc[r][c] = "run" /\ pc' = [pc EXCEPT ![r][c] = "final"] /\ at' = at
          /\ UNCHANGED <<program, epoch, last_value, entry>> /\ Arriving(r) /\ i > T
      BY <1>12 DEF FinalArrival, Arrive, Arriving, T
    <2>2. HasBarrier(r) => i > N
      BY <1>1, <1>4, <2>1
    <2>. QED
      BY <1>0, <2>1, <2>2, SamePlace DEF Moves, ToFinal, Move
  <1>13. CASE PassFinal(r, c)
    <2>1. pc[r][c] = "final" /\ pc' = [pc EXCEPT ![r][c] = "exit"] /\ at' = at
          /\ UNCHANGED <<program, epoch, last_value, entry>> /\ Staying
          /\ counter[r] >= FinalTarget(r)
      BY <1>13 DEF PassFinal, Staying
    <2>2. Finished(r) = Grid(r)
      BY <1>0, <2>1, FinalComplete
    <2>. QED
      BY <1>0, <2>1, <2>2, SamePlace DEF Moves, ToExit, Move
  <1>14. CASE Exit(r, c)
    BY <1>14 DEF Exit, Moves, ToDone, Move, Staying
  <1>. QED
    BY <1>5, <1>6, <1>7, <1>8, <1>9, <1>10, <1>11, <1>12, <1>13, <1>14 DEF CtaStep
-------------------------------------------------------------------------------
(* Counting and stages are kept by every move.                             *)

Halfgone(y, k) == y = "barrier" \/ (y = "run" /\ k > N) \/ y \in Ended

LEMMA SetStep ==
  ASSUME Typed, NoEmptySlice, NEW r \in Ranks, NEW c \in Grid(r), NEW y, NEW k, Move(r, c, y, k)
  PROVE  /\ Entered(r)' = IF y # "entry" THEN Entered(r) \cup {c} ELSE Entered(r) \ {c}
         /\ Halfway(r)' = IF Halfgone(y, k) THEN Halfway(r) \cup {c} ELSE Halfway(r) \ {c}
         /\ Finished(r)' = IF y \in Ended THEN Finished(r) \cup {c} ELSE Finished(r) \ {c}
         /\ \A q \in Ranks \ {r} :
                /\ pc'[q] = pc[q] /\ at'[q] = at[q]
                /\ Entered(q)' = Entered(q) /\ Halfway(q)' = Halfway(q)
                /\ Finished(q)' = Finished(q)
         /\ \A d \in CTAs \ {c} : pc'[r][d] = pc[r][d] /\ at'[r][d] = at[r][d]
         /\ pc'[r][c] = y /\ at'[r][c] = k
  <1>1. pc \in [Ranks -> [CTAs -> PCs]] /\ at \in [Ranks -> [CTAs -> 0 .. 2 * N]]
        /\ Grid(r) \subseteq CTAs
    BY LaunchFacts DEF Typed
  <1>2. pc' = [pc EXCEPT ![r][c] = y] /\ at' = [at EXCEPT ![r][c] = k]
        /\ program' = program /\ epoch' = epoch
    BY DEF Move
  <1>3. \A d \in CTAs \ {c} : pc'[r][d] = pc[r][d] /\ at'[r][d] = at[r][d]
    BY <1>1, <1>2
  <1>4. pc'[r][c] = y /\ at'[r][c] = k
    BY <1>1, <1>2
  <1>5. \A q \in Ranks \ {r} : pc'[q] = pc[q] /\ at'[q] = at[q]
    BY <1>1, <1>2
  <1>6. \A q \in Ranks : Grid(q)' = Grid(q)
    BY <1>2, PlanFrame
  <1>7. Entered(r)' = IF y # "entry" THEN Entered(r) \cup {c} ELSE Entered(r) \ {c}
    BY <1>1, <1>3, <1>4, <1>6 DEF Entered
  <1>8. Halfway(r)' = IF Halfgone(y, k) THEN Halfway(r) \cup {c} ELSE Halfway(r) \ {c}
    BY <1>1, <1>3, <1>4, <1>6 DEF Halfway, Halfgone
  <1>9. Finished(r)' = IF y \in Ended THEN Finished(r) \cup {c} ELSE Finished(r) \ {c}
    BY <1>1, <1>3, <1>4, <1>6 DEF Finished
  <1>10. ASSUME NEW q \in Ranks \ {r}
         PROVE  /\ Entered(q)' = Entered(q) /\ Halfway(q)' = Halfway(q)
                /\ Finished(q)' = Finished(q)
    BY <1>5, <1>6 DEF Entered, Halfway, Finished
  <1>. QED
    BY <1>3, <1>4, <1>5, <1>7, <1>8, <1>9, <1>10

LEMMA CardStep ==
  ASSUME Typed, NoEmptySlice, NEW r \in Ranks, NEW c \in Grid(r),
         NEW S \in {Entered(r), Halfway(r), Finished(r)}
  PROVE  /\ Cardinality(S) \in Nat
         /\ c \notin S => Cardinality(S \cup {c}) = Cardinality(S) + 1
         /\ c \in S => S \cup {c} = S
         /\ c \notin S => S \ {c} = S
  <1>1. S \subseteq Grid(r) /\ Cardinality(S) \in Nat /\ IsFiniteSet(Grid(r))
    BY ArrivalFacts, LaunchFacts
  <1>2. IsFiniteSet(S)
    BY <1>1, FS_Subset
  <1>3. Cardinality(S \cup {c}) = IF c \in S THEN Cardinality(S) ELSE Cardinality(S) + 1
    BY <1>2, FS_AddElement
  <1>4. (c \in S => S \cup {c} = S) /\ (c \notin S => S \ {c} = S)
    OBVIOUS
  <1>. QED
    BY <1>1, <1>3, <1>4

LEMMA CountStep ==
  ASSUME Typed, NoEmptySlice, NEW r \in Ranks, Active(r), Counting(r),
         UNCHANGED <<program, epoch, last_value, entry>>,
         NEW x \in Nat, counter'[r] = counter[r] + x,
         NEW e \in Nat, NEW h \in Nat, NEW f \in Nat,
         e = Cardinality(Entered(r)'), h = Cardinality(Halfway(r)'),
         f = Cardinality(Finished(r)'),
         HasBarrier(r) =>
             e + f + h = Cardinality(Entered(r)) + Cardinality(Finished(r))
                         + Cardinality(Halfway(r)) + x,
         ~HasBarrier(r) =>
             e + f = Cardinality(Entered(r)) + Cardinality(Finished(r)) + x
  PROVE  Counting(r)'
  <1>. DEFINE n == Launched(r)
              e0 == Cardinality(Entered(r))
              h0 == Cardinality(Halfway(r))
              f0 == Cardinality(Finished(r))
  <1>1. /\ n \in Nat /\ n # 0 /\ e0 \in 0 .. n /\ h0 \in 0 .. n /\ f0 \in 0 .. n
        /\ counter[r] \in Nat /\ entry[r] \in Nat /\ last_value[r] \in Nat
        /\ HasBarrier(r) => /\ counter[r] + n = entry[r] + e0 + f0 + h0
                            /\ last_value[r] = entry[r] + n + n
        /\ ~HasBarrier(r) => /\ counter[r] + n = entry[r] + e0 + f0
                             /\ last_value[r] = entry[r] + n
    BY CountFacts
  <1>2. /\ HasBarrier(r) => e + f + h = e0 + f0 + h0 + x
        /\ ~HasBarrier(r) => e + f = e0 + f0 + x
    OBVIOUS
  <1>3. Launched(r)' = n /\ HasBarrier(r)' = HasBarrier(r) /\ epoch'[r] = epoch[r]
        /\ last_value'[r] = last_value[r] /\ entry'[r] = entry[r]
    BY PlanFrame
  <1>4. epoch[r] # 0
    BY RankFacts DEF Active
  <1>. HIDE DEF n, e0, h0, f0
  <1>5. CASE HasBarrier(r)
    <2>1. last_value[r] = entry[r] + n + n /\ (counter[r] + x) + n = entry[r] + e + f + h
      BY <1>1, <1>2, <1>5
    <2>. QED
      BY <1>3, <1>4, <1>5, <2>1 DEF Counting
  <1>6. CASE ~HasBarrier(r)
    <2>1. last_value[r] = entry[r] + n + 0 /\ (counter[r] + x) + n = entry[r] + e + f + 0
      BY <1>1, <1>2, <1>6
    <2>. QED
      BY <1>3, <1>4, <1>6, <2>1 DEF Counting
  <1>. QED
    BY <1>5, <1>6

(* The sets only grow, each by the CTA that moves.  *)
Grown(r) ==
    /\ Entered(r) \subseteq Entered(r)' /\ Halfway(r) \subseteq Halfway(r)'
    /\ Finished(r) \subseteq Finished(r)'

LEMMA CounterStep ==
  ASSUME Typed, NEW r \in Ranks
  PROVE  /\ Arriving(r) => /\ counter'[r] = counter[r] + 1
                           /\ \A q \in Ranks \ {r} : counter'[q] = counter[q]
         /\ Staying => \A q \in Ranks : counter'[q] = counter[q]
                                        /\ counter'[q] = counter[q] + 0
  <1>1. counter \in [Ranks -> Nat]
    BY DEF Typed
  <1>2. ASSUME Arriving(r)
        PROVE  /\ counter'[r] = counter[r] + 1
               /\ \A q \in Ranks \ {r} : counter'[q] = counter[q]
    BY <1>1, <1>2 DEF Arriving
  <1>3. ASSUME Staying, NEW q \in Ranks
        PROVE  counter'[q] = counter[q] /\ counter'[q] = counter[q] + 0
    BY <1>1, <1>3 DEF Staying
  <1>. QED
    BY <1>2, <1>3

(* Where a CTA is in the three sets. *)
LEMMA Places ==
  ASSUME NEW r \in Ranks, NEW c \in Grid(r)
  PROVE  /\ c \in Entered(r) <=> pc[r][c] # "entry"
         /\ c \in Halfway(r) <=> Halfgone(pc[r][c], at[r][c])
         /\ c \in Finished(r) <=> pc[r][c] \in Ended
  BY DEF Entered, Halfway, Finished, Halfgone

LEMMA MoveCounting ==
  ASSUME Typed, NoEmptySlice, NEW r \in Ranks, NEW c \in Grid(r), Counting(r), Moves(r, c)
  PROVE  Counting(r)' /\ Grown(r)
  <1>. DEFINE E == Entered(r)
              H == Halfway(r)
              F == Finished(r)
  <1>0. Active(r) /\ c \in CTAs /\ N \in Nat /\ N >= 2 /\ at[r][c] \in Nat
    BY GridActive, LaunchFacts, SizeFacts, PlaceType
  <1>1. /\ Cardinality(E) \in Nat /\ Cardinality(H) \in Nat /\ Cardinality(F) \in Nat
        /\ c \notin E => Cardinality(E \cup {c}) = Cardinality(E) + 1 /\ E \ {c} = E
        /\ c \notin H => Cardinality(H \cup {c}) = Cardinality(H) + 1 /\ H \ {c} = H
        /\ c \notin F => Cardinality(F \cup {c}) = Cardinality(F) + 1 /\ F \ {c} = F
        /\ (c \in E => E \cup {c} = E) /\ (c \in H => H \cup {c} = H)
        /\ (c \in F => F \cup {c} = F)
    BY CardStep
  <1>2. /\ c \in E <=> pc[r][c] # "entry"
        /\ c \in H <=> Halfgone(pc[r][c], at[r][c])
        /\ c \in F <=> pc[r][c] \in Ended
    BY Places
  <1>3. ASSUME NEW y, NEW k, Move(r, c, y, k)
        PROVE  /\ E' = IF y # "entry" THEN E \cup {c} ELSE E \ {c}
               /\ H' = IF Halfgone(y, k) THEN H \cup {c} ELSE H \ {c}
               /\ F' = IF y \in Ended THEN F \cup {c} ELSE F \ {c}
               /\ UNCHANGED <<program, epoch, last_value, entry>>
    <2>1. UNCHANGED <<program, epoch, last_value, entry>>
      BY <1>3 DEF Move
    <2>2. /\ Entered(r)' = IF y # "entry" THEN Entered(r) \cup {c} ELSE Entered(r) \ {c}
          /\ Halfway(r)' = IF Halfgone(y, k) THEN Halfway(r) \cup {c} ELSE Halfway(r) \ {c}
          /\ Finished(r)' = IF y \in Ended THEN Finished(r) \cup {c} ELSE Finished(r) \ {c}
      BY <1>3, SetStep
    <2>. QED
      BY <2>1, <2>2
  <1>4. ASSUME UNCHANGED <<program, epoch, last_value, entry>>, NEW x \in Nat,
               counter'[r] = counter[r] + x,
               NEW e \in Nat, NEW h \in Nat, NEW f \in Nat,
               e = Cardinality(E'), h = Cardinality(H'), f = Cardinality(F'),
               HasBarrier(r) =>
                   e + f + h = Cardinality(E) + Cardinality(F) + Cardinality(H) + x,
               ~HasBarrier(r) => e + f = Cardinality(E) + Cardinality(F) + x
        PROVE  Counting(r)'
    BY <1>0, <1>4, CountStep
  <1>5. Grown(r) <=> E \subseteq E' /\ H \subseteq H' /\ F \subseteq F'
    BY DEF Grown
  <1>. HIDE DEF E, H, F
  <1>6. (Arriving(r) => counter'[r] = counter[r] + 1) /\ (Staying => counter'[r] = counter[r] + 0)
    BY CounterStep
  <1>7. CASE ToEntered(r, c)
    <2>1. E' = E \cup {c} /\ H' = H /\ F' = F /\ c \notin E
          /\ UNCHANGED <<program, epoch, last_value, entry>>
      BY <1>1, <1>2, <1>3, <1>7 DEF ToEntered, Halfgone, Ended
    <2>2. counter'[r] = counter[r] + 1
      BY <1>6, <1>7 DEF ToEntered
    <2>3. Cardinality(E') = Cardinality(E) + 1 /\ Cardinality(E') \in Nat
      BY <1>1, <2>1
    <2>4. Counting(r)'
      BY <1>1, <1>4, <2>1, <2>2, <2>3
    <2>. QED
      BY <1>5, <2>1, <2>4
  <1>8. CASE ToFirst(r, c)
    <2>1. E' = E /\ H' = H /\ F' = F /\ UNCHANGED <<program, epoch, last_value, entry>>
      BY <1>0, <1>1, <1>2, <1>3, <1>8 DEF ToFirst, Halfgone, Ended
    <2>2. counter'[r] = counter[r] + 0
      BY <1>6, <1>8 DEF ToFirst
    <2>3. Counting(r)'
      BY <1>1, <1>4, <2>1, <2>2
    <2>. QED
      BY <1>5, <2>1, <2>3
  <1>9. CASE ToNext(r, c)
    <2>1. /\ E' = E /\ F' = F /\ UNCHANGED <<program, epoch, last_value, entry>>
          /\ HasBarrier(r) => H' = H
          /\ H' = H \/ (H' = H \cup {c} /\ c \notin H)
      <3>1. pc[r][c] = "run" /\ Move(r, c, "run", at[r][c] + 1)
            /\ (HasBarrier(r) => at[r][c] # N)
        BY <1>9 DEF ToNext
      <3>2. /\ E' = E \cup {c} /\ F' = F \ {c} /\ c \in E /\ c \notin F
            /\ H' = IF at[r][c] + 1 > N THEN H \cup {c} ELSE H \ {c}
            /\ c \in H <=> at[r][c] > N
            /\ UNCHANGED <<program, epoch, last_value, entry>>
        BY <1>2, <1>3, <3>1 DEF Halfgone, Ended
      <3>3. at[r][c] > N => at[r][c] + 1 > N
        BY <1>0
      <3>4. at[r][c] + 1 > N /\ at[r][c] # N => at[r][c] > N
        BY <1>0
      <3>. QED
        BY <1>1, <3>1, <3>2, <3>3, <3>4
    <2>2. counter'[r] = counter[r] + 0
      BY <1>6, <1>9 DEF ToNext
    <2>3. Cardinality(H') \in Nat
      BY <1>1, <2>1
    <2>4. Counting(r)'
      BY <1>1, <1>4, <2>1, <2>2, <2>3
    <2>. QED
      BY <1>5, <2>1, <2>4
  <1>10. CASE ToBarrier(r, c)
    <2>1. E' = E /\ H' = H \cup {c} /\ F' = F /\ c \notin H /\ HasBarrier(r)
          /\ UNCHANGED <<program, epoch, last_value, entry>>
      <3>1. pc[r][c] = "run" /\ HasBarrier(r) /\ Move(r, c, "barrier", at[r][c])
            /\ ~(at[r][c] > N)
        BY <1>0, <1>10 DEF ToBarrier
      <3>2. c \in E /\ c \notin H /\ c \notin F
        BY <1>2, <3>1 DEF Halfgone, Ended
      <3>3. /\ E' = E \cup {c} /\ H' = H \cup {c} /\ F' = F \ {c}
            /\ UNCHANGED <<program, epoch, last_value, entry>>
        BY <1>3, <3>1 DEF Halfgone, Ended
      <3>. QED
        BY <1>1, <3>1, <3>2, <3>3
    <2>2. counter'[r] = counter[r] + 1
      BY <1>6, <1>10 DEF ToBarrier
    <2>3. Cardinality(H') = Cardinality(H) + 1 /\ Cardinality(H') \in Nat
      BY <1>1, <2>1
    <2>4. Counting(r)'
      BY <1>1, <1>4, <2>1, <2>2, <2>3
    <2>. QED
      BY <1>5, <2>1, <2>4
  <1>11. CASE ToCopies(r, c)
    <2>1. E' = E /\ H' = H /\ F' = F /\ UNCHANGED <<program, epoch, last_value, entry>>
      <3>1. pc[r][c] = "barrier" /\ Move(r, c, "run", at[r][c] + 1) /\ at[r][c] + 1 > N
        BY <1>0, <1>11 DEF ToCopies
      <3>2. c \in E /\ c \in H /\ c \notin F
        BY <1>2, <3>1 DEF Halfgone, Ended
      <3>3. /\ E' = E \cup {c} /\ H' = H \cup {c} /\ F' = F \ {c}
            /\ UNCHANGED <<program, epoch, last_value, entry>>
        BY <1>3, <3>1 DEF Halfgone, Ended
      <3>. QED
        BY <1>1, <3>2, <3>3
    <2>2. counter'[r] = counter[r] + 0
      BY <1>6, <1>11 DEF ToCopies
    <2>3. Counting(r)'
      BY <1>1, <1>4, <2>1, <2>2
    <2>. QED
      BY <1>5, <2>1, <2>3
  <1>12. CASE ToFinal(r, c)
    <2>1. /\ E' = E /\ F' = F \cup {c} /\ c \notin F
          /\ HasBarrier(r) => H' = H
          /\ H' = H \/ (H' = H \cup {c} /\ c \notin H)
          /\ UNCHANGED <<program, epoch, last_value, entry>>
      BY <1>1, <1>2, <1>3, <1>12 DEF ToFinal, Halfgone, Ended
    <2>2. counter'[r] = counter[r] + 1
      BY <1>6, <1>12 DEF ToFinal
    <2>3. /\ Cardinality(F') = Cardinality(F) + 1 /\ Cardinality(F') \in Nat
          /\ Cardinality(H') \in Nat /\ Cardinality(E') = Cardinality(E)
          /\ HasBarrier(r) => Cardinality(H') = Cardinality(H)
      <3>1. Cardinality(H \cup {c}) \in Nat \/ c \in H
        BY <1>1
      <3>. QED
        BY <1>1, <2>1, <3>1
    <2>4. HasBarrier(r) => Cardinality(E') + Cardinality(F') + Cardinality(H')
                                = Cardinality(E) + Cardinality(F) + Cardinality(H) + 1
      BY <1>1, <2>3
    <2>5. Cardinality(E') + Cardinality(F') = Cardinality(E) + Cardinality(F) + 1
      BY <1>1, <2>3
    <2>6. Cardinality(E') \in Nat /\ 1 \in Nat
      BY <1>1, <2>3
    <2>7. UNCHANGED <<program, epoch, last_value, entry>>
      BY <2>1
    <2>8. Counting(r)'
      BY <1>4, <2>2, <2>3, <2>4, <2>5, <2>6, <2>7
    <2>. QED
      BY <1>5, <2>1, <2>8
  <1>13. CASE ToExit(r, c) \/ ToDone(r, c)
    <2>1. E' = E /\ H' = H /\ F' = F /\ UNCHANGED <<program, epoch, last_value, entry>>
      BY <1>1, <1>2, <1>3, <1>13 DEF ToExit, ToDone, Halfgone, Ended
    <2>2. counter'[r] = counter[r] + 0
      BY <1>6, <1>13 DEF ToExit, ToDone
    <2>3. Counting(r)'
      BY <1>1, <1>4, <2>1, <2>2
    <2>. QED
      BY <1>5, <2>1, <2>3
  <1>. QED
    BY <1>7, <1>8, <1>9, <1>10, <1>11, <1>12, <1>13 DEF Moves
LEMMA SetFrame ==
  ASSUME program' = program, NEW q, epoch'[q] = epoch[q], pc'[q] = pc[q], at'[q] = at[q]
  PROVE  /\ Entered(q)' = Entered(q) /\ Halfway(q)' = Halfway(q) /\ Finished(q)' = Finished(q)
         /\ Grown(q)
         /\ Stages(q) => Stages(q)'
  <1>1. Grid(q)' = Grid(q) /\ HasBarrier(q)' = HasBarrier(q)
    BY PlanFrame
  <1>2. Entered(q)' = Entered(q) /\ Halfway(q)' = Halfway(q) /\ Finished(q)' = Finished(q)
    BY <1>1 DEF Entered, Halfway, Finished
  <1>3. Stages(q) => Stages(q)'
    BY <1>1, <1>2 DEF Stages
  <1>. QED
    BY <1>2, <1>3 DEF Grown

LEMMA CountFrame ==
  ASSUME program' = program, NEW q, epoch'[q] = epoch[q], pc'[q] = pc[q], at'[q] = at[q],
         counter'[q] = counter[q], last_value'[q] = last_value[q], entry'[q] = entry[q],
         Counting(q)
  PROVE  Counting(q)'
  <1>1. Launched(q)' = Launched(q) /\ HasBarrier(q)' = HasBarrier(q)
    BY PlanFrame
  <1>2. Entered(q)' = Entered(q) /\ Halfway(q)' = Halfway(q) /\ Finished(q)' = Finished(q)
    BY SetFrame
  <1>. QED
    BY <1>1, <1>2 DEF Counting

LEMMA MoveStages ==
  ASSUME Typed, NoEmptySlice, NEW r \in Ranks, NEW c \in Grid(r), Counting(r), Stages(r),
         Moves(r, c)
  PROVE  Stages(r)'
  <1>0. Active(r) /\ c \in CTAs /\ N \in Nat /\ N >= 2 /\ at[r][c] \in Nat /\ Grid(r) \subseteq CTAs
    BY GridActive, LaunchFacts, SizeFacts, PlaceType
  <1>1. PICK y, k : Move(r, c, y, k)
    BY DEF Moves, ToEntered, ToFirst, ToNext, ToBarrier, ToCopies, ToFinal, ToExit, ToDone
  <1>2. /\ \A d \in CTAs \ {c} : pc'[r][d] = pc[r][d] /\ at'[r][d] = at[r][d]
        /\ pc'[r][c] = y /\ at'[r][c] = k
    BY <1>1, SetStep
  <1>3. Grid(r)' = Grid(r) /\ HasBarrier(r)' = HasBarrier(r)
    BY <1>1, PlanFrame DEF Move
  <1>4. Grown(r)
    BY MoveCounting
  <1>5. /\ Entered(r) = Grid(r) => Entered(r)' = Grid(r)
        /\ Halfway(r) = Grid(r) => Halfway(r)' = Grid(r)
        /\ Finished(r) = Grid(r) => Finished(r)' = Grid(r)
    <2>1. Entered(r)' \subseteq Grid(r)' /\ Halfway(r)' \subseteq Grid(r)'
          /\ Finished(r)' \subseteq Grid(r)'
      BY DEF Entered, Halfway, Finished
    <2>. QED
      BY <1>3, <1>4, <2>1 DEF Grown
  <1>6. /\ pc'[r][c] \in {"run", "barrier"} \cup Ended => Entered(r) = Grid(r)
        /\ HasBarrier(r) /\ (pc'[r][c] \in Ended \/ (pc'[r][c] = "run" /\ at'[r][c] > N))
               => Halfway(r) = Grid(r)
        /\ pc'[r][c] \in {"exit", "done"} => Finished(r) = Grid(r)
    <2>0. /\ pc[r][c] \in {"run", "barrier"} \cup Ended => Entered(r) = Grid(r)
          /\ HasBarrier(r) /\ (pc[r][c] \in Ended \/ (pc[r][c] = "run" /\ at[r][c] > N))
                 => Halfway(r) = Grid(r)
          /\ pc[r][c] \in {"exit", "done"} => Finished(r) = Grid(r)
      BY DEF Stages
    <2>a. ASSUME NEW z, NEW m, Move(r, c, z, m) PROVE pc'[r][c] = z /\ at'[r][c] = m
      BY <2>a, SetStep
    <2>1. CASE ToEntered(r, c)
      BY <2>a, <2>1 DEF ToEntered, Ended
    <2>2. CASE ToFirst(r, c)
      BY <1>0, <2>a, <2>2 DEF ToFirst, Ended
    <2>3. CASE ToNext(r, c)
      <3>1. pc[r][c] = "run" /\ pc'[r][c] = "run" /\ at'[r][c] = at[r][c] + 1
            /\ (HasBarrier(r) => at[r][c] # N)
        BY <2>a, <2>3 DEF ToNext
      <3>2. HasBarrier(r) /\ at'[r][c] > N => at[r][c] > N
        BY <1>0, <3>1
      <3>. QED
        BY <2>0, <3>1, <3>2 DEF Ended
    <2>4. CASE ToBarrier(r, c)
      BY <2>0, <2>a, <2>4 DEF ToBarrier, Ended
    <2>5. CASE ToCopies(r, c)
      BY <2>0, <2>a, <2>5 DEF ToCopies, Ended
    <2>6. CASE ToFinal(r, c)
      BY <2>0, <2>a, <2>6 DEF ToFinal, Ended
    <2>7. CASE ToExit(r, c)
      BY <2>0, <2>a, <2>7 DEF ToExit, Ended
    <2>8. CASE ToDone(r, c)
      BY <2>0, <2>a, <2>8 DEF ToDone, Ended
    <2>. QED
      BY <2>1, <2>2, <2>3, <2>4, <2>5, <2>6, <2>7, <2>8 DEF Moves
  <1>7. ASSUME NEW d \in CTAs \ Grid(r) PROVE pc'[r][d] = "done"
    BY <1>2, <1>7 DEF Stages
  <1>8. ASSUME NEW d \in Grid(r)
        PROVE  /\ pc'[r][d] \in {"run", "barrier"} \cup Ended => Entered(r) = Grid(r)
               /\ HasBarrier(r) /\ (pc'[r][d] \in Ended \/ (pc'[r][d] = "run" /\ at'[r][d] > N))
                      => Halfway(r) = Grid(r)
               /\ pc'[r][d] \in {"exit", "done"} => Finished(r) = Grid(r)
    <2>1. CASE d = c
      BY <1>6, <2>1
    <2>2. CASE d # c
      <3>1. pc'[r][d] = pc[r][d] /\ at'[r][d] = at[r][d]
        BY <1>0, <1>2, <2>2
      <3>. QED
        BY <3>1 DEF Stages
    <2>. QED
      BY <2>1, <2>2
  <1>. QED
    BY <1>3, <1>5, <1>7, <1>8 DEF Stages

LEMMA CtaCounting ==
  ASSUME WcInv, NoEmptySlice, NEW r \in Ranks, NEW c \in Grid(r), CtaStep(r, c), NEW q \in Ranks
  PROVE  Counting(q)' /\ Stages(q)' /\ Grown(q)
  <1>0. Typed /\ Counting(r) /\ Stages(r) /\ Counting(q) /\ Stages(q)
    BY DEF WcInv
  <1>1. CASE Quiet
    <2>1. /\ program' = program /\ epoch' = epoch /\ pc' = pc /\ at' = at
          /\ counter' = counter /\ last_value' = last_value /\ entry' = entry
      BY <1>1 DEF Quiet, Staying
    <2>. QED
      BY <1>0, <2>1, CountFrame, SetFrame
  <1>2. CASE Moves(r, c)
    <2>1. CASE q = r
      BY <1>0, <1>2, <2>1, MoveCounting, MoveStages
    <2>2. CASE q # r
      <3>1. PICK y, k : Move(r, c, y, k)
        BY <1>2 DEF Moves, ToEntered, ToFirst, ToNext, ToBarrier, ToCopies, ToFinal, ToExit,
                    ToDone
      <3>2. pc'[q] = pc[q] /\ at'[q] = at[q]
        BY <1>0, <2>2, <3>1, SetStep
      <3>3. program' = program /\ epoch' = epoch /\ last_value' = last_value /\ entry' = entry
        BY <3>1 DEF Move
      <3>4. Arriving(r) \/ Staying
        BY <1>2 DEF Moves, ToEntered, ToFirst, ToNext, ToBarrier, ToCopies, ToFinal, ToExit,
                    ToDone
      <3>5. counter'[q] = counter[q]
        BY <1>0, <2>2, <3>4, CounterStep
      <3>. QED
        BY <1>0, <3>2, <3>3, <3>5, CountFrame, SetFrame
    <2>. QED
      BY <2>1, <2>2
  <1>. QED
    BY <1>1, <1>2, CtaSteps

-------------------------------------------------------------------------------
(* The ready values.                                                       *)

LEMMA CtaFrame ==
  ASSUME NEW r, NEW c, CtaStep(r, c)
  PROVE  UNCHANGED <<program, epoch, last_value, entry>>
  BY DEF CtaStep, Publish, EntryArrival, Arrive, Enter, Turn, Load, Store, NextTask,
         BarrierArrival, PassBarrier, FinalArrival, PassFinal, Exit

LEMMA ReadySteps ==
  ASSUME Typed, NEW r \in Ranks, NEW c \in CTAs, CtaStep(r, c)
  PROVE  /\ pc[r][c] = "entry" /\ pc'[r][c] # "entry" => Ready(r, c, EntryValue(r))
         /\ pc[r][c] # "done" /\ pc'[r][c] = "done" => Ready(r, c, FinalValue(r))
  <1>0. pc \in [Ranks -> [CTAs -> PCs]]
    BY DEF Typed
  <1>1. CASE Publish(r, c, "entry", EntryValue(r)) \/ Publish(r, c, "exit", FinalValue(r))
    BY <1>1 DEF Publish
  <1>2. CASE Load(r, c) \/ Store(r, c)
    BY <1>2 DEF Load, Store
  <1>3. CASE EntryArrival(r, c)
    BY <1>0, <1>3 DEF EntryArrival, Arrive
  <1>4. CASE Enter(r, c) \/ NextTask(r, c) \/ PassBarrier(r, c)
    <2>1. pc' = [pc EXCEPT ![r][c] = "run"] /\ pc[r][c] # "entry"
      BY <1>4 DEF Enter, NextTask, PassBarrier, Turn
    <2>. QED
      BY <1>0, <2>1
  <1>5. CASE BarrierArrival(r, c)
    <2>1. pc' = [pc EXCEPT ![r][c] = "barrier"] /\ pc[r][c] # "entry"
      BY <1>5 DEF BarrierArrival, Arrive
    <2>. QED
      BY <1>0, <2>1
  <1>6. CASE FinalArrival(r, c)
    <2>1. pc' = [pc EXCEPT ![r][c] = "final"] /\ pc[r][c] # "entry"
      BY <1>6 DEF FinalArrival, Arrive
    <2>. QED
      BY <1>0, <2>1
  <1>7. CASE PassFinal(r, c)
    <2>1. pc' = [pc EXCEPT ![r][c] = "exit"] /\ pc[r][c] # "entry"
      BY <1>7 DEF PassFinal
    <2>. QED
      BY <1>0, <2>1
  <1>8. CASE Exit(r, c)
    BY <1>8 DEF Exit
  <1>. QED
    BY <1>1, <1>2, <1>3, <1>4, <1>5, <1>6, <1>7, <1>8 DEF CtaStep

LEMMA InboxStep ==
  ASSUME Typed, NEW r \in Ranks, NEW c \in CTAs, CtaStep(r, c),
         NEW q \in Ranks, NEW s \in Ranks
  PROVE  \/ inbox'[q][s] = inbox[q][s]
         \/ s = r /\ pc[r][c] = "entry" /\ inbox'[q][s] = EntryValue(r)
         \/ s = r /\ pc[r][c] = "exit" /\ inbox'[q][s] = FinalValue(r)
  <1>0. /\ inbox \in [Ranks -> [Ranks -> Nat]] /\ inbox[q][s] \in Nat
        /\ EntryValue(r) \in Nat /\ FinalValue(r) \in Nat
    <2>1. inbox \in [Ranks -> [Ranks -> Nat]]
      BY DEF Typed
    <2>2. epoch[r] \in Nat
      BY RankFacts
    <2>. QED
      BY <2>1, <2>2 DEF EntryValue, FinalValue, Stride
  <1>1. ASSUME NEW where, NEW value \in Nat, Publish(r, c, where, value)
        PROVE  \/ inbox'[q][s] = inbox[q][s]
               \/ s = r /\ pc[r][c] = where /\ inbox'[q][s] = value
    <2>1. PICK x : x = Min(left[r][c])
      OBVIOUS
    <2>a. pc[r][c] = where
          /\ inbox' = [inbox EXCEPT ![Min(left[r][c])][r] =
                           IF BatchPublish THEN value ELSE Max({@, value})]
      BY <1>1 DEF Publish
    <2>2. inbox' = [inbox EXCEPT ![x][r] = IF BatchPublish THEN value ELSE Max({@, value})]
          /\ pc[r][c] = where
      BY <2>1, <2>a
    <2>3. CASE x = q /\ s = r
      <3>0. PICK v \in Nat : v = inbox[q][s]
        BY <1>0
      <3>1. Max({v, value}) = IF v <= value THEN value ELSE v
        <4>1. v \in Int /\ value \in Int
          OBVIOUS
        <4>. QED
          BY <4>1, MaxOfTwo
      <3>2. inbox'[q][s] = IF BatchPublish THEN value ELSE Max({v, value})
        BY <1>0, <2>2, <2>3, <3>0
      <3>. QED
        BY <2>2, <2>3, <3>0, <3>1, <3>2
    <2>4. CASE ~(x = q /\ s = r)
      BY <1>0, <2>2, <2>4
    <2>. QED
      BY <2>3, <2>4
  <1>2. CASE Publish(r, c, "entry", EntryValue(r)) \/ Publish(r, c, "exit", FinalValue(r))
    BY <1>0, <1>1, <1>2
  <1>3. CASE ~(Publish(r, c, "entry", EntryValue(r)) \/ Publish(r, c, "exit", FinalValue(r)))
    <2>1. inbox' = inbox
      BY <1>3 DEF CtaStep, EntryArrival, Arrive, Enter, Turn, Load, Store, NextTask,
                  BarrierArrival, PassBarrier, FinalArrival, PassFinal, Exit
    <2>. QED
      BY <2>1
  <1>. QED
    BY <1>2, <1>3

LEMMA SentGrows ==
  ASSUME Typed, program' = program, NEW s \in Ranks, epoch'[s] = epoch[s], Grown(s), NEW e,
         SentBy(s, e)
  PROVE  SentBy(s, e)'
  <1>1. Grid(s)' = Grid(s) /\ Finished(s)' \subseteq Grid(s)'
    BY PlanFrame DEF Finished
  <1>. QED
    BY <1>1 DEF SentBy, Grown

LEMMA CtaRendezvous ==
  ASSUME WcInv, NoEmptySlice, NEW r \in Ranks, NEW c \in Grid(r), CtaStep(r, c), NEW q \in Ranks
  PROVE  Rendezvous(q)'
  <1>0. Typed /\ Rendezvous(q) /\ Stages(r) /\ c \in CTAs /\ Active(r)
    BY GridActive, LaunchFacts DEF WcInv
  <1>1. program' = program /\ epoch' = epoch
    BY CtaFrame
  <1>2. \A s \in Ranks : epoch[s] \in Nat
    BY <1>0, RankFacts
  <1>3. ASSUME NEW s \in Ranks, NEW e, SentBy(s, e) PROVE SentBy(s, e)'
    BY <1>0, <1>1, <1>3, CtaCounting, SentGrows
  <1>4. \A s \in Ranks : \A e : SentBy(s, e) => SentBy(s, e)'
    BY <1>3
  <1>5. ASSUME NEW s \in Peers(q), NEW e \in Nat
        PROVE  /\ inbox'[q][s] >= e * Stride => epoch'[s] >= e
               /\ inbox'[q][s] >= e * Stride + Stride - 1 => SentBy(s, e)'
    <2>0. s \in Ranks /\ epoch[s] \in Nat /\ epoch[r] \in Nat
      BY <1>2 DEF Peers
    <2>1. CASE inbox'[q][s] = inbox[q][s]
      BY <1>0, <1>1, <1>4, <2>0, <2>1 DEF Rendezvous
    <2>2. CASE s = r /\ pc[r][c] = "entry" /\ inbox'[q][s] = EntryValue(r)
      <3>1. /\ inbox'[q][s] >= e * Stride => epoch[s] >= e
            /\ inbox'[q][s] >= e * Stride + Stride - 1 => epoch[s] > e
        BY <2>0, <2>2 DEF EntryValue, Stride
      <3>. QED
        BY <1>1, <3>1 DEF SentBy
    <2>3. CASE s = r /\ pc[r][c] = "exit" /\ inbox'[q][s] = FinalValue(r)
      <3>1. inbox'[q][s] >= e * Stride => epoch[s] >= e
        BY <2>0, <2>3 DEF FinalValue, Stride
      <3>2. Finished(r) = Grid(r)
        BY <1>0, <2>3 DEF Stages
      <3>3. inbox'[q][s] >= e * Stride + Stride - 1 => SentBy(s, e)
        <4>1. inbox'[q][s] >= e * Stride + Stride - 1 => epoch[s] >= e
          BY <2>0, <2>3 DEF FinalValue, Stride
        <4>2. epoch[s] >= e => epoch[s] > e \/ epoch[s] = e
          BY <2>0
        <4>. QED
          BY <2>3, <3>2, <4>1, <4>2 DEF SentBy
      <3>. QED
        BY <1>1, <1>4, <2>0, <3>1, <3>3
    <2>. QED
      BY <1>0, <2>0, <2>1, <2>2, <2>3, InboxStep
  <1>6. ASSUME NEW x \in Grid(q), NEW s \in Stripe(q, x, Launched(q))
        PROVE  /\ pc'[q][x] # "entry" => epoch'[s] >= epoch'[q]
               /\ pc'[q][x] = "done" => SentBy(s, epoch[q])'
    <2>0. Active(q) /\ x \in CTAs
      BY <1>0, GridActive, LaunchFacts
    <2>1. s \in Peers(q) /\ s \in Ranks
      BY <1>0, <2>0, StripeFacts DEF Peers
    <2>2. /\ pc[q][x] # "entry" => epoch[s] >= epoch[q]
          /\ pc[q][x] = "done" => SentBy(s, epoch[q])
      BY <1>0 DEF Rendezvous
    <2>3. CASE pc'[q][x] = pc[q][x]
      BY <1>1, <1>4, <2>1, <2>2, <2>3
    <2>4. CASE pc'[q][x] # pc[q][x]
      <3>1. q = r /\ x = c
        <4>1. CASE Quiet
          BY <2>4, <4>1 DEF Quiet
        <4>2. CASE Moves(r, c)
          <5>1. PICK y, k : Move(r, c, y, k)
            BY <4>2 DEF Moves, ToEntered, ToFirst, ToNext, ToBarrier, ToCopies, ToFinal,
                        ToExit, ToDone
          <5>2. (\A p \in Ranks \ {r} : pc'[p] = pc[p])
                /\ (\A d \in CTAs \ {c} : pc'[r][d] = pc[r][d])
            BY <1>0, <5>1, SetStep
          <5>. QED
            BY <2>0, <2>4, <5>2
        <4>. QED
          BY <4>1, <4>2, CtaSteps
      <3>2. /\ pc[r][c] = "entry" /\ pc'[r][c] # "entry" => Ready(r, c, EntryValue(r))
            /\ pc[r][c] # "done" /\ pc'[r][c] = "done" => Ready(r, c, FinalValue(r))
        BY <1>0, ReadySteps
      <3>3. pc'[q][x] # "entry" => epoch[s] >= epoch[q]
        <4>1. CASE pc[q][x] # "entry"
          BY <2>2, <4>1
        <4>2. CASE pc[q][x] = "entry" /\ pc'[q][x] # "entry"
          <5>1. inbox[q][s] >= epoch[q] * Stride
            BY <3>1, <3>2, <4>2 DEF Ready, EntryValue
          <5>. QED
            BY <1>0, <1>2, <2>1, <5>1 DEF Rendezvous
        <4>. QED
          BY <4>1, <4>2
      <3>4. pc'[q][x] = "done" => SentBy(s, epoch[q])
        <4>1. ASSUME pc'[q][x] = "done" PROVE SentBy(s, epoch[q])
          <5>1. inbox[q][s] >= epoch[q] * Stride + Stride - 1
            BY <2>4, <3>1, <3>2, <4>1 DEF Ready, FinalValue
          <5>. QED
            BY <1>0, <1>2, <2>1, <5>1 DEF Rendezvous
        <4>. QED
          BY <4>1
      <3>. QED
        BY <1>1, <1>4, <2>1, <3>3, <3>4
    <2>. QED
      BY <2>3, <2>4
  <1>7. ASSUME NEW s \in Peers(q), NEW e \in 1 .. epoch[q] - 1, Planned(e)
        PROVE  SentBy(s, e)'
    <2>1. SentBy(s, e) /\ s \in Ranks
      BY <1>0, <1>7 DEF Rendezvous, Peers
    <2>. QED
      BY <1>4, <2>1
  <1>8. Grid(q)' = Grid(q) /\ Launched(q)' = Launched(q) /\ epoch'[q] = epoch[q]
        /\ \A e : Planned(e)' = Planned(e)
    BY <1>1, PlanFrame DEF Planned
  <1>. QED
    BY <1>5, <1>6, <1>7, <1>8 DEF Rendezvous
-------------------------------------------------------------------------------
(* The tasks of the CTAs.                                                  *)

LEMMA CtaLocal ==
  ASSUME Typed, NEW r \in Ranks, NEW c \in CTAs, CtaStep(r, c),
         NEW q \in Ranks, NEW x \in CTAs, q # r \/ x # c
  PROVE  /\ pc'[q][x] = pc[q][x] /\ at'[q][x] = at[q][x]
         /\ todo'[q][x] = todo[q][x] /\ held'[q][x] = held[q][x]
  <1>0. /\ pc \in [Ranks -> [CTAs -> PCs]] /\ at \in [Ranks -> [CTAs -> 0 .. 2 * N]]
        /\ todo \in [Ranks -> [CTAs -> SUBSET ((0 .. MaxWindows - 1) \X Ranks)]]
        /\ held \in [Ranks -> [CTAs -> [0 .. MaxWindows - 1 -> [Ranks -> Int]]]]
    BY DEF Typed
  <1>1. pc'[q][x] = pc[q][x]
    <2>1. pc' = pc \/ \E y : pc' = [pc EXCEPT ![r][c] = y]
      BY DEF CtaStep, Publish, EntryArrival, Arrive, Enter, Turn, Load, Store, NextTask,
             BarrierArrival, PassBarrier, FinalArrival, PassFinal, Exit
    <2>. QED
      BY <1>0, <2>1
  <1>2. at'[q][x] = at[q][x]
    <2>1. at' = at \/ \E y : at' = [at EXCEPT ![r][c] = y]
      BY DEF CtaStep, Publish, EntryArrival, Arrive, Enter, Turn, Load, Store, NextTask,
             BarrierArrival, PassBarrier, FinalArrival, PassFinal, Exit
    <2>. QED
      BY <1>0, <2>1
  <1>3. todo'[q][x] = todo[q][x]
    <2>1. CASE Store(r, c)
      <3>1. PICK p \in todo[r][c] : todo' = [todo EXCEPT ![r][c] = @ \ {p}]
        BY <2>1 DEF Store
      <3>. QED
        BY <1>0, <3>1
    <2>2. CASE ~Store(r, c)
      <3>1. todo' = todo \/ \E y : todo' = [todo EXCEPT ![r][c] = y]
        BY <2>2 DEF CtaStep, Publish, EntryArrival, Arrive, Enter, Turn, Load, NextTask,
                    BarrierArrival, PassBarrier, FinalArrival, PassFinal, Exit
      <3>. QED
        BY <1>0, <3>1
    <2>. QED
      BY <2>1, <2>2
  <1>4. held'[q][x] = held[q][x]
    <2>1. CASE Load(r, c)
      <3>1. PICK w \in {p[1] : p \in todo[r][c]} :
                held' = [held EXCEPT ![r][c][w] = buf[Tasks(r)[at[r][c]].src][<<r, w>>]]
        BY <2>1 DEF Load
      <3>. QED
        BY <1>0, <3>1
    <2>2. CASE ~Load(r, c)
      <3>1. held' = held \/ \E y : held' = [held EXCEPT ![r][c] = y]
        BY <2>2 DEF CtaStep, Publish, EntryArrival, Arrive, Enter, Turn, Store, NextTask,
                    BarrierArrival, PassBarrier, FinalArrival, PassFinal, Exit
      <3>. QED
        BY <1>0, <3>1
    <2>. QED
      BY <2>1, <2>2
  <1>. QED
    BY <1>1, <1>2, <1>3, <1>4

(* What changes when a CTA turns to a task. *)
LEMMA TurnFacts ==
  ASSUME Typed, NEW r \in Ranks, NEW c \in CTAs, NEW i, Turn(r, c, i)
  PROVE  /\ pc'[r][c] = "run" /\ at'[r][c] = i /\ todo'[r][c] = Work(r, c, i)
         /\ \A w \in 0 .. MaxWindows - 1 : held'[r][c][w] = NotLoaded
  <1>0. /\ pc \in [Ranks -> [CTAs -> PCs]] /\ at \in [Ranks -> [CTAs -> 0 .. 2 * N]]
        /\ todo \in [Ranks -> [CTAs -> SUBSET ((0 .. MaxWindows - 1) \X Ranks)]]
        /\ held \in [Ranks -> [CTAs -> [0 .. MaxWindows - 1 -> [Ranks -> Int]]]]
    BY DEF Typed
  <1>1. /\ pc' = [pc EXCEPT ![r][c] = "run"] /\ at' = [at EXCEPT ![r][c] = i]
        /\ todo' = [todo EXCEPT ![r][c] = Work(r, c, i)]
        /\ held' = [held EXCEPT ![r][c] = [w \in 0 .. MaxWindows - 1 |-> NotLoaded]]
    BY DEF Turn
  <1>. QED
    BY <1>0, <1>1

LEMMA ArriveFacts ==
  ASSUME Typed, NEW r \in Ranks, NEW c \in CTAs, NEW from, NEW to, Arrive(r, c, from, to)
  PROVE  /\ pc[r][c] = from /\ pc'[r][c] = to /\ at' = at /\ todo' = todo /\ held' = held
         /\ buf' = buf
  <1>0. pc \in [Ranks -> [CTAs -> PCs]]
    BY DEF Typed
  <1>. QED
    BY <1>0 DEF Arrive

(* Each turn of a CTA to its i-th task. *)
LEMMA TurnsTo ==
  ASSUME WcInv, NoEmptySlice, NEW r \in Ranks, NEW c \in Grid(r),
         Enter(r, c) \/ NextTask(r, c) \/ PassBarrier(r, c)
  PROVE  \E i \in 1 .. Len(Tasks(r)) + 1 : Turn(r, c, i)
  <1>0. Typed /\ Loading(r, c) /\ c \in CTAs /\ Active(r) /\ Counting(r) /\ Stages(r)
    BY GridActive, LaunchFacts DEF WcInv, Loads
  <1>1. Len(Tasks(r)) \in Nat /\ Len(Tasks(r)) >= 1 /\ at[r][c] \in Nat /\ N \in Nat
    <2>1. Len(Tasks(r)) \in 1 .. 2 * N - 1
      BY <1>0, PlanFacts DEF Shape
    <2>. QED
      BY <1>0, <2>1, TaskIndex, PlaceType, SizeFacts
  <1>2. CASE Enter(r, c)
    <2>1. Turn(r, c, 1)
      BY <1>2 DEF Enter
    <2>2. 1 \in 1 .. Len(Tasks(r)) + 1
      BY <1>1
    <2>. QED
      BY <2>1, <2>2
  <1>3. CASE NextTask(r, c)
    <2>1. Turn(r, c, at[r][c] + 1) /\ pc[r][c] = "run" /\ at[r][c] <= Len(Tasks(r))
      BY <1>3 DEF NextTask
    <2>2. at[r][c] + 1 \in 1 .. Len(Tasks(r)) + 1
      BY <1>1, <2>1
    <2>. QED
      BY <2>1, <2>2
  <1>4. CASE PassBarrier(r, c)
    <2>1. Turn(r, c, at[r][c] + 1) /\ pc[r][c] = "barrier"
      BY <1>4 DEF PassBarrier
    <2>2. HasBarrier(r) /\ at[r][c] = N
      BY <1>0, <2>1 DEF Loading
    <2>3. Len(Tasks(r)) >= N
      <3>1. 1 \in 1 .. Len(Tasks(r))
        BY <1>1
      <3>. QED
        BY <1>0, <2>2, <3>1, AtTheBarrier
    <2>4. at[r][c] + 1 \in 1 .. Len(Tasks(r)) + 1
      BY <1>1, <2>2, <2>3
    <2>. QED
      BY <2>1, <2>4
  <1>. QED
    BY <1>2, <1>3, <1>4

LEMMA CtaLoading ==
  ASSUME WcInv, NoEmptySlice, NEW r \in Ranks, NEW c \in Grid(r), CtaStep(r, c)
  PROVE  Loading(r, c)'
  <1>0. Typed /\ Loading(r, c) /\ c \in CTAs /\ Active(r) /\ Counting(r) /\ Stages(r)
    BY GridActive, LaunchFacts DEF WcInv, Loads
  <1>1. program' = program /\ epoch' = epoch
    BY CtaFrame
  <1>2. /\ Tasks(r)' = Tasks(r) /\ HasBarrier(r)' = HasBarrier(r)
        /\ \A d, i : Work(r, d, i)' = Work(r, d, i)
        /\ \A i : Carried(r, i)' = Carried(r, i)
    BY <1>1, PlanFrame
  <1>. DEFINE W == 0 .. MaxWindows - 1
              Idle == \A w \in W : held[r][c][w] = NotLoaded
  <1>3. ~Working(r, c) => Idle
    BY <1>0 DEF Loading
  <1>4. /\ pc \in [Ranks -> [CTAs -> PCs]] /\ at \in [Ranks -> [CTAs -> 0 .. 2 * N]]
        /\ todo \in [Ranks -> [CTAs -> SUBSET (W \X Ranks)]]
        /\ held \in [Ranks -> [CTAs -> [W -> [Ranks -> Int]]]]
    BY <1>0 DEF Typed
  <1>5. ASSUME pc'[r][c] \notin {"run", "barrier"}, \A w \in W : held'[r][c][w] = NotLoaded
        PROVE  Loading(r, c)'
    BY <1>5 DEF Loading
  <1>6. ASSUME pc'[r][c] = pc[r][c], at'[r][c] = at[r][c], todo'[r][c] \subseteq todo[r][c],
               \A w \in W : held'[r][c][w] = held[r][c][w]
        PROVE  Loading(r, c)'
    BY <1>0, <1>2, <1>6 DEF Loading, Working
  <1>7. CASE Publish(r, c, "entry", EntryValue(r)) \/ Publish(r, c, "exit", FinalValue(r))
    <2>1. pc' = pc /\ at' = at /\ todo' = todo /\ held' = held
      BY <1>7 DEF Publish
    <2>. QED
      BY <1>6, <2>1
  <1>8. CASE EntryArrival(r, c)
    <2>1. pc[r][c] = "entry" /\ pc'[r][c] = "entered" /\ held' = held
      BY <1>0, <1>8, ArriveFacts DEF EntryArrival
    <2>2. Idle
      BY <1>3, <2>1 DEF Working
    <2>. QED
      BY <1>5, <2>1, <2>2
  <1>9. CASE Enter(r, c) \/ NextTask(r, c) \/ PassBarrier(r, c)
    <2>1. PICK i \in 1 .. Len(Tasks(r)) + 1 : Turn(r, c, i)
      BY <1>9, TurnsTo
    <2>2. /\ pc'[r][c] = "run" /\ at'[r][c] = i /\ todo'[r][c] = Work(r, c, i)
          /\ \A w \in W : held'[r][c][w] = NotLoaded
      BY <1>0, <2>1, TurnFacts
    <2>. QED
      BY <1>2, <2>2 DEF Loading
  <1>10. CASE Load(r, c)
    <2>1. PICK p \in todo[r][c] :
              held' = [held EXCEPT ![r][c][p[1]] = buf[Tasks(r)[at[r][c]].src][<<r, p[1]>>]]
      BY <1>10 DEF Load
    <2>2. pc[r][c] = "run" /\ pc' = pc /\ at' = at /\ todo' = todo
      BY <1>10 DEF Load
    <2>3. /\ at[r][c] \in 1 .. Len(Tasks(r)) /\ Tasks(r)[at[r][c]].op # "barrier"
          /\ buf[Tasks(r)[at[r][c]].src][<<r, p[1]>>] = Carried(r, at[r][c])
      BY <2>2, LoadedValue
    <2>4. ASSUME NEW w \in W
          PROVE  held'[r][c][w] = held[r][c][w] \/ held'[r][c][w] = Carried(r, at[r][c])
      <3>1. held' = [held EXCEPT ![r][c][p[1]] = Carried(r, at[r][c])]
        BY <2>1, <2>3
      <3>. HIDE DEF W
      <3>. QED
        BY <1>0, <1>4, <3>1
    <2>5. Working(r, c)' /\ Working(r, c)
      BY <1>2, <2>2, <2>3 DEF Working
    <2>6. /\ Tasks(r)' = Tasks(r) /\ HasBarrier(r)' = HasBarrier(r)
          /\ Carried(r, at[r][c])' = Carried(r, at[r][c])
          /\ Work(r, c, at[r][c])' = Work(r, c, at[r][c])
      BY <1>2, <2>2
    <2>. QED
      BY <1>0, <2>2, <2>3, <2>4, <2>5, <2>6 DEF Loading
  <1>11. CASE Store(r, c)
    <2>1. PICK p \in todo[r][c] : todo' = [todo EXCEPT ![r][c] = @ \ {p}]
      BY <1>11 DEF Store
    <2>2. pc' = pc /\ at' = at /\ held' = held
      BY <1>11 DEF Store
    <2>3. todo'[r][c] \subseteq todo[r][c]
      BY <1>0, <1>4, <2>1
    <2>. QED
      BY <1>6, <2>2, <2>3
  <1>12. CASE BarrierArrival(r, c)
    <2>1. /\ pc[r][c] = "run" /\ pc'[r][c] = "barrier" /\ at' = at /\ held' = held
          /\ Tasks(r)[at[r][c]].op = "barrier"
      BY <1>0, <1>12, ArriveFacts DEF BarrierArrival, AtBarrier
    <2>2. HasBarrier(r) /\ at[r][c] = N
      <3>1. Quiet \/ Moves(r, c)
        BY CtaSteps
      <3>2. ASSUME NEW y, NEW k, Move(r, c, y, k) PROVE pc'[r][c] = y
        BY <1>0, <3>2, SetStep
      <3>3. ~Quiet
        BY <2>1 DEF Quiet
      <3>. QED
        BY <2>1, <3>1, <3>2, <3>3 DEF Moves, ToEntered, ToFirst, ToNext, ToBarrier, ToCopies,
                                      ToFinal, ToExit, ToDone
    <2>3. Idle
      BY <1>0, <2>1 DEF Loading
    <2>. QED
      BY <1>2, <2>1, <2>2, <2>3 DEF Loading
  <1>13. CASE FinalArrival(r, c)
    <2>1. /\ pc[r][c] = "run" /\ pc'[r][c] = "final" /\ held' = held
          /\ at[r][c] > Len(Tasks(r))
      BY <1>0, <1>13, ArriveFacts DEF FinalArrival
    <2>2. ~Working(r, c)
      <3>1. Len(Tasks(r)) \in Nat
        BY <1>0, TaskIndex
      <3>. QED
        BY <2>1, <3>1 DEF Working
    <2>. QED
      BY <1>3, <1>5, <2>1, <2>2
  <1>14. CASE PassFinal(r, c)
    <2>1. pc[r][c] = "final" /\ pc'[r][c] = "exit" /\ held' = held
      BY <1>0, <1>4, <1>14 DEF PassFinal
    <2>2. Idle
      BY <1>3, <2>1 DEF Working
    <2>. QED
      BY <1>5, <2>1, <2>2
  <1>15. CASE Exit(r, c)
    <2>1. pc' = [pc EXCEPT ![r][c] = "done"]
          /\ held' = [held EXCEPT ![r][c] = [w \in W |-> NotLoaded]]
      BY <1>15 DEF Exit
    <2>2. pc'[r][c] = "done" /\ \A w \in W : held'[r][c][w] = NotLoaded
      BY <1>0, <1>4, <2>1
    <2>. QED
      BY <1>5, <2>2
  <1>. QED
    BY <1>7, <1>8, <1>9, <1>10, <1>11, <1>12, <1>13, <1>14, <1>15 DEF CtaStep

LEMMA CtaLoads ==
  ASSUME WcInv, NoEmptySlice, NEW r \in Ranks, NEW c \in Grid(r), CtaStep(r, c), NEW q \in Ranks
  PROVE  Loads(q)'
  <1>0. Typed /\ c \in CTAs
    BY LaunchFacts DEF WcInv
  <1>1. program' = program /\ epoch' = epoch
    BY CtaFrame
  <1>2. ASSUME NEW x \in CTAs PROVE Loading(q, x)'
    <2>1. CASE q = r /\ x = c
      BY <2>1, CtaLoading
    <2>2. CASE q # r \/ x # c
      <3>1. /\ pc'[q][x] = pc[q][x] /\ at'[q][x] = at[q][x]
            /\ todo'[q][x] = todo[q][x] /\ held'[q][x] = held[q][x]
        BY <1>0, <2>2, CtaLocal
      <3>2. /\ Tasks(q)' = Tasks(q) /\ HasBarrier(q)' = HasBarrier(q)
            /\ \A d, i : Work(q, d, i)' = Work(q, d, i)
            /\ \A i : Carried(q, i)' = Carried(q, i)
        BY <1>1, PlanFrame
      <3>3. Loading(q, x)
        BY DEF WcInv, Loads
      <3>. QED
        BY <3>1, <3>2, <3>3 DEF Loading, Working
    <2>. QED
      BY <2>1, <2>2
  <1>. QED
    BY <1>2 DEF Loads
-------------------------------------------------------------------------------
(* The contents of the buffers.                                            *)

LEMMA StoredSame ==
  ASSUME program' = program, NEW s, epoch'[s] = epoch[s], NEW x, NEW i,
         pc'[s][x] = pc[s][x], at'[s][x] = at[s][x], todo'[s][x] = todo[s][x]
  PROVE  \A w, d : Stored(s, x, i, w, d)' = Stored(s, x, i, w, d)
  <1>1. Work(s, x, i)' = Work(s, x, i)
    BY PlanFrame
  <1>. QED
    BY <1>1 DEF Stored, Past

LEMMA OwnFrame ==
  ASSUME program' = program, NEW q, epoch'[q] = epoch[q], NEW v,
         buf'[q][<<q, v>>] = buf[q][<<q, v>>],
         \A x \in Grid(q) : \A j \in 1 .. N - 1 :
             Stored(q, x, j, v, q)' = Stored(q, x, j, v, q),
         OwnSlice(q, v)
  PROVE  OwnSlice(q, v)'
  <1>1. Kind(q)' = Kind(q) /\ Grid(q)' = Grid(q)
    BY PlanFrame
  <1>2. \A p : Reduced(q, p, v)' = Reduced(q, p, v)
    BY <1>1 DEF Reduced
  <1>. QED
    BY <1>1, <1>2 DEF OwnSlice

LEMMA PeerFrame ==
  ASSUME program' = program, NEW q, epoch'[q] = epoch[q], NEW s, epoch'[s] = epoch[s], NEW v,
         buf'[q][<<s, v>>] = buf[q][<<s, v>>],
         \A x \in Grid(s) : \A j \in 1 .. Len(Tasks(s)) :
             Stored(s, x, j, v, q)' = Stored(s, x, j, v, q),
         PeerSlice(q, s, v)
  PROVE  PeerSlice(q, s, v)'
  <1>1. Kind(q)' = Kind(q) /\ Grid(s)' = Grid(s) /\ Tasks(s)' = Tasks(s)
    BY PlanFrame
  <1>2. Copied(s, q, v)' = Copied(s, q, v)
    BY <1>1 DEF Copied
  <1>3. Delivered(s, q, v)' = Delivered(s, q, v)
    BY <1>2 DEF Delivered
  <1>. QED
    BY <1>1, <1>3 DEF PeerSlice

LEMMA CellsToContents ==
  ASSUME program' = program, epoch' = epoch, NEW q,
         Active(q) =>
             \A s \in Ranks : \A v \in 0 .. Windows(Count(q), s) - 1 :
                 IF s = q THEN OwnSlice(q, v)' ELSE PeerSlice(q, s, v)'
  PROVE  Contents(q)'
  <1>1. Active(q)' = Active(q) /\ Count(q)' = Count(q)
    BY PlanFrame
  <1>. QED
    BY <1>1 DEF Contents

LEMMA ContentsFrame ==
  ASSUME Typed, NoEmptySlice, program' = program, epoch' = epoch, NEW q \in Ranks,
         buf'[q] = buf[q],
         \A s \in Ranks : \A x \in Grid(s) : \A j \in Nat \ {0} : \A v \in Nat :
             Stored(s, x, j, v, q)' = Stored(s, x, j, v, q),
         Contents(q)
  PROVE  Contents(q)'
  <1>1. ASSUME Active(q), NEW s \in Ranks, NEW v \in 0 .. Windows(Count(q), s) - 1
        PROVE  IF s = q THEN OwnSlice(q, v)' ELSE PeerSlice(q, s, v)'
    <2>0. v \in Nat
      <3>1. Windows(Count(q), s) \in Nat
        BY <1>1, RankFacts, SizeFacts DEF Active
      <3>. QED
        BY <3>1
    <2>1. CASE s = q
      <3>1. OwnSlice(q, v)
        BY <1>1, <2>1 DEF Contents
      <3>2. \A j \in 1 .. N - 1 : j \in Nat \ {0}
        BY SizeFacts
      <3>3. \A x \in Grid(q) : \A j \in 1 .. N - 1 :
                Stored(q, x, j, v, q)' = Stored(q, x, j, v, q)
        BY <2>0, <3>2
      <3>4. OwnSlice(q, v)'
        BY <3>1, <3>3, OwnFrame
      <3>. QED
        BY <2>1, <3>4
    <2>2. CASE s # q
      <3>1. PeerSlice(q, s, v)
        BY <1>1, <2>2 DEF Contents
      <3>2. \A j \in 1 .. Len(Tasks(s)) : j \in Nat \ {0}
        OBVIOUS
      <3>3. \A x \in Grid(s) : \A j \in 1 .. Len(Tasks(s)) :
                Stored(s, x, j, v, q)' = Stored(s, x, j, v, q)
        BY <2>0, <3>2
      <3>4. PeerSlice(q, s, v)'
        BY <3>1, <3>3, PeerFrame
      <3>. QED
        BY <2>2, <3>4
    <2>. QED
      BY <2>1, <2>2
  <1>. QED
    BY <1>1, CellsToContents

(* Only a store changes what has been stored. *)
LEMMA NoStore ==
  ASSUME WcInv, NoEmptySlice, NEW r \in Ranks, NEW c \in Grid(r), CtaStep(r, c), ~Store(r, c),
         NEW s \in Ranks, NEW x \in Grid(s), NEW i \in Nat \ {0}
  PROVE  buf' = buf /\ \A w, d : Stored(s, x, i, w, d)' = Stored(s, x, i, w, d)
  <1>0. Typed /\ c \in CTAs /\ x \in CTAs /\ Active(r) /\ Loading(r, c)
    BY GridActive, LaunchFacts DEF WcInv, Loads
  <1>1. program' = program /\ epoch' = epoch
    BY CtaFrame
  <1>2. buf' = buf
    BY DEF CtaStep, Publish, EntryArrival, Arrive, Enter, Turn, Load, NextTask,
           BarrierArrival, PassBarrier, FinalArrival, PassFinal, Exit
  <1>3. CASE s # r \/ x # c
    BY <1>0, <1>1, <1>2, <1>3, CtaLocal, StoredSame
  <1>4. CASE s = r /\ x = c
    <2>1. \A k : Work(r, c, k)' = Work(r, c, k)
      BY <1>1, PlanFrame
    <2>. DEFINE a == at[r][c]
                St(w, d) == Stored(r, c, i, w, d)
    <2>2. a \in Nat /\ Len(Tasks(r)) \in Nat /\ N \in Nat
      BY <1>0, PlaceType, TaskIndex, SizeFacts
    <2>3. pc \in [Ranks -> [CTAs -> PCs]]
      BY <1>0 DEF Typed
    <2>4. CASE Publish(r, c, "entry", EntryValue(r)) \/ Publish(r, c, "exit", FinalValue(r))
               \/ Load(r, c)
      <3>1. pc' = pc /\ at' = at /\ todo' = todo
        BY <2>4 DEF Publish, Load
      <3>. QED
        BY <1>1, <1>2, <1>4, <3>1, StoredSame
    <2>5. CASE EntryArrival(r, c)
      <3>1. pc[r][c] = "entry" /\ pc'[r][c] = "entered"
        BY <1>0, <2>5, ArriveFacts DEF EntryArrival
      <3>. QED
        BY <1>2, <1>4, <3>1 DEF Stored, Past, Ended
    <2>6. CASE Enter(r, c)
      <3>1. pc[r][c] = "entered" /\ Turn(r, c, 1)
        BY <2>6 DEF Enter
      <3>2. pc'[r][c] = "run" /\ at'[r][c] = 1 /\ todo'[r][c] = Work(r, c, 1)
        BY <1>0, <3>1, TurnFacts
      <3>3. ~(1 > i)
        OBVIOUS
      <3>4. \A w, d : ~Stored(r, c, i, w, d)'
        BY <2>1, <3>2, <3>3 DEF Stored, Past, Ended
      <3>5. \A w, d : ~Stored(r, c, i, w, d)
        BY <3>1 DEF Stored, Past, Ended
      <3>. QED
        BY <1>2, <1>4, <3>4, <3>5 DEF Stored
    <2>7. CASE NextTask(r, c)
      <3>1. pc[r][c] = "run" /\ todo[r][c] = {} /\ Turn(r, c, a + 1)
        BY <2>7 DEF NextTask
      <3>2. pc'[r][c] = "run" /\ at'[r][c] = a + 1 /\ todo'[r][c] = Work(r, c, a + 1)
        BY <1>0, <3>1, TurnFacts
      <3>3. ASSUME NEW w, NEW d
            PROVE  Stored(r, c, i, w, d) <=> <<w, d>> \in Work(r, c, i) /\ a >= i
        BY <2>2, <3>1 DEF Stored, Past, Ended
      <3>4. ASSUME NEW w, NEW d
            PROVE  Stored(r, c, i, w, d)' <=> <<w, d>> \in Work(r, c, i) /\ a >= i
        <4>1. a + 1 > i <=> a >= i
          BY <2>2
        <4>2. a + 1 = i => todo'[r][c] = Work(r, c, i)
          BY <3>2
        <4>3. Stored(r, c, i, w, d)' <=>
                  /\ <<w, d>> \in Work(r, c, i)
                  /\ a + 1 > i \/ (a + 1 = i /\ <<w, d>> \notin todo'[r][c])
          BY <2>1, <3>2 DEF Stored, Past, Ended
        <4>. QED
          BY <4>1, <4>2, <4>3
      <3>. QED
        BY <1>2, <1>4, <3>3, <3>4 DEF Stored
    <2>8. CASE BarrierArrival(r, c)
      <3>1. pc[r][c] = "run" /\ pc'[r][c] = "barrier" /\ at' = at
            /\ a <= Len(Tasks(r)) /\ Tasks(r)[a].op = "barrier"
        BY <1>0, <2>8, ArriveFacts DEF BarrierArrival, AtBarrier
      <3>2. Work(r, c, a) = {}
        <4>1. a \in 1 .. Len(Tasks(r))
          BY <1>0, <2>2, <3>1 DEF Loading
        <4>2. Kind(r) = "all_reduce" /\ a = N
          BY <1>0, <3>1, <4>1, AtTheBarrier
        <4>. QED
          BY <1>0, <2>2, <4>2, CoverageHolds DEF Coverage
      <3>3. ASSUME NEW w, NEW d, <<w, d>> \in Work(r, c, i)
            PROVE  Stored(r, c, i, w, d)' = Stored(r, c, i, w, d)
        <4>1. a # i
          BY <3>2, <3>3
        <4>. QED
          BY <2>1, <3>1, <4>1 DEF Stored, Past, Ended
      <3>4. ASSUME NEW w, NEW d, <<w, d>> \notin Work(r, c, i)
            PROVE  Stored(r, c, i, w, d)' = Stored(r, c, i, w, d)
        BY <2>1, <3>4 DEF Stored
      <3>. QED
        BY <1>2, <1>4, <3>3, <3>4
    <2>9. CASE PassBarrier(r, c)
      <3>1. pc[r][c] = "barrier" /\ Turn(r, c, a + 1)
        BY <2>9 DEF PassBarrier
      <3>2. pc'[r][c] = "run" /\ at'[r][c] = a + 1 /\ todo'[r][c] = Work(r, c, a + 1)
        BY <1>0, <3>1, TurnFacts
      <3>3. Work(r, c, a) = {}
        <4>1. HasBarrier(r) /\ a = N
          BY <1>0, <3>1 DEF Loading
        <4>2. Kind(r) = "all_reduce"
          BY <4>1 DEF HasBarrier, Barriers
        <4>. QED
          BY <1>0, <2>2, <4>1, <4>2, CoverageHolds DEF Coverage
      <3>4. ASSUME NEW w, NEW d, <<w, d>> \in Work(r, c, i)
            PROVE  Stored(r, c, i, w, d)' = Stored(r, c, i, w, d)
        <4>1. a # i
          BY <3>3, <3>4
        <4>2. a + 1 > i <=> a > i
          BY <2>2, <4>1
        <4>3. a + 1 = i => todo'[r][c] = Work(r, c, i)
          BY <3>2
        <4>. QED
          BY <2>1, <3>1, <3>2, <3>4, <4>2, <4>3 DEF Stored, Past, Ended
      <3>5. ASSUME NEW w, NEW d, <<w, d>> \notin Work(r, c, i)
            PROVE  Stored(r, c, i, w, d)' = Stored(r, c, i, w, d)
        BY <2>1, <3>5 DEF Stored
      <3>. QED
        BY <1>2, <1>4, <3>4, <3>5
    <2>10. CASE FinalArrival(r, c)
      <3>1. pc[r][c] = "run" /\ pc'[r][c] = "final" /\ at' = at /\ a > Len(Tasks(r))
        BY <1>0, <2>10, ArriveFacts DEF FinalArrival
      <3>2. ASSUME NEW w, NEW d, <<w, d>> \in Work(r, c, i)
            PROVE  Stored(r, c, i, w, d)' = Stored(r, c, i, w, d)
        <4>1. ~(i > Len(Tasks(r)))
          BY <1>0, <3>2, CoverageHolds DEF Coverage
        <4>2. a > i
          BY <2>2, <3>1, <4>1
        <4>. QED
          BY <2>1, <3>1, <3>2, <4>2 DEF Stored, Past, Ended
      <3>3. ASSUME NEW w, NEW d, <<w, d>> \notin Work(r, c, i)
            PROVE  Stored(r, c, i, w, d)' = Stored(r, c, i, w, d)
        BY <2>1, <3>3 DEF Stored
      <3>. QED
        BY <1>2, <1>4, <3>2, <3>3
    <2>11. CASE PassFinal(r, c) \/ Exit(r, c)
      <3>1. pc[r][c] \in Ended /\ pc'[r][c] \in Ended
        BY <1>0, <2>3, <2>11 DEF PassFinal, Exit, Ended
      <3>. QED
        BY <1>2, <1>4, <2>1, <3>1 DEF Stored, Past
    <2>. QED
      BY <2>4, <2>5, <2>6, <2>7, <2>8, <2>9, <2>10, <2>11 DEF CtaStep
  <1>. QED
    BY <1>3, <1>4

(* A store of window w to rank d, of the value that task i carries.        *)
Storing(r, c, i, w, d) ==
    /\ pc[r][c] = "run" /\ at[r][c] = i /\ i \in Nat /\ i # 0
    /\ <<w, d>> \in todo[r][c] /\ <<w, d>> \in Work(r, c, i)
    /\ w \in 0 .. Slice(r) - 1 /\ w \in 0 .. MaxWindows - 1 /\ w \in Nat /\ d \in Ranks
    /\ i \in ReduceTasks(r) \/ i \in CopyTasks(r)
    /\ i \in ReduceTasks(r) => d = r
    /\ i \in CopyTasks(r) => d \in Peers(r)
    /\ todo' = [todo EXCEPT ![r][c] = @ \ {<<w, d>>}]
    /\ buf' = [buf EXCEPT ![d][<<r, w>>] =
                   IF Tasks(r)[i].op = "copy" THEN Carried(r, i)
                   ELSE [s \in Ranks |-> @[s] + Carried(r, i)[s]]]
    /\ UNCHANGED <<program, epoch, pc, at>>

LEMMA StoreFacts ==
  ASSUME WcInv, NoEmptySlice, NEW r \in Ranks, NEW c \in Grid(r), Store(r, c)
  PROVE  \E i, w, d : Storing(r, c, i, w, d)
  <1>0. Typed /\ c \in CTAs /\ Active(r) /\ Loading(r, c)
    BY GridActive, LaunchFacts DEF WcInv, Loads
  <1>1. PICK p \in todo[r][c] :
            /\ pc[r][c] = "run" /\ held[r][c][p[1]] # NotLoaded
            /\ todo' = [todo EXCEPT ![r][c] = @ \ {p}]
            /\ buf' = [buf EXCEPT ![p[2]][<<r, p[1]>>] =
                          IF Tasks(r)[at[r][c]].op = "copy" THEN held[r][c][p[1]]
                          ELSE [s \in Ranks |-> @[s] + held[r][c][p[1]][s]]]
    BY DEF Store
  <1>a. PICK i : i = at[r][c]
    OBVIOUS
  <1>2. i \in 1 .. Len(Tasks(r)) + 1 /\ p \in Work(r, c, i)
    BY <1>0, <1>1, <1>a DEF Loading
  <1>3. i \in Nat /\ i # 0 /\ i <= Len(Tasks(r)) + 1
    BY <1>0, <1>2, TaskIndex
  <1>4. /\ i \in ReduceTasks(r) \/ i \in CopyTasks(r)
        /\ p = <<p[1], p[2]>> /\ p[1] \in 0 .. Slice(r) - 1
        /\ p[1] \in Nat /\ p[1] \in 0 .. MaxWindows - 1 /\ p[2] \in Ranks
        /\ i \in ReduceTasks(r) => p[2] = r
        /\ i \in CopyTasks(r) => p[2] \in Peers(r)
    BY <1>0, <1>2, <1>3, WorkFacts
  <1>5. PICK w, d : w = p[1] /\ d = p[2]
    OBVIOUS
  <1>6. p = <<w, d>> /\ w \in 0 .. MaxWindows - 1
    BY <1>4, <1>5
  <1>7. held[r][c][w] = Carried(r, i)
    <2>1. held[r][c][w] # NotLoaded
      BY <1>1, <1>5
    <2>. QED
      BY <1>0, <1>a, <1>6, <2>1 DEF Loading
  <1>8. todo' = [todo EXCEPT ![r][c] = @ \ {<<w, d>>}]
    BY <1>1, <1>6
  <1>9. PICK v : v = Carried(r, i)
    OBVIOUS
  <1>10. buf' = [buf EXCEPT ![d][<<r, w>>] =
                     IF Tasks(r)[i].op = "copy" THEN v ELSE [s \in Ranks |-> @[s] + v[s]]]
    <2>1. held[r][c][p[1]] = v
      BY <1>5, <1>7, <1>9
    <2>. QED
      BY <1>1, <1>a, <1>5, <2>1
  <1>11. buf' = [buf EXCEPT ![d][<<r, w>>] =
                     IF Tasks(r)[i].op = "copy" THEN Carried(r, i)
                     ELSE [s \in Ranks |-> @[s] + Carried(r, i)[s]]]
    BY <1>9, <1>10
  <1>12. /\ pc[r][c] = "run" /\ <<w, d>> \in todo[r][c] /\ <<w, d>> \in Work(r, c, i)
         /\ w \in 0 .. Slice(r) - 1 /\ d \in Ranks
         /\ w \in 0 .. MaxWindows - 1 /\ w \in Nat
         /\ i \in ReduceTasks(r) \/ i \in CopyTasks(r)
         /\ i \in ReduceTasks(r) => d = r
         /\ i \in CopyTasks(r) => d \in Peers(r)
    BY <1>1, <1>2, <1>4, <1>5, <1>6
  <1>13. UNCHANGED <<program, epoch, pc, at>>
    BY DEF Store
  <1>14. Storing(r, c, i, w, d)
    BY <1>a, <1>3, <1>8, <1>11, <1>12, <1>13 DEF Storing
  <1>. QED
    BY <1>14

(* A store adds exactly what it stores. *)
LEMMA StoredStep ==
  ASSUME Typed, NoEmptySlice, NEW r \in Ranks, NEW c \in Grid(r),
         NEW i, NEW w, NEW d, Storing(r, c, i, w, d),
         NEW s \in Ranks, NEW x \in Grid(s), NEW j \in Nat, NEW v, NEW e
  PROVE  /\ ~(s = r /\ x = c /\ j = i /\ v = w /\ e = d) =>
                Stored(s, x, j, v, e)' = Stored(s, x, j, v, e)
         /\ Stored(r, c, i, w, d)' /\ ~Stored(r, c, i, w, d)
  <1>0. c \in CTAs /\ x \in CTAs
    BY LaunchFacts
  <1>1. /\ pc' = pc /\ at' = at /\ pc[r][c] = "run" /\ program' = program /\ epoch' = epoch
        /\ at[r][c] = i /\ i \in Nat /\ <<w, d>> \in todo[r][c] /\ <<w, d>> \in Work(r, c, i)
        /\ todo' = [todo EXCEPT ![r][c] = @ \ {<<w, d>>}]
    BY DEF Storing
  <1>2. todo \in [Ranks -> [CTAs -> SUBSET ((0 .. MaxWindows - 1) \X Ranks)]]
    BY DEF Typed
  <1>3. todo'[r][c] = todo[r][c] \ {<<w, d>>}
    BY <1>0, <1>1, <1>2
  <1>4. \A q, z, k : Work(q, z, k)' = Work(q, z, k)
    BY <1>1, PlanFrame
  <1>5. Stored(r, c, i, w, d)'
    BY <1>1, <1>3, <1>4 DEF Stored
  <1>6. ~Stored(r, c, i, w, d)
    BY <1>1 DEF Stored, Past, Ended
  <1>7. ASSUME ~(s = r /\ x = c /\ j = i /\ v = w /\ e = d)
        PROVE  Stored(s, x, j, v, e)' = Stored(s, x, j, v, e)
    <2>1. CASE s # r \/ x # c
      <3>1. todo'[s][x] = todo[s][x]
        BY <1>0, <1>1, <1>2, <2>1
      <3>. QED
        BY <1>1, <3>1, StoredSame
    <2>2. CASE s = r /\ x = c /\ j # i
      BY <1>1, <1>4, <2>2 DEF Stored, Past
    <2>3. CASE s = r /\ x = c /\ j = i
      <3>1. <<v, e>> # <<w, d>>
        BY <1>7, <2>3
      <3>2. <<v, e>> \in todo'[r][c] <=> <<v, e>> \in todo[r][c]
        BY <1>3, <3>1
      <3>. QED
        BY <1>1, <1>4, <2>3, <3>2 DEF Stored, Past
    <2>. QED
      BY <2>1, <2>2, <2>3
  <1>. QED
    BY <1>5, <1>6, <1>7

LEMMA BufStep ==
  ASSUME Typed, NEW d \in Ranks, NEW x \in Cells, NEW f, buf' = [buf EXCEPT ![d][x] = f]
  PROVE  /\ buf'[d][x] = f
         /\ \A z \in Cells \ {x} : buf'[d][z] = buf[d][z]
         /\ \A q \in Ranks \ {d} : buf'[q] = buf[q]
  <1>1. buf \in [Ranks -> [Cells -> [Ranks -> Nat]]]
    BY DEF Typed
  <1>. QED
    BY <1>1

LEMMA CellOf ==
  ASSUME Typed, NEW q \in Ranks, Active(q), NEW s \in Ranks,
         NEW v \in 0 .. Windows(Count(q), s) - 1
  PROVE  <<s, v>> \in Cells /\ v \in Nat
  <1>1. Windows(Count(q), s) \in 0 .. MaxWindows /\ MaxWindows \in Nat
    BY RankFacts, SizeFacts DEF Active
  <1>2. v \in 0 .. MaxWindows - 1 /\ v \in Nat
    BY <1>1
  <1>. QED
    BY <1>2 DEF Cells

LEMMA CarriedType ==
  ASSUME Typed, NoEmptySlice, NEW r \in Ranks, Active(r),
         NEW i, i \in ReduceTasks(r) \/ i \in CopyTasks(r)
  PROVE  /\ i \in ReduceTasks(r) => /\ Tasks(r)[i].op = "reduce"
                                    /\ PeerAt(r, i - 1) \in Peers(r)
                                    /\ Carried(r, i) = Own(PeerAt(r, i - 1))
                                    /\ i \in 1 .. N - 1
         /\ i \in CopyTasks(r) => /\ Tasks(r)[i].op = "copy" /\ i \in 1 .. Len(Tasks(r))
                                  /\ Carried(r, i) =
                                        IF Kind(r) = "all_reduce" THEN Everyone ELSE Own(r)
                                  /\ Kind(r) # "reduce_scatter"
         /\ i \notin ReduceTasks(r) \/ i \notin CopyTasks(r)
         /\ Carried(r, i) \in [Ranks -> Nat]
  <1>0. Shape(r)
    BY PlanFacts
  <1>1. ASSUME i \in ReduceTasks(r)
        PROVE  /\ Tasks(r)[i].op = "reduce" /\ PeerAt(r, i - 1) \in Peers(r)
               /\ Carried(r, i) = Own(PeerAt(r, i - 1)) /\ i \in 1 .. N - 1
    <2>1. Tasks(r)[i] = [op |-> "reduce", src |-> PeerAt(r, i - 1), dsts |-> {r}]
      BY <1>0, <1>1 DEF Shape
    <2>2. i \in 1 .. N - 1
      BY <1>1, TaskIndex
    <2>3. i - 1 \in 0 .. N - 2
      BY <2>2, SizeFacts
    <2>4. Tasks(r)[i].op = "reduce" /\ Tasks(r)[i].src = PeerAt(r, i - 1)
      BY <2>1
    <2>. QED
      BY <2>2, <2>3, <2>4, PeerFacts DEF Carried
  <1>2. ASSUME i \in CopyTasks(r)
        PROVE  /\ Tasks(r)[i].op = "copy" /\ i \in 1 .. Len(Tasks(r))
               /\ Carried(r, i) = IF Kind(r) = "all_reduce" THEN Everyone ELSE Own(r)
               /\ Kind(r) # "reduce_scatter"
    <2>1. Tasks(r)[i].op = "copy"
      BY <1>0, <1>2 DEF Shape
    <2>2. i \in 1 .. Len(Tasks(r))
      BY <1>2, TaskIndex
    <2>3. Kind(r) # "reduce_scatter"
      BY <1>2, ScatterHasNoCopies
    <2>. QED
      BY <2>1, <2>2, <2>3 DEF Carried
  <1>3. i \notin ReduceTasks(r) \/ i \notin CopyTasks(r)
    BY <1>1, <1>2
  <1>4. Everyone \in [Ranks -> Nat] /\ \A s : Own(s) \in [Ranks -> Nat]
    BY DEF Everyone, Own
  <1>. QED
    BY <1>1, <1>2, <1>3, <1>4

(* A reduction adds the input of the task's peer, once, to the own slice.  *)
LEMMA ReduceStore ==
  ASSUME WcInv, NoEmptySlice, NEW r \in Ranks, NEW c \in Grid(r),
         NEW i, NEW w, Storing(r, c, i, w, r), i \in ReduceTasks(r)
  PROVE  OwnSlice(r, w)'
  <1>. DEFINE p == PeerAt(r, i - 1)
  <1>a. /\ w \in 0 .. Slice(r) - 1 /\ w \in 0 .. MaxWindows - 1 /\ i \in Nat /\ w \in Nat
        /\ <<w, r>> \in Work(r, c, i)
        /\ program' = program /\ epoch' = epoch /\ pc[r][c] = "run"
        /\ buf' = [buf EXCEPT ![r][<<r, w>>] =
                       IF Tasks(r)[i].op = "copy" THEN Carried(r, i)
                       ELSE [s \in Ranks |-> @[s] + Carried(r, i)[s]]]
    BY DEF Storing
  <1>0. Typed /\ Active(r) /\ c \in CTAs /\ Contents(r) /\ N \in Nat
    BY GridActive, LaunchFacts, SizeFacts DEF WcInv
  <1>1. /\ i \in 1 .. N - 1 /\ p \in Peers(r) /\ Kind(r) # "all_gather"
        /\ Tasks(r)[i].op = "reduce" /\ Carried(r, i) = Own(p)
    <2>1. Kind(r) # "all_gather"
      BY DEF ReduceTasks
    <2>. QED
      BY <1>0, <2>1, CarriedType
  <1>2. program' = program /\ epoch' = epoch
    BY <1>a
  <1>3. OwnSlice(r, w)
    BY <1>0, <1>a DEF Contents, Slice
  <1>4. Kind(r)' = Kind(r) /\ Grid(r)' = Grid(r)
    BY <1>2, PlanFrame
  <1>5. ASSUME NEW x \in Grid(r), NEW j \in 1 .. N - 1
        PROVE  /\ ~(x = c /\ j = i) => Stored(r, x, j, w, r)' = Stored(r, x, j, w, r)
               /\ Stored(r, c, i, w, r)' /\ ~Stored(r, c, i, w, r)
    <2>1. j \in Nat
      BY <1>0
    <2>. QED
      BY <1>0, <2>1, StoredStep
  <1>6. \A j \in 1 .. N - 1 : PeerAt(r, j - 1) = p => j = i
    <2>1. ASSUME NEW j \in 1 .. N - 1, PeerAt(r, j - 1) = p PROVE j = i
      <3>1. j - 1 \in 0 .. N - 2 /\ i - 1 \in 0 .. N - 2
        BY <1>0, <1>1
      <3>2. j - 1 = i - 1
        BY <2>1, <3>1, PeerFacts
      <3>. QED
        BY <1>0, <1>a, <3>2
    <2>. QED
      BY <2>1
  <1>7. Reduced(r, p, w)'
    BY <1>1, <1>4, <1>5 DEF Reduced
  <1>8. ~Reduced(r, p, w)
    <2>1. SUFFICES ASSUME NEW x \in Grid(r), NEW j \in 1 .. N - 1, PeerAt(r, j - 1) = p,
                          Stored(r, x, j, w, r)
                   PROVE  FALSE
      BY DEF Reduced
    <2>2. j = i
      BY <1>6, <2>1
    <2>3. <<w, r>> \in Work(r, x, i)
      BY <2>1, <2>2 DEF Stored
    <2>4. x = c
      <3>1. w \in Nat /\ <<w, r>> \in Work(r, c, i)
        BY <1>a
      <3>. QED
        BY <1>0, <2>3, <3>1, CoverageHolds DEF Coverage
    <2>. QED
      BY <1>5, <2>1, <2>2, <2>4
  <1>9. ASSUME NEW q \in Ranks, q # p PROVE Reduced(r, q, w)' = Reduced(r, q, w)
    <2>1. ASSUME NEW x \in Grid(r), NEW j \in 1 .. N - 1, PeerAt(r, j - 1) = q
          PROVE  Stored(r, x, j, w, r)' = Stored(r, x, j, w, r)
      <3>1. j # i
        BY <1>9, <2>1
      <3>. QED
        BY <1>5, <3>1
    <2>. QED
      BY <1>4, <2>1 DEF Reduced
  <1>10. <<r, w>> \in Cells
    BY <1>a DEF Cells
  <1>11. PICK f : f = buf[r][<<r, w>>]
    OBVIOUS
  <1>12. f \in [Ranks -> Nat] /\ \A q \in Ranks : f[q] = IF q = r \/ Reduced(r, q, w) THEN 1 ELSE 0
    BY <1>0, <1>1, <1>3, <1>10, <1>11, CellType DEF OwnSlice
  <1>13. buf'[r][<<r, w>>] = [s \in Ranks |-> f[s] + Own(p)[s]]
    <2>1. buf \in [Ranks -> [Cells -> [Ranks -> Nat]]]
      BY <1>0 DEF Typed
    <2>2. PICK o : o = Own(p)
      OBVIOUS
    <2>3. buf' = [buf EXCEPT ![r][<<r, w>>] = [s \in Ranks |-> @[s] + o[s]]]
      BY <1>a, <1>1, <2>2
    <2>. QED
      BY <1>10, <1>11, <2>1, <2>2, <2>3
  <1>14. ASSUME NEW q \in Ranks
         PROVE  buf'[r][<<r, w>>][q] = IF q = r \/ Reduced(r, q, w)' THEN 1 ELSE 0
    <2>1. buf'[r][<<r, w>>][q] = f[q] + (IF q = p THEN 1 ELSE 0)
      BY <1>13 DEF Own
    <2>2. p # r
      BY <1>1 DEF Peers
    <2>3. CASE q = p
      <3>1. f[q] = 0
        BY <1>8, <1>12, <2>2, <2>3
      <3>. QED
        BY <1>7, <2>1, <2>3, <3>1
    <2>4. CASE q # p
      <3>1. f[q] = (IF q = r \/ Reduced(r, q, w) THEN 1 ELSE 0) /\ f[q] \in Nat
        BY <1>12
      <3>2. buf'[r][<<r, w>>][q] = f[q]
        BY <2>1, <2>4, <3>1
      <3>. QED
        BY <1>9, <2>4, <3>1, <3>2
    <2>. QED
      BY <2>3, <2>4
  <1>. QED
    BY <1>1, <1>4, <1>14 DEF OwnSlice

(* A copy delivers the window to its destination. *)
LEMMA CopyStore ==
  ASSUME WcInv, NoEmptySlice, NEW r \in Ranks, NEW c \in Grid(r),
         NEW i, NEW w, NEW d, Storing(r, c, i, w, d), i \in CopyTasks(r)
  PROVE  PeerSlice(d, r, w)'
  <1>a. /\ w \in 0 .. MaxWindows - 1 /\ i \in Nat /\ d \in Ranks
        /\ program' = program /\ epoch' = epoch /\ pc[r][c] = "run"
        /\ buf' = [buf EXCEPT ![d][<<r, w>>] =
                       IF Tasks(r)[i].op = "copy" THEN Carried(r, i)
                       ELSE [s \in Ranks |-> @[s] + Carried(r, i)[s]]]
    BY DEF Storing
  <1>0. Typed /\ Active(r) /\ Stages(r)
    BY GridActive DEF WcInv
  <1>1. /\ Tasks(r)[i].op = "copy" /\ i \in 1 .. Len(Tasks(r))
        /\ Carried(r, i) = IF Kind(r) = "all_reduce" THEN Everyone ELSE Own(r)
        /\ Kind(r) # "reduce_scatter"
    BY <1>0, CarriedType
  <1>3. epoch[d] = epoch[r] /\ Kind(d) = Kind(r)
    <2>1. epoch[d] = epoch[r]
      BY <1>0, <1>a, Pace DEF WcInv
    <2>. QED
      BY <1>a, <2>1, SameEpoch
  <1>4. Stored(r, c, i, w, d)'
    BY <1>0, <1>a, StoredStep
  <1>5. Kind(d)' = Kind(d) /\ Grid(r)' = Grid(r) /\ Tasks(r)' = Tasks(r)
    <2>1. program' = program /\ epoch'[d] = epoch[d] /\ epoch'[r] = epoch[r]
      BY <1>a
    <2>. QED
      BY <2>1, PlanFrame
  <1>6. Copied(r, d, w)'
    BY <1>1, <1>4, <1>5 DEF Copied
  <1>7. Delivered(r, d, w)'
    BY <1>a, <1>3, <1>6 DEF Delivered
  <1>8. buf'[d][<<r, w>>] = Carried(r, i)
    <2>1. <<r, w>> \in Cells
      BY <1>a DEF Cells
    <2>2. PICK o : o = Carried(r, i)
      OBVIOUS
    <2>3. buf' = [buf EXCEPT ![d][<<r, w>>] = o]
      BY <1>a, <1>1, <2>2
    <2>4. d \in Ranks /\ buf \in [Ranks -> [Cells -> [Ranks -> Nat]]]
      BY <1>0, <1>a DEF Typed
    <2>5. buf'[d][<<r, w>>] = o
      BY <2>1, <2>3, <2>4
    <2>. QED
      BY <2>2, <2>5
  <1>. QED
    BY <1>1, <1>3, <1>5, <1>7, <1>8 DEF PeerSlice

LEMMA StoreContents ==
  ASSUME WcInv, NoEmptySlice, NEW r \in Ranks, NEW c \in Grid(r), Store(r, c), NEW q \in Ranks
  PROVE  Contents(q)'
  <1>0. Typed /\ Contents(q)
    BY DEF WcInv
  <1>1. PICK i, w, d : Storing(r, c, i, w, d)
    BY StoreFacts
  <1>2. /\ w \in 0 .. MaxWindows - 1 /\ d \in Ranks
        /\ i \in ReduceTasks(r) \/ i \in CopyTasks(r)
        /\ i \in ReduceTasks(r) => d = r
        /\ i \in CopyTasks(r) => d \in Peers(r)
        /\ program' = program /\ epoch' = epoch
        /\ \E f : buf' = [buf EXCEPT ![d][<<r, w>>] = f]
    BY <1>1 DEF Storing
  <1>3. <<r, w>> \in Cells
    BY <1>2 DEF Cells
  <1>4. ASSUME NEW s \in Ranks, NEW x \in Grid(s), NEW j \in Nat, NEW v, NEW e,
               ~(s = r /\ v = w /\ e = d)
        PROVE  Stored(s, x, j, v, e)' = Stored(s, x, j, v, e)
    BY <1>0, <1>1, <1>4, StoredStep
  <1>5. CASE q # d
    <2>1. buf'[q] = buf[q]
      <3>1. PICK f : buf' = [buf EXCEPT ![d][<<r, w>>] = f]
        BY <1>2
      <3>. QED
        BY <1>0, <1>2, <1>3, <1>5, <3>1, BufStep
    <2>2. \A s \in Ranks : \A x \in Grid(s) : \A j \in Nat \ {0} : \A v \in Nat :
              Stored(s, x, j, v, q)' = Stored(s, x, j, v, q)
      BY <1>4, <1>5
    <2>. QED
      BY <1>0, <1>2, <2>1, <2>2, ContentsFrame
  <1>6. CASE q = d
    <2>1. \A z \in Cells \ {<<r, w>>} : buf'[q][z] = buf[q][z]
      <3>1. PICK f : buf' = [buf EXCEPT ![d][<<r, w>>] = f]
        BY <1>2
      <3>. QED
        BY <1>0, <1>2, <1>3, <1>6, <3>1, BufStep
    <2>2. ASSUME Active(q), NEW s \in Ranks, NEW v \in 0 .. Windows(Count(q), s) - 1
          PROVE  IF s = q THEN OwnSlice(q, v)' ELSE PeerSlice(q, s, v)'
      <3>1. <<s, v>> \in Cells /\ v \in Nat
        BY <1>0, <2>2, CellOf
      <3>2. IF s = q THEN OwnSlice(q, v) ELSE PeerSlice(q, s, v)
        BY <1>0, <2>2 DEF Contents
      <3>3. CASE s = r /\ v = w
        <4>1. CASE i \in ReduceTasks(r)
          <5>1. d = r
            BY <1>2, <4>1
          <5>2. OwnSlice(r, w)'
            BY <1>1, <4>1, <5>1, ReduceStore
          <5>. QED
            BY <1>6, <3>3, <5>1, <5>2
        <4>2. CASE i \in CopyTasks(r)
          <5>1. PeerSlice(d, r, w)'
            BY <1>1, <4>2, CopyStore
          <5>. QED
            BY <1>2, <1>6, <3>3, <4>2, <5>1 DEF Peers
        <4>. QED
          BY <1>2, <4>1, <4>2
      <3>4. CASE ~(s = r /\ v = w)
        <4>1. buf'[q][<<s, v>>] = buf[q][<<s, v>>]
          <5>1. <<s, v>> # <<r, w>>
            BY <3>4
          <5>. QED
            BY <2>1, <3>1, <5>1
        <4>2. ASSUME NEW x \in Grid(s), NEW j \in Nat
              PROVE  Stored(s, x, j, v, q)' = Stored(s, x, j, v, q)
          BY <1>4, <3>4
        <4>3. CASE s = q
          <5>1. \A x \in Grid(q) : \A j \in 1 .. N - 1 :
                    Stored(q, x, j, v, q)' = Stored(q, x, j, v, q)
            <6>1. \A j \in 1 .. N - 1 : j \in Nat
              BY SizeFacts
            <6>. QED
              BY <4>2, <4>3, <6>1
          <5>2. OwnSlice(q, v)'
            BY <1>2, <3>2, <4>1, <4>3, <5>1, OwnFrame
          <5>. QED
            BY <4>3, <5>2
        <4>4. CASE s # q
          <5>1. \A x \in Grid(s) : \A j \in 1 .. Len(Tasks(s)) :
                    Stored(s, x, j, v, q)' = Stored(s, x, j, v, q)
            <6>1. \A j \in 1 .. Len(Tasks(s)) : j \in Nat
              OBVIOUS
            <6>. QED
              BY <4>2, <6>1
          <5>2. PeerSlice(q, s, v)'
            BY <1>2, <3>2, <4>1, <4>4, <5>1, PeerFrame
          <5>. QED
            BY <4>4, <5>2
        <4>. QED
          BY <4>3, <4>4
      <3>. QED
        BY <3>3, <3>4
    <2>. QED
      BY <1>2, <2>2, CellsToContents
  <1>. QED
    BY <1>5, <1>6

LEMMA CtaContents ==
  ASSUME WcInv, NoEmptySlice, NEW r \in Ranks, NEW c \in Grid(r), CtaStep(r, c), NEW q \in Ranks
  PROVE  Contents(q)'
  <1>1. CASE Store(r, c)
    BY <1>1, StoreContents
  <1>2. CASE ~Store(r, c)
    <2>1. program' = program /\ epoch' = epoch
      BY CtaFrame
    <2>2. Typed /\ Contents(q)
      BY DEF WcInv
    <2>3. buf' = buf
      BY <1>2 DEF CtaStep, Publish, EntryArrival, Arrive, Enter, Turn, Load, NextTask,
                  BarrierArrival, PassBarrier, FinalArrival, PassFinal, Exit
    <2>4. \A s \in Ranks : \A x \in Grid(s) : \A j \in Nat \ {0} : \A v \in Nat :
              Stored(s, x, j, v, q)' = Stored(s, x, j, v, q)
      BY <1>2, NoStore
    <2>. QED
      BY <2>1, <2>2, <2>3, <2>4, ContentsFrame
  <1>. QED
    BY <1>1, <1>2

LEMMA SetOne ==
  ASSUME NEW S, NEW f \in [Ranks -> [CTAs -> S]], NEW r \in Ranks, NEW c \in CTAs, NEW y \in S
  PROVE  [f EXCEPT ![r][c] = y] \in [Ranks -> [CTAs -> S]]
  OBVIOUS

LEMMA TurnTypes ==
  ASSUME WcInv, NoEmptySlice, NEW r \in Ranks, NEW c \in Grid(r),
         NEW i \in 1 .. Len(Tasks(r)) + 1
  PROVE  /\ i \in 0 .. 2 * N
         /\ Work(r, c, i) \subseteq (0 .. MaxWindows - 1) \X Ranks
  <1>0. Typed /\ Active(r) /\ Shape(r) /\ N \in Nat
    BY GridActive, PlanFacts, SizeFacts DEF WcInv
  <1>1. Len(Tasks(r)) \in 1 .. 2 * N - 1
    BY <1>0 DEF Shape
  <1>2. i \in Nat /\ i # 0 /\ i <= Len(Tasks(r)) + 1
    BY <1>1
  <1>3. ASSUME NEW p \in Work(r, c, i) PROVE p \in (0 .. MaxWindows - 1) \X Ranks
    <2>1. p = <<p[1], p[2]>> /\ p[1] \in 0 .. MaxWindows - 1 /\ p[2] \in Ranks
      BY <1>0, <1>2, WorkFacts
    <2>. QED
      BY <2>1
  <1>. QED
    BY <1>0, <1>1, <1>3

LEMMA TypedTurn ==
  ASSUME WcInv, NoEmptySlice, NEW r \in Ranks, NEW c \in Grid(r),
         Enter(r, c) \/ NextTask(r, c) \/ PassBarrier(r, c)
  PROVE  Typed'
  <1>0. Typed /\ c \in CTAs
    BY LaunchFacts DEF WcInv
  <1>1. PICK i \in 1 .. Len(Tasks(r)) + 1 : Turn(r, c, i)
    BY TurnsTo
  <1>2. PICK W : W = Work(r, c, i)
    OBVIOUS
  <1>3. i \in 0 .. 2 * N /\ W \in SUBSET ((0 .. MaxWindows - 1) \X Ranks)
    BY <1>2, TurnTypes
  <1>4. /\ pc' = [pc EXCEPT ![r][c] = "run"] /\ at' = [at EXCEPT ![r][c] = i]
        /\ todo' = [todo EXCEPT ![r][c] = W]
        /\ held' = [held EXCEPT ![r][c] = [w \in 0 .. MaxWindows - 1 |-> NotLoaded]]
        /\ UNCHANGED <<program, epoch, last_value, entry, counter, inbox, left, buf>>
    BY <1>1, <1>2 DEF Turn
  <1>5. "run" \in PCs
    BY DEF PCs
  <1>6. [w \in 0 .. MaxWindows - 1 |-> NotLoaded] \in [0 .. MaxWindows - 1 -> [Ranks -> Int]]
    BY DEF NotLoaded
  <1>7. pc' \in [Ranks -> [CTAs -> PCs]]
    BY <1>0, <1>4, <1>5, SetOne DEF Typed
  <1>8. at' \in [Ranks -> [CTAs -> 0 .. 2 * N]]
    BY <1>0, <1>3, <1>4, SetOne DEF Typed
  <1>9. todo' \in [Ranks -> [CTAs -> SUBSET ((0 .. MaxWindows - 1) \X Ranks)]]
    BY <1>0, <1>3, <1>4, SetOne DEF Typed
  <1>10. held' \in [Ranks -> [CTAs -> [0 .. MaxWindows - 1 -> [Ranks -> Int]]]]
    BY <1>0, <1>4, <1>6, SetOne DEF Typed
  <1>. QED
    BY <1>0, <1>4, <1>7, <1>8, <1>9, <1>10 DEF Typed

LEMMA TypedArrive ==
  ASSUME Typed, NEW r \in Ranks, NEW c \in CTAs, NEW from, NEW to \in PCs, Arrive(r, c, from, to)
  PROVE  Typed'
  <1>1. /\ pc' = [pc EXCEPT ![r][c] = to] /\ counter' = [counter EXCEPT ![r] = @ + 1]
        /\ UNCHANGED <<program, epoch, last_value, entry, inbox, at, left, todo, held, buf>>
    BY DEF Arrive
  <1>2. pc' \in [Ranks -> [CTAs -> PCs]]
    BY <1>1, SetOne DEF Typed
  <1>3. counter' \in [Ranks -> Nat]
    BY <1>1 DEF Typed
  <1>. QED
    BY <1>1, <1>2, <1>3 DEF Typed

LEMMA TypedPublish ==
  ASSUME Typed, NEW r \in Ranks, NEW c \in CTAs, NEW where, NEW value \in Nat,
         Publish(r, c, where, value)
  PROVE  Typed'
  <1>1. PICK s : s = Min(left[r][c])
    OBVIOUS
  <1>2. /\ inbox' = [inbox EXCEPT ![s][r] = IF BatchPublish THEN value ELSE Max({@, value})]
        /\ left' = [left EXCEPT ![r][c] = @ \ {s}]
        /\ UNCHANGED <<program, epoch, last_value, entry, counter, pc, at, todo, held, buf>>
    BY <1>1 DEF Publish
  <1>3. left' \in [Ranks -> [CTAs -> SUBSET Ranks]]
    <2>1. left[r][c] \ {s} \in SUBSET Ranks
      BY DEF Typed
    <2>2. left' = [left EXCEPT ![r][c] = left[r][c] \ {s}]
      BY <1>2 DEF Typed
    <2>. QED
      BY <2>1, <2>2, SetOne DEF Typed
  <1>4. inbox' \in [Ranks -> [Ranks -> Nat]]
    <2>1. CASE s \in Ranks
      <3>1. PICK o : o = inbox[s][r]
        OBVIOUS
      <3>2. o \in Nat
        BY <2>1, <3>1 DEF Typed
      <3>3. PICK v : v = IF BatchPublish THEN value ELSE Max({o, value})
        OBVIOUS
      <3>4. v \in Nat
        <4>1. o \in Int /\ value \in Int
          BY <3>2
        <4>2. Max({o, value}) = IF o <= value THEN value ELSE o
          BY <4>1, MaxOfTwo
        <4>. QED
          BY <3>2, <3>3, <4>2
      <3>5. inbox' = [inbox EXCEPT ![s][r] = v]
        BY <1>2, <2>1, <3>1, <3>3 DEF Typed
      <3>. QED
        BY <2>1, <3>4, <3>5 DEF Typed
    <2>2. CASE s \notin Ranks
      <3>1. inbox' = inbox
        BY <1>2, <2>2 DEF Typed
      <3>. QED
        BY <3>1 DEF Typed
    <2>. QED
      BY <2>1, <2>2
  <1>. QED
    BY <1>2, <1>3, <1>4 DEF Typed

LEMMA StripeType ==
  ASSUME NEW r \in Ranks, NEW c, NEW n
  PROVE  Stripe(r, c, n) \in SUBSET Ranks /\ Publishes(r, c, n) \in SUBSET Ranks
  <1>1. \A i \in 0 .. N - 2 : PeerAt(r, i) \in Ranks
    BY PeerFacts DEF Peers
  <1>. QED
    BY <1>1 DEF Stripe, Publishes, Peers

LEMMA TypedStore ==
  ASSUME WcInv, NoEmptySlice, NEW r \in Ranks, NEW c \in Grid(r), Store(r, c)
  PROVE  Typed'
  <1>0. Typed /\ c \in CTAs /\ Active(r)
    BY LaunchFacts, GridActive DEF WcInv
  <1>1. PICK i, w, d : Storing(r, c, i, w, d)
    BY StoreFacts
  <1>2. PICK o : o = Carried(r, i)
    OBVIOUS
  <1>3. o \in [Ranks -> Nat]
    BY <1>0, <1>1, <1>2, CarriedType DEF Storing
  <1>4. PICK y : y = IF Tasks(r)[i].op = "copy" THEN o
                     ELSE [s \in Ranks |-> buf[d][<<r, w>>][s] + o[s]]
    OBVIOUS
  <1>5. d \in Ranks /\ <<r, w>> \in Cells
    BY <1>1 DEF Storing, Cells
  <1>6. y \in [Ranks -> Nat]
    BY <1>0, <1>3, <1>4, <1>5, CellType
  <1>7. buf' = [buf EXCEPT ![d][<<r, w>>] = y]
    <2>1. buf' = [buf EXCEPT ![d][<<r, w>>] =
                     IF Tasks(r)[i].op = "copy" THEN o ELSE [s \in Ranks |-> @[s] + o[s]]]
      BY <1>1, <1>2 DEF Storing
    <2>. QED
      BY <1>0, <1>4, <1>5, <2>1 DEF Typed
  <1>8. buf' \in [Ranks -> [Cells -> [Ranks -> Nat]]]
    BY <1>0, <1>5, <1>6, <1>7 DEF Typed
  <1>9. todo' \in [Ranks -> [CTAs -> SUBSET ((0 .. MaxWindows - 1) \X Ranks)]]
    <2>1. PICK T : T = todo[r][c] \ {<<w, d>>}
      OBVIOUS
    <2>2. T \in SUBSET ((0 .. MaxWindows - 1) \X Ranks)
      BY <1>0, <2>1 DEF Typed
    <2>3. todo' = [todo EXCEPT ![r][c] = T]
      BY <1>0, <1>1, <2>1 DEF Storing, Typed
    <2>. QED
      BY <1>0, <2>2, <2>3, SetOne DEF Typed
  <1>10. UNCHANGED <<program, epoch, last_value, entry, counter, inbox, pc, at, left, held>>
    BY DEF Store
  <1>. QED
    BY <1>0, <1>8, <1>9, <1>10 DEF Typed

LEMMA TypedLoad ==
  ASSUME WcInv, NoEmptySlice, NEW r \in Ranks, NEW c \in Grid(r), Load(r, c)
  PROVE  Typed'
  <1>0. Typed /\ c \in CTAs /\ Active(r) /\ Loading(r, c)
    BY LaunchFacts, GridActive DEF WcInv, Loads
  <1>1. PICK p \in todo[r][c] :
            held' = [held EXCEPT ![r][c][p[1]] = buf[Tasks(r)[at[r][c]].src][<<r, p[1]>>]]
    BY DEF Load
  <1>2. PICK v : v = buf[Tasks(r)[at[r][c]].src][<<r, p[1]>>]
    OBVIOUS
  <1>3. v \in [Ranks -> Int]
    <2>0. pc[r][c] = "run"
      BY DEF Load
    <2>1. v = Carried(r, at[r][c])
      BY <1>1, <1>2, <2>0, LoadedValue
    <2>2. at[r][c] \in Nat /\ at[r][c] # 0 /\ at[r][c] <= Len(Tasks(r)) + 1 /\ p \in Work(r, c, at[r][c])
      BY <1>0, <1>1, <2>0, PlaceType DEF Loading
    <2>3. at[r][c] \in ReduceTasks(r) \/ at[r][c] \in CopyTasks(r)
      BY <1>0, <2>2, WorkFacts
    <2>4. PICK i : i = at[r][c]
      OBVIOUS
    <2>5. Carried(r, i) \in [Ranks -> Nat]
      BY <1>0, <2>3, <2>4, CarriedType
    <2>. QED
      BY <2>1, <2>4, <2>5
  <1>4. held' = [held EXCEPT ![r][c][p[1]] = v]
    BY <1>1, <1>2
  <1>5. held' \in [Ranks -> [CTAs -> [0 .. MaxWindows - 1 -> [Ranks -> Int]]]]
    BY <1>0, <1>3, <1>4 DEF Typed
  <1>6. UNCHANGED <<program, epoch, last_value, entry, counter, inbox, pc, at, left, todo, buf>>
    BY DEF Load
  <1>. QED
    BY <1>0, <1>5, <1>6 DEF Typed

LEMMA CtaTyped ==
  ASSUME WcInv, NoEmptySlice, NEW r \in Ranks, NEW c \in Grid(r), CtaStep(r, c)
  PROVE  Typed'
  <1>0. Typed /\ c \in CTAs
    BY LaunchFacts DEF WcInv
  <1>1. EntryValue(r) \in Nat /\ FinalValue(r) \in Nat
    BY <1>0, RankFacts DEF EntryValue, FinalValue, Stride
  <1>2. CASE Enter(r, c) \/ NextTask(r, c) \/ PassBarrier(r, c)
    BY <1>2, TypedTurn
  <1>3. CASE EntryArrival(r, c) \/ BarrierArrival(r, c) \/ FinalArrival(r, c)
    <2>1. \E from : \E to \in PCs : Arrive(r, c, from, to)
      BY <1>3 DEF EntryArrival, BarrierArrival, FinalArrival, PCs
    <2>. QED
      BY <1>0, <2>1, TypedArrive
  <1>4. CASE Publish(r, c, "entry", EntryValue(r)) \/ Publish(r, c, "exit", FinalValue(r))
    <2>1. PICK where : \E v \in Nat : Publish(r, c, where, v)
      BY <1>1, <1>4
    <2>. QED
      BY <1>0, <2>1, TypedPublish
  <1>5. CASE Load(r, c)
    BY <1>5, TypedLoad
  <1>6. CASE Store(r, c)
    BY <1>6, TypedStore
  <1>7. CASE PassFinal(r, c)
    <2>1. PICK S : S = Publishes(r, c, Launched(r))
      OBVIOUS
    <2>2. /\ pc' = [pc EXCEPT ![r][c] = "exit"] /\ left' = [left EXCEPT ![r][c] = S]
          /\ UNCHANGED <<program, epoch, last_value, entry, counter, inbox, at, todo, held, buf>>
      BY <1>7, <2>1 DEF PassFinal
    <2>3. "exit" \in PCs /\ S \in SUBSET Ranks
      BY <2>1, StripeType DEF PCs
    <2>4. pc' \in [Ranks -> [CTAs -> PCs]] /\ left' \in [Ranks -> [CTAs -> SUBSET Ranks]]
      BY <1>0, <2>2, <2>3, SetOne DEF Typed
    <2>. QED
      BY <1>0, <2>2, <2>4 DEF Typed
  <1>8. CASE Exit(r, c)
    <2>1. /\ pc' = [pc EXCEPT ![r][c] = "done"] /\ at' = [at EXCEPT ![r][c] = 0]
          /\ held' = [held EXCEPT ![r][c] = [w \in 0 .. MaxWindows - 1 |-> NotLoaded]]
          /\ UNCHANGED <<program, epoch, last_value, entry, counter, inbox, left, todo, buf>>
      BY <1>8 DEF Exit
    <2>2. "done" \in PCs /\ 0 \in 0 .. 2 * N
          /\ [w \in 0 .. MaxWindows - 1 |-> NotLoaded] \in [0 .. MaxWindows - 1 -> [Ranks -> Int]]
      BY SizeFacts DEF PCs, NotLoaded
    <2>3. pc' \in [Ranks -> [CTAs -> PCs]] /\ at' \in [Ranks -> [CTAs -> 0 .. 2 * N]]
      BY <1>0, <2>1, <2>2, SetOne DEF Typed
    <2>4. held' \in [Ranks -> [CTAs -> [0 .. MaxWindows - 1 -> [Ranks -> Int]]]]
      BY <1>0, <2>1, <2>2, SetOne DEF Typed
    <2>. QED
      BY <1>0, <2>1, <2>3, <2>4 DEF Typed
  <1>. QED
    BY <1>2, <1>3, <1>4, <1>5, <1>6, <1>7, <1>8 DEF CtaStep

-------------------------------------------------------------------------------
(* The host launches the next collective.                                  *)

PlansInRange == \A r \in Ranks : RankInRange(r) /\ GridInRange(r)

LEMMA PlansHold == ASSUME NoEmptySlice PROVE InPlan => PlansInRange
  BY RankPlan, LaunchPlan DEF PlansInRange

LEMMA PlansNext == ASSUME NoEmptySlice PROVE InPlan' => PlansInRange'
  BY PlansHold, PTL

(* A launch of n CTAs, with b barriers inside the plan.                    *)
Launching(r, n, b) ==
    /\ n \in Nat /\ n <= MaxCtas /\ b \in {0, 1}
    /\ Launched(r)' = n /\ Grid(r)' = 0 .. n - 1 /\ (HasBarrier(r)' <=> b = 1)
    /\ n # 0 => Active(r)'
    /\ epoch[r] + 1 <= Len(program)
    /\ epoch' = [epoch EXCEPT ![r] = @ + 1]
    /\ UNCHANGED <<program, counter, inbox, at, todo, held>>
    /\ entry' = [entry EXCEPT ![r] = last_value[r] + n]
    /\ last_value' = [last_value EXCEPT ![r] = @ + (IF b = 1 THEN n + n + n ELSE n + n)]
    /\ pc' = [pc EXCEPT ![r] = [c \in CTAs |-> IF c < n THEN "entry" ELSE "done"]]
    /\ left' = [left EXCEPT ![r] = [c \in CTAs |-> IF c < n THEN Publishes(r, c, n) ELSE {}]]
    /\ buf' = [buf EXCEPT ![r] = [x \in Cells |-> Own(r)]]

LEMMA LaunchInPlan ==
  ASSUME Typed, NoEmptySlice, NEW r \in Ranks, Launch(r)
  PROVE  PlansInRange' /\ epoch[r] + 1 <= Len(program) /\ epoch'[r] = epoch[r] + 1
  <1>1. epoch' = [epoch EXCEPT ![r] = @ + 1] /\ program' = program /\ epoch[r] < Len(program)
    BY DEF Launch
  <1>2. epoch[r] \in Nat /\ Len(program) \in Nat
    BY RankFacts
  <1>3. epoch'[r] = epoch[r] + 1 /\ epoch[r] + 1 <= Len(program)
    BY <1>1, <1>2 DEF Typed
  <1>4. InPlan'
    BY <1>1, <1>2, <1>3 DEF InPlan, Typed
  <1>. QED
    BY <1>3, <1>4, PlansNext

LEMMA LaunchStep ==
  ASSUME Typed, NoEmptySlice, NEW r \in Ranks, Launch(r)
  PROVE  \E n, b : Launching(r, n, b)
  <1>1. PlansInRange' /\ epoch[r] + 1 <= Len(program) /\ epoch'[r] = epoch[r] + 1
    BY LaunchInPlan
  <1>2. epoch[r] \in Nat /\ last_value[r] \in Nat
    BY RankFacts DEF Typed
  <1>3. PICK n : n = Launched(r)'
    OBVIOUS
  <1>4. PICK b : b = Barriers(r)'
    OBVIOUS
  <1>5. GridInRange(r)'
    BY <1>1 DEF PlansInRange
  <1>6. n \in Nat /\ n <= MaxCtas /\ Grid(r)' = 0 .. n - 1 /\ (n # 0 => Active(r)')
    <2>1. n \in Nat /\ n <= MaxCtas /\ Grid(r)' = 0 .. n - 1
      BY <1>3, <1>5 DEF GridInRange
    <2>2. n # 0 => epoch'[r] # 0 /\ Planned(epoch[r])'
      BY <1>3, <1>5 DEF GridInRange
    <2>. QED
      BY <1>1, <1>2, <2>1, <2>2 DEF Active
  <1>7. b \in {0, 1} /\ (HasBarrier(r)' <=> b = 1)
    BY <1>4 DEF Barriers, HasBarrier
  <1>8. last_value' = IF n = 0 THEN last_value ELSE [last_value EXCEPT ![r] = @ + (2 + b) * n]
    BY <1>3, <1>4 DEF Launch
  <1>9. (2 + b) * n = IF b = 1 THEN n + n + n ELSE n + n
    BY <1>6, <1>7
  <1>10. last_value' = [last_value EXCEPT ![r] = @ + (IF b = 1 THEN n + n + n ELSE n + n)]
    <2>1. CASE n = 0
      <3>1. last_value[r] + (IF b = 1 THEN n + n + n ELSE n + n) = last_value[r]
        BY <1>2, <2>1
      <3>. QED
        BY <1>8, <2>1, <3>1 DEF Typed
    <2>2. CASE n # 0
      BY <1>8, <1>9, <2>2
    <2>. QED
      BY <2>1, <2>2
  <1>11. /\ entry' = [entry EXCEPT ![r] = last_value[r] + n]
         /\ pc' = [pc EXCEPT ![r] = [c \in CTAs |-> IF c < n THEN "entry" ELSE "done"]]
         /\ left' = [left EXCEPT ![r] =
                         [c \in CTAs |-> IF c < n THEN Publishes(r, c, n) ELSE {}]]
    BY <1>3 DEF Launch
  <1>12. /\ epoch' = [epoch EXCEPT ![r] = @ + 1]
         /\ UNCHANGED <<program, counter, inbox, at, todo, held>>
         /\ buf' = [buf EXCEPT ![r] = [x \in Cells |-> Own(r)]]
    BY DEF Launch
  <1>. QED
    BY <1>1, <1>3, <1>6, <1>7, <1>10, <1>11, <1>12 DEF Launching

(* The rank's CTAs are at their start, all else is as it was.              *)
LEMMA LaunchFrame ==
  ASSUME Typed, NoEmptySlice, NEW r \in Ranks, NEW n, NEW b, Launching(r, n, b)
  PROVE  /\ epoch'[r] = epoch[r] + 1 /\ entry'[r] = last_value[r] + n
         /\ last_value'[r] = last_value[r] + (IF b = 1 THEN n + n + n ELSE n + n)
         /\ \A c \in CTAs : pc'[r][c] = IF c < n THEN "entry" ELSE "done"
         /\ \A x \in Cells : buf'[r][x] = Own(r)
         /\ \A q \in Ranks \ {r} :
                /\ epoch'[q] = epoch[q] /\ entry'[q] = entry[q]
                /\ last_value'[q] = last_value[q] /\ pc'[q] = pc[q] /\ buf'[q] = buf[q]
  BY DEF Launching, Typed

LEMMA LaunchTyped ==
  ASSUME Typed, NoEmptySlice, NEW r \in Ranks, NEW n, NEW b, Launching(r, n, b)
  PROVE  Typed'
  <1>1. /\ n \in Nat /\ b \in {0, 1} /\ epoch[r] + 1 <= Len(program)
        /\ epoch' = [epoch EXCEPT ![r] = @ + 1]
        /\ UNCHANGED <<program, counter, inbox, at, todo, held>>
    BY DEF Launching
  <1>2. epoch' \in [Ranks -> 0 .. Len(program)]
    BY <1>1, RankFacts DEF Typed
  <1>3. entry' \in [Ranks -> Nat]
    BY <1>1 DEF Launching, Typed
  <1>4. last_value' \in [Ranks -> Nat]
    <2>1. PICK k : k = IF b = 1 THEN n + n + n ELSE n + n
      OBVIOUS
    <2>2. k \in Nat
      BY <1>1, <2>1
    <2>3. last_value' = [last_value EXCEPT ![r] = @ + k]
      BY <2>1 DEF Launching
    <2>. QED
      BY <2>2, <2>3 DEF Typed
  <1>5. pc' \in [Ranks -> [CTAs -> PCs]]
    <2>1. PICK f : f = [c \in CTAs |-> IF c < n THEN "entry" ELSE "done"]
      OBVIOUS
    <2>2. f \in [CTAs -> PCs]
      BY <2>1 DEF PCs
    <2>3. pc' = [pc EXCEPT ![r] = f]
      BY <2>1 DEF Launching
    <2>. QED
      BY <2>2, <2>3 DEF Typed
  <1>6. left' \in [Ranks -> [CTAs -> SUBSET Ranks]]
    <2>1. PICK f : f = [c \in CTAs |-> IF c < n THEN Publishes(r, c, n) ELSE {}]
      OBVIOUS
    <2>2. f \in [CTAs -> SUBSET Ranks]
      <3>1. \A c \in CTAs : Publishes(r, c, n) \in SUBSET Ranks
        BY StripeType
      <3>. QED
        BY <2>1, <3>1
    <2>3. left' = [left EXCEPT ![r] = f]
      BY <2>1 DEF Launching
    <2>. QED
      BY <2>2, <2>3 DEF Typed
  <1>7. buf' \in [Ranks -> [Cells -> [Ranks -> Nat]]]
    <2>1. Own(r) \in [Ranks -> Nat]
      BY DEF Own
    <2>2. buf' = [buf EXCEPT ![r] = [x \in Cells |-> Own(r)]]
      BY DEF Launching
    <2>. QED
      BY <2>1, <2>2 DEF Typed
  <1>. QED
    BY <1>1, <1>2, <1>3, <1>4, <1>5, <1>6, <1>7 DEF Typed

(* Nobody has arrived at the counter in the new grid. *)
LEMMA LaunchCounting ==
  ASSUME WcInv, NoEmptySlice, NEW r \in Ranks, KernelDone(r),
         NEW n, NEW b, Launching(r, n, b), NEW q \in Ranks
  PROVE  Counting(q)' /\ Stages(q)' /\ Loads(q)'
  <1>0. Typed /\ Counting(q) /\ Stages(q) /\ Loads(q) /\ Counting(r) /\ Loads(r)
    BY DEF WcInv
  <1>1. /\ n \in Nat /\ n <= MaxCtas /\ b \in {0, 1} /\ Launched(r)' = n /\ Grid(r)' = 0 .. n - 1
        /\ HasBarrier(r)' <=> b = 1
        /\ UNCHANGED <<program, counter, inbox, at, todo, held>>
    BY DEF Launching
  <1>2. CASE q # r
    <2>1. /\ program' = program /\ counter' = counter /\ epoch'[q] = epoch[q]
          /\ entry'[q] = entry[q] /\ last_value'[q] = last_value[q] /\ pc'[q] = pc[q]
          /\ at'[q] = at[q] /\ todo' = todo /\ held' = held
      BY <1>0, <1>1, <1>2, LaunchFrame
    <2>2. Counting(q)' /\ Stages(q)'
      BY <1>0, <2>1, CountFrame, SetFrame
    <2>3. Loads(q)'
      <3>1. /\ Tasks(q)' = Tasks(q) /\ HasBarrier(q)' = HasBarrier(q)
            /\ \A d, i : Work(q, d, i)' = Work(q, d, i)
            /\ \A i : Carried(q, i)' = Carried(q, i)
        BY <2>1, PlanFrame
      <3>2. ASSUME NEW x \in CTAs PROVE Loading(q, x)'
        <4>1. Loading(q, x)
          BY <1>0 DEF Loads
        <4>2. /\ pc'[q][x] = pc[q][x] /\ at'[q][x] = at[q][x]
              /\ todo'[q][x] = todo[q][x] /\ held'[q][x] = held[q][x]
          BY <2>1
        <4>. QED
          BY <3>1, <4>1, <4>2 DEF Loading, Working
      <3>. QED
        BY <3>2 DEF Loads
    <2>. QED
      BY <2>2, <2>3
  <1>3. CASE q = r
    <2>0. /\ epoch'[r] = epoch[r] + 1 /\ entry'[r] = last_value[r] + n
          /\ last_value'[r] = last_value[r] + (IF b = 1 THEN n + n + n ELSE n + n)
          /\ \A c \in CTAs : pc'[r][c] = IF c < n THEN "entry" ELSE "done"
      BY <1>0, LaunchFrame
    <2>1. \A c \in 0 .. n - 1 : c \in CTAs /\ c < n
      BY <1>1, SizeFacts
    <2>2. Entered(r)' = {} /\ Halfway(r)' = {} /\ Finished(r)' = {}
      <3>1. \A c \in Grid(r)' : pc'[r][c] = "entry"
        BY <1>1, <2>0, <2>1
      <3>. QED
        BY <3>1 DEF Entered, Halfway, Finished, Ended
    <2>3. Cardinality({}) = 0
      BY FS_EmptySet
    <2>4. counter[r] = last_value[r] /\ counter[r] \in Nat /\ epoch[r] \in Nat
      BY <1>0, DoneCount, RankFacts DEF Typed
    <2>5. Counting(r)'
      <3>1. epoch'[r] # 0
        BY <2>0, <2>4
      <3>2. last_value'[r] = entry'[r] + n + (IF b = 1 THEN n ELSE 0)
        BY <1>1, <2>0, <2>4
      <3>3. counter'[r] + n = entry'[r] + 0 + 0 + (IF b = 1 THEN 0 ELSE 0)
        BY <1>1, <2>0, <2>4
      <3>. QED
        BY <1>1, <2>2, <2>3, <3>1, <3>2, <3>3 DEF Counting
    <2>6. Stages(r)'
      <3>1. \A c \in CTAs \ Grid(r)' : pc'[r][c] = "done"
        BY <1>1, <2>0, SizeFacts
      <3>2. \A c \in Grid(r)' : pc'[r][c] = "entry"
        BY <1>1, <2>0, <2>1
      <3>. QED
        BY <3>1, <3>2 DEF Stages, Ended
    <2>7. Loads(r)'
      <3>1. ASSUME NEW c \in CTAs PROVE Loading(r, c)'
        <4>1. Loading(r, c) /\ pc[r][c] = "done"
          BY <1>0 DEF Loads, KernelDone
        <4>2. \A w \in 0 .. MaxWindows - 1 : held[r][c][w] = NotLoaded
          BY <4>1 DEF Loading, Working
        <4>3. held' = held
          BY <1>1
        <4>4. \A w \in 0 .. MaxWindows - 1 : held'[r][c][w] = NotLoaded
          BY <4>2, <4>3
        <4>5. pc'[r][c] # "run" /\ pc'[r][c] # "barrier"
          BY <2>0
        <4>. QED
          BY <4>4, <4>5 DEF Loading
      <3>. QED
        BY <3>1 DEF Loads
    <2>. QED
      BY <1>3, <2>5, <2>6, <2>7
  <1>. QED
    BY <1>2, <1>3

(* What has been sent is not taken back by a launch. *)
LEMMA LaunchSent ==
  ASSUME Typed, NoEmptySlice, NEW r \in Ranks, NEW n, NEW b, Launching(r, n, b),
         NEW s \in Ranks, NEW e \in Nat, SentBy(s, e)
  PROVE  SentBy(s, e)'
  <1>1. program' = program /\ at' = at /\ epoch[s] \in Nat /\ epoch[r] \in Nat
    BY RankFacts DEF Launching
  <1>2. CASE s # r
    <2>1. epoch'[s] = epoch[s] /\ pc'[s] = pc[s]
      BY <1>2, LaunchFrame
    <2>2. Finished(s)' = Finished(s) /\ Grid(s)' = Grid(s)
      BY <1>1, <2>1, SetFrame, PlanFrame
    <2>. QED
      BY <2>1, <2>2 DEF SentBy
  <1>3. CASE s = r
    <2>1. epoch'[r] = epoch[r] + 1 /\ epoch[r] >= e
      BY <1>1, <1>3, LaunchFrame DEF SentBy
    <2>2. epoch'[s] > e
      BY <1>1, <1>3, <2>1
    <2>. QED
      BY <2>2 DEF SentBy
  <1>. QED
    BY <1>2, <1>3

LEMMA LaunchRendezvous ==
  ASSUME WcInv, NoEmptySlice, NEW r \in Ranks, KernelDone(r),
         NEW n, NEW b, Launching(r, n, b), NEW q \in Ranks
  PROVE  Rendezvous(q)'
  <1>0. Typed /\ Rendezvous(q)
    BY DEF WcInv
  <1>1. /\ program' = program /\ inbox' = inbox /\ n \in Nat /\ n <= MaxCtas
        /\ Launched(r)' = n /\ Grid(r)' = 0 .. n - 1
    BY DEF Launching
  <1>2. ASSUME NEW s \in Ranks PROVE epoch'[s] >= epoch[s] /\ epoch[s] \in Nat /\ epoch'[s] \in Nat
    <2>1. epoch[s] \in Nat /\ epoch[r] \in Nat
      BY <1>0, RankFacts
    <2>. QED
      BY <1>0, <2>1, LaunchFrame
  <1>3. ASSUME NEW s \in Ranks, NEW e \in Nat, SentBy(s, e) PROVE SentBy(s, e)'
    BY <1>0, <1>3, LaunchSent
  <1>4. ASSUME NEW s \in Peers(q), NEW e \in Nat
        PROVE  /\ inbox'[q][s] >= e * Stride => epoch'[s] >= e
               /\ inbox'[q][s] >= e * Stride + Stride - 1 => SentBy(s, e)'
    <2>1. /\ inbox[q][s] >= e * Stride => epoch[s] >= e
          /\ inbox[q][s] >= e * Stride + Stride - 1 => SentBy(s, e)
      BY <1>0 DEF Rendezvous
    <2>2. s \in Ranks
      BY DEF Peers
    <2>3. inbox'[q][s] = inbox[q][s]
      BY <1>1
    <2>4. epoch[s] >= e => epoch'[s] >= e
      BY <1>2, <2>2
    <2>5. SentBy(s, e) => SentBy(s, e)'
      BY <1>3, <2>2
    <2>. QED
      BY <2>1, <2>3, <2>4, <2>5
  <1>5. CASE q # r
    <2>1. epoch'[q] = epoch[q] /\ pc'[q] = pc[q]
      BY <1>0, <1>5, LaunchFrame
    <2>2. Grid(q)' = Grid(q) /\ Launched(q)' = Launched(q)
      BY <1>1, <2>1, PlanFrame
    <2>3. ASSUME NEW c \in Grid(q), NEW s \in Stripe(q, c, Launched(q))
          PROVE  /\ pc'[q][c] # "entry" => epoch'[s] >= epoch'[q]
                 /\ pc'[q][c] = "done" => SentBy(s, epoch[q])'
      <3>1. /\ pc[q][c] # "entry" => epoch[s] >= epoch[q]
            /\ pc[q][c] = "done" => SentBy(s, epoch[q])
        BY <1>0, <2>3 DEF Rendezvous
      <3>2. s \in Ranks
        <4>1. Stripe(q, c, Launched(q)) \in SUBSET Ranks
          BY StripeType
        <4>. QED
          BY <2>3, <4>1
      <3>3. PICK e : e = epoch[q]
        OBVIOUS
      <3>4. e \in Nat /\ epoch'[q] = e
        BY <1>2, <2>1, <3>3
      <3>5. SentBy(s, e) => SentBy(s, e)'
        BY <1>3, <3>2, <3>4
      <3>6. SentBy(s, epoch[q])' <=> SentBy(s, e)'
        BY <3>4 DEF SentBy
      <3>7. epoch[s] >= e => epoch'[s] >= e
        BY <1>2, <3>2, <3>4
      <3>. QED
        BY <2>1, <3>1, <3>3, <3>4, <3>5, <3>6, <3>7
    <2>4. ASSUME NEW s \in Peers(q), NEW e \in 1 .. epoch[q] - 1, Planned(e)
          PROVE  SentBy(s, e)'
      <3>1. SentBy(s, e)
        BY <1>0, <2>4 DEF Rendezvous
      <3>2. e \in Nat /\ s \in Ranks
        BY <1>2 DEF Peers
      <3>. QED
        BY <1>3, <3>1, <3>2
    <2>5. \A e : Planned(e)' = Planned(e)
      BY <1>1 DEF Planned
    <2>6. \A c \in Grid(q)' : \A s \in Stripe(q, c, Launched(q))' :
              /\ pc'[q][c] # "entry" => epoch'[s] >= epoch'[q]
              /\ pc'[q][c] = "done" => SentBy(s, epoch[q])'
      BY <2>2, <2>3 DEF Stripe
    <2>. QED
      BY <1>4, <2>1, <2>4, <2>5, <2>6 DEF Rendezvous
  <1>6. CASE q = r
    <2>1. epoch'[r] = epoch[r] + 1 /\ \A c \in CTAs : pc'[r][c] = IF c < n THEN "entry" ELSE "done"
      BY <1>0, LaunchFrame
    <2>2. \A c \in Grid(r)' : pc'[r][c] = "entry"
      <3>1. \A c \in 0 .. n - 1 : c \in CTAs /\ c < n
        BY <1>1, SizeFacts
      <3>. QED
        BY <1>1, <2>1, <3>1
    <2>3. ASSUME NEW s \in Peers(r), NEW e \in 1 .. epoch[r], Planned(e) PROVE SentBy(s, e)'
      <3>1. e \in Nat /\ s \in Ranks /\ epoch[r] \in Nat
        BY <1>2 DEF Peers
      <3>2. SentBy(s, e)
        <4>1. CASE e # epoch[r]
          <5>1. e \in 1 .. epoch[r] - 1
            BY <3>1, <4>1
          <5>. QED
            BY <1>0, <1>6, <2>3, <5>1 DEF Rendezvous
        <4>2. CASE e = epoch[r]
          <5>1. Active(r)
            BY <2>3, <3>1, <4>2 DEF Active
          <5>2. SentBy(s, epoch[r])
            BY <1>0, <1>6, <5>1, PeersDone
          <5>. QED
            BY <4>2, <5>2
        <4>. QED
          BY <4>1, <4>2
      <3>. QED
        BY <1>3, <3>1, <3>2
    <2>4. \A e : Planned(e)' = Planned(e)
      BY <1>1 DEF Planned
    <2>5. 1 .. epoch'[r] - 1 = 1 .. epoch[r]
      BY <1>2, <2>1
    <2>6. \A s \in Peers(r) : \A e \in 1 .. epoch'[r] - 1 : Planned(e)' => SentBy(s, e)'
      BY <2>3, <2>4, <2>5
    <2>7. \A s \in Peers(r) : \A e \in Nat :
              /\ inbox'[r][s] >= e * Stride => epoch'[s] >= e
              /\ inbox'[r][s] >= e * Stride + Stride - 1 => SentBy(s, e)'
      BY <1>4, <1>6
    <2>. QED
      BY <1>6, <2>2, <2>6, <2>7 DEF Rendezvous
  <1>. QED
    BY <1>5, <1>6

(* A rank that starts has stored nothing, and no peer was ahead of it.     *)
LEMMA NothingStored ==
  ASSUME Typed, NoEmptySlice, NEW r \in Ranks, NEW n, NEW b, Launching(r, n, b)
  PROVE  \A c \in Grid(r)' : \A i, w, d : ~Stored(r, c, i, w, d)'
  <1>1. n \in Nat /\ n <= MaxCtas /\ Grid(r)' = 0 .. n - 1
    BY DEF Launching
  <1>2. \A c \in CTAs : pc'[r][c] = IF c < n THEN "entry" ELSE "done"
    BY LaunchFrame
  <1>3. \A c \in Grid(r)' : pc'[r][c] = "entry"
    BY <1>1, <1>2, SizeFacts
  <1>. QED
    BY <1>3 DEF Stored, Past, Ended

LEMMA PeersWait ==
  ASSUME WcInv, NoEmptySlice, NEW r \in Ranks, NEW n, NEW b, Launching(r, n, b), Active(r)',
         NEW s \in Peers(r), NEW w
  PROVE  ~Delivered(s, r, w)'
  <1>0. Typed /\ Stages(s) /\ Rendezvous(s) /\ s \in Ranks /\ s # r /\ r \in Peers(s)
    BY DEF WcInv, Peers
  <1>1. epoch[r] \in Nat /\ epoch[s] \in Nat
    BY <1>0, RankFacts
  <1>2. epoch'[r] = epoch[r] + 1 /\ epoch'[s] = epoch[s] /\ pc'[s] = pc[s]
    BY <1>0, LaunchFrame
  <1>3. program' = program /\ at' = at /\ todo' = todo
    BY DEF Launching
  <1>4. Planned(epoch[r] + 1)
    BY <1>2, <1>3 DEF Active, Planned
  <1>5. ~(epoch[s] > epoch[r] + 1)
    <2>1. SUFFICES ASSUME epoch[s] > epoch[r] + 1 PROVE FALSE
      OBVIOUS
    <2>2. epoch[r] + 1 \in 1 .. epoch[s] - 1
      BY <1>1, <2>1
    <2>3. SentBy(r, epoch[r] + 1)
      BY <1>0, <1>4, <2>2 DEF Rendezvous
    <2>. QED
      BY <1>1, <2>3 DEF SentBy
  <1>6. ~(epoch[s] = epoch[r] + 1 /\ Copied(s, r, w)')
    <2>1. SUFFICES ASSUME epoch[s] = epoch[r] + 1, Copied(s, r, w)' PROVE FALSE
      OBVIOUS
    <2>2. Grid(s)' = Grid(s) /\ Tasks(s)' = Tasks(s)
      BY <1>2, <1>3, PlanFrame
    <2>3. PICK c \in Grid(s), i \in 1 .. Len(Tasks(s)) : Stored(s, c, i, w, r)'
      BY <2>1, <2>2 DEF Copied
    <2>4. pc[s][c] \in {"run", "barrier"} \cup Ended
      BY <1>2, <2>3 DEF Stored, Past
    <2>5. Entered(s) = Grid(s) /\ Active(s)
      BY <1>0, <2>4, GridActive DEF Stages
    <2>6. epoch[r] >= epoch[s]
      BY <1>0, <2>5, PeersEntered
    <2>. QED
      BY <1>1, <2>1, <2>6
  <1>. QED
    BY <1>2, <1>5, <1>6 DEF Delivered

LEMMA LaunchOwn ==
  ASSUME WcInv, NoEmptySlice, NEW r \in Ranks, NEW n, NEW b, Launching(r, n, b)
  PROVE  Contents(r)'
  <1>0. Typed
    BY DEF WcInv
  <1>1. \A x \in Cells : buf'[r][x] = Own(r)
    BY <1>0, LaunchFrame
  <1>2. SUFFICES ASSUME Active(r)',
                        NEW s \in Ranks, NEW w \in 0 .. Windows(Count(r), s)' - 1
                 PROVE  IF s = r THEN OwnSlice(r, w)' ELSE PeerSlice(r, s, w)'
    BY DEF Contents
  <1>3. buf'[r][<<s, w>>] = Own(r)
    <2>1. InPlan'
      BY <1>0, LaunchTyped DEF InPlan, Typed
    <2>2. RankInRange(r)'
      BY <2>1, PlansNext DEF PlansInRange
    <2>3. epoch'[r] > 0
      BY <1>2 DEF Active
    <2>4. Windows(Count(r), s)' \in 0 .. MaxWindows
      BY <2>2, <2>3 DEF RankInRange
    <2>5. PICK m : m = Windows(Count(r), s)'
      OBVIOUS
    <2>6. w \in 0 .. MaxWindows - 1
      BY <1>2, <2>4, <2>5, SizeFacts
    <2>. QED
      BY <1>1, <2>6 DEF Cells
  <1>4. CASE s = r
    <2>1. \A q : ~Reduced(r, q, w)'
      BY <1>0, NothingStored DEF Reduced
    <2>2. \A q \in Ranks : buf'[r][<<r, w>>][q] = IF q = r \/ Reduced(r, q, w)' THEN 1 ELSE 0
      BY <1>3, <1>4, <2>1 DEF Own
    <2>3. OwnSlice(r, w)'
      BY <1>3, <1>4, <2>2 DEF OwnSlice
    <2>. QED
      BY <1>4, <2>3
  <1>5. CASE s # r
    <2>1. ~Delivered(s, r, w)'
      BY <1>2, <1>5, PeersWait DEF Peers
    <2>2. PeerSlice(r, s, w)'
      BY <1>3, <2>1 DEF PeerSlice
    <2>. QED
      BY <1>5, <2>2
  <1>. QED
    BY <1>4, <1>5

(* What the rank had copied before it started again stays delivered.       *)
LEMMA LaunchDelivered ==
  ASSUME WcInv, NoEmptySlice, NEW r \in Ranks, KernelDone(r), NEW n, NEW b, Launching(r, n, b),
         NEW x \in Peers(r), Active(x), Kind(x) # "reduce_scatter",
         NEW w \in 0 .. Windows(Count(x), r) - 1
  PROVE  Delivered(r, x, w)' <=> Delivered(r, x, w)
  <1>0. Typed /\ x \in Ranks /\ x # r
    BY DEF WcInv, Peers
  <1>1. epoch[r] \in Nat /\ epoch[x] \in Nat
    BY <1>0, RankFacts
  <1>2. epoch'[r] = epoch[r] + 1 /\ epoch'[x] = epoch[x]
    BY <1>0, LaunchFrame
  <1>3. ~Copied(r, x, w)'
    BY <1>0, NothingStored DEF Copied
  <1>4. epoch[r] = epoch[x] => Copied(r, x, w)
    <2>1. SUFFICES ASSUME epoch[r] = epoch[x] PROVE Copied(r, x, w)
      OBVIOUS
    <2>2. Active(r) /\ Kind(r) # "reduce_scatter" /\ Windows(Count(x), r) = Slice(r)
      BY <1>0, <2>1, SameEpoch DEF Slice
    <2>3. Finished(r) = Grid(r)
      <3>1. Grid(r) \subseteq CTAs
        BY <1>0, LaunchFacts
      <3>. QED
        BY <3>1 DEF KernelDone, Finished, Ended
    <2>. QED
      BY <1>0, <2>2, <2>3, DoneCopied
  <1>5. Delivered(r, x, w)' <=> epoch[r] + 1 > epoch[x]
    BY <1>2, <1>3 DEF Delivered
  <1>6. Delivered(r, x, w) <=> epoch[r] >= epoch[x]
    BY <1>1, <1>4 DEF Delivered
  <1>. QED
    BY <1>1, <1>5, <1>6

LEMMA LaunchOther ==
  ASSUME WcInv, NoEmptySlice, NEW r \in Ranks, KernelDone(r), NEW n, NEW b, Launching(r, n, b),
         NEW x \in Peers(r)
  PROVE  Contents(x)'
  <1>0. Typed /\ x \in Ranks /\ x # r /\ Contents(x)
    BY DEF WcInv, Peers
  <1>1. program' = program /\ at' = at /\ todo' = todo
    BY DEF Launching
  <1>2. ASSUME NEW q \in Ranks, q # r
        PROVE  epoch'[q] = epoch[q] /\ pc'[q] = pc[q] /\ buf'[q] = buf[q]
    BY <1>0, <1>2, LaunchFrame
  <1>3. Active(x)' = Active(x) /\ Count(x)' = Count(x) /\ Kind(x)' = Kind(x)
    BY <1>0, <1>1, <1>2, PlanFrame
  <1>4. SUFFICES ASSUME Active(x), NEW s \in Ranks, NEW w \in 0 .. Windows(Count(x), s) - 1
                 PROVE  IF s = x THEN OwnSlice(x, w)' ELSE PeerSlice(x, s, w)'
    BY <1>3 DEF Contents
  <1>5. IF s = x THEN OwnSlice(x, w) ELSE PeerSlice(x, s, w)
    BY <1>0, <1>4 DEF Contents
  <1>6. ASSUME s # r, NEW c, NEW i PROVE Stored(s, c, i, w, x)' = Stored(s, c, i, w, x)
    <2>1. epoch'[s] = epoch[s] /\ pc'[s][c] = pc[s][c] /\ at'[s][c] = at[s][c]
          /\ todo'[s][c] = todo[s][c]
      BY <1>1, <1>2, <1>6
    <2>. QED
      BY <1>1, <2>1, StoredSame
  <1>7. CASE s = x
    <2>1. OwnSlice(x, w)'
      BY <1>0, <1>1, <1>2, <1>5, <1>6, <1>7, OwnFrame
    <2>. QED
      BY <1>7, <2>1
  <1>8. CASE s # x /\ s # r
    <2>1. epoch'[x] = epoch[x] /\ epoch'[s] = epoch[s] /\ buf'[x] = buf[x]
      BY <1>0, <1>2, <1>8
    <2>2. PeerSlice(x, s, w)'
      BY <1>1, <1>5, <1>6, <1>8, <2>1, PeerFrame
    <2>. QED
      BY <1>8, <2>2
  <1>9. CASE s = r
    <2>1. buf'[x] = buf[x]
      BY <1>0, <1>2
    <2>2. Kind(x) # "reduce_scatter" => (Delivered(r, x, w)' <=> Delivered(r, x, w))
      BY <1>4, <1>9, LaunchDelivered
    <2>3. PeerSlice(x, r, w)
      BY <1>0, <1>5, <1>9
    <2>4. PeerSlice(x, r, w)'
      BY <1>3, <2>1, <2>2, <2>3 DEF PeerSlice
    <2>. QED
      BY <1>0, <1>9, <2>4
  <1>. QED
    BY <1>7, <1>8, <1>9

-------------------------------------------------------------------------------
(* The invariant and the theorems.                                         *)

LEMMA WcInit == ASSUME Init, NoEmptySlice PROVE WcInv
  <1>1. Typed
    <2>1. Len(program) \in Nat
      BY ProgramsAssumption DEF Init
    <2>2. NoInput \in [Ranks -> Nat] /\ NotLoaded \in [Ranks -> Int]
      BY DEF NoInput, NotLoaded
    <2>3. "done" \in PCs /\ 0 \in 0 .. 2 * N
      BY SizeFacts DEF PCs
    <2>. QED
      BY <2>1, <2>2, <2>3 DEF Init, Typed
  <1>2. ASSUME NEW r \in Ranks
        PROVE  Counting(r) /\ Stages(r) /\ Rendezvous(r) /\ Loads(r) /\ Contents(r)
    <2>1. epoch[r] = 0 /\ Grid(r) = {} /\ ~Active(r)
      BY <1>1, LaunchFacts DEF Init, Active
    <2>2. counter[r] = last_value[r] /\ \A c \in CTAs : pc[r][c] = "done"
      BY DEF Init
    <2>3. \A s \in Ranks : inbox[r][s] = 0
      BY DEF Init
    <2>4. ASSUME NEW s \in Peers(r), NEW e \in Nat
          PROVE  /\ inbox[r][s] >= e * Stride => epoch[s] >= e
                 /\ inbox[r][s] >= e * Stride + Stride - 1 => SentBy(s, e)
      <3>1. s \in Ranks /\ epoch[s] = 0 /\ inbox[r][s] = 0
        BY <2>3 DEF Init, Peers
      <3>. QED
        BY <3>1 DEF Stride
    <2>5. Rendezvous(r)
      BY <2>1, <2>4 DEF Rendezvous
    <2>6. ASSUME NEW c \in CTAs PROVE Loading(r, c)
      BY <2>2 DEF Init, Loading
    <2>. QED
      BY <2>1, <2>2, <2>5, <2>6 DEF Counting, Stages, Loads, Contents
  <1>. QED
    BY <1>1, <1>2 DEF WcInv

LEMMA WcLaunch ==
  ASSUME WcInv, NoEmptySlice, NEW r \in Ranks, Launch(r)
  PROVE  WcInv'
  <1>0. Typed /\ KernelDone(r)
    BY DEF WcInv, Launch
  <1>1. PICK n, b : Launching(r, n, b)
    BY <1>0, LaunchStep
  <1>2. Typed'
    BY <1>0, <1>1, LaunchTyped
  <1>3. ASSUME NEW q \in Ranks
        PROVE  Counting(q)' /\ Stages(q)' /\ Rendezvous(q)' /\ Loads(q)' /\ Contents(q)'
    <2>1. Contents(q)'
      <3>1. CASE q = r
        BY <1>1, <3>1, LaunchOwn
      <3>2. CASE q # r
        BY <1>0, <1>1, <3>2, LaunchOther DEF Peers
      <3>. QED
        BY <3>1, <3>2
    <2>. QED
      BY <1>0, <1>1, <2>1, LaunchCounting, LaunchRendezvous
  <1>. QED
    BY <1>2, <1>3 DEF WcInv

LEMMA WcCta ==
  ASSUME WcInv, NoEmptySlice, NEW r \in Ranks, NEW c \in Grid(r), CtaStep(r, c)
  PROVE  WcInv'
  BY CtaTyped, CtaCounting, CtaRendezvous, CtaLoads, CtaContents DEF WcInv

LEMMA WcStutter ==
  ASSUME WcInv, NoEmptySlice, UNCHANGED vars
  PROVE  WcInv'
  <1>0. Typed
    BY DEF WcInv
  <1>1. UNCHANGED <<program, epoch, last_value, entry, counter, inbox, pc, at, left, todo, held, buf>>
    BY DEF vars
  <1>2. Typed'
    BY <1>0, <1>1 DEF Typed
  <1>3. ASSUME NEW q \in Ranks
        PROVE  Counting(q)' /\ Stages(q)' /\ Rendezvous(q)' /\ Loads(q)' /\ Contents(q)'
    <2>0. Counting(q) /\ Stages(q) /\ Rendezvous(q) /\ Loads(q) /\ Contents(q)
      BY DEF WcInv
    <2>1. Counting(q)' /\ Stages(q)'
      BY <1>1, <2>0, CountFrame, SetFrame
    <2>2. /\ Tasks(q)' = Tasks(q) /\ HasBarrier(q)' = HasBarrier(q) /\ Grid(q)' = Grid(q)
          /\ Launched(q)' = Launched(q)
          /\ \A d, i : Work(q, d, i)' = Work(q, d, i)
          /\ \A i : Carried(q, i)' = Carried(q, i)
      BY <1>1, PlanFrame
    <2>3. Loads(q)'
      BY <1>1, <2>0, <2>2 DEF Loads, Loading, Working
    <2>4. \A s, e : SentBy(s, e)' = SentBy(s, e)
      <3>1. ASSUME NEW s PROVE Finished(s)' = Finished(s) /\ Grid(s)' = Grid(s) /\ epoch'[s] = epoch[s]
        BY <1>1, SetFrame, PlanFrame
      <3>. QED
        BY <3>1 DEF SentBy
    <2>5. Rendezvous(q)'
      BY <1>1, <2>0, <2>2, <2>4 DEF Rendezvous, Planned, Stripe
    <2>6. Contents(q)'
      <3>1. \A s, x, i, w : Stored(s, x, i, w, q)' = Stored(s, x, i, w, q)
        <4>1. ASSUME NEW s, NEW x, NEW i
              PROVE  \A w : Stored(s, x, i, w, q)' = Stored(s, x, i, w, q)
          BY <1>1, StoredSame
        <4>. QED
          BY <4>1
      <3>. QED
        BY <1>0, <1>1, <2>0, <3>1, ContentsFrame
    <2>. QED
      BY <2>1, <2>3, <2>5, <2>6
  <1>. QED
    BY <1>2, <1>3 DEF WcInv

(* The inductive invariant holds in every reachable state. *)
THEOREM WindowCollectiveInvariant ==
  ASSUME NoEmptySlice
  PROVE  Spec => []WcInv
  <1>1. Init => WcInv
    BY WcInit
  <1>2. WcInv /\ [Next]_vars => WcInv'
    <2>1. SUFFICES ASSUME WcInv, [Next]_vars PROVE WcInv'
      OBVIOUS
    <2>2. CASE UNCHANGED vars
      BY <2>1, <2>2, WcStutter
    <2>3. CASE Next
      BY <2>1, <2>3, WcLaunch, WcCta DEF Next
    <2>. QED
      BY <2>1, <2>2, <2>3
  <1>. QED
    BY <1>1, <1>2, PTL DEF Spec

(* The types, and no counter is ahead of the host's record of it.          *)
LEMMA WcTypes == ASSUME WcInv, NoEmptySlice PROVE TypeOK
  <1>0. Typed
    BY DEF WcInv
  <1>1. ASSUME NEW r \in Ranks PROVE counter[r] <= last_value[r]
    <2>1. Counting(r) /\ counter[r] \in Nat /\ last_value[r] \in Nat /\ entry[r] \in Nat
      BY DEF WcInv, Typed
    <2>2. CASE Active(r)
      BY <1>0, <2>1, <2>2, CountFacts
    <2>3. CASE ~Active(r)
      <3>1. Launched(r) = 0 /\ Grid(r) = {}
        BY <1>0, <2>3, LaunchFacts, RankFacts DEF Active
      <3>2. KernelDone(r)
        BY <3>1 DEF WcInv, Stages, KernelDone
      <3>3. counter[r] = last_value[r]
        BY <1>0, <2>1, <3>2, DoneCount
      <3>. QED
        BY <2>1, <3>3
    <2>. QED
      BY <2>2, <2>3
  <1>2. ASSUME NEW r \in Ranks, NEW s \in Ranks, NEW c \in CTAs, NEW w \in 0 .. MaxWindows - 1
        PROVE  held[r][c][w][s] \in -1 .. N
    <2>1. Loading(r, c)
      BY DEF WcInv, Loads
    <2>2. CASE held[r][c][w] = NotLoaded
      BY <2>2, SizeFacts DEF NotLoaded
    <2>3. CASE held[r][c][w] # NotLoaded
      <3>1. held[r][c][w] = Carried(r, at[r][c])
        BY <2>1, <2>3 DEF Loading
      <3>2. \A i : Carried(r, i)[s] \in {0, 1}
        BY DEF Carried, Own, Everyone
      <3>. QED
        BY <3>1, <3>2, SizeFacts
    <2>. QED
      BY <2>2, <2>3
  <1>3. \A r, s \in Ranks : \A x \in Cells : buf[r][x][s] \in Nat
    BY <1>0, CellType
  <1>. QED
    BY <1>0, <1>1, <1>2, <1>3 DEF TypeOK, Typed, PCs

LEMMA WcComplete == ASSUME WcInv, NoEmptySlice PROVE CompletionMeansReceived
  <1>0. Typed
    BY DEF WcInv
  <1>1. SUFFICES ASSUME NEW r \in Ranks, epoch[r] > 0, KernelDone(r),
                        ~Rejected(Kind(r), Count(r)),
                        NEW x \in Cells, x[2] < Windows(Count(r), x[1])
                 PROVE  /\ Kind(r) = "all_reduce" => buf[r][x] = Everyone
                        /\ Kind(r) = "reduce_scatter" => (x[1] = r => buf[r][x] = Everyone)
                        /\ Kind(r) = "all_gather" => buf[r][x] = Own(x[1])
    <2>1. \A r \in Ranks : epoch[r] > 0 => Kind(r) \in Kinds
      BY <1>0, RankFacts
    <2>. QED
      BY <2>1 DEF CompletionMeansReceived, Kinds
  <1>2. Active(r) /\ Contents(r) /\ Rendezvous(r)
    BY <1>1 DEF WcInv, Active, Planned, Kind, Count
  <1>3. Finished(r) = Grid(r)
    <2>1. Grid(r) \subseteq CTAs
      BY <1>0, LaunchFacts
    <2>. QED
      BY <1>1, <2>1 DEF KernelDone, Finished, Ended
  <1>4. PICK s \in Ranks, w \in 0 .. MaxWindows - 1 : x = <<s, w>>
    BY DEF Cells
  <1>5. w \in 0 .. Windows(Count(r), s) - 1
    <2>1. Windows(Count(r), s) \in Nat
      BY <1>0, <1>1, RankFacts
    <2>. QED
      BY <1>1, <1>4, <2>1, SizeFacts
  <1>6. IF s = r THEN OwnSlice(r, w) ELSE PeerSlice(r, s, w)
    BY <1>2, <1>5 DEF Contents
  <1>7. CASE s = r
    <2>1. CASE Kind(r) = "all_gather"
      BY <1>4, <1>6, <1>7, <2>1 DEF OwnSlice
    <2>2. CASE Kind(r) # "all_gather"
      <3>1. \A q \in Ranks : q = r \/ Reduced(r, q, w)
        BY <1>0, <1>2, <1>3, <1>5, <1>7, <2>2, DoneReduced DEF Peers, Slice
      <3>2. \A q \in Ranks : buf[r][x][q] = 1
        BY <1>4, <1>6, <1>7, <2>2, <3>1 DEF OwnSlice
      <3>3. buf[r][x] \in [Ranks -> Nat]
        BY <1>0, CellType
      <3>4. buf[r][x] = Everyone
        BY <3>2, <3>3 DEF Everyone
      <3>. QED
        BY <2>2, <3>4
    <2>. QED
      BY <2>1, <2>2
  <1>8. CASE s # r
    <2>1. CASE Kind(r) = "reduce_scatter"
      BY <1>4, <1>8, <2>1
    <2>2. CASE Kind(r) # "reduce_scatter"
      <3>1. SentBy(s, epoch[r]) /\ epoch[r] \in Nat /\ epoch[s] \in Nat
        BY <1>0, <1>1, <1>2, <1>8, PeersDone, RankFacts DEF Peers
      <3>2. Delivered(s, r, w)
        <4>1. CASE epoch[s] > epoch[r]
          BY <4>1 DEF Delivered
        <4>2. CASE ~(epoch[s] > epoch[r])
          <5>1. epoch[s] = epoch[r] /\ Finished(s) = Grid(s)
            BY <3>1, <4>2 DEF SentBy
          <5>2. Active(s) /\ Kind(s) = Kind(r) /\ Windows(Count(r), s) = Slice(s)
            BY <1>2, <5>1, SameEpoch DEF Slice
          <5>3. Copied(s, r, w)
            BY <1>0, <1>5, <1>8, <2>2, <5>1, <5>2, DoneCopied DEF Peers
          <5>. QED
            BY <5>1, <5>3 DEF Delivered
        <4>. QED
          BY <4>1, <4>2
      <3>. QED
        BY <1>4, <1>6, <1>8, <2>2, <3>2 DEF PeerSlice
    <2>. QED
      BY <2>1, <2>2
  <1>. QED
    BY <1>7, <1>8

LEMMA WcReleased == ASSUME WcInv, NoEmptySlice PROVE BufferReleased
  <1>0. Typed
    BY DEF WcInv
  <1>1. SUFFICES ASSUME NEW r \in Ranks, epoch[r] > 0, KernelDone(r),
                        ~Rejected(Kind(r), Count(r)),
                        NEW s \in Peers(r), epoch[s] <= epoch[r]
                 PROVE  /\ epoch[s] = epoch[r]
                        /\ \A c \in Grid(s) : pc[s][c] \in {"final", "exit", "done"}
    BY DEF BufferReleased
  <1>2. Active(r) /\ Rendezvous(r)
    BY <1>1 DEF WcInv, Active, Planned, Kind, Count
  <1>3. SentBy(s, epoch[r]) /\ epoch[r] \in Nat /\ epoch[s] \in Nat
    BY <1>0, <1>1, <1>2, PeersDone, RankFacts DEF Peers
  <1>. QED
    BY <1>1, <1>3 DEF SentBy, Finished, Ended

(* Every state is well typed, and a grid counter is never ahead of the     *)
(* host's record of it.                                                    *)
THEOREM TypesHold ==
  ASSUME NoEmptySlice
  PROVE  Spec => []TypeOK
  <1>1. WcInv => TypeOK
    BY WcTypes
  <1>. QED
    BY <1>1, WindowCollectiveInvariant, PTL

(* A collective leaves its result on every rank whose kernel is complete,  *)
(* whatever the sizes, the tuning and the pace of the ranks.               *)
THEOREM CompletionHolds ==
  ASSUME NoEmptySlice
  PROVE  Spec => []CompletionMeansReceived
  <1>1. WcInv => CompletionMeansReceived
    BY WcComplete
  <1>. QED
    BY <1>1, WindowCollectiveInvariant, PTL

(* A rank whose kernel is complete may overwrite its buffer: no peer still *)
(* reads or writes it for that collective.                                 *)
THEOREM ReleaseHolds ==
  ASSUME NoEmptySlice
  PROVE  Spec => []BufferReleased
  <1>1. WcInv => BufferReleased
    BY WcReleased
  <1>. QED
    BY <1>1, WindowCollectiveInvariant, PTL
===============================================================================
