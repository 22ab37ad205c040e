------------------------- MODULE FastCollectiveProofs -------------------------
(***************************************************************************)
(* The fast kernels, for any number of ranks, chunks and collectives, in   *)
(* any order of kinds.                                                     *)
(*                                                                         *)
(* A grid barrier is a matter of counting: no CTA arrives a second time    *)
(* before all have arrived once, so a counter that has grown by k grids    *)
(* tells of k arrivals of each CTA.  A ready value tells how far its       *)
(* writer was, and a rank does not get a launch ahead of a peer that has   *)
(* not sent everything.  What a buffer holds is then known in every state: *)
(* the rank's own input and that of the peers whose sends are complete.    *)
(***************************************************************************)
EXTENDS FastCollective, FiniteSetTheorems, TLAPS

(* The 32-bit words of the signals do not overflow: the hypothesis of the  *)
(* theorems.  It bounds the number of collectives a communicator is used   *)
(* for, see the README.                                                    *)
MaxArrivals == 3 * (N * K)
WordsSuffice ==
    \A p \in Programs :
        /\ Len(p) * Stride + 2 < IntHalf
        /\ Len(p) * MaxArrivals < CounterMod

(* Where a CTA is once it has arrived k times at the grid counter, and     *)
(* where it is once it is through the k-th barrier.                        *)
After(k) ==
    CASE k = 1 -> PCs \ {"start"}
      [] k = 2 -> {"barrier2", "fanout", "barrier3", "sent", "done"}
      [] k = 3 -> {"barrier3", "sent", "done"}
Through(k) ==
    CASE k = 1 -> PCs \ {"start", "barrier1"}
      [] k = 2 -> {"fanout", "barrier3", "sent", "done"}
      [] k = 3 -> {"sent", "done"}

Arrived(r, k) == {c \in Grid(r) : pc[r][c] \in After(k)}
Arrivals(r, k) == Cardinality(Arrived(r, k))

(* Rank s has loaded its chunks, or has sent everything, in epoch e.       *)
LoadedBy(s, e) == epoch[s] > e \/ (epoch[s] = e /\ Arrived(s, 1) = Grid(s))
SentBy(s, e) == epoch[s] > e \/ (epoch[s] = e /\ Arrived(s, 3) = Grid(s))

Typed ==
    /\ program \in Programs
    /\ epoch \in [Ranks -> 0 .. Len(program)]
    /\ base \in [Ranks -> Nat]
    /\ last_value \in [Ranks -> [Kinds -> Nat]]
    /\ counter \in [Ranks -> [Kinds -> Nat]]
    /\ inbox \in [Ranks -> [Ranks -> Nat]]
    /\ pc \in [Ranks -> [CTAs -> PCs]]
    /\ shared \in [Ranks -> [CTAs -> [Ranks -> Int]]]
    /\ left \in [Ranks -> [CTAs -> SUBSET Ranks]]
    /\ buf \in [Ranks -> [Cells -> [Ranks -> Int]]]

(* The host's record of a counter, and how far the counter is.             *)
Counting(r) ==
    /\ \A k \in Kinds : last_value[r][k] <= epoch[r] * MaxArrivals
    /\ \A k \in Kinds : epoch[r] = 0 \/ k # Kind(r) => counter[r][k] = last_value[r][k]
    /\ epoch[r] > 0 =>
           /\ last_value[r][Kind(r)] = base[r] + 3 * GridDim(Kind(r))
           /\ counter[r][Kind(r)] = base[r] + Arrivals(r, 1) + Arrivals(r, 2) + Arrivals(r, 3)

(* A CTA that is through a barrier has all others behind it.               *)
Stages(r) ==
    /\ \A c \in CTAs \ Grid(r) : pc[r][c] = "done"
    /\ \A c \in Grid(r) : \A k \in 1 .. 3 : pc[r][c] \in Through(k) => Arrived(r, k) = Grid(r)

(* What a ready value says of the peer that wrote it, what a CTA has seen  *)
(* of the peers of its stripe, and what a launch says of all peers.        *)
Rendezvous(r) ==
    /\ \A s \in Peers(r) : \A e \in Nat :
           /\ inbox[r][s] >= e * Stride + 1 => LoadedBy(s, e)
           /\ inbox[r][s] >= e * Stride + 2 => SentBy(s, e)
    /\ \A c \in Grid(r) : \A s \in Stripe(r, c) :
           /\ pc[r][c] \in After(2) => LoadedBy(s, epoch[r])
           /\ pc[r][c] = "done" => SentBy(s, epoch[r])
    /\ \A s \in Peers(r) : epoch[r] > 0 => SentBy(s, epoch[r] - 1)

(* A CTA loads the rank's own input, all but all-gather's before they      *)
(* first arrive, and it sends to its targets.                              *)
Loads(r) ==
    \A c \in Grid(r) :
        /\ Loaded(r, c) => shared[r][c] = Own(r)
        /\ pc[r][c] # "start" /\ WaitsForLoadFirst(r) => Loaded(r, c)
        /\ pc[r][c] = "fanout" => left[r][c] \subseteq Targets(r, c)

(* The chunk a CTA of rank s works on, and its targets, by kind.           *)
CellIn(kind, s, c) ==
    CASE kind = "all_reduce"     -> AllReduceCell(c)
      [] kind = "reduce_scatter" -> ReduceScatterCell(s, c)
      [] kind = "all_gather"     -> AllGatherCell(s, c)
TargetsIn(kind, s, c) ==
    IF kind = "reduce_scatter" THEN {ReduceScatterPeer(s, c)} ELSE Peers(s)
Writes(kind, s, c, r, x) ==
    /\ c \in 0 .. GridDim(kind) - 1
    /\ CellIn(kind, s, c) = x
    /\ r \in TargetsIn(kind, s, c)

(* The sends of s that have reached r, of r's current epoch.               *)
SentTo(s, c, r) ==
    pc[s][c] \in After(3) \/ (pc[s][c] = "fanout" /\ r \notin left[s][c])
Delivered(s, c, r) == epoch[s] > epoch[r] \/ (epoch[s] = epoch[r] /\ SentTo(s, c, r))
Contributed(s, r, x) ==
    epoch[r] > 0 /\ \E c \in CTAs : Writes(Kind(r), s, c, r, x) /\ Delivered(s, c, r)

Contents(r) ==
    \A x \in Cells :
        IF epoch[r] > 0 /\ Kind(r) = "all_gather"
          THEN buf[r][x] = IF x[1] # r /\ Contributed(x[1], r, x) THEN Own(x[1]) ELSE Own(r)
          ELSE \A s \in Ranks : buf[r][x][s] = IF s = r \/ Contributed(s, r, x) THEN 1 ELSE 0

FcInv ==
    /\ Typed
    /\ \A r \in Ranks : Counting(r) /\ Stages(r) /\ Rendezvous(r) /\ Loads(r) /\ Contents(r)
-------------------------------------------------------------------------------
(* Numbers: the launch geometry and the words of the signals.              *)

LEMMA Monotone ==
  ASSUME NEW a \in Nat, NEW b \in Nat, NEW m \in Nat, a <= b
  PROVE  a * m <= b * m /\ a * m \in Nat /\ b * m \in Nat
  OBVIOUS

LEMMA Residue ==
  ASSUME NEW m \in Nat, m # 0, NEW a \in Nat, a < m
  PROVE  a % m = a
  OBVIOUS

LEMMA ChunkNumbers ==
  ASSUME NEW m \in Nat, NEW k \in Nat, k # 0, NEW c \in 0 .. m * k - 1
  PROVE  c \in Nat /\ c \div k \in 0 .. m - 1 /\ c % k \in 0 .. k - 1
  <1>1. c \in Nat /\ c < m * k
    OBVIOUS
  <1>2. c \div k \in Int /\ c \div k >= 0 /\ c % k \in 0 .. k - 1
    BY <1>1
  <1>3. c \div k < m
    BY <1>1
  <1>. QED
    BY <1>1, <1>2, <1>3

LEMMA ChunkNumber ==
  ASSUME NEW k \in Nat, k # 0, NEW a \in Nat, NEW b \in 0 .. k - 1
  PROVE  a * k + b \in Nat /\ (a * k + b) \div k = a /\ (a * k + b) % k = b
  OBVIOUS

LEMMA SameChunk ==
  ASSUME NEW m \in Nat, m # 0, NEW k \in Nat, NEW l \in Nat,
         k \div m = l \div m, k % m = l % m
  PROVE  k = l
  OBVIOUS

LEMMA SizeFacts ==
  /\ N \in Nat /\ N >= 2 /\ K \in Nat \ {0} /\ N * K \in Nat /\ (N - 1) * K \in Nat
  /\ K <= N * K /\ (N - 1) * K <= N * K /\ K <= (N - 1) * K
  /\ Ranks = 0 .. N - 1 /\ CTAs = 0 .. N * K - 1
  /\ MaxArrivals = 3 * (N * K) /\ MaxArrivals \in Nat
  <1>1. N \in Nat /\ N >= 2 /\ K \in Nat \ {0}
    BY SizeAssumption
  <1>2. 1 * K <= (N - 1) * K /\ (N - 1) * K <= N * K /\ (N - 1) * K \in Nat /\ N * K \in Nat
    <2>1. 1 \in Nat /\ N - 1 \in Nat /\ 1 <= N - 1 /\ N - 1 <= N
      BY <1>1
    <2>. QED
      BY <1>1, <2>1, Monotone
  <1>3. 1 * K = K
    BY <1>1
  <1>. DEFINE M == N * K
              L == (N - 1) * K
  <1>4. K <= L /\ L <= M /\ L \in Nat /\ M \in Nat
    BY <1>2, <1>3
  <1>. HIDE DEF M, L
  <1>5. K <= M /\ 3 * M \in Nat
    BY <1>1, <1>4
  <1>. QED
    BY <1>1, <1>4, <1>5 DEF M, L, Ranks, CTAs, MaxArrivals

LEMMA GridFacts ==
  ASSUME NEW kind \in Kinds
  PROVE  /\ GridDim(kind) \in Nat \ {0} /\ 3 * GridDim(kind) <= MaxArrivals
         /\ 0 .. GridDim(kind) - 1 \subseteq CTAs
  <1>1. /\ GridDim("all_reduce") = N * K
        /\ GridDim("reduce_scatter") = (N - 1) * K
        /\ GridDim("all_gather") = K
    BY DEF GridDim, AllReduceGrid, ReduceScatterGrid, AllGatherGrid
  <1>. DEFINE M == N * K
              L == (N - 1) * K
  <1>2. /\ GridDim("all_reduce") = M /\ GridDim("reduce_scatter") = L /\ GridDim("all_gather") = K
        /\ K <= L /\ L <= M /\ L \in Nat /\ M \in Nat /\ K \in Nat \ {0}
        /\ MaxArrivals = 3 * M /\ CTAs = 0 .. M - 1
    BY <1>1, SizeFacts
  <1>. HIDE DEF M, L
  <1>3. GridDim(kind) \in Nat \ {0} /\ GridDim(kind) <= M
    BY <1>2 DEF Kinds
  <1>. QED
    BY <1>2, <1>3

LEMMA PeerFacts ==
  ASSUME NEW r \in Ranks
  PROVE  /\ \A i \in 0 .. N - 2 : PeerAt(r, i) \in Peers(r) /\ PeerIndex(r, PeerAt(r, i)) = i
         /\ \A s \in Peers(r) : PeerIndex(r, s) \in 0 .. N - 2 /\ PeerAt(r, PeerIndex(r, s)) = s
         /\ \A i, j \in 0 .. N - 2 : PeerAt(r, i) = PeerAt(r, j) => i = j
  BY SizeFacts DEF PeerAt, PeerIndex, Peers

(* Every peer is in the stripe of some CTA.                                *)
LEMMA StripesCover ==
  ASSUME NEW r \in Ranks, epoch[r] > 0, Kind(r) \in Kinds, NEW s \in Peers(r)
  PROVE  \E c \in Grid(r) : s \in Stripe(r, c)
  <1>. DEFINE n == GridDim(Kind(r))
              i == PeerIndex(r, s)
  <1>1. n \in Nat \ {0} /\ i \in Nat
    BY GridFacts, PeerFacts, SizeFacts
  <1>2. ~(epoch[r] = 0) => Grid(r) = 0 .. n - 1
    BY DEF Grid
  <1>3. s \in Stripe(r, i % n)
    BY DEF Stripe
  <1>. HIDE DEF n, i
  <1>4. i % n \in 0 .. n - 1
    BY <1>1
  <1>5. epoch[r] # 0
    OBVIOUS
  <1>. QED
    BY <1>2, <1>3, <1>4, <1>5

(* The chunk and the peer of a reduce-scatter's CTA.                       *)
LEMMA ScatterFacts ==
  ASSUME NEW s \in Ranks
  PROVE  /\ \A c \in 0 .. (N - 1) * K - 1 :
                c \div K \in 0 .. N - 2 /\ c % K \in 0 .. K - 1
                /\ ReduceScatterPeer(s, c) \in Peers(s)
         /\ \A c, d \in 0 .. (N - 1) * K - 1 :
                ReduceScatterCell(s, c) = ReduceScatterCell(s, d) => c = d
         /\ \A r \in Peers(s), j \in 0 .. K - 1 :
                \E c \in 0 .. (N - 1) * K - 1 :
                    ReduceScatterPeer(s, c) = r /\ ReduceScatterCell(s, c) = <<r, j>>
  <1>1. N - 1 \in Nat /\ K \in Nat /\ K # 0 /\ N \in Nat
    BY SizeFacts
  <1>2. ASSUME NEW c \in 0 .. (N - 1) * K - 1
        PROVE  /\ c \in Nat /\ c \div K \in 0 .. N - 2 /\ c % K \in 0 .. K - 1
               /\ ReduceScatterPeer(s, c) = PeerAt(s, c \div K)
               /\ ReduceScatterPeer(s, c) \in Peers(s)
               /\ ReduceScatterCell(s, c) = <<PeerAt(s, c \div K), c % K>>
    <2>1. c \in Nat /\ c \div K \in 0 .. N - 1 - 1 /\ c % K \in 0 .. K - 1
      BY <1>1, ChunkNumbers
    <2>2. 0 .. N - 1 - 1 = 0 .. N - 2
      BY <1>1
    <2>. QED
      BY <2>1, <2>2, PeerFacts DEF ReduceScatterPeer, ReduceScatterCell
  <1>3. ASSUME NEW c \in 0 .. (N - 1) * K - 1, NEW d \in 0 .. (N - 1) * K - 1,
               ReduceScatterCell(s, c) = ReduceScatterCell(s, d)
        PROVE  c = d
    <2>1. PeerAt(s, c \div K) = PeerAt(s, d \div K) /\ c % K = d % K
      BY <1>2, <1>3
    <2>2. c \div K = d \div K
      BY <1>2, <2>1, PeerFacts
    <2>. QED
      BY <1>1, <1>2, <2>1, <2>2, SameChunk
  <1>4. ASSUME NEW r \in Peers(s), NEW j \in 0 .. K - 1
        PROVE  \E c \in 0 .. (N - 1) * K - 1 :
                   ReduceScatterPeer(s, c) = r /\ ReduceScatterCell(s, c) = <<r, j>>
    <2>. DEFINE i == PeerIndex(s, r)
                c == i * K + j
    <2>1. i \in 0 .. N - 2 /\ PeerAt(s, i) = r
      BY PeerFacts
    <2>. HIDE DEF i
    <2>2. c \in Nat /\ c \div K = i /\ c % K = j
      BY <1>1, <2>1, ChunkNumber
    <2>3. c \in 0 .. (N - 1) * K - 1
      <3>1. (i + 1) * K <= (N - 1) * K
        BY <1>1, <2>1, Monotone
      <3>2. (i + 1) * K = i * K + K
        BY <1>1, <2>1
      <3>3. i * K \in Nat /\ (N - 1) * K \in Nat
        BY <1>1, <2>1, SizeFacts
      <3>. QED
        BY <1>1, <3>1, <3>2, <3>3
    <2>. HIDE DEF c
    <2>. QED
      BY <1>2, <2>1, <2>2, <2>3
  <1>. QED
    BY <1>2, <1>3, <1>4

LEMMA AllReduceFacts ==
  /\ \A c \in CTAs : AllReduceCell(c) \in Cells
  /\ \A c, d \in CTAs : AllReduceCell(c) = AllReduceCell(d) => c = d
  /\ \A x \in Cells : \E c \in CTAs : AllReduceCell(c) = x
  <1>1. N \in Nat /\ K \in Nat /\ K # 0 /\ CTAs = 0 .. N * K - 1 /\ Ranks = 0 .. N - 1
    BY SizeFacts
  <1>2. ASSUME NEW c \in CTAs
        PROVE  /\ c \in Nat /\ c \div K \in 0 .. N - 1 /\ c % K \in 0 .. K - 1
               /\ AllReduceCell(c) = <<c \div K, c % K>>
    BY <1>1, ChunkNumbers DEF AllReduceCell
  <1>3. ASSUME NEW c \in CTAs, NEW d \in CTAs, AllReduceCell(c) = AllReduceCell(d) PROVE c = d
    <2>1. c \div K = d \div K /\ c % K = d % K
      BY <1>2, <1>3
    <2>. QED
      BY <1>1, <1>2, <2>1, SameChunk
  <1>4. ASSUME NEW x \in Cells PROVE \E c \in CTAs : AllReduceCell(c) = x
    <2>1. PICK i \in 0 .. N - 1, j \in 0 .. K - 1 : x = <<i, j>>
      BY <1>1 DEF Cells
    <2>. DEFINE c == i * K + j
    <2>2. c \in Nat /\ c \div K = i /\ c % K = j
      BY <1>1, ChunkNumber
    <2>3. c \in CTAs
      <3>1. (i + 1) * K <= N * K
        BY <1>1, Monotone
      <3>2. (i + 1) * K = i * K + K
        BY <1>1
      <3>3. i * K \in Nat /\ N * K \in Nat
        BY <1>1, SizeFacts
      <3>. QED
        BY <1>1, <3>1, <3>2, <3>3
    <2>. HIDE DEF c
    <2>. QED
      BY <1>2, <2>1, <2>2, <2>3
  <1>5. ASSUME NEW c \in CTAs PROVE AllReduceCell(c) \in Cells
    <2>. DEFINE i == c \div K
                j == c % K
    <2>1. i \in Ranks /\ j \in 0 .. K - 1 /\ AllReduceCell(c) = <<i, j>>
      BY <1>1, <1>2
    <2>. HIDE DEF i, j
    <2>. QED
      BY <2>1 DEF Cells
  <1>. QED
    BY <1>3, <1>4, <1>5

(* Of each kind: who writes where, in one CTA only; and every chunk that a *)
(* collective promises is written by every peer that has to.               *)
LEMMA WritesFacts ==
  ASSUME NEW kind \in Kinds, NEW s \in Ranks
  PROVE  /\ \A c \in 0 .. GridDim(kind) - 1 :
                CellIn(kind, s, c) \in Cells /\ TargetsIn(kind, s, c) \subseteq Peers(s)
         /\ \A c, d \in 0 .. GridDim(kind) - 1 :
                CellIn(kind, s, c) = CellIn(kind, s, d) => c = d
         /\ \A r \in Peers(s), x \in Cells :
                kind = "all_reduce" \/ (kind = "reduce_scatter" /\ x[1] = r)
                \/ (kind = "all_gather" /\ x[1] = s)
                => \E c \in CTAs : Writes(kind, s, c, r, x)
         /\ kind = "all_gather" => \A c : CellIn(kind, s, c)[1] = s
  <1>1. GridDim(kind) \in Nat \ {0} /\ 0 .. GridDim(kind) - 1 \subseteq CTAs
    BY GridFacts
  <1>2. CASE kind = "all_reduce"
    <2>. DEFINE G == 0 .. GridDim(kind) - 1
    <2>1. /\ G = CTAs /\ \A c : CellIn(kind, s, c) = AllReduceCell(c)
          /\ \A c : TargetsIn(kind, s, c) = Peers(s)
          /\ \A c, r, x : Writes(kind, s, c, r, x) <=>
                 c \in G /\ CellIn(kind, s, c) = x /\ r \in TargetsIn(kind, s, c)
      BY <1>2, SizeFacts DEF GridDim, AllReduceGrid, CellIn, TargetsIn, Writes
    <2>. HIDE DEF G
    <2>2. /\ \A c \in CTAs : AllReduceCell(c) \in Cells
          /\ \A c, d \in CTAs : AllReduceCell(c) = AllReduceCell(d) => c = d
      BY AllReduceFacts
    <2>3. ASSUME NEW r \in Peers(s), NEW x \in Cells
          PROVE  \E c \in CTAs : Writes(kind, s, c, r, x)
      <3>1. PICK c \in CTAs : AllReduceCell(c) = x
        BY AllReduceFacts
      <3>. QED
        BY <2>1, <3>1
    <2>4. /\ \A c \in G : CellIn(kind, s, c) \in Cells /\ TargetsIn(kind, s, c) \subseteq Peers(s)
          /\ \A c, d \in G : CellIn(kind, s, c) = CellIn(kind, s, d) => c = d
      BY <2>1, <2>2
    <2>. QED
      BY <1>2, <2>3, <2>4 DEF G
  <1>3. CASE kind = "reduce_scatter"
    <2>1. /\ GridDim(kind) = (N - 1) * K
          /\ \A c : CellIn(kind, s, c) = ReduceScatterCell(s, c)
          /\ \A c : TargetsIn(kind, s, c) = {ReduceScatterPeer(s, c)}
      BY <1>3 DEF GridDim, ReduceScatterGrid, CellIn, TargetsIn
    <2>2. \A c \in 0 .. (N - 1) * K - 1 : ReduceScatterCell(s, c) \in Cells
      BY ScatterFacts DEF ReduceScatterCell, Cells, Peers
    <2>3. ASSUME NEW r \in Peers(s), NEW x \in Cells, x[1] = r
          PROVE  \E c \in CTAs : Writes(kind, s, c, r, x)
      <3>1. PICK j \in 0 .. K - 1 : x = <<r, j>>
        BY <2>3 DEF Cells
      <3>2. PICK c \in 0 .. (N - 1) * K - 1 :
                ReduceScatterPeer(s, c) = r /\ ReduceScatterCell(s, c) = <<r, j>>
        BY ScatterFacts
      <3>. QED
        BY <1>1, <2>1, <3>1, <3>2 DEF Writes
    <2>4. \A c \in 0 .. (N - 1) * K - 1 : ReduceScatterPeer(s, c) \in Peers(s)
      BY ScatterFacts
    <2>5. \A c, d \in 0 .. (N - 1) * K - 1 : ReduceScatterCell(s, c) = ReduceScatterCell(s, d) => c = d
      BY ScatterFacts
    <2>. QED
      BY <1>3, <2>1, <2>2, <2>3, <2>4, <2>5
  <1>4. CASE kind = "all_gather"
    <2>1. /\ GridDim(kind) = K /\ \A c : CellIn(kind, s, c) = <<s, c>>
          /\ \A c : TargetsIn(kind, s, c) = Peers(s)
      BY <1>4 DEF GridDim, AllGatherGrid, CellIn, AllGatherCell, TargetsIn
    <2>2. ASSUME NEW r \in Peers(s), NEW x \in Cells, x[1] = s
          PROVE  \E c \in CTAs : Writes(kind, s, c, r, x)
      <3>1. PICK j \in 0 .. K - 1 : x = <<s, j>>
        BY <2>2 DEF Cells
      <3>2. j \in 0 .. GridDim(kind) - 1
        BY <2>1
      <3>. QED
        BY <1>1, <2>1, <3>1, <3>2 DEF Writes
    <2>. QED
      BY <1>4, <2>1, <2>2 DEF Cells
  <1>. QED
    BY <1>2, <1>3, <1>4 DEF Kinds

(* In the epochs of a program that the words suffice for, a ready value is *)
(* what it is meant to be, and values are ordered as epochs and phases.    *)
LEMMA ReadyValues ==
  ASSUME WordsSuffice, program \in Programs, NEW e \in 0 .. Len(program), NEW phase \in {1, 2}
  PROVE  ReadyValue(e, phase) = e * Stride + phase /\ e * Stride + phase \in Nat
  <1>1. Len(program) \in Nat
    BY ProgramsAssumption
  <1>2. Stride \in Nat /\ IntHalf \in Nat
    BY WidthAssumption
  <1>3. e * Stride <= Len(program) * Stride /\ e * Stride \in Nat /\ Len(program) * Stride \in Nat
    BY <1>1, <1>2, Monotone
  <1>4. Len(program) * Stride + 2 < IntHalf
    BY DEF WordsSuffice
  <1>. DEFINE v == e * Stride + phase
  <1>5. v \in Nat /\ v < IntHalf
    <2>. DEFINE a == e * Stride
                b == Len(program) * Stride
    <2>1. a <= b /\ a \in Nat /\ b \in Nat /\ b + 2 < IntHalf
      BY <1>3, <1>4
    <2>. HIDE DEF a, b
    <2>2. a + phase \in Nat /\ a + phase < IntHalf
      BY <1>2, <2>1
    <2>. QED
      BY <2>2 DEF a
  <1>6. ReadyValue(e, phase) = Wrap(v)
    BY DEF ReadyValue
  <1>. HIDE DEF v
  <1>7. (v + IntHalf) % (2 * IntHalf) = v + IntHalf
    <2>1. 2 * IntHalf \in Nat /\ 2 * IntHalf # 0 /\ v + IntHalf \in Nat /\ v + IntHalf < 2 * IntHalf
      BY <1>2, <1>5
    <2>. QED
      BY <2>1, Residue
  <1>8. Wrap(v) = v
    BY <1>2, <1>5, <1>7 DEF Wrap
  <1>. QED
    BY <1>5, <1>6, <1>8 DEF v

LEMMA ValuesAreOrdered ==
  ASSUME NEW e \in Nat, NEW f \in Nat
  PROVE  /\ f * Stride + 1 >= e * Stride + 1 => e <= f
         /\ f * Stride + 2 >= e * Stride + 1 => e <= f
         /\ f * Stride + 1 >= e * Stride + 2 => e < f
         /\ f * Stride + 2 >= e * Stride + 2 => e <= f
  <1>1. Stride \in Nat /\ Stride > 2
    BY WidthAssumption
  <1>2. ASSUME f < e PROVE f * Stride + Stride <= e * Stride
    <2>1. (f + 1) * Stride <= e * Stride
      BY <1>1, <1>2, Monotone
    <2>. QED
      BY <1>1, <2>1
  <1>3. f * Stride \in Nat /\ e * Stride \in Nat
    BY <1>1, Monotone
  <1>. DEFINE a == f * Stride
              b == e * Stride
  <1>4. a \in Nat /\ b \in Nat /\ (f < e => a + Stride <= b) /\ (f = e => a = b)
    BY <1>2, <1>3
  <1>. HIDE DEF a, b
  <1>5. /\ a + 1 >= b + 1 => ~(f < e)
        /\ a + 2 >= b + 1 => ~(f < e)
        /\ a + 1 >= b + 2 => ~(f < e) /\ f # e
        /\ a + 2 >= b + 2 => ~(f < e)
    BY <1>1, <1>4
  <1>. QED
    BY <1>5 DEF a, b

(* So are counters: nothing is added to one that reaches its width.        *)
LEMMA CounterBound ==
  ASSUME WordsSuffice, program \in Programs, NEW e \in 0 .. Len(program),
         NEW v \in Nat, v <= e * MaxArrivals
  PROVE  v < CounterMod /\ v % CounterMod = v
  <1>1. Len(program) \in Nat
    BY ProgramsAssumption
  <1>2. MaxArrivals \in Nat /\ CounterMod \in Nat /\ CounterMod # 0
    BY SizeFacts, WidthAssumption
  <1>. HIDE DEF MaxArrivals
  <1>3. /\ e * MaxArrivals <= Len(program) * MaxArrivals
        /\ e * MaxArrivals \in Nat /\ Len(program) * MaxArrivals \in Nat
    BY <1>1, <1>2, Monotone
  <1>4. Len(program) * MaxArrivals < CounterMod
    BY DEF WordsSuffice
  <1>. DEFINE a == e * MaxArrivals
              b == Len(program) * MaxArrivals
  <1>5. v <= a /\ a <= b /\ b < CounterMod /\ a \in Nat /\ b \in Nat
    BY <1>3, <1>4
  <1>. HIDE DEF a, b
  <1>6. v < CounterMod
    BY <1>2, <1>5
  <1>. QED
    BY <1>2, <1>6, Residue
-------------------------------------------------------------------------------
(* What the invariant says of a rank, its CTAs and its peers.              *)

LEMMA RankFacts ==
  ASSUME Typed, NEW r \in Ranks
  PROVE  /\ epoch[r] \in Nat /\ epoch[r] <= Len(program) /\ Len(program) \in Nat
         /\ epoch[r] = 0 => Grid(r) = {}
         /\ epoch[r] > 0 =>
                /\ Kind(r) \in Kinds /\ GridDim(Kind(r)) \in Nat \ {0}
                /\ 3 * GridDim(Kind(r)) <= MaxArrivals
                /\ Grid(r) = 0 .. GridDim(Kind(r)) - 1 /\ 0 \in Grid(r)
         /\ Grid(r) \subseteq CTAs /\ IsFiniteSet(Grid(r))
         /\ epoch[r] > 0 => Cardinality(Grid(r)) = GridDim(Kind(r))
  <1>1. epoch[r] \in 0 .. Len(program) /\ program \in Seq(Kinds) /\ Len(program) \in Nat
    BY ProgramsAssumption DEF Typed
  <1>2. CASE epoch[r] = 0
    BY <1>1, <1>2, FS_EmptySet DEF Grid
  <1>3. CASE epoch[r] > 0
    <2>1. epoch[r] \in 1 .. Len(program)
      BY <1>1, <1>3
    <2>2. Kind(r) \in Kinds
      BY <1>1, <2>1 DEF Kind
    <2>3. GridDim(Kind(r)) \in Nat \ {0} /\ 3 * GridDim(Kind(r)) <= MaxArrivals
          /\ 0 .. GridDim(Kind(r)) - 1 \subseteq CTAs
      BY <2>2, GridFacts
    <2>4. Grid(r) = 0 .. GridDim(Kind(r)) - 1
      BY <1>3 DEF Grid
    <2>5. IsFiniteSet(Grid(r)) /\ Cardinality(Grid(r)) = GridDim(Kind(r))
      BY <2>3, <2>4, FS_Interval
    <2>. QED
      BY <1>1, <1>3, <2>2, <2>3, <2>4, <2>5
  <1>. QED
    BY <1>1, <1>2, <1>3

LEMMA InGrid ==
  ASSUME Typed, NEW r \in Ranks, NEW c \in Grid(r)
  PROVE  c \in CTAs /\ epoch[r] > 0 /\ Kind(r) \in Kinds /\ pc[r][c] \in PCs
  BY RankFacts DEF Typed

LEMMA ArrivalFacts ==
  ASSUME Typed, NEW r \in Ranks, NEW k \in 1 .. 3
  PROVE  /\ IsFiniteSet(Arrived(r, k)) /\ Arrivals(r, k) \in Nat
         /\ Arrivals(r, k) <= Cardinality(Grid(r))
         /\ Arrivals(r, k) = Cardinality(Grid(r)) <=> Arrived(r, k) = Grid(r)
         /\ Arrived(r, k) = {} => Arrivals(r, k) = 0
  <1>1. Arrived(r, k) \subseteq Grid(r)
    BY DEF Arrived
  <1>. QED
    BY <1>1, RankFacts, FS_Subset, FS_CardinalityType, FS_EmptySet DEF Arrivals

(* The sum of the arrivals tells when all CTAs have arrived k times.       *)
LEMMA BarrierFacts ==
  ASSUME FcInv, WordsSuffice, NEW r \in Ranks, epoch[r] > 0, NEW k \in 1 .. 3, BarrierOpen(r, k)
  PROVE  Arrived(r, k) = Grid(r)
  <1>. DEFINE n == GridDim(Kind(r))
              b == base[r]
              cnt == counter[r][Kind(r)]
              last == last_value[r][Kind(r)]
              a(i) == Arrivals(r, i)
  <1>1. Typed /\ Counting(r) /\ Stages(r)
    BY DEF FcInv
  <1>2. /\ n \in Nat \ {0} /\ b \in Nat /\ cnt \in Nat /\ last \in Nat
        /\ Kind(r) \in Kinds /\ Cardinality(Grid(r)) = n
        /\ epoch[r] \in 0 .. Len(program) /\ program \in Programs
    BY <1>1, RankFacts DEF Typed
  <1>3. last = b + 3 * n /\ cnt = b + a(1) + a(2) + a(3)
    BY <1>1 DEF Counting
  <1>4. last < CounterMod
    <2>1. last <= epoch[r] * MaxArrivals
      BY <1>1, <1>2 DEF Counting
    <2>. HIDE DEF last
    <2>. QED
      BY <1>2, <2>1, CounterBound
  <1>5. \A i \in 1 .. 3 : /\ a(i) \in Nat /\ a(i) <= n
                          /\ a(i) = n <=> Arrived(r, i) = Grid(r)
                          /\ Arrived(r, i) = {} => a(i) = 0
    BY <1>1, <1>2, ArrivalFacts
  <1>6. /\ Arrived(r, 2) # {} => Arrived(r, 1) = Grid(r)
        /\ Arrived(r, 3) # {} => Arrived(r, 2) = Grid(r)
    <2>1. After(2) \subseteq Through(1) /\ After(3) \subseteq Through(2)
      BY DEF After, Through, PCs
    <2>. QED
      BY <1>1, <2>1 DEF Stages, Arrived
  <1>7. Target(r, k) = b + k * n
    <2>1. b + k * n \in Nat /\ b + k * n <= last
      BY <1>2, <1>3
    <2>2. b + k * n < CounterMod /\ CounterMod \in Nat
      BY <1>2, <1>4, <2>1, WidthAssumption
    <2>3. (b + k * n) % CounterMod = b + k * n
      BY <2>1, <2>2, WidthAssumption, Residue
    <2>. QED
      BY <2>3 DEF Target
  <1>8. cnt >= b + k * n
    BY <1>7 DEF BarrierOpen
  <1>. HIDE DEF n, b, cnt, last, a
  <1>9. CASE k = 1
    <2>1. a(1) = n
      BY <1>2, <1>3, <1>5, <1>6, <1>8, <1>9
    <2>. QED
      BY <1>5, <1>9, <2>1
  <1>10. CASE k = 2
    <2>1. a(2) = n
      BY <1>2, <1>3, <1>5, <1>6, <1>8, <1>10
    <2>. QED
      BY <1>5, <1>10, <2>1
  <1>11. CASE k = 3
    <2>1. a(3) = n
      BY <1>2, <1>3, <1>5, <1>8, <1>11
    <2>. QED
      BY <1>5, <1>11, <2>1
  <1>. QED
    BY <1>9, <1>10, <1>11

(* Through the second barrier all peers have been seen to have loaded.     *)
LEMMA AllHaveLoaded ==
  ASSUME FcInv, NEW r \in Ranks, NEW c \in Grid(r), pc[r][c] \in Through(2), NEW s \in Peers(r)
  PROVE  LoadedBy(s, epoch[r]) /\ Arrived(r, 2) = Grid(r)
  <1>1. Typed /\ Stages(r) /\ Rendezvous(r)
    BY DEF FcInv
  <1>2. Arrived(r, 2) = Grid(r)
    BY <1>1 DEF Stages
  <1>3. PICK d \in Grid(r) : s \in Stripe(r, d)
    BY <1>1, InGrid, StripesCover
  <1>4. pc[r][d] \in After(2)
    BY <1>2 DEF Arrived
  <1>. QED
    BY <1>1, <1>2, <1>3, <1>4 DEF Rendezvous

(* A rank whose kernel is complete has seen all peers send everything.     *)
LEMMA AllHaveSent ==
  ASSUME FcInv, NEW r \in Ranks, KernelDone(r)
  PROVE  /\ \A k \in 1 .. 3 : Arrived(r, k) = Grid(r)
         /\ \A s \in Peers(r) : epoch[r] > 0 => SentBy(s, epoch[r])
  <1>1. Typed /\ Rendezvous(r) /\ Grid(r) \subseteq CTAs
    BY RankFacts DEF FcInv
  <1>2. \A c \in Grid(r) : pc[r][c] = "done"
    BY <1>1 DEF KernelDone
  <1>3. \A k \in 1 .. 3 : Arrived(r, k) = Grid(r)
    <2>1. \A k \in 1 .. 3 : "done" \in After(k)
      BY DEF After, PCs
    <2>. QED
      BY <1>2, <2>1 DEF Arrived
  <1>4. ASSUME NEW s \in Peers(r), epoch[r] > 0 PROVE SentBy(s, epoch[r])
    <2>1. PICK d \in Grid(r) : s \in Stripe(r, d)
      BY <1>1, <1>4, RankFacts, StripesCover
    <2>. QED
      BY <1>1, <1>2, <2>1 DEF Rendezvous
  <1>. QED
    BY <1>3, <1>4

(* No rank is two launches ahead, and those behind have sent everything.   *)
LEMMA Pace ==
  ASSUME FcInv, NEW r \in Ranks, NEW s \in Ranks
  PROVE  /\ epoch[s] <= epoch[r] + 1
         /\ epoch[s] > epoch[r] => Arrived(r, 3) = Grid(r)
  <1>1. Typed /\ Rendezvous(s)
    BY DEF FcInv
  <1>2. epoch[r] \in Nat /\ epoch[s] \in Nat
    BY <1>1, RankFacts
  <1>3. CASE s = r \/ epoch[s] = 0
    BY <1>2, <1>3
  <1>4. CASE s # r /\ epoch[s] > 0
    <2>1. SentBy(r, epoch[s] - 1)
      BY <1>1, <1>4 DEF Rendezvous, Peers
    <2>. QED
      BY <1>2, <1>4, <2>1 DEF SentBy
  <1>. QED
    BY <1>2, <1>3, <1>4
-------------------------------------------------------------------------------
(* Steps.  A CTA arrives at the k-th barrier, passes it, exits, or does    *)
(* something that moves neither it nor the counter.                        *)

Front(k) == CASE k = 1 -> "start"    [] k = 2 -> "loaded"   [] k = 3 -> "fanout"
Gate(k) == CASE k = 1 -> "barrier1" [] k = 2 -> "barrier2" [] k = 3 -> "barrier3"
Beyond(k) == CASE k = 1 -> "loaded"   [] k = 2 -> "fanout"   [] k = 3 -> "sent"

LEMMA StageOrder ==
  ASSUME NEW k \in 1 .. 3, NEW j \in 1 .. 3
  PROVE  /\ {Front(k), Gate(k), Beyond(k), "sent", "done"} \subseteq PCs
         /\ Front(k) # "done" /\ Gate(k) # "done" /\ Beyond(k) # "done"
         /\ Front(k) \in After(j) <=> j < k
         /\ Gate(k) \in After(j) <=> j <= k
         /\ Beyond(k) \in After(j) <=> j <= k
         /\ Front(k) \in Through(j) <=> j < k
         /\ Gate(k) \in Through(j) <=> j < k
         /\ Beyond(k) \in Through(j) <=> j <= k
         /\ "sent" \in After(j) /\ "done" \in After(j) /\ "sent" \in Through(j)
         /\ "done" \in Through(j)
  <1>1. k \in {1, 2, 3} /\ j \in {1, 2, 3}
    OBVIOUS
  <1>. QED
    BY <1>1 DEF Front, Gate, Beyond, After, Through, PCs

Moves(r, c, from, to) == pc[r][c] = from /\ pc' = [pc EXCEPT ![r][c] = to]
Arrives(r, c, k) ==
    /\ Moves(r, c, Front(k), Gate(k))
    /\ counter' = [counter EXCEPT ![r][Kind(r)] = (@ + 1) % CounterMod]
    /\ k = 1 /\ WaitsForLoadFirst(r) => Loaded(r, c)
    /\ k = 2 => Ready(r, c, 1)
    /\ k = 3 => left[r][c] = {}
    /\ UNCHANGED left
Passes(r, c, k) ==
    /\ Moves(r, c, Gate(k), Beyond(k)) /\ BarrierOpen(r, k) /\ UNCHANGED counter
    /\ k = 2 => left' = [left EXCEPT ![r][c] = Targets(r, c)]
Exits(r, c) == Moves(r, c, "sent", "done") /\ Ready(r, c, 2) /\ UNCHANGED <<counter, left>>

LEMMA StepShape ==
  ASSUME NEW r \in Ranks, NEW c \in Grid(r), Step(r, c)
  PROVE  /\ UNCHANGED <<program, epoch, base, last_value>>
         /\ \/ /\ UNCHANGED <<pc, counter>>
               /\ \/ LoadLands(r, c) \/ Fanout(r, c)
                  \/ Publish(r, c, 1, "loaded") \/ Publish(r, c, 2, "sent")
            \/ /\ UNCHANGED <<inbox, shared, buf>>
               /\ \/ \E k \in 1 .. 3 : Arrives(r, c, k) \/ Passes(r, c, k)
                  \/ Exits(r, c)
  <1>1. CASE LoadLands(r, c) \/ Publish(r, c, 1, "loaded") \/ Publish(r, c, 2, "sent") \/ Fanout(r, c)
    BY <1>1 DEF LoadLands, Publish, Fanout
  <1>2. CASE FirstArrival(r, c)
    <2>1. Arrives(r, c, 1)
      BY <1>2 DEF FirstArrival, Arrive, Goto, Arrives, Moves, Front, Gate
    <2>. QED
      BY <1>2, <2>1 DEF FirstArrival, Arrive
  <1>3. CASE PeersLoaded(r, c)
    <2>1. Arrives(r, c, 2)
      BY <1>3 DEF PeersLoaded, Arrive, Goto, Arrives, Moves, Front, Gate
    <2>. QED
      BY <1>3, <2>1 DEF PeersLoaded, Arrive
  <1>4. CASE FanoutArrival(r, c)
    <2>1. Arrives(r, c, 3)
      BY <1>4 DEF FanoutArrival, Arrive, Goto, Arrives, Moves, Front, Gate
    <2>. QED
      BY <1>4, <2>1 DEF FanoutArrival, Arrive
  <1>5. CASE PassToRendezvous(r, c, 1, "barrier1", "loaded")
    <2>1. Passes(r, c, 1)
      BY <1>5 DEF PassToRendezvous, Goto, Passes, Moves, Gate, Beyond
    <2>. QED
      BY <1>5, <2>1 DEF PassToRendezvous
  <1>6. CASE PassToFanout(r, c)
    <2>1. Passes(r, c, 2)
      BY <1>6 DEF PassToFanout, Goto, Passes, Moves, Gate, Beyond
    <2>. QED
      BY <1>6, <2>1 DEF PassToFanout
  <1>7. CASE PassToRendezvous(r, c, 3, "barrier3", "sent")
    <2>1. Passes(r, c, 3)
      BY <1>7 DEF PassToRendezvous, Goto, Passes, Moves, Gate, Beyond
    <2>. QED
      BY <1>7, <2>1 DEF PassToRendezvous
  <1>8. CASE Exit(r, c)
    BY <1>8 DEF Exit, Exits, Moves, Goto
  <1>. QED
    BY <1>1, <1>2, <1>3, <1>4, <1>5, <1>6, <1>7, <1>8 DEF Step

(* A move of one CTA changes no other, and what it changes for the counts. *)
LEMMA MoveFacts ==
  ASSUME Typed, NEW r \in Ranks, NEW c \in Grid(r), NEW from, NEW to, Moves(r, c, from, to),
         UNCHANGED <<program, epoch>>
  PROVE  /\ pc'[r][c] = to
         /\ \A q \in Ranks, d \in CTAs : q # r \/ d # c => pc'[q][d] = pc[q][d]
         /\ \A k \in 1 .. 3 : to \in After(k) => Arrived(r, k)' = Arrived(r, k) \cup {c}
         /\ \A k \in 1 .. 3 : from \notin After(k) /\ to \notin After(k) =>
                                  Arrived(r, k)' = Arrived(r, k)
         /\ \A k \in 1 .. 3 : from \in After(k) => c \in Arrived(r, k)
         /\ \A k \in 1 .. 3 : from \notin After(k) => c \notin Arrived(r, k)
         /\ \A q \in Ranks \ {r} : \A k \in 1 .. 3 : Arrived(q, k)' = Arrived(q, k)
  <1>1. c \in CTAs /\ \A q \in Ranks : Grid(q) \subseteq CTAs
    BY InGrid, RankFacts
  <1>2. /\ pc'[r][c] = to
        /\ \A q \in Ranks, d \in CTAs : q # r \/ d # c => pc'[q][d] = pc[q][d]
    BY <1>1 DEF Moves, Typed
  <1>3. \A q \in Ranks : Grid(q)' = Grid(q)
    BY DEF Grid, Kind
  <1>4. \A k \in 1 .. 3 : from \in After(k) <=> c \in Arrived(r, k)
    BY DEF Arrived, Moves
  <1>5. ASSUME NEW k \in 1 .. 3, to \in After(k)
        PROVE  Arrived(r, k)' = Arrived(r, k) \cup {c}
    BY <1>1, <1>2, <1>3, <1>5 DEF Arrived
  <1>6. ASSUME NEW k \in 1 .. 3, from \notin After(k), to \notin After(k)
        PROVE  Arrived(r, k)' = Arrived(r, k)
    BY <1>1, <1>2, <1>3, <1>4, <1>6 DEF Arrived
  <1>7. \A q \in Ranks \ {r} : \A k \in 1 .. 3 : Arrived(q, k)' = Arrived(q, k)
    BY <1>1, <1>2, <1>3 DEF Arrived
  <1>. QED
    BY <1>2, <1>4, <1>5, <1>6, <1>7

LEMMA MoveKeeps ==
  ASSUME Typed, NEW r \in Ranks, NEW c \in Grid(r), NEW from, NEW to, Moves(r, c, from, to),
         UNCHANGED <<program, epoch>>, NEW k \in 1 .. 3, from \in After(k) <=> to \in After(k)
  PROVE  Arrived(r, k)' = Arrived(r, k)
  <1>1. CASE to \in After(k)
    <2>1. c \in Arrived(r, k)
      BY <1>1, MoveFacts
    <2>2. Arrived(r, k)' = Arrived(r, k) \cup {c}
      BY <1>1, MoveFacts
    <2>. QED
      BY <2>1, <2>2
  <1>2. CASE to \notin After(k)
    BY <1>2, MoveFacts
  <1>. QED
    BY <1>1, <1>2

(* Every step leaves a rank in its epoch, with no fewer arrivals, or takes *)
(* it to the next.                                                         *)
Onward(q) ==
    \/ /\ epoch'[q] = epoch[q] /\ Grid(q)' = Grid(q) /\ (epoch[q] > 0 => Kind(q)' = Kind(q))
       /\ \A k \in 1 .. 3 : Arrived(q, k) \subseteq Arrived(q, k)'
    \/ epoch'[q] = epoch[q] + 1 /\ KernelDone(q)

LEMMA StepOnward ==
  ASSUME Typed, NEW r \in Ranks, NEW c \in Grid(r), Step(r, c), NEW q \in Ranks
  PROVE  /\ Onward(q) /\ epoch'[q] = epoch[q] /\ Grid(q)' = Grid(q) /\ Kind(q)' = Kind(q)
         /\ \A k \in 1 .. 3 : Arrived(q, k) \subseteq Arrived(q, k)'
  <1>1. UNCHANGED <<program, epoch>>
    BY StepShape
  <1>2. Grid(q)' = Grid(q) /\ Kind(q)' = Kind(q)
    BY <1>1 DEF Grid, Kind
  <1>3. ASSUME NEW k \in 1 .. 3 PROVE Arrived(q, k) \subseteq Arrived(q, k)'
    <2>1. CASE UNCHANGED pc
      BY <1>2, <2>1 DEF Arrived
    <2>2. CASE \E from, to \in PCs : Moves(r, c, from, to) /\ (to \in After(k) \/ from \notin After(k))
      <3>1. PICK from, to \in PCs : Moves(r, c, from, to) /\ (to \in After(k) \/ from \notin After(k))
        BY <2>2
      <3>. QED
        BY <1>1, <3>1, MoveFacts
    <2>3. CASE \E j \in 1 .. 3 : Arrives(r, c, j) \/ Passes(r, c, j)
      <3>1. PICK j \in 1 .. 3 : Arrives(r, c, j) \/ Passes(r, c, j)
        BY <2>3
      <3>2. Moves(r, c, Front(j), Gate(j)) \/ Moves(r, c, Gate(j), Beyond(j))
        BY <3>1 DEF Arrives, Passes
      <3>. QED
        BY <2>2, <3>2, StageOrder
    <2>4. CASE Exits(r, c)
      BY <2>2, <2>4, StageOrder DEF Exits
    <2>. QED
      BY <2>1, <2>3, <2>4, StepShape
  <1>. QED
    BY <1>1, <1>2, <1>3 DEF Onward

LEMMA Stable ==
  ASSUME Typed, NEW q \in Ranks, Onward(q), NEW e \in Nat
  PROVE  /\ LoadedBy(q, e) => LoadedBy(q, e)'
         /\ SentBy(q, e) => SentBy(q, e)'
  <1>1. epoch[q] \in Nat
    BY RankFacts
  <1>2. \A k : Arrived(q, k)' \subseteq Grid(q)'
    BY DEF Arrived
  <1>3. CASE epoch'[q] = epoch[q] + 1
    BY <1>1, <1>3 DEF LoadedBy, SentBy
  <1>4. CASE /\ epoch'[q] = epoch[q] /\ Grid(q)' = Grid(q)
             /\ \A k \in 1 .. 3 : Arrived(q, k) \subseteq Arrived(q, k)'
    BY <1>2, <1>4 DEF LoadedBy, SentBy
  <1>. QED
    BY <1>3, <1>4 DEF Onward
-------------------------------------------------------------------------------
(* The step of a CTA, one conjunct of the invariant at a time.             *)

LEMMA CellAndTargets ==
  ASSUME Typed, NEW r \in Ranks, NEW c \in Grid(r)
  PROVE  /\ Cell(r, c) = CellIn(Kind(r), r, c) /\ Targets(r, c) = TargetsIn(Kind(r), r, c)
         /\ Cell(r, c) \in Cells /\ Targets(r, c) \subseteq Peers(r)
         /\ \A s, x : Writes(Kind(r), r, c, s, x) <=> Cell(r, c) = x /\ s \in Targets(r, c)
  <1>1. Cell(r, c) = CellIn(Kind(r), r, c) /\ Targets(r, c) = TargetsIn(Kind(r), r, c)
    BY DEF Cell, CellIn, Targets, TargetsIn
  <1>2. Kind(r) \in Kinds /\ c \in 0 .. GridDim(Kind(r)) - 1
    BY InGrid, RankFacts
  <1>. QED
    BY <1>1, <1>2, WritesFacts DEF Writes

LEMMA StepTyped ==
  ASSUME FcInv, WordsSuffice, NEW r \in Ranks, NEW c \in Grid(r), Step(r, c)
  PROVE  Typed'
  <1>1. Typed /\ c \in CTAs /\ Kind(r) \in Kinds
    BY InGrid DEF FcInv
  <1>2. UNCHANGED <<program, epoch, base, last_value>>
    BY StepShape
  <1>3. pc' \in [Ranks -> [CTAs -> PCs]] /\ counter' \in [Ranks -> [Kinds -> Nat]]
    <2>1. CASE UNCHANGED <<pc, counter>>
      BY <1>1, <2>1 DEF Typed
    <2>2. ASSUME NEW to \in PCs, NEW from, Moves(r, c, from, to)
          PROVE  pc' \in [Ranks -> [CTAs -> PCs]]
      BY <1>1, <2>2 DEF Typed, Moves
    <2>3. ASSUME NEW k \in 1 .. 3, Arrives(r, c, k)
          PROVE  pc' \in [Ranks -> [CTAs -> PCs]] /\ counter' \in [Ranks -> [Kinds -> Nat]]
      <3>. DEFINE v == (counter[r][Kind(r)] + 1) % CounterMod
      <3>1. v \in Nat /\ counter' = [counter EXCEPT ![r][Kind(r)] = v]
        <4>1. counter[r][Kind(r)] + 1 \in Nat /\ CounterMod \in Nat /\ CounterMod # 0
          BY <1>1, WidthAssumption DEF Typed
        <4>2. counter' = [counter EXCEPT ![r][Kind(r)] = v]
          BY <1>1, <2>3 DEF Arrives, Typed
        <4>. QED
          BY <4>1, <4>2
      <3>. HIDE DEF v
      <3>2. counter' \in [Ranks -> [Kinds -> Nat]]
        BY <1>1, <3>1 DEF Typed
      <3>. QED
        BY <2>2, <2>3, <3>2, StageOrder DEF Arrives
    <2>4. ASSUME NEW k \in 1 .. 3, Passes(r, c, k)
          PROVE  pc' \in [Ranks -> [CTAs -> PCs]] /\ counter' \in [Ranks -> [Kinds -> Nat]]
      BY <1>1, <2>2, <2>4, StageOrder DEF Passes, Typed
    <2>5. ASSUME Exits(r, c)
          PROVE  pc' \in [Ranks -> [CTAs -> PCs]] /\ counter' \in [Ranks -> [Kinds -> Nat]]
      BY <1>1, <2>2, <2>5, StageOrder DEF Exits, Typed
    <2>. QED
      BY <2>1, <2>3, <2>4, <2>5, StepShape
  <1>4. inbox' \in [Ranks -> [Ranks -> Nat]]
    <2>1. ASSUME NEW phase \in {1, 2}, NEW at, Publish(r, c, phase, at)
          PROVE  inbox' \in [Ranks -> [Ranks -> Nat]]
      <3>. DEFINE v == ReadyValue(epoch[r], phase)
      <3>1. v \in Nat
        BY <1>1, ReadyValues DEF Typed
      <3>2. PICK s \in left[r][c] : inbox' = [inbox EXCEPT ![s][r] = v]
        BY <2>1 DEF Publish
      <3>. HIDE DEF v
      <3>. QED
        BY <1>1, <3>1, <3>2 DEF Typed
    <2>2. ASSUME UNCHANGED inbox PROVE inbox' \in [Ranks -> [Ranks -> Nat]]
      BY <1>1, <2>2 DEF Typed
    <2>. QED
      BY <2>1, <2>2 DEF Step, LoadLands, FirstArrival, Arrive, PassToRendezvous, PeersLoaded,
                        PassToFanout, Fanout, FanoutArrival, Exit
  <1>5. left' \in [Ranks -> [CTAs -> SUBSET Ranks]]
    <2>1. ASSUME NEW T \in SUBSET Ranks, left' = [left EXCEPT ![r][c] = T]
          PROVE  left' \in [Ranks -> [CTAs -> SUBSET Ranks]]
      BY <1>1, <2>1 DEF Typed
    <2>2. left[r][c] \in SUBSET Ranks /\ Peers(r) \in SUBSET Ranks /\ Targets(r, c) \in SUBSET Ranks
      BY <1>1, CellAndTargets DEF Typed, Peers
    <2>3. ASSUME NEW s, left' = [left EXCEPT ![r][c] = @ \ {s}]
          PROVE  left' \in [Ranks -> [CTAs -> SUBSET Ranks]]
      BY <1>1, <2>3 DEF Typed
    <2>4. ASSUME UNCHANGED left PROVE left' \in [Ranks -> [CTAs -> SUBSET Ranks]]
      BY <1>1, <2>4 DEF Typed
    <2>5. ASSUME NEW k, NEW from, NEW to, PassToRendezvous(r, c, k, from, to)
          PROVE  left' \in [Ranks -> [CTAs -> SUBSET Ranks]]
      <3>1. left' = [left EXCEPT ![r][c] = IF c = 0 THEN Peers(r) ELSE {}]
        BY <2>5 DEF PassToRendezvous
      <3>2. (IF c = 0 THEN Peers(r) ELSE {}) \in SUBSET Ranks
        BY <2>2
      <3>. QED
        BY <2>1, <3>1, <3>2
    <2>6. ASSUME PassToFanout(r, c) PROVE left' \in [Ranks -> [CTAs -> SUBSET Ranks]]
      BY <2>1, <2>2, <2>6 DEF PassToFanout
    <2>7. ASSUME NEW phase, NEW at, Publish(r, c, phase, at)
          PROVE  left' \in [Ranks -> [CTAs -> SUBSET Ranks]]
      BY <2>3, <2>7 DEF Publish
    <2>8. ASSUME Fanout(r, c) PROVE left' \in [Ranks -> [CTAs -> SUBSET Ranks]]
      BY <2>3, <2>8 DEF Fanout
    <2>9. ASSUME LoadLands(r, c) \/ FirstArrival(r, c) \/ PeersLoaded(r, c) \/ FanoutArrival(r, c)
                 \/ Exit(r, c)
          PROVE  UNCHANGED left
      BY <2>9 DEF LoadLands, FirstArrival, Arrive, PeersLoaded, FanoutArrival, Exit
    <2>. QED
      BY <2>4, <2>5, <2>6, <2>7, <2>8, <2>9 DEF Step
  <1>6. shared' \in [Ranks -> [CTAs -> [Ranks -> Int]]]
    <2>1. ASSUME LoadLands(r, c) PROVE shared' \in [Ranks -> [CTAs -> [Ranks -> Int]]]
      <3>1. Cell(r, c) \in Cells
        BY <1>1, CellAndTargets
      <3>2. buf[r][Cell(r, c)] \in [Ranks -> Int]
        BY <1>1, <3>1 DEF Typed
      <3>. QED
        BY <1>1, <2>1, <3>2 DEF Typed, LoadLands
    <2>2. ASSUME UNCHANGED shared PROVE shared' \in [Ranks -> [CTAs -> [Ranks -> Int]]]
      BY <1>1, <2>2 DEF Typed
    <2>. QED
      BY <2>1, <2>2 DEF Step, Publish, FirstArrival, Arrive, PassToRendezvous, PeersLoaded,
                        PassToFanout, Fanout, FanoutArrival, Exit
  <1>7. buf' \in [Ranks -> [Cells -> [Ranks -> Int]]]
    <2>1. ASSUME Fanout(r, c) PROVE buf' \in [Ranks -> [Cells -> [Ranks -> Int]]]
      <3>. DEFINE v(s) == IF Kind(r) = "all_gather" THEN shared[r][c]
                          ELSE Plus(buf[s][Cell(r, c)], shared[r][c])
      <3>1. PICK s \in left[r][c] : buf' = [buf EXCEPT ![s][Cell(r, c)] =
                        IF Kind(r) = "all_gather" THEN shared[r][c] ELSE Plus(@, shared[r][c])]
        BY <2>1 DEF Fanout
      <3>2. s \in Ranks /\ Cell(r, c) \in Cells /\ shared[r][c] \in [Ranks -> Int]
        BY <1>1, CellAndTargets DEF Typed
      <3>3. buf[s][Cell(r, c)] \in [Ranks -> Int]
        BY <1>1, <3>2 DEF Typed
      <3>4. buf' = [buf EXCEPT ![s][Cell(r, c)] = v(s)]
        BY <1>1, <3>1, <3>2 DEF Typed
      <3>5. v(s) \in [Ranks -> Int]
        BY <3>2, <3>3 DEF Plus
      <3>. HIDE DEF v
      <3>. QED
        BY <1>1, <3>2, <3>4, <3>5 DEF Typed
    <2>2. ASSUME UNCHANGED buf PROVE buf' \in [Ranks -> [Cells -> [Ranks -> Int]]]
      BY <1>1, <2>2 DEF Typed
    <2>. QED
      BY <2>1, <2>2 DEF Step, LoadLands, Publish, FirstArrival, Arrive, PassToRendezvous,
                        PeersLoaded, PassToFanout, FanoutArrival, Exit
  <1>. QED
    BY <1>1, <1>2, <1>3, <1>4, <1>5, <1>6, <1>7 DEF Typed

(* A rank that the step is not of keeps its counts and stages.             *)
LEMMA OthersCount ==
  ASSUME FcInv, NEW q \in Ranks, UNCHANGED program, epoch'[q] = epoch[q],
         base'[q] = base[q], last_value'[q] = last_value[q], counter'[q] = counter[q],
         pc'[q] = pc[q]
  PROVE  Counting(q)' /\ Stages(q)'
  <1>1. Grid(q)' = Grid(q) /\ Kind(q)' = Kind(q)
    BY DEF Grid, Kind
  <1>2. \A k \in 1 .. 3 : Arrived(q, k)' = Arrived(q, k)
    BY <1>1 DEF Arrived
  <1>3. \A k \in 1 .. 3 : Arrivals(q, k)' = Arrivals(q, k)
    BY <1>2 DEF Arrivals
  <1>4. Counting(q) /\ Stages(q)
    BY DEF FcInv
  <1>5. Counting(q)'
    BY <1>1, <1>3, <1>4 DEF Counting
  <1>6. Stages(q)'
    BY <1>1, <1>2, <1>4 DEF Stages
  <1>. QED
    BY <1>5, <1>6

LEMMA StepOthers ==
  ASSUME FcInv, NEW r \in Ranks, NEW c \in Grid(r), Step(r, c), NEW q \in Ranks, q # r
  PROVE  pc'[q] = pc[q] /\ counter'[q] = counter[q]
  <1>1. Typed /\ c \in CTAs
    BY InGrid DEF FcInv
  <1>2. ASSUME NEW from, NEW to, Moves(r, c, from, to) PROVE pc'[q] = pc[q]
    BY <1>1, <1>2 DEF Moves, Typed
  <1>3. ASSUME NEW k \in 1 .. 3, Arrives(r, c, k) PROVE counter'[q] = counter[q]
    BY <1>1, <1>3 DEF Arrives, Typed
  <1>. QED
    BY <1>2, <1>3, StepShape DEF Arrives, Passes, Exits

LEMMA StepCounting ==
  ASSUME FcInv, WordsSuffice, NEW r \in Ranks, NEW c \in Grid(r), Step(r, c)
  PROVE  Counting(r)'
  <1>1. Typed /\ c \in CTAs /\ Kind(r) \in Kinds /\ epoch[r] > 0 /\ Counting(r)
    BY InGrid DEF FcInv
  <1>2. UNCHANGED <<program, epoch, base, last_value>>
    BY StepShape
  <1>a. UNCHANGED <<program, epoch>>
    BY <1>2
  <1>3. Grid(r)' = Grid(r) /\ Kind(r)' = Kind(r)
    BY StepOnward, <1>1
  <1>4. ASSUME counter'[r] = counter[r], \A k \in 1 .. 3 : Arrived(r, k)' = Arrived(r, k)
        PROVE  Counting(r)'
    <2>1. \A k \in 1 .. 3 : Arrivals(r, k)' = Arrivals(r, k)
      BY <1>4 DEF Arrivals
    <2>. QED
      BY <1>1, <1>2, <1>3, <1>4, <2>1 DEF Counting
  <1>5. CASE UNCHANGED <<pc, counter>>
    BY <1>3, <1>4, <1>5 DEF Arrived
  <1>6. CASE \E k \in 1 .. 3 : Passes(r, c, k)
    <2>1. PICK k \in 1 .. 3 : Passes(r, c, k)
      BY <1>6
    <2>2. Moves(r, c, Gate(k), Beyond(k)) /\ counter'[r] = counter[r]
      BY <2>1 DEF Passes
    <2>3. ASSUME NEW j \in 1 .. 3 PROVE Arrived(r, j)' = Arrived(r, j)
      <3>1. Gate(k) \in After(j) <=> Beyond(k) \in After(j)
        BY StageOrder
      <3>. QED
        BY <1>1, <1>a, <2>2, <3>1, MoveKeeps
    <2>. QED
      BY <1>4, <2>2, <2>3
  <1>7. CASE Exits(r, c)
    <2>1. Moves(r, c, "sent", "done") /\ counter'[r] = counter[r]
      BY <1>7 DEF Exits
    <2>2. ASSUME NEW j \in 1 .. 3 PROVE Arrived(r, j)' = Arrived(r, j)
      <3>1. "sent" \in After(j) <=> "done" \in After(j)
        BY StageOrder
      <3>. QED
        BY <1>1, <1>a, <2>1, <3>1, MoveKeeps
    <2>. QED
      BY <1>4, <2>1, <2>2
  <1>8. CASE \E k \in 1 .. 3 : Arrives(r, c, k)
    <2>. DEFINE n == GridDim(Kind(r))
                b == base[r]
                cnt == counter[r][Kind(r)]
                last == last_value[r][Kind(r)]
    <2>1. PICK k \in 1 .. 3 : Arrives(r, c, k)
      BY <1>8
    <2>2. Moves(r, c, Front(k), Gate(k)) /\ counter' = [counter EXCEPT ![r][Kind(r)] = (@ + 1) % CounterMod]
      BY <2>1 DEF Arrives
    <2>3. /\ \A j \in 1 .. 3 : j # k => Arrived(r, j)' = Arrived(r, j)
          /\ Arrived(r, k)' = Arrived(r, k) \cup {c} /\ c \notin Arrived(r, k)
      <3>1. ASSUME NEW j \in 1 .. 3, j # k PROVE Arrived(r, j)' = Arrived(r, j)
        <4>1. Front(k) \in After(j) <=> Gate(k) \in After(j)
          BY <3>1, StageOrder
        <4>. QED
          BY <1>1, <1>a, <2>2, <4>1, MoveKeeps
      <3>2. Front(k) \notin After(k) /\ Gate(k) \in After(k)
        BY StageOrder
      <3>3. Arrived(r, k)' = Arrived(r, k) \cup {c} /\ c \notin Arrived(r, k)
        BY <1>1, <1>a, <2>2, <3>2, MoveFacts
      <3>. QED
        BY <3>1, <3>3
    <2>4. /\ \A j \in 1 .. 3 : j # k => Arrivals(r, j)' = Arrivals(r, j)
          /\ Arrivals(r, k)' = Arrivals(r, k) + 1
          /\ Arrivals(r, k)' <= n
      <3>1. IsFiniteSet(Arrived(r, k))
        BY <1>1, ArrivalFacts
      <3>2. Arrivals(r, k)' = Cardinality(Arrived(r, k) \cup {c})
        BY <2>3 DEF Arrivals
      <3>3. Cardinality(Arrived(r, k) \cup {c}) = Arrivals(r, k) + 1
        BY <2>3, <3>1, FS_AddElement DEF Arrivals
      <3>4. Arrived(r, k) \cup {c} \subseteq Grid(r)
        BY DEF Arrived
      <3>5. Cardinality(Arrived(r, k) \cup {c}) <= n
        BY <1>1, <3>4, RankFacts, FS_Subset
      <3>. QED
        BY <2>3, <3>2, <3>3, <3>5 DEF Arrivals
    <2>5. /\ \A j \in 1 .. 3 : Arrivals(r, j) \in Nat /\ Arrivals(r, j) <= n
          /\ n \in Nat /\ b \in Nat /\ cnt \in Nat /\ last \in Nat
          /\ cnt = b + Arrivals(r, 1) + Arrivals(r, 2) + Arrivals(r, 3) /\ last = b + 3 * n
      BY <1>1, ArrivalFacts, RankFacts DEF Counting, Typed
    <2>6. cnt + 1 = b + Arrivals(r, 1)' + Arrivals(r, 2)' + Arrivals(r, 3)' /\ cnt + 1 <= last
      <3>. HIDE DEF n, b, cnt, last
      <3>1. k = 1 \/ k = 2 \/ k = 3
        OBVIOUS
      <3>. QED
        BY <2>4, <2>5, <3>1
    <2>7. (cnt + 1) % CounterMod = cnt + 1
      <3>1. last <= epoch[r] * MaxArrivals
        BY <1>1 DEF Counting
      <3>2. last < CounterMod
        <4>. HIDE DEF last
        <4>1. epoch[r] \in 0 .. Len(program) /\ program \in Programs
          BY <1>1 DEF Typed
        <4>. QED
          BY <2>5, <3>1, <4>1, CounterBound
      <3>. HIDE DEF cnt, last
      <3>3. cnt + 1 \in Nat /\ cnt + 1 < CounterMod
        BY <2>5, <2>6, <3>2, WidthAssumption
      <3>. QED
        BY <3>3, Residue, WidthAssumption
    <2>8. counter'[r] = [counter[r] EXCEPT ![Kind(r)] = cnt + 1]
      <3>1. counter' = [counter EXCEPT ![r][Kind(r)] = cnt + 1]
        BY <1>1, <2>2, <2>7 DEF Typed
      <3>. QED
        BY <1>1, <3>1 DEF Typed
    <2>9. counter'[r][Kind(r)] = cnt + 1 /\ \A j \in Kinds \ {Kind(r)} : counter'[r][j] = counter[r][j]
      BY <1>1, <2>8 DEF Typed
    <2>10. epoch[r] # 0
      BY <1>1, RankFacts
    <2>. QED
      BY <1>1, <1>2, <1>3, <2>6, <2>9, <2>10 DEF Counting
  <1>. QED
    BY <1>5, <1>6, <1>7, <1>8, StepShape

LEMMA StepStages ==
  ASSUME FcInv, WordsSuffice, NEW r \in Ranks, NEW c \in Grid(r), Step(r, c)
  PROVE  Stages(r)'
  <1>1. Typed /\ c \in CTAs /\ epoch[r] > 0 /\ Stages(r) /\ Grid(r) \subseteq CTAs
    BY InGrid, RankFacts DEF FcInv
  <1>2. UNCHANGED <<program, epoch>>
    BY StepShape
  <1>3. /\ Grid(r)' = Grid(r) /\ \A k \in 1 .. 3 : Arrived(r, k) \subseteq Arrived(r, k)'
        /\ \A k \in 1 .. 3 : Arrived(r, k)' \subseteq Grid(r)
    BY StepOnward, <1>1 DEF Arrived
  <1>4. ASSUME NEW from, NEW to, Moves(r, c, from, to),
               \A j \in 1 .. 3 : to \in Through(j) => from \in Through(j) \/ Arrived(r, j) = Grid(r)
        PROVE  Stages(r)'
    <2>1. /\ pc'[r][c] = to /\ pc[r][c] = from
          /\ \A d \in CTAs : d # c => pc'[r][d] = pc[r][d]
      BY <1>1, <1>4 DEF Moves, Typed
    <2>2. \A d \in CTAs \ Grid(r)' : pc'[r][d] = "done"
      BY <1>1, <1>3, <2>1 DEF Stages
    <2>3. ASSUME NEW d \in Grid(r), NEW k \in 1 .. 3, pc'[r][d] \in Through(k)
          PROVE  Arrived(r, k)' = Grid(r)
      <3>1. Arrived(r, k) = Grid(r)
        BY <1>1, <1>4, <2>1, <2>3 DEF Stages
      <3>. QED
        BY <1>3, <3>1
    <2>. QED
      BY <1>3, <2>2, <2>3 DEF Stages
  <1>5. CASE UNCHANGED <<pc, counter>>
    <2>1. Stages(r)' <=> Stages(r)
      <3>1. \A k \in 1 .. 3 : Arrived(r, k)' = Arrived(r, k)
        BY <1>3, <1>5 DEF Arrived
      <3>. QED
        BY <1>3, <1>5, <3>1 DEF Stages
    <2>. QED
      BY <1>1, <2>1
  <1>6. ASSUME NEW k \in 1 .. 3, Arrives(r, c, k) PROVE Stages(r)'
    BY <1>4, <1>6, StageOrder DEF Arrives
  <1>7. ASSUME NEW k \in 1 .. 3, Passes(r, c, k) PROVE Stages(r)'
    <2>1. Arrived(r, k) = Grid(r) /\ Moves(r, c, Gate(k), Beyond(k))
      BY <1>1, <1>7, BarrierFacts DEF Passes
    <2>2. \A j \in 1 .. 3 : j <= k => j < k \/ j = k
      OBVIOUS
    <2>. QED
      BY <1>4, <2>1, <2>2, StageOrder
  <1>8. ASSUME Exits(r, c) PROVE Stages(r)'
    BY <1>4, <1>8, StageOrder DEF Exits
  <1>. QED
    BY <1>5, <1>6, <1>7, <1>8, StepShape
-------------------------------------------------------------------------------
LEMMA StepRendezvous ==
  ASSUME FcInv, WordsSuffice, NEW r \in Ranks, NEW c \in Grid(r), Step(r, c), NEW q \in Ranks
  PROVE  Rendezvous(q)'
  <1>1. /\ Typed /\ c \in CTAs /\ epoch[r] > 0 /\ Stages(r) /\ Rendezvous(q) /\ Rendezvous(r)
        /\ epoch[q] \in Nat /\ epoch[r] \in Nat
    BY InGrid, RankFacts DEF FcInv
  <1>2. UNCHANGED <<program, epoch>>
    BY StepShape
  <1>3. \A s \in Ranks, e \in Nat :
            (LoadedBy(s, e) => LoadedBy(s, e)') /\ (SentBy(s, e) => SentBy(s, e)')
    BY <1>1, StepOnward, Stable
  <1>4. Grid(q)' = Grid(q) /\ Kind(q)' = Kind(q) /\ Grid(q) \subseteq CTAs
    BY <1>1, StepOnward, RankFacts
  <1>5. Peers(q) \subseteq Ranks /\ \A d : Stripe(q, d) \subseteq Peers(q)
    BY DEF Peers, Stripe
  <1>6. \A d : Stripe(q, d)' = Stripe(q, d)
    BY <1>4 DEF Stripe
  <1>7. ASSUME NEW s \in Peers(q), NEW e \in Nat
        PROVE  /\ inbox'[q][s] >= e * Stride + 1 => LoadedBy(s, e)'
               /\ inbox'[q][s] >= e * Stride + 2 => SentBy(s, e)'
    <2>1. CASE inbox'[q][s] = inbox[q][s]
      BY <1>1, <1>3, <1>5, <2>1 DEF Rendezvous
    <2>2. ASSUME NEW phase \in {1, 2}, NEW at, Publish(r, c, phase, at),
                 at = (IF phase = 1 THEN "loaded" ELSE "sent"), inbox'[q][s] # inbox[q][s]
          PROVE  /\ inbox'[q][s] >= e * Stride + 1 => LoadedBy(s, e)
                 /\ inbox'[q][s] >= e * Stride + 2 => SentBy(s, e)
      <3>1. PICK t \in left[r][c] : inbox' = [inbox EXCEPT ![t][r] = ReadyValue(epoch[r], phase)]
        BY <2>2 DEF Publish
      <3>2. s = r /\ inbox'[q][s] = ReadyValue(epoch[r], phase)
        BY <1>1, <1>5, <2>2, <3>1 DEF Typed
      <3>3. inbox'[q][s] = epoch[r] * Stride + phase
        BY <1>1, <3>2, ReadyValues DEF Typed
      <3>4. CASE phase = 1
        <4>1. Arrived(r, 1) = Grid(r)
          <5>1. pc[r][c] \in Through(1)
            BY <2>2, <3>4 DEF Publish, Through, PCs
          <5>. QED
            BY <1>1, <5>1 DEF Stages
        <4>. QED
          BY <1>1, <3>2, <3>3, <3>4, <4>1, ValuesAreOrdered DEF LoadedBy, SentBy
      <3>5. CASE phase = 2
        <4>1. Arrived(r, 1) = Grid(r) /\ Arrived(r, 3) = Grid(r)
          <5>1. pc[r][c] \in Through(1) /\ pc[r][c] \in Through(3)
            BY <2>2, <3>5 DEF Publish, Through, PCs
          <5>. QED
            BY <1>1, <5>1 DEF Stages
        <4>. QED
          BY <1>1, <3>2, <3>3, <3>5, <4>1, ValuesAreOrdered DEF LoadedBy, SentBy
      <3>. QED
        BY <3>4, <3>5
    <2>3. CASE Publish(r, c, 1, "loaded") /\ inbox'[q][s] # inbox[q][s]
      BY <1>3, <1>5, <2>2, <2>3
    <2>4. CASE Publish(r, c, 2, "sent") /\ inbox'[q][s] # inbox[q][s]
      BY <1>3, <1>5, <2>2, <2>4
    <2>. QED
      BY <2>1, <2>3, <2>4 DEF Step, LoadLands, FirstArrival, Arrive, PassToRendezvous,
                              PeersLoaded, PassToFanout, Fanout, FanoutArrival, Exit
  (* What CTA c has just seen of its stripe. *)
  <1>8. ASSUME NEW s \in Stripe(r, c)
        PROVE  /\ Ready(r, c, 1) => LoadedBy(s, epoch[r])
               /\ Ready(r, c, 2) => SentBy(s, epoch[r])
    <2>1. s \in Peers(r)
      BY DEF Stripe
    <2>2. \A phase \in {1, 2} : ReadyValue(epoch[r], phase) = epoch[r] * Stride + phase
      BY <1>1, ReadyValues DEF Typed
    <2>. QED
      BY <1>1, <2>1, <2>2 DEF Ready, Rendezvous
  <1>9. ASSUME NEW d \in Grid(q), NEW s \in Stripe(q, d)
        PROVE  /\ pc'[q][d] \in After(2) => LoadedBy(s, epoch[q])
               /\ pc'[q][d] = "done" => SentBy(s, epoch[q])
    <2>1. CASE pc'[q][d] = pc[q][d]
      BY <1>1, <2>1 DEF Rendezvous
    <2>2. CASE q # r \/ d # c
      <3>1. ASSUME NEW from, NEW to, Moves(r, c, from, to) PROVE pc'[q][d] = pc[q][d]
        BY <1>1, <1>4, <2>2, <3>1 DEF Moves, Typed
      <3>2. pc'[q][d] = pc[q][d]
        BY <3>1, StepShape DEF Arrives, Passes, Exits
      <3>. QED
        BY <2>1, <3>2
    <2>3. CASE q = r /\ d = c
      <3>1. ASSUME NEW from, NEW to, Moves(r, c, from, to) PROVE pc'[r][c] = to /\ pc[r][c] = from
        BY <1>1, <3>1 DEF Moves, Typed
      <3>2. ASSUME NEW k \in 1 .. 3, Arrives(r, c, k)
            PROVE  pc'[r][c] # "done" /\ (pc'[r][c] \in After(2) => LoadedBy(s, epoch[r]))
        <4>1. pc'[r][c] = Gate(k) /\ pc[r][c] = Front(k)
          BY <3>1, <3>2 DEF Arrives
        <4>2. CASE k = 2
          BY <1>8, <2>3, <3>2, <4>1, <4>2, StageOrder DEF Arrives
        <4>3. CASE k # 2
          <5>1. Gate(k) \in After(2) <=> Front(k) \in After(2)
            BY <4>3, StageOrder
          <5>. QED
            BY <1>1, <2>3, <4>1, <5>1, StageOrder DEF Rendezvous
        <4>. QED
          BY <4>2, <4>3
      <3>3. ASSUME NEW k \in 1 .. 3, Passes(r, c, k)
            PROVE  pc'[r][c] # "done" /\ (pc'[r][c] \in After(2) => LoadedBy(s, epoch[r]))
        <4>1. pc'[r][c] = Beyond(k) /\ pc[r][c] = Gate(k)
          BY <3>1, <3>3 DEF Passes
        <4>2. Gate(k) \in After(2) <=> Beyond(k) \in After(2)
          BY StageOrder
        <4>. QED
          BY <1>1, <2>3, <4>1, <4>2, StageOrder DEF Rendezvous
      <3>4. ASSUME Exits(r, c) PROVE LoadedBy(s, epoch[r]) /\ SentBy(s, epoch[r])
        <4>1. pc[r][c] = "sent" /\ "sent" \in After(2)
          BY <3>4, StageOrder DEF Exits, Moves
        <4>. QED
          BY <1>1, <1>8, <2>3, <3>4, <4>1 DEF Exits, Rendezvous
      <3>. QED
        BY <2>1, <2>3, <3>2, <3>3, <3>4, StepShape
    <2>. QED
      BY <2>2, <2>3
  <1>10. \A d \in Grid(q)' : \A s \in Stripe(q, d)' :
             /\ pc'[q][d] \in After(2) => LoadedBy(s, epoch[q])'
             /\ pc'[q][d] = "done" => SentBy(s, epoch[q])'
    <2>1. \A s \in Ranks : (LoadedBy(s, epoch[q]) => LoadedBy(s, epoch[q])')
                           /\ (SentBy(s, epoch[q]) => SentBy(s, epoch[q])')
      <3>1. \A s : (LoadedBy(s, epoch[q])' <=> (epoch[s] > epoch[q] \/ (epoch[s] = epoch[q] /\ Arrived(s, 1)' = Grid(s)')))
                   /\ (SentBy(s, epoch[q])' <=> (epoch[s] > epoch[q] \/ (epoch[s] = epoch[q] /\ Arrived(s, 3)' = Grid(s)')))
        BY <1>2 DEF LoadedBy, SentBy
      <3>2. \A s \in Ranks : /\ Grid(s)' = Grid(s) /\ Arrived(s, 1) \subseteq Arrived(s, 1)'
                             /\ Arrived(s, 3) \subseteq Arrived(s, 3)'
                             /\ Arrived(s, 1)' \subseteq Grid(s)' /\ Arrived(s, 3)' \subseteq Grid(s)'
        BY <1>1, StepOnward DEF Arrived
      <3>. QED
        BY <3>1, <3>2 DEF LoadedBy, SentBy
    <2>. QED
      BY <1>4, <1>5, <1>6, <1>9, <2>1
  <1>11. ASSUME NEW s \in Peers(q), epoch[q] > 0 PROVE SentBy(s, epoch[q] - 1)'
    <2>1. SentBy(s, epoch[q] - 1) /\ epoch[q] - 1 \in Nat
      BY <1>1, <1>11 DEF Rendezvous
    <2>. DEFINE e == epoch[q] - 1
    <2>2. PICK f \in Nat : f = e
      BY <2>1
    <2>3. SentBy(s, f)'
      BY <1>3, <1>5, <2>1, <2>2
    <2>. QED
      BY <1>2, <2>2, <2>3 DEF SentBy
  <1>12. Peers(q)' = Peers(q)
    BY DEF Peers
  <1>. QED
    BY <1>2, <1>7, <1>10, <1>11, <1>12 DEF Rendezvous
-------------------------------------------------------------------------------
(* What the buffers hold.                                                  *)

(* Who has delivered to r in its epoch has seen r load.                    *)
LEMMA DeliveredFacts ==
  ASSUME FcInv, NEW r \in Ranks, epoch[r] > 0, NEW s \in Peers(r), NEW c \in CTAs, NEW x,
         Writes(Kind(r), s, c, r, x), Delivered(s, c, r)
  PROVE  Arrived(r, 1) = Grid(r)
  <1>1. Typed /\ s \in Ranks /\ r \in Peers(s) /\ epoch[s] \in Nat /\ epoch[r] \in Nat
    BY RankFacts DEF FcInv, Peers
  <1>2. CASE epoch[s] > epoch[r]
    <2>1. Arrived(r, 3) = Grid(r)
      BY <1>1, <1>2, Pace
    <2>. QED
      BY <2>1 DEF Arrived, After, PCs
  <1>3. CASE epoch[s] = epoch[r] /\ SentTo(s, c, r)
    <2>1. Kind(s) = Kind(r) /\ c \in Grid(s)
      <3>1. Kind(s) = Kind(r)
        BY <1>3 DEF Kind
      <3>. QED
        BY <1>1, <1>3, <3>1, RankFacts DEF Writes
    <2>2. pc[s][c] \in Through(2)
      BY <1>3 DEF SentTo, After, Through
    <2>3. LoadedBy(r, epoch[s])
      BY <1>1, <2>1, <2>2, AllHaveLoaded
    <2>. QED
      BY <1>1, <1>3, <2>3 DEF LoadedBy
  <1>. QED
    BY <1>2, <1>3 DEF Delivered

(* So what a CTA loads is the rank's own input.                            *)
LEMMA LoadsOwn ==
  ASSUME FcInv, NEW r \in Ranks, NEW c \in Grid(r), ~Loaded(r, c)
  PROVE  buf[r][Cell(r, c)] = Own(r)
  <1>. DEFINE y == Cell(r, c)
  <1>1. Typed /\ c \in CTAs /\ epoch[r] > 0 /\ Kind(r) \in Kinds /\ Contents(r) /\ Loads(r)
    BY InGrid DEF FcInv
  <1>2. y \in Cells
    BY <1>1, CellAndTargets
  <1>3. CASE Kind(r) = "all_gather"
    <2>1. y[1] = r
      BY <1>3 DEF Cell, AllGatherCell
    <2>. QED
      BY <1>1, <1>2, <1>3, <2>1 DEF Contents
  <1>4. CASE Kind(r) # "all_gather"
    <2>1. pc[r][c] = "start"
      BY <1>1, <1>4 DEF Loads, WaitsForLoadFirst
    <2>2. Arrived(r, 1) # Grid(r)
      BY <2>1 DEF Arrived, After
    <2>3. ASSUME NEW s \in Ranks, s # r PROVE ~Contributed(s, r, y)
      BY <1>1, <2>2, <2>3, DeliveredFacts DEF Contributed, Peers
    <2>4. \A s \in Ranks : buf[r][y][s] = IF s = r THEN 1 ELSE 0
      BY <1>1, <1>2, <1>4, <2>3 DEF Contents
    <2>5. buf[r][y] \in [Ranks -> Int]
      BY <1>1, <1>2 DEF Typed
    <2>. HIDE DEF y
    <2>6. buf[r][y] = [s \in Ranks |-> buf[r][y][s]]
      BY <2>5
    <2>7. buf[r][y] = Own(r)
      BY <2>4, <2>6 DEF Own
    <2>. QED
      BY <2>7 DEF y
  <1>. QED
    BY <1>3, <1>4

LEMMA StepLoads ==
  ASSUME FcInv, NEW r \in Ranks, NEW c \in Grid(r), Step(r, c), NEW q \in Ranks
  PROVE  Loads(q)'
  <1>1. Typed /\ c \in CTAs /\ Loads(q) /\ Grid(q) \subseteq CTAs
    BY InGrid, RankFacts DEF FcInv
  <1>2. /\ Grid(q)' = Grid(q) /\ Kind(q)' = Kind(q)
        /\ WaitsForLoadFirst(q)' = WaitsForLoadFirst(q)
        /\ \A d : Targets(q, d)' = Targets(q, d)
    BY <1>1, StepOnward DEF WaitsForLoadFirst, Targets
  <1>3. ASSUME NEW d \in Grid(q), q # r \/ d # c
        PROVE  pc'[q][d] = pc[q][d] /\ shared'[q][d] = shared[q][d] /\ left'[q][d] = left[q][d]
    <2>1. pc'[q][d] = pc[q][d]
      <3>1. ASSUME NEW from, NEW to, Moves(r, c, from, to) PROVE pc'[q][d] = pc[q][d]
        BY <1>1, <1>3, <3>1 DEF Moves, Typed
      <3>. QED
        BY <3>1, StepShape DEF Arrives, Passes, Exits
    <2>2. shared'[q][d] = shared[q][d]
      <3>1. CASE LoadLands(r, c)
        BY <1>1, <1>3, <3>1 DEF LoadLands, Typed
      <3>. QED
        BY <3>1 DEF Step, Publish, FirstArrival, Arrive, PassToRendezvous, PeersLoaded,
                    PassToFanout, Fanout, FanoutArrival, Exit
    <2>3. left'[q][d] = left[q][d]
      <3>1. ASSUME NEW T, left' = [left EXCEPT ![r][c] = T] PROVE left'[q][d] = left[q][d]
        BY <1>1, <1>3, <3>1 DEF Typed
      <3>2. ASSUME NEW s, left' = [left EXCEPT ![r][c] = @ \ {s}] PROVE left'[q][d] = left[q][d]
        BY <1>1, <1>3, <3>2 DEF Typed
      <3>3. CASE UNCHANGED left
        BY <3>3
      <3>4. CASE PassToRendezvous(r, c, 1, "barrier1", "loaded") \/ PassToRendezvous(r, c, 3, "barrier3", "sent")
        BY <3>1, <3>4 DEF PassToRendezvous
      <3>5. CASE PassToFanout(r, c)
        BY <3>1, <3>5 DEF PassToFanout
      <3>6. CASE Publish(r, c, 1, "loaded") \/ Publish(r, c, 2, "sent") \/ Fanout(r, c)
        BY <3>2, <3>6 DEF Publish, Fanout
      <3>7. LoadLands(r, c) \/ FirstArrival(r, c) \/ PeersLoaded(r, c) \/ FanoutArrival(r, c)
                 \/ Exit(r, c) => UNCHANGED left
        BY DEF LoadLands, FirstArrival, Arrive, PeersLoaded, FanoutArrival, Exit
      <3>. QED
        BY <3>3, <3>4, <3>5, <3>6, <3>7 DEF Step
    <2>. QED
      BY <2>1, <2>2, <2>3
  <1>. DEFINE Good(d) == /\ Loaded(q, d) => shared[q][d] = Own(q)
                         /\ pc[q][d] # "start" /\ WaitsForLoadFirst(q) => Loaded(q, d)
                         /\ pc[q][d] = "fanout" => left[q][d] \subseteq Targets(q, d)
  <1>4. ASSUME q = r PROVE Good(c)'
    <2>0. /\ Loaded(r, c) => shared[r][c] = Own(r)
          /\ pc[r][c] # "start" /\ WaitsForLoadFirst(r) => Loaded(r, c)
          /\ pc[r][c] = "fanout" => left[r][c] \subseteq Targets(r, c)
      BY <1>1, <1>4 DEF Loads
    <2>1. CASE LoadLands(r, c)
      <3>1. shared'[r][c] = Own(r) /\ pc' = pc /\ left' = left
        BY <1>1, <2>1, LoadsOwn DEF LoadLands, Typed
      <3>2. Own(r) # NotLoaded
        <4>1. Own(r)[r] = 1 /\ NotLoaded[r] = -1
          BY DEF Own, NotLoaded
        <4>. QED
          BY <4>1
      <3>. QED
        BY <1>2, <1>4, <2>0, <3>1, <3>2 DEF Loaded
    <2>2. CASE Publish(r, c, 1, "loaded") \/ Publish(r, c, 2, "sent")
      <3>1. pc[r][c] # "fanout" /\ pc' = pc /\ shared' = shared
        BY <2>2 DEF Publish
      <3>. QED
        BY <1>2, <1>4, <2>0, <3>1 DEF Loaded
    <2>3. CASE Fanout(r, c)
      <3>1. pc' = pc /\ shared' = shared /\ left'[r][c] \subseteq left[r][c]
        BY <1>1, <2>3 DEF Fanout, Typed
      <3>. QED
        BY <1>2, <1>4, <2>0, <3>1 DEF Loaded
    <2>4. ASSUME NEW from, NEW to, Moves(r, c, from, to) PROVE pc'[r][c] = to /\ pc[r][c] = from
      BY <1>1, <2>4 DEF Moves, Typed
    <2>5. ASSUME UNCHANGED shared, NEW k \in 1 .. 3, Arrives(r, c, k)
          PROVE  Good(c)'
      <3>1. pc[r][c] = Front(k) /\ pc'[r][c] = Gate(k)
        BY <2>4, <2>5 DEF Arrives
      <3>2. Gate(k) # "fanout" /\ (k # 1 => Front(k) # "start")
        BY DEF Gate, Front
      <3>. QED
        BY <1>2, <1>4, <2>0, <2>5, <3>1, <3>2 DEF Loaded, Arrives
    <2>6. ASSUME UNCHANGED shared, NEW k \in 1 .. 3, Passes(r, c, k)
          PROVE  Good(c)'
      <3>1. pc[r][c] = Gate(k) /\ pc'[r][c] = Beyond(k)
        BY <2>4, <2>6 DEF Passes
      <3>2. Gate(k) # "start" /\ (k # 2 => Beyond(k) # "fanout")
        BY DEF Gate, Beyond
      <3>3. k = 2 => left'[r][c] = Targets(r, c)
        BY <1>1, <2>6 DEF Passes, Typed
      <3>. QED
        BY <1>2, <1>4, <2>0, <2>6, <3>1, <3>2, <3>3 DEF Loaded
    <2>7. ASSUME UNCHANGED shared, Exits(r, c)
          PROVE  Good(c)'
      <3>1. pc[r][c] = "sent" /\ pc'[r][c] = "done"
        BY <2>4, <2>7 DEF Exits
      <3>. QED
        BY <1>2, <1>4, <2>0, <2>7, <3>1 DEF Loaded
    <2>. HIDE DEF Good
    <2>. QED
      BY <2>1, <2>2, <2>3, <2>5, <2>6, <2>7, StepShape
  <1>5. ASSUME NEW d \in Grid(q), q # r \/ d # c PROVE Good(d)'
    BY <1>5, <1>1, <1>2, <1>3 DEF Loads, Loaded
  <1>. QED
    BY <1>2, <1>4, <1>5 DEF Loads

(* A step that is not a bulk operation delivers nothing.                   *)
LEMMA StepSent ==
  ASSUME FcInv, NEW r \in Ranks, NEW c \in Grid(r), Step(r, c), ~Fanout(r, c),
         NEW s \in Ranks, NEW d \in CTAs, NEW q, s = r /\ d = c => q \in Targets(r, c)
  PROVE  SentTo(s, d, q)' <=> SentTo(s, d, q)
  <1>1. Typed /\ c \in CTAs
    BY InGrid DEF FcInv
  <1>2. ASSUME NEW from, NEW to, Moves(r, c, from, to)
        PROVE  /\ pc'[r][c] = to /\ pc[r][c] = from
               /\ s # r \/ d # c => pc'[s][d] = pc[s][d]
    BY <1>1, <1>2 DEF Moves, Typed
  <1>3. CASE s # r \/ d # c
    <2>1. pc'[s][d] = pc[s][d]
      BY <1>2, <1>3, StepShape DEF Arrives, Passes, Exits
    <2>2. left'[s][d] = left[s][d]
      <3>1. ASSUME NEW T, left' = [left EXCEPT ![r][c] = T] PROVE left'[s][d] = left[s][d]
        BY <1>1, <1>3, <3>1 DEF Typed
      <3>2. ASSUME NEW t, left' = [left EXCEPT ![r][c] = @ \ {t}] PROVE left'[s][d] = left[s][d]
        BY <1>1, <1>3, <3>2 DEF Typed
      <3>3. CASE UNCHANGED left
        BY <3>3
      <3>4. CASE PassToRendezvous(r, c, 1, "barrier1", "loaded") \/ PassToRendezvous(r, c, 3, "barrier3", "sent")
        BY <3>1, <3>4 DEF PassToRendezvous
      <3>5. CASE PassToFanout(r, c)
        BY <3>1, <3>5 DEF PassToFanout
      <3>6. CASE Publish(r, c, 1, "loaded") \/ Publish(r, c, 2, "sent")
        BY <3>2, <3>6 DEF Publish
      <3>7. LoadLands(r, c) \/ FirstArrival(r, c) \/ PeersLoaded(r, c) \/ FanoutArrival(r, c)
                 \/ Exit(r, c) => UNCHANGED left
        BY DEF LoadLands, FirstArrival, Arrive, PeersLoaded, FanoutArrival, Exit
      <3>. QED
        BY <3>3, <3>4, <3>5, <3>6, <3>7 DEF Step
    <2>. QED
      BY <2>1, <2>2 DEF SentTo
  <1>4. CASE s = r /\ d = c
    <2>1. CASE LoadLands(r, c)
      BY <2>1 DEF LoadLands, SentTo
    <2>2. CASE Publish(r, c, 1, "loaded") \/ Publish(r, c, 2, "sent")
      <3>1. pc' = pc /\ pc[r][c] # "fanout"
        BY <2>2 DEF Publish
      <3>. QED
        BY <1>4, <3>1 DEF SentTo
    <2>3. ASSUME NEW k \in 1 .. 3, Arrives(r, c, k)
          PROVE  SentTo(r, c, q)' <=> SentTo(r, c, q)
      <3>1. pc[r][c] = Front(k) /\ pc'[r][c] = Gate(k)
        BY <1>2, <2>3 DEF Arrives
      <3>2. CASE k = 3
        <4>1. pc[r][c] = "fanout" /\ left[r][c] = {} /\ pc'[r][c] = "barrier3"
          BY <2>3, <3>1, <3>2 DEF Arrives, Front, Gate
        <4>. QED
          BY <4>1 DEF SentTo, After
      <3>3. CASE k # 3
        <4>1. /\ pc[r][c] \notin After(3) /\ pc'[r][c] \notin After(3)
              /\ pc[r][c] # "fanout" /\ pc'[r][c] # "fanout"
          BY <3>1, <3>3 DEF Front, Gate, After
        <4>. QED
          BY <4>1 DEF SentTo
      <3>. QED
        BY <3>2, <3>3
    <2>4. ASSUME NEW k \in 1 .. 3, Passes(r, c, k)
          PROVE  SentTo(r, c, q)' <=> SentTo(r, c, q)
      <3>1. pc[r][c] = Gate(k) /\ pc'[r][c] = Beyond(k)
        BY <1>2, <2>4 DEF Passes
      <3>2. CASE k = 2
        <4>1. pc[r][c] = "barrier2" /\ left'[r][c] = Targets(r, c) /\ pc'[r][c] = "fanout"
          BY <1>1, <2>4, <3>1, <3>2 DEF Passes, Gate, Beyond, Typed
        <4>. QED
          BY <1>4, <4>1 DEF SentTo, After
      <3>3. CASE k # 2
        <4>1. /\ pc[r][c] \in After(3) <=> pc'[r][c] \in After(3)
              /\ pc[r][c] # "fanout" /\ pc'[r][c] # "fanout"
          BY <3>1, <3>3 DEF Gate, Beyond, After
        <4>. QED
          BY <4>1 DEF SentTo
      <3>. QED
        BY <3>2, <3>3
    <2>5. ASSUME Exits(r, c) PROVE SentTo(r, c, q)' <=> SentTo(r, c, q)
      <3>1. pc[r][c] = "sent" /\ pc'[r][c] = "done"
        BY <1>2, <2>5 DEF Exits
      <3>. QED
        BY <3>1 DEF SentTo, After
    <2>. QED
      BY <1>4, <2>1, <2>2, <2>3, <2>4, <2>5, StepShape
  <1>. QED
    BY <1>3, <1>4

LEMMA SameContributions ==
  ASSUME Typed, UNCHANGED <<program, epoch>>, NEW q \in Ranks, NEW s \in Ranks, NEW x,
         \A d \in CTAs : epoch[q] > 0 /\ epoch[s] = epoch[q] /\ Writes(Kind(q), s, d, q, x)
                         => (SentTo(s, d, q)' <=> SentTo(s, d, q))
  PROVE  Contributed(s, q, x)' <=> Contributed(s, q, x)
  <1>1. Kind(q)' = Kind(q)
    BY DEF Kind
  <1>2. \A d : Writes(Kind(q), s, d, q, x)' <=> Writes(Kind(q), s, d, q, x)
    BY <1>1 DEF Writes, CellIn, TargetsIn
  <1>3. \A d \in CTAs : epoch[q] > 0 /\ Writes(Kind(q), s, d, q, x)
                          => (Delivered(s, d, q)' <=> Delivered(s, d, q))
    BY DEF Delivered
  <1>. QED
    BY <1>2, <1>3 DEF Contributed

(* The CTA that a write of a rank's epoch belongs to.                      *)
LEMMA WriterFacts ==
  ASSUME Typed, NEW q \in Ranks, NEW s \in Ranks, NEW d, NEW x, epoch[q] > 0,
         epoch[s] = epoch[q], Writes(Kind(q), s, d, q, x)
  PROVE  /\ d \in Grid(s) /\ Kind(s) = Kind(q)
         /\ Cell(s, d) = x /\ q \in Targets(s, d)
  <1>1. Kind(s) = Kind(q)
    BY DEF Kind
  <1>2. d \in Grid(s)
    BY <1>1, RankFacts DEF Writes
  <1>. QED
    BY <1>1, <1>2, CellAndTargets

LEMMA QuietContents ==
  ASSUME FcInv, NEW r \in Ranks, NEW c \in Grid(r), Step(r, c), ~Fanout(r, c), NEW q \in Ranks
  PROVE  Contents(q)'
  <1>1. Typed /\ Contents(q)
    BY DEF FcInv
  <1>2. UNCHANGED <<program, epoch>>
    BY StepShape
  <1>3. buf' = buf
    BY DEF Step, LoadLands, Publish, FirstArrival, Arrive, PassToRendezvous,
           PeersLoaded, PassToFanout, FanoutArrival, Exit
  <1>4. ASSUME NEW s \in Ranks, NEW x PROVE Contributed(s, q, x)' <=> Contributed(s, q, x)
    <2>1. ASSUME NEW d \in CTAs, epoch[q] > 0, epoch[s] = epoch[q], Writes(Kind(q), s, d, q, x)
          PROVE  SentTo(s, d, q)' <=> SentTo(s, d, q)
      BY <1>1, <2>1, WriterFacts, StepSent
    <2>. QED
      BY <1>1, <1>2, <2>1, SameContributions
  <1>5. Kind(q)' = Kind(q) /\ \A x \in Cells : x[1] \in Ranks
    BY <1>2 DEF Kind, Cells
  <1>. QED
    BY <1>1, <1>2, <1>3, <1>4, <1>5 DEF Contents

(* A bulk operation adds the rank's input to a peer's chunk, once.         *)
LEMMA FanoutContents ==
  ASSUME FcInv, NEW r \in Ranks, NEW c \in Grid(r), Fanout(r, c), NEW q \in Ranks
  PROVE  Contents(q)'
  <1>. DEFINE y == Cell(r, c)
  <1>1. /\ Typed /\ c \in CTAs /\ epoch[r] > 0 /\ Kind(r) \in Kinds /\ Stages(r) /\ Loads(r)
        /\ Contents(q) /\ \A s \in Ranks : epoch[s] \in Nat
    BY InGrid, RankFacts DEF FcInv
  <1>2. /\ UNCHANGED <<program, epoch, pc>> /\ pc[r][c] = "fanout" /\ shared[r][c] = Own(r)
        /\ left[r][c] \subseteq Targets(r, c)
    BY <1>1 DEF Fanout, Loads
  <1>3. PICK t \in left[r][c] :
            /\ buf' = [buf EXCEPT ![t][y] = IF Kind(r) = "all_gather" THEN Own(r) ELSE Plus(@, Own(r))]
            /\ left' = [left EXCEPT ![r][c] = @ \ {t}]
    BY <1>2 DEF Fanout
  <1>4. y \in Cells /\ t \in Targets(r, c) /\ t \in Peers(r) /\ t \in Ranks /\ t # r
    BY <1>1, <1>2, CellAndTargets DEF Peers
  <1>. HIDE DEF y
  (* The peer is in the same epoch. *)
  <1>5. epoch[t] = epoch[r] /\ Kind(t) = Kind(r)
    <2>1. LoadedBy(t, epoch[r])
      BY <1>2, <1>4, AllHaveLoaded DEF Through
    <2>2. Arrived(r, 3) # Grid(r)
      BY <1>2 DEF Arrived, After
    <2>3. epoch[t] = epoch[r]
      BY <1>1, <1>4, <2>1, <2>2, Pace DEF LoadedBy
    <2>. QED
      BY <2>3 DEF Kind
  <1>6. Writes(Kind(t), r, c, t, y)
    BY <1>1, <1>4, <1>5, CellAndTargets DEF y
  <1>7. SentTo(r, c, t)' /\ ~SentTo(r, c, t)
    <2>1. t \notin left'[r][c]
      BY <1>1, <1>3 DEF Typed
    <2>. QED
      BY <1>2, <1>3, <2>1 DEF SentTo, After
  <1>8. ASSUME NEW s \in Ranks, NEW d \in CTAs, NEW p, ~(s = r /\ d = c /\ p = t)
        PROVE  SentTo(s, d, p)' <=> SentTo(s, d, p)
    <2>1. p \in left'[s][d] <=> p \in left[s][d]
      BY <1>1, <1>3, <1>8 DEF Typed
    <2>. QED
      BY <1>2, <2>1 DEF SentTo
  <1>9. ASSUME NEW s \in Ranks, NEW p \in Ranks, NEW x, ~(s = r /\ p = t /\ x = y)
        PROVE  Contributed(s, p, x)' <=> Contributed(s, p, x)
    <2>1. ASSUME NEW d \in CTAs, epoch[p] > 0, epoch[s] = epoch[p], Writes(Kind(p), s, d, p, x)
          PROVE  SentTo(s, d, p)' <=> SentTo(s, d, p)
      <3>1. Cell(s, d) = x
        BY <1>1, <2>1, WriterFacts
      <3>. QED
        BY <1>8, <1>9, <3>1 DEF y
    <2>2. UNCHANGED <<program, epoch>>
      BY <1>2
    <2>. QED
      BY <1>1, <2>1, <2>2, SameContributions
  <1>10. Kind(q)' = Kind(q) /\ epoch'[q] = epoch[q] /\ \A x \in Cells : x[1] \in Ranks
    BY <1>2 DEF Kind, Cells
  <1>11. ASSUME NEW x \in Cells, ~(q = t /\ x = y) PROVE buf'[q][x] = buf[q][x]
    BY <1>1, <1>3, <1>4, <1>11 DEF Typed
  <1>12. ASSUME NEW s \in Ranks, NEW p \in Ranks, NEW x \in Cells, s = r, p = t, x = y
         PROVE  Contributed(s, p, x)' /\ ~Contributed(s, p, x)
    <2>1. \A d \in CTAs : Writes(Kind(p), s, d, p, x) => d = c
      BY <1>1, <1>5, <1>6, <1>12, WritesFacts DEF Writes
    <2>2. ~Contributed(s, p, x)
      BY <1>1, <1>4, <1>5, <1>7, <1>12, <2>1 DEF Contributed, Delivered
    <2>3. Kind(p)' = Kind(p) /\ epoch' = epoch
      BY <1>2 DEF Kind
    <2>4. Writes(Kind(p), s, c, p, x)' <=> Writes(Kind(p), s, c, p, x)
      BY <2>3 DEF Writes, CellIn, TargetsIn
    <2>5. Writes(Kind(p), s, c, p, x)
      BY <1>6, <1>12
    <2>6. SentTo(s, c, p)'
      BY <1>7, <1>12 DEF SentTo
    <2>7. Delivered(s, c, p)'
      BY <1>5, <1>12, <2>3, <2>6 DEF Delivered
    <2>. QED
      BY <1>1, <1>5, <1>12, <2>2, <2>3, <2>4, <2>5, <2>7 DEF Contributed
  <1>13. ASSUME q = t, Kind(q) = "all_gather" PROVE buf'[t][y] = Own(r) /\ y[1] = r
    BY <1>1, <1>3, <1>4, <1>5, <1>13 DEF Typed, y, Cell, AllGatherCell
  <1>14. ASSUME q = t, Kind(q) # "all_gather", NEW s \in Ranks
         PROVE  buf'[t][y][s] = IF s = r THEN buf[t][y][s] + 1 ELSE buf[t][y][s]
    <2>1. buf'[t][y] = Plus(buf[t][y], Own(r))
      BY <1>1, <1>3, <1>4, <1>5, <1>14 DEF Typed
    <2>2. buf[t][y] \in [Ranks -> Int]
      BY <1>1, <1>4 DEF Typed
    <2>. QED
      BY <1>14, <2>1, <2>2 DEF Plus, Own
  <1>15. ASSUME NEW x \in Cells
         PROVE  IF epoch[q] > 0 /\ Kind(q) = "all_gather"
                  THEN buf'[q][x] = IF x[1] # q /\ Contributed(x[1], q, x)' THEN Own(x[1]) ELSE Own(q)
                  ELSE \A s \in Ranks : buf'[q][x][s] = IF s = q \/ Contributed(s, q, x)' THEN 1 ELSE 0
    <2>1. CASE ~(q = t /\ x = y)
      BY <1>1, <1>9, <1>10, <1>11, <2>1 DEF Contents
    <2>2. CASE q = t /\ x = y /\ Kind(q) = "all_gather"
      BY <1>1, <1>4, <1>5, <1>12, <1>13, <2>2
    <2>3. CASE q = t /\ x = y /\ Kind(q) # "all_gather"
      <3>1. ASSUME NEW s \in Ranks
            PROVE  buf'[q][x][s] = IF s = q \/ Contributed(s, q, x)' THEN 1 ELSE 0
        <4>1. buf[q][x][s] = IF s = q \/ Contributed(s, q, x) THEN 1 ELSE 0
          BY <1>1, <2>3 DEF Contents
        <4>2. CASE s = r
          BY <1>4, <1>12, <1>14, <2>3, <4>1, <4>2
        <4>3. CASE s # r
          BY <1>4, <1>9, <1>14, <2>3, <4>1, <4>3
        <4>. QED
          BY <4>2, <4>3
      <3>. QED
        BY <2>3, <3>1
    <2>. QED
      BY <2>1, <2>2, <2>3
  <1>16. \A x \in Cells : x' = x
    OBVIOUS
  <1>. QED
    BY <1>10, <1>15 DEF Contents, Own
-------------------------------------------------------------------------------
(* A launch.                                                               *)

LEMMA LaunchFacts ==
  ASSUME FcInv, NEW r \in Ranks, Launch(r)
  PROVE  /\ KernelDone(r) /\ epoch[r] < Len(program) /\ epoch[r] + 1 \in 1 .. Len(program)
         /\ program[epoch[r] + 1] \in Kinds
         /\ epoch' = [epoch EXCEPT ![r] = @ + 1]
         /\ UNCHANGED <<program, counter, inbox, left>>
         /\ epoch'[r] = epoch[r] + 1 /\ \A q \in Ranks \ {r} : epoch'[q] = epoch[q]
         /\ Kind(r)' = program[epoch[r] + 1]
         /\ Grid(r)' = 0 .. GridDim(program[epoch[r] + 1]) - 1 /\ Grid(r)' \subseteq CTAs
         /\ \A c \in CTAs : pc'[r][c] = IF c \in Grid(r)' THEN "start" ELSE "done"
         /\ \A c \in CTAs : shared'[r][c] = NotLoaded
         /\ \A x \in Cells : buf'[r][x] = Own(r)
         /\ \A q \in Ranks \ {r} :
                /\ pc'[q] = pc[q] /\ shared'[q] = shared[q] /\ buf'[q] = buf[q]
                /\ base'[q] = base[q] /\ last_value'[q] = last_value[q]
                /\ Grid(q)' = Grid(q) /\ Kind(q)' = Kind(q)
                /\ \A k : Arrived(q, k)' = Arrived(q, k)
  <1>. DEFINE e == epoch[r] + 1
              kind == program[e]
              n == GridDim(kind)
  <1>1. Typed /\ epoch[r] \in Nat /\ program \in Seq(Kinds) /\ Len(program) \in Nat
    BY ProgramsAssumption, RankFacts DEF FcInv, Typed
  <1>2. /\ KernelDone(r) /\ epoch[r] < Len(program)
        /\ epoch' = [epoch EXCEPT ![r] = @ + 1]
        /\ UNCHANGED <<program, counter, inbox, left>>
        /\ base' = [base EXCEPT ![r] = last_value[r][kind]]
        /\ last_value' = [last_value EXCEPT ![r][kind] = (@ + 3 * n) % CounterMod]
        /\ pc' = [pc EXCEPT ![r] = [c \in CTAs |-> IF c < n THEN "start" ELSE "done"]]
        /\ shared' = [shared EXCEPT ![r] = [c \in CTAs |-> NotLoaded]]
        /\ buf' = [buf EXCEPT ![r] = [x \in Cells |-> Own(r)]]
    BY DEF Launch
  <1>3. e \in 1 .. Len(program) /\ kind \in Kinds
    BY <1>1, <1>2
  <1>4. epoch'[r] = e /\ \A q \in Ranks \ {r} : epoch'[q] = epoch[q]
    BY <1>1, <1>2 DEF Typed
  <1>5. Kind(r)' = kind
    BY <1>2, <1>4 DEF Kind
  <1>6. n \in Nat \ {0} /\ 0 .. n - 1 \subseteq CTAs /\ \A c \in CTAs : c \in Nat
    BY <1>3, GridFacts, SizeFacts
  <1>7. Grid(r)' = 0 .. n - 1
    <2>1. e # 0
      BY <1>3
    <2>. HIDE DEF n, e, kind
    <2>2. Grid(r)' = 0 .. GridDim(kind) - 1
      BY <1>4, <1>5, <2>1 DEF Grid
    <2>. QED
      BY <2>2 DEF n
  <1>8. \A c \in CTAs : pc'[r][c] = IF c \in Grid(r)' THEN "start" ELSE "done"
    <2>1. pc'[r] = [c \in CTAs |-> IF c < n THEN "start" ELSE "done"]
      BY <1>1, <1>2 DEF Typed
    <2>. HIDE DEF n
    <2>. QED
      BY <1>6, <1>7, <2>1
  <1>. HIDE DEF e, kind, n
  <1>9. /\ \A c \in CTAs : shared'[r][c] = NotLoaded
        /\ \A x \in Cells : buf'[r][x] = Own(r)
    BY <1>1, <1>2 DEF Typed
  <1>10. ASSUME NEW q \in Ranks \ {r}
         PROVE  /\ pc'[q] = pc[q] /\ shared'[q] = shared[q] /\ buf'[q] = buf[q]
                /\ base'[q] = base[q] /\ last_value'[q] = last_value[q]
    BY <1>1, <1>2 DEF Typed
  <1>11. ASSUME NEW q \in Ranks \ {r}
         PROVE  Grid(q)' = Grid(q) /\ Kind(q)' = Kind(q)
    BY <1>2, <1>4 DEF Grid, Kind
  <1>12. ASSUME NEW q \in Ranks \ {r}, NEW k PROVE Arrived(q, k)' = Arrived(q, k)
    BY <1>10, <1>11 DEF Arrived
  <1>. QED
    BY <1>2, <1>3, <1>4, <1>5, <1>6, <1>7, <1>8, <1>9, <1>10, <1>11, <1>12 DEF n, kind, e

LEMMA LaunchCounts ==
  ASSUME FcInv, WordsSuffice, NEW r \in Ranks, Launch(r)
  PROVE  /\ base' \in [Ranks -> Nat] /\ last_value' \in [Ranks -> [Kinds -> Nat]]
         /\ Counting(r)'
  <1>. DEFINE e == epoch[r] + 1
              kind == program[e]
              n == GridDim(kind)
              last == last_value[r][kind]
  <1>1. Typed /\ Counting(r) /\ epoch[r] \in Nat
    BY RankFacts DEF FcInv
  <1>2. /\ kind \in Kinds /\ e \in 0 .. Len(program) /\ e > 0 /\ program \in Programs
        /\ epoch'[r] = e /\ Kind(r)' = kind /\ counter' = counter /\ KernelDone(r)
    <2>1. /\ kind \in Kinds /\ e \in 1 .. Len(program)
          /\ epoch'[r] = e /\ Kind(r)' = kind /\ counter' = counter /\ KernelDone(r)
      BY LaunchFacts
    <2>2. program \in Programs /\ Len(program) \in Nat
      BY <1>1, RankFacts DEF Typed
    <2>. HIDE DEF kind, e
    <2>. QED
      BY <2>1, <2>2
  <1>3. n \in Nat \ {0} /\ 3 * n <= MaxArrivals /\ MaxArrivals \in Nat /\ last \in Nat
    <2>1. kind \in Kinds
      BY <1>2
    <2>2. last_value[r] \in [Kinds -> Nat]
      BY <1>1 DEF Typed
    <2>. HIDE DEF kind
    <2>. QED
      BY <2>1, <2>2, GridFacts, SizeFacts
  <1>4. /\ base' = [base EXCEPT ![r] = last]
        /\ last_value' = [last_value EXCEPT ![r][kind] = (@ + 3 * n) % CounterMod]
    BY DEF Launch
  (* All counters are where the host believes them to be. *)
  <1>5. ASSUME NEW k \in Kinds PROVE counter[r][k] = last_value[r][k]
    <2>1. CASE epoch[r] = 0 \/ k # Kind(r)
      BY <1>1, <2>1 DEF Counting
    <2>2. CASE epoch[r] > 0 /\ k = Kind(r)
      <3>. DEFINE m == GridDim(Kind(r))
      <3>1. \A i \in 1 .. 3 : Arrivals(r, i) = m
        BY <1>1, <1>2, <2>2, AllHaveSent, RankFacts DEF Arrivals
      <3>2. m \in Nat /\ base[r] \in Nat
        BY <1>1, <2>2, RankFacts DEF Typed
      <3>3. counter[r][k] = base[r] + m + m + m /\ last_value[r][k] = base[r] + 3 * m
        BY <1>1, <2>2, <3>1 DEF Counting
      <3>. HIDE DEF m
      <3>. QED
        BY <3>2, <3>3
    <2>. QED
      BY <1>1, <2>1, <2>2
  <1>. HIDE DEF n, kind, last
  <1>6. last + 3 * n \in Nat /\ last + 3 * n <= e * MaxArrivals
    <2>1. last <= epoch[r] * MaxArrivals
      BY <1>1, <1>2 DEF Counting, last
    <2>2. e * MaxArrivals = epoch[r] * MaxArrivals + MaxArrivals /\ epoch[r] * MaxArrivals \in Nat
      BY <1>1, <1>3
    <2>. QED
      BY <1>3, <2>1, <2>2
  <1>7. (last + 3 * n) % CounterMod = last + 3 * n
    BY <1>2, <1>6, CounterBound
  <1>8. last_value' = [last_value EXCEPT ![r][kind] = last + 3 * n]
    BY <1>1, <1>2, <1>4, <1>7 DEF Typed, last
  <1>9. base' \in [Ranks -> Nat] /\ last_value' \in [Ranks -> [Kinds -> Nat]]
    BY <1>1, <1>2, <1>3, <1>4, <1>6, <1>8 DEF Typed
  <1>10. /\ base'[r] = last /\ last_value'[r][kind] = last + 3 * n
         /\ \A k \in Kinds \ {kind} : last_value'[r][k] = last_value[r][k]
    BY <1>1, <1>2, <1>4, <1>8 DEF Typed
  <1>11. \A k \in 1 .. 3 : Arrivals(r, k)' = 0
    <2>1. \A k \in 1 .. 3 : "start" \notin After(k)
      BY DEF After, PCs
    <2>2. \A k \in 1 .. 3 : Arrived(r, k)' = {}
      BY <2>1, LaunchFacts DEF Arrived
    <2>. QED
      BY <2>2, FS_EmptySet DEF Arrivals
  <1>12. ASSUME NEW k \in Kinds PROVE last_value'[r][k] <= e * MaxArrivals
    <2>1. CASE k = kind
      BY <1>6, <1>10, <2>1
    <2>2. CASE k # kind
      <3>1. last_value[r][k] <= epoch[r] * MaxArrivals /\ last_value[r][k] \in Nat
        BY <1>1 DEF Counting, Typed
      <3>2. e * MaxArrivals = epoch[r] * MaxArrivals + MaxArrivals /\ epoch[r] * MaxArrivals \in Nat
        BY <1>1, <1>3
      <3>. QED
        BY <1>3, <1>10, <2>2, <3>1, <3>2
    <2>. QED
      BY <2>1, <2>2
  <1>13. ASSUME NEW k \in Kinds, k # kind PROVE counter'[r][k] = last_value'[r][k]
    BY <1>2, <1>5, <1>10, <1>13
  <1>14. counter'[r][kind] = last
    BY <1>2, <1>5 DEF last
  <1>15. GridDim(Kind(r))' = n
    BY <1>2 DEF n, GridDim
  <1>16. e # 0
    BY <1>2
  <1>. HIDE DEF e
  <1>17. Counting(r)'
    <2>1. last_value'[r][Kind(r)'] = base'[r] + 3 * n
      BY <1>2, <1>10
    <2>2. counter'[r][Kind(r)'] = base'[r] + Arrivals(r, 1)' + Arrivals(r, 2)' + Arrivals(r, 3)'
      BY <1>2, <1>3, <1>10, <1>11, <1>14
    <2>. QED
      BY <1>2, <1>12, <1>13, <1>15, <1>16, <2>1, <2>2 DEF Counting
  <1>. QED
    BY <1>9, <1>17

LEMMA LaunchOnward ==
  ASSUME FcInv, NEW r \in Ranks, Launch(r), NEW q \in Ranks, NEW e \in Nat
  PROVE  /\ LoadedBy(q, e) => LoadedBy(q, e)'
         /\ SentBy(q, e) => SentBy(q, e)'
  <1>1. Typed
    BY DEF FcInv
  <1>2. CASE q = r
    <2>1. epoch'[q] = epoch[q] + 1 /\ KernelDone(q)
      BY <1>2, LaunchFacts
    <2>2. Onward(q)
      BY <2>1 DEF Onward
    <2>. QED
      BY <1>1, <2>2, Stable
  <1>3. CASE q # r
    <2>1. /\ epoch'[q] = epoch[q] /\ Grid(q)' = Grid(q) /\ Kind(q)' = Kind(q)
          /\ \A k : Arrived(q, k)' = Arrived(q, k)
      BY <1>3, LaunchFacts
    <2>2. Onward(q)
      BY <2>1 DEF Onward
    <2>. QED
      BY <1>1, <2>2, Stable
  <1>. QED
    BY <1>2, <1>3

LEMMA LaunchTyped ==
  ASSUME FcInv, WordsSuffice, NEW r \in Ranks, Launch(r)
  PROVE  Typed'
  <1>1. Typed
    BY DEF FcInv
  <1>2. /\ UNCHANGED <<program, counter, inbox, left>>
        /\ base' \in [Ranks -> Nat] /\ last_value' \in [Ranks -> [Kinds -> Nat]]
    BY LaunchFacts, LaunchCounts
  <1>3. epoch' \in [Ranks -> 0 .. Len(program)']
    <2>1. epoch[r] + 1 \in 1 .. Len(program) /\ epoch' = [epoch EXCEPT ![r] = @ + 1]
      BY LaunchFacts
    <2>2. epoch[r] + 1 \in 0 .. Len(program) /\ program' = program
      BY <1>2, <2>1
    <2>. QED
      BY <1>1, <2>1, <2>2 DEF Typed
  <1>4. pc' \in [Ranks -> [CTAs -> PCs]]
    <2>1. PICK n : pc' = [pc EXCEPT ![r] = [c \in CTAs |-> IF c < n THEN "start" ELSE "done"]]
      BY DEF Launch
    <2>2. [c \in CTAs |-> IF c < n THEN "start" ELSE "done"] \in [CTAs -> PCs]
      BY DEF PCs
    <2>. QED
      BY <1>1, <2>1, <2>2 DEF Typed
  <1>5. shared' \in [Ranks -> [CTAs -> [Ranks -> Int]]]
    <2>1. NotLoaded \in [Ranks -> Int]
      BY DEF NotLoaded
    <2>2. shared' = [shared EXCEPT ![r] = [c \in CTAs |-> NotLoaded]]
      BY DEF Launch
    <2>. QED
      BY <1>1, <2>1, <2>2 DEF Typed
  <1>6. buf' \in [Ranks -> [Cells -> [Ranks -> Int]]]
    <2>1. Own(r) \in [Ranks -> Int]
      BY DEF Own
    <2>2. buf' = [buf EXCEPT ![r] = [x \in Cells |-> Own(r)]]
      BY DEF Launch
    <2>. QED
      BY <1>1, <2>1, <2>2 DEF Typed
  <1>. QED
    BY <1>1, <1>2, <1>3, <1>4, <1>5, <1>6 DEF Typed

LEMMA LaunchStages ==
  ASSUME FcInv, WordsSuffice, NEW r \in Ranks, Launch(r), NEW q \in Ranks
  PROVE  Counting(q)' /\ Stages(q)'
  <1>1. CASE q = r
    <2>1. \A c \in CTAs : pc'[r][c] = IF c \in Grid(r)' THEN "start" ELSE "done"
      BY LaunchFacts
    <2>2. Grid(r)' \subseteq CTAs
      BY LaunchFacts
    <2>3. \A k \in 1 .. 3 : "start" \notin Through(k)
      BY DEF Through, PCs
    <2>4. Stages(r)'
      BY <2>1, <2>2, <2>3 DEF Stages
    <2>. QED
      BY <1>1, <2>4, LaunchCounts
  <1>2. CASE q # r
    <2>1. /\ UNCHANGED program /\ epoch'[q] = epoch[q] /\ base'[q] = base[q]
          /\ last_value'[q] = last_value[q] /\ counter'[q] = counter[q] /\ pc'[q] = pc[q]
      BY <1>2, LaunchFacts
    <2>. QED
      BY <2>1, OthersCount
  <1>. QED
    BY <1>1, <1>2

LEMMA LaunchRendezvous ==
  ASSUME FcInv, NEW r \in Ranks, Launch(r), NEW q \in Ranks
  PROVE  Rendezvous(q)'
  <1>1. Typed /\ Rendezvous(q) /\ epoch[q] \in Nat /\ Peers(q) \subseteq Ranks
    BY RankFacts DEF FcInv, Peers
  <1>2. UNCHANGED <<program, inbox>>
    BY LaunchFacts
  <1>3. ASSUME NEW s \in Peers(q), NEW e \in Nat
        PROVE  /\ inbox'[q][s] >= e * Stride + 1 => LoadedBy(s, e)'
               /\ inbox'[q][s] >= e * Stride + 2 => SentBy(s, e)'
    <2>1. /\ inbox[q][s] >= e * Stride + 1 => LoadedBy(s, e)
          /\ inbox[q][s] >= e * Stride + 2 => SentBy(s, e)
      BY <1>1, <1>3 DEF Rendezvous
    <2>2. s \in Ranks
      BY <1>1
    <2>. QED
      BY <1>2, <2>1, <2>2, LaunchOnward
  <1>4. CASE q = r
    <2>1. epoch'[r] = epoch[r] + 1 /\ KernelDone(r) /\ epoch[r] \in Nat /\ Peers(r) \subseteq Ranks
      BY <1>1, <1>4, LaunchFacts
    <2>2. ASSUME NEW s \in Peers(r) PROVE SentBy(s, epoch[r])
      <3>1. CASE epoch[r] > 0
        BY <2>1, <3>1, AllHaveSent
      <3>2. CASE epoch[r] = 0
        <4>1. s \in Ranks
          BY <2>1
        <4>2. epoch[s] \in Nat /\ (epoch[s] = 0 => Grid(s) = {})
          BY <1>1, <4>1, RankFacts
        <4>3. Grid(s) = {} => Arrived(s, 3) = {}
          BY DEF Arrived
        <4>. QED
          BY <3>2, <4>2, <4>3 DEF SentBy
      <3>. QED
        BY <2>1, <3>1, <3>2
    <2>3. ASSUME NEW s \in Peers(r) PROVE SentBy(s, epoch[r] - 1)'
      <3>1. PICK e \in Nat : e = epoch[r]
        BY <2>1
      <3>2. SentBy(s, e)
        BY <2>2, <3>1
      <3>3. s \in Ranks
        BY <2>1
      <3>4. SentBy(s, e)'
        BY <3>2, <3>3, LaunchOnward
      <3>5. epoch'[r] - 1 = e
        BY <2>1, <3>1
      <3>. QED
        BY <3>4, <3>5 DEF SentBy
    <2>4. ASSUME NEW c \in Grid(r)' PROVE pc'[r][c] \notin After(2) /\ pc'[r][c] # "done"
      <3>1. pc'[r][c] = "start"
        BY LaunchFacts
      <3>. QED
        BY <3>1 DEF After
    <2>. QED
      BY <1>3, <1>4, <2>3, <2>4 DEF Rendezvous
  <1>5. CASE q # r
    <2>1. /\ epoch'[q] = epoch[q] /\ pc'[q] = pc[q] /\ Grid(q)' = Grid(q) /\ Kind(q)' = Kind(q)
      BY <1>5, LaunchFacts
    <2>2. \A c \in Grid(q) : Stripe(q, c)' = Stripe(q, c) /\ Stripe(q, c) \subseteq Ranks
      BY <2>1 DEF Stripe, GridDim, Peers
    <2>3. ASSUME NEW c \in Grid(q), NEW s \in Stripe(q, c)
          PROVE  /\ pc'[q][c] \in After(2) => LoadedBy(s, epoch[q])'
                 /\ pc'[q][c] = "done" => SentBy(s, epoch[q])'
      <3>1. PICK e \in Nat : e = epoch[q]
        BY <1>1
      <3>2. /\ pc[q][c] \in After(2) => LoadedBy(s, e)
            /\ pc[q][c] = "done" => SentBy(s, e)
        BY <1>1, <3>1 DEF Rendezvous
      <3>3. s \in Ranks
        BY <2>2
      <3>4. /\ pc[q][c] \in After(2) => LoadedBy(s, e)'
            /\ pc[q][c] = "done" => SentBy(s, e)'
        BY <3>2, <3>3, LaunchOnward
      <3>5. epoch'[q] = e
        BY <2>1, <3>1
      <3>. QED
        BY <2>1, <3>4, <3>5 DEF LoadedBy, SentBy
    <2>4. ASSUME NEW s \in Peers(q), epoch'[q] > 0 PROVE SentBy(s, epoch[q] - 1)'
      <3>1. PICK e \in Nat : e = epoch[q] - 1
        BY <1>1, <2>1, <2>4
      <3>2. SentBy(s, e)
        BY <1>1, <2>1, <2>4, <3>1 DEF Rendezvous
      <3>3. s \in Ranks
        BY <1>1
      <3>4. SentBy(s, e)'
        BY <3>2, <3>3, LaunchOnward
      <3>5. epoch'[q] - 1 = e
        BY <2>1, <3>1
      <3>. QED
        BY <3>4, <3>5 DEF SentBy
    <2>. QED
      BY <1>3, <2>1, <2>2, <2>3, <2>4 DEF Rendezvous
  <1>. QED
    BY <1>4, <1>5

LEMMA LaunchLoads ==
  ASSUME FcInv, NEW r \in Ranks, Launch(r), NEW q \in Ranks
  PROVE  Loads(q)'
  <1>1. CASE q = r
    <2>1. \A c \in Grid(r)' : pc'[r][c] = "start" /\ shared'[r][c] = NotLoaded
      BY LaunchFacts
    <2>. QED
      BY <1>1, <2>1 DEF Loads, Loaded, NotLoaded
  <1>2. CASE q # r
    <2>1. /\ pc'[q] = pc[q] /\ shared'[q] = shared[q] /\ left' = left
          /\ Grid(q)' = Grid(q) /\ Kind(q)' = Kind(q)
      BY <1>2, LaunchFacts
    <2>2. /\ \A c : Targets(q, c)' = Targets(q, c)
          /\ WaitsForLoadFirst(q)' = WaitsForLoadFirst(q)
      BY <2>1 DEF Targets, ReduceScatterPeer, Peers, PeerAt, WaitsForLoadFirst
    <2>3. Loads(q)
      BY DEF FcInv
    <2>. QED
      BY <2>1, <2>2, <2>3 DEF Loads, Loaded, NotLoaded
  <1>. QED
    BY <1>1, <1>2

LEMMA LaunchContents ==
  ASSUME FcInv, NEW r \in Ranks, Launch(r), NEW q \in Ranks
  PROVE  Contents(q)'
  <1>1. /\ Typed /\ Contents(q) /\ \A s \in Ranks : epoch[s] \in Nat
        /\ \A s \in Ranks : Grid(s) \subseteq CTAs
    BY RankFacts DEF FcInv
  <1>2. /\ UNCHANGED <<program, left>> /\ epoch'[r] = epoch[r] + 1 /\ KernelDone(r)
        /\ \A s \in Ranks \ {r} : epoch'[s] = epoch[s] /\ pc'[s] = pc[s]
        /\ Kind(r)' = program[epoch[r] + 1]
        /\ Grid(r)' = 0 .. GridDim(program[epoch[r] + 1]) - 1
    BY LaunchFacts
  <1>3. ASSUME NEW s, NEW c, NEW p, NEW x
        PROVE  Writes(Kind(p), s, c, p, x)' <=> Writes(Kind(p)', s, c, p, x)
    BY DEF Writes, CellIn, TargetsIn, GridDim, Kind
  <1>4. CASE q = r
    <2>1. \A x \in Cells : buf'[r][x] = Own(r)
      BY LaunchFacts
    <2>2. ASSUME NEW s \in Ranks \ {r}, NEW x, Contributed(s, r, x)' PROVE FALSE
      <3>1. PICK c \in CTAs : Writes(Kind(r), s, c, r, x)' /\ Delivered(s, c, r)'
        BY <2>2 DEF Contributed
      <3>2. epoch[s] <= epoch[r] + 1 /\ epoch[s] \in Nat /\ epoch[r] \in Nat
        BY <1>1, Pace
      <3>3. epoch[s] = epoch[r] + 1 /\ SentTo(s, c, r)'
        BY <1>2, <3>1, <3>2 DEF Delivered
      <3>4. pc[s][c] \in Through(2)
        BY <1>2, <3>3 DEF SentTo, After, Through
      <3>5. c \in Grid(s)
        <4>1. c \in 0 .. GridDim(Kind(r)') - 1
          BY <1>3, <3>1 DEF Writes
        <4>2. Kind(r)' = Kind(s) /\ epoch[s] # 0
          BY <1>2, <3>2, <3>3 DEF Kind
        <4>. QED
          BY <4>1, <4>2 DEF Grid
      <3>6. LoadedBy(r, epoch[s])
        BY <3>4, <3>5, AllHaveLoaded DEF Peers
      <3>. QED
        BY <3>2, <3>3, <3>6 DEF LoadedBy
    <2>. QED
      BY <1>4, <2>1, <2>2 DEF Contents, Own, Cells
  <1>5. CASE q # r
    <2>1. buf'[q] = buf[q] /\ epoch'[q] = epoch[q] /\ Kind(q)' = Kind(q)
      BY <1>5, LaunchFacts
    <2>2. ASSUME NEW s \in Ranks, NEW c \in CTAs, NEW x, epoch[q] > 0, Writes(Kind(q), s, c, q, x)
          PROVE  Delivered(s, c, q)' <=> Delivered(s, c, q)
      <3>1. CASE s # r
        BY <1>2, <2>1, <3>1 DEF Delivered, SentTo
      <3>2. CASE s = r
        <4>1. pc[r][c] = "done"
          BY <1>2 DEF KernelDone
        <4>2. Delivered(r, c, q) <=> epoch[r] >= epoch[q]
          BY <1>1, <4>1 DEF Delivered, SentTo, After
        <4>3. ASSUME epoch[q] = epoch[r] + 1 PROVE ~SentTo(r, c, q)'
          <5>1. Kind(q) = program[epoch[r] + 1]
            BY <4>3 DEF Kind
          <5>2. c \in Grid(r)'
            BY <1>2, <2>2, <5>1 DEF Writes
          <5>3. pc'[r][c] = "start"
            BY <5>2, LaunchFacts
          <5>. QED
            BY <5>3 DEF SentTo, After
        <4>4. Delivered(r, c, q)' <=> epoch[r] >= epoch[q]
          BY <1>1, <1>2, <2>1, <4>3 DEF Delivered
        <4>. QED
          BY <3>2, <4>2, <4>4
      <3>. QED
        BY <3>1, <3>2
    <2>3. ASSUME NEW s \in Ranks, NEW x
          PROVE  Contributed(s, q, x)' <=> Contributed(s, q, x)
      BY <1>3, <2>1, <2>2 DEF Contributed
    <2>. QED
      BY <1>1, <2>1, <2>3 DEF Contents, Cells
  <1>. QED
    BY <1>4, <1>5

LEMMA LaunchKeeps ==
  ASSUME FcInv, WordsSuffice, NEW r \in Ranks, Launch(r)
  PROVE  FcInv'
  BY LaunchTyped, LaunchStages, LaunchRendezvous, LaunchLoads, LaunchContents DEF FcInv

LEMMA StepKeeps ==
  ASSUME FcInv, WordsSuffice, NEW r \in Ranks, NEW c \in Grid(r), Step(r, c)
  PROVE  FcInv'
  <1>1. ASSUME NEW q \in Ranks PROVE Counting(q)' /\ Stages(q)'
    <2>1. CASE q = r
      BY <2>1, StepCounting, StepStages
    <2>2. CASE q # r
      <3>1. UNCHANGED <<program, epoch, base, last_value>>
        BY StepShape
      <3>2. pc'[q] = pc[q] /\ counter'[q] = counter[q]
        BY <2>2, StepOthers
      <3>. QED
        BY <3>1, <3>2, OthersCount
    <2>. QED
      BY <2>1, <2>2
  <1>2. ASSUME NEW q \in Ranks PROVE Contents(q)'
    BY QuietContents, FanoutContents
  <1>. QED
    BY <1>1, <1>2, StepTyped, StepRendezvous, StepLoads DEF FcInv
-------------------------------------------------------------------------------
(* The invariant, and what it says of complete kernels and sends.          *)

LEMMA FcInit ==
  ASSUME Init
  PROVE  FcInv
  <1>1. Typed
    <2>1. /\ \A r \in Ranks : Own(r) \in [Ranks -> Int]
          /\ NotLoaded \in [Ranks -> Int]
      BY DEF Own, NotLoaded
    <2>2. program \in Programs /\ Len(program) \in Nat
      BY ProgramsAssumption DEF Init
    <2>. QED
      BY <2>1, <2>2 DEF Init, Typed, PCs
  <1>2. ASSUME NEW r \in Ranks
        PROVE  /\ epoch[r] = 0 /\ Grid(r) = {}
               /\ \A k \in Kinds : counter[r][k] = 0 /\ last_value[r][k] = 0
               /\ \A c \in CTAs : pc[r][c] = "done"
               /\ \A s \in Ranks : inbox[r][s] = 0
               /\ \A x \in Cells : buf[r][x] = Own(r)
    BY <1>2 DEF Init, Grid
  <1>3. MaxArrivals \in Nat /\ 0 * MaxArrivals = 0
    BY SizeFacts
  <1>4. ASSUME NEW r \in Ranks PROVE Counting(r) /\ Stages(r) /\ Loads(r)
    BY <1>2, <1>3 DEF Counting, Stages, Loads
  <1>5. ASSUME NEW r \in Ranks PROVE Rendezvous(r)
    <2>1. ASSUME NEW s \in Peers(r), NEW e \in Nat
          PROVE  ~(inbox[r][s] >= e * Stride + 1) /\ ~(inbox[r][s] >= e * Stride + 2)
      <3>1. e * Stride \in Nat
        BY WidthAssumption
      <3>2. inbox[r][s] = 0
        BY <1>2 DEF Peers
      <3>. QED
        BY <3>1, <3>2
    <2>2. Grid(r) = {} /\ ~(epoch[r] > 0)
      BY <1>2
    <2>. QED
      BY <2>1, <2>2 DEF Rendezvous
  <1>6. ASSUME NEW r \in Ranks PROVE Contents(r)
    BY <1>2 DEF Contents, Contributed, Own
  <1>. QED
    BY <1>1, <1>4, <1>5, <1>6 DEF FcInv

LEMMA FcStutter ==
  ASSUME FcInv, UNCHANGED vars
  PROVE  FcInv'
  <1>1. Typed'
    BY DEF FcInv, vars, Typed
  <1>2. ASSUME NEW r \in Ranks
        PROVE  Grid(r)' = Grid(r) /\ Kind(r)' = Kind(r) /\ GridDim(Kind(r))' = GridDim(Kind(r))
    BY DEF vars, Grid, Kind, GridDim
  <1>3. ASSUME NEW r \in Ranks, NEW k PROVE Arrived(r, k)' = Arrived(r, k)
    BY <1>2 DEF vars, Arrived
  <1>4. ASSUME NEW r \in Ranks PROVE Counting(r)' /\ Stages(r)'
    BY OthersCount DEF vars
  <1>5. ASSUME NEW s \in Ranks, NEW e \in Nat
        PROVE  /\ LoadedBy(s, e) => LoadedBy(s, e)'
               /\ SentBy(s, e) => SentBy(s, e)'
    BY <1>2, <1>3 DEF vars, LoadedBy, SentBy
  <1>6. ASSUME NEW r \in Ranks PROVE Rendezvous(r)'
    <2>1. /\ Rendezvous(r) /\ epoch[r] \in Nat /\ Peers(r) \subseteq Ranks
          /\ \A c : Stripe(r, c) \subseteq Ranks
      BY RankFacts DEF FcInv, Peers, Stripe
    <2>2. \A c : Stripe(r, c)' = Stripe(r, c)
      BY <1>2 DEF Stripe
    <2>3. ASSUME NEW c \in Grid(r), NEW s \in Stripe(r, c)
          PROVE  /\ pc[r][c] \in After(2) => LoadedBy(s, epoch[r])'
                 /\ pc[r][c] = "done" => SentBy(s, epoch[r])'
      <3>1. PICK e \in Nat : e = epoch[r]
        BY <2>1
      <3>2. /\ pc[r][c] \in After(2) => LoadedBy(s, e)'
            /\ pc[r][c] = "done" => SentBy(s, e)'
        BY <1>5, <2>1, <3>1 DEF Rendezvous
      <3>3. epoch'[r] = e
        BY <3>1 DEF vars
      <3>. QED
        BY <3>2, <3>3 DEF LoadedBy, SentBy
    <2>4. ASSUME NEW s \in Peers(r), epoch[r] > 0 PROVE SentBy(s, epoch[r] - 1)'
      <3>1. PICK e \in Nat : e = epoch[r] - 1
        BY <2>1, <2>4
      <3>2. SentBy(s, e)'
        BY <1>5, <2>1, <2>4, <3>1 DEF Rendezvous
      <3>3. epoch'[r] - 1 = e
        BY <3>1 DEF vars
      <3>. QED
        BY <3>2, <3>3 DEF SentBy
    <2>5. ASSUME NEW s \in Peers(r), NEW e \in Nat
          PROVE  /\ inbox[r][s] >= e * Stride + 1 => LoadedBy(s, e)'
                 /\ inbox[r][s] >= e * Stride + 2 => SentBy(s, e)'
      BY <1>5, <2>1 DEF Rendezvous
    <2>6. pc' = pc /\ inbox' = inbox /\ epoch' = epoch
      BY DEF vars
    <2>. QED
      BY <1>2, <2>2, <2>3, <2>4, <2>5, <2>6 DEF Rendezvous
  <1>7. ASSUME NEW r \in Ranks PROVE Loads(r)'
    <2>1. /\ \A c : Targets(r, c)' = Targets(r, c)
          /\ WaitsForLoadFirst(r)' = WaitsForLoadFirst(r)
      BY <1>2 DEF Targets, ReduceScatterPeer, Peers, PeerAt, WaitsForLoadFirst
    <2>. QED
      BY <1>2, <2>1 DEF FcInv, vars, Loads, Loaded, NotLoaded
  <1>8. ASSUME NEW r \in Ranks PROVE Contents(r)'
    <2>1. ASSUME NEW s \in Ranks, NEW x PROVE Contributed(s, r, x)' <=> Contributed(s, r, x)
      <3>1. \A d \in CTAs : SentTo(s, d, r)' <=> SentTo(s, d, r)
        BY DEF vars, SentTo
      <3>2. Typed /\ UNCHANGED <<program, epoch>>
        BY DEF FcInv, vars
      <3>. QED
        BY <3>1, <3>2, SameContributions
    <2>2. Contents(r) /\ \A x \in Cells : x[1] \in Ranks
      BY DEF FcInv, Cells
    <2>3. buf' = buf /\ epoch' = epoch
      BY DEF vars
    <2>. QED
      BY <1>2, <2>1, <2>2, <2>3 DEF Contents
  <1>. QED
    BY <1>1, <1>4, <1>6, <1>7, <1>8 DEF FcInv

(* In every state of the kernels the counters, ready values and buffers    *)
(* are as FcInv says: it is inductive.                                     *)
THEOREM FastInvariant ==
  ASSUME WordsSuffice
  PROVE  Spec => []FcInv
  <1>1. Init => FcInv
    BY FcInit
  <1>2. FcInv /\ [Next]_vars => FcInv'
    BY LaunchKeeps, StepKeeps, FcStutter DEF Next
  <1>. QED
    BY <1>1, <1>2, PTL DEF Spec

(* What the peers of a rank owe it has been delivered when its kernel ends. *)
LEMMA AllDelivered ==
  ASSUME FcInv, NEW r \in Ranks, epoch[r] > 0, KernelDone(r), NEW s \in Peers(r),
         NEW x \in Cells, NEW c \in CTAs, Writes(Kind(r), s, c, r, x)
  PROVE  Contributed(s, r, x)
  <1>1. Typed /\ s \in Ranks
    BY DEF FcInv, Peers
  <1>2. SentBy(s, epoch[r])
    BY AllHaveSent
  <1>3. Delivered(s, c, r)
    <2>1. CASE epoch[s] > epoch[r]
      BY <2>1 DEF Delivered
    <2>2. CASE epoch[s] = epoch[r] /\ Arrived(s, 3) = Grid(s)
      <3>1. c \in Grid(s)
        BY <1>1, <2>2, WriterFacts
      <3>. QED
        BY <2>2, <3>1 DEF Arrived, Delivered, SentTo
    <2>. QED
      BY <1>2, <2>1, <2>2 DEF SentBy
  <1>. QED
    BY <1>3 DEF Contributed

(* Kernel completion means that the rank has received everything, exactly  *)
(* once and from this epoch: each of the three collectives leaves in the   *)
(* rank's buffer what it promises.                                         *)
THEOREM EveryoneHasReceived ==
  ASSUME WordsSuffice
  PROVE  Spec => []CompletionMeansReceived
  <1>1. FcInv => CompletionMeansReceived
    <2>. SUFFICES ASSUME FcInv, NEW r \in Ranks, epoch[r] > 0, KernelDone(r), NEW x \in Cells
                  PROVE  Result(r, x)
      BY DEF CompletionMeansReceived
    <2>1. Typed /\ Contents(r) /\ Kind(r) \in Kinds /\ x[1] \in Ranks
      BY RankFacts DEF FcInv, Cells
    <2>2. ASSUME NEW s \in Peers(r),
                 Kind(r) = "all_reduce" \/ (Kind(r) = "reduce_scatter" /\ x[1] = r)
                 \/ (Kind(r) = "all_gather" /\ x[1] = s)
          PROVE  Contributed(s, r, x)
      <3>1. s \in Ranks /\ r \in Peers(s)
        BY DEF Peers
      <3>2. PICK c \in CTAs : Writes(Kind(r), s, c, r, x)
        BY <2>1, <2>2, <3>1, WritesFacts
      <3>. QED
        BY <3>2, AllDelivered
    <2>3. CASE Kind(r) = "all_gather"
      <3>1. buf[r][x] = IF x[1] # r /\ Contributed(x[1], r, x) THEN Own(x[1]) ELSE Own(r)
        BY <2>1, <2>3 DEF Contents
      <3>2. x[1] # r => Contributed(x[1], r, x)
        BY <2>1, <2>2, <2>3 DEF Peers
      <3>3. buf[r][x] = Own(x[1])
        BY <3>1, <3>2
      <3>. QED
        BY <2>3, <3>3 DEF Result
    <2>4. ASSUME Kind(r) = "all_reduce" \/ (Kind(r) = "reduce_scatter" /\ x[1] = r)
          PROVE  buf[r][x] = Everyone
      <3>1. ASSUME NEW s \in Ranks PROVE buf[r][x][s] = 1
        <4>1. buf[r][x][s] = IF s = r \/ Contributed(s, r, x) THEN 1 ELSE 0
          BY <2>1, <2>4 DEF Contents
        <4>2. s # r => Contributed(s, r, x)
          BY <2>2, <2>4 DEF Peers
        <4>. QED
          BY <4>1, <4>2
      <3>2. buf[r][x] \in [Ranks -> Int]
        BY <2>1 DEF Typed
      <3>. QED
        BY <3>1, <3>2 DEF Everyone
    <2>. QED
      BY <2>1, <2>3, <2>4 DEF Result, Kinds
  <1>. QED
    BY <1>1, FastInvariant, PTL

(* Once a kernel is complete no peer still has to write into the rank's    *)
(* buffer for that epoch or an earlier one: the buffer may be reused.      *)
THEOREM BuffersAreReleased ==
  ASSUME WordsSuffice
  PROVE  Spec => []BufferReleased
  <1>1. FcInv => BufferReleased
    <2>. SUFFICES ASSUME FcInv, NEW r \in Ranks, KernelDone(r), NEW s \in Peers(r),
                         NEW c \in Grid(s), epoch[s] <= epoch[r]
                  PROVE  epoch[s] = epoch[r] /\ pc[s][c] \in {"barrier3", "sent", "done"}
      BY DEF BufferReleased
    <2>1. Typed /\ s \in Ranks /\ epoch[r] \in Nat
      BY RankFacts DEF FcInv, Peers
    <2>2. epoch[s] > 0 /\ epoch[s] \in Nat
      BY <2>1, InGrid, RankFacts
    <2>3. SentBy(s, epoch[r])
      BY <2>1, <2>2, AllHaveSent
    <2>4. epoch[s] = epoch[r] /\ Arrived(s, 3) = Grid(s)
      BY <2>1, <2>2, <2>3 DEF SentBy
    <2>. QED
      BY <2>4 DEF Arrived, After
  <1>. QED
    BY <1>1, FastInvariant, PTL

(* No CTA sends before all CTAs of its grid have completed the rendezvous  *)
(* with the peers of their stripes.                                        *)
THEOREM FanoutFollowsRendezvous ==
  ASSUME WordsSuffice
  PROVE  Spec => []FanoutAfterRendezvous
  <1>1. FcInv => FanoutAfterRendezvous
    <2>. SUFFICES ASSUME FcInv, NEW r \in Ranks, NEW c \in Grid(r), pc[r][c] = "fanout",
                         NEW d \in Grid(r)
                  PROVE  pc[r][d] \notin {"start", "barrier1", "loaded"}
      BY DEF FanoutAfterRendezvous
    <2>1. pc[r][c] \in Through(2)
      BY DEF Through
    <2>2. Arrived(r, 2) = Grid(r)
      BY <2>1 DEF FcInv, Stages
    <2>. QED
      BY <2>2 DEF Arrived, After
  <1>. QED
    BY <1>1, FastInvariant, PTL
===============================================================================
