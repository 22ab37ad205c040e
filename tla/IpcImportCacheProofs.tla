------------------------- MODULE IpcImportCacheProofs -------------------------
(***************************************************************************)
(* How processes find each other's buffers, for any number of processes    *)
(* and of cache entries, and any programs of calls.  A rank trusts its own *)
(* unchanged buffer without asking; that all ranks do so in the same calls *)
(* keeps their exchanges aligned, and that they use the same buffers in    *)
(* them makes what is bound the right one.  What is bound is in the cache, *)
(* by each rank's own steps.                                               *)
(***************************************************************************)
EXTENDS IpcImportCache, SequenceTheorems, FiniteSetTheorems, TLAPS

(* The key of the i-th operation's buffer, and the last operation before   *)
(* the i-th that used a buffer.                                            *)
RewrapsOf(p, i, b) == {j \in 1 .. i - 1 : p[j] = [op |-> "rewrap", buf |-> b]}
TokenIn(p, i, b) == 1 + Cardinality(RewrapsOf(p, i, b))
KeyIn(p, i) == [buf |-> p[i].buf, token |-> TokenIn(p, i, p[i].buf)]
Prior(p, l, i) ==
    /\ l \in 1 .. i - 1 /\ p[l].op # "rewrap"
    /\ \A j \in l + 1 .. i - 1 : p[j].op = "rewrap"

(* The operations in which the ranks meet: another key than before.        *)
Exchanging(p, i) ==
    /\ i \in 1 .. Len(p) /\ p[i].op # "rewrap"
    /\ \A l : Prior(p, l, i) => KeyIn(p, l) # KeyIn(p, i)

(* The hypothesis of what concerns several ranks: a caller does not repeat *)
(* a call that failed, and imports fail only in programs that use no       *)
(* buffer twice in a row.  The fast path is wrong without (run             *)
(* ipc_import_retry).                                                      *)
MayFail(p) == MaxFailures[p] > 0
FailuresAreForgotten ==
    /\ ~Retry
    /\ \A p \in Programs : MayFail(p) =>
           \A i \in 1 .. Len(p) : p[i].op # "rewrap" => Exchanging(p, i)

KeySet == [buf : Buffers \cup {"none"}, token : Nat]
PostKinds == {"key", "miss", "descriptor"}

Typed ==
    /\ program \in Programs
    /\ at \in [Ranks -> Nat \ {0}]
    /\ pc \in [Ranks -> PCs]
    /\ version \in [Ranks -> [Buffers -> Nat]]
    /\ bound \in [Ranks -> [Ranks -> KeySet]]
    /\ cache \in [Ranks -> [Ranks -> Seq(KeySet)]]
    /\ posts \in [Ranks -> Seq([kind : PostKinds, key : KeySet, miss : SUBSET Ranks])]
    /\ keys \in [Ranks -> [Ranks -> KeySet]]
    /\ missing \in [Ranks -> SUBSET Ranks]
    /\ failures \in Nat

(* What each rank keeps by itself, whatever fails and is repeated: what it *)
(* has bound of a peer is in its cache.                                    *)
Holding(r) ==
    /\ pc[r] # "idle" => at[r] \in 1 .. Len(program)
    /\ pc[r] \in {"keys", "misses"} => Len(posts[r]) > 0
    /\ pc[r] = "misses" => posts[r][Len(posts[r])].miss = missing[r]
    /\ pc[r] \in {"misses", "descriptors"} =>
           /\ missing[r] \subseteq Peers(r)
           /\ \A s \in Peers(r) \ missing[r] : keys[r][s] \in SeqRange(cache[r][s])
    /\ \A s \in Peers(r) : bound[r][s] # NoKey => bound[r][s] \in SeqRange(cache[r][s])

CacheInv == Typed /\ \A r \in Ranks : Holding(r)

Meeting(r) == pc[r] \in {"keys", "misses", "descriptors"}

(* Where a rank is in the program, and the tokens it has.                  *)
Located(r) ==
    /\ at[r] \in 1 .. Len(program) + 1
    /\ pc[r] # "idle" => at[r] <= Len(program) /\ Op(r) # "rewrap"
    /\ Meeting(r) => Exchanging(program, at[r])
    /\ \A b \in Buffers : version[r][b] = TokenIn(program, at[r], b)

(* Its own binding is the buffer it used last, unless that is gone.        *)
OwnBefore(r) ==
    /\ \A l : Prior(program, l, at[r]) =>
           bound[r][r] = IF version[r][program[l].buf] = KeyIn(program, l).token
                         THEN KeyIn(program, l) ELSE NoKey
    /\ (\A l : ~Prior(program, l, at[r])) => bound[r][r] = NoKey
OwnBinding(r) ==
    IF pc[r] \in {"idle", "keys"} THEN OwnBefore(r) ELSE bound[r][r] = KeyIn(program, at[r])

(* What it has bound of its peers: after a call this call's, before it, if *)
(* nothing can have failed, the last call's.                               *)
PeersBound(r) ==
    /\ pc[r] = "ready" => \A s \in Peers(r) : bound[r][s] = KeyIn(program, at[r])
    /\ pc[r] # "ready" /\ ~MayFail(program) =>
           \A s \in Peers(r) : \A l : Prior(program, l, at[r]) =>
               bound[r][s] = KeyIn(program, l)

(* The keys it has received are those of the call it is in.               *)
Learnt(r) ==
    pc[r] \in {"misses", "descriptors"} => \A s \in Ranks : keys[r][s] = KeyIn(program, at[r])

(* The k-th exchange is over and was the last of its call: descriptors, or *)
(* a round of misses in which nobody missed.                               *)
Over(k) ==
    k = 0 \/ \A q \in Ranks : /\ k <= Len(posts[q])
                              /\ posts[q][k].kind # "key" /\ posts[q][k].miss = {}

(* A rank's last contributions.                                            *)
Posted(r) ==
    LET k == Len(posts[r]) IN
    /\ pc[r] = "keys" => k > 0 /\ posts[r][k].kind = "key" /\ posts[r][k].key = KeyIn(program, at[r])
    /\ pc[r] = "misses" =>
           /\ k > 1 /\ posts[r][k].kind = "miss" /\ posts[r][k].miss = missing[r]
           /\ posts[r][k - 1].kind = "key" /\ posts[r][k - 1].key = KeyIn(program, at[r])
    /\ pc[r] = "descriptors" => k > 1 /\ posts[r][k].kind = "descriptor"
    /\ pc[r] \in {"idle", "ready"} => Over(k)
    /\ \A i \in 1 .. k : posts[r][i].kind # "miss" => posts[r][i].miss = {}

(* The calls in which a rank has begun to meet the others.                 *)
Begun(r) ==
    {i \in 1 .. at[r] : Exchanging(program, i) /\ (i = at[r] => pc[r] # "idle")}

(* Two ranks: what they have contributed agrees, and one is at most one    *)
(* contribution ahead, whose kind tells where the other is.                *)
Ahead(r, s) ==
    LET k == Len(posts[s]) IN
    /\ Len(posts[r]) = k + 1
    /\ \/ pc[r] = "keys" /\ Over(k) /\ at[r] \notin Begun(s) /\ Begun(r) = Begun(s) \cup {at[r]}
       \/ pc[r] = "misses" /\ pc[s] = "keys" /\ Begun(r) = Begun(s)
       \/ /\ pc[r] = "descriptors" /\ pc[s] = "misses" /\ Begun(r) = Begun(s)
          /\ \E q \in Ranks : k <= Len(posts[q]) /\ posts[q][k].miss # {}
Agree(r, s) ==
    /\ \A i \in 1 .. Len(posts[r]) : i <= Len(posts[s]) => posts[r][i].kind = posts[s][i].kind
    /\ Len(posts[r]) = Len(posts[s]) => Begun(r) = Begun(s)
    /\ Len(posts[r]) > Len(posts[s]) => Ahead(r, s)

RankInv(r) ==
    Located(r) /\ OwnBinding(r) /\ PeersBound(r) /\ Learnt(r) /\ Posted(r)

ImportInv ==
    /\ CacheInv
    /\ \A r \in Ranks : RankInv(r)
    /\ \A r, s \in Ranks : Agree(r, s)
-------------------------------------------------------------------------------
(* Programs and keys.                                                      *)

LEMMA ProgramFacts ==
  ASSUME NEW p \in Programs
  PROVE  /\ p \in Seq([op : Ops, buf : Buffers]) /\ Len(p) \in Nat
         /\ \A i \in 1 .. Len(p) : p[i].op \in Ops /\ p[i].buf \in Buffers
                                   /\ p[i] = [op |-> p[i].op, buf |-> p[i].buf]
  <1>1. p \in Seq([op : Ops, buf : Buffers])
    BY ProgramsAssumption
  <1>2. ASSUME NEW i \in 1 .. Len(p) PROVE p[i] \in [op : Ops, buf : Buffers]
    BY <1>1, ElementOfSeq
  <1>3. ASSUME NEW i \in 1 .. Len(p)
        PROVE  p[i].op \in Ops /\ p[i].buf \in Buffers
               /\ p[i] = [op |-> p[i].op, buf |-> p[i].buf]
    BY <1>2
  <1>. QED
    BY <1>1, <1>3

(* The tokens of a buffer grow with its rewraps.                           *)
LEMMA TokenFacts ==
  ASSUME NEW p, NEW b, NEW i \in Nat \ {0}
  PROVE  /\ TokenIn(p, i, b) \in Nat \ {0}
         /\ TokenIn(p, 1, b) = 1
         /\ TokenIn(p, i + 1, b) =
                TokenIn(p, i, b) + IF p[i] = [op |-> "rewrap", buf |-> b] THEN 1 ELSE 0
         /\ \A l \in 1 .. i : TokenIn(p, l, b) <= TokenIn(p, i, b)
  <1>1. ASSUME NEW j \in Nat
        PROVE  IsFiniteSet(RewrapsOf(p, j, b)) /\ Cardinality(RewrapsOf(p, j, b)) \in Nat
    <2>1. IsFiniteSet(1 .. j - 1) /\ RewrapsOf(p, j, b) \subseteq 1 .. j - 1
      BY FS_Interval DEF RewrapsOf
    <2>. QED
      BY <2>1, FS_Subset, FS_CardinalityType
  <1>2. RewrapsOf(p, 1, b) = {}
    BY DEF RewrapsOf
  <1>3. ASSUME p[i] = [op |-> "rewrap", buf |-> b]
        PROVE  Cardinality(RewrapsOf(p, i + 1, b)) = Cardinality(RewrapsOf(p, i, b)) + 1
    <2>1. RewrapsOf(p, i + 1, b) = RewrapsOf(p, i, b) \cup {i} /\ i \notin RewrapsOf(p, i, b)
      BY <1>3 DEF RewrapsOf
    <2>. QED
      BY <1>1, <2>1, FS_AddElement
  <1>4. ASSUME p[i] # [op |-> "rewrap", buf |-> b]
        PROVE  RewrapsOf(p, i + 1, b) = RewrapsOf(p, i, b)
    BY <1>4 DEF RewrapsOf
  <1>5. ASSUME NEW l \in 1 .. i
        PROVE  Cardinality(RewrapsOf(p, l, b)) <= Cardinality(RewrapsOf(p, i, b))
    <2>1. RewrapsOf(p, l, b) \subseteq RewrapsOf(p, i, b)
      BY DEF RewrapsOf
    <2>. QED
      BY <1>1, <2>1, FS_Subset
  <1>6. Cardinality(RewrapsOf(p, 1, b)) = 0
    BY <1>2, FS_EmptySet
  <1>7. \A l \in 1 .. i : Cardinality(RewrapsOf(p, l, b)) \in Nat
    BY <1>1
  <1>. QED
    BY <1>1, <1>3, <1>4, <1>5, <1>6, <1>7 DEF TokenIn

LEMMA TokenSame ==
  ASSUME NEW p, NEW b, NEW i \in Nat \ {0}, p[i].op # "rewrap"
  PROVE  TokenIn(p, i + 1, b) = TokenIn(p, i, b)
  <1>1. p[i] # [op |-> "rewrap", buf |-> b]
    OBVIOUS
  <1>2. /\ TokenIn(p, i, b) \in Nat
        /\ TokenIn(p, i + 1, b) =
               TokenIn(p, i, b) + IF p[i] = [op |-> "rewrap", buf |-> b] THEN 1 ELSE 0
    BY TokenFacts
  <1>. QED
    BY <1>1, <1>2

LEMMA KeyFacts ==
  ASSUME NEW p \in Programs, NEW i \in 1 .. Len(p)
  PROVE  /\ KeyIn(p, i) \in KeySet /\ KeyIn(p, i) # NoKey
         /\ KeyIn(p, i).buf = p[i].buf /\ KeyIn(p, i).token = TokenIn(p, i, p[i].buf)
  <1>1. p[i].buf \in Buffers /\ i \in Nat \ {0}
    <2>1. p[i].buf \in Buffers /\ Len(p) \in Nat
      BY ProgramFacts
    <2>. QED
      BY <2>1
  <1>2. TokenIn(p, i, p[i].buf) \in Nat \ {0}
    BY <1>1, TokenFacts
  <1>. QED
    BY <1>1, <1>2 DEF KeyIn, KeySet, NoKey

(* The last use of a buffer before the next operation.                     *)
LEMMA PriorFacts ==
  ASSUME NEW p, NEW i \in Nat \ {0}, NEW l
  PROVE  /\ p[i].op = "rewrap" => (Prior(p, l, i + 1) <=> Prior(p, l, i))
         /\ p[i].op # "rewrap" => (Prior(p, l, i + 1) <=> l = i)
         /\ Prior(p, l, i) => l \in 1 .. i - 1
         /\ \A k : Prior(p, l, i) /\ Prior(p, k, i) => l = k
         /\ ~Prior(p, l, 1)
  <1>1. ASSUME p[i].op = "rewrap", Prior(p, l, i) PROVE Prior(p, l, i + 1)
    <2>1. ASSUME NEW j \in l + 1 .. i PROVE p[j].op = "rewrap"
      BY <1>1 DEF Prior
    <2>. QED
      BY <1>1, <2>1 DEF Prior
  <1>2. ASSUME p[i].op = "rewrap", Prior(p, l, i + 1) PROVE Prior(p, l, i)
    BY <1>2 DEF Prior
  <1>3. ASSUME p[i].op # "rewrap", Prior(p, l, i + 1) PROVE l = i
    <2>1. l \in 1 .. i
      BY <1>3 DEF Prior
    <2>2. ASSUME l # i PROVE FALSE
      <3>1. i \in l + 1 .. i
        BY <2>1, <2>2
      <3>. QED
        BY <1>3, <3>1 DEF Prior
    <2>. QED
      BY <2>2
  <1>4. ASSUME p[i].op # "rewrap" PROVE Prior(p, i, i + 1)
    BY <1>4 DEF Prior
  <1>5. ASSUME NEW k, Prior(p, l, i), Prior(p, k, i) PROVE l = k
    <2>1. l \in 1 .. i - 1 /\ k \in 1 .. i - 1
      BY <1>5 DEF Prior
    <2>2. CASE l < k
      <3>1. k \in l + 1 .. i - 1
        BY <2>1, <2>2
      <3>. QED
        BY <1>5, <3>1 DEF Prior
    <2>3. CASE k < l
      <3>1. l \in k + 1 .. i - 1
        BY <2>1, <2>3
      <3>. QED
        BY <1>5, <3>1 DEF Prior
    <2>. QED
      BY <2>1, <2>2, <2>3
  <1>6. Prior(p, l, i) => l \in 1 .. i - 1
    BY DEF Prior
  <1>7. ~Prior(p, l, 1)
    BY DEF Prior
  <1>. QED
    BY <1>1, <1>2, <1>3, <1>4, <1>5, <1>6, <1>7
-------------------------------------------------------------------------------
(* Rows of the cache.                                                      *)

LEMMA TouchFacts ==
  ASSUME NEW q \in Seq(KeySet), NEW k \in SeqRange(q)
  PROVE  Touch(q, k) \in Seq(KeySet) /\ SeqRange(Touch(q, k)) = SeqRange(q)
  <1>. DEFINE hit == CHOOSE i \in 1 .. Len(q) : q[i] = k
              t == [i \in 1 .. Len(q) |-> IF i = 1 THEN k ELSE IF i <= hit THEN q[i - 1] ELSE q[i]]
  <1>1. hit \in 1 .. Len(q) /\ q[hit] = k
    BY DEF SeqRange
  <1>2. Len(q) \in Nat /\ \A i \in 1 .. Len(q) : q[i] \in KeySet
    OBVIOUS
  <1>3. Touch(q, k) = t
    BY DEF Touch
  <1>. HIDE DEF hit
  <1>4. \A i \in 1 .. Len(q) : t[i] \in KeySet /\ t[i] \in SeqRange(q)
    BY <1>1, <1>2 DEF SeqRange
  <1>5. t \in Seq(KeySet) /\ Len(t) = Len(q)
    BY <1>2, <1>4
  <1>6. ASSUME NEW m \in 1 .. Len(q) PROVE \E i \in 1 .. Len(q) : t[i] = q[m]
    <2>1. CASE m < hit
      <3>1. m + 1 \in 1 .. Len(q) /\ t[m + 1] = q[m]
        BY <1>1, <1>2, <2>1
      <3>. QED
        BY <3>1
    <2>2. CASE m = hit
      <3>1. 1 \in 1 .. Len(q) /\ t[1] = k
        BY <1>1, <1>2
      <3>. QED
        BY <1>1, <2>2, <3>1
    <2>3. CASE m > hit
      <3>1. t[m] = q[m]
        BY <1>1, <1>2, <2>3
      <3>. QED
        BY <3>1
    <2>. QED
      BY <1>1, <1>2, <2>1, <2>2, <2>3
  <1>. HIDE DEF t
  <1>7. SeqRange(t) = SeqRange(q)
    BY <1>4, <1>5, <1>6 DEF SeqRange
  <1>. QED
    BY <1>3, <1>5, <1>7

LEMMA EvictFacts ==
  ASSUME NEW q \in Seq(KeySet), NEW k \in KeySet
  PROVE  /\ Evict(q) \in Seq(KeySet)
         /\ <<k>> \o Evict(q) \in Seq(KeySet) /\ k \in SeqRange(<<k>> \o Evict(q))
         /\ Unbind(q, k) \in {k, NoKey}
         /\ Unbind(q, k) # NoKey => Unbind(q, k) \in SeqRange(Evict(q))
  <1>1. Evict(q) \in Seq(KeySet)
    BY SizeAssumption DEF Evict
  <1>2. ASSUME NEW e \in Seq(KeySet) PROVE <<k>> \o e \in Seq(KeySet) /\ k \in SeqRange(<<k>> \o e)
    <2>1. <<k>> \in Seq(KeySet) /\ Len(<<k>>) = 1 /\ <<k>>[1] = k /\ Len(e) \in Nat
      OBVIOUS
    <2>2. Len(<<k>> \o e) = 1 + Len(e) /\ (<<k>> \o e)[1] = k
      BY <2>1
    <2>. QED
      BY <2>1, <2>2 DEF SeqRange
  <1>. QED
    BY <1>1, <1>2 DEF Unbind
-------------------------------------------------------------------------------
(* What a step of one rank leaves of the others.                           *)

Others(r) ==
    /\ program' = program
    /\ \A q \in Ranks \ {r} :
           /\ at'[q] = at[q] /\ pc'[q] = pc[q] /\ version'[q] = version[q] /\ bound'[q] = bound[q]
           /\ cache'[q] = cache[q] /\ posts'[q] = posts[q] /\ keys'[q] = keys[q]
           /\ missing'[q] = missing[q]

LEMMA Contributes ==
  ASSUME Typed, NEW r \in Ranks, NEW kind, NEW key, NEW miss, Post(r, kind, key, miss)
  PROVE  /\ Len(posts'[r]) = Len(posts[r]) + 1 /\ Len(posts[r]) \in Nat
         /\ posts'[r][Len(posts[r]) + 1] = [kind |-> kind, key |-> key, miss |-> miss]
         /\ \A i \in 1 .. Len(posts[r]) : posts'[r][i] = posts[r][i]
         /\ \A q \in Ranks \ {r} : posts'[q] = posts[q]
         /\ kind \in PostKinds /\ key \in KeySet /\ miss \in SUBSET Ranks =>
                posts' \in [Ranks -> Seq([kind : PostKinds, key : KeySet, miss : SUBSET Ranks])]
  <1>. DEFINE P == [kind |-> kind, key |-> key, miss |-> miss]
              S == [kind : PostKinds, key : KeySet, miss : SUBSET Ranks]
  <1>1. posts \in [Ranks -> Seq(S)]
    BY DEF Typed
  <1>2. posts' = [posts EXCEPT ![r] = Append(@, P)]
    BY DEF Post
  <1>3. kind \in PostKinds /\ key \in KeySet /\ miss \in SUBSET Ranks => P \in S
    OBVIOUS
  <1>. HIDE DEF P, S
  <1>4. posts[r] \in Seq(S) /\ posts'[r] = Append(posts[r], P)
    BY <1>1, <1>2
  <1>5. /\ Len(posts'[r]) = Len(posts[r]) + 1 /\ Len(posts[r]) \in Nat
        /\ posts'[r][Len(posts[r]) + 1] = P
        /\ \A i \in 1 .. Len(posts[r]) : posts'[r][i] = posts[r][i]
    BY <1>4
  <1>6. \A q \in Ranks \ {r} : posts'[q] = posts[q]
    BY <1>1, <1>2
  <1>7. P \in S => posts' \in [Ranks -> Seq(S)]
    BY <1>1, <1>2, <1>4
  <1>. QED
    BY <1>3, <1>5, <1>6, <1>7 DEF P, S

LEMMA KeyIsTyped ==
  ASSUME Typed, NEW r \in Ranks, Running(r)
  PROVE  LocalKey(r) \in KeySet
  <1>1. Len(program) \in Nat /\ program \in Programs
    BY ProgramFacts DEF Typed
  <1>2. at[r] \in 1 .. Len(program)
    BY <1>1 DEF Typed, Running
  <1>3. program[at[r]].buf \in Buffers
    BY <1>1, <1>2, ProgramFacts
  <1>. QED
    BY <1>3 DEF Typed, LocalKey, Key, KeySet

LEMMA ReceivedKeys ==
  ASSUME CacheInv, NEW r \in Ranks, pc[r] = "keys", Complete(r)
  PROVE  [s \in Ranks |-> Received(r, s).key] \in [Ranks -> KeySet]
  <1>. DEFINE S == [kind : PostKinds, key : KeySet, miss : SUBSET Ranks]
  <1>1. ASSUME NEW s \in Ranks PROVE Received(r, s).key \in KeySet
    <2>1. posts[s] \in Seq(S) /\ posts[r] \in Seq(S) /\ Len(posts[r]) > 0
      BY DEF CacheInv, Typed, Holding
    <2>. HIDE DEF S
    <2>2. Len(posts[r]) \in 1 .. Len(posts[s])
      BY <2>1 DEF Complete
    <2>3. posts[s][Len(posts[r])] \in S
      BY <2>1, <2>2, ElementOfSeq
    <2>. QED
      BY <2>3 DEF Received, S
  <1>. QED
    BY <1>1

LEMMA ImportTypes ==
  ASSUME Typed, NEW r \in Ranks, NEW stop \in Nat, ImportUpTo(r, stop)
  PROVE  cache' \in [Ranks -> [Ranks -> Seq(KeySet)]] /\ bound' \in [Ranks -> [Ranks -> KeySet]]
  <1>1. /\ cache \in [Ranks -> [Ranks -> Seq(KeySet)]] /\ bound \in [Ranks -> [Ranks -> KeySet]]
        /\ keys \in [Ranks -> [Ranks -> KeySet]]
    BY DEF Typed
  <1>2. NoKey \in KeySet
    BY DEF NoKey, KeySet
  <1>3. ASSUME NEW s \in Ranks
        PROVE  /\ Evict(cache[r][s]) \in Seq(KeySet)
               /\ <<keys[r][s]>> \o Evict(cache[r][s]) \in Seq(KeySet)
               /\ Unbind(cache[r][s], bound[r][s]) \in KeySet
    <2>1. cache[r][s] \in Seq(KeySet) /\ keys[r][s] \in KeySet /\ bound[r][s] \in KeySet
      BY <1>1
    <2>2. PICK row \in Seq(KeySet) : row = cache[r][s]
      BY <2>1
    <2>3. Evict(row) \in Seq(KeySet) /\ <<keys[r][s]>> \o Evict(row) \in Seq(KeySet)
      BY <2>1, EvictFacts
    <2>4. Unbind(row, bound[r][s]) \in {bound[r][s], NoKey}
      BY <2>1, EvictFacts
    <2>. QED
      BY <1>2, <2>1, <2>2, <2>3, <2>4
  <1>4. cache' \in [Ranks -> [Ranks -> Seq(KeySet)]]
    BY <1>1, <1>3 DEF ImportUpTo
  <1>5. bound' \in [Ranks -> [Ranks -> KeySet]]
    BY <1>1, <1>3 DEF ImportUpTo
  <1>. QED
    BY <1>4, <1>5

LEMMA TypedStays ==
  ASSUME CacheInv, NEW r \in Ranks, Step(r) \/ ImportFails(r)
  PROVE  Typed' /\ Others(r)
  <1>1. Typed /\ PCs = {"idle", "keys", "misses", "descriptors", "ready"}
    BY DEF CacheInv, PCs
  <1>2. NoKey \in KeySet /\ at[r] \in Nat \ {0} /\ at[r] + 1 \in Nat \ {0}
    BY <1>1 DEF NoKey, KeySet, Typed
  <1>3. CASE Rewrap(r)
    <2>1. \A q, b : version[q][b] \in Nat => version[q][b] + 1 \in Nat
      OBVIOUS
    <2>2. version' \in [Ranks -> [Buffers -> Nat]]
      BY <1>1, <1>3, <2>1 DEF Typed, Rewrap
    <2>3. bound' \in [Ranks -> [Ranks -> KeySet]]
      BY <1>1, <1>2, <1>3 DEF Typed, Rewrap
    <2>. QED
      BY <1>1, <1>2, <1>3, <2>2, <2>3 DEF Typed, Rewrap, Others
  <1>4. CASE FastPath(r) \/ Return(r)
    BY <1>1, <1>2, <1>4 DEF Typed, FastPath, Return, Others
  <1>5. CASE ExchangeKeys(r)
    <2>1. LocalKey(r) \in KeySet /\ Post(r, "key", LocalKey(r), {})
      BY <1>1, <1>5, KeyIsTyped DEF ExchangeKeys, InEnsure
    <2>2. "key" \in PostKinds /\ {} \in SUBSET Ranks
      BY DEF PostKinds
    <2>. QED
      BY <1>1, <1>5, <2>1, <2>2, Contributes DEF Typed, ExchangeKeys, Others
  <1>6. CASE LookUp(r)
    <2>. DEFINE got == [s \in Ranks |-> Received(r, s).key]
                miss == {s \in Peers(r) : got[s] \notin SeqRange(cache[r][s])}
    <2>1. Post(r, "miss", NoKey, miss) /\ pc[r] = "keys" /\ Complete(r)
      BY <1>6 DEF LookUp
    <2>2. "miss" \in PostKinds /\ miss \in SUBSET Ranks
      BY DEF PostKinds, Peers
    <2>3. Running(r)
      BY <1>1, <2>1 DEF CacheInv, Holding, Typed, Running
    <2>4. LocalKey(r) \in KeySet
      BY <1>1, <2>3, KeyIsTyped
    <2>5. got \in [Ranks -> KeySet]
      BY <2>1, ReceivedKeys
    <2>6. ASSUME NEW s \in Peers(r) \ miss PROVE Touch(cache[r][s], got[s]) \in Seq(KeySet)
      <3>1. cache[r][s] \in Seq(KeySet) /\ got[s] \in SeqRange(cache[r][s])
        BY <1>1, <2>6 DEF Typed, Peers
      <3>. QED
        BY <3>1, TouchFacts
    <2>7. cache' = [cache EXCEPT ![r] = [s \in Ranks |->
                       IF s \in Peers(r) \ miss THEN Touch(@[s], got[s]) ELSE @[s]]]
      BY <1>6 DEF LookUp
    <2>8. keys' = [keys EXCEPT ![r] = got] /\ missing' = [missing EXCEPT ![r] = miss]
      BY <1>6 DEF LookUp
    <2>9. /\ UNCHANGED <<program, at, version, failures>>
          /\ bound' = [bound EXCEPT ![r][r] = LocalKey(r)] /\ pc' = [pc EXCEPT ![r] = "misses"]
      BY <1>6 DEF LookUp
    <2>. HIDE DEF got, miss
    <2>10. cache' \in [Ranks -> [Ranks -> Seq(KeySet)]]
      BY <1>1, <2>6, <2>7 DEF Typed
    <2>11. posts' \in [Ranks -> Seq([kind : PostKinds, key : KeySet, miss : SUBSET Ranks])]
           /\ \A q \in Ranks \ {r} : posts'[q] = posts[q]
      BY <1>1, <1>2, <2>1, <2>2, Contributes
    <2>12. bound' \in [Ranks -> [Ranks -> KeySet]]
      BY <1>1, <2>4, <2>9 DEF Typed
    <2>13. keys' \in [Ranks -> [Ranks -> KeySet]] /\ missing' \in [Ranks -> SUBSET Ranks]
      BY <1>1, <2>2, <2>5, <2>8 DEF Typed
    <2>14. Typed'
      BY <1>1, <2>9, <2>10, <2>11, <2>12, <2>13 DEF Typed
    <2>15. ASSUME NEW q \in Ranks \ {r}
           PROVE  cache'[q] = cache[q] /\ keys'[q] = keys[q] /\ missing'[q] = missing[q]
                  /\ bound'[q] = bound[q] /\ pc'[q] = pc[q]
      BY <1>1, <2>7, <2>8, <2>9 DEF Typed
    <2>. QED
      BY <2>9, <2>11, <2>14, <2>15 DEF Others
  <1>7. CASE AllHit(r)
    BY <1>1, <1>7 DEF Typed, AllHit, Others
  <1>8. CASE ExchangeDescriptors(r)
    <2>1. pc[r] = "misses" /\ Post(r, "descriptor", LocalKey(r), {})
      BY <1>8 DEF ExchangeDescriptors
    <2>2. LocalKey(r) \in KeySet
      <3>1. Running(r)
        BY <1>1, <2>1 DEF CacheInv, Holding, Typed, Running
      <3>. QED
        BY <1>1, <3>1, KeyIsTyped
    <2>3. "descriptor" \in PostKinds /\ {} \in SUBSET Ranks
      BY DEF PostKinds
    <2>. QED
      BY <1>1, <1>8, <2>1, <2>2, <2>3, Contributes DEF Typed, ExchangeDescriptors, Others
  <1>9. CASE ImportAll(r) \/ ImportFails(r)
    <2>1. PICK stop \in Nat : ImportUpTo(r, stop)
      <3>1. N \in Nat /\ \A s \in missing[r] : s \in Nat
        BY <1>1, SizeAssumption DEF Typed, Ranks
      <3>. QED
        BY <1>9, <3>1 DEF ImportAll, ImportFails
    <2>2. cache' \in [Ranks -> [Ranks -> Seq(KeySet)]] /\ bound' \in [Ranks -> [Ranks -> KeySet]]
      BY <1>1, <2>1, ImportTypes
    <2>3. \A q \in Ranks \ {r} : cache'[q] = cache[q] /\ bound'[q] = bound[q]
      BY <1>1, <2>1 DEF Typed, ImportUpTo
    <2>4. /\ UNCHANGED <<program, version, posts, keys, missing>> /\ failures' \in Nat
          /\ at' \in [Ranks -> Nat \ {0}] /\ \A q \in Ranks \ {r} : at'[q] = at[q]
          /\ pc' \in [Ranks -> PCs] /\ \A q \in Ranks \ {r} : pc'[q] = pc[q]
      <3>1. at \in [Ranks -> Nat \ {0}] /\ pc \in [Ranks -> PCs] /\ failures \in Nat
        BY <1>1 DEF Typed
      <3>2. CASE ImportAll(r)
        BY <1>1, <3>1, <3>2 DEF ImportAll
      <3>3. CASE ImportFails(r)
        <4>1. /\ UNCHANGED <<program, version, posts, keys, missing>> /\ failures' = failures + 1
              /\ at' = [at EXCEPT ![r] = IF Retry THEN @ ELSE @ + 1]
              /\ pc' = [pc EXCEPT ![r] = "idle"]
          BY <3>3 DEF ImportFails
        <4>. QED
          BY <1>1, <1>2, <3>1, <4>1
      <3>. QED
        BY <1>9, <3>2, <3>3
    <2>. QED
      BY <1>1, <2>2, <2>3, <2>4 DEF Typed, Others
  <1>. QED
    BY <1>3, <1>4, <1>5, <1>6, <1>7, <1>8, <1>9 DEF Step
(* The peers of an import, those below stop and those above.               *)
LEMMA ImportKeeps ==
  ASSUME CacheInv, NEW r \in Ranks, NEW stop \in Nat, stop \notin Ranks \/ stop \in missing[r],
         ImportUpTo(r, stop), pc[r] = "descriptors"
  PROVE  /\ bound'[r][r] = bound[r][r]
         /\ \A s \in Peers(r) : s < stop => bound'[r][s] = keys[r][s]
         /\ \A s \in Peers(r) : bound'[r][s] # NoKey => bound'[r][s] \in SeqRange(cache'[r][s])
  <1>1. Holding(r) /\ r \in Nat /\ \A s \in Ranks : s \in Nat
    BY SizeAssumption DEF CacheInv, Ranks
  <1>2. bound'[r][r] = bound[r][r]
    BY DEF CacheInv, Typed, ImportUpTo
  <1>3. ASSUME NEW s \in Peers(r)
        PROVE  /\ s < stop => bound'[r][s] = keys[r][s]
               /\ bound'[r][s] # NoKey => bound'[r][s] \in SeqRange(cache'[r][s])
    <2>1. /\ s \in Ranks /\ s \in Nat /\ s # r
          /\ s \notin missing[r] => keys[r][s] \in SeqRange(cache[r][s])
          /\ bound[r][s] # NoKey => bound[r][s] \in SeqRange(cache[r][s])
      BY <1>1 DEF Peers, Holding
    <2>2. PICK row \in Seq(KeySet) : row = cache[r][s]
      BY <2>1 DEF CacheInv, Typed
    <2>3. keys[r][s] \in KeySet /\ bound[r][s] \in KeySet
      BY <2>1 DEF CacheInv, Typed
    <2>4. /\ cache'[r][s] = IF s \notin missing[r] \/ s > stop THEN row
                            ELSE IF s = stop THEN Evict(row) ELSE <<keys[r][s]>> \o Evict(row)
          /\ bound'[r][s] = IF s > stop THEN bound[r][s]
                            ELSE IF s = stop THEN Unbind(row, bound[r][s]) ELSE keys[r][s]
      BY <2>1, <2>2 DEF CacheInv, Typed, ImportUpTo
    <2>5. CASE s > stop
      BY <2>1, <2>2, <2>4, <2>5
    <2>6. CASE s = stop
      <3>1. bound'[r][s] = Unbind(row, bound[r][s]) /\ cache'[r][s] = Evict(row)
        BY <2>1, <2>4, <2>6
      <3>2. Unbind(row, bound[r][s]) # NoKey => Unbind(row, bound[r][s]) \in SeqRange(Evict(row))
        BY <2>3, EvictFacts
      <3>. QED
        BY <2>1, <2>6, <3>1, <3>2
    <2>7. CASE s < stop
      <3>1. bound'[r][s] = keys[r][s]
        BY <2>1, <2>4, <2>7
      <3>2. keys[r][s] \in SeqRange(<<keys[r][s]>> \o Evict(row))
        BY <2>3, EvictFacts
      <3>3. cache'[r][s] = IF s \notin missing[r] THEN row ELSE <<keys[r][s]>> \o Evict(row)
        BY <2>1, <2>4, <2>7
      <3>. QED
        BY <2>1, <2>2, <3>1, <3>2, <3>3
    <2>. QED
      BY <2>1, <2>5, <2>6, <2>7
  <1>. QED
    BY <1>2, <1>3


(* What a rank holds stays with it, also over its failed calls.            *)
LEMMA HoldingStays ==
  ASSUME CacheInv, NEW r \in Ranks, Step(r) \/ ImportFails(r)
  PROVE  Holding(r)'
  <1>1. Typed /\ Holding(r) /\ Others(r)
    BY TypedStays DEF CacheInv
  <1>2. program' = program /\ Len(program) \in Nat /\ Len(posts[r]) \in Nat
    BY <1>1, ProgramFacts DEF Typed, Others
  <1>3. Running(r) => at[r] \in 1 .. Len(program)
    BY <1>1, <1>2 DEF Typed, Running
  <1>4. CASE Rewrap(r)
    <2>1. /\ UNCHANGED <<pc, cache>> /\ pc[r] = "idle"
          /\ \A s \in Peers(r) : bound'[r][s] = bound[r][s]
      BY <1>1, <1>4 DEF Typed, Rewrap, Peers
    <2>. QED
      BY <1>1, <2>1 DEF Holding, NoKey
  <1>5. CASE FastPath(r) \/ Return(r)
    <2>1. /\ UNCHANGED <<bound, cache>> /\ pc'[r] \in {"ready", "idle"}
          /\ pc'[r] = "ready" => Running(r) /\ at' = at
      BY <1>1, <1>5 DEF Typed, FastPath, Return, InEnsure
    <2>. QED
      BY <1>1, <1>2, <1>3, <2>1 DEF Holding, NoKey
  <1>6. CASE ExchangeKeys(r)
    <2>1. /\ UNCHANGED <<at, bound, cache>> /\ pc'[r] = "keys" /\ Running(r)
          /\ Post(r, "key", LocalKey(r), {})
      BY <1>1, <1>6 DEF Typed, ExchangeKeys, InEnsure
    <2>2. Len(posts'[r]) > 0
      <3>1. PICK c, m : Post(r, "key", c, m)
        BY <2>1
      <3>2. Len(posts'[r]) = Len(posts[r]) + 1
        BY <1>1, <3>1, Contributes
      <3>. QED
        BY <1>2, <3>2
    <2>. QED
      BY <1>1, <1>2, <1>3, <2>1, <2>2 DEF Holding, NoKey
  <1>7. CASE LookUp(r)
    <2>. DEFINE got == [s \in Ranks |-> Received(r, s).key]
                miss == {s \in Peers(r) : got[s] \notin SeqRange(cache[r][s])}
    <2>1. /\ UNCHANGED at /\ pc[r] = "keys" /\ pc'[r] = "misses"
          /\ keys'[r] = got /\ missing'[r] = miss
          /\ \A s \in Peers(r) : bound'[r][s] = bound[r][s]
      BY <1>1, <1>7 DEF Typed, LookUp, Peers
    <2>2. ASSUME NEW s \in Peers(r) PROVE SeqRange(cache'[r][s]) = SeqRange(cache[r][s])
      <3>1. cache'[r][s] = IF s \in miss THEN cache[r][s] ELSE Touch(cache[r][s], got[s])
        BY <1>1, <1>7 DEF Typed, LookUp, Peers
      <3>2. cache[r][s] \in Seq(KeySet)
        BY <1>1 DEF Typed, Peers
      <3>3. s \notin miss => got[s] \in SeqRange(cache[r][s])
        OBVIOUS
      <3>4. s \notin miss => SeqRange(Touch(cache[r][s], got[s])) = SeqRange(cache[r][s])
        BY <3>2, <3>3, TouchFacts
      <3>. QED
        BY <3>1, <3>4
    <2>3. missing'[r] \subseteq Peers(r)
      BY <2>1
    <2>4. ASSUME NEW s \in Peers(r) \ missing'[r] PROVE keys'[r][s] \in SeqRange(cache'[r][s])
      BY <2>1, <2>2
    <2>5. ASSUME NEW s \in Peers(r), bound'[r][s] # NoKey
          PROVE  bound'[r][s] \in SeqRange(cache'[r][s])
      BY <1>1, <2>1, <2>2, <2>5 DEF Holding
    <2>6. Len(posts'[r]) > 0 /\ posts'[r][Len(posts'[r])].miss = missing'[r]
      <3>1. PICK c, m : c = NoKey /\ m = miss
        OBVIOUS
      <3>2. Post(r, "miss", c, m)
        BY <1>7, <3>1 DEF LookUp
      <3>3. Len(posts'[r]) = Len(posts[r]) + 1
            /\ posts'[r][Len(posts[r]) + 1] = [kind |-> "miss", key |-> c, miss |-> m]
        BY <1>1, <3>2, Contributes
      <3>. QED
        BY <1>2, <2>1, <3>1, <3>3
    <2>. HIDE DEF got, miss
    <2>. QED
      BY <1>1, <1>2, <2>1, <2>3, <2>4, <2>5, <2>6 DEF Holding, NoKey
  <1>8. CASE AllHit(r)
    <2>1. /\ UNCHANGED <<at, cache, posts, keys, missing>>
          /\ pc[r] = "misses" /\ pc'[r] = "ready" /\ ~AnyoneMisses(r)
          /\ \A s \in Peers(r) : bound'[r][s] = keys[r][s]
      BY <1>1, <1>8 DEF Typed, AllHit, Peers
    <2>2. missing[r] = {}
      BY <1>1, <2>1 DEF Holding, AnyoneMisses, Received
    <2>. QED
      BY <1>1, <1>2, <2>1, <2>2 DEF Holding, NoKey
  <1>9. CASE ExchangeDescriptors(r)
    <2>1. /\ UNCHANGED <<at, bound, cache, keys, missing>>
          /\ pc[r] = "misses" /\ pc'[r] = "descriptors"
      BY <1>1, <1>9 DEF Typed, ExchangeDescriptors
    <2>. QED
      BY <1>1, <1>2, <2>1 DEF Holding, NoKey
  <1>10. CASE ImportAll(r) \/ ImportFails(r)
    <2>1. /\ pc[r] = "descriptors" /\ pc'[r] \in {"ready", "idle"} /\ (pc'[r] = "ready" => at' = at)
          /\ \E stop \in missing[r] \cup {N} : ImportUpTo(r, stop)
      BY <1>1, <1>10 DEF Typed, ImportAll, ImportFails
    <2>2. PICK stop \in missing[r] \cup {N} : ImportUpTo(r, stop)
      BY <2>1
    <2>3. stop \in Nat /\ (stop \notin Ranks \/ stop \in missing[r])
      <3>1. missing[r] \subseteq Ranks
        BY <1>1 DEF Typed
      <3>2. N \in Nat /\ N \notin Ranks /\ \A s \in Ranks : s \in Nat
        BY SizeAssumption DEF Ranks
      <3>. QED
        BY <3>1, <3>2
    <2>4. \A s \in Peers(r) : bound'[r][s] # NoKey => bound'[r][s] \in SeqRange(cache'[r][s])
      BY <2>1, <2>2, <2>3, ImportKeeps
    <2>. QED
      BY <1>1, <1>2, <2>1, <2>4 DEF Holding, NoKey
  <1>. QED
    BY <1>4, <1>5, <1>6, <1>7, <1>8, <1>9, <1>10 DEF Step

LEMMA CacheInit ==
  ASSUME Init
  PROVE  CacheInv
  <1>1. 1 \in Nat \ {0} /\ NoKey \in KeySet /\ "idle" \in PCs /\ {} \in SUBSET Ranks
    BY DEF NoKey, KeySet, PCs
  <1>2. Typed
    BY <1>1 DEF Init, Typed
  <1>3. \A r \in Ranks : Holding(r)
    BY DEF Init, Holding, Peers
  <1>. QED
    BY <1>2, <1>3 DEF CacheInv

LEMMA CacheStep ==
  ASSUME CacheInv, [Next]_vars
  PROVE  CacheInv'
  <1>1. CASE Next
    <2>1. PICK r \in Ranks : Step(r) \/ ImportFails(r)
      BY <1>1 DEF Next
    <2>2. Typed' /\ Others(r) /\ Holding(r)'
      BY <2>1, TypedStays, HoldingStays
    <2>3. ASSUME NEW q \in Ranks \ {r} PROVE Holding(q)'
      BY <2>2 DEF CacheInv, Others, Holding, NoKey
    <2>. QED
      BY <2>2, <2>3 DEF CacheInv
  <1>2. CASE UNCHANGED vars
    BY <1>2 DEF vars, CacheInv, Typed, Holding, NoKey
  <1>. QED
    BY <1>1, <1>2

(* Every reachable state satisfies the part about each rank's own cache.   *)
LEMMA CacheInvariant == Spec => []CacheInv
  <1>1. Init => CacheInv
    BY CacheInit
  <1>2. CacheInv /\ [Next]_vars => CacheInv'
    BY CacheStep
  <1>. QED
    BY <1>1, <1>2, PTL DEF Spec

(* What the group has bound of a peer is an import its cache still holds:  *)
(* whatever the callers repeat, and also after an import that failed       *)
(* behind an eviction.                                                     *)
THEOREM BindingsAreCached == Spec => []NoDanglingBinding
  <1>1. CacheInv => NoDanglingBinding
    BY DEF CacheInv, Holding, NoDanglingBinding
  <1>. QED
    BY <1>1, CacheInvariant, PTL
-------------------------------------------------------------------------------
(* Where a rank is, and what it decides alone.                             *)

LEMMA Here ==
  ASSUME ImportInv, NEW r \in Ranks
  PROVE  /\ program \in Programs /\ Len(program) \in Nat
         /\ at[r] \in Nat \ {0} /\ at[r] <= Len(program) + 1 /\ pc[r] \in PCs
         /\ Len(posts[r]) \in Nat
         /\ \A i \in 1 .. Len(posts[r]) :
                /\ posts[r][i] \in [kind : PostKinds, key : KeySet, miss : SUBSET Ranks]
                /\ posts[r][i].kind \in PostKinds
         /\ pc[r] # "idle" => at[r] \in 1 .. Len(program) /\ Op(r) # "rewrap"
         /\ \A b \in Buffers : version[r][b] = TokenIn(program, at[r], b)
  <1>1. Typed /\ Located(r)
    BY DEF ImportInv, CacheInv, RankInv
  <1>2. program \in Programs /\ Len(program) \in Nat
    BY <1>1, ProgramFacts DEF Typed
  <1>3. at[r] \in 1 .. Len(program) + 1 /\ pc[r] \in PCs
    BY <1>1 DEF Typed, Located
  <1>4. posts[r] \in Seq([kind : PostKinds, key : KeySet, miss : SUBSET Ranks])
    BY <1>1 DEF Typed
  <1>5. ASSUME NEW i \in 1 .. Len(posts[r])
        PROVE  /\ posts[r][i] \in [kind : PostKinds, key : KeySet, miss : SUBSET Ranks]
               /\ posts[r][i].kind \in PostKinds
    <2>1. posts[r][i] \in [kind : PostKinds, key : KeySet, miss : SUBSET Ranks]
      BY <1>4, ElementOfSeq
    <2>. QED
      BY <2>1
  <1>6. Len(posts[r]) \in Nat
    BY <1>4
  <1>7. /\ pc[r] # "idle" => at[r] <= Len(program) /\ Op(r) # "rewrap"
        /\ \A b \in Buffers : version[r][b] = TokenIn(program, at[r], b)
    BY <1>1 DEF Located
  <1>. QED
    BY <1>2, <1>3, <1>5, <1>6, <1>7

LEMMA LocalKeyIs ==
  ASSUME ImportInv, NEW r \in Ranks, at[r] <= Len(program)
  PROVE  /\ at[r] \in 1 .. Len(program) /\ program[at[r]].buf \in Buffers
         /\ LocalKey(r) = KeyIn(program, at[r]) /\ LocalKey(r) \in KeySet /\ LocalKey(r) # NoKey
         /\ LocalKey(r).buf = program[at[r]].buf
         /\ LocalKey(r).token = version[r][program[at[r]].buf]
  <1>1. at[r] \in 1 .. Len(program) /\ program \in Programs
    BY Here
  <1>2. program[at[r]].buf \in Buffers
    BY <1>1, ProgramFacts
  <1>3. version[r][program[at[r]].buf] = TokenIn(program, at[r], program[at[r]].buf)
    BY <1>2, Here
  <1>4. LocalKey(r) = KeyIn(program, at[r])
    BY <1>3 DEF LocalKey, Key, KeyIn
  <1>5. LocalKey(r).buf = program[at[r]].buf /\ LocalKey(r).token = version[r][program[at[r]].buf]
    BY DEF LocalKey, Key
  <1>. QED
    BY <1>1, <1>2, <1>4, <1>5, KeyFacts

(* A rank takes the fast path exactly where the ranks do not meet.         *)
LEMMA Decision ==
  ASSUME ImportInv, FailuresAreForgotten, NEW r \in Ranks, InEnsure(r)
  PROVE  /\ at[r] \in 1 .. Len(program) /\ pc[r] = "idle" /\ Op(r) # "rewrap"
         /\ SameAsBefore(r) => /\ ~Exchanging(program, at[r])
                               /\ \A s \in Peers(r) : bound[r][s] = KeyIn(program, at[r])
         /\ ~SameAsBefore(r) => Exchanging(program, at[r])
  <1>1. /\ at[r] \in 1 .. Len(program) /\ pc[r] = "idle" /\ program[at[r]].op # "rewrap"
        /\ program \in Programs
    BY Here DEF InEnsure, Running, Op
  <1>2. LocalKey(r) = KeyIn(program, at[r]) /\ LocalKey(r) # NoKey
    BY <1>1, LocalKeyIs
  <1>3. OwnBefore(r) /\ PeersBound(r)
    BY <1>1 DEF ImportInv, RankInv, OwnBinding
  <1>4. ASSUME bound[r][r] = LocalKey(r)
        PROVE  \E l : Prior(program, l, at[r]) /\ KeyIn(program, l) = KeyIn(program, at[r])
    <2>1. PICK l : Prior(program, l, at[r])
      BY <1>2, <1>3, <1>4 DEF OwnBefore
    <2>. QED
      BY <1>2, <1>3, <1>4, <2>1 DEF OwnBefore
  <1>5. ASSUME NEW l, Prior(program, l, at[r]), KeyIn(program, l) = KeyIn(program, at[r])
        PROVE  bound[r][r] = LocalKey(r)
    <2>1. l \in 1 .. Len(program)
      BY <1>1, <1>5, PriorFacts
    <2>2. program[l].buf = program[at[r]].buf
      BY <1>1, <1>5, <2>1, KeyFacts
    <2>3. LocalKey(r).token = version[r][program[l].buf]
      BY <1>1, <2>2, LocalKeyIs
    <2>. QED
      BY <1>2, <1>3, <1>5, <2>3 DEF OwnBefore
  <1>6. CASE MayFail(program)
    <2>1. Exchanging(program, at[r])
      BY <1>1, <1>6 DEF FailuresAreForgotten
    <2>2. bound[r][r] # LocalKey(r)
      BY <1>4, <2>1 DEF Exchanging
    <2>. QED
      BY <1>1, <2>1, <2>2 DEF SameAsBefore, Op
  <1>7. CASE ~MayFail(program)
    <2>1. ASSUME NEW l, Prior(program, l, at[r]), NEW s \in Peers(r)
          PROVE  bound[r][s] = KeyIn(program, l) /\ KeyIn(program, l) # NoKey
      <3>1. l \in 1 .. Len(program)
        BY <1>1, <2>1, PriorFacts
      <3>. QED
        BY <1>1, <1>3, <1>7, <2>1, <3>1, KeyFacts DEF PeersBound
    <2>2. ASSUME SameAsBefore(r)
          PROVE  /\ ~Exchanging(program, at[r])
                 /\ \A s \in Peers(r) : bound[r][s] = KeyIn(program, at[r])
      <3>1. PICK l : Prior(program, l, at[r]) /\ KeyIn(program, l) = KeyIn(program, at[r])
        BY <1>4, <2>2 DEF SameAsBefore
      <3>. QED
        BY <2>1, <3>1 DEF Exchanging
    <2>3. ASSUME ~Exchanging(program, at[r]) PROVE SameAsBefore(r)
      <3>1. PICK l : Prior(program, l, at[r]) /\ KeyIn(program, l) = KeyIn(program, at[r])
        BY <1>1, <2>3 DEF Exchanging
      <3>. QED
        BY <1>5, <2>1, <3>1 DEF SameAsBefore
    <2>. QED
      BY <1>1, <2>2, <2>3 DEF Op
  <1>. QED
    BY <1>6, <1>7
-------------------------------------------------------------------------------
(* What a step of one rank leaves of what relates it to the others.        *)

Grows(r) ==
    /\ Len(posts[r]) <= Len(posts'[r])
    /\ \A i \in 1 .. Len(posts[r]) : posts'[r][i] = posts[r][i]

LEMMA PostFacts ==
  ASSUME ImportInv, NEW r \in Ranks, NEW kind, NEW key, NEW miss, Post(r, kind, key, miss)
  PROVE  /\ Len(posts'[r]) = Len(posts[r]) + 1 /\ Len(posts[r]) \in Nat
         /\ posts'[r][Len(posts[r]) + 1] = [kind |-> kind, key |-> key, miss |-> miss]
         /\ \A i \in 1 .. Len(posts[r]) : posts'[r][i] = posts[r][i]
         /\ \A q \in Ranks \ {r} : posts'[q] = posts[q]
         /\ Grows(r)
  <1>1. Typed
    BY DEF ImportInv, CacheInv
  <1>2. \A i \in 1 .. Len(posts[r]) : posts'[r][i] = posts[r][i]
    BY <1>1, Contributes
  <1>3. Len(posts'[r]) = Len(posts[r]) + 1 /\ Len(posts[r]) \in Nat
    BY <1>1, Contributes
  <1>. QED
    BY <1>1, <1>2, <1>3, Contributes DEF Grows

LEMMA OverStays ==
  ASSUME ImportInv, NEW r \in Ranks, Others(r), Grows(r), NEW k \in Nat, Over(k)
  PROVE  Over(k)'
  <1>1. CASE k = 0
    BY <1>1 DEF Over
  <1>2. CASE k # 0
    <2>1. ASSUME NEW q \in Ranks
          PROVE  k <= Len(posts'[q]) /\ posts'[q][k].kind # "key" /\ posts'[q][k].miss = {}
      <3>1. k <= Len(posts[q]) /\ posts[q][k].kind # "key" /\ posts[q][k].miss = {}
        BY <1>2 DEF Over
      <3>2. k \in 1 .. Len(posts[q]) /\ Len(posts[q]) \in Nat
        BY <1>2, <3>1, Here
      <3>3. CASE q # r
        BY <3>1, <3>3 DEF Others
      <3>4. CASE q = r
        <4>1. posts'[r][k] = posts[r][k]
          BY <3>2, <3>4 DEF Grows
        <4>2. k <= Len(posts'[r])
          <5>1. Len(posts[r]) <= Len(posts'[r]) /\ k <= Len(posts[r])
            BY <3>1, <3>4 DEF Grows
          <5>. QED
            BY <3>4, <5>1
        <4>. QED
          BY <3>1, <3>4, <4>1, <4>2
      <3>. QED
        BY <3>3, <3>4
    <2>. QED
      BY <2>1 DEF Over
  <1>. QED
    BY <1>1, <1>2

(* A rank that does not move keeps its invariant.                          *)
LEMMA RankStays ==
  ASSUME ImportInv, NEW r \in Ranks, Others(r), Grows(r), NEW q \in Ranks, q # r
  PROVE  RankInv(q)' /\ Begun(q)' = Begun(q)
  <1>1. /\ program' = program /\ at'[q] = at[q] /\ pc'[q] = pc[q] /\ version'[q] = version[q]
        /\ bound'[q] = bound[q] /\ cache'[q] = cache[q] /\ posts'[q] = posts[q]
        /\ keys'[q] = keys[q] /\ missing'[q] = missing[q]
    BY DEF Others
  <1>2. RankInv(q)
    BY DEF ImportInv
  <1>3. Located(q)'
    BY <1>1, <1>2 DEF RankInv, Located, Meeting, Op
  <1>4. OwnBinding(q)'
    BY <1>1, <1>2 DEF RankInv, OwnBinding, OwnBefore, NoKey
  <1>5. PeersBound(q)'
    BY <1>1, <1>2 DEF RankInv, PeersBound
  <1>6. Learnt(q)'
    BY <1>1, <1>2 DEF RankInv, Learnt
  <1>7. Posted(q)'
    <2>1. Len(posts[q]) \in Nat
      BY Here
    <2>2. PICK k \in Nat : k = Len(posts[q])
      BY <2>1
    <2>3. Over(k) => Over(k)'
      BY OverStays
    <2>4. pc[q] \in {"idle", "ready"} => Over(k)'
      BY <1>2, <2>2, <2>3 DEF RankInv, Posted
    <2>5. Len(posts'[q]) = k
      BY <1>1, <2>2
    <2>6. Over(k)' => Over(Len(posts[q]))'
      BY <2>5 DEF Over
    <2>. QED
      BY <1>1, <1>2, <2>2, <2>4, <2>6 DEF RankInv, Posted
  <1>8. Begun(q)' = Begun(q)
    BY <1>1 DEF Begun
  <1>. QED
    BY <1>3, <1>4, <1>5, <1>6, <1>7, <1>8 DEF RankInv
-------------------------------------------------------------------------------
(* The ranks' contributions agree.                                         *)

LEMMA AheadStays ==
  ASSUME ImportInv, NEW r \in Ranks, Others(r), Grows(r),
         NEW p \in Ranks \ {r}, NEW q \in Ranks \ {r}, Ahead(p, q)
  PROVE  Ahead(p, q)'
  <1>1. /\ at'[p] = at[p] /\ pc'[p] = pc[p] /\ posts'[p] = posts[p]
        /\ at'[q] = at[q] /\ pc'[q] = pc[q] /\ posts'[q] = posts[q]
    BY DEF Others
  <1>2. Begun(p)' = Begun(p) /\ Begun(q)' = Begun(q)
    BY RankStays
  <1>3. PICK k \in Nat : k = Len(posts[q])
    BY Here
  <1>4. Over(k) => Over(k)'
    BY OverStays
  <1>5. ASSUME NEW x \in Ranks, k <= Len(posts[x]), posts[x][k].miss # {}, k > 0
        PROVE  k <= Len(posts'[x]) /\ posts'[x][k].miss # {}
    <2>1. CASE x # r
      BY <1>5, <2>1 DEF Others
    <2>2. CASE x = r
      <3>1. Len(posts[r]) \in Nat /\ Len(posts[r]) <= Len(posts'[r]) /\ k \in 1 .. Len(posts[r])
        BY <1>5, <2>2, Here DEF Grows
      <3>2. posts'[r][k] = posts[r][k]
        BY <3>1 DEF Grows
      <3>3. Len(posts'[r]) >= k
        BY <1>5, <2>2, <3>1
      <3>. QED
        BY <1>5, <2>2, <3>2, <3>3
    <2>. QED
      BY <2>1, <2>2
  <1>6. pc[q] = "misses" => k > 0
    BY <1>3 DEF ImportInv, RankInv, Posted
  <1>7. Len(posts'[q]) = k
    BY <1>1, <1>3
  <1>8. Over(k)' => Over(Len(posts[q]))'
    BY <1>7 DEF Over
  <1>9. CASE pc[p] = "keys" /\ Over(k) /\ at[p] \notin Begun(q) /\ Begun(p) = Begun(q) \cup {at[p]}
    BY <1>1, <1>2, <1>3, <1>4, <1>8, <1>9 DEF Ahead
  <1>10. CASE pc[p] = "misses" /\ pc[q] = "keys" /\ Begun(p) = Begun(q)
    BY <1>1, <1>2, <1>3, <1>10 DEF Ahead
  <1>11. CASE /\ pc[p] = "descriptors" /\ pc[q] = "misses" /\ Begun(p) = Begun(q)
              /\ \E x \in Ranks : k <= Len(posts[x]) /\ posts[x][k].miss # {}
    <2>1. \E x \in Ranks : k <= Len(posts'[x]) /\ posts'[x][k].miss # {}
      BY <1>5, <1>6, <1>11
    <2>. QED
      BY <1>1, <1>2, <1>3, <1>7, <1>11, <2>1 DEF Ahead
  <1>. QED
    BY <1>3, <1>9, <1>10, <1>11 DEF Ahead

LEMMA OthersAgree ==
  ASSUME ImportInv, NEW r \in Ranks, Others(r), Grows(r),
         NEW p \in Ranks \ {r}, NEW q \in Ranks \ {r}
  PROVE  Agree(p, q)'
  <1>1. Begun(p)' = Begun(p) /\ Begun(q)' = Begun(q)
    BY RankStays
  <1>2. Ahead(p, q) => Ahead(p, q)'
    BY AheadStays
  <1>3. Agree(p, q) /\ posts'[p] = posts[p] /\ posts'[q] = posts[q]
    BY DEF Others, ImportInv
  <1>. QED
    BY <1>1, <1>2, <1>3 DEF Agree

LEMMA AgreesWithItself ==
  ASSUME ImportInv, NEW r \in Ranks, Len(posts'[r]) \in Nat
  PROVE  Agree(r, r)'
  BY DEF Agree

(* Nobody is behind a rank that is in no exchange.                         *)
LEMMA NobodyBehind ==
  ASSUME ImportInv, NEW r \in Ranks, NEW q \in Ranks, pc[r] \in {"idle", "ready"} \/ Complete(r)
  PROVE  Len(posts[r]) \in Nat /\ Len(posts[q]) \in Nat
         /\ (Len(posts[q]) = Len(posts[r]) \/ Len(posts[q]) = Len(posts[r]) + 1)
         /\ (Len(posts[q]) = Len(posts[r]) + 1 => Ahead(q, r))
         /\ (Len(posts[q]) = Len(posts[r]) => Begun(q) = Begun(r))
  <1>1. Len(posts[r]) \in Nat /\ Len(posts[q]) \in Nat
    BY Here
  <1>2. Agree(r, q) /\ Agree(q, r)
    BY DEF ImportInv
  <1>3. ~(Len(posts[r]) > Len(posts[q]))
    BY <1>1, <1>2 DEF Agree, Ahead, Complete
  <1>4. Len(posts[q]) > Len(posts[r]) => Ahead(q, r) /\ Len(posts[q]) = Len(posts[r]) + 1
    BY <1>2 DEF Agree, Ahead
  <1>5. Len(posts[q]) = Len(posts[r]) => Begun(q) = Begun(r)
    BY <1>2 DEF Agree
  <1>. QED
    BY <1>1, <1>3, <1>4, <1>5

(* A step without a contribution.                                          *)
LEMMA QuietAgree ==
  ASSUME ImportInv, NEW r \in Ranks, Others(r), posts' = posts, Begun(r)' = Begun(r),
         pc[r] \in {"idle", "ready"} \/ (pc[r] \in {"misses", "descriptors"} /\ Complete(r)),
         pc[r] = "misses" => ~AnyoneMisses(r)
  PROVE  \A p, q \in Ranks : Agree(p, q)'
  <1>1. Grows(r)
    BY Here DEF Grows
  <1>2. ASSUME NEW q \in Ranks \ {r} PROVE Agree(r, q)'
    <2>1. Agree(r, q) /\ Begun(q)' = Begun(q)
      BY <1>1, RankStays DEF ImportInv
    <2>2. ~(Len(posts[r]) > Len(posts[q]))
      BY NobodyBehind
    <2>. QED
      BY <2>1, <2>2 DEF Agree
  <1>3. ASSUME NEW q \in Ranks \ {r} PROVE Agree(q, r)'
    <2>1. Agree(q, r) /\ Begun(q)' = Begun(q) /\ at'[q] = at[q] /\ pc'[q] = pc[q]
      BY <1>1, RankStays DEF ImportInv, Others
    <2>2. ASSUME Len(posts[q]) > Len(posts[r])
          PROVE  Ahead(q, r)'
      <3>1. Ahead(q, r)
        BY <2>1, <2>2 DEF Agree
      <3>2. PICK k \in Nat : k = Len(posts[r])
        BY Here
      <3>3. ASSUME pc[r] = "misses", NEW x \in Ranks PROVE posts[x][k].miss = {}
        BY <3>2, <3>3 DEF AnyoneMisses, Received
      <3>4. /\ Len(posts[q]) = k + 1
            /\ pc[q] = "keys" /\ Over(k) /\ at[q] \notin Begun(r) /\ Begun(q) = Begun(r) \cup {at[q]}
        BY <3>1, <3>2, <3>3 DEF Ahead
      <3>5. Over(k)'
        BY <3>4 DEF Over
      <3>6. Len(posts'[r]) = k
        BY <3>2
      <3>7. Over(k)' => Over(Len(posts[r]))'
        BY <3>6 DEF Over
      <3>. QED
        BY <2>1, <3>2, <3>4, <3>5, <3>7 DEF Ahead
    <2>. QED
      BY <2>1, <2>2 DEF Agree
  <1>4. Agree(r, r)'
    BY Here, AgreesWithItself
  <1>5. ASSUME NEW p \in Ranks, NEW q \in Ranks PROVE Agree(p, q)'
    BY <1>1, <1>2, <1>3, <1>4, OthersAgree
  <1>. QED
    BY <1>5

(* A contribution.                                                         *)
LEMMA PostAgree ==
  ASSUME ImportInv, NEW r \in Ranks, Others(r), Grows(r),
         Len(posts'[r]) = Len(posts[r]) + 1,
         pc[r] \in {"idle", "ready"} \/ Complete(r),
         \A q \in Ranks \ {r} : Len(posts[q]) = Len(posts[r]) => Ahead(r, q)',
         \A q \in Ranks \ {r} : Len(posts[q]) = Len(posts[r]) + 1 =>
             /\ posts[q][Len(posts[q])].kind = posts'[r][Len(posts[q])].kind
             /\ Begun(r)' = Begun(q)
  PROVE  \A p, q \in Ranks : Agree(p, q)'
  <1>1. ASSUME NEW q \in Ranks \ {r} PROVE Agree(r, q)' /\ Agree(q, r)'
    <2>1. Agree(r, q) /\ Begun(q)' = Begun(q) /\ posts'[q] = posts[q]
      BY RankStays DEF ImportInv, Others
    <2>2. PICK k \in Nat : k = Len(posts[r])
      BY Here
    <2>3. Len(posts[q]) = k \/ Len(posts[q]) = k + 1
      BY <2>2, NobodyBehind
    <2>4. ASSUME NEW i \in 1 .. k, i <= Len(posts[q])
          PROVE  posts'[r][i].kind = posts[q][i].kind
      BY <2>1, <2>2, <2>4 DEF Agree, Grows
    <2>5. Len(posts[q]) = k + 1 =>
              posts'[r][k + 1].kind = posts[q][k + 1].kind /\ Begun(r)' = Begun(q)
      BY <2>2
    <2>6. Len(posts[q]) = k => Ahead(r, q)'
      BY <2>2
    <2>7. Len(posts'[r]) = k + 1
      BY <2>2
    <2>8. ASSUME NEW i \in 1 .. k + 1, i <= Len(posts[q])
          PROVE  posts'[r][i].kind = posts[q][i].kind
      <3>1. CASE i \in 1 .. k
        BY <2>4, <2>8, <3>1
      <3>2. CASE i = k + 1
        BY <2>3, <2>5, <2>8, <3>2
      <3>. QED
        BY <3>1, <3>2
    <2>9. Agree(r, q)'
      <3>1. \A i \in 1 .. Len(posts'[r]) :
                i <= Len(posts'[q]) => posts'[r][i].kind = posts'[q][i].kind
        BY <2>1, <2>7, <2>8
      <3>2. Len(posts'[r]) = Len(posts'[q]) => Begun(r)' = Begun(q)'
        BY <2>1, <2>3, <2>5, <2>7
      <3>3. Len(posts'[r]) > Len(posts'[q]) => Ahead(r, q)'
        BY <2>1, <2>3, <2>6, <2>7
      <3>. QED
        BY <3>1, <3>2, <3>3 DEF Agree
    <2>10. Agree(q, r)'
      <3>1. \A i \in 1 .. Len(posts'[q]) :
                i <= Len(posts'[r]) => posts'[q][i].kind = posts'[r][i].kind
        BY <2>1, <2>3, <2>7, <2>8
      <3>2. Len(posts'[q]) = Len(posts'[r]) => Begun(q)' = Begun(r)'
        BY <2>1, <2>3, <2>5, <2>7
      <3>3. ~(Len(posts'[q]) > Len(posts'[r]))
        BY <2>1, <2>3, <2>7
      <3>. QED
        BY <3>1, <3>2, <3>3 DEF Agree
    <2>. QED
      BY <2>9, <2>10
  <1>2. Agree(r, r)'
    BY Here, AgreesWithItself
  <1>3. ASSUME NEW p \in Ranks, NEW q \in Ranks PROVE Agree(p, q)'
    BY <1>1, <1>2, OthersAgree
  <1>. QED
    BY <1>3
-------------------------------------------------------------------------------
(* Where the others are, seen from a rank whose exchange is complete.      *)

LEMMA SameCall ==
  ASSUME ImportInv, NEW r \in Ranks, NEW q \in Ranks, Meeting(r), Meeting(q), Begun(q) = Begun(r)
  PROVE  at[q] = at[r]
  <1>1. at[r] \in Nat \ {0} /\ at[q] \in Nat \ {0}
    BY Here
  <1>2. Exchanging(program, at[r]) /\ Exchanging(program, at[q])
    BY DEF ImportInv, RankInv, Located
  <1>3. at[r] \in Begun(r) /\ at[q] \in Begun(q)
    BY <1>1, <1>2 DEF Begun, Meeting
  <1>4. at[r] \in Begun(q) /\ at[q] \in Begun(r)
    BY <1>3
  <1>5. at[r] <= at[q] /\ at[q] <= at[r]
    BY <1>1, <1>4 DEF Begun
  <1>. QED
    BY <1>1, <1>5

(* After the keys, the others have sent theirs too, of the same call.      *)
LEMMA MatesInKeys ==
  ASSUME ImportInv, NEW r \in Ranks, NEW q \in Ranks, pc[r] = "keys", Complete(r)
  PROVE  /\ Begun(q) = Begun(r)
         /\ Len(posts[q]) = Len(posts[r]) => pc[q] = "keys"
         /\ Len(posts[q]) = Len(posts[r]) + 1 =>
                pc[q] = "misses" /\ posts[q][Len(posts[q])].kind = "miss"
         /\ Received(r, q).key = KeyIn(program, at[r])
  <1>1. PICK k \in Nat : k = Len(posts[r])
    BY Here
  <1>2. k > 0 /\ posts[r][k].kind = "key" /\ Posted(q)
    BY <1>1 DEF ImportInv, RankInv, Posted
  <1>3. ~Over(k)
    BY <1>2 DEF Over
  <1>4. CASE Len(posts[q]) = k
    <2>1. Begun(q) = Begun(r)
      BY <1>1, <1>4, NobodyBehind
    <2>2. posts[q][k].kind = "key"
      BY <1>1, <1>2, <1>4 DEF ImportInv, Agree
    <2>3. pc[q] = "keys"
      BY <1>2, <1>3, <1>4, <2>2, Here DEF Posted, PCs
    <2>4. at[q] = at[r]
      BY <2>1, <2>3, SameCall DEF Meeting
    <2>5. posts[q][k].key = KeyIn(program, at[r])
      BY <1>2, <1>4, <2>3, <2>4 DEF Posted
    <2>. QED
      BY <1>1, <1>4, <2>1, <2>3, <2>5 DEF Received
  <1>5. CASE Len(posts[q]) = k + 1
    <2>1. Ahead(q, r)
      BY <1>1, <1>5, NobodyBehind
    <2>2. pc[q] = "misses" /\ Begun(q) = Begun(r)
      BY <1>1, <1>3, <2>1 DEF Ahead
    <2>3. at[q] = at[r]
      BY <2>2, SameCall DEF Meeting
    <2>4. posts[q][k + 1].kind = "miss" /\ posts[q][(k + 1) - 1].key = KeyIn(program, at[q])
      BY <1>2, <1>5, <2>2 DEF Posted
    <2>5. (k + 1) - 1 = k
      OBVIOUS
    <2>6. posts[q][k].key = KeyIn(program, at[r])
      BY <2>3, <2>4, <2>5
    <2>. QED
      BY <1>1, <1>5, <2>2, <2>4, <2>6 DEF Received
  <1>. QED
    BY <1>1, <1>4, <1>5, NobodyBehind

(* After the misses, if anyone missed.                                     *)
LEMMA MatesInMisses ==
  ASSUME ImportInv, NEW r \in Ranks, NEW q \in Ranks, pc[r] = "misses", Complete(r), AnyoneMisses(r)
  PROVE  /\ Begun(q) = Begun(r)
         /\ Len(posts[q]) = Len(posts[r]) => pc[q] = "misses"
         /\ Len(posts[q]) = Len(posts[r]) + 1 =>
                pc[q] = "descriptors" /\ posts[q][Len(posts[q])].kind = "descriptor"
  <1>1. PICK k \in Nat : k = Len(posts[r])
    BY Here
  <1>2. k > 1 /\ posts[r][k].kind = "miss" /\ Posted(q)
    BY <1>1 DEF ImportInv, RankInv, Posted
  <1>3. PICK x \in Ranks : posts[x][k].miss # {}
    BY <1>1 DEF AnyoneMisses, Received
  <1>4. ~Over(k)
    BY <1>2, <1>3 DEF Over
  <1>5. CASE Len(posts[q]) = k
    <2>1. Begun(q) = Begun(r)
      BY <1>1, <1>5, NobodyBehind
    <2>2. posts[q][k].kind = "miss"
      BY <1>1, <1>2, <1>5 DEF ImportInv, Agree
    <2>3. pc[q] = "misses"
      BY <1>2, <1>4, <1>5, <2>2, Here DEF Posted, PCs
    <2>. QED
      BY <1>1, <1>5, <2>1, <2>3
  <1>6. CASE Len(posts[q]) = k + 1
    <2>1. Ahead(q, r)
      BY <1>1, <1>6, NobodyBehind
    <2>2. pc[q] = "descriptors" /\ Begun(q) = Begun(r)
      BY <1>1, <1>4, <2>1 DEF Ahead
    <2>3. posts[q][k + 1].kind = "descriptor"
      BY <1>2, <1>6, <2>2 DEF Posted
    <2>. QED
      BY <1>1, <1>6, <2>2, <2>3
  <1>. QED
    BY <1>1, <1>5, <1>6, NobodyBehind

(* A round of misses without any, or of descriptors, is the last.          *)
LEMMA RoundIsOver ==
  ASSUME ImportInv, NEW r \in Ranks, Complete(r),
         (pc[r] = "misses" /\ ~AnyoneMisses(r)) \/ pc[r] = "descriptors"
  PROVE  Over(Len(posts[r]))
  <1>1. PICK k \in Nat : k = Len(posts[r])
    BY Here
  <1>2. k > 1 /\ posts[r][k].kind = (IF pc[r] = "misses" THEN "miss" ELSE "descriptor")
    BY <1>1 DEF ImportInv, RankInv, Posted
  <1>3. ASSUME NEW q \in Ranks
        PROVE  k <= Len(posts[q]) /\ posts[q][k].kind # "key" /\ posts[q][k].miss = {}
    <2>1. k <= Len(posts[q]) /\ Len(posts[q]) \in Nat
      BY <1>1, Here DEF Complete
    <2>2. posts[q][k].kind = posts[r][k].kind
      BY <1>1, <1>2, <2>1 DEF ImportInv, Agree
    <2>3. pc[r] = "misses" => posts[q][k].miss = {}
      BY <1>1 DEF AnyoneMisses, Received
    <2>4. posts[q][k].kind # "miss" => posts[q][k].miss = {}
      BY <1>2, <2>1 DEF ImportInv, RankInv, Posted
    <2>. QED
      BY <1>2, <2>1, <2>2, <2>3, <2>4
  <1>. QED
    BY <1>1, <1>3 DEF Over

(* The calls in which all have begun to meet, as each goes on.             *)
LEMMA BegunFacts ==
  ASSUME ImportInv, NEW r \in Ranks, program' = program
  PROVE  /\ at'[r] = at[r] /\ pc'[r] # "idle" /\ pc[r] # "idle" => Begun(r)' = Begun(r)
         /\ at'[r] = at[r] /\ pc'[r] # "idle" /\ pc[r] = "idle" /\ Exchanging(program, at[r]) =>
                Begun(r)' = Begun(r) \cup {at[r]} /\ at[r] \notin Begun(r)
         /\ at'[r] = at[r] /\ pc'[r] # "idle" /\ pc[r] = "idle" /\ ~Exchanging(program, at[r]) =>
                Begun(r)' = Begun(r)
         /\ at'[r] = at[r] + 1 /\ pc'[r] = "idle" /\ pc[r] # "idle" => Begun(r)' = Begun(r)
         /\ at'[r] = at[r] + 1 /\ pc'[r] = "idle" /\ pc[r] = "idle" /\ ~Exchanging(program, at[r]) =>
                Begun(r)' = Begun(r)
  <1>1. PICK a \in Nat \ {0} : a = at[r]
    BY Here
  <1>. DEFINE B(n, f) == {i \in 1 .. n : Exchanging(program, i) /\ (i = n => f)}
  <1>2. Begun(r) = B(a, pc[r] # "idle") /\ Begun(r)' = B(at'[r], pc'[r] # "idle")
    BY <1>1 DEF Begun
  <1>3. B(a, FALSE) \cup {a} = {i \in 1 .. a : Exchanging(program, i)} \cup {a}
    OBVIOUS
  <1>4. B(a, TRUE) = {i \in 1 .. a : Exchanging(program, i)}
    OBVIOUS
  <1>5. B(a + 1, FALSE) = {i \in 1 .. a : Exchanging(program, i)}
    OBVIOUS
  <1>6. ~Exchanging(program, a) => B(a, FALSE) = {i \in 1 .. a : Exchanging(program, i)}
    OBVIOUS
  <1>7. a \notin B(a, FALSE)
    OBVIOUS
  <1>8. Exchanging(program, a) => a \in {i \in 1 .. a : Exchanging(program, i)}
    OBVIOUS
  <1>9. ASSUME at'[r] = at[r], pc'[r] # "idle", pc[r] # "idle" PROVE Begun(r)' = Begun(r)
    BY <1>1, <1>2, <1>9
  <1>10. ASSUME at'[r] = at[r], pc'[r] # "idle", pc[r] = "idle", Exchanging(program, at[r])
         PROVE  Begun(r)' = Begun(r) \cup {at[r]} /\ at[r] \notin Begun(r)
    BY <1>1, <1>2, <1>3, <1>4, <1>7, <1>8, <1>10
  <1>11. ASSUME at'[r] = at[r], pc'[r] # "idle", pc[r] = "idle", ~Exchanging(program, at[r])
         PROVE  Begun(r)' = Begun(r)
    BY <1>1, <1>2, <1>4, <1>6, <1>11
  <1>12. ASSUME at'[r] = at[r] + 1, pc'[r] = "idle", pc[r] # "idle" PROVE Begun(r)' = Begun(r)
    BY <1>1, <1>2, <1>4, <1>5, <1>12
  <1>13. ASSUME at'[r] = at[r] + 1, pc'[r] = "idle", pc[r] = "idle", ~Exchanging(program, at[r])
         PROVE  Begun(r)' = Begun(r)
    BY <1>1, <1>2, <1>5, <1>6, <1>13
  <1>. QED
    BY <1>9, <1>10, <1>11, <1>12, <1>13
-------------------------------------------------------------------------------
(* No step makes the contributions disagree.                               *)

LEMMA AgreeStays ==
  ASSUME ImportInv, FailuresAreForgotten, NEW r \in Ranks, Step(r) \/ ImportFails(r)
  PROVE  (\A p, q \in Ranks : Agree(p, q)') /\ Grows(r)
  <1>1. Typed /\ Others(r) /\ program' = program
    BY TypedStays DEF ImportInv, CacheInv, Others
  <1>2. posts' = posts => Grows(r)
    BY Here DEF Grows
  <1>3. CASE Rewrap(r)
    <2>1. ~Exchanging(program, at[r])
      BY <1>3 DEF Rewrap, Op, Exchanging
    <2>2. at'[r] = at[r] + 1 /\ pc'[r] = "idle" /\ pc[r] = "idle" /\ posts' = posts
      BY <1>1, <1>3 DEF Rewrap, Typed
    <2>3. Begun(r)' = Begun(r)
      BY <1>1, <2>1, <2>2, BegunFacts
    <2>. QED
      BY <1>1, <1>2, <2>2, <2>3, QuietAgree
  <1>4. CASE FastPath(r)
    <2>1. ~Exchanging(program, at[r])
      BY <1>4, Decision DEF FastPath
    <2>2. at'[r] = at[r] /\ pc'[r] # "idle" /\ pc[r] = "idle" /\ posts' = posts
      BY <1>1, <1>4 DEF FastPath, InEnsure, Typed
    <2>3. Begun(r)' = Begun(r)
      BY <1>1, <2>1, <2>2, BegunFacts
    <2>. QED
      BY <1>1, <1>2, <2>2, <2>3, QuietAgree
  <1>5. CASE Return(r)
    <2>1. at'[r] = at[r] + 1 /\ pc'[r] = "idle" /\ pc[r] = "ready" /\ posts' = posts
      BY <1>1, <1>5 DEF Return, Typed
    <2>2. Begun(r)' = Begun(r)
      BY <1>1, <2>1, BegunFacts
    <2>. QED
      BY <1>1, <1>2, <2>1, <2>2, QuietAgree
  <1>6. CASE AllHit(r)
    <2>1. /\ at'[r] = at[r] /\ pc'[r] # "idle" /\ pc[r] = "misses" /\ posts' = posts
          /\ Complete(r) /\ ~AnyoneMisses(r)
      BY <1>1, <1>6 DEF AllHit, Typed
    <2>2. Begun(r)' = Begun(r)
      BY <1>1, <2>1, BegunFacts
    <2>. QED
      BY <1>1, <1>2, <2>1, <2>2, QuietAgree
  <1>7. CASE ImportAll(r)
    <2>1. at'[r] = at[r] /\ pc'[r] # "idle" /\ pc[r] = "descriptors" /\ posts' = posts /\ Complete(r)
      BY <1>1, <1>7 DEF ImportAll, Typed
    <2>2. Begun(r)' = Begun(r)
      BY <1>1, <2>1, BegunFacts
    <2>. QED
      BY <1>1, <1>2, <2>1, <2>2, QuietAgree
  <1>8. CASE ImportFails(r)
    <2>1. /\ at'[r] = at[r] + 1 /\ pc'[r] = "idle" /\ pc[r] = "descriptors" /\ posts' = posts
          /\ Complete(r)
      BY <1>1, <1>8 DEF ImportFails, Typed, FailuresAreForgotten
    <2>2. Begun(r)' = Begun(r)
      BY <1>1, <2>1, BegunFacts
    <2>. QED
      BY <1>1, <1>2, <2>1, <2>2, QuietAgree
  <1>9. CASE ExchangeKeys(r)
    <2>1. /\ Post(r, "key", LocalKey(r), {}) /\ pc[r] = "idle" /\ pc'[r] = "keys" /\ at'[r] = at[r]
      BY <1>1, <1>9 DEF ExchangeKeys, InEnsure, Typed
    <2>2. Exchanging(program, at[r])
      BY <1>9, Decision DEF ExchangeKeys
    <2>3. Begun(r)' = Begun(r) \cup {at[r]} /\ at[r] \notin Begun(r)
      BY <1>1, <2>1, <2>2, BegunFacts
    <2>4. PICK k \in Nat : k = Len(posts[r])
      BY Here
    <2>5. /\ Grows(r) /\ Len(posts'[r]) = k + 1 /\ posts'[r][k + 1].kind = "key"
          /\ \A q \in Ranks \ {r} : posts'[q] = posts[q]
      <3>1. PICK c, m : c = LocalKey(r) /\ m = {}
        OBVIOUS
      <3>2. Post(r, "key", c, m)
        BY <2>1, <3>1
      <3>3. /\ Grows(r) /\ Len(posts'[r]) = k + 1
            /\ posts'[r][k + 1] = [kind |-> "key", key |-> c, miss |-> m]
            /\ \A q \in Ranks \ {r} : posts'[q] = posts[q]
            /\ \A i \in 1 .. k : posts'[r][i] = posts[r][i]
        BY <3>2, <2>4, PostFacts
      <3>. QED
        BY <3>3
    <2>6. Over(k) /\ Over(k)'
      <3>1. Over(k)
        BY <2>1, <2>4 DEF ImportInv, RankInv, Posted
      <3>. QED
        BY <1>1, <2>5, <3>1, OverStays
    <2>7. ASSUME NEW q \in Ranks \ {r}, Len(posts[q]) = k PROVE Ahead(r, q)'
      <3>1. Begun(q) = Begun(r) /\ Begun(q)' = Begun(q)
        BY <1>1, <2>1, <2>4, <2>5, <2>7, NobodyBehind, RankStays
      <3>2. at'[r] \notin Begun(q)' /\ Begun(r)' = Begun(q)' \cup {at'[r]}
        BY <2>1, <2>3, <3>1
      <3>3. Len(posts'[q]) = k
        BY <2>5, <2>7
      <3>4. Over(k)' => Over(Len(posts[q]))'
        BY <3>3 DEF Over
      <3>. QED
        BY <2>1, <2>5, <2>6, <3>2, <3>3, <3>4 DEF Ahead
    <2>8. ASSUME NEW q \in Ranks \ {r}, Len(posts[q]) = k + 1
          PROVE  posts[q][k + 1].kind = "key" /\ Begun(r)' = Begun(q)
      <3>1. Ahead(q, r)
        BY <2>1, <2>4, <2>8, NobodyBehind
      <3>2. pc[q] = "keys" /\ at[q] \notin Begun(r) /\ Begun(q) = Begun(r) \cup {at[q]}
        BY <2>1, <3>1 DEF Ahead
      <3>3. posts[q][k + 1].kind = "key"
        BY <2>8, <3>2 DEF ImportInv, RankInv, Posted
      <3>4. at[r] \in Nat \ {0} /\ at[q] \in Nat \ {0} /\ Exchanging(program, at[q])
        BY <3>2, Here DEF ImportInv, RankInv, Located, Meeting
      <3>5. ~(at[q] < at[r])
        BY <3>2, <3>4 DEF Begun
      <3>6. ~(at[r] < at[q])
        <4>1. at[r] < at[q] => at[r] \in Begun(q)
          BY <2>2, <3>4 DEF Begun
        <4>. QED
          BY <2>3, <3>2, <3>4, <4>1
      <3>7. at[q] = at[r]
        BY <3>4, <3>5, <3>6
      <3>. QED
        BY <2>3, <3>2, <3>3, <3>7
    <2>. QED
      BY <1>1, <2>1, <2>4, <2>5, <2>7, <2>8, PostAgree
  <1>10. CASE LookUp(r)
    <2>1. PICK miss : Post(r, "miss", NoKey, miss)
      BY <1>10 DEF LookUp
    <2>2. pc[r] = "keys" /\ Complete(r) /\ pc'[r] = "misses" /\ at'[r] = at[r]
      BY <1>1, <1>10 DEF LookUp, Typed
    <2>3. Begun(r)' = Begun(r)
      BY <1>1, <2>2, BegunFacts
    <2>4. PICK k \in Nat : k = Len(posts[r])
      BY Here
    <2>5. /\ Grows(r) /\ Len(posts'[r]) = k + 1 /\ posts'[r][k + 1].kind = "miss"
          /\ \A q \in Ranks \ {r} : posts'[q] = posts[q]
      <3>1. PICK c : c = NoKey
        OBVIOUS
      <3>2. Post(r, "miss", c, miss)
        BY <2>1, <3>1
      <3>3. /\ Grows(r) /\ Len(posts'[r]) = k + 1
            /\ posts'[r][k + 1] = [kind |-> "miss", key |-> c, miss |-> miss]
            /\ \A q \in Ranks \ {r} : posts'[q] = posts[q]
            /\ \A i \in 1 .. k : posts'[r][i] = posts[r][i]
        BY <3>2, <2>4, PostFacts
      <3>. QED
        BY <3>3
    <2>6. ASSUME NEW q \in Ranks \ {r}, Len(posts[q]) = k PROVE Ahead(r, q)'
      <3>1. Begun(q) = Begun(r) /\ pc[q] = "keys"
        BY <2>2, <2>4, <2>6, MatesInKeys
      <3>2. Begun(q)' = Begun(q) /\ pc'[q] = pc[q]
        BY <1>1, <2>5, RankStays DEF Others
      <3>3. Len(posts'[q]) = k
        BY <2>5, <2>6
      <3>. QED
        BY <2>2, <2>3, <2>5, <3>1, <3>2, <3>3 DEF Ahead
    <2>7. ASSUME NEW q \in Ranks \ {r}, Len(posts[q]) = k + 1
          PROVE  posts[q][k + 1].kind = "miss" /\ Begun(r)' = Begun(q)
      BY <2>2, <2>3, <2>4, <2>7, MatesInKeys
    <2>. QED
      BY <1>1, <2>2, <2>4, <2>5, <2>6, <2>7, PostAgree
  <1>11. CASE ExchangeDescriptors(r)
    <2>1. /\ Post(r, "descriptor", LocalKey(r), {})
          /\ pc[r] = "misses" /\ Complete(r) /\ AnyoneMisses(r)
          /\ pc'[r] = "descriptors" /\ at'[r] = at[r]
      BY <1>1, <1>11 DEF ExchangeDescriptors, Typed
    <2>2. Begun(r)' = Begun(r)
      BY <1>1, <2>1, BegunFacts
    <2>3. PICK k \in Nat : k = Len(posts[r])
      BY Here
    <2>4. /\ Grows(r) /\ Len(posts'[r]) = k + 1 /\ posts'[r][k + 1].kind = "descriptor"
          /\ \A q \in Ranks \ {r} : posts'[q] = posts[q]
          /\ \A i \in 1 .. k : posts'[r][i] = posts[r][i]
      <3>1. PICK c, m : c = LocalKey(r) /\ m = {}
        OBVIOUS
      <3>2. Post(r, "descriptor", c, m)
        BY <2>1, <3>1
      <3>3. /\ Grows(r) /\ Len(posts'[r]) = k + 1
            /\ posts'[r][k + 1] = [kind |-> "descriptor", key |-> c, miss |-> m]
            /\ \A q \in Ranks \ {r} : posts'[q] = posts[q]
            /\ \A i \in 1 .. k : posts'[r][i] = posts[r][i]
        BY <3>2, <2>3, PostFacts
      <3>. QED
        BY <3>3
    <2>5. \E x \in Ranks : k <= Len(posts'[x]) /\ posts'[x][k].miss # {}
      <3>1. PICK x \in Ranks : posts[x][k].miss # {} /\ k <= Len(posts[x])
        BY <2>1, <2>3 DEF AnyoneMisses, Received, Complete
      <3>2. k > 1
        BY <2>1, <2>3 DEF ImportInv, RankInv, Posted
      <3>3. CASE x = r
        BY <2>4, <3>1, <3>2, <3>3
      <3>4. CASE x # r
        BY <2>4, <3>1, <3>4
      <3>. QED
        BY <3>3, <3>4
    <2>6. ASSUME NEW q \in Ranks \ {r}, Len(posts[q]) = k PROVE Ahead(r, q)'
      <3>1. Begun(q) = Begun(r) /\ pc[q] = "misses"
        BY <2>1, <2>3, <2>6, MatesInMisses
      <3>2. Begun(q)' = Begun(q) /\ pc'[q] = pc[q]
        BY <1>1, <2>4, RankStays DEF Others
      <3>3. Len(posts'[q]) = k
        BY <2>4, <2>6
      <3>. QED
        BY <2>1, <2>2, <2>4, <2>5, <3>1, <3>2, <3>3 DEF Ahead
    <2>7. ASSUME NEW q \in Ranks \ {r}, Len(posts[q]) = k + 1
          PROVE  posts[q][k + 1].kind = "descriptor" /\ Begun(r)' = Begun(q)
      BY <2>1, <2>2, <2>3, <2>7, MatesInMisses
    <2>. QED
      BY <1>1, <2>1, <2>3, <2>4, <2>6, <2>7, PostAgree
  <1>. QED
    BY <1>3, <1>4, <1>5, <1>6, <1>7, <1>8, <1>9, <1>10, <1>11 DEF Step
-------------------------------------------------------------------------------
(* What the rank that moves keeps.                                         *)

LEMMA PostedStays ==
  ASSUME ImportInv, NEW r \in Ranks, Others(r), posts' = posts,
         Over(Len(posts[r])), pc'[r] \in {"idle", "ready"}
  PROVE  Posted(r)'
  <1>1. PICK k \in Nat : k = Len(posts[r]) /\ k = Len(posts'[r])
    BY Here
  <1>2. Over(k)'
    BY <1>1 DEF Over
  <1>3. Over(k)' => Over(Len(posts[r]))'
    BY <1>1 DEF Over
  <1>. QED
    BY <1>2, <1>3 DEF ImportInv, RankInv, Posted

(* Going on to the next operation after a call.                            *)
LEMMA NextOperation ==
  ASSUME ImportInv, NEW r \in Ranks, program' = program, pc[r] # "idle",
         bound[r][r] = KeyIn(program, at[r]), bound'[r][r] = bound[r][r],
         version'[r] = version[r], at'[r] = at[r] + 1, pc'[r] = "idle"
  PROVE  /\ Located(r)' /\ OwnBinding(r)'
         /\ \A l : Prior(program, l, at'[r]) <=> l = at[r]
  <1>1. PICK a \in 1 .. Len(program) : a = at[r]
    BY Here
  <1>2. /\ program[a].op # "rewrap" /\ program[a].buf \in Buffers
        /\ Len(program) \in Nat /\ a \in Nat \ {0}
    BY <1>1, Here, ProgramFacts DEF Op
  <1>3. ASSUME NEW b \in Buffers PROVE version'[r][b] = TokenIn(program, a + 1, b)
    <2>1. TokenIn(program, a + 1, b) = TokenIn(program, a, b)
      BY <1>2, TokenSame
    <2>2. version[r][b] = TokenIn(program, a, b)
      BY <1>1, Here
    <2>. QED
      BY <2>1, <2>2
  <1>4. Located(r)'
    BY <1>1, <1>2, <1>3 DEF Located, Meeting
  <1>5. ASSUME NEW l PROVE Prior(program, l, a + 1) <=> l = a
    BY <1>2, PriorFacts
  <1>6. version'[r][program[a].buf] = KeyIn(program, a).token
    BY <1>1, <1>2, Here DEF KeyIn
  <1>7. OwnBefore(r)'
    BY <1>1, <1>5, <1>6 DEF OwnBefore, NoKey
  <1>. QED
    BY <1>1, <1>4, <1>5, <1>7 DEF OwnBinding

LEMMA RewrapKeeps ==
  ASSUME ImportInv, NEW r \in Ranks, Rewrap(r), Others(r)
  PROVE  RankInv(r)'
  <1>1. PICK a \in 1 .. Len(program) : a = at[r]
    BY Here DEF Rewrap, Running
  <1>2. PICK b \in Buffers : /\ b = program[a].buf /\ program[a].op = "rewrap"
                             /\ program[a] = [op |-> "rewrap", buf |-> b]
    <2>1. program[a].op = "rewrap" /\ program \in Programs
      BY <1>1, Here DEF Rewrap, Op
    <2>2. program[a].buf \in Buffers /\ program[a] = [op |-> program[a].op, buf |-> program[a].buf]
      BY <2>1, ProgramFacts
    <2>. QED
      BY <2>1, <2>2
  <1>3. program' = program /\ Len(program) \in Nat /\ a \in Nat \ {0} /\ program \in Programs
    BY Here DEF Others
  <1>4. /\ at'[r] = a + 1 /\ pc'[r] = "idle" /\ pc[r] = "idle" /\ posts' = posts
        /\ version'[r][b] = version[r][b] + 1
        /\ \A c \in Buffers \ {b} : version'[r][c] = version[r][c]
        /\ bound'[r][r] = (IF bound[r][r] = LocalKey(r) THEN NoKey ELSE bound[r][r])
        /\ \A s \in Peers(r) : bound'[r][s] = bound[r][s]
        /\ cache' = cache /\ keys' = keys /\ missing' = missing
    BY <1>1, <1>2 DEF ImportInv, CacheInv, Typed, Rewrap, Peers
  <1>5. OwnBefore(r) /\ PeersBound(r) /\ Over(Len(posts[r]))
    BY <1>4 DEF ImportInv, RankInv, OwnBinding, Posted
  <1>6. ASSUME NEW c \in Buffers
        PROVE  /\ version[r][c] = TokenIn(program, a, c) /\ version[r][c] \in Nat
               /\ version'[r][c] = TokenIn(program, a + 1, c)
    <2>1. version[r][c] = TokenIn(program, a, c) /\ TokenIn(program, a, c) \in Nat
      BY <1>1, <1>3, Here, TokenFacts
    <2>2. TokenIn(program, a + 1, c) = TokenIn(program, a, c) + IF c = b THEN 1 ELSE 0
      <3>1. program[a] = [op |-> "rewrap", buf |-> c] <=> c = b
        BY <1>2
      <3>. QED
        BY <1>3, <3>1, TokenFacts
    <2>3. CASE c = b
      BY <1>4, <2>1, <2>2, <2>3
    <2>4. CASE c # b
      BY <1>4, <2>1, <2>2, <2>4
    <2>. QED
      BY <2>1, <2>3, <2>4
  <1>7. Located(r)'
    BY <1>1, <1>3, <1>4, <1>6 DEF Located, Meeting
  <1>8. ASSUME NEW l PROVE Prior(program, l, a + 1) <=> Prior(program, l, a)
    BY <1>2, <1>3, PriorFacts
  <1>9. ASSUME NEW l, Prior(program, l, a)
        PROVE  bound'[r][r] = IF version'[r][program[l].buf] = KeyIn(program, l).token
                              THEN KeyIn(program, l) ELSE NoKey
    <2>1. l \in 1 .. Len(program) /\ l \in 1 .. a
      <3>1. l \in 1 .. a - 1
        BY <1>9 DEF Prior
      <3>. QED
        BY <1>3, <3>1
    <2>2. /\ KeyIn(program, l) # NoKey /\ KeyIn(program, l).buf = program[l].buf
          /\ KeyIn(program, l).token = TokenIn(program, l, program[l].buf)
          /\ KeyIn(program, l) = [buf |-> program[l].buf, token |-> KeyIn(program, l).token]
          /\ program[l].buf \in Buffers
      BY <1>3, <2>1, KeyFacts, ProgramFacts DEF KeyIn
    <2>3. LocalKey(r) = [buf |-> b, token |-> version[r][b]] /\ LocalKey(r) # NoKey
      BY <1>1, <1>2, LocalKeyIs DEF LocalKey, Key
    <2>4. bound[r][r] = IF version[r][program[l].buf] = KeyIn(program, l).token
                        THEN KeyIn(program, l) ELSE NoKey
      BY <1>1, <1>5, <1>9 DEF OwnBefore
    <2>5. CASE program[l].buf # b
      <3>1. version'[r][program[l].buf] = version[r][program[l].buf]
        BY <1>4, <2>2, <2>5
      <3>2. KeyIn(program, l) # LocalKey(r)
        BY <2>2, <2>3, <2>5
      <3>. QED
        BY <1>4, <2>3, <2>4, <3>1, <3>2
    <2>6. CASE program[l].buf = b
      <3>1. TokenIn(program, l, b) <= TokenIn(program, a, b) /\ TokenIn(program, l, b) \in Nat
        <4>1. l \in Nat \ {0}
          BY <1>3, <2>1
        <4>2. TokenIn(program, l, b) \in Nat
          BY <4>1, TokenFacts
        <4>3. TokenIn(program, l, b) <= TokenIn(program, a, b)
          BY <1>3, <2>1, TokenFacts
        <4>. QED
          BY <4>2, <4>3
      <3>2. version'[r][b] # KeyIn(program, l).token
        BY <1>4, <1>6, <2>2, <2>6, <3>1
      <3>3. version[r][b] = KeyIn(program, l).token => KeyIn(program, l) = LocalKey(r)
        BY <2>2, <2>3, <2>6
      <3>. QED
        BY <1>4, <2>4, <2>6, <3>2, <3>3
    <2>. QED
      BY <2>5, <2>6
  <1>10. OwnBefore(r)'
    <2>1. (\A l : ~Prior(program, l, a)) => bound'[r][r] = NoKey
      BY <1>1, <1>4, <1>5 DEF OwnBefore
    <2>. QED
      BY <1>3, <1>4, <1>8, <1>9, <2>1 DEF OwnBefore, NoKey
  <1>11. PeersBound(r)'
    BY <1>1, <1>3, <1>4, <1>5, <1>8 DEF PeersBound
  <1>12. Learnt(r)'
    BY <1>4 DEF Learnt
  <1>13. Posted(r)'
    BY <1>4, <1>5, PostedStays
  <1>. QED
    BY <1>4, <1>7, <1>10, <1>11, <1>12, <1>13 DEF RankInv, OwnBinding

LEMMA FastPathKeeps ==
  ASSUME ImportInv, FailuresAreForgotten, NEW r \in Ranks, FastPath(r), Others(r)
  PROVE  RankInv(r)'
  <1>1. /\ UNCHANGED <<program, at, version, bound, cache, posts, keys, missing>>
        /\ pc[r] = "idle" /\ pc'[r] = "ready" /\ InEnsure(r) /\ SameAsBefore(r)
    BY DEF ImportInv, CacheInv, Typed, FastPath, InEnsure
  <1>2. Located(r) /\ Over(Len(posts[r]))
    BY <1>1 DEF ImportInv, RankInv, Posted
  <1>3. at[r] <= Len(program) /\ Op(r) # "rewrap"
    BY <1>1 DEF InEnsure, Running
  <1>4. bound[r][r] = KeyIn(program, at[r])
    BY <1>1, <1>3, LocalKeyIs DEF SameAsBefore
  <1>5. \A s \in Peers(r) : bound[r][s] = KeyIn(program, at[r])
    BY <1>1, Decision
  <1>6. Located(r)'
    BY <1>1, <1>2, <1>3 DEF Located, Meeting, Op
  <1>7. OwnBinding(r)' /\ PeersBound(r)'
    BY <1>1, <1>4, <1>5 DEF OwnBinding, PeersBound
  <1>8. Learnt(r)'
    BY <1>1 DEF Learnt
  <1>9. Posted(r)'
    BY <1>1, <1>2, PostedStays
  <1>. QED
    BY <1>6, <1>7, <1>8, <1>9 DEF RankInv

LEMMA ExchangeKeysKeeps ==
  ASSUME ImportInv, FailuresAreForgotten, NEW r \in Ranks, ExchangeKeys(r), Others(r)
  PROVE  RankInv(r)'
  <1>1. /\ UNCHANGED <<program, at, version, bound, cache, keys, missing>>
        /\ pc[r] = "idle" /\ pc'[r] = "keys" /\ InEnsure(r) /\ ~SameAsBefore(r)
    BY DEF ImportInv, CacheInv, Typed, ExchangeKeys, InEnsure
  <1>2. Located(r) /\ OwnBefore(r) /\ PeersBound(r) /\ Posted(r)
    BY <1>1 DEF ImportInv, RankInv, OwnBinding
  <1>3. at[r] <= Len(program) /\ Op(r) # "rewrap" /\ Exchanging(program, at[r])
    BY <1>1, Decision DEF InEnsure, Running
  <1>4. Located(r)'
    BY <1>1, <1>2, <1>3 DEF Located, Op
  <1>5. OwnBinding(r)' /\ PeersBound(r)'
    BY <1>1, <1>2 DEF OwnBinding, OwnBefore, PeersBound, NoKey
  <1>6. Learnt(r)'
    BY <1>1 DEF Learnt
  <1>7. Posted(r)'
    <2>1. PICK k \in Nat : k = Len(posts[r])
      BY Here
    <2>2. PICK c, m : c = LocalKey(r) /\ m = {}
      OBVIOUS
    <2>3. Post(r, "key", c, m)
      BY <2>2 DEF ExchangeKeys
    <2>4. /\ Len(posts'[r]) = k + 1 /\ posts'[r][k + 1] = [kind |-> "key", key |-> c, miss |-> m]
          /\ \A i \in 1 .. k : posts'[r][i] = posts[r][i]
      BY <2>1, <2>3, PostFacts
    <2>5. c = KeyIn(program, at[r])
      BY <1>3, <2>2, LocalKeyIs
    <2>6. \A i \in 1 .. k + 1 : posts'[r][i].kind # "miss" => posts'[r][i].miss = {}
      <3>1. \A i \in 1 .. k : posts[r][i].kind # "miss" => posts[r][i].miss = {}
        BY <1>2, <2>1 DEF Posted
      <3>2. ASSUME NEW i \in 1 .. k + 1, posts'[r][i].kind # "miss" PROVE posts'[r][i].miss = {}
        <4>1. CASE i \in 1 .. k
          BY <2>4, <3>1, <3>2, <4>1
        <4>2. CASE i = k + 1
          BY <2>2, <2>4, <4>2
        <4>. QED
          BY <4>1, <4>2
      <3>. QED
        BY <3>2
    <2>. QED
      BY <1>1, <2>4, <2>5, <2>6 DEF Posted
  <1>. QED
    BY <1>4, <1>5, <1>6, <1>7 DEF RankInv

LEMMA LookUpKeeps ==
  ASSUME ImportInv, FailuresAreForgotten, NEW r \in Ranks, LookUp(r), Others(r)
  PROVE  RankInv(r)'
  <1>. DEFINE got == [s \in Ranks |-> Received(r, s).key]
              miss == {s \in Peers(r) : got[s] \notin SeqRange(cache[r][s])}
  <1>1. /\ UNCHANGED <<program, at, version>>
        /\ pc[r] = "keys" /\ pc'[r] = "misses" /\ Complete(r)
        /\ bound'[r][r] = LocalKey(r) /\ \A s \in Peers(r) : bound'[r][s] = bound[r][s]
        /\ Post(r, "miss", NoKey, miss)
    BY DEF ImportInv, CacheInv, Typed, LookUp, Peers
  <1>2. Located(r) /\ PeersBound(r) /\ Posted(r)
    BY <1>1 DEF ImportInv, RankInv
  <1>3. at[r] <= Len(program) /\ LocalKey(r) = KeyIn(program, at[r])
    BY <1>1, Here, LocalKeyIs
  <1>4. keys'[r] = got /\ missing'[r] = miss
    BY DEF ImportInv, CacheInv, Typed, LookUp
  <1>5. \A s \in Ranks : got[s] = KeyIn(program, at[r])
    BY <1>1, MatesInKeys
  <1>6. Located(r)'
    BY <1>1, <1>2 DEF Located, Meeting, Op
  <1>7. OwnBinding(r)' /\ PeersBound(r)'
    BY <1>1, <1>2, <1>3 DEF OwnBinding, PeersBound
  <1>8. Learnt(r)'
    BY <1>1, <1>4, <1>5 DEF Learnt
  <1>9. Posted(r)'
    <2>1. PICK k \in Nat : k = Len(posts[r])
      BY Here
    <2>2. PICK c, m : c = NoKey /\ m = miss
      OBVIOUS
    <2>3. Post(r, "miss", c, m)
      BY <1>1, <2>2
    <2>4. /\ Len(posts'[r]) = k + 1 /\ posts'[r][k + 1] = [kind |-> "miss", key |-> c, miss |-> m]
          /\ \A i \in 1 .. k : posts'[r][i] = posts[r][i]
      BY <2>1, <2>3, PostFacts
    <2>5. k > 0 /\ posts[r][k].kind = "key" /\ posts[r][k].key = KeyIn(program, at[r])
          /\ \A i \in 1 .. k : posts[r][i].kind # "miss" => posts[r][i].miss = {}
      BY <1>1, <1>2, <2>1 DEF Posted
    <2>6. \A i \in 1 .. k + 1 : posts'[r][i].kind # "miss" => posts'[r][i].miss = {}
      <3>1. ASSUME NEW i \in 1 .. k + 1, posts'[r][i].kind # "miss" PROVE posts'[r][i].miss = {}
        <4>1. CASE i \in 1 .. k
          BY <2>4, <2>5, <3>1, <4>1
        <4>2. CASE i = k + 1
          BY <2>4, <3>1, <4>2
        <4>. QED
          BY <4>1, <4>2
      <3>. QED
        BY <3>1
    <2>7. posts'[r][k].kind = "key" /\ posts'[r][k].key = KeyIn(program, at[r]) /\ k + 1 > 1
          /\ (k + 1) - 1 = k
      BY <2>4, <2>5
    <2>8. posts'[r][k + 1].kind = "miss" /\ posts'[r][k + 1].miss = missing'[r]
      BY <1>4, <2>2, <2>4
    <2>. HIDE DEF got, miss
    <2>. QED
      BY <1>1, <2>4, <2>6, <2>7, <2>8 DEF Posted
  <1>. QED
    BY <1>6, <1>7, <1>8, <1>9 DEF RankInv

LEMMA AllHitKeeps ==
  ASSUME ImportInv, NEW r \in Ranks, AllHit(r), Others(r)
  PROVE  RankInv(r)'
  <1>1. /\ UNCHANGED <<program, at, version, cache, posts, keys, missing>>
        /\ pc[r] = "misses" /\ pc'[r] = "ready" /\ Complete(r) /\ ~AnyoneMisses(r)
        /\ bound'[r][r] = bound[r][r] /\ \A s \in Peers(r) : bound'[r][s] = keys[r][s]
    BY DEF ImportInv, CacheInv, Typed, AllHit, Peers
  <1>2. Located(r) /\ OwnBinding(r) /\ Learnt(r)
    BY <1>1 DEF ImportInv, RankInv
  <1>3. Located(r)'
    BY <1>1, <1>2 DEF Located, Meeting, Op
  <1>4. OwnBinding(r)' /\ PeersBound(r)'
    BY <1>1, <1>2 DEF OwnBinding, PeersBound, Learnt, Peers
  <1>5. Learnt(r)'
    BY <1>1 DEF Learnt
  <1>6. Posted(r)'
    BY <1>1, RoundIsOver, PostedStays
  <1>. QED
    BY <1>3, <1>4, <1>5, <1>6 DEF RankInv

LEMMA ExchangeDescriptorsKeeps ==
  ASSUME ImportInv, NEW r \in Ranks, ExchangeDescriptors(r), Others(r)
  PROVE  RankInv(r)'
  <1>1. /\ UNCHANGED <<program, at, version, bound, cache, keys, missing>>
        /\ pc[r] = "misses" /\ pc'[r] = "descriptors"
    BY DEF ImportInv, CacheInv, Typed, ExchangeDescriptors
  <1>2. Located(r) /\ OwnBinding(r) /\ PeersBound(r) /\ Learnt(r) /\ Posted(r)
    BY <1>1 DEF ImportInv, RankInv
  <1>3. Located(r)'
    BY <1>1, <1>2 DEF Located, Meeting, Op
  <1>4. OwnBinding(r)' /\ PeersBound(r)'
    BY <1>1, <1>2 DEF OwnBinding, PeersBound
  <1>5. Learnt(r)'
    BY <1>1, <1>2 DEF Learnt
  <1>6. Posted(r)'
    <2>1. PICK k \in Nat : k = Len(posts[r])
      BY Here
    <2>2. PICK c, m : c = LocalKey(r) /\ m = {}
      OBVIOUS
    <2>3. Post(r, "descriptor", c, m)
      BY <2>2 DEF ExchangeDescriptors
    <2>4. /\ Len(posts'[r]) = k + 1
          /\ posts'[r][k + 1] = [kind |-> "descriptor", key |-> c, miss |-> m]
          /\ \A i \in 1 .. k : posts'[r][i] = posts[r][i]
      BY <2>1, <2>3, PostFacts
    <2>5. k > 1 /\ \A i \in 1 .. k : posts[r][i].kind # "miss" => posts[r][i].miss = {}
      BY <1>1, <1>2, <2>1 DEF Posted
    <2>6. \A i \in 1 .. k + 1 : posts'[r][i].kind # "miss" => posts'[r][i].miss = {}
      <3>1. ASSUME NEW i \in 1 .. k + 1, posts'[r][i].kind # "miss" PROVE posts'[r][i].miss = {}
        <4>1. CASE i \in 1 .. k
          BY <2>4, <2>5, <3>1, <4>1
        <4>2. CASE i = k + 1
          BY <2>2, <2>4, <4>2
        <4>. QED
          BY <4>1, <4>2
      <3>. QED
        BY <3>1
    <2>7. posts'[r][k + 1].kind = "descriptor" /\ k + 1 > 1
      BY <2>4, <2>5
    <2>. QED
      BY <1>1, <2>4, <2>6, <2>7 DEF Posted
  <1>. QED
    BY <1>3, <1>4, <1>5, <1>6 DEF RankInv

LEMMA ImportAllKeeps ==
  ASSUME ImportInv, NEW r \in Ranks, ImportAll(r), Others(r)
  PROVE  RankInv(r)'
  <1>1. /\ UNCHANGED <<program, at, version, posts, keys, missing>>
        /\ pc[r] = "descriptors" /\ pc'[r] = "ready" /\ Complete(r) /\ ImportUpTo(r, N)
    BY DEF ImportInv, CacheInv, Typed, ImportAll
  <1>2. Located(r) /\ OwnBinding(r) /\ Learnt(r) /\ CacheInv
    BY DEF ImportInv, RankInv
  <1>3. N \in Nat /\ N \notin Ranks /\ \A s \in Peers(r) : s < N
    BY SizeAssumption DEF Ranks, Peers
  <1>4. /\ bound'[r][r] = bound[r][r]
        /\ \A s \in Peers(r) : bound'[r][s] = keys[r][s]
    BY <1>1, <1>2, <1>3, ImportKeeps
  <1>5. Located(r)'
    BY <1>1, <1>2 DEF Located, Meeting, Op
  <1>6. OwnBinding(r)' /\ PeersBound(r)'
    BY <1>1, <1>2, <1>4 DEF OwnBinding, PeersBound, Learnt, Peers
  <1>7. Learnt(r)'
    BY <1>1 DEF Learnt
  <1>8. Posted(r)'
    BY <1>1, RoundIsOver, PostedStays
  <1>. QED
    BY <1>5, <1>6, <1>7, <1>8 DEF RankInv

LEMMA ImportFailsKeeps ==
  ASSUME ImportInv, FailuresAreForgotten, NEW r \in Ranks, ImportFails(r), Others(r)
  PROVE  RankInv(r)'
  <1>1. /\ UNCHANGED <<program, version, posts, keys, missing>>
        /\ pc[r] = "descriptors" /\ pc'[r] = "idle" /\ at'[r] = at[r] + 1 /\ Complete(r)
        /\ failures < MaxFailures[program]
    BY DEF ImportInv, CacheInv, Typed, ImportFails, FailuresAreForgotten
  <1>2. PICK stop \in missing[r] : ImportUpTo(r, stop)
    BY DEF ImportFails
  <1>3. stop \in Nat /\ CacheInv
    <2>1. CacheInv /\ missing[r] \subseteq Ranks
      BY DEF ImportInv, CacheInv, Typed
    <2>. QED
      BY <2>1, SizeAssumption DEF Ranks
  <1>4. bound'[r][r] = bound[r][r]
    BY <1>1, <1>2, <1>3, ImportKeeps
  <1>5. bound[r][r] = KeyIn(program, at[r])
    BY <1>1 DEF ImportInv, RankInv, OwnBinding
  <1>6. MayFail(program)
    <2>1. failures \in Nat /\ MaxFailures[program] \in Nat
      BY FailuresAssumption DEF ImportInv, CacheInv, Typed
    <2>. QED
      BY <1>1, <2>1 DEF MayFail
  <1>7. Located(r)' /\ OwnBinding(r)'
    BY <1>1, <1>4, <1>5, NextOperation
  <1>8. PeersBound(r)'
    BY <1>1, <1>6 DEF PeersBound, MayFail
  <1>9. Learnt(r)'
    BY <1>1 DEF Learnt
  <1>10. Posted(r)'
    BY <1>1, RoundIsOver, PostedStays
  <1>. QED
    BY <1>7, <1>8, <1>9, <1>10 DEF RankInv

LEMMA ReturnKeeps ==
  ASSUME ImportInv, NEW r \in Ranks, Return(r), Others(r)
  PROVE  RankInv(r)'
  <1>1. /\ UNCHANGED <<program, version, bound, cache, posts, keys, missing>>
        /\ pc[r] = "ready" /\ pc'[r] = "idle" /\ at'[r] = at[r] + 1
    BY DEF ImportInv, CacheInv, Typed, Return
  <1>2. OwnBinding(r) /\ PeersBound(r) /\ Over(Len(posts[r]))
    BY <1>1 DEF ImportInv, RankInv, Posted
  <1>3. bound[r][r] = KeyIn(program, at[r])
    BY <1>1, <1>2 DEF OwnBinding
  <1>4. Located(r)' /\ OwnBinding(r)' /\ \A l : Prior(program, l, at'[r]) <=> l = at[r]
    BY <1>1, <1>3, NextOperation
  <1>5. PeersBound(r)'
    BY <1>1, <1>2, <1>4 DEF PeersBound
  <1>6. Learnt(r)'
    BY <1>1 DEF Learnt
  <1>7. Posted(r)'
    BY <1>1, <1>2, PostedStays
  <1>. QED
    BY <1>4, <1>5, <1>6, <1>7 DEF RankInv
-------------------------------------------------------------------------------
LEMMA ImportInit ==
  ASSUME Init
  PROVE  ImportInv
  <1>1. CacheInv
    BY CacheInit
  <1>2. program \in Programs
    BY <1>1 DEF CacheInv, Typed
  <1>3. \A r \in Ranks : at[r] = 1 /\ pc[r] = "idle" /\ posts[r] = <<>> /\ Len(posts[r]) = 0
    BY DEF Init
  <1>4. ASSUME NEW r \in Ranks PROVE RankInv(r)
    <2>1. Len(program) \in Nat
      BY <1>2, ProgramFacts
    <2>2. ASSUME NEW b \in Buffers PROVE version[r][b] = TokenIn(program, at[r], b)
      <3>1. 1 \in Nat \ {0}
        OBVIOUS
      <3>2. TokenIn(program, 1, b) = 1
        BY <3>1, TokenFacts
      <3>. QED
        BY <3>2 DEF Init
    <2>3. Located(r)
      <3>1. at[r] \in 1 .. Len(program) + 1
        BY <1>3, <2>1
      <3>2. pc[r] = "idle"
        BY <1>3
      <3>. QED
        BY <2>2, <3>1, <3>2 DEF Located, Meeting
    <2>4. \A l : ~Prior(program, l, 1)
      BY DEF Prior
    <2>5. \A s \in Ranks : bound[r][s] = NoKey
      BY DEF Init
    <2>6. OwnBinding(r) /\ PeersBound(r)
      BY <1>3, <2>4, <2>5 DEF OwnBinding, OwnBefore, PeersBound
    <2>7. Learnt(r)
      BY <1>3 DEF Learnt
    <2>8. Posted(r)
      BY <1>3 DEF Posted, Over
    <2>. QED
      BY <2>3, <2>6, <2>7, <2>8 DEF RankInv
  <1>5. ASSUME NEW r \in Ranks, NEW s \in Ranks PROVE Agree(r, s)
    BY <1>3 DEF Agree, Begun
  <1>. QED
    BY <1>1, <1>4, <1>5 DEF ImportInv

LEMMA ImportStep ==
  ASSUME ImportInv, FailuresAreForgotten, [Next]_vars
  PROVE  ImportInv'
  <1>. SUFFICES ASSUME CacheInv'
                PROVE  ImportInv'
    BY CacheStep DEF ImportInv
  <1>1. CASE Next
    <2>1. PICK r \in Ranks : Step(r) \/ ImportFails(r)
      BY <1>1 DEF Next
    <2>2. Others(r) /\ Grows(r) /\ \A p, q \in Ranks : Agree(p, q)'
      BY <2>1, TypedStays, AgreeStays DEF ImportInv
    <2>3. RankInv(r)'
      BY <2>1, <2>2, RewrapKeeps, FastPathKeeps, ExchangeKeysKeeps, LookUpKeeps, AllHitKeeps,
         ExchangeDescriptorsKeeps, ImportAllKeeps, ImportFailsKeeps, ReturnKeeps DEF Step
    <2>4. \A q \in Ranks : q # r => RankInv(q)'
      BY <2>2, RankStays
    <2>. QED
      BY <2>2, <2>3, <2>4 DEF ImportInv
  <1>2. CASE UNCHANGED vars
    <2>1. \A r \in Ranks : Others(r) /\ Grows(r)
      BY <1>2, Here DEF vars, Others, Grows
    <2>2. ASSUME NEW q \in Ranks PROVE RankInv(q)'
      <3>1. PICK r \in Ranks : r # q
        <4>1. 0 \in Ranks /\ 1 \in Ranks
          BY SizeAssumption DEF Ranks
        <4>. QED
          BY <4>1
      <3>. QED
        BY <2>1, <3>1, RankStays
    <2>3. ASSUME NEW p \in Ranks, NEW q \in Ranks PROVE Agree(p, q)'
      BY <1>2 DEF vars, ImportInv, Agree, Ahead, Over, Begun
    <2>. QED
      BY <2>2, <2>3 DEF ImportInv
  <1>. QED
    BY <1>1, <1>2

(* Every reachable state satisfies the invariant: in particular ranks take *)
(* the fast path in the same calls, and are in an exchange of the same     *)
(* call when they meet.                                                    *)
THEOREM ImportInvariant ==
  ASSUME FailuresAreForgotten
  PROVE  Spec => []ImportInv
  <1>1. Init => ImportInv
    BY ImportInit
  <1>2. ImportInv /\ [Next]_vars => ImportInv'
    BY ImportStep
  <1>. QED
    BY <1>1, <1>2, PTL DEF Spec

LEMMA KeyAtIs ==
  ASSUME NEW i
  PROVE  KeyAt(i) = KeyIn(program, i)
  BY DEF KeyAt, KeyIn, TokenIn, RewrapsOf

(* A rank that trusts its own unchanged buffer has its peers' buffers of   *)
(* this very call bound: the decision of                                   *)
(* ipc_symmetric_local_key_fast_path_ready is right without asking them.   *)
THEOREM TrustIsJustified ==
  ASSUME FailuresAreForgotten
  PROVE  Spec => []FastPathIsFresh
  <1>1. ImportInv => FastPathIsFresh
    BY Decision, KeyAtIs DEF FastPathIsFresh
  <1>. QED
    BY <1>1, ImportInvariant, PTL

(* What a collective is enqueued with are the buffers its peers use in it. *)
THEOREM CollectivesUsePeersBuffers ==
  ASSUME FailuresAreForgotten
  PROVE  Spec => []BoundToPeersBuffers
  <1>1. ASSUME ImportInv, NEW r \in Ranks, pc[r] = "ready", NEW s \in Ranks
        PROVE  bound[r][s] = KeyAt(at[r])
    <2>1. OwnBinding(r) /\ PeersBound(r)
      BY <1>1 DEF ImportInv, RankInv
    <2>. QED
      BY <1>1, <2>1, KeyAtIs DEF OwnBinding, PeersBound, Peers
  <1>2. ImportInv => BoundToPeersBuffers
    BY <1>1 DEF BoundToPeersBuffers
  <1>. QED
    BY <1>2, ImportInvariant, PTL

(* No rank takes another's keys for descriptors: what is contributed to    *)
(* one exchange of the broker is of one kind.                              *)
THEOREM RanksMeetInTheSameExchange ==
  ASSUME FailuresAreForgotten
  PROVE  Spec => []ExchangesAligned
  <1>1. ImportInv => ExchangesAligned
    BY DEF ImportInv, Agree, ExchangesAligned
  <1>. QED
    BY <1>1, ImportInvariant, PTL
===============================================================================
