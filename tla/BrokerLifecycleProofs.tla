------------------------ MODULE BrokerLifecycleProofs ------------------------
(***************************************************************************)
(* Successive sessions of Broker on one key, for any number of ranks and   *)
(* of sessions, with or without crashes: what the vault that a session     *)
(* left behind can, and cannot, do to a later constructor.                 *)
(***************************************************************************)
EXTENDS BrokerLifecycle, FiniteSetTheorems, TLAPS

Members(o) == {r \in Ranks : shm[r] = o}

(* The members that were counted in the object's current generation.       *)
Waiting(o) ==
    {r \in Ranks : shm[r] = o /\ pc[r] \in {"sync1", "sync2"}
                   /\ generation[r] = vault[o].barrier_generation}

Counted(o) == vault[o].barrier_count = Cardinality(Waiting(o))

(* The life of an object, rank 0 of session o being the one that creates   *)
(* it.  It does not exist;                                                 *)
Unborn(o) ==
    /\ \A r \in Ranks : session[r] <= o /\ shm[r] # o
    /\ shm_key # o
    /\ ~vault[o].init /\ vault[o].barrier_count = 0 /\ vault[o].barrier_generation = 0

(* it has no INIT_CODE, so that nobody maps it but its creator;            *)
Creating(o) ==
    /\ shm[0] = o /\ pc[0] \in {"created", "sized"}
    /\ \A r \in Ranks : session[r] <= o /\ (shm[r] = o => session[r] = o)
    /\ \A r \in Ranks \ {0} : shm[r] = o => pc[r] = "opened"
    /\ ~vault[o].init /\ vault[o].barrier_count = 0 /\ vault[o].barrier_generation = 0

(* the ranks of its session come to the first sync;                        *)
Gathering(o) ==
    /\ shm[0] = o
    /\ \A r \in Ranks : session[r] <= o /\ (shm[r] = o => session[r] = o)
    /\ \A r \in Ranks : shm[r] = o =>
           \/ pc[r] \in {"opened", "mapped"}
           \/ pc[r] = "sync1" /\ generation[r] = 0
    /\ vault[o].barrier_generation = 0 /\ Counted(o)

(* all of them are through it, and come to the second;                     *)
Binding(o) ==
    /\ \A r \in Ranks :
           /\ session[r] = o /\ shm[r] = o
           /\ \/ pc[r] = "sync1" /\ generation[r] = 0
              \/ pc[r] \in {"bind", "bound"}
              \/ pc[r] = "sync2" /\ generation[r] = 1
    /\ vault[o].barrier_generation = 1 /\ Counted(o)

(* all of them are through that too, and some already in the next session, *)
(* for which they may take this object before rank 0 unlinks it;           *)
Met(o) ==
    /\ \A r \in Ranks :
           \/ /\ session[r] = o /\ shm[r] = o
              /\ \/ pc[r] = "ready"
                 \/ pc[r] = "sync2" /\ generation[r] = 1
           \/ /\ session[r] > o
              /\ shm[r] = o => /\ r # 0
                               /\ \/ pc[r] \in {"opened", "mapped"}
                                  \/ pc[r] = "sync1" /\ generation[r] = 2
    /\ vault[o].barrier_generation = 2 /\ Counted(o)

(* a crash left it with a count of arrivals that nobody waits for any more;*)
Abandoned(o) == \A r \in Ranks : session[r] > o /\ (shm[r] = o => r # 0)
Stale(o) ==
    /\ Abandoned(o)
    /\ \A r \in Ranks : shm[r] = o =>
           \/ pc[r] \in {"opened", "mapped"}
           \/ pc[r] = "sync1" /\ generation[r] = vault[o].barrier_generation
    /\ vault[o].barrier_count >= Cardinality(Waiting(o))

(* or that count has let later ranks through their first sync, but without *)
(* a rank 0 never through the second.                                      *)
Misled(o) ==
    /\ Abandoned(o)
    /\ \A r \in Ranks : shm[r] = o =>
           \/ pc[r] \in {"opened", "mapped", "sync1", "bind", "bound"}
           \/ pc[r] = "sync2" /\ generation[r] = vault[o].barrier_generation
    /\ Counted(o)

Phase(o) ==
    \/ Unborn(o) \/ Creating(o) \/ Gathering(o) \/ Binding(o) \/ Met(o)
    \/ Stale(o) \/ Misled(o)

(* Where a rank is, what it has open and what is bound at its path.        *)
Located(r) ==
    /\ pc[r] \in {"start", "unlinked"} <=> shm[r] = 0
    /\ pc[r] \in {"unlinked", "created", "sized"} => r = 0
    /\ r = 0 => shm[r] \in {0, session[r]}
    /\ pc[r] \in {"bound", "sync2", "ready"} => sock_path[r] = session[r]

LifecycleInv ==
    /\ TypeOK
    /\ \A r \in Ranks : Located(r)
    /\ \A o \in Sessions : Phase(o)
-------------------------------------------------------------------------------
(* There are N ranks, a finite set, rank 0 among them. *)
LEMMA RanksFinite == IsFiniteSet(Ranks) /\ Cardinality(Ranks) = N /\ 0 \in Ranks /\ N \in Nat
  BY LifecycleAssumption, FS_Interval DEF Ranks

LEMMA RankTypes ==
  ASSUME TypeOK, NEW r \in Ranks
  PROVE  /\ pc[r] \in PCs /\ session[r] \in Sessions /\ session[r] \in Nat
         /\ shm[r] \in {0} \cup Sessions /\ generation[r] \in Nat
  BY DEF TypeOK, Sessions

LEMMA VaultTypes ==
  ASSUME TypeOK, NEW o \in Sessions
  PROVE  /\ vault[o].sized \in BOOLEAN /\ vault[o].init \in BOOLEAN /\ vault[o].locked \in BOOLEAN
         /\ vault[o].barrier_count \in 0 .. N - 1 /\ vault[o].barrier_count \in Nat
         /\ vault[o].barrier_generation \in Nat
         /\ o \in Nat /\ o # 0
  BY LifecycleAssumption DEF TypeOK, Sessions

LEMMA WaitingFinite ==
  ASSUME NEW o
  PROVE  /\ IsFiniteSet(Waiting(o)) /\ Cardinality(Waiting(o)) \in Nat
         /\ Waiting(o) \subseteq Ranks
  BY RanksFinite, FS_Subset, FS_CardinalityType DEF Waiting

(* An object that nobody's step touches stays in its phase. *)
LEMMA Frame ==
  ASSUME NEW o \in Sessions, Phase(o),
         UNCHANGED session,
         vault'[o].init = vault[o].init,
         vault'[o].barrier_count = vault[o].barrier_count,
         vault'[o].barrier_generation = vault[o].barrier_generation,
         shm_key' = o => shm_key = o,
         \A s \in Ranks : shm'[s] = o <=> shm[s] = o,
         \A s \in Ranks : shm[s] = o => pc'[s] = pc[s] /\ generation'[s] = generation[s]
  PROVE  Phase(o)'
  <1>1. Waiting(o)' = Waiting(o)
    BY DEF Waiting
  <1>2. Counted(o) => Counted(o)'
    BY <1>1 DEF Counted
  <1>3. 0 \in Ranks
    BY RanksFinite
  <1>4. Unborn(o) => Unborn(o)'
    BY DEF Unborn
  <1>5. Creating(o) => Creating(o)'
    BY <1>3 DEF Creating
  <1>6. Gathering(o) => Gathering(o)'
    BY <1>2, <1>3 DEF Gathering
  <1>7. Binding(o) => Binding(o)'
    BY <1>2 DEF Binding
  <1>8. Met(o) => Met(o)'
    BY <1>2 DEF Met
  <1>9. Stale(o) => Stale(o)'
    BY <1>1 DEF Stale, Abandoned
  <1>10. Misled(o) => Misled(o)'
    BY <1>2 DEF Misled, Abandoned
  <1>. QED
    BY <1>4, <1>5, <1>6, <1>7, <1>8, <1>9, <1>10 DEF Phase

(* What a step of rank r leaves alone of the objects that it does not have *)
(* open, before and after, and of the other ranks.                         *)
Apart(r) ==
    /\ session' = session
    /\ \A s \in Ranks \ {r} : /\ pc'[s] = pc[s] /\ shm'[s] = shm[s]
                              /\ generation'[s] = generation[s] /\ sock_path'[s] = sock_path[s]
    /\ \A o \in Sessions : shm[r] # o /\ shm'[r] # o =>
           vault'[o] = vault[o] /\ (shm_key' = o => shm_key = o)

(* So only the phase of that object, and where r is, remain to be shown.   *)
LEMMA OwnSuffices ==
  ASSUME LifecycleInv, NEW r \in Ranks, Apart(r), TypeOK', Located(r)',
         \A o \in Sessions : shm[r] = o \/ shm'[r] = o => Phase(o)'
  PROVE  LifecycleInv'
  <1>1. ASSUME NEW s \in Ranks, s # r PROVE Located(s)'
    BY <1>1 DEF LifecycleInv, Apart, Located
  <1>2. ASSUME NEW o \in Sessions, shm[r] # o, shm'[r] # o PROVE Phase(o)'
    <2>1. /\ vault'[o] = vault[o] /\ (shm_key' = o => shm_key = o) /\ session' = session
          /\ \A s \in Ranks : shm'[s] = o <=> shm[s] = o
          /\ \A s \in Ranks : shm[s] = o => pc'[s] = pc[s] /\ generation'[s] = generation[s]
      BY <1>2 DEF Apart
    <2>. QED
      BY <2>1, Frame DEF LifecycleInv
  <1>. QED
    BY <1>1, <1>2 DEF LifecycleInv

(* An arrival that is not the last is counted. *)
LEMMA ArrivalCounted ==
  ASSUME TypeOK, NEW r \in Ranks, NEW from, from \notin {"sync1", "sync2"},
         NEW to \in {"sync1", "sync2"}, EnterSync(r, from, to),
         shm[r] \in Sessions, vault[shm[r]].barrier_count + 1 # N
  PROVE  /\ vault'[shm[r]].barrier_generation = vault[shm[r]].barrier_generation
         /\ vault'[shm[r]].barrier_count = vault[shm[r]].barrier_count + 1
         /\ Cardinality(Waiting(shm[r])') = Cardinality(Waiting(shm[r])) + 1
  <1>. DEFINE o == shm[r]
  <1>1. /\ vault'[o].barrier_generation = vault[o].barrier_generation
        /\ vault'[o].barrier_count = vault[o].barrier_count + 1
        /\ pc[r] = from /\ pc'[r] = to /\ generation'[r] = vault[o].barrier_generation
        /\ \A s \in Ranks \ {r} : pc'[s] = pc[s] /\ generation'[s] = generation[s]
        /\ shm' = shm
    BY DEF TypeOK, EnterSync, Goto
  <1>2. r \notin Waiting(o)
    BY <1>1 DEF Waiting
  <1>3. Waiting(o)' = Waiting(o) \cup {r}
    BY <1>1 DEF Waiting
  <1>. QED
    BY <1>1, <1>2, <1>3, WaitingFinite, FS_AddElement

(* The last one resets the count, and has found all others waiting unless  *)
(* the count is stale.                                                     *)
LEMMA LastArrival ==
  ASSUME TypeOK, NEW r \in Ranks, NEW from, from \notin {"sync1", "sync2"},
         NEW to \in {"sync1", "sync2"}, EnterSync(r, from, to),
         shm[r] \in Sessions, vault[shm[r]].barrier_count + 1 = N
  PROVE  /\ vault'[shm[r]].barrier_generation = vault[shm[r]].barrier_generation + 1
         /\ vault'[shm[r]].barrier_count = 0
         /\ (\A s \in Ranks : shm[s] = shm[r] /\ pc[s] \in {"sync1", "sync2"} =>
                 generation[s] <= vault[shm[r]].barrier_generation)
              => Counted(shm[r])'
         /\ Counted(shm[r]) => Ranks \ {r} \subseteq Waiting(shm[r])
  <1>. DEFINE o == shm[r]
  <1>1. /\ vault'[o].barrier_generation = vault[o].barrier_generation + 1
        /\ vault'[o].barrier_count = 0
        /\ pc[r] = from /\ pc'[r] = to /\ generation'[r] = vault[o].barrier_generation
        /\ \A s \in Ranks \ {r} : pc'[s] = pc[s] /\ generation'[s] = generation[s]
        /\ shm' = shm
    BY DEF TypeOK, EnterSync, Goto
  <1>2. vault[o].barrier_generation \in Nat /\ \A s \in Ranks : generation[s] \in Nat
    BY RankTypes, VaultTypes
  <1>3. ASSUME \A s \in Ranks : shm[s] = o /\ pc[s] \in {"sync1", "sync2"} =>
                   generation[s] <= vault[o].barrier_generation
        PROVE  Counted(o)'
    <2>1. Waiting(o)' = {}
      <3>. SUFFICES ASSUME NEW s \in Ranks, shm'[s] = o, pc'[s] \in {"sync1", "sync2"},
                           generation'[s] = vault'[o].barrier_generation
                    PROVE  FALSE
        BY <1>1 DEF Waiting
      <3>1. CASE s = r
        BY <1>1, <1>2, <3>1
      <3>2. CASE s # r
        BY <1>1, <1>2, <1>3, <3>2
      <3>. QED
        BY <3>1, <3>2
    <2>. QED
      BY <1>1, <2>1, FS_EmptySet DEF Counted
  <1>4. ASSUME Counted(o) PROVE Ranks \ {r} \subseteq Waiting(o)
    <2>1. Waiting(o) \subseteq Ranks \ {r}
      BY <1>1 DEF Waiting
    <2>2. IsFiniteSet(Ranks \ {r}) /\ Cardinality(Ranks \ {r}) = N - 1
      BY RanksFinite, FS_RemoveElement
    <2>3. Cardinality(Waiting(o)) = N - 1
      BY <1>4, RanksFinite, WaitingFinite DEF Counted
    <2>. QED
      BY <2>1, <2>2, <2>3, FS_Subset
  <1>. QED
    BY <1>1, <1>3, <1>4
-------------------------------------------------------------------------------
(* Rank 0 makes the object of its session. *)
LEMMA UnlinkShmInv ==
  ASSUME LifecycleInv, NEW r \in Ranks, UnlinkShm(r)
  PROVE  LifecycleInv'
  <1>1. TypeOK'
    BY DEF LifecycleInv, UnlinkShm, Goto, TypeOK, PCs
  <1>2. /\ r = 0 /\ pc[r] = "start" /\ pc'[r] = "unlinked"
        /\ shm'[r] = shm[r] /\ shm[r] = 0
    BY DEF LifecycleInv, TypeOK, Located, UnlinkShm, Goto
  <1>3. Apart(r)
    BY DEF Apart, UnlinkShm, Goto, LifecycleInv, TypeOK, Sessions
  <1>4. Located(r)'
    BY <1>2 DEF Located
  <1>. QED
    BY <1>1, <1>2, <1>3, <1>4, OwnSuffices, VaultTypes DEF LifecycleInv

LEMMA CreateShmInv ==
  ASSUME LifecycleInv, NEW r \in Ranks, CreateShm(r)
  PROVE  LifecycleInv'
  <1>1. TypeOK'
    BY DEF LifecycleInv, CreateShm, Goto, TypeOK, PCs
  <1>2. r = 0 /\ pc[r] = "unlinked" /\ pc'[r] = "created" /\ shm[r] = 0
    BY DEF LifecycleInv, TypeOK, Located, CreateShm, Goto
  <1>. PICK o \in Sessions : o = session[0]
    BY <1>2, RankTypes DEF LifecycleInv
  <1>3. /\ shm'[0] = o /\ session[0] = o /\ o \in Nat /\ shm_key' = o
        /\ session' = session /\ vault' = vault
        /\ \A s \in Ranks \ {0} : shm'[s] = shm[s] /\ pc'[s] = pc[s]
    BY <1>2, RankTypes DEF LifecycleInv, TypeOK, CreateShm, Goto
  <1>4. Apart(r)
    BY <1>2, <1>3 DEF Apart, CreateShm, Goto, LifecycleInv, TypeOK
  <1>5. Located(r)'
    BY <1>2, <1>3 DEF Located, Sessions
  <1>6. Phase(o)'
    <2>1. Unborn(o)
      BY <1>2, <1>3 DEF LifecycleInv, Phase, Creating, Gathering, Binding, Met, Stale, Misled, Abandoned
    <2>2. Creating(o)'
      BY <1>2, <1>3, <2>1 DEF Unborn, Creating
    <2>. QED
      BY <2>2 DEF Phase
  <1>7. \A p \in Sessions : shm[r] = p \/ shm'[r] = p => p = o
    BY <1>2, <1>3, VaultTypes DEF LifecycleInv
  <1>. QED
    BY <1>1, <1>4, <1>5, <1>6, <1>7, OwnSuffices

(* What a rank's step on the object it has open does to the others.        *)
LEMMA OnOwnObject ==
  ASSUME LifecycleInv, NEW r \in Ranks, UNCHANGED <<shm_key, session, shm>>,
         \A s \in Ranks \ {r} : pc'[s] = pc[s] /\ generation'[s] = generation[s] /\ sock_path'[s] = sock_path[s],
         \A p \in Sessions : p # shm[r] => vault'[p] = vault[p],
         TypeOK', Located(r)', shm[r] \in Sessions => Phase(shm[r])'
  PROVE  LifecycleInv'
  <1>1. Apart(r)
    BY DEF Apart
  <1>2. \A p \in Sessions : shm[r] = p \/ shm'[r] = p => Phase(p)'
    OBVIOUS
  <1>. QED
    BY <1>1, <1>2, OwnSuffices

(* The object that a rank has open is one of a session. *)
LEMMA HasOpen ==
  ASSUME LifecycleInv, NEW r \in Ranks, pc[r] \notin {"start", "unlinked"}
  PROVE  /\ shm[r] \in Sessions /\ Phase(shm[r]) /\ ~Unborn(shm[r])
  <1>1. shm[r] \in Sessions
    BY RankTypes DEF LifecycleInv, Located
  <1>. QED
    BY <1>1 DEF LifecycleInv, Unborn

LEMMA SizeShmInv ==
  ASSUME LifecycleInv, NEW r \in Ranks, SizeShm(r)
  PROVE  LifecycleInv'
  <1>. DEFINE o == shm[r]
  <1>1. TypeOK'
    BY DEF LifecycleInv, SizeShm, Goto, TypeOK, PCs
  <1>2. /\ r = 0 /\ pc[r] = "created" /\ pc'[r] = "sized" /\ UNCHANGED <<shm_key, session, shm, sock_path>>
        /\ \A s \in Ranks \ {r} : pc'[s] = pc[s] /\ generation'[s] = generation[s]
    BY DEF LifecycleInv, TypeOK, Located, SizeShm, Goto
  <1>3. o \in Sessions /\ Phase(o) /\ ~Unborn(o)
    BY <1>2, HasOpen
  <1>4. /\ vault'[o].init = vault[o].init
        /\ vault'[o].barrier_count = vault[o].barrier_count
        /\ vault'[o].barrier_generation = vault[o].barrier_generation
        /\ \A p \in Sessions : p # o => vault'[p] = vault[p]
    BY <1>3 DEF LifecycleInv, TypeOK, SizeShm
  <1>5. Creating(o)
    BY <1>2, <1>3 DEF Phase, Gathering, Binding, Met, Stale, Misled, Abandoned
  <1>6. Creating(o)'
    BY <1>2, <1>4, <1>5 DEF Creating
  <1>7. Located(r)'
    BY <1>2 DEF LifecycleInv, Located
  <1>. QED
    BY <1>1, <1>2, <1>4, <1>6, <1>7, OnOwnObject DEF Phase

LEMMA InitVaultInv ==
  ASSUME LifecycleInv, NEW r \in Ranks, InitVault(r)
  PROVE  LifecycleInv'
  <1>. DEFINE o == shm[r]
  <1>. DEFINE Records == [sized : BOOLEAN, init : BOOLEAN, locked : BOOLEAN,
                          barrier_count : 0 .. N - 1, barrier_generation : Nat]
              fresh == [Blank EXCEPT !.sized = TRUE, !.init = TRUE]
  <1>a. Blank \in Records /\ Blank.barrier_count = 0 /\ Blank.barrier_generation = 0
    BY LifecycleAssumption DEF Blank
  <1>0. fresh \in Records /\ fresh.barrier_count = 0 /\ fresh.barrier_generation = 0
    BY <1>a
  <1>. HIDE DEF fresh
  <1>b. vault' = [vault EXCEPT ![o] = fresh]
    BY DEF InitVault, fresh
  <1>c. pc' = [pc EXCEPT ![r] = "mapped"] /\ UNCHANGED <<shm_key, sock_path, session, shm, generation>>
    BY DEF InitVault, Goto
  <1>d. vault' \in [Sessions -> Records]
    BY <1>0, <1>b DEF LifecycleInv, TypeOK
  <1>1. TypeOK'
    BY <1>c, <1>d DEF LifecycleInv, TypeOK, PCs
  <1>2. /\ r = 0 /\ pc[r] = "sized" /\ pc'[r] = "mapped" /\ UNCHANGED <<shm_key, session, shm, sock_path>>
        /\ \A s \in Ranks \ {r} : pc'[s] = pc[s] /\ generation'[s] = generation[s]
    BY DEF LifecycleInv, TypeOK, Located, InitVault, Goto
  <1>3. o \in Sessions /\ Phase(o) /\ ~Unborn(o)
    BY <1>2, HasOpen
  <1>4. /\ vault'[o].barrier_count = 0
        /\ vault'[o].barrier_generation = 0
        /\ \A p \in Sessions : p # o => vault'[p] = vault[p]
    BY <1>0, <1>b, <1>3 DEF LifecycleInv, TypeOK
  <1>5. Creating(o)
    BY <1>2, <1>3 DEF Phase, Gathering, Binding, Met, Stale, Misled, Abandoned
  <1>6. Waiting(o)' = {}
    BY <1>2, <1>5 DEF Creating, Waiting
  <1>7. Gathering(o)'
    BY <1>2, <1>4, <1>5, <1>6, FS_EmptySet DEF Creating, Gathering, Counted
  <1>8. Located(r)'
    BY <1>2 DEF LifecycleInv, Located
  <1>. QED
    BY <1>1, <1>2, <1>4, <1>7, <1>8, OnOwnObject DEF Phase
-------------------------------------------------------------------------------
(* A rank that opens what the name refers to gets the object of its own    *)
(* session, or one that was left behind.                                   *)
LEMMA OpenShmInv ==
  ASSUME LifecycleInv, NEW r \in Ranks, OpenShm(r)
  PROVE  LifecycleInv'
  <1>1. TypeOK'
    BY DEF LifecycleInv, OpenShm, Goto, TypeOK, PCs
  <1>. PICK o \in Sessions : o = shm_key
    BY DEF LifecycleInv, OpenShm, TypeOK
  <1>2. /\ r # 0 /\ pc[r] = "start" /\ pc'[r] = "opened" /\ shm[r] = 0 /\ shm'[r] = o
        /\ shm_key = o /\ UNCHANGED <<shm_key, session, vault, sock_path, generation>>
        /\ \A s \in Ranks \ {r} : pc'[s] = pc[s] /\ shm'[s] = shm[s]
    BY DEF LifecycleInv, TypeOK, Located, OpenShm, Goto
  <1>3. Apart(r)
    BY <1>2 DEF Apart
  <1>4. Located(r)'
    BY <1>2 DEF Located, Sessions
  <1>5. o # 0 /\ 0 \in Ranks \ {r} /\ session[r] \in Nat /\ session[0] \in Nat /\ o \in Nat
    BY <1>2, RanksFinite, RankTypes, VaultTypes DEF LifecycleInv
  <1>5a. \A p \in Sessions : shm[r] = p \/ shm'[r] = p => p = o
    BY <1>2, VaultTypes DEF LifecycleInv
  <1>6. Waiting(o)' = Waiting(o)
    BY <1>2, <1>5 DEF Waiting
  <1>7. Counted(o) => Counted(o)'
    BY <1>2, <1>6 DEF Counted
  (* A rank of an earlier session than rank 0's is still in it. *)
  <1>8. session[r] >= session[0]
    <2>. SUFFICES ASSUME session[r] < session[0] PROVE FALSE
      BY <1>5
    <2>1. session[r] \in Sessions /\ shm[r] # session[r]
      BY <1>2, RankTypes DEF LifecycleInv, Sessions
    <2>2. Phase(session[r])
      BY <2>1 DEF LifecycleInv
    <2>. DEFINE p == session[r]
    <2>3. ~Unborn(p) /\ ~Binding(p) /\ ~Met(p) /\ ~Stale(p) /\ ~Misled(p)
      BY <2>1, <1>5 DEF Unborn, Binding, Met, Stale, Misled, Abandoned
    <2>4. ~Creating(p) /\ ~Gathering(p)
      BY <1>5 DEF Creating, Gathering
    <2>. QED
      BY <2>2, <2>3, <2>4 DEF Phase
  <1>9. Phase(o) /\ ~Unborn(o) /\ ~Binding(o)
    BY <1>2, <1>5 DEF LifecycleInv, Unborn, Binding
  <1>10. CASE Creating(o)
    <2>1. session[0] = o /\ session[r] = o
      BY <1>5, <1>8, <1>10 DEF Creating
    <2>2. Creating(o)'
      BY <1>2, <1>5, <1>10, <2>1 DEF Creating
    <2>. QED
      BY <1>1, <1>3, <1>4, <1>5a, <2>2, OwnSuffices DEF Phase
  <1>11. CASE Gathering(o)
    <2>1. session[0] = o /\ session[r] = o
      BY <1>5, <1>8, <1>11 DEF Gathering
    <2>2. Gathering(o)'
      BY <1>2, <1>5, <1>7, <1>11, <2>1 DEF Gathering
    <2>. QED
      BY <1>1, <1>3, <1>4, <1>5a, <2>2, OwnSuffices DEF Phase
  <1>12. CASE Met(o)
    <2>1. session[r] > o
      BY <1>2, <1>5, <1>12 DEF Met
    <2>2. Met(o)'
      BY <1>2, <1>7, <1>12, <2>1 DEF Met
    <2>. QED
      BY <1>1, <1>3, <1>4, <1>5a, <2>2, OwnSuffices DEF Phase
  <1>13. CASE Stale(o)
    <2>1. Stale(o)'
      BY <1>2, <1>6, <1>13 DEF Stale, Abandoned
    <2>. QED
      BY <1>1, <1>3, <1>4, <1>5a, <2>1, OwnSuffices DEF Phase
  <1>14. CASE Misled(o)
    <2>1. Misled(o)'
      BY <1>2, <1>7, <1>14 DEF Misled, Abandoned
    <2>. QED
      BY <1>1, <1>3, <1>4, <1>5a, <2>1, OwnSuffices DEF Phase
  <1>. QED
    BY <1>9, <1>10, <1>11, <1>12, <1>13, <1>14 DEF Phase

(* A step of the constructor that leaves the vaults alone.                 *)
Moves(r, from, to) ==
    /\ pc[r] = from /\ pc'[r] = to
    /\ UNCHANGED <<shm_key, vault, session, shm, generation>>
    /\ \A s \in Ranks \ {r} : pc'[s] = pc[s] /\ sock_path'[s] = sock_path[s]

LEMMA MapShmInv ==
  ASSUME LifecycleInv, NEW r \in Ranks, MapShm(r)
  PROVE  LifecycleInv'
  <1>. DEFINE o == shm[r]
  <1>1. TypeOK'
    BY DEF LifecycleInv, MapShm, Goto, TypeOK, PCs
  <1>2. Moves(r, "opened", "mapped") /\ vault[o].init /\ sock_path' = sock_path
    BY DEF LifecycleInv, TypeOK, Moves, MapShm, Goto
  <1>3. o \in Sessions /\ Phase(o) /\ ~Unborn(o)
    BY <1>2, HasOpen DEF Moves
  <1>4. ~Creating(o) /\ ~Binding(o)
    BY <1>2 DEF Creating, Binding, Moves
  <1>5. Waiting(o)' = Waiting(o)
    BY <1>2 DEF Waiting, Moves
  <1>6. Gathering(o) => Gathering(o)'
    BY <1>2, <1>5 DEF Gathering, Moves, Counted
  <1>7. Met(o) => Met(o)'
    BY <1>2, <1>5 DEF Met, Moves, Counted
  <1>8. Stale(o) => Stale(o)'
    BY <1>2, <1>5 DEF Stale, Moves, Abandoned
  <1>9. Misled(o) => Misled(o)'
    BY <1>2, <1>5 DEF Misled, Moves, Counted, Abandoned
  <1>10. Phase(o)'
    BY <1>3, <1>4, <1>6, <1>7, <1>8, <1>9 DEF Phase
  <1>11. Located(r)'
    BY <1>2 DEF LifecycleInv, Located, Moves
  <1>. QED
    BY <1>1, <1>2, <1>10, <1>11, OnOwnObject DEF Moves
-------------------------------------------------------------------------------
(* A rank that is through a sync was not waiting any more. *)
LEMMA LeaveSyncInv ==
  ASSUME LifecycleInv, NEW r \in Ranks,
         LeaveSync(r, "sync1", "bind") \/ LeaveSync(r, "sync2", "ready")
  PROVE  LifecycleInv'
  <1>. DEFINE o == shm[r]
  <1>1. TypeOK'
    BY DEF LifecycleInv, LeaveSync, Goto, TypeOK, PCs
  <1>2. /\ Moves(r, "sync1", "bind") \/ Moves(r, "sync2", "ready")
        /\ sock_path' = sock_path
        /\ generation[r] # vault[o].barrier_generation
    BY DEF LifecycleInv, TypeOK, Moves, LeaveSync, Goto
  <1>3. o \in Sessions /\ Phase(o) /\ ~Unborn(o)
    BY <1>2, HasOpen DEF Moves
  <1>4. ~Creating(o) /\ ~Gathering(o) /\ ~Stale(o)
    BY <1>2 DEF Creating, Gathering, Stale, Moves
  <1>5. Waiting(o)' = Waiting(o)
    BY <1>2 DEF Waiting, Moves
  <1>6. Binding(o) => Binding(o)'
    BY <1>2, <1>5 DEF Binding, Moves, Counted
  <1>7. Met(o) => Met(o)'
    BY <1>2, <1>5 DEF Met, Moves, Counted
  <1>8. Misled(o) => Misled(o)'
    BY <1>2, <1>5 DEF Misled, Moves, Counted, Abandoned
  <1>9. Phase(o)'
    BY <1>3, <1>4, <1>6, <1>7, <1>8 DEF Phase
  <1>10. Located(r)'
    BY <1>2 DEF LifecycleInv, Located, Moves
  <1>. QED
    BY <1>1, <1>2, <1>9, <1>10, OnOwnObject DEF Moves

LEMMA CreateSocketInv ==
  ASSUME LifecycleInv, NEW r \in Ranks, CreateSocket(r)
  PROVE  LifecycleInv'
  <1>. DEFINE o == shm[r]
  <1>1. TypeOK'
    BY DEF LifecycleInv, CreateSocket, Goto, TypeOK, PCs
  <1>2. Moves(r, "bind", "bound") /\ sock_path'[r] = session[r]
    BY DEF LifecycleInv, TypeOK, Moves, CreateSocket, Goto
  <1>3. o \in Sessions /\ Phase(o) /\ ~Unborn(o)
    BY <1>2, HasOpen DEF Moves
  <1>4. ~Creating(o) /\ ~Gathering(o) /\ ~Met(o) /\ ~Stale(o)
    BY <1>2, RankTypes DEF Creating, Gathering, Met, Stale, Moves, LifecycleInv, Sessions
  <1>5. Waiting(o)' = Waiting(o)
    BY <1>2 DEF Waiting, Moves
  <1>6. Binding(o) => Binding(o)'
    BY <1>2, <1>5 DEF Binding, Moves, Counted
  <1>7. Misled(o) => Misled(o)'
    BY <1>2, <1>5 DEF Misled, Moves, Counted, Abandoned
  <1>8. Phase(o)'
    BY <1>3, <1>4, <1>6, <1>7 DEF Phase
  <1>9. Located(r)'
    BY <1>2 DEF LifecycleInv, Located, Moves
  <1>. QED
    BY <1>1, <1>2, <1>8, <1>9, OnOwnObject DEF Moves

(* What an arrival at a sync is, apart from what it does to the vault.     *)
Arrives(r, from, to) ==
    /\ pc[r] = from /\ pc'[r] = to /\ generation'[r] = vault[shm[r]].barrier_generation
    /\ UNCHANGED <<shm_key, session, shm, sock_path>>
    /\ \A s \in Ranks \ {r} : pc'[s] = pc[s] /\ generation'[s] = generation[s]
    /\ \A p \in Sessions : p # shm[r] => vault'[p] = vault[p]

LEMMA EnterSyncArrives ==
  ASSUME LifecycleInv, NEW r \in Ranks,
         NEW from \in {"mapped", "bound"}, NEW to \in {"sync1", "sync2"}, EnterSync(r, from, to)
  PROVE  TypeOK' /\ Arrives(r, from, to) /\ shm[r] \in Sessions /\ Phase(shm[r])
  <1>1. pc[r] = from /\ shm[r] \in Sessions /\ Phase(shm[r])
    BY HasOpen DEF EnterSync, Goto
  <1>2. Arrives(r, from, to)
    BY <1>1 DEF LifecycleInv, TypeOK, Arrives, EnterSync, Goto
  <1>. DEFINE v == vault[shm[r]]
              w == [v EXCEPT !.barrier_count = IF v.barrier_count + 1 = N THEN 0 ELSE @ + 1,
                             !.barrier_generation = IF v.barrier_count + 1 = N THEN @ + 1 ELSE @]
              Records == [sized : BOOLEAN, init : BOOLEAN, locked : BOOLEAN,
                          barrier_count : 0 .. N - 1, barrier_generation : Nat]
  <1>3. v \in Records
    BY <1>1 DEF LifecycleInv, TypeOK
  <1>4. w \in Records
    <2>. DEFINE x == [v EXCEPT !.barrier_count = IF v.barrier_count + 1 = N THEN 0 ELSE @ + 1]
    <2>1. x \in Records /\ x.barrier_generation = v.barrier_generation
      BY <1>3, LifecycleAssumption
    <2>. DEFINE g == IF v.barrier_count + 1 = N THEN v.barrier_generation + 1 ELSE v.barrier_generation
    <2>2. w = [x EXCEPT !.barrier_generation = g]
      BY <1>3, <2>1
    <2>3. g \in Nat
      BY <1>3
    <2>. HIDE DEF x, g, w
    <2>. QED
      BY <2>1, <2>2, <2>3
  <1>5. vault' = [vault EXCEPT ![shm[r]] = w]
    BY <1>1 DEF EnterSync, LifecycleInv, TypeOK
  <1>6. vault' \in [Sessions -> Records]
    <2>. HIDE DEF w
    <2>. QED
      BY <1>4, <1>5 DEF LifecycleInv, TypeOK
  <1>7. TypeOK'
    <2>1. v.barrier_generation \in Nat
      BY <1>1, VaultTypes DEF LifecycleInv
    <2>2. /\ pc' = [pc EXCEPT ![r] = to] /\ generation' = [generation EXCEPT ![r] = v.barrier_generation]
          /\ UNCHANGED <<shm_key, sock_path, session, shm>>
      BY DEF EnterSync, Goto
    <2>3. pc' \in [Ranks -> PCs]
      BY <2>2 DEF LifecycleInv, TypeOK, PCs
    <2>. QED
      BY <1>6, <2>1, <2>2, <2>3 DEF LifecycleInv, TypeOK
  <1>. QED
    BY <1>1, <1>2, <1>7

(* The count of a vault whose session met can let a rank of the next one   *)
(* through only when it is stale.                                          *)
LEMMA EnterFirstSyncInv ==
  ASSUME LifecycleInv, NEW r \in Ranks, EnterSync(r, "mapped", "sync1")
  PROVE  LifecycleInv'
  <1>. DEFINE o == shm[r]
  <1>1. TypeOK' /\ Arrives(r, "mapped", "sync1") /\ o \in Sessions /\ Phase(o)
    BY EnterSyncArrives
  <1>2. TypeOK /\ "mapped" \notin {"sync1", "sync2"} /\ "sync1" \in {"sync1", "sync2"}
    BY DEF LifecycleInv
  <1>3. Located(r)'
    BY <1>1 DEF LifecycleInv, Located, Arrives
  <1>4. ~Unborn(o) /\ ~Creating(o) /\ ~Binding(o)
    BY <1>1 DEF Unborn, Creating, Binding, Arrives
  <1>5. Phase(o)'
    <2>1. CASE vault[o].barrier_count + 1 # N
      <3>1. /\ vault'[o].barrier_generation = vault[o].barrier_generation
            /\ vault'[o].barrier_count = vault[o].barrier_count + 1
            /\ Cardinality(Waiting(o)') = Cardinality(Waiting(o)) + 1
        BY <1>1, <1>2, <2>1, ArrivalCounted
      <3>2. Counted(o) => Counted(o)'
        BY <1>1, <3>1 DEF Counted, Arrives
      <3>3. Gathering(o) => Gathering(o)'
        BY <1>1, <3>1, <3>2 DEF Gathering, Arrives
      <3>4. Met(o) => Met(o)'
        BY <1>1, <3>1, <3>2 DEF Met, Arrives
      <3>5. Stale(o) => Stale(o)'
        BY <1>1, <1>2, <3>1, VaultTypes, WaitingFinite DEF Stale, Abandoned, Arrives
      <3>6. Misled(o) => Misled(o)'
        BY <1>1, <3>1, <3>2 DEF Misled, Abandoned, Arrives
      <3>. QED
        BY <1>1, <1>4, <3>3, <3>4, <3>5, <3>6 DEF Phase
    <2>2. CASE vault[o].barrier_count + 1 = N
      <3>1. /\ vault'[o].barrier_generation = vault[o].barrier_generation + 1
            /\ vault'[o].barrier_count = 0
            /\ (\A s \in Ranks : shm[s] = o /\ pc[s] \in {"sync1", "sync2"} =>
                    generation[s] <= vault[o].barrier_generation)
                 => Counted(o)'
            /\ Counted(o) => Ranks \ {r} \subseteq Waiting(o)
        BY <1>1, <1>2, <2>2, LastArrival
      <3>2. 0 \in Ranks /\ vault[o].barrier_generation \in Nat
        BY <1>1, <1>2, RanksFinite, VaultTypes
      <3>3. ASSUME Gathering(o) PROVE Binding(o)'
        <4>1. \A s \in Ranks \ {r} : shm[s] = o /\ pc[s] = "sync1" /\ generation[s] = 0
          BY <3>1, <3>3 DEF Gathering, Waiting
        <4>2. Counted(o)'
          BY <1>1, <3>1, <3>2, <3>3 DEF Gathering, Arrives
        <4>. QED
          BY <1>1, <3>1, <3>3, <4>1, <4>2 DEF Gathering, Binding, Arrives
      <3>4. ASSUME Stale(o) PROVE Misled(o)'
        <4>1. Counted(o)'
          BY <1>1, <3>1, <3>2, <3>4 DEF Stale, Arrives
        <4>. QED
          BY <1>1, <3>4, <4>1 DEF Stale, Misled, Abandoned, Arrives
      (* Rank 0 is not among those waiting. *)
      <3>5. ~Met(o)
        <4>. SUFFICES ASSUME Met(o) PROVE FALSE
          OBVIOUS
        <4>1. r # 0
          BY <1>1, <1>2, VaultTypes DEF Met, Arrives
        <4>2. 0 \in Waiting(o)
          BY <3>1, <3>2, <4>1 DEF Met
        <4>. QED
          BY <1>1, <1>2, <4>2, VaultTypes DEF Waiting, Met
      <3>6. ~Misled(o)
        BY <1>1, <3>1, <3>2 DEF Misled, Abandoned, Waiting, Arrives
      <3>. QED
        BY <1>1, <1>4, <3>3, <3>4, <3>5, <3>6 DEF Phase
    <2>. QED
      BY <2>1, <2>2
  <1>. QED
    BY <1>1, <1>3, <1>5, OnOwnObject DEF Arrives

LEMMA EnterSecondSyncInv ==
  ASSUME LifecycleInv, NEW r \in Ranks, EnterSync(r, "bound", "sync2")
  PROVE  LifecycleInv'
  <1>. DEFINE o == shm[r]
  <1>1. TypeOK' /\ Arrives(r, "bound", "sync2") /\ o \in Sessions /\ Phase(o)
    BY EnterSyncArrives
  <1>2. TypeOK /\ "bound" \notin {"sync1", "sync2"} /\ "sync2" \in {"sync1", "sync2"}
    BY DEF LifecycleInv
  <1>3. Located(r)'
    BY <1>1 DEF LifecycleInv, Located, Arrives
  <1>4. ~Unborn(o) /\ ~Creating(o) /\ ~Gathering(o) /\ ~Met(o) /\ ~Stale(o)
    BY <1>1, <1>2, RankTypes DEF Unborn, Creating, Gathering, Met, Stale, Arrives, Sessions
  <1>5. Phase(o)'
    <2>1. CASE vault[o].barrier_count + 1 # N
      <3>1. /\ vault'[o].barrier_generation = vault[o].barrier_generation
            /\ vault'[o].barrier_count = vault[o].barrier_count + 1
            /\ Cardinality(Waiting(o)') = Cardinality(Waiting(o)) + 1
        BY <1>1, <1>2, <2>1, ArrivalCounted
      <3>2. Counted(o) => Counted(o)'
        BY <1>1, <3>1 DEF Counted, Arrives
      <3>3. Binding(o) => Binding(o)'
        BY <1>1, <3>1, <3>2 DEF Binding, Arrives
      <3>4. Misled(o) => Misled(o)'
        BY <1>1, <3>1, <3>2 DEF Misled, Abandoned, Arrives
      <3>. QED
        BY <1>1, <1>4, <3>3, <3>4 DEF Phase
    <2>2. CASE vault[o].barrier_count + 1 = N
      <3>1. /\ vault'[o].barrier_generation = vault[o].barrier_generation + 1
            /\ vault'[o].barrier_count = 0
            /\ (\A s \in Ranks : shm[s] = o /\ pc[s] \in {"sync1", "sync2"} =>
                    generation[s] <= vault[o].barrier_generation)
                 => Counted(o)'
            /\ Counted(o) => Ranks \ {r} \subseteq Waiting(o)
        BY <1>1, <1>2, <2>2, LastArrival
      <3>2. 0 \in Ranks
        BY RanksFinite
      <3>3. ASSUME Binding(o) PROVE Met(o)'
        <4>1. \A s \in Ranks \ {r} : shm[s] = o /\ pc[s] = "sync2" /\ generation[s] = 1
          BY <3>1, <3>3 DEF Binding, Waiting
        <4>2. Counted(o)'
          BY <3>1, <3>3 DEF Binding
        <4>. QED
          BY <1>1, <3>1, <3>3, <4>1, <4>2 DEF Binding, Met, Arrives
      (* Rank 0 is not among those waiting. *)
      <3>4. ~Misled(o)
        BY <1>1, <3>1, <3>2 DEF Misled, Abandoned, Waiting, Arrives
      <3>. QED
        BY <1>1, <1>4, <3>3, <3>4 DEF Phase
    <2>. QED
      BY <2>1, <2>2
  <1>. QED
    BY <1>1, <1>3, <1>5, OnOwnObject DEF Arrives
-------------------------------------------------------------------------------
(* A constructor that returned has an object at which all ranks met. *)
LEMMA ReadyHasMet ==
  ASSUME LifecycleInv, NEW r \in Ranks, pc[r] = "ready"
  PROVE  shm[r] \in Sessions /\ session[r] = shm[r] /\ Met(shm[r])
  <1>1. shm[r] \in Sessions /\ Phase(shm[r]) /\ ~Unborn(shm[r])
    BY HasOpen
  <1>2. Met(shm[r])
    BY <1>1 DEF Phase, Creating, Gathering, Binding, Stale, Misled
  <1>. QED
    BY <1>1, <1>2 DEF Met

LEMMA DestroyInv ==
  ASSUME LifecycleInv, NEW r \in Ranks, Destroy(r)
  PROVE  LifecycleInv'
  <1>1. PICK k \in Sessions : /\ session[r] = k /\ shm[r] = k /\ Met(k) /\ pc[r] = "ready"
                              /\ k < MaxSessions
    BY ReadyHasMet DEF Destroy
  <1>2. k \in Nat /\ \A s \in Ranks : session[s] \in Nat
    BY RankTypes, VaultTypes DEF LifecycleInv
  <1>3. /\ session'[r] = k + 1 /\ pc'[r] = "start" /\ shm'[r] = 0 /\ sock_path'[r] = 0
        /\ vault' = vault /\ generation' = generation
        /\ shm_key' \in {0, shm_key}
        /\ \A s \in Ranks \ {r} : /\ session'[s] = session[s] /\ pc'[s] = pc[s]
                                  /\ shm'[s] = shm[s] /\ sock_path'[s] = sock_path[s]
    BY <1>1 DEF LifecycleInv, TypeOK, Destroy
  <1>4. TypeOK'
    <2>1. session[r] + 1 \in Sessions
      BY <1>1, <1>2, LifecycleAssumption DEF Sessions
    <2>. QED
      BY <2>1 DEF LifecycleInv, TypeOK, Destroy, PCs
  <1>5. ASSUME NEW s \in Ranks PROVE Located(s)'
    BY <1>3 DEF LifecycleInv, Located
  <1>6. ASSUME NEW o \in Sessions PROVE Phase(o)'
    <2>1. o \in Nat /\ o # 0
      BY VaultTypes DEF LifecycleInv
    <2>2. Waiting(o)' = Waiting(o)
      BY <1>1, <1>3, <2>1 DEF Waiting
    <2>3. Counted(o) => Counted(o)'
      BY <1>3, <2>2 DEF Counted
    <2>4. ~Binding(o)
      BY <1>1 DEF Binding
    <2>5. ASSUME Unborn(o) PROVE Unborn(o)'
      <3>1. o # k
        BY <1>1, <2>5 DEF Unborn
      <3>. QED
        BY <1>1, <1>2, <1>3, <2>1, <2>5, <3>1 DEF Unborn
    <2>6. ASSUME Creating(o) PROVE Creating(o)'
      <3>1. o # k
        BY <1>1, <2>1, <2>6 DEF Creating, Met
      <3>. QED
        BY <1>1, <1>2, <1>3, <2>1, <2>6, <3>1, RanksFinite DEF Creating
    <2>7. ASSUME Gathering(o) PROVE Gathering(o)'
      <3>1. o # k
        BY <1>1, <2>7 DEF Gathering
      <3>. QED
        BY <1>1, <1>2, <1>3, <2>1, <2>3, <2>7, <3>1, RanksFinite DEF Gathering
    <2>8. Met(o) => Met(o)'
      BY <1>1, <1>2, <1>3, <2>1, <2>3 DEF Met
    <2>9. Stale(o) => Stale(o)'
      BY <1>1, <1>2, <1>3, <2>1, <2>2 DEF Stale, Abandoned
    <2>10. Misled(o) => Misled(o)'
      BY <1>1, <1>2, <1>3, <2>1, <2>3 DEF Misled, Abandoned
    <2>. QED
      BY <2>4, <2>5, <2>6, <2>7, <2>8, <2>9, <2>10 DEF LifecycleInv, Phase
  <1>. QED
    BY <1>4, <1>5, <1>6 DEF LifecycleInv

(* Whatever the job was doing, what it leaves is stale, or not there yet.  *)
LEMMA CrashInv ==
  ASSUME LifecycleInv, Crash
  PROVE  LifecycleInv'
  <1>1. PICK m \in Sessions : /\ m < MaxSessions /\ session' = [s \in Ranks |-> m + 1]
                              /\ \A s \in Ranks : m >= session[s]
    BY RankTypes DEF LifecycleInv, Crash
  <1>2. PICK held \in SUBSET InUse :
            vault' = [o \in Sessions |-> [vault[o] EXCEPT !.locked = @ \/ o \in held]]
    BY DEF Crash
  <1>3. /\ pc' = [s \in Ranks |-> "start"] /\ shm' = [s \in Ranks |-> 0]
        /\ UNCHANGED <<shm_key, sock_path, generation>>
    BY DEF Crash
  <1>4. m \in Nat /\ m + 1 \in Sessions
    BY <1>1, LifecycleAssumption DEF Sessions
  <1>5. vault' \in [Sessions -> [sized : BOOLEAN, init : BOOLEAN, locked : BOOLEAN,
                                 barrier_count : 0 .. N - 1, barrier_generation : Nat]]
    BY <1>2 DEF LifecycleInv, TypeOK
  <1>6. TypeOK'
    BY <1>1, <1>3, <1>4, <1>5 DEF LifecycleInv, TypeOK, PCs
  <1>7. \A s \in Ranks : Located(s)'
    BY <1>3 DEF Located
  <1>8. ASSUME NEW o \in Sessions PROVE Phase(o)'
    <2>1. /\ vault'[o].init = vault[o].init
          /\ vault'[o].barrier_count = vault[o].barrier_count
          /\ vault'[o].barrier_generation = vault[o].barrier_generation
          /\ vault[o].barrier_count \in Nat /\ o \in Nat /\ o # 0
      BY <1>2, VaultTypes DEF LifecycleInv, TypeOK
    <2>2. CASE m >= o
      <3>1. Abandoned(o)'
        BY <1>1, <1>3, <1>4, <2>1, <2>2 DEF Abandoned
      <3>2. Waiting(o)' = {}
        BY <1>3, <2>1 DEF Waiting
      <3>3. Stale(o)'
        BY <1>3, <2>1, <3>1, <3>2, FS_EmptySet DEF Stale
      <3>. QED
        BY <3>3 DEF Phase
    <2>3. CASE m < o
      <3>1. \A s \in Ranks : session[s] < o /\ session[s] \in Nat
        BY <1>1, <1>4, <2>1, <2>3, RankTypes DEF LifecycleInv
      <3>2. 0 \in Ranks
        BY RanksFinite
      <3>3. ~Creating(o) /\ ~Gathering(o)
        BY <2>1, <3>1, <3>2 DEF Creating, Gathering
      <3>4. ~Binding(o) /\ ~Met(o) /\ ~Stale(o) /\ ~Misled(o)
        BY <2>1, <3>1, <3>2 DEF Binding, Met, Stale, Misled, Abandoned
      <3>5. Unborn(o)
        BY <3>3, <3>4 DEF LifecycleInv, Phase
      <3>6. Unborn(o)'
        BY <1>1, <1>3, <1>4, <2>1, <2>3, <3>5 DEF Unborn
      <3>. QED
        BY <3>6 DEF Phase
    <2>. QED
      BY <1>4, <2>1, <2>2, <2>3
  <1>. QED
    BY <1>6, <1>7, <1>8 DEF LifecycleInv
-------------------------------------------------------------------------------
LEMMA LifecycleInitInv == Init => LifecycleInv
  <1>. SUFFICES ASSUME Init PROVE LifecycleInv
    OBVIOUS
  <1>1. TypeOK
    BY LifecycleAssumption DEF Init, Blank, TypeOK, Sessions, PCs
  <1>2. \A r \in Ranks : Located(r)
    BY DEF Init, Located
  <1>3. \A o \in Sessions : Unborn(o)
    BY DEF Init, Blank, Unborn, Sessions
  <1>. QED
    BY <1>1, <1>2, <1>3 DEF LifecycleInv, Phase

LEMMA LifecycleNextInv ==
  ASSUME LifecycleInv, [Next]_vars
  PROVE  LifecycleInv'
  <1>1. ASSUME NEW r \in Ranks, Construct(r) PROVE LifecycleInv'
    BY <1>1, UnlinkShmInv, CreateShmInv, SizeShmInv, InitVaultInv, OpenShmInv, MapShmInv,
       EnterFirstSyncInv, LeaveSyncInv, CreateSocketInv, EnterSecondSyncInv DEF Construct
  <1>2. CASE UNCHANGED vars
    <2>1. \A o \in Sessions : Phase(o)'
      BY <1>2, Frame DEF vars, LifecycleInv
    <2>. QED
      BY <1>2, <2>1 DEF vars, LifecycleInv, TypeOK, Located
  <1>. QED
    BY <1>1, <1>2, DestroyInv, CrashInv DEF Next

(* The life of every object, the stale ones included. *)
THEOREM LifecycleInvariant == Spec => []LifecycleInv
  <1>. QED
    BY LifecycleInitInv, LifecycleNextInv, PTL DEF Spec

(* No constructor returns without having met all ranks of its session.     *)
THEOREM ConstructorsMeet == Spec => []ReadyMeansMet
  <1>1. LifecycleInv => ReadyMeansMet
    BY ReadyHasMet DEF ReadyMeansMet, Met
  <1>. QED
    BY <1>1, LifecycleInvariant, PTL

(* Nor before the socket of each of them is bound.                         *)
THEOREM ConstructorsFindSockets == Spec => []ReadyMeansBound
  <1>1. ASSUME LifecycleInv, NEW r \in Ranks, NEW s \in Ranks, pc[r] = "ready"
        PROVE  sock_path[s] = session[r] \/ session[s] > session[r]
    <2>1. session[r] = shm[r] /\ Met(shm[r])
      BY <1>1, ReadyHasMet
    <2>2. CASE session[s] = shm[r] /\ pc[s] \in {"ready", "sync2"}
      BY <1>1, <2>1, <2>2 DEF LifecycleInv, Located
    <2>. QED
      BY <2>1, <2>2 DEF Met
  <1>2. LifecycleInv => ReadyMeansBound
    BY <1>1 DEF ReadyMeansBound
  <1>. QED
    BY <1>2, LifecycleInvariant, PTL
===============================================================================
