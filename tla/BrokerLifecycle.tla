--------------------------- MODULE BrokerLifecycle ----------------------------
(***************************************************************************)
(* Construction and destruction of Broker over one key, in successive      *)
(* sessions.  The key names a POSIX shared memory object and, per rank, a  *)
(* Unix socket path.  Rank 0 unlinks whatever the name refers to, creates  *)
(* and initializes a Vault; the other ranks open the name whenever it      *)
(* exists.  Two syncs on the mapped Vault bracket the bind of the sockets. *)
(*                                                                         *)
(* A session ends by Broker::destroy on each rank in its own time, or by a *)
(* crash of the job, which leaves the name, the object and the socket      *)
(* paths behind: the next session then starts beside a stale object whose  *)
(* counters, and whose mutex, are as the crash left them.                  *)
(*                                                                         *)
(* An object is identified by the session whose rank 0 created it.         *)
(***************************************************************************)
EXTENDS Naturals, FiniteSets

CONSTANTS
    N,             \* local_world_size
    MaxSessions,   \* bound on the sessions of a rank
    MayCrash       \* whether the job may crash between sessions

ASSUME LifecycleAssumption ==
    N \in Nat \ {0} /\ MaxSessions \in Nat \ {0} /\ MayCrash \in BOOLEAN

Ranks == 0 .. N - 1
Sessions == 1 .. MaxSessions

VARIABLES
    shm_key,    \* the object the shm name refers to, 0 when it does not exist
    vault,      \* vault[o]: the shared memory objects
    sock_path,  \* sock_path[r]: the session whose socket is bound at r's path, or 0
    pc,         \* pc[r]: where r is in the constructor, or "ready"
    session,    \* session[r]: the session r is in
    shm,        \* shm[r]: the object r has open or mapped, or 0
    generation  \* generation[r]: the local variable of r's last sync

vars == <<shm_key, vault, sock_path, pc, session, shm, generation>>

(* ftruncate and mmap give zeroed memory: no INIT_CODE, count and generation 0. *)
Blank == [sized |-> FALSE, init |-> FALSE, locked |-> FALSE,
          barrier_count |-> 0, barrier_generation |-> 0]

Init ==
    /\ shm_key = 0
    /\ vault = [o \in Sessions |-> Blank]
    /\ sock_path = [r \in Ranks |-> 0]
    /\ pc = [r \in Ranks |-> "start"]
    /\ session = [r \in Ranks |-> 1]
    /\ shm = [r \in Ranks |-> 0]
    /\ generation = [r \in Ranks |-> 0]

Goto(r, from, to) ==
    /\ pc[r] = from
    /\ pc' = [pc EXCEPT ![r] = to]

-------------------------------------------------------------------------------
(* create_shm, first line: shm_unlink(key). *)
UnlinkShm(r) ==
    /\ r = 0
    /\ Goto(r, "start", "unlinked")
    /\ shm_key' = 0
    /\ UNCHANGED <<vault, sock_path, session, shm, generation>>

(* shm_open(O_CREAT | O_EXCL): a new object of size 0. *)
CreateShm(r) ==
    /\ Goto(r, "unlinked", "created")
    /\ shm_key' = session[r]
    /\ shm' = [shm EXCEPT ![r] = session[r]]
    /\ UNCHANGED <<vault, sock_path, session, generation>>

(* ftruncate and mmap. *)
SizeShm(r) ==
    /\ Goto(r, "created", "sized")
    /\ vault' = [vault EXCEPT ![shm[r]].sized = TRUE]
    /\ UNCHANGED <<shm_key, sock_path, session, shm, generation>>

(* Faulty variant: the counters are cleared but INIT_CODE is not stored. *)
InitVaultNoCode(r) ==
    /\ Goto(r, "sized", "mapped")
    /\ vault' = [vault EXCEPT ![shm[r]] = [Blank EXCEPT !.sized = TRUE]]
    /\ UNCHANGED <<shm_key, sock_path, session, shm, generation>>

(* init_vault_rank0: INIT_CODE is stored last, behind a full barrier. *)
InitVault(r) ==
    /\ Goto(r, "sized", "mapped")
    /\ vault' = [vault EXCEPT ![shm[r]] = [Blank EXCEPT !.sized = TRUE, !.init = TRUE]]
    /\ UNCHANGED <<shm_key, sock_path, session, shm, generation>>

(* open_shm: shm_open without O_CREAT is retried while the name is absent. *)
OpenShm(r) ==
    /\ r # 0
    /\ shm_key # 0
    /\ Goto(r, "start", "opened")
    /\ shm' = [shm EXCEPT ![r] = shm_key]
    /\ UNCHANGED <<shm_key, vault, sock_path, session, generation>>

(* The fstat loop of open_shm and wait_until_initialized. *)
MapShm(r) ==
    /\ Goto(r, "opened", "mapped")
    /\ vault[shm[r]].sized /\ vault[shm[r]].init
    /\ UNCHANGED <<shm_key, vault, sock_path, session, shm, generation>>

-------------------------------------------------------------------------------
(* Faulty variant: the barrier lets everybody through. *)
LeaveSyncEarly(r, from, to) ==
    /\ Goto(r, from, to)
    /\ UNCHANGED <<shm_key, vault, sock_path, session, shm, generation>>

(* sync on the mapped object; see VaultBarrier. *)
EnterSync(r, from, to) ==
    LET v == vault[shm[r]]
        last == v.barrier_count + 1 = N
    IN  /\ Goto(r, from, to)
        /\ ~v.locked
        /\ generation' = [generation EXCEPT ![r] = v.barrier_generation]
        /\ vault' = [vault EXCEPT
               ![shm[r]].barrier_count = IF last THEN 0 ELSE @ + 1,
               ![shm[r]].barrier_generation = IF last THEN @ + 1 ELSE @]
        /\ UNCHANGED <<shm_key, sock_path, session, shm>>

LeaveSync(r, from, to) ==
    /\ Goto(r, from, to)
    /\ ~vault[shm[r]].locked
    /\ generation[r] # vault[shm[r]].barrier_generation
    /\ UNCHANGED <<shm_key, vault, sock_path, session, shm, generation>>

(* Faulty variant: a path that exists is not unlinked first. *)
CreateSocketKeepsPath(r) ==
    /\ Goto(r, "bind", "bound")
    /\ sock_path' = [sock_path EXCEPT ![r] = IF @ = 0 THEN session[r] ELSE @]
    /\ UNCHANGED <<shm_key, vault, session, shm, generation>>

(* create_socket: unlink the path, bind a new socket there. *)
CreateSocket(r) ==
    /\ Goto(r, "bind", "bound")
    /\ sock_path' = [sock_path EXCEPT ![r] = session[r]]
    /\ UNCHANGED <<shm_key, vault, session, shm, generation>>

(* The constructor, in program order. *)
Construct(r) ==
    \/ UnlinkShm(r) \/ CreateShm(r) \/ SizeShm(r) \/ InitVault(r)
    \/ OpenShm(r) \/ MapShm(r)
    \/ EnterSync(r, "mapped", "sync1") \/ LeaveSync(r, "sync1", "bind")
    \/ CreateSocket(r)
    \/ EnterSync(r, "bound", "sync2") \/ LeaveSync(r, "sync2", "ready")

(* destroy: rank 0 unlinks the name, whatever it refers to; the rank's     *)
(* socket path is unlinked and the object unmapped.  The caller may then   *)
(* construct a Broker with the same key again.                             *)
Destroy(r) ==
    /\ pc[r] = "ready"
    /\ session[r] < MaxSessions
    /\ pc' = [pc EXCEPT ![r] = "start"]
    /\ session' = [session EXCEPT ![r] = @ + 1]
    /\ shm' = [shm EXCEPT ![r] = 0]
    /\ shm_key' = IF r = 0 THEN 0 ELSE shm_key
    /\ sock_path' = [sock_path EXCEPT ![r] = 0]
    /\ UNCHANGED <<vault, generation>>

(* The job dies and all its ranks are started again.  A process killed     *)
(* inside sync may take the (not robust) mutex of its Vault with it.       *)
InUse == {shm[r] : r \in {q \in Ranks : pc[q] \in {"sync1", "sync2", "ready"}}}

Crash ==
    /\ MayCrash
    /\ \E r \in Ranks :
         /\ \A s \in Ranks : session[r] >= session[s]
         /\ session[r] < MaxSessions
         /\ session' = [s \in Ranks |-> session[r] + 1]
    /\ \E held \in SUBSET InUse :
         vault' = [o \in Sessions |-> [vault[o] EXCEPT !.locked = @ \/ o \in held]]
    /\ pc' = [r \in Ranks |-> "start"]
    /\ shm' = [r \in Ranks |-> 0]
    /\ UNCHANGED <<shm_key, sock_path, generation>>

Next == Crash \/ \E r \in Ranks : Construct(r) \/ Destroy(r)

Spec == Init /\ [][Next]_vars
FairSpec == Spec /\ \A r \in Ranks : WF_vars(Construct(r)) /\ WF_vars(Destroy(r))

-------------------------------------------------------------------------------
PCs == {"start", "unlinked", "created", "sized", "opened", "mapped",
        "sync1", "bind", "bound", "sync2", "ready"}

TypeOK ==
    /\ shm_key \in {0} \cup Sessions
    /\ vault \in [Sessions -> [sized : BOOLEAN, init : BOOLEAN, locked : BOOLEAN,
                               barrier_count : 0 .. N - 1, barrier_generation : Nat]]
    /\ sock_path \in [Ranks -> {0} \cup Sessions]
    /\ pc \in [Ranks -> PCs]
    /\ session \in [Ranks -> Sessions]
    /\ shm \in [Ranks -> {0} \cup Sessions]
    /\ generation \in [Ranks -> Nat]

(* A constructor that returns has met every other rank of its own session: *)
(* each of them is mapped to the same Vault or has finished the session.   *)
(* A stale Vault can block a constructor, but never let one return, with   *)
(* whatever counter the crash or a slower rank 0 left in it.               *)
ReadyMeansMet ==
    \A r, s \in Ranks :
        pc[r] = "ready" =>
            \/ session[s] > session[r]
            \/ session[s] = session[r] /\ shm[s] = shm[r] /\ shm[r] = session[r]

(* A constructor that returns finds every socket path bound by its own     *)
(* session (unless that rank is already destroying): no descriptor is sent *)
(* to a socket file that an earlier session left behind.                   *)
ReadyMeansBound ==
    \A r, s \in Ranks :
        pc[r] = "ready" => sock_path[s] = session[r] \/ session[s] > session[r]

(* With a key that no earlier session used, every constructor returns in   *)
(* every interleaving of rank 0's creation with the others' polling: each  *)
(* rank gets through the first session unless the job crashes in it.       *)
ConstructorsReturn ==
    <>(\A r \in Ranks : session[r] > 1 \/ pc[r] = "ready")
===============================================================================
