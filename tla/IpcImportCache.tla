---------------------------- MODULE IpcImportCache ----------------------------
(***************************************************************************)
(* How the processes of a multiprocess group find each other's buffers.    *)
(* Before a collective every rank needs, per peer, a mapping of the buffer *)
(* the peer uses in that collective.  The ranks exchange keys of their     *)
(* buffers through the broker, look them up in a cache of imported         *)
(* mappings, tell each other whether anybody missed, exchange descriptors  *)
(* if so, and import what they miss.  All that is skipped when the rank's  *)
(* own buffer is the one of its previous collective: the weak symmetric    *)
(* fast path, a decision each rank takes alone.                            *)
(*                                                                         *)
(* The ranks run the same program of calls.  A buffer's identity is its    *)
(* key: the allocation and the token of the wrapper, renewed whenever the  *)
(* buffer is destroyed and wrapped again.  An exchange is the k-th one of  *)
(* a rank together with the k-th one of every other rank (module           *)
(* DataExchange shows that Broker::exchange_data implements that).         *)
(***************************************************************************)
EXTENDS Integers, Sequences, FiniteSets

CONSTANTS
    N,             \* number of processes
    Buffers,       \* allocations, the same names on all ranks
    Slots,         \* kOoIpcImportCacheEntriesPerRank
    Programs,      \* sequences of [op, buf] that all ranks may run
    MaxFailures,   \* per program: bound on imports that fail (cudaIpcOpenMemHandle)
    Retry          \* whether the caller repeats a call that returned an error

ASSUME SizeAssumption == N \in Nat /\ N >= 2 /\ Slots \in Nat \ {0}
ASSUME FailuresAssumption == MaxFailures \in [Programs -> Nat] /\ Retry \in BOOLEAN

Ranks == 0 .. N - 1
Peers(r) == Ranks \ {r}
Ops == {"call", "register", "rewrap"}

ASSUME ProgramsAssumption == Programs \subseteq Seq([op : Ops, buf : Buffers])

VARIABLES
    program,     \* what the ranks run
    at,          \* at[r]: the operation rank r is in
    pc,          \* pc[r]: where in it
    version,     \* version[r][b]: the token of r's current wrapper of b
    bound,       \* bound[r][s]: the key behind r's collective_buffers[s]
    cache,       \* cache[r][s]: keys imported from s, most recently used first
    posts,       \* posts[r]: what r contributed to its exchanges, in order
    keys,        \* keys[r]: the keys of the last key exchange
    missing,     \* missing[r]: the peers whose key r did not find
    failures     \* imports that have failed so far

vars == <<program, at, pc, version, bound, cache, posts, keys, missing, failures>>

NoKey == [buf |-> "none", token |-> 0]

(* Faulty variant: the token is left out of the key.                       *)
KeyNoToken(r, b) == [buf |-> b, token |-> 1]

(* make_ipc_import_key.                                                    *)
Key(r, b) == [buf |-> b, token |-> version[r][b]]

Running(r) == at[r] <= Len(program)
Op(r) == program[at[r]].op
LocalKey(r) == Key(r, program[at[r]].buf)

Init ==
    /\ program \in Programs
    /\ at = [r \in Ranks |-> 1]
    /\ pc = [r \in Ranks |-> "idle"]
    /\ version = [r \in Ranks |-> [b \in Buffers |-> 1]]
    /\ bound = [r \in Ranks |-> [s \in Ranks |-> NoKey]]
    /\ cache = [r \in Ranks |-> [s \in Ranks |-> <<>>]]
    /\ posts = [r \in Ranks |-> <<>>]
    /\ keys = [r \in Ranks |-> [s \in Ranks |-> NoKey]]
    /\ missing = [r \in Ranks |-> {}]
    /\ failures = 0

-------------------------------------------------------------------------------
(* The cache of one peer's imports. *)

SeqRange(q) == {q[i] : i \in 1 .. Len(q)}

(* A hit renews last_used: the import becomes the first of its row.        *)
Touch(q, k) ==
    LET hit == CHOOSE i \in 1 .. Len(q) : q[i] = k
    IN  [i \in 1 .. Len(q) |-> IF i = 1 THEN k ELSE IF i <= hit THEN q[i - 1] ELSE q[i]]

(* select_ipc_import_cache_slot: a free slot, or the least recently used. *)
Evict(q) == IF Len(q) = Slots THEN SubSeq(q, 1, Slots - 1) ELSE q

(* Faulty variant: the binding to an evicted import is kept. *)
UnbindKeep(q, k) == k

(* clear_ipc_import_cache_entry also clears a binding to the entry. *)
Unbind(q, k) == IF k \in SeqRange(Evict(q)) THEN k ELSE NoKey

-------------------------------------------------------------------------------
(* The exchanges. *)

Post(r, kind, key, miss) ==
    posts' = [posts EXCEPT ![r] = Append(@, [kind |-> kind, key |-> key, miss |-> miss])]

(* Faulty variant: an exchange waits for one contribution too many.        *)
CompleteAhead(r) == \A s \in Peers(r) : Len(posts[s]) > Len(posts[r])

(* The exchange r is in is complete when every rank has contributed. *)
Complete(r) == \A s \in Ranks : Len(posts[s]) >= Len(posts[r])
Received(r, s) == posts[s][Len(posts[r])]

-------------------------------------------------------------------------------
(* Faulty variant: wrapping a buffer publishes it as the current one. *)
RewrapPublishes(r) ==
    /\ Running(r) /\ pc[r] = "idle" /\ Op(r) = "rewrap"
    /\ LET b == program[at[r]].buf IN
         /\ version' = [version EXCEPT ![r][b] = @ + 1]
         /\ bound' = [bound EXCEPT ![r][r] = [buf |-> b, token |-> version[r][b] + 1]]
    /\ at' = [at EXCEPT ![r] = @ + 1]
    /\ UNCHANGED <<program, pc, cache, posts, keys, missing, failures>>

(* oo_buffer_destroy, then oo_buffer_wrap of the same allocation. *)
Rewrap(r) ==
    /\ Running(r) /\ pc[r] = "idle" /\ Op(r) = "rewrap"
    /\ version' = [version EXCEPT ![r][program[at[r]].buf] = @ + 1]
    /\ bound' = [bound EXCEPT ![r][r] = IF @ = LocalKey(r) THEN NoKey ELSE @]
    /\ at' = [at EXCEPT ![r] = @ + 1]
    /\ UNCHANGED <<program, pc, cache, posts, keys, missing, failures>>

InEnsure(r) == Running(r) /\ pc[r] = "idle" /\ Op(r) # "rewrap"

(* ipc_symmetric_local_key_fast_path_ready. *)
SameAsBefore(r) ==
    /\ bound[r][r] = LocalKey(r)
    /\ \A s \in Peers(r) : bound[r][s] # NoKey

FastPath(r) ==
    /\ InEnsure(r)
    /\ SameAsBefore(r)
    /\ pc' = [pc EXCEPT ![r] = "ready"]
    /\ UNCHANGED <<program, at, version, bound, cache, posts, keys, missing, failures>>

ExchangeKeys(r) ==
    /\ InEnsure(r)
    /\ ~SameAsBefore(r)
    /\ Post(r, "key", LocalKey(r), {})
    /\ pc' = [pc EXCEPT ![r] = "keys"]
    /\ UNCHANGED <<program, at, version, bound, cache, keys, missing, failures>>

(* The keys arrive: look them up, and tell the others who is missing. *)
LookUp(r) ==
    /\ pc[r] = "keys" /\ Complete(r)
    /\ LET got == [s \in Ranks |-> Received(r, s).key]
           miss == {s \in Peers(r) : got[s] \notin SeqRange(cache[r][s])}
       IN  /\ keys' = [keys EXCEPT ![r] = got]
           /\ missing' = [missing EXCEPT ![r] = miss]
           /\ cache' = [cache EXCEPT ![r] = [s \in Ranks |->
                          IF s \in Peers(r) \ miss THEN Touch(@[s], got[s]) ELSE @[s]]]
           /\ Post(r, "miss", NoKey, miss)
    /\ bound' = [bound EXCEPT ![r][r] = LocalKey(r)]
    /\ pc' = [pc EXCEPT ![r] = "misses"]
    /\ UNCHANGED <<program, at, version, failures>>

(* Faulty variant: a rank that misses nothing skips the descriptors. *)
AnyoneMissesLocal(r) == missing[r] # {}

(* global_miss_mask. *)
AnyoneMisses(r) == \E s \in Ranks : Received(r, s).miss # {}

AllHit(r) ==
    /\ pc[r] = "misses" /\ Complete(r)
    /\ ~AnyoneMisses(r)
    /\ bound' = [bound EXCEPT ![r] = [s \in Ranks |-> IF s = r THEN @[s] ELSE keys[r][s]]]
    /\ pc' = [pc EXCEPT ![r] = "ready"]
    /\ UNCHANGED <<program, at, version, cache, posts, keys, missing, failures>>

ExchangeDescriptors(r) ==
    /\ pc[r] = "misses" /\ Complete(r)
    /\ AnyoneMisses(r)
    /\ Post(r, "descriptor", LocalKey(r), {})
    /\ pc' = [pc EXCEPT ![r] = "descriptors"]
    /\ UNCHANGED <<program, at, version, bound, cache, keys, missing, failures>>

(* Imports peer after peer.  All ranks below stop have been imported or    *)
(* found; the import of stop, if it is a rank, has failed after a slot was *)
(* made free for it.                                                       *)
ImportUpTo(r, stop) ==
    /\ cache' = [cache EXCEPT ![r] = [s \in Ranks |->
          IF s \notin missing[r] \/ s > stop THEN @[s]
          ELSE IF s = stop THEN Evict(@[s]) ELSE <<keys[r][s]>> \o Evict(@[s])]]
    /\ bound' = [bound EXCEPT ![r] = [s \in Ranks |->
          IF s = r \/ s > stop THEN @[s]
          ELSE IF s = stop THEN Unbind(cache[r][s], @[s]) ELSE keys[r][s]]]

ImportAll(r) ==
    /\ pc[r] = "descriptors" /\ Complete(r)
    /\ ImportUpTo(r, N)
    /\ pc' = [pc EXCEPT ![r] = "ready"]
    /\ UNCHANGED <<program, at, version, posts, keys, missing, failures>>

(* An import throws: the call returns an error, and the caller repeats it  *)
(* or goes on without that collective.                                     *)
ImportFails(r) ==
    /\ pc[r] = "descriptors" /\ Complete(r)
    /\ failures < MaxFailures[program]
    /\ \E s \in missing[r] : ImportUpTo(r, s)
    /\ failures' = failures + 1
    /\ pc' = [pc EXCEPT ![r] = "idle"]
    /\ at' = [at EXCEPT ![r] = IF Retry THEN @ ELSE @ + 1]
    /\ UNCHANGED <<program, version, posts, keys, missing>>

(* The collective is enqueued with the bound buffers; a registration has   *)
(* nothing left to do.                                                     *)
Return(r) ==
    /\ pc[r] = "ready"
    /\ pc' = [pc EXCEPT ![r] = "idle"]
    /\ at' = [at EXCEPT ![r] = @ + 1]
    /\ UNCHANGED <<program, version, bound, cache, posts, keys, missing, failures>>

Step(r) ==
    \/ Rewrap(r) \/ FastPath(r) \/ ExchangeKeys(r) \/ LookUp(r) \/ AllHit(r)
    \/ ExchangeDescriptors(r) \/ ImportAll(r) \/ Return(r)

Next == \E r \in Ranks : Step(r) \/ ImportFails(r)

Spec == Init /\ [][Next]_vars

(* Every process keeps running; an import never has to fail. *)
FairSpec == Spec /\ \A r \in Ranks : WF_vars(Step(r))

-------------------------------------------------------------------------------
AllKeys == [buf : Buffers, token : 1 .. 3]
PCs == {"idle", "keys", "misses", "descriptors", "ready"}

TypeOK ==
    /\ at \in [Ranks -> 1 .. Len(program) + 1]
    /\ pc \in [Ranks -> PCs]
    /\ version \in [Ranks -> [Buffers -> 1 .. 3]]
    /\ bound \in [Ranks -> [Ranks -> AllKeys \cup {NoKey}]]
    /\ keys \in [Ranks -> [Ranks -> AllKeys \cup {NoKey}]]
    /\ missing \in [Ranks -> SUBSET Ranks]
    /\ \A r, s \in Ranks :
         /\ SeqRange(cache[r][s]) \subseteq AllKeys
         /\ Len(cache[r][s]) <= Slots
         /\ Cardinality(SeqRange(cache[r][s])) = Len(cache[r][s])

(* The key every rank's buffer has in the i-th operation of the program. *)
KeyAt(i) ==
    LET b == program[i].buf
    IN  [buf |-> b, token |-> 1 + Cardinality({j \in 1 .. i - 1 :
                                    program[j] = [op |-> "rewrap", buf |-> b]})]

(* A collective is enqueued with mappings of exactly the buffers the peers *)
(* use in that same collective: not of an earlier one, not of a wrapper    *)
(* that is gone.  Only ensure_ipc_... stands between the two.              *)
BoundToPeersBuffers ==
    \A r \in Ranks : pc[r] = "ready" =>
        \A s \in Ranks : bound[r][s] = KeyAt(at[r])

(* Whenever a rank is about to trust its own unchanged buffer, the peers'  *)
(* buffers it has mapped are those of this call: the assumption behind the *)
(* weak symmetric fast path.                                               *)
FastPathIsFresh ==
    \A r \in Ranks : InEnsure(r) /\ SameAsBefore(r) =>
        \A s \in Peers(r) : bound[r][s] = KeyAt(at[r])

(* Ranks never meet in an exchange with different contents: what one takes *)
(* for keys would be another's descriptors.                                *)
ExchangesAligned ==
    \A r, s \in Ranks : \A i \in 1 .. Len(posts[r]) :
        i <= Len(posts[s]) => posts[r][i].kind = posts[s][i].kind

(* A peer buffer the group points to is owned by a live cache entry: an    *)
(* import that was evicted is never used again, whatever failed after it.  *)
NoDanglingBinding ==
    \A r \in Ranks : \A s \in Peers(r) :
        bound[r][s] # NoKey => bound[r][s] \in SeqRange(cache[r][s])

(* Every rank gets through its program: nobody waits in an exchange that   *)
(* another rank decided to skip.                                           *)
AllComplete == <>(\A r \in Ranks : ~Running(r))
===============================================================================
