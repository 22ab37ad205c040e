------------------------------ MODULE FdExchange ------------------------------
(***************************************************************************)
(* Broker::exchange_fds and Broker::broadcast_fd: file descriptors passed  *)
(* between the ranks over Unix datagram sockets, between two syncs.        *)
(*                                                                         *)
(* exchange_fds: every rank sends its descriptor to rank 0 and closes it;  *)
(* rank 0 gathers all of them in arrival order, sends to each destination  *)
(* every descriptor but its own, keeps the gathered ones and closes its    *)
(* own.  broadcast_fd: the source sends to every other rank.               *)
(*                                                                         *)
(* A descriptor is known by the rank and the call it was first passed in,  *)
(* a datagram is the pair of its payload (the source rank) and the         *)
(* descriptor.  A sendmsg blocks while the receiver's queue holds QueueLen *)
(* datagrams.  BrokerCalls composes these steps with those of DataExchange.*)
(***************************************************************************)
EXTENDS VaultBarrier, Sequences

CONSTANTS
    Scripts,     \* the sequences of calls the ranks may make
    QueueLen     \* datagrams an unread socket holds (net.unix.max_dgram_qlen)

(* A call is exchange_fds, to which some ranks pass a negative descriptor, *)
(* or a broadcast_fd from a rank whose descriptor is valid or negative.    *)
Calls == [op : {"exchange"}, bad : SUBSET Ranks]
             \cup [op : {"broadcast"}, src : Ranks, valid : BOOLEAN]

ASSUME ScriptsAssumption ==
    \A s \in Scripts : s \in Seq(Calls) /\ MaxSyncs >= 2 * Len(s)
ASSUME QueueLenAssumption == QueueLen \in Nat \ {0}

VARIABLES
    script,      \* the calls every rank makes, in order
    pc,          \* pc[r]: where r is in its call
    call,        \* call[r]: the number of r's current or last call
    sock,        \* sock[r]: the datagrams queued at r's socket
    dst_fds,     \* dst_fds[r][s]: what r received from s in its call, NoFd for -1
    got,         \* got[r]: how many descriptors r has received in its call
    todo,        \* todo[r]: the sends r still has to make, in loop order
    open         \* open[r]: the descriptors open in process r

fdVars == <<script, pc, call, sock, dst_fds, got, todo, open>>

NoFd == <<-1, 0>>

Cur(r) == script[call[r]]
Exchanging(r) == Cur(r).op = "exchange"
IsSource(r) == Cur(r).op = "broadcast" /\ Cur(r).src = r

Init ==
    /\ BarrierInit
    /\ script \in Scripts
    /\ pc = [r \in Ranks |-> "idle"]
    /\ call = [r \in Ranks |-> 0]
    /\ sock = [r \in Ranks |-> <<>>]
    /\ dst_fds = [r \in Ranks |-> [s \in Ranks |-> NoFd]]
    /\ got = [r \in Ranks |-> 0]
    /\ todo = [r \in Ranks |-> <<>>]
    /\ open = [r \in Ranks |-> {}]

Goto(r, from, to) ==
    /\ pc[r] = from
    /\ pc' = [pc EXCEPT ![r] = to]

(* Faulty variant: the receive loop of an exchange runs once too few. *)
ExpectedShort(r) ==
    IF Exchanging(r) /\ r # 0 THEN N - 2
    ELSE IF Exchanging(r) THEN N - 1 ELSE IF IsSource(r) THEN 0 ELSE 1

(* How many datagrams r waits for in its call. *)
Expected(r) ==
    IF Exchanging(r) THEN N - 1 ELSE IF IsSource(r) THEN 0 ELSE 1

(* The sends of r, each a pair <<destination, source named in the payload>>.*)
(* Rank 0's double loop goes over the destinations, then over the sources.  *)
Relay == [k \in 0 .. (N - 1) * (N - 1) - 1 |->
             LET dst == 1 + k \div (N - 1)
                 i == k % (N - 1)
             IN  <<dst, IF i < dst THEN i ELSE i + 1>>]

(* The sends rank r makes in its current call. *)
Sends(r) ==
    IF Exchanging(r)
      THEN IF r = 0 THEN [k \in 1 .. (N - 1) * (N - 1) |-> Relay[k - 1]]
                    ELSE <<<<0, r>>>>
      ELSE IF IsSource(r)
             THEN [k \in 1 .. N - 1 |-> <<IF k - 1 < r THEN k - 1 ELSE k, r>>]
             ELSE <<>>

(* A rank's next call is an exchange, to which it passes no descriptor. *)
Bad(r) == LET c == script[call[r] + 1] IN c.op = "exchange" /\ r \in c.bad

(* It throws at once: the rank is as it was between the calls, and stays.  *)
Refuse(r) ==
    /\ call[r] < Len(script) /\ Bad(r)
    /\ Goto(r, "idle", "refused")
    /\ UNCHANGED <<barrierVars, script, call, sock, dst_fds, got, todo, open>>

(* A rank calls with a descriptor of its own (every rank in exchange_fds,  *)
(* the source in broadcast_fd) and enters the first sync.                  *)
Begin(r) ==
    /\ call[r] < Len(script) /\ ~Bad(r)
    /\ Goto(r, "idle", "sync1")
    /\ SyncEnter(r)
    /\ call' = [call EXCEPT ![r] = @ + 1]
    /\ LET c == script[call[r] + 1]
           own == c.op = "exchange" \/ (c.src = r /\ c.valid)
       IN  open' = [open EXCEPT ![r] = IF own THEN {<<r, call[r] + 1>>} ELSE {}]
    /\ dst_fds' = [dst_fds EXCEPT ![r] = [s \in Ranks |-> NoFd]]
    /\ UNCHANGED <<script, sock, got, todo>>

(* After the first sync a source whose descriptor is negative throws;      *)
(* rank 0 of an exchange receives first, everybody else sends first.       *)
LeaveFirst(r) ==
    /\ pc[r] = "sync1"
    /\ SyncLeave(r)
    /\ pc' = [pc EXCEPT ![r] =
                  CASE IsSource(r) /\ ~Cur(r).valid -> "threw"
                    [] Exchanging(r) /\ r = 0       -> "recv"
                    [] OTHER                        -> "send"]
    /\ todo' = [todo EXCEPT ![r] = Sends(r)]
    /\ got' = [got EXCEPT ![r] = 0]
    /\ UNCHANGED <<script, call, sock, dst_fds, open>>

(* The descriptor a send passes on: r's own, or the one rank 0 gathered. *)
Passed(r, src) == IF src = r THEN <<r, call[r]>> ELSE dst_fds[r][src]

(* Faulty variant: sendmsg drops the datagram when the queue is full. *)
SendLossy(r) ==
    /\ pc[r] = "send"
    /\ todo[r] # <<>>
    /\ LET dst == Head(todo[r])[1]
           src == Head(todo[r])[2]
       IN  sock' = [sock EXCEPT ![dst] =
                        IF Len(@) < QueueLen THEN Append(@, <<src, Passed(r, src)>>) ELSE @]
    /\ todo' = [todo EXCEPT ![r] = Tail(@)]
    /\ UNCHANGED <<barrierVars, script, pc, call, dst_fds, got, open>>

(* send_fd *)
Send(r) ==
    /\ pc[r] = "send"
    /\ todo[r] # <<>>
    /\ LET dst == Head(todo[r])[1]
           src == Head(todo[r])[2]
       IN  /\ Len(sock[dst]) < QueueLen
           /\ sock' = [sock EXCEPT ![dst] = Append(@, <<src, Passed(r, src)>>)]
    /\ todo' = [todo EXCEPT ![r] = Tail(@)]
    /\ UNCHANGED <<barrierVars, script, pc, call, dst_fds, got, open>>

(* Faulty variant: the rank keeps its own descriptor open. *)
SentNoClose(r) ==
    /\ pc[r] = "send"
    /\ todo[r] = <<>>
    /\ pc' = [pc EXCEPT ![r] = IF Exchanging(r) /\ r = 0 THEN "after" ELSE "recv"]
    /\ UNCHANGED <<barrierVars, script, call, sock, dst_fds, got, todo, open>>

(* The loop of sends is over: r closes its own descriptor. *)
Sent(r) ==
    /\ pc[r] = "send"
    /\ todo[r] = <<>>
    /\ open' = [open EXCEPT ![r] = @ \ {<<r, call[r]>>}]
    /\ pc' = [pc EXCEPT ![r] = IF Exchanging(r) /\ r = 0 THEN "after" ELSE "recv"]
    /\ UNCHANGED <<barrierVars, script, call, sock, dst_fds, got, todo>>

(* The source rank named in a datagram, checked by the receiver. *)
SourceOk(r, src) ==
    IF Exchanging(r) THEN src # r ELSE src = Cur(r).src

(* Faulty variant: descriptors are stored in the order of their arrival. *)
RecvInOrder(r) ==
    /\ pc[r] = "recv"
    /\ got[r] < Expected(r)
    /\ sock[r] # <<>>
    /\ sock' = [sock EXCEPT ![r] = Tail(@)]
    /\ LET src == IF got[r] < r THEN got[r] ELSE got[r] + 1
           fd == Head(sock[r])[2]
       IN  /\ dst_fds' = [dst_fds EXCEPT ![r][src] = fd]
           /\ open' = [open EXCEPT ![r] = @ \cup {fd}]
    /\ got' = [got EXCEPT ![r] = @ + 1]
    /\ UNCHANGED <<barrierVars, script, pc, call, todo>>

(* recv_fd and the check of the payload; a datagram that fails it makes    *)
(* the receiver close the descriptor and throw.                            *)
Recv(r) ==
    /\ pc[r] = "recv"
    /\ got[r] < Expected(r)
    /\ sock[r] # <<>>
    /\ sock' = [sock EXCEPT ![r] = Tail(@)]
    /\ LET src == Head(sock[r])[1]
           fd == Head(sock[r])[2]
       IN  IF SourceOk(r, src)
             THEN /\ dst_fds' = [dst_fds EXCEPT ![r][src] = fd]
                  /\ open' = [open EXCEPT ![r] = @ \cup {fd}]
                  /\ got' = [got EXCEPT ![r] = @ + 1]
                  /\ UNCHANGED pc
             ELSE /\ pc' = [pc EXCEPT ![r] = "threw"]
                  /\ UNCHANGED <<dst_fds, open, got>>
    /\ UNCHANGED <<barrierVars, script, call, todo>>

(* All expected descriptors are in.  Rank 0 of an exchange now relays. *)
Received(r) ==
    /\ Goto(r, "recv", IF Exchanging(r) /\ r = 0 THEN "send" ELSE "after")
    /\ got[r] = Expected(r)
    /\ UNCHANGED <<barrierVars, script, call, sock, dst_fds, got, todo, open>>

EnterSecond(r) ==
    /\ Goto(r, "after", "sync2")
    /\ SyncEnter(r)
    /\ UNCHANGED <<script, call, sock, dst_fds, got, todo, open>>

LeaveSecond(r) ==
    /\ Goto(r, "sync2", "idle")
    /\ SyncLeave(r)
    /\ UNCHANGED <<script, call, sock, dst_fds, got, todo, open>>

Step(r) ==
    \/ Refuse(r) \/ Begin(r) \/ LeaveFirst(r)
    \/ Send(r) \/ Sent(r) \/ Recv(r) \/ Received(r)
    \/ EnterSecond(r) \/ LeaveSecond(r)

-------------------------------------------------------------------------------
Fds == Ranks \X (1 .. Len(script))

TypeOK ==
    /\ BarrierTypeOK
    /\ script \in Scripts
    /\ pc \in [Ranks -> {"idle", "sync1", "send", "recv", "after", "sync2", "threw", "refused"}]
    /\ call \in [Ranks -> 0 .. Len(script)]
    /\ sock \in [Ranks -> Seq(Ranks \X Fds)]
    /\ \A r \in Ranks : Len(sock[r]) <= QueueLen
    /\ dst_fds \in [Ranks -> [Ranks -> Fds \cup {NoFd}]]
    /\ got \in [Ranks -> 0 .. N]
    /\ todo \in [Ranks -> Seq(Ranks \X Ranks)]
    /\ open \in [Ranks -> SUBSET Fds]

Done(r, k) == call[r] = k /\ pc[r] \in {"after", "sync2", "idle"}

(* Every rank that gets through a call holds, under each source rank, the  *)
(* descriptor that this rank passed to the same call, whatever order the   *)
(* datagrams arrived in, and none under its own rank; a broadcast delivers *)
(* the source's descriptor and nothing else, so no rank can get through a  *)
(* broadcast whose source threw, or an exchange that a rank has refused.   *)
FdsRouted ==
    \A r \in Ranks : \A k \in 1 .. Len(script) :
        Done(r, k) =>
            \A s \in Ranks :
                dst_fds[r][s] =
                    IF s # r /\ (script[k].op = "exchange" \/ s = script[k].src)
                      THEN <<s, k>> ELSE NoFd

(* No descriptor leaks: a rank that got through a call has open exactly    *)
(* the descriptors it was handed, its own being closed.                    *)
NoFdLeak ==
    \A r \in Ranks : \A k \in 1 .. Len(script) :
        Done(r, k) => open[r] = {dst_fds[r][s] : s \in Ranks} \ {NoFd}

(* The second sync fences the sockets: when a rank is between two calls    *)
(* there is no datagram of that call left anywhere, so a later receive can *)
(* never take one for an answer of its own call.                           *)
SocketsDrained ==
    \A r, s \in Ranks :
        pc[r] = "idle" => \A i \in 1 .. Len(sock[s]) : sock[s][i][2][2] > call[r]

(* With valid descriptors every rank gets through all its calls, also when *)
(* the sockets hold a single datagram: blocking senders and receivers      *)
(* never wait for each other in a circle.                                  *)
AllCallsReturn ==
    (\A k \in 1 .. Len(script) :
        IF script[k].op = "exchange" THEN script[k].bad = {} ELSE script[k].valid)
        => <>(\A r \in Ranks : pc[r] = "idle" /\ call[r] = Len(script))
===============================================================================
