---------------------------- MODULE MCBrokerCalls ----------------------------
(* Data alone; descriptors alone, also with a broadcast's source, or one of *)
(* the ranks of an exchange, that has an invalid descriptor; and programs   *)
(* in which calls of either kind follow one of the other.                   *)
EXTENDS BrokerCalls

Data == [op |-> "data"]
Exchange == [op |-> "exchange", bad |-> {}]
BadExchange(r) == [op |-> "exchange", bad |-> {r}]
Broadcast(src) == [op |-> "broadcast", src |-> src, valid |-> TRUE]
BadBroadcast(src) == [op |-> "broadcast", src |-> src, valid |-> FALSE]

MCPrograms == {<<Data, Data, Data>>,
               <<Exchange, Broadcast(1), Exchange>>,
               <<Broadcast(0), Broadcast(2), Exchange>>,
               <<Exchange, BadBroadcast(1), Exchange>>,
               <<Broadcast(2), BadExchange(2), Exchange>>,
               <<BadExchange(0)>>,
               <<Data, Data, Exchange, Data, Broadcast(1)>>,
               <<Broadcast(3), Data, Exchange, Data>>,
               <<Data, BadExchange(1), Data>>,
               <<Data, BadBroadcast(2), Data>>}

MCScripts == {FdCalls(p) : p \in MCPrograms}
===============================================================================
