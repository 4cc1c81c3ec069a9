---------------------------- MODULE InventorySim ----------------------------
(***************************************************************************)
(* demos/inventory_sim/inventory_sim.c: a network of stores.  Every store  *)
(* is a TIPC node with one logging task, item tasks that publish a port    *)
(* name and sell themselves to the first customer that connects, customer  *)
(* tasks that subscribe to an item name and chase the ports it reports, a  *)
(* janitor that clears a closed store, and the commands newSim, killSim,   *)
(* newItem, newCust, stopSim and startSim.                                 *)
(*                                                                         *)
(* Every task talks to its logging task through simLog: it connects to the *)
(* task's name, sends one transaction and blocks for the answer.  pc       *)
(* "call" is a task about to send, "wait" one that blocks in recv, "ret"   *)
(* one whose recv has returned ack; req is the transaction.                *)
(*                                                                         *)
(* TIPC itself is external.  A listening socket is a queue of connection   *)
(* requests; closing it rejects the queued ones.  A subscription delivers  *)
(* the ports published when it is made, the ones published while it lives, *)
(* and a timeout last.  WITHDRAWN events, which customers and the janitor  *)
(* drop on receipt, are not queued.  Delays are steps of arbitrary length. *)
(***************************************************************************)
EXTENDS SimLog, Sequences, FiniteSets

CONSTANTS
  Node,        \* the CPUs, each with at most one store
  ItemTask,    \* processes running simItemTask
  CustTask,    \* processes running simCustTask
  Janitor,     \* processes running simJanitorTask, a pool to fork from
  Killer,      \* invocations of the killSim command
  ZeroTask,    \* processes running itemZeroTask, one per stopSim
  AutoTask,    \* the item and customer tasks newSim forks
  home,        \* the node each process runs on
  Gone,        \* a connection request whose sender has closed its socket
  Repeats,     \* bound: lives of an item or customer task ("repeats")
  MaxSessions, \* bound: times newSim opens a store on one node
  Faults       \* which calls may fail: "customer", "item", "janitor", "reply"

Task == ItemTask \cup CustTask
Subscriber == CustTask \cup Janitor
Proc == Task \cup Janitor \cup Killer

ASSUME HomeAssumption == home \in [Proc -> Node]
ASSUME TaskAssumption ==
  /\ ItemTask \cap CustTask = {}
  /\ Task \cap (Janitor \cup Killer) = {}
  /\ Janitor \cap Killer = {}
  /\ Gone \notin Proc
  /\ AutoTask \subseteq Task
ASSUME BoundAssumption ==
  /\ ItemID # {} /\ ItemID \subseteq Nat
  /\ Repeats \in Nat \ {0}
  /\ MaxSessions \in Nat
  /\ Faults \subseteq {"customer", "item", "janitor", "reply"}
\* A node forks finitely many processes.
ASSUME FiniteAssumption == IsFiniteSet(ItemTask) /\ IsFiniteSet(CustTask)
\* Every killSim command can make its store fork one janitor.
ASSUME PoolAssumption ==
  \A n \in Node : Cardinality({j \in Janitor : home[j] = n})
                    >= Cardinality({k \in Killer : home[k] = n})

VARIABLES
  log,       \* logging task: "none", "init" (not bound yet), "run", "halt"
  store,     \* its counters
  logq,      \* requests queued on its listening socket
  watch,     \* item 0 events queued on its subscription
  sessions,  \* how often newSim has opened this node's store
  pc, req, ack,
  item,      \* itemID of an item, or wanted by a customer
  life,      \* simItem / simCust calls a task has begun
  sock,      \* an item's listening socket
  backlog,   \* connection requests queued on it
  subscr,    \* a subscription: "none", "live" or "expired"
  pend,      \* ports in PUBLISHED events not yet received
  conn,      \* a customer's connection to an item
  tid,       \* a customer's transactionID
  took,      \* history: <<port, visit>> for each reply a customer received
  zero       \* item 0 tasks: "off", "up", "told", "end"

logVars == <<log, store, logq, watch, sessions>>
sockVars == <<sock, backlog>>
subVars == <<subscr, pend>>
custVars == <<conn, tid, took>>
vars == <<logVars, pc, req, ack, item, life, sockVars, subVars, custVars, zero>>

\* bind gives every life of an item task a port of its own.
Port == ItemTask \X (1 .. Repeats)
port(i) == <<i, life[i]>>
visit(c) == <<c, life[c]>>
NoConn == [to |-> Gone, st |-> "none"]

\* The ports the topology server knows for a set of item numbers.
published(ids) == {port(i) : i \in {x \in ItemTask : sock[x] # "closed" /\ item[x] \in ids}}

inBacklog(i) == {backlog[i][k] : k \in DOMAIN backlog[i]}

\* Whether a connection request to port p is queued or rejected.  The port may
\* be closed by now; if it is bound and does not listen yet, TIPC versions
\* differ and both may happen.
queues(p) ==
  IF sock[p[1]] = "closed" \/ port(p[1]) # p THEN {FALSE}
  ELSE IF sock[p[1]] = "listen" THEN {TRUE} ELSE BOOLEAN

\* The janitor is forked from the logging task and so holds a copy of its
\* listening socket until it exits: the name stays published meanwhile.
holders(n) == {j \in Janitor : home[j] = n /\ pc[j] \notin {"off", "end"}}
simFind(n) == log[n] \in {"run", "halt"} \/ holders(n) # {}

ZeroUp == \E z \in ZeroTask : zero[z] \in {"up", "told"}

Init ==
  /\ log = [n \in Node |-> "none"]
  /\ store = [n \in Node |-> NewStore]
  /\ logq = [n \in Node |-> <<>>]
  /\ watch = [n \in Node |-> <<>>]
  /\ sessions = [n \in Node |-> 0]
  /\ pc = [p \in Proc |-> "off"]
  /\ req = [p \in Proc |-> "SIM_INFO"]
  /\ ack = [p \in Proc |-> SIM_OK]
  /\ item = [p \in Proc |-> CHOOSE k \in ItemID : TRUE]
  /\ life = [t \in Task |-> 0]
  /\ sock = [i \in ItemTask |-> "closed"]
  /\ backlog = [i \in ItemTask |-> <<>>]
  /\ subscr = [s \in Subscriber |-> "none"]
  /\ pend = [s \in Subscriber |-> {}]
  /\ conn = [c \in CustTask |-> NoConn]
  /\ tid = [c \in CustTask |-> 0]
  /\ took = {}
  /\ zero = [z \in ZeroTask |-> "off"]

-----------------------------------------------------------------------------
(***************************************************************************)
(* simLog.                                                                 *)
(***************************************************************************)

\* Start a transaction: the caller's next step is SimLogSend.
calls(p, code) ==
  /\ pc' = [pc EXCEPT ![p] = "call"]
  /\ req' = [req EXCEPT ![p] = code]
  /\ UNCHANGED ack

\* What the caller formats into the transaction message.
message(p) ==
  LET sale == p \in CustTask /\ conn[p].st = "reply" IN
  [code    |-> req[p],
   item    |-> item[p],
   retries |-> IF p \notin CustTask THEN 0 ELSE IF sale THEN tid[p] - 1 ELSE tid[p],
   sale    |-> sale]

\* socket + sendto: queued on the logging task's socket, or SIM_ERROR when
\* its name is not published.
SimLogSend(p) ==
  /\ pc[p] = "call"
  /\ IF simFind(home[p])
     THEN /\ logq' = [logq EXCEPT ![home[p]] = Append(@, p)]
          /\ pc' = [pc EXCEPT ![p] = "wait"]
          /\ UNCHANGED ack
     ELSE /\ ack' = [ack EXCEPT ![p] = SIM_ERROR]
          /\ pc' = [pc EXCEPT ![p] = "ret"]
          /\ UNCHANGED logq
  /\ UNCHANGED <<log, store, watch, sessions, req, item, life, sockVars, subVars, custVars, zero>>

returned(p, code) == pc[p] = "ret" /\ req[p] = code

\* Mutant: the loop runs once too often.
taskLoop_OneMore(t, res) ==
  pc' = [pc EXCEPT ![t] = IF res < 0 \/ life[t] > Repeats THEN "end" ELSE "lag"]

\* The do-while loop of simItemTask and simCustTask, run when a simItem or
\* simCust call has returned res.
taskLoop(t, res) ==
  pc' = [pc EXCEPT ![t] = IF res < 0 \/ life[t] >= Repeats THEN "end" ELSE "lag"]

-----------------------------------------------------------------------------
(***************************************************************************)
(* simLogTask.                                                             *)
(***************************************************************************)

\* Bind, listen, subscribe to item 0, clear the counters.  The subscription
\* reports an item 0 that is already published.
LogBind(n) ==
  /\ log[n] = "init"
  /\ log' = [log EXCEPT ![n] = "run"]
  /\ store' = [store EXCEPT ![n] = NewStore]
  /\ watch' = [watch EXCEPT ![n] = IF ZeroUp THEN <<"TIPC_PUBLISHED">> ELSE <<>>]
  /\ UNCHANGED <<logq, sessions, pc, req, ack, item, life, sockVars, subVars, custVars, zero>>

\* One transaction, the switch on simState after it, and its consequences:
\* forking the janitor, or leaving the loop and closing the sockets.
LogTransaction(n) ==
  /\ log[n] = "run"
  /\ logq[n] # <<>>
  /\ LET p == Head(logq[n])
         s == logTransaction(store[n], message(p))
     IN /\ store' = [store EXCEPT ![n] = afterTransaction(s)]
        /\ ack' = [ack EXCEPT ![p] = ackCode(store[n], message(p))]
        /\ IF becomesClosed(s)
           THEN \E j \in Janitor : /\ home[j] = n
                                   /\ pc[j] = "off"
                                   /\ pc' = [pc EXCEPT ![p] = "ret", ![j] = "scan"]
           ELSE pc' = [pc EXCEPT ![p] = "ret"]
        /\ logq' = [logq EXCEPT ![n] = Tail(@)]
        /\ log' = [log EXCEPT ![n] = IF s.simState = "STORE_EMPTY" THEN "none" ELSE @]
        /\ watch' = [watch EXCEPT ![n] = IF s.simState = "STORE_EMPTY" THEN <<>> ELSE @]
  /\ UNCHANGED <<sessions, req, item, life, sockVars, subVars, custVars, zero>>

\* Read one item 0 event; the task is then halted or runs.
readWatch(n, halt) ==
  /\ watch[n] # <<>>
  /\ log' = [log EXCEPT ![n] = IF halt THEN "halt" ELSE "run"]
  /\ watch' = [watch EXCEPT ![n] = Tail(@)]
  /\ UNCHANGED <<store, logq, sessions, pc, req, ack, item, life, sockVars, subVars, custVars, zero>>

\* Mutant: a store that is closing can be halted too.
LogWatch_EvenClosing(n) ==
  log[n] = "run" /\ readWatch(n, Head(watch[n]) = "TIPC_PUBLISHED")

\* While running: PUBLISHED halts an open store, everything else is ignored.
LogWatch(n) ==
  /\ log[n] = "run"
  /\ readWatch(n, store[n].simState = "STORE_OPEN" /\ Head(watch[n]) = "TIPC_PUBLISHED")

\* Mutant: the wrong event ends the halt.
LogHalted_AwaitPublished(n) ==
  log[n] = "halt" /\ readWatch(n, Head(watch[n]) # "TIPC_PUBLISHED")

\* While halted only item 0 events are read, until WITHDRAWN.
LogHalted(n) ==
  log[n] = "halt" /\ readWatch(n, Head(watch[n]) # "TIPC_WITHDRAWN")

-----------------------------------------------------------------------------
(***************************************************************************)
(* simItem / simItemTask.                                                  *)
(***************************************************************************)

\* Choose an item number, wait for delivery, create the socket, bind it:
\* the name is announced to every live subscription that covers it.
ItemPublish(i) ==
  /\ pc[i] = "lag"
  /\ \E k \in ItemID :
       /\ item' = [item EXCEPT ![i] = k]
       /\ pend' = [s \in Subscriber |->
            IF subscr[s] = "live" /\ (s \in CustTask => item[s] = k)
            THEN pend[s] \cup {<<i, life[i] + 1>>} ELSE pend[s]]
  /\ life' = [life EXCEPT ![i] = @ + 1]
  /\ sock' = [sock EXCEPT ![i] = "bound"]
  /\ pc' = [pc EXCEPT ![i] = "bound"]
  /\ UNCHANGED <<logVars, req, ack, backlog, subscr, custVars, zero>>

\* listen, then log the arrival.
ItemListen(i) ==
  /\ pc[i] = "bound"
  /\ sock' = [sock EXCEPT ![i] = "listen"]
  /\ calls(i, "SIM_ITEM_IN")
  /\ UNCHANGED <<logVars, item, life, backlog, subVars, custVars, zero>>

\* close(sockfd_l): the name is withdrawn and queued requests are rejected.
closeItem(i) ==
  /\ sock' = [sock EXCEPT ![i] = "closed"]
  /\ backlog' = [backlog EXCEPT ![i] = <<>>]
  /\ conn' = [c \in CustTask |->
       IF c \in inBacklog(i) THEN [conn[c] EXCEPT !.st = "rejected"] ELSE conn[c]]
  /\ UNCHANGED <<tid, took>>

ItemInReturn(i) ==
  /\ returned(i, "SIM_ITEM_IN")
  /\ IF ack[i] < 0
     THEN pc' = [pc EXCEPT ![i] = "end"] /\ closeItem(i)
     ELSE pc' = [pc EXCEPT ![i] = "sell"] /\ UNCHANGED <<sockVars, custVars>>
  /\ UNCHANGED <<logVars, req, ack, item, life, subVars, zero>>

\* Accept the oldest request and answer its sender, if it is still there; the
\* item cannot tell: a reply to a peer that is gone is sent all the same.
answer(i, st) ==
  /\ pc[i] = "sell"
  /\ backlog[i] # <<>>
  /\ conn' = [c \in CustTask |->
       IF c = Head(backlog[i]) THEN [conn[c] EXCEPT !.st = st] ELSE conn[c]]
  /\ backlog' = [backlog EXCEPT ![i] = Tail(@)]
  /\ UNCHANGED <<logVars, item, life, sock, subVars, tid, took, zero>>

\* Mutant: haveItem is not cleared, the item goes back to accept.
ItemReply_KeepsItem(i) == answer(i, "reply") /\ calls(i, "SIM_WARN")

\* Read the request, reply, and report the sale.
ItemReply(i) == answer(i, "reply") /\ calls(i, "SIM_ITEM_OUT")

\* Reading the request or sending the reply fails: warn and keep the item.
ItemReplyFails(i) == "reply" \in Faults /\ answer(i, "rejected") /\ calls(i, "SIM_WARN")

ItemWarnReturn(i) ==
  /\ returned(i, "SIM_WARN")
  /\ pc' = [pc EXCEPT ![i] = "sell"]
  /\ UNCHANGED <<logVars, req, ack, item, life, sockVars, subVars, custVars, zero>>

ItemOutReturn(i) ==
  /\ returned(i, "SIM_ITEM_OUT")
  /\ closeItem(i)
  /\ taskLoop(i, ack[i])
  /\ UNCHANGED <<logVars, req, ack, item, life, subVars, zero>>

\* socket, bind, listen or accept fails: log it, give up, end the task.
ItemFault(i) ==
  /\ "item" \in Faults
  /\ pc[i] \in {"lag", "bound", "sell"}
  /\ calls(i, "SIM_ERROR")
  /\ UNCHANGED <<logVars, item, life, sockVars, subVars, custVars, zero>>

ItemFaultReturn(i) ==
  /\ returned(i, "SIM_ERROR")
  /\ closeItem(i)
  /\ pc' = [pc EXCEPT ![i] = "end"]
  /\ UNCHANGED <<logVars, req, ack, item, life, subVars, zero>>

-----------------------------------------------------------------------------
(***************************************************************************)
(* simCust / simCustTask.                                                  *)
(***************************************************************************)

\* Choose an item, wait, then log the arrival.
CustArrive(c) ==
  /\ pc[c] = "lag"
  /\ \E k \in ItemID : item' = [item EXCEPT ![c] = k]
  /\ life' = [life EXCEPT ![c] = @ + 1]
  /\ calls(c, "SIM_CUST_IN")
  /\ UNCHANGED <<logVars, sockVars, subVars, custVars, zero>>

CustInReturn(c) ==
  /\ returned(c, "SIM_CUST_IN")
  /\ pc' = [pc EXCEPT ![c] = IF ack[c] < 0 THEN "end" ELSE "enter"]
  /\ UNCHANGED <<logVars, req, ack, item, life, sockVars, subVars, custVars, zero>>

\* Subscribe to the item name.
CustSubscribe(c) ==
  /\ pc[c] = "enter"
  /\ subscr' = [subscr EXCEPT ![c] = "live"]
  /\ pend' = [pend EXCEPT ![c] = published({item[c]})]
  /\ tid' = [tid EXCEPT ![c] = 0]
  /\ pc' = [pc EXCEPT ![c] = "shop"]
  /\ UNCHANGED <<logVars, req, ack, item, life, sockVars, conn, took, zero>>

\* A PUBLISHED event: connect to the port and send the request.
CustRequest(c) ==
  /\ pc[c] = "shop"
  /\ \E p \in pend[c] : \E up \in queues(p) :
       /\ pend' = [pend EXCEPT ![c] = @ \ {p}]
       /\ conn' = [conn EXCEPT ![c] = [to |-> p, st |-> IF up THEN "syn" ELSE "rejected"]]
       /\ backlog' = IF up THEN [backlog EXCEPT ![p[1]] = Append(@, c)] ELSE backlog
  /\ tid' = [tid EXCEPT ![c] = @ + 1]
  /\ pc' = [pc EXCEPT ![c] = "ask"]
  /\ UNCHANGED <<logVars, req, ack, item, life, sock, subscr, took, zero>>

\* The item replied: report the sale.
CustGotItem(c) ==
  /\ pc[c] = "ask"
  /\ conn[c].st = "reply"
  /\ took' = took \cup {<<conn[c].to, visit(c)>>}
  /\ calls(c, "SIM_CUST_OUT")
  /\ UNCHANGED <<logVars, item, life, sockVars, subVars, conn, tid, zero>>

\* The item rejected the request: log it and try again.
CustRejected(c) ==
  /\ pc[c] = "ask"
  /\ conn[c].st = "rejected"
  /\ calls(c, "SIM_INFO")
  /\ UNCHANGED <<logVars, item, life, sockVars, subVars, custVars, zero>>

\* select times out: nothing has arrived yet, which a reply still on its way
\* from another node does not prevent.
CustNoReply(c) ==
  /\ pc[c] = "ask"
  /\ \/ conn[c].st = "syn"
     \/ conn[c].st = "reply" /\ home[conn[c].to[1]] # home[c]
  /\ calls(c, "SIM_WARN")
  /\ UNCHANGED <<logVars, item, life, sockVars, subVars, custVars, zero>>

\* A backlog whose request from c has lost its sender.
orphaned(q, c) == [k \in DOMAIN q |-> IF q[k] = c THEN Gone ELSE q[k]]

\* After a miss is logged: close the connection, which orphans a request
\* that is still queued, and wait for the next event.
CustMissed(c) ==
  /\ returned(c, "SIM_INFO") \/ returned(c, "SIM_WARN")
  /\ conn' = [conn EXCEPT ![c] = NoConn]
  /\ backlog' = [i \in ItemTask |-> orphaned(backlog[i], c)]
  /\ pc' = [pc EXCEPT ![c] = "shop"]
  /\ UNCHANGED <<logVars, req, ack, item, life, sock, subVars, tid, took, zero>>

\* The subscription timeout is the last event received: walk out.
CustWalkOut(c) ==
  /\ pc[c] = "shop"
  /\ pend[c] = {}
  /\ subscr[c] = "expired"
  /\ calls(c, "SIM_CUST_OUT")
  /\ UNCHANGED <<logVars, item, life, sockVars, subVars, custVars, zero>>

\* Close both sockets; the visit is over.
leaveStore(c) ==
  /\ subscr' = [subscr EXCEPT ![c] = "none"]
  /\ pend' = [pend EXCEPT ![c] = {}]
  /\ conn' = [conn EXCEPT ![c] = NoConn]
  /\ UNCHANGED <<tid, took>>

CustOutReturn(c) ==
  /\ returned(c, "SIM_CUST_OUT")
  /\ leaveStore(c)
  /\ taskLoop(c, ack[c])
  /\ UNCHANGED <<logVars, req, ack, item, life, sockVars, zero>>

\* socket, getsockname, recv or sendto fails: log it and leave the store
\* without a SIM_CUST_OUT.
CustFault(c) ==
  /\ "customer" \in Faults
  /\ pc[c] \in {"enter", "shop"}
  /\ calls(c, "SIM_ERROR")
  /\ UNCHANGED <<logVars, item, life, sockVars, subVars, custVars, zero>>

CustFaultReturn(c) ==
  /\ returned(c, "SIM_ERROR")
  /\ leaveStore(c)
  /\ pc' = [pc EXCEPT ![c] = "end"]
  /\ UNCHANGED <<logVars, req, ack, item, life, sockVars, zero>>

-----------------------------------------------------------------------------
(***************************************************************************)
(* simJanitorTask.                                                         *)
(***************************************************************************)

\* The topology server reports the end of a subscription's waiting time.
SubscrTimeout(s) ==
  /\ subscr[s] = "live"
  /\ subscr' = [subscr EXCEPT ![s] = "expired"]
  /\ UNCHANGED <<logVars, pc, req, ack, item, life, sockVars, pend, custVars, zero>>

JanitorSubscribe(j) ==
  /\ pc[j] = "scan"
  /\ subscr' = [subscr EXCEPT ![j] = "live"]
  /\ pend' = [pend EXCEPT ![j] = published(ItemID)]
  /\ pc' = [pc EXCEPT ![j] = "sweep"]
  /\ UNCHANGED <<logVars, req, ack, item, life, sockVars, custVars, zero>>

\* A PUBLISHED event: fake a purchase of the port, if it is to be swept, and
\* close the connection at once.
sweepPort(j, p, sweep) ==
  /\ pend' = [pend EXCEPT ![j] = @ \ {p}]
  /\ \E up \in queues(p) :
       backlog' = IF sweep /\ up THEN [backlog EXCEPT ![p[1]] = Append(@, Gone)] ELSE backlog

\* Mutant: the test of event.port.node is dropped.
JanitorEvent_AnyNode(j) ==
  /\ pc[j] = "sweep"
  /\ \E p \in pend[j] : sweepPort(j, p, TRUE)
  /\ UNCHANGED <<logVars, pc, req, ack, item, life, sock, subscr, custVars, zero>>

\* Items of other nodes are ignored.
JanitorEvent(j) ==
  /\ pc[j] = "sweep"
  /\ \E p \in pend[j] : sweepPort(j, p, home[p[1]] = home[j])
  /\ UNCHANGED <<logVars, pc, req, ack, item, life, sock, subscr, custVars, zero>>

\* Timeout event: let the items clean up for a while, then report.
JanitorDone(j) ==
  /\ pc[j] = "sweep"
  /\ pend[j] = {}
  /\ subscr[j] = "expired"
  /\ calls(j, "SIM_DONE")
  /\ UNCHANGED <<logVars, item, life, sockVars, subVars, custVars, zero>>

\* socket, sendto or recv fails: log it, then report SIM_DONE all the same.
JanitorFault(j) ==
  /\ "janitor" \in Faults
  /\ pc[j] \in {"scan", "sweep"}
  /\ calls(j, "SIM_ERROR")
  /\ UNCHANGED <<logVars, item, life, sockVars, subVars, custVars, zero>>

JanitorFaultReturn(j) ==
  /\ returned(j, "SIM_ERROR")
  /\ calls(j, "SIM_DONE")
  /\ UNCHANGED <<logVars, item, life, sockVars, subVars, custVars, zero>>

\* The janitor exits.  If it was the last holder of the listening socket, the
\* socket closes and every request still queued on it is rejected.
JanitorExit(j) ==
  /\ returned(j, "SIM_DONE")
  /\ LET n == home[j]
         last == log[n] = "none" /\ holders(n) = {j}
         cut == {p \in Proc : last /\ \E k \in DOMAIN logq[n] : logq[n][k] = p}
     IN /\ pc' = [p \in Proc |-> IF p = j THEN "end" ELSE IF p \in cut THEN "ret" ELSE pc[p]]
        /\ ack' = [p \in Proc |-> IF p \in cut THEN SIM_ERROR ELSE ack[p]]
        /\ logq' = [logq EXCEPT ![n] = IF last THEN <<>> ELSE @]
  /\ subscr' = [subscr EXCEPT ![j] = "none"]
  /\ pend' = [pend EXCEPT ![j] = {}]
  /\ UNCHANGED <<log, store, watch, sessions, req, item, life, sockVars, custVars, zero>>

-----------------------------------------------------------------------------
(***************************************************************************)
(* The commands.                                                           *)
(***************************************************************************)

\* newSim: fork the logging task and the automatic item and customer tasks.
NewSim(n) ==
  /\ ~ simFind(n)
  /\ log[n] = "none"
  /\ sessions[n] < MaxSessions
  /\ sessions' = [sessions EXCEPT ![n] = @ + 1]
  /\ log' = [log EXCEPT ![n] = "init"]
  /\ pc' = [p \in Proc |-> IF p \in AutoTask /\ home[p] = n /\ pc[p] = "off" THEN "lag" ELSE pc[p]]
  /\ UNCHANGED <<store, logq, watch, req, ack, item, life, sockVars, subVars, custVars, zero>>

\* newItem, newCust: fork one more task into an existing simulation.
NewTask(t) ==
  /\ simFind(home[t])
  /\ t \in Task \ AutoTask
  /\ pc[t] = "off"
  /\ pc' = [pc EXCEPT ![t] = "lag"]
  /\ UNCHANGED <<logVars, req, ack, item, life, sockVars, subVars, custVars, zero>>

KillSim(k) ==
  /\ pc[k] = "off"
  /\ simFind(home[k])
  /\ calls(k, "SIM_KILL")
  /\ UNCHANGED <<logVars, item, life, sockVars, subVars, custVars, zero>>

KillReturn(k) ==
  /\ returned(k, "SIM_KILL")
  /\ pc' = [pc EXCEPT ![k] = "end"]
  /\ UNCHANGED <<logVars, req, ack, item, life, sockVars, subVars, custVars, zero>>

\* Item 0 appears with the first publication and disappears with the last;
\* every logging task is told through its subscription.
tellLogs(event) ==
  watch' = [n \in Node |-> IF log[n] \in {"run", "halt"} THEN Append(watch[n], event) ELSE watch[n]]

StopSim(z) ==
  /\ zero[z] = "off"
  /\ zero' = [zero EXCEPT ![z] = "up"]
  /\ IF ZeroUp THEN UNCHANGED watch ELSE tellLogs("TIPC_PUBLISHED")
  /\ UNCHANGED <<log, store, logq, sessions, pc, req, ack, item, life, sockVars, subVars, custVars>>

\* startSim: one message to whichever item 0 the name lookup selects.
StartSim(z) ==
  /\ zero[z] = "up"
  /\ zero' = [zero EXCEPT ![z] = "told"]
  /\ UNCHANGED <<logVars, pc, req, ack, item, life, sockVars, subVars, custVars>>

ZeroExit(z) ==
  /\ zero[z] = "told"
  /\ zero' = [zero EXCEPT ![z] = "end"]
  /\ IF \E y \in ZeroTask : zero'[y] \in {"up", "told"}
     THEN UNCHANGED watch ELSE tellLogs("TIPC_WITHDRAWN")
  /\ UNCHANGED <<log, store, logq, sessions, pc, req, ack, item, life, sockVars, subVars, custVars>>

-----------------------------------------------------------------------------
LogStep(n) == LogBind(n) \/ LogTransaction(n) \/ LogWatch(n) \/ LogHalted(n)

ItemStep(i) ==
  \/ SimLogSend(i) \/ ItemPublish(i) \/ ItemListen(i) \/ ItemInReturn(i)
  \/ ItemReply(i) \/ ItemReplyFails(i) \/ ItemWarnReturn(i)
  \/ ItemOutReturn(i) \/ ItemFault(i) \/ ItemFaultReturn(i)

CustStep(c) ==
  \/ SimLogSend(c) \/ CustArrive(c) \/ CustInReturn(c) \/ CustSubscribe(c)
  \/ CustRequest(c) \/ CustGotItem(c) \/ CustRejected(c) \/ CustNoReply(c)
  \/ CustMissed(c) \/ CustWalkOut(c) \/ CustOutReturn(c)
  \/ CustFault(c) \/ CustFaultReturn(c)

JanitorStep(j) ==
  \/ SimLogSend(j) \/ JanitorSubscribe(j) \/ JanitorEvent(j) \/ JanitorDone(j)
  \/ JanitorFault(j) \/ JanitorFaultReturn(j) \/ JanitorExit(j)

KillStep(k) == SimLogSend(k) \/ KillReturn(k)

Commands ==
  \/ \E n \in Node : NewSim(n)
  \/ \E t \in Task : NewTask(t)
  \/ \E k \in Killer : KillSim(k)
  \/ \E z \in ZeroTask : StopSim(z) \/ StartSim(z)

Programs ==
  \/ \E n \in Node : LogStep(n)
  \/ \E i \in ItemTask : ItemStep(i)
  \/ \E c \in CustTask : CustStep(c)
  \/ \E j \in Janitor : JanitorStep(j)
  \/ \E k \in Killer : KillStep(k)
  \/ \E s \in Subscriber : SubscrTimeout(s)
  \/ \E z \in ZeroTask : ZeroExit(z)

Next == Commands \/ Programs

Spec == Init /\ [][Next]_vars

\* The scheduler runs every process, the kernel's timers expire, and nobody
\* has to type a command.
Fairness ==
  /\ \A n \in Node : WF_vars(LogStep(n))
  /\ \A i \in ItemTask : WF_vars(ItemStep(i))
  /\ \A c \in CustTask : WF_vars(CustStep(c))
  /\ \A j \in Janitor : WF_vars(JanitorStep(j))
  /\ \A k \in Killer : WF_vars(KillStep(k))
  /\ \A s \in Subscriber : WF_vars(SubscrTimeout(s))
  /\ \A z \in ZeroTask : WF_vars(ZeroExit(z))

FairSpec == Spec /\ Fairness
=============================================================================
