--------------------------- MODULE InventoryProps ---------------------------
(***************************************************************************)
(* What makes the inventory simulation correct.                            *)
(***************************************************************************)
EXTENDS InventorySim

\* The types of all variables but took.
StateTypeOK ==
  /\ log \in [Node -> {"none", "init", "run", "halt"}]
  /\ store \in [Node -> Store]
  /\ logq \in [Node -> Seq(Proc)]
  /\ watch \in [Node -> Seq({"TIPC_PUBLISHED", "TIPC_WITHDRAWN"})]
  /\ sessions \in [Node -> 0 .. MaxSessions]
  /\ pc \in [Proc -> {"off", "lag", "bound", "sell", "enter", "shop", "ask",
                      "scan", "sweep", "call", "wait", "ret", "end"}]
  /\ req \in [Proc -> Code]
  /\ ack \in [Proc -> Int]
  /\ item \in [Proc -> ItemID]
  /\ life \in [Task -> 0 .. Repeats]
  /\ sock \in [ItemTask -> {"closed", "bound", "listen"}]
  /\ backlog \in [ItemTask -> Seq(CustTask \cup {Gone})]
  /\ subscr \in [Subscriber -> {"none", "live", "expired"}]
  /\ pend \in [Subscriber -> SUBSET Port]
  /\ conn \in [CustTask -> [to : Port \cup {Gone},
                            st : {"none", "syn", "reply", "rejected"}]]
  /\ tid \in [CustTask -> Nat]
  /\ zero \in [ZeroTask -> {"off", "up", "told", "end"}]

\* Every variable has its type; the lives of a task stay within its repeats,
\* and what a customer took is a port some item task really had.
TypeOK == StateTypeOK /\ took \subseteq Port \X (CustTask \X (1 .. Repeats))

busy(p, codes) == pc[p] \in {"call", "wait", "ret"} /\ req[p] \in codes

\* A customer the logging task has let in and not yet counted out.
inside(c) ==
  \/ pc[c] \in {"enter", "shop", "ask"}
  \/ busy(c, {"SIM_INFO", "SIM_WARN", "SIM_ERROR"})
  \/ pc[c] \in {"call", "wait"} /\ req[c] = "SIM_CUST_OUT"
  \/ pc[c] = "ret" /\ req[c] = "SIM_CUST_IN" /\ ack[c] > 0

\* An item the logging task has counted in and not yet counted out.
stocked(i) ==
  \/ pc[i] = "sell"
  \/ busy(i, {"SIM_WARN"})
  \/ pc[i] \in {"call", "wait"} /\ req[i] = "SIM_ITEM_OUT"
  \/ pc[i] = "ret" /\ req[i] = "SIM_ITEM_IN" /\ ack[i] = SIM_OK

\* A customer with its item in hand whose sale is not recorded yet.
atTheDoor(c) ==
  pc[c] \in {"call", "wait"} /\ req[c] = "SIM_CUST_OUT" /\ conn[c].st = "reply"

serving(n) == log[n] \in {"run", "halt"}

\* What the counters of node n's store ought to count.
insiders(n) == {c \in CustTask : home[c] = n /\ inside(c)}
stock(n) == {i \in ItemTask : home[i] = n /\ stocked(i)}
sales(n) == {b \in took : home[b[2][1]] = n}
door(n) == {c \in CustTask : home[c] = n /\ atTheDoor(c)}

-----------------------------------------------------------------------------
\* An item is obtained by at most one customer and a visit yields at most one
\* item: simItem stops accepting once a reply is sent, simCust stops asking
\* once it has one, whatever the requests queued and replies in flight.
SoldOnce ==
  \A a, b \in took : a[1] = b[1] <=> a[2] = b[2]

\* The counters and tasks of every item and customer, seen as a shelf: the
\* tasks implement the abstract shop.
leaving(i) == busy(i, {"SIM_ITEM_OUT"})
shelfOf(p) ==
  IF p[2] > life[p[1]] THEN "none"
  ELSE IF p[2] = life[p[1]] /\ sock[p[1]] # "closed" /\ ~ leaving(p[1]) THEN "shelf"
  ELSE "off"
Abstract == INSTANCE Shelf WITH
  Goods <- Port, Visitor <- CustTask \X (1 .. Repeats),
  shelf <- [p \in Port |-> shelfOf(p)], bags <- took
ShelfSpec == Abstract!ShelfSpec

\* customersInStore, which decides when a closing store is closed, is the
\* number of customers that are really in the store.
CustomersMatch ==
  \A n \in Node : serving(n) => store[n].customersInStore = Cardinality(insiders(n))

\* itemsInStore, reported as items left over when the store terminates, is
\* the number of items really in the store.
StockMatch ==
  \A n \in Node : serving(n) => store[n].itemsInStore = Cardinality(stock(n))

\* Every item a customer of the store went away with is in customerSales, or
\* its report is on its way.
SalesMatch ==
  \A n \in Node : serving(n) =>
    Cardinality(sales(n)) = store[n].customerSales + Cardinality(door(n))

\* "create janitor once store is empty": no janitor runs while a customer of
\* the store is inside, so that no customer races it for an item.
JanitorWhenEmpty ==
  \A j \in Janitor, c \in CustTask :
    home[j] = home[c] /\ pc[j] \notin {"off", "end"} => ~ inside(c)

\* "ignore items in other stores": the janitor's fake purchases, the requests
\* that arrive with their sender already gone, go to items of a closed store.
SweptWhenClosed ==
  [][\A i \in ItemTask :
       Len(backlog'[i]) > Len(backlog[i]) /\ backlog'[i][Len(backlog'[i])] = Gone
         => store[home[i]].simState \in {"STORE_CLOSED", "STORE_EMPTY"}]_vars

\* Nothing of the simulation is left on node n.
cleanedUp(n) ==
  ~ simFind(n) /\ \A t \in Task : home[t] = n => pc[t] \in {"off", "end"}

\* killSim "closes the store and cleans up": once the store is closing, the
\* logging task ends, its name goes away and every task of the node exits,
\* whenever item 0 comes and goes.
CloseCleansUp ==
  \A n \in Node : (log[n] = "run" /\ store[n].simState # "STORE_OPEN") ~> cleanedUp(n)

\* "Halt as long as item 0 exists": a halted store resumes once item 0 is
\* gone, unless another one appears.
HaltEnds ==
  \A n \in Node : (log[n] = "halt" /\ ~ ZeroUp) ~> (log[n] # "halt" \/ ZeroUp)

-----------------------------------------------------------------------------
(***************************************************************************)
(* The inductive invariant behind TypeOK and SoldOnce.                     *)
(***************************************************************************)

\* Lives are counted before they are used.
LifeInv ==
  /\ \A t \in Task : /\ pc[t] = "off" => life[t] = 0
                     /\ pc[t] = "lag" => life[t] < Repeats
  /\ \A i \in ItemTask : pc[i] = "bound" \/ sock[i] # "closed" => life[i] >= 1

\* A process queued on a logging task's socket blocks in recv, and is queued
\* once, on its own node.
QueueInv ==
  \A n \in Node : \A a \in 1 .. Len(logq[n]) :
    /\ pc[logq[n][a]] = "wait"
    /\ home[logq[n][a]] = n
    /\ \A b \in 1 .. Len(logq[n]) : logq[n][a] = logq[n][b] => a = b

\* A task is where its sockets say it is.
itemSocket(i) ==
  /\ pc[i] \in {"off", "lag", "end"} => sock[i] = "closed"
  /\ pc[i] \in {"bound", "sell"} \/ busy(i, {"SIM_WARN", "SIM_ITEM_IN"}) => sock[i] # "closed"
  /\ sock[i] = "closed" => backlog[i] = <<>>
custSocket(c) ==
  /\ pc[c] \notin {"off", "lag"} => life[c] >= 1
  /\ pc[c] \in {"off", "lag", "enter", "shop", "end"} => conn[c] = NoConn
  /\ busy(c, {"SIM_CUST_IN", "SIM_ERROR"}) => conn[c] = NoConn
  /\ busy(c, {"SIM_CUST_OUT"}) => conn[c].st \in {"none", "reply"}
SocketInv ==
  (\A i \in ItemTask : itemSocket(i)) /\ (\A c \in CustTask : custSocket(c))

\* A customer queued on an item's socket is connecting to the item's present
\* port, and is queued there once.
BacklogInv ==
  \A i \in ItemTask : \A a \in 1 .. Len(backlog[i]) : backlog[i][a] # Gone =>
    /\ conn[backlog[i][a]] = [to |-> port(i), st |-> "syn"]
    /\ \A b \in 1 .. Len(backlog[i]) : backlog[i][a] = backlog[i][b] => a = b

\* A customer task whose present visit, if it took an item, is over.
out(c) == busy(c, {"SIM_CUST_OUT"}) \/ pc[c] \in {"lag", "end"}

\* Whoever holds a reply holds it alone, for an item that is off the shelf;
\* whoever took an item has left, or is on the way out.
TradeInv ==
  /\ \A c \in CustTask : conn[c].st = "reply" => conn[c].to \in Port
  /\ \A c, d \in CustTask :
       conn[c].st = "reply" /\ conn[d].st = "reply" /\ conn[c].to = conn[d].to => c = d
  /\ \A c \in CustTask, p \in Port : conn[c].st = "reply" /\ conn[c].to = p =>
       /\ shelfOf(p) = "off"
       /\ ~ busy(c, {"SIM_CUST_OUT"}) => \A a \in took : a[1] # p
  /\ \A c \in CustTask, p \in Port, l \in 1 .. Repeats : <<p, <<c, l>>>> \in took =>
       /\ shelfOf(p) = "off"
       /\ l < life[c] \/ (l = life[c] /\ out(c))

\* The inductive invariant: the tasks and sockets of items and customers
\* agree with each other at every step of simItem and simCust.
IInv == TypeOK /\ LifeInv /\ QueueInv /\ SocketInv /\ BacklogInv /\ TradeInv /\ SoldOnce

-----------------------------------------------------------------------------
(***************************************************************************)
(* The inductive invariant behind the counters and the janitor.            *)
(***************************************************************************)

\* Which transactions a process sends, and the acknowledgements that decide
\* whether a customer or an item came in.
custCodes == {"SIM_CUST_IN", "SIM_CUST_OUT", "SIM_INFO", "SIM_WARN"}
             \cup (IF "customer" \in Faults THEN {"SIM_ERROR"} ELSE {})
itemCodes == {"SIM_ITEM_IN", "SIM_ITEM_OUT", "SIM_WARN"}
             \cup (IF "item" \in Faults THEN {"SIM_ERROR"} ELSE {})
inCall(p) == pc[p] \in {"call", "wait", "ret"}
CodeInv ==
  /\ \A c \in CustTask : inCall(c) => req[c] \in custCodes
  /\ \A i \in ItemTask : inCall(i) => req[i] \in itemCodes
  /\ \A j \in Janitor : inCall(j) => req[j] \in {"SIM_ERROR", "SIM_DONE"}
  /\ \A k \in Killer : inCall(k) => req[k] = "SIM_KILL"
  /\ \A c \in CustTask : returned(c, "SIM_CUST_IN") => ack[c] # SIM_OK
  /\ \A i \in ItemTask : returned(i, "SIM_ITEM_IN") => ack[i] <= SIM_OK

\* A store that does not serve has nobody inside; one that does counts at
\* least the customers inside, and exactly them if no customer fails; it is
\* closed when they are gone, and a janitor runs only then or later.
storeOK(n) ==
  /\ serving(n) => /\ store[n].simState # "STORE_EMPTY"
                   /\ store[n].simState = "STORE_CLOSED" => store[n].customersInStore = 0
                   /\ store[n].customersInStore >= Cardinality(insiders(n))
                   /\ "customer" \notin Faults =>
                        store[n].customersInStore = Cardinality(insiders(n))
  /\ ~ serving(n) => insiders(n) = {}
  /\ holders(n) # {} => \/ serving(n) /\ store[n].simState = "STORE_CLOSED"
                        \/ log[n] = "none" /\ store[n].simState = "STORE_EMPTY"
StoreInv == \A n \in Node : storeOK(n)

\* The books of the first store that newSim opens on a node: nothing is in
\* stock or sold before it is open, every sale is recorded or about to be,
\* and an item is missing from the count only if an item task failed.
booksOK(n) ==
  /\ log[n] # "none" => sessions[n] >= 1
  /\ sessions[n] = 0 \/ (sessions[n] = 1 /\ log[n] = "init") => stock(n) = {} /\ sales(n) = {}
  /\ sessions[n] = 1 /\ serving(n) =>
       /\ Cardinality(sales(n)) = store[n].customerSales + Cardinality(door(n))
       /\ "item" \notin Faults => store[n].itemsInStore = Cardinality(stock(n))
BooksInv == IsFiniteSet(took) /\ \A n \in Node : booksOK(n)

\* The logging task's counters agree with the tasks they count.
LogInv == CodeInv /\ StoreInv /\ BooksInv
=============================================================================
