------------------------------- MODULE SimLog -------------------------------
(***************************************************************************)
(* The bookkeeping of the logging task of demos/inventory_sim: the store   *)
(* record it keeps, what one transaction does to it, and how the           *)
(* transaction is acknowledged.  The handler is a function of the record   *)
(* and of the message, so that the module that runs the tasks              *)
(* (InventorySim) and the proofs about the counters can share it.          *)
(*                                                                         *)
(* simErrors and simWarnings only count lines of output and are left out.  *)
(***************************************************************************)
EXTENDS Integers

CONSTANT ItemID   \* the numbered items, DEMO_ITEM_ID_MIN .. DEMO_ITEM_ID_MAX

\* Transaction codes double as acknowledgement values; a value < 0 tells the
\* sender to terminate.
SIM_KILL  == -3
SIM_ERROR == -2
SIM_OK    == 0

SimState == {"STORE_OPEN", "STORE_CLOSING", "STORE_CLOSED", "STORE_EMPTY"}

Code == {"SIM_DONE", "SIM_KILL", "SIM_ERROR", "SIM_WARN", "SIM_INFO",
         "SIM_ITEM_IN", "SIM_ITEM_OUT", "SIM_CUST_IN", "SIM_CUST_OUT"}

\* The counters of a logging task that has just been forked.
NewStore ==
  [simState         |-> "STORE_OPEN",
   itemCount        |-> [k \in ItemID |-> 0],
   itemsInStore     |-> 0,
   itemsSold        |-> [k \in ItemID |-> 0],
   customerCount    |-> [k \in ItemID |-> 0],
   customersInStore |-> 0,
   customerTotal    |-> 0,
   customerSales    |-> 0,
   customerExits    |-> 0,
   customerRetries  |-> 0]

Store ==
  [simState         : SimState,
   itemCount        : [ItemID -> Int],
   itemsInStore     : Int,
   itemsSold        : [ItemID -> Nat],
   customerCount    : [ItemID -> Int],
   customersInStore : Int,
   customerTotal    : Nat,
   customerSales    : Nat,
   customerExits    : Nat,
   customerRetries  : Nat]

\* A transaction message: its code, and the fields the sender formats into
\* string_area.  sale holds when the text carries the '<' marker, i.e. when
\* the customer got its item.
Message == [code : Code, item : ItemID, retries : Nat, sale : BOOLEAN]

-----------------------------------------------------------------------------
\* One entry of an array of counters, indexed by item number, changes by d.
add(f, k, d) == [f EXCEPT ![k] = @ + d]

\* The cases of the switch in logTransaction.

itemIn(s, m) ==
  IF s.simState # "STORE_OPEN" THEN s
  ELSE [s EXCEPT !.itemsInStore = @ + 1, !.itemCount = add(@, m.item, 1)]

\* Mutant: reports of swept items are dropped before the item is counted out.
itemOut_SweptIgnored(s, m) ==
  IF s.simState = "STORE_CLOSED" THEN s
  ELSE [s EXCEPT !.itemsInStore = @ - 1,
                 !.itemCount = add(@, m.item, -1),
                 !.itemsSold = add(@, m.item, 1)]

itemOut(s, m) ==
  IF s.simState = "STORE_CLOSED" THEN [s EXCEPT !.itemsInStore = @ - 1]
  ELSE [s EXCEPT !.itemsInStore = @ - 1,
                 !.itemCount = add(@, m.item, -1),
                 !.itemsSold = add(@, m.item, 1)]

\* Mutant: a customer turned away is counted in.
custIn_WhenClosing(s, m) ==
  [s EXCEPT !.customersInStore = @ + 1,
            !.customerCount = add(@, m.item, 1),
            !.customerTotal = @ + 1]

custIn(s, m) ==
  IF s.simState # "STORE_OPEN" THEN s
  ELSE [s EXCEPT !.customersInStore = @ + 1,
                 !.customerCount = add(@, m.item, 1),
                 !.customerTotal = @ + 1]

\* Mutant: a sale after a retry is taken for a walkout.
custOut_RetryIsExit(s, m) ==
  LET sale == m.sale /\ m.retries = 0 IN
  [s EXCEPT !.customersInStore = @ - 1,
            !.customerCount = add(@, m.item, -1),
            !.customerRetries = @ + (IF m.retries # 0 THEN 1 ELSE 0),
            !.customerSales = @ + (IF sale THEN 1 ELSE 0),
            !.customerExits = @ + (IF sale THEN 0 ELSE 1)]

custOut(s, m) ==
  [s EXCEPT !.customersInStore = @ - 1,
            !.customerCount = add(@, m.item, -1),
            !.customerRetries = @ + (IF m.retries # 0 THEN 1 ELSE 0),
            !.customerSales = @ + (IF m.sale THEN 1 ELSE 0),
            !.customerExits = @ + (IF m.sale THEN 0 ELSE 1)]

\* The store after one transaction.  SIM_ERROR, SIM_WARN and SIM_INFO only
\* print.
logTransaction(s, m) ==
  CASE m.code = "SIM_DONE"     -> [s EXCEPT !.simState = "STORE_EMPTY"]
    [] m.code = "SIM_KILL"     -> [s EXCEPT !.simState = "STORE_CLOSING"]
    [] m.code = "SIM_ITEM_IN"  -> itemIn(s, m)
    [] m.code = "SIM_ITEM_OUT" -> itemOut(s, m)
    [] m.code = "SIM_CUST_IN"  -> custIn(s, m)
    [] m.code = "SIM_CUST_OUT" -> custOut(s, m)
    [] OTHER                   -> s

\* The acknowledgement sent back: a customer that is let in learns its
\* customerID, everybody else 0; items and customers of a store that is no
\* longer open are told to terminate.
ackCode(s, m) ==
  CASE m.code \in {"SIM_ITEM_IN", "SIM_ITEM_OUT", "SIM_CUST_IN", "SIM_CUST_OUT"}
         /\ s.simState # "STORE_OPEN" -> SIM_KILL
    [] m.code = "SIM_CUST_IN" /\ s.simState = "STORE_OPEN" -> s.customerTotal + 1
    [] OTHER -> SIM_OK

\* Mutant: the store closes without waiting for its customers.
becomesClosed_AtOnce(s) == s.simState = "STORE_CLOSING"

\* The switch that simLogTask runs after every transaction: a closing store
\* whose last customer has left is closed, which forks the janitor.
becomesClosed(s) == s.simState = "STORE_CLOSING" /\ s.customersInStore = 0

afterTransaction(s) ==
  IF becomesClosed(s) THEN [s EXCEPT !.simState = "STORE_CLOSED"] ELSE s
=============================================================================
