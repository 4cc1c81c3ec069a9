-------------------------- MODULE InventoryProofs --------------------------
(***************************************************************************)
(* Proofs about InventorySim, for every number of stores, tasks, items and *)
(* commands.                                                               *)
(***************************************************************************)
EXTENDS InventoryProps, TLAPS, SequenceTheorems

\* A transaction takes a well-formed store record to a well-formed one.
LEMMA TransactionType ==
  ASSUME NEW s \in Store, NEW m, m.item \in ItemID
  PROVE  /\ logTransaction(s, m) \in Store
         /\ afterTransaction(logTransaction(s, m)) \in Store
         /\ ackCode(s, m) \in Int
<1> USE DEF Store, SimState
<1>1. /\ add(s.itemCount, m.item, 1) \in [ItemID -> Int]
      /\ add(s.itemCount, m.item, -1) \in [ItemID -> Int]
      /\ add(s.customerCount, m.item, 1) \in [ItemID -> Int]
      /\ add(s.customerCount, m.item, -1) \in [ItemID -> Int]
      /\ add(s.itemsSold, m.item, 1) \in [ItemID -> Nat]
  BY DEF add
<1>a. /\ s.itemsInStore + 1 \in Int /\ s.itemsInStore - 1 \in Int
      /\ s.customersInStore + 1 \in Int /\ s.customersInStore - 1 \in Int
      /\ s.customerTotal + 1 \in Nat
  OBVIOUS
<1>2. itemIn(s, m) \in Store
  <2>1. CASE s.simState # "STORE_OPEN"
    BY <2>1 DEF itemIn
  <2>2. CASE s.simState = "STORE_OPEN"
    BY <1>1, <1>a, <2>2 DEF itemIn
  <2> QED
    BY <2>1, <2>2
<1>3. itemOut(s, m) \in Store
  <2>1. CASE s.simState = "STORE_CLOSED"
    BY <2>1 DEF itemOut
  <2>2. CASE s.simState # "STORE_CLOSED"
    BY <1>1, <1>a, <2>2 DEF itemOut
  <2> QED
    BY <2>1, <2>2
<1>4. custIn(s, m) \in Store
  <2>1. CASE s.simState # "STORE_OPEN"
    BY <2>1 DEF custIn
  <2>2. CASE s.simState = "STORE_OPEN"
    BY <1>1, <1>a, <2>2 DEF custIn
  <2> QED
    BY <2>1, <2>2
<1>5. custOut(s, m) \in Store
  <2> DEFINE r == s.customerRetries + (IF m.retries # 0 THEN 1 ELSE 0)
             b == s.customerSales + (IF m.sale THEN 1 ELSE 0)
             e == s.customerExits + (IF m.sale THEN 0 ELSE 1)
  <2>1. r \in Nat /\ b \in Nat /\ e \in Nat
    OBVIOUS
  <2>2. custOut(s, m) = [s EXCEPT !.customersInStore = s.customersInStore - 1,
                                  !.customerCount = add(s.customerCount, m.item, -1),
                                  !.customerRetries = r, !.customerSales = b, !.customerExits = e]
    BY DEF custOut
  <2> HIDE DEF r, b, e
  <2> QED
    BY <1>1, <1>a, <2>1, <2>2
<1>6. logTransaction(s, m) \in Store
  BY <1>2, <1>3, <1>4, <1>5 DEF logTransaction
<1>7. afterTransaction(logTransaction(s, m)) \in Store
  BY <1>6 DEF afterTransaction
<1>8. ackCode(s, m) \in Int
  BY DEF ackCode, SIM_KILL, SIM_OK
<1> QED
  BY <1>6, <1>7, <1>8

\* The first layer of the inductive invariant: types and lives.
TypeInv == StateTypeOK /\ LifeInv

\* The topology server only reports ports that exist.
LEMMA PublishedType ==
  ASSUME StateTypeOK, LifeInv, NEW ids
  PROVE  published(ids) \subseteq Port
<1> SUFFICES ASSUME NEW i \in ItemTask, sock[i] # "closed"
             PROVE  port(i) \in Port
  BY DEF published
<1>1. life[i] \in 0 .. Repeats
  BY DEF StateTypeOK, Task
<1>2. life[i] >= 1
  BY DEF LifeInv
<1> QED
  BY <1>1, <1>2, BoundAssumption DEF port, Port

\* A backlog in which one customer is replaced by Gone is a backlog.
LEMMA OrphanType ==
  ASSUME NEW q \in Seq(CustTask \cup {Gone}), NEW c
  PROVE  orphaned(q, c) \in Seq(CustTask \cup {Gone})
<1> DEFINE f(k) == IF q[k] = c THEN Gone ELSE q[k]
<1>1. DOMAIN q = 1 .. Len(q) /\ Len(q) \in Nat
  OBVIOUS
<1>2. \A k \in 1 .. Len(q) : f(k) \in CustTask \cup {Gone}
  OBVIOUS
<1> HIDE DEF f
<1>3. [k \in 1 .. Len(q) |-> f(k)] \in Seq(CustTask \cup {Gone})
  BY <1>1, <1>2, IsASeq
<1> QED
  BY <1>1, <1>3 DEF f, orphaned

\* Closing an item's socket keeps the types.
LEMMA CloseItemType ==
  ASSUME StateTypeOK, NEW i \in ItemTask, closeItem(i)
  PROVE  /\ sock' = [sock EXCEPT ![i] = "closed"]
         /\ backlog' \in [ItemTask -> Seq(CustTask \cup {Gone})]
         /\ conn' \in [CustTask -> [to : Port \cup {Gone},
                                   st : {"none", "syn", "reply", "rejected"}]]
         /\ UNCHANGED <<tid, took>>
BY DEF StateTypeOK, closeItem

\* An item task that closes its socket and goes on to the loop's next round
\* (if one is left) or to its end keeps LifeInv.
LEMMA CloseItemLife ==
  ASSUME StateTypeOK, LifeInv, NEW i \in ItemTask, NEW next \in {"end", "lag"},
         next = "lag" => life[i] < Repeats,
         sock' = [sock EXCEPT ![i] = "closed"],
         pc' = [pc EXCEPT ![i] = next],
         life' = life
  PROVE  LifeInv'
<1> USE TaskAssumption DEF Task, Proc
<1>1. ASSUME NEW t \in Task
      PROVE  /\ pc'[t] = "off" => life'[t] = 0
             /\ pc'[t] = "lag" => life'[t] < Repeats
  BY <1>1 DEF StateTypeOK, LifeInv
<1>2. ASSUME NEW j \in ItemTask, pc'[j] = "bound" \/ sock'[j] # "closed"
      PROVE  life'[j] >= 1
  <2>1. j # i /\ pc'[j] = pc[j] /\ sock'[j] = sock[j]
    BY <1>2 DEF StateTypeOK
  <2> QED
    BY <1>2, <2>1 DEF LifeInv
<1> QED
  BY <1>1, <1>2 DEF LifeInv

\* Answering a request keeps the types.
LEMMA AnswerType ==
  ASSUME StateTypeOK, NEW i \in ItemTask, NEW st \in {"reply", "rejected"}, answer(i, st)
  PROVE  /\ backlog' \in [ItemTask -> Seq(CustTask \cup {Gone})]
         /\ conn' \in [CustTask -> [to : Port \cup {Gone},
                                   st : {"none", "syn", "reply", "rejected"}]]
<1>1. /\ backlog[i] \in Seq(CustTask \cup {Gone})
      /\ backlog[i] # <<>>
      /\ backlog' = [backlog EXCEPT ![i] = Tail(@)]
  BY DEF StateTypeOK, answer
<1>2. Tail(backlog[i]) \in Seq(CustTask \cup {Gone})
  BY <1>1
<1>3. backlog' \in [ItemTask -> Seq(CustTask \cup {Gone})]
  BY <1>1, <1>2 DEF StateTypeOK
<1>4. conn' \in [CustTask -> [to : Port \cup {Gone}, st : {"none", "syn", "reply", "rejected"}]]
  BY DEF StateTypeOK, answer
<1> QED
  BY <1>3, <1>4

\* Every step of every process keeps the types and counts the lives.
LEMMA TypeStep ==
  ASSUME StateTypeOK, LifeInv, [Next]_vars
  PROVE  TypeInv'
<1> USE HomeAssumption, TaskAssumption, BoundAssumption
      DEF StateTypeOK, Task, Proc, Code, logVars, sockVars, subVars, custVars
<1>1. ASSUME NEW p \in Proc, SimLogSend(p)
      PROVE  TypeInv'
  <2>1. logq' \in [Node -> Seq(Proc)] /\ ack' \in [Proc -> Int]
    <3>1. CASE simFind(home[p])
      <4>1. home[p] \in Node /\ logq[home[p]] \in Seq(Proc)
        OBVIOUS
      <4>2. Append(logq[home[p]], p) \in Seq(Proc)
        BY <4>1, AppendProperties
      <4>3. logq' = [logq EXCEPT ![home[p]] = Append(@, p)] /\ ack' = ack
        BY <1>1, <3>1 DEF SimLogSend
      <4> QED
        BY <4>1, <4>2, <4>3
    <3>2. CASE ~ simFind(home[p])
      BY <1>1, <3>2 DEF SimLogSend, SIM_ERROR
    <3> QED
      BY <3>1, <3>2
  <2>2. pc' = [pc EXCEPT ![p] = "wait"] \/ pc' = [pc EXCEPT ![p] = "ret"]
    BY <1>1 DEF SimLogSend
  <2>3. UNCHANGED <<log, store, watch, sessions, req, item, life, sockVars, subVars, custVars, zero>>
    BY <1>1 DEF SimLogSend
  <2>4. StateTypeOK'
    BY <2>1, <2>2, <2>3, ZenonT(60)
  <2>5. LifeInv'
    BY <2>2, <2>3 DEF LifeInv
  <2> QED
    BY <2>4, <2>5 DEF TypeInv
<1>2. ASSUME NEW n \in Node, LogBind(n)
      PROVE  TypeInv'
  <2>1. NewStore \in Store
    BY DEF NewStore, Store, SimState
  <2>2. watch' \in [Node -> Seq({"TIPC_PUBLISHED", "TIPC_WITHDRAWN"})]
    <3>1. CASE ZeroUp
      <4>1. <<"TIPC_PUBLISHED">> \in Seq({"TIPC_PUBLISHED", "TIPC_WITHDRAWN"})
        OBVIOUS
      <4> QED
        BY <1>2, <3>1, <4>1 DEF LogBind
    <3>2. CASE ~ ZeroUp
      BY <1>2, <3>2 DEF LogBind
    <3> QED
      BY <3>1, <3>2
  <2>3. StateTypeOK'
    BY <1>2, <2>1, <2>2 DEF LogBind, NewStore, Store, SimState
  <2>4. LifeInv'
    BY <1>2, <2>1, <2>2 DEF LogBind, NewStore, Store, SimState, LifeInv
  <2> QED
    BY <2>3, <2>4 DEF TypeInv
<1>3. ASSUME NEW n \in Node, LogTransaction(n)
      PROVE  TypeInv'
  <2> DEFINE p == Head(logq[n])
             s == logTransaction(store[n], message(p))
  <2>1. p \in Proc /\ Tail(logq[n]) \in Seq(Proc)
    BY <1>3 DEF LogTransaction
  <2>2. message(p).item \in ItemID
    BY <2>1 DEF message
  <2>3. afterTransaction(s) \in Store /\ ackCode(store[n], message(p)) \in Int
    BY <2>2, TransactionType
  <2>4. /\ store' = [store EXCEPT ![n] = afterTransaction(s)]
        /\ ack' = [ack EXCEPT ![p] = ackCode(store[n], message(p))]
        /\ logq' = [logq EXCEPT ![n] = Tail(@)]
        /\ log' = [log EXCEPT ![n] = IF s.simState = "STORE_EMPTY" THEN "none" ELSE @]
        /\ watch' = [watch EXCEPT ![n] = IF s.simState = "STORE_EMPTY" THEN <<>> ELSE @]
        /\ UNCHANGED <<sessions, req, item, life, sockVars, subVars, custVars, zero>>
    BY <1>3 DEF LogTransaction
  <2>5. \/ pc' = [pc EXCEPT ![p] = "ret"]
        \/ \E j \in Janitor : pc' = [pc EXCEPT ![p] = "ret", ![j] = "scan"]
    BY <1>3 DEF LogTransaction
  <2> HIDE DEF p, s
  <2>6. watch' \in [Node -> Seq({"TIPC_PUBLISHED", "TIPC_WITHDRAWN"})]
    BY <2>4
  <2>7. StateTypeOK'
    <3>1. pc' \in [Proc -> {"off", "lag", "bound", "sell", "enter", "shop", "ask",
                            "scan", "sweep", "call", "wait", "ret", "end"}]
      BY <2>1, <2>5, ZenonT(60)
    <3> QED
      BY <2>1, <2>3, <2>4, <2>6, <3>1
  <2>8. \A t \in Task : pc'[t] = pc[t] \/ pc'[t] = "ret"
    BY <2>1, <2>5
  <2>9. LifeInv'
    BY <2>4, <2>8 DEF LifeInv
  <2> QED
    BY <2>7, <2>9 DEF TypeInv
<1>4. ASSUME NEW n \in Node, LogWatch(n)
      PROVE  TypeInv'
  <2>1. StateTypeOK'
    BY <1>4 DEF LogWatch, readWatch
  <2>2. LifeInv'
    BY <1>4 DEF LogWatch, readWatch, LifeInv
  <2> QED
    BY <2>1, <2>2 DEF TypeInv
<1>5. ASSUME NEW n \in Node, LogHalted(n)
      PROVE  TypeInv'
  <2>1. StateTypeOK'
    BY <1>5 DEF LogHalted, readWatch
  <2>2. LifeInv'
    BY <1>5 DEF LogHalted, readWatch, LifeInv
  <2> QED
    BY <2>1, <2>2 DEF TypeInv
<1>6. ASSUME NEW i \in ItemTask, ItemPublish(i)
      PROVE  TypeInv'
  <2>1. <<i, life[i] + 1>> \in Port /\ life[i] + 1 \in 0 .. Repeats /\ life[i] + 1 >= 1
    BY <1>6 DEF ItemPublish, Port, LifeInv
  <2>2. item' \in [Proc -> ItemID]
    BY <1>6 DEF ItemPublish
  <2>3. PICK k \in ItemID :
          pend' = [s \in Subscriber |->
                     IF subscr[s] = "live" /\ (s \in CustTask => item[s] = k)
                     THEN pend[s] \cup {<<i, life[i] + 1>>} ELSE pend[s]]
    BY <1>6 DEF ItemPublish
  <2>4. pend' \in [Subscriber -> SUBSET Port]
    BY <2>1, <2>3, ZenonT(60)
  <2>5. /\ life' = [life EXCEPT ![i] = @ + 1]
        /\ sock' = [sock EXCEPT ![i] = "bound"]
        /\ pc' = [pc EXCEPT ![i] = "bound"]
        /\ UNCHANGED <<logVars, req, ack, backlog, subscr, custVars, zero>>
    BY <1>6 DEF ItemPublish
  <2>6. StateTypeOK'
    BY <2>1, <2>2, <2>4, <2>5
  <2>7. LifeInv'
    BY <2>1, <2>5 DEF LifeInv
  <2> QED
    BY <2>6, <2>7 DEF TypeInv
<1>7. ASSUME NEW i \in ItemTask, ItemListen(i)
      PROVE  TypeInv'
  <2>1. StateTypeOK'
    BY <1>7 DEF ItemListen, calls
  <2>2. LifeInv'
    BY <1>7 DEF ItemListen, calls, LifeInv
  <2> QED
    BY <2>1, <2>2 DEF TypeInv
<1>8. ASSUME NEW i \in ItemTask, ItemInReturn(i)
      PROVE  TypeInv'
  <2>1. CASE ack[i] < 0
    <3>a. /\ closeItem(i) /\ pc' = [pc EXCEPT ![i] = "end"]
          /\ UNCHANGED <<logVars, req, ack, item, life, subVars, zero>>
      BY <1>8, <2>1 DEF ItemInReturn
    <3>1. StateTypeOK'
      BY <3>a, CloseItemType, ZenonT(60)
    <3>2. LifeInv'
      BY <3>a, CloseItemLife DEF closeItem
    <3> QED
      BY <3>1, <3>2 DEF TypeInv
  <2>2. CASE ~ (ack[i] < 0)
    <3>1. StateTypeOK'
      BY <1>8, <2>2, ZenonT(60) DEF ItemInReturn
    <3>2. LifeInv'
      BY <1>8, <2>2 DEF ItemInReturn, LifeInv
    <3> QED
      BY <3>1, <3>2 DEF TypeInv
  <2> QED
    BY <2>1, <2>2
<1>9. ASSUME NEW i \in ItemTask, ItemReply(i)
      PROVE  TypeInv'
  <2>1. StateTypeOK'
    BY <1>9, AnswerType DEF ItemReply, answer, calls
  <2>2. LifeInv'
    BY <1>9, AnswerType DEF ItemReply, answer, calls, LifeInv
  <2> QED
    BY <2>1, <2>2 DEF TypeInv
<1>10. ASSUME NEW i \in ItemTask, ItemReplyFails(i)
      PROVE  TypeInv'
  <2>1. StateTypeOK'
    BY <1>10, AnswerType DEF ItemReplyFails, answer, calls
  <2>2. LifeInv'
    BY <1>10, AnswerType DEF ItemReplyFails, answer, calls, LifeInv
  <2> QED
    BY <2>1, <2>2 DEF TypeInv
<1>11. ASSUME NEW i \in ItemTask, ItemWarnReturn(i)
      PROVE  TypeInv'
  <2>1. StateTypeOK'
    BY <1>11 DEF ItemWarnReturn, returned
  <2>2. LifeInv'
    BY <1>11 DEF ItemWarnReturn, returned, LifeInv
  <2> QED
    BY <2>1, <2>2 DEF TypeInv
<1>12. ASSUME NEW i \in ItemTask, ItemOutReturn(i)
      PROVE  TypeInv'
  <2>1. StateTypeOK'
    BY <1>12, CloseItemType DEF ItemOutReturn, closeItem, returned, taskLoop
  <2>2. LifeInv'
    <3>1. PICK next \in {"end", "lag"} :
            /\ next = "lag" => life[i] < Repeats
            /\ pc' = [pc EXCEPT ![i] = next]
      <4>1. pc' = [pc EXCEPT ![i] = IF ack[i] < 0 \/ life[i] >= Repeats THEN "end" ELSE "lag"]
        BY <1>12 DEF ItemOutReturn, taskLoop
      <4>2. CASE ack[i] < 0 \/ life[i] >= Repeats
        BY <4>1, <4>2
      <4>3. CASE ~ (ack[i] < 0 \/ life[i] >= Repeats)
        <5>1. life[i] < Repeats
          BY <4>3
        <5> QED
          BY <4>1, <4>3, <5>1
      <4> QED
        BY <4>2, <4>3
    <3>2. sock' = [sock EXCEPT ![i] = "closed"] /\ life' = life
      BY <1>12 DEF ItemOutReturn, closeItem
    <3> QED
      BY <3>1, <3>2, CloseItemLife
  <2> QED
    BY <2>1, <2>2 DEF TypeInv
<1>13. ASSUME NEW i \in ItemTask, ItemFault(i)
      PROVE  TypeInv'
  <2>1. StateTypeOK'
    BY <1>13 DEF ItemFault, calls
  <2>2. LifeInv'
    BY <1>13 DEF ItemFault, calls, LifeInv
  <2> QED
    BY <2>1, <2>2 DEF TypeInv
<1>14. ASSUME NEW i \in ItemTask, ItemFaultReturn(i)
      PROVE  TypeInv'
  <2>1. StateTypeOK'
    BY <1>14, CloseItemType DEF ItemFaultReturn, closeItem, returned
  <2>2. LifeInv'
    BY <1>14, CloseItemLife DEF ItemFaultReturn, closeItem
  <2> QED
    BY <2>1, <2>2 DEF TypeInv
<1>15. ASSUME NEW c \in CustTask, CustArrive(c)
      PROVE  TypeInv'
  <2>1. item' \in [Proc -> ItemID] /\ life[c] + 1 \in 1 .. Repeats
    BY <1>15 DEF CustArrive, LifeInv
  <2>2. StateTypeOK'
    BY <1>15, <2>1, SMTT(60) DEF CustArrive, calls
  <2>3. LifeInv'
    BY <1>15, <2>1 DEF CustArrive, calls, LifeInv
  <2> QED
    BY <2>2, <2>3 DEF TypeInv
<1>16. ASSUME NEW c \in CustTask, CustInReturn(c)
      PROVE  TypeInv'
  <2>1. StateTypeOK'
    BY <1>16 DEF CustInReturn, returned
  <2>2. LifeInv'
    BY <1>16 DEF CustInReturn, returned, LifeInv
  <2> QED
    BY <2>1, <2>2 DEF TypeInv
<1>17. ASSUME NEW c \in CustTask, CustSubscribe(c)
      PROVE  TypeInv'
  <2>1. StateTypeOK'
    BY <1>17, PublishedType, ZenonT(60) DEF CustSubscribe, published, port, Port, Subscriber
  <2>2. LifeInv'
    BY <1>17, PublishedType DEF CustSubscribe, published, port, Port, Subscriber, LifeInv
  <2> QED
    BY <2>1, <2>2 DEF TypeInv
<1>18. ASSUME NEW c \in CustTask, CustRequest(c)
      PROVE  TypeInv'
  <2>1. PICK p \in pend[c] :
          /\ pend' = [pend EXCEPT ![c] = @ \ {p}]
          /\ \E st \in {"syn", "rejected"} : conn' = [conn EXCEPT ![c] = [to |-> p, st |-> st]]
          /\ backlog' = backlog \/ backlog' = [backlog EXCEPT ![p[1]] = Append(@, c)]
    BY <1>18 DEF CustRequest
  <2>2. p \in Port /\ p[1] \in ItemTask /\ c \in Subscriber
    BY <2>1 DEF Port, Subscriber
  <2>3. backlog' \in [ItemTask -> Seq(CustTask \cup {Gone})]
    <3>1. Append(backlog[p[1]], c) \in Seq(CustTask \cup {Gone})
      BY <2>2, AppendProperties
    <3> QED
      BY <2>1, <2>2, <3>1, ZenonT(60)
  <2>4. /\ conn' \in [CustTask -> [to : Port \cup {Gone}, st : {"none", "syn", "reply", "rejected"}]]
        /\ pend' \in [Subscriber -> SUBSET Port]
    <3>1. pend[c] \ {p} \in SUBSET Port
      BY <2>2
    <3>2. pend' \in [Subscriber -> SUBSET Port]
      BY <2>1, <2>2, <3>1
    <3>3. PICK st \in {"syn", "rejected"} : conn' = [conn EXCEPT ![c] = [to |-> p, st |-> st]]
      BY <2>1
    <3>4. conn' \in [CustTask -> [to : Port \cup {Gone}, st : {"none", "syn", "reply", "rejected"}]]
      BY <2>2, <3>3
    <3> QED
      BY <3>2, <3>4
  <2>5. /\ tid' = [tid EXCEPT ![c] = @ + 1]
        /\ pc' = [pc EXCEPT ![c] = "ask"]
        /\ UNCHANGED <<logVars, req, ack, item, life, sock, subscr, took, zero>>
    BY <1>18 DEF CustRequest
  <2>6. StateTypeOK'
    BY <2>3, <2>4, <2>5, SMTT(60)
  <2>7. LifeInv'
    BY <2>5 DEF LifeInv
  <2> QED
    BY <2>6, <2>7 DEF TypeInv
<1>19. ASSUME NEW c \in CustTask, CustGotItem(c)
      PROVE  TypeInv'
  <2>1. StateTypeOK'
    BY <1>19 DEF CustGotItem, calls
  <2>2. LifeInv'
    BY <1>19 DEF CustGotItem, calls, LifeInv
  <2> QED
    BY <2>1, <2>2 DEF TypeInv
<1>20. ASSUME NEW c \in CustTask, CustRejected(c)
      PROVE  TypeInv'
  <2>1. StateTypeOK'
    BY <1>20 DEF CustRejected, calls
  <2>2. LifeInv'
    BY <1>20 DEF CustRejected, calls, LifeInv
  <2> QED
    BY <2>1, <2>2 DEF TypeInv
<1>21. ASSUME NEW c \in CustTask, CustNoReply(c)
      PROVE  TypeInv'
  <2>1. StateTypeOK'
    BY <1>21 DEF CustNoReply, calls
  <2>2. LifeInv'
    BY <1>21 DEF CustNoReply, calls, LifeInv
  <2> QED
    BY <2>1, <2>2 DEF TypeInv
<1>22. ASSUME NEW c \in CustTask, CustMissed(c)
      PROVE  TypeInv'
  <2>1. \A i \in ItemTask : backlog[i] \in Seq(CustTask \cup {Gone})
    OBVIOUS
  <2>2. \A i \in ItemTask : orphaned(backlog[i], c) \in Seq(CustTask \cup {Gone})
    BY <2>1, OrphanType
  <2>3. backlog' \in [ItemTask -> Seq(CustTask \cup {Gone})]
    BY <1>22, <2>2 DEF CustMissed
  <2>4. conn' \in [CustTask -> [to : Port \cup {Gone}, st : {"none", "syn", "reply", "rejected"}]]
    BY <1>22 DEF CustMissed, NoConn
  <2>5. /\ pc' = [pc EXCEPT ![c] = "shop"]
        /\ UNCHANGED <<logVars, req, ack, item, life, sock, subVars, tid, took, zero>>
    BY <1>22 DEF CustMissed
  <2>6. StateTypeOK'
    BY <2>3, <2>4, <2>5
  <2>7. LifeInv'
    BY <2>5 DEF LifeInv
  <2> QED
    BY <2>6, <2>7 DEF TypeInv
<1>23. ASSUME NEW c \in CustTask, CustWalkOut(c)
      PROVE  TypeInv'
  <2>1. StateTypeOK'
    BY <1>23 DEF CustWalkOut, calls
  <2>2. LifeInv'
    BY <1>23 DEF CustWalkOut, calls, LifeInv
  <2> QED
    BY <2>1, <2>2 DEF TypeInv
<1>24. ASSUME NEW c \in CustTask, CustOutReturn(c)
      PROVE  TypeInv'
  <2>1. StateTypeOK'
    BY <1>24 DEF CustOutReturn, leaveStore, returned, taskLoop, NoConn, Subscriber
  <2>2. LifeInv'
    BY <1>24 DEF CustOutReturn, leaveStore, returned, taskLoop, NoConn, Subscriber, LifeInv
  <2> QED
    BY <2>1, <2>2 DEF TypeInv
<1>25. ASSUME NEW c \in CustTask, CustFault(c)
      PROVE  TypeInv'
  <2>1. StateTypeOK'
    BY <1>25 DEF CustFault, calls
  <2>2. LifeInv'
    BY <1>25 DEF CustFault, calls, LifeInv
  <2> QED
    BY <2>1, <2>2 DEF TypeInv
<1>26. ASSUME NEW c \in CustTask, CustFaultReturn(c)
      PROVE  TypeInv'
  <2>1. StateTypeOK'
    BY <1>26 DEF CustFaultReturn, leaveStore, returned, NoConn, Subscriber
  <2>2. LifeInv'
    BY <1>26 DEF CustFaultReturn, leaveStore, returned, NoConn, Subscriber, LifeInv
  <2> QED
    BY <2>1, <2>2 DEF TypeInv
<1>27. ASSUME NEW s \in Subscriber, SubscrTimeout(s)
      PROVE  TypeInv'
  <2>1. StateTypeOK'
    BY <1>27 DEF SubscrTimeout
  <2>2. LifeInv'
    BY <1>27 DEF SubscrTimeout, LifeInv
  <2> QED
    BY <2>1, <2>2 DEF TypeInv
<1>28. ASSUME NEW j \in Janitor, JanitorSubscribe(j)
      PROVE  TypeInv'
  <2>1. StateTypeOK'
    BY <1>28, PublishedType, ZenonT(60) DEF JanitorSubscribe, published, port, Port, Subscriber
  <2>2. LifeInv'
    BY <1>28, PublishedType DEF JanitorSubscribe, published, port, Port, Subscriber, LifeInv
  <2> QED
    BY <2>1, <2>2 DEF TypeInv
<1>29. ASSUME NEW j \in Janitor, JanitorEvent(j)
      PROVE  TypeInv'
  <2>1. PICK p \in pend[j] :
          /\ pend' = [pend EXCEPT ![j] = @ \ {p}]
          /\ backlog' = backlog \/ backlog' = [backlog EXCEPT ![p[1]] = Append(@, Gone)]
    BY <1>29 DEF JanitorEvent, sweepPort
  <2>2. p[1] \in ItemTask /\ j \in Subscriber
    BY <2>1 DEF Port, Subscriber
  <2>3. /\ backlog' \in [ItemTask -> Seq(CustTask \cup {Gone})]
        /\ pend' \in [Subscriber -> SUBSET Port]
    <3>1. Append(backlog[p[1]], Gone) \in Seq(CustTask \cup {Gone})
      BY <2>2, AppendProperties
    <3>2. pend[j] \ {p} \in SUBSET Port
      BY <2>2
    <3>3. backlog' \in [ItemTask -> Seq(CustTask \cup {Gone})]
      BY <2>1, <2>2, <3>1, ZenonT(60)
    <3>4. pend' \in [Subscriber -> SUBSET Port]
      BY <2>1, <2>2, <3>2
    <3> QED
      BY <3>3, <3>4
  <2>4. StateTypeOK'
    BY <1>29, <2>3 DEF JanitorEvent, sweepPort, Subscriber
  <2>5. LifeInv'
    BY <1>29, <2>3 DEF JanitorEvent, sweepPort, Subscriber, LifeInv
  <2> QED
    BY <2>4, <2>5 DEF TypeInv
<1>30. ASSUME NEW j \in Janitor, JanitorDone(j)
      PROVE  TypeInv'
  <2>1. StateTypeOK'
    BY <1>30 DEF JanitorDone, calls
  <2>2. LifeInv'
    BY <1>30 DEF JanitorDone, calls, LifeInv
  <2> QED
    BY <2>1, <2>2 DEF TypeInv
<1>31. ASSUME NEW j \in Janitor, JanitorFault(j)
      PROVE  TypeInv'
  <2>1. StateTypeOK'
    BY <1>31 DEF JanitorFault, calls
  <2>2. LifeInv'
    BY <1>31 DEF JanitorFault, calls, LifeInv
  <2> QED
    BY <2>1, <2>2 DEF TypeInv
<1>32. ASSUME NEW j \in Janitor, JanitorFaultReturn(j)
      PROVE  TypeInv'
  <2>1. StateTypeOK'
    BY <1>32 DEF JanitorFaultReturn, calls, returned
  <2>2. LifeInv'
    BY <1>32 DEF JanitorFaultReturn, calls, returned, LifeInv
  <2> QED
    BY <2>1, <2>2 DEF TypeInv
<1>33. ASSUME NEW j \in Janitor, JanitorExit(j)
      PROVE  TypeInv'
  <2>1. logq' \in [Node -> Seq(Proc)]
    BY <1>33 DEF JanitorExit
  <2>2. \A p \in Proc : pc'[p] \in {pc[p], "end", "ret"} /\ (p # j => pc'[p] # "end" \/ pc'[p] = pc[p])
    BY <1>33 DEF JanitorExit
  <2>3. ack' \in [Proc -> Int]
    BY <1>33 DEF JanitorExit, SIM_ERROR
  <2>4. pc' \in [Proc -> {"off", "lag", "bound", "sell", "enter", "shop", "ask",
                          "scan", "sweep", "call", "wait", "ret", "end"}]
    BY <1>33 DEF JanitorExit
  <2>5. StateTypeOK'
    BY <1>33, <2>1, <2>2, <2>3, <2>4 DEF JanitorExit, returned, Subscriber
  <2>6. LifeInv'
    BY <1>33, <2>1, <2>2, <2>3, <2>4 DEF JanitorExit, returned, Subscriber, LifeInv
  <2> QED
    BY <2>5, <2>6 DEF TypeInv
<1>34. ASSUME NEW n \in Node, NewSim(n)
      PROVE  TypeInv'
  <2>1. StateTypeOK'
    BY <1>34, SMTT(60) DEF NewSim
  <2>2. LifeInv'
    BY <1>34 DEF NewSim, LifeInv
  <2> QED
    BY <2>1, <2>2 DEF TypeInv
<1>35. ASSUME NEW t \in Task, NewTask(t)
      PROVE  TypeInv'
  <2>1. StateTypeOK'
    BY <1>35 DEF NewTask
  <2>2. LifeInv'
    BY <1>35 DEF NewTask, LifeInv
  <2> QED
    BY <2>1, <2>2 DEF TypeInv
<1>36. ASSUME NEW k \in Killer, KillSim(k)
      PROVE  TypeInv'
  <2>1. StateTypeOK'
    BY <1>36 DEF KillSim, calls
  <2>2. LifeInv'
    BY <1>36 DEF KillSim, calls, LifeInv
  <2> QED
    BY <2>1, <2>2 DEF TypeInv
<1>37. ASSUME NEW k \in Killer, KillReturn(k)
      PROVE  TypeInv'
  <2>1. StateTypeOK'
    BY <1>37 DEF KillReturn, returned
  <2>2. LifeInv'
    BY <1>37 DEF KillReturn, returned, LifeInv
  <2> QED
    BY <2>1, <2>2 DEF TypeInv
<1>38. ASSUME NEW z \in ZeroTask, StopSim(z)
      PROVE  TypeInv'
  <2>1. watch' \in [Node -> Seq({"TIPC_PUBLISHED", "TIPC_WITHDRAWN"})]
    <3>1. CASE watch' = watch
      BY <3>1
    <3>2. CASE \E e \in {"TIPC_PUBLISHED", "TIPC_WITHDRAWN"} : tellLogs(e)
      BY <3>2 DEF tellLogs
    <3> QED
      BY <1>38, <3>1, <3>2 DEF StopSim
  <2>2. StateTypeOK'
    BY <1>38, <2>1 DEF StopSim, tellLogs
  <2>3. LifeInv'
    BY <1>38, <2>1 DEF StopSim, tellLogs, LifeInv
  <2> QED
    BY <2>2, <2>3 DEF TypeInv
<1>39. ASSUME NEW z \in ZeroTask, StartSim(z)
      PROVE  TypeInv'
  <2>1. StateTypeOK'
    BY <1>39 DEF StartSim
  <2>2. LifeInv'
    BY <1>39 DEF StartSim, LifeInv
  <2> QED
    BY <2>1, <2>2 DEF TypeInv
<1>40. ASSUME NEW z \in ZeroTask, ZeroExit(z)
      PROVE  TypeInv'
  <2>1. watch' \in [Node -> Seq({"TIPC_PUBLISHED", "TIPC_WITHDRAWN"})]
    <3>1. CASE watch' = watch
      BY <3>1
    <3>2. CASE \E e \in {"TIPC_PUBLISHED", "TIPC_WITHDRAWN"} : tellLogs(e)
      BY <3>2 DEF tellLogs
    <3> QED
      BY <1>40, <3>1, <3>2 DEF ZeroExit
  <2>2. StateTypeOK'
    BY <1>40, <2>1 DEF ZeroExit, tellLogs
  <2>3. LifeInv'
    BY <1>40, <2>1 DEF ZeroExit, tellLogs, LifeInv
  <2> QED
    BY <2>2, <2>3 DEF TypeInv
<1>41. CASE UNCHANGED vars
  BY <1>41 DEF TypeInv, LifeInv, vars
<1> QED
  BY <1>1, <1>2, <1>3, <1>4, <1>5, <1>6, <1>7, <1>8, <1>9, <1>10, <1>11,
     <1>12, <1>13, <1>14, <1>15, <1>16, <1>17, <1>18, <1>19, <1>20, <1>21,
     <1>22, <1>23, <1>24, <1>25, <1>26, <1>27, <1>28, <1>29, <1>30, <1>31,
     <1>32, <1>33, <1>34, <1>35, <1>36, <1>37, <1>38, <1>39, <1>40, <1>41
     DEF Next, Commands, Programs, LogStep, ItemStep, CustStep, JanitorStep, KillStep

-----------------------------------------------------------------------------
(***************************************************************************)
(* The second layer: who waits for a logging task.                         *)
(***************************************************************************)

\* A step that leaves the queues and everybody who waits alone.
LEMMA QueueFrame ==
  ASSUME StateTypeOK, QueueInv, logq' = logq,
         \A p \in Proc : pc[p] = "wait" => pc'[p] = "wait"
  PROVE  QueueInv'
<1>1. \A n \in Node : \A a \in 1 .. Len(logq[n]) : logq[n][a] \in Proc
  BY DEF StateTypeOK
<1> QED
  BY <1>1 DEF QueueInv

\* Every step keeps exactly the callers that block in recv queued.
LEMMA QueueStep ==
  ASSUME StateTypeOK, QueueInv, [Next]_vars
  PROVE  QueueInv'
<1> USE TaskAssumption DEF Task, Proc, logVars
<1>1. ASSUME NEW p \in Proc, SimLogSend(p)
      PROVE  QueueInv'
  <2>1. CASE simFind(home[p])
    <3> DEFINE h == home[p]
               q == logq[h]
    <3>1. /\ h \in Node /\ q \in Seq(Proc) /\ Len(q) \in Nat
          /\ \A n \in Node : logq[n] \in Seq(Proc)
          /\ \A n \in Node : \A a \in 1 .. Len(logq[n]) : logq[n][a] \in Proc
      BY HomeAssumption DEF StateTypeOK
    <3>2. /\ logq' = [logq EXCEPT ![h] = Append(@, p)]
          /\ pc' = [pc EXCEPT ![p] = "wait"]
          /\ pc[p] = "call"
      BY <1>1, <2>1 DEF SimLogSend
    <3>3. \A n \in Node : \A a \in 1 .. Len(logq[n]) : logq[n][a] # p /\ pc'[logq[n][a]] = "wait"
      BY <3>1, <3>2 DEF QueueInv, StateTypeOK
    <3>4. \A n \in Node : n # h => logq'[n] = logq[n]
      BY <3>1, <3>2 DEF StateTypeOK
    <3>5. /\ logq'[h] = Append(q, p)
          /\ Len(Append(q, p)) = Len(q) + 1
          /\ \A a \in 1 .. Len(q) : Append(q, p)[a] = q[a]
          /\ Append(q, p)[Len(q) + 1] = p
      BY <3>1, <3>2, AppendProperties DEF StateTypeOK
    <3>6. pc'[p] = "wait"
      BY <3>2 DEF StateTypeOK
    <3>7. \A a \in 1 .. Len(logq'[h]) : a \in 1 .. Len(q) \/ a = Len(q) + 1
      BY <3>1, <3>5
    <3> HIDE DEF h, q
    <3>8. ASSUME NEW n \in Node, NEW a \in 1 .. Len(logq'[n])
          PROVE  /\ pc'[logq'[n][a]] = "wait"
                 /\ home[logq'[n][a]] = n
                 /\ \A b \in 1 .. Len(logq'[n]) : logq'[n][a] = logq'[n][b] => a = b
      <4>1. CASE n # h
        BY <3>3, <3>4, <3>8, <4>1 DEF QueueInv
      <4>2. CASE n = h
        <5>1. \A b \in 1 .. Len(q) : /\ logq'[n][b] = q[b] /\ q[b] # p /\ pc'[q[b]] = "wait"
                                    /\ home[q[b]] = h
                                    /\ \A d \in 1 .. Len(q) : q[b] = q[d] => b = d
          BY <3>1, <3>3, <3>5, <4>2 DEF QueueInv, q
        <5>2. logq'[n][Len(q) + 1] = p /\ home[p] = h
          BY <3>5, <4>2 DEF h
        <5>3. CASE a \in 1 .. Len(q)
          BY <3>7, <4>2, <5>1, <5>2, <5>3
        <5>4. CASE a = Len(q) + 1
          BY <3>6, <3>7, <4>2, <5>1, <5>2, <5>4
        <5> QED
          BY <3>7, <3>8, <4>2, <5>3, <5>4
      <4> QED
        BY <4>1, <4>2
    <3> QED
      BY <3>8 DEF QueueInv
  <2>2. CASE ~ simFind(home[p])
    BY <1>1, <2>2, QueueFrame DEF SimLogSend, StateTypeOK
  <2> QED
    BY <2>1, <2>2
<1>2. ASSUME NEW n \in Node, LogBind(n)
      PROVE  QueueInv'
  BY <1>2, QueueFrame DEF LogBind, StateTypeOK
<1>3. ASSUME NEW n \in Node, LogTransaction(n)
      PROVE  QueueInv'
  <2> DEFINE q == logq[n]
             p == Head(q)
  <2>1. /\ q \in Seq(Proc) /\ q # <<>> /\ Len(q) \in Nat /\ p \in Proc
        /\ p = q[1] /\ 1 \in 1 .. Len(q)
        /\ \A m \in Node : \A a \in 1 .. Len(logq[m]) : logq[m][a] \in Proc
    BY <1>3 DEF LogTransaction, StateTypeOK
  <2>2. /\ Len(Tail(q)) = Len(q) - 1
        /\ \A a \in 1 .. Len(Tail(q)) : Tail(q)[a] = q[a + 1]
    BY <2>1, HeadTailProperties
  <2>3. logq' = [logq EXCEPT ![n] = Tail(q)]
    BY <1>3 DEF LogTransaction
  <2>4. \A x \in Proc : x # p /\ pc[x] = "wait" => pc'[x] = "wait"
    BY <1>3, <2>1 DEF LogTransaction, StateTypeOK
  <2>5. \A m \in Node : m # n => logq'[m] = logq[m]
    BY <2>3 DEF StateTypeOK
  <2>6. logq'[n] = Tail(q)
    BY <2>3 DEF StateTypeOK
  <2> HIDE DEF p, q
  <2>7. ASSUME NEW m \in Node, NEW a \in 1 .. Len(logq'[m])
        PROVE  /\ pc'[logq'[m][a]] = "wait"
               /\ home[logq'[m][a]] = m
               /\ \A b \in 1 .. Len(logq'[m]) : logq'[m][a] = logq'[m][b] => a = b
    <3>1. CASE m # n
      <4>1. logq[m][a] # p
        BY <2>1, <2>5, <2>7, <3>1 DEF QueueInv, q
      <4> QED
        BY <2>1, <2>4, <2>5, <2>7, <3>1, <4>1 DEF QueueInv
    <3>2. CASE m = n
      <4>1. a + 1 \in 1 .. Len(q) /\ a + 1 # 1 /\ logq'[m][a] = q[a + 1]
        BY <2>1, <2>2, <2>6, <2>7, <3>2
      <4>2. q[a + 1] # p /\ pc[q[a + 1]] = "wait" /\ home[q[a + 1]] = n
        BY <2>1, <4>1 DEF QueueInv, q
      <4>3. \A b \in 1 .. Len(logq'[m]) : b + 1 \in 1 .. Len(q) /\ logq'[m][b] = q[b + 1]
        BY <2>1, <2>2, <2>6, <3>2
      <4>4. \A b \in 1 .. Len(logq'[m]) : logq'[m][a] = logq'[m][b] => a + 1 = b + 1
        BY <4>1, <4>3 DEF QueueInv, q
      <4>5. \A b \in 1 .. Len(logq'[m]) : a + 1 = b + 1 => a = b
        OBVIOUS
      <4> QED
        BY <2>1, <2>4, <3>2, <4>1, <4>2, <4>4, <4>5 DEF q
    <3> QED
      BY <3>1, <3>2
  <2> QED
    BY <2>7 DEF QueueInv
<1>4. ASSUME NEW n \in Node, LogWatch(n)
      PROVE  QueueInv'
  BY <1>4, QueueFrame DEF LogWatch, readWatch, StateTypeOK
<1>5. ASSUME NEW n \in Node, LogHalted(n)
      PROVE  QueueInv'
  BY <1>5, QueueFrame DEF LogHalted, readWatch, StateTypeOK
<1>6. ASSUME NEW i \in ItemTask, ItemPublish(i)
      PROVE  QueueInv'
  BY <1>6, QueueFrame DEF ItemPublish, StateTypeOK
<1>7. ASSUME NEW i \in ItemTask, ItemListen(i)
      PROVE  QueueInv'
  BY <1>7, QueueFrame DEF ItemListen, calls, StateTypeOK
<1>8. ASSUME NEW i \in ItemTask, ItemInReturn(i)
      PROVE  QueueInv'
  BY <1>8, QueueFrame DEF ItemInReturn, closeItem, returned, StateTypeOK
<1>9. ASSUME NEW i \in ItemTask, ItemReply(i)
      PROVE  QueueInv'
  BY <1>9, QueueFrame DEF ItemReply, answer, calls, StateTypeOK
<1>10. ASSUME NEW i \in ItemTask, ItemReplyFails(i)
      PROVE  QueueInv'
  BY <1>10, QueueFrame DEF ItemReplyFails, answer, calls, StateTypeOK
<1>11. ASSUME NEW i \in ItemTask, ItemWarnReturn(i)
      PROVE  QueueInv'
  BY <1>11, QueueFrame DEF ItemWarnReturn, returned, StateTypeOK
<1>12. ASSUME NEW i \in ItemTask, ItemOutReturn(i)
      PROVE  QueueInv'
  BY <1>12, QueueFrame DEF ItemOutReturn, closeItem, returned, taskLoop, StateTypeOK
<1>13. ASSUME NEW i \in ItemTask, ItemFault(i)
      PROVE  QueueInv'
  BY <1>13, QueueFrame DEF ItemFault, calls, StateTypeOK
<1>14. ASSUME NEW i \in ItemTask, ItemFaultReturn(i)
      PROVE  QueueInv'
  BY <1>14, QueueFrame DEF ItemFaultReturn, closeItem, returned, StateTypeOK
<1>15. ASSUME NEW c \in CustTask, CustArrive(c)
      PROVE  QueueInv'
  BY <1>15, QueueFrame DEF CustArrive, calls, StateTypeOK
<1>16. ASSUME NEW c \in CustTask, CustInReturn(c)
      PROVE  QueueInv'
  BY <1>16, QueueFrame DEF CustInReturn, returned, StateTypeOK
<1>17. ASSUME NEW c \in CustTask, CustSubscribe(c)
      PROVE  QueueInv'
  BY <1>17, QueueFrame DEF CustSubscribe, StateTypeOK
<1>18. ASSUME NEW c \in CustTask, CustRequest(c)
      PROVE  QueueInv'
  BY <1>18, QueueFrame DEF CustRequest, StateTypeOK
<1>19. ASSUME NEW c \in CustTask, CustGotItem(c)
      PROVE  QueueInv'
  BY <1>19, QueueFrame DEF CustGotItem, calls, StateTypeOK
<1>20. ASSUME NEW c \in CustTask, CustRejected(c)
      PROVE  QueueInv'
  BY <1>20, QueueFrame DEF CustRejected, calls, StateTypeOK
<1>21. ASSUME NEW c \in CustTask, CustNoReply(c)
      PROVE  QueueInv'
  BY <1>21, QueueFrame DEF CustNoReply, calls, StateTypeOK
<1>22. ASSUME NEW c \in CustTask, CustMissed(c)
      PROVE  QueueInv'
  BY <1>22, QueueFrame DEF CustMissed, returned, StateTypeOK
<1>23. ASSUME NEW c \in CustTask, CustWalkOut(c)
      PROVE  QueueInv'
  BY <1>23, QueueFrame DEF CustWalkOut, calls, StateTypeOK
<1>24. ASSUME NEW c \in CustTask, CustOutReturn(c)
      PROVE  QueueInv'
  BY <1>24, QueueFrame DEF CustOutReturn, leaveStore, returned, taskLoop, StateTypeOK
<1>25. ASSUME NEW c \in CustTask, CustFault(c)
      PROVE  QueueInv'
  BY <1>25, QueueFrame DEF CustFault, calls, StateTypeOK
<1>26. ASSUME NEW c \in CustTask, CustFaultReturn(c)
      PROVE  QueueInv'
  BY <1>26, QueueFrame DEF CustFaultReturn, leaveStore, returned, StateTypeOK
<1>27. ASSUME NEW s \in Subscriber, SubscrTimeout(s)
      PROVE  QueueInv'
  BY <1>27, QueueFrame DEF SubscrTimeout, StateTypeOK
<1>28. ASSUME NEW j \in Janitor, JanitorSubscribe(j)
      PROVE  QueueInv'
  BY <1>28, QueueFrame DEF JanitorSubscribe, StateTypeOK
<1>29. ASSUME NEW j \in Janitor, JanitorEvent(j)
      PROVE  QueueInv'
  BY <1>29, QueueFrame DEF JanitorEvent, sweepPort, StateTypeOK
<1>30. ASSUME NEW j \in Janitor, JanitorDone(j)
      PROVE  QueueInv'
  BY <1>30, QueueFrame DEF JanitorDone, calls, StateTypeOK
<1>31. ASSUME NEW j \in Janitor, JanitorFault(j)
      PROVE  QueueInv'
  BY <1>31, QueueFrame DEF JanitorFault, calls, StateTypeOK
<1>32. ASSUME NEW j \in Janitor, JanitorFaultReturn(j)
      PROVE  QueueInv'
  BY <1>32, QueueFrame DEF JanitorFaultReturn, calls, returned, StateTypeOK
<1>33. ASSUME NEW j \in Janitor, JanitorExit(j)
      PROVE  QueueInv'
  <2> DEFINE n == home[j]
             last == log[n] = "none" /\ holders(n) = {j}
  <2>1. CASE ~ last
    BY <1>33, <2>1, QueueFrame DEF JanitorExit, returned, StateTypeOK
  <2>2. CASE last
    <3>1. n \in Node /\ logq' = [logq EXCEPT ![n] = <<>>]
      BY <1>33, <2>2, HomeAssumption DEF JanitorExit
    <3>2. \A m \in Node : \A a \in 1 .. Len(logq[m]) : logq[m][a] \in Proc
      BY DEF StateTypeOK
    <3>3. \A x \in Proc : home[x] # n /\ pc[x] = "wait" => pc'[x] = "wait"
      <4>1. \A k \in DOMAIN logq[n] : home[logq[n][k]] = n
        <5>1. logq[n] \in Seq(Proc)
          BY <3>1 DEF StateTypeOK
        <5>2. DOMAIN logq[n] = 1 .. Len(logq[n])
          BY <5>1
        <5> HIDE DEF n
        <5> QED
          BY <3>1, <5>2 DEF QueueInv
      <4> QED
        BY <1>33, <4>1 DEF JanitorExit, returned
    <3>4. \A m \in Node : IF m = n THEN logq'[m] = <<>> ELSE logq'[m] = logq[m]
      BY <3>1 DEF StateTypeOK
    <3> HIDE DEF n, last
    <3> QED
      BY <3>1, <3>2, <3>3, <3>4 DEF QueueInv
  <2> QED
    BY <2>1, <2>2
<1>34. ASSUME NEW n \in Node, NewSim(n)
      PROVE  QueueInv'
  BY <1>34, QueueFrame DEF NewSim, StateTypeOK
<1>35. ASSUME NEW t \in Task, NewTask(t)
      PROVE  QueueInv'
  BY <1>35, QueueFrame DEF NewTask, StateTypeOK
<1>36. ASSUME NEW k \in Killer, KillSim(k)
      PROVE  QueueInv'
  BY <1>36, QueueFrame DEF KillSim, calls, StateTypeOK
<1>37. ASSUME NEW k \in Killer, KillReturn(k)
      PROVE  QueueInv'
  BY <1>37, QueueFrame DEF KillReturn, returned, StateTypeOK
<1>38. ASSUME NEW z \in ZeroTask, StopSim(z)
      PROVE  QueueInv'
  BY <1>38, QueueFrame DEF StopSim, tellLogs, StateTypeOK
<1>39. ASSUME NEW z \in ZeroTask, StartSim(z)
      PROVE  QueueInv'
  BY <1>39, QueueFrame DEF StartSim, StateTypeOK
<1>40. ASSUME NEW z \in ZeroTask, ZeroExit(z)
      PROVE  QueueInv'
  BY <1>40, QueueFrame DEF ZeroExit, tellLogs, StateTypeOK
<1>41. CASE UNCHANGED vars
  BY <1>41, QueueFrame DEF vars
<1> QED
  BY <1>1, <1>2, <1>3, <1>4, <1>5, <1>6, <1>7, <1>8, <1>9, <1>10, <1>11,
     <1>12, <1>13, <1>14, <1>15, <1>16, <1>17, <1>18, <1>19, <1>20, <1>21,
     <1>22, <1>23, <1>24, <1>25, <1>26, <1>27, <1>28, <1>29, <1>30, <1>31,
     <1>32, <1>33, <1>34, <1>35, <1>36, <1>37, <1>38, <1>39, <1>40, <1>41
     DEF Next, Commands, Programs, LogStep, ItemStep, CustStep, JanitorStep, KillStep
=============================================================================
