---------------------------- MODULE CounterProofs ----------------------------
(***************************************************************************)
(* Proofs that the counters of the logging task count what they are meant  *)
(* to count, and that the janitor runs only in an empty store, for every   *)
(* number of stores, tasks, items and commands.                            *)
(***************************************************************************)
EXTENDS TradeProofs, FiniteSetTheorems

-----------------------------------------------------------------------------
(***************************************************************************)
(* The first layer: who sends which transaction.                           *)
(***************************************************************************)

\* The transaction the logging task reads belongs to a process of its node
\* that blocks in recv.
LEMMA FirstWaits ==
  ASSUME StateTypeOK, QueueInv, NEW n \in Node, logq[n] # <<>>
  PROVE  /\ Head(logq[n]) \in Proc
         /\ pc[Head(logq[n])] = "wait"
         /\ home[Head(logq[n])] = n
<1>1. logq[n] \in Seq(Proc)
  BY DEF StateTypeOK
<1>2. Head(logq[n]) = logq[n][1] /\ 1 \in 1 .. Len(logq[n]) /\ Head(logq[n]) \in Proc
  BY <1>1
<1> QED
  BY <1>2 DEF QueueInv

\* A step in which calls only go on, or fail.
LEMMA CodeFrame ==
  ASSUME StateTypeOK, CodeInv, req' = req,
         \A q \in Proc : /\ inCall(q)' => inCall(q)
                         /\ pc'[q] = "ret" => \/ pc[q] = "ret" /\ ack'[q] = ack[q]
                                              \/ ack'[q] = SIM_ERROR
  PROVE  CodeInv'
<1> USE TaskAssumption DEF Task, Proc, inCall
<1>1. /\ \A c \in CustTask : inCall(c)' => req'[c] \in custCodes
      /\ \A i \in ItemTask : inCall(i)' => req'[i] \in itemCodes
      /\ \A j \in Janitor : inCall(j)' => req'[j] \in {"SIM_ERROR", "SIM_DONE"}
      /\ \A k \in Killer : inCall(k)' => req'[k] = "SIM_KILL"
  BY DEF CodeInv
<1>2. \A c \in CustTask : returned(c, "SIM_CUST_IN")' => ack'[c] # SIM_OK
  BY DEF CodeInv, returned, SIM_OK, SIM_ERROR
<1>3. \A i \in ItemTask : returned(i, "SIM_ITEM_IN")' => ack'[i] <= SIM_OK
  BY DEF CodeInv, returned, SIM_OK, SIM_ERROR
<1> QED
  BY <1>1, <1>2, <1>3 DEF CodeInv, custCodes, itemCodes

\* Every step keeps track of the kind of transaction in progress.
LEMMA CodeStep ==
  ASSUME StateTypeOK, QueueInv, CodeInv, [Next]_vars
  PROVE  CodeInv'
<1> USE HomeAssumption, TaskAssumption
      DEF StateTypeOK, Task, Proc, Code, inCall, custCodes, itemCodes, logVars
<1>1. ASSUME NEW p \in Proc, SimLogSend(p)
      PROVE  CodeInv'
  <2>1. /\ req' = req
        /\ \A q \in Proc : /\ inCall(q)' => inCall(q)
                           /\ pc'[q] = "ret" => \/ pc[q] = "ret" /\ ack'[q] = ack[q]
                                                \/ ack'[q] = SIM_ERROR
    BY <1>1 DEF SimLogSend
  <2> QED
    BY <2>1, CodeFrame
<1>2. ASSUME NEW n \in Node, LogBind(n)
      PROVE  CodeInv'
  BY <1>2 DEF LogBind, CodeInv, returned
<1>3. ASSUME NEW n \in Node, LogTransaction(n)
      PROVE  CodeInv'
  <2> DEFINE p == Head(logq[n])
             m == message(p)
  <2>1. p \in Proc /\ pc[p] = "wait"
    BY <1>3, FirstWaits DEF LogTransaction
  <2>2. /\ ack' = [ack EXCEPT ![p] = ackCode(store[n], m)]
        /\ req' = req
        /\ \/ pc' = [pc EXCEPT ![p] = "ret"]
           \/ \E j \in Janitor : pc' = [pc EXCEPT ![p] = "ret", ![j] = "scan"]
    BY <1>3 DEF LogTransaction
  <2>3. m.code = req[p] /\ store[n].customerTotal \in Nat
    BY DEF message, Store
  <2>4. /\ req[p] = "SIM_CUST_IN" => ackCode(store[n], m) # SIM_OK
        /\ req[p] = "SIM_ITEM_IN" => ackCode(store[n], m) <= SIM_OK
    BY <2>3 DEF ackCode, SIM_KILL, SIM_OK
  <2> HIDE DEF p, m
  <2>5. \A q \in Proc : /\ q # p => ack'[q] = ack[q]
                        /\ inCall(q)' => inCall(q)
                        /\ pc'[q] = "ret" => q = p \/ pc[q] = "ret"
    BY <2>1, <2>2
  <2>6. ack'[p] = ackCode(store[n], m)
    BY <2>1, <2>2
  <2> QED
    BY <2>2, <2>4, <2>5, <2>6 DEF CodeInv, returned
<1>4. ASSUME NEW n \in Node, LogWatch(n)
      PROVE  CodeInv'
  BY <1>4 DEF LogWatch, readWatch, CodeInv, returned
<1>5. ASSUME NEW n \in Node, LogHalted(n)
      PROVE  CodeInv'
  BY <1>5 DEF LogHalted, readWatch, CodeInv, returned
<1>6. ASSUME NEW i \in ItemTask, ItemPublish(i)
      PROVE  CodeInv'
  BY <1>6 DEF ItemPublish, CodeInv, returned
<1>7. ASSUME NEW i \in ItemTask, ItemListen(i)
      PROVE  CodeInv'
  BY <1>7 DEF ItemListen, calls, CodeInv, returned
<1>8. ASSUME NEW i \in ItemTask, ItemInReturn(i)
      PROVE  CodeInv'
  BY <1>8 DEF ItemInReturn, returned, closeItem, CodeInv
<1>9. ASSUME NEW i \in ItemTask, ItemReply(i)
      PROVE  CodeInv'
  BY <1>9 DEF ItemReply, answer, calls, CodeInv, returned
<1>10. ASSUME NEW i \in ItemTask, ItemReplyFails(i)
      PROVE  CodeInv'
  BY <1>10 DEF ItemReplyFails, answer, calls, CodeInv, returned
<1>11. ASSUME NEW i \in ItemTask, ItemWarnReturn(i)
      PROVE  CodeInv'
  BY <1>11 DEF ItemWarnReturn, returned, CodeInv
<1>12. ASSUME NEW i \in ItemTask, ItemOutReturn(i)
      PROVE  CodeInv'
  BY <1>12 DEF ItemOutReturn, returned, closeItem, taskLoop, CodeInv
<1>13. ASSUME NEW i \in ItemTask, ItemFault(i)
      PROVE  CodeInv'
  BY <1>13 DEF ItemFault, calls, CodeInv, returned
<1>14. ASSUME NEW i \in ItemTask, ItemFaultReturn(i)
      PROVE  CodeInv'
  BY <1>14 DEF ItemFaultReturn, returned, closeItem, CodeInv
<1>15. ASSUME NEW c \in CustTask, CustArrive(c)
      PROVE  CodeInv'
  BY <1>15 DEF CustArrive, calls, CodeInv, returned
<1>16. ASSUME NEW c \in CustTask, CustInReturn(c)
      PROVE  CodeInv'
  BY <1>16 DEF CustInReturn, returned, CodeInv
<1>17. ASSUME NEW c \in CustTask, CustSubscribe(c)
      PROVE  CodeInv'
  BY <1>17 DEF CustSubscribe, CodeInv, returned
<1>18. ASSUME NEW c \in CustTask, CustRequest(c)
      PROVE  CodeInv'
  BY <1>18 DEF CustRequest, CodeInv, returned
<1>19. ASSUME NEW c \in CustTask, CustGotItem(c)
      PROVE  CodeInv'
  BY <1>19 DEF CustGotItem, calls, CodeInv, returned
<1>20. ASSUME NEW c \in CustTask, CustRejected(c)
      PROVE  CodeInv'
  BY <1>20 DEF CustRejected, calls, CodeInv, returned
<1>21. ASSUME NEW c \in CustTask, CustNoReply(c)
      PROVE  CodeInv'
  BY <1>21 DEF CustNoReply, calls, CodeInv, returned
<1>22. ASSUME NEW c \in CustTask, CustMissed(c)
      PROVE  CodeInv'
  BY <1>22 DEF CustMissed, returned, CodeInv
<1>23. ASSUME NEW c \in CustTask, CustWalkOut(c)
      PROVE  CodeInv'
  BY <1>23 DEF CustWalkOut, calls, CodeInv, returned
<1>24. ASSUME NEW c \in CustTask, CustOutReturn(c)
      PROVE  CodeInv'
  BY <1>24 DEF CustOutReturn, returned, leaveStore, taskLoop, CodeInv
<1>25. ASSUME NEW c \in CustTask, CustFault(c)
      PROVE  CodeInv'
  BY <1>25 DEF CustFault, calls, CodeInv, returned
<1>26. ASSUME NEW c \in CustTask, CustFaultReturn(c)
      PROVE  CodeInv'
  BY <1>26 DEF CustFaultReturn, returned, leaveStore, CodeInv
<1>27. ASSUME NEW s \in Subscriber, SubscrTimeout(s)
      PROVE  CodeInv'
  BY <1>27 DEF SubscrTimeout, CodeInv, returned
<1>28. ASSUME NEW j \in Janitor, JanitorSubscribe(j)
      PROVE  CodeInv'
  BY <1>28 DEF JanitorSubscribe, CodeInv, returned
<1>29. ASSUME NEW j \in Janitor, JanitorEvent(j)
      PROVE  CodeInv'
  BY <1>29 DEF JanitorEvent, sweepPort, CodeInv, returned
<1>30. ASSUME NEW j \in Janitor, JanitorDone(j)
      PROVE  CodeInv'
  BY <1>30 DEF JanitorDone, calls, CodeInv, returned
<1>31. ASSUME NEW j \in Janitor, JanitorFault(j)
      PROVE  CodeInv'
  BY <1>31 DEF JanitorFault, calls, CodeInv, returned
<1>32. ASSUME NEW j \in Janitor, JanitorFaultReturn(j)
      PROVE  CodeInv'
  BY <1>32 DEF JanitorFaultReturn, returned, calls, CodeInv
<1>33. ASSUME NEW j \in Janitor, JanitorExit(j)
      PROVE  CodeInv'
  <2>1. \A k \in DOMAIN logq[home[j]] : pc[logq[home[j]][k]] = "wait"
    BY DEF QueueInv
  <2>2. req' = req
    BY <1>33 DEF JanitorExit
  <2>3. ASSUME NEW q \in Proc
        PROVE  /\ inCall(q)' => inCall(q)
               /\ pc'[q] = "ret" => \/ pc[q] = "ret" /\ ack'[q] = ack[q]
                                    \/ ack'[q] = SIM_ERROR
    <3>1. CASE q = j
      BY <1>33, <3>1 DEF JanitorExit
    <3>2. CASE q # j /\ pc'[q] = pc[q] /\ ack'[q] = ack[q]
      BY <3>2
    <3>3. CASE pc'[q] = "ret" /\ ack'[q] = SIM_ERROR /\ pc[q] = "wait"
      BY <3>3
    <3> QED
      BY <1>33, <2>1, <3>1, <3>2, <3>3 DEF JanitorExit
  <2> QED
    BY <2>2, <2>3, CodeFrame
<1>34. ASSUME NEW n \in Node, NewSim(n)
      PROVE  CodeInv'
  BY <1>34 DEF NewSim, CodeInv, returned
<1>35. ASSUME NEW s \in Task, NewTask(s)
      PROVE  CodeInv'
  BY <1>35 DEF NewTask, CodeInv, returned
<1>36. ASSUME NEW k \in Killer, KillSim(k)
      PROVE  CodeInv'
  BY <1>36 DEF KillSim, calls, CodeInv, returned
<1>37. ASSUME NEW k \in Killer, KillReturn(k)
      PROVE  CodeInv'
  BY <1>37 DEF KillReturn, returned, CodeInv
<1>38. ASSUME NEW z \in ZeroTask, StopSim(z)
      PROVE  CodeInv'
  BY <1>38 DEF StopSim, tellLogs, CodeInv, returned
<1>39. ASSUME NEW z \in ZeroTask, StartSim(z)
      PROVE  CodeInv'
  BY <1>39 DEF StartSim, CodeInv, returned
<1>40. ASSUME NEW z \in ZeroTask, ZeroExit(z)
      PROVE  CodeInv'
  BY <1>40 DEF ZeroExit, tellLogs, CodeInv, returned
<1>41. CASE UNCHANGED vars
  BY <1>41 DEF vars, CodeInv, returned
<1> QED
  BY <1>1, <1>2, <1>3, <1>4, <1>5, <1>6, <1>7, <1>8, <1>9, <1>10, <1>11,
     <1>12, <1>13, <1>14, <1>15, <1>16, <1>17, <1>18, <1>19, <1>20, <1>21,
     <1>22, <1>23, <1>24, <1>25, <1>26, <1>27, <1>28, <1>29, <1>30, <1>31,
     <1>32, <1>33, <1>34, <1>35, <1>36, <1>37, <1>38, <1>39, <1>40, <1>41
     DEF Next, Commands, Programs, LogStep, ItemStep, CustStep, JanitorStep, KillStep

-----------------------------------------------------------------------------
(***************************************************************************)
(* What a step does to one item or customer task.                          *)
(***************************************************************************)

\* A step of the task itself.
own(t) == (t \in ItemTask /\ ItemStep(t)) \/ (t \in CustTask /\ CustStep(t))

\* A step of the others: the task may be forked, have its request cut off by
\* the last janitor, or have its connection answered, no more.
aside(t) ==
  /\ req'[t] = req[t]
  /\ \/ pc'[t] = pc[t] /\ ack'[t] = ack[t]
     \/ pc[t] = "off" /\ pc'[t] = "lag"
     \/ log[home[t]] = "none" /\ pc[t] = "wait" /\ pc'[t] = "ret" /\ ack'[t] = SIM_ERROR
  /\ t \in CustTask => conn'[t] = conn[t] \/ conn[t].st = "syn"

\* A customer on an item's backlog waits for its connection.
LEMMA QueuedSyn ==
  ASSUME StateTypeOK, BacklogInv, NEW i \in ItemTask, NEW c \in CustTask,
         c \in inBacklog(i) \/ (backlog[i] # <<>> /\ c = Head(backlog[i]))
  PROVE  conn[c].st = "syn"
<1>1. backlog[i] \in Seq(CustTask \cup {Gone})
  BY DEF StateTypeOK
<1>2. PICK k \in 1 .. Len(backlog[i]) : backlog[i][k] = c
  BY <1>1 DEF inBacklog
<1>3. c # Gone
  BY TaskAssumption DEF Proc, Task
<1>4. conn[c] = [to |-> port(i), st |-> "syn"]
  BY <1>2, <1>3 DEF BacklogInv
<1> QED
  BY <1>4

\* Every step but a transaction is the task's own, or leaves the task aside.
LEMMA TaskStep ==
  ASSUME StateTypeOK, QueueInv, BacklogInv, [Next]_vars,
         \A n \in Node : ~ LogTransaction(n)
  PROVE  \A t \in Task : own(t) \/ aside(t)
<1> USE HomeAssumption, TaskAssumption
      DEF StateTypeOK, Task, Proc, logVars, sockVars, subVars, custVars
<1>1. ASSUME NEW p \in Proc, SimLogSend(p)
      PROVE  \A t \in Task : own(t) \/ aside(t)
  <2>1. p \in Task => own(p)
    BY <1>1 DEF own, ItemStep, CustStep
  <2>2. \A t \in Task \ {p} : aside(t)
    BY <1>1 DEF SimLogSend, aside
  <2> QED
    BY <2>1, <2>2
<1>2. ASSUME NEW n \in Node, LogBind(n)
      PROVE  \A t \in Task : own(t) \/ aside(t)
  BY <1>2 DEF LogBind, aside
<1>3. ASSUME NEW n \in Node, LogTransaction(n)
      PROVE  \A t \in Task : own(t) \/ aside(t)
  BY <1>3
<1>4. ASSUME NEW n \in Node, LogWatch(n)
      PROVE  \A t \in Task : own(t) \/ aside(t)
  BY <1>4 DEF LogWatch, readWatch, aside
<1>5. ASSUME NEW n \in Node, LogHalted(n)
      PROVE  \A t \in Task : own(t) \/ aside(t)
  BY <1>5 DEF LogHalted, readWatch, aside
<1>6. ASSUME NEW i \in ItemTask, ItemPublish(i)
      PROVE  \A t \in Task : own(t) \/ aside(t)
  <2>1. own(i)
    BY <1>6 DEF own, ItemStep
  <2>2. \A t \in Task \ {i} : aside(t)
    BY <1>6 DEF ItemPublish, aside
  <2> QED
    BY <2>1, <2>2
<1>7. ASSUME NEW i \in ItemTask, ItemListen(i)
      PROVE  \A t \in Task : own(t) \/ aside(t)
  <2>1. own(i)
    BY <1>7 DEF own, ItemStep
  <2>2. \A t \in Task \ {i} : aside(t)
    BY <1>7 DEF ItemListen, calls, aside
  <2> QED
    BY <2>1, <2>2
<1>8. ASSUME NEW i \in ItemTask, ItemInReturn(i)
      PROVE  \A t \in Task : own(t) \/ aside(t)
  <2>1. own(i)
    BY <1>8 DEF own, ItemStep
  <2>2. \A t \in Task \ {i} : aside(t)
    <3>1. CASE closeItem(i) /\ pc' = [pc EXCEPT ![i] = "end"]
      BY <1>8, <3>1, QueuedSyn DEF ItemInReturn, closeItem, aside
    <3>2. CASE UNCHANGED custVars /\ pc' = [pc EXCEPT ![i] = "sell"]
      BY <1>8, <3>2 DEF ItemInReturn, aside
    <3> QED
      BY <1>8, <3>1, <3>2 DEF ItemInReturn
  <2> QED
    BY <2>1, <2>2
<1>9. ASSUME NEW i \in ItemTask, ItemReply(i)
      PROVE  \A t \in Task : own(t) \/ aside(t)
  <2>1. own(i)
    BY <1>9 DEF own, ItemStep
  <2>2. \A t \in Task \ {i} : aside(t)
    BY <1>9, QueuedSyn DEF ItemReply, answer, calls, aside
  <2> QED
    BY <2>1, <2>2
<1>10. ASSUME NEW i \in ItemTask, ItemReplyFails(i)
      PROVE  \A t \in Task : own(t) \/ aside(t)
  <2>1. own(i)
    BY <1>10 DEF own, ItemStep
  <2>2. \A t \in Task \ {i} : aside(t)
    BY <1>10, QueuedSyn DEF ItemReplyFails, answer, calls, aside
  <2> QED
    BY <2>1, <2>2
<1>11. ASSUME NEW i \in ItemTask, ItemWarnReturn(i)
      PROVE  \A t \in Task : own(t) \/ aside(t)
  <2>1. own(i)
    BY <1>11 DEF own, ItemStep
  <2>2. \A t \in Task \ {i} : aside(t)
    BY <1>11 DEF ItemWarnReturn, returned, aside
  <2> QED
    BY <2>1, <2>2
<1>12. ASSUME NEW i \in ItemTask, ItemOutReturn(i)
      PROVE  \A t \in Task : own(t) \/ aside(t)
  <2>1. own(i)
    BY <1>12 DEF own, ItemStep
  <2>2. \A t \in Task \ {i} : aside(t)
    BY <1>12, QueuedSyn DEF ItemOutReturn, returned, closeItem, taskLoop, aside
  <2> QED
    BY <2>1, <2>2
<1>13. ASSUME NEW i \in ItemTask, ItemFault(i)
      PROVE  \A t \in Task : own(t) \/ aside(t)
  <2>1. own(i)
    BY <1>13 DEF own, ItemStep
  <2>2. \A t \in Task \ {i} : aside(t)
    BY <1>13 DEF ItemFault, calls, aside
  <2> QED
    BY <2>1, <2>2
<1>14. ASSUME NEW i \in ItemTask, ItemFaultReturn(i)
      PROVE  \A t \in Task : own(t) \/ aside(t)
  <2>1. own(i)
    BY <1>14 DEF own, ItemStep
  <2>2. \A t \in Task \ {i} : aside(t)
    BY <1>14, QueuedSyn DEF ItemFaultReturn, returned, closeItem, aside
  <2> QED
    BY <2>1, <2>2
<1>15. ASSUME NEW c \in CustTask, CustArrive(c)
      PROVE  \A t \in Task : own(t) \/ aside(t)
  <2>1. own(c)
    BY <1>15 DEF own, CustStep
  <2>2. \A t \in Task \ {c} : aside(t)
    BY <1>15 DEF CustArrive, calls, aside
  <2> QED
    BY <2>1, <2>2
<1>16. ASSUME NEW c \in CustTask, CustInReturn(c)
      PROVE  \A t \in Task : own(t) \/ aside(t)
  <2>1. own(c)
    BY <1>16 DEF own, CustStep
  <2>2. \A t \in Task \ {c} : aside(t)
    BY <1>16 DEF CustInReturn, returned, aside
  <2> QED
    BY <2>1, <2>2
<1>17. ASSUME NEW c \in CustTask, CustSubscribe(c)
      PROVE  \A t \in Task : own(t) \/ aside(t)
  <2>1. own(c)
    BY <1>17 DEF own, CustStep
  <2>2. \A t \in Task \ {c} : aside(t)
    BY <1>17 DEF CustSubscribe, aside
  <2> QED
    BY <2>1, <2>2
<1>18. ASSUME NEW c \in CustTask, CustRequest(c)
      PROVE  \A t \in Task : own(t) \/ aside(t)
  <2>1. own(c)
    BY <1>18 DEF own, CustStep
  <2>2. \A t \in Task \ {c} : aside(t)
    BY <1>18 DEF CustRequest, aside
  <2> QED
    BY <2>1, <2>2
<1>19. ASSUME NEW c \in CustTask, CustGotItem(c)
      PROVE  \A t \in Task : own(t) \/ aside(t)
  <2>1. own(c)
    BY <1>19 DEF own, CustStep
  <2>2. \A t \in Task \ {c} : aside(t)
    BY <1>19 DEF CustGotItem, calls, aside
  <2> QED
    BY <2>1, <2>2
<1>20. ASSUME NEW c \in CustTask, CustRejected(c)
      PROVE  \A t \in Task : own(t) \/ aside(t)
  <2>1. own(c)
    BY <1>20 DEF own, CustStep
  <2>2. \A t \in Task \ {c} : aside(t)
    BY <1>20 DEF CustRejected, calls, aside
  <2> QED
    BY <2>1, <2>2
<1>21. ASSUME NEW c \in CustTask, CustNoReply(c)
      PROVE  \A t \in Task : own(t) \/ aside(t)
  <2>1. own(c)
    BY <1>21 DEF own, CustStep
  <2>2. \A t \in Task \ {c} : aside(t)
    BY <1>21 DEF CustNoReply, calls, aside
  <2> QED
    BY <2>1, <2>2
<1>22. ASSUME NEW c \in CustTask, CustMissed(c)
      PROVE  \A t \in Task : own(t) \/ aside(t)
  <2>1. own(c)
    BY <1>22 DEF own, CustStep
  <2>2. \A t \in Task \ {c} : aside(t)
    BY <1>22 DEF CustMissed, returned, aside
  <2> QED
    BY <2>1, <2>2
<1>23. ASSUME NEW c \in CustTask, CustWalkOut(c)
      PROVE  \A t \in Task : own(t) \/ aside(t)
  <2>1. own(c)
    BY <1>23 DEF own, CustStep
  <2>2. \A t \in Task \ {c} : aside(t)
    BY <1>23 DEF CustWalkOut, calls, aside
  <2> QED
    BY <2>1, <2>2
<1>24. ASSUME NEW c \in CustTask, CustOutReturn(c)
      PROVE  \A t \in Task : own(t) \/ aside(t)
  <2>1. own(c)
    BY <1>24 DEF own, CustStep
  <2>2. \A t \in Task \ {c} : aside(t)
    BY <1>24 DEF CustOutReturn, returned, leaveStore, taskLoop, aside
  <2> QED
    BY <2>1, <2>2
<1>25. ASSUME NEW c \in CustTask, CustFault(c)
      PROVE  \A t \in Task : own(t) \/ aside(t)
  <2>1. own(c)
    BY <1>25 DEF own, CustStep
  <2>2. \A t \in Task \ {c} : aside(t)
    BY <1>25 DEF CustFault, calls, aside
  <2> QED
    BY <2>1, <2>2
<1>26. ASSUME NEW c \in CustTask, CustFaultReturn(c)
      PROVE  \A t \in Task : own(t) \/ aside(t)
  <2>1. own(c)
    BY <1>26 DEF own, CustStep
  <2>2. \A t \in Task \ {c} : aside(t)
    BY <1>26 DEF CustFaultReturn, returned, leaveStore, aside
  <2> QED
    BY <2>1, <2>2
<1>27. ASSUME NEW s \in Subscriber, SubscrTimeout(s)
      PROVE  \A t \in Task : own(t) \/ aside(t)
  BY <1>27 DEF SubscrTimeout, aside
<1>28. ASSUME NEW j \in Janitor, JanitorSubscribe(j)
      PROVE  \A t \in Task : own(t) \/ aside(t)
  BY <1>28 DEF JanitorSubscribe, aside
<1>29. ASSUME NEW j \in Janitor, JanitorEvent(j)
      PROVE  \A t \in Task : own(t) \/ aside(t)
  BY <1>29 DEF JanitorEvent, sweepPort, aside
<1>30. ASSUME NEW j \in Janitor, JanitorDone(j)
      PROVE  \A t \in Task : own(t) \/ aside(t)
  BY <1>30 DEF JanitorDone, calls, aside
<1>31. ASSUME NEW j \in Janitor, JanitorFault(j)
      PROVE  \A t \in Task : own(t) \/ aside(t)
  BY <1>31 DEF JanitorFault, calls, aside
<1>32. ASSUME NEW j \in Janitor, JanitorFaultReturn(j)
      PROVE  \A t \in Task : own(t) \/ aside(t)
  BY <1>32 DEF JanitorFaultReturn, returned, calls, aside
<1>33. ASSUME NEW j \in Janitor, JanitorExit(j)
      PROVE  \A t \in Task : own(t) \/ aside(t)
  <2>1. \A m \in DOMAIN logq[home[j]] : pc[logq[home[j]][m]] = "wait" /\ home[logq[home[j]][m]] = home[j]
    BY DEF QueueInv
  <2> QED
    BY <1>33, <2>1 DEF JanitorExit, returned, aside
<1>34. ASSUME NEW n \in Node, NewSim(n)
      PROVE  \A t \in Task : own(t) \/ aside(t)
  BY <1>34 DEF NewSim, aside
<1>35. ASSUME NEW s \in Task, NewTask(s)
      PROVE  \A t \in Task : own(t) \/ aside(t)
  BY <1>35 DEF NewTask, aside
<1>36. ASSUME NEW k \in Killer, KillSim(k)
      PROVE  \A t \in Task : own(t) \/ aside(t)
  BY <1>36 DEF KillSim, calls, aside
<1>37. ASSUME NEW k \in Killer, KillReturn(k)
      PROVE  \A t \in Task : own(t) \/ aside(t)
  BY <1>37 DEF KillReturn, returned, aside
<1>38. ASSUME NEW z \in ZeroTask, StopSim(z)
      PROVE  \A t \in Task : own(t) \/ aside(t)
  BY <1>38 DEF StopSim, tellLogs, aside
<1>39. ASSUME NEW z \in ZeroTask, StartSim(z)
      PROVE  \A t \in Task : own(t) \/ aside(t)
  BY <1>39 DEF StartSim, aside
<1>40. ASSUME NEW z \in ZeroTask, ZeroExit(z)
      PROVE  \A t \in Task : own(t) \/ aside(t)
  BY <1>40 DEF ZeroExit, tellLogs, aside
<1>41. CASE UNCHANGED vars
  BY <1>41 DEF vars, aside
<1> QED
  BY <1>1, <1>2, <1>3, <1>4, <1>5, <1>6, <1>7, <1>8, <1>9, <1>10, <1>11,
     <1>12, <1>13, <1>14, <1>15, <1>16, <1>17, <1>18, <1>19, <1>20, <1>21,
     <1>22, <1>23, <1>24, <1>25, <1>26, <1>27, <1>28, <1>29, <1>30, <1>31,
     <1>32, <1>33, <1>34, <1>35, <1>36, <1>37, <1>38, <1>39, <1>40, <1>41
     DEF Next, Commands, Programs, LogStep, ItemStep, CustStep, JanitorStep, KillStep

-----------------------------------------------------------------------------
(***************************************************************************)
(* What a step does to the logging tasks.                                  *)
(***************************************************************************)

\* The counters stay, no logging task comes or goes and no janitor is forked.
storeQuiet ==
  /\ UNCHANGED <<store, sessions>>
  /\ \A n \in Node : log'[n] = log[n] \/ (serving(n) /\ serving(n)')
  /\ \A j \in Janitor : pc[j] \in {"off", "end"} => pc'[j] \in {"off", "end"}

\* Only a logging task or newSim touches the counters and the janitors.
LEMMA StoreQuiet ==
  ASSUME StateTypeOK, QueueInv, [Next]_vars,
         \A n \in Node : ~ LogBind(n) /\ ~ LogTransaction(n) /\ ~ NewSim(n)
  PROVE  storeQuiet
<1> USE HomeAssumption, TaskAssumption DEF StateTypeOK, Task, Proc, logVars, storeQuiet, serving
<1>1. ASSUME NEW p \in Proc, SimLogSend(p)
      PROVE  storeQuiet
  BY <1>1 DEF SimLogSend
<1>2. ASSUME NEW n \in Node, LogBind(n)
      PROVE  storeQuiet
  BY <1>2
<1>3. ASSUME NEW n \in Node, LogTransaction(n)
      PROVE  storeQuiet
  BY <1>3
<1>4. ASSUME NEW n \in Node, LogWatch(n)
      PROVE  storeQuiet
  BY <1>4 DEF LogWatch, readWatch
<1>5. ASSUME NEW n \in Node, LogHalted(n)
      PROVE  storeQuiet
  BY <1>5 DEF LogHalted, readWatch
<1>6. ASSUME NEW i \in ItemTask, ItemPublish(i)
      PROVE  storeQuiet
  BY <1>6 DEF ItemPublish
<1>7. ASSUME NEW i \in ItemTask, ItemListen(i)
      PROVE  storeQuiet
  BY <1>7 DEF ItemListen, calls
<1>8. ASSUME NEW i \in ItemTask, ItemInReturn(i)
      PROVE  storeQuiet
  BY <1>8 DEF ItemInReturn, returned, closeItem
<1>9. ASSUME NEW i \in ItemTask, ItemReply(i)
      PROVE  storeQuiet
  BY <1>9 DEF ItemReply, answer, calls
<1>10. ASSUME NEW i \in ItemTask, ItemReplyFails(i)
      PROVE  storeQuiet
  BY <1>10 DEF ItemReplyFails, answer, calls
<1>11. ASSUME NEW i \in ItemTask, ItemWarnReturn(i)
      PROVE  storeQuiet
  BY <1>11 DEF ItemWarnReturn, returned
<1>12. ASSUME NEW i \in ItemTask, ItemOutReturn(i)
      PROVE  storeQuiet
  BY <1>12 DEF ItemOutReturn, returned, closeItem, taskLoop
<1>13. ASSUME NEW i \in ItemTask, ItemFault(i)
      PROVE  storeQuiet
  BY <1>13 DEF ItemFault, calls
<1>14. ASSUME NEW i \in ItemTask, ItemFaultReturn(i)
      PROVE  storeQuiet
  BY <1>14 DEF ItemFaultReturn, returned, closeItem
<1>15. ASSUME NEW c \in CustTask, CustArrive(c)
      PROVE  storeQuiet
  BY <1>15 DEF CustArrive, calls
<1>16. ASSUME NEW c \in CustTask, CustInReturn(c)
      PROVE  storeQuiet
  BY <1>16 DEF CustInReturn, returned
<1>17. ASSUME NEW c \in CustTask, CustSubscribe(c)
      PROVE  storeQuiet
  BY <1>17 DEF CustSubscribe
<1>18. ASSUME NEW c \in CustTask, CustRequest(c)
      PROVE  storeQuiet
  BY <1>18 DEF CustRequest
<1>19. ASSUME NEW c \in CustTask, CustGotItem(c)
      PROVE  storeQuiet
  BY <1>19 DEF CustGotItem, calls
<1>20. ASSUME NEW c \in CustTask, CustRejected(c)
      PROVE  storeQuiet
  BY <1>20 DEF CustRejected, calls
<1>21. ASSUME NEW c \in CustTask, CustNoReply(c)
      PROVE  storeQuiet
  BY <1>21 DEF CustNoReply, calls
<1>22. ASSUME NEW c \in CustTask, CustMissed(c)
      PROVE  storeQuiet
  BY <1>22 DEF CustMissed, returned
<1>23. ASSUME NEW c \in CustTask, CustWalkOut(c)
      PROVE  storeQuiet
  BY <1>23 DEF CustWalkOut, calls
<1>24. ASSUME NEW c \in CustTask, CustOutReturn(c)
      PROVE  storeQuiet
  BY <1>24 DEF CustOutReturn, returned, leaveStore, taskLoop
<1>25. ASSUME NEW c \in CustTask, CustFault(c)
      PROVE  storeQuiet
  BY <1>25 DEF CustFault, calls
<1>26. ASSUME NEW c \in CustTask, CustFaultReturn(c)
      PROVE  storeQuiet
  BY <1>26 DEF CustFaultReturn, returned, leaveStore
<1>27. ASSUME NEW s \in Subscriber, SubscrTimeout(s)
      PROVE  storeQuiet
  BY <1>27 DEF SubscrTimeout
<1>28. ASSUME NEW j \in Janitor, JanitorSubscribe(j)
      PROVE  storeQuiet
  BY <1>28 DEF JanitorSubscribe
<1>29. ASSUME NEW j \in Janitor, JanitorEvent(j)
      PROVE  storeQuiet
  BY <1>29 DEF JanitorEvent
<1>30. ASSUME NEW j \in Janitor, JanitorDone(j)
      PROVE  storeQuiet
  BY <1>30 DEF JanitorDone, calls
<1>31. ASSUME NEW j \in Janitor, JanitorFault(j)
      PROVE  storeQuiet
  BY <1>31 DEF JanitorFault, calls
<1>32. ASSUME NEW j \in Janitor, JanitorFaultReturn(j)
      PROVE  storeQuiet
  BY <1>32 DEF JanitorFaultReturn, returned, calls
<1>33. ASSUME NEW j \in Janitor, JanitorExit(j)
      PROVE  storeQuiet
  <2>1. \A k \in DOMAIN logq[home[j]] : pc[logq[home[j]][k]] = "wait"
    BY DEF QueueInv
  <2> QED
    BY <1>33, <2>1 DEF JanitorExit
<1>34. ASSUME NEW n \in Node, NewSim(n)
      PROVE  storeQuiet
  BY <1>34
<1>35. ASSUME NEW s \in Task, NewTask(s)
      PROVE  storeQuiet
  BY <1>35 DEF NewTask
<1>36. ASSUME NEW k \in Killer, KillSim(k)
      PROVE  storeQuiet
  BY <1>36 DEF KillSim, calls
<1>37. ASSUME NEW k \in Killer, KillReturn(k)
      PROVE  storeQuiet
  BY <1>37 DEF KillReturn, returned
<1>38. ASSUME NEW z \in ZeroTask, StopSim(z)
      PROVE  storeQuiet
  BY <1>38 DEF StopSim, tellLogs
<1>39. ASSUME NEW z \in ZeroTask, StartSim(z)
      PROVE  storeQuiet
  BY <1>39 DEF StartSim
<1>40. ASSUME NEW z \in ZeroTask, ZeroExit(z)
      PROVE  storeQuiet
  BY <1>40 DEF ZeroExit, tellLogs
<1>41. CASE UNCHANGED vars
  BY <1>41 DEF vars
<1> QED
  BY <1>1, <1>2, <1>3, <1>4, <1>5, <1>6, <1>7, <1>8, <1>9, <1>10, <1>11,
     <1>12, <1>13, <1>14, <1>15, <1>16, <1>17, <1>18, <1>19, <1>20, <1>21,
     <1>22, <1>23, <1>24, <1>25, <1>26, <1>27, <1>28, <1>29, <1>30, <1>31,
     <1>32, <1>33, <1>34, <1>35, <1>36, <1>37, <1>38, <1>39, <1>40, <1>41
     DEF Next, Commands, Programs, LogStep, ItemStep, CustStep, JanitorStep, KillStep

\* Only a customer with a reply adds to what was taken.
LEMMA TookStep ==
  ASSUME [Next]_vars, \A c \in CustTask : ~ CustGotItem(c)
  PROVE  took' = took
<1> USE DEF custVars
<1>1. ASSUME NEW n \in Node, LogStep(n) PROVE took' = took
  BY <1>1 DEF LogStep, LogBind, LogTransaction, LogWatch, LogHalted, readWatch
<1>2. ASSUME NEW i \in ItemTask, ItemStep(i) PROVE took' = took
  BY <1>2 DEF ItemStep, SimLogSend, ItemPublish, ItemListen, ItemInReturn, ItemReply,
     ItemReplyFails, ItemWarnReturn, ItemOutReturn, ItemFault, ItemFaultReturn, closeItem, answer
<1>3. ASSUME NEW c \in CustTask, CustStep(c) PROVE took' = took
  BY <1>3 DEF CustStep, SimLogSend, CustArrive, CustInReturn, CustSubscribe, CustRequest,
     CustRejected, CustNoReply, CustMissed, CustWalkOut, CustOutReturn, CustFault,
     CustFaultReturn, leaveStore
<1>4. ASSUME NEW j \in Janitor, JanitorStep(j) PROVE took' = took
  BY <1>4 DEF JanitorStep, SimLogSend, JanitorSubscribe, JanitorEvent, JanitorDone,
     JanitorFault, JanitorFaultReturn, JanitorExit
<1>5. ASSUME NEW k \in Killer, KillStep(k) PROVE took' = took
  BY <1>5 DEF KillStep, SimLogSend, KillReturn
<1>6. ASSUME NEW s \in Subscriber, SubscrTimeout(s) PROVE took' = took
  BY <1>6 DEF SubscrTimeout
<1>7. ASSUME NEW z \in ZeroTask, StopSim(z) \/ StartSim(z) \/ ZeroExit(z) PROVE took' = took
  BY <1>7 DEF StopSim, StartSim, ZeroExit
<1>8. CASE Commands
  BY <1>7, <1>8 DEF Commands, NewSim, NewTask, KillSim
<1>9. CASE UNCHANGED vars
  BY <1>9 DEF vars
<1> QED
  BY <1>1, <1>2, <1>3, <1>4, <1>5, <1>6, <1>7, <1>8, <1>9 DEF Next, Programs

\* A customer enters or leaves the store by a transaction, or by failing.
LEMMA InsideStep ==
  ASSUME StateTypeOK, CodeInv, NEW c \in CustTask, own(c) \/ aside(c)
  PROVE  /\ inside(c)' => inside(c)
         /\ serving(home[c]) /\ inside(c) => inside(c)' \/ CustFaultReturn(c)
<1> USE HomeAssumption, TaskAssumption DEF StateTypeOK, Task, Proc, inside, busy, serving
<1>1. CASE aside(c)
  BY <1>1 DEF aside, SIM_ERROR
<1>2. CASE SimLogSend(c)
  BY <1>2 DEF SimLogSend, simFind, SIM_ERROR
<1>3. CASE CustArrive(c)
  BY <1>3 DEF CustArrive, calls
<1>4. CASE CustInReturn(c)
  <2>1. ack[c] \in Int /\ ack[c] # SIM_OK
    BY <1>4 DEF CustInReturn, CodeInv, returned
  <2> QED
    BY <1>4, <2>1 DEF CustInReturn, returned, SIM_OK
<1>5. CASE CustSubscribe(c) \/ CustRequest(c)
  BY <1>5 DEF CustSubscribe, CustRequest
<1>6. CASE CustGotItem(c) \/ CustRejected(c) \/ CustNoReply(c) \/ CustWalkOut(c) \/ CustFault(c)
  BY <1>6 DEF CustGotItem, CustRejected, CustNoReply, CustWalkOut, CustFault, calls
<1>7. CASE CustMissed(c)
  BY <1>7 DEF CustMissed, returned
<1>8. CASE CustOutReturn(c)
  BY <1>8 DEF CustOutReturn, returned, taskLoop
<1>9. CASE CustFaultReturn(c)
  BY <1>9 DEF CustFaultReturn, returned
<1> QED
  BY <1>1, <1>2, <1>3, <1>4, <1>5, <1>6, <1>7, <1>8, <1>9 DEF own, CustStep

\* An item enters or leaves the stock by a transaction, or by failing.
LEMMA StockStep ==
  ASSUME StateTypeOK, CodeInv, NEW i \in ItemTask, own(i) \/ aside(i)
  PROVE  /\ stocked(i)' => stocked(i)
         /\ serving(home[i]) /\ stocked(i) => stocked(i)' \/ ItemFault(i)
<1> USE HomeAssumption, TaskAssumption DEF StateTypeOK, Task, Proc, stocked, busy, serving
<1>1. CASE aside(i)
  BY <1>1 DEF aside, SIM_ERROR, SIM_OK
<1>2. CASE SimLogSend(i)
  BY <1>2 DEF SimLogSend, simFind, SIM_ERROR, SIM_OK
<1>3. CASE ItemPublish(i)
  BY <1>3 DEF ItemPublish
<1>4. CASE ItemListen(i)
  BY <1>4 DEF ItemListen, calls
<1>5. CASE ItemInReturn(i)
  <2>1. ack[i] \in Int /\ ack[i] <= SIM_OK
    BY <1>5 DEF ItemInReturn, CodeInv, returned
  <2> QED
    BY <1>5, <2>1 DEF ItemInReturn, returned, SIM_OK
<1>6. CASE ItemReply(i) \/ ItemReplyFails(i)
  BY <1>6 DEF ItemReply, ItemReplyFails, answer, calls
<1>7. CASE ItemWarnReturn(i)
  BY <1>7 DEF ItemWarnReturn, returned
<1>8. CASE ItemOutReturn(i)
  BY <1>8 DEF ItemOutReturn, returned, taskLoop
<1>9. CASE ItemFault(i)
  BY <1>9 DEF ItemFault, calls
<1>10. CASE ItemFaultReturn(i)
  BY <1>10 DEF ItemFaultReturn, returned
<1> QED
  BY <1>1, <1>2, <1>3, <1>4, <1>5, <1>6, <1>7, <1>8, <1>9, <1>10 DEF own, ItemStep

\* A customer comes to the door with its item, and is recorded there.
LEMMA DoorStep ==
  ASSUME StateTypeOK, SocketInv, NEW c \in CustTask, own(c) \/ aside(c)
  PROVE  /\ atTheDoor(c)' => atTheDoor(c) \/ CustGotItem(c)
         /\ serving(home[c]) /\ atTheDoor(c) => atTheDoor(c)'
<1> USE HomeAssumption, TaskAssumption DEF StateTypeOK, Task, Proc, atTheDoor, serving, custVars
<1>0. /\ custSocket(c)
      /\ conn[c].st = "syn" => ~ busy(c, {"SIM_CUST_OUT"})
      /\ pc[c] = "shop" => conn[c].st # "reply"
  BY DEF SocketInv, custSocket, NoConn
<1>1. CASE aside(c)
  BY <1>0, <1>1 DEF aside, busy
<1>2. CASE SimLogSend(c)
  BY <1>2 DEF SimLogSend, simFind
<1>3. CASE CustArrive(c)
  BY <1>3 DEF CustArrive, calls
<1>4. CASE CustInReturn(c)
  BY <1>4 DEF CustInReturn, returned
<1>5. CASE CustSubscribe(c) \/ CustRequest(c)
  BY <1>5 DEF CustSubscribe, CustRequest
<1>6. CASE CustRejected(c) \/ CustNoReply(c) \/ CustFault(c)
  BY <1>6 DEF CustRejected, CustNoReply, CustFault, calls
<1>7. CASE CustWalkOut(c)
  BY <1>0, <1>7 DEF CustWalkOut, calls
<1>8. CASE CustMissed(c)
  BY <1>8 DEF CustMissed, returned
<1>9. CASE CustOutReturn(c)
  BY <1>9 DEF CustOutReturn, returned, taskLoop
<1>10. CASE CustFaultReturn(c)
  BY <1>10 DEF CustFaultReturn, returned
<1>11. CASE CustGotItem(c)
  BY <1>11 DEF CustGotItem, calls
<1> QED
  BY <1>1, <1>2, <1>3, <1>4, <1>5, <1>6, <1>7, <1>8, <1>9, <1>10, <1>11 DEF own, CustStep

-----------------------------------------------------------------------------
(***************************************************************************)
(* What a transaction does.                                                *)
(***************************************************************************)

\* What a transaction adds to the counters, and the state it leaves.
LEMMA TransactionCounts ==
  ASSUME NEW s \in Store, NEW m, NEW t, t = logTransaction(s, m)
  PROVE  /\ t.simState = IF m.code = "SIM_DONE" THEN "STORE_EMPTY"
                         ELSE IF m.code = "SIM_KILL" THEN "STORE_CLOSING" ELSE s.simState
         /\ t.customersInStore =
              s.customersInStore + (IF m.code = "SIM_CUST_IN" /\ s.simState = "STORE_OPEN" THEN 1
                                    ELSE IF m.code = "SIM_CUST_OUT" THEN -1 ELSE 0)
         /\ t.itemsInStore =
              s.itemsInStore + (IF m.code = "SIM_ITEM_IN" /\ s.simState = "STORE_OPEN" THEN 1
                                ELSE IF m.code = "SIM_ITEM_OUT" THEN -1 ELSE 0)
         /\ t.customerSales =
              s.customerSales + (IF m.code = "SIM_CUST_OUT" /\ m.sale THEN 1 ELSE 0)
<1> USE DEF Store
<1>1. CASE m.code \in {"SIM_DONE", "SIM_KILL"}
  BY <1>1 DEF logTransaction
<1>2. CASE m.code = "SIM_ITEM_IN"
  BY <1>2 DEF logTransaction, itemIn
<1>3. CASE m.code = "SIM_ITEM_OUT"
  BY <1>3 DEF logTransaction, itemOut
<1>4. CASE m.code = "SIM_CUST_IN"
  BY <1>4 DEF logTransaction, custIn
<1>5. CASE m.code = "SIM_CUST_OUT"
  <2> DEFINE cc == add(s.customerCount, m.item, -1)
             r == s.customerRetries + (IF m.retries # 0 THEN 1 ELSE 0)
             b == s.customerSales + (IF m.sale THEN 1 ELSE 0)
             e == s.customerExits + (IF m.sale THEN 0 ELSE 1)
  <2>1. logTransaction(s, m)
          = [s EXCEPT !.customersInStore = s.customersInStore - 1, !.customerCount = cc,
                      !.customerRetries = r, !.customerSales = b, !.customerExits = e]
    BY <1>5 DEF logTransaction, custOut
  <2> HIDE DEF cc, r, e, b
  <2>2. /\ logTransaction(s, m).simState = s.simState
        /\ logTransaction(s, m).customersInStore = s.customersInStore - 1
        /\ logTransaction(s, m).itemsInStore = s.itemsInStore
        /\ logTransaction(s, m).customerSales = b
    BY <2>1
  <2>3. b = s.customerSales + (IF m.sale THEN 1 ELSE 0)
    BY DEF b
  <2> QED
    BY <1>5, <2>2, <2>3
<1>6. CASE m.code \notin {"SIM_DONE", "SIM_KILL", "SIM_ITEM_IN", "SIM_ITEM_OUT",
                          "SIM_CUST_IN", "SIM_CUST_OUT"}
  BY <1>6 DEF logTransaction
<1> QED
  BY <1>1, <1>2, <1>3, <1>4, <1>5, <1>6

\* Closing the store leaves the counters.
LEMMA ClosingCounts ==
  ASSUME NEW s \in Store, NEW t, t = afterTransaction(s)
  PROVE  /\ t.customersInStore = s.customersInStore
         /\ t.itemsInStore = s.itemsInStore
         /\ t.customerSales = s.customerSales
         /\ t.simState = IF becomesClosed(s) THEN "STORE_CLOSED" ELSE s.simState
BY DEF afterTransaction, Store

\* Whose state a transaction changes: the sender's, and a janitor's if the
\* store becomes closed.
LEMMA TransactionTasks ==
  ASSUME StateTypeOK, QueueInv, NEW n \in Node, LogTransaction(n), NEW p, p = Head(logq[n]),
         NEW m, m = message(p), NEW s, s = logTransaction(store[n], m)
  PROVE  /\ p \in Proc /\ pc[p] = "wait" /\ home[p] = n /\ log[n] = "run"
         /\ m.code = req[p]
         /\ m.sale <=> p \in CustTask /\ conn[p].st = "reply"
         /\ s \in Store
         /\ UNCHANGED <<req, conn, took, sessions>>
         /\ store' = [store EXCEPT ![n] = afterTransaction(s)]
         /\ log' = [log EXCEPT ![n] = IF s.simState = "STORE_EMPTY" THEN "none" ELSE @]
         /\ pc'[p] = "ret" /\ ack'[p] = ackCode(store[n], m)
         /\ \A t \in Task : t # p => pc'[t] = pc[t] /\ ack'[t] = ack[t]
         /\ \A j \in Janitor : home[j] # n => pc'[j] = pc[j]
         /\ \A j \in Janitor : pc[j] \in {"off", "end"} => pc'[j] = pc[j] \/ becomesClosed(s)
<1> USE HomeAssumption, TaskAssumption DEF StateTypeOK, Task, Proc
<1>1. p \in Proc /\ pc[p] = "wait" /\ home[p] = n /\ log[n] = "run"
  BY FirstWaits DEF LogTransaction
<1>2. m.code = req[p] /\ (m.sale <=> p \in CustTask /\ conn[p].st = "reply") /\ m.item \in ItemID
  BY <1>1 DEF message
<1>3. s \in Store
  BY <1>2, TransactionType
<1>4. /\ UNCHANGED <<req, conn, took, sessions>>
      /\ store' = [store EXCEPT ![n] = afterTransaction(s)]
      /\ log' = [log EXCEPT ![n] = IF s.simState = "STORE_EMPTY" THEN "none" ELSE @]
      /\ ack' = [ack EXCEPT ![p] = ackCode(store[n], m)]
  BY DEF LogTransaction, custVars
<1>5. CASE becomesClosed(s)
  <2>1. PICK j \in Janitor : /\ home[j] = n /\ pc[j] = "off"
                             /\ pc' = [pc EXCEPT ![p] = "ret", ![j] = "scan"]
    BY <1>5 DEF LogTransaction
  <2> QED
    BY <1>1, <1>2, <1>3, <1>4, <1>5, <2>1
<1>6. CASE ~ becomesClosed(s)
  <2>1. pc' = [pc EXCEPT ![p] = "ret"]
    BY <1>6 DEF LogTransaction
  <2> QED
    BY <1>1, <1>2, <1>3, <1>4, <1>6, <2>1
<1> QED
  BY <1>5, <1>6

-----------------------------------------------------------------------------
(***************************************************************************)
(* The customers inside, and the janitor.                                  *)
(***************************************************************************)

\* The customers inside a store can be counted.
LEMMA InsidersFinite ==
  ASSUME NEW n
  PROVE  IsFiniteSet(insiders(n)) /\ Cardinality(insiders(n)) \in Nat
<1>1. insiders(n) \in SUBSET CustTask
  BY DEF insiders
<1>2. IsFiniteSet(insiders(n))
  BY <1>1, FS_Subset, FiniteAssumption
<1> QED
  BY <1>2, FS_CardinalityType

\* A transaction keeps the number of customers, and forks a janitor only in
\* an empty store.
LEMMA StoreTransaction ==
  ASSUME StateTypeOK, QueueInv, CodeInv, StoreInv, NEW n \in Node, LogTransaction(n)
  PROVE  StoreInv'
<1>a. PICK p : p = Head(logq[n])
  OBVIOUS
<1>b. PICK m : m = message(p)
  OBVIOUS
<1>c. PICK s : s = logTransaction(store[n], m)
  OBVIOUS
<1> DEFINE code == req[p]
           in == code = "SIM_CUST_IN" /\ store[n].simState = "STORE_OPEN"
           isOut == code = "SIM_CUST_OUT"
<1>1. /\ p \in Proc /\ pc[p] = "wait" /\ home[p] = n /\ log[n] = "run"
      /\ m.code = code
      /\ s \in Store
      /\ req' = req
      /\ store' = [store EXCEPT ![n] = afterTransaction(s)]
      /\ log' = [log EXCEPT ![n] = IF s.simState = "STORE_EMPTY" THEN "none" ELSE @]
      /\ pc'[p] = "ret" /\ ack'[p] = ackCode(store[n], m)
      /\ \A t \in Task : t # p => pc'[t] = pc[t] /\ ack'[t] = ack[t]
      /\ \A j \in Janitor : home[j] # n => pc'[j] = pc[j]
      /\ \A j \in Janitor : pc[j] \in {"off", "end"} => pc'[j] = pc[j] \/ becomesClosed(s)
  BY <1>a, <1>b, <1>c, TransactionTasks
<1>2. /\ s.simState = IF code = "SIM_DONE" THEN "STORE_EMPTY"
                      ELSE IF code = "SIM_KILL" THEN "STORE_CLOSING" ELSE store[n].simState
      /\ s.customersInStore
           = store[n].customersInStore + (IF in THEN 1 ELSE IF isOut THEN -1 ELSE 0)
      /\ store[n] \in Store
  <2>1. store[n] \in Store
    BY DEF StateTypeOK
  <2>2. /\ s.simState = IF m.code = "SIM_DONE" THEN "STORE_EMPTY"
                        ELSE IF m.code = "SIM_KILL" THEN "STORE_CLOSING" ELSE store[n].simState
        /\ s.customersInStore =
             store[n].customersInStore
               + (IF m.code = "SIM_CUST_IN" /\ store[n].simState = "STORE_OPEN" THEN 1
                  ELSE IF m.code = "SIM_CUST_OUT" THEN -1 ELSE 0)
    BY <1>c, <2>1, TransactionCounts
  <2> QED
    BY <1>1, <2>1, <2>2
<1>3. /\ store'[n].customersInStore = s.customersInStore
      /\ store'[n].simState = IF becomesClosed(s) THEN "STORE_CLOSED" ELSE s.simState
  BY <1>1, ClosingCounts DEF StateTypeOK
<1>4. /\ code \in {"SIM_CUST_IN", "SIM_CUST_OUT"} => p \in CustTask
      /\ code = "SIM_DONE" => p \in Janitor
  BY <1>1, TaskAssumption DEF CodeInv, inCall, custCodes, itemCodes, Proc, Task
<1>5. in => ack'[p] > 0
  BY <1>1, <1>2 DEF ackCode, Store
<1>6. code = "SIM_CUST_IN" /\ ~ in => ~ (ack'[p] > 0)
  BY <1>1, <1>2 DEF ackCode, SIM_KILL
<1>7. \A c \in CustTask : c # p => (inside(c)' <=> inside(c))
  BY <1>1 DEF inside, busy, Task
<1>8. p \in CustTask => /\ inside(p) <=> code \in {"SIM_INFO", "SIM_WARN", "SIM_ERROR", "SIM_CUST_OUT"}
                        /\ inside(p)' <=> code \in {"SIM_INFO", "SIM_WARN", "SIM_ERROR"} \/ in
  <2>1. code = "SIM_CUST_IN" => (ack'[p] > 0 <=> in)
    BY <1>5, <1>6
  <2> QED
    BY <1>1, <2>1 DEF inside, busy
<1>9. ASSUME NEW k \in Node, k # n
      PROVE  insiders(k)' = insiders(k)
  BY <1>1, <1>7, <1>9 DEF insiders
<1>10. insiders(n)' = IF in THEN insiders(n) \cup {p} ELSE IF isOut THEN insiders(n) \ {p} ELSE insiders(n)
  BY <1>1, <1>4, <1>7, <1>8 DEF insiders
<1>11. /\ in => p \notin insiders(n)
       /\ isOut => p \in insiders(n)
  BY <1>1, <1>4, <1>8 DEF insiders
<1>12. /\ IsFiniteSet(insiders(n)) /\ Cardinality(insiders(n)) \in Nat
       /\ Cardinality(insiders(n)')
            = Cardinality(insiders(n)) + (IF in THEN 1 ELSE IF isOut THEN -1 ELSE 0)
  <2>1. IsFiniteSet(insiders(n)) /\ Cardinality(insiders(n)) \in Nat
    BY InsidersFinite
  <2>2. CASE in
    BY <1>10, <1>11, <2>1, <2>2, FS_AddElement
  <2>3. CASE isOut
    BY <1>10, <1>11, <2>1, <2>3, FS_RemoveElement
  <2>4. CASE ~ in /\ ~ isOut
    BY <1>10, <2>1, <2>4
  <2> QED
    BY <2>1, <2>2, <2>3, <2>4
<1>13. serving(n) /\ storeOK(n)
  BY <1>1 DEF serving, StoreInv
<1> HIDE DEF in, isOut, code
<1>14. ASSUME NEW k \in Node, k # n
       PROVE  storeOK(k)'
  <2>1. holders(k)' = holders(k) /\ log'[k] = log[k] /\ store'[k] = store[k]
    BY <1>1, <1>14 DEF holders, StateTypeOK
  <2> QED
    BY <1>9, <1>14, <2>1 DEF StoreInv, storeOK, serving
<1>15. store[n].simState = "STORE_CLOSED" => insiders(n) = {}
  BY <1>12, <1>13, FS_EmptySet DEF storeOK
<1>16. CASE code = "SIM_DONE"
  <2>1. p \in holders(n)
    BY <1>1, <1>4, <1>16 DEF holders
  <2>2. store[n].simState = "STORE_CLOSED" /\ insiders(n)' = {}
    BY <1>10, <1>13, <1>15, <1>16, <2>1 DEF storeOK, serving, in, isOut
  <2>3. log'[n] = "none" /\ store'[n].simState = "STORE_EMPTY"
    BY <1>1, <1>2, <1>3, <1>16 DEF becomesClosed, StateTypeOK
  <2>4. storeOK(n)'
    BY <2>2, <2>3 DEF storeOK, serving
  <2> QED
    BY <1>14, <2>4 DEF StoreInv
<1>17. CASE code # "SIM_DONE"
  <2>1. log'[n] = "run" /\ s.simState # "STORE_EMPTY" /\ serving(n)'
    BY <1>1, <1>2, <1>13, <1>17 DEF storeOK, StateTypeOK, serving
  <2>2. store[n].customersInStore \in Int /\ store[n].simState \in SimState
    BY <1>2 DEF Store
  <2>3. store'[n].customersInStore
          = store[n].customersInStore + (IF in THEN 1 ELSE IF isOut THEN -1 ELSE 0)
    BY <1>2, <1>3
  <2>4. /\ store'[n].customersInStore >= Cardinality(insiders(n)')
        /\ "customer" \notin Faults => store'[n].customersInStore = Cardinality(insiders(n)')
    BY <1>12, <1>13, <2>2, <2>3 DEF storeOK
  <2>5. store[n].simState = "STORE_CLOSED" => store[n].customersInStore = 0 /\ ~ in /\ ~ isOut
    BY <1>11, <1>13, <1>15 DEF storeOK, in
  <2>6. store'[n].simState = "STORE_CLOSED" => store'[n].customersInStore = 0
    BY <1>2, <1>3, <1>17, <2>2, <2>3, <2>5 DEF becomesClosed
  <2>7. holders(n)' # {} => store'[n].simState = "STORE_CLOSED"
    <3>1. CASE becomesClosed(s)
      BY <1>3, <3>1
    <3>2. CASE ~ becomesClosed(s)
      <4>1. holders(n)' # {} => holders(n) # {}
        BY <1>1, <3>2 DEF holders
      <4>2. SUFFICES ASSUME holders(n) # {} PROVE s.simState = "STORE_CLOSED"
        BY <1>3, <3>2, <4>1
      <4>3. store[n].simState = "STORE_CLOSED"
        BY <1>1, <1>13, <4>2 DEF storeOK, serving
      <4>4. s.customersInStore = 0
        BY <1>2, <2>5, <4>3
      <4> QED
        BY <1>2, <1>17, <3>2, <4>3, <4>4 DEF becomesClosed
    <3> QED
      BY <3>1, <3>2
  <2>8. store'[n].simState # "STORE_EMPTY"
    BY <1>3, <2>1
  <2>9. storeOK(n)'
    BY <2>1, <2>4, <2>6, <2>7, <2>8 DEF storeOK
  <2> QED
    BY <1>14, <2>9 DEF StoreInv
<1> QED
  BY <1>16, <1>17

\* A janitor is not forked by newSim or by a logging task that starts.
LEMMA OpeningHolders ==
  ASSUME StateTypeOK, NEW m \in Node, LogBind(m) \/ NewSim(m)
  PROVE  \A n \in Node : holders(n)' = holders(n)
<1> USE TaskAssumption DEF StateTypeOK, Task, Proc, holders
<1>1. CASE LogBind(m)
  BY <1>1 DEF LogBind
<1>2. CASE NewSim(m)
  BY <1>2 DEF NewSim
<1> QED
  BY <1>1, <1>2

\* Every step keeps the number of customers inside and the janitor out of an
\* occupied store.
LEMMA StoreStep ==
  ASSUME StateTypeOK, QueueInv, BacklogInv, CodeInv, StoreInv, [Next]_vars
  PROVE  StoreInv'
<1>1. CASE \E n \in Node : LogTransaction(n)
  BY <1>1, StoreTransaction
<1>2. CASE \A n \in Node : ~ LogTransaction(n)
  <2>1. ASSUME NEW c \in CustTask
        PROVE  /\ inside(c)' => inside(c)
               /\ serving(home[c]) /\ inside(c) /\ "customer" \notin Faults => inside(c)'
    <3>1. own(c) \/ aside(c)
      BY <1>2, TaskStep DEF Task
    <3>2. CustFaultReturn(c) => "customer" \in Faults
      BY DEF CustFaultReturn, returned, CodeInv, inCall, custCodes
    <3> QED
      BY <3>1, <3>2, InsideStep
  <2>2. ASSUME NEW n \in Node
        PROVE  /\ insiders(n)' \subseteq insiders(n)
               /\ serving(n) /\ "customer" \notin Faults => insiders(n)' = insiders(n)
    BY <2>1 DEF insiders
  <2>3. ASSUME NEW n \in Node
        PROVE  Cardinality(insiders(n)') <= Cardinality(insiders(n))
    BY <2>2, InsidersFinite, FS_Subset
  <2>4. ASSUME NEW n \in Node
        PROVE  /\ IsFiniteSet(insiders(n)') /\ Cardinality(insiders(n)') \in Nat
               /\ Cardinality(insiders(n)) \in Nat
    <3>1. IsFiniteSet(insiders(n)) /\ Cardinality(insiders(n)) \in Nat
      BY InsidersFinite
    <3>2. IsFiniteSet(insiders(n)')
      BY <2>2, <3>1, FS_Subset
    <3> QED
      BY <3>1, <3>2, FS_CardinalityType
  <2>5. \A n \in Node : store[n].customersInStore \in Int
    BY DEF StateTypeOK, Store
  <2>a. ASSUME NEW n \in Node, serving(n)
        PROVE  /\ store[n].customersInStore >= Cardinality(insiders(n)')
               /\ "customer" \notin Faults => store[n].customersInStore = Cardinality(insiders(n)')
    BY <2>2, <2>3, <2>4, <2>5, <2>a DEF StoreInv, storeOK
  <2>6. CASE storeQuiet
    <3> SUFFICES ASSUME NEW n \in Node PROVE storeOK(n)'
      BY DEF StoreInv
    <3>1. /\ store'[n] = store[n] /\ (serving(n)' <=> serving(n))
          /\ log[n] = "none" => log'[n] = "none"
      BY <2>6 DEF storeQuiet, serving
    <3>2. holders(n)' \subseteq holders(n)
      BY <2>6 DEF storeQuiet, holders
    <3>3. storeOK(n)
      BY DEF StoreInv
    <3>4. CASE serving(n)
      BY <2>a, <3>1, <3>2, <3>3, <3>4 DEF storeOK
    <3>5. CASE ~ serving(n)
      BY <2>2, <3>1, <3>2, <3>3, <3>5 DEF storeOK
    <3> QED
      BY <3>4, <3>5
  <2>7. ASSUME NEW m \in Node, LogBind(m)
        PROVE  StoreInv'
    <3>1. log[m] = "init" /\ log' = [log EXCEPT ![m] = "run"] /\ store' = [store EXCEPT ![m] = NewStore]
      BY <2>7 DEF LogBind
    <3>2. ASSUME NEW n \in Node PROVE holders(n)' = holders(n) /\ storeOK(n)
      BY <2>7, OpeningHolders DEF StoreInv
    <3>3. insiders(m) = {} /\ insiders(m)' = {} /\ holders(m) = {}
      BY <2>2, <3>1, <3>2 DEF storeOK, serving
    <3>4. /\ NewStore.simState = "STORE_OPEN" /\ NewStore.customersInStore = 0
          /\ log'[m] = "run" /\ store'[m] = NewStore
      BY <3>1 DEF NewStore, StateTypeOK
    <3>5. storeOK(m)'
      BY <3>2, <3>3, <3>4, FS_EmptySet DEF storeOK, serving
    <3>6. ASSUME NEW n \in Node, n # m PROVE storeOK(n)'
      <4>1. log'[n] = log[n] /\ store'[n] = store[n]
        BY <3>1, <3>6 DEF StateTypeOK
      <4>2. CASE serving(n)
        BY <2>a, <3>2, <4>1, <4>2 DEF storeOK, serving
      <4>3. CASE ~ serving(n)
        BY <2>2, <3>2, <4>1, <4>3 DEF storeOK, serving
      <4> QED
        BY <4>2, <4>3
    <3> QED
      BY <3>5, <3>6 DEF StoreInv
  <2>8. ASSUME NEW m \in Node, NewSim(m)
        PROVE  StoreInv'
    <3>1. log[m] = "none" /\ log' = [log EXCEPT ![m] = "init"] /\ store' = store /\ holders(m) = {}
      BY <2>8 DEF NewSim, simFind
    <3> SUFFICES ASSUME NEW n \in Node PROVE storeOK(n)'
      BY DEF StoreInv
    <3>2. holders(n)' = holders(n) /\ storeOK(n) /\ (serving(n)' <=> serving(n))
      BY <2>8, <3>1, OpeningHolders DEF StoreInv, serving, StateTypeOK
    <3>3. n # m => log'[n] = log[n]
      BY <3>1 DEF StateTypeOK
    <3>4. CASE serving(n)
      BY <2>a, <3>1, <3>2, <3>3, <3>4 DEF storeOK
    <3>5. CASE ~ serving(n)
      BY <2>2, <3>1, <3>2, <3>3, <3>5 DEF storeOK
    <3> QED
      BY <3>4, <3>5
  <2> QED
    BY <1>2, <2>6, <2>7, <2>8, StoreQuiet
<1> QED
  BY <1>1, <1>2

-----------------------------------------------------------------------------
(***************************************************************************)
(* The stock and the sales.                                                *)
(***************************************************************************)

\* The items in stock, the customers at the door and the sales can be counted.
LEMMA BooksFinite ==
  ASSUME NEW n, IsFiniteSet(took)
  PROVE  /\ IsFiniteSet(stock(n)) /\ Cardinality(stock(n)) \in Nat
         /\ IsFiniteSet(door(n)) /\ Cardinality(door(n)) \in Nat
         /\ IsFiniteSet(sales(n)) /\ Cardinality(sales(n)) \in Nat
<1>1. /\ stock(n) \in SUBSET ItemTask
      /\ door(n) \in SUBSET CustTask
      /\ sales(n) \in SUBSET took
  BY DEF stock, door, sales
<1>2. IsFiniteSet(stock(n)) /\ IsFiniteSet(door(n)) /\ IsFiniteSet(sales(n))
  BY <1>1, FS_Subset, FiniteAssumption
<1> QED
  BY <1>2, FS_CardinalityType

\* A transaction records a sale at the door and counts an item in or out.
LEMMA BooksTransaction ==
  ASSUME StateTypeOK, QueueInv, CodeInv, BooksInv, NEW n \in Node, LogTransaction(n)
  PROVE  BooksInv'
<1>a. PICK p : p = Head(logq[n])
  OBVIOUS
<1>b. PICK m : m = message(p)
  OBVIOUS
<1>c. PICK s : s = logTransaction(store[n], m)
  OBVIOUS
<1> DEFINE code == req[p]
           in == code = "SIM_ITEM_IN" /\ store[n].simState = "STORE_OPEN"
           isOut == code = "SIM_ITEM_OUT"
           sale == code = "SIM_CUST_OUT" /\ conn[p].st = "reply"
<1>1. /\ p \in Proc /\ pc[p] = "wait" /\ home[p] = n /\ log[n] = "run"
      /\ m.code = code
      /\ m.sale <=> p \in CustTask /\ conn[p].st = "reply"
      /\ s \in Store
      /\ UNCHANGED <<req, conn, took, sessions>>
      /\ store' = [store EXCEPT ![n] = afterTransaction(s)]
      /\ log' = [log EXCEPT ![n] = IF s.simState = "STORE_EMPTY" THEN "none" ELSE @]
      /\ pc'[p] = "ret" /\ ack'[p] = ackCode(store[n], m)
      /\ \A t \in Task : t # p => pc'[t] = pc[t] /\ ack'[t] = ack[t]
  BY <1>a, <1>b, <1>c, TransactionTasks
<1>2. /\ code \in {"SIM_ITEM_IN", "SIM_ITEM_OUT"} => p \in ItemTask /\ p \notin CustTask
      /\ code = "SIM_CUST_OUT" => p \in CustTask
      /\ p \in ItemTask => code \in itemCodes
  BY <1>1, TaskAssumption DEF CodeInv, inCall, custCodes, itemCodes, Proc, Task
<1>3. /\ store'[n].itemsInStore
           = store[n].itemsInStore + (IF in THEN 1 ELSE IF isOut THEN -1 ELSE 0)
      /\ store'[n].customerSales = store[n].customerSales + (IF sale THEN 1 ELSE 0)
      /\ store[n].itemsInStore \in Int /\ store[n].customerSales \in Nat
  <2>1. store[n] \in Store
    BY DEF StateTypeOK
  <2>2. /\ s.itemsInStore =
             store[n].itemsInStore
               + (IF m.code = "SIM_ITEM_IN" /\ store[n].simState = "STORE_OPEN" THEN 1
                  ELSE IF m.code = "SIM_ITEM_OUT" THEN -1 ELSE 0)
        /\ s.customerSales =
             store[n].customerSales + (IF m.code = "SIM_CUST_OUT" /\ m.sale THEN 1 ELSE 0)
    BY <1>c, <2>1, TransactionCounts
  <2>3. store'[n].itemsInStore = s.itemsInStore /\ store'[n].customerSales = s.customerSales
    BY <1>1, ClosingCounts DEF StateTypeOK
  <2>4. m.code = "SIM_CUST_OUT" /\ m.sale <=> sale
    BY <1>1, <1>2
  <2> QED
    BY <1>1, <2>1, <2>2, <2>3, <2>4 DEF Store
<1>4. code = "SIM_ITEM_IN" => (ack'[p] = SIM_OK <=> in)
  BY <1>1 DEF ackCode, SIM_KILL, SIM_OK
<1>5. \A i \in ItemTask : i # p => (stocked(i)' <=> stocked(i))
  BY <1>1 DEF stocked, busy, Task
<1>6. \A c \in CustTask : c # p => (atTheDoor(c)' <=> atTheDoor(c))
  BY <1>1 DEF atTheDoor, Task
<1>7. p \in ItemTask => /\ stocked(p) <=> code \in {"SIM_WARN", "SIM_ITEM_OUT"}
                        /\ stocked(p)' <=> code = "SIM_WARN" \/ in
  BY <1>1, <1>4 DEF stocked, busy
<1>8. p \in CustTask => /\ atTheDoor(p) <=> sale
                        /\ ~ atTheDoor(p)'
  BY <1>1 DEF atTheDoor
<1>9. ASSUME NEW k \in Node, k # n
      PROVE  stock(k)' = stock(k) /\ door(k)' = door(k) /\ sales(k)' = sales(k)
  BY <1>1, <1>5, <1>6, <1>9 DEF stock, door, sales
<1>10. /\ stock(n)' = IF in THEN stock(n) \cup {p} ELSE IF isOut THEN stock(n) \ {p} ELSE stock(n)
       /\ in => p \notin stock(n)
       /\ isOut => p \in stock(n)
  BY <1>1, <1>2, <1>5, <1>7 DEF stock
<1>11. /\ door(n)' = IF sale THEN door(n) \ {p} ELSE door(n)
       /\ sale => p \in door(n)
  BY <1>1, <1>2, <1>6, <1>8 DEF door
<1>12. sales(n)' = sales(n)
  BY <1>1 DEF sales
<1>13. /\ IsFiniteSet(stock(n)) /\ Cardinality(stock(n)) \in Nat
       /\ IsFiniteSet(door(n)) /\ Cardinality(door(n)) \in Nat
       /\ IsFiniteSet(sales(n)) /\ Cardinality(sales(n)) \in Nat
  BY BooksFinite DEF BooksInv
<1>14. Cardinality(stock(n)') = Cardinality(stock(n)) + (IF in THEN 1 ELSE IF isOut THEN -1 ELSE 0)
  <2>1. CASE in
    BY <1>10, <1>13, <2>1, FS_AddElement
  <2>2. CASE isOut
    BY <1>10, <1>13, <2>2, FS_RemoveElement
  <2>3. CASE ~ in /\ ~ isOut
    BY <1>10, <1>13, <2>3
  <2> QED
    BY <2>1, <2>2, <2>3
<1>15. Cardinality(door(n)') = Cardinality(door(n)) - (IF sale THEN 1 ELSE 0)
  <2>1. CASE sale
    BY <1>11, <1>13, <2>1, FS_RemoveElement
  <2>2. CASE ~ sale
    BY <1>11, <1>13, <2>2
  <2> QED
    BY <2>1, <2>2
<1> HIDE DEF in, isOut, code, sale
<1>16. booksOK(n) /\ serving(n) /\ sessions[n] \in Nat /\ sessions[n] >= 1
  BY <1>1 DEF BooksInv, booksOK, serving, StateTypeOK
<1>17. booksOK(n)'
  <2>1. log'[n] # "init" /\ sessions'[n] = sessions[n]
    BY <1>1 DEF StateTypeOK
  <2>2. ASSUME sessions[n] = 1
        PROVE  /\ Cardinality(sales(n)') = store'[n].customerSales + Cardinality(door(n)')
               /\ "item" \notin Faults => store'[n].itemsInStore = Cardinality(stock(n)')
    BY <1>3, <1>12, <1>13, <1>14, <1>15, <1>16, <2>2 DEF booksOK
  <2> QED
    BY <1>16, <2>1, <2>2 DEF booksOK
<1>18. ASSUME NEW k \in Node, k # n
       PROVE  booksOK(k)'
  <2>1. log'[k] = log[k] /\ store'[k] = store[k] /\ sessions' = sessions
    BY <1>1, <1>18 DEF StateTypeOK
  <2> QED
    BY <1>9, <1>18, <2>1 DEF BooksInv, booksOK, serving
<1>19. IsFiniteSet(took')
  BY <1>1 DEF BooksInv
<1> QED
  BY <1>17, <1>18, <1>19 DEF BooksInv

\* A customer that receives its item is at the door with a new sale.
LEMMA SaleAtTheDoor ==
  ASSUME StateTypeOK, TradeInv, StoreInv, NEW c \in CustTask, CustGotItem(c)
  PROVE  LET b == <<conn[c].to, visit(c)>> IN
         /\ took' = took \cup {b} /\ b \notin took
         /\ serving(home[c])
         /\ \A n \in Node : n # home[c] => sales(n)' = sales(n) /\ door(n)' = door(n)
         /\ sales(home[c])' = sales(home[c]) \cup {b}
         /\ door(home[c])' = door(home[c]) \cup {c} /\ c \notin door(home[c])
<1> USE HomeAssumption, TaskAssumption DEF StateTypeOK, Task, Proc
<1>a. PICK b : b = <<conn[c].to, visit(c)>>
  OBVIOUS
<1>1. /\ pc[c] = "ask" /\ conn[c].st = "reply" /\ conn' = conn
      /\ took' = took \cup {b}
      /\ pc' = [pc EXCEPT ![c] = "call"] /\ req' = [req EXCEPT ![c] = "SIM_CUST_OUT"]
  BY <1>a DEF CustGotItem, calls
<1>2. b \notin took
  <2>1. conn[c].to \in Port /\ ~ busy(c, {"SIM_CUST_OUT"})
    BY <1>1 DEF TradeInv, busy
  <2>2. \A a \in took : a[1] # conn[c].to
    BY <1>1, <2>1 DEF TradeInv
  <2> QED
    BY <1>a, <2>2
<1>3. serving(home[c])
  <2>1. c \in insiders(home[c])
    BY <1>1 DEF insiders, inside
  <2> QED
    BY <2>1 DEF StoreInv, storeOK
<1>4. \A d \in CustTask : atTheDoor(d)' <=> atTheDoor(d) \/ d = c
  BY <1>1 DEF atTheDoor
<1>5. ~ atTheDoor(c)
  BY <1>1 DEF atTheDoor
<1>6. b[2][1] = c
  BY <1>a DEF visit
<1>7. \A n \in Node : sales(n)' = IF n = home[c] THEN sales(n) \cup {b} ELSE sales(n)
  BY <1>1, <1>6 DEF sales
<1>8. \A n \in Node : door(n)' = IF n = home[c] THEN door(n) \cup {c} ELSE door(n)
  BY <1>4 DEF door
<1>9. c \notin door(home[c]) /\ home[c] \in Node
  BY <1>5 DEF door
<1> QED
  BY <1>a, <1>1, <1>2, <1>3, <1>7, <1>8, <1>9

\* Between transactions, sales and customers at the door grow together, and
\* only in a store that serves.
LEMMA SalesStep ==
  ASSUME StateTypeOK, QueueInv, BacklogInv, SocketInv, TradeInv, StoreInv, BooksInv, [Next]_vars,
         \A n \in Node : ~ LogTransaction(n), NEW n \in Node
  PROVE  /\ IsFiniteSet(took')
         /\ serving(n) => Cardinality(sales(n)') + Cardinality(door(n))
                            = Cardinality(sales(n)) + Cardinality(door(n)')
         /\ ~ serving(n) => sales(n)' = sales(n) /\ door(n)' = {}
         /\ Cardinality(sales(n)') \in Nat /\ Cardinality(door(n)') \in Nat
<1>1. /\ IsFiniteSet(door(n)) /\ Cardinality(door(n)) \in Nat
      /\ IsFiniteSet(sales(n)) /\ Cardinality(sales(n)) \in Nat
  BY BooksFinite DEF BooksInv
<1>2. ~ serving(n) => door(n) = {}
  BY DEF door, atTheDoor, inside, StoreInv, storeOK, insiders
<1>3. CASE \E c \in CustTask : CustGotItem(c)
  <2>1. PICK c \in CustTask : CustGotItem(c)
    BY <1>3
  <2>2. PICK b : b = <<conn[c].to, visit(c)>>
    OBVIOUS
  <2>3. /\ took' = took \cup {b} /\ b \notin took
        /\ serving(home[c])
        /\ n # home[c] => sales(n)' = sales(n) /\ door(n)' = door(n)
        /\ n = home[c] => sales(n)' = sales(n) \cup {b} /\ door(n)' = door(n) \cup {c}
        /\ n = home[c] => c \notin door(n)
    BY <2>1, <2>2, SaleAtTheDoor
  <2>4. IsFiniteSet(took')
    BY <2>3, FS_AddElement DEF BooksInv
  <2>5. b \notin sales(n)
    BY <2>3 DEF sales
  <2>6. n = home[c] => /\ Cardinality(sales(n)') = Cardinality(sales(n)) + 1
                       /\ Cardinality(door(n)') = Cardinality(door(n)) + 1
    BY <1>1, <2>3, <2>5, FS_AddElement
  <2> QED
    BY <1>1, <1>2, <2>3, <2>4, <2>6
<1>4. CASE \A c \in CustTask : ~ CustGotItem(c)
  <2>1. took' = took
    BY <1>4, TookStep
  <2>2. ASSUME NEW c \in CustTask
        PROVE  /\ atTheDoor(c)' => atTheDoor(c)
               /\ serving(home[c]) /\ atTheDoor(c) => atTheDoor(c)'
    BY <1>4, TaskStep, DoorStep DEF Task
  <2>3. sales(n)' = sales(n)
    BY <2>1 DEF sales
  <2>4. door(n)' \subseteq door(n) /\ (serving(n) => door(n)' = door(n))
    BY <2>2 DEF door
  <2> QED
    BY <1>1, <1>2, <2>1, <2>3, <2>4, FS_EmptySet DEF BooksInv
<1> QED
  BY <1>3, <1>4

\* Every step keeps the books of the first store on a node.
LEMMA BooksStep ==
  ASSUME StateTypeOK, QueueInv, BacklogInv, SocketInv, TradeInv, CodeInv, StoreInv, BooksInv,
         [Next]_vars
  PROVE  BooksInv'
<1>1. CASE \E n \in Node : LogTransaction(n)
  BY <1>1, BooksTransaction
<1>2. CASE \A n \in Node : ~ LogTransaction(n)
  <2>1. ASSUME NEW n \in Node
        PROVE  /\ stock(n)' \subseteq stock(n)
               /\ serving(n) /\ "item" \notin Faults => stock(n)' = stock(n)
    <3>1. ASSUME NEW i \in ItemTask
          PROVE  /\ stocked(i)' => stocked(i)
                 /\ serving(home[i]) /\ stocked(i) /\ "item" \notin Faults => stocked(i)'
      BY <1>2, TaskStep, StockStep DEF Task, ItemFault
    <3> QED
      BY <3>1 DEF stock
  <2>2. ASSUME NEW n \in Node
        PROVE  /\ IsFiniteSet(took')
               /\ serving(n) => Cardinality(sales(n)') + Cardinality(door(n))
                                  = Cardinality(sales(n)) + Cardinality(door(n)')
               /\ ~ serving(n) => sales(n)' = sales(n) /\ door(n)' = {}
               /\ Cardinality(sales(n)') \in Nat /\ Cardinality(door(n)') \in Nat
    BY <1>2, SalesStep
  <2>3. ASSUME NEW n \in Node
        PROVE  /\ Cardinality(door(n)) \in Nat /\ Cardinality(sales(n)) \in Nat
               /\ store[n].customerSales \in Nat /\ store[n].itemsInStore \in Int
               /\ sessions[n] \in Nat
    BY BooksFinite DEF BooksInv, StateTypeOK, Store
  <2>4. ASSUME NEW n \in Node, sessions[n] = 1, serving(n)
        PROVE  /\ Cardinality(sales(n)') = store[n].customerSales + Cardinality(door(n)')
               /\ "item" \notin Faults => store[n].itemsInStore = Cardinality(stock(n)')
    BY <2>1, <2>2, <2>3, <2>4 DEF BooksInv, booksOK
  <2>5. IsFiniteSet(took')
    <3>1. CASE \E c \in CustTask : CustGotItem(c)
      BY <2>2, <3>1, HomeAssumption DEF Proc, Task
    <3>2. CASE \A c \in CustTask : ~ CustGotItem(c)
      BY <3>2, TookStep DEF BooksInv
    <3> QED
      BY <3>1, <3>2
  <2>6. ASSUME NEW n \in Node, store'[n] = store[n], sessions'[n] = sessions[n],
               log'[n] = log[n] \/ (serving(n) /\ serving(n)')
        PROVE  booksOK(n)'
    <3>1. booksOK(n) /\ (serving(n)' <=> serving(n))
      BY <2>6 DEF BooksInv, serving
    <3>2. log[n] = "none" => log'[n] = "none"
      BY <2>6 DEF serving
    <3>3. CASE serving(n)
      BY <2>3, <2>4, <2>6, <3>1, <3>3 DEF booksOK, serving
    <3>4. CASE ~ serving(n)
      BY <2>1, <2>2, <2>6, <3>1, <3>2, <3>4 DEF booksOK, serving
    <3> QED
      BY <3>3, <3>4
  <2>7. CASE storeQuiet
    BY <2>5, <2>6, <2>7 DEF storeQuiet, BooksInv
  <2>8. ASSUME NEW m \in Node, LogBind(m)
        PROVE  BooksInv'
    <3>1. /\ log[m] = "init" /\ log' = [log EXCEPT ![m] = "run"]
          /\ store' = [store EXCEPT ![m] = NewStore] /\ sessions' = sessions
      BY <2>8 DEF LogBind, logVars
    <3>2. \A n \in Node : n # m => booksOK(n)'
      BY <2>6, <3>1 DEF StateTypeOK
    <3>3. ~ serving(m) /\ booksOK(m) /\ sessions[m] >= 1
      BY <3>1 DEF serving, BooksInv, booksOK
    <3>4. sessions[m] = 1 => stock(m)' = {} /\ sales(m)' = {} /\ door(m)' = {}
      BY <2>1, <2>2, <3>1, <3>3 DEF booksOK
    <3>5. log'[m] = "run" /\ store'[m] = NewStore /\ NewStore.customerSales = 0
            /\ NewStore.itemsInStore = 0
      BY <3>1 DEF StateTypeOK, NewStore
    <3>6. booksOK(m)'
      <4>1. sessions'[m] \in Nat /\ sessions'[m] >= 1 /\ log'[m] = "run"
        BY <2>3, <3>1, <3>3, <3>5
      <4>2. ASSUME sessions'[m] = 1
            PROVE  /\ Cardinality(sales(m)') = store'[m].customerSales + Cardinality(door(m)')
                   /\ store'[m].itemsInStore = Cardinality(stock(m)')
        BY <3>1, <3>4, <3>5, <4>2, FS_EmptySet
      <4> QED
        BY <4>1, <4>2 DEF booksOK
    <3> QED
      BY <2>5, <3>2, <3>6 DEF BooksInv
  <2>9. ASSUME NEW m \in Node, NewSim(m)
        PROVE  BooksInv'
    <3>1. /\ log[m] = "none" /\ log' = [log EXCEPT ![m] = "init"] /\ store' = store
          /\ sessions' = [sessions EXCEPT ![m] = @ + 1]
      BY <2>9 DEF NewSim
    <3>2. \A n \in Node : n # m => booksOK(n)'
      BY <2>6, <3>1 DEF StateTypeOK
    <3>3. ~ serving(m) /\ booksOK(m) /\ sessions'[m] = sessions[m] + 1 /\ log'[m] = "init"
      BY <3>1 DEF serving, BooksInv, StateTypeOK
    <3>4. sessions[m] = 0 => stock(m)' = {} /\ sales(m)' = {}
      BY <2>1, <2>2, <3>3 DEF booksOK
    <3>5. booksOK(m)'
      BY <2>3, <3>3, <3>4 DEF booksOK, serving
    <3> QED
      BY <2>5, <3>2, <3>5 DEF BooksInv
  <2> QED
    BY <1>2, <2>7, <2>8, <2>9, StoreQuiet
<1> QED
  BY <1>1, <1>2

-----------------------------------------------------------------------------
(***************************************************************************)
(* The theorems.                                                           *)
(***************************************************************************)

\* Before any command every counter is zero and nobody is in a store.
LEMMA LogInit == Init => LogInv
<1> SUFFICES ASSUME Init PROVE LogInv
  OBVIOUS
<1> USE TaskAssumption DEF Init, Task, Proc
<1>1. CodeInv
  BY DEF CodeInv, inCall, returned
<1>2. \A n \in Node : insiders(n) = {} /\ holders(n) = {} /\ stock(n) = {} /\ sales(n) = {}
  BY DEF insiders, inside, busy, holders, stock, stocked, sales
<1>3. StoreInv
  BY <1>2 DEF StoreInv, storeOK, serving
<1>4. BooksInv
  BY <1>2, FS_EmptySet DEF BooksInv, booksOK, serving
<1> QED
  BY <1>1, <1>3, <1>4 DEF LogInv

\* The counters of simLogTask agree with the tasks they count at every step,
\* for any number of stores, tasks and commands and whichever calls fail.
THEOREM LogInductive == Spec => []LogInv
<1>1. LogInv /\ IInv /\ [Next]_vars => LogInv'
  <2> SUFFICES ASSUME LogInv, IInv, [Next]_vars PROVE LogInv'
    OBVIOUS
  <2>1. StateTypeOK /\ QueueInv /\ BacklogInv /\ SocketInv /\ TradeInv
    BY DEF IInv, TypeOK
  <2>2. CodeInv /\ StoreInv /\ BooksInv
    BY DEF LogInv
  <2>3. CodeInv'
    BY <2>1, <2>2, CodeStep
  <2>4. StoreInv'
    BY <2>1, <2>2, StoreStep
  <2>5. BooksInv'
    BY <2>1, <2>2, BooksStep
  <2> QED
    BY <2>3, <2>4, <2>5 DEF LogInv
<1> QED
  BY <1>1, LogInit, Inductive, PTL DEF Spec

\* simLogTask forks a janitor only once no customer is in the store, and
\* nobody is let in while one runs: whatever killSim commands arrive and
\* whichever calls fail, no customer competes with the janitor for an item.
THEOREM JanitorAlone == Spec => []JanitorWhenEmpty
<1>1. LogInv /\ IInv => JanitorWhenEmpty
  <2> SUFFICES ASSUME LogInv, IInv, NEW j \in Janitor, NEW c \in CustTask,
                      home[j] = home[c], pc[j] \notin {"off", "end"}, inside(c)
               PROVE  FALSE
    BY DEF JanitorWhenEmpty
  <2> DEFINE n == home[c]
  <2>1. n \in Node /\ j \in holders(n) /\ c \in insiders(n)
    BY HomeAssumption DEF holders, insiders, Proc, Task
  <2>2. storeOK(n) /\ store[n].customersInStore \in Int
    BY <2>1 DEF LogInv, StoreInv, IInv, TypeOK, StateTypeOK, Store
  <2>3. serving(n) /\ store[n].customersInStore = 0
    BY <2>1, <2>2 DEF storeOK
  <2>4. Cardinality(insiders(n)) = 0
    BY <2>2, <2>3, InsidersFinite DEF storeOK
  <2> QED
    BY <2>1, <2>4, InsidersFinite, FS_EmptySet
<1> QED
  BY <1>1, LogInductive, Inductive, PTL

\* Every customer that simLogTask counted in counts itself out unless it
\* fails: with no failing customers, customersInStore is the number of
\* customers inside, in every session of every store.
THEOREM CustomersCounted ==
  ASSUME "customer" \notin Faults
  PROVE  Spec => []CustomersMatch
<1>1. LogInv => CustomersMatch
  BY DEF LogInv, StoreInv, storeOK, CustomersMatch
<1> QED
  BY <1>1, LogInductive, PTL

\* In the first store opened on a node, customerSales is the number of items
\* its customers took away but for those still at the door, whichever calls
\* fail, and however often a reply crosses a timeout.
THEOREM SalesCounted ==
  ASSUME MaxSessions <= 1
  PROVE  Spec => []SalesMatch
<1>1. LogInv /\ IInv => SalesMatch
  <2> SUFFICES ASSUME LogInv, IInv, NEW n \in Node, serving(n)
               PROVE  Cardinality(sales(n)) = store[n].customerSales + Cardinality(door(n))
    BY DEF SalesMatch
  <2>1. sessions[n] \in 0 .. MaxSessions /\ sessions[n] >= 1
    BY DEF LogInv, BooksInv, booksOK, serving, IInv, TypeOK, StateTypeOK
  <2>2. sessions[n] = 1
    BY <2>1, BoundAssumption
  <2> QED
    BY <2>2 DEF LogInv, BooksInv, booksOK
<1> QED
  BY <1>1, LogInductive, Inductive, PTL

\* In the first store opened on a node, itemsInStore is the number of items
\* in stock as long as no item task fails, swept items included.
THEOREM StockCounted ==
  ASSUME MaxSessions <= 1, "item" \notin Faults
  PROVE  Spec => []StockMatch
<1>1. LogInv /\ IInv => StockMatch
  <2> SUFFICES ASSUME LogInv, IInv, NEW n \in Node, serving(n)
               PROVE  store[n].itemsInStore = Cardinality(stock(n))
    BY DEF StockMatch
  <2>1. sessions[n] \in 0 .. MaxSessions /\ sessions[n] >= 1
    BY DEF LogInv, BooksInv, booksOK, serving, IInv, TypeOK, StateTypeOK
  <2>2. sessions[n] = 1
    BY <2>1, BoundAssumption
  <2> QED
    BY <2>2 DEF LogInv, BooksInv, booksOK
<1> QED
  BY <1>1, LogInductive, Inductive, PTL

\* What makes a request with no sender behind it join an item's backlog.
swept(i) ==
  Len(backlog'[i]) > Len(backlog[i]) /\ backlog'[i][Len(backlog'[i])] = Gone

\* A backlog that stays, is emptied or loses its head is not swept.
LEMMA NotSwept ==
  ASSUME StateTypeOK, NEW i \in ItemTask,
         \/ backlog'[i] = backlog[i]
         \/ backlog'[i] = <<>>
         \/ backlog[i] # <<>> /\ backlog'[i] = Tail(backlog[i])
  PROVE  ~ swept(i)
<1>1. backlog[i] \in Seq(CustTask \cup {Gone}) /\ Len(backlog[i]) \in Nat
  BY DEF StateTypeOK
<1>2. SUFFICES ~ (Len(backlog'[i]) > Len(backlog[i]))
  BY DEF swept
<1>3. CASE backlog'[i] = backlog[i]
  BY <1>1, <1>3
<1>4. CASE backlog'[i] = <<>>
  <2>1. Len(<<>>) = 0
    OBVIOUS
  <2> QED
    BY <1>1, <1>4, <2>1
<1>5. CASE backlog[i] # <<>> /\ backlog'[i] = Tail(backlog[i])
  <2>1. Len(Tail(backlog[i])) = Len(backlog[i]) - 1
    BY <1>1, <1>5, HeadTailProperties
  <2> QED
    BY <1>1, <1>5, <2>1
<1> QED
  BY <1>3, <1>4, <1>5

\* Nor is one to which a customer is appended, or in which one is orphaned.
LEMMA CustomerDoesNotSweep ==
  ASSUME StateTypeOK, NEW c \in CustTask, CustRequest(c) \/ CustMissed(c), NEW i \in ItemTask
  PROVE  ~ swept(i)
<1>1. backlog[i] \in Seq(CustTask \cup {Gone}) /\ Len(backlog[i]) \in Nat
  BY DEF StateTypeOK
<1>2. c # Gone
  BY TaskAssumption DEF Proc, Task
<1>3. CASE CustRequest(c)
  <2>1. PICK p \in pend[c], up \in BOOLEAN :
          backlog' = IF up THEN [backlog EXCEPT ![p[1]] = Append(@, c)] ELSE backlog
    BY <1>3 DEF CustRequest, queues
  <2>2. CASE backlog'[i] = backlog[i]
    BY <2>2, NotSwept
  <2>3. CASE backlog'[i] = Append(backlog[i], c)
    <3>1. Append(backlog[i], c)[Len(Append(backlog[i], c))] = c
      BY <1>1, AppendProperties
    <3> QED
      BY <1>2, <2>3, <3>1 DEF swept
  <2> QED
    BY <2>1, <2>2, <2>3 DEF StateTypeOK
<1>4. CASE CustMissed(c)
  <2>1. backlog'[i] = orphaned(backlog[i], c)
    BY <1>4 DEF CustMissed
  <2>2. DOMAIN backlog[i] = 1 .. Len(backlog[i])
    BY <1>1
  <2>3. orphaned(backlog[i], c) \in Seq(CustTask \cup {Gone})
    BY <1>1, OrphanType
  <2>4. DOMAIN orphaned(backlog[i], c) = 1 .. Len(backlog[i])
    BY <2>2 DEF orphaned
  <2>5. Len(orphaned(backlog[i], c)) = Len(backlog[i])
    BY <1>1, <2>3, <2>4, LenProperties
  <2> QED
    BY <1>1, <2>1, <2>5 DEF swept
<1> QED
  BY <1>3, <1>4

\* Only a janitor of the item's own node sweeps it.
LEMMA SweepStep ==
  ASSUME StateTypeOK, [Next]_vars, NEW i \in ItemTask, swept(i)
  PROVE  \E j \in Janitor : pc[j] = "sweep" /\ home[j] = home[i]
<1> USE DEF sockVars
<1>1. ASSUME UNCHANGED backlog PROVE FALSE
  BY <1>1, NotSwept
<1>2. ASSUME NEW n \in Node, LogStep(n) PROVE FALSE
  BY <1>1, <1>2 DEF LogStep, LogBind, LogTransaction, LogWatch, LogHalted, readWatch
<1>3. ASSUME NEW k \in ItemTask, closeItem(k) \/ answer(k, "reply") \/ answer(k, "rejected")
      PROVE  FALSE
  <2>1. \/ backlog' = [backlog EXCEPT ![k] = <<>>]
        \/ backlog[k] # <<>> /\ backlog' = [backlog EXCEPT ![k] = Tail(@)]
    BY <1>3 DEF closeItem, answer
  <2> QED
    BY <2>1, NotSwept DEF StateTypeOK
<1>4. ASSUME NEW k \in ItemTask, ItemStep(k) PROVE FALSE
  BY <1>1, <1>3, <1>4 DEF ItemStep, SimLogSend, ItemPublish, ItemListen, ItemInReturn,
     ItemReply, ItemReplyFails, ItemWarnReturn, ItemOutReturn, ItemFault, ItemFaultReturn
<1>5. ASSUME NEW c \in CustTask, CustStep(c) PROVE FALSE
  <2>1. CASE CustRequest(c) \/ CustMissed(c)
    BY <2>1, CustomerDoesNotSweep
  <2>2. CASE ~ CustRequest(c) /\ ~ CustMissed(c)
    BY <1>1, <1>5, <2>2 DEF CustStep, SimLogSend, CustArrive, CustInReturn, CustSubscribe,
       CustGotItem, CustRejected, CustNoReply, CustWalkOut, CustOutReturn, CustFault,
       CustFaultReturn
  <2> QED
    BY <2>1, <2>2
<1>6. ASSUME NEW j \in Janitor, JanitorEvent(j)
      PROVE  pc[j] = "sweep" /\ home[j] = home[i]
  <2>1. PICK p \in pend[j], up \in BOOLEAN :
          backlog' = IF home[p[1]] = home[j] /\ up
                     THEN [backlog EXCEPT ![p[1]] = Append(@, Gone)] ELSE backlog
    BY <1>6 DEF JanitorEvent, sweepPort, queues
  <2>2. backlog'[i] # backlog[i]
    BY NotSwept
  <2>3. home[p[1]] = home[j] /\ i = p[1]
    BY <2>1, <2>2 DEF StateTypeOK
  <2> QED
    BY <1>6, <2>3 DEF JanitorEvent
<1>7. ASSUME NEW j \in Janitor, JanitorStep(j), ~ JanitorEvent(j) PROVE FALSE
  BY <1>1, <1>7 DEF JanitorStep, SimLogSend, JanitorSubscribe, JanitorDone, JanitorFault,
     JanitorFaultReturn, JanitorExit
<1>8. ASSUME NEW k \in Killer, KillStep(k) PROVE FALSE
  BY <1>1, <1>8 DEF KillStep, SimLogSend, KillReturn
<1>9. ASSUME NEW s \in Subscriber, SubscrTimeout(s) PROVE FALSE
  BY <1>1, <1>9 DEF SubscrTimeout
<1>10. ASSUME NEW z \in ZeroTask, StopSim(z) \/ StartSim(z) \/ ZeroExit(z) PROVE FALSE
  BY <1>1, <1>10 DEF StopSim, StartSim, ZeroExit
<1>11. CASE Commands
  BY <1>1, <1>10, <1>11 DEF Commands, NewSim, NewTask, KillSim
<1>12. CASE UNCHANGED vars
  BY <1>1, <1>12 DEF vars
<1> QED
  BY <1>2, <1>4, <1>5, <1>6, <1>7, <1>8, <1>9, <1>10, <1>11, <1>12 DEF Next, Programs

\* simJanitorTask fakes purchases only of items of its own node, and runs only
\* there: the items of a store that is still open are never swept.
THEOREM OpenStoreNotSwept == Spec => SweptWhenClosed
<1>1. LogInv /\ IInv /\ [Next]_vars
        => [\A i \in ItemTask :
              Len(backlog'[i]) > Len(backlog[i]) /\ backlog'[i][Len(backlog'[i])] = Gone
                => store[home[i]].simState \in {"STORE_CLOSED", "STORE_EMPTY"}]_vars
  <2> SUFFICES ASSUME LogInv, IInv, [Next]_vars, NEW i \in ItemTask, swept(i)
               PROVE  store[home[i]].simState \in {"STORE_CLOSED", "STORE_EMPTY"}
    BY DEF swept
  <2>1. PICK j \in Janitor : pc[j] = "sweep" /\ home[j] = home[i]
    BY SweepStep DEF IInv, TypeOK
  <2>2. home[i] \in Node /\ j \in holders(home[i])
    BY <2>1, HomeAssumption DEF holders, Proc, Task
  <2> QED
    BY <2>2 DEF LogInv, StoreInv, storeOK
<1> QED
  BY <1>1, LogInductive, Inductive, PTL DEF Spec, SweptWhenClosed
=============================================================================
