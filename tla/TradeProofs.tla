---------------------------- MODULE TradeProofs ----------------------------
(***************************************************************************)
(* The third layer of the inductive invariant of InventorySim: sockets,    *)
(* backlogs and replies agree, so an item goes to one customer only.       *)
(***************************************************************************)
EXTENDS InventoryProofs

TookOK == took \subseteq Port \X (CustTask \X (1 .. Repeats))

Trade == TookOK /\ SocketInv /\ BacklogInv /\ TradeInv /\ SoldOnce

off(p) == shelfOf(p) = "off"
sold(c) == busy(c, {"SIM_CUST_OUT"})

\* A step that hands out no reply and takes no item, puts nothing back on a
\* shelf and calls nobody back, keeps TradeInv and SoldOnce.
LEMMA TradeFrame ==
  ASSUME StateTypeOK, StateTypeOK', Trade, took' = took,
         \A p \in Port : off(p) => off(p)',
         \A c \in CustTask : conn'[c].st = "reply" =>
           /\ conn[c].st = "reply" /\ conn'[c].to = conn[c].to
           /\ sold(c) => sold(c)',
         \A c \in CustTask : life'[c] > life[c] \/ (life'[c] = life[c] /\ (out(c) => out(c)'))
  PROVE  TookOK' /\ TradeInv' /\ SoldOnce'
<1>1. TookOK' /\ SoldOnce'
  BY DEF Trade, TookOK, SoldOnce
<1>2. \A c \in CustTask : life[c] \in Nat /\ life'[c] \in Nat /\ (life'[c] > life[c] \/ life'[c] = life[c])
  BY BoundAssumption DEF StateTypeOK, Task
<1>3. ASSUME NEW c \in CustTask, NEW p \in Port, conn'[c].st = "reply", conn'[c].to = p
      PROVE  off(p)' /\ (~ sold(c)' => \A a \in took' : a[1] # p)
  <2>1. conn[c].st = "reply" /\ conn[c].to = p /\ (sold(c) => sold(c)')
    BY <1>3
  <2>2. off(p) /\ (~ sold(c) => \A a \in took : a[1] # p)
    BY <2>1 DEF Trade, TradeInv, off, sold
  <2> QED
    BY <2>1, <2>2
<1>4. ASSUME NEW c \in CustTask, NEW p \in Port, NEW l \in 1 .. Repeats, <<p, <<c, l>>>> \in took
      PROVE  off(p)' /\ (l < life'[c] \/ (l = life'[c] /\ out(c)'))
  <2>1. off(p) /\ (l < life[c] \/ (l = life[c] /\ out(c)))
    BY <1>4 DEF Trade, TradeInv, off
  <2>2. CASE l < life[c]
    BY <1>2, <2>1, <2>2, BoundAssumption
  <2>3. CASE l = life[c] /\ out(c)
    <3>1. CASE life'[c] > life[c]
      BY <1>2, <2>1, <2>3, <3>1
    <3>2. CASE life'[c] = life[c] /\ (out(c) => out(c)')
      BY <2>1, <2>3, <3>2
    <3> QED
      BY <3>1, <3>2
  <2> QED
    BY <2>1, <2>2, <2>3
<1>5. /\ \A c \in CustTask : conn'[c].st = "reply" => conn'[c].to \in Port
      /\ \A c, d \in CustTask :
           conn'[c].st = "reply" /\ conn'[d].st = "reply" /\ conn'[c].to = conn'[d].to => c = d
  BY DEF Trade, TradeInv
<1>6. TradeInv'
  BY <1>3, <1>4, <1>5 DEF TradeInv, off, sold
<1> QED
  BY <1>1, <1>6

\* A step that leaves the requests in the backlogs and their senders alone.
LEMMA BacklogFrame ==
  ASSUME StateTypeOK, BacklogInv, backlog' = backlog,
         \A c \in CustTask : conn[c].st = "syn" => conn'[c] = conn[c],
         \A i \in ItemTask : backlog[i] # <<>> => life'[i] = life[i]
  PROVE  BacklogInv'
<1>1. \A i \in ItemTask : \A a \in 1 .. Len(backlog[i]) :
        backlog[i][a] \in CustTask \cup {Gone} /\ backlog[i] # <<>>
  BY DEF StateTypeOK
<1> QED
  BY <1>1 DEF BacklogInv, port

\* A step of anybody but items and customers: their calls to simLog advance,
\* and tasks are forked.
LEMMA QuietStep ==
  ASSUME StateTypeOK, StateTypeOK', Trade, UNCHANGED <<life, sockVars, custVars>>,
         \A t \in Task :
           /\ req'[t] = req[t]
           /\ \/ pc'[t] = pc[t]
              \/ pc[t] = "off" /\ pc'[t] = "lag"
              \/ pc[t] \in {"call", "wait", "ret"} /\ pc'[t] \in {"call", "wait", "ret"}
  PROVE  Trade'
<1> USE DEF Task, sockVars, custVars
<1>1. \A t \in Task : \A S : busy(t, S)' <=> busy(t, S)
  BY DEF busy
<1>2. \A p \in Port : shelfOf(p)' = shelfOf(p)
  BY <1>1 DEF shelfOf, leaving, Port
<1>3. SocketInv'
  BY <1>1 DEF Trade, SocketInv, itemSocket, custSocket
<1>4. BacklogInv'
  BY BacklogFrame DEF Trade
<1>5. TookOK' /\ TradeInv' /\ SoldOnce'
  <2>1. \A c \in CustTask : out(c) => out(c)'
    BY <1>1 DEF out
  <2>2. \A p \in Port : off(p) => off(p)'
    BY <1>2 DEF off
  <2> QED
    BY <1>1, <2>1, <2>2, TradeFrame DEF sold
<1> QED
  BY <1>3, <1>4, <1>5 DEF Trade

\* A step of item i that hands out no reply.
LEMMA ItemFrame ==
  ASSUME StateTypeOK, StateTypeOK', Trade, NEW i \in ItemTask, took' = took,
         \A t \in Task : t # i => pc'[t] = pc[t] /\ req'[t] = req[t] /\ life'[t] = life[t],
         \A x \in ItemTask : x # i => sock'[x] = sock[x] /\ backlog'[x] = backlog[x],
         \A c \in CustTask : conn'[c] = conn[c] \/ (conn[c].st = "syn" /\ conn'[c].st = "rejected"),
         \A l \in 1 .. Repeats : off(<<i, l>>) => off(<<i, l>>)',
         itemSocket(i)'
  PROVE  TookOK' /\ SocketInv' /\ TradeInv' /\ SoldOnce'
<1> USE TaskAssumption DEF Task
<1>1. \A t \in Task : \A S : t # i => (busy(t, S)' <=> busy(t, S))
  BY DEF busy
<1>2. \A p \in Port : off(p) => off(p)'
  <2>1. ASSUME NEW p \in Port, p[1] # i
        PROVE  off(p) => off(p)'
    BY <1>1, <2>1 DEF off, shelfOf, leaving, Port
  <2>2. \A p \in Port : p[1] = i => \E l \in 1 .. Repeats : p = <<i, l>>
    BY DEF Port
  <2> QED
    BY <2>1, <2>2
<1>3. \A c \in CustTask : c # i
  OBVIOUS
<1>4. \A c \in CustTask : (out(c) <=> out(c)') /\ (sold(c) <=> sold(c)')
  BY <1>1, <1>3 DEF out, sold
<1>5. TookOK' /\ TradeInv' /\ SoldOnce'
  BY <1>2, <1>3, <1>4, TradeFrame
<1>6. ASSUME NEW c \in CustTask PROVE custSocket(c)'
  <2>1. CASE conn'[c] = conn[c]
    BY <1>1, <1>3, <2>1 DEF Trade, SocketInv, custSocket
  <2>2. CASE conn[c].st = "syn" /\ conn'[c].st = "rejected"
    BY <1>1, <1>3, <2>2 DEF Trade, SocketInv, custSocket, NoConn
  <2> QED
    BY <2>1, <2>2
<1>7. ASSUME NEW x \in ItemTask PROVE itemSocket(x)'
  <2>1. CASE x # i
    BY <1>1, <2>1 DEF Trade, SocketInv, itemSocket
  <2> QED
    BY <2>1
<1> QED
  BY <1>5, <1>6, <1>7 DEF SocketInv

\* A step of customer c that takes no item.
LEMMA CustFrame ==
  ASSUME StateTypeOK, StateTypeOK', Trade, NEW c \in CustTask, took' = took,
         \A t \in Task : t # c => pc'[t] = pc[t] /\ req'[t] = req[t] /\ life'[t] = life[t],
         sock' = sock,
         \A i \in ItemTask : sock[i] = "closed" => backlog'[i] = backlog[i],
         \A d \in CustTask : d # c => conn'[d] = conn[d],
         conn'[c].st = "reply" => conn'[c] = conn[c] /\ (sold(c) => sold(c)'),
         life'[c] > life[c] \/ (life'[c] = life[c] /\ (out(c) => out(c)')),
         custSocket(c)'
  PROVE  TookOK' /\ SocketInv' /\ TradeInv' /\ SoldOnce'
<1> USE TaskAssumption DEF Task
<1>1. \A t \in Task : \A S : t # c => (busy(t, S)' <=> busy(t, S))
  BY DEF busy
<1>2. \A i \in ItemTask : i # c
  OBVIOUS
<1>3. \A p \in Port : off(p) => off(p)'
  BY <1>1, <1>2 DEF off, shelfOf, leaving, Port
<1>4. \A d \in CustTask : d # c => (out(d) <=> out(d)') /\ (sold(d) <=> sold(d)')
  BY <1>1 DEF out, sold
<1>5. TookOK' /\ TradeInv' /\ SoldOnce'
  <2>1. \A d \in CustTask : conn'[d].st = "reply" =>
          conn[d].st = "reply" /\ conn'[d].to = conn[d].to /\ (sold(d) => sold(d)')
    BY <1>4
  <2>2. \A d \in CustTask : life'[d] > life[d] \/ (life'[d] = life[d] /\ (out(d) => out(d)'))
    BY <1>4
  <2> QED
    BY <1>3, <2>1, <2>2, TradeFrame
<1>6. ASSUME NEW d \in CustTask PROVE custSocket(d)'
  <2>1. CASE d # c
    BY <1>1, <2>1 DEF Trade, SocketInv, custSocket
  <2> QED
    BY <2>1
<1>7. ASSUME NEW i \in ItemTask PROVE itemSocket(i)'
  BY <1>1, <1>2 DEF Trade, SocketInv, itemSocket
<1> QED
  BY <1>5, <1>6, <1>7 DEF SocketInv

-----------------------------------------------------------------------------
\* What closing the listening socket of item i does to the requests queued on
\* it, and to nothing else.
LEMMA CloseItemTrade ==
  ASSUME StateTypeOK, Trade, NEW i \in ItemTask, closeItem(i), life' = life
  PROVE  /\ backlog'[i] = <<>> /\ sock'[i] = "closed" /\ took' = took
         /\ \A x \in ItemTask : x # i => sock'[x] = sock[x] /\ backlog'[x] = backlog[x]
         /\ \A c \in CustTask : conn'[c] = conn[c] \/ (conn[c].st = "syn" /\ conn'[c].st = "rejected")
         /\ BacklogInv'
<1>1. /\ backlog'[i] = <<>> /\ sock'[i] = "closed" /\ took' = took
      /\ \A x \in ItemTask : x # i => sock'[x] = sock[x] /\ backlog'[x] = backlog[x]
  BY DEF closeItem, StateTypeOK
<1>2. \A x \in ItemTask : /\ DOMAIN backlog[x] = 1 .. Len(backlog[x])
                         /\ \A a \in 1 .. Len(backlog[x]) : backlog[x][a] \in CustTask \cup {Gone}
  BY DEF StateTypeOK
<1>3. \A c \in CustTask : c \in inBacklog(i) => conn[c] = [to |-> port(i), st |-> "syn"]
  BY <1>2, TaskAssumption DEF inBacklog, Trade, BacklogInv, Task, Proc
<1>4. ASSUME NEW c \in CustTask
      PROVE  \/ c \notin inBacklog(i) /\ conn'[c] = conn[c]
             \/ c \in inBacklog(i) /\ conn[c].st = "syn" /\ conn'[c].st = "rejected"
  <2>1. CASE c \in inBacklog(i)
    BY <1>3, <2>1 DEF closeItem, StateTypeOK
  <2>2. CASE c \notin inBacklog(i)
    BY <2>2 DEF closeItem
  <2> QED
    BY <2>1, <2>2
<1>5. ASSUME NEW x \in ItemTask, NEW a \in 1 .. Len(backlog'[x]), backlog'[x][a] # Gone
      PROVE  /\ conn'[backlog'[x][a]] = [to |-> port(x)', st |-> "syn"]
             /\ \A b \in 1 .. Len(backlog'[x]) : backlog'[x][a] = backlog'[x][b] => a = b
  <2>1. x # i /\ backlog'[x] = backlog[x]
    BY <1>1, <1>5
  <2> DEFINE c == backlog[x][a]
  <2>2. c \in CustTask /\ conn[c] = [to |-> port(x), st |-> "syn"]
    BY <1>2, <1>5, <2>1 DEF Trade, BacklogInv
  <2>3. c \notin inBacklog(i)
    BY <1>3, <2>1, <2>2 DEF port
  <2>4. conn'[c] = conn[c]
    BY <1>4, <2>2, <2>3
  <2> QED
    BY <1>5, <2>1, <2>2, <2>4 DEF Trade, BacklogInv, port
<1> QED
  BY <1>1, <1>4, <1>5 DEF BacklogInv

\* Answering the oldest request of item i takes it from the backlog and
\* touches nobody but its sender, who was waiting for item i.
LEMMA AnswerTrade ==
  ASSUME StateTypeOK, Trade, NEW i \in ItemTask, NEW st \in {"reply", "rejected"}, answer(i, st)
  PROVE  /\ \A x \in ItemTask : x # i => backlog'[x] = backlog[x]
         /\ \A c \in CustTask : conn'[c] = conn[c] \/
              (conn[c] = [to |-> port(i), st |-> "syn"] /\ conn'[c] = [to |-> port(i), st |-> st]
                 /\ c = Head(backlog[i]))
         /\ BacklogInv'
<1> DEFINE q == backlog[i]
<1>1. /\ q \in Seq(CustTask \cup {Gone}) /\ q # <<>> /\ Len(q) \in Nat /\ 1 \in 1 .. Len(q)
      /\ Head(q) = q[1] /\ backlog' = [backlog EXCEPT ![i] = Tail(q)]
      /\ life' = life
  BY DEF answer, StateTypeOK
<1>2. /\ \A x \in ItemTask : x # i => backlog'[x] = backlog[x]
      /\ backlog'[i] = Tail(q)
  BY <1>1 DEF StateTypeOK
<1>3. /\ Len(Tail(q)) = Len(q) - 1
      /\ \A a \in 1 .. Len(Tail(q)) : Tail(q)[a] = q[a + 1]
  BY <1>1, HeadTailProperties
<1>4. \A x \in ItemTask : \A a \in 1 .. Len(backlog[x]) : backlog[x][a] \in CustTask \cup {Gone}
  BY DEF StateTypeOK
<1>5. \A c \in CustTask : IF c = q[1] THEN conn'[c] = [conn[c] EXCEPT !.st = st]
                                      ELSE conn'[c] = conn[c]
  BY <1>1 DEF answer
<1>6. \A c \in CustTask : c = q[1] =>
        conn[c] = [to |-> port(i), st |-> "syn"] /\ conn'[c] = [to |-> port(i), st |-> st]
  <2>1. \A c \in CustTask : c = q[1] => conn[c] = [to |-> port(i), st |-> "syn"]
    BY <1>1, TaskAssumption DEF Trade, BacklogInv, Task, Proc
  <2> QED
    BY <1>5, <2>1
<1>7. \A c \in CustTask : conn'[c] = conn[c] \/
        (conn[c] = [to |-> port(i), st |-> "syn"] /\ conn'[c] = [to |-> port(i), st |-> st]
           /\ c = Head(backlog[i]))
  BY <1>1, <1>5, <1>6
<1> HIDE DEF q
<1>8. ASSUME NEW x \in ItemTask, NEW a \in 1 .. Len(backlog'[x]), backlog'[x][a] # Gone
      PROVE  /\ conn'[backlog'[x][a]] = [to |-> port(x)', st |-> "syn"]
             /\ \A b \in 1 .. Len(backlog'[x]) : backlog'[x][a] = backlog'[x][b] => a = b
  <2>1. CASE x # i
    <3>1. backlog'[x] = backlog[x]
      BY <1>2, <2>1
    <3>2. /\ backlog[x][a] \in CustTask
          /\ conn[backlog[x][a]] = [to |-> port(x), st |-> "syn"]
      BY <1>4, <1>8, <3>1 DEF Trade, BacklogInv
    <3>3. conn'[backlog[x][a]] = conn[backlog[x][a]]
      <4>1. port(x) # port(i)
        BY <2>1 DEF port
      <4>2. conn[backlog[x][a]].to = port(x)
        BY <3>2
      <4>3. backlog[x][a] = q[1] => conn[backlog[x][a]].to = port(i)
        BY <1>6, <3>2
      <4>4. backlog[x][a] # q[1]
        BY <4>1, <4>2, <4>3
      <4> QED
        BY <1>5, <3>2, <4>4
    <3>4. port(x)' = port(x)
      BY <1>1 DEF port
    <3>5. \A b \in 1 .. Len(backlog[x]) : backlog[x][a] = backlog[x][b] => a = b
      BY <1>8, <3>1 DEF Trade, BacklogInv
    <3> QED
      BY <3>1, <3>2, <3>3, <3>4, <3>5
  <2>2. CASE x = i
    <3>1. a + 1 \in 1 .. Len(q) /\ a + 1 # 1 /\ backlog'[i][a] = q[a + 1]
      BY <1>1, <1>2, <1>3, <1>8, <2>2
    <3>2. /\ q[a + 1] \in CustTask /\ q[a + 1] # q[1]
          /\ conn[q[a + 1]] = [to |-> port(i), st |-> "syn"]
      BY <1>1, <1>4, <1>8, <2>2, <3>1 DEF Trade, BacklogInv, q
    <3>3. conn'[q[a + 1]] = conn[q[a + 1]]
      BY <1>5, <3>2
    <3>4. \A b \in 1 .. Len(backlog'[i]) : b + 1 \in 1 .. Len(q) /\ backlog'[i][b] = q[b + 1]
      BY <1>1, <1>2, <1>3
    <3>5. \A b \in 1 .. Len(backlog'[i]) : backlog'[i][a] = backlog'[i][b] => a + 1 = b + 1
      BY <1>8, <2>2, <3>1, <3>4, ZenonT(60) DEF Trade, BacklogInv, q
    <3>6. \A b \in 1 .. Len(backlog'[i]) : a + 1 = b + 1 => a = b
      BY <2>2
    <3> QED
      BY <1>1, <2>2, <3>1, <3>2, <3>3, <3>5, <3>6 DEF port
  <2> QED
    BY <2>1, <2>2
<1> QED
  BY <1>2, <1>7, <1>8 DEF BacklogInv
-----------------------------------------------------------------------------
\* Appending to the backlog of item i a request that is orphaned, or that comes
\* from a customer without a connection.
LEMMA AppendTrade ==
  ASSUME StateTypeOK, Trade, NEW i \in ItemTask, NEW c \in CustTask \cup {Gone},
         backlog' = [backlog EXCEPT ![i] = Append(@, c)], life' = life,
         c # Gone => conn[c] = NoConn /\ conn'[c] = [to |-> port(i), st |-> "syn"],
         \A d \in CustTask : d # c => conn'[d] = conn[d]
  PROVE  BacklogInv'
<1> DEFINE q == backlog[i]
<1>1. /\ q \in Seq(CustTask \cup {Gone}) /\ Len(q) \in Nat
      /\ backlog'[i] = Append(q, c)
      /\ \A x \in ItemTask : x # i => backlog'[x] = backlog[x]
  BY DEF StateTypeOK
<1>2. /\ Len(Append(q, c)) = Len(q) + 1
      /\ \A a \in 1 .. Len(q) : Append(q, c)[a] = q[a]
      /\ Append(q, c)[Len(q) + 1] = c
  BY <1>1, AppendProperties
<1>3. \A x \in ItemTask : port(x)' = port(x)
  BY DEF port
<1>4. ASSUME NEW x \in ItemTask, NEW a \in 1 .. Len(backlog[x]), backlog[x][a] # Gone
      PROVE  /\ backlog[x][a] \in CustTask /\ backlog[x][a] # c
             /\ conn'[backlog[x][a]] = [to |-> port(x)', st |-> "syn"]
             /\ \A b \in 1 .. Len(backlog[x]) : backlog[x][a] = backlog[x][b] => a = b
  <2>1. backlog[x][a] \in CustTask
    BY <1>4 DEF StateTypeOK
  <2>2. /\ conn[backlog[x][a]] = [to |-> port(x), st |-> "syn"]
        /\ \A b \in 1 .. Len(backlog[x]) : backlog[x][a] = backlog[x][b] => a = b
    BY <1>4 DEF Trade, BacklogInv
  <2>3. backlog[x][a] # c
    BY <1>4, <2>1, <2>2 DEF NoConn
  <2> QED
    BY <1>3, <2>1, <2>2, <2>3
<1> HIDE DEF q
<1>5. ASSUME NEW x \in ItemTask, NEW a \in 1 .. Len(backlog'[x]), backlog'[x][a] # Gone
      PROVE  /\ conn'[backlog'[x][a]] = [to |-> port(x)', st |-> "syn"]
             /\ \A b \in 1 .. Len(backlog'[x]) : backlog'[x][a] = backlog'[x][b] => a = b
  <2>1. CASE x # i
    BY <1>1, <1>4, <1>5, <2>1
  <2>2. CASE x = i
    <3>1. \A b \in 1 .. Len(backlog'[i]) : b \in 1 .. Len(q) \/ b = Len(q) + 1
      BY <1>1, <1>2
    <3>2. \A b \in 1 .. Len(q) : backlog'[i][b] = backlog[i][b]
      BY <1>1, <1>2 DEF q
    <3>3. backlog'[i][Len(q) + 1] = c
      BY <1>1, <1>2
    <3>4. CASE a \in 1 .. Len(q)
      <4>1. /\ backlog[i][a] # c
            /\ conn'[backlog[i][a]] = [to |-> port(i)', st |-> "syn"]
            /\ \A b \in 1 .. Len(q) : backlog[i][a] = backlog[i][b] => a = b
        BY <1>4, <1>5, <2>2, <3>2, <3>4 DEF q
      <4> QED
        BY <2>2, <3>1, <3>2, <3>3, <3>4, <4>1
    <3>5. CASE a = Len(q) + 1
      <4>1. \A b \in 1 .. Len(q) : backlog[i][b] # c
        BY <1>4, <1>5, <2>2, <3>3, <3>5 DEF q
      <4> QED
        BY <1>3, <1>5, <2>2, <3>1, <3>2, <3>3, <3>5, <4>1
    <3> QED
      BY <1>5, <2>2, <3>1, <3>4, <3>5
  <2> QED
    BY <2>1, <2>2
<1> QED
  BY <1>5 DEF BacklogInv

\* The logging task lets one waiting sender return; it touches no other task.
LEMMA LogTransactionQuiet ==
  ASSUME StateTypeOK, QueueInv, NEW n \in Node, LogTransaction(n)
  PROVE  \A t \in Task : pc'[t] = pc[t] \/ (pc[t] = "wait" /\ pc'[t] = "ret")
<1> USE TaskAssumption DEF Task, Proc
<1>1. logq[n] \in Seq(Proc) /\ logq[n] # <<>> /\ Head(logq[n]) = logq[n][1] /\ 1 \in 1 .. Len(logq[n])
  BY DEF LogTransaction, StateTypeOK
<1>2. pc[Head(logq[n])] = "wait" /\ Head(logq[n]) \in Proc
  BY <1>1 DEF QueueInv
<1>3. \/ pc' = [pc EXCEPT ![Head(logq[n])] = "ret"]
      \/ \E j \in Janitor : pc' = [pc EXCEPT ![Head(logq[n])] = "ret", ![j] = "scan"]
  BY DEF LogTransaction
<1>4. \A t \in Task : pc'[t] = pc[t] \/ (pc[t] = "wait" /\ pc'[t] = "ret")
  <2>1. CASE pc' = [pc EXCEPT ![Head(logq[n])] = "ret"]
    BY <1>2, <2>1 DEF StateTypeOK
  <2>2. ASSUME NEW j \in Janitor, pc' = [pc EXCEPT ![Head(logq[n])] = "ret", ![j] = "scan"]
        PROVE  \A t \in Task : pc'[t] = pc[t] \/ (pc[t] = "wait" /\ pc'[t] = "ret")
    <3> DEFINE h == Head(logq[n])
    <3>1. DOMAIN pc = Proc /\ h \in Proc /\ pc[h] = "wait"
      BY <1>2 DEF StateTypeOK
    <3> HIDE DEF h
    <3>2. ASSUME NEW t \in Task
          PROVE  pc'[t] = IF t = h THEN "ret" ELSE pc[t]
      <4>1. t # j /\ t \in Proc
        OBVIOUS
      <4> QED
        BY <2>2, <3>1, <4>1 DEF h
    <3> QED
      BY <3>1, <3>2
  <2> QED
    BY <1>3, <2>1, <2>2
<1> QED
  BY <1>4

\* A janitor that exits last sends its waiting callers home, and no one else.
LEMMA JanitorExitQuiet ==
  ASSUME StateTypeOK, QueueInv, NEW j \in Janitor, JanitorExit(j)
  PROVE  \A t \in Task : pc'[t] = pc[t] \/ (pc[t] = "wait" /\ pc'[t] = "ret")
<1>1. \A n \in Node : \A k \in DOMAIN logq[n] : pc[logq[n][k]] = "wait"
  <2>1. \A n \in Node : DOMAIN logq[n] = 1 .. Len(logq[n])
    BY DEF StateTypeOK
  <2> QED
    BY <2>1 DEF QueueInv
<1>2. home[j] \in Node
  BY HomeAssumption DEF Proc
<1> QED
  BY <1>1, <1>2, TaskAssumption DEF JanitorExit, Task, Proc

\* Every step keeps the agreement of sockets, backlogs and replies.
LEMMA TradeStep ==
  ASSUME StateTypeOK, StateTypeOK', LifeInv, QueueInv, Trade, [Next]_vars
  PROVE  Trade'
<1> USE TaskAssumption, BoundAssumption
      DEF Task, Proc, logVars, sockVars, subVars, custVars
<1>1. ASSUME NEW p \in Proc, SimLogSend(p)
      PROVE  Trade'
  BY <1>1, QuietStep, SMTT(60) DEF SimLogSend, StateTypeOK
<1>2. ASSUME NEW n \in Node, LogBind(n)
      PROVE  Trade'
  BY <1>2, QuietStep DEF LogBind, StateTypeOK
<1>3. ASSUME NEW n \in Node, LogTransaction(n)
      PROVE  Trade'
  <2>1. UNCHANGED <<req, life, sockVars, custVars>>
    BY <1>3 DEF LogTransaction
  <2> QED
    BY <1>3, <2>1, LogTransactionQuiet, QuietStep
<1>4. ASSUME NEW n \in Node, LogWatch(n)
      PROVE  Trade'
  BY <1>4, QuietStep DEF LogWatch, readWatch, StateTypeOK
<1>5. ASSUME NEW n \in Node, LogHalted(n)
      PROVE  Trade'
  BY <1>5, QuietStep DEF LogHalted, readWatch, StateTypeOK
<1>6. ASSUME NEW i \in ItemTask, ItemPublish(i)
      PROVE  Trade'
  <2>1. /\ took' = took
        /\ \A t \in Task : t # i => pc'[t] = pc[t] /\ req'[t] = req[t] /\ life'[t] = life[t]
        /\ \A x \in ItemTask : x # i => sock'[x] = sock[x] /\ backlog'[x] = backlog[x]
        /\ \A c \in CustTask : conn'[c] = conn[c] \/ (conn[c].st = "syn" /\ conn'[c].st = "rejected")
    BY <1>6 DEF ItemPublish, StateTypeOK
  <2>2. \A l \in 1 .. Repeats : off(<<i, l>>) => off(<<i, l>>)'
    BY <1>6 DEF ItemPublish, off, shelfOf, leaving, busy, StateTypeOK, Trade, SocketInv, itemSocket
  <2>3. itemSocket(i)'
    BY <1>6 DEF ItemPublish, itemSocket, busy, StateTypeOK, Trade, SocketInv
  <2>4. BacklogInv'
    BY <1>6, BacklogFrame DEF ItemPublish, Trade, SocketInv, itemSocket, StateTypeOK
  <2> QED
    BY <2>1, <2>2, <2>3, <2>4, ItemFrame DEF Trade
<1>7. ASSUME NEW i \in ItemTask, ItemListen(i)
      PROVE  Trade'
  <2>1. /\ took' = took
        /\ \A t \in Task : t # i => pc'[t] = pc[t] /\ req'[t] = req[t] /\ life'[t] = life[t]
        /\ \A x \in ItemTask : x # i => sock'[x] = sock[x] /\ backlog'[x] = backlog[x]
        /\ \A c \in CustTask : conn'[c] = conn[c] \/ (conn[c].st = "syn" /\ conn'[c].st = "rejected")
    BY <1>7 DEF ItemListen, calls, StateTypeOK
  <2>2. \A l \in 1 .. Repeats : off(<<i, l>>) => off(<<i, l>>)'
    BY <1>7 DEF ItemListen, calls, off, shelfOf, leaving, busy, StateTypeOK, Trade, SocketInv, itemSocket
  <2>3. itemSocket(i)'
    BY <1>7 DEF ItemListen, calls, itemSocket, busy, StateTypeOK, Trade, SocketInv
  <2>4. BacklogInv'
    BY <1>7, BacklogFrame DEF ItemListen, calls, Trade, SocketInv, itemSocket, StateTypeOK
  <2> QED
    BY <2>1, <2>2, <2>3, <2>4, ItemFrame DEF Trade
<1>8. ASSUME NEW i \in ItemTask, ItemInReturn(i)
      PROVE  Trade'
  <2>1. CASE ack[i] < 0
    <3>1. /\ closeItem(i) /\ pc' = [pc EXCEPT ![i] = "end"]
          /\ UNCHANGED <<logVars, req, ack, item, life, subVars, zero>>
      BY <1>8, <2>1 DEF ItemInReturn
    <3>2. \A l \in 1 .. Repeats : off(<<i, l>>) => off(<<i, l>>)'
      BY <3>1, CloseItemTrade DEF off, shelfOf
    <3>3. itemSocket(i)'
      BY <3>1, CloseItemTrade DEF itemSocket, busy, StateTypeOK
    <3>4. \A t \in Task : t # i => pc'[t] = pc[t] /\ req'[t] = req[t] /\ life'[t] = life[t]
      BY <3>1 DEF StateTypeOK
    <3> QED
      BY <3>1, <3>2, <3>3, <3>4, CloseItemTrade, ItemFrame DEF Trade
  <2>2. CASE ~ (ack[i] < 0)
    <3>1. /\ pc' = [pc EXCEPT ![i] = "sell"] /\ pc[i] = "ret" /\ req[i] = "SIM_ITEM_IN"
          /\ UNCHANGED <<logVars, req, ack, item, life, sockVars, subVars, custVars, zero>>
      BY <1>8, <2>2 DEF ItemInReturn, returned
    <3>2. \A l \in 1 .. Repeats : off(<<i, l>>) => off(<<i, l>>)'
      BY <3>1 DEF off, shelfOf, leaving, busy, StateTypeOK
    <3>3. itemSocket(i)'
      BY <3>1 DEF itemSocket, busy, StateTypeOK, Trade, SocketInv
    <3>4. \A t \in Task : t # i => pc'[t] = pc[t]
      BY <3>1 DEF StateTypeOK
    <3>5. BacklogInv'
      BY <3>1, BacklogFrame DEF Trade
    <3> QED
      BY <3>1, <3>2, <3>3, <3>4, <3>5, ItemFrame DEF Trade
  <2> QED
    BY <2>1, <2>2
<1>9. ASSUME NEW i \in ItemTask, ItemReply(i)
      PROVE  Trade'
  <2>1. /\ answer(i, "reply")
        /\ pc[i] = "sell" /\ pc' = [pc EXCEPT ![i] = "call"] /\ req' = [req EXCEPT ![i] = "SIM_ITEM_OUT"]
        /\ UNCHANGED <<life, sock, tid, took>>
    BY <1>9 DEF ItemReply, answer, calls
  <2>2. /\ \A t \in Task : t # i => pc'[t] = pc[t] /\ req'[t] = req[t]
        /\ pc'[i] = "call" /\ req'[i] = "SIM_ITEM_OUT"
    BY <2>1 DEF StateTypeOK
  <2>3. \A l \in 1 .. Repeats : off(<<i, l>>) => off(<<i, l>>)'
    BY <2>1, <2>2 DEF off, shelfOf, leaving, busy
  <2>4. itemSocket(i)'
    BY <2>1, <2>2 DEF itemSocket, busy, Trade, SocketInv
  <2>5. BacklogInv' /\ \A x \in ItemTask : x # i => backlog'[x] = backlog[x]
    BY <2>1, AnswerTrade
  <2>6. \A c \in CustTask :
          \/ conn'[c] = conn[c]
          \/ /\ conn[c] = [to |-> port(i), st |-> "syn"] /\ conn'[c] = [to |-> port(i), st |-> "reply"]
             /\ c = Head(backlog[i])
    BY <2>1, AnswerTrade
  <2>7. SocketInv'
    <3>1. \A t \in Task : \A S : t # i => (busy(t, S)' <=> busy(t, S))
      BY <2>2 DEF busy
    <3>2. ASSUME NEW x \in ItemTask PROVE itemSocket(x)'
      <4>1. CASE x # i
        BY <2>1, <2>2, <2>5, <3>1, <4>1 DEF Trade, SocketInv, itemSocket
      <4> QED
        BY <2>4, <4>1
    <3>3. ASSUME NEW c \in CustTask PROVE custSocket(c)'
      <4>1. c # i
        OBVIOUS
      <4>2. CASE conn'[c] = conn[c]
        BY <2>1, <2>2, <3>1, <4>1, <4>2 DEF Trade, SocketInv, custSocket
      <4>3. CASE conn[c] = [to |-> port(i), st |-> "syn"] /\ conn'[c] = [to |-> port(i), st |-> "reply"]
        BY <2>1, <2>2, <3>1, <4>1, <4>3 DEF Trade, SocketInv, custSocket, NoConn
      <4> QED
        BY <2>6, <4>2, <4>3
    <3> QED
      BY <3>2, <3>3 DEF SocketInv
  <2>8. TradeInv'
    <3>1. /\ port(i) \in Port /\ ~ off(port(i)) /\ off(port(i))'
      <4>1. life[i] \in 1 .. Repeats /\ sock[i] # "closed"
        BY <2>1 DEF StateTypeOK, LifeInv, Trade, SocketInv, itemSocket
      <4>2. port(i) \in Port
        BY <4>1 DEF port, Port
      <4>3. ~ off(port(i))
        BY <2>1, <4>1 DEF off, shelfOf, leaving, busy, port
      <4>4. shelfOf(port(i))' = "off"
        BY <2>1, <2>2, <4>1 DEF shelfOf, leaving, busy, port
      <4> QED
        BY <4>2, <4>3, <4>4 DEF off
    <3>2. \A p \in Port : off(p) => off(p)'
      <4>1. ASSUME NEW p \in Port, p[1] # i
            PROVE  off(p) => off(p)'
        BY <2>1, <2>2, <4>1 DEF off, shelfOf, leaving, busy, Port
      <4>2. \A p \in Port : p[1] = i => \E l \in 1 .. Repeats : p = <<i, l>>
        BY DEF Port
      <4> QED
        BY <2>3, <4>1, <4>2
    <3>3. \A p \in Port : p = port(i) => off(p)'
      BY <2>1, <3>1 DEF off, port
    <3>4. \A c \in CustTask : (sold(c)' <=> sold(c)) /\ (out(c)' <=> out(c)) /\ life'[c] = life[c]
      BY <2>1, <2>2 DEF sold, out, busy
    <3>5. ASSUME NEW c \in CustTask, NEW p \in Port, conn[c].st = "reply", conn[c].to = p
          PROVE  off(p) /\ (~ sold(c) => \A a \in took : a[1] # p)
      BY <3>5 DEF Trade, TradeInv, off, sold
    <3>6. ASSUME NEW c \in CustTask, NEW p \in Port, NEW l \in 1 .. Repeats, <<p, <<c, l>>>> \in took
          PROVE  off(p) /\ (l < life[c] \/ (l = life[c] /\ out(c)))
      BY <3>6 DEF Trade, TradeInv, off
    <3>7. \A a \in took : a[1] # port(i)
      <4>1. \A a \in took : \E p \in Port, c \in CustTask, l \in 1 .. Repeats : a = <<p, <<c, l>>>>
        BY DEF Trade, TookOK
      <4>2. \A a \in took : \E p \in Port : a[1] = p /\ off(p)
        BY <3>6, <4>1
      <4> QED
        BY <3>1, <4>2
    <3>8. \A c \in CustTask : conn[c].st = "reply" => conn[c].to \in Port /\ conn[c].to # port(i)
      <4>1. \A c \in CustTask : conn[c].st = "reply" => conn[c].to \in Port
        BY DEF Trade, TradeInv
      <4> QED
        BY <3>1, <3>5, <4>1
    <3>9. ASSUME NEW c \in CustTask, conn'[c].st = "reply"
          PROVE  \/ conn[c].st = "reply" /\ conn'[c].to = conn[c].to
                 \/ conn'[c].to = port(i) /\ c = Head(backlog[i])
      BY <2>6, <3>9
    <3>10. /\ \A c \in CustTask : conn'[c].st = "reply" => conn'[c].to \in Port
           /\ \A c, d \in CustTask :
                conn'[c].st = "reply" /\ conn'[d].st = "reply" /\ conn'[c].to = conn'[d].to => c = d
      BY <3>1, <3>8, <3>9 DEF Trade, TradeInv
    <3>11. ASSUME NEW c \in CustTask, NEW p \in Port, conn'[c].st = "reply", conn'[c].to = p
           PROVE  off(p)' /\ (~ sold(c)' => \A a \in took' : a[1] # p)
      <4>1. CASE conn[c].st = "reply" /\ conn'[c].to = conn[c].to
        BY <2>1, <3>2, <3>4, <3>5, <3>11, <4>1
      <4>2. CASE conn'[c].to = port(i)
        BY <2>1, <3>3, <3>7, <3>11, <4>2
      <4> QED
        BY <3>9, <3>11, <4>1, <4>2
    <3>12. ASSUME NEW c \in CustTask, NEW p \in Port, NEW l \in 1 .. Repeats, <<p, <<c, l>>>> \in took'
           PROVE  off(p)' /\ (l < life'[c] \/ (l = life'[c] /\ out(c)'))
      BY <2>1, <3>2, <3>4, <3>6, <3>12
    <3> QED
      BY <3>10, <3>11, <3>12 DEF TradeInv, off, sold
  <2>9. TookOK' /\ SoldOnce'
    BY <2>1 DEF Trade, TookOK, SoldOnce
  <2> QED
    BY <2>5, <2>7, <2>8, <2>9 DEF Trade
<1>10. ASSUME NEW i \in ItemTask, ItemReplyFails(i)
      PROVE  Trade'
  <2>1. /\ answer(i, "rejected")
        /\ pc[i] = "sell" /\ pc' = [pc EXCEPT ![i] = "call"] /\ req' = [req EXCEPT ![i] = "SIM_WARN"]
        /\ UNCHANGED <<life, sock, tid, took>>
    BY <1>10 DEF ItemReplyFails, answer, calls
  <2>2. /\ \A t \in Task : t # i => pc'[t] = pc[t] /\ req'[t] = req[t]
        /\ pc'[i] = "call" /\ req'[i] = "SIM_WARN"
    BY <2>1 DEF StateTypeOK
  <2>3. \A l \in 1 .. Repeats : off(<<i, l>>) => off(<<i, l>>)'
    BY <2>1, <2>2 DEF off, shelfOf, leaving, busy
  <2>4. itemSocket(i)'
    BY <2>1, <2>2 DEF itemSocket, busy, Trade, SocketInv
  <2>5. \A c \in CustTask : conn'[c] = conn[c] \/ (conn[c].st = "syn" /\ conn'[c].st = "rejected")
    <3>1. \A c \in CustTask : conn'[c] = conn[c] \/
            (conn[c] = [to |-> port(i), st |-> "syn"] /\ conn'[c] = [to |-> port(i), st |-> "rejected"])
      BY <2>1, AnswerTrade
    <3> QED
      BY <3>1
  <2> QED
    BY <2>1, <2>2, <2>3, <2>4, <2>5, AnswerTrade, ItemFrame DEF Trade
<1>11. ASSUME NEW i \in ItemTask, ItemWarnReturn(i)
      PROVE  Trade'
  <2>1. /\ took' = took
        /\ \A t \in Task : t # i => pc'[t] = pc[t] /\ req'[t] = req[t] /\ life'[t] = life[t]
        /\ \A x \in ItemTask : x # i => sock'[x] = sock[x] /\ backlog'[x] = backlog[x]
        /\ \A c \in CustTask : conn'[c] = conn[c] \/ (conn[c].st = "syn" /\ conn'[c].st = "rejected")
    BY <1>11 DEF ItemWarnReturn, returned, StateTypeOK
  <2>2. \A l \in 1 .. Repeats : off(<<i, l>>) => off(<<i, l>>)'
    BY <1>11 DEF ItemWarnReturn, returned, off, shelfOf, leaving, busy, StateTypeOK, Trade, SocketInv, itemSocket
  <2>3. itemSocket(i)'
    BY <1>11 DEF ItemWarnReturn, returned, itemSocket, busy, StateTypeOK, Trade, SocketInv
  <2>4. BacklogInv'
    BY <1>11, BacklogFrame DEF ItemWarnReturn, returned, Trade, SocketInv, itemSocket, StateTypeOK
  <2> QED
    BY <2>1, <2>2, <2>3, <2>4, ItemFrame DEF Trade
<1>12. ASSUME NEW i \in ItemTask, ItemOutReturn(i)
      PROVE  Trade'
  <2>1. /\ took' = took
        /\ \A t \in Task : t # i => pc'[t] = pc[t] /\ req'[t] = req[t] /\ life'[t] = life[t]
        /\ \A x \in ItemTask : x # i => sock'[x] = sock[x] /\ backlog'[x] = backlog[x]
        /\ \A c \in CustTask : conn'[c] = conn[c] \/ (conn[c].st = "syn" /\ conn'[c].st = "rejected")
    BY <1>12, CloseItemTrade DEF ItemOutReturn, returned, taskLoop, StateTypeOK
  <2>2. \A l \in 1 .. Repeats : off(<<i, l>>) => off(<<i, l>>)'
    BY <1>12, CloseItemTrade DEF ItemOutReturn, returned, taskLoop, off, shelfOf, leaving, busy, StateTypeOK, Trade, SocketInv, itemSocket
  <2>3. itemSocket(i)'
    BY <1>12, CloseItemTrade DEF ItemOutReturn, returned, taskLoop, itemSocket, busy, StateTypeOK, Trade, SocketInv
  <2>4. BacklogInv'
    BY <1>12, CloseItemTrade DEF ItemOutReturn, returned, taskLoop, Trade, SocketInv, itemSocket, StateTypeOK
  <2> QED
    BY <2>1, <2>2, <2>3, <2>4, ItemFrame DEF Trade
<1>13. ASSUME NEW i \in ItemTask, ItemFault(i)
      PROVE  Trade'
  <2>1. /\ took' = took
        /\ \A t \in Task : t # i => pc'[t] = pc[t] /\ req'[t] = req[t] /\ life'[t] = life[t]
        /\ \A x \in ItemTask : x # i => sock'[x] = sock[x] /\ backlog'[x] = backlog[x]
        /\ \A c \in CustTask : conn'[c] = conn[c] \/ (conn[c].st = "syn" /\ conn'[c].st = "rejected")
    BY <1>13 DEF ItemFault, calls, StateTypeOK
  <2>2. \A l \in 1 .. Repeats : off(<<i, l>>) => off(<<i, l>>)'
    BY <1>13 DEF ItemFault, calls, off, shelfOf, leaving, busy, StateTypeOK, Trade, SocketInv, itemSocket
  <2>3. itemSocket(i)'
    BY <1>13 DEF ItemFault, calls, itemSocket, busy, StateTypeOK, Trade, SocketInv
  <2>4. BacklogInv'
    BY <1>13, BacklogFrame DEF ItemFault, calls, Trade, SocketInv, itemSocket, StateTypeOK
  <2> QED
    BY <2>1, <2>2, <2>3, <2>4, ItemFrame DEF Trade
<1>14. ASSUME NEW i \in ItemTask, ItemFaultReturn(i)
      PROVE  Trade'
  <2>1. /\ took' = took
        /\ \A t \in Task : t # i => pc'[t] = pc[t] /\ req'[t] = req[t] /\ life'[t] = life[t]
        /\ \A x \in ItemTask : x # i => sock'[x] = sock[x] /\ backlog'[x] = backlog[x]
        /\ \A c \in CustTask : conn'[c] = conn[c] \/ (conn[c].st = "syn" /\ conn'[c].st = "rejected")
    BY <1>14, CloseItemTrade DEF ItemFaultReturn, returned, StateTypeOK
  <2>2. \A l \in 1 .. Repeats : off(<<i, l>>) => off(<<i, l>>)'
    BY <1>14, CloseItemTrade DEF ItemFaultReturn, returned, off, shelfOf, leaving, busy, StateTypeOK, Trade, SocketInv, itemSocket
  <2>3. itemSocket(i)'
    BY <1>14, CloseItemTrade DEF ItemFaultReturn, returned, itemSocket, busy, StateTypeOK, Trade, SocketInv
  <2>4. BacklogInv'
    BY <1>14, CloseItemTrade DEF ItemFaultReturn, returned, Trade, SocketInv, itemSocket, StateTypeOK
  <2> QED
    BY <2>1, <2>2, <2>3, <2>4, ItemFrame DEF Trade
<1>15. ASSUME NEW c \in CustTask, CustArrive(c)
      PROVE  Trade'
  <2>1. /\ took' = took /\ sock' = sock
        /\ \A t \in Task : t # c => pc'[t] = pc[t] /\ req'[t] = req[t] /\ life'[t] = life[t]
        /\ \A i \in ItemTask : sock[i] = "closed" => backlog'[i] = backlog[i]
        /\ \A x \in CustTask : x # c => conn'[x] = conn[x]
    BY <1>15 DEF CustArrive, calls, StateTypeOK
  <2>2. /\ conn'[c].st = "reply" => conn'[c] = conn[c] /\ (sold(c) => sold(c)')
        /\ life'[c] > life[c] \/ (life'[c] = life[c] /\ (out(c) => out(c)'))
    BY <1>15 DEF CustArrive, calls, sold, out, busy, StateTypeOK, NoConn
  <2>3. custSocket(c)'
    BY <1>15 DEF CustArrive, calls, custSocket, busy, NoConn, StateTypeOK, Trade, SocketInv
  <2>4. BacklogInv'
    BY <1>15, BacklogFrame DEF CustArrive, calls, Trade, StateTypeOK, SocketInv, custSocket, busy, NoConn
  <2> QED
    BY <2>1, <2>2, <2>3, <2>4, CustFrame DEF Trade
<1>16. ASSUME NEW c \in CustTask, CustInReturn(c)
      PROVE  Trade'
  <2>1. /\ took' = took /\ sock' = sock
        /\ \A t \in Task : t # c => pc'[t] = pc[t] /\ req'[t] = req[t] /\ life'[t] = life[t]
        /\ \A i \in ItemTask : sock[i] = "closed" => backlog'[i] = backlog[i]
        /\ \A x \in CustTask : x # c => conn'[x] = conn[x]
    BY <1>16 DEF CustInReturn, returned, StateTypeOK
  <2>2. /\ conn'[c].st = "reply" => conn'[c] = conn[c] /\ (sold(c) => sold(c)')
        /\ life'[c] > life[c] \/ (life'[c] = life[c] /\ (out(c) => out(c)'))
    BY <1>16 DEF CustInReturn, returned, sold, out, busy, StateTypeOK, NoConn
  <2>3. custSocket(c)'
    BY <1>16 DEF CustInReturn, returned, custSocket, busy, NoConn, StateTypeOK, Trade, SocketInv
  <2>4. BacklogInv'
    BY <1>16, BacklogFrame DEF CustInReturn, returned, Trade, StateTypeOK, SocketInv, custSocket, busy, NoConn
  <2> QED
    BY <2>1, <2>2, <2>3, <2>4, CustFrame DEF Trade
<1>17. ASSUME NEW c \in CustTask, CustSubscribe(c)
      PROVE  Trade'
  <2>1. /\ took' = took /\ sock' = sock
        /\ \A t \in Task : t # c => pc'[t] = pc[t] /\ req'[t] = req[t] /\ life'[t] = life[t]
        /\ \A i \in ItemTask : sock[i] = "closed" => backlog'[i] = backlog[i]
        /\ \A x \in CustTask : x # c => conn'[x] = conn[x]
    BY <1>17 DEF CustSubscribe, StateTypeOK
  <2>2. /\ conn'[c].st = "reply" => conn'[c] = conn[c] /\ (sold(c) => sold(c)')
        /\ life'[c] > life[c] \/ (life'[c] = life[c] /\ (out(c) => out(c)'))
    BY <1>17 DEF CustSubscribe, sold, out, busy, StateTypeOK, NoConn
  <2>3. custSocket(c)'
    BY <1>17 DEF CustSubscribe, custSocket, busy, NoConn, StateTypeOK, Trade, SocketInv
  <2>4. BacklogInv'
    BY <1>17, BacklogFrame DEF CustSubscribe, Trade, StateTypeOK, SocketInv, custSocket, busy, NoConn
  <2> QED
    BY <2>1, <2>2, <2>3, <2>4, CustFrame DEF Trade
<1>18. ASSUME NEW c \in CustTask, CustRequest(c)
      PROVE  Trade'
  <2>1. PICK p \in pend[c], up \in BOOLEAN :
          /\ up => sock[p[1]] # "closed" /\ port(p[1]) = p
          /\ conn' = [conn EXCEPT ![c] = [to |-> p, st |-> IF up THEN "syn" ELSE "rejected"]]
          /\ backlog' = IF up THEN [backlog EXCEPT ![p[1]] = Append(@, c)] ELSE backlog
    BY <1>18 DEF CustRequest, queues
  <2> DEFINE i == p[1]
  <2>2. i \in ItemTask
    BY <2>1 DEF StateTypeOK, Port, Subscriber
  <2>3. /\ pc[c] = "shop" /\ pc' = [pc EXCEPT ![c] = "ask"]
        /\ UNCHANGED <<req, life, sock, took>>
    BY <1>18 DEF CustRequest
  <2>4. conn[c] = NoConn
    BY <2>3 DEF Trade, SocketInv, custSocket
  <2>5. /\ conn'[c] = [to |-> p, st |-> IF up THEN "syn" ELSE "rejected"]
        /\ \A d \in CustTask : d # c => conn'[d] = conn[d]
    BY <2>1 DEF StateTypeOK
  <2>6. BacklogInv'
    <3>1. CASE up
      <4>1. /\ backlog' = [backlog EXCEPT ![i] = Append(@, c)]
            /\ conn'[c] = [to |-> port(i), st |-> "syn"]
        BY <2>1, <2>5, <3>1
      <4> HIDE DEF i
      <4> QED
        BY <2>2, <2>3, <2>4, <2>5, <4>1, AppendTrade
    <3>2. CASE ~ up
      BY <2>1, <2>3, <2>4, <2>5, <3>2, BacklogFrame DEF Trade, NoConn
    <3> QED
      BY <3>1, <3>2
  <2>7. \A x \in ItemTask : sock[x] = "closed" => backlog'[x] = backlog[x]
    BY <2>1, <2>2 DEF StateTypeOK
  <2>8. \A t \in Task : t # c => pc'[t] = pc[t] /\ req'[t] = req[t] /\ life'[t] = life[t]
    BY <2>3 DEF StateTypeOK
  <2>9. custSocket(c)'
    BY <2>3, <2>4 DEF custSocket, busy, StateTypeOK, Trade, SocketInv
  <2>10. life'[c] = life[c] /\ (out(c) => out(c)') /\ conn'[c].st # "reply"
    BY <2>3, <2>5 DEF out, busy
  <2> QED
    BY <2>3, <2>5, <2>6, <2>7, <2>8, <2>9, <2>10, CustFrame DEF Trade
<1>19. ASSUME NEW c \in CustTask, CustGotItem(c)
      PROVE  Trade'
  <2> DEFINE g == conn[c].to
             v == <<c, life[c]>>
  <2>1. /\ pc[c] = "ask" /\ conn[c].st = "reply"
        /\ took' = took \cup {<<g, v>>}
        /\ pc' = [pc EXCEPT ![c] = "call"] /\ req' = [req EXCEPT ![c] = "SIM_CUST_OUT"]
        /\ UNCHANGED <<life, sockVars, conn>>
    BY <1>19 DEF CustGotItem, calls, visit
  <2>2. /\ \A t \in Task : t # c => pc'[t] = pc[t] /\ req'[t] = req[t]
        /\ pc'[c] = "call" /\ req'[c] = "SIM_CUST_OUT"
    BY <2>1 DEF StateTypeOK
  <2>3. g \in Port /\ off(g) /\ \A a \in took : a[1] # g
    <3>1. g \in Port
      BY <2>1 DEF Trade, TradeInv
    <3>2. ~ busy(c, {"SIM_CUST_OUT"})
      BY <2>1 DEF busy
    <3> QED
      BY <2>1, <3>1, <3>2 DEF Trade, TradeInv, off
  <2>4. life[c] \in 1 .. Repeats
    <3>1. custSocket(c) /\ c \in Task
      BY DEF Trade, SocketInv
    <3>2. life[c] >= 1
      BY <2>1, <3>1 DEF custSocket
    <3>3. life[c] \in 0 .. Repeats
      BY <3>1 DEF StateTypeOK
    <3> QED
      BY <3>2, <3>3
  <2>5. ASSUME NEW d \in CustTask, NEW p \in Port, NEW l \in 1 .. Repeats, <<p, <<d, l>>>> \in took
        PROVE  off(p) /\ (l < life[d] \/ (l = life[d] /\ out(d)))
    BY <2>5 DEF Trade, TradeInv, off
  <2>6. \A a \in took : \E p \in Port, d \in CustTask, l \in 1 .. Repeats : a = <<p, <<d, l>>>>
    BY DEF Trade, TookOK
  <2>7. \A a \in took : a[2] # v
    <3>1. ~ out(c)
      BY <2>1 DEF out, busy
    <3>2. \A p \in Port, d \in CustTask, l \in 1 .. Repeats : <<p, <<d, l>>>> \in took => <<d, l>> # v
      BY <2>4, <2>5, <3>1
    <3> QED
      BY <2>6, <3>2
  <2>8. TookOK'
    BY <2>1, <2>3, <2>4 DEF Trade, TookOK
  <2>9. SoldOnce'
    BY <2>1, <2>3, <2>7 DEF Trade, SoldOnce
  <2>10. \A t \in Task : \A S : t # c => (busy(t, S)' <=> busy(t, S))
    BY <2>2 DEF busy
  <2>11. BacklogInv'
    BY <2>1, BacklogFrame DEF Trade
  <2>12. SocketInv'
    <3>1. \A i \in ItemTask : itemSocket(i)'
      BY <2>1, <2>2, <2>10 DEF Trade, SocketInv, itemSocket
    <3>2. ASSUME NEW d \in CustTask PROVE custSocket(d)'
      <4>1. CASE d # c
        BY <2>1, <2>2, <2>10, <4>1 DEF Trade, SocketInv, custSocket
      <4>2. CASE d = c
        BY <2>1, <2>2, <2>4, <4>2 DEF custSocket, busy
      <4> QED
        BY <4>1, <4>2
    <3> QED
      BY <3>1, <3>2 DEF SocketInv
  <2>13. TradeInv'
    <3>1. \A p \in Port : off(p) => off(p)'
      BY <2>1, <2>2 DEF off, shelfOf, leaving, busy, Port
    <3>2. /\ \A d \in CustTask : out(d) => out(d)'
          /\ out(c)' /\ sold(c)'
          /\ \A d \in CustTask : d # c => (sold(d)' <=> sold(d))
      BY <2>2, <2>10 DEF out, sold, busy
    <3>3. /\ \A d \in CustTask : conn'[d].st = "reply" => conn'[d].to \in Port
          /\ \A d, e \in CustTask :
               conn'[d].st = "reply" /\ conn'[e].st = "reply" /\ conn'[d].to = conn'[e].to => d = e
      BY <2>1 DEF Trade, TradeInv
    <3>4. ASSUME NEW d \in CustTask, NEW p \in Port, conn'[d].st = "reply", conn'[d].to = p
          PROVE  off(p)' /\ (~ sold(d)' => \A a \in took' : a[1] # p)
      <4>1. off(p) /\ (~ sold(d) => \A a \in took : a[1] # p)
        BY <2>1, <3>4 DEF Trade, TradeInv, off, sold
      <4>2. d # c => p # g
        BY <2>1, <3>3, <3>4
      <4> QED
        BY <2>1, <3>1, <3>2, <4>1, <4>2
    <3>5. ASSUME NEW d \in CustTask, NEW p \in Port, NEW l \in 1 .. Repeats, <<p, <<d, l>>>> \in took'
          PROVE  off(p)' /\ (l < life'[d] \/ (l = life'[d] /\ out(d)'))
      <4>1. CASE <<p, <<d, l>>>> \in took
        BY <2>1, <2>5, <3>1, <3>2, <4>1
      <4>2. CASE <<p, <<d, l>>>> = <<g, v>>
        <5>1. p = g /\ d = c /\ l = life[c]
          BY <4>2
        <5> HIDE DEF g, v
        <5> QED
          BY <2>1, <2>3, <3>1, <3>2, <5>1
      <4> QED
        BY <2>1, <3>5, <4>1, <4>2
    <3> QED
      BY <3>3, <3>4, <3>5 DEF TradeInv, off, sold
  <2> QED
    BY <2>8, <2>9, <2>11, <2>12, <2>13 DEF Trade
<1>20. ASSUME NEW c \in CustTask, CustRejected(c)
      PROVE  Trade'
  <2>1. /\ took' = took /\ sock' = sock
        /\ \A t \in Task : t # c => pc'[t] = pc[t] /\ req'[t] = req[t] /\ life'[t] = life[t]
        /\ \A i \in ItemTask : sock[i] = "closed" => backlog'[i] = backlog[i]
        /\ \A x \in CustTask : x # c => conn'[x] = conn[x]
    BY <1>20 DEF CustRejected, calls, StateTypeOK
  <2>2. /\ conn'[c].st = "reply" => conn'[c] = conn[c] /\ (sold(c) => sold(c)')
        /\ life'[c] > life[c] \/ (life'[c] = life[c] /\ (out(c) => out(c)'))
    BY <1>20 DEF CustRejected, calls, sold, out, busy, StateTypeOK, NoConn
  <2>3. custSocket(c)'
    BY <1>20 DEF CustRejected, calls, custSocket, busy, NoConn, StateTypeOK, Trade, SocketInv
  <2>4. BacklogInv'
    BY <1>20, BacklogFrame DEF CustRejected, calls, Trade, StateTypeOK, SocketInv, custSocket, busy, NoConn
  <2> QED
    BY <2>1, <2>2, <2>3, <2>4, CustFrame DEF Trade
<1>21. ASSUME NEW c \in CustTask, CustNoReply(c)
      PROVE  Trade'
  <2>1. /\ took' = took /\ sock' = sock
        /\ \A t \in Task : t # c => pc'[t] = pc[t] /\ req'[t] = req[t] /\ life'[t] = life[t]
        /\ \A i \in ItemTask : sock[i] = "closed" => backlog'[i] = backlog[i]
        /\ \A x \in CustTask : x # c => conn'[x] = conn[x]
    BY <1>21 DEF CustNoReply, calls, StateTypeOK
  <2>2. /\ conn'[c].st = "reply" => conn'[c] = conn[c] /\ (sold(c) => sold(c)')
        /\ life'[c] > life[c] \/ (life'[c] = life[c] /\ (out(c) => out(c)'))
    BY <1>21 DEF CustNoReply, calls, sold, out, busy, StateTypeOK, NoConn
  <2>3. custSocket(c)'
    BY <1>21 DEF CustNoReply, calls, custSocket, busy, NoConn, StateTypeOK, Trade, SocketInv
  <2>4. BacklogInv'
    BY <1>21, BacklogFrame DEF CustNoReply, calls, Trade, StateTypeOK, SocketInv, custSocket, busy, NoConn
  <2> QED
    BY <2>1, <2>2, <2>3, <2>4, CustFrame DEF Trade
<1>22. ASSUME NEW c \in CustTask, CustMissed(c)
      PROVE  Trade'
  <2>1. /\ pc[c] = "ret" /\ pc' = [pc EXCEPT ![c] = "shop"] /\ req[c] \in {"SIM_INFO", "SIM_WARN"}
        /\ conn' = [conn EXCEPT ![c] = NoConn]
        /\ backlog' = [i \in ItemTask |-> orphaned(backlog[i], c)]
        /\ UNCHANGED <<req, life, sock, took>>
    BY <1>22 DEF CustMissed, returned
  <2>2. conn'[c] = NoConn /\ \A d \in CustTask : d # c => conn'[d] = conn[d]
    BY <2>1 DEF StateTypeOK
  <2>3. \A t \in Task : t # c => pc'[t] = pc[t] /\ req'[t] = req[t] /\ life'[t] = life[t]
    BY <2>1 DEF StateTypeOK
  <2>4. \A i \in ItemTask :
          /\ Len(backlog[i]) \in Nat /\ DOMAIN backlog[i] = 1 .. Len(backlog[i])
          /\ Len(backlog'[i]) = Len(backlog[i])
          /\ \A a \in 1 .. Len(backlog[i]) :
               backlog'[i][a] = IF backlog[i][a] = c THEN Gone ELSE backlog[i][a]
    <3> SUFFICES ASSUME NEW i \in ItemTask
                 PROVE  /\ Len(backlog[i]) \in Nat /\ DOMAIN backlog[i] = 1 .. Len(backlog[i])
                        /\ Len(backlog'[i]) = Len(backlog[i])
                        /\ \A a \in 1 .. Len(backlog[i]) :
                             backlog'[i][a] = IF backlog[i][a] = c THEN Gone ELSE backlog[i][a]
      OBVIOUS
    <3>1. Len(backlog[i]) \in Nat /\ DOMAIN backlog[i] = 1 .. Len(backlog[i])
      BY DEF StateTypeOK
    <3>2. backlog'[i] \in Seq(CustTask \cup {Gone})
      BY DEF StateTypeOK
    <3>3. Len(backlog'[i]) \in Nat /\ DOMAIN backlog'[i] = 1 .. Len(backlog'[i])
      BY <3>2
    <3>4. /\ DOMAIN backlog'[i] = DOMAIN backlog[i]
          /\ \A a \in DOMAIN backlog[i] :
               backlog'[i][a] = IF backlog[i][a] = c THEN Gone ELSE backlog[i][a]
      BY <2>1 DEF orphaned
    <3>5. Len(backlog'[i]) = Len(backlog[i])
      BY <3>1, <3>3, <3>4
    <3> QED
      BY <3>1, <3>4, <3>5
  <2>5. \A i \in ItemTask : sock[i] = "closed" => backlog'[i] = backlog[i]
    <3> SUFFICES ASSUME NEW i \in ItemTask, sock[i] = "closed"
                 PROVE  backlog'[i] = backlog[i]
      OBVIOUS
    <3>1. backlog[i] = <<>>
      BY DEF Trade, SocketInv, itemSocket
    <3>2. backlog'[i] \in Seq(CustTask \cup {Gone}) /\ Len(backlog'[i]) = 0
      BY <2>4, <3>1 DEF StateTypeOK
    <3>3. backlog'[i] = <<>>
      BY <3>2, EmptySeq
    <3> QED
      BY <3>1, <3>3
  <2>6. BacklogInv'
    <3>1. ASSUME NEW i \in ItemTask, NEW a \in 1 .. Len(backlog'[i]), backlog'[i][a] # Gone
          PROVE  /\ conn'[backlog'[i][a]] = [to |-> port(i)', st |-> "syn"]
                 /\ \A b \in 1 .. Len(backlog'[i]) : backlog'[i][a] = backlog'[i][b] => a = b
      <4>1. a \in 1 .. Len(backlog[i]) /\ backlog[i][a] # c /\ backlog'[i][a] = backlog[i][a]
        BY <2>4, <3>1
      <4>2. backlog[i][a] \in CustTask
        BY <3>1, <4>1 DEF StateTypeOK
      <4>3. /\ conn[backlog[i][a]] = [to |-> port(i), st |-> "syn"]
            /\ \A b \in 1 .. Len(backlog[i]) : backlog[i][a] = backlog[i][b] => a = b
        BY <3>1, <4>1 DEF Trade, BacklogInv
      <4>4. port(i)' = port(i)
        BY <2>1 DEF port
      <4>5. \A b \in 1 .. Len(backlog[i]) : backlog'[i][a] = backlog'[i][b] => backlog[i][a] = backlog[i][b]
        BY <2>4, <3>1, <4>1
      <4> QED
        BY <2>2, <2>4, <4>1, <4>2, <4>3, <4>4, <4>5
    <3> QED
      BY <3>1 DEF BacklogInv
  <2>7. custSocket(c)'
    BY <2>1, <2>2 DEF custSocket, busy, StateTypeOK, Trade, SocketInv
  <2>8. life'[c] = life[c] /\ (out(c) => out(c)') /\ conn'[c].st # "reply"
    BY <2>1, <2>2 DEF out, busy, NoConn
  <2> QED
    BY <2>1, <2>2, <2>3, <2>5, <2>6, <2>7, <2>8, CustFrame DEF Trade
<1>23. ASSUME NEW c \in CustTask, CustWalkOut(c)
      PROVE  Trade'
  <2>1. /\ took' = took /\ sock' = sock
        /\ \A t \in Task : t # c => pc'[t] = pc[t] /\ req'[t] = req[t] /\ life'[t] = life[t]
        /\ \A i \in ItemTask : sock[i] = "closed" => backlog'[i] = backlog[i]
        /\ \A x \in CustTask : x # c => conn'[x] = conn[x]
    BY <1>23 DEF CustWalkOut, calls, StateTypeOK
  <2>2. /\ conn'[c].st = "reply" => conn'[c] = conn[c] /\ (sold(c) => sold(c)')
        /\ life'[c] > life[c] \/ (life'[c] = life[c] /\ (out(c) => out(c)'))
    BY <1>23 DEF CustWalkOut, calls, sold, out, busy, StateTypeOK, NoConn
  <2>3. custSocket(c)'
    <3>1. /\ pc[c] = "shop" /\ pc'[c] = "call" /\ req'[c] = "SIM_CUST_OUT"
          /\ conn' = conn /\ life' = life
      BY <1>23 DEF CustWalkOut, calls, StateTypeOK
    <3>2. custSocket(c)
      BY DEF Trade, SocketInv
    <3>3. conn[c] = NoConn /\ life[c] >= 1
      BY <3>1, <3>2 DEF custSocket
    <3> QED
      BY <3>1, <3>3 DEF custSocket, busy, NoConn
  <2>4. BacklogInv'
    BY <1>23, BacklogFrame DEF CustWalkOut, calls, Trade, StateTypeOK, SocketInv, custSocket, busy, NoConn
  <2> QED
    BY <2>1, <2>2, <2>3, <2>4, CustFrame DEF Trade
<1>24. ASSUME NEW c \in CustTask, CustOutReturn(c)
      PROVE  Trade'
  <2>1. /\ took' = took /\ sock' = sock
        /\ \A t \in Task : t # c => pc'[t] = pc[t] /\ req'[t] = req[t] /\ life'[t] = life[t]
        /\ \A i \in ItemTask : sock[i] = "closed" => backlog'[i] = backlog[i]
        /\ \A x \in CustTask : x # c => conn'[x] = conn[x]
    BY <1>24 DEF CustOutReturn, leaveStore, returned, taskLoop, StateTypeOK
  <2>2. /\ conn'[c].st = "reply" => conn'[c] = conn[c] /\ (sold(c) => sold(c)')
        /\ life'[c] > life[c] \/ (life'[c] = life[c] /\ (out(c) => out(c)'))
    BY <1>24 DEF CustOutReturn, leaveStore, returned, taskLoop, sold, out, busy, StateTypeOK, NoConn
  <2>3. custSocket(c)'
    <3>1. pc[c] = "ret" /\ pc'[c] \in {"lag", "end"} /\ conn'[c] = NoConn /\ life' = life
      BY <1>24 DEF CustOutReturn, leaveStore, returned, taskLoop, StateTypeOK
    <3>2. custSocket(c)
      BY DEF Trade, SocketInv
    <3>3. life[c] >= 1
      BY <3>1, <3>2 DEF custSocket
    <3> QED
      BY <3>1, <3>3 DEF custSocket, busy
  <2>4. BacklogInv'
    BY <1>24, BacklogFrame DEF CustOutReturn, leaveStore, returned, taskLoop, Trade, StateTypeOK, SocketInv, custSocket, busy, NoConn
  <2> QED
    BY <2>1, <2>2, <2>3, <2>4, CustFrame DEF Trade
<1>25. ASSUME NEW c \in CustTask, CustFault(c)
      PROVE  Trade'
  <2>1. /\ took' = took /\ sock' = sock
        /\ \A t \in Task : t # c => pc'[t] = pc[t] /\ req'[t] = req[t] /\ life'[t] = life[t]
        /\ \A i \in ItemTask : sock[i] = "closed" => backlog'[i] = backlog[i]
        /\ \A x \in CustTask : x # c => conn'[x] = conn[x]
    BY <1>25 DEF CustFault, calls, StateTypeOK
  <2>2. /\ conn'[c].st = "reply" => conn'[c] = conn[c] /\ (sold(c) => sold(c)')
        /\ life'[c] > life[c] \/ (life'[c] = life[c] /\ (out(c) => out(c)'))
    BY <1>25 DEF CustFault, calls, sold, out, busy, StateTypeOK, NoConn
  <2>3. custSocket(c)'
    BY <1>25 DEF CustFault, calls, custSocket, busy, NoConn, StateTypeOK, Trade, SocketInv
  <2>4. BacklogInv'
    BY <1>25, BacklogFrame DEF CustFault, calls, Trade, StateTypeOK, SocketInv, custSocket, busy, NoConn
  <2> QED
    BY <2>1, <2>2, <2>3, <2>4, CustFrame DEF Trade
<1>26. ASSUME NEW c \in CustTask, CustFaultReturn(c)
      PROVE  Trade'
  <2>1. /\ took' = took /\ sock' = sock
        /\ \A t \in Task : t # c => pc'[t] = pc[t] /\ req'[t] = req[t] /\ life'[t] = life[t]
        /\ \A i \in ItemTask : sock[i] = "closed" => backlog'[i] = backlog[i]
        /\ \A x \in CustTask : x # c => conn'[x] = conn[x]
    BY <1>26 DEF CustFaultReturn, leaveStore, returned, StateTypeOK
  <2>2. /\ conn'[c].st = "reply" => conn'[c] = conn[c] /\ (sold(c) => sold(c)')
        /\ life'[c] > life[c] \/ (life'[c] = life[c] /\ (out(c) => out(c)'))
    BY <1>26 DEF CustFaultReturn, leaveStore, returned, sold, out, busy, StateTypeOK, NoConn
  <2>3. custSocket(c)'
    <3>1. pc[c] = "ret" /\ pc'[c] = "end" /\ conn'[c] = NoConn /\ life' = life
      BY <1>26 DEF CustFaultReturn, leaveStore, returned, StateTypeOK
    <3>2. custSocket(c)
      BY DEF Trade, SocketInv
    <3>3. life[c] >= 1
      BY <3>1, <3>2 DEF custSocket
    <3> QED
      BY <3>1, <3>3 DEF custSocket, busy
  <2>4. BacklogInv'
    BY <1>26, BacklogFrame DEF CustFaultReturn, leaveStore, returned, Trade, StateTypeOK, SocketInv, custSocket, busy, NoConn
  <2> QED
    BY <2>1, <2>2, <2>3, <2>4, CustFrame DEF Trade
<1>27. ASSUME NEW s \in Subscriber, SubscrTimeout(s)
      PROVE  Trade'
  BY <1>27, QuietStep DEF SubscrTimeout, StateTypeOK
<1>28. ASSUME NEW j \in Janitor, JanitorSubscribe(j)
      PROVE  Trade'
  BY <1>28, QuietStep DEF JanitorSubscribe, StateTypeOK
<1>29. ASSUME NEW j \in Janitor, JanitorEvent(j)
      PROVE  Trade'
  <2>1. PICK p \in pend[j] : sweepPort(j, p, home[p[1]] = home[j])
    BY <1>29 DEF JanitorEvent
  <2>2. /\ UNCHANGED <<logVars, pc, req, ack, item, life, sock, subscr, custVars, zero>>
    BY <1>29 DEF JanitorEvent
  <2>3. CASE backlog' = backlog
    BY <2>2, <2>3, QuietStep
  <2>4. CASE backlog' # backlog
    <3> DEFINE i == p[1]
    <3>1. i \in ItemTask
      BY <2>1 DEF StateTypeOK, Port, Subscriber
    <3>2. sock[i] # "closed" /\ backlog' = [backlog EXCEPT ![i] = Append(@, Gone)]
      BY <2>1, <2>4 DEF sweepPort, queues
    <3> HIDE DEF i
    <3>3. \A l \in 1 .. Repeats : off(<<i, l>>) => off(<<i, l>>)'
      BY <2>2 DEF off, shelfOf, leaving, busy
    <3>4. itemSocket(i)'
      BY <2>2, <3>1, <3>2 DEF itemSocket, busy, Trade, SocketInv
    <3>5. BacklogInv'
      BY <2>2, <3>1, <3>2, AppendTrade
    <3>6. \A x \in ItemTask : x # i => backlog'[x] = backlog[x]
      BY <3>1, <3>2 DEF StateTypeOK
    <3> QED
      BY <2>2, <3>1, <3>3, <3>4, <3>5, <3>6, ItemFrame DEF Trade
  <2> QED
    BY <2>3, <2>4
<1>30. ASSUME NEW j \in Janitor, JanitorDone(j)
      PROVE  Trade'
  BY <1>30, QuietStep DEF JanitorDone, calls, StateTypeOK
<1>31. ASSUME NEW j \in Janitor, JanitorFault(j)
      PROVE  Trade'
  BY <1>31, QuietStep DEF JanitorFault, calls, StateTypeOK
<1>32. ASSUME NEW j \in Janitor, JanitorFaultReturn(j)
      PROVE  Trade'
  BY <1>32, QuietStep DEF JanitorFaultReturn, calls, returned, StateTypeOK
<1>33. ASSUME NEW j \in Janitor, JanitorExit(j)
      PROVE  Trade'
  <2>1. UNCHANGED <<req, life, sockVars, custVars>>
    BY <1>33 DEF JanitorExit
  <2> QED
    BY <1>33, <2>1, JanitorExitQuiet, QuietStep
<1>34. ASSUME NEW n \in Node, NewSim(n)
      PROVE  Trade'
  BY <1>34, QuietStep DEF NewSim, StateTypeOK
<1>35. ASSUME NEW t \in Task, NewTask(t)
      PROVE  Trade'
  BY <1>35, QuietStep DEF NewTask, StateTypeOK
<1>36. ASSUME NEW k \in Killer, KillSim(k)
      PROVE  Trade'
  BY <1>36, QuietStep DEF KillSim, calls, StateTypeOK
<1>37. ASSUME NEW k \in Killer, KillReturn(k)
      PROVE  Trade'
  BY <1>37, QuietStep DEF KillReturn, returned, StateTypeOK
<1>38. ASSUME NEW z \in ZeroTask, StopSim(z)
      PROVE  Trade'
  BY <1>38, QuietStep DEF StopSim, tellLogs, StateTypeOK
<1>39. ASSUME NEW z \in ZeroTask, StartSim(z)
      PROVE  Trade'
  BY <1>39, QuietStep DEF StartSim, StateTypeOK
<1>40. ASSUME NEW z \in ZeroTask, ZeroExit(z)
      PROVE  Trade'
  BY <1>40, QuietStep DEF ZeroExit, tellLogs, StateTypeOK
<1>41. CASE UNCHANGED vars
  BY <1>41, QuietStep DEF vars
<1> QED
  BY <1>1, <1>2, <1>3, <1>4, <1>5, <1>6, <1>7, <1>8, <1>9, <1>10, <1>11,
     <1>12, <1>13, <1>14, <1>15, <1>16, <1>17, <1>18, <1>19, <1>20, <1>21,
     <1>22, <1>23, <1>24, <1>25, <1>26, <1>27, <1>28, <1>29, <1>30, <1>31,
     <1>32, <1>33, <1>34, <1>35, <1>36, <1>37, <1>38, <1>39, <1>40, <1>41
     DEF Next, Commands, Programs, LogStep, ItemStep, CustStep, JanitorStep, KillStep

-----------------------------------------------------------------------------
\* Every task off, every socket closed: what main finds before any command.
LEMMA InitHolds == Init => TypeInv /\ QueueInv /\ Trade
<1> SUFFICES ASSUME Init PROVE TypeInv /\ QueueInv /\ Trade
  OBVIOUS
<1> USE BoundAssumption DEF Init
<1>1. NewStore \in Store
  BY DEF NewStore, Store, SimState
<1>2. (CHOOSE k \in ItemID : TRUE) \in ItemID
  OBVIOUS
<1>3. <<>> \in Seq(Proc) /\ <<>> \in Seq({"TIPC_PUBLISHED", "TIPC_WITHDRAWN"})
        /\ <<>> \in Seq(CustTask \cup {Gone})
  OBVIOUS
<1>4. log \in [Node -> {"none", "init", "run", "halt"}] /\ store \in [Node -> Store]
        /\ logq \in [Node -> Seq(Proc)] /\ watch \in [Node -> Seq({"TIPC_PUBLISHED", "TIPC_WITHDRAWN"})]
        /\ sessions \in [Node -> 0 .. MaxSessions]
  BY <1>1, <1>3
<1>5. /\ pc \in [Proc -> {"off", "lag", "bound", "sell", "enter", "shop", "ask",
                          "scan", "sweep", "call", "wait", "ret", "end"}]
      /\ req \in [Proc -> Code] /\ ack \in [Proc -> Int] /\ item \in [Proc -> ItemID]
      /\ life \in [Task -> 0 .. Repeats]
  <2>1. life \in [Task -> 0 .. Repeats]
    OBVIOUS
  <2>2. item \in [Proc -> ItemID]
    BY <1>2
  <2>3. req \in [Proc -> Code] /\ ack \in [Proc -> Int]
    BY DEF Code, SIM_OK
  <2> QED
    BY <2>1, <2>2, <2>3
<1>6. /\ sock \in [ItemTask -> {"closed", "bound", "listen"}]
      /\ backlog \in [ItemTask -> Seq(CustTask \cup {Gone})]
      /\ subscr \in [Subscriber -> {"none", "live", "expired"}]
      /\ pend \in [Subscriber -> SUBSET Port]
      /\ conn \in [CustTask -> [to : Port \cup {Gone}, st : {"none", "syn", "reply", "rejected"}]]
      /\ tid \in [CustTask -> Nat]
      /\ zero \in [ZeroTask -> {"off", "up", "told", "end"}]
  BY <1>3 DEF NoConn
<1>7. StateTypeOK
  BY <1>4, <1>5, <1>6 DEF StateTypeOK
<1>8. LifeInv
  BY DEF LifeInv, Task, Proc
<1>9. QueueInv
  BY DEF QueueInv
<1>10. TookOK /\ SoldOnce /\ BacklogInv
  BY DEF TookOK, SoldOnce, BacklogInv
<1>11. SocketInv
  BY DEF SocketInv, itemSocket, custSocket, busy, Task, Proc
<1>12. TradeInv
  BY DEF TradeInv, NoConn
<1> QED
  BY <1>7, <1>8, <1>9, <1>10, <1>11, <1>12 DEF TypeInv, Trade

\* The inductive invariant IInv holds in every state of the simulation, for
\* any number of stores, items, customers, janitors, commands and repeats: the
\* sockets, backlogs and replies of simItem and simCust always agree.
THEOREM Inductive == Spec => []IInv
<1> DEFINE Inv == TypeInv /\ QueueInv /\ Trade
<1>1. Init => Inv
  BY InitHolds
<1>2. Inv /\ [Next]_vars => Inv'
  <2> SUFFICES ASSUME Inv, [Next]_vars PROVE Inv'
    OBVIOUS
  <2>1. TypeInv'
    BY TypeStep DEF TypeInv
  <2>2. QueueInv'
    BY QueueStep DEF TypeInv
  <2>3. Trade'
    BY <2>1, TradeStep DEF TypeInv
  <2> QED
    BY <2>1, <2>2, <2>3
<1>3. Inv => IInv
  BY DEF TypeInv, Trade, IInv, TypeOK, TookOK
<1> QED
  BY <1>1, <1>2, <1>3, PTL DEF Spec

\* An item goes to at most one customer and a customer's visit yields at most
\* one item, whatever the interleaving of simItem's accept loop, simCust's
\* retries, closing sockets and the janitor, and whichever calls fail.
THEOREM SoldOnceHolds == Spec => []SoldOnce
<1>1. IInv => SoldOnce
  BY DEF IInv
<1> QED
  BY <1>1, Inductive, PTL

-----------------------------------------------------------------------------
(***************************************************************************)
(* InventorySim implements Shelf: a step of the simulation delivers one    *)
(* item, removes one from its shelf, lets one customer take one home, or   *)
(* changes nothing a visitor of the shop could see.                        *)
(***************************************************************************)
\* Where an item's goods are does not change.
shelfSame(i) == \A l \in 1 .. Repeats : shelfOf(<<i, l>>)' = shelfOf(<<i, l>>)

\* Only item i's own step can move its goods.
LEMMA OthersSame ==
  ASSUME NEW i \in ItemTask,
         life'[i] = life[i], sock'[i] = sock[i], leaving(i)' <=> leaving(i)
  PROVE  shelfSame(i)
BY DEF shelfSame, shelfOf

\* The abstract step of a concrete one that moves no goods and fills no bag.
LEMMA Stutter ==
  ASSUME \A i \in ItemTask : shelfSame(i), took' = took
  PROVE  [Abstract!ShelfNext]_(Abstract!shelfVars)
<1>1. \A p \in Port : shelfOf(p)' = shelfOf(p)
  BY DEF shelfSame, Port
<1>2. [p \in Port |-> shelfOf(p)]' = [p \in Port |-> shelfOf(p)]
  BY <1>1
<1> QED
  BY <1>2 DEF Abstract!shelfVars

\* A new life of item i puts its goods on the shelf.
LEMMA ItemComes ==
  ASSUME StateTypeOK, StateTypeOK', NEW i \in ItemTask, took' = took,
         \A x \in ItemTask \ {i} : shelfSame(x),
         life'[i] = life[i] + 1, sock[i] = "closed", sock'[i] # "closed", ~ leaving(i)'
  PROVE  [Abstract!ShelfNext]_(Abstract!shelfVars)
<1>0. PICK n \in 1 .. Repeats : n = life[i] + 1
  BY BoundAssumption DEF StateTypeOK, Task
<1> DEFINE g == <<i, n>>
           S == [p \in Port |-> shelfOf(p)]
<1>1. life[i] \in Nat /\ n \in Nat /\ life[i] < n /\ life'[i] = n
  BY <1>0, BoundAssumption DEF StateTypeOK, Task
<1>2. g \in Port
  BY <1>1 DEF Port
<1>3. shelfOf(g) = "none" /\ shelfOf(g)' = "shelf"
  BY <1>1 DEF shelfOf
<1>4. ASSUME NEW p \in Port, p # g PROVE shelfOf(p)' = shelfOf(p)
  <2>1. CASE p[1] = i
    <3>1. PICK l \in 1 .. Repeats : p = <<i, l>> /\ l # n
      BY <1>4, <2>1 DEF Port
    <3>2. CASE l > n
      BY <1>1, <3>1, <3>2 DEF shelfOf
    <3>3. CASE l < n
      BY <1>1, <3>1, <3>3 DEF shelfOf
    <3> QED
      BY <1>1, <3>1, <3>2, <3>3
  <2>2. CASE p[1] # i
    BY <1>4, <2>2 DEF shelfSame, Port
  <2> QED
    BY <2>1, <2>2
<1>5. S' = [S EXCEPT ![g] = "shelf"]
  BY <1>2, <1>3, <1>4
<1>6. Abstract!Deliver(g)
  BY <1>2, <1>3, <1>5 DEF Abstract!Deliver
<1> QED
  BY <1>2, <1>6 DEF Abstract!ShelfNext

\* An item that replied to a request, or closes its socket, takes its goods
\* off the shelf unless they are off already.
LEMMA ItemGoes ==
  ASSUME StateTypeOK, NEW i \in ItemTask, took' = took, LifeInv,
         \A x \in ItemTask \ {i} : shelfSame(x),
         life'[i] = life[i], sock'[i] = "closed" \/ leaving(i)'
  PROVE  [Abstract!ShelfNext]_(Abstract!shelfVars)
<1> DEFINE g == <<i, life[i]>>
           S == [p \in Port |-> shelfOf(p)]
<1>1. life[i] \in 0 .. Repeats
  BY DEF StateTypeOK, Task
<1>2. CASE sock[i] = "closed" \/ leaving(i)
  <2>1. shelfSame(i)
    BY <1>1, <1>2 DEF shelfSame, shelfOf
  <2> QED
    BY <2>1, Stutter
<1>3. CASE sock[i] # "closed" /\ ~ leaving(i)
  <2>1. g \in Port
    BY <1>1, <1>3, BoundAssumption DEF Port, LifeInv
  <2>2. shelfOf(g) = "shelf" /\ shelfOf(g)' = "off"
    BY <1>1, <1>3 DEF shelfOf
  <2>3. ASSUME NEW p \in Port, p # g PROVE shelfOf(p)' = shelfOf(p)
    <3>1. CASE p[1] = i
      BY <1>1, <2>3, <3>1 DEF Port, shelfOf
    <3>2. CASE p[1] # i
      BY <2>3, <3>2 DEF shelfSame, Port
    <3> QED
      BY <3>1, <3>2
  <2>4. S' = [S EXCEPT ![g] = "off"]
    BY <2>1, <2>2, <2>3
  <2>5. Abstract!Remove(g)
    BY <2>1, <2>2, <2>4 DEF Abstract!Remove
  <2> QED
    BY <2>1, <2>5 DEF Abstract!ShelfNext
<1> QED
  BY <1>2, <1>3

\* A step that calls no item back and closes no socket moves no goods.
LEMMA QuietShelf ==
  ASSUME UNCHANGED <<sock, took>>,
         \A i \in ItemTask :
           /\ life'[i] = life[i] /\ req'[i] = req[i]
           /\ \/ pc'[i] = pc[i]
              \/ pc[i] = "off" /\ pc'[i] = "lag"
              \/ pc[i] \in {"call", "wait", "ret"} /\ pc'[i] \in {"call", "wait", "ret"}
  PROVE  [Abstract!ShelfNext]_(Abstract!shelfVars)
<1>1. \A i \in ItemTask : leaving(i)' <=> leaving(i)
  BY DEF leaving, busy
<1>2. \A i \in ItemTask : shelfSame(i)
  BY <1>1, OthersSame
<1> QED
  BY <1>2, Stutter

\* A step of item i leaves the goods of the others where they are.
LEMMA ItemAlone ==
  ASSUME NEW i \in ItemTask,
         \A x \in ItemTask \ {i} :
           pc'[x] = pc[x] /\ req'[x] = req[x] /\ life'[x] = life[x] /\ sock'[x] = sock[x]
  PROVE  \A x \in ItemTask \ {i} : shelfSame(x)
<1>1. \A x \in ItemTask \ {i} : leaving(x)' <=> leaving(x)
  BY DEF leaving, busy
<1> QED
  BY <1>1, OthersSame

-----------------------------------------------------------------------------
\* Every step of the simulation is a step of the shop, or a stutter.
LEMMA ShelfStep ==
  ASSUME IInv, IInv', [Next]_vars
  PROVE  [Abstract!ShelfNext]_(Abstract!shelfVars)
<1> DEFINE Goal == [Abstract!ShelfNext]_(Abstract!shelfVars)
<1>0. StateTypeOK /\ StateTypeOK' /\ LifeInv /\ QueueInv /\ SocketInv
  BY DEF IInv, TypeOK
<1> HIDE DEF Goal
<1> USE <1>0, TaskAssumption, BoundAssumption
      DEF Task, Proc, logVars, sockVars, subVars, custVars
<1>1. ASSUME NEW p \in Proc, SimLogSend(p)
      PROVE  Goal
  BY <1>1, QuietShelf DEF Goal, SimLogSend, StateTypeOK
<1>2. ASSUME NEW n \in Node, LogBind(n)
      PROVE  Goal
  BY <1>2, QuietShelf DEF Goal, LogBind, StateTypeOK
<1>3. ASSUME NEW n \in Node, LogTransaction(n)
      PROVE  Goal
  <2>1. UNCHANGED <<req, life, sock, took>>
    BY <1>3 DEF LogTransaction
  <2> QED
    BY <1>3, <2>1, LogTransactionQuiet, QuietShelf DEF Goal
<1>4. ASSUME NEW n \in Node, LogWatch(n)
      PROVE  Goal
  BY <1>4, QuietShelf DEF Goal, LogWatch, readWatch, StateTypeOK
<1>5. ASSUME NEW n \in Node, LogHalted(n)
      PROVE  Goal
  BY <1>5, QuietShelf DEF Goal, LogHalted, readWatch, StateTypeOK
<1>6. ASSUME NEW i \in ItemTask, ItemPublish(i)
      PROVE  Goal
  <2>1. \A x \in ItemTask \ {i} : shelfSame(x)
    BY <1>6, ItemAlone DEF ItemPublish, StateTypeOK
  <2>2. /\ pc[i] = "lag" /\ pc'[i] = "bound" /\ took' = took
        /\ life'[i] = life[i] + 1 /\ sock'[i] = "bound"
    BY <1>6 DEF ItemPublish, StateTypeOK
  <2>3. sock[i] = "closed" /\ ~ leaving(i)'
    BY <2>2 DEF SocketInv, itemSocket, leaving, busy
  <2> QED
    BY <2>1, <2>2, <2>3, ItemComes DEF Goal
<1>7. ASSUME NEW i \in ItemTask, ItemListen(i)
      PROVE  Goal
  <2>1. \A x \in ItemTask \ {i} : shelfSame(x)
    BY <1>7, ItemAlone DEF ItemListen, calls, StateTypeOK
  <2>2. /\ pc[i] = "bound" /\ sock'[i] = "listen" /\ pc'[i] = "call" /\ req'[i] = "SIM_ITEM_IN"
        /\ took' = took /\ life'[i] = life[i]
    BY <1>7 DEF ItemListen, calls, StateTypeOK
  <2>3. sock[i] # "closed" /\ ~ leaving(i) /\ ~ leaving(i)'
    BY <2>2 DEF SocketInv, itemSocket, leaving, busy
  <2>4. shelfSame(i)
    BY <2>2, <2>3 DEF shelfSame, shelfOf
  <2> QED
    BY <2>1, <2>2, <2>4, Stutter DEF Goal
<1>8. ASSUME NEW i \in ItemTask, ItemInReturn(i)
      PROVE  Goal
  <2>1. \A x \in ItemTask \ {i} : shelfSame(x)
    <3>1. \A x \in ItemTask \ {i} : pc'[x] = pc[x] /\ sock'[x] = sock[x]
      <4>1. CASE ack[i] < 0
        BY <1>8, <4>1 DEF ItemInReturn, closeItem, StateTypeOK
      <4>2. CASE ~ (ack[i] < 0)
        BY <1>8, <4>2 DEF ItemInReturn, StateTypeOK
      <4> QED
        BY <4>1, <4>2
    <3>2. life' = life /\ req' = req
      BY <1>8 DEF ItemInReturn
    <3> QED
      BY <3>1, <3>2, ItemAlone
  <2>2. /\ pc[i] = "ret" /\ req[i] = "SIM_ITEM_IN"
        /\ took' = took /\ life'[i] = life[i]
    BY <1>8 DEF ItemInReturn, closeItem, returned
  <2>3. CASE ack[i] < 0
    <3>1. sock'[i] = "closed"
      BY <1>8, <2>3 DEF ItemInReturn, closeItem, StateTypeOK
    <3> QED
      BY <2>1, <2>2, <3>1, ItemGoes DEF Goal
  <2>4. CASE ~ (ack[i] < 0)
    <3>1. sock'[i] = sock[i] /\ pc'[i] = "sell"
      BY <1>8, <2>4 DEF ItemInReturn, StateTypeOK
    <3>2. leaving(i)' <=> leaving(i)
      BY <2>2, <3>1 DEF leaving, busy
    <3>3. shelfSame(i)
      BY <2>2, <3>1, <3>2, OthersSame
    <3> QED
      BY <2>1, <2>2, <3>3, Stutter DEF Goal
  <2> QED
    BY <2>3, <2>4
<1>9. ASSUME NEW i \in ItemTask, ItemReply(i)
      PROVE  Goal
  <2>1. \A x \in ItemTask \ {i} : shelfSame(x)
    BY <1>9, ItemAlone DEF ItemReply, answer, calls, StateTypeOK
  <2>2. took' = took /\ life'[i] = life[i] /\ pc'[i] = "call" /\ req'[i] = "SIM_ITEM_OUT"
    BY <1>9 DEF ItemReply, answer, calls, StateTypeOK
  <2>3. leaving(i)'
    BY <2>2 DEF leaving, busy
  <2> QED
    BY <2>1, <2>2, <2>3, ItemGoes DEF Goal
<1>10. ASSUME NEW i \in ItemTask, ItemReplyFails(i)
      PROVE  Goal
  <2>1. \A x \in ItemTask \ {i} : shelfSame(x)
    BY <1>10, ItemAlone DEF ItemReplyFails, answer, calls, StateTypeOK
  <2>2. /\ pc[i] = "sell" /\ pc'[i] = "call" /\ req'[i] = "SIM_WARN"
        /\ took' = took /\ life'[i] = life[i] /\ sock'[i] = sock[i]
    BY <1>10 DEF ItemReplyFails, answer, calls, StateTypeOK
  <2>3. leaving(i)' <=> leaving(i)
    BY <2>2 DEF leaving, busy
  <2>4. shelfSame(i)
    BY <2>2, <2>3, OthersSame
  <2> QED
    BY <2>1, <2>2, <2>4, Stutter DEF Goal
<1>11. ASSUME NEW i \in ItemTask, ItemWarnReturn(i)
      PROVE  Goal
  <2>1. \A x \in ItemTask \ {i} : shelfSame(x)
    BY <1>11, ItemAlone DEF ItemWarnReturn, returned, StateTypeOK
  <2>2. /\ pc'[i] = "sell" /\ req[i] = "SIM_WARN"
        /\ took' = took /\ life'[i] = life[i] /\ sock'[i] = sock[i]
    BY <1>11 DEF ItemWarnReturn, returned, StateTypeOK
  <2>3. leaving(i)' <=> leaving(i)
    BY <2>2 DEF leaving, busy
  <2>4. shelfSame(i)
    BY <2>2, <2>3, OthersSame
  <2> QED
    BY <2>1, <2>2, <2>4, Stutter DEF Goal
<1>12. ASSUME NEW i \in ItemTask, ItemOutReturn(i)
      PROVE  Goal
  <2>1. \A x \in ItemTask \ {i} : shelfSame(x)
    BY <1>12, ItemAlone DEF ItemOutReturn, closeItem, taskLoop, StateTypeOK
  <2>2. took' = took /\ life'[i] = life[i] /\ sock'[i] = "closed"
    BY <1>12 DEF ItemOutReturn, closeItem, taskLoop, StateTypeOK
  <2> QED
    BY <2>1, <2>2, ItemGoes DEF Goal
<1>13. ASSUME NEW i \in ItemTask, ItemFault(i)
      PROVE  Goal
  <2>1. \A x \in ItemTask \ {i} : shelfSame(x)
    BY <1>13, ItemAlone DEF ItemFault, calls, StateTypeOK
  <2>2. /\ pc[i] \in {"lag", "bound", "sell"} /\ pc'[i] = "call" /\ req'[i] = "SIM_ERROR"
        /\ took' = took /\ life'[i] = life[i] /\ sock'[i] = sock[i]
    BY <1>13 DEF ItemFault, calls, StateTypeOK
  <2>3. leaving(i)' <=> leaving(i)
    BY <2>2 DEF leaving, busy
  <2>4. shelfSame(i)
    BY <2>2, <2>3, OthersSame
  <2> QED
    BY <2>1, <2>2, <2>4, Stutter DEF Goal
<1>14. ASSUME NEW i \in ItemTask, ItemFaultReturn(i)
      PROVE  Goal
  <2>1. \A x \in ItemTask \ {i} : shelfSame(x)
    BY <1>14, ItemAlone DEF ItemFaultReturn, closeItem, StateTypeOK
  <2>2. took' = took /\ life'[i] = life[i] /\ sock'[i] = "closed"
    BY <1>14 DEF ItemFaultReturn, closeItem, StateTypeOK
  <2> QED
    BY <2>1, <2>2, ItemGoes DEF Goal
<1>15. ASSUME NEW c \in CustTask, CustArrive(c)
      PROVE  Goal
  BY <1>15, QuietShelf DEF Goal, CustArrive, calls, StateTypeOK
<1>16. ASSUME NEW c \in CustTask, CustInReturn(c)
      PROVE  Goal
  BY <1>16, QuietShelf DEF Goal, CustInReturn, StateTypeOK
<1>17. ASSUME NEW c \in CustTask, CustSubscribe(c)
      PROVE  Goal
  BY <1>17, QuietShelf DEF Goal, CustSubscribe, StateTypeOK
<1>18. ASSUME NEW c \in CustTask, CustRequest(c)
      PROVE  Goal
  BY <1>18, QuietShelf DEF Goal, CustRequest, StateTypeOK
<1>19. ASSUME NEW c \in CustTask, CustGotItem(c)
      PROVE  Goal
  <2> DEFINE g == conn[c].to
             S == [p \in Port |-> shelfOf(p)]
  <2>1. /\ pc[c] = "ask" /\ conn[c].st = "reply"
        /\ took' = took \cup {<<g, <<c, life[c]>>>>}
        /\ UNCHANGED <<life, sock>>
        /\ \A i \in ItemTask : pc'[i] = pc[i] /\ req'[i] = req[i]
    BY <1>19 DEF CustGotItem, calls, visit, StateTypeOK
  <2>2. \A i \in ItemTask : shelfSame(i)
    <3>1. \A i \in ItemTask : leaving(i)' <=> leaving(i)
      BY <2>1 DEF leaving, busy
    <3> QED
      BY <2>1, <3>1, OthersSame
  <2>3. S' = S
    <3>1. \A p \in Port : shelfOf(p)' = shelfOf(p)
      BY <2>2 DEF shelfSame, Port
    <3> QED
      BY <3>1
  <2>4. g \in Port /\ shelfOf(g) = "off" /\ \A b \in took : b[1] # g
    <3>1. TradeInv /\ ~ busy(c, {"SIM_CUST_OUT"})
      BY <2>1 DEF IInv, busy
    <3>2. g \in Port
      BY <2>1, <3>1 DEF TradeInv
    <3> QED
      BY <2>1, <3>1, <3>2 DEF TradeInv
  <2>5. life[c] \in 1 .. Repeats
    <3>1. life[c] \in 0 .. Repeats
      BY DEF StateTypeOK
    <3>2. life[c] >= 1
      BY <2>1 DEF SocketInv, custSocket
    <3> QED
      BY <3>1, <3>2
  <2>6. \A b \in took : b[2] # <<c, life[c]>>
    <3>1. ~ out(c)
      BY <2>1 DEF out, busy
    <3>2. \A b \in took : \E p \in Port, d \in CustTask, l \in 1 .. Repeats : b = <<p, <<d, l>>>>
      BY DEF IInv, TypeOK
    <3>3. \A p \in Port, d \in CustTask, l \in 1 .. Repeats :
            <<p, <<d, l>>>> \in took => l < life[d] \/ (l = life[d] /\ out(d))
      BY DEF IInv, TradeInv
    <3>4. \A p \in Port, d \in CustTask, l \in 1 .. Repeats :
            <<p, <<d, l>>>> \in took => <<d, l>> # <<c, life[c]>>
      BY <2>5, <3>1, <3>3
    <3> QED
      BY <3>2, <3>4
  <2> HIDE DEF g
  <2>7. Abstract!TakeHome(g, <<c, life[c]>>)
    BY <2>1, <2>3, <2>4, <2>6 DEF Abstract!TakeHome
  <2>8. <<c, life[c]>> \in CustTask \X (1 .. Repeats)
    BY <2>5
  <2> QED
    BY <2>4, <2>7, <2>8 DEF Goal, Abstract!ShelfNext
<1>20. ASSUME NEW c \in CustTask, CustRejected(c)
      PROVE  Goal
  BY <1>20, QuietShelf DEF Goal, CustRejected, calls, StateTypeOK
<1>21. ASSUME NEW c \in CustTask, CustNoReply(c)
      PROVE  Goal
  BY <1>21, QuietShelf DEF Goal, CustNoReply, calls, StateTypeOK
<1>22. ASSUME NEW c \in CustTask, CustMissed(c)
      PROVE  Goal
  BY <1>22, QuietShelf DEF Goal, CustMissed, StateTypeOK
<1>23. ASSUME NEW c \in CustTask, CustWalkOut(c)
      PROVE  Goal
  BY <1>23, QuietShelf DEF Goal, CustWalkOut, calls, StateTypeOK
<1>24. ASSUME NEW c \in CustTask, CustOutReturn(c)
      PROVE  Goal
  BY <1>24, QuietShelf DEF Goal, CustOutReturn, leaveStore, taskLoop, StateTypeOK
<1>25. ASSUME NEW c \in CustTask, CustFault(c)
      PROVE  Goal
  BY <1>25, QuietShelf DEF Goal, CustFault, calls, StateTypeOK
<1>26. ASSUME NEW c \in CustTask, CustFaultReturn(c)
      PROVE  Goal
  BY <1>26, QuietShelf DEF Goal, CustFaultReturn, leaveStore, StateTypeOK
<1>27. ASSUME NEW s \in Subscriber, SubscrTimeout(s)
      PROVE  Goal
  BY <1>27, QuietShelf DEF Goal, SubscrTimeout, StateTypeOK
<1>28. ASSUME NEW j \in Janitor, JanitorSubscribe(j)
      PROVE  Goal
  BY <1>28, QuietShelf DEF Goal, JanitorSubscribe, StateTypeOK
<1>29. ASSUME NEW j \in Janitor, JanitorEvent(j)
      PROVE  Goal
  BY <1>29, QuietShelf DEF Goal, JanitorEvent, StateTypeOK
<1>30. ASSUME NEW j \in Janitor, JanitorDone(j)
      PROVE  Goal
  BY <1>30, QuietShelf DEF Goal, JanitorDone, calls, StateTypeOK
<1>31. ASSUME NEW j \in Janitor, JanitorFault(j)
      PROVE  Goal
  BY <1>31, QuietShelf DEF Goal, JanitorFault, calls, StateTypeOK
<1>32. ASSUME NEW j \in Janitor, JanitorFaultReturn(j)
      PROVE  Goal
  BY <1>32, QuietShelf DEF Goal, JanitorFaultReturn, calls, StateTypeOK
<1>33. ASSUME NEW j \in Janitor, JanitorExit(j)
      PROVE  Goal
  <2>1. UNCHANGED <<req, life, sock, took>>
    BY <1>33 DEF JanitorExit
  <2> QED
    BY <1>33, <2>1, JanitorExitQuiet, QuietShelf DEF Goal
<1>34. ASSUME NEW n \in Node, NewSim(n)
      PROVE  Goal
  BY <1>34, QuietShelf DEF Goal, NewSim, StateTypeOK
<1>35. ASSUME NEW t \in Task, NewTask(t)
      PROVE  Goal
  BY <1>35, QuietShelf DEF Goal, NewTask, StateTypeOK
<1>36. ASSUME NEW k \in Killer, KillSim(k)
      PROVE  Goal
  BY <1>36, QuietShelf DEF Goal, KillSim, calls, StateTypeOK
<1>37. ASSUME NEW k \in Killer, KillReturn(k)
      PROVE  Goal
  BY <1>37, QuietShelf DEF Goal, KillReturn, StateTypeOK
<1>38. ASSUME NEW z \in ZeroTask, StopSim(z)
      PROVE  Goal
  BY <1>38, QuietShelf DEF Goal, StopSim, StateTypeOK
<1>39. ASSUME NEW z \in ZeroTask, StartSim(z)
      PROVE  Goal
  BY <1>39, QuietShelf DEF Goal, StartSim, StateTypeOK
<1>40. ASSUME NEW z \in ZeroTask, ZeroExit(z)
      PROVE  Goal
  BY <1>40, QuietShelf DEF Goal, ZeroExit, StateTypeOK
<1>41. ASSUME UNCHANGED vars PROVE Goal
  BY <1>41, QuietShelf DEF Goal, vars
<1>42. ASSUME Commands PROVE Goal
  BY <1>42, <1>34, <1>35, <1>36, <1>38, <1>39 DEF Commands
<1>43. ASSUME NEW i \in ItemTask, ItemStep(i) PROVE Goal
  BY <1>43, <1>1, <1>6, <1>7, <1>8, <1>9, <1>10, <1>11, <1>12, <1>13, <1>14 DEF ItemStep
<1>44. ASSUME NEW c \in CustTask, CustStep(c) PROVE Goal
  BY <1>44, <1>1, <1>15, <1>16, <1>17, <1>18, <1>19, <1>20, <1>21, <1>22, <1>23, <1>24, <1>25, <1>26 DEF CustStep
<1>45. ASSUME NEW j \in Janitor, JanitorStep(j) PROVE Goal
  BY <1>45, <1>1, <1>28, <1>29, <1>30, <1>31, <1>32, <1>33 DEF JanitorStep
<1>46. ASSUME NEW n \in Node, LogStep(n) PROVE Goal
  BY <1>46, <1>2, <1>3, <1>4, <1>5 DEF LogStep
<1>47. ASSUME NEW k \in Killer, KillStep(k) PROVE Goal
  BY <1>47, <1>1, <1>37 DEF KillStep
<1>48. ASSUME Programs PROVE Goal
  BY <1>43, <1>44, <1>45, <1>46, <1>47, <1>48, <1>27, <1>40 DEF Programs
<1>49. Goal
  BY <1>41, <1>42, <1>48 DEF Next
<1> QED
  BY <1>49 DEF Goal

\* The tasks of inventory_sim implement the abstract shop, for any number of
\* stores, items and customers: what simItem, simCust and the janitor do to an
\* item is delivering it once, removing it once and taking it home at most once.
THEOREM Refinement == Spec => ShelfSpec
<1>1. Init => Abstract!ShelfInit
  <2> SUFFICES ASSUME Init PROVE Abstract!ShelfInit
    OBVIOUS
  <2>1. \A p \in Port : shelfOf(p) = "none"
    BY BoundAssumption DEF Init, shelfOf, Port, Task
  <2>2. [p \in Port |-> shelfOf(p)] = [p \in Port |-> "none"]
    BY <2>1
  <2> QED
    BY <2>2 DEF Abstract!ShelfInit, Init
<1>2. IInv /\ IInv' /\ [Next]_vars => [Abstract!ShelfNext]_(Abstract!shelfVars)
  BY ShelfStep
<1> QED
  BY <1>1, <1>2, Inductive, PTL DEF Spec, ShelfSpec, Abstract!ShelfSpec
=============================================================================
