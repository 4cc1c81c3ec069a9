-------------------------------- MODULE Ptts --------------------------------
(***************************************************************************)
(* The portable TIPC test suite at work: one server and, one after the     *)
(* other, clients, each executing the calls TsServer and TsClient list.    *)
(*                                                                         *)
(* TIPC is external.  Packets for a node arrive in the order in which they *)
(* were sent.  A node learns of the names of the other one from packets;   *)
(* the sender of a message picks a node where the name is published, and   *)
(* that node looks the name up again.  A message that finds no socket, or  *)
(* is unread when its socket is closed, is dropped or returned.            *)
(*                                                                         *)
(* In a punctual run a timeout or a sleep outlasts everything the other    *)
(* side and the network can do; otherwise it may end at any moment.        *)
(***************************************************************************)
EXTENDS TsServer, TsClient

CONSTANTS
  Routine,    \* the calls of each routine, by who runs it and the number of the test
  Argv,       \* the arguments a client may be started with
  MaxClients  \* bound: clients

ASSUME PttsAssumption == MaxClients \in Nat \ {0} /\ Argv \subseteq Seq(Int)

VARIABLES
  status,      \* of either side: off, run, done, failed or usage
  proc,        \* of either side: test, next call, registers
  sock,        \* of either side: its open sockets, by variable
  known,       \* of either node: the names it knows, with their ports
  sub,         \* of either side: its subscription and the events for it
  link,        \* of either node: the packets for it
  args,        \* of the client: arguments left
  lastTestNum, \* of the client: the last test of the current argument
  importance,  \* of the client
  clients,     \* clients started so far
  beat,        \* of either side: signals completed, modulo 4
  punctual, sameCluster

tipc == <<sock, known, sub, link>>
main == <<args, lastTestNum, clients>>
given == <<punctual, sameCluster>>
vars == <<status, proc, tipc, main, importance, beat, given>>

Side == {"client", "server"}
other(s) == IF s = "client" THEN "server" ELSE "client"

NoAddr == setServerAddrTo(0, 0, 0)
NoMsg == buffer("none", 0)
NoPort == [side |-> "client", sd |-> ""]
NoSub == [on |-> FALSE, addr |-> NoAddr, evts |-> <<>>]
start(test) ==
  [prog |-> test, asks |-> TRUE, at |-> 1, bad |-> 0, a |-> 0, b |-> 0, c |-> 0, got |-> NoMsg, port |-> NoPort]

Init ==
  /\ status = [s \in Side |-> IF s = "server" THEN "run" ELSE "off"]
  /\ proc = [s \in Side |-> start(0)]
  /\ sock = [s \in Side |-> <<>>]
  /\ known = [s \in Side |-> {}]
  /\ sub = [s \in Side |-> NoSub]
  /\ link = [s \in Side |-> <<>>]
  /\ args = <<>> /\ lastTestNum = 0 /\ clients = 0
  /\ importance = LOW
  /\ beat = [s \in Side |-> 0]
  /\ punctual \in BOOLEAN /\ sameCluster \in BOOLEAN

-----------------------------------------------------------------------------
\* TIPC: names, packets and sockets.
overlap(x, y) == x.type = y.type /\ x.lo <= y.hi /\ y.lo <= x.hi
bound(s, addr) == {sd0 \in DOMAIN sock[s] : overlap(sock[s][sd0].name, addr)}

port(s, x) == [side |-> s, sd |-> x]
packet(k, dst, from, to) ==
  [k |-> k, dst |-> dst, from |-> from, to |-> to, addr |-> NoAddr, msg |-> NoMsg,
   keep |-> FALSE, err |-> "none"]
errorFor(p, from, err) ==
  [packet("error", p.from.side, from, p.from.sd) EXCEPT !.msg = p.msg, !.err = err]

forSide(x, p) == IF p.dst = x THEN <<p>> ELSE <<>>
after(pkts) ==
  [x \in Side |-> link[x] \o FlattenSeq([i \in 1 .. Len(pkts) |-> forSide(x, pkts[i])])]
Post(pkts) == \E ps \in {pkts} : link' = after(ps)

newSocket(type) ==
  [type |-> type, name |-> NoAddr, listen |-> FALSE, conn |-> "no", peer |-> NoPort,
   via |-> NoAddr, q |-> <<>>,
   opt |-> [imp |-> LOW, src |-> IF type = "DGRAM" THEN 1 ELSE 0,
            dest |-> IF type \in {"RDM", "DGRAM"} THEN 1 ELSE 0, tmo |-> 8000]]

with(f, x, v) == [y \in DOMAIN f \cup {x} |-> IF y = x THEN v ELSE f[y]]
setSock(s, x, v) == sock' = [sock EXCEPT ![s] = with(@, x, v)]

\* The subscription of a side when its node knows the names ns: an event for
\* the first name that fits and one when there is none any more.
subscription(s, ns) ==
  LET fits(S) == {n \in S : overlap(n.addr, sub[s].addr)}
      was == fits(known[s])
      now == fits(ns)
  IN  IF ~sub[s].on THEN sub[s]
      ELSE IF was = {} /\ now # {}
           THEN [sub[s] EXCEPT !.evts = Append(@, [k |-> "PUBLISHED",
                                                   port |-> (CHOOSE n \in now : TRUE).port])]
      ELSE IF was # {} /\ now = {}
           THEN [sub[s] EXCEPT !.evts = Append(@, [k |-> "WITHDRAWN", port |-> NoPort])]
      ELSE sub[s]

SetNames(s, ns) ==
  /\ known' = [known EXCEPT ![s] = ns]
  /\ sub' = [sub EXCEPT ![s] = subscription(s, ns)]

\* What closing a socket sends: its name is withdrawn, of the unread messages
\* those that asked for it are returned, and a connection is broken off, with
\* the first unread message of it if there is one.
farewell(s, x) ==
  LET k == sock[s][x]
      returned(p) == IF p.k \in {"data", "syn"} \/ p.keep
                     THEN <<errorFor(p, port(s, x), "NO_PORT")>> ELSE <<>>
      back == FlattenSeq([i \in 1 .. Len(k.q) |-> returned(k.q[i])])
  IN  (IF k.name = NoAddr THEN <<>>
       ELSE <<[packet("withdraw", other(s), port(s, x), "") EXCEPT !.addr = k.name]>>)
      \o CASE k.conn = "down" -> <<>>
           [] k.conn = "up" /\ back # <<>> -> <<back[1]>>
           [] k.conn = "up" /\ back = <<>> ->
                <<[packet("error", k.peer.side, port(s, x), k.peer.sd) EXCEPT !.err = "NO_PORT"]>>
           [] OTHER -> back

-----------------------------------------------------------------------------
\* The processes.
code(s) ==
  Routine[IF s = "client" /\ proc[s].asks THEN "request" ELSE s][proc[s].prog]

running(s) == status[s] = "run" /\ (s = "client" => proc[s].prog # 0)
call(s) == code(s)[proc[s].at]
calls(s, op) ==
  LET todo == code(s) IN running(s) /\ proc[s].at <= Len(todo) /\ todo[proc[s].at].op = op

makes(s, ops) ==
  LET todo == code(s) IN running(s) /\ proc[s].at <= Len(todo) /\ todo[proc[s].at].op \in ops

go(p, by) == [p EXCEPT !.at = @ + by]
Goto(s, p) == proc' = [proc EXCEPT ![s] = p]
Continue(s) == Goto(s, go(proc[s], 1))
CountError(s, ok) == Goto(s, [go(proc[s], 1) EXCEPT !.bad = IF ok THEN @ ELSE @ + 1])

\* exit: every socket of the process is closed.
Exit(s, how) ==
  /\ status' = [status EXCEPT ![s] = how]
  /\ Goto(s, start(0))
  /\ sock' = [sock EXCEPT ![s] = <<>>]
  /\ known' = [known EXCEPT ![s] = {n \in @ : n.port.side # s}]
  /\ sub' = [sub EXCEPT ![s] = NoSub]
  /\ \E mine \in {SetToSeq(DOMAIN sock[s])} :
       \E pkts \in {FlattenSeq([i \in 1 .. Len(mine) |-> farewell(s, mine[i])])} : Post(pkts)

\* failTest.
err(s) == Exit(s, "failed") /\ UNCHANGED <<main, importance, beat, given>>
proceeds == UNCHANGED <<status, main, importance, beat, given>>

-----------------------------------------------------------------------------
\* Calls that concern the process and its own sockets only.
Socket(s) ==
  /\ calls(s, "socket")
  /\ setSock(s, call(s).sd, newSocket(call(s).type))
  /\ Continue(s) /\ proceeds /\ UNCHANGED <<known, sub, link>>

Listen(s) ==
  /\ calls(s, "listen")
  /\ sock' = [sock EXCEPT ![s][call(s).sd].listen = TRUE]
  /\ Continue(s) /\ proceeds /\ UNCHANGED <<known, sub, link>>

\* The client's global importance stands for the value -1.
optionValue(s) == IF call(s).value = -1 THEN importance ELSE call(s).value

SetOption(s) ==
  /\ calls(s, "setopt")
  /\ IF call(s).opt = "imp" /\ optionValue(s) \notin LOW .. CRITICAL
     THEN err(s)
     ELSE /\ sock' = [sock EXCEPT ![s][call(s).sd].opt[call(s).opt] = optionValue(s)]
          /\ Continue(s) /\ proceeds /\ UNCHANGED <<known, sub, link>>

GetOption(s) ==
  /\ calls(s, "getopt")
  /\ IF sock[s][call(s).sd].opt[call(s).opt] # call(s).want
     THEN err(s)
     ELSE Continue(s) /\ proceeds /\ UNCHANGED tipc

SetImportance(s) ==
  /\ calls(s, "importance")
  /\ importance' = call(s).value
  /\ Continue(s) /\ UNCHANGED <<status, main, beat, given, tipc>>

ClearErrors(s) ==
  /\ calls(s, "clear")
  /\ Goto(s, [go(proc[s], 1) EXCEPT !.bad = 0])
  /\ proceeds /\ UNCHANGED tipc

CheckErrors(s) ==
  /\ calls(s, "check")
  /\ IF proc[s].bad # 0 THEN err(s) ELSE Continue(s) /\ proceeds /\ UNCHANGED tipc

SetRegister(s) ==
  /\ calls(s, "set")
  /\ Goto(s, [go(proc[s], 1) EXCEPT !.a = call(s).value, !.b = 0, !.c = 0])
  /\ proceeds /\ UNCHANGED tipc

Jump(s) ==
  /\ calls(s, "jump")
  /\ Goto(s, go(proc[s], call(s).by))
  /\ proceeds /\ UNCHANGED tipc

\* do_receive's caller looks at the number of receives.
NumRec(s) ==
  /\ calls(s, "numRec")
  /\ LET n == proc[s].b
         ok == CASE call(s).want = "positive" -> n > 0
                 [] call(s).want = "one" -> n = 1
                 [] call(s).want = "zero" -> n = 0
     IN  IF ok THEN Continue(s) /\ proceeds /\ UNCHANGED tipc ELSE err(s)

\* The end of sendSyncTIPC and of recvSyncTIPC.
Synced(s) ==
  /\ calls(s, "synced")
  /\ beat' = [beat EXCEPT ![s] = (@ + 1) % 4]
  /\ Continue(s) /\ UNCHANGED <<status, main, importance, given, tipc>>

-----------------------------------------------------------------------------
\* Names and subscriptions.
Bind(s) ==
  /\ calls(s, "bind")
  /\ LET x == call(s).sd
         a == call(s).addr
     IN  /\ sock' = [sock EXCEPT ![s][x].name = a]
         /\ SetNames(s, known[s] \cup {[addr |-> a, port |-> port(s, x)]})
         /\ Post(<<[packet("publish", other(s), port(s, x), "") EXCEPT !.addr = a]>>)
  /\ Continue(s) /\ proceeds

Close(s) ==
  /\ calls(s, "close")
  /\ LET x == call(s).sd
     IN  /\ sock' = [sock EXCEPT ![s] = [y \in DOMAIN @ \ {x} |-> @[y]]]
         /\ SetNames(s, {n \in known[s] : n.port # port(s, x)})
         /\ Post(farewell(s, x))
  /\ Continue(s) /\ proceeds

Subscribe(s) ==
  /\ calls(s, "subscribe")
  /\ LET fits == {n \in known[s] : overlap(n.addr, call(s).addr)}
     IN  sub' = [sub EXCEPT ![s] =
                   [on |-> TRUE, addr |-> call(s).addr,
                    evts |-> IF fits = {} THEN <<>>
                             ELSE <<[k |-> "PUBLISHED", port |-> (CHOOSE n \in fits : TRUE).port]>>]]
  /\ Continue(s) /\ proceeds /\ UNCHANGED <<sock, known, link>>

Event(s) ==
  /\ calls(s, "event") /\ sub[s].evts # <<>>
  /\ IF Head(sub[s].evts).k # call(s).want THEN err(s)
     ELSE /\ sub' = [sub EXCEPT ![s].evts = Tail(@)]
          /\ Goto(s, [go(proc[s], 1) EXCEPT !.port = Head(sub[s].evts).port])
          /\ proceeds /\ UNCHANGED <<sock, known, link>>

Unsubscribe(s) ==
  /\ calls(s, "unsubscribe")
  /\ sub' = [sub EXCEPT ![s] = NoSub]
  /\ Continue(s) /\ proceeds /\ UNCHANGED <<sock, known, link>>

-----------------------------------------------------------------------------
\* Sending.  Whether a message is returned is the sender's choice.
keeps(s) == sock[s][call(s).sd].opt.dest = 0
datagram(s, k, dst, to) ==
  [packet(k, dst, port(s, call(s).sd), to) EXCEPT
     !.addr = call(s).addr, !.msg = call(s).msg, !.keep = keeps(s)]

SendTo(s) ==
  /\ calls(s, "sendto")
  /\ LET nodes == {n.port.side : n \in {m \in known[s] : overlap(m.addr, call(s).addr)}}
     IN  IF call(s).addr = portAddr
         THEN /\ Post(<<datagram(s, "direct", proc[s].port.side, proc[s].port.sd)>>)
              /\ CountError(s, TRUE)
         ELSE IF nodes = {}
         THEN CountError(s, FALSE) /\ UNCHANGED link
         ELSE /\ \E d \in nodes : Post(<<datagram(s, "named", d, "")>>)
              /\ CountError(s, TRUE)
  /\ proceeds /\ UNCHANGED <<sock, known, sub>>

\* A multicast goes once to every node where the range is published; no
\* receiver anywhere is no error.
McastTo(s) ==
  /\ calls(s, "mcastto")
  /\ LET nodes == SetToSeq({n.port.side : n \in {m \in known[s] : overlap(m.addr, call(s).addr)}})
     IN  Post([i \in 1 .. Len(nodes) |-> datagram(s, "mcast", nodes[i], "")])
  /\ Continue(s) /\ proceeds /\ UNCHANGED <<sock, known, sub>>

\* A stream takes a message of any size, in parts of at most MAX_MSG bytes.
parts(msg) ==
  LET n == (msg.size + MAX_MSG - 1) \div MAX_MSG
  IN  [i \in 1 .. n |-> [msg EXCEPT !.off = @ + (i - 1) * MAX_MSG,
                          !.size = IF i < n THEN MAX_MSG ELSE @ - (n - 1) * MAX_MSG]]

SendOn(s, x, msg) ==
  LET k == sock[s][x]
      ms == parts(msg)
  IN  IF k.conn = "up"
      THEN /\ Post([i \in 1 .. Len(ms) |->
                      [packet("data", k.peer.side, port(s, x), k.peer.sd) EXCEPT !.msg = ms[i]]])
           /\ CountError(s, TRUE)
      ELSE CountError(s, FALSE) /\ UNCHANGED link

Send(s) ==
  /\ calls(s, "send")
  /\ SendOn(s, call(s).sd, call(s).msg)
  /\ proceeds /\ UNCHANGED <<sock, known, sub>>

\* The client's answer in the test of ancillary data.
Answer(s) ==
  /\ calls(s, "answer")
  /\ SendOn(s, call(s).sd, buffer(IF proc[s].got.what = "ONE" THEN "END" ELSE "TWO", 4))
  /\ proceeds /\ UNCHANGED <<sock, known, sub>>

-----------------------------------------------------------------------------
\* Connections: a request, its acceptance, and an acknowledgement that opens
\* the caller's side.
Syn(s) ==
  /\ calls(s, "syn")
  /\ LET nodes == {n.port.side : n \in {m \in known[s] : overlap(m.addr, call(s).addr)}}
     IN  IF nodes = {} THEN err(s)
         ELSE /\ \E d \in nodes :
                   Post(<<[packet("syn", d, port(s, call(s).sd), "") EXCEPT !.addr = call(s).addr]>>)
              /\ sock' = [sock EXCEPT ![s][call(s).sd].conn = "syn"]
              /\ Continue(s) /\ proceeds /\ UNCHANGED <<known, sub>>

Accept(s) ==
  /\ calls(s, "accept")
  /\ LET x == call(s).sd
         y == call(s).new
         l == sock[s][x]
     IN  /\ l.q # <<>>
         /\ sock' = [sock EXCEPT ![s] =
                       with([@ EXCEPT ![x].q = Tail(l.q)], y,
                            [newSocket(l.type) EXCEPT !.conn = "up", !.peer = Head(l.q).from,
                                                 !.via = Head(l.q).addr])]
         /\ Post(<<packet("ack", Head(l.q).from.side, port(s, y), Head(l.q).from.sd)>>)
  /\ Continue(s) /\ proceeds /\ UNCHANGED <<known, sub>>

\* The acknowledgement counts even if the connection has ended behind it.
Connect(s) ==
  /\ calls(s, "connect") /\ sock[s][call(s).sd].conn # "syn"
  /\ IF call(s).want = "up" /\ sock[s][call(s).sd].peer # NoPort
     THEN Continue(s) /\ proceeds /\ UNCHANGED tipc
     ELSE err(s)

Shutdown(s) ==
  /\ calls(s, "shutdown")
  /\ LET k == sock[s][call(s).sd]
     IN  IF k.conn = "up"
         THEN /\ sock' = [sock EXCEPT ![s][call(s).sd].conn = "down"]
              /\ Post(<<[packet("error", k.peer.side, port(s, call(s).sd), k.peer.sd) EXCEPT
                           !.err = "SHUTDOWN"]>>)
              /\ Continue(s) /\ proceeds /\ UNCHANGED <<known, sub>>
         ELSE IF call(s).checked THEN err(s)
         ELSE Continue(s) /\ proceeds /\ UNCHANGED tipc

-----------------------------------------------------------------------------
\* Receiving.  The result of a receive: bytes or -1, what they are, the packet
\* that ended or began them and the queue that is left.
room(s) ==
  CASE call(s).want = "record" -> proc[s].a
    [] call(s).want = "chunk" -> proc[s].a
    [] OTHER -> call(s).max

dataPrefix(q) ==
  LET stop == {i \in 1 .. Len(q) : q[i].k # "data"}
  IN  IF stop = {} THEN Len(q) ELSE Min(stop) - 1

bytes(q) == FoldSeq(LAMBDA p, n : p.msg.size + n, 0, q)

\* The queue of a stream without its first n bytes.
without(q, n) ==
  LET end == dataPrefix(q)
      left == Min({i \in 0 .. end : i = end \/ bytes(SubSeq(q, 1, i + 1)) > n})
      rest == SubSeq(q, left + 1, Len(q))
      cut == n - bytes(SubSeq(q, 1, left))
  IN  IF cut = 0 THEN rest
      ELSE [rest EXCEPT ![1].msg.off = @ + cut, ![1].msg.size = @ - cut]

result(res, pkt, msg, q) == [res |-> res, pkt |-> pkt, msg |-> msg, q |-> q]

\* The stream that can be read at once; a read for all of it waits for more
\* unless the connection has ended behind it.
received(s) ==
  LET k == sock[s][call(s).sd]
      n == dataPrefix(k.q)
      have == bytes(SubSeq(k.q, 1, n))
      take == IF have < room(s) THEN have ELSE room(s)
      h == Head(k.q)
  IN  IF k.q = <<>> THEN result(-1, packet("none", s, NoPort, ""), NoMsg, <<>>)
      ELSE IF h.k = "error"
      THEN result(IF h.err = "SHUTDOWN" \/ call(s).ctl THEN 0 ELSE -1, h, h.msg, Tail(k.q))
      ELSE IF k.type = "STREAM"
      THEN result(take, h, [h.msg EXCEPT !.size = take], without(k.q, take))
      ELSE result(IF h.msg.size < room(s) THEN h.msg.size ELSE room(s), h, h.msg, Tail(k.q))

canReceive(s) ==
  LET k == sock[s][call(s).sd]
      n == dataPrefix(k.q)
  IN  \/ call(s).flag = "dont"
      \/ k.q = <<>> /\ k.conn = "down"
      \/ /\ k.q # <<>>
         /\ k.type = "STREAM" /\ call(s).flag = "all" =>
              n < Len(k.q) \/ k.conn = "down" \/ bytes(k.q) >= room(s)

\* What the caller makes of result r: its next state, or failed.
failed == [start(0) EXCEPT !.at = 0]
judge(s, r) ==
  LET p == proc[s]
      w == call(s).want
      next == go(p, 1)
      need(ok) == IF ok THEN next ELSE failed
      count(ok) == IF r.res = 0 THEN failed ELSE IF ok THEN next ELSE [next EXCEPT !.bad = @ + 1]
      whole == r.msg.off = 0 /\ r.msg.size = r.msg.len /\ r.res = r.msg.len
      isBack(what, size) ==
        r.res = 0 /\ r.pkt.err = "NO_PORT" /\ r.msg.size = size /\ r.msg.what = what
  IN  CASE w = "ack" -> need(r.res = 1)
        [] w = "array" -> count(r.res > 0 /\ r.msg.what = "array" /\ whole)
        [] w = "message" -> count(r.res > 0)
        [] w = "end" -> need(r.res = 0)
        [] w = "any" -> need(r.res >= 0)
        [] w = "named" -> need(/\ r.res > 0 /\ r.pkt.k # "error"
                             /\ setServerAddr \in {r.pkt.addr, sock[s][call(s).sd].via})
        [] w = "recvfrom" -> need(r.res = 9 /\ r.msg.what = "recvfrom")
        [] w = "test" -> [next EXCEPT !.a = IF r.res <= 0 THEN TS_INVALID_TEST
                                            ELSE IF r.msg.what = "test" THEN r.msg.num
                                            ELSE ts_lastStressTest]
        [] w = "header" -> IF r.res = 0 THEN go(p, 6)
                           ELSE IF r.res < 0 THEN failed
                           ELSE [next EXCEPT !.a = recordAt(r.msg.off)]
        [] w = "record" -> need(r.res = p.a /\ recordAt(r.msg.off - 4) = p.a)
        [] w = "chunk" -> IF r.res = 0 THEN [next EXCEPT !.b = -@]
                          ELSE IF r.res < 0 \/ r.msg.what # "big" THEN failed
                          ELSE [go(p, IF r.res = p.a THEN 1 ELSE 0) EXCEPT
                                  !.a = @ - r.res, !.b = @ + 1]
        [] w = "full" -> need(r.res = call(s).max)
        [] w = "nothing" -> need(r.res < 0)
        [] w = "loop" -> IF r.res > 0
                         THEN [next EXCEPT !.got = r.msg, !.a = IF r.msg.what = "ONE" THEN 4 ELSE @]
                         ELSE IF isBack("TWO", p.a) THEN go(p, 5) ELSE failed
        [] w = "returned" -> need(isBack("OMEGA", 6))

Recv(s) ==
  /\ calls(s, "recv") /\ canReceive(s)
  /\ \E r \in {received(s)} : \E next \in {judge(s, r)} :
       IF next = failed THEN err(s)
       ELSE /\ Goto(s, next)
            /\ sock' = [sock EXCEPT ![s][call(s).sd].q = r.q]
            /\ proceeds /\ UNCHANGED <<known, sub, link>>

-----------------------------------------------------------------------------
\* server_mcast: msgno, the sockets that have had it and the messages so far are
\* the registers a, b and c.  One round of select serves every socket whose
\* first message is number msgno; a socket with another first message keeps
\* select from timing out.
mcastSockets(s) == {x \in ToSet(sd) : sock[s][x].q # <<>>}
mcastNow(s) == {x \in mcastSockets(s) : Head(sock[s][x].q).msg.num = proc[s].a}
mcastDone(s) == ~sameCluster \/ proc[s].a = call(s).burst
nextMsgno(p) == [p EXCEPT !.a = @ + 1, !.b = 0]

McastRound(s) ==
  /\ calls(s, "mcast") /\ ~mcastDone(s) /\ mcastNow(s) # {}
  /\ LET n == Cardinality(mcastNow(s))
         p == [proc[s] EXCEPT !.b = @ + n, !.c = @ + n]
         wrong(x) == \/ Head(sock[s][x].q).msg.size # call(s).size
                     \/ call(s).sub <= 4 /\ Len(sock[s][x].q) > 1
     IN  IF \E x \in mcastNow(s) : wrong(x) THEN err(s)
         ELSE /\ sock' = [sock EXCEPT ![s] =
                            [x \in DOMAIN @ |-> IF x \in mcastNow(s)
                                                THEN [@[x] EXCEPT !.q = Tail(sock[s][x].q)]
                                                ELSE @[x]]]
              /\ Goto(s, IF p.b >= call(s).num THEN nextMsgno(p) ELSE p)
              /\ proceeds /\ UNCHANGED <<known, sub, link>>

McastEnd(s) ==
  /\ calls(s, "mcast") /\ mcastDone(s)
  /\ IF proc[s].c # proc[s].a * call(s).num THEN err(s)
     ELSE Continue(s) /\ proceeds /\ UNCHANGED tipc

-----------------------------------------------------------------------------
\* Time.  Nothing is under way and the other side waits.
ready(s) ==
  /\ running(s)
  /\ proc[s].at <= Len(code(s)) =>
       CASE calls(s, "recv") -> canReceive(s)
         [] calls(s, "event") -> sub[s].evts # <<>>
         [] calls(s, "accept") -> sock[s][call(s).sd].q # <<>>
         [] calls(s, "connect") -> sock[s][call(s).sd].conn # "syn"
         [] calls(s, "mcast") -> mcastDone(s) \/ mcastNow(s) # {}
         [] calls(s, "sleep") -> FALSE
         [] OTHER -> TRUE
quiet(s) == link = [x \in Side |-> <<>>] /\ ~ready(other(s))
timePasses(s) == punctual => quiet(s)

Sleep(s) ==
  /\ calls(s, "sleep") /\ timePasses(s)
  /\ Continue(s) /\ proceeds /\ UNCHANGED tipc

ConnectTimeout(s) ==
  /\ calls(s, "connect") /\ sock[s][call(s).sd].conn = "syn" /\ timePasses(s)
  /\ IF call(s).want = "timeout" THEN Continue(s) /\ proceeds /\ UNCHANGED tipc ELSE err(s)

McastTimeout(s) ==
  /\ calls(s, "mcast") /\ ~mcastDone(s) /\ mcastSockets(s) = {} /\ timePasses(s)
  /\ Goto(s, nextMsgno(proc[s])) /\ proceeds /\ UNCHANGED tipc

-----------------------------------------------------------------------------
\* Arrival of the first packet at a node.
queued(k, p) == [k EXCEPT !.q = Append(@, p)]
Refuse(s, p, error) ==
  /\ link' = [after(<<errorFor(p, port(s, p.to), error)>>) EXCEPT ![s] = Tail(@)]
  /\ UNCHANGED sock
Drop(s) == link' = [link EXCEPT ![s] = Tail(@)] /\ UNCHANGED sock
Take(s, x, k) == link' = [link EXCEPT ![s] = Tail(@)] /\ setSock(s, x, k)

Deliver(s) ==
  /\ link[s] # <<>>
  /\ LET p == Head(link[s])
         open == p.to \in DOMAIN sock[s]
         k == sock[s][p.to]
     IN  CASE p.k = "publish" ->
                SetNames(s, known[s] \cup {[addr |-> p.addr, port |-> p.from]}) /\ Drop(s)
           [] p.k = "withdraw" ->
                SetNames(s, {n \in known[s] : n.port # p.from}) /\ Drop(s)
           [] p.k \in {"named", "syn"} ->
                /\ IF bound(s, p.addr) # {}
                   THEN \E x \in bound(s, p.addr) : Take(s, x, queued(sock[s][x], p))
                   ELSE IF p.k = "syn" \/ p.keep THEN Refuse(s, p, "NO_NAME") ELSE Drop(s)
                /\ UNCHANGED <<known, sub>>
           [] p.k = "mcast" ->
                /\ link' = [link EXCEPT ![s] = Tail(@)]
                /\ sock' = [sock EXCEPT ![s] =
                     [x \in DOMAIN @ |-> IF x \in bound(s, p.addr) /\ (sameCluster \/ p.from.side = s)
                                         THEN queued(@[x], p) ELSE @[x]]]
                /\ UNCHANGED <<known, sub>>
           [] p.k = "direct" ->
                /\ IF open THEN Take(s, p.to, queued(k, p))
                   ELSE IF p.keep THEN Refuse(s, p, "NO_PORT") ELSE Drop(s)
                /\ UNCHANGED <<known, sub>>
           [] p.k = "data" ->
                /\ IF open /\ k.conn = "up" /\ k.peer = p.from THEN Take(s, p.to, queued(k, p))
                   ELSE Refuse(s, p, "NO_PORT")
                /\ UNCHANGED <<known, sub>>
           [] p.k = "ack" ->
                /\ IF open /\ k.conn = "syn"
                   THEN Take(s, p.to, [k EXCEPT !.conn = "up", !.peer = p.from])
                   ELSE Refuse(s, p, "NO_PORT")
                /\ UNCHANGED <<known, sub>>
           [] p.k = "error" ->
                /\ IF open THEN Take(s, p.to, [queued(k, p) EXCEPT
                                                !.conn = IF @ \in {"up", "syn"} THEN "down" ELSE @])
                   ELSE Drop(s)
                /\ UNCHANGED <<known, sub>>
  /\ UNCHANGED <<status, proc, main, importance, beat, given>>

-----------------------------------------------------------------------------
\* tipcTestServer: a test number ends the server, or the test is run once the
\* client has given the second signal.
ServerDispatch ==
  /\ calls("server", "dispatch")
  /\ LET test == proc["server"].a
     IN  IF test = TS_KILL_SERVER
         THEN Exit("server", "done") /\ UNCHANGED <<main, importance, beat, given>>
         ELSE IF test >= ts_lastStressTest
                 \/ (test >= ts_lastSanityTest /\ test < TS_FIRST_STRESS_TEST)
         THEN err("server")
         ELSE Continue("server") /\ proceeds /\ UNCHANGED tipc

\* A number that is not in serverList runs no test.
ServerRun ==
  /\ calls("server", "run")
  /\ LET test == proc["server"].a
     IN  Goto("server", start(IF test \in DOMAIN Routine["server"] THEN test ELSE 0))
  /\ proceeds /\ UNCHANGED tipc

ServerLoop ==
  /\ running("server") /\ proc["server"].at > Len(code("server"))
  /\ Goto("server", start(0)) /\ proceeds /\ UNCHANGED tipc

\* main of the client.
ClientStart ==
  /\ status["client"] # "run" /\ clients < MaxClients
  /\ status' = [status EXCEPT !["client"] = "run"]
  /\ clients' = clients + 1
  /\ args' \in Argv
  /\ Goto("client", start(0))
  /\ UNCHANGED <<lastTestNum, importance, beat, given, tipc>>

validTest(test) ==
  test >= 0 /\ test < ts_lastStressTest
  /\ ~(test >= ts_lastSanityTest /\ test < TS_FIRST_STRESS_TEST)

\* Mutant: all tests and one more.
ClientArg_OnePast ==
  /\ status["client"] = "run" /\ proc["client"].prog = 0 /\ args # <<>>
  /\ LET test == Head(args)
     IN  IF test # TS_KILL_SERVER /\ ~validTest(test)
         THEN Exit("client", "usage") /\ UNCHANGED <<main, importance, beat, given>>
         ELSE /\ args' = Tail(args)
              /\ lastTestNum' = IF test = 0 THEN ts_lastSanityTest ELSE test
              /\ Goto("client", start(IF test = 0 THEN TS_FIRST_SANITY_TEST ELSE test))
              /\ importance' = IF test = TS_KILL_SERVER THEN importance ELSE LOW
              /\ UNCHANGED <<status, clients, beat, given, tipc>>

\* tipcTestClient: the next argument.
ClientArg ==
  /\ status["client"] = "run" /\ proc["client"].prog = 0 /\ args # <<>>
  /\ LET test == Head(args)
     IN  IF test # TS_KILL_SERVER /\ ~validTest(test)
         THEN Exit("client", "usage") /\ UNCHANGED <<main, importance, beat, given>>
         ELSE /\ args' = Tail(args)
              /\ lastTestNum' = IF test = 0 THEN ts_lastSanityTest - 1 ELSE test
              /\ Goto("client", start(IF test = 0 THEN TS_FIRST_SANITY_TEST ELSE test))
              /\ importance' = IF test = TS_KILL_SERVER THEN importance ELSE LOW
              /\ UNCHANGED <<status, clients, beat, given, tipc>>

\* tipcTestClientX: the test after its request, then the next test of the argument.
ClientRun ==
  /\ running("client") /\ proc["client"].asks /\ proc["client"].at > Len(code("client"))
  /\ proc["client"].prog # TS_KILL_SERVER
  /\ Goto("client", [start(proc["client"].prog) EXCEPT !.asks = FALSE])
  /\ proceeds /\ UNCHANGED tipc

ClientNextTest ==
  /\ running("client") /\ proc["client"].at > Len(code("client"))
  /\ proc["client"].asks => proc["client"].prog = TS_KILL_SERVER
  /\ Goto("client", start(IF proc["client"].prog < lastTestNum THEN proc["client"].prog + 1 ELSE 0))
  /\ proceeds /\ UNCHANGED tipc

ClientDone ==
  /\ status["client"] = "run" /\ proc["client"].prog = 0 /\ args = <<>>
  /\ Exit("client", "done") /\ UNCHANGED <<main, importance, beat, given>>

-----------------------------------------------------------------------------
\* The calls of a routine, by kind: a call is of one kind only.
OwnCall(s) ==
  /\ makes(s, {"importance", "clear", "check", "set", "jump", "numRec", "synced", "sleep"})
  /\ \/ SetImportance(s) \/ ClearErrors(s) \/ CheckErrors(s) \/ SetRegister(s) \/ Jump(s)
     \/ NumRec(s) \/ Synced(s) \/ Sleep(s)
SocketCall(s) ==
  /\ makes(s, {"socket", "listen", "setopt", "getopt", "bind", "close", "shutdown"})
  /\ \/ Socket(s) \/ Listen(s) \/ SetOption(s) \/ GetOption(s) \/ Bind(s) \/ Close(s) \/ Shutdown(s)
NameCall(s) ==
  /\ makes(s, {"subscribe", "event", "unsubscribe"})
  /\ \/ Subscribe(s) \/ Event(s) \/ Unsubscribe(s)
SendCall(s) ==
  /\ makes(s, {"sendto", "mcastto", "send", "answer", "syn"})
  /\ \/ SendTo(s) \/ McastTo(s) \/ Send(s) \/ Answer(s) \/ Syn(s)
ReceiveCall(s) ==
  /\ makes(s, {"accept", "connect", "recv", "mcast"})
  /\ \/ Accept(s) \/ Connect(s) \/ Recv(s) \/ McastRound(s) \/ McastEnd(s) \/ ConnectTimeout(s)
     \/ McastTimeout(s)
Step(s) == OwnCall(s) \/ SocketCall(s) \/ NameCall(s) \/ SendCall(s) \/ ReceiveCall(s)
Server == Step("server") \/ ServerDispatch \/ ServerRun \/ ServerLoop
Client == Step("client") \/ ClientArg \/ ClientRun \/ ClientNextTest \/ ClientDone
Work == Server \/ Client \/ \E s \in Side : Deliver(s)
Next == Work \/ ClientStart

\* Something happens as long as anything can: no more is asked of the scheduler,
\* because nothing here repeats unless the other side has moved.
Spec == Init /\ [][Next]_vars
FairSpec == Spec /\ WF_vars(Work)
=============================================================================
