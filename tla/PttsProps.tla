----------------------------- MODULE PttsProps -----------------------------
(***************************************************************************)
(* Properties of the portable TIPC test suite, as modelled by Ptts.        *)
(***************************************************************************)
EXTENDS Ptts

\* The routines of both programs; TLC computes the table once.
table == [request |-> requests, client |-> clientTests, server |-> serverTests]
Routines == LET routines == table IN routines

\* Arguments for a client: every test and then the end of the server, the
\* endless test, a number that is no test.
ArgvSuite == {<<0, -1>>, <<1000>>, <<999>>}

\* A side is at a meeting from the moment it publishes the name of a signal or
\* subscribes to it until sendSyncTIPC or recvSyncTIPC returns.
Inside ==
  {s \in Side : \/ calls(s, "synced")
                \/ sub[s].on /\ sub[s].addr.type = TS_SYNCRO_TYPE
                \/ \E x \in DOMAIN sock[s] : sock[s][x].name.type = TS_SYNCRO_TYPE}

Meeting == INSTANCE Rendezvous WITH Party <- Side, inside <- Inside

\* sendSyncTIPC and recvSyncTIPC implement the rendezvous: whatever the tests do
\* in between, in any order of arrival and even when processes fail, no side
\* gets past a signal the other one has not come to.
RendezvousSpec == Meeting!Spec

\* "the failure of a given test means only that there is a problem with TIPC":
\* as long as sleeps and timeouts outlast the other side, a TIPC that loses
\* nothing never makes a test fail.
NoFalseAlarm == punctual => \A s \in Side : status[s] # "failed"

\* When a client sends the number of a test, the only port it can reach under
\* the name of the server is the one on which the server awaits that number,
\* and not a socket of an earlier test.
OneTarget ==
  calls("client", "sendto") /\ proc["client"].asks /\ call("client").addr = setServerAddr =>
    /\ proc["server"].prog = 0 /\ proc["server"].at < Len(serverLoop)
    /\ {n \in known["client"] : overlap(n.addr, setServerAddr)}
         = {[addr |-> setServerAddr, port |-> port("server", "sockfd_S")]}

\* When the server begins a test it holds no socket of an earlier one and, as
\* long as the client has not begun the test either, nothing else is left: no
\* socket of the client but the multicast sender it never closes, no message
\* under way and no name on either node but those of signals.
CleanSlate ==
  calls("server", "run") =>
    /\ sock["server"] = <<>>
    /\ proc["client"].asks =>
         /\ DOMAIN sock["client"] \subseteq {"mc"}
         /\ \A s \in Side :
              /\ \A i \in 1 .. Len(link[s]) : link[s][i].k \in {"publish", "withdraw"}
              /\ \A n \in known[s] : n.addr.type = TS_SYNCRO_TYPE

finite == proc["client"].prog # ts_stress_rdm /\ ts_stress_rdm \notin ToSet(args)

\* In a punctual run every client whose tests are finite comes to its end, as
\* long as the server has not been told to end: no signal is missed and no two
\* sides wait for each other.
SuiteFinishes ==
  (punctual /\ status["client"] = "run" /\ finite) ~>
    (status["client"] # "run" \/ status["server"] # "run")

-----------------------------------------------------------------------------
(***************************************************************************)
(* The signals in the routines.                                            *)
(***************************************************************************)
sockfd_R == "sockfd_R"
sync(addr) == addr.type = TS_SYNCRO_TYPE
SyncIds == 1 .. 4 \cup {TS_SYNC_WAITING_FOR_TEST_ID, TS_SYNC_FINISHED_TEST_ID}
script(k, n) == IF k = "send" THEN sendSyncTIPC(n) ELSE recvSyncTIPC(n)

\* A call is number j of sendSyncTIPC or recvSyncTIPC for signal n, or none of
\* these.
Places == [k : {"send", "recv"}, n : SyncIds, j : 1 .. 11]
Free == [k |-> "free", n |-> 0, j |-> 0]
isPlace(r, i, p) ==
  LET calls0 == script(p.k, p.n)
  IN  /\ p.j \in 1 .. Len(calls0) /\ i - p.j \in 0 .. Len(r) - Len(calls0)
      /\ \A m \in 1 .. Len(calls0) : r[i - p.j + m] = calls0[m]
placeIn(r, i) == IF \E p \in Places : isPlace(r, i, p) THEN CHOOSE p \in Places : isPlace(r, i, p)
                 ELSE Free
placeTable ==
  [who \in DOMAIN Routine |-> [test \in DOMAIN Routine[who] |->
     [i \in 1 .. Len(Routine[who][test]) |-> placeIn(Routine[who][test], i)]]]
places == LET t == placeTable IN t

\* The sockets that are open before each call, when the calls run in their order.
effect(S, c) ==
  CASE c.op = "socket" -> S \cup {c.sd} [] c.op = "accept" -> S \cup {c.new}
    [] c.op = "close" -> S \ {c.sd} [] OTHER -> S
lives(r) ==
  LET closing(x, j) == {h \in j + 1 .. Len(r) : effect({x}, r[h]) = {}}
      last(x, j) == IF closing(x, j) = {} THEN Len(r) + 1 ELSE Min(closing(x, j))
  IN  UNION {{[sd |-> x, from |-> j, to |-> last(x, j)] : x \in effect({}, r[j])} : j \in 1 .. Len(r)}
openIn(r) ==
  LET all == lives(r)
  IN  [i \in 1 .. Len(r) + 1 |-> {l.sd : l \in {m \in all : m.from < i /\ i <= m.to}}]
openTable ==
  [who \in DOMAIN Routine |-> [test \in DOMAIN Routine[who] |->
     openIn(Routine[who][test])]]
opens == LET t == openTable IN t

\* The client never closes its multicast sender.
kept(who) == IF who = "server" THEN {} ELSE {"mc"}

\* Where a signal may begin, and control may come from outside.
entry(r, pl, i) == i \in 1 .. Len(r) + 1 /\ (i <= Len(r) => pl[i] = Free \/ pl[i].j = 1)

\* The calls outside the signals use neither their names nor their socket.
Wants == {"ack", "array", "message", "end", "any", "named", "recvfrom", "test", "header", "record",
          "chunk", "full", "nothing", "loop", "returned"}
UsesSocket == {"listen", "setopt", "getopt", "bind", "close", "sendto", "mcastto", "send", "answer",
               "syn", "accept", "connect", "shutdown", "recv"}
plainCall(c) ==
  /\ c.op \in UsesSocket \cup {"socket"} => c.sd # sockfd_R
  /\ c.op = "accept" => c.new # sockfd_R
  /\ c.op \in {"bind", "subscribe", "sendto", "mcastto", "syn"} => ~sync(c.addr)
  /\ c.op \in {"sendto", "mcastto", "syn"} =>
       c.addr.type # NoAddr.type \/ (c.op = "sendto" /\ c.addr = portAddr)
  /\ c.op = "recv" => c.want \in Wants
  /\ c.op = "send" => c.msg.size \in Nat
  /\ c.op = "importance" => c.value \in LOW .. CRITICAL + 1
  /\ c.op # "synced"

\* Where control may go from call c at place i.
targets(c, i) ==
  IF c.op = "jump" THEN {i + c.by}
  ELSE {i + 1} \cup (IF c.op # "recv" THEN {}
                     ELSE CASE c.want = "header" -> {i + 6} [] c.want = "loop" -> {i + 5}
                            [] OTHER -> {})

routineOK(r, pl, op, who) ==
  /\ r \in Seq({r[i] : i \in DOMAIN r})
  /\ entry(r, pl, 1)
  /\ op[1] = {} /\ op[Len(r) + 1] \subseteq kept(who)
  /\ \A i \in 1 .. Len(r) :
       /\ IF pl[i] = Free
          THEN plainCall(r[i]) /\ \A t \in targets(r[i], i) : entry(r, pl, t)
          ELSE /\ pl[i] \in Places /\ pl[i].j \in 1 .. Len(script(pl[i].k, pl[i].n))
               /\ r[i] = script(pl[i].k, pl[i].n)[pl[i].j]
               /\ IF pl[i].j = Len(script(pl[i].k, pl[i].n)) THEN entry(r, pl, i + 1)
                  ELSE i < Len(r) /\ pl[i + 1] = [pl[i] EXCEPT !.j = @ + 1]
       /\ r[i].op \in UsesSocket => r[i].sd \in op[i]
       /\ r[i].op = "run" => op[i] = {}
       /\ \A t \in targets(r[i], i) : op[t] = effect(op[i], r[i])

\* The routines use the signals only as a whole, and every socket between its
\* creation and its end.
Progs == SanityTests \cup {ts_stress_rdm}
ASSUME RoutineAssumption ==
  /\ DOMAIN Routine = {"request", "client", "server"}
  /\ DOMAIN Routine["request"] = Progs \cup {TS_KILL_SERVER}
  /\ DOMAIN Routine["client"] = Progs
  /\ DOMAIN Routine["server"] = Progs \cup {0}
  /\ \A who \in DOMAIN Routine : \A test \in DOMAIN Routine[who] :
       routineOK(Routine[who][test], places[who][test], opens[who][test], who)

-----------------------------------------------------------------------------
(***************************************************************************)
(* The inductive invariant of the signals.                                 *)
(***************************************************************************)
stage(s) ==
  IF running(s) /\ proc[s].at <= Len(code(s))
  THEN places[IF s = "client" /\ proc[s].asks THEN "request" ELSE s][proc[s].prog][proc[s].at]
  ELSE Free
sends(s, J) == LET p == stage(s) IN p.k = "send" /\ p.j \in J
recvs(s, J) == LET p == stage(s) IN p.k = "recv" /\ p.j \in J
signal(s) == stage(s).n

isSeq(q) == q \in Seq({q[i] : i \in DOMAIN q})

\* Programs and arguments.
progOK ==
  /\ status \in [Side -> {"off", "run", "done", "failed", "usage"}]
  /\ DOMAIN proc = Side /\ \A s \in Side : DOMAIN proc[s] = DOMAIN start(0)
  /\ proc["server"].prog \in Progs \cup {0}
  /\ proc["client"].prog \in Progs \cup {0, TS_KILL_SERVER} /\ proc["client"].asks \in BOOLEAN
  /\ proc["client"].prog = TS_KILL_SERVER => proc["client"].asks
  /\ args \in Seq(Int)
  /\ proc["client"].prog # 0 =>
       /\ proc["client"].prog <= lastTestNum
       /\ lastTestNum \in Progs \cup {TS_KILL_SERVER}
       /\ proc["client"].prog < lastTestNum => lastTestNum \in SanityTests
                                               /\ proc["client"].prog \in SanityTests
  /\ \A s \in Side : running(s) => proc[s].at \in 1 .. Len(code(s)) + 1
  /\ beat \in [Side -> 0 .. 3]
  /\ importance \in LOW .. CRITICAL + 1 /\ clients \in 0 .. MaxClients

\* The open sockets are those of the routine at its current call.
opened(s) ==
  IF running(s) THEN opens[IF s = "client" /\ proc[s].asks THEN "request" ELSE s][proc[s].prog][proc[s].at]
  ELSE {}
openOK(s) == opened(s) \subseteq DOMAIN sock[s] /\ DOMAIN sock[s] \subseteq opened(s) \cup kept(s)

\* The socket of a signal and nothing else has a name of the signals, and what
\* other sockets hold does not come from it.
Marked(p) == p.from.sd = sockfd_R
fromTest(p) == "from" \in DOMAIN p /\ ~Marked(p)
sockOK(s) ==
  /\ IsFiniteSet(DOMAIN sock[s])
  /\ \A x \in DOMAIN sock[s] :
       /\ DOMAIN sock[s][x] = DOMAIN newSocket("RDM")
       /\ isSeq(sock[s][x].q)
       /\ x # sockfd_R => /\ ~sync(sock[s][x].name) /\ sock[s][x].peer.sd # sockfd_R
                          /\ \A i \in 1 .. Len(sock[s][x].q) : fromTest(sock[s][x].q[i])

\* What is under way to side s: the withdrawal and the publication of a name of
\* a signal, the byte that answers one, and packets that have to do with none.
markedOK(s, p) ==
  /\ p.from = port(other(s), sockfd_R) /\ sync(p.addr)
  /\ \/ p.k \in {"publish", "withdraw"}
     \/ p.k = "named" /\ ~p.keep /\ p.msg = buffer("ack", 1)
Kinds == {"publish", "withdraw", "named", "syn", "mcast", "direct", "data", "ack", "error"}
plainOK(p) ==
  /\ "from" \in DOMAIN p /\ p.k \in Kinds
  /\ p.k \in {"publish", "withdraw", "named", "syn", "mcast"} => ~sync(p.addr)
  /\ p.k \in {"named", "syn", "mcast"} => p.addr.type # NoAddr.type
  /\ p.to # sockfd_R
linkOK(s) ==
  /\ isSeq(link[s])
  /\ \A i \in 1 .. Len(link[s]) :
       IF Marked(link[s][i]) THEN markedOK(s, link[s][i]) ELSE plainOK(link[s][i])

\* The names a node knows.
nameOf(s, m) == [addr |-> syncAddr(m), port |-> port(s, sockfd_R)]
own(s) == {x \in known[s] : sync(x.addr) /\ x.port.side = s}
view(s) == {x \in known[s] : sync(x.addr) /\ x.port.side # s}
nameOK(s) ==
  /\ IsFiniteSet(known[s])
  /\ \A x \in known[s] : sync(x.addr) <=> x.port.sd = sockfd_R
  /\ own(s) = IF sends(s, 3 .. 4) THEN {nameOf(s, signal(s))} ELSE {}

\* The subscription, the port of the last event, the socket and the count of
\* errors at each call of a signal.
subOK(s) ==
  /\ DOMAIN sub[s] = DOMAIN NoSub /\ isSeq(sub[s].evts)
  /\ IF recvs(s, 2 .. 10) THEN sub[s].on /\ sub[s].addr = syncAddr(signal(s))
     ELSE /\ sub[s].on => ~sync(sub[s].addr)
          /\ \A i \in 1 .. Len(sub[s].evts) : sub[s].evts[i].port.sd # sockfd_R
          /\ proc[s].port.sd # sockfd_R
  /\ recvs(s, {11}) => ~sub[s].on
  /\ recvs(s, 6 .. 7) => proc[s].bad = 0
  /\ recvs(s, {10}) => proc[s].port.sd # sockfd_R
signalSocketOK(s) ==
  /\ sockfd_R \in DOMAIN sock[s] <=> sends(s, 2 .. 4) \/ recvs(s, 4 .. 8)
  /\ sockfd_R \in DOMAIN sock[s] =>
       LET k == sock[s][sockfd_R]
       IN  /\ k.type = "RDM" /\ k.conn = "no" /\ k.opt.dest = 1
           /\ DOMAIN k.opt = DOMAIN newSocket("RDM").opt
           /\ k.name = IF sends(s, 3 .. 4) THEN syncAddr(signal(s)) ELSE NoAddr
           /\ ~sends(s, {3}) => k.q = <<>>

\* Packets of the other side's signals under way to s: none, one, or a
\* withdrawal before a publication.
marks(q) == {i \in 1 .. Len(q) : Marked(q[i])}
under(q, k) == \E i \in marks(q) : marks(q) = {i} /\ q[i].k = k
underNamed(q, k, m) ==
  \E i \in marks(q) : marks(q) = {i} /\ q[i].k = k /\ q[i].addr = syncAddr(m)
underBoth(q, m) ==
  \E i, h \in marks(q) : /\ marks(q) = {i, h} /\ i < h /\ q[i].k = "withdraw"
                         /\ q[h].k = "publish" /\ q[h].addr = syncAddr(m)

\* Waiting for the other side's name to be withdrawn.
open(t) == recvs(t, 7 .. 9) /\ sub[t].evts = <<>>

ahead(s, t) == (beat[s] - beat[t]) % 4

\* What t knows of the name of the other side, and what is under way about it.
viewOK(t) ==
  LET s == other(t)
      m == signal(s)
  IN  \/ view(t) = {} /\ ~sends(s, 3 .. 4) /\ (marks(link[t]) = {} \/ under(link[t], "named"))
      \/ view(t) = {} /\ sends(s, 3 .. 4) /\ underNamed(link[t], "publish", m)
      \/ view(t) = {nameOf(s, m)} /\ sends(s, 3 .. 4) /\ marks(link[t]) = {}
      \/ /\ open(t) /\ view(t) = {nameOf(s, signal(t))} /\ ~sends(s, 3 .. 4) /\ under(link[t], "withdraw")
      \/ /\ open(t) /\ view(t) = {nameOf(s, signal(t))} /\ sends(s, {3}) /\ ahead(s, t) = 1
         /\ underBoth(link[t], m)

\* A byte that answers side s is under way or unread only while both are at the
\* signal.
answering(s) == sends(s, 3 .. 4) /\ open(other(s)) /\ signal(other(s)) = signal(s) /\ beat[s] = beat[other(s)]
ackOK(s) ==
  LET unread == IF sends(s, {3}) THEN sock[s][sockfd_R].q ELSE <<>>
  IN  \/ ~under(link[s], "named") /\ unread = <<>>
      \/ underNamed(link[s], "named", signal(s)) /\ unread = <<>> /\ sends(s, {3}) /\ answering(s)
      \/ /\ ~under(link[s], "named") /\ Len(unread) = 1 /\ sends(s, {3}) /\ answering(s)
         /\ unread[1].k = "named" /\ unread[1].msg = buffer("ack", 1) /\ ~unread[1].keep
            /\ Marked(unread[1])

\* Where the two sides are relative to each other: a side that has left a
\* meeting finds the other one at its last calls.
late(t) == recvs(t, 7 .. 11) \/ sends(t, {5})
meetOK(s) ==
  LET t == other(s)
  IN  /\ beat[s] = beat[t] \/ (ahead(s, t) = 1 /\ late(t)) \/ (ahead(t, s) = 1 /\ late(s))
      /\ sends(s, {4}) => answering(s)
      /\ sends(s, {5}) => (recvs(t, 7 .. 11) /\ beat[s] = beat[t]) \/ ahead(t, s) = 1
      /\ recvs(s, {2}) => IF nameOf(t, signal(s)) \in view(s)
                          THEN Len(sub[s].evts) = 1 /\ sub[s].evts[1].k = "PUBLISHED"
                          ELSE sub[s].evts = <<>>
      /\ recvs(s, 3 .. 6) => sends(t, {3}) /\ signal(t) = signal(s) /\ sub[s].evts = <<>>
                             /\ view(s) = {nameOf(t, signal(s))}
      /\ recvs(s, 7 .. 9) => IF sub[s].evts = <<>> THEN view(s) = {nameOf(t, signal(s))}
                             ELSE sub[s].evts[1] = [k |-> "WITHDRAWN", port |-> NoPort]
      /\ recvs(s, 7 .. 11) => (beat[s] = beat[t] /\ sends(t, 3 .. 5)) \/ ahead(t, s) = 1
      /\ recvs(s, 7 .. 11) /\ ~open(s) => (beat[s] = beat[t] /\ sends(t, {5})) \/ ahead(t, s) = 1

SyncInv ==
  /\ progOK
  /\ DOMAIN sock = Side /\ DOMAIN known = Side /\ DOMAIN sub = Side /\ DOMAIN link = Side
  /\ \A s \in Side : /\ openOK(s) /\ sockOK(s) /\ linkOK(s) /\ nameOK(s) /\ subOK(s)
                     /\ signalSocketOK(s) /\ viewOK(s) /\ ackOK(s) /\ meetOK(s)
=============================================================================
