----------------------------- MODULE BenchProps -----------------------------
(***************************************************************************)
(* Properties of the benchmark protocol of Benchmark.                      *)
(***************************************************************************)
EXTENDS Benchmark

\* Types of the state of master, server, children and clients.
TypeOK ==
  /\ run \in 0 .. MaxRuns /\ clients \in 0 .. req_clients /\ left \in 0 .. req_clients
  /\ mpc \in {"off", "find", "nap", "lstn", "info", "fork", "ready", "nap2", "arm", "acks",
              "exec", "finC", "finS", "term", "reap", "done", "dead"}
  /\ test \in {"latency", "throughput"} /\ iter \in 1 .. Rounds
  /\ msrv \in Seq({"SRV_INFO", "SRV_MSGLEN_ACK", "SRV_FINISHED"})
  /\ mclnt \in Seq({"CLNT_READY", "CLNT_FINISHED"})
  /\ srv \in {"reset", "cmd", "info", "listen", "loop", "dead"}
  /\ sq \in Seq(Order) /\ srv_cnt \in Nat
  /\ lstn \in {"none", "bound", "listen"} /\ backlog \in Seq(Peer)
  /\ kid \in [Peer -> {"none", "forked", "cmd", "ack", "echo", "gone", "reaped"}]
  /\ kq \in [Peer -> Seq(Order)] /\ kjob \in [Peer -> Order] /\ rcvd \in [Peer -> Nat]
  /\ cl \in [Peer -> {"none", "born", "dial", "conn", "linked", "cmd", "stream", "wait",
                      "gone", "reaped"}]
  /\ cq \in [Peer -> Seq(Order)] /\ cjob \in [Peer -> Order] /\ sent \in [Peer -> Nat]
  /\ pipe \in [Peer -> Nat] /\ echoes \in [Peer -> Nat]

mine == {<<run, c>> : c \in 1 .. clients}

\* What the master's position says of its counters: a loop that waits still
\* waits for somebody, a fork has room, a test that is begun has messages, and
\* a measurement has a client; the latency test has exactly one.
masterOK ==
  /\ (mpc = "off") = (run = 0)
  /\ mpc \in {"off", "find", "nap", "lstn", "info"} => clients = 0
  /\ mpc = "fork" => clients < req_clients /\ (latency => clients = 0)
  /\ mpc \in {"ready", "nap2", "arm", "acks", "exec", "finC", "finS"} =>
       clients >= 1 /\ (latency => clients = 1)
  /\ mpc \in {"fork", "ready", "nap2", "arm", "acks", "exec", "finC", "finS"} =>
       IF latency THEN latency_transf > 0 ELSE thruput_transf > 0
  /\ mpc \in {"acks", "finC", "finS", "reap"} => left >= 1
  /\ mpc \in {"acks", "finC", "finS"} => left <= parties

\* A connection that no client has been forked for yet is untouched.
ahead(k) == k[1] > run \/ (k[1] = run /\ k[2] > clients)
fresh(k) ==
  /\ cl[k] = "none" /\ cq[k] = <<>>
  /\ kid[k] = "none" /\ kq[k] = <<>> /\ rcvd[k] = 0
  /\ pipe[k] = 0 /\ echoes[k] = 0

\* A request waits in the backlog once, its client waits with it, and there
\* is no child for it yet.
backlogOK ==
  /\ \A i \in 1 .. Len(backlog) : cl[backlog[i]] = "conn"
  /\ \A i, j \in 1 .. Len(backlog) : backlog[i] = backlog[j] => i = j

\* srv_cnt counts the children that waitpid has not returned, and outside
\* the accept loop there are none.
children == {k \in Peer : kid[k] \notin {"none", "reaped"}}
childrenOK ==
  /\ \A k \in Peer : cl[k] \in {"none", "born", "dial", "conn"} => kid[k] = "none"
  /\ srv_cnt = Cardinality(children)
  /\ srv # "loop" => children = {}

\* The inductive invariant behind OneListener: the counter that decides when
\* the server takes commands again is exact in every interleaving of accepts,
\* exits and reaps, whatever dies on the way.
ServerInv ==
  /\ TypeOK
  /\ masterOK
  /\ \A k \in Peer : ahead(k) => fresh(k)
  /\ backlogOK
  /\ childrenOK

-----------------------------------------------------------------------------
(***************************************************************************)
(* One round after another, for a master that is alone and whose rounds    *)
(* all have messages.                                                      *)
(***************************************************************************)
roundOrder == [cmd |-> "RCV_MSG_LEN", msgcnt |-> msgcnt, echo |-> latency]
startOrder == [cmd |-> "CLNT_EXEC", msgcnt |-> msgcnt, echo |-> latency]
opensListener(c) == c.cmd \in {"TIPC_CONN", "TCP_CONN"}

\* SRV_INFO is sent once: the server is told the connection type once, and
\* forgets what is queued behind a command that resets it.
infoOK ==
  /\ mpc \in {"off", "find", "nap"} => msrv = <<>>
  /\ mpc \in {"off", "find", "nap", "lstn", "info"} => mclnt = <<>>
  /\ mpc \notin {"lstn", "info", "done", "dead"} =>
       srv # "info" /\ \A i \in 1 .. Len(sq) : ~ opensListener(sq[i])
  /\ mpc \in {"lstn", "info"} =>
       \/ /\ msrv = <<>> /\ srv # "info"
          /\ \A i \in 1 .. Len(sq) : opensListener(sq[i]) => i = Len(sq)
       \/ /\ (Len(msrv) = 1 /\ srv # "info") \/ (msrv = <<>> /\ srv = "info")
          /\ \A i \in 1 .. Len(sq) : ~ opensListener(sq[i])

\* Nothing is under way on connection k.
still(k) == pipe[k] = 0 /\ echoes[k] = 0
clientRests(k) == cl[k] = "gone" \/ (cl[k] = "cmd" /\ cq[k] = <<>>)
kidRests(k) ==
  /\ kid[k] \in {"none", "forked", "cmd", "gone", "reaped"}
  /\ kid[k] \in {"none", "forked", "cmd"} => kq[k] = <<>> /\ rcvd[k] = 0
quiet(k) == still(k) /\ clientRests(k) /\ kidRests(k)

\* client_create: the newest client has not answered, or its answer waits.
dialling(k) ==
  /\ still(k) /\ kidRests(k)
  /\ cq[k] = <<>>
  /\ \/ mclnt = <<>> /\ cl[k] \in {"born", "dial", "conn", "linked", "gone"}
     \/ Len(mclnt) = 1 /\ cl[k] \in {"cmd", "gone"}

\* The order of the round is out; A: who has acknowledged it.
armed(k, A) ==
  /\ still(k) /\ clientRests(k)
  /\ kid[k] \notin {"gone", "reaped"} => rcvd[k] = 0
  /\ IF k \in A
     THEN \/ kid[k] \in {"gone", "reaped"}
          \/ kid[k] = "echo" /\ kjob[k] = roundOrder /\ kq[k] = <<>>
     ELSE \/ kid[k] \in {"gone", "reaped"}
          \/ kid[k] \in {"none", "forked"} /\ kq[k] = <<>>
          \/ kid[k] = "cmd" /\ kq[k] \in {<<>>, <<roundOrder>>}
          \/ kid[k] = "ack" /\ kjob[k] = roundOrder /\ kq[k] = <<>>

\* The clients are told to start; C: whose client has reported its end; F:
\* whose server has.  While both live, every message sent is in the
\* connection or received, and every echo owed is in the connection.
streaming(k, C, F) ==
  LET got == IF k \in F THEN msgcnt ELSE rcvd[k] IN
  /\ IF k \in C THEN clientRests(k) /\ sent[k] = msgcnt
     ELSE \/ cl[k] = "gone"
          \/ /\ cl[k] = "cmd" /\ cq[k] = <<startOrder>>
             /\ still(k) /\ k \notin F /\ (kid[k] = "echo" => rcvd[k] = 0)
          \/ /\ cl[k] \in {"stream", "wait"} /\ cjob[k] = startOrder /\ cq[k] = <<>>
             /\ sent[k] <= msgcnt
  /\ IF k \in F THEN kidRests(k)
     ELSE \/ kid[k] \in {"gone", "reaped"}
          \/ kid[k] = "echo" /\ kjob[k] = roundOrder /\ kq[k] = <<>>
  /\ (k \in C \/ cl[k] \in {"stream", "wait"}) /\ (k \in F \/ kid[k] = "echo") =>
       /\ pipe[k] + got = sent[k]
       /\ echoes[k] = IF latency THEN got - sent[k] + (IF cl[k] = "wait" THEN 1 ELSE 0) ELSE 0

\* The inductive invariant behind AllReady and RoundsApart.  The answers
\* carry no name, and a child that never got the order looks like one that
\* is through with it: who has answered is a set that the state does not
\* show, of the size that the master's count and the unread answers give.
RoundInv ==
  /\ infoOK
  /\ mpc \in {"fork", "nap2", "arm", "term"} =>
       msrv = <<>> /\ mclnt = <<>> /\ \A k \in mine : quiet(k)
  /\ mpc = "ready" =>
       /\ msrv = <<>> /\ dialling(<<run, clients>>)
       /\ \A k \in mine : k # <<run, clients>> => quiet(k)
  /\ mpc = "acks" =>
       /\ mclnt = <<>>
       /\ \E A \in SUBSET mine :
            /\ Cardinality(A) = parties - left + Len(msrv)
            /\ \A k \in mine : armed(k, A)
  /\ mpc = "exec" => msrv = <<>> /\ mclnt = <<>> /\ \A k \in mine : armed(k, {k})
  /\ mpc \in {"finC", "finS"} =>
       \E C, F \in SUBSET mine :
         /\ Cardinality(C) = parties - left + Len(mclnt) + (IF mpc = "finS" THEN 1 ELSE 0)
         /\ Cardinality(F) = parties - left + Len(msrv)
         /\ \A k \in mine : streaming(k, C, F)

\* The hypothesis on the options: no round is of zero messages.
NoEmptyRound ==
  \A i \in 1 .. Rounds :
    /\ latency_transf > 0 => latency_transf \div i > 0
    /\ thruput_transf > 0 => thruput_transf \div 2 ^ (i - 1) > 0

\* "Wait until all servers are ready": when the master is about to start its
\* clients, every server child has taken this round's order and is reading,
\* unless it has died since.
AllReady ==
  mpc = "exec" => \A k \in mine :
    \/ kid[k] \in {"gone", "reaped"}
    \/ /\ kid[k] = "echo"
       /\ kjob[k] = [cmd |-> "RCV_MSG_LEN", msgcnt |-> msgcnt, echo |-> latency]

\* "Wait until all clients and servers are finished": when a round begins, or
\* the clients are dismissed, no answer is unread, no message is in flight,
\* and no child or client still works on an earlier order.
RoundsApart ==
  mpc \in {"arm", "term"} =>
    /\ msrv = <<>> /\ mclnt = <<>>
    /\ \A k \in mine :
         /\ pipe[k] = 0 /\ echoes[k] = 0
         /\ kid[k] \in {"forked", "cmd"} => kq[k] = <<>> /\ rcvd[k] = 0
         /\ cl[k] = "cmd" => cq[k] = <<>>
         /\ kid[k] \notin {"ack", "echo"} /\ cl[k] \notin {"stream", "wait"}

\* The server process takes commands itself only while none of its children
\* lives: no command meant for a child is ever read by both.
OneListener == srvBound => \A k \in Peer : ~ kidAlive(k)

\* A benchmark that has been started comes to its end, also on a server that
\* has the children of an earlier one.
Finishes == (mpc = "find") ~> (mpc = "done")
=============================================================================
