----------------------------- MODULE Benchmark -----------------------------
(***************************************************************************)
(* demos/benchmark: a master forks client processes that stream messages   *)
(* to the children of a server process, and measures rounds of a latency   *)
(* and of a throughput test.  Master, server, children and clients talk    *)
(* through connectionless sockets: commands are multicast to whoever has   *)
(* bound the control name at that moment, answers go to the master's two   *)
(* sockets.                                                                *)
(*                                                                         *)
(* A connection is named by the master run and the client that made it;    *)
(* the server child that accepts it has the same name.  What is streamed   *)
(* is counted, not represented.  Message lengths are numbered by round.    *)
(* TIPC is external: a multicast to nobody is lost, queues keep order.     *)
(***************************************************************************)
EXTENDS Integers, Sequences, FiniteSets

CONSTANTS
  req_clients,    \* -c: connections to open
  latency_transf, \* -l: messages of a latency round, 0 to skip the test
  thruput_transf, \* -t: messages of a throughput round, 0 to skip the test
  Rounds,         \* message lengths from first_msglen to last_msglen, by 4:
                  \* 64 to 66000, or the one length -m names
  conn_typ,       \* -p: "TIPC_CONN" or "TCP_CONN"
  MaxRuns,        \* bound: how often a master is started
  NapsSuffice,    \* do the master's sleeps outlast what they wait for?
  EarlyConnect,   \* what a bound socket that does not listen yet may do
  Faults          \* "timeout": a wait expires; "kill": the master is killed

ASSUME OptionAssumption ==
  /\ req_clients \in Nat \ {0}
  /\ latency_transf \in Nat /\ thruput_transf \in Nat
  /\ Rounds \in 1 .. 6 /\ MaxRuns \in Nat
  /\ conn_typ \in {"TIPC_CONN", "TCP_CONN"}
  /\ NapsSuffice \in BOOLEAN
  /\ EarlyConnect \in (SUBSET {"queue", "refuse"}) \ {{}}
  /\ Faults \subseteq {"timeout", "kill"}

Peer == (1 .. MaxRuns) \X (1 .. req_clients)

Order == [cmd : {"TIPC_CONN", "TCP_CONN", "RCV_MSG_LEN", "RESTART", "CLNT_EXEC", "CLNT_TERM"},
          msgcnt : Nat, echo : BOOLEAN]
order(cmd) == [cmd |-> cmd, msgcnt |-> 0, echo |-> FALSE]

VARIABLES
  run,      \* masters started so far
  mpc,      \* where the master is
  test,     \* "latency" or "throughput"
  iter,     \* round of the test
  clients,  \* num_clients
  left,     \* messages or processes its loop still waits for
  msrv,     \* master_srv_sd: answers from servers
  mclnt,    \* master_clnt_sd: answers from clients
  srv,      \* where the server process is
  sq,       \* commands on its control socket
  srv_cnt,
  lstn,     \* its listening socket: "none", "bound", "listen"
  backlog,  \* connection requests queued there
  kid, kq, kjob, rcvd,  \* server children: state, commands, order, counter
  cl, cq, cjob, sent,   \* clients likewise
  pipe, echoes          \* messages in flight on a connection, each way

mvars == <<run, mpc, test, iter, clients, left>>
svars == <<srv, sq, srv_cnt, lstn, backlog>>
kvars == <<kid, kq, kjob, rcvd>>
cvars == <<cl, cq, cjob, sent>>
vars == <<mvars, msrv, mclnt, svars, kvars, cvars, pipe, echoes>>

Init ==
  /\ run = 0 /\ mpc = "off" /\ test = "latency" /\ iter = 1 /\ clients = 0 /\ left = 0
  /\ msrv = <<>> /\ mclnt = <<>>
  /\ srv = "reset" /\ sq = <<>> /\ srv_cnt = 0 /\ lstn = "none" /\ backlog = <<>>
  /\ kid = [k \in Peer |-> "none"] /\ kq = [k \in Peer |-> <<>>]
  /\ kjob = [k \in Peer |-> order("RESTART")] /\ rcvd = [k \in Peer |-> 0]
  /\ cl = [k \in Peer |-> "none"] /\ cq = [k \in Peer |-> <<>>]
  /\ cjob = [k \in Peer |-> order("CLNT_TERM")] /\ sent = [k \in Peer |-> 0]
  /\ pipe = [k \in Peer |-> 0] /\ echoes = [k \in Peer |-> 0]

-----------------------------------------------------------------------------
(***************************************************************************)
(* Sockets and names.                                                      *)
(***************************************************************************)
masterUp == mpc \notin {"off", "done", "dead"}
clntAlive(k) == cl[k] \notin {"none", "gone", "reaped"}
srvBound == srv \in {"cmd", "info"}
kidBound(k) == kid[k] \in {"cmd", "ack", "echo"}
clntBound(k) == cl[k] \in {"dial", "conn", "linked", "cmd", "stream", "wait"}
kidAlive(k) == kid[k] = "forked" \/ kidBound(k)

\* A client closes its copy of master_clnt_sd and keeps that of
\* master_srv_sd: the name servers wait for outlives a killed master for as
\* long as one of its clients lives.
ownMaster == masterUp \/ \E k \in Peer : k[1] = run /\ clntAlive(k)
orphanMaster == \E k \in Peer : k[1] # run /\ clntAlive(k)

\* srv_to_master: wait for the name, then send to one of its sockets.  What
\* reaches the socket of a master that is gone is never read.
serverTells(msg) ==
  \/ /\ ownMaster
     /\ msrv' = Append(msrv, msg)
  \/ /\ orphanMaster
     /\ UNCHANGED msrv

\* master_to_srv, master_to_client: multicast to the sockets bound now.
toServers(c) ==
  /\ sq' = IF srvBound THEN Append(sq, c) ELSE sq
  /\ kq' = [k \in Peer |-> IF kidBound(k) THEN Append(kq[k], c) ELSE kq[k]]
toClients(c) ==
  cq' = [k \in Peer |-> IF clntBound(k) THEN Append(cq[k], c) ELSE cq[k]]

-----------------------------------------------------------------------------
(***************************************************************************)
(* The master.                                                             *)
(***************************************************************************)
latency == test = "latency"
msgcnt == IF latency THEN latency_transf \div iter ELSE thruput_transf \div 2 ^ (iter - 1)

\* How many answers a round waits for.
parties_One == 1  \* Mutant: throughput rounds wait like latency rounds.
parties == IF latency THEN 1 ELSE clients

\* Start a master: parse the options, bind both sockets.
MasterStart ==
  /\ ~ masterUp /\ run < MaxRuns
  /\ run' = run + 1
  /\ mpc' = "find"
  /\ test' = "latency" /\ iter' = 1 /\ clients' = 0 /\ left' = 0
  /\ msrv' = <<>> /\ mclnt' = <<>>
  /\ UNCHANGED <<svars, kvars, cvars, pipe, echoes>>

\* The server's control name is up: send RESTART, then sleep.
MasterRestart ==
  /\ mpc = "find"
  /\ srvBound \/ \E k \in Peer : kidBound(k)
  /\ toServers(order("RESTART"))
  /\ mpc' = "nap"
  /\ UNCHANGED <<run, test, iter, clients, left, msrv, mclnt, srv, srv_cnt, lstn, backlog,
                 kid, kjob, rcvd, cvars, pipe, echoes>>

\* Nobody on the server's side has anything left to do.
serverIdle ==
  /\ \A k \in Peer : kid[k] \in {"none", "reaped"} \/ (kid[k] = "cmd" /\ kq[k] = <<>>)
  /\ (srv = "cmd" /\ sq = <<>>) \/ srv = "dead" \/ (srv = "loop" /\ backlog = <<>>)

\* After the sleep: tell the server the connection type.
MasterConnType ==
  /\ mpc = "nap"
  /\ NapsSuffice => serverIdle
  /\ toServers(order(conn_typ))
  /\ mpc' = "lstn"
  /\ UNCHANGED <<run, test, iter, clients, left, msrv, mclnt, srv, srv_cnt, lstn, backlog,
                 kid, kjob, rcvd, cvars, pipe, echoes>>

\* wait_for_name(SRV_LSTN_NAME).
MasterListener ==
  /\ mpc = "lstn"
  /\ lstn # "none"
  /\ mpc' = "info"
  /\ UNCHANGED <<run, test, iter, clients, left, msrv, mclnt, svars, kvars, cvars, pipe, echoes>>

\* Where the master goes when a test, tt, is to be started: the code skips a
\* test of no messages, the throughput test first adds the missing clients.
begin(tt) ==
  /\ iter' = 1
  /\ IF tt = "latency" /\ latency_transf > 0
     THEN test' = "latency" /\ mpc' = "fork"
     ELSE /\ test' = "throughput"
          /\ mpc' = IF thruput_transf = 0 THEN "term" ELSE IF clients < req_clients THEN "fork" ELSE "nap2"

\* master_from_srv takes whatever message comes first for the server's ack.
MasterInfo ==
  /\ mpc = "info"
  /\ msrv # <<>>
  /\ msrv' = Tail(msrv)
  /\ begin("latency")
  /\ UNCHANGED <<run, clients, left, mclnt, svars, kvars, cvars, pipe, echoes>>

\* client_create.
MasterFork ==
  /\ mpc = "fork"
  /\ clients' = clients + 1
  /\ cl' = [cl EXCEPT ![<<run, clients + 1>>] = "born"]
  /\ mpc' = "ready"
  /\ UNCHANGED <<run, test, iter, left, msrv, mclnt, svars, kvars, cq, cjob, sent, pipe, echoes>>

MasterReady ==
  /\ mpc = "ready"
  /\ mclnt # <<>>
  /\ mclnt' = Tail(mclnt)
  /\ mpc' = IF ~ latency /\ clients < req_clients THEN "fork" ELSE "nap2"
  /\ UNCHANGED <<run, test, iter, clients, left, msrv, svars, kvars, cvars, pipe, echoes>>

\* sleep(1) or sleep(2), "let console printfs flush before continuing".
MasterNap ==
  /\ mpc = "nap2"
  /\ NapsSuffice => serverIdle
  /\ mpc' = "arm"
  /\ UNCHANGED <<run, test, iter, clients, left, msrv, mclnt, svars, kvars, cvars, pipe, echoes>>

\* Tell the servers what to expect.
MasterArm ==
  /\ mpc = "arm"
  /\ toServers([cmd |-> "RCV_MSG_LEN", msgcnt |-> msgcnt, echo |-> latency])
  /\ mpc' = "acks"
  /\ left' = parties
  /\ UNCHANGED <<run, test, iter, clients, msrv, mclnt, srv, srv_cnt, lstn, backlog,
                 kid, kjob, rcvd, cvars, pipe, echoes>>

\* Mutant: the loop over the acknowledgements stops one short.
MasterAck_OneShort ==
  /\ mpc = "acks"
  /\ msrv # <<>>
  /\ msrv' = Tail(msrv)
  /\ left' = left - 1
  /\ mpc' = IF left <= 2 THEN "exec" ELSE "acks"
  /\ UNCHANGED <<run, test, iter, clients, mclnt, svars, kvars, cvars, pipe, echoes>>

MasterAck ==
  /\ mpc = "acks"
  /\ msrv # <<>>
  /\ msrv' = Tail(msrv)
  /\ left' = left - 1
  /\ mpc' = IF left = 1 THEN "exec" ELSE "acks"
  /\ UNCHANGED <<run, test, iter, clients, mclnt, svars, kvars, cvars, pipe, echoes>>

MasterExec ==
  /\ mpc = "exec"
  /\ toClients([cmd |-> "CLNT_EXEC", msgcnt |-> msgcnt, echo |-> latency])
  /\ mpc' = "finC"
  /\ left' = parties
  /\ UNCHANGED <<run, test, iter, clients, msrv, mclnt, svars, kvars, cl, cjob, sent, pipe, echoes>>

\* Wait until all clients and servers are finished: one of each in turn.
MasterClientDone ==
  /\ mpc = "finC"
  /\ mclnt # <<>>
  /\ mclnt' = Tail(mclnt)
  /\ mpc' = "finS"
  /\ UNCHANGED <<run, test, iter, clients, left, msrv, svars, kvars, cvars, pipe, echoes>>

\* Mutant: one round too many.
endRound_OneMore ==
  IF latency /\ msgcnt = 0 THEN mpc' = "dead" /\ UNCHANGED <<test, iter>>
  ELSE IF iter <= Rounds THEN mpc' = "arm" /\ iter' = iter + 1 /\ UNCHANGED test
  ELSE IF latency THEN begin("throughput")
  ELSE mpc' = "term" /\ UNCHANGED <<test, iter>>

\* The last answer ends the round.  The latency of a message is the elapsed
\* time divided by msgcnt: a round of no messages kills the master.
endRound ==
  IF latency /\ msgcnt = 0 THEN mpc' = "dead" /\ UNCHANGED <<test, iter>>
  ELSE IF iter < Rounds THEN mpc' = "arm" /\ iter' = iter + 1 /\ UNCHANGED test
  ELSE IF latency THEN begin("throughput")
  ELSE mpc' = "term" /\ UNCHANGED <<test, iter>>

MasterServerDone ==
  /\ mpc = "finS"
  /\ msrv # <<>>
  /\ msrv' = Tail(msrv)
  /\ left' = left - 1
  /\ IF left = 1 THEN endRound ELSE mpc' = "finC" /\ UNCHANGED <<test, iter>>
  /\ UNCHANGED <<run, clients, mclnt, svars, kvars, cvars, pipe, echoes>>

MasterTerm ==
  /\ mpc = "term"
  /\ toClients(order("CLNT_TERM"))
  /\ left' = clients
  /\ mpc' = IF clients = 0 THEN "done" ELSE "reap"
  /\ UNCHANGED <<run, test, iter, clients, msrv, mclnt, svars, kvars, cl, cjob, sent, pipe, echoes>>

MasterReap(k) ==
  /\ mpc = "reap"
  /\ k[1] = run /\ cl[k] = "gone"
  /\ cl' = [cl EXCEPT ![k] = "reaped"]
  /\ left' = left - 1
  /\ mpc' = IF left = 1 THEN "done" ELSE "reap"
  /\ UNCHANGED <<run, test, iter, clients, msrv, mclnt, svars, kvars, cq, cjob, sent, pipe, echoes>>

\* wait_for_name, wait_for_msg and the final alarm give up after MAX_DELAY.
masterWaits ==
  \/ mpc = "find" /\ ~ srvBound /\ \A k \in Peer : ~ kidBound(k)
  \/ mpc = "lstn" /\ lstn = "none"
  \/ mpc \in {"info", "acks", "finS"} /\ msrv = <<>>
  \/ mpc \in {"ready", "finC"} /\ mclnt = <<>>
  \/ mpc = "reap" /\ \A k \in Peer : k[1] = run => cl[k] # "gone"
MasterDies ==
  /\ ("timeout" \in Faults /\ masterWaits) \/ ("kill" \in Faults /\ masterUp)
  /\ mpc' = "dead"
  /\ UNCHANGED <<run, test, iter, clients, left, msrv, mclnt, svars, kvars, cvars, pipe, echoes>>

-----------------------------------------------------------------------------
(***************************************************************************)
(* A client.                                                               *)
(***************************************************************************)

\* The new process binds its control socket.
ClientBind(k) ==
  /\ cl[k] = "born"
  /\ cl' = [cl EXCEPT ![k] = "dial"]
  /\ UNCHANGED <<mvars, msrv, mclnt, svars, kvars, cq, cjob, sent, pipe, echoes>>

\* connect: queued on the listening socket, or refused and the client dies.
ClientConnect(k) ==
  /\ cl[k] = "dial"
  /\ \/ /\ lstn = "listen" \/ (lstn = "bound" /\ "queue" \in EarlyConnect)
        /\ cl' = [cl EXCEPT ![k] = "conn"]
        /\ backlog' = Append(backlog, k)
     \/ /\ lstn = "none" \/ (lstn = "bound" /\ "refuse" \in EarlyConnect)
        /\ cl' = [cl EXCEPT ![k] = "gone"]
        /\ UNCHANGED backlog
  /\ UNCHANGED <<mvars, msrv, mclnt, srv, sq, srv_cnt, lstn, kvars, cq, cjob, sent, pipe, echoes>>

\* client_to_master fails when no master has the name.
tellMaster(k, msg, next) ==
  IF masterUp
  THEN mclnt' = Append(mclnt, msg) /\ cl' = [cl EXCEPT ![k] = next]
  ELSE cl' = [cl EXCEPT ![k] = "gone"] /\ UNCHANGED mclnt

ClientReady(k) ==
  /\ cl[k] = "linked"
  /\ tellMaster(k, "CLNT_READY", "cmd")
  /\ UNCHANGED <<mvars, msrv, svars, kvars, cq, cjob, sent, pipe, echoes>>

ClientCommand(k) ==
  /\ cl[k] = "cmd"
  /\ cq[k] # <<>>
  /\ cq' = [cq EXCEPT ![k] = Tail(@)]
  /\ cjob' = [cjob EXCEPT ![k] = Head(cq[k])]
  /\ sent' = [sent EXCEPT ![k] = 0]
  /\ cl' = [cl EXCEPT ![k] = IF Head(cq[k]).cmd = "CLNT_TERM" THEN "gone" ELSE "stream"]
  /\ UNCHANGED <<mvars, msrv, mclnt, svars, kvars, pipe, echoes>>

\* stream_messages: send, and wait for the echo if bouncing.  A send on a
\* connection the server's child has closed kills the client.
ClientSend(k) ==
  /\ cl[k] = "stream"
  /\ sent[k] < cjob[k].msgcnt
  /\ IF kidAlive(k)
     THEN /\ sent' = [sent EXCEPT ![k] = @ + 1]
          /\ pipe' = [pipe EXCEPT ![k] = @ + 1]
          /\ cl' = [cl EXCEPT ![k] = IF cjob[k].echo THEN "wait" ELSE "stream"]
     ELSE cl' = [cl EXCEPT ![k] = "gone"] /\ UNCHANGED <<sent, pipe>>
  /\ UNCHANGED <<mvars, msrv, mclnt, svars, kvars, cq, cjob, echoes>>

ClientEcho(k) ==
  /\ cl[k] = "wait"
  /\ \/ /\ echoes[k] > 0
        /\ echoes' = [echoes EXCEPT ![k] = @ - 1]
        /\ cl' = [cl EXCEPT ![k] = "stream"]
     \/ /\ echoes[k] = 0 /\ ~ kidAlive(k)
        /\ cl' = [cl EXCEPT ![k] = "gone"]
        /\ UNCHANGED echoes
  /\ UNCHANGED <<mvars, msrv, mclnt, svars, kvars, cq, cjob, sent, pipe>>

ClientFinish(k) ==
  /\ cl[k] = "stream"
  /\ sent[k] >= cjob[k].msgcnt
  /\ tellMaster(k, "CLNT_FINISHED", "cmd")
  /\ UNCHANGED <<mvars, msrv, svars, kvars, cq, cjob, sent, pipe, echoes>>

ClientTimeout(k) ==
  /\ "timeout" \in Faults
  /\ (cl[k] = "cmd" /\ cq[k] = <<>>) \/ (cl[k] = "wait" /\ echoes[k] = 0)
  /\ cl' = [cl EXCEPT ![k] = "gone"]
  /\ UNCHANGED <<mvars, msrv, mclnt, svars, kvars, cq, cjob, sent, pipe, echoes>>

-----------------------------------------------------------------------------
(***************************************************************************)
(* The server process.                                                     *)
(***************************************************************************)

\* reset: a fresh control socket.
ServerReset ==
  /\ srv = "reset"
  /\ srv' = "cmd" /\ sq' = <<>>
  /\ UNCHANGED <<mvars, msrv, mclnt, srv_cnt, lstn, backlog, kvars, cvars, pipe, echoes>>

\* The connection type opens a listening socket, which has a TIPC name only
\* if its type is TIPC; any other command starts over.
ServerCommand ==
  /\ srv = "cmd"
  /\ sq # <<>>
  /\ LET cmd == Head(sq).cmd IN
     /\ srv' = IF cmd \in {"TIPC_CONN", "TCP_CONN"} THEN "info" ELSE "reset"
     /\ lstn' = IF cmd = "TIPC_CONN" THEN "bound" ELSE "none"
     /\ sq' = IF cmd \in {"TIPC_CONN", "TCP_CONN"} THEN Tail(sq) ELSE <<>>
  /\ UNCHANGED <<mvars, msrv, mclnt, srv_cnt, backlog, kvars, cvars, pipe, echoes>>

\* srv_to_master(SRV_INFO), once the master's name is up; close the control
\* socket.
ServerInfo ==
  /\ srv = "info"
  /\ serverTells("SRV_INFO")
  /\ srv' = "listen" /\ sq' = <<>>
  /\ UNCHANGED <<mvars, mclnt, srv_cnt, lstn, backlog, kvars, cvars, pipe, echoes>>

ServerListen ==
  /\ srv = "listen"
  /\ srv' = "loop"
  /\ lstn' = IF lstn = "bound" THEN "listen" ELSE lstn
  /\ UNCHANGED <<mvars, msrv, mclnt, sq, srv_cnt, backlog, kvars, cvars, pipe, echoes>>

\* accept completes the client's connect; fork a child.
ServerAccept ==
  /\ srv = "loop"
  /\ backlog # <<>>
  /\ LET k == Head(backlog) IN
     /\ kid' = [kid EXCEPT ![k] = "forked"]
     /\ cl' = [cl EXCEPT ![k] = "linked"]
  /\ backlog' = Tail(backlog)
  /\ srv_cnt' = srv_cnt + 1
  /\ UNCHANGED <<mvars, msrv, mclnt, srv, sq, lstn, kq, kjob, rcvd, cq, cjob, sent, pipe, echoes>>

\* Close the listening socket: requests still queued are refused.
closeListener ==
  /\ lstn' = "none"
  /\ backlog' = <<>>
  /\ cl' = [k \in Peer |-> IF cl[k] = "conn" THEN "gone" ELSE cl[k]]

\* Mutant: the first child that exits resets the server.
ServerReap_First(k) ==
  /\ srv = "loop"
  /\ kid[k] = "gone"
  /\ kid' = [kid EXCEPT ![k] = "reaped"]
  /\ srv_cnt' = srv_cnt - 1
  /\ srv' = "reset" /\ closeListener
  /\ UNCHANGED <<mvars, msrv, mclnt, sq, kq, kjob, rcvd, cq, cjob, sent, pipe, echoes>>

\* waitpid: when the last child is gone the server starts over.
ServerReap(k) ==
  /\ srv = "loop"
  /\ kid[k] = "gone"
  /\ kid' = [kid EXCEPT ![k] = "reaped"]
  /\ srv_cnt' = srv_cnt - 1
  /\ IF srv_cnt = 1
     THEN srv' = "reset" /\ closeListener
     ELSE UNCHANGED <<srv, lstn, backlog, cl>>
  /\ UNCHANGED <<mvars, msrv, mclnt, sq, kq, kjob, rcvd, cq, cjob, sent, pipe, echoes>>

\* The process exits and its sockets close; its children live on.
ServerTimeout ==
  /\ "timeout" \in Faults
  /\ (srv = "cmd" /\ sq = <<>>) \/ (srv = "info" /\ ~ ownMaster /\ ~ orphanMaster)
  /\ srv' = "dead" /\ sq' = <<>>
  /\ closeListener
  /\ UNCHANGED <<mvars, msrv, mclnt, srv_cnt, kvars, cq, cjob, sent, pipe, echoes>>

-----------------------------------------------------------------------------
(***************************************************************************)
(* A child of the server: echo_messages.                                   *)
(***************************************************************************)
KidBind(k) ==
  /\ kid[k] = "forked"
  /\ kid' = [kid EXCEPT ![k] = "cmd"]
  /\ UNCHANGED <<mvars, msrv, mclnt, svars, kq, kjob, rcvd, cvars, pipe, echoes>>

KidCommand(k) ==
  /\ kid[k] = "cmd"
  /\ kq[k] # <<>>
  /\ kq' = [kq EXCEPT ![k] = Tail(@)]
  /\ kjob' = [kjob EXCEPT ![k] = Head(kq[k])]
  /\ kid' = [kid EXCEPT ![k] = IF Head(kq[k]).cmd = "RCV_MSG_LEN" THEN "ack" ELSE "gone"]
  /\ UNCHANGED <<mvars, msrv, mclnt, svars, rcvd, cvars, pipe, echoes>>

KidAck(k) ==
  /\ kid[k] = "ack"
  /\ serverTells("SRV_MSGLEN_ACK")
  /\ kid' = [kid EXCEPT ![k] = "echo"]
  /\ UNCHANGED <<mvars, mclnt, svars, kq, kjob, rcvd, cvars, pipe, echoes>>

\* Receive a message, and echo it if told so.  A send to a client that is
\* gone kills the child.
KidReceive(k) ==
  /\ kid[k] = "echo"
  /\ rcvd[k] < kjob[k].msgcnt
  /\ pipe[k] > 0
  /\ pipe' = [pipe EXCEPT ![k] = @ - 1]
  /\ rcvd' = [rcvd EXCEPT ![k] = @ + 1]
  /\ echoes' = [echoes EXCEPT ![k] = IF kjob[k].echo THEN @ + 1 ELSE @]
  /\ kid' = [kid EXCEPT ![k] = IF kjob[k].echo /\ ~ clntAlive(k) THEN "gone" ELSE "echo"]
  /\ UNCHANGED <<mvars, msrv, mclnt, svars, kq, kjob, cvars>>

\* Mutant: the counter of received messages is not cleared for the next round.
KidFinish_KeepsCount(k) ==
  /\ kid[k] = "echo"
  /\ rcvd[k] >= kjob[k].msgcnt
  /\ serverTells("SRV_FINISHED")
  /\ kid' = [kid EXCEPT ![k] = "cmd"]
  /\ UNCHANGED <<mvars, mclnt, svars, kq, kjob, rcvd, cvars, pipe, echoes>>

KidFinish(k) ==
  /\ kid[k] = "echo"
  /\ rcvd[k] >= kjob[k].msgcnt
  /\ serverTells("SRV_FINISHED")
  /\ rcvd' = [rcvd EXCEPT ![k] = 0]
  /\ kid' = [kid EXCEPT ![k] = "cmd"]
  /\ UNCHANGED <<mvars, mclnt, svars, kq, kjob, cvars, pipe, echoes>>

kidReads(k) == kid[k] = "echo" /\ rcvd[k] < kjob[k].msgcnt /\ pipe[k] = 0

\* The client's end is closed and everything it sent is read.
KidCutOff(k) ==
  /\ kidReads(k) /\ ~ clntAlive(k)
  /\ kid' = [kid EXCEPT ![k] = "gone"]
  /\ UNCHANGED <<mvars, msrv, mclnt, svars, kq, kjob, rcvd, cvars, pipe, echoes>>

\* Nothing arrives, or no master is published, for MAX_DELAY.
KidTimeout(k) ==
  /\ "timeout" \in Faults
  /\ \/ kidReads(k)
     \/ kid[k] = "cmd" /\ kq[k] = <<>>
     \/ /\ kid[k] = "ack" \/ (kid[k] = "echo" /\ rcvd[k] >= kjob[k].msgcnt)
        /\ ~ ownMaster /\ ~ orphanMaster
  /\ kid' = [kid EXCEPT ![k] = "gone"]
  /\ UNCHANGED <<mvars, msrv, mclnt, svars, kq, kjob, rcvd, cvars, pipe, echoes>>

-----------------------------------------------------------------------------
MasterStep ==
  \/ MasterRestart \/ MasterConnType \/ MasterListener \/ MasterInfo
  \/ MasterFork \/ MasterReady \/ MasterNap \/ MasterArm \/ MasterAck
  \/ MasterExec \/ MasterClientDone \/ MasterServerDone \/ MasterTerm
  \/ \E k \in Peer : MasterReap(k)

ClientStep(k) ==
  \/ ClientBind(k) \/ ClientConnect(k) \/ ClientReady(k) \/ ClientCommand(k)
  \/ ClientSend(k) \/ ClientEcho(k) \/ ClientFinish(k)

ServerStep ==
  \/ ServerReset \/ ServerCommand \/ ServerInfo \/ ServerListen \/ ServerAccept
  \/ \E k \in Peer : ServerReap(k)

KidStep(k) ==
  \/ KidBind(k) \/ KidCommand(k) \/ KidAck(k) \/ KidReceive(k) \/ KidFinish(k) \/ KidCutOff(k)

Next ==
  \/ MasterStart \/ MasterStep \/ MasterDies
  \/ ServerStep \/ ServerTimeout
  \/ \E k \in Peer : ClientStep(k) \/ ClientTimeout(k) \/ KidStep(k) \/ KidTimeout(k)

Spec == Init /\ [][Next]_vars

\* Every process is scheduled; nobody has to start a master.
Fairness ==
  /\ WF_vars(MasterStep) /\ WF_vars(ServerStep)
  /\ \A k \in Peer : WF_vars(ClientStep(k)) /\ WF_vars(KidStep(k))

FairSpec == Spec /\ Fairness
=============================================================================
