---------------------------- MODULE BenchProofs ----------------------------
(***************************************************************************)
(* Proofs about the benchmark protocol of Benchmark: the server's count of *)
(* its children, and the separation of the master's rounds.                *)
(***************************************************************************)
EXTENDS BenchProps, FiniteSetTheorems, SequenceTheorems, TLAPS

\* What a sequence keeps and loses at its ends, as the queues of the model
\* use it.
LEMMA QueueEnds ==
  ASSUME NEW S, NEW s \in Seq(S)
  PROVE  /\ \A e \in S : /\ Append(s, e) \in Seq(S)
                         /\ Len(Append(s, e)) = Len(s) + 1
                         /\ \A i \in 1 .. Len(s) : Append(s, e)[i] = s[i]
                         /\ Append(s, e)[Len(s) + 1] = e
         /\ s # <<>> => /\ Tail(s) \in Seq(S) /\ Head(s) \in S /\ Head(s) = s[1]
                        /\ Len(s) >= 1 /\ Len(Tail(s)) = Len(s) - 1
                        /\ \A i \in 1 .. Len(Tail(s)) : Tail(s)[i] = s[i + 1]
         /\ Len(s) \in Nat
         /\ (s = <<>>) = (Len(s) = 0)
         /\ \A i \in 1 .. Len(s) : s[i] \in S
  OBVIOUS

\* The number of messages of a round is a number: there are at most six
\* message lengths, so that the shift by iter - 1 is one of six.
LEMMA MessageCount ==
  ASSUME iter \in 1 .. Rounds
  PROVE  msgcnt \in Nat
  <1>1. iter \in 1 .. 6 /\ latency_transf \in Nat /\ thruput_transf \in Nat
    BY OptionAssumption
  <1>2. latency_transf \div iter \in Nat
    BY <1>1
  <1>3. 2 ^ (iter - 1) \in Nat /\ 2 ^ (iter - 1) > 0
    <2>1. 2 ^ 0 = 1 /\ 2 ^ 1 = 2 /\ 2 ^ 2 = 4 /\ 2 ^ 3 = 8 /\ 2 ^ 4 = 16 /\ 2 ^ 5 = 32
      OBVIOUS
    <2>2. PICK n \in {0, 1, 2, 3, 4, 5} : n = iter - 1
      BY <1>1
    <2>3. 2 ^ n \in Nat /\ 2 ^ n > 0
      <3>1. n = 0 \/ n = 1 \/ n = 2 \/ n = 3 \/ n = 4 \/ n = 5
        OBVIOUS
      <3>2. CASE n = 0 BY <3>2, <2>1
      <3>3. CASE n = 1 BY <3>3, <2>1
      <3>4. CASE n = 2 BY <3>4, <2>1
      <3>5. CASE n = 3 BY <3>5, <2>1
      <3>6. CASE n = 4 BY <3>6, <2>1
      <3>7. CASE n = 5 BY <3>7, <2>1
      <3> QED BY <3>1, <3>2, <3>3, <3>4, <3>5, <3>6, <3>7
    <2> QED BY <2>2, <2>3
  <1>4. thruput_transf \div 2 ^ (iter - 1) \in Nat
    BY <1>1, <1>3
  <1> QED BY <1>2, <1>4 DEF msgcnt

\* The orders the master sends are orders.
LEMMA Orders ==
  ASSUME iter \in 1 .. Rounds
  PROVE  /\ order("RESTART") \in Order /\ order(conn_typ) \in Order
         /\ order("CLNT_TERM") \in Order
         /\ roundOrder \in Order /\ startOrder \in Order
  BY MessageCount, OptionAssumption
  DEF order, Order, roundOrder, startOrder, latency

\* A multicast leaves the queues well typed, and longer only where the socket
\* is bound.
LEMMA Multicast ==
  ASSUME TypeOK, NEW c \in Order
  PROVE  /\ toServers(c) => sq' \in Seq(Order) /\ kq' \in [Peer -> Seq(Order)]
         /\ toClients(c) => cq' \in [Peer -> Seq(Order)]
  <1>1. /\ Append(sq, c) \in Seq(Order)
        /\ \A k \in Peer : Append(kq[k], c) \in Seq(Order) /\ Append(cq[k], c) \in Seq(Order)
    BY QueueEnds DEF TypeOK
  <1> QED BY <1>1 DEF TypeOK, toServers, toClients

LEMMA Parties == ASSUME TypeOK PROVE parties \in 0 .. req_clients
  BY OptionAssumption DEF TypeOK, parties

LEMMA Told ==
  ASSUME TypeOK, NEW m \in {"SRV_INFO", "SRV_MSGLEN_ACK", "SRV_FINISHED"}, serverTells(m)
  PROVE  msrv' \in Seq({"SRV_INFO", "SRV_MSGLEN_ACK", "SRV_FINISHED"})
  <1>1. msrv \in Seq({"SRV_INFO", "SRV_MSGLEN_ACK", "SRV_FINISHED"})
    BY DEF TypeOK
  <1>2. Append(msrv, m) \in Seq({"SRV_INFO", "SRV_MSGLEN_ACK", "SRV_FINISHED"})
    BY <1>1, QueueEnds
  <1> QED BY <1>1, <1>2 DEF serverTells

\* A client's answer reaches the master, or the client ends.
LEMMA Answered ==
  ASSUME TypeOK, NEW k \in Peer, NEW m \in {"CLNT_READY", "CLNT_FINISHED"},
         tellMaster(k, m, "cmd")
  PROVE  /\ mclnt' \in Seq({"CLNT_READY", "CLNT_FINISHED"})
         /\ cl' = [cl EXCEPT ![k] = IF masterUp THEN "cmd" ELSE "gone"]
  <1>1. mclnt \in Seq({"CLNT_READY", "CLNT_FINISHED"})
    BY DEF TypeOK
  <1>2. Append(mclnt, m) \in Seq({"CLNT_READY", "CLNT_FINISHED"})
    BY <1>1, QueueEnds
  <1> QED BY <1>1, <1>2 DEF tellMaster


-----------------------------------------------------------------------------
(***************************************************************************)
(* Types.                                                                  *)
(***************************************************************************)

\* The master keeps to its types.
LEMMA MasterTypes ==
  ASSUME ServerInv, MasterStart \/ MasterStep \/ MasterDies
  PROVE  TypeOK'
  <1> USE OptionAssumption DEF ServerInv, masterOK, mvars, svars, kvars, cvars
  <1>1. /\ msrv # <<>> => Tail(msrv) \in Seq({"SRV_INFO", "SRV_MSGLEN_ACK", "SRV_FINISHED"})
        /\ mclnt # <<>> => Tail(mclnt) \in Seq({"CLNT_READY", "CLNT_FINISHED"})
    BY QueueEnds DEF TypeOK
  <1>2. iter \in 1 .. Rounds
    BY DEF TypeOK
  <1>a0. CASE MasterStart
    BY <1>1, <1>2, <1>a0 DEF TypeOK, MasterStart
  <1>a1. CASE MasterRestart
    BY <1>1, <1>2, <1>a1, Orders, Multicast DEF TypeOK, MasterRestart
  <1>a2. CASE MasterConnType
    BY <1>1, <1>2, <1>a2, Orders, Multicast DEF TypeOK, MasterConnType
  <1>a3. CASE MasterListener
    BY <1>1, <1>2, <1>a3 DEF TypeOK, MasterListener
  <1>a4. CASE MasterInfo
    BY <1>1, <1>2, <1>a4 DEF TypeOK, MasterInfo, begin
  <1>a5. CASE MasterFork
    <2>1. clients + 1 \in 0 .. req_clients
      BY <1>a5 DEF TypeOK, MasterFork
    <2>2. cl' \in [Peer -> {"none", "born", "dial", "conn", "linked", "cmd", "stream", "wait",
                            "gone", "reaped"}]
      BY <1>a5 DEF TypeOK, MasterFork
    <2> QED BY <1>a5, <2>1, <2>2 DEF TypeOK, MasterFork
  <1>a6. CASE MasterReady
    BY <1>1, <1>2, <1>a6 DEF TypeOK, MasterReady
  <1>a7. CASE MasterNap
    BY <1>1, <1>2, <1>a7 DEF TypeOK, MasterNap
  <1>a8. CASE MasterArm
    BY <1>1, <1>2, <1>a8, Orders, Multicast, Parties DEF TypeOK, MasterArm, roundOrder
  <1>a9. CASE MasterAck
    BY <1>1, <1>2, <1>a9 DEF TypeOK, MasterAck
  <1>a10. CASE MasterExec
    BY <1>1, <1>2, <1>a10, Orders, Multicast, Parties DEF TypeOK, MasterExec, startOrder
  <1>a11. CASE MasterClientDone
    BY <1>1, <1>2, <1>a11 DEF TypeOK, MasterClientDone
  <1>a12. CASE MasterServerDone
    <2>1. left' \in 0 .. req_clients
      BY <1>a12 DEF TypeOK, MasterServerDone
    <2>2. /\ mpc' \in {"dead", "arm", "fork", "nap2", "term", "finC"}
          /\ test' \in {"latency", "throughput"} /\ iter' \in 1 .. Rounds
      BY <1>a12 DEF TypeOK, MasterServerDone, endRound, begin
    <2> QED BY <1>1, <1>a12, <2>1, <2>2 DEF TypeOK, MasterServerDone
  <1>a13. CASE MasterTerm
    BY <1>1, <1>2, <1>a13, Orders, Multicast DEF TypeOK, MasterTerm
  <1>a14. CASE MasterDies
    BY <1>1, <1>2, <1>a14 DEF TypeOK, MasterDies
  <1>r. CASE \E k \in Peer : MasterReap(k)
    BY <1>r DEF TypeOK, MasterReap
  <1> QED BY <1>a0, <1>a1, <1>a2, <1>a3, <1>a4, <1>a5, <1>a6, <1>a7, <1>a8, <1>a9, <1>a10, <1>a11, <1>a12, <1>a13, <1>a14, <1>r DEF MasterStep

\* So do the clients and the children.
LEMMA PeerTypes ==
  ASSUME TypeOK, NEW k \in Peer,
         ClientStep(k) \/ ClientTimeout(k) \/ KidStep(k) \/ KidTimeout(k)
  PROVE  TypeOK'
  <1> USE DEF mvars, svars, kvars, cvars
  <1>a0. CASE ClientBind(k)
    BY <1>a0 DEF TypeOK, ClientBind
  <1>a1. CASE ClientConnect(k)
    <2>1. \E next \in {"conn", "gone"} : cl' = [cl EXCEPT ![k] = next]
      BY <1>a1 DEF ClientConnect
    <2>2. backlog' \in Seq(Peer)
      <3>1. backlog \in Seq(Peer) /\ Append(backlog, k) \in Seq(Peer)
        BY QueueEnds DEF TypeOK
      <3> QED BY <3>1, <1>a1 DEF ClientConnect
    <2> QED BY <1>a1, <2>1, <2>2 DEF TypeOK, ClientConnect
  <1>a2. CASE ClientReady(k)
    BY <1>a2, Answered DEF TypeOK, ClientReady
  <1>a3. CASE ClientCommand(k)
    BY <1>a3, QueueEnds DEF TypeOK, ClientCommand
  <1>a4. CASE ClientSend(k)
    <2>1. \E next \in {"wait", "stream", "gone"} : cl' = [cl EXCEPT ![k] = next]
      BY <1>a4 DEF ClientSend
    <2>2. sent' \in [Peer -> Nat] /\ pipe' \in [Peer -> Nat]
      <3>1. CASE kidAlive(k)
        <4>1. /\ sent' = [sent EXCEPT ![k] = sent[k] + 1]
              /\ pipe' = [pipe EXCEPT ![k] = pipe[k] + 1]
          BY <3>1, <1>a4 DEF ClientSend
        <4>2. sent[k] + 1 \in Nat /\ pipe[k] + 1 \in Nat
          BY DEF TypeOK
        <4> QED BY <4>1, <4>2 DEF TypeOK
      <3>2. CASE ~ kidAlive(k)
        BY <3>2, <1>a4 DEF TypeOK, ClientSend
      <3> QED BY <3>1, <3>2
    <2> QED BY <1>a4, <2>1, <2>2 DEF TypeOK, ClientSend
  <1>a5. CASE ClientEcho(k)
    <2>1. cl' = [cl EXCEPT ![k] = "stream"] \/ cl' = [cl EXCEPT ![k] = "gone"]
      BY <1>a5 DEF ClientEcho
    <2>2. echoes' \in [Peer -> Nat]
      <3>1. CASE echoes' = echoes BY <3>1 DEF TypeOK
      <3>2. CASE echoes[k] > 0 /\ echoes' = [echoes EXCEPT ![k] = @ - 1]
        <4>1. echoes[k] - 1 \in Nat BY <3>2 DEF TypeOK
        <4> QED BY <4>1, <3>2 DEF TypeOK
      <3> QED BY <3>1, <3>2, <1>a5 DEF ClientEcho
    <2> QED BY <1>a5, <2>1, <2>2 DEF TypeOK, ClientEcho
  <1>a6. CASE ClientFinish(k)
    BY <1>a6, Answered DEF TypeOK, ClientFinish
  <1>a7. CASE ClientTimeout(k)
    BY <1>a7 DEF TypeOK, ClientTimeout
  <1>a8. CASE KidBind(k)
    BY <1>a8 DEF TypeOK, KidBind
  <1>a9. CASE KidCommand(k)
    BY <1>a9, QueueEnds DEF TypeOK, KidCommand
  <1>a10. CASE KidAck(k)
    BY <1>a10, Told DEF TypeOK, KidAck
  <1>a11. CASE KidReceive(k)
    <2>1. pipe' \in [Peer -> Nat]
      <3>1. pipe[k] - 1 \in Nat BY <1>a11 DEF TypeOK, KidReceive
      <3> QED BY <3>1, <1>a11 DEF TypeOK, KidReceive
    <2>2. rcvd' \in [Peer -> Nat] /\ echoes' \in [Peer -> Nat]
      BY <1>a11 DEF TypeOK, KidReceive
    <2>3. \E next \in {"gone", "echo"} : kid' = [kid EXCEPT ![k] = next]
      BY <1>a11 DEF KidReceive
    <2> QED BY <1>a11, <2>1, <2>2, <2>3 DEF TypeOK, KidReceive
  <1>a12. CASE KidFinish(k)
    BY <1>a12, Told DEF TypeOK, KidFinish
  <1>a13. CASE KidCutOff(k)
    BY <1>a13 DEF TypeOK, KidCutOff
  <1>a14. CASE KidTimeout(k)
    BY <1>a14 DEF TypeOK, KidTimeout
  <1> QED BY <1>a0, <1>a1, <1>a2, <1>a3, <1>a4, <1>a5, <1>a6, <1>a7, <1>a8, <1>a9, <1>a10, <1>a11, <1>a12, <1>a13, <1>a14 DEF ClientStep, KidStep

\* And the server, whose counter does not fall below zero.
LEMMA ServerTypes ==
  ASSUME TypeOK, ServerStep \/ ServerTimeout,
         \A k \in Peer : kid[k] = "gone" => srv_cnt >= 1
  PROVE  TypeOK'
  <1> USE DEF mvars, svars, kvars, cvars
  <1>a0. CASE ServerReset
    BY <1>a0 DEF TypeOK, ServerReset
  <1>a1. CASE ServerCommand
    BY <1>a1, QueueEnds DEF TypeOK, ServerCommand
  <1>a2. CASE ServerInfo
    BY <1>a2, Told DEF TypeOK, ServerInfo
  <1>a3. CASE ServerListen
    BY <1>a3 DEF TypeOK, ServerListen
  <1>a4. CASE ServerAccept
    <2>1. Head(backlog) \in Peer /\ Tail(backlog) \in Seq(Peer)
      BY <1>a4, QueueEnds DEF TypeOK, ServerAccept
    <2>2. /\ kid' = [kid EXCEPT ![Head(backlog)] = "forked"]
          /\ cl' = [cl EXCEPT ![Head(backlog)] = "linked"]
      BY <1>a4 DEF ServerAccept
    <2>3. /\ kid' \in [Peer -> {"none", "forked", "cmd", "ack", "echo", "gone", "reaped"}]
          /\ cl' \in [Peer -> {"none", "born", "dial", "conn", "linked", "cmd", "stream", "wait",
                               "gone", "reaped"}]
      BY <2>2 DEF TypeOK
    <2>4. backlog' \in Seq(Peer) /\ srv_cnt' \in Nat
      BY <1>a4, <2>1 DEF TypeOK, ServerAccept
    <2>5. UNCHANGED <<mvars, msrv, mclnt, srv, sq, lstn, kq, kjob, rcvd, cq, cjob, sent,
                      pipe, echoes>>
      BY <1>a4 DEF ServerAccept
    <2> QED BY <2>3, <2>4, <2>5 DEF TypeOK
  <1>a5. CASE ServerTimeout
    BY <1>a5 DEF TypeOK, ServerTimeout, closeListener
  <1>r. CASE \E k \in Peer : ServerReap(k)
    <2>1. PICK k \in Peer : ServerReap(k)
      BY <1>r
    <2>2. srv_cnt - 1 \in Nat
      BY <2>1 DEF ServerReap, TypeOK
    <2>3. /\ srv' \in {"reset", "loop"} /\ lstn' \in {"none", "bound", "listen"}
          /\ backlog' \in Seq(Peer)
      <3>1. CASE srv_cnt = 1
        BY <3>1, <2>1 DEF ServerReap, closeListener
      <3>2. CASE srv_cnt # 1
        BY <3>2, <2>1 DEF ServerReap, TypeOK
      <3> QED BY <3>1, <3>2
    <2>4. cl' \in [Peer -> {"none", "born", "dial", "conn", "linked", "cmd", "stream", "wait",
                            "gone", "reaped"}]
      BY <2>1 DEF ServerReap, TypeOK, closeListener
    <2> QED BY <2>1, <2>2, <2>3, <2>4 DEF TypeOK, ServerReap
  <1> QED BY <1>a0, <1>a1, <1>a2, <1>a3, <1>a4, <1>a5, <1>r DEF ServerStep

-----------------------------------------------------------------------------
(***************************************************************************)
(* The master's counters.                                                  *)
(***************************************************************************)

\* Only the master moves the master.
LEMMA OthersLeaveMaster ==
  ASSUME ServerStep \/ ServerTimeout \/ \E k \in Peer :
           ClientStep(k) \/ ClientTimeout(k) \/ KidStep(k) \/ KidTimeout(k)
  PROVE  UNCHANGED mvars
  BY DEF ServerStep, ServerReset, ServerCommand, ServerInfo, ServerListen, ServerAccept,
         ServerReap, ServerTimeout, ClientStep, ClientBind, ClientConnect, ClientReady,
         ClientCommand, ClientSend, ClientEcho, ClientFinish, ClientTimeout,
         KidStep, KidBind, KidCommand, KidAck, KidReceive, KidFinish, KidCutOff, KidTimeout

LEMMA MasterCounts ==
  ASSUME ServerInv, MasterStart \/ MasterStep \/ MasterDies
  PROVE  masterOK'
  <1> USE OptionAssumption DEF ServerInv, masterOK, TypeOK, parties, latency
  <1>a0. CASE MasterStart
    BY <1>a0 DEF MasterStart
  <1>a1. CASE MasterRestart
    BY <1>a1 DEF MasterRestart
  <1>a2. CASE MasterConnType
    BY <1>a2 DEF MasterConnType
  <1>a3. CASE MasterListener
    BY <1>a3 DEF MasterListener
  <1>a4. CASE MasterInfo
    BY <1>a4 DEF MasterInfo, begin
  <1>a5. CASE MasterFork
    BY <1>a5 DEF MasterFork
  <1>a6. CASE MasterReady
    BY <1>a6 DEF MasterReady
  <1>a7. CASE MasterNap
    BY <1>a7 DEF MasterNap
  <1>a8. CASE MasterArm
    BY <1>a8 DEF MasterArm
  <1>a9. CASE MasterAck
    BY <1>a9 DEF MasterAck
  <1>a10. CASE MasterExec
    BY <1>a10 DEF MasterExec
  <1>a11. CASE MasterClientDone
    BY <1>a11 DEF MasterClientDone
  <1>a12. CASE MasterServerDone
    BY <1>a12 DEF MasterServerDone, endRound, begin
  <1>a13. CASE MasterTerm
    BY <1>a13 DEF MasterTerm
  <1>a14. CASE MasterDies
    BY <1>a14 DEF MasterDies, masterUp, masterWaits
  <1>r. CASE \E k \in Peer : MasterReap(k)
    BY <1>r DEF MasterReap
  <1> QED BY <1>a0, <1>a1, <1>a2, <1>a3, <1>a4, <1>a5, <1>a6, <1>a7, <1>a8, <1>a9, <1>a10, <1>a11, <1>a12, <1>a13, <1>a14, <1>r DEF MasterStep

-----------------------------------------------------------------------------
(***************************************************************************)
(* Connections that are not in use yet.                                    *)
(***************************************************************************)

\* A step that touches one connection, which is in use, leaves the others.
LEMMA FreshOthers ==
  ASSUME ServerInv, UNCHANGED <<run, clients>>, NEW p \in Peer,
         cl[p] # "none" \/ kid[p] # "none",
         \A k \in Peer : k # p =>
           /\ cl'[k] = cl[k] /\ cq'[k] = cq[k] /\ kid'[k] = kid[k] /\ kq'[k] = kq[k]
           /\ rcvd'[k] = rcvd[k] /\ pipe'[k] = pipe[k] /\ echoes'[k] = echoes[k]
  PROVE  \A k \in Peer : ahead(k)' => fresh(k)'
  BY DEF ServerInv, ahead, fresh

\* A step of one client or child touches its own connection, which is in use.
LEMMA PeerTouches ==
  ASSUME TypeOK, NEW p \in Peer,
         ClientStep(p) \/ ClientTimeout(p) \/ KidStep(p) \/ KidTimeout(p)
  PROVE  /\ cl[p] # "none" \/ kid[p] # "none"
         /\ \A k \in Peer : k # p =>
              /\ cl'[k] = cl[k] /\ cq'[k] = cq[k] /\ cjob'[k] = cjob[k] /\ sent'[k] = sent[k]
              /\ kid'[k] = kid[k] /\ kq'[k] = kq[k] /\ kjob'[k] = kjob[k] /\ rcvd'[k] = rcvd[k]
              /\ pipe'[k] = pipe[k] /\ echoes'[k] = echoes[k]
  <1> USE DEF TypeOK, mvars, svars, kvars, cvars
  <1>a0. CASE ClientBind(p)
    BY <1>a0 DEF ClientBind
  <1>a1. CASE ClientConnect(p)
    BY <1>a1 DEF ClientConnect
  <1>a2. CASE ClientReady(p)
    BY <1>a2 DEF ClientReady, tellMaster
  <1>a3. CASE ClientCommand(p)
    BY <1>a3 DEF ClientCommand
  <1>a4. CASE ClientSend(p)
    BY <1>a4 DEF ClientSend
  <1>a5. CASE ClientEcho(p)
    BY <1>a5 DEF ClientEcho
  <1>a6. CASE ClientFinish(p)
    BY <1>a6 DEF ClientFinish, tellMaster
  <1>a7. CASE ClientTimeout(p)
    BY <1>a7 DEF ClientTimeout
  <1>a8. CASE KidBind(p)
    BY <1>a8 DEF KidBind
  <1>a9. CASE KidCommand(p)
    BY <1>a9 DEF KidCommand
  <1>a10. CASE KidAck(p)
    BY <1>a10 DEF KidAck
  <1>a11. CASE KidReceive(p)
    BY <1>a11 DEF KidReceive
  <1>a12. CASE KidFinish(p)
    BY <1>a12 DEF KidFinish
  <1>a13. CASE KidCutOff(p)
    BY <1>a13 DEF KidCutOff, kidReads
  <1>a14. CASE KidTimeout(p)
    BY <1>a14 DEF KidTimeout, kidReads
  <1> QED BY <1>a0, <1>a1, <1>a2, <1>a3, <1>a4, <1>a5, <1>a6, <1>a7, <1>a8, <1>a9, <1>a10, <1>a11, <1>a12, <1>a13, <1>a14 DEF ClientStep, KidStep

LEMMA FreshMaster ==
  ASSUME ServerInv, MasterStart \/ MasterStep \/ MasterDies
  PROVE  \A k \in Peer : ahead(k)' => fresh(k)'
  <1> USE DEF ServerInv, ahead, fresh, TypeOK, mvars, svars, kvars, cvars, Peer
  <1>a0. CASE MasterStart
    BY <1>a0 DEF MasterStart
  <1>a1. CASE MasterRestart
    BY <1>a1 DEF MasterRestart, toServers, kidBound
  <1>a2. CASE MasterConnType
    BY <1>a2 DEF MasterConnType, toServers, kidBound
  <1>a3. CASE MasterListener
    BY <1>a3 DEF MasterListener
  <1>a4. CASE MasterInfo
    BY <1>a4 DEF MasterInfo
  <1>a5. CASE MasterFork
    BY <1>a5 DEF MasterFork
  <1>a6. CASE MasterReady
    BY <1>a6 DEF MasterReady
  <1>a7. CASE MasterNap
    BY <1>a7 DEF MasterNap
  <1>a8. CASE MasterArm
    BY <1>a8 DEF MasterArm, toServers, kidBound
  <1>a9. CASE MasterAck
    BY <1>a9 DEF MasterAck
  <1>a10. CASE MasterExec
    BY <1>a10 DEF MasterExec, toClients, clntBound
  <1>a11. CASE MasterClientDone
    BY <1>a11 DEF MasterClientDone
  <1>a12. CASE MasterServerDone
    BY <1>a12 DEF MasterServerDone
  <1>a13. CASE MasterTerm
    BY <1>a13 DEF MasterTerm, toClients, clntBound
  <1>a14. CASE MasterDies
    BY <1>a14 DEF MasterDies
  <1>r. CASE \E k \in Peer : MasterReap(k)
    <2>1. PICK p \in Peer : MasterReap(p)
      BY <1>r
    <2>2. cl' = [cl EXCEPT ![p] = "reaped"] /\ cl[p] = "gone"
      BY <2>1 DEF MasterReap
    <2>3. UNCHANGED <<run, clients, cq, kid, kq, rcvd, pipe, echoes>>
      BY <2>1 DEF MasterReap
    <2>4. \A k \in Peer : cl[k] = "none" => cl'[k] = "none"
      BY <2>2
    <2>5. SUFFICES ASSUME NEW k \in Peer, ahead(k)' PROVE fresh(k)'
      OBVIOUS
    <2>6. fresh(k)
      BY <2>3, <2>5
    <2> QED BY <2>3, <2>4, <2>6
  <1> QED BY <1>a0, <1>a1, <1>a2, <1>a3, <1>a4, <1>a5, <1>a6, <1>a7, <1>a8, <1>a9, <1>a10, <1>a11, <1>a12, <1>a13, <1>a14, <1>r DEF MasterStep

LEMMA FreshServer ==
  ASSUME ServerInv, ServerStep \/ ServerTimeout
  PROVE  \A k \in Peer : ahead(k)' => fresh(k)'
  <1> USE DEF ServerInv, mvars, svars, kvars, cvars
  <1>1. CASE ServerReset \/ ServerCommand \/ ServerInfo \/ ServerListen
    BY <1>1 DEF ServerReset, ServerCommand, ServerInfo, ServerListen, ahead, fresh
  <1>2. CASE ServerAccept
    <2>1. /\ Head(backlog) \in Peer /\ cl[Head(backlog)] = "conn"
      BY <1>2, QueueEnds DEF ServerAccept, TypeOK, backlogOK
    <2>2. PICK p \in Peer : p = Head(backlog)
      BY <2>1
    <2>3. /\ kid' = [kid EXCEPT ![p] = "forked"] /\ cl' = [cl EXCEPT ![p] = "linked"]
          /\ UNCHANGED <<run, clients, cq, kq, rcvd, pipe, echoes>>
      BY <1>2, <2>2 DEF ServerAccept
    <2> QED BY <2>1, <2>2, <2>3, FreshOthers DEF TypeOK
  <1>3. CASE \E k \in Peer : ServerReap(k)
    <2>1. PICK p \in Peer : ServerReap(p)
      BY <1>3
    <2>2. /\ kid[p] = "gone" /\ \A k \in Peer : k # p => kid'[k] = kid[k]
          /\ UNCHANGED <<run, clients, cq, kq, rcvd, pipe, echoes>>
      BY <2>1 DEF ServerReap, TypeOK
    <2>3. \A k \in Peer : cl[k] = "none" => cl'[k] = "none"
      BY <2>1 DEF ServerReap, closeListener, TypeOK
    <2> QED BY <2>2, <2>3 DEF ahead, fresh
  <1>4. CASE ServerTimeout
    BY <1>4 DEF ServerTimeout, closeListener, ahead, fresh, TypeOK
  <1> QED BY <1>1, <1>2, <1>3, <1>4 DEF ServerStep

-----------------------------------------------------------------------------
(***************************************************************************)
(* The backlog.                                                            *)
(***************************************************************************)

\* A step that neither queues nor takes a request nor moves a waiting client.
LEMMA BacklogKept ==
  ASSUME ServerInv, UNCHANGED backlog, \A k \in Peer : cl[k] = "conn" => cl'[k] = "conn"
  PROVE  backlogOK'
  BY QueueEnds DEF ServerInv, TypeOK, backlogOK

LEMMA BacklogConnect ==
  ASSUME ServerInv, NEW k \in Peer, ClientConnect(k)
  PROVE  backlogOK'
  <1> USE DEF ServerInv
  <1>1. CASE backlog' = backlog
    BY <1>1, BacklogKept DEF ClientConnect, TypeOK
  <1>2. CASE backlog' = Append(backlog, k) /\ cl' = [cl EXCEPT ![k] = "conn"]
    <2>1. /\ Len(backlog') = Len(backlog) + 1 /\ Len(backlog) \in Nat
          /\ \A i \in 1 .. Len(backlog) : backlog'[i] = backlog[i] /\ backlog[i] \in Peer
          /\ backlog'[Len(backlog) + 1] = k
      BY <1>2, QueueEnds DEF TypeOK
    <2>2. \A i \in 1 .. Len(backlog) : backlog[i] # k
      BY DEF backlogOK, ClientConnect
    <2>3. \A i \in 1 .. Len(backlog') : cl'[backlog'[i]] = "conn"
      <3>1. cl'[k] = "conn" /\ \A p \in Peer : p # k => cl'[p] = cl[p]
        BY <1>2 DEF TypeOK
      <3>2. \A i \in 1 .. Len(backlog) : cl'[backlog[i]] = "conn"
        BY <2>1, <2>2, <3>1 DEF backlogOK
      <3> QED BY <2>1, <3>1, <3>2
    <2>4. \A i, j \in 1 .. Len(backlog') : backlog'[i] = backlog'[j] => i = j
      BY <2>1, <2>2 DEF backlogOK
    <2> QED BY <2>3, <2>4 DEF backlogOK
  <1> QED BY <1>1, <1>2 DEF ClientConnect

\* Of the clients and children only a connecting client concerns the backlog.
LEMMA BacklogPeer ==
  ASSUME ServerInv, NEW k \in Peer,
         ClientStep(k) \/ ClientTimeout(k) \/ KidStep(k) \/ KidTimeout(k)
  PROVE  backlogOK'
  <1> USE DEF ServerInv
  <1>1. CASE ClientConnect(k)
    BY <1>1, BacklogConnect
  <1>2. CASE ~ ClientConnect(k)
    <2>1. UNCHANGED backlog
      BY <1>2 DEF svars, ClientStep, ClientBind, ClientReady, ClientCommand, ClientSend, ClientEcho,
        ClientFinish, ClientTimeout, KidStep, KidBind, KidCommand, KidAck, KidReceive, KidFinish,
        KidCutOff, KidTimeout
    <2>2. cl'[k] = cl[k] \/ cl[k] # "conn"
      BY <1>2 DEF cvars, ClientStep, ClientBind, ClientReady, ClientCommand, ClientSend, ClientEcho,
        ClientFinish, ClientTimeout, KidStep, KidBind, KidCommand, KidAck, KidReceive, KidFinish,
        KidCutOff, KidTimeout
    <2>3. \A p \in Peer : p # k => cl'[p] = cl[p]
      BY PeerTouches
    <2> QED BY <2>1, <2>2, <2>3, BacklogKept
  <1> QED BY <1>1, <1>2

LEMMA BacklogMaster ==
  ASSUME ServerInv, MasterStart \/ MasterStep \/ MasterDies
  PROVE  backlogOK'
  <1> USE DEF ServerInv
  <1>1. UNCHANGED backlog
    BY DEF svars, MasterStart, MasterStep, MasterDies, MasterRestart, MasterConnType, MasterListener,
      MasterInfo, MasterFork, MasterReady, MasterNap, MasterArm, MasterAck, MasterExec,
      MasterClientDone, MasterServerDone, MasterTerm, MasterReap
  <1>2. CASE MasterFork
    <2>1. <<run, clients + 1>> \in Peer => cl[<<run, clients + 1>>] = "none"
      BY DEF ahead, fresh, TypeOK
    <2> QED BY <1>1, <1>2, <2>1, BacklogKept DEF MasterFork, TypeOK
  <1>3. CASE \E k \in Peer : MasterReap(k)
    BY <1>1, <1>3, BacklogKept DEF MasterReap, TypeOK
  <1>4. CASE ~ MasterFork /\ ~ \E k \in Peer : MasterReap(k)
    <2>1. UNCHANGED cl
      BY <1>4 DEF cvars, MasterStart, MasterStep, MasterDies, MasterRestart, MasterConnType,
        MasterListener, MasterInfo, MasterReady, MasterNap, MasterArm, MasterAck, MasterExec,
        MasterClientDone, MasterServerDone, MasterTerm
    <2> QED BY <1>1, <2>1, BacklogKept
  <1> QED BY <1>2, <1>3, <1>4

LEMMA BacklogServer ==
  ASSUME ServerInv, ServerStep \/ ServerTimeout
  PROVE  backlogOK'
  <1> USE DEF ServerInv
  <1>1. CASE ServerReset \/ ServerCommand \/ ServerInfo \/ ServerListen
    BY <1>1, BacklogKept DEF ServerReset, ServerCommand, ServerInfo, ServerListen, cvars
  <1>2. CASE ServerAccept
    <2>1. /\ Head(backlog) = backlog[1] /\ Len(backlog) >= 1 /\ Len(backlog) \in Nat
          /\ Len(backlog') = Len(backlog) - 1
          /\ \A i \in 1 .. Len(backlog') : backlog'[i] = backlog[i + 1]
          /\ \A i \in 1 .. Len(backlog) : backlog[i] \in Peer
      BY <1>2, QueueEnds DEF ServerAccept, TypeOK
    <2>2. cl' = [cl EXCEPT ![backlog[1]] = "linked"]
      BY <1>2, <2>1 DEF ServerAccept
    <2>3. \A i \in 1 .. Len(backlog') : cl'[backlog'[i]] = "conn"
      <3>1. SUFFICES ASSUME NEW i \in 1 .. Len(backlog')
                     PROVE  cl'[backlog'[i]] = "conn"
        OBVIOUS
      <3>2. /\ i + 1 \in 1 .. Len(backlog) /\ 1 \in 1 .. Len(backlog)
            /\ i + 1 # 1 /\ backlog'[i] = backlog[i + 1]
        BY <2>1
      <3>3. cl[backlog[i + 1]] = "conn" /\ backlog[i + 1] # backlog[1]
        BY <3>2 DEF backlogOK
      <3> QED BY <2>1, <2>2, <3>2, <3>3 DEF TypeOK
    <2>4. \A i, j \in 1 .. Len(backlog') : backlog'[i] = backlog'[j] => i = j
      BY <2>1 DEF backlogOK
    <2> QED BY <2>3, <2>4 DEF backlogOK
  <1>3. CASE UNCHANGED <<backlog, cl>>
    BY <1>3, BacklogKept
  <1>4. CASE backlog' = <<>>
    BY <1>4 DEF backlogOK
  <1> QED BY <1>1, <1>2, <1>3, <1>4 DEF ServerStep, ServerReap, ServerTimeout, closeListener

-----------------------------------------------------------------------------
(***************************************************************************)
(* The server's children and their count.                                  *)
(***************************************************************************)
LEMMA PeersFinite == IsFiniteSet(Peer)
  <1>1. IsFiniteSet(1 .. MaxRuns) /\ IsFiniteSet(1 .. req_clients)
    BY FS_Interval, OptionAssumption
  <1> QED BY <1>1, FS_Product DEF Peer

LEMMA ChildrenFinite == IsFiniteSet(children) /\ IsFiniteSet(children')
  <1>1. children \subseteq Peer /\ children' \subseteq Peer
    BY DEF children
  <1> QED BY <1>1, PeersFinite, FS_Subset

\* Without an accept or a reap the children stay the same, and a connection
\* whose client has not been accepted has none.
LEMMA ChildrenKept ==
  ASSUME ServerInv, UNCHANGED srv_cnt,
         \A k \in Peer : (kid[k] \in {"none", "reaped"}) = (kid'[k] \in {"none", "reaped"}),
         \A k \in Peer : kid[k] = "none" => kid'[k] = "none",
         \A k \in Peer : cl'[k] \in {"none", "born", "dial", "conn"} => kid[k] = "none",
         srv' # "loop" => srv # "loop" \/ children = {}
  PROVE  childrenOK'
  <1>1. children' = children
    BY DEF children
  <1> QED BY <1>1 DEF childrenOK, ServerInv

LEMMA ChildrenMaster ==
  ASSUME ServerInv, MasterStart \/ MasterStep \/ MasterDies
  PROVE  childrenOK'
  <1> USE DEF ServerInv
  <1>1. UNCHANGED <<srv_cnt, srv, kid>>
    BY DEF svars, kvars, MasterStart, MasterStep, MasterDies, MasterRestart, MasterConnType,
      MasterListener, MasterInfo, MasterFork, MasterReady, MasterNap, MasterArm, MasterAck,
      MasterExec, MasterClientDone, MasterServerDone, MasterTerm, MasterReap
  <1>2. CASE MasterFork
    <2>1. <<run, clients + 1>> \in Peer => kid[<<run, clients + 1>>] = "none"
      BY DEF ahead, fresh, TypeOK
    <2>2. \A k \in Peer : k = <<run, clients + 1>> \/ cl'[k] = cl[k]
      BY <1>2 DEF MasterFork, TypeOK
    <2> QED BY <1>1, <2>1, <2>2, ChildrenKept DEF childrenOK
  <1>3. CASE \E k \in Peer : MasterReap(k)
    <2>1. \A k \in Peer : cl'[k] = cl[k] \/ cl'[k] = "reaped"
      BY <1>3 DEF MasterReap, TypeOK
    <2> QED BY <1>1, <2>1, ChildrenKept DEF childrenOK
  <1>4. CASE ~ MasterFork /\ ~ \E k \in Peer : MasterReap(k)
    <2>1. UNCHANGED cl
      BY <1>4 DEF cvars, MasterStart, MasterStep, MasterDies, MasterRestart, MasterConnType,
        MasterListener, MasterInfo, MasterReady, MasterNap, MasterArm, MasterAck, MasterExec,
        MasterClientDone, MasterServerDone, MasterTerm
    <2> QED BY <1>1, <2>1, ChildrenKept DEF childrenOK
  <1> QED BY <1>2, <1>3, <1>4

\* A client moves towards its connection only before it has a child, and a
\* child is a child until it is reaped.
LEMMA ChildrenPeer ==
  ASSUME ServerInv, NEW k \in Peer,
         ClientStep(k) \/ ClientTimeout(k) \/ KidStep(k) \/ KidTimeout(k)
  PROVE  childrenOK'
  <1> USE DEF ServerInv
  <1>1. UNCHANGED <<srv_cnt, srv>>
    BY DEF svars, ClientStep, ClientBind, ClientConnect, ClientReady, ClientCommand, ClientSend,
      ClientEcho, ClientFinish, ClientTimeout, KidStep, KidBind, KidCommand, KidAck, KidReceive,
      KidFinish, KidCutOff, KidTimeout
  <1>2. /\ (kid[k] \in {"none", "reaped"}) = (kid'[k] \in {"none", "reaped"})
        /\ kid[k] = "none" => kid'[k] = "none"
    <2>1. CASE ClientStep(k) \/ ClientTimeout(k)
      BY <2>1 DEF kvars, ClientStep, ClientBind, ClientConnect, ClientReady, ClientCommand,
        ClientSend, ClientEcho, ClientFinish, ClientTimeout
    <2>2. CASE KidStep(k) \/ KidTimeout(k)
      BY <2>2 DEF kvars, KidStep, KidBind, KidCommand, KidAck, KidReceive,
        KidFinish, KidCutOff, KidTimeout, kidReads, TypeOK
    <2> QED BY <2>1, <2>2
  <1>3. cl'[k] \in {"none", "born", "dial", "conn"} => cl[k] \in {"none", "born", "dial", "conn"}
    <2>1. CASE ClientStep(k) \/ ClientTimeout(k)
      BY <2>1 DEF cvars, ClientStep, ClientBind, ClientConnect, ClientReady, ClientCommand,
        ClientSend, ClientEcho, ClientFinish, ClientTimeout, tellMaster, TypeOK
    <2>2. CASE KidStep(k) \/ KidTimeout(k)
      BY <2>2 DEF cvars, KidStep, KidBind, KidCommand, KidAck, KidReceive,
        KidFinish, KidCutOff, KidTimeout
    <2> QED BY <2>1, <2>2
  <1>4. \A p \in Peer : p # k => cl'[p] = cl[p] /\ kid'[p] = kid[p]
    BY PeerTouches
  <1> QED BY <1>1, <1>2, <1>3, <1>4, ChildrenKept DEF childrenOK

\* accept adds a child and waitpid takes one away; the count follows.
LEMMA ChildrenServer ==
  ASSUME ServerInv, ServerStep \/ ServerTimeout
  PROVE  childrenOK'
  <1> USE DEF ServerInv
  <1>1. CASE ServerReset \/ ServerCommand \/ ServerInfo \/ ServerListen
    BY <1>1, ChildrenKept
    DEF ServerReset, ServerCommand, ServerInfo, ServerListen, cvars, kvars, childrenOK
  <1>2. CASE ServerAccept
    <2>1. Head(backlog) \in Peer /\ cl[Head(backlog)] = "conn"
      BY <1>2, QueueEnds DEF ServerAccept, TypeOK, backlogOK
    <2>2. PICK p \in Peer : p = Head(backlog)
      BY <2>1
    <2>3. /\ kid' = [kid EXCEPT ![p] = "forked"] /\ cl' = [cl EXCEPT ![p] = "linked"]
          /\ srv_cnt' = srv_cnt + 1 /\ srv' = "loop"
      BY <1>2, <2>2 DEF ServerAccept
    <2>4. p \notin children /\ children' = children \cup {p}
      BY <2>1, <2>2, <2>3 DEF childrenOK, children, TypeOK
    <2>5. Cardinality(children') = Cardinality(children) + 1
      BY <2>4, ChildrenFinite, FS_AddElement
    <2>6. \A k \in Peer : cl'[k] \in {"none", "born", "dial", "conn"} => kid'[k] = "none"
      BY <2>3 DEF childrenOK, TypeOK
    <2> QED BY <2>3, <2>5, <2>6 DEF childrenOK
  <1>3. CASE \E k \in Peer : ServerReap(k)
    <2>1. PICK p \in Peer : ServerReap(p)
      BY <1>3
    <2>2. /\ kid[p] = "gone" /\ kid' = [kid EXCEPT ![p] = "reaped"]
          /\ srv_cnt' = srv_cnt - 1 /\ srv = "loop"
          /\ srv' = "loop" \/ srv_cnt = 1
      BY <2>1 DEF ServerReap
    <2>3. p \in children /\ children' = children \ {p}
      BY <2>2 DEF children, TypeOK
    <2>4. Cardinality(children') = Cardinality(children) - 1
      BY <2>3, ChildrenFinite, FS_RemoveElement
    <2>5. srv_cnt = 1 => children' = {}
      BY <2>4, ChildrenFinite, FS_EmptySet DEF childrenOK
    <2>6. \A k \in Peer : cl'[k] = cl[k] \/ cl'[k] = "gone"
      BY <2>1 DEF ServerReap, closeListener, TypeOK
    <2>7. \A k \in Peer : cl'[k] \in {"none", "born", "dial", "conn"} => kid'[k] = "none"
      BY <2>2, <2>6 DEF childrenOK, TypeOK
    <2> QED BY <2>2, <2>4, <2>5, <2>7 DEF childrenOK
  <1>4. CASE ServerTimeout
    <2>1. /\ UNCHANGED <<kid, srv_cnt>> /\ srv # "loop"
          /\ \A k \in Peer : cl'[k] = cl[k] \/ cl'[k] = "gone"
      BY <1>4 DEF ServerTimeout, closeListener, kvars, TypeOK
    <2> QED BY <2>1, ChildrenKept DEF childrenOK
  <1> QED BY <1>1, <1>2, <1>3, <1>4 DEF ServerStep

-----------------------------------------------------------------------------
(***************************************************************************)
(* The server's invariant.                                                 *)
(***************************************************************************)

\* For any number of clients, runs, rounds and messages, any behaviour of an
\* early connect, and masters, clients and servers that die: the server's
\* count of its children is exact.
THEOREM ServerInductive == Spec => []ServerInv
  <1>1. Init => ServerInv
    <2> SUFFICES ASSUME Init PROVE ServerInv
      OBVIOUS
    <2>1. TypeOK
      <3>1. order("RESTART") \in Order /\ order("CLNT_TERM") \in Order
        BY DEF order, Order
      <3> QED BY <3>1, OptionAssumption DEF Init, TypeOK
    <2>2. masterOK /\ backlogOK /\ \A k \in Peer : fresh(k)
      BY DEF Init, masterOK, backlogOK, fresh
    <2>3. children = {}
      BY DEF Init, children
    <2>4. childrenOK
      BY <2>3, FS_EmptySet DEF Init, childrenOK
    <2> QED BY <2>1, <2>2, <2>4 DEF ServerInv
  <1>2. ServerInv /\ [Next]_vars => ServerInv'
    <2> SUFFICES ASSUME ServerInv, [Next]_vars PROVE ServerInv'
      OBVIOUS
    <2>1. CASE MasterStart \/ MasterStep \/ MasterDies
      BY <2>1, MasterTypes, MasterCounts, FreshMaster, BacklogMaster, ChildrenMaster
      DEF ServerInv
    <2>2. CASE ServerStep \/ ServerTimeout
      <3>1. \A k \in Peer : kid[k] = "gone" => srv_cnt >= 1
        <4>1. SUFFICES ASSUME NEW k \in Peer, kid[k] = "gone" PROVE srv_cnt >= 1
          OBVIOUS
        <4>2. k \in children
          BY <4>1 DEF children
        <4>3. srv_cnt # 0
          BY <4>2, ChildrenFinite, FS_EmptySet DEF ServerInv, childrenOK
        <4> QED BY <4>3 DEF ServerInv, TypeOK
      <3>2. TypeOK'
        BY <2>2, <3>1, ServerTypes DEF ServerInv
      <3>3. masterOK'
        BY <2>2, OthersLeaveMaster DEF ServerInv, masterOK, mvars, parties, latency
      <3> QED BY <2>2, <3>2, <3>3, FreshServer, BacklogServer, ChildrenServer DEF ServerInv
    <2>3. CASE \E k \in Peer : ClientStep(k) \/ ClientTimeout(k) \/ KidStep(k) \/ KidTimeout(k)
      <3>1. PICK k \in Peer : ClientStep(k) \/ ClientTimeout(k) \/ KidStep(k) \/ KidTimeout(k)
        BY <2>3
      <3>2. UNCHANGED mvars
        BY <2>3, OthersLeaveMaster
      <3>3. masterOK'
        BY <3>2 DEF ServerInv, masterOK, mvars, parties, latency
      <3>4. \A p \in Peer : ahead(p)' => fresh(p)'
        BY <3>1, <3>2, PeerTouches, FreshOthers DEF ServerInv, mvars
      <3> QED BY <3>1, <3>3, <3>4, PeerTypes, BacklogPeer, ChildrenPeer DEF ServerInv
    <2>4. CASE UNCHANGED vars
      BY <2>4 DEF ServerInv, vars, mvars, svars, kvars, cvars, TypeOK, masterOK, parties, latency,
        ahead, fresh, backlogOK, childrenOK, children
    <2> QED BY <2>1, <2>2, <2>3, <2>4 DEF Next
  <1> QED BY <1>1, <1>2, PTL DEF Spec

\* The server process and its children never listen on the control name at
\* the same time.
THEOREM ListenersApart == Spec => []OneListener
  <1>1. ServerInv => OneListener
    <2> SUFFICES ASSUME ServerInv, srvBound, NEW k \in Peer PROVE ~ kidAlive(k)
      BY DEF OneListener
    <2>1. children = {}
      BY DEF srvBound, ServerInv, childrenOK
    <2> QED BY <2>1 DEF children, kidAlive, kidBound
  <1> QED BY <1>1, ServerInductive, PTL

-----------------------------------------------------------------------------
(***************************************************************************)
(* The rounds of a master that is alone and has messages for every round.  *)
(***************************************************************************)

\* With one run every connection in use is one of this master's.
LEMMA OneRun ==
  ASSUME MaxRuns <= 1, ServerInv, NEW k \in Peer, cl[k] # "none" \/ kid[k] # "none"
  PROVE  run = 1 /\ k[1] = run /\ k \in mine
  <1>1. k = <<k[1], k[2]>> /\ k[1] = 1 /\ k[2] \in 1 .. req_clients
    BY OptionAssumption DEF Peer
  <1>2. run \in 0 .. 1 /\ clients \in 0 .. req_clients /\ ~ ahead(k)
    BY OptionAssumption DEF ServerInv, TypeOK, fresh
  <1>3. run = 1 /\ k[2] \in 1 .. clients
    BY <1>1, <1>2, OptionAssumption DEF ahead
  <1> QED BY <1>1, <1>3 DEF mine

\* So that an answer of a server reaches the master's socket.
LEMMA TellsOwn ==
  ASSUME MaxRuns <= 1, ServerInv, NEW m, serverTells(m)
  PROVE  msrv' = Append(msrv, m)
  <1>1. ~ orphanMaster
    BY OneRun DEF orphanMaster, clntAlive
  <1> QED BY <1>1 DEF serverTells

LEMMA MineFinite ==
  ASSUME TypeOK
  PROVE  IsFiniteSet(mine) /\ Cardinality(mine) = clients
  <1>1. mine = {run} \X (1 .. clients)
    BY DEF mine
  <1>2. IsFiniteSet(1 .. clients) /\ Cardinality(1 .. clients) = clients
    BY FS_Interval DEF TypeOK
  <1>3. IsFiniteSet({run}) /\ Cardinality({run}) = 1
    BY FS_Singleton
  <1>4. /\ IsFiniteSet({run} \X (1 .. clients))
        /\ Cardinality({run} \X (1 .. clients)) = Cardinality({run}) * Cardinality(1 .. clients)
    BY <1>2, <1>3, FS_Product
  <1>5. Cardinality({run}) * Cardinality(1 .. clients) = clients
    BY <1>2, <1>3 DEF TypeOK
  <1> QED BY <1>1, <1>4, <1>5

LEMMA MineInPeer ==
  ASSUME ServerInv, run \in 1 .. MaxRuns
  PROVE  mine \subseteq Peer
  <1>1. SUFFICES ASSUME NEW c \in 1 .. clients PROVE <<run, c>> \in Peer
    BY DEF mine
  <1>2. c \in 1 .. req_clients
    BY OptionAssumption DEF ServerInv, TypeOK
  <1> QED BY <1>2 DEF Peer

\* While a test runs, every round has messages, and the master waits for as
\* many answers as it has clients.
Testing == mpc \in {"ready", "nap2", "arm", "acks", "exec", "finC", "finS"}
LEMMA RoundHasMessages ==
  ASSUME NoEmptyRound, ServerInv, Testing \/ mpc = "fork"
  PROVE  msgcnt \in Nat /\ msgcnt >= 1
  <1>1. iter \in 1 .. Rounds /\ msgcnt \in Nat
    BY MessageCount DEF ServerInv, TypeOK
  <1>2. msgcnt > 0
    BY <1>1 DEF NoEmptyRound, msgcnt, ServerInv, masterOK, Testing
  <1> QED BY <1>1, <1>2

LEMMA AllAnswer ==
  ASSUME ServerInv, Testing
  PROVE  parties = Cardinality(mine) /\ parties \in Nat
  BY MineFinite DEF ServerInv, TypeOK, masterOK, Testing, parties

\* What a set of as many connections as there are clients is.
LEMMA AllOfMine ==
  ASSUME TypeOK, NEW A \in SUBSET mine
  PROVE  /\ IsFiniteSet(A) /\ Cardinality(A) \in Nat
         /\ Cardinality(A) <= Cardinality(mine)
         /\ Cardinality(A) = Cardinality(mine) => A = mine
         /\ \A k \in mine \ A : Cardinality(A \cup {k}) = Cardinality(A) + 1
  <1>1. /\ IsFiniteSet(A) /\ Cardinality(A) <= Cardinality(mine)
        /\ Cardinality(A) = Cardinality(mine) => A = mine
    BY MineFinite, FS_Subset
  <1> QED BY <1>1, FS_CardinalityType, FS_AddElement

-----------------------------------------------------------------------------
(***************************************************************************)
(* One connection, one step of its client or its child.                    *)
(***************************************************************************)
PeerStep(k) == ClientStep(k) \/ ClientTimeout(k) \/ KidStep(k) \/ KidTimeout(k)

LEMMA PeerLeavesMaster ==
  ASSUME NEW k \in Peer, PeerStep(k)
  PROVE  /\ UNCHANGED mvars
         /\ UNCHANGED <<msgcnt, latency, parties, roundOrder, startOrder, mine, masterUp>>
         /\ UNCHANGED <<srv, sq>>
  <1>1. UNCHANGED mvars
    BY OthersLeaveMaster DEF PeerStep
  <1>2. UNCHANGED <<srv, sq>>
    BY DEF PeerStep, svars, ClientStep, ClientBind, ClientConnect, ClientReady, ClientCommand,
      ClientSend, ClientEcho, ClientFinish, ClientTimeout, KidStep, KidBind, KidCommand, KidAck,
      KidReceive, KidFinish, KidCutOff, KidTimeout
  <1> QED BY <1>1, <1>2 DEF mvars, msgcnt, latency, parties, roundOrder, startOrder, mine, masterUp

\* Only four steps answer the master.
LEMMA Silent ==
  ASSUME NEW k \in Peer, PeerStep(k),
         ~ ClientReady(k), ~ ClientFinish(k), ~ KidAck(k), ~ KidFinish(k)
  PROVE  UNCHANGED <<msrv, mclnt>>
  BY DEF PeerStep, ClientStep, ClientBind, ClientConnect, ClientCommand,
      ClientSend, ClientEcho, ClientTimeout, KidStep, KidBind, KidCommand,
      KidReceive, KidCutOff, KidTimeout

\* Which steps a resting client, or a resting child, can take, and what of.
LEMMA RestingClient ==
  ASSUME TypeOK, NEW k \in Peer, clientRests(k), ClientStep(k) \/ ClientTimeout(k)
  PROVE  ClientTimeout(k) /\ clientRests(k)'
  BY DEF TypeOK, clientRests, ClientStep, ClientBind, ClientConnect, ClientReady, ClientCommand,
    ClientSend, ClientEcho, ClientFinish, ClientTimeout

LEMMA RestingKid ==
  ASSUME TypeOK, NEW k \in Peer, kidRests(k), KidStep(k) \/ KidTimeout(k)
  PROVE  KidBind(k) \/ KidTimeout(k)
  BY DEF kidRests, KidStep, KidBind, KidCommand, KidAck, KidReceive, KidFinish,
    KidCutOff, KidTimeout, kidReads

LEMMA RestingKidStep ==
  ASSUME TypeOK, NEW k \in Peer, kidRests(k), KidBind(k) \/ KidTimeout(k)
  PROVE  /\ kidRests(k)' /\ UNCHANGED <<cvars, pipe, echoes, msrv, mclnt, kjob>>
  BY DEF TypeOK, kidRests, KidBind, KidTimeout, kidReads

\* A quiet connection stays quiet, and its ends say nothing.
LEMMA QuietPeer ==
  ASSUME TypeOK, NEW k \in Peer, quiet(k), PeerStep(k)
  PROVE  quiet(k)' /\ UNCHANGED <<msrv, mclnt>>
  <1>1. CASE ClientStep(k) \/ ClientTimeout(k)
    <2>1. ClientTimeout(k) /\ clientRests(k)'
      BY <1>1, RestingClient DEF quiet
    <2> QED BY <2>1 DEF quiet, ClientTimeout, still, kidRests, kvars
  <1>2. CASE KidStep(k) \/ KidTimeout(k)
    <2>1. KidBind(k) \/ KidTimeout(k)
      BY <1>2, RestingKid DEF quiet
    <2> QED BY <2>1, RestingKidStep DEF quiet, cvars, still, clientRests
  <1> QED BY <1>1, <1>2 DEF PeerStep

\* The newest client dials, is accepted and reports once.
LEMMA DiallingPeer ==
  ASSUME TypeOK, masterUp, NEW k \in Peer, dialling(k), PeerStep(k)
  PROVE  dialling(k)' /\ UNCHANGED msrv
  <1>1. CASE ClientReady(k)
    <2>1. cl[k] = "linked" /\ mclnt = <<>>
      BY <1>1 DEF ClientReady, dialling
    <2>2. mclnt' = Append(mclnt, "CLNT_READY") /\ cl' = [cl EXCEPT ![k] = "cmd"]
      BY <1>1 DEF ClientReady, tellMaster
    <2>3. mclnt' = <<"CLNT_READY">> /\ Len(mclnt') = 1
      BY <2>1, <2>2
    <2> QED BY <1>1, <2>1, <2>2, <2>3
      DEF ClientReady, dialling, still, kidRests, kvars, TypeOK
  <1>2. CASE (ClientStep(k) \/ ClientTimeout(k)) /\ ~ ClientReady(k)
    <2>1. ClientBind(k) \/ ClientConnect(k) \/ ClientTimeout(k)
      BY <1>2 DEF dialling, ClientStep, ClientCommand, ClientSend, ClientEcho, ClientFinish
    <2>2. UNCHANGED <<msrv, mclnt, kvars, pipe, echoes, cq>>
      BY <2>1 DEF ClientBind, ClientConnect, ClientTimeout
    <2>3. \/ cl[k] \in {"born", "dial"} /\ cl'[k] \in {"dial", "conn", "gone"}
          \/ cl[k] \in {"cmd", "wait"} /\ cl'[k] = "gone"
      BY <2>1 DEF ClientBind, ClientConnect, ClientTimeout, TypeOK
    <2> QED BY <2>2, <2>3 DEF dialling, still, kidRests, kvars
  <1>3. CASE KidStep(k) \/ KidTimeout(k)
    <2>1. KidBind(k) \/ KidTimeout(k)
      BY <1>3, RestingKid DEF dialling
    <2> QED BY <2>1, RestingKidStep DEF dialling, still, cvars
  <1> QED BY <1>1, <1>2, <1>3 DEF PeerStep

\* Between the order and the start a child acknowledges once; nothing else
\* is said, and nothing is sent.
LEMMA ArmedPeer ==
  ASSUME TypeOK, NEW k \in Peer, msgcnt \in Nat, msgcnt >= 1, NEW A, armed(k, A), PeerStep(k)
  PROVE  \/ armed(k, A)' /\ UNCHANGED <<msrv, mclnt>>
         \/ KidAck(k) /\ k \notin A /\ armed(k, A \cup {k})' /\ UNCHANGED mclnt
  <1>0. UNCHANGED <<msgcnt, roundOrder>> /\ roundOrder.msgcnt = msgcnt
        /\ roundOrder.cmd = "RCV_MSG_LEN"
    BY PeerLeavesMaster DEF roundOrder
  <1>1. CASE ClientStep(k) \/ ClientTimeout(k)
    <2>1. ClientTimeout(k) /\ clientRests(k)'
      BY <1>1, RestingClient DEF armed
    <2>2. UNCHANGED <<msrv, mclnt, kid, kq, kjob, rcvd, pipe, echoes>>
      BY <2>1 DEF ClientTimeout, kvars
    <2> QED BY <1>0, <2>1, <2>2 DEF armed, still
  <1>2. CASE KidAck(k)
    <2>1. k \notin A /\ kid[k] = "ack" /\ kjob[k] = roundOrder /\ kq[k] = <<>> /\ rcvd[k] = 0
      BY <1>2 DEF KidAck, armed
    <2>2. kid'[k] = "echo" /\ UNCHANGED <<mclnt, kq, kjob, rcvd, cl, cq, pipe, echoes>>
      BY <1>2 DEF KidAck, TypeOK, cvars
    <2> QED BY <1>0, <1>2, <2>1, <2>2 DEF armed, still, clientRests
  <1>3. CASE (KidStep(k) \/ KidTimeout(k)) /\ ~ KidAck(k)
    <2>1. UNCHANGED <<msrv, mclnt, cl, cq, pipe, echoes>>
      BY <1>0, <1>3 DEF KidStep, KidBind, KidCommand, KidReceive, KidFinish, KidCutOff,
        KidTimeout, cvars, armed, still
    <2>2. CASE KidBind(k)
      <3>1. kid[k] = "forked" /\ kid'[k] = "cmd" /\ UNCHANGED <<kq, rcvd>>
        BY <2>2 DEF KidBind, TypeOK
      <3>2. k \notin A /\ kq[k] = <<>>
        BY <3>1 DEF armed
      <3> QED BY <1>0, <2>1, <3>1, <3>2 DEF armed, still, clientRests
    <2>3. CASE KidCommand(k)
      <3>1. kid[k] = "cmd" /\ k \notin A /\ kq[k] = <<roundOrder>>
        BY <2>3 DEF KidCommand, armed
      <3>2. Head(kq[k]) = roundOrder /\ Tail(kq[k]) = <<>>
        BY <3>1
      <3>3. kid'[k] = "ack" /\ kq'[k] = <<>> /\ kjob'[k] = roundOrder /\ rcvd' = rcvd
        BY <1>0, <2>3, <3>2 DEF KidCommand, TypeOK
      <3> QED BY <1>0, <2>1, <3>1, <3>3 DEF armed, still, clientRests
    <2>4. CASE KidCutOff(k) \/ KidTimeout(k)
      <3>1. kid'[k] = "gone"
        BY <2>4 DEF KidCutOff, KidTimeout, TypeOK
      <3> QED BY <1>0, <2>1, <3>1 DEF armed, still, clientRests
    <2>5. ~ KidReceive(k)
      BY DEF KidReceive, armed, still
    <2>6. ~ KidFinish(k)
      BY <1>0 DEF KidFinish, armed
    <2> QED BY <1>3, <2>2, <2>3, <2>4, <2>5, <2>6 DEF KidStep
  <1> QED BY <1>1, <1>2, <1>3 DEF PeerStep

\* A step of the client while it streams: its messages are counted where
\* they are, and it reports its end once.
LEMMA StreamingClient ==
  ASSUME TypeOK, masterUp, NEW k \in Peer, msgcnt \in Nat, msgcnt >= 1,
         NEW C, NEW F, streaming(k, C, F),
         ClientStep(k) \/ ClientTimeout(k)
  PROVE  \/ streaming(k, C, F)' /\ UNCHANGED <<msrv, mclnt>>
         \/ ClientFinish(k) /\ k \notin C /\ streaming(k, C \cup {k}, F)' /\ UNCHANGED msrv
  <1>0. /\ UNCHANGED <<msgcnt, latency, roundOrder, startOrder>> /\ startOrder.msgcnt = msgcnt
        /\ startOrder.cmd = "CLNT_EXEC" /\ startOrder.echo = latency
    BY PeerLeavesMaster DEF startOrder, PeerStep
  <1>t. /\ pipe[k] \in Nat /\ echoes[k] \in Nat /\ sent[k] \in Nat /\ rcvd[k] \in Nat
        /\ latency \in BOOLEAN
    BY DEF TypeOK, latency
  <1>1. UNCHANGED <<kid, kq, kjob, rcvd, msrv>>
    BY DEF kvars, ClientStep, ClientBind, ClientConnect, ClientReady, ClientCommand, ClientSend,
      ClientEcho, ClientFinish, ClientTimeout
  <1>2. CASE ClientTimeout(k)
    <2>1. /\ cl'[k] = "gone" /\ UNCHANGED <<cq, cjob, sent, pipe, echoes, mclnt>>
          /\ (cl[k] = "cmd" /\ cq[k] = <<>>) \/ cl[k] = "wait"
      BY <1>2 DEF ClientTimeout, TypeOK
    <2> QED BY <1>0, <1>t, <1>1, <2>1 DEF streaming, clientRests, kidRests, still
  <1>3. CASE ClientCommand(k)
    <2>1. cl[k] = "cmd" /\ cq[k] # <<>>
      BY <1>3 DEF ClientCommand
    <2>2. /\ k \notin C /\ k \notin F /\ cq[k] = <<startOrder>> /\ still(k) /\ (kid[k] = "echo" => rcvd[k] = 0)
      BY <2>1 DEF streaming, clientRests
    <2>3. Head(cq[k]) = startOrder /\ Tail(cq[k]) = <<>>
      BY <2>2
    <2>4. /\ cl'[k] = "stream" /\ cq'[k] = <<>> /\ cjob'[k] = startOrder /\ sent'[k] = 0
          /\ UNCHANGED <<pipe, echoes, mclnt>>
      BY <1>0, <1>3, <2>3 DEF ClientCommand, TypeOK
    <2>5. pipe'[k] = 0 /\ echoes'[k] = 0 /\ (kid'[k] = "echo" => rcvd'[k] = 0)
      BY <1>1, <2>2, <2>4 DEF still
    <2>6. kid[k] \in {"gone", "reaped"} \/ (kid[k] = "echo" /\ kjob[k] = roundOrder /\ kq[k] = <<>>)
      BY <2>2 DEF streaming
    <2>7. streaming(k, C, F)'
      BY <1>0, <1>t, <2>2, <1>1, <2>4, <2>5, <2>6 DEF streaming
    <2> QED BY <1>1, <2>2, <2>4, <2>7
  <1>4. CASE ClientSend(k)
    <2>1. /\ cl[k] = "stream" /\ k \notin C /\ sent[k] < msgcnt /\ cjob[k] = startOrder /\ cq[k] = <<>>
      BY <1>0, <1>4 DEF ClientSend, streaming, clientRests
    <2>2. UNCHANGED <<cq, cjob, echoes, mclnt>>
      BY <1>4 DEF ClientSend
    <2>3. CASE kidAlive(k)
      <3>1. /\ sent'[k] = sent[k] + 1 /\ pipe'[k] = pipe[k] + 1
            /\ cl'[k] = IF latency THEN "wait" ELSE "stream"
        BY <1>0, <1>4, <2>1, <2>3 DEF ClientSend, TypeOK
      <3>2. k \notin F
        BY <1>t, <2>1 DEF streaming
      <3>3. kid[k] = "echo" => pipe'[k] + rcvd'[k] = sent'[k]
        BY <1>t, <1>1, <2>1, <3>1, <3>2 DEF streaming
      <3>4. kid[k] = "echo" =>
              echoes'[k] = IF latency THEN rcvd'[k] - sent'[k] + (IF cl'[k] = "wait" THEN 1 ELSE 0)
                           ELSE 0
        BY <1>t, <1>1, <2>1, <2>2, <3>1, <3>2 DEF streaming
      <3> QED BY <1>0, <1>t, <1>1, <2>1, <2>2, <3>1, <3>2, <3>3, <3>4 DEF streaming
    <2>4. CASE ~ kidAlive(k)
      <3>1. cl'[k] = "gone" /\ UNCHANGED <<sent, pipe>>
        BY <1>4, <2>4 DEF ClientSend, TypeOK
      <3> QED BY <1>0, <1>t, <1>1, <2>1, <2>2, <3>1 DEF streaming, kidRests
    <2> QED BY <2>3, <2>4
  <1>5. CASE ClientEcho(k)
    <2>1. /\ cl[k] = "wait" /\ k \notin C /\ cjob[k] = startOrder /\ cq[k] = <<>> /\ sent[k] <= msgcnt
      BY <1>5 DEF ClientEcho, streaming, clientRests
    <2>2. UNCHANGED <<cq, cjob, sent, pipe, mclnt>>
      BY <1>5 DEF ClientEcho
    <2>3. CASE echoes[k] > 0 /\ echoes' = [echoes EXCEPT ![k] = @ - 1]
               /\ cl' = [cl EXCEPT ![k] = "stream"]
      <3>1. echoes'[k] = echoes[k] - 1 /\ cl'[k] = "stream"
        BY <2>3 DEF TypeOK
      <3> QED BY <1>0, <1>t, <1>1, <2>1, <2>2, <2>3, <3>1 DEF streaming, kidRests
    <2>4. CASE cl' = [cl EXCEPT ![k] = "gone"] /\ UNCHANGED echoes
      <3>1. cl'[k] = "gone"
        BY <2>4 DEF TypeOK
      <3> QED BY <1>0, <1>t, <1>1, <2>1, <2>2, <2>4, <3>1 DEF streaming, kidRests
    <2> QED BY <1>5, <2>3, <2>4 DEF ClientEcho
  <1>6. CASE ClientFinish(k)
    <2>1. /\ cl[k] = "stream" /\ k \notin C /\ cjob[k] = startOrder /\ cq[k] = <<>> /\ sent[k] = msgcnt
      BY <1>0, <1>t, <1>6 DEF ClientFinish, streaming, clientRests
    <2>2. cl'[k] = "cmd" /\ UNCHANGED <<cq, cjob, sent, pipe, echoes>>
      BY <1>6 DEF ClientFinish, tellMaster, TypeOK
    <2>3. streaming(k, C \cup {k}, F)'
      BY <1>0, <1>t, <1>1, <2>1, <2>2 DEF streaming, clientRests, kidRests
    <2> QED BY <1>1, <1>6, <2>1, <2>3
  <1>7. ~ ClientBind(k) /\ ~ ClientConnect(k) /\ ~ ClientReady(k)
    BY DEF ClientBind, ClientConnect, ClientReady, streaming, clientRests
  <1> QED BY <1>2, <1>3, <1>4, <1>5, <1>6, <1>7 DEF ClientStep

\* A step of the child while it receives: it reports its end once, when it
\* has every message of the round.
LEMMA StreamingKid ==
  ASSUME TypeOK, NEW k \in Peer, msgcnt \in Nat, msgcnt >= 1,
         NEW C, NEW F, streaming(k, C, F),
         KidStep(k) \/ KidTimeout(k)
  PROVE  \/ streaming(k, C, F)' /\ UNCHANGED <<msrv, mclnt>>
         \/ KidFinish(k) /\ k \notin F /\ streaming(k, C, F \cup {k})' /\ UNCHANGED mclnt
  <1>0. /\ UNCHANGED <<msgcnt, latency, roundOrder, startOrder>> /\ roundOrder.msgcnt = msgcnt
        /\ roundOrder.cmd = "RCV_MSG_LEN" /\ roundOrder.echo = latency
    BY PeerLeavesMaster DEF roundOrder, PeerStep
  <1>t. /\ pipe[k] \in Nat /\ echoes[k] \in Nat /\ sent[k] \in Nat /\ rcvd[k] \in Nat
        /\ latency \in BOOLEAN
    BY DEF TypeOK, latency
  <1>1. UNCHANGED <<cl, cq, cjob, sent, mclnt>>
    BY DEF cvars, KidStep, KidBind, KidCommand, KidAck, KidReceive, KidFinish, KidCutOff, KidTimeout
  <1>2. CASE KidBind(k) \/ KidCutOff(k) \/ KidTimeout(k)
    <2>1. UNCHANGED <<kq, kjob, rcvd, pipe, echoes, msrv>>
      BY <1>2 DEF KidBind, KidCutOff, KidTimeout
    <2>2. (kid[k] = "forked" /\ kid'[k] = "cmd") \/ kid'[k] = "gone"
      BY <1>2 DEF KidBind, KidCutOff, KidTimeout, TypeOK
    <2> QED BY <1>0, <1>t, <1>1, <2>1, <2>2 DEF streaming, kidRests, clientRests, still
  <1>3. CASE KidReceive(k)
    <2>1. /\ kid[k] = "echo" /\ k \notin F /\ kjob[k] = roundOrder /\ kq[k] = <<>>
          /\ pipe[k] > 0 /\ rcvd[k] < msgcnt
      BY <1>0, <1>3 DEF KidReceive, streaming, kidRests
    <2>2. /\ pipe'[k] = pipe[k] - 1 /\ rcvd'[k] = rcvd[k] + 1
          /\ echoes'[k] = (IF latency THEN echoes[k] + 1 ELSE echoes[k])
          /\ kid'[k] \in {"echo", "gone"} /\ UNCHANGED <<kq, kjob, msrv>>
      BY <1>0, <1>3, <2>1 DEF KidReceive, TypeOK
    <2>3. ~ (cl[k] = "cmd" /\ cq[k] = <<startOrder>> /\ still(k))
      BY <2>1 DEF still
    <2>4. CASE k \in C \/ cl[k] \in {"stream", "wait"}
      <3>1. pipe'[k] + rcvd'[k] = sent[k]
        BY <1>t, <2>1, <2>2, <2>4 DEF streaming
      <3>2. echoes'[k] = IF latency THEN rcvd'[k] - sent[k] + (IF cl[k] = "wait" THEN 1 ELSE 0) ELSE 0
        <4>1. echoes[k] = IF latency THEN rcvd[k] - sent[k] + (IF cl[k] = "wait" THEN 1 ELSE 0) ELSE 0
          BY <2>1, <2>4 DEF streaming
        <4>2. CASE latency BY <1>t, <2>2, <4>1, <4>2
        <4>3. CASE ~ latency BY <1>t, <2>2, <4>1, <4>3
        <4> QED BY <4>2, <4>3
      <3> QED BY <1>0, <1>t, <1>1, <2>1, <2>2, <2>3, <2>4, <3>1, <3>2
        DEF streaming, clientRests, still
    <2>5. CASE ~ (k \in C \/ cl[k] \in {"stream", "wait"})
      BY <1>0, <1>t, <1>1, <2>1, <2>2, <2>3, <2>5 DEF streaming, clientRests, still
    <2> QED BY <2>4, <2>5
  <1>4. CASE KidFinish(k)
    <2>1. /\ kid[k] = "echo" /\ k \notin F /\ kjob[k] = roundOrder /\ kq[k] = <<>> /\ rcvd[k] >= msgcnt
      BY <1>0, <1>4 DEF KidFinish, streaming, kidRests
    <2>2. kid'[k] = "cmd" /\ rcvd'[k] = 0 /\ UNCHANGED <<kq, kjob, pipe, echoes>>
      BY <1>4 DEF KidFinish, TypeOK
    <2>3. ~ (cl[k] = "cmd" /\ cq[k] = <<startOrder>> /\ (kid[k] = "echo" => rcvd[k] = 0))
      BY <1>t, <2>1
    <2>4. k \in C \/ cl[k] \in {"stream", "wait"} => sent[k] = msgcnt /\ rcvd[k] = msgcnt
      BY <1>t, <2>1 DEF streaming
    <2>5. streaming(k, C, F \cup {k})'
      <3>1. kidRests(k)'
        BY <1>0, <2>1, <2>2 DEF kidRests
      <3>2. k \in C \/ cl[k] \in {"stream", "wait"} =>
              /\ pipe'[k] + msgcnt = sent[k]
              /\ echoes'[k] = IF latency THEN msgcnt - sent[k] + (IF cl[k] = "wait" THEN 1 ELSE 0) ELSE 0
        BY <1>t, <2>1, <2>2, <2>4 DEF streaming
      <3> QED BY <1>0, <1>1, <2>1, <2>2, <2>3, <3>1, <3>2 DEF streaming, clientRests
    <2> QED BY <1>1, <1>4, <2>1, <2>5
  <1>5. ~ KidCommand(k) /\ ~ KidAck(k)
    BY DEF KidCommand, KidAck, streaming, kidRests
  <1> QED BY <1>2, <1>3, <1>4, <1>5 DEF KidStep

-----------------------------------------------------------------------------
(***************************************************************************)
(* All connections.                                                        *)
(***************************************************************************)

\* Any step of a client or a child keeps the rounds in order.
LEMMA RoundPeer ==
  ASSUME MaxRuns <= 1, NoEmptyRound, ServerInv, RoundInv, NEW k \in Peer, PeerStep(k)
  PROVE  RoundInv'
  <1>t. TypeOK
    BY DEF ServerInv
  <1>1. run = 1 /\ k \in mine /\ mine \subseteq Peer /\ clients >= 1
    <2>1. cl[k] # "none" \/ kid[k] # "none"
      BY <1>t, PeerTouches DEF PeerStep
    <2>2. run = 1 /\ k \in mine
      BY <2>1, OneRun
    <2>3. mine \subseteq Peer
      BY <2>2, MineInPeer, OptionAssumption DEF ServerInv, TypeOK
    <2> QED BY <2>2, <2>3 DEF mine, TypeOK, ServerInv
  <1>2. /\ UNCHANGED <<run, mpc, clients, left, parties, mine, srv, sq>>
        /\ UNCHANGED <<msgcnt, latency, roundOrder, startOrder>>
    BY PeerLeavesMaster DEF mvars
  <1>3. \A p \in mine : p # k =>
          /\ cl'[p] = cl[p] /\ cq'[p] = cq[p] /\ cjob'[p] = cjob[p] /\ sent'[p] = sent[p]
          /\ kid'[p] = kid[p] /\ kq'[p] = kq[p] /\ kjob'[p] = kjob[p] /\ rcvd'[p] = rcvd[p]
          /\ pipe'[p] = pipe[p] /\ echoes'[p] = echoes[p]
    BY <1>t, <1>1, PeerTouches DEF PeerStep
  <1>4. ASSUME NEW p \in mine, p # k
        PROVE  /\ quiet(p) => quiet(p)'
               /\ UNCHANGED mclnt => (dialling(p) => dialling(p)')
               /\ \A A, B : ((p \in A) <=> (p \in B)) => (armed(p, A) => armed(p, B)')
               /\ \A C, F, D, G :
                    ((p \in C) <=> (p \in D)) /\ ((p \in F) <=> (p \in G)) =>
                      (streaming(p, C, F) => streaming(p, D, G)')
    <2>1. (still(p) => still(p)') /\ (clientRests(p) => clientRests(p)')
          /\ (kidRests(p) => kidRests(p)')
      BY <1>3, <1>4 DEF still, clientRests, kidRests
    <2>2. quiet(p) => quiet(p)'
      BY <2>1 DEF quiet
    <2>3. UNCHANGED mclnt => (dialling(p) => dialling(p)')
      BY <1>3, <1>4, <2>1 DEF dialling
    <2>4. \A A, B : ((p \in A) <=> (p \in B)) => (armed(p, A) => armed(p, B)')
      BY <1>2, <1>3, <1>4, <2>1 DEF armed
    <2>5. \A C, F, D, G :
                    ((p \in C) <=> (p \in D)) /\ ((p \in F) <=> (p \in G)) =>
                      (streaming(p, C, F) => streaming(p, D, G)')
      BY <1>2, <1>3, <1>4, <2>1 DEF streaming
    <2> QED BY <2>2, <2>3, <2>4, <2>5
  <1>5. infoOK'
    <2>1. mpc \notin {"off", "find", "nap", "lstn", "info"}
      BY <1>1 DEF ServerInv, masterOK
    <2> QED BY <1>2, <2>1 DEF RoundInv, infoOK
  <1>6. CASE mpc \in {"fork", "nap2", "arm", "term"}
    <2>1. quiet(k) /\ msrv = <<>> /\ mclnt = <<>> /\ \A p \in mine : quiet(p)
      BY <1>1, <1>6 DEF RoundInv
    <2>2. quiet(k)' /\ UNCHANGED <<msrv, mclnt>>
      BY <1>t, <2>1, QuietPeer
    <2>3. \A p \in mine : quiet(p)'
      BY <1>4, <2>1, <2>2
    <2> QED BY <1>2, <1>5, <1>6, <2>1, <2>2, <2>3 DEF RoundInv
  <1>7. CASE mpc = "ready"
    <2>1. /\ msrv = <<>> /\ dialling(<<run, clients>>)
          /\ \A p \in mine : p # <<run, clients>> => quiet(p)
      BY <1>7 DEF RoundInv
    <2>2. <<run, clients>> \in mine
      BY <1>1 DEF mine, ServerInv, TypeOK
    <2>3. PICK n \in mine : n = <<run, clients>>
      BY <2>2
    <2>4. dialling(n) /\ \A p \in mine : p # n => quiet(p)
      BY <2>1, <2>3
    <2>5. dialling(n)' /\ UNCHANGED msrv /\ \A p \in mine : p # n => quiet(p)'
      <3>1. CASE k = n
        <4>1. dialling(n)' /\ UNCHANGED msrv
          BY <1>t, <1>7, <2>4, <3>1, DiallingPeer DEF masterUp
        <4> QED BY <1>4, <2>4, <3>1, <4>1
      <3>2. CASE k # n
        <4>1. quiet(k)' /\ UNCHANGED <<msrv, mclnt>>
          BY <1>t, <1>1, <2>4, <3>2, QuietPeer
        <4> QED BY <1>4, <2>4, <3>2, <4>1
      <3> QED BY <3>1, <3>2
    <2>6. n = <<run, clients>>' /\ <<run, clients>>' = <<run, clients>>
      BY <1>2, <2>3
    <2>7. dialling(<<run, clients>>)'
      BY <1>2, <2>3, <2>5 DEF dialling, still, kidRests
    <2>8. mpc' = "ready" /\ mine' = mine /\ msrv' = <<>>
      BY <1>2, <1>7, <2>1, <2>5
    <2> QED BY <1>5, <2>5, <2>6, <2>7, <2>8 DEF RoundInv
  <1>8. CASE mpc = "acks"
    <2>0. Testing /\ left \in Nat
      BY <1>8 DEF Testing, ServerInv, TypeOK
    <2>1. msgcnt \in Nat /\ msgcnt >= 1 /\ parties \in Nat /\ left \in Nat
      BY <2>0, RoundHasMessages, AllAnswer
    <2>2. PICK A \in SUBSET mine :
            /\ Cardinality(A) = parties - left + Len(msrv)
            /\ \A p \in mine : armed(p, A)
      BY <1>8 DEF RoundInv
    <2>3. mclnt = <<>> /\ armed(k, A)
      BY <1>1, <1>8, <2>2 DEF RoundInv
    <2>4. CASE armed(k, A)' /\ UNCHANGED <<msrv, mclnt>>
      <3>1. \A p \in mine : armed(p, A)'
        BY <1>4, <2>2, <2>4
      <3>2. \E B \in SUBSET mine' : /\ Cardinality(B) = (parties - left + Len(msrv))'
                                    /\ \A p \in mine' : armed(p, B)'
        BY <1>2, <2>2, <2>4, <3>1
      <3> QED BY <1>2, <1>5, <1>8, <2>3, <2>4, <3>2 DEF RoundInv
    <2>5. CASE KidAck(k) /\ k \notin A /\ armed(k, A \cup {k})' /\ UNCHANGED mclnt
      <3>1. msrv' = Append(msrv, "SRV_MSGLEN_ACK")
        BY <2>5, TellsOwn DEF KidAck
      <3>2. Len(msrv') = Len(msrv) + 1 /\ Len(msrv) \in Nat
        BY <3>1, QueueEnds DEF ServerInv, TypeOK
      <3>3. Cardinality(A \cup {k}) = Cardinality(A) + 1
        BY <1>t, <1>1, <2>5, AllOfMine
      <3>4. \A p \in mine : armed(p, A \cup {k})'
        BY <1>4, <2>2, <2>5
      <3>5. Cardinality(A \cup {k}) = parties - left + Len(msrv')
        BY <2>1, <2>2, <3>2, <3>3
      <3>6. \E B \in SUBSET mine' : /\ Cardinality(B) = (parties - left + Len(msrv))'
                                    /\ \A p \in mine' : armed(p, B)'
        BY <1>1, <1>2, <3>4, <3>5
      <3> QED BY <1>2, <1>5, <1>8, <2>3, <2>5, <3>6 DEF RoundInv
    <2> QED BY <1>t, <2>1, <2>3, <2>4, <2>5, ArmedPeer
  <1>9. CASE mpc = "exec"
    <2>1. msgcnt \in Nat /\ msgcnt >= 1
      BY <1>9, RoundHasMessages DEF Testing
    <2>2. msrv = <<>> /\ mclnt = <<>> /\ \A p \in mine : armed(p, {p})
      BY <1>9 DEF RoundInv
    <2>3. armed(k, {k})' /\ UNCHANGED <<msrv, mclnt>>
      BY <1>t, <1>1, <2>1, <2>2, ArmedPeer
    <2>4. \A p \in mine : armed(p, {p})'
      BY <1>4, <2>2, <2>3
    <2> QED BY <1>2, <1>5, <1>9, <2>2, <2>3, <2>4 DEF RoundInv
  <1>10. CASE mpc \in {"finC", "finS"}
    <2> DEFINE turn == IF mpc = "finS" THEN 1 ELSE 0
    <2>1. /\ msgcnt \in Nat /\ msgcnt >= 1 /\ parties \in Nat /\ left \in Nat /\ turn \in Nat
          /\ masterUp /\ Len(msrv) \in Nat /\ Len(mclnt) \in Nat
      <3>1. Testing /\ left \in Nat /\ masterUp /\ turn \in Nat
        BY <1>10 DEF Testing, ServerInv, TypeOK, masterUp
      <3>2. Len(msrv) \in Nat /\ Len(mclnt) \in Nat
        BY QueueEnds DEF ServerInv, TypeOK
      <3> QED BY <3>1, <3>2, RoundHasMessages, AllAnswer
    <2>2. PICK C \in SUBSET mine, F \in SUBSET mine :
            /\ Cardinality(C) = parties - left + Len(mclnt) + turn
            /\ Cardinality(F) = parties - left + Len(msrv)
            /\ \A p \in mine : streaming(p, C, F)
      BY <1>10 DEF RoundInv
    <2>3. SUFFICES \E D, G \in SUBSET mine :
            /\ Cardinality(D) = parties - left + Len(mclnt') + turn
            /\ Cardinality(G) = parties - left + Len(msrv')
            /\ \A p \in mine : streaming(p, D, G)'
      BY <1>2, <1>5, <1>10 DEF RoundInv
    <2>4. streaming(k, C, F)
      BY <1>1, <2>2
    <2>5. CASE streaming(k, C, F)' /\ UNCHANGED <<msrv, mclnt>>
      <3>1. \A p \in mine : streaming(p, C, F)'
        BY <1>4, <2>2, <2>5
      <3> QED BY <2>2, <2>5, <3>1
    <2>6. CASE ClientFinish(k) /\ k \notin C /\ streaming(k, C \cup {k}, F)' /\ UNCHANGED msrv
      <3>1. mclnt' = Append(mclnt, "CLNT_FINISHED")
        BY <2>1, <2>6 DEF ClientFinish, tellMaster
      <3>2. Len(mclnt') = Len(mclnt) + 1
        BY <3>1, QueueEnds DEF ServerInv, TypeOK
      <3>3. Cardinality(C \cup {k}) = Cardinality(C) + 1
        BY <1>t, <1>1, <2>6, AllOfMine
      <3>4. \A p \in mine : streaming(p, C \cup {k}, F)'
        BY <1>4, <2>2, <2>6
      <3>5. Cardinality(C \cup {k}) = parties - left + Len(mclnt') + turn
        BY <2>1, <2>2, <3>2, <3>3
      <3> QED BY <1>1, <2>2, <2>6, <3>4, <3>5
    <2>7. CASE KidFinish(k) /\ k \notin F /\ streaming(k, C, F \cup {k})' /\ UNCHANGED mclnt
      <3>1. msrv' = Append(msrv, "SRV_FINISHED")
        BY <2>7, TellsOwn DEF KidFinish
      <3>2. Len(msrv') = Len(msrv) + 1
        BY <3>1, QueueEnds DEF ServerInv, TypeOK
      <3>3. Cardinality(F \cup {k}) = Cardinality(F) + 1
        BY <1>t, <1>1, <2>7, AllOfMine
      <3>4. \A p \in mine : streaming(p, C, F \cup {k})'
        BY <1>4, <2>2, <2>7
      <3>5. Cardinality(F \cup {k}) = parties - left + Len(msrv')
        BY <2>1, <2>2, <3>2, <3>3
      <3> QED BY <1>1, <2>2, <2>7, <3>4, <3>5
    <2> QED BY <1>t, <2>1, <2>4, <2>5, <2>6, <2>7, StreamingClient, StreamingKid DEF PeerStep
  <1>11. CASE mpc \in {"off", "find", "nap", "lstn", "info", "reap", "done", "dead"}
    BY <1>2, <1>5, <1>11 DEF RoundInv
  <1> QED BY <1>6, <1>7, <1>8, <1>9, <1>10, <1>11 DEF ServerInv, TypeOK

\* What the server process does to a connection: it takes the request of a
\* waiting client, refuses it, or collects a child that is gone.
serverMoves(k) ==
  /\ \/ kid'[k] = kid[k] /\ cl'[k] = cl[k]
     \/ kid[k] = "gone" /\ kid'[k] = "reaped" /\ cl'[k] = cl[k]
     \/ cl[k] = "conn" /\ kid'[k] = "forked" /\ cl'[k] = "linked"
     \/ cl[k] = "conn" /\ kid'[k] = kid[k] /\ cl'[k] = "gone"
     \/ cl[k] = "conn" /\ kid[k] = "gone" /\ kid'[k] = "reaped" /\ cl'[k] = "gone"

LEMMA ServerMoves ==
  ASSUME ServerInv, ServerStep \/ ServerTimeout
  PROVE  /\ \A k \in Peer : serverMoves(k)
         /\ UNCHANGED <<kq, kjob, rcvd, cq, cjob, sent, pipe, echoes, mclnt>>
  <1> USE DEF ServerInv, TypeOK, kvars, cvars
  <1>1. UNCHANGED <<kq, kjob, rcvd, cq, cjob, sent, pipe, echoes, mclnt>>
    BY DEF ServerStep, ServerReset, ServerCommand, ServerInfo, ServerListen, ServerAccept,
      ServerReap, ServerTimeout
  <1>2. CASE ServerReset \/ ServerCommand \/ ServerInfo \/ ServerListen
    BY <1>1, <1>2 DEF ServerReset, ServerCommand, ServerInfo, ServerListen, serverMoves
  <1>3. CASE ServerAccept
    <2>1. Head(backlog) \in Peer /\ cl[Head(backlog)] = "conn"
      BY <1>3, QueueEnds DEF ServerAccept, backlogOK
    <2>2. PICK p \in Peer : p = Head(backlog)
      BY <2>1
    <2>3. kid' = [kid EXCEPT ![p] = "forked"] /\ cl' = [cl EXCEPT ![p] = "linked"]
      BY <1>3, <2>2 DEF ServerAccept
    <2>4. \A k \in Peer : serverMoves(k)
      BY <2>1, <2>2, <2>3 DEF serverMoves
    <2> QED BY <1>1, <2>4
  <1>4. CASE \E p \in Peer : ServerReap(p)
    <2>1. PICK p \in Peer : ServerReap(p)
      BY <1>4
    <2>2. kid[p] = "gone" /\ kid' = [kid EXCEPT ![p] = "reaped"]
      BY <2>1 DEF ServerReap
    <2>3. \A k \in Peer : cl'[k] = cl[k] \/ (cl[k] = "conn" /\ cl'[k] = "gone")
      BY <2>1 DEF ServerReap, closeListener
    <2>4. \A k \in Peer : serverMoves(k)
      BY <2>2, <2>3 DEF serverMoves
    <2> QED BY <1>1, <2>4
  <1>5. CASE ServerTimeout
    <2>1. /\ UNCHANGED kid
          /\ \A k \in Peer : cl'[k] = cl[k] \/ (cl[k] = "conn" /\ cl'[k] = "gone")
      BY <1>5 DEF ServerTimeout, closeListener
    <2>2. \A k \in Peer : serverMoves(k)
      BY <2>1 DEF serverMoves
    <2> QED BY <1>1, <2>2
  <1> QED BY <1>2, <1>3, <1>4, <1>5 DEF ServerStep

\* SRV_INFO stays a single message, whatever the server does.
LEMMA InfoServer ==
  ASSUME MaxRuns <= 1, ServerInv, RoundInv, ServerStep \/ ServerTimeout
  PROVE  infoOK' /\ (mpc \notin {"lstn", "info", "done", "dead"} => UNCHANGED msrv)
  <1>0. infoOK
    BY DEF RoundInv
  <1>1. UNCHANGED <<mpc, mclnt>>
    BY OthersLeaveMaster, ServerMoves DEF mvars
  <1>2. CASE ServerReset \/ ServerTimeout
    <2>2. sq' = <<>> /\ srv' # "info" /\ UNCHANGED msrv
      BY <1>2 DEF ServerReset, ServerTimeout
    <2>3. Len(sq') = 0
      BY <2>2
    <2> QED BY <1>0, <1>1, <2>2, <2>3 DEF infoOK
  <1>3. CASE ServerListen \/ ServerAccept
    BY <1>0, <1>1, <1>3 DEF ServerListen, ServerAccept, infoOK
  <1>4. CASE \E p \in Peer : ServerReap(p)
    BY <1>0, <1>1, <1>4 DEF ServerReap, infoOK
  <1>5. CASE ServerInfo
    <2>1. srv = "info" /\ srv' = "listen" /\ sq' = <<>> /\ msrv' = Append(msrv, "SRV_INFO")
      BY <1>5, TellsOwn DEF ServerInfo
    <2>2. Len(sq') = 0 /\ (msrv = <<>> => Len(msrv') = 1)
      BY <2>1
    <2> QED BY <1>0, <1>1, <2>1, <2>2 DEF infoOK
  <1>6. CASE ServerCommand
    <2>1. /\ srv = "cmd" /\ sq # <<>> /\ UNCHANGED msrv
          /\ Head(sq) = sq[1] /\ Len(sq) >= 1 /\ Len(sq) \in Nat
          /\ Len(Tail(sq)) = Len(sq) - 1
          /\ \A i \in 1 .. Len(Tail(sq)) : Tail(sq)[i] = sq[i + 1]
      BY <1>6, QueueEnds DEF ServerCommand, ServerInv, TypeOK
    <2>0. 1 \in 1 .. Len(sq)
      BY <2>1
    <2>4. UNCHANGED msrv /\ srv # "info"
      BY <2>1
    <2>2. CASE opensListener(sq[1])
      <3>1. srv' = "info" /\ sq' = Tail(sq)
        BY <1>6, <2>1, <2>2 DEF ServerCommand, opensListener
      <3>2. mpc \in {"lstn", "info", "done", "dead"}
        BY <1>0, <2>0, <2>1, <2>2 DEF infoOK
      <3>3. mpc \in {"lstn", "info"} => msrv = <<>> /\ Len(sq) = 1
        BY <1>0, <2>0, <2>1, <2>2 DEF infoOK
      <3>4. mpc \in {"lstn", "info"} => Len(sq') = 0
        BY <2>1, <3>1, <3>3
      <3> QED BY <1>0, <1>1, <2>4, <3>1, <3>2, <3>3, <3>4 DEF infoOK
    <2>3. CASE ~ opensListener(sq[1])
      <3>1. srv' = "reset" /\ sq' = <<>>
        BY <1>6, <2>1, <2>3 DEF ServerCommand, opensListener
      <3>2. Len(sq') = 0
        BY <3>1
      <3> QED BY <1>0, <1>1, <2>4, <3>1, <3>2 DEF infoOK
    <2> QED BY <2>2, <2>3
  <1> QED BY <1>2, <1>3, <1>4, <1>5, <1>6 DEF ServerStep

\* The server process keeps the rounds in order: it only moves a client that
\* is still dialling and a child that is gone.
LEMMA RoundServer ==
  ASSUME MaxRuns <= 1, ServerInv, RoundInv, ServerStep \/ ServerTimeout
  PROVE  RoundInv'
  <1>1. UNCHANGED mvars
    BY OthersLeaveMaster
  <1>2. /\ UNCHANGED <<run, mpc, clients, left, parties, mine, mclnt>>
        /\ UNCHANGED <<msgcnt, latency, roundOrder, startOrder>>
        /\ UNCHANGED <<kq, kjob, rcvd, cq, cjob, sent, pipe, echoes>>
    BY <1>1, ServerMoves DEF mvars, msgcnt, latency, parties, roundOrder, startOrder, mine
  <1>3. infoOK' /\ (mpc \notin {"lstn", "info", "done", "dead"} => UNCHANGED msrv)
    BY InfoServer
  <1>4. mpc \in {"fork", "ready", "nap2", "arm", "acks", "exec", "finC", "finS", "term"} =>
          mine \subseteq Peer
    <2>1. mpc # "off" => run \in 1 .. MaxRuns
      BY OptionAssumption DEF ServerInv, TypeOK, masterOK
    <2> QED BY <2>1, MineInPeer
  <1>5. ASSUME NEW p \in Peer
        PROVE  /\ quiet(p) => quiet(p)'
               /\ dialling(p) => dialling(p)'
               /\ \A A : armed(p, A) => armed(p, A)'
               /\ \A C, F : streaming(p, C, F) => streaming(p, C, F)'
    <2>0. serverMoves(p) /\ (cl[p] = "conn" => kid[p] = "none")
      BY ServerMoves DEF ServerInv, childrenOK
    <2>1. still(p) => still(p)'
      BY <1>2 DEF still
    <2>2. clientRests(p) => clientRests(p)' /\ cl'[p] = cl[p]
      BY <1>2, <2>0 DEF clientRests, serverMoves
    <2>3. kidRests(p) => kidRests(p)'
      BY <1>2, <2>0 DEF kidRests, serverMoves
    <2>4. quiet(p) => quiet(p)'
      BY <2>1, <2>2, <2>3 DEF quiet
    <2>5. dialling(p) => dialling(p)'
      BY <1>2, <2>0, <2>1, <2>3 DEF dialling, serverMoves
    <2>6. \A A : armed(p, A) => armed(p, A)'
      BY <1>2, <2>0, <2>1, <2>2 DEF armed, serverMoves
    <2>7. \A C, F : streaming(p, C, F) => streaming(p, C, F)'
      <3>1. SUFFICES ASSUME NEW C, NEW F, streaming(p, C, F) PROVE streaming(p, C, F)'
        OBVIOUS
      <3>2. cl[p] # "conn"
        BY <3>1 DEF streaming, clientRests
      <3>3. cl'[p] = cl[p] /\ (kid'[p] = kid[p] \/ (kid[p] = "gone" /\ kid'[p] = "reaped"))
        BY <2>0, <3>2 DEF serverMoves
      <3> QED BY <1>2, <2>1, <2>2, <2>3, <3>1, <3>3 DEF streaming
    <2> QED BY <2>4, <2>5, <2>6, <2>7
  <1>6. CASE mpc \in {"fork", "nap2", "arm", "term"}
    <2>1. msrv = <<>> /\ mclnt = <<>> /\ \A p \in mine : quiet(p)
      BY <1>6 DEF RoundInv
    <2>2. msrv' = <<>> /\ mclnt' = <<>> /\ \A p \in mine : quiet(p)'
      BY <1>2, <1>3, <1>4, <1>5, <1>6, <2>1
    <2> QED BY <1>2, <1>3, <1>6, <2>2 DEF RoundInv
  <1>7. CASE mpc = "ready"
    <2>1. /\ msrv = <<>> /\ dialling(<<run, clients>>)
          /\ \A p \in mine : p # <<run, clients>> => quiet(p)
      BY <1>7 DEF RoundInv
    <2>2. <<run, clients>> \in Peer
      <3>1. <<run, clients>> \in mine
        BY <1>7 DEF mine, ServerInv, TypeOK, masterOK
      <3> QED BY <1>4, <1>7, <3>1
    <2>3. PICK n \in Peer : n = <<run, clients>>
      BY <2>2
    <2>4. dialling(n)' /\ \A p \in mine : p # n => quiet(p)'
      BY <1>4, <1>5, <1>7, <2>1, <2>3
    <2>5. dialling(<<run, clients>>)'
      BY <1>2, <2>3, <2>4 DEF dialling, still, kidRests
    <2>6. n = <<run, clients>>' /\ mpc' = "ready" /\ mine' = mine /\ msrv' = <<>>
      BY <1>2, <1>3, <1>7, <2>1, <2>3
    <2> QED BY <1>3, <2>4, <2>5, <2>6 DEF RoundInv
  <1>8. CASE mpc = "acks"
    <2>1. PICK A \in SUBSET mine :
            /\ Cardinality(A) = parties - left + Len(msrv)
            /\ \A p \in mine : armed(p, A)
      BY <1>8 DEF RoundInv
    <2>2. \A p \in mine : armed(p, A)'
      BY <1>4, <1>5, <1>8, <2>1
    <2>3. \E B \in SUBSET mine' : /\ Cardinality(B) = (parties - left + Len(msrv))'
                                  /\ \A p \in mine' : armed(p, B)'
      BY <1>2, <1>3, <1>8, <2>1, <2>2
    <2> QED BY <1>2, <1>3, <1>8, <2>3 DEF RoundInv
  <1>9. CASE mpc = "exec"
    <2>1. msrv = <<>> /\ mclnt = <<>> /\ \A p \in mine : armed(p, {p})
      BY <1>9 DEF RoundInv
    <2>2. \A p \in mine : armed(p, {p})'
      BY <1>4, <1>5, <1>9, <2>1
    <2> QED BY <1>2, <1>3, <1>9, <2>1, <2>2 DEF RoundInv
  <1>10. CASE mpc \in {"finC", "finS"}
    <2>1. PICK C \in SUBSET mine, F \in SUBSET mine :
            /\ Cardinality(C) = parties - left + Len(mclnt) + (IF mpc = "finS" THEN 1 ELSE 0)
            /\ Cardinality(F) = parties - left + Len(msrv)
            /\ \A p \in mine : streaming(p, C, F)
      BY <1>10 DEF RoundInv
    <2>2. \A p \in mine : streaming(p, C, F)'
      BY <1>4, <1>5, <1>10, <2>1
    <2> QED BY <1>2, <1>3, <1>10, <2>1, <2>2 DEF RoundInv
  <1>11. CASE mpc \in {"off", "find", "nap", "lstn", "info", "reap", "done", "dead"}
    BY <1>2, <1>3, <1>11 DEF RoundInv
  <1> QED BY <1>6, <1>7, <1>8, <1>9, <1>10, <1>11 DEF ServerInv, TypeOK

LEMMA LastOne ==
  ASSUME NEW S, NEW s \in Seq(S), Len(s) = 1
  PROVE  Tail(s) = <<>>
  <1>1. s # <<>> /\ Tail(s) \in Seq(S) /\ Len(Tail(s)) = 0
    BY QueueEnds
  <1> QED BY <1>1, QueueEnds

\* A multicast while nobody is connected, as far as the server's queue goes.
LEMMA QueueAfterOrder ==
  ASSUME TypeOK, NEW c \in Order, toServers(c)
  PROVE  \/ sq' = sq
         \/ /\ Len(sq') = Len(sq) + 1 /\ Len(sq) \in Nat
            /\ \A i \in 1 .. Len(sq) : sq'[i] = sq[i]
            /\ sq'[Len(sq')] = c
  BY QueueEnds DEF TypeOK, toServers

\* The master's part of the order at the start.
LEMMA InfoMaster ==
  ASSUME MaxRuns <= 1, ServerInv, RoundInv, MasterStart \/ MasterStep \/ MasterDies
  PROVE  infoOK'
  <1>0. infoOK /\ TypeOK /\ masterOK
    BY DEF RoundInv, ServerInv
  <1>1. UNCHANGED srv
    BY DEF svars, MasterStart, MasterStep, MasterDies, MasterRestart, MasterConnType,
      MasterListener, MasterInfo, MasterFork, MasterReady, MasterNap, MasterArm, MasterAck,
      MasterExec, MasterClientDone, MasterServerDone, MasterTerm, MasterReap
  <1>2. /\ order("RESTART") \in Order /\ order(conn_typ) \in Order /\ roundOrder \in Order
        /\ ~ opensListener(order("RESTART")) /\ ~ opensListener(roundOrder)
    BY <1>0, Orders DEF opensListener, order, roundOrder, TypeOK
  <1>3. CASE MasterStart
    <2>1. mpc = "off"
      BY <1>0, <1>3, OptionAssumption DEF MasterStart, masterOK, TypeOK
    <2> QED BY <1>0, <1>1, <1>3, <2>1 DEF MasterStart, infoOK, svars
  <1>4. CASE MasterRestart \/ MasterArm
    <2>1. \E c \in {order("RESTART"), roundOrder} : toServers(c)
      BY <1>4 DEF MasterRestart, MasterArm, roundOrder
    <2>2. PICK c \in Order : toServers(c) /\ ~ opensListener(c)
      BY <1>2, <2>1
    <2>3. mpc \notin {"lstn", "info", "done", "dead"} /\ mpc' \in {"nap", "acks"}
          /\ UNCHANGED <<msrv, mclnt>> /\ (mpc' = "nap" => mpc = "find")
      BY <1>4 DEF MasterRestart, MasterArm
    <2>4. \A i \in 1 .. Len(sq) : ~ opensListener(sq[i])
      BY <1>0, <2>3 DEF infoOK
    <2>5. \A i \in 1 .. Len(sq') : ~ opensListener(sq'[i])
      <3>1. CASE sq' = sq
        BY <2>4, <3>1
      <3>2. CASE /\ Len(sq') = Len(sq) + 1 /\ Len(sq) \in Nat
                 /\ \A i \in 1 .. Len(sq) : sq'[i] = sq[i]
                 /\ sq'[Len(sq')] = c
        BY <2>2, <2>4, <3>2
      <3> QED BY <1>0, <2>2, <3>1, <3>2, QueueAfterOrder
    <2> QED BY <1>0, <1>1, <2>3, <2>5 DEF infoOK
  <1>5. CASE MasterConnType
    <2>1. /\ mpc = "nap" /\ mpc' = "lstn" /\ UNCHANGED <<msrv, mclnt>>
          /\ toServers(order(conn_typ))
      BY <1>5 DEF MasterConnType
    <2>2. /\ msrv = <<>> /\ mclnt = <<>> /\ srv # "info"
          /\ \A i \in 1 .. Len(sq) : ~ opensListener(sq[i])
      BY <1>0, <2>1 DEF infoOK
    <2>3. \A i \in 1 .. Len(sq') : opensListener(sq'[i]) => i = Len(sq')
      <3>1. CASE sq' = sq
        BY <2>2, <3>1
      <3>2. CASE /\ Len(sq') = Len(sq) + 1 /\ Len(sq) \in Nat
                 /\ \A i \in 1 .. Len(sq) : sq'[i] = sq[i]
        BY <2>2, <3>2
      <3> QED BY <1>0, <1>2, <2>1, <3>1, <3>2, QueueAfterOrder
    <2> QED BY <1>1, <2>1, <2>2, <2>3 DEF infoOK
  <1>6. CASE MasterListener
    BY <1>0, <1>1, <1>6 DEF MasterListener, infoOK, svars
  <1>7. CASE MasterInfo
    <2>1. /\ mpc = "info" /\ msrv # <<>> /\ UNCHANGED sq
          /\ mpc' \in {"fork", "nap2", "term"}
      BY <1>7 DEF MasterInfo, begin, svars
    <2>2. srv # "info" /\ \A i \in 1 .. Len(sq) : ~ opensListener(sq[i])
      BY <1>0, <2>1 DEF infoOK
    <2> QED BY <1>1, <2>1, <2>2 DEF infoOK
  <1>8. CASE MasterFork \/ MasterReady \/ MasterNap \/ MasterAck \/ MasterExec
             \/ MasterClientDone \/ MasterServerDone \/ MasterTerm \/ \E k \in Peer : MasterReap(k)
    <2>1. UNCHANGED sq /\ mpc \notin {"off", "find", "nap", "lstn", "info", "done", "dead"}
      BY <1>8 DEF svars, MasterFork, MasterReady, MasterNap, MasterAck,
        MasterExec, MasterClientDone, MasterServerDone, MasterTerm, MasterReap
    <2>2. mpc' \notin {"off", "find", "nap", "lstn", "info"}
      BY <1>8 DEF MasterFork, MasterReady, MasterNap, MasterAck, MasterExec, MasterClientDone,
        MasterServerDone, MasterTerm, MasterReap, endRound, begin
    <2> QED BY <1>0, <1>1, <2>1, <2>2 DEF infoOK
  <1>9. CASE MasterDies
    BY <1>9 DEF MasterDies, infoOK
  <1> QED BY <1>3, <1>4, <1>5, <1>6, <1>7, <1>8, <1>9 DEF MasterStep

\* Before the first client there is nothing to keep apart.
LEMMA RoundMasterStart ==
  ASSUME MaxRuns <= 1, ServerInv, RoundInv,
         MasterStart \/ MasterRestart \/ MasterConnType \/ MasterListener \/ MasterInfo
  PROVE  RoundInv'
  <1>1. infoOK'
    BY InfoMaster DEF MasterStep
  <1>2. CASE MasterStart \/ MasterRestart \/ MasterConnType \/ MasterListener
    <2>1. mpc' \in {"find", "nap", "lstn", "info"}
      BY <1>2 DEF MasterStart, MasterRestart, MasterConnType, MasterListener
    <2> QED BY <1>1, <2>1 DEF RoundInv
  <1>3. CASE MasterInfo
    <2>1. /\ mpc = "info" /\ msrv # <<>> /\ msrv' = Tail(msrv) /\ mpc' \in {"fork", "nap2", "term"}
          /\ UNCHANGED <<run, clients, mclnt>>
      BY <1>3 DEF MasterInfo, begin
    <2>2. infoOK /\ TypeOK /\ clients = 0
      BY <2>1 DEF RoundInv, ServerInv, masterOK
    <2>3. mclnt = <<>> /\ Len(msrv) = 1
      BY <2>1, <2>2 DEF infoOK
    <2>4. msrv' = <<>>
      BY <2>1, <2>2, <2>3, LastOne DEF TypeOK
    <2>5. mine' = {}
      BY <2>1, <2>2 DEF mine
    <2> QED BY <1>1, <2>1, <2>3, <2>4, <2>5 DEF RoundInv
  <1> QED BY <1>2, <1>3

\* client_create and its answer.
LEMMA RoundMasterClients ==
  ASSUME MaxRuns <= 1, ServerInv, RoundInv, MasterFork \/ MasterReady \/ MasterNap
  PROVE  RoundInv'
  <1>1. infoOK'
    BY InfoMaster DEF MasterStep
  <1>t. TypeOK /\ masterOK
    BY DEF ServerInv
  <1>0. mpc # "off" /\ run \in 1 .. MaxRuns
    BY <1>t, OptionAssumption DEF TypeOK, masterOK, MasterFork, MasterReady, MasterNap
  <1>2. CASE MasterFork
    <2>1. /\ mpc = "fork" /\ mpc' = "ready" /\ clients' = clients + 1 /\ clients \in Nat
          /\ cl' = [cl EXCEPT ![<<run, clients + 1>>] = "born"]
          /\ UNCHANGED <<run, msrv, mclnt, kid, kq, kjob, rcvd, cq, pipe, echoes>>
      BY <1>2, <1>t DEF MasterFork, kvars, TypeOK
    <2>2. msrv = <<>> /\ mclnt = <<>> /\ \A k \in mine : quiet(k)
      BY <2>1 DEF RoundInv
    <2>n. <<run, clients + 1>> \in Peer
      <3>1. clients + 1 \in 1 .. req_clients
        BY <1>t, <2>1, OptionAssumption DEF masterOK
      <3> QED BY <1>0, <3>1 DEF Peer
    <2>3. PICK n \in Peer : n = <<run, clients + 1>> /\ n[1] = run /\ n[2] = clients + 1
      BY <2>n
    <2>4. fresh(n)
      BY <2>1, <2>3 DEF ServerInv, ahead
    <2>5. dialling(n)'
      BY <1>t, <2>1, <2>2, <2>3, <2>4 DEF fresh, dialling, still, kidRests, TypeOK
    <2>6. \A k \in mine' : k # n => k \in mine
      BY <2>1, <2>3 DEF mine
    <2>7. \A k \in Peer : k # n => (quiet(k) => quiet(k)')
      BY <1>t, <2>1, <2>3 DEF quiet, still, clientRests, kidRests, TypeOK
    <2>8. mine \subseteq Peer
      BY <1>0, MineInPeer
    <2>9. n = <<run, clients>>'
      BY <2>1, <2>3
    <2>10. dialling(<<run, clients>>)'
      BY <2>5, <2>9 DEF dialling, still, kidRests
    <2>11. \A k \in mine' : k # <<run, clients>>' => quiet(k)'
      BY <2>2, <2>6, <2>7, <2>8, <2>9
    <2> QED BY <1>1, <2>1, <2>2, <2>10, <2>11 DEF RoundInv
  <1>3. CASE MasterReady
    <2>1. /\ mpc = "ready" /\ mpc' \in {"fork", "nap2"} /\ mclnt # <<>> /\ mclnt' = Tail(mclnt)
          /\ UNCHANGED <<run, clients, msrv, kid, kq, kjob, rcvd, cl, cq, pipe, echoes>>
      BY <1>3 DEF MasterReady, kvars, cvars
    <2>2. /\ msrv = <<>> /\ dialling(<<run, clients>>)
          /\ \A k \in mine : k # <<run, clients>> => quiet(k)
      BY <2>1 DEF RoundInv
    <2>3. Len(mclnt) = 1 /\ quiet(<<run, clients>>)
      BY <2>1, <2>2 DEF dialling, quiet, clientRests
    <2>4. mclnt' = <<>>
      BY <1>t, <2>1, <2>3, LastOne DEF TypeOK
    <2>5. \A k \in mine : quiet(k)
      BY <2>2, <2>3
    <2>6. \A k \in mine' : quiet(k)'
      BY <2>1, <2>5 DEF mine, quiet, still, clientRests, kidRests
    <2> QED BY <1>1, <2>1, <2>2, <2>4, <2>6 DEF RoundInv
  <1>4. CASE MasterNap
    <2>1. /\ mpc = "nap2" /\ mpc' = "arm"
          /\ UNCHANGED <<run, clients, msrv, mclnt, kid, kq, kjob, rcvd, cl, cq, pipe, echoes>>
      BY <1>4 DEF MasterNap, kvars, cvars
    <2>2. msrv = <<>> /\ mclnt = <<>> /\ \A k \in mine : quiet(k)
      BY <2>1 DEF RoundInv
    <2>3. \A k \in mine' : quiet(k)'
      BY <2>1, <2>2 DEF mine, quiet, still, clientRests, kidRests
    <2> QED BY <1>1, <2>1, <2>2, <2>3 DEF RoundInv
  <1> QED BY <1>2, <1>3, <1>4

\* The order of a round goes out, is acknowledged, and the clients start.
LEMMA RoundMasterOrders ==
  ASSUME MaxRuns <= 1, NoEmptyRound, ServerInv, RoundInv, MasterArm \/ MasterAck \/ MasterExec
  PROVE  RoundInv'
  <1>1. infoOK'
    BY InfoMaster DEF MasterStep
  <1>t. TypeOK /\ masterOK /\ Len(msrv) \in Nat /\ Len(mclnt) \in Nat
    BY QueueEnds DEF ServerInv, TypeOK
  <1>0. Testing /\ run \in 1 .. MaxRuns
    BY <1>t, OptionAssumption DEF TypeOK, masterOK, MasterArm, MasterAck, MasterExec, Testing
  <1>2. /\ mine \subseteq Peer /\ parties = Cardinality(mine) /\ parties \in Nat /\ left \in Nat
        /\ msgcnt \in Nat /\ msgcnt >= 1
    BY <1>0, <1>t, MineInPeer, AllAnswer, RoundHasMessages DEF TypeOK
  <1>3. UNCHANGED <<run, test, iter, clients, mclnt, kid, kjob, rcvd, cl, pipe, echoes>>
    BY DEF MasterArm, MasterAck, MasterExec, kvars, cvars
  <1>4. UNCHANGED <<mine, parties, latency, msgcnt, roundOrder, startOrder>>
    BY <1>3 DEF mine, parties, latency, msgcnt, roundOrder, startOrder
  <1>5. CASE MasterArm
    <2>1. /\ mpc = "arm" /\ mpc' = "acks" /\ left' = parties /\ UNCHANGED <<msrv, cq>>
          /\ toServers(roundOrder)
      BY <1>5 DEF MasterArm, cvars, roundOrder
    <2>2. msrv = <<>> /\ mclnt = <<>> /\ \A k \in mine : quiet(k)
      BY <2>1 DEF RoundInv
    <2>3. \A k \in mine : armed(k, {})'
      <3>1. SUFFICES ASSUME NEW k \in mine PROVE armed(k, {})'
        OBVIOUS
      <3>2. k \in Peer /\ quiet(k)
        BY <1>2, <2>2
      <3>3. kq'[k] = IF kidBound(k) THEN Append(kq[k], roundOrder) ELSE kq[k]
        BY <2>1, <3>2 DEF toServers
      <3>4. kid[k] = "cmd" => kq'[k] = <<roundOrder>>
        <4>1. ASSUME kid[k] = "cmd" PROVE kq'[k] = <<roundOrder>>
          <5>1. kq[k] = <<>> /\ kidBound(k)
            BY <3>2, <4>1 DEF quiet, kidRests, kidBound
          <5> QED BY <3>3, <5>1
        <4> QED BY <4>1
      <3>5. kid[k] \in {"none", "forked"} => kq'[k] = <<>>
        BY <3>2, <3>3 DEF quiet, kidRests, kidBound
      <3> QED BY <1>3, <1>4, <2>1, <3>2, <3>4, <3>5
        DEF armed, quiet, still, clientRests, kidRests
    <2>4. Cardinality({}) = parties - left' + Len(msrv')
      BY <1>2, <2>1, <2>2, FS_EmptySet
    <2>5. \E B \in SUBSET mine' : /\ Cardinality(B) = (parties - left + Len(msrv))'
                                  /\ \A p \in mine' : armed(p, B)'
      BY <1>4, <2>3, <2>4
    <2> QED BY <1>1, <1>3, <2>1, <2>2, <2>5 DEF RoundInv
  <1>6. CASE MasterAck
    <2>1. /\ mpc = "acks" /\ msrv # <<>> /\ msrv' = Tail(msrv) /\ left' = left - 1
          /\ mpc' = IF left = 1 THEN "exec" ELSE "acks"
          /\ UNCHANGED <<kq, cq>>
      BY <1>6 DEF MasterAck, kvars, cvars
    <2>2. PICK A \in SUBSET mine :
            /\ Cardinality(A) = parties - left + Len(msrv)
            /\ \A p \in mine : armed(p, A)
      BY <2>1 DEF RoundInv
    <2>3. mclnt = <<>> /\ Len(msrv) >= 1 /\ Len(msrv') = Len(msrv) - 1
      BY <1>t, <2>1, QueueEnds DEF RoundInv, TypeOK
    <2>4. \A p \in mine : armed(p, A)'
      BY <1>3, <1>4, <2>1, <2>2 DEF armed, still, clientRests
    <2>5. CASE left = 1
      <3>1. Len(msrv) = 1 /\ A = mine
        BY <1>t, <1>2, <2>2, <2>3, <2>5, AllOfMine
      <3>2. msrv' = <<>>
        BY <1>t, <2>1, <3>1, LastOne DEF TypeOK
      <3>3. \A p \in mine : armed(p, {p})'
        BY <2>4, <3>1 DEF armed
      <3> QED BY <1>1, <1>3, <1>4, <2>1, <2>3, <2>5, <3>2, <3>3 DEF RoundInv
    <2>6. CASE left # 1
      <3>1. Cardinality(A) = parties - left' + Len(msrv')
        BY <1>t, <1>2, <2>1, <2>2, <2>3
      <3>2. \E B \in SUBSET mine' : /\ Cardinality(B) = (parties - left + Len(msrv))'
                                    /\ \A p \in mine' : armed(p, B)'
        BY <1>4, <2>4, <3>1
      <3> QED BY <1>1, <1>3, <2>1, <2>3, <2>6, <3>2 DEF RoundInv
    <2> QED BY <2>5, <2>6
  <1>7. CASE MasterExec
    <2>1. /\ mpc = "exec" /\ mpc' = "finC" /\ left' = parties /\ UNCHANGED <<msrv, kq, cjob, sent>>
          /\ toClients(startOrder)
      BY <1>7 DEF MasterExec, kvars, svars, startOrder
    <2>2. msrv = <<>> /\ mclnt = <<>> /\ \A k \in mine : armed(k, {k})
      BY <2>1 DEF RoundInv
    <2>3. \A k \in mine : streaming(k, {}, {})'
      <3>1. SUFFICES ASSUME NEW k \in mine PROVE streaming(k, {}, {})'
        OBVIOUS
      <3>2. k \in Peer /\ armed(k, {k})
        BY <1>2, <2>2
      <3>3. cq'[k] = IF clntBound(k) THEN Append(cq[k], startOrder) ELSE cq[k]
        BY <2>1, <3>2 DEF toClients
      <3>4. cl[k] = "cmd" => cq'[k] = <<startOrder>>
        <4>1. ASSUME cl[k] = "cmd" PROVE cq'[k] = <<startOrder>>
          <5>1. cq[k] = <<>> /\ clntBound(k)
            BY <3>2, <4>1 DEF armed, clientRests, clntBound
          <5> QED BY <3>3, <5>1
        <4> QED BY <4>1
      <3> QED BY <1>3, <1>4, <2>1, <3>2, <3>4 DEF armed, streaming, still, clientRests
    <2>4. /\ Cardinality({}) = parties - left' + Len(mclnt') + 0
          /\ Cardinality({}) = parties - left' + Len(msrv')
      BY <1>2, <1>3, <2>1, <2>2, FS_EmptySet
    <2>5. \E C, F \in SUBSET mine' :
            /\ Cardinality(C) = (parties - left + Len(mclnt) + (IF mpc = "finS" THEN 1 ELSE 0))'
            /\ Cardinality(F) = (parties - left + Len(msrv))'
            /\ \A k \in mine' : streaming(k, C, F)'
      BY <1>4, <2>1, <2>3, <2>4
    <2> QED BY <1>1, <2>1, <2>5 DEF RoundInv
  <1> QED BY <1>5, <1>6, <1>7

\* The answers at the end of a round, and what follows the last of them.
LEMMA RoundMasterEnds ==
  ASSUME MaxRuns <= 1, NoEmptyRound, ServerInv, RoundInv, MasterClientDone \/ MasterServerDone
  PROVE  RoundInv'
  <1>1. infoOK'
    BY InfoMaster DEF MasterStep
  <1>t. TypeOK /\ masterOK /\ Len(msrv) \in Nat /\ Len(mclnt) \in Nat
    BY QueueEnds DEF ServerInv, TypeOK
  <1>0. Testing /\ run \in 1 .. MaxRuns
    BY <1>t, OptionAssumption DEF TypeOK, masterOK, MasterClientDone, MasterServerDone, Testing
  <1>2. /\ mine \subseteq Peer /\ parties = Cardinality(mine) /\ parties \in Nat /\ left \in Nat
        /\ msgcnt \in Nat /\ msgcnt >= 1
    BY <1>0, <1>t, MineInPeer, AllAnswer, RoundHasMessages DEF TypeOK
  <1>3. UNCHANGED <<run, clients, mine, kid, kq, kjob, rcvd, cl, cq, cjob, sent, pipe, echoes>>
    BY DEF MasterClientDone, MasterServerDone, kvars, cvars, mine
  <1>4. PICK C \in SUBSET mine, F \in SUBSET mine :
          /\ Cardinality(C) = parties - left + Len(mclnt) + (IF mpc = "finS" THEN 1 ELSE 0)
          /\ Cardinality(F) = parties - left + Len(msrv)
          /\ \A p \in mine : streaming(p, C, F)
    BY DEF RoundInv, MasterClientDone, MasterServerDone
  <1>5. ASSUME UNCHANGED <<test, iter>>
        PROVE  /\ UNCHANGED <<parties, latency, msgcnt>>
               /\ \A p \in mine : streaming(p, C, F)'
    <2>1. UNCHANGED <<parties, latency, msgcnt, roundOrder, startOrder>>
      BY <1>3, <1>5 DEF parties, latency, msgcnt, roundOrder, startOrder
    <2> QED BY <1>3, <1>4, <2>1 DEF streaming, still, clientRests, kidRests
  <1>6. CASE MasterClientDone
    <2>1. /\ mpc = "finC" /\ mpc' = "finS" /\ mclnt # <<>> /\ mclnt' = Tail(mclnt)
          /\ UNCHANGED <<test, iter, left, msrv>>
      BY <1>6 DEF MasterClientDone
    <2>2. Len(mclnt') = Len(mclnt) - 1
      BY <1>t, <2>1, QueueEnds DEF TypeOK
    <2>3. Cardinality(C) = parties - left + Len(mclnt') + 1
      BY <1>t, <1>2, <1>4, <2>1, <2>2
    <2>4. \E D, G \in SUBSET mine' :
            /\ Cardinality(D) = (parties - left + Len(mclnt) + (IF mpc = "finS" THEN 1 ELSE 0))'
            /\ Cardinality(G) = (parties - left + Len(msrv))'
            /\ \A k \in mine' : streaming(k, D, G)'
      BY <1>3, <1>4, <1>5, <2>1, <2>3
    <2> QED BY <1>1, <2>1, <2>4 DEF RoundInv
  <1>7. CASE MasterServerDone /\ left # 1
    <2>1. /\ mpc = "finS" /\ mpc' = "finC" /\ msrv # <<>> /\ msrv' = Tail(msrv) /\ left' = left - 1
          /\ UNCHANGED <<test, iter, mclnt>>
      BY <1>7 DEF MasterServerDone
    <2>2. Len(msrv') = Len(msrv) - 1
      BY <1>t, <2>1, QueueEnds DEF TypeOK
    <2>3. /\ Cardinality(C) = parties - left' + Len(mclnt') + 0
          /\ Cardinality(F) = parties - left' + Len(msrv')
      BY <1>t, <1>2, <1>4, <2>1, <2>2
    <2>4. \E D, G \in SUBSET mine' :
            /\ Cardinality(D) = (parties - left + Len(mclnt) + (IF mpc = "finS" THEN 1 ELSE 0))'
            /\ Cardinality(G) = (parties - left + Len(msrv))'
            /\ \A k \in mine' : streaming(k, D, G)'
      BY <1>3, <1>4, <1>5, <2>1, <2>3
    <2> QED BY <1>1, <2>1, <2>4 DEF RoundInv
  <1>8. CASE MasterServerDone /\ left = 1
    <2>1. /\ mpc = "finS" /\ mpc' \in {"arm", "fork", "nap2", "term", "dead"}
          /\ msrv # <<>> /\ msrv' = Tail(msrv) /\ UNCHANGED mclnt
      BY <1>8 DEF MasterServerDone, endRound, begin
    <2>2. Len(msrv) = 1 /\ mclnt = <<>> /\ C = mine /\ F = mine
      <3>1. Len(msrv) >= 1
        BY <1>t, <2>1, QueueEnds DEF TypeOK
      <3>2. Cardinality(C) <= parties /\ Cardinality(F) <= parties
        BY <1>t, <1>2, AllOfMine
      <3>3. Len(mclnt) = 0 /\ Len(msrv) = 1 /\ Cardinality(C) = parties /\ Cardinality(F) = parties
        <4>1. /\ Cardinality(C) = parties - 1 + Len(mclnt) + 1
              /\ Cardinality(F) = parties - 1 + Len(msrv)
          BY <1>4, <1>8, <2>1
        <4>2. parties \in Nat /\ Len(mclnt) \in Nat /\ Len(msrv) \in Nat
          BY <1>t, <1>2
        <4>3. \A c, f, p, m, n \in Nat :
                c = p - 1 + m + 1 /\ f = p - 1 + n /\ c <= p /\ f <= p /\ n >= 1 =>
                  m = 0 /\ n = 1 /\ c = p /\ f = p
          OBVIOUS
        <4>4. Cardinality(C) \in Nat /\ Cardinality(F) \in Nat
          BY <1>t, AllOfMine
        <4> QED BY <3>1, <3>2, <4>1, <4>2, <4>3, <4>4
      <3> QED BY <1>t, <1>2, <3>3, AllOfMine, QueueEnds DEF TypeOK
    <2>3. msrv' = <<>>
      BY <1>t, <2>1, <2>2, LastOne DEF TypeOK
    <2>4. \A k \in mine : quiet(k)
      <3>1. SUFFICES ASSUME NEW k \in mine PROVE quiet(k)
        OBVIOUS
      <3>2. streaming(k, C, F) /\ k \in C /\ k \in F
        BY <1>4, <2>2
      <3>3. clientRests(k) /\ kidRests(k) /\ sent[k] = msgcnt
        BY <3>2 DEF streaming
      <3>4. /\ pipe[k] + msgcnt = sent[k] /\ cl[k] # "wait"
            /\ echoes[k] = IF latency THEN msgcnt - sent[k] + (IF cl[k] = "wait" THEN 1 ELSE 0) ELSE 0
        BY <3>2, <3>3 DEF streaming, clientRests
      <3>5. pipe[k] \in Nat
        BY <1>t, <1>2 DEF TypeOK
      <3>6. pipe[k] = 0 /\ echoes[k] = 0
        BY <1>2, <3>3, <3>4, <3>5
      <3> QED BY <3>3, <3>6 DEF quiet, still
    <2>5. \A k \in mine' : quiet(k)'
      BY <1>3, <2>4 DEF quiet, still, clientRests, kidRests
    <2> QED BY <1>1, <2>1, <2>2, <2>3, <2>5 DEF RoundInv
  <1> QED BY <1>6, <1>7, <1>8

\* Dismissing and collecting the clients, or dying, ends the rounds.
LEMMA RoundMasterTerm ==
  ASSUME MaxRuns <= 1, ServerInv, RoundInv,
         MasterTerm \/ MasterDies \/ \E k \in Peer : MasterReap(k)
  PROVE  RoundInv'
  <1>1. infoOK'
    BY InfoMaster DEF MasterStep
  <1>2. mpc' \in {"done", "reap", "dead"}
    BY DEF MasterTerm, MasterDies, MasterReap
  <1> QED BY <1>1, <1>2 DEF RoundInv

-----------------------------------------------------------------------------
(***************************************************************************)
(* The theorems about rounds.                                              *)
(***************************************************************************)

\* For any number of clients, of messages and of rounds, with waits that
\* expire and a master that may be killed: a master that is alone, and whose
\* rounds all have messages, knows from counting answers what it takes them
\* for.
THEOREM RoundInductive ==
  ASSUME MaxRuns <= 1, NoEmptyRound
  PROVE  Spec => [](ServerInv /\ RoundInv)
  <1>1. Init => RoundInv
    <2> SUFFICES ASSUME Init PROVE RoundInv
      OBVIOUS
    <2>1. Len(sq) = 0
      BY DEF Init
    <2> QED BY <2>1 DEF Init, RoundInv, infoOK
  <1>2. ServerInv /\ RoundInv /\ [Next]_vars => RoundInv'
    <2> SUFFICES ASSUME ServerInv, RoundInv, [Next]_vars PROVE RoundInv'
      OBVIOUS
    <2>1. CASE MasterStart \/ MasterStep \/ MasterDies
      BY <2>1, RoundMasterStart, RoundMasterClients, RoundMasterOrders, RoundMasterEnds,
        RoundMasterTerm DEF MasterStep
    <2>2. CASE ServerStep \/ ServerTimeout
      BY <2>2, RoundServer
    <2>3. CASE \E k \in Peer : ClientStep(k) \/ ClientTimeout(k) \/ KidStep(k) \/ KidTimeout(k)
      BY <2>3, RoundPeer DEF PeerStep
    <2>4. CASE UNCHANGED vars
      <3>1. infoOK'
        BY <2>4 DEF RoundInv, infoOK, vars, mvars, svars
      <3>2. UNCHANGED <<mpc, run, clients, left, mine, parties, latency, msgcnt, roundOrder, startOrder>>
        BY <2>4 DEF vars, mvars, mine, parties, latency, msgcnt, roundOrder, startOrder
      <3>3. UNCHANGED <<msrv, mclnt, kid, kq, kjob, rcvd, cl, cq, cjob, sent, pipe, echoes>>
        BY <2>4 DEF vars, kvars, cvars
      <3> QED BY <3>1, <3>2, <3>3
        DEF RoundInv, quiet, dialling, armed, streaming, still, clientRests, kidRests
    <2> QED BY <2>1, <2>2, <2>3, <2>4 DEF Next
  <1> QED BY <1>1, <1>2, ServerInductive, PTL DEF Spec

\* When the master starts its clients, every server child that is alive has
\* this round's order and reads.
THEOREM ServersReady ==
  ASSUME MaxRuns <= 1, NoEmptyRound
  PROVE  Spec => []AllReady
  <1>1. RoundInv => AllReady
    BY DEF RoundInv, AllReady, armed, roundOrder
  <1> QED BY <1>1, RoundInductive, PTL

\* When a round begins, nothing of the one before it is left anywhere.
THEOREM RoundsSeparate ==
  ASSUME MaxRuns <= 1, NoEmptyRound
  PROVE  Spec => []RoundsApart
  <1>1. RoundInv => RoundsApart
    BY DEF RoundInv, RoundsApart, quiet, still, clientRests, kidRests
  <1> QED BY <1>1, RoundInductive, PTL
=============================================================================
