----------------------------- MODULE TsServer -----------------------------
(***************************************************************************)
(* The server side of the portable TIPC test suite (tipc_ts_server.c): the *)
(* calls each test makes, and those of the loop that asks for a test.      *)
(***************************************************************************)
EXTENDS TsCommon

server_receiveConnectionless(socketType, numRequests, maxRequestSize) ==
  <<createSocketTIPC("sockfd_S", socketType), bindSocketTIPC("sockfd_S", setServerAddr)>>
  \o sendSyncTIPC(1)
  \o recvSocketTIPC("sockfd_S", numRequests, maxRequestSize, TRUE)
  \o <<closeSocketTIPC("sockfd_S")>>
  \o recvSyncTIPC(2)

server_test_connectionless(sockType) ==
  server_receiveConnectionless(sockType, 10, 100)
  \o server_receiveConnectionless(sockType, 10, 1000)
  \o IF sockType # "RDM" THEN <<>>
     ELSE server_receiveConnectionless(sockType, 100, 100)
          \o server_receiveConnectionless(sockType, 100, 1000)

\* A stress test starts again when it is done.
again(script) == Append(script, [op |-> "jump", by |-> -Len(script)])

server_stress_connectionless(sockType) == again(server_test_connectionless(sockType))

server_blast_connectionless(sockType, numPackets, packetSize) ==
  <<createSocketTIPC("sockfd_S", sockType), bindSocketTIPC("sockfd_S", setServerAddr)>>
  \o sendSyncTIPC(1) \o recvSyncTIPC(3)
  \o recvSocketTIPC("sockfd_S", numPackets, packetSize, FALSE)
  \o <<closeSocketTIPC("sockfd_S")>>
  \o recvSyncTIPC(2)

listening(sd, socketType, addr) ==
  <<createSocketTIPC(sd, socketType), listenSocketTIPC(sd), bindSocketTIPC(sd, addr)>>

server_blast_connection(sockType, numPackets, packetSize) ==
  listening("sockfd_L", sockType, setServerAddr)
  \o sendSyncTIPC(1)
  \o <<acceptSocketTIPC("sockfd_L", "sockfd_A"), closeSocketTIPC("sockfd_L")>>
  \o recvSyncTIPC(3)
  \o recvSocketTIPC("sockfd_A", numPackets, packetSize, FALSE)
  \o <<closeSocketTIPC("sockfd_A")>>
  \o recvSyncTIPC(2)

\* The sizes 1, 601, ... and at last 66000.
server_msizes ==
  [i \in 1 .. MAX_MSG \div TS_MSGINC + 1 |->
     LET m == 1 + TS_MSGINC * (i - 1) IN IF m > MAX_MSG THEN MAX_MSG ELSE m]

server_test_messageLimits ==
  FlattenSeq([i \in 1 .. Len(server_msizes) |->
                server_receiveConnectionless("RDM", 1, server_msizes[i])])

server_receiveConnection(socketType, numConns, numRequests, maxRequestSize, numReplies, replySize) ==
  listening("sockfd_L", socketType, setServerAddr)
  \o sendSyncTIPC(1)
  \o Times(numConns,
           <<acceptSocketTIPC("sockfd_L", "sockfd_A")>>
           \o recvSocketTIPC("sockfd_A", numRequests, maxRequestSize, TRUE)
           \o sendSocketTIPC("sockfd_A", numReplies, replySize)
           \o <<closeSocketTIPC("sockfd_A")>>)
  \o <<closeSocketTIPC("sockfd_L")>>
  \o recvSyncTIPC(2)

server_test_connection(sockType) ==
  server_receiveConnection(sockType, 1, 10, 100, 10, 100)
  \o server_receiveConnection(sockType, 1, 100, 1000, 0, 0)
  \o server_receiveConnection(sockType, 1, 0, 0, 50, 123)

server_receiveConnectionShutdown(socketType, numConns, numRequests, maxRequestSize) ==
  listening("sockfd_L", socketType, setServerAddr)
  \o sendSyncTIPC(1)
  \o Times(numConns,
           <<acceptSocketTIPC("sockfd_L", "sockfd_A")>>
           \o recvSocketTIPC("sockfd_A", numRequests, maxRequestSize, TRUE)
           \o <<receive("sockfd_A", 1, "all", FALSE, "end"), closeSocketTIPC("sockfd_A")>>)
  \o <<closeSocketTIPC("sockfd_L")>>
  \o recvSyncTIPC(2)

server_test_connection_shutdown(sockType) ==
  server_receiveConnectionShutdown(sockType, 1, 10, 100)
  \o server_receiveConnectionShutdown(sockType, 1, 100, 1000)
  \o server_receiveConnectionShutdown(sockType, 1, 500, 1000)

server_test_importance ==
  Times(CRITICAL - LOW + 1,
        server_test_connectionless("DGRAM") \o server_test_connectionless("RDM")
        \o server_test_connection("STREAM") \o server_test_connection("SEQPACKET")
        \o server_test_connection_shutdown("STREAM")
        \o server_test_connection_shutdown("SEQPACKET"))

testRange == setServerAddrTo(TS_TEST_TYPE, TS_LOWER, TS_UPPER)

\* The first message shows the name the connection was made to; the last one
\* the client sends is left unread.
server_test_anc_connection ==
  listening("sol", "SEQPACKET", testRange)
  \o sendSyncTIPC(1)
  \o <<acceptSocketTIPC("sol", "sos"), receive("sos", 2048, "some", TRUE, "named")>>
  \o Times(3, sendSocketBuffTIPC("sos", "ONE", 1, 4)
              \o <<receive("sos", 2048, "some", FALSE, "any")>>)
  \o sendSocketBuffTIPC("sos", "OMEGA", 1, 6)
  \o <<sleep, closeSocketTIPC("sos"), closeSocketTIPC("sol")>>
  \o recvSyncTIPC(2)

\* Mutant: the socket is closed before the client has said that it has sent.
server_test_anc_connectionless_ClosesEarly ==
  <<createSocketTIPC("sos", "RDM"), bindSocketTIPC("sos", testRange)>>
  \o sendSyncTIPC(1)
  \o <<receive("sos", 2048, "some", TRUE, "named"), closeSocketTIPC("sos")>>
  \o recvSyncTIPC(2) \o recvSyncTIPC(3)

server_test_anc_connectionless ==
  <<createSocketTIPC("sos", "RDM"), bindSocketTIPC("sos", testRange)>>
  \o sendSyncTIPC(1) \o recvSyncTIPC(2)
  \o <<receive("sos", 2048, "some", TRUE, "named"), sleep, closeSocketTIPC("sos")>>
  \o recvSyncTIPC(3)

-----------------------------------------------------------------------------
\* The multicast test: five sockets, one of them bound twice.
sd == <<"sd0", "sd1", "sd2", "sd3", "sd4">>
server_bindMulticast(lower, upper, s) ==
  bindSocketTIPC(s, setServerAddrTo(TS_TEST_TYPE, lower, upper))

exp_num == <<3, 2, 2, 5, 2, 2, 2>>
expected_burst == <<1, 1, 1, 1, 200, 200, 40>>
expected_szs == <<100, 100, 100, 100, 100, 1000, 66000>>

\* The subtest numSubTest (from 1): its burst is received by one call, which
\* module Ptts executes step by step.
server_mcast(numSubTest) ==
  recvSyncTIPC(3)
  \o <<setRegister(0),
       [op |-> "mcast", sub |-> numSubTest, burst |-> Cap(expected_burst[numSubTest]),
        num |-> exp_num[numSubTest], size |-> expected_szs[numSubTest]]>>
  \o sendSyncTIPC(4)

server_test_multicast ==
  [i \in 1 .. 5 |-> createSocketTIPC(sd[i], "RDM")]
  \o <<server_bindMulticast(0, 99, "sd0"), server_bindMulticast(0, 99, "sd1"),
       server_bindMulticast(100, 199, "sd2"), server_bindMulticast(200, 299, "sd3"),
       server_bindMulticast(200, 299, "sd3"), server_bindMulticast(300, 399, "sd4")>>
  \o sendSyncTIPC(1)
  \o FlattenSeq([i \in 1 .. 7 |-> server_mcast(i)])
  \o [i \in 1 .. 5 |-> closeSocketTIPC(sd[i])]
  \o recvSyncTIPC(2)

server_test_socketOptions == recvSyncTIPC(1) \o common_test_socketOptions \o sendSyncTIPC(2)

\* A record is four bytes of size, then that many bytes; one byte acknowledges it.
\* Binding precedes listening here.
binding(s, addr) ==
  <<createSocketTIPC(s, "STREAM"), bindSocketTIPC(s, addr), listenSocketTIPC(s)>>

server_test_stream ==
  binding("listener_sd", setServerAddr)
  \o sendSyncTIPC(1)
  \o <<acceptSocketTIPC("listener_sd", "peer_sd"),
       receive("peer_sd", 4, "all", FALSE, "header"),
       receive("peer_sd", 0, "all", FALSE, "record"),
       clearErrors, send("peer_sd", buffer("X", 1)), checkErrors,
       [op |-> "jump", by |-> -5],
       closeSocketTIPC("peer_sd"), closeSocketTIPC("listener_sd")>>
  \o recvSyncTIPC(2)

\* do_receive: receives until TS_BBUF_SIZE bytes have come or the connection has
\* ended; the caller wants a positive count, one receive, or none.
do_receive(peer_sd, recvFlag, want) ==
  <<setRegister(TS_BBUF_SIZE), receive(peer_sd, TS_BBUF_SIZE, recvFlag, FALSE, "chunk"),
    [op |-> "numRec", want |-> want]>>

server_test_bigStream ==
  binding("listener_sd", setServerAddr)
  \o sendSyncTIPC(1)
  \o <<acceptSocketTIPC("listener_sd", "peer_sd")>>
  \o do_receive("peer_sd", "some", "positive")
  \o sendSyncTIPC(2)
  \o do_receive("peer_sd", "all", "one")
  \o recvSyncTIPC(3)
  \o do_receive("peer_sd", "all", "zero")
  \o <<closeSocketTIPC("peer_sd"), closeSocketTIPC("listener_sd")>>

server_test_sendto ==
  common_test_recvfrom(1) \o sendSyncTIPC(2) \o common_test_sendto(3) \o recvSyncTIPC(4)

server_test_dgram == server_test_connectionless("DGRAM")
server_test_rdm == server_test_connectionless("RDM")
server_test_conn_stream == server_test_connection("STREAM")
server_test_conn_seqpacket == server_test_connection("SEQPACKET")
server_test_shutdown_stream == server_test_connection_shutdown("STREAM")
server_test_shutdown_seqpacket == server_test_connection_shutdown("SEQPACKET")
server_stress_rdm == server_stress_connectionless("RDM")

sblastSize == <<1, 32, 64, 100, 128, 256, 512, 1000, 1024, 1280, 1450, 2048, 8192, 10000>>
TS_BLAST_SREPS == 100000
server_blast_rdm ==
  FlattenSeq([i \in 1 .. Len(sblastSize) |->
                server_blast_connectionless("RDM", TS_BLAST_SREPS, sblastSize[i])])
server_blast_seqpacket ==
  FlattenSeq([i \in 1 .. Len(sblastSize) |->
                server_blast_connection("SEQPACKET", TS_BLAST_SREPS, sblastSize[i])])
server_blast_stream ==
  FlattenSeq([i \in 1 .. Len(sblastSize) |->
                server_blast_connection("STREAM", TS_BLAST_SREPS, sblastSize[i])])

serverList ==
  <<server_test_dgram, server_test_rdm, server_test_conn_stream, server_test_conn_seqpacket,
    server_test_shutdown_stream, server_test_shutdown_seqpacket, server_test_messageLimits,
    server_test_importance, server_test_socketOptions, server_test_anc_connection,
    server_test_anc_connectionless, server_test_multicast, server_test_stream,
    server_test_bigStream, server_test_sendto>>
  \o IF DO_BLAST THEN <<server_blast_rdm, server_blast_seqpacket, server_blast_stream>> ELSE <<>>

\* tipcTestServer: what is done for each test before it is run.
serverLoop ==
  <<createSocketTIPC("sockfd_S", "RDM"), bindSocketTIPC("sockfd_S", setServerAddr)>>
  \o sendSyncTIPC(TS_SYNC_WAITING_FOR_TEST_ID)
  \o <<receive("sockfd_S", 4, "some", FALSE, "test"), closeSocketTIPC("sockfd_S"),
       [op |-> "dispatch"]>>
  \o recvSyncTIPC(TS_SYNC_FINISHED_TEST_ID)
  \o <<[op |-> "run"]>>

\* The routines of the server by number, 0 for the loop.
serverTests ==
  [test \in SanityTests \cup {ts_stress_rdm, 0} |->
     IF test = 0 THEN serverLoop
     ELSE IF test = ts_stress_rdm THEN server_stress_rdm ELSE serverList[test]]
=============================================================================
