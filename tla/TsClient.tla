----------------------------- MODULE TsClient -----------------------------
(***************************************************************************)
(* The client side of the portable TIPC test suite (tipc_ts_client.c): the *)
(* calls each test makes, and those that ask the server for a test.        *)
(***************************************************************************)
EXTENDS TsCommon

\* The global importance is set by one test and applied by others.
setImportance(value) == [op |-> "importance", value |-> value]
applyImportance(s) == [op |-> "setopt", sd |-> s, opt |-> "imp", value |-> -1]

client_SendConnectionless(socketType, numRequests, msgSize) ==
  recvSyncTIPC(1)
  \o <<createSocketTIPC("sockfd_C", socketType), applyImportance("sockfd_C")>>
  \o sendtoSocketTIPC("sockfd_C", setServerAddr, numRequests, msgSize)
  \o <<closeSocketTIPC("sockfd_C")>>
  \o sendSyncTIPC(2)

client_test_connectionless(sockType) ==
  client_SendConnectionless(sockType, 10, 100)
  \o client_SendConnectionless(sockType, 10, 1000)
  \o IF sockType # "RDM" THEN <<>>
     ELSE client_SendConnectionless(sockType, 100, 100)
          \o client_SendConnectionless(sockType, 100, 1000)

client_stress_connectionless(sockType) ==
  LET script == client_test_connectionless(sockType)
  IN  Append(script, [op |-> "jump", by |-> -Len(script)])

client_blast_connectionless(sockType, numPackets, packetSize) ==
  recvSyncTIPC(1)
  \o getServerAddr
  \o <<createSocketTIPC("sockfd_C", sockType)>>
  \o sendSyncTIPC(3)
  \o sendtoSocketTIPC("sockfd_C", portAddr, numPackets, packetSize)
  \o <<closeSocketTIPC("sockfd_C"), sleep>>
  \o sendSyncTIPC(2)

client_blast_connection(sockType, numPackets, packetSize) ==
  recvSyncTIPC(1)
  \o <<createSocketTIPC("sockfd_C", sockType)>>
  \o connectSocketTIPC("sockfd_C", setServerAddr)
  \o sendSyncTIPC(3)
  \o sendSocketTIPC("sockfd_C", numPackets, packetSize)
  \o <<closeSocketTIPC("sockfd_C")>>
  \o sendSyncTIPC(2)

\* The sizes 1, 601, ... and at last 66000.
client_msizes ==
  [i \in 1 .. MAX_MSG \div TS_MSGINC + 1 |->
     LET m == 1 + TS_MSGINC * (i - 1) IN IF m > MAX_MSG THEN MAX_MSG ELSE m]

client_test_messageLimits ==
  FlattenSeq([i \in 1 .. Len(client_msizes) |->
                client_SendConnectionless("RDM", 1, client_msizes[i])])

\* Message i of a burst carries its number before the test vector.
mcastto(s, addr, i, msgsize) ==
  [op |-> "mcastto", sd |-> s, addr |-> addr, msg |-> numbered("mcast", i, msgsize)]

client_mcast(s, lower, upper, msgsize, burstsize) ==
  sendSyncTIPC(3)
  \o [i \in 1 .. Cap(burstsize) |->
        mcastto(s, setServerAddrTo(TS_TEST_TYPE, lower, upper), i - 1, msgsize)]
  \o recvSyncTIPC(4)

\* The socket is not closed until the process ends; it is called mc here because
\* it outlives the test.
client_test_multicast ==
  <<createSocketTIPC("mc", "RDM")>>
  \o recvSyncTIPC(1)
  \o client_mcast("mc", 99, 100, 100, 1) \o client_mcast("mc", 150, 250, 100, 1)
  \o client_mcast("mc", 200, 399, 100, 1) \o client_mcast("mc", 0, 399, 100, 1)
  \o client_mcast("mc", 200, 399, 100, 200) \o client_mcast("mc", 200, 399, 1000, 200)
  \o client_mcast("mc", 200, 399, 66000, 40)
  \o sendSyncTIPC(2)

client_SendConnection(socketType, numMessages, messageSize, numReplies, maxReplySize) ==
  recvSyncTIPC(1)
  \o <<createSocketTIPC("sockfd_C", socketType), applyImportance("sockfd_C")>>
  \o connectSocketTIPC("sockfd_C", setServerAddr)
  \o sendSocketTIPC("sockfd_C", numMessages, messageSize)
  \o recvSocketTIPC("sockfd_C", numReplies, maxReplySize, TRUE)
  \o <<closeSocketTIPC("sockfd_C")>>
  \o sendSyncTIPC(2)

client_test_connection(sockType) ==
  client_SendConnection(sockType, 10, 100, 10, 100)
  \o client_SendConnection(sockType, 100, 1000, 0, 0)
  \o client_SendConnection(sockType, 0, 0, 50, 123)

client_SendConnectionShutdown(socketType, numRequests, requestSize) ==
  recvSyncTIPC(1)
  \o <<createSocketTIPC("sockfd_C", socketType), applyImportance("sockfd_C")>>
  \o connectSocketTIPC("sockfd_C", setServerAddr)
  \o sendSocketTIPC("sockfd_C", numRequests, requestSize)
  \o <<shutdownSocket("sockfd_C", TRUE), closeSocketTIPC("sockfd_C")>>
  \o sendSyncTIPC(2)

client_test_connection_shutdown(sockType) ==
  client_SendConnectionShutdown(sockType, 10, 100)
  \o client_SendConnectionShutdown(sockType, 100, 1000)
  \o client_SendConnectionShutdown(sockType, 500, 1000)

atImportance(level) ==
  <<setImportance(level)>>
  \o client_test_connectionless("DGRAM") \o client_test_connectionless("RDM")
  \o client_test_connection("STREAM") \o client_test_connection("SEQPACKET")
  \o client_test_connection_shutdown("STREAM")
  \o client_test_connection_shutdown("SEQPACKET")

\* The loop leaves the importance one too high; the value saved, which
\* tipcTestClient had set to low, is put back.
client_test_importance ==
  FlattenSeq([i \in 1 .. 4 |-> atImportance(i - 1)])
  \o <<setImportance(CRITICAL + 1), setImportance(LOW)>>

\* Every ONE is answered with END, anything else with TWO, until the connection
\* ends: the second TWO must come back because its port is gone.
client_test_anc_connection ==
  recvSyncTIPC(1)
  \o <<createSocketTIPC("soc", "SEQPACKET")>>
  \o connectSocketTIPC("soc", setServerAddr)
  \o sendSocketBuffTIPC("soc", "ALPHA", 1, 6)
  \o <<setRegister(1), receive("soc", 2048, "some", TRUE, "loop"),
       clearErrors, [op |-> "answer", sd |-> "soc"], checkErrors,
       [op |-> "jump", by |-> -4],
       closeSocketTIPC("soc")>>
  \o sendSyncTIPC(2)

client_test_anc_connectionless ==
  recvSyncTIPC(1)
  \o <<createSocketTIPC("soc", "RDM"), setOption("soc", "dest", 0)>>
  \o sendtoSocketBuffTIPC("soc", setServerAddr, "ALPHA", 1, 6)
  \o sendtoSocketBuffTIPC("soc", setServerAddr, "OMEGA", 1, 6)
  \o sendSyncTIPC(2)
  \o <<receive("soc", 2048, "some", TRUE, "returned"), closeSocketTIPC("soc")>>
  \o sendSyncTIPC(3)

\* Mutant: both sides wait for a signal first.
client_test_socketOptions_Swapped ==
  common_test_socketOptions \o recvSyncTIPC(2) \o sendSyncTIPC(1)

client_test_socketOptions == common_test_socketOptions \o sendSyncTIPC(1) \o recvSyncTIPC(2)

-----------------------------------------------------------------------------
MSG_SIZE == 80

\* The sizes of the records of the stream: 1, 148, ... while they fit.
rec_sizes ==
  LET rec[i \in 1 .. StreamBuf] ==
        IF i = 1 THEN [size |-> 1, tot |-> 5]
        ELSE LET prev == rec[i - 1]
                 r == (prev.size + 147) % 256
                 n == IF r = 0 THEN 1 ELSE r
             IN  [size |-> n, tot |-> prev.tot + 4 + n]
      last == CHOOSE i \in 1 .. StreamBuf : rec[i].tot <= StreamBuf /\ rec[i + 1].tot > StreamBuf
  IN  [i \in 1 .. last |-> rec[i]]

rec_num == Len(rec_sizes)
tot_size == rec_sizes[rec_num].tot

\* The size of the record that starts at an offset of the stream, 0 if none does.
recordAt(off) ==
  LET starts(i) == off = rec_sizes[i].tot - 4 - rec_sizes[i].size
  IN  IF \E i \in 1 .. rec_num : starts(i)
      THEN rec_sizes[CHOOSE i \in 1 .. rec_num : starts(i)].size ELSE 0

streamPart(i) ==
  LET from == MSG_SIZE * (i - 1)
  IN  part("records", 0, tot_size, from,
           IF from + MSG_SIZE <= tot_size THEN MSG_SIZE ELSE tot_size - from)

client_test_stream ==
  recvSyncTIPC(1)
  \o <<createSocketTIPC("sc", "STREAM")>>
  \o connectSocketTIPC("sc", setServerAddr)
  \o FlattenSeq([i \in 1 .. (tot_size + MSG_SIZE - 1) \div MSG_SIZE |->
                   <<clearErrors, send("sc", streamPart(i)), checkErrors>>])
  \o <<receive("sc", rec_num, "all", FALSE, "full"), receive("sc", 1, "dont", FALSE, "nothing"),
       shutdownSocket("sc", FALSE), closeSocketTIPC("sc")>>
  \o sendSyncTIPC(2)

client_test_bigStream ==
  recvSyncTIPC(1)
  \o <<createSocketTIPC("sc", "STREAM")>>
  \o connectSocketTIPC("sc", setServerAddr)
  \o sendSocketBuffTIPC("sc", "big", 1, TS_BBUF_SIZE)
  \o recvSyncTIPC(2)
  \o sendSocketBuffTIPC("sc", "big", 1, TS_BBUF_SIZE)
  \o <<shutdownSocket("sc", FALSE), closeSocketTIPC("sc")>>
  \o sendSyncTIPC(3)

client_test_sendto ==
  common_test_sendto(1) \o recvSyncTIPC(2) \o common_test_recvfrom(3) \o sendSyncTIPC(4)

client_test_dgram == client_test_connectionless("DGRAM")
client_test_rdm == client_test_connectionless("RDM")
client_test_conn_stream == client_test_connection("STREAM")
client_test_conn_seqpacket == client_test_connection("SEQPACKET")
client_test_shutdown_stream == client_test_connection_shutdown("STREAM")
client_test_shutdown_seqpacket == client_test_connection_shutdown("SEQPACKET")
client_stress_rdm == client_stress_connectionless("RDM")

cblastSize == <<1, 32, 64, 100, 128, 256, 512, 1000, 1024, 1280, 1450, 2048, 8192, 10000>>
TS_BLAST_REPS == 100000
client_blast_rdm ==
  FlattenSeq([i \in 1 .. Len(cblastSize) |->
                client_blast_connectionless("RDM", TS_BLAST_REPS, cblastSize[i])])
client_blast_seqpacket ==
  FlattenSeq([i \in 1 .. Len(cblastSize) |->
                client_blast_connection("SEQPACKET", TS_BLAST_REPS, cblastSize[i])])
client_blast_stream ==
  FlattenSeq([i \in 1 .. Len(cblastSize) |->
                client_blast_connection("STREAM", TS_BLAST_REPS, cblastSize[i])])

clientList ==
  <<client_test_dgram, client_test_rdm, client_test_conn_stream, client_test_conn_seqpacket,
    client_test_shutdown_stream, client_test_shutdown_seqpacket, client_test_messageLimits,
    client_test_importance, client_test_socketOptions, client_test_anc_connection,
    client_test_anc_connectionless, client_test_multicast, client_test_stream,
    client_test_bigStream, client_test_sendto>>
  \o IF DO_BLAST THEN <<client_blast_rdm, client_blast_seqpacket, client_blast_stream>> ELSE <<>>

\* Mutant: the client does not wait until the server can be told.
sendTIPCTest_NoWait(test) ==
  <<createSocketTIPC("sockfd_C", "RDM"), clearErrors,
    sendto("sockfd_C", setServerAddr, numbered("test", test, 4)), checkErrors,
    closeSocketTIPC("sockfd_C")>>
  \o IF test > 0 THEN sendSyncTIPC(TS_SYNC_FINISHED_TEST_ID) ELSE <<>>

\* Mutant: the socket is closed after the second signal.
sendTIPCTest_ClosesLate(test) ==
  recvSyncTIPC(TS_SYNC_WAITING_FOR_TEST_ID)
  \o <<createSocketTIPC("sockfd_C", "RDM"), clearErrors,
       sendto("sockfd_C", setServerAddr, numbered("test", test, 4)), checkErrors>>
  \o (IF test > 0 THEN sendSyncTIPC(TS_SYNC_FINISHED_TEST_ID) ELSE <<>>)
  \o <<closeSocketTIPC("sockfd_C")>>

\* Only a server that will run a test is sent the second signal.
sendTIPCTest(test) ==
  recvSyncTIPC(TS_SYNC_WAITING_FOR_TEST_ID)
  \o <<createSocketTIPC("sockfd_C", "RDM"), clearErrors,
       sendto("sockfd_C", setServerAddr, numbered("test", test, 4)), checkErrors,
       closeSocketTIPC("sockfd_C")>>
  \o IF test > 0 THEN sendSyncTIPC(TS_SYNC_FINISHED_TEST_ID) ELSE <<>>

\* tipcTestClientX: the request for a test, and the test itself.
requests == [test \in SanityTests \cup {ts_stress_rdm, TS_KILL_SERVER} |-> sendTIPCTest(test)]
clientTests ==
  [test \in SanityTests \cup {ts_stress_rdm} |->
     IF test = ts_stress_rdm THEN client_stress_rdm ELSE clientList[test]]
=============================================================================
