----------------------------- MODULE TsCommon -----------------------------
(***************************************************************************)
(* The routines client and server of the portable TIPC test suite share    *)
(* (tipc_ts_common.c, tipc_ts.h).  A routine is the sequence of the system *)
(* calls it makes, each a record with the arguments of the call and what   *)
(* the routine wants of the result; module Ptts executes the calls.  Loops *)
(* of a known length are unrolled.                                         *)
(***************************************************************************)
EXTENDS Integers, Sequences, SequencesExt, TsArray

CONSTANTS
  MsgCap,    \* bound: messages of a burst, whatever numTimes says
  StreamBuf, \* bound: bytes of the stream test, BUF_SIZE in the code
  DO_BLAST   \* the build option that adds the blaster tests

ASSUME CommonAssumption ==
  MsgCap \in Nat \ {0} /\ StreamBuf \in 5 .. 2000 /\ DO_BLAST \in BOOLEAN

TS_KILL_SERVER == -1
TS_INVALID_TEST == -2
TS_MSGINC == 600
MAX_MSG == 66000
TS_SYNCRO_TYPE == 73
TS_TEST_TYPE == 72
TS_TEST_INST == 1000
TS_LOWER == 900
TS_UPPER == 1100
TS_BBUF_SIZE == 75000
TS_SYNC_WAITING_FOR_TEST_ID == 99
TS_SYNC_FINISHED_TEST_ID == 100
TS_FIRST_SANITY_TEST == 1
TS_FIRST_STRESS_TEST == 1000

\* The enumeration of the tests.
ts_lastSanityTest == IF DO_BLAST THEN 19 ELSE 16
ts_stress_rdm == TS_FIRST_STRESS_TEST
ts_lastStressTest == ts_stress_rdm + 1
SanityTests == TS_FIRST_SANITY_TEST .. ts_lastSanityTest - 1

LOW == 0
CRITICAL == 3

Times(n, script) == FlattenSeq([i \in 1 .. n |-> script])
Cap(n) == IF n > MsgCap THEN MsgCap ELSE n

-----------------------------------------------------------------------------
\* Names: a type and a range of instances.
setServerAddr == [type |-> TS_TEST_TYPE, lo |-> TS_TEST_INST, hi |-> TS_TEST_INST]
setServerAddrTo(type, lower, upper) == [type |-> type, lo |-> lower, hi |-> upper]
syncAddr(sigInstance) == setServerAddrTo(TS_SYNCRO_TYPE, sigInstance, sigInstance)

\* Calls, named by the variable that holds the socket.
createSocketTIPC(sd, type) == [op |-> "socket", sd |-> sd, type |-> type]
bindSocketTIPC(sd, addr) == [op |-> "bind", sd |-> sd, addr |-> addr]
listenSocketTIPC(sd) == [op |-> "listen", sd |-> sd]
acceptSocketTIPC(sd, new) == [op |-> "accept", sd |-> sd, new |-> new]
closeSocketTIPC(sd) == [op |-> "close", sd |-> sd]
setOption(sd, opt, value) == [op |-> "setopt", sd |-> sd, opt |-> opt, value |-> value]
getOption(sd, opt, want) == [op |-> "getopt", sd |-> sd, opt |-> opt, want |-> want]
sleep == [op |-> "sleep"]
shutdownSocket(sd, checked) == [op |-> "shutdown", sd |-> sd, checked |-> checked]
setRegister(value) == [op |-> "set", value |-> value]

\* connect sends a request and waits; the caller wants it to succeed or to time out.
connectWith(sd, addr, want) ==
  <<[op |-> "syn", sd |-> sd, addr |-> addr], [op |-> "connect", sd |-> sd, want |-> want]>>
connectSocketTIPC(sd, addr) == connectWith(sd, addr, "up")

\* What a message holds: which buffer, the number written in it, its length, and
\* the part of it.
part(what, num, len, off, size) ==
  [what |-> what, num |-> num, len |-> len, off |-> off, size |-> size]
buffer(what, size) == part(what, 0, size, 0, size)
numbered(what, num, size) == part(what, num, size, 0, size)

sendto(sd, addr, msg) == [op |-> "sendto", sd |-> sd, addr |-> addr, msg |-> msg]
send(sd, msg) == [op |-> "send", sd |-> sd, msg |-> msg]

\* One receive: at most max bytes, with MSG_WAITALL ("all"), MSG_DONTWAIT
\* ("dont") or neither ("some"), with room for ancillary data or not.
receive(sd, max, flag, ctl, want) ==
  [op |-> "recv", sd |-> sd, max |-> max, flag |-> flag, ctl |-> ctl, want |-> want]

\* The counters of errors are cleared before a burst and compared with 0 after it.
clearErrors == [op |-> "clear"]
checkErrors == [op |-> "check"]

sendtoSocketBuffTIPC(sd, addr, what, numTimes, msgSize) ==
  IF numTimes = 0 \/ msgSize = 0 THEN <<>>
  ELSE <<clearErrors>> \o Times(Cap(numTimes), <<sendto(sd, addr, buffer(what, msgSize))>>)
       \o <<checkErrors>>

sendtoSocketTIPC(sd, addr, numTimes, msgSize) ==
  sendtoSocketBuffTIPC(sd, addr, "array", numTimes, msgSize)

\* The comparison stands inside the loop.
sendSocketBuffTIPC(sd, what, numTimes, msgSize) ==
  IF numTimes = 0 \/ msgSize = 0 THEN <<>>
  ELSE <<clearErrors>>
       \o Times(Cap(numTimes), <<send(sd, buffer(what, msgSize)), checkErrors>>)

sendSocketTIPC(sd, numTimes, msgSize) == sendSocketBuffTIPC(sd, "array", numTimes, msgSize)

\* numTimes is never negative where this is called.  When the content does not
\* matter (checkErrorTarget is -1) only the errors of recv count.
recvSocketTIPC(sd, numTimes, maxSize, check) ==
  IF numTimes = 0 \/ maxSize = 0 THEN <<>>
  ELSE <<clearErrors>>
       \o Times(Cap(numTimes), <<receive(sd, maxSize, "all", FALSE,
                                         IF check THEN "array" ELSE "message")>>)
       \o <<checkErrors>>

-----------------------------------------------------------------------------
\* The rendezvous: one side publishes the name of the signal and waits for one
\* byte, the other waits for the name, sends the byte and waits until the name
\* is withdrawn.
\* Mutant: the sender of a signal does not wait for the acknowledgement.
sendSyncTIPC_NoAck(sigInstance) ==
  <<createSocketTIPC("sockfd_R", "RDM"), bindSocketTIPC("sockfd_R", syncAddr(sigInstance)),
    closeSocketTIPC("sockfd_R"), [op |-> "synced"]>>

sendSyncTIPC(sigInstance) ==
  <<createSocketTIPC("sockfd_R", "RDM"),
    bindSocketTIPC("sockfd_R", syncAddr(sigInstance)),
    receive("sockfd_R", 1, "some", FALSE, "ack"),
    closeSocketTIPC("sockfd_R"),
    [op |-> "synced"]>>

\* Subscription to one name, the next event and the end of the subscription.
subscribe(addr) == [op |-> "subscribe", addr |-> addr]
event(want) == [op |-> "event", want |-> want]
unsubscribe == [op |-> "unsubscribe"]

recvSyncTIPC(sigInstance) ==
  <<subscribe(syncAddr(sigInstance)), event("PUBLISHED"),
    createSocketTIPC("sockfd_R", "RDM"), setOption("sockfd_R", "imp", CRITICAL),
    clearErrors, sendto("sockfd_R", syncAddr(sigInstance), buffer("ack", 1)), checkErrors,
    closeSocketTIPC("sockfd_R"),
    event("WITHDRAWN"), unsubscribe,
    [op |-> "synced"]>>

\* The port of the test server, as the topology service reports it: portAddr
\* stands for the port of the last event.
portAddr == setServerAddrTo(0, 0, 0)
getServerAddr == <<subscribe(setServerAddr), event("PUBLISHED"), unsubscribe>>

-----------------------------------------------------------------------------
\* common_test_socketOptions: defaults, values written and read back, then a
\* connection to a bound socket that does not listen must time out.
socket_type == <<"STREAM", "SEQPACKET", "RDM", "DGRAM">>
so == <<"so0", "so1", "so2", "so3">>

checkDefaults(opt, defaults) == [i \in 1 .. 4 |-> getOption(so[i], opt, defaults[i])]

writeAndRead(i, opt, values) ==
  FlattenSeq([j \in 1 .. Len(values) |->
                <<setOption(so[i], opt, values[j]), getOption(so[i], opt, values[j])>>])

connectTimesOut(i) ==
  <<createSocketTIPC("sol", socket_type[i]), bindSocketTIPC("sol", setServerAddr),
    setOption(so[i], "tmo", 300)>>
  \o connectWith(so[i], setServerAddr, "timeout")
  \o <<closeSocketTIPC("sol")>>

common_test_socketOptions ==
  LET each(Script(_)) == FlattenSeq([i \in 1 .. 4 |-> Script(i)])
  IN  [i \in 1 .. 4 |-> createSocketTIPC(so[i], socket_type[i])]
      \o checkDefaults("imp", <<LOW, LOW, LOW, LOW>>)
      \o checkDefaults("src", <<0, 0, 0, 1>>)
      \o checkDefaults("dest", <<0, 0, 1, 1>>)
      \o checkDefaults("tmo", <<8000, 8000, 8000, 8000>>)
      \o each(LAMBDA i : writeAndRead(i, "imp", <<0, 1, 2>>))
      \o each(LAMBDA i : IF socket_type[i] = "STREAM" THEN <<>>
                         ELSE writeAndRead(i, "src", <<0, 1>>))
      \o each(LAMBDA i : writeAndRead(i, "dest", <<0, 1>>))
      \o each(LAMBDA i : writeAndRead(i, "tmo", <<200>>))
      \o connectTimesOut(1) \o connectTimesOut(2)
      \o [i \in 1 .. 4 |-> closeSocketTIPC(so[i])]

\* THE_STRING is "recvfrom" and its final zero.
common_test_recvfrom(syncId) ==
  <<createSocketTIPC("so", "RDM"), bindSocketTIPC("so", setServerAddr)>>
  \o sendSyncTIPC(syncId)
  \o <<receive("so", 10, "some", FALSE, "recvfrom"), closeSocketTIPC("so")>>

common_test_sendto(syncId) ==
  <<createSocketTIPC("so", "RDM")>>
  \o recvSyncTIPC(syncId)
  \o <<clearErrors, sendto("so", setServerAddr, buffer("recvfrom", 9)), checkErrors,
       closeSocketTIPC("so")>>
=============================================================================
