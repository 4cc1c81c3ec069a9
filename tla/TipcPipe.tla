------------------------------ MODULE TipcPipe ------------------------------
(***************************************************************************)
(* tipc-pipe: clients and a server, each copying standard input to a       *)
(* socket and the socket to standard output, or generating numbered        *)
(* messages, or checking them (tipc-pipe.c).                               *)
(*                                                                         *)
(* An end of the pipe is a client or a worker: the process in which the    *)
(* server serves one connection, or its bound socket.  Workers are forks   *)
(* of the server and read the same standard input.                         *)
(*                                                                         *)
(* TIPC and the kernel are external.  A write on a connection waits while  *)
(* Window packets are unread; a datagram may be dropped then.  An end that *)
(* goes leaves what it has sent readable and poll reports a hangup behind  *)
(* it.  A pipe as standard input hangs up when its writer is done, a       *)
(* terminal never does, a file is always readable and never hangs up.      *)
(***************************************************************************)
EXTENDS Integers, Sequences, SequencesExt, FiniteSets

CONSTANTS
  Client, Worker,
  Setups,   \* the command lines and inputs to start with
  buf_size, \* items a read takes at most
  Window,   \* bound: unread packets of a socket
  Stray,    \* what the descriptor fd_pair[1] may be when it is not initialised
  Outside   \* what may be read behind the table of expected numbers

None == "none"
Source == Client \cup {"srv"}

Setup ==
  [sock_type : {"STREAM", "SEQPACKET", "RDM", "DGRAM"}, mode : {"single_listener", "multi_server"},
   tee : BOOLEAN, replay : BOOLEAN, hasty : BOOLEAN, data_num : Nat, data_check : BOOLEAN,
   ref : [Client -> Nat], clients : SUBSET Client,
   kind : [Source -> {"pipe", "tty", "file"}], input : [Source -> Seq(Nat)]]

ASSUME PipeAssumption ==
  /\ Setups \subseteq Setup /\ buf_size \in Nat \ {0} /\ Window \in Nat \ {0}
  /\ Client \cap Worker = {} /\ None \notin Client \cup Worker /\ "srv" \notin Client
  /\ IsFiniteSet(Client) /\ IsFiniteSet(Worker)
  /\ Worker # {} /\ Cardinality(Worker) >= Cardinality(Client)
  /\ Stray \subseteq {"bad", "stdout"} /\ Outside \subseteq Int

VARIABLES
  setup,    \* the command line and the input of this run
  fed,      \* what has arrived on each standard input and is unread
  coming,   \* what has not arrived yet
  pc, rev,  \* of each end: its next step, the events poll has reported
  held,     \* of each end: what it read last from standard input
  data_in_len,
  q, conn, peer, \* of each end: its receive queue, its connection, addr_sk
  pair,     \* of each end: what is unread in its socket pair
  out, copy,     \* of each end: what it printed from the socket and from the pair
  seqno,    \* of each client: messages generated
  i, lost,  \* of the checker: the expected numbers by slot, losses reported by client
  got,      \* of the checker: messages taken from each client
  server, backlog \* the listening process and the connection requests for it

io == <<rev, held, data_in_len, pair, out, copy>>
net == <<q, conn, peer, backlog>>
nums == <<seqno, i, lost, got>>
vars == <<setup, fed, coming, pc, io, net, nums, server>>

End == Client \cup Worker
stdin(e) == IF e \in Client THEN e ELSE "srv"
kind(e) == setup.kind[stdin(e)]
connected == setup.sock_type \in {"STREAM", "SEQPACKET"}

\* data_io: generate, check or copy.
data_io(e) ==
  IF e \in Client /\ setup.data_num > 0 THEN "generate"
  ELSE IF e \in Worker /\ setup.data_check THEN "check" ELSE "poll"

\* Mutant: the slot of a sender is cut from too few bits of its reference.
slot_Narrow(c) == setup.ref[c] % 4

MAP_EXPECTED_SEQUENCE_NUMBERS == 255

\* The slot of a sender in the table of expected numbers.  The last one is
\* behind the end of the table.
slot(c) == setup.ref[c] % 256

\* What the checker may read in the slot of a sender.  Behind the table that is
\* what it has written there or anything else; what else a write there may
\* destroy is left out.
expected(c) ==
  {i[slot(c)]} \cup (IF slot(c) < MAP_EXPECTED_SEQUENCE_NUMBERS THEN {} ELSE Outside)

Init ==
  /\ setup \in Setups
  /\ fed = [s \in Source |-> IF setup.kind[s] = "file" THEN setup.input[s] ELSE <<>>]
  /\ coming = [s \in Source |-> IF setup.kind[s] = "file" THEN <<>> ELSE setup.input[s]]
  /\ pc = [e \in End |-> IF e \in setup.clients THEN "start"
                          ELSE IF e \in Client THEN "exit" ELSE "unborn"]
  /\ rev = [e \in End |-> {}]
  /\ held = [e \in End |-> <<>>] /\ data_in_len = [e \in End |-> 0]
  /\ q = [e \in End |-> <<>>] /\ pair = [e \in End |-> <<>>]
  /\ conn = [e \in End |-> "no"] /\ peer = [e \in End |-> None]
  /\ out = [e \in End |-> <<>>] /\ copy = [e \in End |-> <<>>]
  /\ seqno = [c \in Client |-> 0]
  /\ i = [n \in {slot(c) : c \in Client} |-> 0]
  /\ lost = [c \in Client |-> 0] /\ got = [c \in Client |-> 0]
  /\ server = "bind" /\ backlog = <<>>

at(e, l) == pc[e] = l
to(e, l) == pc' = [pc EXCEPT ![e] = l]

-----------------------------------------------------------------------------
\* Input arrives.
Feed(s) ==
  /\ coming[s] # <<>>
  /\ fed' = [fed EXCEPT ![s] = Append(@, Head(coming[s]))]
  /\ coming' = [coming EXCEPT ![s] = Tail(@)]
  /\ UNCHANGED <<setup, pc, io, net, nums, server>>

hangup(e) == kind(e) = "pipe" /\ coming[stdin(e)] = <<>>

-----------------------------------------------------------------------------
\* run_server: the name is bound and the socket listens, or a datagram socket
\* serves everybody itself; without --replay its addr_sk is its own name.
run_server ==
  /\ server = "bind"
  /\ IF connected THEN server' = "listen" /\ UNCHANGED <<pc, peer>>
     ELSE /\ server' = "io"
          /\ LET w == CHOOSE w \in Worker : TRUE
             IN  to(w, data_io(w)) /\ peer' = [e \in End |-> w]
  /\ UNCHANGED <<setup, fed, coming, io, nums, q, conn, backlog>>

\* A request whose sender has given up is accepted and finds nobody.
serve(w, c) ==
  /\ to(w, data_io(w))
  /\ conn' = IF conn[c] = "syn" THEN [conn EXCEPT ![c] = "up", ![w] = "up"]
             ELSE [conn EXCEPT ![w] = "down"]
  /\ peer' = [peer EXCEPT ![w] = c, ![c] = w]
  /\ backlog' = Tail(backlog)

\* listen_accept_and_io: one connection, or a child for each.
listen_accept_and_io ==
  /\ connected /\ server = "listen" /\ backlog # <<>>
  /\ serve(CHOOSE w \in Worker : at(w, "unborn"), Head(backlog))
  /\ server' = IF setup.mode = "single_listener" THEN "io" ELSE "listen"
  /\ UNCHANGED <<setup, fed, coming, io, nums, q>>

\* exit of the server: requests not accepted are refused.
ServerExit ==
  /\ server = "io" /\ \A w \in Worker : pc[w] \in {"unborn", "exit"}
  /\ server' = "exit"
  /\ conn' = [e \in End |-> IF e \in ToSet(backlog) /\ conn[e] = "syn" THEN "no" ELSE conn[e]]
  /\ backlog' = <<>>
  /\ UNCHANGED <<setup, fed, coming, pc, io, nums, q, peer>>

\* run_client: a connection that fails is reported, and used all the same.  The
\* topology client --wait_peer puts before it waits for the name or for its
\* timeout and tells nobody which it was: the client starts at any moment.
run_client(c) ==
  /\ at(c, "start")
  /\ IF connected /\ server \in {"listen", "io"}
     THEN /\ to(c, "dial")
          /\ conn' = [conn EXCEPT ![c] = "syn"] /\ backlog' = Append(backlog, c)
     ELSE to(c, data_io(c)) /\ UNCHANGED <<conn, backlog>>
  /\ UNCHANGED <<setup, fed, coming, io, nums, server, q, peer>>

Connected(c) ==
  /\ at(c, "dial") /\ conn[c] # "syn"
  /\ to(c, data_io(c))
  /\ UNCHANGED <<setup, fed, coming, io, net, nums, server>>

\* Eight seconds without an answer.
ConnectTimeout(c) ==
  /\ at(c, "dial") /\ conn[c] = "syn" /\ setup.hasty
  /\ conn' = [conn EXCEPT ![c] = "no"]
  /\ to(c, data_io(c))
  /\ UNCHANGED <<setup, fed, coming, io, nums, server, q, peer, backlog>>

-----------------------------------------------------------------------------
\* tipc_write: a datagram to addr_sk, or a packet on the connection.
canWrite(e) ==
  /\ peer[e] # None
  /\ IF connected THEN conn[e] = "up" ELSE pc[peer[e]] # "exit"
full(e) == Len(q[peer[e]]) >= Window
packet(e, data) == [from |-> e, data |-> data]

\* A stream does not carry an empty write.
tipc_write(e, data) ==
  IF canWrite(e) /\ (data # <<>> \/ setup.sock_type # "STREAM")
  THEN \/ ~full(e) /\ q' = [q EXCEPT ![peer[e]] = Append(@, packet(e, data))]
       \/ full(e) /\ ~connected /\ UNCHANGED q
  ELSE UNCHANGED q

\* Mutant: one message too many.
generate_data_OneMore(e) ==
  /\ at(e, "generate")
  /\ IF seqno[e] <= setup.data_num /\ canWrite(e)
     THEN /\ tipc_write(e, <<seqno[e]>>)
          /\ seqno' = [seqno EXCEPT ![e] = @ + 1]
          /\ UNCHANGED pc
     ELSE to(e, "leave") /\ UNCHANGED <<q, seqno>>
  /\ UNCHANGED <<setup, fed, coming, io, conn, peer, backlog, i, lost, got, server>>

\* generate_data: numbered messages until the last one or an error.
generate_data(e) ==
  /\ at(e, "generate")
  /\ IF seqno[e] < setup.data_num /\ canWrite(e)
     THEN /\ tipc_write(e, <<seqno[e]>>)
          /\ seqno' = [seqno EXCEPT ![e] = @ + 1]
          /\ UNCHANGED pc
     ELSE to(e, "leave") /\ UNCHANGED <<q, seqno>>
  /\ UNCHANGED <<setup, fed, coming, io, conn, peer, backlog, i, lost, got, server>>

\* One receive.  A stream gives what is there, a packet is a message.
readable(e) == q[e] # <<>> \/ conn[e] = "down"
bytes(e) == FlattenSeq([n \in 1 .. Len(q[e]) |-> q[e][n].data])
upTo(s) == SubSeq(s, 1, IF Len(s) < buf_size THEN Len(s) ELSE buf_size)
received(e) ==
  IF q[e] = <<>> THEN <<>>
  ELSE IF setup.sock_type = "STREAM" THEN upTo(bytes(e)) ELSE Head(q[e]).data
unread(e) ==
  IF q[e] = <<>> THEN <<>>
  ELSE IF setup.sock_type = "STREAM"
  THEN LET rest == SubSeq(bytes(e), Len(received(e)) + 1, Len(bytes(e)))
       IN  IF rest = <<>> THEN <<>> ELSE <<packet(Head(q[e]).from, rest)>>
  ELSE Tail(q[e])

\* check_generated_data: the number of the message that begins what was read,
\* against the number expected of its sender.
check_generated_data(e) ==
  /\ at(e, "check") /\ readable(e)
  /\ IF received(e) = <<>> THEN to(e, "leave") /\ UNCHANGED <<i, lost, got, q, out>>
     ELSE LET c == Head(q[e]).from
              seq == Head(received(e))
          IN  /\ \E v \in expected(c) : lost' = [lost EXCEPT ![c] = @ + seq - v]
              /\ i' = [i EXCEPT ![slot(c)] = seq + 1]
              /\ got' = [got EXCEPT ![c] = @ + Len(received(e))]
              /\ q' = [q EXCEPT ![e] = unread(e)]
              /\ out' = [out EXCEPT ![e] = @ \o received(e)]
              /\ UNCHANGED pc
  /\ UNCHANGED <<setup, fed, coming, rev, held, data_in_len, pair, copy, conn, peer, backlog,
                 seqno, server>>

-----------------------------------------------------------------------------
\* pipe_start, one iteration of its loop in four steps: poll and the copy of the
\* last round, standard input, the writes, the socket and the hangup.  The
\* events are those of the moment of poll, whatever happens behind it.
\* Mutant: poll is not asked about input on the socket.
revents_NoSocket(e) ==
  (IF fed[stdin(e)] # <<>> \/ kind(e) = "file" THEN {"in0"} ELSE {})
  \cup (IF hangup(e) THEN {"hup0"} ELSE {})
  \cup (IF conn[e] = "down" THEN {"hup1"} ELSE {})
  \cup (IF setup.tee /\ pair[e] # <<>> THEN {"in2"} ELSE {})

revents(e) ==
  (IF fed[stdin(e)] # <<>> \/ kind(e) = "file" THEN {"in0"} ELSE {})
  \cup (IF hangup(e) THEN {"hup0"} ELSE {})
  \cup (IF readable(e) THEN {"in1"} ELSE {})
  \cup (IF conn[e] = "down" THEN {"hup1"} ELSE {})
  \cup (IF setup.tee /\ pair[e] # <<>> THEN {"in2"} ELSE {})

Poll(e) ==
  /\ at(e, "poll") /\ revents(e) # {}
  /\ rev' = [rev EXCEPT ![e] = revents(e)]
  /\ data_in_len' = [data_in_len EXCEPT ![e] = 0]
  /\ IF "in2" \in revents(e)
     THEN /\ copy' = [copy EXCEPT ![e] = @ \o upTo(pair[e])]
          /\ pair' = [pair EXCEPT ![e] = SubSeq(@, Len(upTo(@)) + 1, Len(@))]
     ELSE UNCHANGED <<copy, pair>>
  /\ to(e, IF "in0" \in revents(e) THEN "stdin" ELSE "socket")
  /\ UNCHANGED <<setup, fed, coming, held, out, net, nums, server>>

\* The read waits if another worker has taken what poll had seen.
ReadStdin(e) ==
  LET s == stdin(e)
  IN  /\ at(e, "stdin")
      /\ fed[s] # <<>> \/ hangup(e) \/ kind(e) = "file"
      /\ held' = [held EXCEPT ![e] = upTo(fed[s])]
      /\ data_in_len' = [data_in_len EXCEPT ![e] = Len(upTo(fed[s]))]
      /\ fed' = [fed EXCEPT ![s] = SubSeq(@, Len(upTo(@)) + 1, Len(@))]
      /\ to(e, "write")
      /\ UNCHANGED <<setup, coming, rev, pair, out, copy, net, nums, server>>

\* The second write is made with and without --tee; sendto on the connected
\* pair of a datagram pipe fails.
writeCopy(e) ==
  IF setup.tee
  THEN pair' = [pair EXCEPT ![e] = IF connected THEN @ \o held[e] ELSE @] /\ UNCHANGED copy
  ELSE /\ UNCHANGED pair
       /\ \E d \in Stray : copy' = [copy EXCEPT ![e] = IF d = "stdout" THEN @ \o held[e] ELSE @]

\* Mutant: a write that would have to wait is not repeated.
Write_NoRetry(e) ==
  /\ at(e, "write")
  /\ IF canWrite(e) /\ full(e) THEN UNCHANGED q ELSE tipc_write(e, held[e])
  /\ writeCopy(e)
  /\ held' = [held EXCEPT ![e] = <<>>]
  /\ to(e, "socket")
  /\ UNCHANGED <<setup, fed, coming, rev, data_in_len, out, conn, peer, backlog, nums, server>>

Write(e) ==
  /\ at(e, "write")
  /\ tipc_write(e, held[e])
  /\ writeCopy(e)
  /\ held' = [held EXCEPT ![e] = <<>>]
  /\ to(e, "socket")
  /\ UNCHANGED <<setup, fed, coming, rev, data_in_len, out, conn, peer, backlog, nums, server>>

\* Mutant: a hangup ends the loop whatever has been read.
checkHangup_AtOnce(e, len) == rev[e] \cap {"hup0", "hup1"} # {}

checkHangup(e, len) == rev[e] \cap {"hup0", "hup1"} # {} /\ len = 0

\* What was read from the socket replaces what was read from standard input in
\* data_in_len.  --replay makes the sender of a message the destination of the
\* next ones.
ReadSocket(e) ==
  LET len == IF "in1" \in rev[e] THEN Len(received(e)) ELSE data_in_len[e]
  IN  /\ at(e, "socket")
      /\ IF "in1" \in rev[e]
         THEN /\ out' = [out EXCEPT ![e] = @ \o received(e)]
              /\ q' = [q EXCEPT ![e] = unread(e)]
              /\ peer' = [peer EXCEPT ![e] = IF setup.replay /\ ~connected /\ q[e] # <<>>
                                             THEN Head(q[e]).from ELSE @]
         ELSE UNCHANGED <<out, q, peer>>
      /\ to(e, IF checkHangup(e, len) THEN "leave" ELSE "poll")
      /\ rev' = [rev EXCEPT ![e] = {}] /\ data_in_len' = [data_in_len EXCEPT ![e] = 0]
      /\ UNCHANGED <<setup, fed, coming, held, pair, copy, conn, backlog, nums, server>>

-----------------------------------------------------------------------------
broken(e) ==
  IF connected /\ peer[e] # None
  THEN [conn EXCEPT ![e] = "no", ![peer[e]] = IF @ = "up" THEN "down" ELSE @]
  ELSE conn

\* Mutant: a worker closes its descriptor of the connection, and the server,
\* which has another, goes on holding it.
Leave_NoShutdown(e) ==
  /\ at(e, "leave")
  /\ IF e \in Client \/ setup.mode = "single_listener"
     THEN conn' = broken(e) /\ q' = [q EXCEPT ![e] = <<>>]
     ELSE UNCHANGED <<conn, q>>
  /\ pair' = [pair EXCEPT ![e] = <<>>]
  /\ to(e, "exit")
  /\ UNCHANGED <<setup, fed, coming, rev, held, data_in_len, out, copy, peer, backlog, nums,
                 server>>

\* A worker shuts the connection down, which ends it although a forking server
\* keeps its descriptor; a client just exits.
Leave(e) ==
  /\ at(e, "leave")
  /\ conn' = broken(e)
  /\ q' = [q EXCEPT ![e] = <<>>] /\ pair' = [pair EXCEPT ![e] = <<>>]
  /\ to(e, "exit")
  /\ UNCHANGED <<setup, fed, coming, rev, held, data_in_len, out, copy, peer, backlog, nums,
                 server>>

-----------------------------------------------------------------------------
Work(e) ==
  \/ generate_data(e) \/ check_generated_data(e)
  \/ Poll(e) \/ ReadStdin(e) \/ Write(e) \/ ReadSocket(e) \/ Leave(e)
Open(c) == run_client(c) \/ Connected(c)
Serve == run_server \/ listen_accept_and_io \/ ServerExit

Next ==
  \/ \E s \in Source : Feed(s)
  \/ \E c \in Client : Open(c) \/ ConnectTimeout(c)
  \/ \E e \in End : Work(e)
  \/ Serve

Spec == Init /\ [][Next]_vars

\* Every process runs, and what is to come on a standard input comes.
FairSpec ==
  /\ Spec
  /\ WF_vars(Serve)
  /\ \A s \in Source : WF_vars(Feed(s))
  /\ \A c \in Client : WF_vars(Open(c))
  /\ \A e \in End : WF_vars(Work(e))
=============================================================================
