----------------------------- MODULE PipeProps -----------------------------
(***************************************************************************)
(* Properties of tipc-pipe, as modelled by TipcPipe, and command lines to  *)
(* check them with.                                                        *)
(***************************************************************************)
EXTENDS TipcPipe

CONSTANTS c1, c2

\* tipc-pipe -s and one client on a pipe; a terminal as the server's input.
base ==
  [sock_type |-> "SEQPACKET", mode |-> "single_listener", tee |-> TRUE, replay |-> FALSE,
   hasty |-> TRUE, data_num |-> 0, data_check |-> FALSE, ref |-> (c1 :> 5 @@ c2 :> 9),
   clients |-> {c1},
   kind |-> (c1 :> "pipe" @@ c2 :> "pipe" @@ "srv" :> "tty"),
   input |-> (c1 :> <<1, 2, 3>> @@ c2 :> <<4>> @@ "srv" :> <<>>)]
stream == [base EXCEPT !.sock_type = "STREAM"]
two == [base EXCEPT !.clients = {c1, c2}, !.hasty = FALSE, !.input[c1] = <<1>>]
multi == [two EXCEPT !.mode = "multi_server"]
numbered(n) == [two EXCEPT !.data_num = n, !.data_check = TRUE]

SetupsIO ==
  {[base EXCEPT !.input["srv"] = <<7>>],
   [stream EXCEPT !.input["srv"] = <<7, 8, 9>>, !.kind["srv"] = "pipe"],
   [stream EXCEPT !.kind[c1] = "tty"],
   [base EXCEPT !.kind[c1] = "file"],
   two,
   multi,
   [multi EXCEPT !.kind["srv"] = "pipe", !.kind[c1] = "tty", !.tee = FALSE],
   [numbered(3) EXCEPT !.mode = "multi_server"],
   [numbered(3) EXCEPT !.sock_type = "RDM"],
   [numbered(2) EXCEPT !.ref[c1] = 255],
   [base EXCEPT !.sock_type = "RDM", !.tee = FALSE, !.replay = TRUE, !.input["srv"] = <<7>>]}

-----------------------------------------------------------------------------
pipes(e) == connected /\ data_io(e) = "poll"
alone(e) == e \in Client \/ setup.mode = "single_listener"

\* "sends data from stdin to TIPC socket, and data from TIPC socket to stdout":
\* while a connection is up, what the other end has printed, what is under way
\* and what is still to be read are together the input, in its order, nothing
\* missing and nothing twice.
Conserved ==
  \A e \in End :
    pipes(e) /\ conn[e] = "up" /\ alone(e) =>
      out[peer[e]] \o bytes(peer[e]) \o held[e] \o fed[stdin(e)] \o coming[stdin(e)]
        = setup.input[stdin(e)]

\* An end that leaves a connection which is still up has read its input to the
\* end, and with --tee has printed all of it.
LeavesClean ==
  \A e \in End :
    at(e, "leave") /\ pipes(e) /\ conn[e] = "up" /\ alone(e) =>
      /\ fed[stdin(e)] = <<>> /\ coming[stdin(e)] = <<>>
      /\ pair[e] = <<>> /\ (setup.tee => copy[e] = setup.input[stdin(e)])

\* Messages of a client that are neither with the checker nor in its queue.
places(c) ==
  {x \in Worker \X (1 .. Window) : x[2] <= Len(q[x[1]]) /\ q[x[1]][x[2]].from = c}
queued(c) == Cardinality(places(c))
dropped(c) == seqno[c] - got[c] - queued(c)

\* Generated data is checked, and messages have boundaries.
counting == setup.data_check /\ setup.data_num > 0 /\ setup.sock_type # "STREAM"

\* The references of the clients differ in the last byte, and none ends in 255:
\* every client has an entry of its own inside the table.
RefsApart(s) ==
  \A c, d \in Client :
    /\ s.ref[c] % 256 < MAP_EXPECTED_SEQUENCE_NUMBERS
    /\ s.ref[c] % 256 = s.ref[d] % 256 => c = d

\* Where messages have boundaries and every client has its entry, the checker
\* reports as lost only what was dropped, and all of it once the last message
\* has come.
LossTruth ==
  counting /\ RefsApart(setup) =>
    \A c \in Client :
      /\ lost[c] \in 0 .. dropped(c)
      /\ i[slot(c)] = seqno[c] => lost[c] = dropped(c)

\* With nothing but a terminal on the server's side, everything a connected
\* client is given gets printed there.
Delivered ==
  \A c \in Client :
    (pipes(c) /\ conn[c] = "up" /\ setup.kind["srv"] = "tty" /\ ~setup.data_check) ~>
      (peer[c] # None /\ out[peer[c]] = setup.input[c])

\* When one end of a connection has gone the other end goes too, also when a
\* forking server still holds the descriptor of the connection.
HangupSpreads ==
  \A e \in End :
    (connected /\ at(e, "exit") /\ peer[e] # None /\ conn[peer[e]] # "no") ~>
      (peer[e] # None /\ at(peer[e], "exit"))

-----------------------------------------------------------------------------
(***************************************************************************)
(* The inductive invariant.                                                *)
(***************************************************************************)
Packet == [from : End, data : Seq(Nat)]

\* The types of the state.
pipeTypes ==
  /\ setup \in Setups
  /\ fed \in [Source -> Seq(Nat)] /\ coming \in [Source -> Seq(Nat)]
  /\ pc \in [End -> {"unborn", "start", "dial", "generate", "check", "poll", "stdin", "write",
                     "socket", "leave", "exit"}]
  /\ rev \in [End -> SUBSET {"in0", "hup0", "in1", "hup1", "in2"}]
  /\ held \in [End -> Seq(Nat)] /\ data_in_len \in [End -> Nat]
  /\ q \in [End -> Seq(Packet)] /\ conn \in [End -> {"no", "syn", "up", "down"}]
  /\ peer \in [End -> End \cup {None}]
  /\ pair \in [End -> Seq(Nat)] /\ out \in [End -> Seq(Nat)] /\ copy \in [End -> Seq(Nat)]
  /\ seqno \in [Client -> Nat] /\ got \in [Client -> Nat] /\ lost \in [Client -> Int]
  /\ i \in [{slot(c) : c \in Client} -> Nat]
  /\ server \in {"bind", "listen", "io", "exit"} /\ backlog \in Seq(Client)

\* An end copies, generates or checks, from its birth on.
modeLabels(e) ==
  IF data_io(e) = "poll" THEN {"poll", "stdin", "write", "socket"} ELSE {data_io(e)}
labelOK(e) ==
  pc[e] \in modeLabels(e) \cup {"leave", "exit"}
            \cup (IF e \in Client THEN {"start", "dial"} ELSE {"unborn"})

\* A connection has a client and a worker as its two ends, up or not up
\* together, and who has no connection has got nothing.
linkOK(e) ==
  /\ peer[e] # None => /\ peer[peer[e]] = e
                       /\ e \in Client => peer[e] \in Worker
                       /\ e \in Worker => peer[e] \in Client
  /\ peer[e] = None => q[e] = <<>> /\ conn[e] \in {"no", "syn"}
  /\ conn[e] = "up" => conn[peer[e]] = "up"
  /\ conn[e] = "syn" => at(e, "dial") /\ peer[e] = None
  /\ e \in Worker => (peer[e] = None <=> at(e, "unborn"))
  /\ at(e, "start") => /\ peer[e] = None /\ conn[e] = "no"
                       /\ \A n \in 1 .. Len(backlog) : backlog[n] # e

\* Before the server has bound its name nothing has happened between the ends.
bindOK ==
  server = "bind" => /\ backlog = <<>> /\ \A w \in Worker : at(w, "unborn")
                     /\ \A e \in End : peer[e] = None /\ conn[e] = "no" /\ q[e] = <<>>

\* Requests wait once, and for a connection they do not have; a server that
\* serves one connection has one worker.
listenOK ==
  /\ \A m, n \in 1 .. Len(backlog) : backlog[m] = backlog[n] => m = n
  /\ \A n \in 1 .. Len(backlog) : peer[backlog[n]] = None
  /\ setup.mode = "single_listener" =>
       /\ server = "listen" => \A w \in Worker : at(w, "unborn")
       /\ \A w, v \in Worker : ~at(w, "unborn") /\ ~at(v, "unborn") => w = v

\* Nobody has read or printed anything before it starts.
inputOf(s) == fed[s] \o coming[s] = setup.input[s]
freshOK(e) ==
  /\ held[e] # <<>> => at(e, "write")
  /\ pc[e] \in {"unborn", "start", "dial"} => out[e] = <<>> /\ pair[e] = <<>> /\ copy[e] = <<>>
  /\ pc[e] \in {"start", "dial"} => inputOf(stdin(e))
unreadOK == setup.mode = "single_listener" /\ (\A w \in Worker : at(w, "unborn")) => inputOf("srv")

\* With --tee the copy is complete up to what is in the socket pair.
copiedOK(e) ==
  setup.tee /\ pipes(e) /\ alone(e) /\ pc[e] \notin {"unborn", "exit"} =>
    copy[e] \o pair[e] \o held[e] \o fed[stdin(e)] \o coming[stdin(e)] = setup.input[stdin(e)]

\* What poll has reported still holds when it is acted upon, for an end that
\* shares its input with nobody; the socket pair holds one round.
roundOK(e) ==
  /\ Len(q[e]) <= Window /\ Len(pair[e]) <= buf_size /\ Len(held[e]) <= buf_size
  /\ pair[e] # <<>> => setup.tee
  /\ pc[e] \notin {"stdin", "write", "socket"} => rev[e] = {}
  /\ pc[e] \in {"stdin", "write"} => "in0" \in rev[e]
  /\ at(e, "stdin") \/ at(e, "write") \/ (at(e, "socket") /\ "in0" \notin rev[e]) => pair[e] = <<>>
  /\ "hup1" \in rev[e] => conn[e] = "down"
  /\ "hup0" \in rev[e] =>
       kind(e) = "pipe" /\ coming[stdin(e)] = <<>> /\ ("in0" \notin rev[e] => fed[stdin(e)] = <<>>)
  /\ "in1" \in rev[e] /\ conn[e] = "up" => q[e] # <<>>
  /\ alone(e) /\ kind(e) # "file" =>
       /\ at(e, "stdin") => fed[stdin(e)] # <<>>
       /\ at(e, "write") => held[e] # <<>> /\ data_in_len[e] > 0
       /\ at(e, "socket") /\ "in0" \in rev[e] => data_in_len[e] > 0

\* No end sends an empty message: on a stream, or where nobody reads the end of
\* a file or an input that another worker has taken.
NoEmpty(s) ==
  s.sock_type = "STREAM" \/ (s.mode = "single_listener" /\ \A x \in Source : s.kind[x] # "file")
fullOK(e) == \A n \in 1 .. Len(q[e]) : q[e][n].data # <<>>

\* The messages of a client are numbered, in order, in one queue, and none is
\* behind what the checker expects; what it expects is what it has taken or
\* reported.
numberOf(w, n) == q[w][n].data[1]
numbersOK(c) ==
  /\ lost[c] >= 0 /\ lost[c] + got[c] = i[slot(c)] /\ i[slot(c)] <= seqno[c]
  /\ \A w \in Worker : \A n \in 1 .. Len(q[w]) : q[w][n].from = c =>
       /\ peer[c] = w /\ q[w][n].data = <<numberOf(w, n)>>
       /\ numberOf(w, n) \in i[slot(c)] .. seqno[c] - 1
       /\ \A m \in 1 .. n - 1 : q[w][m].from = c => numberOf(w, m) < numberOf(w, n)

\* The inductive invariant behind Conserved, LeavesClean and LossTruth.
PipeInv ==
  /\ pipeTypes /\ bindOK
  /\ \A e \in End : labelOK(e) /\ freshOK(e)
  /\ \A c \in Client : seqno[c] <= setup.data_num
  /\ connected => /\ listenOK /\ unreadOK /\ Conserved
                  /\ \A e \in End : linkOK(e) /\ copiedOK(e) /\ roundOK(e)
                  /\ NoEmpty(setup) => LeavesClean /\ \A e \in End : fullOK(e)
  /\ counting /\ RefsApart(setup) =>
       /\ \A w \in Worker : \A n \in 1 .. Len(q[w]) : q[w][n].from \in Client
       /\ \A c \in Client : numbersOK(c)
=============================================================================
