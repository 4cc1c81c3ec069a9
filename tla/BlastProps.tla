----------------------------- MODULE BlastProps -----------------------------
(***************************************************************************)
(* The two programs of multicast_blast, whichever is started, and their    *)
(* properties.                                                             *)
(***************************************************************************)
EXTENDS McastBlast, GroupCast, TLC

CONSTANTS m1, m2, m3

VARIABLE program \* the program of this run

node(mode, tests) == [mode |-> mode, tests |-> tests]

\* Three nodes that are started once, and a transmitter that is started again.
McastNodes ==
  {(257 :> node("both", 1) @@ 258 :> node("c", 1) @@ 259 :> node("s", 1)),
   (257 :> node("both", 1) @@ 258 :> node("c", 2) @@ 259 :> node("s", 0))}

member(mtyp, reply, stops) == [mtyp |-> mtyp, reply |-> reply, stops |-> stops]

\* Everybody broadcasts; one member asks for replies; one member goes,
\* or the one that asks.
GroupOptions ==
  {[m \in Member |-> member("BCAST", FALSE, FALSE)],
   [m \in Member |-> IF m = m1 THEN member("MCAST", TRUE, FALSE) ELSE member("NONE", FALSE, FALSE)],
   [m \in Member |-> IF m = m1 THEN member("ACAST", TRUE, FALSE) ELSE member("BCAST", FALSE, m = m2)],
   [m \in Member |-> IF m = m1 THEN member("BCAST", TRUE, TRUE) ELSE member("NONE", FALSE, FALSE)]}

BlastInit ==
  /\ McastInit /\ GroupInit /\ program \in {"mcast_tipc", "group_cast"}
  /\ program = "mcast_tipc" => opts = [m \in Member |-> member("BCAST", FALSE, FALSE)]
  /\ program = "group_cast" => use = CHOOSE u \in McastSetups : TRUE
BlastNext ==
  \/ program = "mcast_tipc" /\ McastNext /\ UNCHANGED <<gvars, program>>
  \/ program = "group_cast" /\ GroupNext /\ UNCHANGED <<mvars, program>>
BlastSpec == BlastInit /\ [][BlastNext]_<<mvars, gvars, program>>

-----------------------------------------------------------------------------
\* The receiver has read the last packet of every earlier transmission of the
\* node of which it has read any.
wellEnded(n, from, test) ==
  \A t \in 1 .. test - 1 : saw[n][<<from, t>>] # {} => 1 \in saw[n][<<from, t>>]

highest(S) == CHOOSE x \in S : \A y \in S : y <= x

\* A verdict says OK exactly when nothing is missing after the first packet this
\* receiver has read of the transmission, names the number of packets that are,
\* and agrees with the gaps reported on the way, whatever other transmitters
\* sent in between.
VerdictTrue ==
  \A n \in Node :
    LET v == said[n]
        S == saw[n][<<v.from, v.test>>]
    IN  v # silence /\ wellEnded(n, v.from, v.test) =>
          /\ v.ok = (S = 1 .. highest(S))
          /\ v.missing = highest(S) - Cardinality(S) /\ v.missing = v.gaps

\* The count of members once i of the unread events are read.
counted(m, i) ==
  member_cnt[m] + Cardinality({j \in 1 .. i : evt[m][j]})
                - Cardinality({j \in 1 .. i : ~evt[m][j]})

\* The count of members and the unread events are together the members there
\* are, and on the way there no member counts less than nobody or more than
\* everybody.
CountTrue ==
  \A m \in Member : phase[m] \notin {"off", "dead"} =>
    /\ counted(m, Len(evt[m])) = Cardinality(joined)
    /\ \A i \in 0 .. Len(evt[m]) : counted(m, i) \in 0 .. Cardinality(Member)

\* Replies are never replied to: a member sends at most as many as the others can
\* have asked for, and one that asks for none gets none.
RepliesEnd ==
  \A m \in Member :
    /\ snt_uc[m] <= (Cardinality(Member) - 1) * MaxCasts
    /\ opts[m].reply = FALSE => rcv_uc[m] = 0

\* A member waits to send to another one.  The sender of an anycast waits for
\* any window to open, not for one member, and is left out.
waits(m, x) ==
  \/ phase[m] = "answer" /\ x = src[m] /\ ~open(m, x)
  \/ phase[m] = "send" /\ casts[m] < MaxCasts /\ opts[m].mtyp # "ACAST" /\ x # m /\ ~open(m, x)

\* As long as not more than one member asks for replies, no two members wait
\* for each other: each one has read everything before it sends.
NoStandstill ==
  Cardinality({m \in Member : opts[m].reply}) <= 1 =>
    \A m, x \in Member : ~(waits(m, x) /\ waits(x, m))

-----------------------------------------------------------------------------
(***************************************************************************)
(* The inductive invariant of the transmissions.                           *)
(***************************************************************************)
Packet == [domain : Node, test : 1 .. MaxTests, seqno : 0 .. SEQNOS - 1, remaining_pkts : 1 .. Packets]
Record == [rcv_nxt : 0 .. SEQNOS - 1, cnt : Nat, total_cnt : 0 .. Packets]

mcastTypes ==
  /\ use \in [Node -> [mode : {"both", "c", "s"}, tests : 0 .. MaxTests]]
  /\ xmit \in [Node -> [pc : {"off", "wait", "blast", "spin"}, test : 0 .. MaxTests,
                        seqno : 0 .. SEQNOS - 1, count : 0 .. Packets]]
  /\ rcvr \in [Node -> {"off", "up", "dead"}] /\ rq \in [Node -> Seq(Packet)]
  /\ sndrs \in [Node -> [{slot(x) : x \in Node} -> Record]]
  /\ gaps \in [Node -> [Node -> Nat]]
  /\ said \in [Node -> [from : Node \cup {0}, test : 0 .. MaxTests, ok : BOOLEAN,
                        missing : Nat, gaps : Nat]]
  /\ saw \in [Node -> [Tests -> SUBSET (1 .. Packets)]]

\* Packet r of transmission t is sent before packet s of transmission u, of one node.
before(t, r, u, s) == t < u \/ (t = u /\ r > s)

\* Packets are numbered from the first one on.
numberedOK(x) ==
  /\ xmit[x].pc # "off" => xmit[x].test >= 1
  /\ xmit[x].seqno = IF xmit[x].count = Packets THEN SEQNOS - 1 ELSE Packets - xmit[x].count - 1

\* What a receiver has read, what is queued at it and what is still to be sent
\* follow each other.
orderOK(n) ==
  /\ \A i \in 1 .. Len(rq[n]) :
       LET p == rq[n][i]
       IN  /\ p.seqno = Packets - p.remaining_pkts
           /\ before(p.test, p.remaining_pkts, xmit[p.domain].test, xmit[p.domain].count)
           /\ \A r \in 1 .. Packets, t \in 1 .. MaxTests : r \in saw[n][<<p.domain, t>>] =>
                before(t, r, p.test, p.remaining_pkts)
           /\ \A j \in 1 .. i - 1 : rq[n][j].domain = p.domain =>
                before(rq[n][j].test, rq[n][j].remaining_pkts, p.test, p.remaining_pkts)
  /\ \A x \in Node, t \in 1 .. MaxTests, r \in 1 .. Packets : r \in saw[n][<<x, t>>] =>
       before(t, r, xmit[x].test, xmit[x].count)

\* Transmission t is the last one of x of which anything was read, is not over,
\* and those before it were read to their end.
underWay(n, x, t) ==
  /\ saw[n][<<x, t>>] # {} /\ 1 \notin saw[n][<<x, t>>] /\ wellEnded(n, x, t)
  /\ \A u \in t + 1 .. MaxTests : saw[n][<<x, u>>] = {}

\* The record of a sender is clear between transmissions; during one it has the
\* first packet read, the number of packets read and the last one, and the gaps
\* reported are what is missing between.
recordOK(n, x) ==
  LET rec == sndrs[n][slot(x)]
  IN  /\ (\A t \in 1 .. MaxTests : saw[n][<<x, t>>] # {} => 1 \in saw[n][<<x, t>>]) =>
           rec.cnt = 0 /\ gaps[n][x] = 0
      /\ \A t \in 1 .. MaxTests : underWay(n, x, t) =>
           LET S == saw[n][<<x, t>>]
           IN  /\ rec.cnt = Cardinality(S) /\ rec.total_cnt \in S
               /\ \E l \in S :
                    /\ \A r \in S : l <= r /\ r <= rec.total_cnt
                    /\ rec.rcv_nxt = Packets - l + 1
                    /\ gaps[n][x] = rec.total_cnt - l + 1 - Cardinality(S)

\* A verdict is on a transmission whose last packet was read.
endedOK(n) ==
  said[n] # silence =>
    /\ said[n].from \in Node /\ said[n].test \in 1 .. MaxTests
    /\ 1 \in saw[n][<<said[n].from, said[n].test>>]

\* The inductive invariant behind VerdictTrue, where no two nodes share a record.
McastInv ==
  /\ mcastTypes /\ VerdictTrue
  /\ \A n \in Node : numberedOK(n) /\ orderOK(n) /\ endedOK(n)
  /\ \A n, x \in Node : recordOK(n, x)

SlotsApart == \A x, y \in Node : slot(x) = slot(y) => x = y

(***************************************************************************)
(* The inductive invariant of the group.                                   *)
(***************************************************************************)
Letter == [type : {"NONE", "BCAST", "MCAST", "ACAST", "UCAST"}, from : Member, reply : BOOLEAN]

groupTypes ==
  /\ opts \in [Member -> [mtyp : {"NONE", "BCAST", "MCAST", "ACAST"},
                          reply : BOOLEAN, stops : BOOLEAN]]
  /\ phase \in [Member -> {"off", "discover", "poll", "send", "answer", "dead"}]
  /\ evt \in [Member -> Seq(BOOLEAN)] /\ member_cnt \in [Member -> Int]
  /\ group \in [Member -> BOOLEAN] /\ inbox \in [Member -> Seq(Letter)]
  /\ src \in [Member -> Member] /\ casts \in [Member -> 0 .. MaxCasts]
  /\ snt_uc \in [Member -> Nat] /\ rcv_uc \in [Member -> Nat]

\* A member is in the group while it is in its loop; nobody has a message of
\* its own, a reply goes to one who asks and asks for nothing, and who is
\* answered has asked.
lettersOK(m) ==
  /\ group[m] = (phase[m] \in {"poll", "send", "answer"})
  /\ phase[m] = "off" => member_cnt[m] = 0
  /\ ~ group[m] => inbox[m] = <<>>
  /\ \A i \in 1 .. Len(inbox[m]) :
       /\ inbox[m][i].from # m
       /\ inbox[m][i].type = "UCAST" => ~ inbox[m][i].reply /\ opts[m].reply
       /\ inbox[m][i].reply => opts[inbox[m][i].from].reply
  /\ phase[m] = "answer" => src[m] # m /\ opts[src[m]].reply
  /\ opts[m].reply = FALSE => rcv_uc[m] = 0

\* Replies sent, requests unread and the one being answered are among the
\* messages the others have sent.
sentToAll(m) == {p \in (Member \ {m}) \X (1 .. MaxCasts) : p[2] <= casts[p[1]]}
repliesOK(m) ==
  snt_uc[m] + Cardinality({i \in 1 .. Len(inbox[m]) : inbox[m][i].reply})
            + (IF phase[m] = "answer" THEN 1 ELSE 0) <= Cardinality(sentToAll(m))

\* No window is exceeded.  Of two members that are about to send, the one that
\* came to it later had read everything; and while one is about to send, who
\* answers it and has a full window of its messages has not answered since.
windowOK(m, x) ==
  /\ backlogOf(m, x) <= GroupWindow
  /\ phase[m] = "send" /\ phase[x] = "send" => backlogOf(m, x) = 0 \/ backlogOf(x, m) = 0
  /\ phase[x] = "send" /\ phase[m] = "answer" /\ src[m] = x /\ backlogOf(x, m) >= GroupWindow =>
       backlogOf(m, x) = 0

\* The inductive invariant behind CountTrue, RepliesEnd and NoStandstill.
GroupInv ==
  /\ groupTypes
  /\ CountTrue
  /\ \A m \in Member : lettersOK(m) /\ repliesOK(m)
  /\ \A m, x \in Member : windowOK(m, x)
=============================================================================
