----------------------------- MODULE McastBlast -----------------------------
(***************************************************************************)
(* multicast_blast: transmitters that multicast numbered packets and       *)
(* receivers that count them (mcast_tipc.c).                               *)
(*                                                                         *)
(* A node runs both, a transmitter only (-c) or a receiver only (-s).      *)
(* TIPC is external: packets of one transmitter arrive in order, a         *)
(* receiver whose queue is full misses packets, one that is bound late     *)
(* misses those before.                                                    *)
(***************************************************************************)
EXTENDS Integers, Sequences, FiniteSets

CONSTANTS
  Node,     \* the nodes, by their addresses
  McastSetups, \* how nodes may be used: mode (both, c or s) and tests of each, the
               \* number of times the program is started there
  Packets,  \* packets of a transmission
  MaxTests, \* bound: of tests
  RcvQueue  \* bound: unread packets of a receiver

MAX_RCVRS == 255
SEQNOS == 2^16  \* stands for 2^32

ASSUME McastAssumption ==
  /\ Node \subseteq Nat /\ Packets \in 1 .. SEQNOS - 1 /\ RcvQueue \in Nat \ {0}
  /\ MaxTests \in Nat
  /\ McastSetups \subseteq [Node -> [mode : {"both", "c", "s"}, tests : 0 .. MaxTests]]

VARIABLES
  use,   \* how each node is used
  xmit,  \* of each node's transmitter: off, wait, blast or done, with its counters
  rcvr,  \* of each node's receiver: off, up or dead
  rq,    \* of each receiver: packets, unread
  sndrs, \* of each receiver: the table of senders
  gaps,  \* of each receiver: for each sender, packets reported missing so far
  said,  \* of each receiver: the last verdict
  saw    \* of each receiver: for each transmission, the packets it has read

mvars == <<use, xmit, rcvr, rq, sndrs, gaps, said, saw>>

\* Mutant: the mask keeps the cluster of a sender instead of its node.
slot_Cluster(domain) == domain \div (MAX_RCVRS + 1)

slot(domain) == domain % (MAX_RCVRS + 1)

Tests == Node \X (1 .. MaxTests)
clear == [rcv_nxt |-> 0, cnt |-> 0, total_cnt |-> 0]
silence == [from |-> 0, test |-> 0, ok |-> TRUE, missing |-> 0, gaps |-> 0]
idle(test) == [pc |-> "off", test |-> test, seqno |-> SEQNOS - 1, count |-> Packets]

McastInit ==
  /\ use \in McastSetups
  /\ xmit = [n \in Node |-> idle(0)]
  /\ rcvr = [n \in Node |-> "off"]
  /\ rq = [n \in Node |-> <<>>]
  /\ sndrs = [n \in Node |-> [s \in {slot(x) : x \in Node} |-> clear]]
  /\ gaps = [n \in Node |-> [x \in Node |-> 0]]
  /\ said = [n \in Node |-> silence]
  /\ saw = [n \in Node |-> [t \in Tests |-> {}]]

\* main: the receiver is forked first.  A program starts again after it has ended.
Start(n) ==
  /\ xmit[n].pc = "off" /\ xmit[n].test < use[n].tests
  /\ xmit' = [xmit EXCEPT ![n] = [idle(@.test + 1) EXCEPT
                                    !.pc = IF use[n].mode = "s" THEN "spin" ELSE "wait"]]
  /\ rcvr' = [rcvr EXCEPT ![n] = IF use[n].mode = "c" THEN "dead" ELSE "off"]
  /\ UNCHANGED <<use, rq, sndrs, gaps, said, saw>>

\* mcast_receiver up to its loop, with an empty table.
Bind(n) ==
  /\ xmit[n].pc # "off" /\ rcvr[n] = "off"
  /\ rcvr' = [rcvr EXCEPT ![n] = "up"]
  /\ rq' = [rq EXCEPT ![n] = <<>>]
  /\ sndrs' = [sndrs EXCEPT ![n] = [s \in DOMAIN @ |-> clear]]
  /\ gaps' = [gaps EXCEPT ![n] = [x \in Node |-> 0]]
  /\ said' = [said EXCEPT ![n] = silence]
  /\ saw' = [saw EXCEPT ![n] = [t \in Tests |-> {}]]
  /\ UNCHANGED <<use, xmit>>

up == {n \in Node : rcvr[n] = "up"}

\* mcast_transmitter: the first receiver anywhere is awaited.
FirstServer(n) ==
  /\ xmit[n].pc = "wait" /\ up # {}
  /\ xmit' = [xmit EXCEPT ![n].pc = "blast"]
  /\ UNCHANGED <<use, rcvr, rq, sndrs, gaps, said, saw>>

\* Mutant: the loop tests the count after the packet.
Transmit_OneMore(n) ==
  /\ xmit[n].pc = "blast" /\ xmit[n].count >= 0
  /\ LET seqno == (xmit[n].seqno + 1) % SEQNOS
         pkt == [domain |-> n, test |-> xmit[n].test, seqno |-> seqno,
                 remaining_pkts |-> xmit[n].count]
     IN  /\ xmit' = [xmit EXCEPT ![n].seqno = seqno, ![n].count = @ - 1]
         /\ rq' = [x \in Node |-> IF x \in up /\ Len(rq[x]) < RcvQueue
                                  THEN Append(rq[x], pkt) ELSE rq[x]]
  /\ UNCHANGED <<use, rcvr, sndrs, gaps, said, saw>>

\* One packet; receivers whose queue is full do not get it.
Transmit(n) ==
  /\ xmit[n].pc = "blast" /\ xmit[n].count > 0
  /\ LET seqno == (xmit[n].seqno + 1) % SEQNOS
         pkt == [domain |-> n, test |-> xmit[n].test, seqno |-> seqno,
                 remaining_pkts |-> xmit[n].count]
     IN  /\ xmit' = [xmit EXCEPT ![n].seqno = seqno, ![n].count = @ - 1]
         /\ rq' = [x \in Node |-> IF x \in up /\ Len(rq[x]) < RcvQueue
                                  THEN Append(rq[x], pkt) ELSE rq[x]]
  /\ UNCHANGED <<use, rcvr, sndrs, gaps, said, saw>>

\* The transmitter exits and its children, which asked for it, get SIGHUP.
Finish(n) ==
  /\ xmit[n].pc = "blast" /\ xmit[n].count = 0
  /\ xmit' = [xmit EXCEPT ![n].pc = "off"]
  /\ rcvr' = [rcvr EXCEPT ![n] = "dead"]
  /\ UNCHANGED <<use, rq, sndrs, gaps, said, saw>>

\* mcast_receiver, one packet: the gap, the counts and, with the last packet,
\* the verdict.
mcast_receiver(n) ==
  /\ rcvr[n] = "up" /\ rq[n] # <<>>
  /\ LET pkt == Head(rq[n])
         old == sndrs[n][slot(pkt.domain)]
         gap == (pkt.seqno - old.rcv_nxt) % SEQNOS
         report == IF old.cnt # 0 THEN gap ELSE 0
         sndr == [rcv_nxt |-> (pkt.seqno + 1) % SEQNOS, cnt |-> old.cnt + 1,
                  total_cnt |-> IF old.cnt = 0 THEN pkt.remaining_pkts ELSE old.total_cnt]
         last == pkt.remaining_pkts = 1
         total == gaps[n][pkt.domain] + report
     IN  /\ rq' = [rq EXCEPT ![n] = Tail(@)]
         /\ saw' = [saw EXCEPT ![n][<<pkt.domain, pkt.test>>] = @ \cup {pkt.remaining_pkts}]
         /\ gaps' = [gaps EXCEPT ![n][pkt.domain] = IF last THEN 0 ELSE total]
         /\ said' = IF ~last THEN said
                    ELSE [said EXCEPT ![n] =
                            [from |-> pkt.domain, test |-> pkt.test, gaps |-> total,
                             ok |-> sndr.cnt = sndr.total_cnt,
                             missing |-> (sndr.total_cnt - sndr.cnt) % SEQNOS]]
         /\ sndrs' = [sndrs EXCEPT ![n][slot(pkt.domain)] = IF last THEN clear ELSE sndr]
  /\ UNCHANGED <<use, xmit, rcvr>>

McastNext ==
  \E n \in Node :
    Start(n) \/ Bind(n) \/ FirstServer(n) \/ Transmit(n) \/ Finish(n) \/ mcast_receiver(n)
=============================================================================
