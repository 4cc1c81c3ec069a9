----------------------------- MODULE GroupCast -----------------------------
(***************************************************************************)
(* group_cast: members of a communication group that broadcast, multicast  *)
(* or anycast as fast as they can and answer what asks for a reply         *)
(* (group_cast.c).                                                         *)
(*                                                                         *)
(* TIPC is external.  A send waits while one of its destinations has       *)
(* GroupWindow unread messages from this sender.  Joining and leaving is   *)
(* reported, in order, to everyone who has subscribed.                     *)
(***************************************************************************)
EXTENDS Integers, Sequences, FiniteSets

CONSTANTS
  Member,
  GroupSetups, \* the options members may be started with: mtyp and reply of each
  GroupWindow, \* bound: unread messages from one sender
  MaxCasts     \* bound: messages a member sends, replies apart

ASSUME GroupAssumption ==
  /\ IsFiniteSet(Member) /\ GroupWindow \in Nat \ {0} /\ MaxCasts \in Nat
  /\ GroupSetups \subseteq [Member -> [mtyp : {"NONE", "BCAST", "MCAST", "ACAST"},
                                       reply : BOOLEAN, stops : BOOLEAN]]

VARIABLES
  opts,       \* the options of each member
  phase,      \* of each member: off, discover, poll, send, answer or dead
  evt,        \* of each member: events of the topology service, unread
  member_cnt, \* of each member
  group,      \* of each member: whether it is in the group
  inbox,      \* of each member: messages, unread
  src,        \* of each member: whom it answers
  casts,      \* of each member: snt_bc, snt_mc and snt_ac
  snt_uc, rcv_uc

counts == <<casts, snt_uc, rcv_uc>>
gvars == <<opts, phase, evt, member_cnt, group, inbox, src, counts>>

GroupInit ==
  /\ opts \in GroupSetups
  /\ phase = [m \in Member |-> "off"]
  /\ evt = [m \in Member |-> <<>>] /\ member_cnt = [m \in Member |-> 0]
  /\ group = [m \in Member |-> FALSE]
  /\ inbox = [m \in Member |-> <<>>] /\ src = [m \in Member |-> m]
  /\ casts = [m \in Member |-> 0]
  /\ snt_uc = [m \in Member |-> 0] /\ rcv_uc = [m \in Member |-> 0]

in(m, p) == phase[m] = p
gto(m, p) == phase' = [phase EXCEPT ![m] = p]
joined == {m \in Member : group[m]}

\* What a change of the group adds to the events of those who have subscribed.
report(up) == [x \in Member |-> IF phase[x] \in {"off", "dead"} THEN evt[x] ELSE Append(evt[x], up)]

\* The subscription reports every member there is.
Subscribe(m) ==
  /\ in(m, "off")
  /\ evt' = [evt EXCEPT ![m] = [n \in 1 .. Cardinality(joined) |-> TRUE]]
  /\ gto(m, "discover")
  /\ UNCHANGED <<opts, member_cnt, group, inbox, src, counts>>

\* Mutant: members that leave are not counted.
discover_member_UpOnly(m) ==
  /\ member_cnt' = [member_cnt EXCEPT ![m] = IF Head(evt[m]) THEN @ + 1 ELSE @]
  /\ evt' = [evt EXCEPT ![m] = Tail(@)]

discover_member(m) ==
  /\ member_cnt' = [member_cnt EXCEPT ![m] = IF Head(evt[m]) THEN @ + 1 ELSE @ - 1]
  /\ evt' = [evt EXCEPT ![m] = Tail(@)]

Discover(m) ==
  /\ in(m, "discover") /\ evt[m] # <<>>
  /\ discover_member(m)
  /\ UNCHANGED <<opts, phase, group, inbox, src, counts>>

\* A second without events, or a second during which they are late.
Join(m) ==
  /\ in(m, "discover")
  /\ group' = [group EXCEPT ![m] = TRUE]
  /\ evt' = report(TRUE)
  /\ gto(m, "poll")
  /\ UNCHANGED <<opts, member_cnt, inbox, src, counts>>

\* Whether poll waits for as long as it takes.
timeout(m) == opts[m].mtyp = "NONE" \/ member_cnt[m] <= 1

message(type, m, reply) == [type |-> type, from |-> m, reply |-> reply]

\* One round of the loop of group_transceive: an event, a message, or both.  A
\* message that asks for a reply makes the member send one next.
Receive(m) ==
  /\ in(m, "poll") /\ (evt[m] # <<>> \/ inbox[m] # <<>>)
  /\ IF evt[m] # <<>> THEN discover_member(m) ELSE UNCHANGED <<evt, member_cnt>>
  /\ IF inbox[m] = <<>> THEN UNCHANGED <<inbox, src, rcv_uc, phase>>
     ELSE LET hdr == Head(inbox[m])
          IN  /\ inbox' = [inbox EXCEPT ![m] = Tail(@)]
              /\ rcv_uc' = [rcv_uc EXCEPT ![m] = @ + IF hdr.type = "UCAST" THEN 1 ELSE 0]
              /\ src' = [src EXCEPT ![m] = hdr.from]
              /\ gto(m, IF hdr.reply THEN "answer" ELSE "poll")
  /\ UNCHANGED <<opts, group, casts, snt_uc>>

\* Mutant: one round and then a message of its own, whatever else is there.
Drained_Once(m) ==
  /\ in(m, "poll") /\ ~timeout(m)
  /\ gto(m, "send")
  /\ UNCHANGED <<opts, evt, member_cnt, group, inbox, src, counts>>

\* Nothing is left and poll does not wait.
Drained(m) ==
  /\ in(m, "poll") /\ evt[m] = <<>> /\ inbox[m] = <<>> /\ ~timeout(m)
  /\ gto(m, "send")
  /\ UNCHANGED <<opts, evt, member_cnt, group, inbox, src, counts>>

\* Unread messages of m at x.
backlogOf(m, x) == Cardinality({i \in 1 .. Len(inbox[x]) : inbox[x][i].from = m})
open(m, x) == ~group[x] \/ backlogOf(m, x) < GroupWindow
deliver(msg, dst) ==
  inbox' = [x \in Member |-> IF x \in dst /\ group[x] THEN Append(inbox[x], msg) ELSE inbox[x]]

die(m) ==
  /\ gto(m, "dead")
  /\ group' = [group EXCEPT ![m] = FALSE]
  /\ evt' = [(IF group[m] THEN report(FALSE) ELSE evt) EXCEPT ![m] = <<>>]
  /\ inbox' = [inbox EXCEPT ![m] = <<>>]

\* Mutant: the flag that asks for a reply is left in the buffer.
Answer_KeepsFlag(m) ==
  /\ in(m, "answer") /\ open(m, src[m])
  /\ deliver(message("UCAST", m, TRUE), {src[m]})
  /\ snt_uc' = [snt_uc EXCEPT ![m] = @ + 1]
  /\ gto(m, "poll")
  /\ UNCHANGED <<opts, evt, member_cnt, group, src, casts, rcv_uc>>

\* The reply goes out in the buffer the message came in.  To a member that has left
\* it gets lost or, once that is known, fails, and the program dies.
Answer(m) ==
  /\ in(m, "answer")
  /\ \/ /\ open(m, src[m])
        /\ deliver(message("UCAST", m, FALSE), {src[m]})
        /\ snt_uc' = [snt_uc EXCEPT ![m] = @ + 1]
        /\ gto(m, "poll")
        /\ UNCHANGED <<evt, group>>
     \/ ~group[src[m]] /\ die(m) /\ UNCHANGED snt_uc
  /\ UNCHANGED <<opts, member_cnt, src, casts, rcv_uc>>

\* A broadcast and a multicast go to all other members, an anycast to one.  With
\* nobody left the send fails and the program dies.
destinations(m) ==
  LET others == joined \ {m}
  IN  IF opts[m].mtyp = "ACAST" THEN {{x} : x \in others} ELSE {others}

Cast(m) ==
  /\ in(m, "send") /\ casts[m] < MaxCasts
  /\ IF joined \subseteq {m}
     THEN die(m) /\ UNCHANGED <<member_cnt, casts>>
     ELSE /\ \E dst \in destinations(m) :
               /\ \A x \in dst : open(m, x)
               /\ deliver(message(opts[m].mtyp, m, opts[m].reply), dst)
          /\ casts' = [casts EXCEPT ![m] = @ + 1]
          /\ gto(m, "poll")
          /\ UNCHANGED <<evt, member_cnt, group>>
  /\ UNCHANGED <<opts, src, snt_uc, rcv_uc>>

\* A member is stopped.
Stop(m) ==
  /\ phase[m] \notin {"off", "dead"} /\ opts[m].stops
  /\ die(m)
  /\ UNCHANGED <<opts, member_cnt, src, counts>>

GroupNext ==
  \E m \in Member :
    \/ Subscribe(m) \/ Discover(m) \/ Join(m) \/ Receive(m) \/ Drained(m)
    \/ Answer(m) \/ Cast(m) \/ Stop(m)
=============================================================================
