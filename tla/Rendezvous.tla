---------------------------- MODULE Rendezvous ----------------------------
(***************************************************************************)
(* What the signals of the test suite promise: two parties meet again and  *)
(* again.  Neither leaves a meeting before the other has come to it, so    *)
(* neither is ever more than one meeting ahead.                            *)
(***************************************************************************)
EXTENDS Integers

CONSTANT Party

VARIABLES
  inside, \* the parties that are at a meeting
  beat    \* meetings each party has left, modulo 4

vars == <<inside, beat>>

ahead(p, q) == (beat[p] - beat[q]) % 4

Init == inside = {} /\ beat = [p \in Party |-> 0]

Arrive(p) ==
  /\ p \notin inside
  /\ inside' = inside \cup {p} /\ UNCHANGED beat

\* The others are at this meeting or have left it already.
Leave(p) ==
  /\ p \in inside
  /\ \A q \in Party \ {p} : (ahead(p, q) = 0 /\ q \in inside) \/ ahead(q, p) = 1
  /\ inside' = inside \ {p}
  /\ beat' = [beat EXCEPT ![p] = (@ + 1) % 4]

\* A party that ends gives up the meeting it is at.
Quit(p) == inside' = inside \ {p} /\ UNCHANGED beat

Next == \E p \in Party : Arrive(p) \/ Leave(p) \/ Quit(p)

Spec == Init /\ [][Next]_vars
=============================================================================
