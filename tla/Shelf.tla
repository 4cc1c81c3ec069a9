------------------------------- MODULE Shelf -------------------------------
(***************************************************************************)
(* What the items and customers of demos/inventory_sim promise together:   *)
(* an item is put on a shelf once, leaves it once, and after that goes to  *)
(* at most one customer, who gets at most one item per visit.  Nothing is  *)
(* said of tasks, sockets, messages or the logging task.                   *)
(***************************************************************************)
EXTENDS Integers

CONSTANTS Goods,   \* the items that can ever be delivered
          Visitor  \* the customers that can ever come

VARIABLES shelf,   \* "none" before delivery, "shelf", "off" afterwards
          bags     \* <<item, customer>> for every item carried home

shelfVars == <<shelf, bags>>

ShelfInit ==
  /\ shelf = [g \in Goods |-> "none"]
  /\ bags = {}

Deliver(g) ==
  /\ shelf[g] = "none"
  /\ shelf' = [shelf EXCEPT ![g] = "shelf"]
  /\ UNCHANGED bags

\* Sold or thrown away.
Remove(g) ==
  /\ shelf[g] = "shelf"
  /\ shelf' = [shelf EXCEPT ![g] = "off"]
  /\ UNCHANGED bags

TakeHome(g, v) ==
  /\ shelf[g] = "off"
  /\ \A b \in bags : b[1] # g /\ b[2] # v
  /\ bags' = bags \cup {<<g, v>>}
  /\ UNCHANGED shelf

ShelfNext ==
  \E g \in Goods : Deliver(g) \/ Remove(g) \/ \E v \in Visitor : TakeHome(g, v)

ShelfSpec == ShelfInit /\ [][ShelfNext]_shelfVars
=============================================================================
