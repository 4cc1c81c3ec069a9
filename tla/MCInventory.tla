---------------------------- MODULE MCInventory ----------------------------
(***************************************************************************)
(* Instances of InventorySim for TLC.                                      *)
(***************************************************************************)
EXTENDS InventoryProps, TLC

CONSTANTS n1, n2, i1, i2, c1, c2, j1, j2, k1, k2

\* One store: every process runs on n1.
OneStore == [p \in Proc |-> n1]

\* Two stores: the processes numbered 2 run on n2.
TwoStores == [p \in Proc |-> IF p \in {i2, c2, j2, k2} THEN n2 ELSE n1]

\* Item tasks are interchangeable, and so are customer tasks.
Symmetry == Permutations(ItemTask) \cup Permutations(CustTask)
=============================================================================
