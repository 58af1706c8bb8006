--------------------------- MODULE AppendOnlyTree ---------------------------
(***************************************************************************)
(* What a node promises about its blocks, without saying how: they form a  *)
(* tree that only grows.  parent[i] is the block that block i hangs from,  *)
(* 0 for the root.                                                         *)
(***************************************************************************)
EXTENDS Naturals, Sequences

VARIABLE parent

(* A node starts with its genesis block, and maybe one more behind it.     *)
Init == parent = <<0>> \/ parent = <<0, 1>>

(* One block is added below one that is already there.                     *)
Grow == \E p \in 1..Len(parent) : parent' = Append(parent, p)

Spec == Init /\ [][Grow]_parent
=============================================================================
