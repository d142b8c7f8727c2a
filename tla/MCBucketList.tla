---------------------------- MODULE MCBucketList ----------------------------
(***************************************************************************)
(* A bucket of a few nodes for TLC.  The length counter grows with every   *)
(* replacement of the head, so replacements are cut off at MaxLength.      *)
(***************************************************************************)
EXTENDS BucketList, TLC

CONSTANT MaxLength      \* bound of list.length

MCNext == Next /\ list'.length <= MaxLength

MCSpec == Init /\ [][MCNext]_vars

Symmetry == Permutations(Addr) \cup Permutations(NodeID) \cup Permutations(Host)
============================================================================
