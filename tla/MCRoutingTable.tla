--------------------------- MODULE MCRoutingTable ---------------------------
(***************************************************************************)
(* A table of three-bit identifiers for TLC.  The owner is one of the      *)
(* identifiers and may file itself, as the code lets it.                   *)
(***************************************************************************)
EXTENDS RoutingTable

CONSTANTS NodeNumbers, SelfNumber

\* The identifier with the given numeric value.
IdOf(v) == [i \in 0 .. IDBits - 1 |-> (v \div 2 ^ (IDBits - 1 - i)) % 2]

MCNodeID == {IdOf(v) : v \in NodeNumbers}
MCSelfId == IdOf(SelfNumber)
============================================================================
