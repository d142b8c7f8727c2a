------------------------- MODULE MCIterativeLookup -------------------------
(***************************************************************************)
(* Small lookups for TLC.  Any node may name any few others, so every      *)
(* routing table that the other nodes may have is covered.                 *)
(***************************************************************************)
EXTENDS LookupFrontEnds

CONSTANTS
    MaxKnown,   \* the largest number of contacts in the own table
    MaxNamed    \* the largest number of contacts in an answer

UpTo(n) == {S \in SUBSET (Node \cup {Self}) : Cardinality(S) <= n}

MCFromTable == UpTo(MaxKnown)
MCReports == [n \in Node |-> UpTo(MaxNamed) \ {S \in UpTo(MaxNamed) : n \in S}]
============================================================================
