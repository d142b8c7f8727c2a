--------------------------- MODULE MCKademliaRPC ---------------------------
(***************************************************************************)
(* Small networks of three-bit identifiers for TLC.  A node is written as  *)
(* the number of its identifier.  Nodes 0 to 3 are in bucket 0 of the      *)
(* nodes 4 to 7, and the other way round, so with K = 1 a third contact    *)
(* of the other half makes UpDate ping the head.                           *)
(***************************************************************************)
EXTENDS KademliaRPC, TLC

CONSTANTS NodeNumbers, CrashNumbers, SilentNumbers, BreakNumbers

\* The identifier with the given numeric value.
IdOf(v) == [i \in 0 .. IDBits - 1 |-> (v \div 2 ^ (IDBits - 1 - i)) % 2]

MCNodeID == {IdOf(v) : v \in NodeNumbers}
MCMayCrash == {IdOf(v) : v \in CrashNumbers}
MCMayFallSilent == {IdOf(v) : v \in SilentNumbers}
MCMayBreak == {IdOf(v) : v \in BreakNumbers}

Asks(from, to, kind) ==
    [from |-> IdOf(from), to |-> IdOf(to), kind |-> kind, key |-> IdOf(to)]

LooksUp(n, id) ==
    [from |-> IdOf(n), to |-> IdOf(n), kind |-> "findcontact", key |-> IdOf(id)]

\* Node n has heard of the nodes m, in this order, and nobody else of anybody.
KnowsOnly(n, m) ==
    [x \in MCNodeID |->
        IF x = IdOf(n)
        THEN [NewRoutingTable EXCEPT ![0] =
                 [i \in DOMAIN m |-> [NodeID |-> IdOf(m[i]), Host |-> IdOf(m[i])]]]
        ELSE NewRoutingTable]

\* Node 0 knows 4 and 5; then 6 comes, and 4 stores what 6 looks for.
FullBucket == KnowsOnly(0, <<4, 5>>)

OneNewcomer == {Asks(6, 0, "findvalue"), Asks(4, 0, "store"), LooksUp(0, 5)}

\* Both 0 and 4 have a full bucket with the other one at the head.
FaceToFace ==
    [x \in MCNodeID |->
        IF x = IdOf(0) THEN KnowsOnly(0, <<4, 5>>)[x] ELSE KnowsOnly(4, <<0, 1>>)[x]]

TwoNewcomers == {Asks(6, 0, "ping"), Asks(2, 4, "ping")}

Symmetry == Permutations(ClientCallId) \cup Permutations(PingCallId)
=============================================================================
