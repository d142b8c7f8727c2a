---------------------------- MODULE RoutingTable ----------------------------
(***************************************************************************)
(* The routing table of one node over its lifetime (table.go), driven by   *)
(* the contacts that HandleTable hands to UpDate.  The goroutine handles   *)
(* one command at a time, so each UpDate is one step, and a query reads    *)
(* the table between two steps.                                            *)
(***************************************************************************)
EXTENDS Tables

CONSTANT SelfId     \* the identifier of the node that owns the table

ASSUME SelfAssumption == SelfId \in ID

VARIABLE table

Init == table = NewRoutingTable

HandleUpDate(c, headAnswers) == table' = TableUpDate(table, SelfId, c, headAnswers)

Next == \E c \in Contact, headAnswers \in BOOLEAN : HandleUpDate(c, headAnswers)

Spec == Init /\ [][Next]_table

----------------------------------------------------------------------------
TypeOK == table \in Table

\* A contact is filed in the bucket where every lookup of its identifier
\* will search for it.
Placement == Filed(table, SelfId)

\* A node is known at one place of the table and under one address only.
OneEntryPerNode ==
    \A p, q \in Bits : \A i \in DOMAIN table[p], j \in DOMAIN table[q] :
        table[p][i].NodeID = table[q][j].NodeID => p = q /\ i = j

\* The UpDate of a contact may drop one of the same bucket, in exchange for
\* it; it never makes the table know fewer nodes, or drop one elsewhere.
DropsOnlyInExchange ==
    [][\A c \in Known(table) \ Known(table') :
          \E d \in Known(table') \ Known(table) :
              /\ BucketIndex(d.NodeID, SelfId) = BucketIndex(c.NodeID, SelfId)
              /\ Known(table') = (Known(table) \ {c}) \cup {d}]_table

\* FindContact answers the contact of exactly the nodes that are known.
FindContactIsRight ==
    \A id \in ID :
        FindContact(table, SelfId, id) = {c \in Known(table) : c.NodeID = id}

\* The contacts of the bucket that FindCloset and FindAlpha visit first are all
\* nearer to the searched identifier than any other contact of the table.
OwnBucketIsNearest ==
    \A id \in ID : LET p == BucketIndex(id, SelfId) IN
        \A q \in Bits \ {p} :
            \A i \in DOMAIN table[p], j \in DOMAIN table[q] :
                Closer(id, table[p][i].NodeID, table[q][j].NodeID)

\* Although the loops run on two indices that leave the array, both queries answer
\* as many contacts as they may: FindCloset of all but the one searched for,
\* FindAlpha, which starts a lookup, of all.
QueriesAreFull ==
    \A id \in ID : /\ ListsUpToK(FindCloset(table, SelfId, id), Others(table, id))
                   /\ ListsUpToK(FindAlpha(table, SelfId, id), Known(table))

----------------------------------------------------------------------------
\* table.go:65 says that the answer is the k nearest contacts.
FindClosetIsNearest ==
    \A id \in ID :
        LET answer == ToSet(FindCloset(table, SelfId, id))
        IN  \A c \in answer, d \in Others(table, id) \ answer :
                ~ Closer(id, d.NodeID, c.NodeID)
============================================================================
