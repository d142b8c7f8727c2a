------------------------------- MODULE Tables -------------------------------
(***************************************************************************)
(* The routing table of one node as a value: one bucket for each bit of an *)
(* identifier, and the operations of table.go on all of them.              *)
(***************************************************************************)
EXTENDS Ids, Buckets

CONSTANT k      \* the most contacts that one answer holds; 20 in the code

ASSUME NodeIDAssumption == NodeID \subseteq ID
ASSUME kAssumption == k \in Nat \ {0}

Table == [Bits -> Seq(Contact)]

\* Variant: the last bucket is not allocated.
NewRoutingTableShort == [p \in 0 .. IDBits - 2 |-> << >>]

NewRoutingTable == [p \in Bits |-> << >>]

Known(table) == UNION {ToSet(table[p]) : p \in Bits}

\* Every contact in the table of node self is in the bucket of its own index.
Filed(table, self) ==
    \A p \in Bits : \A i \in DOMAIN table[p] :
        BucketIndex(table[p][i].NodeID, self) = p

\* UpDate(contact) in the table of node self, as a new table.
TableUpDate(table, self, c, headAnswers) ==
    [table EXCEPT ![BucketIndex(c.NodeID, self)] = UpDate(@, c, headAnswers)]

\* Variant: the bucket is chosen by the identifier alone.
FindContactByPrefix(table, self, id) ==
    LET bucket == table[PrefixLen(id)]
        i      == FindPos(bucket, id)
    IN  IF i = 0 THEN {} ELSE {bucket[i]}

\* FindContact: the set of the contact that is found, empty if there is none.
FindContact(table, self, id) ==
    LET bucket == table[BucketIndex(id, self)]
        i      == FindPos(bucket, id)
    IN  IF i = 0 THEN {} ELSE {bucket[i]}

----------------------------------------------------------------------------
\* The bucket that FindCloset and FindAlpha visit as the i-th: p, p - 1, p + 1,
\* p - 2, p + 2, and so on.  Indices outside of the array are left out.
VisitIndex(p, i) == IF i % 2 = 0 THEN p - i \div 2 ELSE p + i \div 2

FirstK(contacts) == SubSeq(contacts, 1, IF Len(contacts) < k THEN Len(contacts) ELSE k)

\* All contacts in the order of the visit; the code stops at the k-th.
Visited(table, p) ==
    LET upTo[i \in 0 .. 2 * IDBits] ==
            IF i = 0 THEN << >>
            ELSE IF VisitIndex(p, i) \in Bits
            THEN upTo[i - 1] \o table[VisitIndex(p, i)]
            ELSE upTo[i - 1]
    IN  upTo[2 * IDBits]

\* CreateShortList leaves out the contact of the searched identifier itself.
Without(contacts, id) ==
    LET upTo[i \in 0 .. Len(contacts)] ==
            IF i = 0 THEN << >>
            ELSE IF contacts[i].NodeID = id THEN upTo[i - 1]
            ELSE Append(upTo[i - 1], contacts[i])
    IN  upTo[Len(contacts)]

\* FindAlpha fills its list with CreateShortListIncludeKey.
FindAlpha(table, self, id) == FirstK(Visited(table, BucketIndex(id, self)))

\* Variant: the searched identifier counts towards k although it is left out.
FindClosetShort(table, self, id) == Without(FindAlpha(table, self, id), id)

FindCloset(table, self, id) ==
    FirstK(Without(Visited(table, BucketIndex(id, self)), id))

----------------------------------------------------------------------------
Others(table, id) == {c \in Known(table) : c.NodeID # id}

\* The answer lists the contacts of S, each at most once, and none is left out
\* unless there are more than k.
ListsUpToK(answer, S) ==
    /\ ToSet(answer) \subseteq S
    /\ Len(answer) = Cardinality(ToSet(answer))
    /\ Len(answer) = IF Cardinality(S) < k THEN Cardinality(S) ELSE k
============================================================================
