------------------------------ MODULE Buckets ------------------------------
(***************************************************************************)
(* What one k-bucket does, as operators on the sequence of its contacts    *)
(* from head to tail (table.go: UpDate, bucketlist.go: Find, Push,         *)
(* MoveToTail, DeleteFrontInsert).  The module BucketList has the linked   *)
(* list itself and shows that it implements these operators.               *)
(***************************************************************************)
EXTENDS Naturals, Sequences, SequencesExt

CONSTANTS
    NodeID,     \* the identifiers of nodes
    Host,       \* the network addresses (host and port) of nodes
    K           \* the literal 20 of RoutingTable.UpDate

\* With K = 0 DeleteFrontInsert would follow the nil successor of a lone head.
ASSUME KAssumption == K \in Nat \ {0}

Contact == [NodeID : NodeID, Host : Host]

\* Variant: the search ends before the last contact.
FindPosButLast(bucket, id) ==
    IF \E i \in 1 .. Len(bucket) - 1 : bucket[i].NodeID = id
    THEN CHOOSE i \in 1 .. Len(bucket) - 1 : bucket[i].NodeID = id
    ELSE 0

\* Position of the contact with the given identifier, 0 if there is none.
\* Two contacts are the same when their NodeIDs are: the address is ignored.
FindPos(bucket, id) ==
    IF \E i \in DOMAIN bucket : bucket[i].NodeID = id
    THEN CHOOSE i \in DOMAIN bucket :
            /\ bucket[i].NodeID = id
            /\ \A j \in 1 .. i - 1 : bucket[j].NodeID # id
    ELSE 0

\* No two contacts of the bucket are the same node.
Distinct(bucket) ==
    \A i, j \in DOMAIN bucket : bucket[i].NodeID = bucket[j].NodeID => i = j

Push(bucket, c) == Append(bucket, c)

\* Variant: the head is deleted and the newcomer is not inserted.
DeleteFront(bucket, c) == Tail(bucket)

DeleteFrontInsert(bucket, c) == Append(Tail(bucket), c)

\* The contact that is moved is the one already stored.  At either end of
\* the list nothing moves, the head included.
MoveToTail(bucket, i) ==
    IF i = 1 \/ i = Len(bucket) THEN bucket
    ELSE Append(RemoveAt(bucket, i), bucket[i])

HasRoom(bucket) == Len(bucket) <= K

\* UpDate(contact) asks for a ping of the head exactly in this case.
NeedsPing(bucket, c) == FindPos(bucket, c.NodeID) = 0 /\ ~ HasRoom(bucket)

\* The bucket after UpDate(contact).  headAnswers is the outcome of
\* InternalPing on the head (err = nil) and is looked at only if NeedsPing.
UpDate(bucket, c, headAnswers) ==
    LET i == FindPos(bucket, c.NodeID)
    IN  IF i # 0 THEN MoveToTail(bucket, i)
        ELSE IF HasRoom(bucket) THEN Push(bucket, c)
        ELSE IF headAnswers THEN bucket
        ELSE DeleteFrontInsert(bucket, c)
============================================================================
