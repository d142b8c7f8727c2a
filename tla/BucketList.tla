----------------------------- MODULE BucketList -----------------------------
(***************************************************************************)
(* One k-bucket as the code stores it (bucketlist.go): a doubly linked     *)
(* list of BucketNodes with pointers to both ends and a length counter of  *)
(* its own, driven by RoutingTable.UpDate (table.go).                      *)
(*                                                                         *)
(* list.heap maps every address to the node allocated there, or to Nil;    *)
(* a node leaves it when the last pointer to it is gone.  Each action is a *)
(* whole call of UpDate: HandleTable is the only goroutine that uses the   *)
(* list, and it waits inside UpDate for the ping of the head.              *)
(***************************************************************************)
EXTENDS Buckets

CONSTANTS
    Addr,       \* the addresses at which nodes can be allocated
    Nil         \* the nil pointer, and the content of a free address

Node == [contact : Contact, next : Addr \cup {Nil}, prev : Addr \cup {Nil}]

ListRecord == [heap : [Addr -> Node \cup {Nil}], head : Addr \cup {Nil},
               tail : Addr \cup {Nil}, length : Nat]

ASSUME NilAssumption == Nil \notin Addr /\ Nil \notin Node

VARIABLES
    list,       \* the BucketList struct, and the heap its pointers lead to
    chain,      \* history: the addresses of the list from head to tail
    older       \* history: <<x, y>> if x was contacted less recently than y

vars == <<list, chain, older>>

Allocated(l) == {a \in Addr : l.heap[a] # Nil}

ContactAt(l, a) == l.heap[a].contact

\* The nodes that a walk from First by Next meets: those that are in every set that
\* holds the head and, with each node, the one behind it.
OnList(l) ==
    {a \in Allocated(l) :
        \A S \in SUBSET Addr :
            /\ l.head \in S \cup {Nil}
            /\ \A x \in S \cap Allocated(l) : l.heap[x].next \in S \cup {Nil}
            => a \in S}

\* Find: the node on the list that has the given identifier, or Nil.
Find(l, id) ==
    IF \E a \in OnList(l) : ContactAt(l, a).NodeID = id
    THEN CHOOSE a \in OnList(l) : ContactAt(l, a).NodeID = id
    ELSE Nil

----------------------------------------------------------------------------
\* The operations of bucketlist.go, as functions of the list.  The operators
\* called variants have a plausible bug: each makes one of the properties below
\* fail when it takes the place of the operation.

\* Variant: the pointer is not assigned.
Unassigned(heap, a, b) == heap

SetNext(heap, a, b) == [heap EXCEPT ![a] = [@ EXCEPT !.next = b]]

SetPrev(heap, a, b) == [heap EXCEPT ![a] = [@ EXCEPT !.prev = b]]

Free(heap, a) == [heap EXCEPT ![a] = Nil]

\* Push: c in a newly allocated node n behind the tail.
HeapWith(l, n, c) ==
    LET new  == [contact |-> c, next |-> Nil,
                 prev |-> IF l.head = Nil THEN Nil ELSE l.tail]
        heap == [l.heap EXCEPT ![n] = new]
    IN  IF l.head = Nil THEN heap ELSE SetNext(heap, l.tail, n)

PushNode(l, n, c) ==
    [heap   |-> HeapWith(l, n, c),
     head   |-> IF l.head = Nil THEN n ELSE l.head,
     tail   |-> n,
     length |-> l.length + 1]

\* The first half of MoveToTail: take x out from between its neighbours.
HeapWithout(l, x) ==
    LET before == l.heap[x].prev
        after  == l.heap[x].next
    IN  Free(SetPrev(SetNext(l.heap, before, after), after, before), x)

\* Variants: length is not counted down, or counted down twice.
UnlinkUncounted(l, x) == [l EXCEPT !.heap = HeapWithout(l, x)]

UnlinkCountedTwice(l, x) == [l EXCEPT !.heap = HeapWithout(l, x), !.length = @ - 2]

Unlink(l, x) ==
    [heap   |-> HeapWithout(l, x),
     head   |-> l.head,
     tail   |-> l.tail,
     length |-> l.length - 1]

\* The first half of DeleteFrontInsert.  The length counter is not adjusted.
DropFront(l) ==
    LET second == l.heap[l.head].next
    IN  [heap   |-> Free(SetPrev(l.heap, second, Nil), l.head),
         head   |-> second,
         tail   |-> l.tail,
         length |-> l.length]

\* Variant: the node behind the head is left in place too.
AtEndOrSecond(l, x) == l.heap[x].prev \in {Nil, l.head} \/ l.heap[x].next = Nil

AtEitherEnd(l, x) == l.heap[x].prev = Nil \/ l.heap[x].next = Nil

----------------------------------------------------------------------------

Init == /\ list = [heap |-> [a \in Addr |-> Nil],
                   head |-> Nil, tail |-> Nil, length |-> 0]
        /\ chain = << >>
        /\ older = {}

\* History: the node id is now the most recently contacted one.
Latest(id) == {p \in older : p[1] # id /\ p[2] # id} \cup ((NodeID \ {id}) \X {id})

Contacted(c) == older' = Latest(c.NodeID)

\* Variant: there is room for one node more.
InsertOneMore(c, n) ==
    /\ Find(list, c.NodeID) = Nil
    /\ list.length <= K + 1
    /\ list' = PushNode(list, n, c)
    /\ chain' = Append(chain, n)
    /\ Contacted(c)

\* UpDate of a node the bucket does not hold, with room left.
Insert(c, n) ==
    /\ Find(list, c.NodeID) = Nil
    /\ list.length <= K
    /\ list' = PushNode(list, n, c)
    /\ chain' = Append(chain, n)
    /\ Contacted(c)

\* UpDate of an unknown node, no room, and the head answers the ping.
KeepHead(c) ==
    /\ Find(list, c.NodeID) = Nil
    /\ ~ (list.length <= K)
    /\ UNCHANGED <<list, chain>>
    /\ Contacted(c)

\* UpDate of an unknown node, no room, and the ping of the head fails.
ReplaceHead(c, n) ==
    /\ Find(list, c.NodeID) = Nil
    /\ ~ (list.length <= K)
    /\ list' = PushNode(DropFront(list), n, c)
    /\ chain' = Append(Tail(chain), n)
    /\ Contacted(c)

\* UpDate of a known node that is the first or the last of the list.
LeaveAtEnd(c) ==
    LET x == Find(list, c.NodeID)
    IN  /\ x # Nil
        /\ AtEitherEnd(list, x)
        /\ UNCHANGED <<list, chain>>
        /\ Contacted(c)

\* UpDate of a known node in the middle: its stored contact is pushed again.
Refresh(c, n) ==
    LET x == Find(list, c.NodeID)
    IN  /\ x # Nil
        /\ ~ AtEitherEnd(list, x)
        /\ list' = PushNode(Unlink(list, x), n, ContactAt(list, x))
        /\ \E i \in DOMAIN chain :
              chain[i] = x /\ chain' = Append(RemoveAt(chain, i), n)
        /\ Contacted(c)

Next == \E c \in Contact :
            \/ KeepHead(c)
            \/ LeaveAtEnd(c)
            \/ \E n \in Addr \ Allocated(list) :
                  Insert(c, n) \/ ReplaceHead(c, n) \/ Refresh(c, n)

Spec == Init /\ [][Next]_vars

----------------------------------------------------------------------------
\* The state has the shape of the Go structs.
TypeOK ==
    /\ list \in ListRecord
    /\ chain \in Seq(Addr)
    /\ older \subseteq NodeID \X NodeID

\* The list l runs through each allocated node once, in the order ch: head and
\* tail are its ends, and next and prev are inverse to each other.
Linked(l, ch) ==
    /\ \A a \in Addr : l.heap[a] # Nil <=> \E i \in DOMAIN ch : ch[i] = a
    /\ \A i, j \in DOMAIN ch : ch[i] = ch[j] => i = j
    /\ l.head = IF ch = << >> THEN Nil ELSE ch[1]
    /\ l.tail = IF ch = << >> THEN Nil ELSE ch[Len(ch)]
    /\ \A i \in DOMAIN ch :
          /\ l.heap[ch[i]].next = IF i = Len(ch) THEN Nil ELSE ch[i + 1]
          /\ l.heap[ch[i]].prev = IF i = 1 THEN Nil ELSE ch[i - 1]

\* Every pointer is right after every call, although MoveToTail and
\* DeleteFrontInsert each patch several of them.
LinksAgree == Linked(list, chain)

\* The contacts from head to tail.
ContentsOf(l, ch) == [i \in DOMAIN ch |-> ContactAt(l, ch[i])]

Contents == ContentsOf(list, chain)

\* No node is listed twice, whatever addresses it was seen at.
NoDuplicates == Distinct(Contents)

\* The test for room uses the counter, which DeleteFrontInsert lets drift
\* away from the number of nodes.  The drift never changes the decision: once
\* it has begun the list is full, and a full list stays full.
RoomIsJudgedRightly ==
    /\ Len(chain) <= K + 1
    /\ Len(chain) <= K => list.length = Len(chain)
    /\ Len(chain) = K + 1 => list.length > K

\* Behind the head the list is in order of last contact, so a new head is the
\* least recently seen of all the other nodes at the time it becomes the head.
LRUBehindHead ==
    \A i, j \in DOMAIN Contents :
        1 < i /\ i < j => <<Contents[i].NodeID, Contents[j].NodeID>> \in older

\* As long as a node stays in the bucket the address stored for it does not
\* change, also when the node is heard from at another address.
StoredContactIsKept ==
    [][\A i \in DOMAIN Contents, j \in DOMAIN Contents' :
          Contents'[j].NodeID = Contents[i].NodeID
             => Contents'[j] = Contents[i]]_vars

Abstract == INSTANCE KBucket WITH bucket <- Contents

\* Seen through its contacts, the linked list behaves as a k-bucket does.
ImplementsKBucket == Abstract!Spec
=============================================================================
