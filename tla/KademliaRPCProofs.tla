------------------------- MODULE KademliaRPCProofs -------------------------
(***************************************************************************)
(* Proofs about the nodes of module KademliaRPC, for any number of nodes,  *)
(* of calls under way and of operations that clients start, any of them    *)
(* crashing or falling silent at any time.                                 *)
(***************************************************************************)
EXTENDS KademliaRPC, TableLemmas

\* Call is a ping of node n's HandleTable, which waits for its answer.
IsPing(call, n) == call # Free /\ call.byTable /\ call.waiting /\ call.from = n

\* Node n knows node m, or its bucket for it is full.
Heard(tabs, n, m) == LET bucket == tabs[n][BucketIndex(m, n)]
                     IN  FindPos(bucket, m) # 0 \/ ~ HasRoom(bucket)

\* An answer to FindNode or FindValue: contacts, each once, at most k, and without
\* the one that was searched for.
ShortList(nodes, key) ==
    /\ Distinct(nodes) /\ Len(nodes) <= k
    /\ \A i \in DOMAIN nodes : nodes[i].NodeID # key

\* Which calls there are in which stage.
Shape(call) ==
    /\ call.byTable => call.kind = "ping" /\ call.stage \in {"dial", "update", "reply"}
    /\ call.stage = "hash" => call.kind = "store"
    /\ call.stage \in {"register", "find"} => call.kind \in Finds \cup Queries
    /\ call.kind \in Queries => /\ call.stage \in {"register", "find"}
                                /\ call.from = call.to
    /\ call.stage = "dial" => call.waiting
    /\ call.stage = "learn" => call.nodes # << >>
    /\ call.stage = "reply" /\ call.kind \in Finds => ShortList(call.nodes, call.key)

\* What the handler of a call has done so far, up to its stage.
WorkDone(call, tabs, store) ==
    /\ \/ call.stage = "reply"
       \/ call.stage \in {"register", "find"} /\ call.kind \in Finds
       => Heard(tabs, call.to, call.from)
    /\ call.kind = "store" /\ call.stage \in {"update", "reply"}
       => call.key \in store[call.to]
    /\ call.due => call.kind = "findvalue" /\ call.key \in store[call.to]
    /\ call.due /\ call.stage = "reply" => call.hasValue

GoodCall(call, tabs, store) == Shape(call) /\ WorkDone(call, tabs, store)

GoodBucket(b) == b \in Seq(Contact) /\ Distinct(b) /\ Len(b) <= K + 1

\* The invariant that every step preserves.
BucketsAreGood == \A n \in NodeID : \A p \in Bits : GoodBucket(tables[n][p])

OnePing == \A n \in NodeID : \A u, v \in pinging[n] : u = v

PingsAreOwned == \A n \in NodeID : \A u \in pinging[n] : IsPing(calls[u.ping], n)

PingsAreAwaited ==
    \A id \in CallId : \A n \in NodeID :
        IsPing(calls[id], n) /\ Up(n) => \E u \in pinging[n] : u.ping = id

CallsAreGood ==
    \A id \in CallId : calls[id] # Free => GoodCall(calls[id], tables, stored)

\* In the table of each node every contact is filed under its own index: kept by
\* every UpDate, and thus by every step that keeps the rest.
AllFiled == \A n \in NodeID : Filed(tables[n], n)

IInv == /\ TypeOK /\ BucketsAreGood
        /\ OnePing /\ PingsAreOwned /\ PingsAreAwaited
        /\ DecisionIsFresh /\ CallsAreGood /\ RegistryIsExact

----------------------------------------------------------------------------
\* What a step may do to the tables: each stays or has one UpDate, a node that
\* had heard of another still has, and the hashes grow.
ByUpDate ==
    \A n \in NodeID :
       \/ tables'[n] = tables[n]
       \/ \E c \in Contact, headAnswers \in BOOLEAN :
             tables'[n] = TableUpDate(tables[n], n, c, headAnswers)

StillHeard == \A n, m \in NodeID : Heard(tables, n, m) => Heard(tables', n, m)

TableStep == /\ tables' \in [NodeID -> Table] /\ BucketsAreGood'
             /\ ByUpDate /\ StillHeard

HashStep == /\ stored' \in [NodeID -> SUBSET ID]
            /\ \A n \in NodeID : stored[n] \subseteq stored'[n]

\* Call is a query that is registered at node n.
AtFind(call, n) == call # Free /\ call.to = n /\ call.stage = "find"

LEMMA NodeFacts ==
  ASSUME NEW n \in NodeID
  PROVE  n \in ID /\ SelfContact(n) \in Contact /\ SelfContact(n).NodeID = n
BY NodeIDAssumption, AddressAssumption DEF SelfContact, Contact

LEMMA IndexFacts ==
  ASSUME NEW n \in NodeID, NEW c \in Contact
  PROVE  c.NodeID \in NodeID /\ BucketIndex(c.NodeID, n) \in Bits
<1>1. c.NodeID \in ID /\ n \in ID /\ c.NodeID \in NodeID
  BY NodeIDAssumption DEF Contact
<1> QED
  BY <1>1, BucketIndexFacts

\* The bucket that UpDate looks at, and its head if it must be pinged.
LEMMA BucketOfFacts ==
  ASSUME BucketsAreGood, NEW n \in NodeID, NEW c \in Contact
  PROVE  /\ GoodBucket(BucketOf(n, c))
         /\ NeedsPing(BucketOf(n, c), c) => BucketOf(n, c)[1] \in Contact
<1> DEFINE b == BucketOf(n, c)
<1>1. GoodBucket(b)
  BY IndexFacts DEF BucketsAreGood, BucketOf
<1> HIDE DEF b
<1>2. Len(b) \in Nat /\ K \in Nat \ {0} /\ b \in Seq(Contact)
  BY <1>1, LenProperties, KAssumption DEF GoodBucket
<1>3. ASSUME NeedsPing(b, c)
      PROVE  b[1] \in Contact
  <2> DEFINE len == Len(b)
  <2>1. ~ (len <= K) /\ len \in Nat
    BY <1>2, <1>3 DEF NeedsPing, HasRoom
  <2> HIDE DEF len
  <2>2. 1 \in 1 .. len
    BY <1>2, <2>1
  <2> QED
    BY <1>2, <2>2, ElementOfSeq DEF len
<1> QED
  BY <1>1, <1>3 DEF b

\* UpDate of contact c in the table of node n.
LEMMA UpDateStep ==
  ASSUME tables \in [NodeID -> Table], BucketsAreGood,
         NEW n \in NodeID, NEW c \in Contact, NEW headAnswers \in BOOLEAN,
         tables' = [tables EXCEPT ![n] = TableUpDate(@, n, c, headAnswers)]
  PROVE  /\ TableStep
         /\ Heard(tables', n, c.NodeID)
         /\ \A m \in NodeID : m # n => tables'[m] = tables[m]
<1> DEFINE p == BucketIndex(c.NodeID, n)
           old == tables[n][p]
           new == UpDate(old, c, headAnswers)
<1>1. p \in Bits /\ c.NodeID \in NodeID
  BY IndexFacts
<1>2. GoodBucket(old)
  BY <1>1 DEF BucketsAreGood
<1>3. GoodBucket(new)
  BY <1>2, UpDateFacts DEF GoodBucket
<1>4. /\ tables[n] \in Table
      /\ tables' = [tables EXCEPT ![n] = TableUpDate(tables[n], n, c, headAnswers)]
      /\ TableUpDate(tables[n], n, c, headAnswers) = [tables[n] EXCEPT ![p] = new]
  BY DEF TableUpDate
<1> HIDE DEF p, new
<1>5. /\ tables'[n] = TableUpDate(tables[n], n, c, headAnswers)
      /\ tables'[n][p] = new
      /\ \A q \in Bits : q # p => tables'[n][q] = tables[n][q]
      /\ tables'[n] \in Table
      /\ \A m \in NodeID : m # n => tables'[m] = tables[m]
      /\ tables' \in [NodeID -> Table]
  <2>1. tables'[n] = [tables[n] EXCEPT ![p] = new]
    BY <1>4
  <2>2. new \in Seq(Contact) /\ tables[n] \in [Bits -> Seq(Contact)]
    BY <1>3, <1>4 DEF GoodBucket, Table
  <2>3. /\ [tables[n] EXCEPT ![p] = new] \in [Bits -> Seq(Contact)]
        /\ [tables[n] EXCEPT ![p] = new][p] = new
        /\ \A q \in Bits : q # p => [tables[n] EXCEPT ![p] = new][q] = tables[n][q]
    BY <1>1, <2>2
  <2> QED
    BY <1>4, <2>1, <2>3 DEF Table
<1>6. BucketsAreGood'
  BY <1>3, <1>5 DEF BucketsAreGood, GoodBucket
<1>7. ByUpDate
  BY <1>5 DEF ByUpDate
<1>8. \A id : FindPos(old, id) # 0 \/ ~ HasRoom(old) \/ id = c.NodeID
             => FindPos(new, id) # 0 \/ ~ HasRoom(new)
  BY <1>2, UpDateKeeps DEF GoodBucket, new
<1>9. Heard(tables', n, c.NodeID)
  BY <1>5, <1>8 DEF Heard, p
<1>10. StillHeard
  <2> SUFFICES ASSUME NEW x \in NodeID, NEW m \in NodeID, Heard(tables, x, m)
               PROVE  Heard(tables', x, m)
    BY DEF StillHeard
  <2>1. CASE x # n
    BY <1>5, <2>1 DEF Heard
  <2>2. CASE x = n
    <3>1. BucketIndex(m, n) \in Bits
      BY NodeFacts, BucketIndexFacts
    <3>2. CASE BucketIndex(m, n) = p
      BY <1>5, <1>8, <2>2, <3>2 DEF Heard
    <3>3. CASE BucketIndex(m, n) # p
      BY <1>5, <2>2, <3>1, <3>3 DEF Heard
    <3> QED
      BY <3>2, <3>3
  <2> QED
    BY <2>1, <2>2
<1> QED
  BY <1>5, <1>6, <1>7, <1>9, <1>10 DEF TableStep

LEMMA NoUpDateStep ==
  ASSUME tables \in [NodeID -> Table], BucketsAreGood, UNCHANGED tables
  PROVE  TableStep
BY DEF TableStep, BucketsAreGood, ByUpDate, StillHeard

\* What a handler has done stays done.
LEMMA WorkStays ==
  ASSUME NEW call \in Call, GoodCall(call, tables, stored), TableStep, HashStep
  PROVE  GoodCall(call, tables', stored')
<1>1. call.from \in NodeID /\ call.to \in NodeID
  BY DEF Call
<1> QED
  BY <1>1 DEF GoodCall, WorkDone, TableStep, StillHeard, HashStep

----------------------------------------------------------------------------
\* The invariant in terms of the calls alone.
LEMMA RegistryAsCalls ==
  RegistryIsExact <=> \A n \in NodeID : Up(n) =>
                         registered[n] = {id \in CallId : AtFind(calls[id], n)}
BY DEF RegistryIsExact, AtFind

\* A step that replaces one call, and that no HandleTable takes part in but for
\* its queries.
LEMMA CallStep ==
  ASSUME IInv, NEW id \in CallId, NEW new \in Call \cup {Free},
         UNCHANGED <<status, tables, pinging>>, HashStep,
         calls' = [calls EXCEPT ![id] = new],
         registered' \in [NodeID -> SUBSET CallId],
         new # Free => GoodCall(new, tables', stored'),
         \A n \in NodeID : IsPing(new, n) <=> IsPing(calls[id], n),
         \A n \in NodeID : Up(n) => \A x \in CallId :
            x \in registered'[n] <=> IF x = id THEN AtFind(new, n)
                                     ELSE x \in registered[n]
  PROVE  IInv' /\ ByUpDate
<1>1. TypeOK
  BY DEF IInv
<1>2. TableStep
  BY <1>1, NoUpDateStep DEF IInv, TypeOK
<1>3. /\ calls' \in [CallId -> Call \cup {Free}]
      /\ calls'[id] = new
      /\ \A x \in CallId : x # id => calls'[x] = calls[x]
  BY <1>1 DEF TypeOK
<1>4. TypeOK'
  BY <1>1, <1>2, <1>3 DEF TypeOK, TableStep, HashStep
<1>5. \A n \in NodeID : \A x \in CallId : IsPing(calls'[x], n) <=> IsPing(calls[x], n)
  BY <1>3
<1>6. \A n \in NodeID : \A u \in pinging[n] : u.ping \in CallId
  BY <1>1 DEF TypeOK, CallId
<1>7. OnePing'
  BY DEF IInv, OnePing
<1>8. PingsAreOwned'
  BY <1>5, <1>6 DEF IInv, PingsAreOwned
<1>9. PingsAreAwaited'
  BY <1>5 DEF IInv, PingsAreAwaited, Up
<1>10. DecisionIsFresh'
  BY DEF IInv, DecisionIsFresh, BucketOf
<1>11. CallsAreGood'
  <2> SUFFICES ASSUME NEW x \in CallId, calls'[x] # Free
               PROVE  GoodCall(calls'[x], tables', stored')
    BY DEF CallsAreGood
  <2>1. CASE x = id
    BY <1>3, <2>1
  <2>2. CASE x # id
    <3>1. calls'[x] = calls[x] /\ calls[x] \in Call
      BY <1>1, <1>3, <2>2 DEF TypeOK
    <3>2. GoodCall(calls[x], tables, stored)
      BY <3>1 DEF IInv, CallsAreGood
    <3> QED
      BY <1>2, <3>1, <3>2, WorkStays
  <2> QED
    BY <2>1, <2>2
<1>12. RegistryIsExact'
  <2> SUFFICES ASSUME NEW n \in NodeID, Up(n)
               PROVE  registered'[n] = {x \in CallId : AtFind(calls'[x], n)}
    BY DEF RegistryIsExact, Up, AtFind
  <2>1. \A x \in CallId : x \in registered[n] <=> AtFind(calls[x], n)
    BY RegistryAsCalls DEF IInv
  <2>2. \A x \in CallId : x \in registered'[n] <=> AtFind(calls'[x], n)
    BY <1>3, <2>1
  <2>3. registered'[n] \subseteq CallId
    OBVIOUS
  <2> QED
    BY <2>2, <2>3
<1> QED
  BY <1>2, <1>4, <1>7, <1>8, <1>9, <1>10, <1>11, <1>12 DEF IInv, TableStep

\* The same when the registered queries stay what they are.
LEMMA PlainCallStep ==
  ASSUME IInv, NEW id \in CallId, NEW new \in Call \cup {Free},
         UNCHANGED <<status, tables, pinging, registered>>, HashStep,
         calls' = [calls EXCEPT ![id] = new],
         new # Free => GoodCall(new, tables', stored'),
         \A n \in NodeID : IsPing(new, n) <=> IsPing(calls[id], n),
         \A n \in NodeID : AtFind(new, n) <=> AtFind(calls[id], n)
  PROVE  IInv' /\ ByUpDate
<1>1. registered' \in [NodeID -> SUBSET CallId]
  BY DEF IInv, TypeOK
<1>2. \A n \in NodeID : Up(n) => \A x \in CallId :
         x \in registered'[n] <=> IF x = id THEN AtFind(new, n) ELSE x \in registered[n]
  BY RegistryAsCalls DEF IInv
<1> QED
  BY <1>1, <1>2, CallStep

\* HandleTable of node n takes a contact, on behalf of call id.
LEMMA TakeStep ==
  ASSUME IInv, NEW id \in CallId, NEW n \in NodeID, NEW c \in Contact,
         NEW new \in Call \cup {Free},
         calls[id] # Free, TakeUpdate(n, c, id, new),
         /\ new # Free /\ TableStep /\ HashStep /\ Heard(tables', n, c.NodeID)
         => GoodCall(new, tables', stored'),
         \A m \in NodeID : IsPing(new, m) <=> IsPing(calls[id], m),
         \A m \in NodeID : ~ AtFind(new, m) /\ ~ AtFind(calls[id], m)
  PROVE  IInv' /\ ByUpDate
<1> DEFINE b == BucketOf(n, c)
<1>1. /\ TypeOK /\ BucketsAreGood
      /\ Up(n) /\ pinging[n] = {}
      /\ UNCHANGED <<status, stored, registered>>
  BY DEF IInv, TakeUpdate, HandleTableIsIdle
<1>2. HashStep
  BY <1>1 DEF HashStep, TypeOK
<1>3. n \in ID /\ GoodBucket(b) /\ c.NodeID \in NodeID
  BY <1>1, NodeFacts, BucketOfFacts, IndexFacts
<1>4. \A m \in NodeID : \A u \in pinging[m] : u.ping \in CallId
  BY <1>1 DEF TypeOK, CallId
<1>5. CASE UpDateAtOnce(n, c, id, new)
  <2>1. /\ tables' = [tables EXCEPT ![n] = TableUpDate(@, n, c, TRUE)]
        /\ calls' = [calls EXCEPT ![id] = new]
        /\ pinging' = pinging
    BY <1>5 DEF UpDateAtOnce
  <2>2. /\ TableStep
        /\ Heard(tables', n, c.NodeID)
        /\ \A m \in NodeID : m # n => tables'[m] = tables[m]
    BY <1>1, <2>1, UpDateStep DEF TypeOK
  <2>3. /\ calls' \in [CallId -> Call \cup {Free}]
        /\ calls'[id] = new
        /\ \A x \in CallId : x # id => calls'[x] = calls[x]
    BY <1>1, <2>1 DEF TypeOK
  <2>4. TypeOK'
    BY <1>1, <1>2, <2>1, <2>2, <2>3 DEF TypeOK, TableStep, HashStep
  <2>5. \A m \in NodeID : \A x \in CallId : IsPing(calls'[x], m) <=> IsPing(calls[x], m)
    BY <2>3
  <2>6. OnePing'
    BY <2>1 DEF IInv, OnePing
  <2>7. PingsAreOwned'
    BY <1>4, <2>1, <2>5 DEF IInv, PingsAreOwned
  <2>8. PingsAreAwaited'
    BY <1>1, <2>1, <2>5 DEF IInv, PingsAreAwaited, Up
  <2>9. DecisionIsFresh'
    <3>1. \A m \in NodeID : \A u \in pinging[m] : m # n
      BY <1>1
    <3>2. ASSUME NEW m \in NodeID, NEW u \in pinging[m]
          PROVE  BucketOf(m, u.newcomer)' = BucketOf(m, u.newcomer)
      BY <2>2, <3>1 DEF BucketOf
    <3> QED
      BY <2>1, <3>2 DEF IInv, DecisionIsFresh
  <2>10. CallsAreGood'
    <3> SUFFICES ASSUME NEW x \in CallId, calls'[x] # Free
                 PROVE  GoodCall(calls'[x], tables', stored')
      BY DEF CallsAreGood
    <3>1. CASE x = id
      BY <1>2, <2>2, <2>3, <3>1
    <3>2. CASE x # id
      <4>1. calls'[x] = calls[x] /\ calls[x] \in Call
        BY <1>1, <2>3, <3>2 DEF TypeOK
      <4>2. GoodCall(calls[x], tables, stored)
        BY <4>1 DEF IInv, CallsAreGood
      <4> QED
        BY <1>2, <2>2, <4>1, <4>2, WorkStays
    <3> QED
      BY <3>1, <3>2
  <2>11. RegistryIsExact'
    <3> SUFFICES ASSUME NEW m \in NodeID, Up(m)
                 PROVE  registered'[m] = {x \in CallId : AtFind(calls'[x], m)}
      BY <1>1 DEF RegistryIsExact, Up, AtFind
    <3>1. registered[m] = {x \in CallId : AtFind(calls[x], m)}
      BY RegistryAsCalls DEF IInv
    <3>2. \A x \in CallId : AtFind(calls'[x], m) <=> AtFind(calls[x], m)
      BY <2>3
    <3> QED
      BY <1>1, <3>1, <3>2
  <2> QED
    BY <2>2, <2>4, <2>6, <2>7, <2>8, <2>9, <2>10, <2>11 DEF IInv, TableStep
<1>6. CASE UpDatePings(n, c, id, new)
  <2> DEFINE head == b[1]
  <2>1. PICK ping \in PingCallId \ {id} :
          /\ calls[ping] = Free
          /\ pinging' = [pinging EXCEPT ![n] =
                            @ \cup {[newcomer |-> c, head |-> head, ping |-> ping]}]
          /\ calls' = [calls EXCEPT ![id] = new,
                                    ![ping] = NewCall(n, head.NodeID, "ping", n, TRUE)]
    BY <1>6 DEF UpDatePings
  <2>2. NeedsPing(b, c) /\ tables' = tables
    BY <1>6 DEF UpDatePings
  <2>3. head \in Contact /\ head.NodeID \in NodeID
    BY <1>1, <2>2, BucketOfFacts, IndexFacts
  <2> DEFINE u == [newcomer |-> c, head |-> head, ping |-> ping]
             call == NewCall(n, head.NodeID, "ping", n, TRUE)
  <2>4. /\ call \in Call /\ call # Free
        /\ call.from = n /\ call.byTable /\ call.waiting /\ call.kind = "ping"
        /\ call.stage = "dial" /\ call.due = FALSE
    <3>1. call \in Call
      BY <1>3, <2>3, EmptySeq DEF NewCall, Call, Kind
    <3> QED
      BY <3>1, FreeAssumption DEF NewCall
  <2>5. u.newcomer = c /\ u.head = head /\ u.ping = ping
    OBVIOUS
  <2>6. u \in [newcomer : Contact, head : Contact, ping : PingCallId]
    BY <2>3
  <2>7. b = BucketOf(n, c)
    OBVIOUS
  <2>8. ping \in CallId /\ ping # id
    BY DEF CallId
  <2> HIDE DEF b, head, u, call
  <2>9. /\ pinging'[n] = {u}
        /\ \A m \in NodeID : m # n => pinging'[m] = pinging[m]
        /\ pinging' \in [NodeID -> SUBSET [newcomer : Contact, head : Contact,
                                           ping : PingCallId]]
    BY <1>1, <2>1, <2>6 DEF TypeOK, u
  <2>10. /\ calls' \in [CallId -> Call \cup {Free}]
         /\ calls'[id] = new /\ calls'[ping] = call
         /\ \A x \in CallId : x # id /\ x # ping => calls'[x] = calls[x]
    BY <1>1, <2>1, <2>4, <2>8 DEF TypeOK, call
  <2>11. TableStep
    BY <1>1, <2>2, NoUpDateStep DEF TypeOK
  <2>12. TypeOK'
    BY <1>1, <2>2, <2>9, <2>10 DEF TypeOK
  <2>13. \A m \in NodeID : \A x \in CallId :
            IsPing(calls'[x], m) <=> IF x = ping THEN m = n ELSE IsPing(calls[x], m)
    BY <2>4, <2>8, <2>10 DEF IsPing
  <2>14. OnePing'
    BY <2>9 DEF IInv, OnePing
  <2>15. PingsAreOwned'
    <3> SUFFICES ASSUME NEW m \in NodeID, NEW v \in pinging'[m]
                 PROVE  IsPing(calls'[v.ping], m)
      BY DEF PingsAreOwned
    <3>1. CASE m = n
      BY <2>5, <2>8, <2>9, <2>13, <3>1
    <3>2. CASE m # n
      <4>1. v \in pinging[m] /\ v.ping \in CallId
        BY <1>4, <2>9, <3>2
      <4>2. IsPing(calls[v.ping], m)
        BY <4>1 DEF IInv, PingsAreOwned
      <4>3. v.ping # ping
        BY <2>1, <4>2 DEF IsPing
      <4> QED
        BY <2>13, <4>1, <4>2, <4>3
    <3> QED
      BY <3>1, <3>2
  <2>16. PingsAreAwaited'
    <3> SUFFICES ASSUME NEW x \in CallId, NEW m \in NodeID, IsPing(calls'[x], m), Up(m)
                 PROVE  \E v \in pinging'[m] : v.ping = x
      BY <1>1 DEF PingsAreAwaited, Up
    <3>1. CASE x = ping
      BY <2>5, <2>9, <2>13, <3>1
    <3>2. CASE x # ping
      <4>1. IsPing(calls[x], m)
        BY <2>13, <3>2
      <4>2. \E v \in pinging[m] : v.ping = x
        BY <4>1 DEF IInv, PingsAreAwaited
      <4> QED
        BY <1>1, <2>9, <4>2
    <3> QED
      BY <3>1, <3>2
  <2>17. DecisionIsFresh'
    <3> SUFFICES ASSUME NEW m \in NodeID, NEW v \in pinging'[m]
                 PROVE  LET bucket == tables[m][BucketIndex(v.newcomer.NodeID, m)]
                        IN  NeedsPing(bucket, v.newcomer) /\ bucket[1] = v.head
      BY <2>2 DEF DecisionIsFresh, BucketOf
    <3>1. CASE m = n
      BY <2>2, <2>5, <2>7, <2>9, <3>1 DEF BucketOf, head
    <3>2. CASE m # n
      BY <2>9, <3>2 DEF IInv, DecisionIsFresh, BucketOf
    <3> QED
      BY <3>1, <3>2
  <2>18. CallsAreGood'
    <3> SUFFICES ASSUME NEW x \in CallId, calls'[x] # Free
                 PROVE  GoodCall(calls'[x], tables', stored')
      BY DEF CallsAreGood
    <3>1. CASE x = id
      <4>1. Heard(tables', n, c.NodeID)
        BY <2>2, <2>7 DEF Heard, BucketOf, NeedsPing
      <4> QED
        BY <1>2, <2>10, <2>11, <3>1, <4>1
    <3>2. CASE x = ping
      BY <2>4, <2>10, <3>2 DEF GoodCall, Shape, WorkDone, Queries
    <3>3. CASE x # id /\ x # ping
      <4>1. calls'[x] = calls[x] /\ calls[x] \in Call
        BY <1>1, <2>10, <3>3 DEF TypeOK
      <4>2. GoodCall(calls[x], tables, stored)
        BY <4>1 DEF IInv, CallsAreGood
      <4> QED
        BY <1>2, <2>11, <4>1, <4>2, WorkStays
    <3> QED
      BY <3>1, <3>2, <3>3
  <2>19. RegistryIsExact'
    <3> SUFFICES ASSUME NEW m \in NodeID, Up(m)
                 PROVE  registered'[m] = {x \in CallId : AtFind(calls'[x], m)}
      BY <1>1 DEF RegistryIsExact, Up, AtFind
    <3>1. registered[m] = {x \in CallId : AtFind(calls[x], m)}
      BY RegistryAsCalls DEF IInv
    <3>2. ~ AtFind(calls[ping], m) /\ ~ AtFind(calls'[ping], m)
      BY <2>1, <2>4, <2>10 DEF AtFind
    <3>3. \A x \in CallId : AtFind(calls'[x], m) <=> AtFind(calls[x], m)
      BY <2>10, <3>2
    <3> QED
      BY <1>1, <3>1, <3>3
  <2> QED
    BY <2>11, <2>12, <2>14, <2>15, <2>16, <2>17, <2>18, <2>19 DEF IInv, TableStep
<1> QED
  BY <1>5, <1>6 DEF TakeUpdate

\* UpDate goes on after its ping, which was call id.
LEMMA FinishStep ==
  ASSUME IInv, NEW id \in CallId, NEW n \in NodeID, NEW headAnswers \in BOOLEAN,
         NEW new \in Call \cup {Free},
         calls[id] # Free, IsPing(calls[id], n),
         FinishUpDate(n, id, headAnswers, new),
         new # Free => GoodCall(new, tables, stored),
         \A m \in NodeID : ~ IsPing(new, m),
         \A m \in NodeID : AtFind(new, m) <=> AtFind(calls[id], m)
  PROVE  IInv' /\ ByUpDate
<1>1. /\ TypeOK /\ BucketsAreGood
      /\ UNCHANGED <<status, stored, registered>>
  BY DEF IInv, FinishUpDate
<1>2. HashStep
  BY <1>1 DEF HashStep, TypeOK
<1>3. PICK u \in pinging[n] :
        /\ u.ping = id
        /\ tables' = [tables EXCEPT ![n][BucketIndex(u.newcomer.NodeID, n)] =
                         IF headAnswers THEN @ ELSE DeleteFrontInsert(@, u.newcomer)]
        /\ pinging' = [pinging EXCEPT ![n] = @ \ {u}]
        /\ calls' = [calls EXCEPT ![id] = new]
  BY DEF FinishUpDate
<1> DEFINE c == u.newcomer
           p == BucketIndex(c.NodeID, n)
           old == tables[n][p]
<1>4. c \in Contact
  BY <1>1 DEF TypeOK
<1>5. p \in Bits /\ GoodBucket(old)
  BY <1>1, <1>4, IndexFacts DEF BucketsAreGood
<1>6. NeedsPing(old, c)
  BY DEF IInv, DecisionIsFresh, BucketOf
<1>7. /\ headAnswers => UpDate(old, c, headAnswers) = old
      /\ ~ headAnswers => UpDate(old, c, headAnswers) = DeleteFrontInsert(old, c)
  BY <1>4, <1>5, <1>6, UpDateContents DEF GoodBucket
<1>8. tables' = [tables EXCEPT ![n] = TableUpDate(@, n, c, headAnswers)]
  <2> DEFINE new2 == IF headAnswers THEN old ELSE DeleteFrontInsert(old, c)
  <2>1. tables' = [tables EXCEPT ![n] = [tables[n] EXCEPT ![p] = new2]]
    BY <1>3
  <2>2. new2 = UpDate(old, c, headAnswers)
    BY <1>7
  <2> HIDE DEF new2
  <2>3. [tables[n] EXCEPT ![p] = new2] = TableUpDate(tables[n], n, c, headAnswers)
    BY <2>2 DEF TableUpDate
  <2> QED
    BY <2>1, <2>3
<1> HIDE DEF c, p, old
<1>9. /\ TableStep
      /\ \A m \in NodeID : m # n => tables'[m] = tables[m]
  BY <1>1, <1>4, <1>8, UpDateStep DEF TypeOK
<1>10. /\ calls' \in [CallId -> Call \cup {Free}]
       /\ calls'[id] = new
       /\ \A x \in CallId : x # id => calls'[x] = calls[x]
  BY <1>1, <1>3 DEF TypeOK
<1>11. pinging[n] = {u}
  BY DEF IInv, OnePing
<1>12. /\ pinging'[n] = {}
       /\ \A m \in NodeID : m # n => pinging'[m] = pinging[m]
       /\ pinging' \in [NodeID -> SUBSET [newcomer : Contact, head : Contact,
                                          ping : PingCallId]]
  BY <1>1, <1>3, <1>11 DEF TypeOK
<1>13. TypeOK'
  BY <1>1, <1>9, <1>10, <1>12 DEF TypeOK, TableStep
<1>14. OnePing'
  BY <1>12 DEF IInv, OnePing
<1>15. PingsAreOwned'
  <2> SUFFICES ASSUME NEW m \in NodeID, NEW v \in pinging'[m]
               PROVE  IsPing(calls'[v.ping], m)
    BY DEF PingsAreOwned
  <2>1. m # n /\ v \in pinging[m] /\ v.ping \in CallId
    BY <1>1, <1>12 DEF TypeOK, CallId
  <2>2. IsPing(calls[v.ping], m)
    BY <2>1 DEF IInv, PingsAreOwned
  <2>3. v.ping # id
    BY <2>1, <2>2 DEF IsPing
  <2> QED
    BY <1>10, <2>1, <2>2, <2>3
<1>16. PingsAreAwaited'
  <2> SUFFICES ASSUME NEW x \in CallId, NEW m \in NodeID, IsPing(calls'[x], m), Up(m)
               PROVE  \E v \in pinging'[m] : v.ping = x
    BY <1>1 DEF PingsAreAwaited, Up
  <2>1. x # id /\ calls'[x] = calls[x]
    BY <1>10
  <2>2. PICK v \in pinging[m] : v.ping = x
    BY <2>1 DEF IInv, PingsAreAwaited
  <2>3. m # n
    BY <1>3, <1>11, <2>1, <2>2
  <2> QED
    BY <1>12, <2>2, <2>3
<1>17. DecisionIsFresh'
  BY <1>9, <1>12 DEF IInv, DecisionIsFresh, BucketOf
<1>18. CallsAreGood'
  <2> SUFFICES ASSUME NEW x \in CallId, calls'[x] # Free
               PROVE  GoodCall(calls'[x], tables', stored')
    BY DEF CallsAreGood
  <2>1. CASE x = id
    BY <1>2, <1>9, <1>10, <2>1, WorkStays
  <2>2. CASE x # id
    <3>1. calls'[x] = calls[x] /\ calls[x] \in Call
      BY <1>1, <1>10, <2>2 DEF TypeOK
    <3>2. GoodCall(calls[x], tables, stored)
      BY <3>1 DEF IInv, CallsAreGood
    <3> QED
      BY <1>2, <1>9, <3>1, <3>2, WorkStays
  <2> QED
    BY <2>1, <2>2
<1>19. RegistryIsExact'
  <2> SUFFICES ASSUME NEW m \in NodeID, Up(m)
               PROVE  registered'[m] = {x \in CallId : AtFind(calls'[x], m)}
    BY <1>1 DEF RegistryIsExact, Up, AtFind
  <2>1. registered[m] = {x \in CallId : AtFind(calls[x], m)}
    BY RegistryAsCalls DEF IInv
  <2>2. \A x \in CallId : AtFind(calls'[x], m) <=> AtFind(calls[x], m)
    BY <1>10
  <2> QED
    BY <1>1, <2>1, <2>2
<1> QED
  BY <1>9, <1>13, <1>14, <1>15, <1>16, <1>17, <1>18, <1>19 DEF IInv, TableStep

\* What becomes of a call when the process of node n ends: it goes on, it goes on
\* for nobody if n was its caller, or it ends.
LEMMA CallsWithoutFacts ==
  ASSUME TypeOK, NEW n \in NodeID, NEW x \in CallId
  PROVE  LET call == calls[x]
             rest == CallsWithout(n)[x]
         IN  /\ rest \in Call \cup {Free}
             /\ \/ rest = call
                \/ rest = Free /\ (call # Free => call.from = n \/ (call.to = n /\ ~ call.waiting))
                \/ /\ call # Free /\ call.from = n /\ call.stage \in AtCallee
                   /\ rest = [call EXCEPT !.waiting = FALSE]
             /\ rest # Free => call # Free /\ (call.from = n => ~ rest.waiting)
<1> DEFINE call == calls[x]
           rest == CallsWithout(n)[x]
<1>1. rest = IF call = Free THEN Free
             ELSE IF call.from = n
             THEN IF call.stage \in AtCallee /\ call.to # n /\ Up(call.to)
                  THEN [call EXCEPT !.waiting = FALSE]
                  ELSE Free
             ELSE IF call.to = n /\ ~ call.waiting THEN Free
             ELSE call
  BY DEF CallsWithout
<1>2. call \in Call \cup {Free}
  BY DEF TypeOK
<1>3. call # Free =>
        /\ [call EXCEPT !.waiting = FALSE] \in Call
        /\ ~ [call EXCEPT !.waiting = FALSE].waiting
  BY <1>2 DEF Call
<1> HIDE DEF call, rest
<1>4. /\ rest \in Call \cup {Free}
      /\ \/ rest = call
         \/ rest = Free /\ (call # Free => call.from = n \/ (call.to = n /\ ~ call.waiting))
         \/ /\ call # Free /\ call.from = n /\ call.stage \in AtCallee
            /\ rest = [call EXCEPT !.waiting = FALSE]
      /\ rest # Free => call # Free /\ (call.from = n => ~ rest.waiting)
  BY <1>1, <1>2, <1>3
<1> QED
  BY <1>4 DEF call, rest

\* A call whose caller waits no longer.
LEMMA UnawaitedFacts ==
  ASSUME NEW call \in Call, call.stage \in AtCallee
  PROVE  LET new == [call EXCEPT !.waiting = FALSE]
         IN  /\ new \in Call /\ new # Free /\ ~ new.waiting
             /\ GoodCall(call, tables, stored) => GoodCall(new, tables, stored)
             /\ \A m : AtFind(new, m) <=> AtFind(call, m)
             /\ \A m : ~ IsPing(new, m)
<1> DEFINE new == [call EXCEPT !.waiting = FALSE]
<1>1. /\ new \in Call /\ ~ new.waiting
      /\ new.from = call.from /\ new.to = call.to /\ new.kind = call.kind
      /\ new.key = call.key /\ new.byTable = call.byTable /\ new.stage = call.stage
      /\ new.nodes = call.nodes /\ new.hasValue = call.hasValue /\ new.due = call.due
  BY DEF Call
<1> HIDE DEF new
<1>2. new # Free /\ call # Free
  BY <1>1, FreeAssumption
<1>3. GoodCall(call, tables, stored) => GoodCall(new, tables, stored)
  BY <1>1 DEF GoodCall, Shape, WorkDone, AtCallee
<1>4. /\ \A m : AtFind(new, m) <=> AtFind(call, m)
      /\ \A m : ~ IsPing(new, m)
  BY <1>1, <1>2 DEF AtFind, IsPing
<1> QED
  BY <1>1, <1>2, <1>3, <1>4 DEF new

\* The process of a node ends.
LEMMA DownStep ==
  ASSUME IInv, NEW n \in NodeID, GoDown(n)
  PROVE  IInv' /\ ByUpDate
<1>1. /\ TypeOK /\ BucketsAreGood
      /\ status' = [status EXCEPT ![n] = "down"]
      /\ calls' = CallsWithout(n)
      /\ pinging' = [pinging EXCEPT ![n] = {}]
      /\ UNCHANGED <<tables, stored, registered>>
  BY DEF IInv, GoDown
<1>2. TableStep /\ HashStep
  BY <1>1, NoUpDateStep DEF TypeOK, HashStep
<1>3. /\ pinging'[n] = {}
      /\ \A m \in NodeID : m # n => pinging'[m] = pinging[m]
      /\ pinging' \in [NodeID -> SUBSET [newcomer : Contact, head : Contact,
                                         ping : PingCallId]]
      /\ status' \in [NodeID -> {"up", "down", "silent"}]
      /\ status'[n] = "down"
      /\ \A m \in NodeID : m # n => status'[m] = status[m]
  BY <1>1 DEF TypeOK
<1>4. \A m \in NodeID : status'[m] = "up" => Up(m) /\ m # n
  BY <1>3 DEF Up
<1>5. calls' \in [CallId -> Call \cup {Free}]
  <2>1. calls' = [x \in CallId |-> calls'[x]]
    BY <1>1 DEF CallsWithout
  <2>2. \A x \in CallId : calls'[x] \in Call \cup {Free}
    BY <1>1, CallsWithoutFacts
  <2> QED
    BY <2>1, <2>2
<1>6. ASSUME NEW x \in CallId
      PROVE  \/ calls'[x] = calls[x]
             \/ /\ calls'[x] = Free
                /\ calls[x] # Free => \/ calls[x].from = n
                                      \/ calls[x].to = n /\ ~ calls[x].waiting
             \/ /\ calls[x] \in Call /\ calls[x].from = n /\ calls[x].stage \in AtCallee
                /\ calls'[x] = [calls[x] EXCEPT !.waiting = FALSE]
                /\ \A m : AtFind(calls'[x], m) <=> AtFind(calls[x], m)
                /\ \A m : ~ IsPing(calls'[x], m)
  BY <1>1, CallsWithoutFacts, UnawaitedFacts DEF TypeOK
<1>7. TypeOK'
  BY <1>1, <1>3, <1>5 DEF TypeOK
<1>8. OnePing'
  BY <1>3 DEF IInv, OnePing
<1>9. PingsAreOwned'
  <2> SUFFICES ASSUME NEW m \in NodeID, NEW v \in pinging'[m]
               PROVE  IsPing(calls'[v.ping], m)
    BY DEF PingsAreOwned
  <2>1. m # n /\ v \in pinging[m] /\ v.ping \in CallId
    BY <1>1, <1>3 DEF TypeOK, CallId
  <2>2. IsPing(calls[v.ping], m)
    BY <2>1 DEF IInv, PingsAreOwned
  <2>3. calls'[v.ping] = calls[v.ping]
    BY <1>6, <2>1, <2>2 DEF IsPing
  <2> QED
    BY <2>2, <2>3
<1>10. PingsAreAwaited'
  <2> SUFFICES ASSUME NEW x \in CallId, NEW m \in NodeID, IsPing(calls'[x], m),
                      status'[m] = "up"
               PROVE  \E v \in pinging'[m] : v.ping = x
    BY DEF PingsAreAwaited, Up
  <2>1. m # n /\ Up(m)
    BY <1>4
  <2>2. calls'[x] = calls[x]
    BY <1>6 DEF IsPing
  <2> QED
    BY <1>3, <2>1, <2>2 DEF IInv, PingsAreAwaited
<1>11. DecisionIsFresh'
  BY <1>1, <1>3 DEF IInv, DecisionIsFresh, BucketOf
<1>12. CallsAreGood'
  <2> SUFFICES ASSUME NEW x \in CallId, calls'[x] # Free
               PROVE  GoodCall(calls'[x], tables, stored)
    BY <1>1 DEF CallsAreGood
  <2>1. calls[x] \in Call /\ calls[x] # Free
    BY <1>1, <1>6, FreeAssumption DEF TypeOK
  <2>2. GoodCall(calls[x], tables, stored)
    BY <2>1 DEF IInv, CallsAreGood
  <2>3. CASE calls'[x] = calls[x]
    BY <2>2, <2>3
  <2>4. CASE calls'[x] # calls[x]
    <3>1. /\ calls[x].stage \in AtCallee
          /\ calls'[x] = [calls[x] EXCEPT !.waiting = FALSE]
      BY <1>6, <2>4
    <3> QED
      BY <2>1, <2>2, <3>1, UnawaitedFacts
  <2> QED
    BY <2>3, <2>4
<1>13. RegistryIsExact'
  <2> SUFFICES ASSUME NEW m \in NodeID, status'[m] = "up"
               PROVE  registered'[m] = {x \in CallId : AtFind(calls'[x], m)}
    BY DEF RegistryIsExact, Up, AtFind
  <2>1. m # n /\ Up(m)
    BY <1>4
  <2>2. registered[m] = {x \in CallId : AtFind(calls[x], m)}
    BY <2>1, RegistryAsCalls DEF IInv
  <2>3. ASSUME NEW x \in CallId
        PROVE  AtFind(calls'[x], m) <=> AtFind(calls[x], m)
    <3>1. CASE calls'[x] = Free /\ calls[x] # Free
      <4>1. CASE calls[x].from = n
        <5>1. ~ (calls[x].stage \in AtCallee /\ calls[x].to # n /\ Up(calls[x].to))
          BY <1>1, <3>1, <4>1, FreeAssumption DEF CallsWithout, TypeOK, Call
        <5>2. ~ AtFind(calls[x], m)
          BY <2>1, <5>1 DEF AtFind, AtCallee
        <5> QED
          BY <3>1, <5>2 DEF AtFind
      <4>2. CASE calls[x].from # n
        BY <1>6, <2>1, <3>1, <4>2 DEF AtFind
      <4> QED
        BY <4>1, <4>2
    <3> QED
      BY <1>6, <3>1
  <2> QED
    BY <1>1, <2>2, <2>3
<1> QED
  BY <1>2, <1>7, <1>8, <1>9, <1>10, <1>11, <1>12, <1>13 DEF IInv, TableStep

\* A host stops to answer.
LEMMA SilentStep ==
  ASSUME IInv, NEW n \in NodeID, FallSilent(n)
  PROVE  IInv' /\ ByUpDate
<1>1. /\ status' = [status EXCEPT ![n] = "silent"]
      /\ UNCHANGED <<tables, pinging, stored, registered, calls>>
  BY DEF FallSilent
<1>2. TypeOK'
  BY <1>1 DEF IInv, TypeOK
<1>3. \A m \in NodeID : Up(m)' => Up(m)
  BY <1>1 DEF IInv, TypeOK, Up
<1>4. PingsAreAwaited'
  BY <1>1, <1>3 DEF IInv, PingsAreAwaited
<1>5. RegistryIsExact'
  BY <1>1, <1>3 DEF IInv, RegistryIsExact
<1> QED
  BY <1>1, <1>2, <1>4, <1>5
  DEF IInv, BucketsAreGood, OnePing, PingsAreOwned, DecisionIsFresh, BucketOf,
      CallsAreGood, ByUpDate

----------------------------------------------------------------------------
\* One lemma for each action.
LEMMA CallFacts ==
  ASSUME IInv, NEW id \in CallId, calls[id] # Free
  PROVE  /\ calls[id] \in Call /\ GoodCall(calls[id], tables, stored)
         /\ calls[id].from \in NodeID /\ calls[id].to \in NodeID
         /\ calls[id].key \in ID
         /\ calls \in [CallId -> Call \cup {Free}]
         /\ tables \in [NodeID -> Table]
         /\ registered \in [NodeID -> SUBSET CallId]
         /\ stored \in [NodeID -> SUBSET ID]
<1>1. calls[id] \in Call
  BY DEF IInv, TypeOK
<1> QED
  BY <1>1 DEF IInv, TypeOK, CallsAreGood, Call

\* A call that moves to another stage is awaited, or not, as before.
LEMMA MovedFacts ==
  ASSUME NEW call \in Call, NEW new \in Call,
         new.from = call.from, new.byTable = call.byTable, new.waiting = call.waiting
  PROVE  new # Free /\ \A n : IsPing(new, n) <=> IsPing(call, n)
BY FreeAssumption DEF IsPing

LEMMA StartStep ==
  ASSUME IInv, NEW id \in ClientCallId, NEW r \in Request, Start(r, id)
  PROVE  IInv' /\ ByUpDate
<1> DEFINE stage == IF r.kind \in Queries THEN "register" ELSE "dial"
           new == [NewCall(r.from, r.to, r.kind, r.key, FALSE) EXCEPT !.stage = stage]
<1>1. /\ calls[id] = Free /\ calls' = [calls EXCEPT ![id] = new]
      /\ UNCHANGED <<status, tables, pinging, registered, stored>>
  BY DEF Start
<1>2. /\ r.from \in NodeID /\ r.to \in NodeID /\ r.kind \in Kind /\ r.key \in ID
      /\ r.kind \in Queries => r.from = r.to
  BY RequestAssumption
<1>3. /\ new \in Call
      /\ new.from = r.from /\ new.to = r.to /\ new.kind = r.kind
      /\ new.byTable = FALSE /\ new.waiting = TRUE /\ new.due = FALSE
      /\ new.stage = stage
  BY <1>2, EmptySeq DEF NewCall, Call
<1> HIDE DEF new
<1>4. GoodCall(new, tables', stored')
  BY <1>2, <1>3 DEF GoodCall, Shape, WorkDone, Queries, Finds, Kind
<1>5. \A n \in NodeID : ~ IsPing(new, n) /\ ~ IsPing(calls[id], n)
  BY <1>1, <1>3 DEF IsPing
<1>6. \A n \in NodeID : ~ AtFind(new, n) /\ ~ AtFind(calls[id], n)
  BY <1>1, <1>3 DEF AtFind
<1>7. HashStep /\ id \in CallId
  BY <1>1 DEF HashStep, IInv, TypeOK, CallId
<1> QED
  BY <1>1, <1>3, <1>4, <1>5, <1>6, <1>7, PlainCallStep

LEMMA DialedStep ==
  ASSUME IInv, NEW id \in CallId, calls[id] # Free, Dialed(id)
  PROVE  IInv' /\ ByUpDate
<1> DEFINE call == calls[id]
           stage == IF call.kind = "store" THEN "hash" ELSE "update"
           due == ValueAt(call)
           new == [call EXCEPT !.stage = stage, !.due = due]
<1>1. /\ call \in Call /\ GoodCall(call, tables, stored)
      /\ calls \in [CallId -> Call \cup {Free}]
      /\ stored \in [NodeID -> SUBSET ID]
  BY CallFacts
<1>2. /\ call.stage = "dial"
      /\ calls' = [calls EXCEPT ![id].stage = stage, ![id].due = due]
      /\ UNCHANGED <<status, tables, pinging, stored, registered>>
  BY DEF Dialed
<1>3. due \in BOOLEAN /\ call.nodes \in Seq(Contact) /\ call.hasValue \in BOOLEAN
  BY <1>1 DEF ValueAt, Call
<1>4. calls' = [calls EXCEPT ![id] = new]
  BY <1>1, <1>2
<1>5. /\ new \in Call
      /\ new.from = call.from /\ new.to = call.to /\ new.kind = call.kind
      /\ new.key = call.key /\ new.byTable = call.byTable
      /\ new.waiting = call.waiting /\ new.stage = stage
      /\ new.due = due
  <2> HIDE DEF due
  <2> QED
    BY <1>1, <1>3 DEF Call
<1>6. new # Free /\ \A n : IsPing(new, n) <=> IsPing(call, n)
  BY <1>1, <1>5, MovedFacts
<1> HIDE DEF new
<1>7. GoodCall(new, tables', stored')
  BY <1>1, <1>2, <1>5 DEF GoodCall, Shape, WorkDone, ValueAt, Queries, Finds
<1>8. \A n \in NodeID : AtFind(new, n) <=> AtFind(calls[id], n)
  BY <1>2, <1>5, <1>6 DEF AtFind
<1>9. HashStep
  BY <1>1, <1>2 DEF HashStep
<1> QED
  BY <1>2, <1>4, <1>5, <1>7, <1>8, <1>9, <1>6, PlainCallStep

LEMMA DialRefusedStep ==
  ASSUME IInv, NEW id \in CallId, calls[id] # Free, DialRefused(id)
  PROVE  IInv' /\ ByUpDate
<1>1. CASE calls[id].kind = "ping" /\ ~ calls[id].byTable
  <2>1. /\ calls' = [calls EXCEPT ![id] = Free] /\ calls[id].stage = "dial"
        /\ UNCHANGED <<status, tables, pinging, stored, registered>>
    BY <1>1 DEF DialRefused
  <2>2. HashStep
    BY <2>1 DEF HashStep, IInv, TypeOK
  <2>3. \A n \in NodeID : ~ IsPing(Free, n) /\ ~ IsPing(calls[id], n)
    BY <1>1 DEF IsPing
  <2>4. \A n \in NodeID : ~ AtFind(Free, n) /\ ~ AtFind(calls[id], n)
    BY <2>1 DEF AtFind
  <2> QED
    BY <2>1, <2>2, <2>3, <2>4, PlainCallStep
<1>2. CASE ~ (calls[id].kind = "ping" /\ ~ calls[id].byTable)
  BY <1>2, CallFacts, DownStep DEF DialRefused
<1> QED
  BY <1>1, <1>2

LEMMA AnswerClientStep ==
  ASSUME IInv, NEW id \in CallId, calls[id] # Free, AnswerClient(id)
  PROVE  IInv' /\ ByUpDate
<1> DEFINE call == calls[id]
           nodes == <<SelfContact(call.to)>> \o call.nodes
           new == [call EXCEPT !.stage = "learn", !.nodes = nodes]
<1>1. /\ call \in Call /\ GoodCall(call, tables, stored) /\ call.to \in NodeID
      /\ calls \in [CallId -> Call \cup {Free}]
      /\ stored \in [NodeID -> SUBSET ID]
  BY CallFacts
<1>2. /\ call.stage = "reply" /\ ~ call.byTable
      /\ calls' = [calls EXCEPT ![id].stage = "learn",
                                ![id].nodes = <<SelfContact(call.to)>> \o @]
      /\ UNCHANGED <<status, tables, pinging, stored, registered>>
  BY DEF AnswerClient
<1>3. /\ nodes \in Seq(Contact) /\ nodes # << >>
      /\ call.hasValue \in BOOLEAN /\ call.due \in BOOLEAN
  <2>1. call.nodes \in Seq(Contact) /\ call.hasValue \in BOOLEAN /\ call.due \in BOOLEAN
    BY <1>1 DEF Call
  <2>2. <<SelfContact(call.to)>> \in Seq(Contact) /\ Len(<<SelfContact(call.to)>>) = 1
    BY <1>1, NodeFacts
  <2>3. nodes \in Seq(Contact) /\ Len(nodes) = 1 + Len(call.nodes)
    BY <2>1, <2>2, ConcatProperties
  <2>4. Len(call.nodes) \in Nat
    BY <2>1, LenProperties
  <2>5. Len(nodes) # 0
    BY <2>3, <2>4
  <2> QED
    BY <2>1, <2>3, <2>5, EmptySeq
<1>4. calls' = [calls EXCEPT ![id] = new]
  BY <1>1, <1>2
<1>5. /\ new \in Call
      /\ new.from = call.from /\ new.to = call.to /\ new.kind = call.kind
      /\ new.key = call.key /\ new.byTable = call.byTable
      /\ new.waiting = call.waiting /\ new.stage = "learn"
      /\ new.nodes = nodes /\ new.due = call.due
  <2> HIDE DEF nodes
  <2> QED
    BY <1>1, <1>3 DEF Call
<1>6. new # Free /\ \A n : IsPing(new, n) <=> IsPing(call, n)
  BY <1>1, <1>5, MovedFacts
<1> HIDE DEF new, nodes
<1>7. GoodCall(new, tables', stored')
  BY <1>1, <1>2, <1>3, <1>5 DEF GoodCall, Shape, WorkDone, Queries, Finds
<1>8. \A n \in NodeID : AtFind(new, n) <=> AtFind(calls[id], n)
  BY <1>2, <1>5, <1>6 DEF AtFind
<1>9. HashStep
  BY <1>1, <1>2 DEF HashStep
<1> QED
  BY <1>2, <1>4, <1>5, <1>7, <1>8, <1>9, <1>6, PlainCallStep

LEMMA AnswerTableStep ==
  ASSUME IInv, NEW id \in CallId, calls[id] # Free, AnswerTable(id)
  PROVE  IInv' /\ ByUpDate
<1>1. /\ IsPing(calls[id], calls[id].from) /\ calls[id].stage = "reply"
      /\ FinishUpDate(calls[id].from, id, TRUE, Free)
  BY DEF AnswerTable, IsPing
<1>2. /\ \A m \in NodeID : ~ IsPing(Free, m)
      /\ \A m \in NodeID : AtFind(Free, m) <=> AtFind(calls[id], m)
  BY <1>1 DEF IsPing, AtFind
<1>3. calls[id].from \in NodeID
  BY CallFacts
<1> DEFINE n == calls[id].from
<1> HIDE DEF n
<1>4. n \in NodeID /\ IsPing(calls[id], n) /\ FinishUpDate(n, id, TRUE, Free)
  BY <1>1, <1>3 DEF n
<1> QED
  BY <1>2, <1>4, FinishStep

LEMMA LearnStep ==
  ASSUME IInv, NEW id \in CallId, calls[id] # Free, Learn(id)
  PROVE  IInv' /\ ByUpDate
<1> DEFINE call == calls[id]
           rest == Tail(call.nodes)
           c == Head(call.nodes)
           moved == [call EXCEPT !.nodes = rest]
           new == IF rest = << >> THEN Free ELSE moved
<1>1. /\ call \in Call /\ GoodCall(call, tables, stored) /\ call.from \in NodeID
  BY CallFacts
<1>2. call.stage = "learn" /\ call.nodes # << >> /\ ~ call.byTable
  BY <1>1 DEF Learn, GoodCall, Shape
<1>3. /\ c \in Contact /\ rest \in Seq(Contact)
      /\ call.hasValue \in BOOLEAN /\ call.due \in BOOLEAN
  BY <1>1, <1>2, HeadTailProperties DEF Call
<1>4. TakeUpdate(call.from, c, id, new)
  BY DEF Learn
<1>5. /\ moved \in Call
      /\ moved.from = call.from /\ moved.to = call.to /\ moved.kind = call.kind
      /\ moved.key = call.key /\ moved.byTable = call.byTable
      /\ moved.waiting = call.waiting /\ moved.stage = "learn"
      /\ moved.nodes = rest /\ moved.due = call.due
  <2> HIDE DEF rest
  <2> QED
    BY <1>1, <1>2, <1>3 DEF Call
<1> DEFINE n == call.from
<1> HIDE DEF moved, rest, c, n
<1>6. new # Free /\ HashStep => GoodCall(new, tables', stored')
  BY <1>1, <1>2, <1>5 DEF GoodCall, Shape, WorkDone, Queries, Finds, HashStep, Call
<1>7. /\ \A m \in NodeID : IsPing(new, m) <=> IsPing(calls[id], m)
      /\ \A m \in NodeID : ~ AtFind(new, m) /\ ~ AtFind(calls[id], m)
  BY <1>2, <1>5 DEF IsPing, AtFind
<1>8. new \in Call \cup {Free} /\ n \in NodeID /\ TakeUpdate(n, c, id, new)
  BY <1>1, <1>4, <1>5 DEF n
<1> HIDE DEF new
<1> QED
  BY <1>3, <1>6, <1>7, <1>8, TakeStep

LEMMA TimeOutStep ==
  ASSUME IInv, NEW id \in CallId, calls[id] # Free, TimeOut(id)
  PROVE  IInv' /\ ByUpDate
<1> DEFINE call == calls[id]
           rest == IF call.stage = "reply" \/ ~ Up(call.to) THEN Free
                   ELSE [call EXCEPT !.waiting = FALSE]
           n == call.from
<1>1. /\ call \in Call /\ GoodCall(call, tables, stored) /\ n \in NodeID
      /\ call.to \in NodeID
  BY CallFacts
<1>2. call.stage \in AtCallee /\ call.waiting
  BY DEF TimeOut
<1>3. /\ rest \in Call \cup {Free}
      /\ rest # Free => GoodCall(rest, tables, stored)
      /\ \A m \in NodeID : ~ IsPing(rest, m)
  BY <1>1, <1>2, UnawaitedFacts DEF IsPing
<1>4. CASE call.byTable
  <2>1. /\ FinishUpDate(n, id, FALSE, rest) /\ IsPing(call, n)
    BY <1>2, <1>4 DEF TimeOut, IsPing
  <2>2. \A m \in NodeID : AtFind(rest, m) <=> AtFind(calls[id], m)
    <3>1. call.stage # "find"
      BY <1>1, <1>4 DEF GoodCall, Shape
    <3> QED
      BY <1>1, <1>2, <3>1, UnawaitedFacts DEF AtFind
  <2> HIDE DEF rest, n
  <2> QED
    BY <1>1, <1>3, <2>1, <2>2, FinishStep
<1>5. CASE ~ call.byTable
  <2>1. /\ calls' = [calls EXCEPT ![id] = rest]
        /\ UNCHANGED <<status, tables, pinging, stored, registered>>
    BY <1>5 DEF TimeOut
  <2>2. \A m \in NodeID : ~ IsPing(calls[id], m)
    BY <1>5 DEF IsPing
  <2>3. HashStep
    BY <2>1 DEF HashStep, IInv, TypeOK
  <2>4. registered' \in [NodeID -> SUBSET CallId]
    BY <2>1 DEF IInv, TypeOK
  <2>5. ASSUME NEW m \in NodeID, Up(m)
        PROVE  AtFind(rest, m) <=> AtFind(calls[id], m)
    BY <1>1, <1>2, <2>5, UnawaitedFacts DEF AtFind
  <2>6. \A m \in NodeID : Up(m) => \A x \in CallId :
           x \in registered'[m] <=> IF x = id THEN AtFind(rest, m) ELSE x \in registered[m]
    BY <2>1, <2>5, RegistryAsCalls DEF IInv
  <2> HIDE DEF rest
  <2> QED
    BY <1>3, <2>1, <2>2, <2>3, <2>4, <2>6, CallStep
<1> QED
  BY <1>4, <1>5

LEMMA ConnectionLostStep ==
  ASSUME IInv, NEW id \in CallId, calls[id] # Free, ConnectionLost(id)
  PROVE  IInv' /\ ByUpDate
BY CallFacts, DownStep DEF ConnectionLost

LEMMA StoreLocallyStep ==
  ASSUME IInv, NEW id \in CallId, calls[id] # Free, StoreLocally(id)
  PROVE  IInv' /\ ByUpDate
<1> DEFINE call == calls[id]
           new == [call EXCEPT !.stage = "update"]
<1>1. /\ call \in Call /\ GoodCall(call, tables, stored)
      /\ call.to \in NodeID /\ call.key \in ID
      /\ calls \in [CallId -> Call \cup {Free}]
      /\ stored \in [NodeID -> SUBSET ID]
  BY CallFacts
<1>2. /\ call.stage = "hash"
      /\ stored' = [stored EXCEPT ![call.to] = @ \cup {call.key}]
      /\ calls' = [calls EXCEPT ![id].stage = "update"]
      /\ UNCHANGED <<status, tables, pinging, registered>>
  BY DEF StoreLocally
<1>3. calls' = [calls EXCEPT ![id] = new]
  BY <1>1, <1>2
<1>4. /\ new \in Call
      /\ new.from = call.from /\ new.to = call.to /\ new.kind = call.kind
      /\ new.key = call.key /\ new.byTable = call.byTable
      /\ new.waiting = call.waiting /\ new.stage = "update" /\ new.due = call.due
  BY <1>1 DEF Call
<1>5. new # Free /\ \A n : IsPing(new, n) <=> IsPing(call, n)
  BY <1>1, <1>4, MovedFacts
<1>6. HashStep /\ call.key \in stored'[call.to]
  BY <1>1, <1>2 DEF HashStep
<1> HIDE DEF new
<1>7. GoodCall(new, tables', stored')
  BY <1>1, <1>2, <1>4, <1>6 DEF GoodCall, Shape, WorkDone, Queries, Finds, HashStep
<1>8. \A n \in NodeID : AtFind(new, n) <=> AtFind(calls[id], n)
  BY <1>2, <1>4, <1>5 DEF AtFind
<1> QED
  BY <1>2, <1>3, <1>4, <1>5, <1>6, <1>7, <1>8, PlainCallStep

LEMMA HeardOfStep ==
  ASSUME IInv, NEW id \in CallId, calls[id] # Free, HeardOf(id)
  PROVE  IInv' /\ ByUpDate
<1> DEFINE call == calls[id]
           stage == IF call.kind \in Finds THEN "register" ELSE "reply"
           new == [call EXCEPT !.stage = stage]
           c == SelfContact(call.from)
           n == call.to
<1>1. /\ call \in Call /\ GoodCall(call, tables, stored)
      /\ call.from \in NodeID /\ n \in NodeID
  BY CallFacts
<1>2. call.stage = "update" /\ TakeUpdate(n, c, id, new)
  BY DEF HeardOf
<1>3. /\ new \in Call
      /\ new.from = call.from /\ new.to = call.to /\ new.kind = call.kind
      /\ new.key = call.key /\ new.byTable = call.byTable
      /\ new.waiting = call.waiting /\ new.stage = stage /\ new.due = call.due
  BY <1>1 DEF Call
<1>4. new # Free /\ \A m : IsPing(new, m) <=> IsPing(call, m)
  BY <1>1, <1>3, MovedFacts
<1>5. c \in Contact /\ c.NodeID = call.from
  BY <1>1, NodeFacts
<1> HIDE DEF new, c
<1>6. ASSUME HashStep, Heard(tables', n, c.NodeID)
      PROVE  GoodCall(new, tables', stored')
  BY <1>1, <1>2, <1>3, <1>5, <1>6
  DEF GoodCall, Shape, WorkDone, Queries, Finds, HashStep
<1>7. \A m \in NodeID : ~ AtFind(new, m) /\ ~ AtFind(calls[id], m)
  BY <1>2, <1>3 DEF AtFind
<1> HIDE DEF n
<1> QED
  BY <1>1, <1>2, <1>3, <1>4, <1>5, <1>6, <1>7, TakeStep

LEMMA RegisterStep ==
  ASSUME IInv, NEW id \in CallId, calls[id] # Free, Register(id)
  PROVE  IInv' /\ ByUpDate
<1> DEFINE call == calls[id]
           new == [call EXCEPT !.stage = "find"]
<1>1. /\ call \in Call /\ GoodCall(call, tables, stored)
      /\ call.to \in NodeID
      /\ calls \in [CallId -> Call \cup {Free}]
      /\ registered \in [NodeID -> SUBSET CallId]
      /\ stored \in [NodeID -> SUBSET ID]
  BY CallFacts
<1>2. /\ call.stage = "register"
      /\ registered' = [registered EXCEPT ![call.to] = @ \cup {id}]
      /\ calls' = [calls EXCEPT ![id].stage = "find"]
      /\ UNCHANGED <<status, tables, pinging, stored>>
  BY DEF Register
<1>3. calls' = [calls EXCEPT ![id] = new]
  BY <1>1, <1>2
<1>4. /\ new \in Call
      /\ new.from = call.from /\ new.to = call.to /\ new.kind = call.kind
      /\ new.key = call.key /\ new.byTable = call.byTable
      /\ new.waiting = call.waiting /\ new.stage = "find" /\ new.due = call.due
  BY <1>1 DEF Call
<1>5. new # Free /\ \A n : IsPing(new, n) <=> IsPing(call, n)
  BY <1>1, <1>4, MovedFacts
<1>6. HashStep
  BY <1>1, <1>2 DEF HashStep
<1> HIDE DEF new
<1>7. GoodCall(new, tables', stored')
  BY <1>1, <1>2, <1>4 DEF GoodCall, Shape, WorkDone, Queries, Finds
<1>8. registered' \in [NodeID -> SUBSET CallId]
  BY <1>1, <1>2
<1>9. ASSUME NEW n \in NodeID, Up(n), NEW x \in CallId
      PROVE  x \in registered'[n] <=> IF x = id THEN AtFind(new, n)
                                      ELSE x \in registered[n]
  <2>1. ~ AtFind(call, n) /\ (AtFind(new, n) <=> call.to = n)
    BY <1>2, <1>4, <1>5 DEF AtFind
  <2>2. id \notin registered[n]
    BY <1>9, <2>1, RegistryAsCalls DEF IInv
  <2> QED
    BY <1>1, <1>2, <2>1, <2>2
<1> QED
  BY <1>2, <1>3, <1>4, <1>5, <1>6, <1>7, <1>8, <1>9, CallStep

\* No node has two entries in the table of a node.
LEMMA OneEntryFacts ==
  ASSUME IInv, AllFiled, NEW n \in NodeID
  PROVE  OneEntry(tables[n])
BY DEF IInv, BucketsAreGood, GoodBucket, AllFiled, Filed, Distinct, OneEntry

\* A full answer of FindCloset is a short list.
LEMMA ListIsShort ==
  ASSUME NEW nodes \in Seq(Contact), Distinct(nodes), NEW table, NEW key,
         ListsUpToK(nodes, Others(table, key))
  PROVE  ShortList(nodes, key)
<1> DEFINE most == Cardinality(Others(table, key))
<1>1. Len(nodes) = IF most < k THEN most ELSE k
  BY DEF ListsUpToK
<1>2. Len(nodes) \in Nat /\ k \in Nat
  BY LenProperties, kAssumption
<1> HIDE DEF most
<1>3. Len(nodes) <= k
  BY <1>1, <1>2
<1>4. \A i \in DOMAIN nodes : nodes[i].NodeID # key
  BY DEF ListsUpToK, Others, ToSet
<1> QED
  BY <1>3, <1>4 DEF ShortList

LEMMA FindStep ==
  ASSUME IInv, AllFiled, NEW id \in CallId, calls[id] # Free, Find(id)
  PROVE  IInv' /\ ByUpDate
<1> DEFINE call == calls[id]
           nodes == FindCloset(tables[call.to], call.to, call.key)
           value == ValueAt(call)
           answer == [call EXCEPT !.stage = "reply", !.nodes = nodes, !.hasValue = value]
           new == IF call.kind \in Queries THEN Free ELSE answer
<1>1. /\ call \in Call /\ GoodCall(call, tables, stored)
      /\ call.from \in NodeID /\ call.to \in NodeID /\ call.key \in ID
      /\ calls \in [CallId -> Call \cup {Free}]
      /\ tables \in [NodeID -> Table]
      /\ registered \in [NodeID -> SUBSET CallId]
      /\ stored \in [NodeID -> SUBSET ID]
  BY CallFacts
<1>2. /\ call.stage = "find"
      /\ registered' = [registered EXCEPT ![call.to] = @ \ {id}]
      /\ calls' = [calls EXCEPT ![id] = new]
      /\ UNCHANGED <<status, tables, pinging, stored>>
  BY DEF Find, Answered
<1>3. nodes \in Seq(Contact) /\ ShortList(nodes, call.key) /\ value \in BOOLEAN
  <2>1. call.to \in ID /\ tables[call.to] \in Table /\ OneEntry(tables[call.to])
    BY <1>1, NodeFacts, OneEntryFacts
  <2>2. /\ nodes \in Seq(Contact) /\ Distinct(nodes)
        /\ ListsUpToK(nodes, Others(tables[call.to], call.key))
    BY <1>1, <2>1, QueryFacts
  <2> HIDE DEF nodes
  <2>3. ShortList(nodes, call.key)
    BY <2>2, ListIsShort
  <2> QED
    BY <2>2, <2>3 DEF ValueAt
<1>4. /\ answer \in Call
      /\ answer.from = call.from /\ answer.to = call.to /\ answer.kind = call.kind
      /\ answer.key = call.key /\ answer.byTable = call.byTable
      /\ answer.waiting = call.waiting /\ answer.stage = "reply"
      /\ answer.hasValue = value /\ answer.due = call.due
      /\ answer.nodes = nodes
  <2> HIDE DEF nodes, value
  <2> QED
    BY <1>1, <1>3 DEF Call
<1>5. /\ answer # Free /\ \A n : IsPing(answer, n) <=> IsPing(call, n)
      /\ ~ call.byTable
  BY <1>1, <1>2, <1>4, MovedFacts DEF GoodCall, Shape
<1>6. HashStep
  BY <1>1, <1>2 DEF HashStep
<1> HIDE DEF answer
<1>7. new # Free => GoodCall(new, tables', stored')
  BY <1>1, <1>2, <1>3, <1>4 DEF GoodCall, Shape, WorkDone, ValueAt, Queries, Finds
<1>8. registered' \in [NodeID -> SUBSET CallId]
  BY <1>1, <1>2
<1>9. ASSUME NEW n \in NodeID, Up(n), NEW x \in CallId
      PROVE  x \in registered'[n] <=> IF x = id THEN AtFind(new, n)
                                      ELSE x \in registered[n]
  <2>1. ~ AtFind(new, n) /\ (AtFind(call, n) <=> call.to = n)
    BY <1>2, <1>4 DEF AtFind
  <2>2. id \in registered[n] <=> call.to = n
    BY <1>9, <2>1, RegistryAsCalls DEF IInv
  <2> QED
    BY <1>1, <1>2, <2>1, <2>2
<1>10. \A n \in NodeID : IsPing(new, n) <=> IsPing(calls[id], n)
  BY <1>5 DEF IsPing
<1>11. new \in Call \cup {Free}
  BY <1>4
<1> HIDE DEF new
<1> QED
  BY <1>2, <1>6, <1>7, <1>8, <1>9, <1>10, <1>11, CallStep

LEMMA DiscardStep ==
  ASSUME IInv, NEW id \in CallId, calls[id] # Free, Discard(id)
  PROVE  IInv' /\ ByUpDate
<1>1. /\ calls' = [calls EXCEPT ![id] = Free]
      /\ calls[id].stage = "reply" /\ ~ calls[id].waiting
      /\ UNCHANGED <<status, tables, pinging, stored, registered>>
  BY DEF Discard
<1>2. HashStep
  BY <1>1 DEF HashStep, IInv, TypeOK
<1>3. \A n \in NodeID : ~ IsPing(Free, n) /\ ~ IsPing(calls[id], n)
  BY <1>1 DEF IsPing
<1>4. \A n \in NodeID : ~ AtFind(Free, n) /\ ~ AtFind(calls[id], n)
  BY <1>1 DEF AtFind
<1> QED
  BY <1>1, <1>2, <1>3, <1>4, PlainCallStep

----------------------------------------------------------------------------
LEMMA InitInvariant == Init => IInv
<1> SUFFICES ASSUME Init PROVE IInv
  OBVIOUS
<1>1. /\ status = [n \in NodeID |-> "up"] /\ tables = WarmTable
      /\ pinging = [n \in NodeID |-> {}] /\ stored = [n \in NodeID |-> {}]
      /\ registered = [n \in NodeID |-> {}] /\ calls = [id \in CallId |-> Free]
  BY DEF Init
<1>2. TypeOK
  BY <1>1, WarmTableAssumption DEF TypeOK
<1>3. BucketsAreGood
  BY <1>1, WarmTableAssumption DEF BucketsAreGood, GoodBucket, Table
<1>4. /\ \A n \in NodeID : pinging[n] = {} /\ registered[n] = {}
      /\ \A id \in CallId : calls[id] = Free
  BY <1>1
<1> QED
  BY <1>2, <1>3, <1>4
  DEF IInv, OnePing, PingsAreOwned, PingsAreAwaited, IsPing, DecisionIsFresh,
      CallsAreGood, RegistryIsExact

\* Every step preserves the invariant and changes the tables by UpDates only.
LEMMA NextInvariant == IInv /\ AllFiled /\ [Next]_vars => IInv' /\ ByUpDate
<1> SUFFICES ASSUME IInv, AllFiled, [Next]_vars PROVE IInv' /\ ByUpDate
  OBVIOUS
<1>1. ASSUME NEW id \in CallId, Progress(id)
      PROVE  IInv' /\ ByUpDate
  <2>1. calls[id] # Free
    BY <1>1 DEF Progress
  <2>2. CASE Dialed(id)
    BY <2>1, <2>2, DialedStep
  <2>3. CASE DialRefused(id)
    BY <2>1, <2>3, DialRefusedStep
  <2>4. CASE AnswerClient(id)
    BY <2>1, <2>4, AnswerClientStep
  <2>5. CASE AnswerTable(id)
    BY <2>1, <2>5, AnswerTableStep
  <2>6. CASE Learn(id)
    BY <2>1, <2>6, LearnStep
  <2>7. CASE TimeOut(id)
    BY <2>1, <2>7, TimeOutStep
  <2>8. CASE ConnectionLost(id)
    BY <2>1, <2>8, ConnectionLostStep
  <2>9. CASE StoreLocally(id)
    BY <2>1, <2>9, StoreLocallyStep
  <2>10. CASE HeardOf(id)
    BY <2>1, <2>10, HeardOfStep
  <2>11. CASE Register(id)
    BY <2>1, <2>11, RegisterStep
  <2>12. CASE Find(id)
    BY <2>1, <2>12, FindStep
  <2>13. CASE Discard(id)
    BY <2>1, <2>13, DiscardStep
  <2> QED
    BY <1>1, <2>2, <2>3, <2>4, <2>5, <2>6, <2>7, <2>8, <2>9, <2>10, <2>11, <2>12, <2>13
    DEF Progress
<1>2. ASSUME NEW id \in ClientCallId, NEW r \in Request, Start(r, id)
      PROVE  IInv' /\ ByUpDate
  BY <1>2, StartStep
<1>3. ASSUME NEW n \in NodeID, Crash(n)
      PROVE  IInv' /\ ByUpDate
  BY <1>3, DownStep DEF Crash
<1>4. ASSUME NEW n \in NodeID, FallSilent(n)
      PROVE  IInv' /\ ByUpDate
  BY <1>4, SilentStep
<1>5. ASSUME UNCHANGED vars
      PROVE  IInv' /\ ByUpDate
  BY <1>5 DEF vars, IInv, TypeOK, BucketsAreGood, OnePing, PingsAreOwned, PingsAreAwaited,
              IsPing, Up, DecisionIsFresh, BucketOf, CallsAreGood, RegistryIsExact, ByUpDate
<1> QED
  BY <1>1, <1>2, <1>3, <1>4, <1>5 DEF Next

LEMMA FiledStep == IInv /\ AllFiled /\ [Next]_vars => AllFiled'
<1> SUFFICES ASSUME IInv, AllFiled, [Next]_vars, NEW n \in NodeID
             PROVE  Filed(tables'[n], n)
  BY DEF AllFiled
<1>1. /\ n \in ID /\ tables[n] \in Table /\ Filed(tables[n], n)
      /\ \A p \in Bits : Distinct(tables[n][p]) /\ Len(tables[n][p]) <= K + 1
  BY NodeFacts DEF IInv, TypeOK, BucketsAreGood, GoodBucket, AllFiled
<1>2. ByUpDate
  BY NextInvariant
<1>3. CASE tables'[n] = tables[n]
  BY <1>1, <1>3
<1>4. ASSUME NEW c \in Contact, NEW headAnswers \in BOOLEAN,
             tables'[n] = TableUpDate(tables[n], n, c, headAnswers)
      PROVE  Filed(tables'[n], n)
  BY <1>1, <1>4, UpDateFiles
<1> QED
  BY <1>2, <1>3, <1>4 DEF ByUpDate

\* The tables, the pings, the calls and the registrations agree, and every contact
\* is filed where it belongs, in every interleaving, with any crashes and losses.
THEOREM Invariance == Spec => [](IInv /\ AllFiled)
<1>1. Init => IInv /\ AllFiled
  BY InitInvariant, WarmTableAssumption DEF Init, AllFiled
<1>2. IInv /\ AllFiled /\ [Next]_vars => (IInv /\ AllFiled)'
  BY NextInvariant, FiledStep
<1> QED
  BY <1>1, <1>2, PTL DEF Spec

\* Every variable has its type, the contacts of every answer included.
THEOREM TypeCorrect == Spec => []TypeOK
<1>1. IInv => TypeOK
  BY DEF IInv
<1> QED
  BY <1>1, Invariance, PTL

\* What UpDate read before its ping still holds when the ping ends.
THEOREM DecisionCorrect == Spec => []DecisionIsFresh
<1>1. IInv => DecisionIsFresh
  BY DEF IInv
<1> QED
  BY <1>1, Invariance, PTL

\* A HandleTable waits for one ping at a time, and no ping is left alone.
THEOREM PingCorrect == Spec => []PingHasOneOwner
<1>1. IInv => PingHasOneOwner
  <2> SUFFICES ASSUME IInv PROVE PingHasOneOwner
    OBVIOUS
  <2>1. ASSUME NEW n \in NodeID
        PROVE  Cardinality(pinging[n]) <= 1
    <3>1. CASE pinging[n] = {}
      BY <3>1, FS_EmptySet
    <3>2. CASE pinging[n] # {}
      <4>1. PICK u \in pinging[n] : TRUE
        BY <3>2
      <4>2. pinging[n] = {u}
        BY DEF IInv, OnePing
      <4>3. Cardinality(pinging[n]) = 1
        BY <4>2, FS_Singleton
      <4> QED
        BY <4>3
    <3> QED
      BY <3>1, <3>2
  <2>2. \A n \in NodeID : \A u \in pinging[n] : IsPing(calls[u.ping], n)
    BY DEF IInv, PingsAreOwned
  <2>3. ASSUME NEW id \in CallId, calls[id] # Free, calls[id].byTable,
               calls[id].waiting, Up(calls[id].from)
        PROVE  \E u \in pinging[calls[id].from] : u.ping = id
    <3>1. calls[id].from \in NodeID /\ IsPing(calls[id], calls[id].from)
      BY <2>3, CallFacts DEF IsPing
    <3> QED
      BY <2>3, <3>1 DEF IInv, PingsAreAwaited
  <2> QED
    BY <2>1, <2>2, <2>3 DEF PingHasOneOwner, IsPing
<1> QED
  BY <1>1, Invariance, PTL

\* A handler answers when its work is done and not before.
THEOREM AnswerCorrect == Spec => []AnswerMeansDone
<1>1. IInv => AnswerMeansDone
  <2> SUFFICES ASSUME IInv, NEW id \in CallId, calls[id] # Free, calls[id].stage = "reply"
               PROVE  LET bucket == BucketOf(calls[id].to, SelfContact(calls[id].from))
                      IN  /\ FindPos(bucket, calls[id].from) # 0 \/ ~ HasRoom(bucket)
                          /\ calls[id].kind = "store" => calls[id].key \in stored[calls[id].to]
                          /\ calls[id].due => calls[id].hasValue
    BY DEF AnswerMeansDone
  <2>1. WorkDone(calls[id], tables, stored) /\ calls[id].from \in NodeID
    BY CallFacts DEF GoodCall
  <2>2. SelfContact(calls[id].from).NodeID = calls[id].from
    BY <2>1, NodeFacts
  <2> QED
    BY <2>1, <2>2 DEF WorkDone, Heard, BucketOf
<1> QED
  BY <1>1, Invariance, PTL

\* HandleTable has the reply channel of every query that it will be sent.
THEOREM RegistryCorrect == Spec => []RegistryIsExact
<1>1. IInv => RegistryIsExact
  BY DEF IInv
<1> QED
  BY <1>1, Invariance, PTL

\* The tables are changed by whole UpDates only.
THEOREM UpDateCorrect == Spec => TablesChangeByUpDate
<1>1. IInv /\ AllFiled /\ [Next]_vars => [ByUpDate]_tables
  BY NextInvariant
<1>2. [][ByUpDate]_tables => TablesChangeByUpDate
  BY PTL DEF TablesChangeByUpDate, ByUpDate
<1> QED
  BY <1>1, <1>2, Invariance, PTL DEF Spec

----------------------------------------------------------------------------
\* FindContact, at each node, answers exactly the contacts of its table.
EachFindsWhomItKnows ==
    \A n \in NodeID : \A id \in ID :
        FindContact(tables[n], n, id) = {c \in Known(tables[n]) : c.NodeID = id}

\* Whatever the interleaving of calls, pings and crashes, a node's FindContact
\* finds every node that its table holds, and none that it does not.
THEOREM FindContactCorrect == Spec => []EachFindsWhomItKnows
<1>1. IInv /\ AllFiled => EachFindsWhomItKnows
  BY NodeFacts, FiledIsFound
  DEF IInv, TypeOK, BucketsAreGood, GoodBucket, AllFiled, EachFindsWhomItKnows
<1> QED
  BY <1>1, Invariance, PTL

\* Seen from each node, every step of the network leaves it with as many contacts as
\* before, or more, and what goes makes place for another of its bucket.
EachDropsOnlyInExchange ==
    [][\A n \in NodeID : ExchangesOnly(tables[n], tables'[n], n)]_tables

\* A node does not forget others because of timeouts, crashes or what is interleaved
\* with its UpDates, but to know another one in exchange.
THEOREM ExchangeCorrect == Spec => EachDropsOnlyInExchange
<1> DEFINE Exchanges == \A n \in NodeID : ExchangesOnly(tables[n], tables'[n], n)
<1>1. IInv /\ AllFiled /\ [Next]_vars => [Exchanges]_tables
  <2> SUFFICES ASSUME IInv, AllFiled, [Next]_vars, NEW n \in NodeID
               PROVE  ExchangesOnly(tables[n], tables'[n], n)
    OBVIOUS
  <2>1. ByUpDate
    BY NextInvariant
  <2>2. /\ n \in ID /\ tables[n] \in Table /\ Filed(tables[n], n)
        /\ \A p \in Bits : Distinct(tables[n][p])
    BY NodeFacts DEF IInv, TypeOK, BucketsAreGood, GoodBucket, AllFiled
  <2>3. CASE tables'[n] = tables[n]
    BY <2>3 DEF ExchangesOnly
  <2>4. ASSUME NEW c \in Contact, NEW headAnswers \in BOOLEAN,
               tables'[n] = TableUpDate(tables[n], n, c, headAnswers)
        PROVE  ExchangesOnly(tables[n], tables'[n], n)
    BY <2>2, <2>4, UpDateExchanges
  <2> QED
    BY <2>1, <2>3, <2>4 DEF ByUpDate
<1>2. [][Exchanges]_tables => EachDropsOnlyInExchange
  BY PTL DEF EachDropsOnlyInExchange
<1> QED
  BY <1>1, <1>2, Invariance, PTL DEF Spec

\* What a node is asked, by others or by its own lookups, it answers with as many
\* contacts as its table and k allow.
EachQueryIsFull ==
    \A n \in NodeID : \A id \in ID :
        /\ ListsUpToK(FindCloset(tables[n], n, id), Others(tables[n], id))
        /\ ListsUpToK(FindAlpha(tables[n], n, id), Known(tables[n]))

\* In every interleaving the answers to queries are full, although the tables change
\* by UpDates that other nodes delay.
THEOREM QueriesCorrect == Spec => []EachQueryIsFull
<1>1. IInv /\ AllFiled => EachQueryIsFull
  BY NodeFacts, OneEntryFacts, QueryFacts DEF IInv, TypeOK, EachQueryIsFull
<1> QED
  BY <1>1, Invariance, PTL

\* At each node the bucket that is visited first holds the nearest contacts.
EachOwnBucketIsNearest ==
    \A n \in NodeID : \A id \in ID : LET p == BucketIndex(id, n) IN
        \A q \in Bits \ {p} :
            \A i \in DOMAIN tables[n][p], j \in DOMAIN tables[n][q] :
                Closer(id, tables[n][p][i].NodeID, tables[n][q][j].NodeID)

\* In every interleaving an answer begins with the nearest contacts of its node.
THEOREM NearestCorrect == Spec => []EachOwnBucketIsNearest
<1>1. IInv /\ AllFiled => EachOwnBucketIsNearest
  BY NodeFacts, OwnBucketFacts DEF IInv, TypeOK, AllFiled, EachOwnBucketIsNearest
<1> QED
  BY <1>1, Invariance, PTL

\* What FindNode and FindValue answer, until the caller takes it: contacts, each once,
\* k at most, and not the one searched for.
AnswersAreShortLists ==
    \A id \in CallId :
        /\ calls[id] # Free
        /\ calls[id].stage = "reply" /\ calls[id].kind \in Finds
        => ShortList(calls[id].nodes, calls[id].key)

\* However the table changes while the answer is on its way, it is a list of at most
\* k nodes without repetition.
THEOREM AnswerListsCorrect == Spec => []AnswersAreShortLists
<1>1. IInv => AnswersAreShortLists
  BY DEF IInv, CallsAreGood, GoodCall, Shape, AnswersAreShortLists
<1> QED
  BY <1>1, Invariance, PTL
=============================================================================
