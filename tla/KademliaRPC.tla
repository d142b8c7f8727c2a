---------------------------- MODULE KademliaRPC ----------------------------
(***************************************************************************)
(* Several nodes that call each other (libkademlia.go, rpcs.go).  Each     *)
(* node has a HandleTable goroutine, the only one that touches the routing *)
(* table.  RPC handlers and clients hand it their commands over unbuffered *)
(* channels, so they wait while it is inside UpDate; and UpDate waits for  *)
(* a ping of another node, whose handler waits for that node's HandleTable.*)
(*                                                                         *)
(* A call is one RPC from its dial to the last thing its caller does with  *)
(* the answer.  Its stage names what happens next:                         *)
(*    dial       the caller dials the callee                               *)
(*    hash       the handler of Store sends to HandleHash                  *)
(*    update     the handler sends the caller's contact to HandleTable     *)
(*    register   FindNode, FindValue and FindContact register their reply  *)
(*               channel                                                   *)
(*    find       and send their query                                      *)
(*    reply      the handler has returned                                  *)
(*    learn      the caller sends the contacts of the answer to its own    *)
(*               HandleTable, one after the other                          *)
(* A caller that has timed out no longer waits; its handler goes on.       *)
(* FindContact, and the query of Iterative for its first contacts, go to   *)
(* the node's own HandleTable and start with register; they know no        *)
(* timeout.  FindValue answers nodes as FindNode does, and the value if    *)
(* HandleHash has one.                                                     *)
(***************************************************************************)
EXTENDS Tables

CONSTANTS
    ClientCallId,   \* bound: so many calls of clients are under way at once
    PingCallId,     \* bound: and so many pings of HandleTables
    Request,        \* the operations that clients start: from, to, kind, key
    WarmTable,      \* the routing tables at the start
    MayCrash,       \* the nodes whose process may be killed
    MayFallSilent,  \* the nodes whose host may stop to answer
    MayBreak,       \* the nodes whose connections may break while they run
    Prompt,         \* no call takes 10 s but one that cannot get on
    Free            \* no call under way

CallId == ClientCallId \cup PingCallId

Finds == {"findnode", "findvalue"}
Queries == {"findcontact", "findalpha"}     \* of the own HandleTable
Kind == {"ping", "store"} \cup Finds \cup Queries

ASSUME AddressAssumption == Host = NodeID   \* nodes keep their addresses
ASSUME RequestAssumption ==
    /\ Request \subseteq [from : NodeID, to : NodeID, kind : Kind, key : ID]
    /\ \A r \in Request : r.kind \in Queries => r.from = r.to
\* The tables that UpDate makes: buckets of distinct nodes, of K + 1 at most,
\* with every node in the bucket of its index.
ASSUME WarmTableAssumption ==
    /\ WarmTable \in [NodeID -> Table]
    /\ \A n \in NodeID : \A p \in Bits :
          Distinct(WarmTable[n][p]) /\ Len(WarmTable[n][p]) <= K + 1
    /\ \A n \in NodeID : Filed(WarmTable[n], n)

VARIABLES
    status,     \* of each node: up, down (its process ended) or silent
    tables,     \* Kademlia.table of each node
    pinging,    \* the UpDates of each node that wait for a ping: the newcomer,
                \* the head it would replace, and the call that is the ping
    stored,     \* the keys in Kademlia.hash of each node
    registered, \* the calls in Hashforfind of each node
    calls       \* the calls under way

vars == <<status, tables, pinging, stored, registered, calls>>

\* Variant: SelfContact is used before its host is known.
SelfContactUnset(n) == [NodeID |-> n, Host |-> Free]

SelfContact(n) == [NodeID |-> n, Host |-> n]

Call == [from : NodeID, to : NodeID, kind : Kind, key : ID,
         byTable : BOOLEAN,     \* InternalPing, and not a client
         stage : {"dial", "hash", "update", "register", "find", "reply", "learn"},
         waiting : BOOLEAN,     \* the caller still waits for the answer
         nodes : Seq(Contact),  \* the answer, or what is left to learn of it
         hasValue : BOOLEAN,    \* and whether it holds a value
         due : BOOLEAN]         \* history: the value was there at the dial

ASSUME FreeAssumption == Free \notin Call

AtCallee == {"hash", "update", "register", "find", "reply"}

Up(n) == status[n] = "up"

HandleTableIsIdle(n) == Up(n) /\ pinging[n] = {}

NewCall(from, to, kind, key, byTable) ==
    [from |-> from, to |-> to, kind |-> kind, key |-> key, byTable |-> byTable,
     stage |-> "dial", waiting |-> TRUE, nodes |-> << >>,
     hasValue |-> FALSE, due |-> FALSE]

Init == /\ status = [n \in NodeID |-> "up"]
        /\ tables = WarmTable
        /\ pinging = [n \in NodeID |-> {}]
        /\ stored = [n \in NodeID |-> {}]
        /\ registered = [n \in NodeID |-> {}]
        /\ calls = [id \in CallId |-> Free]

----------------------------------------------------------------------------
\* HandleTable of node n takes contact c from updatechannel, on behalf of call
\* id, which goes on as next.  Either UpDate ends at once, or it pings the head.
BucketOf(n, c) == tables[n][BucketIndex(c.NodeID, n)]

UpDateAtOnce(n, c, id, next) ==
    /\ ~ NeedsPing(BucketOf(n, c), c)
    /\ tables' = [tables EXCEPT ![n] = TableUpDate(@, n, c, TRUE)]
    /\ calls' = [calls EXCEPT ![id] = next]
    /\ UNCHANGED pinging

UpDatePings(n, c, id, next) ==
    /\ NeedsPing(BucketOf(n, c), c)
    /\ \E ping \in PingCallId \ {id} :
          /\ calls[ping] = Free
          /\ LET head == BucketOf(n, c)[1]
             IN  /\ pinging' = [pinging EXCEPT ![n] =
                        @ \cup {[newcomer |-> c, head |-> head, ping |-> ping]}]
                 /\ calls' = [calls EXCEPT
                                 ![id] = next,
                                 ![ping] = NewCall(n, head.NodeID, "ping", n, TRUE)]
    /\ UNCHANGED tables

\* Variant: each command is handled in a goroutine of its own.
TakeWhilePinging(n, c, id, next) ==
    /\ Up(n)
    /\ UpDateAtOnce(n, c, id, next) \/ UpDatePings(n, c, id, next)
    /\ UNCHANGED <<status, stored, registered>>

TakeUpdate(n, c, id, next) ==
    /\ HandleTableIsIdle(n)
    /\ UpDateAtOnce(n, c, id, next) \/ UpDatePings(n, c, id, next)
    /\ UNCHANGED <<status, stored, registered>>

\* InternalPing has ended, which was call id of node n.  UpDate acts on its
\* outcome, and on what it had read of the bucket before, and returns.  rest is
\* what is left of the call.
FinishUpDate(n, id, headAnswers, rest) ==
    \E u \in pinging[n] :
        /\ u.ping = id
        /\ tables' = [tables EXCEPT ![n][BucketIndex(u.newcomer.NodeID, n)] =
                         IF headAnswers THEN @ ELSE DeleteFrontInsert(@, u.newcomer)]
        /\ pinging' = [pinging EXCEPT ![n] = @ \ {u}]
        /\ calls' = [calls EXCEPT ![id] = rest]
        /\ UNCHANGED <<status, stored, registered>>

\* The process of node n ends.  Its handlers end with it; the handlers of its
\* own calls go on at the callees, for nobody.
CallsWithout(n) ==
    [id \in CallId |->
        IF calls[id] = Free THEN Free
        ELSE IF calls[id].from = n
        THEN IF calls[id].stage \in AtCallee /\ calls[id].to # n /\ Up(calls[id].to)
             THEN [calls[id] EXCEPT !.waiting = FALSE]
             ELSE Free
        ELSE IF calls[id].to = n /\ ~ calls[id].waiting THEN Free
        ELSE calls[id]]

GoDown(n) ==
    /\ status' = [status EXCEPT ![n] = "down"]
    /\ calls' = CallsWithout(n)
    /\ pinging' = [pinging EXCEPT ![n] = {}]
    /\ UNCHANGED <<tables, stored, registered>>

----------------------------------------------------------------------------
\* The caller's side of DoPing, DoStore, DoFindNode and InternalPing.

\* FindContact answers the node's own identifier without asking HandleTable.
Start(r, id) ==
    /\ Up(r.from)
    /\ r.kind = "findcontact" => r.key # r.from
    /\ calls[id] = Free
    /\ calls' = [calls EXCEPT ![id] =
                    [NewCall(r.from, r.to, r.kind, r.key, FALSE) EXCEPT !.stage =
                        IF r.kind \in Queries THEN "register" ELSE "dial"]]
    /\ UNCHANGED <<status, tables, pinging, stored, registered>>

\* FindValue would find a value at its callee now.
ValueAt(call) == call.kind = "findvalue" /\ call.key \in stored[call.to]

\* The dial of a silent host takes as long as the host is silent: the timer is
\* started after the dial.
Dialed(id) ==
    /\ calls[id].stage = "dial" /\ Up(calls[id].from) /\ Up(calls[id].to)
    /\ calls' = [calls EXCEPT
                    ![id].stage = IF calls[id].kind = "store" THEN "hash" ELSE "update",
                    ![id].due = ValueAt(calls[id])]
    /\ UNCHANGED <<status, tables, pinging, stored, registered>>

\* DoPing returns the error.  The others have deferred client.Close() before
\* they look at it, and client is nil: the process panics.
DialRefused(id) ==
    /\ calls[id].stage = "dial" /\ Up(calls[id].from)
    /\ status[calls[id].to] = "down"
    /\ IF calls[id].kind = "ping" /\ ~ calls[id].byTable
       THEN /\ calls' = [calls EXCEPT ![id] = Free]
            /\ UNCHANGED <<status, tables, pinging, stored, registered>>
       ELSE GoDown(calls[id].from)

\* The answer arrives.  Its MsgID is the one of the request: the handlers copy it.
AnswerClient(id) ==
    /\ calls[id].stage = "reply" /\ calls[id].waiting /\ Up(calls[id].from)
    /\ ~ calls[id].byTable
    /\ calls' = [calls EXCEPT ![id].stage = "learn",
                              ![id].nodes = <<SelfContact(calls[id].to)>> \o @]
    /\ UNCHANGED <<status, tables, pinging, stored, registered>>

AnswerTable(id) ==
    /\ calls[id].stage = "reply" /\ calls[id].waiting /\ Up(calls[id].from)
    /\ calls[id].byTable
    /\ FinishUpDate(calls[id].from, id, TRUE, Free)

\* The callee first, then each node of the answer.
Learn(id) ==
    /\ calls[id].stage = "learn"
    /\ LET rest == Tail(calls[id].nodes)
       IN  TakeUpdate(calls[id].from, Head(calls[id].nodes), id,
                      IF rest = << >> THEN Free
                      ELSE [calls[id] EXCEPT !.nodes = rest])

\* A node is stuck in UpDate when its HandleTable belongs to some that all wait
\* for each other or for a silent host.
Stuck(n) ==
    \E S \in SUBSET NodeID :
        /\ n \in S
        /\ \A x \in S : \E u \in pinging[x] :
              \/ status[u.head.NodeID] = "silent"
              \/ calls[u.ping].stage = "update" /\ u.head.NodeID \in S

CannotGetOn(id) ==
    \/ status[calls[id].to] = "silent"
    \/ calls[id].stage \in {"update", "register", "find"} /\ Stuck(calls[id].to)

\* Variant: InternalPing has no time limit.
TimeOutOfClients(id) ==
    /\ calls[id].stage \in AtCallee /\ calls[id].waiting /\ Up(calls[id].from)
    /\ calls[id].kind \notin Queries /\ ~ calls[id].byTable
    /\ Prompt => CannotGetOn(id)
    /\ calls' = [calls EXCEPT ![id] =
                    IF calls[id].stage = "reply" \/ ~ Up(calls[id].to) THEN Free
                    ELSE [calls[id] EXCEPT !.waiting = FALSE]]
    /\ UNCHANGED <<status, tables, pinging, stored, registered>>

\* 10 s have passed since the dial.  The handler is not told.
TimeOut(id) ==
    /\ calls[id].stage \in AtCallee /\ calls[id].waiting /\ Up(calls[id].from)
    /\ calls[id].kind \notin Queries
    /\ Prompt => CannotGetOn(id)
    /\ LET rest == IF calls[id].stage = "reply" \/ ~ Up(calls[id].to)
                   THEN Free
                   ELSE [calls[id] EXCEPT !.waiting = FALSE]
       IN  IF calls[id].byTable
           THEN FinishUpDate(calls[id].from, id, FALSE, rest)
           ELSE /\ calls' = [calls EXCEPT ![id] = rest]
                /\ UNCHANGED <<status, tables, pinging, stored, registered>>

\* The connection is lost during the call, with the callee's process or without:
\* log.Fatal ends the caller's.
ConnectionLost(id) ==
    /\ calls[id].stage \in AtCallee /\ calls[id].waiting /\ Up(calls[id].from)
    /\ status[calls[id].to] = "down" \/ calls[id].to \in MayBreak
    /\ GoDown(calls[id].from)

----------------------------------------------------------------------------
\* The callee's side: the handlers of rpcs.go and the cases of HandleTable.

\* Variant: Store answers without waiting for HandleHash.
StoreLater(id) ==
    /\ calls[id].stage = "hash" /\ Up(calls[id].to)
    /\ calls' = [calls EXCEPT ![id].stage = "update"]
    /\ UNCHANGED <<status, tables, pinging, stored, registered>>

StoreLocally(id) ==
    /\ calls[id].stage = "hash" /\ Up(calls[id].to)
    /\ stored' = [stored EXCEPT ![calls[id].to] = @ \cup {calls[id].key}]
    /\ calls' = [calls EXCEPT ![id].stage = "update"]
    /\ UNCHANGED <<status, tables, pinging, registered>>

HeardOf(id) ==
    /\ calls[id].stage = "update"
    /\ TakeUpdate(calls[id].to, SelfContact(calls[id].from), id,
                  [calls[id] EXCEPT !.stage =
                      IF calls[id].kind \in Finds THEN "register" ELSE "reply"])

Register(id) ==
    /\ calls[id].stage = "register" /\ HandleTableIsIdle(calls[id].to)
    /\ registered' = [registered EXCEPT ![calls[id].to] = @ \cup {id}]
    /\ calls' = [calls EXCEPT ![id].stage = "find"]
    /\ UNCHANGED <<status, tables, pinging, stored>>

\* LocalFindValue waits for HandleHash, which waits for nobody.
Answered(call) ==
    [call EXCEPT !.stage = "reply",
                 !.nodes = FindCloset(tables[call.to], call.to, call.key),
                 !.hasValue = ValueAt(call)]

\* Variant: the reply channel stays in the map.
FindAndKeep(id) ==
    LET n == calls[id].to
    IN  /\ calls[id].stage = "find" /\ HandleTableIsIdle(n)
        /\ calls' = [calls EXCEPT ![id] =
                        IF calls[id].kind \in Queries THEN Free ELSE Answered(calls[id])]
        /\ UNCHANGED <<status, tables, pinging, stored, registered>>

Find(id) ==
    LET n == calls[id].to
    IN  /\ calls[id].stage = "find" /\ HandleTableIsIdle(n)
        /\ registered' = [registered EXCEPT ![n] = @ \ {id}]
        /\ calls' = [calls EXCEPT ![id] =
                        IF calls[id].kind \in Queries THEN Free ELSE Answered(calls[id])]
        /\ UNCHANGED <<status, tables, pinging, stored>>

\* Nobody waits for the answer.
Discard(id) ==
    /\ calls[id].stage = "reply" /\ ~ calls[id].waiting /\ Up(calls[id].to)
    /\ calls' = [calls EXCEPT ![id] = Free]
    /\ UNCHANGED <<status, tables, pinging, stored, registered>>

----------------------------------------------------------------------------
\* The environment.
Crash(n) == n \in MayCrash /\ Up(n) /\ GoDown(n)

FallSilent(n) ==
    /\ n \in MayFallSilent /\ Up(n)
    /\ status' = [status EXCEPT ![n] = "silent"]
    /\ UNCHANGED <<tables, pinging, stored, registered, calls>>

Progress(id) ==
    /\ calls[id] # Free
    /\ \/ Dialed(id) \/ DialRefused(id)
       \/ AnswerClient(id) \/ AnswerTable(id) \/ Learn(id)
       \/ TimeOut(id) \/ ConnectionLost(id)
       \/ StoreLocally(id) \/ HeardOf(id) \/ Register(id) \/ Find(id)
       \/ Discard(id)

Next == \/ \E id \in CallId : Progress(id)
        \/ \E id \in ClientCallId, r \in Request : Start(r, id)
        \/ \E n \in NodeID : Crash(n) \/ FallSilent(n)

Spec == Init /\ [][Next]_vars

\* The runtime and the network go on.  Senders wait on a channel in the order in
\* which they came, and select chooses among the ready cases at random, so no
\* sender is passed over for ever: strong fairness.
FairSpec == Spec /\ \A id \in CallId : SF_vars(Progress(id))

----------------------------------------------------------------------------
TypeOK ==
    /\ status \in [NodeID -> {"up", "down", "silent"}]
    /\ tables \in [NodeID -> Table]
    /\ pinging \in [NodeID -> SUBSET [newcomer : Contact, head : Contact,
                                      ping : PingCallId]]
    /\ stored \in [NodeID -> SUBSET ID]
    /\ registered \in [NodeID -> SUBSET CallId]
    /\ calls \in [CallId -> Call \cup {Free}]

\* Seen from each node, its routing table is changed by whole UpDates only, as
\* in module RoutingTable, although UpDate waits in the middle for a node that
\* runs concurrently.
TablesChangeByUpDate ==
    [][\A n \in NodeID :
          \/ tables'[n] = tables[n]
          \/ \E c \in Contact, headAnswers \in BOOLEAN :
                tables'[n] = TableUpDate(tables[n], n, c, headAnswers)]_tables

\* What UpDate read before the ping is still so when the ping ends: the bucket
\* is full, the newcomer is not in it, and the node pinged is its head.
DecisionIsFresh ==
    \A n \in NodeID : \A u \in pinging[n] :
        LET bucket == BucketOf(n, u.newcomer)
        IN  NeedsPing(bucket, u.newcomer) /\ bucket[1] = u.head

\* The HandleTable of a node waits for one ping at a time, a ping of its own; and
\* every ping is waited for, until it times out or the process ends.
PingHasOneOwner ==
    /\ \A n \in NodeID :
          /\ Cardinality(pinging[n]) <= 1
          /\ \A u \in pinging[n] :
                LET ping == calls[u.ping]
                IN  ping # Free /\ ping.from = n /\ ping.byTable /\ ping.waiting
    /\ \A id \in CallId :
          /\ calls[id] # Free
          /\ calls[id].byTable /\ calls[id].waiting /\ Up(calls[id].from)
          => \E u \in pinging[calls[id].from] : u.ping = id

\* A handler answers when its work is done and not before, although its commands
\* go to two other goroutines: the node has heard of the caller (it knows it, or
\* its bucket for it is full), what was to be stored is in its hash, and a value
\* that was there when FindValue was dialed is found.
AnswerMeansDone ==
    \A id \in CallId : calls[id] # Free /\ calls[id].stage = "reply" =>
        LET bucket == BucketOf(calls[id].to, SelfContact(calls[id].from))
        IN  /\ FindPos(bucket, calls[id].from) # 0 \/ ~ HasRoom(bucket)
            /\ calls[id].kind = "store" => calls[id].key \in stored[calls[id].to]
            /\ calls[id].due => calls[id].hasValue

\* HandleTable holds the reply channels of the queries that it will be sent:
\* none is missing, so that it does not block on a nil channel, and none stays.
RegistryIsExact ==
    \A n \in NodeID : Up(n) =>
        registered[n] = {id \in CallId : /\ calls[id] # Free
                                         /\ calls[id].to = n
                                         /\ calls[id].stage = "find"}

\* Every operation ends, every handler, and every ping of a HandleTable,
\* although HandleTables may wait for each other in a circle.
OperationsEnd == \A id \in CallId : calls[id] # Free ~> calls[id] = Free

----------------------------------------------------------------------------
\* table.go:26: if the head is still alive, ignore the new contact.
LiveHeadIsKept ==
    [][\A n \in NodeID : \A u \in pinging[n] :
          Up(n) /\ Up(u.head.NodeID) => u.head \in Known(tables'[n])]_vars
============================================================================
