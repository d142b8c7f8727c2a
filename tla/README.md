# Kademlia in Go: specifications, checks and proofs

This directory models the distributed hash table of `src/kademlia` in TLA+.
TLC checks the models on small instances; TLAPS proves what matters most for
every value of the constants. `PROJECT.json` maps each definition to the lines
it models. `libkademlia.go`, `rpcs.go`, `table.go`, `bucketlist.go`, `id.go`,
`pq.go` and `vanish.go` are the files of `src/kademlia/src/libkademlia`.

## 1. The system

| component | state | operations | goes through |
|---|---|---|---|
| identifiers (`id.go`) | none | Xor, Compare, Less, Equals, PrefixLen, random and text forms | called everywhere |
| k-bucket (`bucketlist.go`) | doubly linked list, `head`, `tail`, `length` | First, Next, Prev, Find, Push, DeleteFrontInsert, MoveToTail | called by the routing table only |
| routing table (`table.go`) | 160 buckets, owner's ID | UpDate, FindContact, FindCloset, FindAlpha | called by the goroutine HandleTable only |
| HandleTable (`libkademlia.go`) | the table; reply channels by query | register, update, find (four kinds) | three unbuffered channels |
| HandleHash | `hash`: key to value | store, look up | one unbuffered channel |
| RPC handlers (`rpcs.go`) | none | Ping, Store, FindNode, FindValue, GetVDO | a goroutine per call, which sends to the channels above |
| clients (`libkademlia.go`) | `SelfContact` | DoPing, InternalPing, DoStore, DoFindNode, DoFindValue, FindContact | RPC to other nodes, then the channels of their own node |
| iterative lookup (`libkademlia.go`, `pq.go`) | candidate heap (HandleHeap), active heap, counters | Iterative and its three front ends, doFind | the clients, one goroutine per call; a channel of results |
| vanishing data (`vanish.go`, `libkademlia.go`) | VDOStorage (HandleVDOStore), an epoch and timers per call of Vanish | Vanish, Unvanish, Republish, GetVDO | lookups, secret sharing, timers |
| secret sharing (`sss/`) | none | Split, Combine, eval, interpolate | called by vanishing data |
| command line (`kademlia/kademlia.go`) | the instance | one command, one operation | calls the library |

How they interact: a client dials another node; a handler there reports the
caller to HandleTable and waits until it has taken the report; after the answer
the client reports the callee (and the contacts it was told) to its own
HandleTable. HandleTable, inside UpDate, may itself be a client: it pings the
head of a full bucket (InternalPing) and takes no other command until the ping
ends. That ping is served by a handler that waits for the HandleTable of the
other node.

What is hard here:

* a state (the bucket) that is read before a remote call and changed after it;
* circles of HandleTables that wait for each other, opened by a timer only;
* callers that give up while the handler goes on; handlers whose caller is gone;
* processes that end because another one ended (`log.Fatal`, a deferred
  `Close` of a nil client);
* a linked list patched in several places with a counter that drifts;
* index arithmetic at both ends of the table, and distance zero;
* a lookup whose answers arrive in any order, after its own time limits, or not
  at all, and that counts them across rounds;
* timers that restart with every refresh; an epoch that one side uses and the
  other does not; a ciphertext that is decrypted where others read it;
* bytes as counters, and a field of 256 elements by tables.

What makes each component correct:

* identifiers: PrefixLen and Less agree on which nodes are near;
* k-bucket: the pointers form one list, no node twice, room is judged rightly,
  the order is that of last contact (behind the head);
* routing table: a contact is where it will be looked for, once; a query
  answers as many contacts as it may; what is dropped is dropped in exchange;
* HandleTable and RPC: the table changes by whole UpDates although other nodes
  run in the middle of one; what UpDate decided is still right when it acts;
  an answer means what it says (heard of, stored); all that begins ends;
* lookup: ends; answers at most k live nodes, the nearest that were reported;
  what is stored after it is where it belongs, whoever fails;
* vanishing data: can be recovered until the time is over, and not after;
* secret sharing: any k shares give the secret, k - 1 do not.

The hazards with their lines are listed in `PROJECT.json` under `hazards`.

## 2. The plan

Modules in the order of writing. The first nine are done.

1. `Ids`: identifiers as bit strings of any width.
2. `Buckets`, `KBucket`, `BucketList`: a bucket as a sequence, what it promises,
   and the linked list, which implements it. Proofs: `BucketLemmas`,
   `BucketListProofs`.
3. `Tables`, `RoutingTable`: the table. Proofs: `TableLemmas`,
   `RoutingTableProofs`.
4. `KademliaRPC`: several nodes, composed from `Tables`; each node's table
   changes by the UpDate of `RoutingTable`. Proofs: `KademliaRPCProofs`.
5. `MC...` modules and configurations for the above.
6. `IterativeLookup`: Iterative, HandleHeap and doFind over an abstract network
   of answers (any order, late, never). Proofs: `LookupProofs`.
7. `LookupFrontEnds`: DoIterativeFindNode, DoIterativeStore and
   DoIterativeFindValue; each implements a lookup. Proofs: `LookupProofs`.
8. `Vanish`: HandleVDOStore, GetVDO, Vanish, Republish with its two timers and
   the epoch, Unvanish. Proofs: `VanishProofs`.
9. `GF256`, `Shamir`: Split and Combine over the field of the code. Proofs:
   `ShamirProofs`.
10. Not done: the composition of lookups with the tables of `KademliaRPC` (what
    was stored is found); start-up, and nodes that come back under another
    identifier.

## 3. The modules and the code

**Ids.** An ID is a function from bit positions to {0, 1}, most significant bit
first, which is how PrefixLen and Compare read the array of bytes. PrefixLen
answers the last index for the zero distance, as the code does. `BucketIndex` is
the expression with which UpDate, FindContact, FindCloset and FindAlpha begin.

**Buckets / KBucket.** A bucket as the sequence of its contacts. `UpDate` is
RoutingTable.UpDate on one bucket; the outcome of the ping is a parameter. `K`
is the literal 20 of table.go:38; it is not the constant `k` of the answers,
which is a constant of its own in `Tables`. `KBucket` is the abstract
specification: the sequence changes by UpDate and by nothing else.

**BucketList.** The Go structs: a heap of BucketNodes at addresses, `head`,
`tail`, `length`. One action per path through UpDate: `Insert`, `KeepHead`,
`ReplaceHead`, `LeaveAtEnd`, `Refresh`. They are single steps since only
HandleTable touches the list; that the wait inside UpDate does no harm is shown
in `KademliaRPC`. `Find` searches `OnList`, the nodes that a walk from the head
along `next` meets, and not the chain or the heap. A new node may be allocated at any free address; an address
is free again when its node is unlinked. `chain` and `older` are history: the
addresses in order, and who was contacted before whom.

**Tables / RoutingTable.** The table is a function from bucket index to
sequence. `Visited` lists the contacts in the order of the loops of FindCloset
and FindAlpha (`VisitIndex`: p, p - 1, p + 1, p - 2, ..., skipping indices outside
of the array), and `FirstK` cuts after k, which is what the loops do: the loop
condition `count <= k` allows one round too many, in which the inner loops add
nothing. FindCloset leaves out the searched identifier before counting
(`Without`, CreateShortList). Both are recursive functions, so that they can be
reasoned about.

**KademliaRPC.** A variable per piece of shared state: `status` (process up or
down, or silent), `tables`, `pinging` (an UpDate in the middle of its ping),
`stored`, `registered` (the map Hashforfind and Hashforcontact), and `calls`.
A call is one RPC, and its stage is the place in the code where it is: at the
dial, at the send to HandleHash, at the send to updatechannel, registerchannel
or findchannel, answered, or at the sends of the caller to its own HandleTable.
A send on an unbuffered channel is taken when HandleTable is idle. Actions:

| action | code |
|---|---|
| `Start`, `Dialed`, `DialRefused` | the first half of DoPing, InternalPing, DoStore, DoFindNode, DoFindValue; FindContact (but for the own identifier, which it answers itself), and Iterative with its query for FindAlpha, start at the registration |
| `AnswerClient`, `AnswerTable`, `TimeOut`, `ConnectionLost` | the select with the 10 s timer; a connection may be lost with the callee's process or, in `MayBreak`, without |
| `Learn` | the sends to updatechannel after the answer, one step each |
| `StoreLocally`, `HeardOf`, `Register`, `Find`, `Discard` | the handlers, and the cases of HandleTable |
| `TakeUpdate` / `FinishUpDate` | UpDate until the ping, and after it |
| `Crash`, `FallSilent` | the environment |

A process that panics or calls log.Fatal goes down with `GoDown`, which drops
its handlers and leaves its own calls, unanswered, at their callees. A silent
host is one whose process is suspended or unreachable: it refuses nothing and
answers nothing.

**IterativeLookup.** One lookup at one node. The code compares nodes by their
distance to the key only, so a node is that number, and a heap is a set of which
the nearest are popped. HandleHeap answers every command at once and has no other
client, so its commands are part of the step that sends them. What other nodes
answer is free (`Reports`), which covers every state of their tables.

| action | code |
|---|---|
| `NobodyKnown` | FindAlpha found nobody |
| `AskFirst`, `AskSecond` | the top of either loop: pop, start doFind, count |
| `ReachedEnough` | either loop ends with 20 active nodes |
| `RoundTimesOut` | 300 ms without a result, in the first loop only |
| `TakeFailure`, `TakeValue`, `TakeNodesFirst`, `TakeNodesSecond` | a result is received, up to the next receive or the end of the round |

`asked` holds the nodes whose doFind has not delivered; a round that times out
leaves them there, and they are received in a later round, whose `count` they
then decrease, below zero if need be. `everAsked` and `heard` are history.
`Enough` is the literal 20 and `Alpha` the literal 3.

**LookupFrontEnds.** The lookup with what runs it: `Search` is a step of the
lookup, everything else leaves the lookup alone. `IsNext` is the nearest node that
is left: Iterative pops its list from the heap (libkademlia.go:691-693).

| action | code |
|---|---|
| `FindNodeReturns`, `StoreBegins`, `CopyBegins` | the operation looks at what Iterative returned |
| `StoreAnswered`, `StoreTimesOut`, `StoreFatal` | one DoStore: answered; 10 s; a refused dial (panic) or a failed call (log.Fatal) |
| `StoresDone` | the loop is over, the operation returns |

**GF256 / Shamir.** The tables are those of gf256.go; `Product` is the
definition of the field they are compared with: polynomials over two elements are
multiplied modulo 0x11b, by the bits of the second one. One step of `Shamir` is one
share of one byte; the loop variable is a byte. The random source may deliver
any coefficients of `Coef` and may fail at every byte. `Combine` is a function
of a set of shares, since the order in which Go visits a map does not matter to
sums and products.

**Vanish.** One owner, in whose process any number of Vanishes and their
Republishes run; readers in the same process or in others. A generation is what
one encryption made: the first, or that of a refresh. Keys, ciphertexts and
shares are not spelled out; a share is its location, and `sound` says for which
generations the bytes that are stored still are an encryption of the data.

| action | code |
|---|---|
| `CallVanish`, `StoreShare`, `StoreVdoObj` | Vanish, VanishData and VanishDataWithRepublish: the loop over the shares, one DoIterativeStore per step, then HandleVDOStore |
| `Expire`, `BeginRefresh` | the two cases of the select in Republish |
| `RefreshReads`, `RefreshFails` | UnvanishData inside Republish, with the decryption in place |
| `CallUnvanish`, `AskAnswered`, `AskInVain`, `AskRefused`, `FindOwner` | Unvanish, LocalFindVdo, IterativeFindVdo, GetVDO |
| `ReadShare`, `ReadFails` | UnvanishData by a reader |
| `LoseShare` | the nodes that hold a share are gone |

Time is not a variable: both calls of time.After start when the loop begins a
turn, so the shorter duration wins, and `timeout` against `Refresh * epoch`
decides. When both are equal either may win. A panic (`content[0]`, a nil
client, an empty key) ends the process with all its goroutines.

Operators called "Variant" in the modules are not part of any specification.
Each has a plausible bug and, put in the place of the operation it follows,
makes a property fail; they show that the properties can fail.

## 4. The runs

| run | instance | states | shows |
|---|---|---|---|
| `bucket_list` | 5 nodes, 2 addresses each, K = 3, counter up to 6 | 498 up to symmetry | pointers, counter, order; implements `KBucket` |
| `routing_table` | 3-bit identifiers, 6 nodes at 2 hosts, the owner among them, K = 1, k = 2 | 1209 | filing and queries |
| `rpc_safety` | nodes 0, 4, 5, 6; node 0 has a full bucket, stores a value of 4 and is asked for it by 6; 2 clients, 2 pings; 4 may crash, connections to 4 may break, 5 may fall silent; timeouts at any time | 513024 up to symmetry | atomicity of UpDate, ownership of pings, meaning of answers, reply channels |
| `rpc_liveness` | nodes 0, 1, 2, 4, 5, 6; 0 and 4 have full buckets with the other at the head; two newcomers; 1 may crash | 11070 | every operation, every handler and every ping of a HandleTable ends |
| `iterative_lookup` | five other nodes, up to 4 known at first, up to 2 named per answer; two hold a value, two may fail; bound 4 (20 in the code), 2 per round; each of the three front ends | 49860 | accounts of a lookup, what its end means (a list, or no value), when it ends; where values are stored after it |
| `vanish` | two Vanishes with six choices of arguments (under one id or two; 3 shares of which 2, or impossible 4, are needed; counts that Split refuses; time limits from 0 to the second refresh), one reader, one lost share | 144427 | who deletes what and when, what readers get, that all ends |
| `shamir` | every byte as a secret with 2 of 3 shares; one and two bytes with 3 of 3, 3 of 4, 2 of 5, 4 of 3; refused counts; coefficients 0, 1, 202 | 6454 | the field, the shares, recovery and secrecy |

Runs that end in a violation, each of a sentence of a comment or document (the
texts are quoted in `PROJECT.json` under `findings`):

| run | what the code does |
|---|---|
| `not_nearest` | FindCloset does not answer the nearest contacts (table.go:65) |
| `live_head_evicted` | two nodes that ping each other out of UpDate wait for the timer, and one deletes the other, alive (table.go:26) |
| `search_never_returns` | with fewer live nodes than 20 a lookup asks nobody and waits for ever (README.txt:33) |
| `list_not_closest` | nodes named by the last answer of the first loop, and in the second loop, are dropped even if they are close (README.txt:72) |
| `vanish_unreadable` | once a refresh has begun, readers get other data than were vanished, or panic (proj1_test.go:464) |

`vanish_unreadable` has two causes, and its trace shows the first one: decrypt
overwrites the bytes that VDOStorage hands out (vanish.go:82), until the
refreshed object is stored. From then on the shares are at locations drawn with
the epoch (vanish.go:95), where UnvanishData does not look (vanish.go:144).
`GarbledOnlyAfterRefresh` and `PanicsOnlyOnLoss` say that until then neither
happens.

More differences show in a line and have no run. A bucket holds 21 contacts and
not 20 (table.go:24, 38); the counter is not decreased when the head is replaced
(bucketlist.go:7, 84), which `RoomIsJudgedRightly` shows to be harmless; a
lookup may list more than 20 contacts (README.txt:72), since it tests the bound
between rounds (`OverrunIsLate` says what does hold). A
lookup for a value may report that there is none while the answer of a holder is
under way: the second loop ends when the heap is empty, whoever still owes a result
(libkademlia.go:680-682). `NoValueHasReason` grants that case and no other but
failures and a full list. The head that is pinged may be the contact heard from last
(libkademlia.go:310; `LRUBehindHead` says what does hold). When the head's
process has ended the refused dial makes `client.Close()` panic instead of
replacing the head (table.go:27, libkademlia.go:319): `DialRefused`. The 10 s do
not cover the dial (README.txt:33, libkademlia.go:353): `Dialed` waits for a
silent host, which is why liveness is checked without one. "If fewer than K
shares are combined [...] the result of f(0) will not be the secret"
(sss.go:31-32) is so for K - 1 shares (`OneShortIsWrong`); with fewer it may be,
by chance. Split accepts a threshold above the number of shares (sss.go:56-62).

`search_never_returns` is the other side of `EndsOrExhausted`: a lookup fails to
return only when there is nobody left to ask and nobody left to answer. It does
return from the second loop when the heap is empty while a result is still
awaited; that is why some lookups in small networks end and others do not.

Bounds and why they are enough:

* K = 1 is the smallest full bucket with a head and a tail that differ; K = 3
  gives the list two nodes inside, so that MoveToTail has neighbours that are
  neither head nor tail. K = 0 is excluded (`KAssumption`): DeleteFrontInsert
  would follow a nil pointer.
* `MaxLength` cuts off after a few replacements: the only effect of `length` is
  the comparison with K, and once it is above K it stays there.
* Three bits give a table with a first, an inner and a last bucket, and both
  identifiers that share the last one. k = 2 is smaller than the number of known
  contacts and larger than one bucket may be left with.
* Two clients and two pings at once allow a handler that outlives its caller
  next to a new ping of the same head. In `rpc_liveness` a third ping is needed:
  with two the model runs out of identities for calls, which the program
  does not.
* A bound of 4 for the lookup lets the second loop start a round of two requests
  with candidates left, which the tests on `count` and on the heap need to be
  told apart; with 3 it never does. Five nodes are one more than the bound, so
  that a list can be too long, and four that are known at first with two per
  round leave results of a timed-out round to meet the next two rounds. The
  searching node lies between the others in distance, since its own identifier
  in an answer counts as progress although it is never asked.
* `Prompt = FALSE` lets a call time out whenever it has not been answered;
  `Prompt = TRUE` only when it cannot get on, so that the circle of waits must
  be opened by the timer and by nothing else.
* The tables at the start (`WarmTable`) are such as a few pings produce.
* The nodes that may fail in `iterative_lookup` are chosen so that a node that
  answers can be the nearest active one with a failing one behind it.
* In `vanish` the unit of time is 200 minutes and `Refresh` is 2 of them: the time
  limits 0, 1, 2, 3 and 4 fall before, on, between and on the first two
  refreshes. The second refresh is the first that decrypts what is no longer a
  ciphertext. Three shares with threshold 2 leave one to spare, and `MaxGone` = 1
  loses it or one that is needed. The reader chooses its id and its process when
  it starts, hence one of them meets every state of the owner.
* In `shamir` 0 and 1 are the coefficients that a wrong scheme confuses, and 202
  has a long polynomial. Every byte is a secret once, which makes
  `TablesAreTheField` compare all 65536 products. n = 255 is not run: the loop
  of Split would not end.

Symmetry is used over addresses, nodes and hosts in `bucket_list` and over the
identities of calls in `rpc_safety`, where no CHOOSE depends on which one it
is; the runs with liveness use none. Deadlock is not checked in `rpc_safety` and
the runs with crashes, where all processes may be down, in `rpc_liveness`,
which ends when all operations are done (there `OperationsEnd` says that
nothing is left), nor in `iterative_lookup`, where a lookup returns or waits for
a result that nobody owes it, `vanish`, where all calls are over in the end
(`CallsEnd`), and `shamir`, where Split returns.

Fairness: `SF_vars(Progress(id))` for each call. A goroutine that can run is
run, the network delivers, the timer fires. Strong fairness is needed since a
send to HandleTable is possible only while it is idle, which comes and goes; it
is justified because goroutines wait on a channel in the order of arrival and
`select` picks a ready case at random. Clients, crashes and silence are under no
fairness. Silent hosts are excluded from `rpc_liveness`: the dial of one has no
time limit.

In `IterativeLookup` weak fairness makes Iterative go on and the 300 ms timer
fire, and `SF_vars(Take(n))` says that a doFind that is received from again and
again delivers. For its wait for the answer that is what the 10 s timer gives, and
the senders that wait on a channel are served in order. The dial before it
(libkademlia.go:353, 385, 425) and the sends on updatechannel behind it (407-410)
have no timer: that the network refuses or connects in the end, and that HandleTable
takes the contacts (which `OperationsEnd` shows without silent hosts), is assumed. Iterative receives only within rounds, so weak
fairness would not do. After the lookup weak fairness on `RunsOn`, on the answers
of nodes that do not fail and on the timers of those that may is enough; that a
node that may fail answers is never assumed, and that a dial of DoStore ends is.

In `Vanish` weak fairness on each Republish and each Unvanish says that
goroutines run, timers fire and calls have a limit; and that every lookup
returns, which is an assumption: `EndsOrExhausted` says when it is right, and
`search_never_returns` that it is wrong in small networks. That Vanish is ever
called, and the loss of shares, are under no fairness.

## 5. The proofs

`BucketLemmas`: what RemoveAt, FindPos and UpDate do to a sequence of distinct
contacts, for every bucket: it stays distinct and within K + 1, it loses at most
the head, and a node that is known, or has no room, stays so.

`BucketListProofs`: for every set of nodes, hosts and addresses, and every K.
The inductive invariant is the conjunction TypeOK, LinksAgree, NoDuplicates,
RoomIsJudgedRightly and LRUBehindHead; none of the last four is inductive
without the ones before it. LinksAgree says that `chain` lists the allocated
addresses exactly, so that a search by pointer and a search in the sequence
find the same place; `OnListFacts` shows that the walk from the head meets all of
them. RoomIsJudgedRightly holds the two halves of the argument
about the counter: below K + 1 nodes it is exact, at K + 1 it is greater than K.
Each action has one step per conjunct it can disturb. `Refinement` maps the
list to `ContentsOf(list, chain)`; Insert, KeepHead, ReplaceHead, LeaveAtEnd
and Refresh map to the five cases of `UpDate`.

`TableLemmas`: for every width of identifiers. LeastNumber of `BucketLemmas` (from the
well-foundedness of the naturals) gives the first bit that is set; hence
`BucketIndexFacts` and `NearestBucket`: an identifier in bucket p of the one
searched for differs from it later than any identifier of another bucket. The
loops of the queries are recursive functions. The induction theorem of the library
takes an operator, so the induction is done on sets of numbers: a set that holds 0
and with i - 1 also i is `0 .. n` (`StepByStep`, in `BucketLemmas`), and the set of the numbers up to which
a function as defined exists is such a set (`Recursion`). Hence `VisitedFacts`:
the loops visit every contact of the table once (`VisitIndexFacts`: every index
of the array is `VisitIndex(p, i)` of exactly one i), and `WithoutFacts`. What the table
of one node and the network have in common is here too: `UpDateFiles`, `FiledIsFound`,
`OwnBucketFacts`, and `QueryFacts`: what is listed before the cut enumerates the known
contacts (without the one searched for), so its length is their number, and the cut
leaves k of them or all (`FirstKIsFull`). `UpDateExchanges` is about a step: a contact
goes only when the head of a full bucket does not answer, and then the new one is in its
place.

`RoutingTableProofs`: the invariant is type, placement and distinctness within a
bucket; one entry per node follows since two buckets cannot hold one identifier.
With it, `FindContactCorrect`, `NearestCorrect`, `QueriesCorrect` and `ExchangeCorrect`
are the lemmas of `TableLemmas`.

`KademliaRPCProofs`: for any number of nodes, of calls under way and of
operations, any crashes, silence, losses and timeouts. The inductive invariant has
eight parts. `PingsAreOwned` and `OnePing` say that an UpDate that waits for its ping
has a call of its own and no other (`PingHasOneOwner` without them would not
survive the end of a call, whose identity is used again); `PingsAreAwaited` is the
other direction, without which a late answer could finish the UpDate of another
ping. `DecisionIsFresh` needs `BucketsAreGood` (distinct, at most K + 1) since what
UpDate does after the ping is judged by what it saw before. `CallsAreGood` says
which calls there are in which stage (`Shape`) and what the handler has done by then
(`WorkDone`); `WorkStays` shows that nothing a node does later takes it back:
UpDate drops a contact only from a full bucket, in exchange. `RegistryIsExact`
stands as it is. The proof has one lemma for each kind of step (a call changes; a
HandleTable takes an update, perhaps up to its ping; it finishes; a process ends)
and one per action, which is one of these. `TakeStep` is where HandleTable's being
idle is needed: without that guard it fails. `UpDateCorrect` is about every step of
the network: each table stays, or has one UpDate of `Tables`, the one operation that
`RoutingTable` is proved about. Hence in the table of each node
every contact stays filed under its own index (`AllFiled`, with `UpDateFiles`), and what
is proved of the queries of one table holds of every node in every interleaving:
FindContact finds whom the table holds and nobody else, the other two are full and
begin with the nearest; and a table forgets in exchange only (`ExchangeCorrect`). An
answer on its way stays a list of at most k contacts without repetition
(`AnswerListsCorrect`); `FindStep` is where that begins, and why it
needs `AllFiled`: a contact in a wrong bucket could be listed twice.

`LookupProofs`: for any number of nodes, any answers, any failures and
any bounds. The inductive invariant is the conjunction of `TypeOK`, `Ledger`,
`EveryResultIsOwed`, `ShortOnlyIfExhausted`, `CollectsInALoop` (results are received
within the two loops only) and `HoldersAreHeard` (a holder that answers a lookup for
a value ends it, and a request without a result is under way or has failed). `Ledger`,
`ShortOnlyIfExhausted` and `HoldersAreHeard` give `NoValueHasReason`. `Ledger` gives that what is popped was never asked, hence
`NobodyAskedTwice`. A round owes no more results than it started requests
(`AskedCoverPopped`), and each result takes one from both sides (`OneFewerOwed`).
`ReturnKeepsIInv` covers the four ways to return, `CountDownFacts` what a result
does to the round. `OverrunCorrect` is the bound on a list that does hold: the nodes
that answered and the results that the round waits for are together fewer than
20 + 3 in the first loop, and since `count` falls below zero by late results only,
those are what a list may have beyond 22; in the second loop they are at most 20.

In the second part of `LookupProofs` every step of a front end is a step of the lookup or
leaves its variables alone (`FrontEndsRunLookup`), so all theorems about the
lookup hold under `FrontSpec`, which is what the run checks. `ListServed` and
`CopyServed` are the inductive halves of `StoredAtAllListed` and
`FoundMeansCopied`: who is still to be served, has been, or may fail.
`PeekFacts` (from the well-foundedness of the naturals) says that the root of
the heap is its smallest node; `HoldersAreHeard` then gives that it is no
holder.

`ShamirProofs`: for every secret, all arguments of Split and any random source; in
`SharesGrowTogether` n < 255, below which the increment of a byte does not wrap.
The argument, in the order of the module:

* The field. Xor is a sum (`XorFacts`). exp and log undo each other, and each entry of
  exp is 3 times the one before: facts about finite tables, which the provers check
  entry by entry. Multiplication by 3 respects sums, and 3 generates all bytes but 0,
  hence `Distributivity` by going through the powers of 3; `MulIsProduct` then follows
  the bits of the second factor. `FieldCorrect` is these at one state.
* Combine folds over a set of shares. That the order of the shares does not matter is
  not assumed: `FoldsAgree` shows it of sums and products of bytes.
* The weights of the shares at 0 are those of Lagrange. Instead of polynomials and
  their roots the proof takes one point out at a time: interpolation is linear
  (`LagrangeIsLinear`), a function with the factor x - u does not need its value at u
  (`LagrangeAtRoot`), hence one with the factor x comes down to what is left of it, with
  and without the point u (`LagrangeOfMultiple`), and a constant is recovered
  (`LagrangeOfOne`).
* eval is a loop, so its value is a coefficient plus the point times the value of
  the tail (`EvalByTail`). By induction on the number of coefficients, over sets of numbers as in
  `TableLemmas`: k points give back the first coefficient (`PointsEnough`), k - 1 do not,
  as the last one is not 0 (`OnePointShort`).
* The state. `SInv` says that the shares hold, for every byte that is done, the values
  of one polynomial whose first coefficient is that byte, whatever the random source
  delivered. With n = 255 no byte is ever done, so that `ThresholdCorrect` and
  `OneShortCorrect` need no bound on n (`WrapCorrect`).

The type invariant holds for every n: the tables are never read out of range.

`VanishProofs`: for any number of Vanishes, readers and ids, any arguments and
any losses. The types of `work` come in parts (`ArgumentTypes`, `WorkTypes`,
`Stages`); `Custody` says who an object in VDOStorage belongs to in each stage
of its Republish, and is kept although other Republishes overwrite and delete it;
`StoredHasTimer` and `StoredUntilExpiry` follow. `SharesBehind` says that the
shares up to the counter of the loop are stored or lost, hence
`StoredObjectHasShares`. What readers get rests on all of these at the moment when
GetVDO hands out an object (`HandedOut`), and from then on on `CopyKept`: the
copy's call has finished it (its epoch is past), its shares are in the network or
lost, and a copy that is no encryption any more is one of a call whose first object
is none. The last needs `DecryptedByRefresh` (the first object is decrypted by the
first refresh and never becomes an encryption again, since its epoch is past).
`CountersInRange` is the strengthening that the type invariant needs: a refresh
that has a share to read is not past the last one.

Assumptions used: `NodeAssumption`, `SelfAssumption`, `AnswersAssumption` and
`BoundsAssumption` of the lookup; `IDBitsAssumption`, `KAssumption`,
`NilAssumption`, `NodeIDAssumption`, `kAssumption`, and `SelfAssumption` of the
table; `SetsAssumption` of the lookup (who may fail and who holds a value are
nodes); `CasesAssumption` and `CoefAssumption` of Split; `ChoicesAssumption` and
`NothingAssumption` of Vanish; of `KademliaRPC` `AddressAssumption` (every node has
one address), `RequestAssumption` (requests are among nodes and keys), `FreeAssumption` (the
mark of an unused identity is no call) and
`WarmTableAssumption` (the tables at the start are tables whose buckets are distinct
and not longer than K + 1, every contact in the bucket of its index; the empty tables
are such, and all that UpDate makes). No theorem takes anything else on trust.

Proved and in no run, since a run checks what implies it or proofs need it only:
`NoDuplicates` and `StoredContactIsKept` (both part of `ImplementsKBucket`),
`NoByteIsDone`,
`Placement` (behind `FindContactIsRight`), `FrontTypeOK`, `OverrunIsLate`, and of the
network `AllFiled`, `EachFindsWhomItKnows`, `EachQueryIsFull`, `EachOwnBucketIsNearest`,
`EachDropsOnlyInExchange` and `AnswersAreShortLists`.

Every invariant and every action property that a passing run checks is a theorem.
Only model-checked is liveness (`EndsOrExhausted`, `FrontEndEnds`, `OperationsEnd`,
`CallsEnd`), which is out of the prover's reach. The runs that end in a violation show
what does not hold, and nothing is to be proved of them.

The inductive invariants were checked by TLC, on the instances of the runs, before
they were proved.

## 6. What is not modelled

* What a value is: FindValue has one or not. A value that is empty is stored and
  never found, since gob does not transmit it. Of the queries of the own HandleTable
  (FindContact, and FindAlpha for Iterative) `KademliaRPC` models when they are
  answered and not what; that is in `RoutingTable`.
* In `IterativeLookup`: the updates of the own table by its requests, and a
  refused dial, which ends the process and with it the lookup. After the lookup,
  in `LookupFrontEnds`, it is `StoreFatal`.
* In `Vanish`: what a lookup goes through; the process of the owner ends by its
  own panics only; GetVDO reads an object while decrypt overwrites it (a data
  race), of which the model has the two outcomes "before" and "after". The
  answer of GetVDO without an object holds an error that gob cannot encode:
  net/rpc closes the connection, and the caller sees a failure (`AskInVain`).
* In the run of `Shamir`: n = 255, see above.
* Addresses are those of the nodes (`AddressAssumption`): a node that comes
  back with another identifier at an old address, or moves, is not modelled in
  `KademliaRPC`; `BucketList` and `RoutingTable` do have several addresses.
* Start-up: the server runs before `SelfContact` is assigned (libkademlia.go:130,
  143); the model begins after it.
* The command line, text forms of identifiers, AES and the transport: input and
  output, or libraries. The command `vanish` cuts its counts to bytes and passes the
  time limit 0 (kademlia.go:414), which is one of the choices in `vanish`. What callers see of the transport (refused, answered,
  lost, silent) is in `KademliaRPC`.
