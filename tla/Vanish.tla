------------------------------- MODULE Vanish -------------------------------
(***************************************************************************)
(* Vanishing data (vanish.go; libkademlia.go: HandleVDOStore and from      *)
(* StoreVdoObj on; rpcs.go: GetVDO).  One process, the owner, runs Vanish  *)
(* any number of times; every call leaves a goroutine Republish behind.    *)
(* Readers, in the same process or in others, run Unvanish.                *)
(*                                                                         *)
(* A generation <<op, e>> is what one run of VanishData (e = 0) or of      *)
(* VanishDataWithRepublish (e > 0) makes of the data of op: an access key, *)
(* an encryption key and a ciphertext, which are written as the generation *)
(* itself.  The network is the set of shares that a lookup finds; a lookup *)
(* is one step here (see IterativeLookup for what it takes).               *)
(***************************************************************************)
EXTENDS Integers, FiniteSets

CONSTANTS
    Op,         \* the calls of Vanish
    Reader,     \* the calls of Unvanish
    VdoID,
    Choices,    \* the arguments that each Vanish may be called with
    Nothing,    \* no object, no result
    Refresh,    \* 400 minutes, in the unit of the time limits
    MaxGone     \* bound: the number of shares that may get lost

ASSUME ChoicesAssumption ==
    \A op \in Op : Choices[op] \subseteq
        [vdoID : VdoID, numberKeys : 0 .. 254, threshold : 0 .. 255, timeout : Nat]
ASSUME RefreshAssumption == Refresh \in Nat \ {0}
ASSUME NothingAssumption ==
    Nothing \notin Op \X Nat /\ Nothing \notin {"data", "garbled"}
ASSUME MaxGoneAssumption == MaxGone \in Nat

VARIABLES
    params,     \* the arguments of every Vanish
    ownerUp,    \* the owner's process runs
    storage,    \* VDOStorage: a generation for every id, or Nothing
    dht,        \* the shares in the network, written as their locations
    gone,       \* history: the shares that were lost or never got there
    sound,      \* the generations whose ciphertext is an encryption of the data
    work,       \* Vanish and its Republish: the stage pc, the epoch, the next
                \* location at, and whether the data at hand are right
    reader      \* Unvanish: the stage pc, whether it runs in the owner's process,
                \* the id it asks for, the object it got, the next location,
                \* whether its copy is sound, and the result

vars == <<params, ownerUp, storage, dht, gone, sound, work, reader>>

Generation == Op \X Nat
Params(g) == params[g[1]]

\* The locations drawn from the access key, and from its sum with an epoch, for
\* which nobody looks by accident.
SharedKeyLocation(g, i) == [key |-> g, epoch |-> 0, index |-> i]
SharedKeyLocationWithEpoch(g, e, i) == [key |-> g, epoch |-> e, index |-> i]

\* Variant of StoreLocation: Vanish uses the first epoch too.
StoreLocationFirstEpoch(g, i) == SharedKeyLocationWithEpoch(g, g[2] + 1, i)

\* Where the shares of a generation are stored.
StoreLocation(g, i) == IF g[2] = 0 THEN SharedKeyLocation(g, i)
                                   ELSE SharedKeyLocationWithEpoch(g, g[2], i)

\* The shares that Split makes; its error is ignored, and then there are none.
ShareCount(q) == IF q.numberKeys > 2 /\ q.threshold > 1 THEN q.numberKeys ELSE 0

\* Variant: the reading of shares ends one early.
ReadEnoughOneEarly(q, m) == m = q.threshold - 1 \/ m = q.numberKeys

\* The loop of UnvanishData ends after m shares.
ReadEnough(q, m) == m = q.threshold \/ m = q.numberKeys

\* From too few shares Combine makes another key, and decrypt other data.
ReadsRight(q, m, copyIsSound) == m >= q.threshold /\ copyIsSound

----------------------------------------------------------------------------
IdleWork == [pc |-> "idle", epoch |-> 0, at |-> 0, right |-> TRUE]
IdleReader == [pc |-> "idle", near |-> FALSE, id |-> Nothing, obj |-> Nothing,
               at |-> 0, sound |-> FALSE, result |-> Nothing]

Chosen == {f \in [Op -> UNION {Choices[op] : op \in Op}] :
               \A op \in Op : f[op] \in Choices[op]}

Init == /\ params \in Chosen
        /\ ownerUp = TRUE
        /\ storage = [id \in VdoID |-> Nothing]
        /\ dht = {} /\ gone = {} /\ sound = {}
        /\ work = [op \in Op |-> IdleWork]
        /\ reader = [r \in Reader |-> IdleReader]

Current(op) == <<op, work[op].epoch>>

\* A panic: the owner's process ends with all that it holds.
OwnerPanics ==
    /\ ownerUp' = FALSE
    /\ storage' = [id \in VdoID |-> Nothing]
    /\ work' = [op \in Op |-> [work[op] EXCEPT !.pc = "over"]]
    /\ reader' = [r \in Reader |->
                     IF reader[r].near /\ reader[r].pc # "done"
                     THEN [reader[r] EXCEPT !.pc = "down"] ELSE reader[r]]
    /\ UNCHANGED <<params, dht, gone, sound>>

CallVanish(op) ==
    /\ ownerUp /\ work[op].pc = "idle"
    /\ work' = [work EXCEPT ![op].pc = "storing"]
    /\ UNCHANGED <<params, ownerUp, storage, dht, gone, sound, reader>>

\* Variant of SharesLeft: the loop runs once more.
SharesLeftOrNone(op) == work[op].at <= ShareCount(params[op])

SharesLeft(op) == work[op].at < ShareCount(params[op])

\* One DoIterativeStore of the loop, whose result is ignored.
StoreShare(op) ==
    /\ work[op].pc = "storing" /\ SharesLeft(op)
    /\ LET share == StoreLocation(Current(op), work[op].at + 1)
       IN  \/ dht' = dht \cup {share} /\ UNCHANGED gone
           \/ Cardinality(gone) < MaxGone /\ gone' = gone \cup {share} /\ UNCHANGED dht
    /\ work' = [work EXCEPT ![op].at = @ + 1]
    /\ UNCHANGED <<params, ownerUp, storage, sound, reader>>

\* Variants of AllStored: the loop ends one early; the epoch stays.
AllStoredButOne(op) == work[op].at + 1 >= ShareCount(params[op])
SameEpoch(e) == e

AllStored(op) == work[op].at = ShareCount(params[op])
NextEpoch(e) == e + 1

\* StoreVdoObj; then Republish begins, or goes on with the next epoch.
StoreVdoObj(op) ==
    /\ work[op].pc = "storing" /\ AllStored(op)
    /\ storage' = [storage EXCEPT ![params[op].vdoID] = Current(op)]
    /\ sound' = IF work[op].right THEN sound \cup {Current(op)} ELSE sound
    /\ work' = [work EXCEPT ![op].pc = "waiting", ![op].at = 0,
                            ![op].epoch = NextEpoch(@)]
    /\ UNCHANGED <<params, ownerUp, dht, gone, reader>>

\* Variant of Expire: the object stays.
ExpireKeeping(op) ==
    /\ work[op].pc = "waiting" /\ params[op].timeout <= Refresh * work[op].epoch
    /\ work' = [work EXCEPT ![op].pc = "over"]
    /\ UNCHANGED <<params, ownerUp, storage, dht, gone, sound, reader>>

\* Both timers of Republish start anew in every turn, so the shorter one fires:
\* the time limit, ...
Expire(op) ==
    /\ work[op].pc = "waiting" /\ params[op].timeout <= Refresh * work[op].epoch
    /\ storage' = [storage EXCEPT ![params[op].vdoID] = Nothing]
    /\ work' = [work EXCEPT ![op].pc = "over"]
    /\ UNCHANGED <<params, ownerUp, dht, gone, sound, reader>>

\* Variant of BeginRefresh: the old object is removed first.
BeginRefreshDeleting(op) ==
    /\ work[op].pc = "waiting" /\ Refresh * work[op].epoch <= params[op].timeout
    /\ storage' = [storage EXCEPT ![params[op].vdoID] = Nothing]
    /\ work' = [work EXCEPT ![op].pc = "reading", ![op].at = 0]
    /\ UNCHANGED <<params, ownerUp, dht, gone, sound, reader>>

\* ... or the refresh, which comes later with every epoch.
BeginRefresh(op) ==
    /\ work[op].pc = "waiting" /\ Refresh * work[op].epoch <= params[op].timeout
    /\ work' = [work EXCEPT ![op].pc = "reading", ![op].at = 0]
    /\ UNCHANGED <<params, ownerUp, storage, dht, gone, sound, reader>>

\* UnvanishData of the object that Vanish made, whatever is stored now.  A share
\* that is not found is an empty slice, and content[0] panics; without any share
\* to look for the key is empty, and NewCipher answers an error.
RefreshFails(op) ==
    /\ work[op].pc = "reading"
    /\ \/ params[op].numberKeys = 0
       \/ SharedKeyLocation(<<op, 0>>, work[op].at + 1) \notin dht
    /\ OwnerPanics

RefreshReads(op) ==
    /\ work[op].pc = "reading" /\ params[op].numberKeys > 0
    /\ SharedKeyLocation(<<op, 0>>, work[op].at + 1) \in dht
    /\ LET m == work[op].at + 1
           g == <<op, 0>>
       IN  IF ReadEnough(params[op], m)
           THEN \* decrypt works in place: the bytes are those of the object that
                \* Republish holds and, until the next one is stored, VDOStorage.
                /\ work' = [work EXCEPT ![op].pc = "storing", ![op].at = 0,
                              ![op].right = ReadsRight(params[op], m, g \in sound)]
                /\ sound' = sound \ {g}
           ELSE work' = [work EXCEPT ![op].at = m] /\ UNCHANGED sound
    /\ UNCHANGED <<params, ownerUp, storage, dht, gone, reader>>

----------------------------------------------------------------------------
ReaderIs(r, new) ==
    /\ reader' = [reader EXCEPT ![r] = new]
    /\ UNCHANGED <<params, ownerUp, storage, dht, gone, sound, work>>

CallUnvanish(r) ==
    /\ reader[r].pc = "idle"
    /\ \E near \in {FALSE, ownerUp}, id \in VdoID :
           ReaderIs(r, [reader[r] EXCEPT !.pc = "local", !.near = near, !.id = id])

\* A panic in the process of a reader.
ReaderPanics(r) ==
    IF reader[r].near THEN OwnerPanics
                      ELSE ReaderIs(r, [reader[r] EXCEPT !.pc = "down"])

Asks(r) == reader[r].pc \in {"local", "again"}

\* Unvanish asks once by its table and once after a lookup; then it answers nil.
WithoutAnswer(pc) == IF pc = "local" THEN "iterative" ELSE "done"

\* LocalFindVdo without an object: the owner is not in the table, the call fails
\* or takes more than 10 s; or the owner has no object, whose error gob cannot
\* encode, so that the connection is closed.
AskInVain(r) == /\ Asks(r)
                /\ ReaderIs(r, [reader[r] EXCEPT !.pc = WithoutAnswer(@)])

\* The dial is refused: client.Close() on nil.
AskRefused(r) == Asks(r) /\ ~ ownerUp /\ ReaderPanics(r)

\* GetVDO answers a copy of the object as it is at that moment.
AskAnswered(r) ==
    LET g == storage[reader[r].id]
    IN  /\ Asks(r) /\ ownerUp /\ g # Nothing
        /\ IF Params(g).numberKeys = 0
           THEN ReaderIs(r, [reader[r] EXCEPT !.pc = "done"])
           ELSE ReaderIs(r, [reader[r] EXCEPT !.pc = "reading", !.obj = g,
                                              !.sound = g \in sound])

\* DoIterativeFindNode lists the owner, or does not.
FindOwner(r) ==
    /\ reader[r].pc = "iterative"
    /\ \E pc \in {"again", "done"} : ReaderIs(r, [reader[r] EXCEPT !.pc = pc])

\* UnvanishData of the copy, by the access key alone.
ReadFails(r) ==
    /\ reader[r].pc = "reading"
    /\ SharedKeyLocation(reader[r].obj, reader[r].at + 1) \notin dht
    /\ ReaderPanics(r)

ReadShare(r) ==
    /\ reader[r].pc = "reading"
    /\ SharedKeyLocation(reader[r].obj, reader[r].at + 1) \in dht
    /\ LET m == reader[r].at + 1
           q == Params(reader[r].obj)
       IN  ReaderIs(r, IF ReadEnough(q, m)
                       THEN [reader[r] EXCEPT !.pc = "done", !.at = m,
                               !.result = IF ReadsRight(q, m, reader[r].sound)
                                          THEN "data" ELSE "garbled"]
                       ELSE [reader[r] EXCEPT !.at = m])

----------------------------------------------------------------------------
\* The nodes that hold a share leave the network.
LoseShare ==
    /\ Cardinality(gone) < MaxGone
    /\ \E share \in dht : dht' = dht \ {share} /\ gone' = gone \cup {share}
    /\ UNCHANGED <<params, ownerUp, storage, sound, work, reader>>

Owner(op) == \/ StoreShare(op) \/ StoreVdoObj(op) \/ Expire(op) \/ BeginRefresh(op)
             \/ RefreshFails(op) \/ RefreshReads(op)

Unvanish(r) == \/ AskInVain(r) \/ AskRefused(r) \/ AskAnswered(r) \/ FindOwner(r)
               \/ ReadFails(r) \/ ReadShare(r)

Next == \/ LoseShare
        \/ \E op \in Op : CallVanish(op) \/ Owner(op)
        \/ \E r \in Reader : CallUnvanish(r) \/ Unvanish(r)

Spec == Init /\ [][Next]_vars

\* Goroutines run, timers fire and calls have a limit; that lookups return is an
\* assumption (EndsOrExhausted says when they do).
FairSpec == /\ Spec
            /\ \A op \in Op : WF_vars(Owner(op))
            /\ \A r \in Reader : WF_vars(Unvanish(r))

----------------------------------------------------------------------------
TypeOK ==
    /\ params \in Chosen /\ ownerUp \in BOOLEAN
    /\ storage \in [VdoID -> Generation \cup {Nothing}]
    /\ dht \cup gone \subseteq [key : Generation, epoch : Nat, index : 1 .. 254]
    /\ sound \subseteq Generation
    /\ work \in [Op -> [pc : {"idle", "storing", "waiting", "reading", "over"},
                        epoch : Nat, at : Nat, right : BOOLEAN]]
    /\ \A op \in Op : work[op].at <= params[op].numberKeys
    /\ reader \in [Reader ->
           [pc : {"idle", "local", "iterative", "again", "reading", "done", "down"},
            near : BOOLEAN, id : VdoID \cup {Nothing},
            obj : Generation \cup {Nothing}, at : 0 .. 254, sound : BOOLEAN,
            result : {Nothing, "data", "garbled"}]]

Republishing(op) == ownerUp /\ work[op].epoch > 0 /\ work[op].pc # "over"

\* Deletion is sure to come: what VDOStorage holds has a Republish that is alive
\* and whose last refresh it is, and so it is even if two Vanishes have chosen
\* one id and overwrite and delete each other's object.
StoredHasTimer ==
    \A id \in VdoID : storage[id] # Nothing =>
        LET op == storage[id][1]
        IN  /\ Republishing(op) /\ params[op].vdoID = id
            /\ storage[id] = <<op, work[op].epoch - 1>>

Alone(op) == \A other \in Op \ {op} : params[other].vdoID # params[op].vdoID

\* An object whose id nobody else uses is there from the end of Vanish until its
\* time is over, refreshes in the middle included.
StoredUntilExpiry ==
    \A op \in Op : Alone(op) /\ Republishing(op) =>
                       storage[params[op].vdoID] = <<op, work[op].epoch - 1>>

\* An object is handed out only after all of its shares have been sent to their
\* places, so a reader never comes too early.
StoredObjectHasShares ==
    \A id \in VdoID : storage[id] # Nothing =>
        \A i \in 1 .. ShareCount(Params(storage[id])) :
            StoreLocation(storage[id], i) \in dht \cup gone

\* UnvanishData gives no answer to a missing share but a panic.  For an object
\* that was not refreshed since, whose counts Split has accepted, this needs a
\* share to be lost: readers look where Vanish has stored.
PanicsOnlyOnLoss ==
    \A r \in Reader :
        reader[r].pc = "down" /\ ~ reader[r].near /\ reader[r].obj # Nothing =>
            LET g == reader[r].obj
            IN  \/ g[2] > 0
                \/ ShareCount(Params(g)) = 0
                \/ gone \cap {StoreLocation(g, i) : i \in 1 .. Params(g).numberKeys} # {}

\* Data that come back are the data, as long as the object's first refresh has not
\* begun to read and the threshold can be reached at all.
GarbledOnlyAfterRefresh ==
    \A r \in Reader : reader[r].result = "garbled" =>
        LET g == reader[r].obj
        IN  \/ Params(g).threshold > Params(g).numberKeys
            \/ <<g[1], 0>> \notin sound

\* Republish ends with its process or by its time limit, however often it refreshes
\* on the way and although a refresh starts the time limit anew; and Unvanish
\* gives the data or gives up, or its process ends.
CallsEnd ==
    /\ \A op \in Op : work[op].pc # "idle" ~> work[op].pc = "over"
    /\ \A r \in Reader : reader[r].pc # "idle" ~> reader[r].pc \in {"done", "down"}

\* proj1_test.go:461-465: what Unvanish reads of an object that Vanish has stored
\* is the data.  No share is lost here, and the counts are valid.
VanishedDataComesBack ==
    \A r \in Reader :
        LET g == reader[r].obj
        IN  /\ gone = {} /\ g # Nothing
            /\ ShareCount(Params(g)) > 0 /\ Params(g).threshold <= Params(g).numberKeys
            => reader[r].pc # "down" /\ reader[r].result # "garbled"
============================================================================
