---------------------------- MODULE VanishProofs ----------------------------
(***************************************************************************)
(* Proofs about Vanish for any number of calls and readers, any arguments, *)
(* any time limits and any losses.                                         *)
(***************************************************************************)
EXTENDS Vanish, TLAPS

\* What the proofs need of the types, field by field.
ArgumentTypes ==
    \A op \in Op : params[op].vdoID \in VdoID /\ ShareCount(params[op]) \in Nat

WorkTypes ==
    /\ DOMAIN work = Op
    /\ \A op \in Op :
          /\ DOMAIN work[op] = {"pc", "epoch", "at", "right"}
          /\ work[op].pc \in {"idle", "storing", "waiting", "reading", "over"}
          /\ work[op].epoch \in Nat /\ work[op].at \in Nat

\* The stage and the epoch of a call agree, and a process that is gone works on
\* nothing.
Stages ==
    \A op \in Op :
        /\ work[op].pc = "idle" => work[op].epoch = 0 /\ work[op].at = 0
        /\ work[op].pc \in {"waiting", "reading"} => work[op].epoch > 0
        /\ ~ ownerUp => work[op].pc = "over"

\* While a call stores its shares, those behind it are sent.
SharesBehind ==
    \A op \in Op : work[op].pc = "storing" =>
        \A i \in 1 .. work[op].at : StoreLocation(Current(op), i) \in dht \cup gone

Custody == /\ DOMAIN storage = VdoID
           /\ \A id \in VdoID : storage[id] # Nothing => storage[id] \in Generation
           /\ StoredHasTimer /\ StoredUntilExpiry

IInv == ArgumentTypes /\ WorkTypes /\ Stages /\ Custody

\* The arguments are those that Vanish may be called with.
LEMMA ChosenArguments ==
    ASSUME NEW f \in Chosen, NEW op \in Op
    PROVE  f[op].vdoID \in VdoID /\ ShareCount(f[op]) \in Nat
<1>1. f[op] \in [vdoID : VdoID, numberKeys : 0 .. 254, threshold : 0 .. 255, timeout : Nat]
  BY ChoicesAssumption DEF Chosen
<1>2. f[op].vdoID \in VdoID /\ f[op].numberKeys \in 0 .. 254
  BY <1>1
<1>3. QED
  BY <1>2 DEF ShareCount

LEMMA InitIInv == Init => IInv
<1> SUFFICES ASSUME Init PROVE IInv
  OBVIOUS
<1>1. ArgumentTypes
  BY ChosenArguments DEF Init, ArgumentTypes
<1>2. \A op \in Op : work[op] = IdleWork
  BY DEF Init
<1>3. WorkTypes /\ Stages
  BY <1>2 DEF Init, WorkTypes, Stages, IdleWork
<1>4. Custody
  BY <1>2 DEF Init, Custody, StoredHasTimer, StoredUntilExpiry, Republishing, IdleWork
<1>5. QED
  BY <1>1, <1>3, <1>4 DEF IInv

\* What a step does to one call, as the proofs see it: the other calls stay.
Moves(op, pc, epoch, at) ==
    /\ DOMAIN work' = DOMAIN work
    /\ \A o \in Op \ {op} : work'[o] = work[o]
    /\ DOMAIN work'[op] = DOMAIN work[op]
    /\ work'[op].pc = pc /\ work'[op].epoch = epoch /\ work'[op].at = at
    /\ UNCHANGED <<params, ownerUp>>

\* The actions of the owner as moves.
LEMMA CallMoves ==
    ASSUME IInv, NEW op \in Op, CallVanish(op)
    PROVE  /\ work[op].pc = "idle" /\ ownerUp /\ UNCHANGED <<storage, dht, gone>>
           /\ Moves(op, "storing", work[op].epoch, work[op].at)
BY DEF IInv, WorkTypes, CallVanish, Moves

LEMMA StoreShareMoves ==
    ASSUME IInv, NEW op \in Op, StoreShare(op)
    PROVE  /\ work[op].pc = "storing" /\ UNCHANGED storage
           /\ work[op].at < ShareCount(params[op])
           /\ dht' \cup gone' = dht \cup gone \cup {StoreLocation(Current(op), work[op].at + 1)}
           /\ Moves(op, "storing", work[op].epoch, work[op].at + 1)
<1>1. Moves(op, "storing", work[op].epoch, work[op].at + 1)
  BY DEF IInv, WorkTypes, StoreShare, Moves
<1>2. QED
  BY <1>1 DEF StoreShare, SharesLeft

LEMMA StoreObjectMoves ==
    ASSUME IInv, NEW op \in Op, StoreVdoObj(op)
    PROVE  /\ work[op].pc = "storing" /\ UNCHANGED <<dht, gone>>
           /\ work[op].at = ShareCount(params[op])
           /\ storage' = [storage EXCEPT ![params[op].vdoID] = Current(op)]
           /\ Moves(op, "waiting", work[op].epoch + 1, 0)
<1>1. Moves(op, "waiting", work[op].epoch + 1, 0)
  BY DEF IInv, WorkTypes, StoreVdoObj, Moves, NextEpoch
<1>2. QED
  BY <1>1 DEF StoreVdoObj, AllStored

LEMMA ExpireMoves ==
    ASSUME IInv, NEW op \in Op, Expire(op)
    PROVE  /\ work[op].pc = "waiting" /\ UNCHANGED <<dht, gone>>
           /\ storage' = [storage EXCEPT ![params[op].vdoID] = Nothing]
           /\ Moves(op, "over", work[op].epoch, work[op].at)
BY DEF IInv, WorkTypes, Expire, Moves

LEMMA BeginRefreshMoves ==
    ASSUME IInv, NEW op \in Op, BeginRefresh(op)
    PROVE  /\ work[op].pc = "waiting" /\ UNCHANGED <<storage, dht, gone>>
           /\ Moves(op, "reading", work[op].epoch, 0)
BY DEF IInv, WorkTypes, BeginRefresh, Moves

LEMMA RefreshReadsMoves ==
    ASSUME IInv, NEW op \in Op, RefreshReads(op)
    PROVE  /\ work[op].pc = "reading" /\ UNCHANGED <<storage, dht, gone>>
           /\ \/ Moves(op, "storing", work[op].epoch, 0)
              \/ Moves(op, "reading", work[op].epoch, work[op].at + 1)
<1>1. CASE ReadEnough(params[op], work[op].at + 1)
  <2>1. Moves(op, "storing", work[op].epoch, 0)
    BY <1>1 DEF IInv, WorkTypes, RefreshReads, Moves
  <2>2. QED
    BY <2>1 DEF RefreshReads
<1>2. CASE ~ ReadEnough(params[op], work[op].at + 1)
  <2>1. Moves(op, "reading", work[op].epoch, work[op].at + 1)
    BY <1>2 DEF IInv, WorkTypes, RefreshReads, Moves
  <2>2. QED
    BY <2>1 DEF RefreshReads
<1>3. QED
  BY <1>1, <1>2

\* A move to a stage keeps types and stages, if the epoch fits the stage.
LEMMA MoveKeepsTypes ==
    ASSUME IInv, NEW op \in Op,
           NEW pc \in {"storing", "waiting", "reading", "over"},
           NEW epoch \in Nat, NEW at \in Nat, Moves(op, pc, epoch, at),
           pc \in {"waiting", "reading"} => epoch > 0,
           work[op].pc # "over"
    PROVE  ArgumentTypes' /\ WorkTypes' /\ Stages' /\ ownerUp
<1>1. ownerUp
  BY DEF IInv, Stages
<1>2. ArgumentTypes'
  BY DEF IInv, ArgumentTypes, Moves
<1>3. WorkTypes'
  BY DEF IInv, WorkTypes, Moves
<1>4. Stages'
  BY <1>1 DEF IInv, Stages, Moves
<1>5. QED
  BY <1>1, <1>2, <1>3, <1>4

\* A move that leaves the storage and the epoch alone disturbs nobody's custody.
LEMMA QuietMoveKeepsCustody ==
    ASSUME IInv, NEW op \in Op, NEW pc, NEW at, Moves(op, pc, work[op].epoch, at),
           work[op].pc # "over", pc # "over", UNCHANGED storage
    PROVE  Custody'
<1>1. \A o \in Op : /\ Republishing(o)' = Republishing(o)
                    /\ work'[o].epoch = work[o].epoch
  <2> TAKE o \in Op
  <2>1. CASE o = op
    BY <2>1 DEF Moves, Republishing
  <2>2. CASE o # op
    BY <2>2 DEF Moves, Republishing
  <2>3. QED
    BY <2>1, <2>2
<1>2. \A o \in Op : Alone(o)' = Alone(o)
  BY DEF Moves, Alone
<1>3. StoredHasTimer'
  <2> SUFFICES ASSUME NEW id \in VdoID, storage[id] # Nothing
               PROVE  \E o \in Op : /\ Republishing(o)' /\ params'[o].vdoID = id
                                    /\ storage'[id] = <<o, work'[o].epoch - 1>>
    BY DEF StoredHasTimer
  <2>1. storage[id][1] \in Op
    BY DEF IInv, Custody, Generation
  <2>2. /\ Republishing(storage[id][1]) /\ params[storage[id][1]].vdoID = id
        /\ storage[id] = <<storage[id][1], work[storage[id][1]].epoch - 1>>
    BY DEF IInv, Custody, StoredHasTimer
  <2>3. QED
    BY <1>1, <2>1, <2>2 DEF Moves
<1>4. StoredUntilExpiry'
  BY <1>1, <1>2 DEF IInv, Custody, StoredUntilExpiry, Moves
<1>5. QED
  BY <1>3, <1>4 DEF IInv, Custody

\* An object that is stored belongs to one call, which has asked for that id.
LEMMA StoredBelongs ==
    ASSUME IInv, NEW id \in VdoID, storage[id] # Nothing
    PROVE  /\ storage[id][1] \in Op /\ Republishing(storage[id][1])
           /\ params[storage[id][1]].vdoID = id
           /\ storage[id] = <<storage[id][1], work[storage[id][1]].epoch - 1>>
<1>1. storage[id][1] \in Op
  BY DEF IInv, Custody, Generation
<1>2. QED
  BY <1>1 DEF IInv, Custody, StoredHasTimer

\* A call stores its object: the epoch moves on with it.
LEMMA StoreObjectKeepsCustody ==
    ASSUME IInv, NEW op \in Op, Moves(op, "waiting", work[op].epoch + 1, 0), ownerUp,
           storage' = [storage EXCEPT ![params[op].vdoID] = Current(op)]
    PROVE  Custody'
<1>1. params[op].vdoID \in VdoID /\ work[op].epoch \in Nat
  BY DEF IInv, ArgumentTypes, WorkTypes
<1>2. Current(op) = <<op, work[op].epoch>> /\ Current(op) \in Generation
  BY <1>1 DEF Current, Generation
<1>3. Current(op) = <<op, work'[op].epoch - 1>> /\ Republishing(op)'
  BY <1>1, <1>2 DEF Moves, Republishing
<1>4. \A o \in Op \ {op} : Republishing(o)' = Republishing(o) /\ work'[o] = work[o]
  BY DEF Moves, Republishing
<1>5. /\ storage'[params[op].vdoID] = Current(op)
      /\ \A id \in VdoID \ {params[op].vdoID} : storage'[id] = storage[id]
      /\ DOMAIN storage' = VdoID
  BY <1>1 DEF IInv, Custody
<1>6. StoredHasTimer'
  <2> SUFFICES ASSUME NEW id \in VdoID, storage'[id] # Nothing
               PROVE  \E o \in Op : /\ Republishing(o)' /\ params'[o].vdoID = id
                                    /\ storage'[id] = <<o, work'[o].epoch - 1>>
    BY DEF StoredHasTimer
  <2>1. CASE id = params[op].vdoID
    BY <1>2, <1>3, <1>5, <2>1 DEF Moves
  <2>2. CASE id # params[op].vdoID
    <3>1. storage'[id] = storage[id]
      BY <1>5, <2>2
    <3>2. storage[id][1] # op
      BY <2>2, <3>1, StoredBelongs
    <3>3. PICK o \in Op : Republishing(o) /\ params[o].vdoID = id
                           /\ storage[id] = <<o, work[o].epoch - 1>>
      BY <3>1, StoredBelongs
    <3>4. o # op
      BY <3>2, <3>3
    <3>5. QED
      BY <1>4, <3>1, <3>3, <3>4 DEF Moves
  <2>3. QED
    BY <2>1, <2>2
<1>7. StoredUntilExpiry'
  <2> SUFFICES ASSUME NEW o \in Op, Alone(o)', Republishing(o)'
               PROVE  storage'[params'[o].vdoID] = <<o, work'[o].epoch - 1>>
    BY DEF StoredUntilExpiry
  <2>1. CASE o = op
    BY <1>3, <1>5, <2>1 DEF Moves
  <2>2. CASE o # op
    <3>1. params[o].vdoID # params[op].vdoID /\ Alone(o)
      BY <2>2 DEF Alone, Moves
    <3>2. params[o].vdoID \in VdoID
      BY DEF IInv, ArgumentTypes
    <3>3. storage[params[o].vdoID] = <<o, work[o].epoch - 1>>
      BY <1>4, <2>2, <3>1 DEF IInv, Custody, StoredUntilExpiry
    <3>4. QED
      BY <1>4, <1>5, <2>2, <3>1, <3>2, <3>3 DEF Moves
  <2>3. QED
    BY <2>1, <2>2
<1>8. QED
  BY <1>2, <1>5, <1>6, <1>7 DEF IInv, Custody

\* A time limit removes the object under the id, whosever it is.
LEMMA ExpireKeepsCustody ==
    ASSUME IInv, NEW op \in Op, Moves(op, "over", work[op].epoch, work[op].at),
           storage' = [storage EXCEPT ![params[op].vdoID] = Nothing]
    PROVE  Custody'
<1>1. params[op].vdoID \in VdoID
  BY DEF IInv, ArgumentTypes
<1>2. \A o \in Op \ {op} : Republishing(o)' = Republishing(o) /\ work'[o] = work[o]
  BY DEF Moves, Republishing
<1>3. /\ storage'[params[op].vdoID] = Nothing
      /\ \A id \in VdoID \ {params[op].vdoID} : storage'[id] = storage[id]
      /\ DOMAIN storage' = VdoID
  BY <1>1 DEF IInv, Custody
<1>4. StoredHasTimer'
  <2> SUFFICES ASSUME NEW id \in VdoID, storage'[id] # Nothing
               PROVE  \E o \in Op : /\ Republishing(o)' /\ params'[o].vdoID = id
                                    /\ storage'[id] = <<o, work'[o].epoch - 1>>
    BY DEF StoredHasTimer
  <2>1. id # params[op].vdoID /\ storage'[id] = storage[id]
    BY <1>3
  <2>2. storage[id][1] # op
    BY <2>1, StoredBelongs
  <2>3. PICK o \in Op : Republishing(o) /\ params[o].vdoID = id
                         /\ storage[id] = <<o, work[o].epoch - 1>>
    BY <2>1, StoredBelongs
  <2>4. o # op
    BY <2>2, <2>3
  <2>5. QED
    BY <1>2, <2>1, <2>3, <2>4 DEF Moves
<1>5. StoredUntilExpiry'
  <2> SUFFICES ASSUME NEW o \in Op, Alone(o)', Republishing(o)'
               PROVE  storage'[params'[o].vdoID] = <<o, work'[o].epoch - 1>>
    BY DEF StoredUntilExpiry
  <2>1. o # op
    BY DEF Moves, Republishing
  <2>2. params[o].vdoID # params[op].vdoID /\ Alone(o) /\ params[o].vdoID \in VdoID
    BY <2>1 DEF Alone, Moves, IInv, ArgumentTypes
  <2>3. storage[params[o].vdoID] = <<o, work[o].epoch - 1>>
    BY <1>2, <2>1, <2>2 DEF IInv, Custody, StoredUntilExpiry
  <2>4. QED
    BY <1>2, <1>3, <2>1, <2>2, <2>3 DEF Moves
<1>6. QED
  BY <1>3, <1>4, <1>5 DEF IInv, Custody

\* A panic leaves nothing to keep.
LEMMA PanicKeepsIInv == IInv /\ OwnerPanics => IInv'
<1> SUFFICES ASSUME IInv, OwnerPanics PROVE IInv'
  OBVIOUS
<1>1. \A op \in Op : work'[op] = [work[op] EXCEPT !.pc = "over"]
  BY DEF OwnerPanics
<1>2. WorkTypes'
  BY <1>1 DEF OwnerPanics, IInv, WorkTypes
<1>3. ArgumentTypes' /\ Stages'
  BY <1>1 DEF OwnerPanics, IInv, WorkTypes, ArgumentTypes, Stages
<1>4. ~ ownerUp' /\ storage' = [id \in VdoID |-> Nothing]
  BY DEF OwnerPanics
<1>5. Custody'
  BY <1>4 DEF Custody, StoredHasTimer, StoredUntilExpiry, Republishing
<1>6. QED
  BY <1>2, <1>3, <1>5 DEF IInv

\* What the invariants speak of; a step that leaves it alone keeps them.
Kept == <<params, ownerUp, storage, work>>

LEMMA QuietKeepsIInv == IInv /\ UNCHANGED Kept => IInv'
BY DEF Kept, IInv, ArgumentTypes, WorkTypes, Stages, Custody, StoredHasTimer,
       StoredUntilExpiry, Republishing, Alone

\* Readers change nothing of it, unless they panic in the owner's process.
LEMMA UnvanishIsQuiet ==
    ASSUME NEW r \in Reader, CallUnvanish(r) \/ Unvanish(r)
    PROVE  OwnerPanics \/ UNCHANGED <<Kept, dht, gone>>
BY DEF CallUnvanish, Unvanish, AskInVain, AskRefused, AskAnswered, FindOwner, ReadFails,
       ReadShare, ReaderIs, ReaderPanics, Kept

LEMMA NextIInv == IInv /\ [Next]_vars => IInv'
<1> SUFFICES ASSUME IInv, [Next]_vars PROVE IInv'
  OBVIOUS
<1>1. CASE UNCHANGED vars
  BY <1>1, QuietKeepsIInv DEF vars, Kept
<1>2. CASE LoseShare
  BY <1>2, QuietKeepsIInv DEF LoseShare, Kept
<1>3. ASSUME NEW r \in Reader, CallUnvanish(r) \/ Unvanish(r) PROVE IInv'
  BY <1>3, UnvanishIsQuiet, QuietKeepsIInv, PanicKeepsIInv
<1>4. ASSUME NEW op \in Op, CallVanish(op) \/ Owner(op) PROVE IInv'
  <2>1. work[op].epoch \in Nat /\ work[op].at \in Nat
    BY DEF IInv, WorkTypes
  <2>2. CASE CallVanish(op)
    BY <2>1, <2>2, CallMoves, MoveKeepsTypes, QuietMoveKeepsCustody DEF IInv
  <2>3. CASE StoreShare(op)
    <3>1. work[op].at + 1 \in Nat
      BY <2>1
    <3>2. QED
      BY <2>1, <2>3, <3>1, StoreShareMoves, MoveKeepsTypes, QuietMoveKeepsCustody DEF IInv
  <2>4. CASE StoreVdoObj(op)
    <3>1. work[op].epoch + 1 \in Nat /\ work[op].epoch + 1 > 0
      BY <2>1
    <3>2. ArgumentTypes' /\ WorkTypes' /\ Stages' /\ ownerUp
      BY <2>4, <3>1, StoreObjectMoves, MoveKeepsTypes
    <3>3. Custody'
      BY <2>4, <3>2, StoreObjectMoves, StoreObjectKeepsCustody
    <3>4. QED
      BY <3>2, <3>3 DEF IInv
  <2>5. CASE Expire(op)
    <3>1. ArgumentTypes' /\ WorkTypes' /\ Stages'
      BY <2>1, <2>5, ExpireMoves, MoveKeepsTypes
    <3>2. QED
      BY <2>5, <3>1, ExpireMoves, ExpireKeepsCustody DEF IInv
  <2>6. CASE BeginRefresh(op)
    <3>1. work[op].epoch > 0
      BY <2>6, BeginRefreshMoves DEF IInv, Stages
    <3>2. QED
      BY <2>1, <2>6, <3>1, BeginRefreshMoves, MoveKeepsTypes, QuietMoveKeepsCustody DEF IInv
  <2>7. CASE RefreshFails(op)
    BY <2>7, PanicKeepsIInv DEF RefreshFails
  <2>8. CASE RefreshReads(op)
    <3>1. work[op].epoch > 0 /\ work[op].at + 1 \in Nat
      BY <2>1, <2>8, RefreshReadsMoves DEF IInv, Stages
    <3>2. CASE Moves(op, "storing", work[op].epoch, 0)
      BY <2>1, <2>8, <3>1, <3>2, RefreshReadsMoves, MoveKeepsTypes, QuietMoveKeepsCustody DEF IInv
    <3>3. CASE Moves(op, "reading", work[op].epoch, work[op].at + 1)
      BY <2>1, <2>8, <3>1, <3>3, RefreshReadsMoves, MoveKeepsTypes, QuietMoveKeepsCustody DEF IInv
    <3>4. QED
      BY <2>8, <3>2, <3>3, RefreshReadsMoves
  <2>9. QED
    BY <1>4, <2>2, <2>3, <2>4, <2>5, <2>6, <2>7, <2>8 DEF Owner
<1>5. QED
  BY <1>1, <1>2, <1>3, <1>4 DEF Next

LEMMA IInvCorrect == Spec => []IInv
BY InitIInv, NextIInv, PTL DEF Spec

\* Whatever is stored will be deleted: it always has its own live Republish, however
\* many calls use the same id.
THEOREM TimerCorrect == Spec => []StoredHasTimer
<1>1. IInv => StoredHasTimer
  BY DEF IInv, Custody
<1>2. QED
  BY <1>1, IInvCorrect, PTL

\* An object with an id of its own is never missing before its time.
THEOREM CustodyCorrect == Spec => []StoredUntilExpiry
<1>1. IInv => StoredUntilExpiry
  BY DEF IInv, Custody
<1>2. QED
  BY <1>1, IInvCorrect, PTL

\* Shares that were sent are in the network or lost, and nothing takes that back.
SharesInv == SharesBehind /\ StoredObjectHasShares

LEMMA InitSharesInv == Init => SharesInv
<1> SUFFICES ASSUME Init PROVE SharesInv
  OBVIOUS
<1>1. SharesBehind
  BY DEF Init, SharesBehind, IdleWork
<1>2. StoredObjectHasShares
  BY DEF Init, StoredObjectHasShares
<1>3. QED
  BY <1>1, <1>2 DEF SharesInv

\* A move that sends nothing: what is behind a call is as before, or nothing.
LEMMA MoveKeepsShares ==
    ASSUME IInv, SharesInv, NEW op \in Op, NEW pc, NEW epoch, NEW at, Moves(op, pc, epoch, at),
           UNCHANGED <<dht, gone>>,
           pc = "storing" => at = 0
    PROVE  SharesBehind'
<1> SUFFICES ASSUME NEW o \in Op, work'[o].pc = "storing", NEW i \in 1 .. work'[o].at
             PROVE  (StoreLocation(Current(o), i) \in dht \cup gone)'
  BY DEF SharesBehind
<1>1. CASE o = op
  BY <1>1 DEF Moves
<1>2. CASE o # op
  <2>1. work'[o] = work[o]
    BY <1>2 DEF Moves
  <2>2. StoreLocation(Current(o), i) \in dht \cup gone
    BY <2>1 DEF SharesInv, SharesBehind
  <2>3. StoreLocation(Current(o), i)' = StoreLocation(Current(o), i)
    BY <2>1 DEF StoreLocation, Current, SharedKeyLocation, SharedKeyLocationWithEpoch
  <2>4. QED
    BY <2>2, <2>3
<1>3. QED
  BY <1>1, <1>2

\* Objects stay served as long as the network does not forget, which it never does:
\* lost shares are in gone.
LEMMA StoredKeepsShares ==
    ASSUME IInv, SharesInv, UNCHANGED params, dht \cup gone \subseteq dht' \cup gone',
           \A id \in VdoID : storage'[id] = Nothing \/ storage'[id] = storage[id]
    PROVE  StoredObjectHasShares'
<1> SUFFICES ASSUME NEW id \in VdoID, storage'[id] # Nothing,
                    NEW i \in 1 .. ShareCount(params[storage[id][1]])
             PROVE  StoreLocation(storage[id], i) \in dht' \cup gone'
  BY DEF StoredObjectHasShares, Params, StoreLocation, SharedKeyLocation,
         SharedKeyLocationWithEpoch
<1>1. storage[id] # Nothing
  OBVIOUS
<1>2. StoreLocation(storage[id], i) \in dht \cup gone
  BY <1>1 DEF SharesInv, StoredObjectHasShares, Params
<1>3. QED
  BY <1>2

\* One more share is sent.
LEMMA StoreShareKeepsShares ==
    ASSUME IInv, SharesInv, NEW op \in Op, StoreShare(op)
    PROVE  SharesInv'
<1>1. work[op].epoch \in Nat /\ work[op].at \in Nat
  BY DEF IInv, WorkTypes
<1>2. /\ work[op].pc = "storing" /\ UNCHANGED storage
      /\ dht' \cup gone' = dht \cup gone \cup {StoreLocation(Current(op), work[op].at + 1)}
      /\ Moves(op, "storing", work[op].epoch, work[op].at + 1)
  BY StoreShareMoves
<1>3. SharesBehind'
  <2> SUFFICES ASSUME NEW o \in Op, work'[o].pc = "storing", NEW i \in 1 .. work'[o].at
               PROVE  (StoreLocation(Current(o), i) \in dht \cup gone)'
    BY DEF SharesBehind
  <2>1. Current(o)' = Current(o) /\ work[o].pc = "storing"
    <3>1. CASE o = op
      BY <1>2, <3>1 DEF Moves, Current
    <3>2. CASE o # op
      BY <1>2, <3>2 DEF Moves, Current
    <3>3. QED
      BY <3>1, <3>2
  <2>2. StoreLocation(Current(o), i)' = StoreLocation(Current(o), i)
    BY <2>1 DEF StoreLocation, SharedKeyLocation, SharedKeyLocationWithEpoch
  <2>3. CASE i \in 1 .. work[o].at
    BY <1>2, <2>1, <2>2, <2>3 DEF SharesInv, SharesBehind
  <2>4. CASE i \notin 1 .. work[o].at
    <3>1. o = op
      BY <1>2, <2>4 DEF Moves
    <3>2. i = work[op].at + 1
      BY <1>1, <1>2, <2>4, <3>1 DEF Moves
    <3>3. QED
      BY <1>2, <2>2, <3>1, <3>2
  <2>5. QED
    BY <2>3, <2>4
<1>4. StoredObjectHasShares'
  <2>1. UNCHANGED params /\ dht \cup gone \subseteq dht' \cup gone'
    BY <1>2 DEF Moves
  <2>2. \A id \in VdoID : storage'[id] = Nothing \/ storage'[id] = storage[id]
    BY <1>2
  <2>3. QED
    BY <2>1, <2>2, StoredKeepsShares
<1>5. QED
  BY <1>3, <1>4 DEF SharesInv

\* An object is stored when all shares of its generation are behind the call.
LEMMA StoreObjectKeepsShares ==
    ASSUME IInv, SharesInv, NEW op \in Op, StoreVdoObj(op)
    PROVE  SharesInv'
<1>1. /\ work[op].pc = "storing" /\ UNCHANGED <<dht, gone>>
      /\ work[op].at = ShareCount(params[op])
      /\ storage' = [storage EXCEPT ![params[op].vdoID] = Current(op)]
      /\ Moves(op, "waiting", work[op].epoch + 1, 0)
  BY StoreObjectMoves
<1>2. SharesBehind'
  BY <1>1, MoveKeepsShares
<1>3. params' = params
  BY <1>1 DEF Moves
<1>4. StoredObjectHasShares'
  <2> SUFFICES ASSUME NEW id \in VdoID, storage'[id] # Nothing,
                      NEW i \in 1 .. ShareCount(params[storage'[id][1]])
               PROVE  StoreLocation(storage'[id], i) \in dht \cup gone
    BY <1>1, <1>3 DEF StoredObjectHasShares, Params, StoreLocation, SharedKeyLocation,
                      SharedKeyLocationWithEpoch
  <2>1. CASE id = params[op].vdoID
    <3>1. storage'[id] = Current(op) /\ Current(op)[1] = op
      BY <1>1, <2>1 DEF IInv, Custody, Current
    <3>2. i \in 1 .. work[op].at
      BY <1>1, <3>1
    <3>3. QED
      BY <1>1, <3>1, <3>2 DEF SharesInv, SharesBehind
  <2>2. CASE id # params[op].vdoID
    <3>1. storage'[id] = storage[id]
      BY <1>1, <2>2 DEF IInv, Custody
    <3>2. QED
      BY <3>1 DEF SharesInv, StoredObjectHasShares, Params
  <2>3. QED
    BY <2>1, <2>2
<1>5. QED
  BY <1>2, <1>4 DEF SharesInv

LEMMA PanicKeepsShares == IInv /\ OwnerPanics => SharesInv'
<1> SUFFICES ASSUME IInv, OwnerPanics PROVE SharesInv'
  OBVIOUS
<1>1. SharesBehind'
  <2>1. \A op \in Op : work'[op] = [work[op] EXCEPT !.pc = "over"]
    BY DEF OwnerPanics
  <2>2. \A op \in Op : work'[op].pc # "storing"
    BY <2>1 DEF IInv, WorkTypes
  <2>3. QED
    BY <2>2 DEF SharesBehind
<1>2. StoredObjectHasShares'
  BY DEF OwnerPanics, StoredObjectHasShares
<1>3. QED
  BY <1>1, <1>2 DEF SharesInv

\* A step that neither works nor stores keeps the shares, if the network does.
LEMMA QuietKeepsShares ==
    ASSUME IInv, SharesInv, UNCHANGED Kept, dht \cup gone \subseteq dht' \cup gone'
    PROVE  SharesInv'
<1>1. StoredObjectHasShares'
  BY StoredKeepsShares DEF Kept
<1>2. SharesBehind'
  <2> SUFFICES ASSUME NEW o \in Op, work[o].pc = "storing", NEW i \in 1 .. work[o].at
               PROVE  (StoreLocation(Current(o), i) \in dht \cup gone)'
    BY DEF SharesBehind, Kept
  <2>1. StoreLocation(Current(o), i)' = StoreLocation(Current(o), i)
    BY DEF StoreLocation, SharedKeyLocation, SharedKeyLocationWithEpoch, Current, Kept
  <2>2. QED
    BY <2>1 DEF SharesInv, SharesBehind
<1>3. QED
  BY <1>1, <1>2 DEF SharesInv

LEMMA NextSharesInv == IInv /\ SharesInv /\ [Next]_vars => SharesInv'
<1> SUFFICES ASSUME IInv, SharesInv, [Next]_vars PROVE SharesInv'
  OBVIOUS
<1>1. CASE UNCHANGED vars
  BY <1>1, QuietKeepsShares DEF vars, Kept
<1>2. CASE LoseShare
  <2>1. dht \cup gone \subseteq dht' \cup gone' /\ UNCHANGED Kept
    BY <1>2 DEF LoseShare, Kept
  <2>2. QED
    BY <2>1, QuietKeepsShares
<1>3. ASSUME NEW r \in Reader, CallUnvanish(r) \/ Unvanish(r) PROVE SharesInv'
  BY <1>3, UnvanishIsQuiet, QuietKeepsShares, PanicKeepsShares
<1>4. ASSUME NEW op \in Op, CallVanish(op) \/ Owner(op) PROVE SharesInv'
  <2>1. CASE CallVanish(op)
    <3>1. work[op].at = 0
      BY <2>1, CallMoves DEF IInv, Stages
    <3>2. SharesBehind'
      BY <2>1, <3>1, CallMoves, MoveKeepsShares
    <3>3. UNCHANGED <<params, dht, gone, storage>>
      BY <2>1 DEF CallVanish
    <3>4. QED
      BY <3>2, <3>3, StoredKeepsShares DEF SharesInv
  <2>2. CASE Expire(op)
    <3>1. SharesBehind'
      BY <2>2, ExpireMoves, MoveKeepsShares
    <3>2. UNCHANGED <<params, dht, gone>>
      BY <2>2 DEF Expire
    <3>3. \A id \in VdoID : storage'[id] = Nothing \/ storage'[id] = storage[id]
      BY <2>2 DEF Expire, IInv, Custody
    <3>4. QED
      BY <3>1, <3>2, <3>3, StoredKeepsShares DEF SharesInv
  <2>3. CASE BeginRefresh(op)
    <3>1. SharesBehind'
      BY <2>3, BeginRefreshMoves, MoveKeepsShares
    <3>2. UNCHANGED <<params, dht, gone, storage>>
      BY <2>3 DEF BeginRefresh
    <3>3. QED
      BY <3>1, <3>2, StoredKeepsShares DEF SharesInv
  <2>4. CASE RefreshReads(op)
    <3>1. SharesBehind'
      BY <2>4, RefreshReadsMoves, MoveKeepsShares
    <3>2. UNCHANGED <<params, dht, gone, storage>>
      BY <2>4 DEF RefreshReads
    <3>3. QED
      BY <3>1, <3>2, StoredKeepsShares DEF SharesInv
  <2>5. CASE RefreshFails(op)
    BY <2>5, PanicKeepsShares DEF RefreshFails
  <2>6. QED
    BY <1>4, <2>1, <2>2, <2>3, <2>4, <2>5, StoreShareKeepsShares, StoreObjectKeepsShares
       DEF Owner
<1>5. QED
  BY <1>1, <1>2, <1>3, <1>4 DEF Next

\* No reader gets an object some of whose shares have not been sent yet, neither after
\* Vanish nor after a refresh.
THEOREM SharesCorrect == Spec => []StoredObjectHasShares
<1>1. Init => SharesInv
  BY InitSharesInv
<1>2. IInv /\ SharesInv /\ [Next]_vars => SharesInv'
  BY NextSharesInv
<1>3. SharesInv => StoredObjectHasShares
  BY DEF SharesInv
<1>4. QED
  BY <1>1, <1>2, <1>3, IInvCorrect, PTL DEF Spec

----------------------------------------------------------------------------
\* What readers get.  A reader is judged by what it has (InStage), by what has
\* become of its object (CopyKept), and by how it ended.
WorkRecord == [pc : {"idle", "storing", "waiting", "reading", "over"},
               epoch : Nat, at : Nat, right : BOOLEAN]

ReaderRecord ==
    [pc : {"idle", "local", "iterative", "again", "reading", "done", "down"},
     near : BOOLEAN, id : VdoID \cup {Nothing},
     obj : Generation \cup {Nothing}, at : 0 .. 254, sound : BOOLEAN,
     result : {Nothing, "data", "garbled"}]

InStage(v) ==
    /\ v.pc \in {"idle", "local", "iterative", "again"} => v.obj = Nothing /\ v.at = 0
    /\ v.pc \in {"local", "iterative", "again"} => v.id \in VdoID
    /\ v.pc = "reading" => v.obj # Nothing /\ v.at < Params(v.obj).numberKeys
    /\ v.pc # "done" => v.result = Nothing
    /\ v.result # Nothing => v.obj # Nothing

\* Whatever becomes of the object in VDOStorage, of the copy in a reader's hands this
\* is true: its call has finished it, its shares are in the network or lost, and if
\* the copy was no encryption any more then the first object is none now.
CopyKept(v, w, net, s) ==
    v.obj # Nothing =>
        /\ v.obj[2] < w[v.obj[1]].epoch
        /\ \A i \in 1 .. ShareCount(Params(v.obj)) : StoreLocation(v.obj, i) \in net
        /\ ~ v.sound => <<v.obj[1], 0>> \notin s

PanicExplained(v, lost) ==
    v.pc = "down" /\ ~ v.near /\ v.obj # Nothing =>
        \/ v.obj[2] > 0
        \/ ShareCount(Params(v.obj)) = 0
        \/ \E i \in 1 .. Params(v.obj).numberKeys : StoreLocation(v.obj, i) \in lost

GarbledExplained(v, s) ==
    v.result = "garbled" =>
        \/ Params(v.obj).threshold > Params(v.obj).numberKeys
        \/ <<v.obj[1], 0>> \notin s

GoodReader(v, w, net, lost, s) ==
    /\ v \in ReaderRecord /\ InStage(v) /\ CopyKept(v, w, net, s)
    /\ PanicExplained(v, lost) /\ GarbledExplained(v, s)

ReadersGood ==
    /\ reader \in [Reader -> ReaderRecord]
    /\ \A r \in Reader : GoodReader(reader[r], work, dht \cup gone, gone, sound)

\* A refresh that has a share to read is not past the last one.
CountersInRange ==
    \A op \in Op : work[op].pc = "reading" /\ params[op].numberKeys > 0 =>
                       work[op].at < params[op].numberKeys

\* From its first refresh on, the first object of a call is no encryption any more.
DecryptedByRefresh ==
    \A op \in Op :
        work[op].epoch > 1 \/ (work[op].pc = "storing" /\ work[op].epoch > 0) =>
            <<op, 0>> \notin sound

Location == [key : Generation, epoch : Nat, index : 1 .. 254]

OwnerTypes ==
    /\ params \in Chosen /\ ownerUp \in BOOLEAN
    /\ storage \in [VdoID -> Generation \cup {Nothing}]
    /\ dht \cup gone \subseteq Location
    /\ sound \subseteq Generation
    /\ work \in [Op -> WorkRecord]
    /\ \A op \in Op : work[op].at <= params[op].numberKeys

OwnerInv == OwnerTypes /\ CountersInRange /\ DecryptedByRefresh

\* The arguments of a call, and how many shares they ask for.
LEMMA ParamFacts ==
    ASSUME params \in Chosen, NEW op \in Op
    PROVE  /\ params[op].vdoID \in VdoID /\ params[op].numberKeys \in 0 .. 254
           /\ params[op].threshold \in 0 .. 255
           /\ ShareCount(params[op]) \in 0 .. params[op].numberKeys
<1>1. params[op] \in [vdoID : VdoID, numberKeys : 0 .. 254, threshold : 0 .. 255, timeout : Nat]
  BY ChoicesAssumption DEF Chosen
<1>2. /\ params[op].vdoID \in VdoID /\ params[op].numberKeys \in 0 .. 254
      /\ params[op].threshold \in 0 .. 255
  BY <1>1
<1>3. QED
  BY <1>2 DEF ShareCount

LEMMA GenerationFacts ==
    ASSUME NEW g \in Generation
    PROVE  g[1] \in Op /\ g[2] \in Nat /\ g = <<g[1], g[2]>> /\ g # Nothing
BY NothingAssumption DEF Generation

LEMMA LocationFacts ==
    ASSUME NEW g \in Generation, NEW i \in 1 .. 254
    PROVE  StoreLocation(g, i) \in Location
BY GenerationFacts DEF StoreLocation, SharedKeyLocation, SharedKeyLocationWithEpoch, Location

\* Epochs grow, the network forgets nothing, and the first object of a call becomes
\* an encryption once, when the epoch is still 0.
Forward ==
    /\ params' = params
    /\ \A op \in Op : work[op].epoch <= work'[op].epoch
    /\ dht \cup gone \subseteq dht' \cup gone' /\ gone \subseteq gone'
    /\ \A op \in Op : <<op, 0>> \in sound' => <<op, 0>> \in sound \/ work[op].epoch = 0

LEMMA ReaderKept ==
    ASSUME IInv, WorkTypes', Forward, NEW v,
           GoodReader(v, work, dht \cup gone, gone, sound)
    PROVE  GoodReader(v, work', dht' \cup gone', gone', sound')
<1>1. CASE v.obj = Nothing
  BY <1>1, NothingAssumption DEF GoodReader, InStage, CopyKept, PanicExplained, GarbledExplained
<1>2. CASE v.obj # Nothing
  <2>1. v.obj \in Generation
    BY <1>2 DEF GoodReader, ReaderRecord
  <2>2. v.obj[1] \in Op /\ v.obj[2] \in Nat
    BY <2>1, GenerationFacts
  <2>3. work[v.obj[1]].epoch \in Nat /\ work'[v.obj[1]].epoch \in Nat
    BY <2>2 DEF IInv, WorkTypes
  <2>4. v.obj[2] < work[v.obj[1]].epoch
    BY <1>2 DEF GoodReader, CopyKept
  <2>5. <<v.obj[1], 0>> \in sound' => <<v.obj[1], 0>> \in sound
    BY <2>2, <2>3, <2>4 DEF Forward
  <2>6. v.obj[2] < work'[v.obj[1]].epoch
    BY <2>2, <2>3, <2>4 DEF Forward
  <2>7. CopyKept(v, work', dht' \cup gone', sound')
    BY <1>2, <2>5, <2>6 DEF GoodReader, CopyKept, Forward
  <2>8. PanicExplained(v, gone')
    BY DEF GoodReader, PanicExplained, Forward
  <2>9. GarbledExplained(v, sound')
    BY <2>5 DEF GoodReader, GarbledExplained
  <2>10. QED
    BY <2>7, <2>8, <2>9 DEF GoodReader
<1>3. QED
  BY <1>1, <1>2

\* Good readers in the next state, if the arguments stay, are what is to be shown.
LEMMA GoodReadersNext ==
    ASSUME params' = params, reader' \in [Reader -> ReaderRecord],
           \A r \in Reader : GoodReader(reader'[r], work', dht' \cup gone', gone', sound')
    PROVE  ReadersGood'
BY DEF ReadersGood, GoodReader, InStage, CopyKept, PanicExplained, GarbledExplained, Params,
       ShareCount, StoreLocation, SharedKeyLocation, SharedKeyLocationWithEpoch

\* A step in which readers take no part.
LEMMA ReadersWatch ==
    ASSUME IInv, WorkTypes', Forward, ReadersGood, UNCHANGED reader
    PROVE  ReadersGood'
<1>1. \A r \in Reader : GoodReader(reader'[r], work', dht' \cup gone', gone', sound')
  <2> TAKE r \in Reader
  <2>1. GoodReader(reader[r], work, dht \cup gone, gone, sound)
    BY DEF ReadersGood
  <2>2. GoodReader(reader[r], work', dht' \cup gone', gone', sound')
    BY <2>1, ReaderKept
  <2>3. QED
    BY <2>2
<1>2. QED
  BY <1>1, GoodReadersNext DEF Forward, ReadersGood

LEMMA InitReaderInv == Init => OwnerInv /\ ReadersGood
<1> SUFFICES ASSUME Init PROVE OwnerInv /\ ReadersGood
  OBVIOUS
<1>1. \A op \in Op : work[op] = IdleWork
  BY DEF Init
<1>2. IdleWork \in WorkRecord
  BY DEF IdleWork, WorkRecord
<1>3. \A op \in Op : 0 <= params[op].numberKeys
  <2> TAKE op \in Op
  <2>1. params[op].numberKeys \in 0 .. 254
    BY ParamFacts DEF Init
  <2>2. QED
    BY <2>1
<1>4. OwnerTypes
  BY <1>1, <1>2, <1>3 DEF Init, OwnerTypes, IdleWork
<1>5. CountersInRange /\ DecryptedByRefresh
  BY <1>1 DEF IdleWork, CountersInRange, DecryptedByRefresh
<1>6. IdleReader \in ReaderRecord
  BY DEF IdleReader, ReaderRecord
<1>7. \A w, net, lost, s : GoodReader(IdleReader, w, net, lost, s)
  BY <1>6, NothingAssumption
     DEF IdleReader, GoodReader, InStage, CopyKept, PanicExplained, GarbledExplained
<1>8. ReadersGood
  BY <1>6, <1>7 DEF Init, ReadersGood
<1>9. QED
  BY <1>4, <1>5, <1>8 DEF OwnerInv

\* A step of one call, seen from the readers' side.
LEMMA CallStep ==
    ASSUME IInv, OwnerInv, ReadersGood, WorkTypes', NEW op \in Op,
           NEW pc, NEW epoch \in Nat, NEW at, Moves(op, pc, epoch, at),
           UNCHANGED reader,
           work[op].epoch <= epoch, at <= params[op].numberKeys,
           pc = "reading" /\ params[op].numberKeys > 0 => at < params[op].numberKeys,
           work' \in [Op -> WorkRecord],
           storage' \in [VdoID -> Generation \cup {Nothing}],
           dht \cup gone \subseteq dht' \cup gone', gone \subseteq gone',
           dht' \cup gone' \subseteq Location,
           sound' \subseteq sound \cup {Current(op)} \/ sound' \subseteq sound \ {<<op, 0>>},
           epoch > 1 \/ (pc = "storing" /\ epoch > 0) =>
               <<op, 0>> \notin sound'
    PROVE  OwnerInv' /\ ReadersGood'
<1>1. \A o \in Op : work[o].epoch \in Nat /\ work'[o].epoch \in Nat
  BY DEF IInv, WorkTypes
<1>2. work'[op].pc = pc /\ work'[op].epoch = epoch /\ work'[op].at = at
  BY DEF Moves
<1>3. \A o \in Op \ {op} : work'[o] = work[o]
  BY DEF Moves
<1>4. params' = params /\ ownerUp' = ownerUp
  BY DEF Moves
<1>5. Current(op) = <<op, work[op].epoch>> /\ Current(op) \in Generation
  BY <1>1 DEF Current, Generation
<1>6. OwnerTypes'
  <2>1. \A o \in Op : work'[o].at <= params[o].numberKeys
    BY <1>2, <1>3 DEF OwnerInv, OwnerTypes
  <2>2. sound' \subseteq Generation
    BY <1>5 DEF OwnerInv, OwnerTypes
  <2>3. QED
    BY <1>4, <2>1, <2>2 DEF OwnerInv, OwnerTypes
<1>7. CountersInRange'
  BY <1>2, <1>3, <1>4 DEF OwnerInv, CountersInRange
<1>8. DecryptedByRefresh'
  <2> SUFFICES ASSUME NEW o \in Op,
                      work'[o].epoch > 1 \/ (work'[o].pc = "storing" /\ work'[o].epoch > 0)
               PROVE  <<o, 0>> \notin sound'
    BY DEF DecryptedByRefresh
  <2>1. CASE o = op
    BY <1>2, <2>1
  <2>2. CASE o # op
    <3>1. <<o, 0>> \notin sound
      BY <1>3, <2>2 DEF OwnerInv, DecryptedByRefresh
    <3>2. <<o, 0>> # Current(op)
      BY <1>5, <2>2
    <3>3. QED
      BY <3>1, <3>2
  <2>3. QED
    BY <2>1, <2>2
<1>9. Forward
  <2>1. \A o \in Op : work[o].epoch <= work'[o].epoch
    BY <1>1, <1>2, <1>3
  <2>2. \A o \in Op : <<o, 0>> \in sound' => <<o, 0>> \in sound \/ work[o].epoch = 0
    BY <1>5
  <2>3. QED
    BY <1>4, <2>1, <2>2 DEF Forward
<1>10. ReadersGood'
  BY <1>9, ReadersWatch
<1>11. QED
  BY <1>6, <1>7, <1>8, <1>10 DEF OwnerInv

\* The actions of the owner.
LEMMA OwnerKeepsReaders ==
    ASSUME IInv, OwnerInv, ReadersGood, WorkTypes', NEW op \in Op,
           CallVanish(op) \/ StoreShare(op) \/ StoreVdoObj(op) \/ Expire(op)
           \/ BeginRefresh(op) \/ RefreshReads(op)
    PROVE  OwnerInv' /\ ReadersGood'
<1> DEFINE q == params[op]
<1>1. /\ q.vdoID \in VdoID /\ q.numberKeys \in 0 .. 254
      /\ q.threshold \in 0 .. 255
      /\ ShareCount(q) \in 0 .. q.numberKeys
  BY ParamFacts DEF OwnerInv, OwnerTypes
<1>2. /\ work \in [Op -> WorkRecord]
      /\ storage \in [VdoID -> Generation \cup {Nothing}]
      /\ dht \cup gone \subseteq Location
      /\ work[op].epoch \in Nat /\ work[op].at \in Nat
      /\ work[op].at <= q.numberKeys
  BY DEF OwnerInv, OwnerTypes, WorkRecord
<1>3. Current(op) = <<op, work[op].epoch>> /\ Current(op) \in Generation
  BY <1>2 DEF Current, Generation
<1>4. work[op].epoch > 1 \/ (work[op].pc = "storing" /\ work[op].epoch > 0) =>
          <<op, 0>> \notin sound
  BY DEF OwnerInv, DecryptedByRefresh
<1>5. ASSUME UNCHANGED sound
      PROVE  sound' \subseteq sound \cup {Current(op)}
  BY <1>5
<1>6. CASE CallVanish(op)
  <2>1. /\ Moves(op, "storing", work[op].epoch, work[op].at)
        /\ work[op].pc = "idle"
    BY <1>6, CallMoves
  <2>2. work[op].epoch = 0
    BY <2>1 DEF IInv, Stages
  <2>3. work' \in [Op -> WorkRecord]
    BY <1>2, <1>6 DEF CallVanish, WorkRecord
  <2>4. UNCHANGED <<storage, dht, gone, sound, reader>>
    BY <1>6 DEF CallVanish
  <2>5. work[op].epoch <= work[op].epoch /\ ~ (work[op].epoch > 1) /\ ~ (work[op].epoch > 0)
    BY <2>2
  <2>6. QED
    BY <1>2, <2>1, <2>3, <2>4, <2>5, CallStep
<1>7. CASE StoreShare(op)
  <2>1. /\ Moves(op, "storing", work[op].epoch, work[op].at + 1)
        /\ work[op].pc = "storing"
        /\ work[op].at < ShareCount(q)
        /\ dht' \cup gone' = dht \cup gone \cup {StoreLocation(Current(op), work[op].at + 1)}
    BY <1>7, StoreShareMoves
  <2>2. work[op].at + 1 \in 1 .. 254 /\ work[op].at + 1 <= q.numberKeys
    BY <1>1, <1>2, <2>1
  <2>3. StoreLocation(Current(op), work[op].at + 1) \in Location
    BY <1>3, <2>2, LocationFacts
  <2>4. work' \in [Op -> WorkRecord]
    BY <1>2, <1>7 DEF StoreShare, WorkRecord
  <2>5. gone \subseteq gone' /\ UNCHANGED <<storage, sound, reader>>
    BY <1>7 DEF StoreShare
  <2>6. QED
    BY <1>2, <1>4, <2>1, <2>2, <2>3, <2>4, <2>5, CallStep
<1>8. CASE StoreVdoObj(op)
  <2>1. /\ Moves(op, "waiting", work[op].epoch + 1, 0)
        /\ work[op].pc = "storing"
        /\ storage' = [storage EXCEPT ![q.vdoID] = Current(op)]
    BY <1>8, StoreObjectMoves
  <2>2. storage' \in [VdoID -> Generation \cup {Nothing}]
    BY <1>2, <1>3, <2>1
  <2>3. work' \in [Op -> WorkRecord]
    BY <1>2, <1>8 DEF StoreVdoObj, WorkRecord, NextEpoch
  <2>4. sound' \subseteq sound \cup {Current(op)} /\ UNCHANGED <<dht, gone, reader>>
    BY <1>8 DEF StoreVdoObj
  <2>5. work[op].epoch + 1 > 1 => <<op, 0>> \notin sound'
    BY <1>2, <1>3, <1>4, <2>1, <2>4
  <2>6. work[op].epoch + 1 \in Nat /\ work[op].epoch <= work[op].epoch + 1 /\ 0 <= q.numberKeys
    BY <1>1, <1>2
  <2>7. QED
    BY <1>2, <2>1, <2>2, <2>3, <2>4, <2>5, <2>6, CallStep
<1>9. CASE Expire(op)
  <2>1. /\ Moves(op, "over", work[op].epoch, work[op].at)
        /\ storage' = [storage EXCEPT ![q.vdoID] = Nothing]
    BY <1>9, ExpireMoves
  <2>2. storage' \in [VdoID -> Generation \cup {Nothing}]
    BY <1>2, <2>1
  <2>3. work' \in [Op -> WorkRecord]
    BY <1>2, <1>9 DEF Expire, WorkRecord
  <2>4. QED
    BY <1>2, <1>4, <1>9, <2>1, <2>2, <2>3, CallStep DEF Expire
<1>10. CASE BeginRefresh(op)
  <2>1. Moves(op, "reading", work[op].epoch, 0)
    BY <1>10, BeginRefreshMoves
  <2>2. work' \in [Op -> WorkRecord]
    BY <1>2, <1>10 DEF BeginRefresh, WorkRecord
  <2>3. 0 <= q.numberKeys /\ (q.numberKeys > 0 => 0 < q.numberKeys)
    BY <1>1
  <2>4. QED
    BY <1>2, <1>4, <1>10, <2>1, <2>2, <2>3, CallStep DEF BeginRefresh
<1>11. CASE RefreshReads(op)
  <2>1. /\ work[op].pc = "reading" /\ q.numberKeys > 0 /\ work[op].at < q.numberKeys
        /\ UNCHANGED <<storage, dht, gone, reader>>
    BY <1>11 DEF RefreshReads, OwnerInv, CountersInRange
  <2>2. CASE ReadEnough(q, work[op].at + 1)
    <3>1. Moves(op, "storing", work[op].epoch, 0)
      BY <1>11, <2>2 DEF IInv, WorkTypes, RefreshReads, Moves
    <3>2. sound' = sound \ {<<op, 0>>}
      BY <1>11, <2>2 DEF RefreshReads
    <3>3. work' \in [Op -> WorkRecord]
      <4> DEFINE new == [work[op] EXCEPT !.pc = "storing", !.at = 0,
                            !.right = ReadsRight(q, work[op].at + 1, <<op, 0>> \in sound)]
      <4>1. ReadsRight(q, work[op].at + 1, <<op, 0>> \in sound) \in BOOLEAN
        BY DEF ReadsRight
      <4>2. work' = [work EXCEPT ![op].pc = "storing", ![op].at = 0,
                        ![op].right = ReadsRight(q, work[op].at + 1, <<op, 0>> \in sound)]
        BY <1>11, <2>2 DEF RefreshReads
      <4>3. work' = [work EXCEPT ![op] = new]
        BY <1>2, <4>2
      <4>4. new \in WorkRecord
        <5>1. work[op] \in WorkRecord
          BY <1>2
        <5>2. QED
          BY <4>1, <5>1 DEF WorkRecord
      <4> HIDE DEF new
      <4>5. QED
        BY <1>2, <4>3, <4>4
    <3>4. 0 <= q.numberKeys
      BY <1>1
    <3>5. QED
      <4>1. <<op, 0>> \notin sound' /\ sound' \subseteq sound \ {<<op, 0>>}
        BY <3>2
      <4>2. work[op].epoch <= work[op].epoch
        BY <1>2
      <4>3. QED
        BY <1>2, <2>1, <3>1, <3>3, <3>4, <4>1, <4>2, CallStep
  <2>3. CASE ~ ReadEnough(q, work[op].at + 1)
    <3>1. Moves(op, "reading", work[op].epoch, work[op].at + 1)
      BY <1>11, <2>3 DEF IInv, WorkTypes, RefreshReads, Moves
    <3>2. work' = [work EXCEPT ![op].at = work[op].at + 1] /\ UNCHANGED sound
      BY <1>11, <2>3 DEF RefreshReads
    <3>3. work' \in [Op -> WorkRecord]
      BY <1>2, <3>2 DEF WorkRecord
    <3>4. work[op].at + 1 # q.numberKeys
      BY <2>3 DEF ReadEnough
    <3>5. work[op].at + 1 <= q.numberKeys /\ work[op].at + 1 < q.numberKeys
      <4>1. \A a, b \in Nat : a < b /\ a + 1 # b => a + 1 <= b /\ a + 1 < b
        OBVIOUS
      <4>2. q.numberKeys \in Nat
        BY <1>1
      <4> HIDE DEF q
      <4>3. QED
        BY <1>2, <2>1, <3>4, <4>1, <4>2
    <3>6. QED
      BY <1>2, <1>4, <2>1, <3>1, <3>2, <3>3, <3>5, CallStep
  <2>4. QED
    BY <2>2, <2>3
<1>12. QED
  BY <1>6, <1>7, <1>8, <1>9, <1>10, <1>11

\* A panic of the owner takes its own readers with it; no other reader notices.
LEMMA PanicKeepsReaders ==
    ASSUME IInv, OwnerInv, ReadersGood, WorkTypes', OwnerPanics
    PROVE  OwnerInv' /\ ReadersGood'
<1>1. UNCHANGED <<params, dht, gone, sound>>
  BY DEF OwnerPanics
<1>2. \A op \in Op : work'[op] = [work[op] EXCEPT !.pc = "over"]
  BY DEF OwnerPanics
<1>3. \A op \in Op : work[op] \in WorkRecord
  BY DEF OwnerInv, OwnerTypes
<1>4. \A op \in Op : /\ work'[op] \in WorkRecord /\ work'[op].pc = "over"
                     /\ work'[op].epoch = work[op].epoch /\ work'[op].at = work[op].at
  <2>1. \A v \in WorkRecord :
            LET new == [v EXCEPT !.pc = "over"]
            IN  /\ new \in WorkRecord /\ new.pc = "over"
                /\ new.epoch = v.epoch /\ new.at = v.at
    BY DEF WorkRecord
  <2>2. TAKE op \in Op
  <2>3. work[op] \in WorkRecord /\ work'[op] = [work[op] EXCEPT !.pc = "over"]
    BY <1>2, <1>3
  <2> HIDE DEF WorkRecord
  <2>4. QED
    BY <2>1, <2>3
<1>5. OwnerTypes'
  BY <1>4 DEF OwnerPanics, OwnerInv, OwnerTypes
<1>6. CountersInRange' /\ DecryptedByRefresh'
  BY <1>1, <1>4 DEF OwnerInv, CountersInRange, DecryptedByRefresh
<1>7. Forward
  <2>1. \A op \in Op : work[op].epoch <= work'[op].epoch
    BY <1>3, <1>4 DEF WorkRecord
  <2>2. QED
    BY <1>1, <2>1 DEF Forward
<1>8. ASSUME NEW r \in Reader
      PROVE  GoodReader(reader'[r], work', dht' \cup gone', gone', sound')
  <2>1. GoodReader(reader[r], work, dht \cup gone, gone, sound)
    BY DEF ReadersGood
  <2>2. GoodReader(reader[r], work', dht' \cup gone', gone', sound')
    BY <1>7, <2>1, ReaderKept
  <2>3. CASE reader[r].near /\ reader[r].pc # "done"
    <3> DEFINE v == reader[r]
               new == [v EXCEPT !.pc = "down"]
    <3>1. reader'[r] = new
      BY <2>3 DEF OwnerPanics
    <3>2. /\ new \in ReaderRecord
          /\ new.pc = "down" /\ new.near = v.near /\ new.obj = v.obj
          /\ new.sound = v.sound /\ new.result = v.result
      BY <2>2 DEF GoodReader, ReaderRecord
    <3>3. v.result = Nothing
      BY <2>2, <2>3 DEF GoodReader, InStage
    <3> HIDE DEF new
    <3>4. GoodReader(new, work', dht' \cup gone', gone', sound')
      BY <2>2, <2>3, <3>2, <3>3, NothingAssumption
         DEF GoodReader, InStage, CopyKept, PanicExplained, GarbledExplained
    <3>5. QED
      BY <3>1, <3>4
  <2>4. CASE ~ (reader[r].near /\ reader[r].pc # "done")
    <3>1. reader'[r] = reader[r]
      BY <2>4 DEF OwnerPanics
    <3>2. QED
      BY <2>2, <3>1
  <2>5. QED
    BY <2>3, <2>4
<1>9. reader' \in [Reader -> ReaderRecord]
  <2>1. \A r \in Reader : reader'[r] \in ReaderRecord
    BY <1>8 DEF GoodReader
  <2>2. QED
    BY <2>1 DEF OwnerPanics
<1>10. ReadersGood'
  BY <1>1, <1>8, <1>9, GoodReadersNext
<1>11. QED
  BY <1>5, <1>6, <1>10 DEF OwnerInv

LEMMA ObjectFacts ==
    ASSUME params \in Chosen, NEW g \in Generation
    PROVE  Params(g).numberKeys \in 0 .. 254 /\ Params(g).threshold \in 0 .. 255
<1>1. g[1] \in Op
  BY GenerationFacts
<1>2. QED
  BY <1>1, ParamFacts DEF Params

\* A reader goes on, alone.
LEMMA ReaderStep ==
    ASSUME IInv, OwnerInv, ReadersGood, NEW r \in Reader, NEW new, ReaderIs(r, new),
           GoodReader(new, work, dht \cup gone, gone, sound)
    PROVE  OwnerInv' /\ ReadersGood'
<1>1. UNCHANGED <<params, ownerUp, storage, dht, gone, sound, work>>
  BY DEF ReaderIs
<1>2. OwnerInv'
  BY <1>1 DEF OwnerInv, OwnerTypes, CountersInRange, DecryptedByRefresh
<1>3. new \in ReaderRecord /\ reader \in [Reader -> ReaderRecord]
  BY DEF GoodReader, ReadersGood
<1>4. reader' = [reader EXCEPT ![r] = new] /\ reader' \in [Reader -> ReaderRecord]
  BY <1>3 DEF ReaderIs
<1>5. \A x \in Reader : GoodReader(reader'[x], work', dht' \cup gone', gone', sound')
  <2> TAKE x \in Reader
  <2>1. GoodReader(reader[x], work, dht \cup gone, gone, sound)
    BY DEF ReadersGood
  <2>2. reader'[x] = IF x = r THEN new ELSE reader[x]
    BY <1>3, <1>4
  <2>3. GoodReader(reader'[x], work, dht \cup gone, gone, sound)
    BY <2>1, <2>2
  <2>4. QED
    BY <1>1, <2>3
<1>6. QED
  BY <1>1, <1>2, <1>4, <1>5, GoodReadersNext

\* A record of a reader with another stage.
LEMMA OtherStage ==
    ASSUME NEW v \in ReaderRecord, NEW new,
           NEW pc \in {"idle", "local", "iterative", "again", "reading", "done", "down"},
           new = [v EXCEPT !.pc = pc]
    PROVE  /\ new \in ReaderRecord /\ new.pc = pc /\ new.near = v.near /\ new.id = v.id
           /\ new.obj = v.obj /\ new.at = v.at /\ new.sound = v.sound
           /\ new.result = v.result
BY DEF ReaderRecord

\* The other changes of a reader: it starts, it is handed an object, it reads a share,
\* it has read enough.
Starting(v, near, id) == [v EXCEPT !.pc = "local", !.near = near, !.id = id]
Handed(v, g, whole) == [v EXCEPT !.pc = "reading", !.obj = g, !.sound = whole]
ReadingOn(v, m) == [v EXCEPT !.at = m]
HavingRead(v, m, answer) == [v EXCEPT !.pc = "done", !.at = m, !.result = answer]

LEMMA Starts ==
    ASSUME NEW v \in ReaderRecord, NEW near \in BOOLEAN, NEW id \in VdoID
    PROVE  LET new == Starting(v, near, id)
           IN  /\ new \in ReaderRecord /\ new.pc = "local" /\ new.id = id
               /\ new.obj = v.obj /\ new.at = v.at /\ new.result = v.result
BY DEF ReaderRecord, Starting

LEMMA IsHanded ==
    ASSUME NEW v \in ReaderRecord, NEW g \in Generation, NEW whole \in BOOLEAN
    PROVE  LET new == Handed(v, g, whole)
           IN  /\ new \in ReaderRecord /\ new.pc = "reading" /\ new.obj = g
               /\ new.at = v.at /\ new.result = v.result /\ new.sound = whole
BY DEF ReaderRecord, Handed

LEMMA ReadsOn ==
    ASSUME NEW v \in ReaderRecord, NEW m \in 0 .. 254
    PROVE  LET new == ReadingOn(v, m)
           IN  /\ new \in ReaderRecord /\ new.pc = v.pc /\ new.obj = v.obj
               /\ new.at = m /\ new.result = v.result /\ new.sound = v.sound
BY DEF ReaderRecord, ReadingOn

LEMMA HasRead ==
    ASSUME NEW v \in ReaderRecord, NEW m \in 0 .. 254, NEW answer \in {"data", "garbled"}
    PROVE  LET new == HavingRead(v, m, answer)
           IN  /\ new \in ReaderRecord /\ new.pc = "done" /\ new.obj = v.obj
               /\ new.result = answer /\ new.sound = v.sound
BY DEF ReaderRecord, HavingRead

\* Without an object a reader may go to any stage but that of reading.
LEMMA EmptyHanded ==
    ASSUME NEW w, NEW net, NEW lost, NEW s, NEW v,
           GoodReader(v, w, net, lost, s), v.pc \in {"local", "iterative", "again"},
           NEW pc \in {"local", "iterative", "again", "done", "down"}
    PROVE  GoodReader([v EXCEPT !.pc = pc], w, net, lost, s)
<1> DEFINE new == [v EXCEPT !.pc = pc]
<1>1. /\ v \in ReaderRecord /\ v.id \in VdoID
      /\ v.obj = Nothing /\ v.at = 0 /\ v.result = Nothing
  BY DEF GoodReader, InStage
<1>0. new = [v EXCEPT !.pc = pc]
  OBVIOUS
<1> HIDE DEF new
<1>2. /\ new \in ReaderRecord /\ new.pc = pc /\ new.id \in VdoID
      /\ new.obj = Nothing /\ new.at = 0 /\ new.result = Nothing
  BY <1>0, <1>1, OtherStage
<1>3. GoodReader(new, w, net, lost, s)
  BY <1>2, NothingAssumption
     DEF GoodReader, InStage, CopyKept, PanicExplained, GarbledExplained
<1>4. QED
  BY <1>3 DEF new

LEMMA CallUnvanishKeeps ==
    ASSUME IInv, OwnerInv, ReadersGood, NEW r \in Reader, CallUnvanish(r)
    PROVE  OwnerInv' /\ ReadersGood'
<1> DEFINE v == reader[r]
<1>1. GoodReader(v, work, dht \cup gone, gone, sound) /\ v.pc = "idle"
  BY DEF CallUnvanish, ReadersGood
<1>2. PICK near \in {FALSE, ownerUp}, id \in VdoID :
          ReaderIs(r, Starting(v, near, id))
  BY DEF CallUnvanish, Starting
<1> DEFINE new == Starting(v, near, id)
<1>3. v \in ReaderRecord /\ v.obj = Nothing /\ v.at = 0 /\ v.result = Nothing
  BY <1>1 DEF GoodReader, InStage
<1>4. near \in BOOLEAN
  BY DEF OwnerInv, OwnerTypes
<1>5. /\ new \in ReaderRecord /\ new.pc = "local" /\ new.id \in VdoID
      /\ new.obj = Nothing /\ new.at = 0 /\ new.result = Nothing
  BY <1>3, <1>4, Starts
<1> HIDE DEF new
<1>6. GoodReader(new, work, dht \cup gone, gone, sound)
  BY <1>5, NothingAssumption
     DEF GoodReader, InStage, CopyKept, PanicExplained, GarbledExplained
<1>7. ReaderIs(r, new)
  BY <1>2 DEF new
<1>8. QED
  BY <1>6, <1>7, ReaderStep

\* The object that GetVDO hands out is the last one of its call: it has all its shares,
\* and if it is no encryption any more, then the first one of its call is none.
LEMMA HandedOut ==
    ASSUME IInv, SharesInv, OwnerInv, NEW id \in VdoID, storage[id] # Nothing,
           NEW v, v.obj = storage[id], v.sound = (storage[id] \in sound)
    PROVE  CopyKept(v, work, dht \cup gone, sound) /\ storage[id] \in Generation
<1> DEFINE g == storage[id]
<1>1. /\ g[1] \in Op /\ g = <<g[1], work[g[1]].epoch - 1>>
      /\ Republishing(g[1])
  BY StoredBelongs
<1>2. g \in Generation
  BY DEF IInv, Custody
<1>3. work[g[1]].epoch \in Nat /\ work[g[1]].epoch > 0
  BY <1>1 DEF IInv, WorkTypes, Republishing
<1> HIDE DEF g
<1>4. g[2] = work[g[1]].epoch - 1
  BY <1>1
<1>5. g[2] < work[g[1]].epoch
  BY <1>3, <1>4
<1>6. \A i \in 1 .. ShareCount(Params(g)) : StoreLocation(g, i) \in dht \cup gone
  BY DEF SharesInv, StoredObjectHasShares, g
<1>7. g \notin sound => <<g[1], 0>> \notin sound
  <2>1. CASE work[g[1]].epoch > 1
    BY <1>1, <2>1 DEF OwnerInv, DecryptedByRefresh
  <2>2. CASE ~ (work[g[1]].epoch > 1)
    <3>1. work[g[1]].epoch - 1 = 0
      BY <1>3, <2>2
    <3>2. QED
      BY <1>1, <3>1
  <2>3. QED
    BY <2>1, <2>2
<1>8. v.obj = g /\ v.sound = (g \in sound)
  BY DEF g
<1>9. QED
  BY <1>2, <1>5, <1>6, <1>7, <1>8 DEF CopyKept, g

LEMMA AskAnsweredKeeps ==
    ASSUME IInv, SharesInv, OwnerInv, ReadersGood, NEW r \in Reader, AskAnswered(r)
    PROVE  OwnerInv' /\ ReadersGood'
<1> DEFINE v == reader[r]
           g == storage[v.id]
<1>1. GoodReader(v, work, dht \cup gone, gone, sound) /\ v.pc \in {"local", "again"}
  BY DEF AskAnswered, Asks, ReadersGood
<1>2. v \in ReaderRecord /\ v.obj = Nothing /\ v.at = 0 /\ v.result = Nothing
  BY <1>1 DEF GoodReader, InStage
<1>3. CASE Params(g).numberKeys = 0
  <2>1. ReaderIs(r, [v EXCEPT !.pc = "done"])
    BY <1>3 DEF AskAnswered
  <2>2. GoodReader([v EXCEPT !.pc = "done"], work, dht \cup gone, gone, sound)
    BY <1>1, EmptyHanded
  <2>3. QED
    BY <2>1, <2>2, ReaderStep
<1>4. CASE Params(g).numberKeys # 0
  <2>5. PICK whole \in BOOLEAN : whole = (g \in sound)
    <3>1. CASE g \in sound
      <4>1. TRUE = (g \in sound)
        BY <3>1
      <4>2. QED
        BY <4>1
    <3>2. CASE g \notin sound
      <4>1. FALSE = (g \in sound)
        BY <3>2
      <4>2. QED
        BY <4>1
    <3>3. QED
      BY <3>1, <3>2
  <2> DEFINE new == Handed(v, g, whole)
  <2>1. ReaderIs(r, new)
    BY <1>4, <2>5 DEF AskAnswered, Handed
  <2>2. g # Nothing /\ v.id \in VdoID
    BY <1>1 DEF AskAnswered, GoodReader, InStage
  <2>3. g \in Generation
    BY <2>2 DEF IInv, Custody
  <2>4. Params(g).numberKeys \in 0 .. 254
    BY <2>3, ObjectFacts DEF OwnerInv, OwnerTypes
  <2>6. /\ new \in ReaderRecord /\ new.pc = "reading" /\ new.obj = g
        /\ new.at = 0 /\ new.result = Nothing /\ new.sound = whole
    BY <1>2, <2>3, IsHanded
  <2> HIDE DEF new
  <2>7. CopyKept(new, work, dht \cup gone, sound)
    BY <2>2, <2>5, <2>6, HandedOut
  <2>8. 0 < Params(g).numberKeys
    BY <1>4, <2>4
  <2>9. GoodReader(new, work, dht \cup gone, gone, sound)
    BY <2>2, <2>6, <2>7, <2>8, NothingAssumption
       DEF GoodReader, InStage, PanicExplained, GarbledExplained
  <2>10. QED
    BY <2>1, <2>9, ReaderStep
<1>5. QED
  BY <1>3, <1>4

\* What a reader that reads knows of its object.
LEMMA ReadingFacts ==
    ASSUME OwnerInv, ReadersGood, NEW r \in Reader, reader[r].pc = "reading"
    PROVE  LET v == reader[r]
               q == Params(v.obj)
           IN  /\ GoodReader(v, work, dht \cup gone, gone, sound)
               /\ v \in ReaderRecord /\ v.obj # Nothing /\ v.obj \in Generation
               /\ v.result = Nothing
               /\ q.numberKeys \in 0 .. 254 /\ q.threshold \in 0 .. 255
               /\ v.at \in 0 .. 254 /\ v.at + 1 <= q.numberKeys
<1> DEFINE v == reader[r]
           q == Params(v.obj)
<1>1. GoodReader(v, work, dht \cup gone, gone, sound)
  BY DEF ReadersGood
<1>2. /\ v \in ReaderRecord /\ v.obj # Nothing /\ v.result = Nothing
      /\ v.at < q.numberKeys
  BY <1>1 DEF GoodReader, InStage
<1>3. v.obj \in Generation /\ v.at \in 0 .. 254
  BY <1>2 DEF ReaderRecord
<1>4. q.numberKeys \in 0 .. 254 /\ q.threshold \in 0 .. 255
  BY <1>3, ObjectFacts DEF OwnerInv, OwnerTypes
<1>5. \A a, b \in Nat : a < b => a + 1 <= b
  OBVIOUS
<1> HIDE DEF v, q
<1>6. v.at + 1 <= q.numberKeys
  <2>1. v.at \in Nat /\ q.numberKeys \in Nat
    BY <1>3, <1>4
  <2>2. QED
    BY <1>2, <1>5, <2>1
<1>7. QED
  BY <1>1, <1>2, <1>3, <1>4, <1>6 DEF v, q

\* The share that a reader misses was lost: it looks where the first object of a call
\* has its shares.
LEMMA ReadFailsKeeps ==
    ASSUME IInv, OwnerInv, ReadersGood, NEW r \in Reader, ReadFails(r), ~ reader[r].near
    PROVE  OwnerInv' /\ ReadersGood'
<1> DEFINE v == reader[r]
           g == v.obj
           q == Params(g)
           new == [v EXCEPT !.pc = "down"]
<1>1. /\ v.pc = "reading" /\ SharedKeyLocation(g, v.at + 1) \notin dht
      /\ ReaderIs(r, new)
  BY DEF ReadFails, ReaderPanics
<1>2. /\ GoodReader(v, work, dht \cup gone, gone, sound)
      /\ v \in ReaderRecord /\ g # Nothing /\ g \in Generation /\ v.result = Nothing
      /\ q.numberKeys \in 0 .. 254
      /\ v.at \in 0 .. 254 /\ v.at + 1 <= q.numberKeys
  BY <1>1, ReadingFacts
<1>3. \/ g[2] > 0
      \/ ShareCount(q) = 0
      \/ \E i \in 1 .. q.numberKeys : StoreLocation(g, i) \in gone
  <2> SUFFICES ASSUME ~ (g[2] > 0), ShareCount(q) # 0
               PROVE  \E i \in 1 .. q.numberKeys : StoreLocation(g, i) \in gone
    OBVIOUS
  <2>1. ShareCount(q) = q.numberKeys
    BY DEF ShareCount
  <2>2. g[2] = 0
    BY <1>2, GenerationFacts
  <2>3. v.at + 1 \in 1 .. q.numberKeys
    BY <1>2
  <2>4. StoreLocation(g, v.at + 1) \in dht \cup gone
    BY <1>2, <2>1, <2>3 DEF GoodReader, CopyKept
  <2>5. StoreLocation(g, v.at + 1) = SharedKeyLocation(g, v.at + 1)
    BY <2>2 DEF StoreLocation
  <2>6. QED
    BY <1>1, <2>3, <2>4, <2>5
<1>0. new = [v EXCEPT !.pc = "down"]
  OBVIOUS
<1>4. /\ new \in ReaderRecord /\ new.pc = "down" /\ new.obj = g
      /\ new.at = v.at /\ new.result = Nothing /\ new.sound = v.sound
  <2> HIDE DEF new
  <2>1. QED
    BY <1>0, <1>2, OtherStage
<1>5. CopyKept(new, work, dht \cup gone, sound)
  <2> HIDE DEF new
  <2>1. QED
    BY <1>2, <1>4 DEF GoodReader, CopyKept
<1>6. PanicExplained(new, gone)
  <2> HIDE DEF new
  <2>1. QED
    BY <1>3, <1>4 DEF PanicExplained
<1> HIDE DEF new
<1>7. GoodReader(new, work, dht \cup gone, gone, sound)
  BY <1>4, <1>5, <1>6, NothingAssumption DEF GoodReader, InStage, GarbledExplained
<1>8. QED
  BY <1>1, <1>7, ReaderStep

\* The last share is read when there are enough, or no more.
LEMMA ReadShareKeeps ==
    ASSUME IInv, OwnerInv, ReadersGood, NEW r \in Reader, ReadShare(r)
    PROVE  OwnerInv' /\ ReadersGood'
<1> DEFINE v == reader[r]
           g == v.obj
           q == Params(g)
           m == v.at + 1
<1>1. v.pc = "reading"
  BY DEF ReadShare
<1>2. /\ GoodReader(v, work, dht \cup gone, gone, sound)
      /\ v \in ReaderRecord /\ g # Nothing /\ g \in Generation /\ v.result = Nothing
      /\ q.numberKeys \in 0 .. 254 /\ q.threshold \in 0 .. 255
      /\ v.at \in 0 .. 254 /\ m <= q.numberKeys
  BY <1>1, ReadingFacts
<1>3. m \in 0 .. 254
  BY <1>2
<1>4. CASE ReadEnough(q, m)
  <2> DEFINE answer == IF ReadsRight(q, m, v.sound) THEN "data" ELSE "garbled"
             new == HavingRead(v, m, answer)
  <2>1. ReaderIs(r, new)
    BY <1>4 DEF ReadShare, HavingRead
  <2>2. answer \in {"data", "garbled"}
    OBVIOUS
  <2>3. answer = "garbled" => q.threshold > q.numberKeys \/ <<g[1], 0>> \notin sound
    <3> SUFFICES ASSUME answer = "garbled", ~ (q.threshold > q.numberKeys)
                 PROVE  <<g[1], 0>> \notin sound
      OBVIOUS
    <3>1. ~ ReadsRight(q, m, v.sound)
      OBVIOUS
    <3>2. m >= q.threshold
      <4>1. \A a, b, c \in Nat : ~ (b > c) /\ (a = b \/ a = c) => a >= b
        OBVIOUS
      <4>2. m \in Nat /\ q.threshold \in Nat /\ q.numberKeys \in Nat
        BY <1>2, <1>3
      <4>3. m = q.threshold \/ m = q.numberKeys
        BY <1>4 DEF ReadEnough
      <4> HIDE DEF m, q
      <4>4. QED
        BY <4>1, <4>2, <4>3
    <3>3. ~ v.sound
      BY <3>1, <3>2 DEF ReadsRight
    <3>4. QED
      BY <1>2, <3>3 DEF GoodReader, CopyKept
  <2> HIDE DEF answer, m
  <2>4. /\ new \in ReaderRecord /\ new.pc = "done" /\ new.obj = v.obj
        /\ new.result = answer /\ new.sound = v.sound
    BY <1>2, <1>3, <2>2, HasRead
  <2> HIDE DEF new
  <2>5. CopyKept(new, work, dht \cup gone, sound)
    BY <1>2, <2>4 DEF GoodReader, CopyKept
  <2>6. GarbledExplained(new, sound)
    BY <2>3, <2>4 DEF GarbledExplained
  <2>7. InStage(new) /\ PanicExplained(new, gone)
    BY <1>2, <2>4 DEF InStage, PanicExplained
  <2>8. GoodReader(new, work, dht \cup gone, gone, sound)
    BY <2>4, <2>5, <2>6, <2>7 DEF GoodReader
  <2>9. QED
    BY <2>1, <2>8, ReaderStep
<1>5. CASE ~ ReadEnough(q, m)
  <2> DEFINE new == ReadingOn(v, m)
  <2>1. ReaderIs(r, new)
    BY <1>5 DEF ReadShare, ReadingOn
  <2>2. m # q.numberKeys
    BY <1>5 DEF ReadEnough
  <2>3. m < q.numberKeys
    <3>1. \A a, b \in Nat : a <= b /\ a # b => a < b
      OBVIOUS
    <3>2. m \in Nat /\ q.numberKeys \in Nat
      BY <1>2, <1>3
    <3> HIDE DEF m, q
    <3>3. QED
      BY <1>2, <2>2, <3>1, <3>2
  <2> HIDE DEF m
  <2>4. /\ new \in ReaderRecord /\ new.pc = "reading" /\ new.obj = g /\ new.at = m
        /\ new.result = Nothing /\ new.sound = v.sound /\ v.obj = g
    BY <1>1, <1>2, <1>3, ReadsOn
  <2> HIDE DEF new
  <2>5. CopyKept(new, work, dht \cup gone, sound)
    BY <1>2, <2>4 DEF GoodReader, CopyKept
  <2>6. InStage(new)
    BY <1>2, <2>3, <2>4 DEF InStage
  <2>7. PanicExplained(new, gone) /\ GarbledExplained(new, sound)
    BY <2>4, NothingAssumption DEF PanicExplained, GarbledExplained
  <2>8. GoodReader(new, work, dht \cup gone, gone, sound)
    BY <2>4, <2>5, <2>6, <2>7 DEF GoodReader
  <2>9. QED
    BY <2>1, <2>8, ReaderStep
<1>6. QED
  BY <1>4, <1>5

\* The steps of Unvanish; a panic of a reader near the owner is one of the owner.
LEMMA UnvanishKeeps ==
    ASSUME IInv, SharesInv, OwnerInv, ReadersGood, WorkTypes', NEW r \in Reader, Unvanish(r)
    PROVE  OwnerInv' /\ ReadersGood'
<1> DEFINE v == reader[r]
<1>1. GoodReader(v, work, dht \cup gone, gone, sound)
  BY DEF ReadersGood
<1>2. ASSUME NEW pc \in {"local", "iterative", "again", "done", "down"},
             v.pc \in {"local", "iterative", "again"},
             ReaderIs(r, [v EXCEPT !.pc = pc])
      PROVE  OwnerInv' /\ ReadersGood'
  <2>1. GoodReader([v EXCEPT !.pc = pc], work, dht \cup gone, gone, sound)
    BY <1>1, <1>2, EmptyHanded
  <2>2. QED
    BY <1>2, <2>1, ReaderStep
<1>3. CASE AskInVain(r)
  <2>1. v.pc \in {"local", "again"} /\ WithoutAnswer(v.pc) \in {"iterative", "done"}
    BY <1>3 DEF AskInVain, Asks, WithoutAnswer
  <2>2. ReaderIs(r, [v EXCEPT !.pc = WithoutAnswer(v.pc)])
    BY <1>3 DEF AskInVain
  <2>3. PICK pc \in {"iterative", "done"} : pc = WithoutAnswer(v.pc)
    BY <2>1
  <2>4. QED
    BY <1>2, <2>1, <2>2, <2>3
<1>4. CASE AskRefused(r)
  <2>1. CASE v.near
    BY <1>4, <2>1, PanicKeepsReaders DEF AskRefused, ReaderPanics
  <2>2. CASE ~ v.near
    <3>1. v.pc \in {"local", "again"} /\ ReaderIs(r, [v EXCEPT !.pc = "down"])
      BY <1>4, <2>2 DEF AskRefused, ReaderPanics, Asks
    <3>2. QED
      BY <1>2, <3>1
  <2>3. QED
    BY <2>1, <2>2
<1>5. CASE AskAnswered(r)
  BY <1>5, AskAnsweredKeeps
<1>6. CASE FindOwner(r)
  <2>1. v.pc = "iterative"
    BY <1>6 DEF FindOwner
  <2>2. PICK pc \in {"again", "done"} : ReaderIs(r, [v EXCEPT !.pc = pc])
    BY <1>6 DEF FindOwner
  <2>3. QED
    BY <1>2, <2>1, <2>2
<1>7. CASE ReadFails(r)
  <2>1. CASE v.near
    BY <1>7, <2>1, PanicKeepsReaders DEF ReadFails, ReaderPanics
  <2>2. CASE ~ v.near
    BY <1>7, <2>2, ReadFailsKeeps
  <2>3. QED
    BY <2>1, <2>2
<1>8. CASE ReadShare(r)
  BY <1>8, ReadShareKeeps
<1>9. QED
  BY <1>3, <1>4, <1>5, <1>6, <1>7, <1>8 DEF Unvanish

\* A share is lost, or nothing happens.
LEMMA LoseShareKeeps ==
    ASSUME IInv, WorkTypes', OwnerInv, ReadersGood, LoseShare \/ UNCHANGED vars
    PROVE  OwnerInv' /\ ReadersGood'
<1>1. /\ UNCHANGED <<params, ownerUp, storage, sound, work, reader>>
      /\ dht' \cup gone' = dht \cup gone /\ gone \subseteq gone'
  BY DEF LoseShare, vars
<1>2. OwnerInv'
  BY <1>1 DEF OwnerInv, OwnerTypes, CountersInRange, DecryptedByRefresh
<1>3. Forward
  <2>1. \A op \in Op : work[op].epoch \in Nat
    BY DEF IInv, WorkTypes
  <2>2. QED
    BY <1>1, <2>1 DEF Forward
<1>4. QED
  BY <1>1, <1>2, <1>3, ReadersWatch

LEMMA NextReaderInv ==
    IInv /\ SharesInv /\ OwnerInv /\ ReadersGood /\ [Next]_vars => OwnerInv' /\ ReadersGood'
<1> SUFFICES ASSUME IInv, SharesInv, OwnerInv, ReadersGood, [Next]_vars
             PROVE  OwnerInv' /\ ReadersGood'
  OBVIOUS
<1>1. WorkTypes'
  BY NextIInv DEF IInv
<1>2. CASE UNCHANGED vars \/ LoseShare
  BY <1>1, <1>2, LoseShareKeeps
<1>3. ASSUME NEW op \in Op, CallVanish(op) \/ Owner(op)
      PROVE  OwnerInv' /\ ReadersGood'
  <2>1. CASE RefreshFails(op)
    BY <1>1, <2>1, PanicKeepsReaders DEF RefreshFails
  <2>2. CASE ~ RefreshFails(op)
    BY <1>1, <1>3, <2>2, OwnerKeepsReaders DEF Owner
  <2>3. QED
    BY <2>1, <2>2
<1>4. ASSUME NEW r \in Reader, CallUnvanish(r) \/ Unvanish(r)
      PROVE  OwnerInv' /\ ReadersGood'
  BY <1>1, <1>4, CallUnvanishKeeps, UnvanishKeeps
<1>5. QED
  BY <1>2, <1>3, <1>4 DEF Next

LEMMA ReadersCorrect == Spec => [](OwnerInv /\ ReadersGood)
<1>1. Init => IInv /\ SharesInv /\ OwnerInv /\ ReadersGood
  BY InitIInv, InitSharesInv, InitReaderInv
<1>2. IInv /\ SharesInv /\ OwnerInv /\ ReadersGood /\ [Next]_vars
      => (IInv /\ SharesInv /\ OwnerInv /\ ReadersGood)'
  BY NextIInv, NextSharesInv, NextReaderInv
<1>3. QED
  BY <1>1, <1>2, PTL DEF Spec

\* Counters stay within what was asked for: no Vanish sends, and no reader or refresh
\* reads, more shares than there are, and none of them works on what is no object.
THEOREM TypeCorrect == Spec => []TypeOK
<1>1. OwnerInv /\ ReadersGood => TypeOK
  BY DEF OwnerInv, OwnerTypes, ReadersGood, ReaderRecord, WorkRecord, Location, TypeOK
<1>2. QED
  BY <1>1, ReadersCorrect, PTL

\* For any number of Vanishes, readers and losses: a reader elsewhere whose process
\* ends while it reads a first object, with counts that Split accepts, misses a share
\* that was lost, whoever overwrote, refreshed or deleted the object in between.
THEOREM PanicsCorrect == Spec => []PanicsOnlyOnLoss
<1>1. ReadersGood => PanicsOnlyOnLoss
  <2> SUFFICES ASSUME ReadersGood, NEW r \in Reader,
                      reader[r].pc = "down", ~ reader[r].near, reader[r].obj # Nothing
               PROVE  LET g == reader[r].obj
                      IN  \/ g[2] > 0
                          \/ ShareCount(Params(g)) = 0
                          \/ \E i \in 1 .. Params(g).numberKeys : StoreLocation(g, i) \in gone
    BY DEF PanicsOnlyOnLoss
  <2>1. PanicExplained(reader[r], gone)
    BY DEF ReadersGood, GoodReader
  <2>2. QED
    BY <2>1 DEF PanicExplained
<1>2. QED
  BY <1>1, ReadersCorrect, PTL

\* Wrong data are read only of an object whose first ciphertext a refresh has
\* decrypted in place, or of one whose threshold cannot be reached: until then the
\* copy in a reader's hands is good and the shares it reads are enough.
THEOREM GarbledCorrect == Spec => []GarbledOnlyAfterRefresh
<1>1. ReadersGood => GarbledOnlyAfterRefresh
  BY DEF ReadersGood, GoodReader, GarbledExplained, GarbledOnlyAfterRefresh
<1>2. QED
  BY <1>1, ReadersCorrect, PTL
============================================================================
