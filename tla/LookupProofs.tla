---------------------------- MODULE LookupProofs ----------------------------
(***************************************************************************)
(* Proofs about lookups, for any set of nodes, any answers, any failures,  *)
(* and any values of the two bounds of the loops: first about module       *)
(* IterativeLookup; then about module LookupFrontEnds: what the stores     *)
(* after a lookup do, and that a lookup inside one of its front ends is a  *)
(* lookup, so that what the first part shows of it holds here too.         *)
(***************************************************************************)
EXTENDS LookupFrontEnds, FiniteSetTheorems, NaturalsInduction,
        WellFoundedInduction, TLAPS

\* Results are taken in one of the two loops only.
CollectsInALoop == collecting => phase \in {"first", "second"}

\* A lookup for a value takes no holder for a node without it; no other lookup
\* reports that there is none; and a request without a result is under way or has
\* failed, unless the value came in.
HoldersAreHeard ==
    /\ findValue => active \cap Holder = {}
    /\ phase = "novalue" => findValue
    /\ phase # "value" => everAsked \subseteq active \cup asked \cup MayFail

\* The inductive invariant.  Each checked invariant needs the one before it.
IInv == /\ TypeOK
        /\ CollectsInALoop
        /\ Ledger
        /\ EveryResultIsOwed
        /\ HoldersAreHeard
        /\ ShortOnlyIfExhausted

\* What is popped is finite, was a candidate, and is counted by a number.
LEMMA PoppedFacts ==
  ASSUME TypeOK, NEW n
  PROVE  /\ Nearest(candidates, n) \subseteq candidates
         /\ Cardinality(Nearest(candidates, n)) \in Nat
<1>1. Nearest(candidates, n) \subseteq candidates
  BY DEF Nearest
<1>2. IsFiniteSet(Nearest(candidates, n))
  BY <1>1, NodeAssumption, FS_Subset DEF TypeOK
<1> QED
  BY <1>1, <1>2, FS_CardinalityType

\* A round that begins is owed as many results as it waits for.
LEMMA AskedCoverPopped ==
  ASSUME TypeOK, NEW n
  PROVE  Cardinality(Nearest(candidates, n))
            <= Cardinality(asked \cup Nearest(candidates, n))
<1> DEFINE popped == Nearest(candidates, n)
<1>1. asked \cup popped \in SUBSET Node
  BY PoppedFacts DEF TypeOK
<1>2. IsFiniteSet(asked \cup popped)
  BY <1>1, NodeAssumption, FS_Subset
<1>3. popped \in SUBSET (asked \cup popped)
  OBVIOUS
<1> QED
  BY <1>2, <1>3, FS_Subset

\* A result that is taken is no longer owed.
LEMMA OneFewerOwed ==
  ASSUME TypeOK, EveryResultIsOwed, collecting, NEW n \in asked
  PROVE  count - 1 <= Cardinality(asked \ {n})
<1>1. IsFiniteSet(asked)
  BY NodeAssumption, FS_Subset DEF TypeOK
<1>2. Cardinality(asked) \in Nat /\ Cardinality(asked \ {n}) = Cardinality(asked) - 1
  BY <1>1, FS_CardinalityType, FS_RemoveElement
<1> QED
  BY <1>2 DEF TypeOK, EveryResultIsOwed

\* The next values of count, collecting and phase that a result may cause.
LEMMA CountDownFacts ==
  ASSUME TypeOK, collecting, phase \in {"first", "second"},
         IF phase = "first" THEN CountDownFirst ELSE CountDownSecond
  PROVE  /\ \/ count' = count - 1 /\ phase' = phase
            \/ /\ collecting' = FALSE /\ count' = 0
               /\ phase' = ListOrNoValue /\ candidates = {}
         /\ collecting' \in BOOLEAN
         /\ collecting' => phase' = phase /\ count' = count - 1
BY DEF TypeOK, CountDownFirst, CountDownSecond, Return

\* The first values.
LEMMA InitIInv == Init => IInv
<1> SUFFICES ASSUME Init
             PROVE  IInv
  OBVIOUS
<1>1. heard \subseteq Node \cup {Self}
  BY AnswersAssumption DEF Init
<1>2. nodeSet \subseteq Node
  BY <1>1 DEF Init
<1>3. TypeOK
  <2>1. findValue \in BOOLEAN /\ collecting \in BOOLEAN
    BY DEF Init
  <2>2. phase = "first" /\ count \in Int
    BY DEF Init
  <2>3. /\ candidates \subseteq Node /\ active \subseteq Node
        /\ asked \subseteq Node /\ everAsked \subseteq Node
    BY <1>2 DEF Init
  <2> QED
    BY <1>1, <1>2, <2>1, <2>2, <2>3 DEF TypeOK
<1>4. CollectsInALoop /\ EveryResultIsOwed
  BY DEF Init, CollectsInALoop, EveryResultIsOwed
<1>5. Ledger /\ HoldersAreHeard
  BY DEF Init, Ledger, HoldersAreHeard
<1>6. ShortOnlyIfExhausted
  BY DEF Init, ShortOnlyIfExhausted
<1> QED
  BY <1>3, <1>4, <1>5, <1>6 DEF IInv

----------------------------------------------------------------------------
\* Iterative returns: with a short list only if nobody is left to ask.
LEMMA ReturnKeepsIInv ==
  ASSUME IInv, NEW how \in {"list", "value", "novalue", "empty"}, Return(how),
         how = "value" \/ asked' = asked, asked' \subseteq asked,
         phase \in {"first", "second"}, how = "novalue" => findValue,
         UNCHANGED <<findValue, candidates, nodeSet, active, everAsked, heard>>,
         how \in {"value", "empty"} \/ ~ (Cardinality(active) < Enough)
  PROVE  IInv'
<1> USE DEF IInv
<1>1. phase' = how /\ ~ collecting' /\ collecting' \in BOOLEAN /\ count' = 0
  BY DEF Return
<1>2. TypeOK'
  BY <1>1 DEF TypeOK
<1>3. CollectsInALoop' /\ EveryResultIsOwed'
  BY <1>1 DEF CollectsInALoop, EveryResultIsOwed
<1>4. Ledger'
  BY DEF Ledger
<1>5. ShortOnlyIfExhausted'
  BY <1>1 DEF ShortOnlyIfExhausted
<1>6. HoldersAreHeard'
  BY <1>1 DEF HoldersAreHeard
<1> QED
  BY <1>2, <1>3, <1>4, <1>5, <1>6

\* A round begins, in either loop.
LEMMA AskKeepsIInv ==
  ASSUME IInv, NEW n, AskNearest(n), BetweenRounds, phase \in {"first", "second"}
  PROVE  IInv'
<1> USE DEF IInv
<1> DEFINE popped == Nearest(candidates, n)
<1>0. /\ candidates' = candidates \ popped
      /\ asked' = asked \cup popped
      /\ everAsked' = everAsked \cup popped
      /\ count' = Cardinality(popped)
      /\ collecting' = TRUE
      /\ UNCHANGED <<findValue, phase, nodeSet, active, heard>>
  BY DEF AskNearest
<1>1. popped \subseteq candidates /\ Cardinality(popped) \in Nat
      /\ Cardinality(popped) <= Cardinality(asked \cup popped)
  BY PoppedFacts, AskedCoverPopped
<1> HIDE DEF popped
<1>2. TypeOK'
  BY <1>0, <1>1 DEF TypeOK
<1>3. CollectsInALoop'
  BY <1>0 DEF CollectsInALoop
<1>4. Ledger'
  BY <1>0, <1>1 DEF Ledger
<1>5. EveryResultIsOwed'
  BY <1>0, <1>1 DEF EveryResultIsOwed
<1>6. HoldersAreHeard'
  BY <1>0 DEF HoldersAreHeard
<1>7. ShortOnlyIfExhausted'
  BY <1>0 DEF ShortOnlyIfExhausted
<1> QED
  BY <1>2, <1>3, <1>4, <1>5, <1>6, <1>7

\* A request has failed.
LEMMA FailureKeepsIInv ==
  ASSUME IInv, NEW n \in Node, TakeFailure(n)
  PROVE  IInv'
<1> USE DEF IInv
<1>0. /\ collecting /\ n \in asked /\ n \in MayFail
      /\ asked' = asked \ {n}
      /\ UNCHANGED <<findValue, candidates, nodeSet, active, everAsked, heard>>
  BY DEF TakeFailure
<1>1. phase \in {"first", "second"}
  BY <1>0 DEF CollectsInALoop
<1>2. /\ \/ count' = count - 1 /\ phase' = phase
         \/ /\ collecting' = FALSE /\ count' = 0
            /\ phase' = ListOrNoValue /\ candidates = {}
      /\ collecting' \in BOOLEAN
      /\ collecting' => phase' = phase /\ count' = count - 1
  BY <1>0, <1>1, CountDownFacts DEF TakeFailure
<1>3. TypeOK'
  BY <1>0, <1>2 DEF TypeOK, ListOrNoValue
<1>4. CollectsInALoop'
  BY <1>1, <1>2 DEF CollectsInALoop
<1>5. Ledger'
  BY <1>0 DEF Ledger
<1>6. EveryResultIsOwed'
  BY <1>0, <1>2, OneFewerOwed DEF EveryResultIsOwed
<1>7. HoldersAreHeard'
  BY <1>0, <1>1, <1>2 DEF HoldersAreHeard, ListOrNoValue
<1>8. ShortOnlyIfExhausted'
  BY <1>0, <1>1, <1>2 DEF ShortOnlyIfExhausted
<1> QED
  BY <1>3, <1>4, <1>5, <1>6, <1>7, <1>8

\* A node has answered in the first loop.
LEMMA NodesFirstKeepIInv ==
  ASSUME IInv, NEW n \in Node, TakeNodesFirst(n)
  PROVE  IInv'
<1> USE DEF IInv
<1>0. /\ phase = "first" /\ collecting /\ n \in asked /\ HasNoValue(n)
      /\ active' = active \cup {n}
      /\ asked' = asked \ {n}
      /\ UNCHANGED <<findValue, everAsked>>
  BY DEF TakeNodesFirst
<1>1. PICK S \in Reports[n] :
          /\ heard' = heard \cup S
          /\ IF IsProgress(S)
             THEN /\ candidates' = candidates \cup New(S)
                  /\ nodeSet' = nodeSet \cup New(S)
                  /\ CountDownFirst
             ELSE /\ phase' = "second" /\ collecting' = FALSE /\ count' = 0
                  /\ UNCHANGED <<candidates, nodeSet>>
  BY DEF TakeNodesFirst
<1>2. S \subseteq Node \cup {Self}
  BY <1>1, AnswersAssumption
<1>3. PICK added \in SUBSET Node :
         /\ added \cap nodeSet = {}
         /\ candidates' = candidates \cup added
         /\ nodeSet' = nodeSet \cup added
  <2>1. CASE IsProgress(S)
    <3>1. New(S) \in SUBSET Node /\ New(S) \cap nodeSet = {}
      BY <1>2 DEF New
    <3> QED
      BY <1>1, <2>1, <3>1
  <2>2. CASE ~ IsProgress(S)
    <3>1. /\ {} \cap nodeSet = {}
          /\ candidates' = candidates \cup {}
          /\ nodeSet' = nodeSet \cup {}
      BY <1>1, <2>2
    <3> QED
      BY <3>1
  <2> QED
    BY <2>1, <2>2
<1>4. /\ collecting' \in BOOLEAN /\ phase' \in {"first", "second"}
      /\ count' \in Int
      /\ collecting' => count' = count - 1
  <2>1. CASE IsProgress(S)
    <3>1. CountDownFirst
      BY <1>1, <2>1
    <3>2. /\ count' = count - 1 /\ phase' = phase
          /\ collecting' \in BOOLEAN
      BY <3>1 DEF CountDownFirst
    <3> QED
      BY <1>0, <3>2 DEF TypeOK
  <2>2. CASE ~ IsProgress(S)
    <3>1. phase' = "second" /\ collecting' = FALSE /\ count' = 0
      BY <1>1, <2>2
    <3>2. ~ collecting' /\ collecting' \in BOOLEAN
      BY <3>1
    <3> QED
      BY <3>1, <3>2
  <2> QED
    BY <2>1, <2>2
<1>5. TypeOK'
  BY <1>0, <1>1, <1>2, <1>3, <1>4 DEF TypeOK
<1>6. CollectsInALoop'
  BY <1>4 DEF CollectsInALoop
<1>7. Ledger'
  BY <1>0, <1>3 DEF Ledger
<1>8. EveryResultIsOwed'
  BY <1>0, <1>4, OneFewerOwed DEF EveryResultIsOwed
<1>9. HoldersAreHeard'
  BY <1>0, <1>4 DEF HoldersAreHeard, HasNoValue
<1>10. ShortOnlyIfExhausted'
  BY <1>4 DEF ShortOnlyIfExhausted
<1> QED
  BY <1>5, <1>6, <1>7, <1>8, <1>9, <1>10

\* A node has answered in the second loop.
LEMMA NodesSecondKeepIInv ==
  ASSUME IInv, NEW n \in Node, TakeNodesSecond(n)
  PROVE  IInv'
<1> USE DEF IInv
<1>0. /\ phase = "second" /\ collecting /\ n \in asked /\ HasNoValue(n)
      /\ active' = active \cup {n}
      /\ asked' = asked \ {n}
      /\ UNCHANGED <<findValue, candidates, nodeSet, everAsked>>
  BY DEF TakeNodesSecond
<1>1. heard' \subseteq Node \cup {Self}
  BY AnswersAssumption DEF TakeNodesSecond, TypeOK
<1>2. /\ \/ count' = count - 1 /\ phase' = phase
         \/ /\ collecting' = FALSE /\ count' = 0
            /\ phase' = ListOrNoValue /\ candidates = {}
      /\ collecting' \in BOOLEAN
      /\ collecting' => phase' = phase /\ count' = count - 1
  BY <1>0, CountDownFacts DEF TakeNodesSecond
<1>3. TypeOK'
  BY <1>0, <1>1, <1>2 DEF TypeOK, ListOrNoValue
<1>4. CollectsInALoop'
  BY <1>0, <1>2 DEF CollectsInALoop
<1>5. Ledger'
  BY <1>0 DEF Ledger
<1>6. EveryResultIsOwed'
  BY <1>0, <1>2, OneFewerOwed DEF EveryResultIsOwed
<1>7. HoldersAreHeard'
  BY <1>0, <1>2 DEF HoldersAreHeard, HasNoValue, ListOrNoValue
<1>8. ShortOnlyIfExhausted'
  BY <1>0, <1>2 DEF ShortOnlyIfExhausted
<1> QED
  BY <1>3, <1>4, <1>5, <1>6, <1>7, <1>8

----------------------------------------------------------------------------
LEMMA NextIInv == IInv /\ [Next]_vars => IInv'
<1> SUFFICES ASSUME IInv, [Next]_vars
             PROVE  IInv'
  OBVIOUS
<1> USE DEF IInv
<1>1. CASE NobodyKnown
  <2>1. Return("empty")
    BY <1>1 DEF NobodyKnown
  <2>2. UNCHANGED <<findValue, candidates, nodeSet, active, asked, everAsked, heard>>
    BY <1>1 DEF NobodyKnown
  <2>3. phase \in {"first", "second"}
    BY <1>1 DEF NobodyKnown
  <2> QED
    BY <2>1, <2>2, <2>3, ReturnKeepsIInv
<1>2. CASE AskFirst
  BY <1>2, AskKeepsIInv DEF AskFirst
<1>3. CASE AskSecond
  BY <1>3, AskKeepsIInv DEF AskSecond
<1>4. CASE ReachedEnough
  <2>1. /\ Return(ListOrNoValue) /\ ListOrNoValue \in {"list", "novalue"}
        /\ ListOrNoValue = "novalue" => findValue
        /\ phase \in {"first", "second"}
    BY <1>4 DEF ReachedEnough, ListOrNoValue
  <2>2. UNCHANGED <<findValue, candidates, nodeSet, active, asked, everAsked, heard>>
    BY <1>4 DEF ReachedEnough
  <2>3. ~ (Cardinality(active) < Enough)
    <3>1. IsFiniteSet(active)
      BY NodeAssumption, FS_Subset DEF TypeOK
    <3>2. Cardinality(active) \in Nat /\ Enough \in Nat
      BY <3>1, FS_CardinalityType, BoundsAssumption
    <3> QED
      BY <1>4, <3>2 DEF ReachedEnough
  <2> QED
    BY <2>1, <2>2, <2>3, ReturnKeepsIInv
<1>5. CASE RoundTimesOut
  BY <1>5 DEF RoundTimesOut, TypeOK, CollectsInALoop, Ledger,
              EveryResultIsOwed, HoldersAreHeard, ShortOnlyIfExhausted
<1>6. CASE \E n \in Node : TakeFailure(n)
  BY <1>6, FailureKeepsIInv
<1>7. ASSUME NEW n \in Node, TakeValue(n)
      PROVE  IInv'
  <2>1. Return("value") /\ asked' = asked \ {n}
    BY <1>7 DEF TakeValue
  <2>2. UNCHANGED <<findValue, candidates, nodeSet, active, everAsked, heard>>
    BY <1>7 DEF TakeValue
  <2>3. phase \in {"first", "second"}
    BY <1>7 DEF TakeValue, CollectsInALoop
  <2> QED
    BY <2>1, <2>2, <2>3, ReturnKeepsIInv
<1>8. CASE \E n \in Node : TakeNodesFirst(n)
  BY <1>8, NodesFirstKeepIInv
<1>9. CASE \E n \in Node : TakeNodesSecond(n)
  BY <1>9, NodesSecondKeepIInv
<1>10. CASE UNCHANGED vars
  BY <1>10 DEF vars, TypeOK, CollectsInALoop, Ledger, EveryResultIsOwed,
               HoldersAreHeard, ShortOnlyIfExhausted
<1> HIDE DEF IInv
<1> QED
  BY <1>1, <1>2, <1>3, <1>4, <1>5, <1>6, <1>7, <1>8, <1>9, <1>10 DEF Next, Take

THEOREM InvariantHolds == Spec => []IInv
BY InitIInv, NextIInv, PTL DEF Spec

\* Iterative keeps its variables in shape: no node but those of the network is
\* ever a candidate, and the searching node never is.
THEOREM TypeCorrect == Spec => []TypeOK
<1>1. IInv => TypeOK
  BY DEF IInv
<1> QED
  BY <1>1, InvariantHolds, PTL

\* Whatever order the results arrive in, however late, every node that was
\* pushed is either waiting to be asked or was asked, and not both.
THEOREM LedgerCorrect == Spec => []Ledger
<1>1. IInv => Ledger
  BY DEF IInv
<1> QED
  BY <1>1, InvariantHolds, PTL

\* No round waits for more results than there are requests under way.
THEOREM OwedCorrect == Spec => []EveryResultIsOwed
<1>1. IInv => EveryResultIsOwed
  BY DEF IInv
<1> QED
  BY <1>1, InvariantHolds, PTL

\* A lookup that reports that there is no value misses at most holders that have not
\* answered: those under way, those that failed, and those never asked because
\* enough others had answered.
THEOREM NoValueCorrect == Spec => []NoValueHasReason
<1>1. IInv => NoValueHasReason
  <2> SUFFICES ASSUME IInv, phase = "novalue", NEW n \in nodeSet \cap Holder,
                      n \notin asked, n \notin MayFail
               PROVE  n \in candidates /\ Cardinality(active) >= Enough
    BY DEF NoValueHasReason
  <2>1. n \notin everAsked
    BY DEF IInv, HoldersAreHeard
  <2>2. n \in candidates
    BY <2>1 DEF IInv, Ledger
  <2>3. ~ (Cardinality(active) < Enough)
    BY <2>2 DEF IInv, ShortOnlyIfExhausted
  <2>4. Cardinality(active) \in Nat /\ Enough \in Nat
    BY NodeAssumption, BoundsAssumption, FS_Subset, FS_CardinalityType
       DEF IInv, TypeOK
  <2> QED
    BY <2>2, <2>3, <2>4
<1> QED
  BY <1>1, InvariantHolds, PTL

\* A short list, and the report that there is no value, mean that every
\* candidate was asked.
THEOREM ExhaustedCorrect == Spec => []ShortOnlyIfExhausted
<1>1. IInv => ShortOnlyIfExhausted
  BY DEF IInv
<1> QED
  BY <1>1, InvariantHolds, PTL

\* No node gets two requests in one lookup.
THEOREM AskedOnceCorrect == Spec => NobodyAskedTwice
<1>1. ASSUME IInv, [Next]_vars
      PROVE  [everAsked \cap (asked' \ asked) = {}]_vars
  <2>1. CASE AskFirst \/ AskSecond
    <3>1. \E n : AskNearest(n)
      BY <2>1 DEF AskFirst, AskSecond
    <3>2. PICK n : asked' = asked \cup Nearest(candidates, n)
      BY <3>1 DEF AskNearest
    <3>3. Nearest(candidates, n) \subseteq candidates
      BY DEF Nearest
    <3> QED
      BY <1>1, <3>2, <3>3 DEF IInv, Ledger
  <2>2. CASE ~ (AskFirst \/ AskSecond)
    BY <1>1, <2>2 DEF Next, Take, NobodyKnown, ReachedEnough, RoundTimesOut,
                      TakeFailure, TakeValue, TakeNodesFirst, TakeNodesSecond, vars
  <2> QED
    BY <2>1, <2>2
<1> QED
  BY <1>1, InvariantHolds, PTL DEF Spec, NobodyAskedTwice

----------------------------------------------------------------------------
\* The bound of the lists is looked at between rounds only.  What takes a round of
\* the first loop beyond it are the requests of that round, which are fewer than
\* Alpha more, and then the late results of rounds that timed out, which count tells
\* by falling below zero.  A round of the second loop stays within the bound.
OverrunIsLate ==
    /\ phase = "first" => Cardinality(active) + count <= Enough + Alpha - 1
    /\ phase = "second" /\ collecting => Cardinality(active) + count <= Enough

\* A set of nodes that is not empty has a farthest node.
LEMMA FarthestExists ==
  ASSUME NEW S \in SUBSET Nat, IsFiniteSet(S), S # {}
  PROVE  \E m \in S : \A y \in S : y <= m
<1> DEFINE Nearer(m) == {y \in S : y < m}
           farther(m) == Cardinality(S) - Cardinality(Nearer(m))
           Values == {farther(m) : m \in S}
           R == OpToRel(<, Nat)
<1>1. \A m \in S : /\ Nearer(m) \in SUBSET S /\ IsFiniteSet(Nearer(m))
                   /\ Cardinality(Nearer(m)) \in Nat
                   /\ Cardinality(Nearer(m)) <= Cardinality(S)
  BY FS_Subset, FS_CardinalityType
<1>2. Cardinality(S) \in Nat
  BY FS_CardinalityType
<1>3. \A m \in S : farther(m) \in Nat
  BY <1>1, <1>2
<1>4. Values \subseteq Nat /\ Values # {}
  BY <1>3
<1>5. IsWellFoundedOn(R, Nat) /\ \A x, y \in Nat : <<y, x>> \in R <=> y < x
  BY NatLessThanWellFounded DEF OpToRel
<1> HIDE DEF R
<1>6. PICK v \in Values : \A w \in Values : ~ (<<w, v>> \in R)
  BY <1>4, <1>5, WFMin
<1>7. PICK m \in S : v = farther(m)
  BY <1>6
<1>8. \A y \in S : farther(m) <= farther(y)
  <2> SUFFICES ASSUME NEW y \in S PROVE farther(m) <= farther(y)
    OBVIOUS
  <2>1. ~ (<<farther(y), farther(m)>> \in R)
    BY <1>6, <1>7
  <2> HIDE DEF farther
  <2> QED
    BY <1>3, <1>5, <2>1
<1>9. ASSUME NEW y \in S, ~ (y <= m)
      PROVE  FALSE
  <2>1. m \in Nat /\ y \in Nat /\ m < y
    BY <1>9
  <2>2. Nearer(m) \cup {m} \in SUBSET Nearer(y) /\ m \notin Nearer(m)
    BY <2>1
  <2> HIDE DEF Nearer
  <2>3. Cardinality(Nearer(m) \cup {m}) = Cardinality(Nearer(m)) + 1
    BY <1>1, <2>2, FS_AddElement
  <2>4. Cardinality(Nearer(m) \cup {m}) <= Cardinality(Nearer(y))
    BY <1>1, <2>2, FS_Subset
  <2> QED
    BY <1>1, <1>2, <1>8, <2>3, <2>4
<1> QED
  BY <1>9

\* A round asks at most as many nodes as it may.
LEMMA PoppedAtMost ==
  ASSUME TypeOK, NEW n \in Nat
  PROVE  Cardinality(Nearest(candidates, n)) <= n
<1> DEFINE popped == Nearest(candidates, n)
<1>1. /\ candidates \in SUBSET Nat /\ IsFiniteSet(candidates)
      /\ popped \in SUBSET candidates
  BY PoppedFacts, NodeAssumption, FS_Subset DEF TypeOK
<1>2. popped \in SUBSET Nat /\ IsFiniteSet(popped)
  BY <1>1, FS_Subset
<1>3. CASE popped = {}
  BY <1>3, FS_EmptySet
<1>4. CASE popped # {}
  <2>1. PICK m \in popped : \A y \in popped : y <= m
    BY <1>2, <1>4, FarthestExists
  <2> DEFINE nearer == {y \in candidates : y < m}
  <2>2. Cardinality(nearer) < n
    BY <2>1 DEF Nearest
  <2>3. popped \ {m} \in SUBSET nearer
    <3>1. ASSUME NEW y \in popped, y # m PROVE y \in candidates /\ y < m
      <4>1. y \in Nat /\ m \in Nat /\ y <= m /\ y \in candidates
        BY <1>1, <1>2, <2>1
      <4> QED
        BY <3>1, <4>1
    <3> QED
      BY <3>1
  <2>4. IsFiniteSet(nearer) /\ IsFiniteSet(popped \ {m})
    BY <1>1, <1>2, FS_Subset, FS_RemoveElement
  <2> HIDE DEF nearer, popped
  <2>5. Cardinality(popped \ {m}) <= Cardinality(nearer)
    BY <2>3, <2>4, FS_Subset
  <2>6. Cardinality(popped \ {m}) = Cardinality(popped) - 1
    BY <1>2, <2>1, FS_RemoveElement
  <2>7. Cardinality(popped) \in Nat /\ Cardinality(nearer) \in Nat
    BY <1>2, <2>4, FS_CardinalityType
  <2>8. Cardinality(popped) <= n
    BY <2>2, <2>5, <2>6, <2>7
  <2> QED
    BY <2>8 DEF popped
<1> QED
  BY <1>3, <1>4

\* A node that answers makes the list longer by one at most.
LEMMA OneMoreActive ==
  ASSUME TypeOK, NEW n \in Node
  PROVE  /\ Cardinality(active) \in Nat /\ Cardinality(active \cup {n}) \in Nat
         /\ Cardinality(active \cup {n}) <= Cardinality(active) + 1
<1>1. IsFiniteSet(active)
  BY NodeAssumption, FS_Subset DEF TypeOK
<1>2. /\ IsFiniteSet(active \cup {n})
      /\ Cardinality(active \cup {n})
            = IF n \in active THEN Cardinality(active) ELSE Cardinality(active) + 1
  BY <1>1, FS_AddElement
<1>3. Cardinality(active) \in Nat /\ Cardinality(active \cup {n}) \in Nat
  BY <1>1, <1>2, FS_CardinalityType
<1> QED
  BY <1>2, <1>3

LEMMA NextOverrun == IInv /\ OverrunIsLate /\ [Next]_vars => OverrunIsLate'
<1> SUFFICES ASSUME IInv, OverrunIsLate, [Next]_vars
             PROVE  OverrunIsLate'
  OBVIOUS
<1>1. /\ TypeOK /\ count \in Int /\ Enough \in Nat \ {0} /\ Alpha \in Nat \ {0}
      /\ Cardinality(active) \in Nat
      /\ collecting => phase \in {"first", "second"}
  <2>1. IsFiniteSet(active)
    BY NodeAssumption, FS_Subset DEF IInv, TypeOK
  <2> QED
    BY <2>1, FS_CardinalityType, BoundsAssumption DEF IInv, TypeOK, CollectsInALoop
<1>2. ASSUME NEW how \in {"list", "value", "novalue", "empty"}, Return(how)
      PROVE  OverrunIsLate'
  BY <1>2 DEF Return, OverrunIsLate
<1>3. CASE NobodyKnown
  BY <1>2, <1>3 DEF NobodyKnown
<1>4. CASE AskFirst
  <2>1. /\ phase = "first" /\ Cardinality(active) < Enough
        /\ count' = Cardinality(Nearest(candidates, Alpha))
        /\ UNCHANGED <<phase, active>>
    BY <1>4 DEF AskFirst, AskNearest
  <2>2. count' <= Alpha /\ count' \in Nat
    BY <1>1, <2>1, PoppedAtMost, PoppedFacts
  <2> QED
    BY <1>1, <2>1, <2>2 DEF OverrunIsLate
<1>5. CASE AskSecond
  <2> DEFINE free == Enough - Cardinality(active)
  <2>1. /\ phase = "second" /\ Cardinality(active) < Enough
        /\ count' = Cardinality(Nearest(candidates, free))
        /\ UNCHANGED <<phase, active>>
    BY <1>5 DEF AskSecond, AskNearest
  <2>2. free \in Nat /\ Cardinality(active) + free = Enough
    BY <1>1, <2>1
  <2> HIDE DEF free
  <2>3. count' <= free /\ count' \in Nat
    BY <1>1, <2>1, <2>2, PoppedAtMost, PoppedFacts
  <2> QED
    BY <1>1, <2>1, <2>2, <2>3 DEF OverrunIsLate
<1>6. CASE ReachedEnough
  BY <1>2, <1>6 DEF ReachedEnough, ListOrNoValue
<1>7. CASE RoundTimesOut
  BY <1>7 DEF RoundTimesOut, OverrunIsLate
<1>8. ASSUME NEW n \in Node, TakeFailure(n)
      PROVE  OverrunIsLate'
  <2>1. collecting /\ active' = active
        /\ IF phase = "first" THEN CountDownFirst ELSE CountDownSecond
    BY <1>8 DEF TakeFailure
  <2>2. \/ count' = count - 1 /\ phase' = phase
        \/ collecting' = FALSE /\ phase' \in {"list", "novalue"}
    BY <1>1, <2>1, CountDownFacts DEF ListOrNoValue
  <2> QED
    BY <1>1, <2>1, <2>2 DEF OverrunIsLate
<1>9. ASSUME NEW n \in Node, TakeValue(n)
      PROVE  OverrunIsLate'
  BY <1>2, <1>9 DEF TakeValue
<1>10. ASSUME NEW n \in Node, TakeNodesFirst(n)
       PROVE  OverrunIsLate'
  <2>1. /\ phase = "first" /\ active' = active \cup {n}
        /\ \/ count' = count - 1 /\ phase' = phase
           \/ collecting' = FALSE /\ phase' = "second"
    BY <1>10 DEF TakeNodesFirst, CountDownFirst
  <2> QED
    BY <1>1, <2>1, OneMoreActive DEF OverrunIsLate
<1>11. ASSUME NEW n \in Node, TakeNodesSecond(n)
       PROVE  OverrunIsLate'
  <2>1. /\ phase = "second" /\ collecting /\ active' = active \cup {n}
        /\ CountDownSecond
    BY <1>11 DEF TakeNodesSecond
  <2>2. \/ count' = count - 1 /\ phase' = phase
        \/ collecting' = FALSE /\ phase' \in {"list", "novalue"}
    BY <1>1, <2>1, CountDownFacts DEF ListOrNoValue
  <2> QED
    BY <1>1, <2>1, <2>2, OneMoreActive DEF OverrunIsLate
<1>12. CASE UNCHANGED vars
  BY <1>12 DEF vars, OverrunIsLate
<1> QED
  BY <1>3, <1>4, <1>5, <1>6, <1>7, <1>8, <1>9, <1>10, <1>11, <1>12 DEF Next, Take

\* libkademlia.go:593, 649: for any network and any answers, a list exceeds the bound
\* by less than Alpha and the late results of rounds that timed out; the second loop
\* never makes it longer than the bound.
THEOREM OverrunCorrect == Spec => []OverrunIsLate
<1>1. Init => OverrunIsLate
  BY BoundsAssumption, FS_EmptySet DEF Init, OverrunIsLate
<1> QED
  BY <1>1, InvariantHolds, NextOverrun, PTL DEF Spec

----------------------------------------------------------------------------

\* A front end acts when its lookup is over.
Stages ==
    /\ findValue = (op = "findvalue")
    /\ outcome # "searching" => Returned
    /\ outcome = "storing" => op \in {"store", "findvalue"}
    /\ outcome = "value" => op = "findvalue"

\* DoIterativeStore: who has not been sent the value yet has it or may fail.
ListServed ==
    op = "store" /\ outcome \in {"storing", "contacts"} =>
        /\ phase = "list"
        /\ left \cup stored \subseteq active
        /\ active \ MayFail \subseteq left \cup stored
        /\ outcome = "contacts" => left = {}

\* DoIterativeFindValue: one node is sent the value.
CopyServed ==
    op = "findvalue" /\ outcome \in {"storing", "value"} =>
        /\ left \cup stored \subseteq {Peek}
        /\ Peek \in left \cup stored \cup MayFail
        /\ outcome = "value" => left = {}

\* The inductive invariant of the front ends, beside that of the lookup.
FrontInv == FrontTypeOK /\ Stages /\ ListServed /\ CopyServed

\* The queue answers its smallest node.
LEMMA PeekFacts ==
  ASSUME TypeOK
  PROVE  /\ Peek \in active \cup {Self}
         /\ active # {} => Peek \in active /\ \A y \in active : Peek <= y
<1>1. CASE active = {}
  BY <1>1 DEF Peek
<1>2. CASE active # {}
  <2> DEFINE R == OpToRel(<, Nat)
  <2>0. active \subseteq Nat
    BY NodeAssumption DEF TypeOK
  <2>1. IsWellFoundedOn(R, Nat)
    BY NatLessThanWellFounded
  <2>2. \A x, y \in Nat : <<y, x>> \in R <=> y < x
    BY DEF OpToRel
  <2> HIDE DEF R
  <2>3. PICK x \in active : \A y \in active : ~ (<<y, x>> \in R)
    BY <1>2, <2>0, <2>1, WFMin
  <2>4. ASSUME NEW y \in active
        PROVE  x <= y
    <3>1. x \in Nat /\ y \in Nat /\ ~ (y < x)
      BY <2>0, <2>2, <2>3
    <3> QED
      BY <3>1
  <2>5. \E z \in active : \A y \in active : z <= y
    BY <2>4
  <2> QED
    BY <1>2, <2>5 DEF Peek
<1> QED
  BY <1>1, <1>2

LEMMA InitFrontInv == FrontInit => FrontInv
BY DEF FrontInit, FrontInv, FrontTypeOK, Stages, ListServed, CopyServed

----------------------------------------------------------------------------
\* A step of the lookup leaves what its front end keeps alone.
LEMMA SearchKeeps ==
  ASSUME TypeOK, FrontInv, Search(Next)
  PROVE  FrontInv'
<1>1. outcome = "searching" /\ UNCHANGED front
  BY DEF Search
<1>2. findValue' = findValue
  BY DEF Search, Next, Take, NobodyKnown, AskFirst, AskSecond, AskNearest,
         ReachedEnough, RoundTimesOut, TakeFailure, TakeValue, TakeNodesFirst,
         TakeNodesSecond
<1> QED
  BY <1>1, <1>2 DEF front, FrontInv, FrontTypeOK, Stages, ListServed, CopyServed

\* The lookup has returned.
LEMMA RunsOnKeeps ==
  ASSUME TypeOK, FrontInv, RunsOn
  PROVE  FrontInv'
<1> USE DEF FrontInv, Stages
<1>0. UNCHANGED vars
  BY DEF RunsOn, FindNodeReturns, StoreBegins, CopyBegins, StoresDone
<1>1. UNCHANGED <<findValue, phase, active>>
  BY <1>0 DEF vars
<1>2. Peek' = Peek /\ (Returned' <=> Returned)
  BY <1>1 DEF Peek, Returned
<1>3. CASE FindNodeReturns
  BY <1>1, <1>2, <1>3 DEF FindNodeReturns, FrontTypeOK, ListServed, CopyServed
<1>4. CASE StoreBegins
  BY <1>1, <1>2, <1>4 DEF StoreBegins, FrontTypeOK, ListServed, CopyServed, TypeOK
<1>5. CASE CopyBegins
  BY <1>1, <1>2, <1>5, PeekFacts
     DEF CopyBegins, FrontTypeOK, ListServed, CopyServed, TypeOK
<1>6. CASE StoresDone
  BY <1>1, <1>2, <1>6 DEF StoresDone, FrontTypeOK, ListServed, CopyServed
<1> QED
  BY <1>3, <1>4, <1>5, <1>6 DEF RunsOn

\* A store has ended, with or without an answer.
LEMMA StoreKeeps ==
  ASSUME FrontInv, NEW n \in Node \cup {Self}, Store(n)
  PROVE  FrontInv'
<1> USE DEF FrontInv, Stages
<1>0. UNCHANGED vars /\ n \in left /\ outcome = "storing" /\ op' = op
  BY DEF Store, StoreAnswered, StoreTimesOut, StoreFatal, IsNext
<1>1. UNCHANGED <<findValue, phase, active>>
  BY <1>0 DEF vars
<1>2. Peek' = Peek /\ (Returned' <=> Returned)
  BY <1>1 DEF Peek, Returned
<1>3. CASE StoreAnswered(n)
  BY <1>0, <1>1, <1>2, <1>3 DEF StoreAnswered, FrontTypeOK, ListServed, CopyServed
<1>4. CASE StoreTimesOut(n)
  <2>1. /\ n \in MayFail /\ left' = left \ {n} /\ outcome' = outcome
        /\ stored \subseteq stored' /\ stored' \subseteq stored \cup {n}
    BY <1>4 DEF StoreTimesOut, IsNext
  <2> QED
    BY <1>0, <1>1, <1>2, <2>1 DEF FrontTypeOK, ListServed, CopyServed
<1>5. CASE StoreFatal(n)
  <2>1. /\ outcome' = "down" /\ left' = left
        /\ stored' \subseteq stored \cup {n}
    BY <1>5 DEF StoreFatal
  <2> QED
    BY <1>0, <1>1, <1>2, <2>1 DEF FrontTypeOK, ListServed, CopyServed
<1> QED
  BY <1>3, <1>4, <1>5 DEF Store

LEMMA NextFrontInv == TypeOK /\ FrontInv /\ [FrontNext]_frontVars => FrontInv'
<1> SUFFICES ASSUME TypeOK, FrontInv, [FrontNext]_frontVars
             PROVE  FrontInv'
  OBVIOUS
<1>1. CASE Search(Next)
  BY <1>1, SearchKeeps
<1>2. CASE RunsOn
  BY <1>2, RunsOnKeeps
<1>3. CASE \E n \in Node \cup {Self} : Store(n)
  BY <1>3, StoreKeeps
<1>4. CASE UNCHANGED frontVars
  <2>1. UNCHANGED <<findValue, phase, active, op, outcome, left, stored>>
    BY <1>4 DEF frontVars, vars, front
  <2> QED
    BY <2>1 DEF FrontInv, FrontTypeOK, Stages, ListServed, CopyServed, Peek, Returned
<1> QED
  BY <1>1, <1>2, <1>3, <1>4 DEF FrontNext

----------------------------------------------------------------------------
\* Every step of a front end is a step of the lookup or leaves it alone, so that
\* each theorem about the lookup holds for the three operations.
THEOREM FrontEndsRunLookup == FrontSpec => Spec
<1>1. FrontInit => Init
  BY DEF FrontInit
<1>2. [FrontNext]_frontVars => [Next]_vars
  <2> SUFFICES ASSUME [FrontNext]_frontVars
               PROVE  [Next]_vars
    OBVIOUS
  <2>1. CASE Search(Next)
    BY <2>1 DEF Search
  <2>2. CASE RunsOn
    BY <2>2 DEF RunsOn, FindNodeReturns, StoreBegins, CopyBegins, StoresDone
  <2>3. CASE \E n \in Node \cup {Self} : Store(n)
    BY <2>3 DEF Store, StoreAnswered, StoreTimesOut, StoreFatal
  <2>4. CASE UNCHANGED frontVars
    BY <2>4 DEF frontVars
  <2> QED
    BY <2>1, <2>2, <2>3, <2>4 DEF FrontNext
<1> QED
  BY <1>1, <1>2, PTL DEF FrontSpec, Spec

THEOREM FrontInvHolds == FrontSpec => [](FrontInv /\ IInv)
<1>1. IInv => TypeOK
  BY DEF IInv
<1> QED
  BY <1>1, InitFrontInv, NextFrontInv, FrontEndsRunLookup, InvariantHolds,
     PTL DEF FrontSpec

\* The outcomes and the nodes of a front end keep their types.
THEOREM FrontTypeCorrect == FrontSpec => []FrontTypeOK
<1>1. FrontInv => FrontTypeOK
  BY DEF FrontInv
<1> QED
  BY <1>1, FrontInvHolds, PTL

\* Every node that DoIterativeStore returns and that did not fail has the value, and
\* no node but those it returns, whatever the number of nodes and the failures.
THEOREM StoreCorrect == FrontSpec => []StoredAtAllListed
<1>1. FrontInv => StoredAtAllListed
  BY DEF FrontInv, ListServed, StoredAtAllListed, Listed
<1> QED
  BY <1>1, FrontInvHolds, PTL

\* A value that DoIterativeFindValue returns was copied to the nearest node that
\* answered without it, and to no node that has it.
THEOREM CopyCorrect == FrontSpec => []FoundMeansCopied
<1>1. FrontInv /\ IInv => FoundMeansCopied
  <2> SUFFICES ASSUME FrontInv, IInv, outcome = "value"
               PROVE  /\ stored \cap Holder = {}
                      /\ \A n \in active : (\A y \in active : n <= y) =>
                             n \in stored \cup MayFail
    BY DEF FoundMeansCopied
  <2>1. TypeOK /\ HoldersAreHeard
    BY DEF IInv
  <2>2. /\ op = "findvalue" /\ findValue
        /\ stored \subseteq {Peek} /\ Peek \in stored \cup MayFail
    BY DEF FrontInv, Stages, CopyServed
  <2>3. Peek \notin Holder
    BY <2>1, <2>2, PeekFacts, SelfAssumption, SetsAssumption DEF HoldersAreHeard
  <2>4. ASSUME NEW n \in active, \A y \in active : n <= y
        PROVE  n = Peek
    <3>1. Peek \in active /\ n <= Peek /\ Peek <= n
      BY <2>1, <2>4, PeekFacts
    <3>2. n \in Nat /\ Peek \in Nat
      BY <2>1, <3>1, NodeAssumption DEF TypeOK
    <3> QED
      BY <3>1, <3>2
  <2> QED
    BY <2>2, <2>3, <2>4
<1> QED
  BY <1>1, FrontInvHolds, PTL
============================================================================
